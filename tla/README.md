# VRCResolver in TLA+

VRCResolver makes videos play in VRChat: it puts a small wrapper in the place of
the `yt-dlp.exe` VRChat downloads, resolves what the wrapper is asked for through a
remote service, and hands every failure back to VRChat's own yt-dlp. This directory
models its core logic in TLA+, checks the models with TLC on small instances, and
proves the most important properties with TLAPS for all instances.

Paths such as `mesh/client/` are below `src/crates/vrcr-watchdog/src/` unless another
crate is named.

1. [The system](#1-the-system)
2. [The modules](#2-the-modules)
3. [The runs](#3-the-runs)
4. [The proofs](#4-the-proofs)
5. [What the models leave out](#5-what-the-models-leave-out)
6. [The plan](#6-the-plan)

`PROJECT.json` is the index: components, runs, one mutant per property (a change of the
modelled code the property must reject), the source lines of every definition, the
hazards and the properties that guard against them, and the theorems.

## 1. The system

```
 VRChat (AVPro / Unity player)
   |  runs Tools/yt-dlp.exe                    ^ prints a URL, or what yt-dlp says
   v                                           |
 yt-dlp wrapper (vrcr-ytdlp) ----fallback----> yt-dlp-og.exe, VRChat's own
   |  named pipe: resolve, og_fallback, og_failed
   v
 watchdog (vrcr-watchdog)
   |- IPC server -> native-fallback hint -> health gate -> resolve cache -> mesh client
   |- mesh client  == WebSocket ==> vrcresolver.com
   |- local relay  <== the player fetches the stream through it
   |- log monitor  <== VRChat's output log: plays that start, stall, fail
   |- patch manager == Tools folder (yt-dlp.exe, yt-dlp-og.exe, *.stale-*)
   `- hosts file, certificates, codecs, settings, terminal
 updater, uninstaller: separate programs that stop the watchdog and change its files
```

The watchdog is one process with a multi-threaded async runtime and a few threads. Its
parts share state through mutexes, atomics and watch channels; nothing is handed from
one part to the next under a common lock. The wrapper is started anew for each video
and knows nothing of the past. VRChat, the server, the network, antivirus programs and
the user act at any time.

### Components, their state, and what makes them correct

**Mesh client** (`mesh/client/`). State: the current link, the ready link, whether a
connect is in flight, since when the link is down, the protocol version, the rate-limit
cooldown, and two maps of pending requests. Operations: the runner (connect, pump, back
off), one welcome task per link, the frames of the server, `resolve` (wait for a link,
send, wait for the answer, resend once), the heartbeat and the probe of a quiet link,
`stop`. Hard: five kinds of tasks touch the same cells without a common lock; a link may
die between any two accesses; waiters subscribe to a change after having looked.
Correct: a request is resent at most once and never on the same link, nothing is sent
before the welcome, no wake-up is lost, every resolve ends with exactly one answer and
leaves no entry behind, `stop` returns.

**Welcome cache, error reporter** (`mesh/welcome_cache.rs`, `mesh/reporting.rs`). One
small file per node, rewritten whole; at most 20 reports per session, 30 s apart.
Correct: a damaged file is ignored, the budget is never exceeded.

**IPC server** (`ipc/server/`). State per pipe client: the request, its deadline, its
retries. Operations: `resolve` (hint, gate, cache, mesh with retries, reply, store,
record), `og_failed` (evict, block, clear the hint), `og_fallback` (shown, and a rejected URL told to the server).
Hard: up to 128 clients at once; the gate is asked twice under two locks; the reply is
written before it is cached. Correct: every request ends, a probe's outcome is recorded,
a request is not sent back to the resolver that just failed on it.

**Health gate** (`health.rs`). State: closed, open, half open with or without a verdict
pending, two failure streaks, two time stamps. One lock. Correct together with its
callers: it opens after a run of failures, and never stays shut.

**Native-fallback hint** (`og_hint.rs`). URLs to be left to VRChat's own resolver for a
while, and sites that resolver is blocked for. Correct: the two never trap a video.

**Resolve cache** (`resolve_cache.rs`). A map of at most 500 entries with an expiry,
written to one file 5 s after the last change. Operations: lookup, store, evict, find the
source of a resolved URL, load, flush. Hard: the dirty flag is cleared and the snapshot
taken under the lock, the file written outside it; two flushes share one temporary file.
Correct: an expired or evicted entry is never served, a flush does not lose a change.

**Log monitor** (`monitoring/vrclog/`). Tails VRChat's log; per play: opened, playing,
stalled, failed. It tells hint, cache and gate about failed and confirmed plays. Hard:
lines arrive late and for plays of the past. Correct: only plays it can attribute to this
program count.

**Patch manager, Tools folder, wrapper identity** (`maintenance/patch/`,
`vrcr-shared/src/tools.rs`, `wrapper_identity.rs`). State: what lies in `yt-dlp.exe`,
`yt-dlp-og.exe` and the files moved aside; the stamp of the last tick, whether the tools
are restored, the clean-exit flag. Operations: recovery at the start, the tick that
installs the wrapper over a backup, restore at shutdown. Hard: every operation is a
sequence of file system calls, any of which may fail or be the last before a kill, while
VRChat downloads and runs the very files. Correct: the wrapper never stands without the
complete binary it falls back to, and that binary is never lost.

**Shutdown, lifecycle, start-up** (`maintenance/shutdown.rs`, `app/`). A coordinator with
one shared execution: restore the tools first, then steps with budgets of their own
within 12 s. Triggers: Ctrl-C, window closed, log-off, the terminal, an update. Correct:
the restore happens once and first, whatever the trigger and its repetition.

**Local relay** (`relay/`). An HTTP(S) server on a published port which fetches the
stream for the player, rewrites manifests, limits itself to 128 exchanges, and records
slow segments. State: port files, exchanges in flight, remembered bases, tracked streams.
Correct: an exchange is always counted out, the published port is one that is served.

**Relay certificates, hosts entry, codecs, settings, self-update hand-over** (`relay/tls/`,
`hosts.rs`, `maintenance/codec.rs`, `settings.rs`, `maintenance/update.rs`). Small
sequences of steps on the system's state, some of them elevated, with retry windows and
"declined this session" flags. Correct: what was declined is not asked again at once, a
damaged file is set aside and not overwritten, a half-done pair is completed or undone.

**Statistics, monitors, terminal** (`stats.rs`, `monitoring/`, `terminal/`). Counters,
samples and presentation; nothing is decided on them.

**Yt-dlp wrapper** (crate `vrcr-ytdlp`, `vrcr-shared/src/budget.rs`). State: the time since
its start, whether the pipe could be reached, the server's hint when to ask again, the
server's reason. Operations: the ask over the pipe with one retry of the connect,
`exec_fallback` with VRChat's own yt-dlp under a window, the reports, the re-ask. Hard:
each await takes any time up to its timeout, and the timeouts of two programs must fit
together. Correct: a URL in time or the native answer, one answer only, always an end.

**Updater, stopping a running watchdog, uninstaller** (crates `vrcr-updater`,
`vrcr-uninstaller`, `vrcr-shared/src/stop.rs`). The updater stages new files, swaps them in
one by one and rolls back; the uninstaller undoes step by step; both ask the watchdog to
stop, wait 5 s and terminate it. Correct: after a failed swap the old program is whole.

**URL policy, wire formats, logging and Windows bindings, build helper.** Pure functions
and I/O.

### Interactions

| from | to | by | modelled in |
|---|---|---|---|
| VRChat | wrapper | starts a process, reads stdout and the exit code | Shim |
| wrapper | IPC server | one line over a pipe, with a deadline | Shim (its side), IpcResolve (the server's) |
| wrapper | yt-dlp-og.exe | child process, killed as a tree | Shim |
| IPC server | hint, gate, cache | method calls, one lock each | IpcResolve, HealthGate |
| IPC server | mesh client | `Mesh::resolve`, cancelled by a deadline | MeshClient; its promise in ResolvePromise |
| mesh client | server | WebSocket frames | MeshClient |
| log monitor | hint, cache, gate | method calls | IpcResolve |
| patch manager | VRChat | the files of the Tools folder | PatchManager, ToolsFolder |
| shutdown | patch manager | `restore_now` | PatchManager (file by file), Lifecycle (in its order) |
| shutdown | terminal, monitors, IPC, relay, mesh, cache | one step each, with a budget | Lifecycle |
| player | relay | HTTP requests, bodies in chunks, connections that drop | RelayServer |
| relay, pipe | their readers | bytes cut anywhere | Lines |
| relay | wrapper | `relay_port.txt`, `relay_scheme.txt` | PortFile |
| VRChat | log monitor | the lines of its logs, one log per session | Playback |
| log monitor | relay's port file | bypass and release | Playback, PortFile; Lifecycle |
| relay | Windows | the root store, by an elevated child | RelayTls |
| updater | watchdog | files renamed under it; it takes over the staged updater | Updating |
| uninstaller | watchdog | stops it, undoes what it did | Uninstall, RelayTls, Wininet |
| hosts prompts | Windows | an elevated child per prompt, which may outlive its parent | HostsEntry, Uninstall |

## 2. The modules

| module | models | proofs |
|---|---|---|
| `MeshClient` | the WebSocket client: runner, welcome tasks, resolves, probe, stop | `MeshClientProofs` |
| `ResolvePromise` | what `Mesh::resolve` promises its caller; `MeshClient` implements it | |
| `HealthGate` | the circuit breaker, one operator per method | |
| `IpcResolve` | the tasks of the IPC server with hint, gate and cache, and the log monitor's verdicts; extends `HealthGate` | `IpcResolveProofs` |
| `ToolsFolder` | VRChat's Tools folder: its files, VRChat's downloads and processes, what the file system allows | |
| `PatchManager` | recovery, tick, restore and shutdown, one step per file operation; extends `ToolsFolder` | `PatchManagerProofs` |
| `Budget` | the arithmetic of the wrapper's time (`budget.rs`) | |
| `Shim` | one run of the wrapper against a clock; extends `Budget` | `ShimProofs` |
| `CacheFile` | the resolve cache's way to its file: two writers, one temporary file | |
| `Lifecycle` | start-up, triggers of the end, the one shutdown and its steps; extends `CacheFile` | `LifecycleProofs` |
| `RelayServer` | the relay's connections, pumps, slots and stop | |
| `Lines` | text read in chunks: the lines of a manifest, the line of the pipe | |
| `Relay` | either of the two | `RelayProofs` |
| `PortFile` | where the relay listens and what the files say of it | `RelayProofs` |
| `Playback` | VRChat's sessions and plays, the log monitor, the bypass; extends `PortFile` | `RelayProofs` |
| `Updating` | the updater's swap and rollback, and the watchdog that takes over the staged updater | `UpdatingProofs` |
| `HostsEntry` | the prompts for the hosts entry: two threads, their flags, their elevated children | |
| `Uninstall` | the uninstaller beside a watchdog that may run; extends `HostsEntry` | |
| `RelayTls` | the relay's certificate, the root store, the elevated children, the removal | |
| `Wininet` | the limit of connections: raised by the watchdog, put back by the uninstaller | |
| `Codec` | the codecs: probes, winget, the retry windows, the state file | |
| `Machine` | any one of the last four | `MachineProofs` |

`Relay` and `Machine` join parts that share no state in the code: a behaviour is one of
one part, which the variable `part` names from the start. They exist so that one run
checks small modules, not to claim an interaction.

`PROJECT.json` "map" gives the lines of every definition. In outline:

**MeshClient.** `runner` is the program counter of `Inner::run` and `attempt`
(`connection.rs`): `StartAttempt`, `ConnectSucceeds`/`ConnectFails`, `PumpStops`, then the
steps of `mark_link_down` one by one (`ClearReady`, `StampDown`, `MarkDown`), `EndAttempt`,
`BackOff`. `link[l].arm` is the task `arm_welcome` spawned for link l, up to the three steps
of `mark_link_ready` (`CheckOpen`, `PublishReady`, `SettleReady`). `req[r]` is the future of
one `resolve` (`resolution.rs`): `Begin`, `Register`, `wait_for_link` (`Subscribe` ...
`SelectSettled`), and the send loop (`ReadVersion`, `CheckLink`, `SendCounted` ... `AwaitLinkDown`)
up to `Return`, the drop guard.
`inner` is the record of the shared cells. An access another task can observe is a step of
its own; what happens under one lock, or in between on locals, is one step with it. A
`tokio::sync::watch` subscription is a bell: subscribing silences it, a new value rings it
for those who listen. The server and the network are free: frames of any kind at any
time on an open link, a link that closes, one that goes mute.

**HealthGate and IpcResolve.** The gate's methods hold its lock, so each is an operator
from gate to gate; `open_until` and `verdict_since` are the flags `cooled` and `overdue`.
`req[c]` is the task of one pipe client in `Ipc::resolve`: hint, bypass, gate, second look at
the gate, lookup, mesh and retries, store, record; or in `og_failed`: evict, block, clear.
Each use of hint, gate or cache is a step. `monitor` is the log monitor's
`mark_playback_failure`, whose three calls are three steps. The mesh answers anything.

**ToolsFolder and PatchManager.** A file's content is none, ours (the wrapper), a stub, a
partial download large enough to be classified as VRChat's, or a complete version.
`op` is the operation that holds the manager's mutex and the file system call it is at:
look, discard, move in, move over, aside, replace, put back (`tools::restore`); capture,
drop orphan, copy, refresh, install (`tick_core`); sweep and unsweep. Between any two
calls VRChat may begin or end a download or a run, a file may vanish, a call may fail,
and the process may be killed. A copy made of several reads (`atomic_copy`) is one step
that copies and one that renames.

**Budget and Shim.** The clock `elapsed` jumps: each await takes one of the durations of
`Waits` that lie below its timeout, or the timeout. `pc` is the await the program is at.
`ask` is a call of `resolve_over_pipe`, with its start and its window; `og` a call of
`og::run`.

**CacheFile and Lifecycle.** The cache's contents are the number of changes made to them.
`saver[w]` is a writer inside `save_file` (copy under the lock, open, fill, rename outside it);
its open file is the one it created, wherever the other writer's rename has taken it since.
`main` is the index in `StartUp`, the sequence of what `Core` puts and starts
(`app/run/mod.rs`), then the wait for the end. `exec` is the one execution of
`ShutdownCoordinator::run`: restore, unpublish, collect the parts that are there, then `todo`, the
positions of `StepOrder` still to be taken. A step in `Hangs` may use up its time and go on behind (`LateStep`). `closing` is the console
handler, after whose return Windows ends the process.

**RelayServer and Lines.** `conn[c]` is the task of a connection and the response under way: the
length declared, the chunks that are out and taken, `whole` once all of the body has passed.
`pump[c]` is the task that feeds it. `inFlight` is the counter, given back when the
response's guard is dropped. The client may leave or stop reading at any time, the upstream
fail or fall silent at any chunk, the token be cancelled between any two steps. `Lines` reads
one text chunk by chunk beside the whole: carry, pending CR, byte order mark, a frame and
its limit.

**PortFile and Playback.** `starter` follows `start_relay` through reserve, scheme and listen,
with its falls from HTTPS to HTTP and from a port to a fresh one. `link[p]` is the port in
the URL VRChat opened play p with; `unread[s]` what the log of session s holds that the
monitor has not read, `batch` what it has read of it and handles line by line, all by one
reading of the clock; `opening`, `stall` and `age` are the monitor's, `age` being the time of
both. `wedged` says that this session no longer reaches the relay.

**Updating.** `file` and `aside` are the folder: a release per name, and what was renamed to
`.old-*`. `updater.pc` follows `swap` rename by rename over `Payload`, the order in which
`files_under` yields the files, then deletions, clean-up or rollback. `watchdog.pc` is
`apply_pair`. Either may be killed between any two steps and started again.

**HostsEntry and Uninstall.** `thread` is each of the two threads that may prompt, inside
`ensure`; `child` the elevated child of each, which has read the file or not and writes what
it has read. `uninst.pc` is the step of the uninstaller; `listed` the processes it found.

**RelayTls, Wininet, Codec.** `setup[p]` and `remover` are elevated children, step by step;
`raiser` and `putBack` the two users of the limit and its marker file; `check` the
codec task, of which `state` is the memory and `stateFile` what the next start will know.

### History variables

A few variables are not in the code. They record what a property excepts or compares
to: `newer`, `sentOn` (MeshClient; the server answers only what it was sent), `ogLost`
(ToolsFolder: somebody else deleted the backup), `exec.early` and `exec.back` (Lifecycle: the end
was asked for during the start-up; the port file was published again), `mishap` (CacheFile:
a save failed or two met; Wininet: a marker torn, left unread or wiped too early),
`disturbed` (Uninstall: somebody started a watchdog, or an elevated child, that closing could
not have met), `halfUndone` (Updating: a rollback over the new watchdog has not restored it),
`late` (RelayTls: a child other than that of the served pair took a certificate out), `told` and `lost`
(Codec: what the user was last told, and of which codecs that did not reach the file or went
with it), `entryStays` (Uninstall: why the hosts entry was left), `updater.before` (Updating), `had` and `ours` (Wininet). No action of the program
depends on them.

## 3. The runs

All properties of a run are checked on the complete state space; times are with two
workers.

| run | instance | distinct states | properties |
|---|---|---|---|
| `mesh_faults` | 1 resolve, 2 links, old and new servers, aborts, rate limits | 3,179,027 (76 s) | `NeverTwiceOnALink`, `VersionOfItsLink`, `NoLeakedEntries`, `AnswerIsTaken` |
| `mesh_live` | 1 resolve, 1 link, stop, mute link, failing sends; fair | 58,029 (41 s) | `NoWakeUpLost`, `WaitsEnd`, `KeepsPromise`, `AnswersInTime` |
| `mesh_inflight` | 1 resolve, 2 links | violated at depth 24 | `WaitsForConnectInFlight` |
| `ipc` | 1 client, 1 URL, threshold 3, 2 retries, all events; fair | 185,990 (55 s) | `ProbeIsUnderWay`, `NeverBackToOg`, `RequestsEnd`, `NotShutOut` |
| `tools_safe` | 2 versions, 2 starts, 1 file moved aside, all events | 1,307,744 (30 s) | `WrapperHasFallback`, `OriginalKept` |
| `tools_live` | 2 versions, 1 start; fair | 214,220 (23 s) | `Settles` |
| `shim` | the code's own numbers in units of 250 ms; fair | 804,480 (21 s) | `InTime`, `NeverWorse`, `AnswerIsHeard`, `ReAskKept`, `AlwaysEnds` |
| `lifecycle` | 4 triggers, 2 changes of the cache, a hanging step | 1,406,482 (75 s) | `NativeBeforeStop`, `GoneWhenStopped`, `LastAnswersKept`, `NeverStuck`, `FileOnlyAdvances`, `EndComesNearer` |
| `relay` | 2 connections, 1 slot, 2 chunks; texts of 5 bytes, frames of 3; fair | 76,001 (17 s) | `SplitsTheSame`, `CleanEndIsComplete`, `SlotsCounted`, `TasksEnd` |
| `playback` | 2 plays, 2 sessions, 1 line unread, windows of 1 and 2; fair | 611,906 (58 s) | `FailedOnce`, `PublishedIsServed`, `BypassEnds` |
| `update` | the manifest, an added file, staged updater and watchdog, two dropped files, kills and failures anywhere | 1,360,489 (24 s) | `AllOrNothing`, `NothingLost`, `VersionTellsAll` |
| `machine` | 2 certificates, 2 codecs, 4 days, windows of 1 and 2 | 2,762,085 (62 s) | `LeavesNothing`, `SecureIsTrusted`, `TracesGone`, `NotRetriedEarly` |

Deadlock is checked in `ipc`, whose server always goes on. Everything else may really stop,
or is stopped by a bound: a client whose links are used up, a wrapper or an updater that has
ended, a process that is gone.

### What they show, and why the bounds are enough

**mesh_faults.** A resolve uses at most two links, so two links show every drop and
resend with faults. A request is stamped once and keeps its stamp when it is resent, so that a
resend to an old server still says 2; `stamp` is the link it was put on for. What must not
happen is that it comes from before that link: two links, of a server that tells version 2 and
one whose welcome is not read or never comes, show it. Sends that fail are among the events of `mesh_live`. The resolves share the maps, the link and the rate limit but never wait for each
other; the proofs cover any number of them.

**mesh_live.** `KeepsPromise` is refinement: `ResolvePromise` with `asked`, `heard` and `answer`
mapped to the resolves that left "idle", the requests on any link, and `result`. Together
with `AnswersInTime` it says that each resolve gets exactly one answer and gets it, and one
in the server's name only for a request that was sent. One link suffices for what waits:
everything a waiter may miss (a ready link, a settled connect, a shutdown) is announced
once per link. `NoWakeUpLost` is what the two waits of a resolve rely on: whoever looked in vain
is woken for what came between the look and the wait, since it listens before it looks
(`enable` in `wait_for_link`).

**mesh_inflight** is a disagreement of code and test. `mark_link_ready` is run by the welcome
task of a link and ends with `settle_connect` (`connection.rs:246`), without asking whether
its link is still the current one. If the link dies after the check in line 238 and the
runner has begun the next attempt, this call sets `connect_in_flight` back to false, and a
resolve past its grace gives up as unreachable although a connect is under way. The test
`resolve_waits_for_a_connect_already_in_flight_past_the_grace`
(`tests/integration/mesh_live/reconnect_cases.rs:36`) says that such a resolve waits. The
effect is one video handed to the native resolver.

**ipc** has the code's threshold and number of retries. With one client its requests,
its reports and the verdicts of the log monitor already meet the gate in every order; a
second client adds records of outcomes, which do not keep the gate shut. That a probe is
under way for any number of clients is proved.

**tools_safe.** Two versions tell the backup from the binary VRChat replaced it by; two
starts are what a kill and its recovery need, a third would recover from the same
states; one file moved aside covers the case that there is one to bring back and
the case that the name for a second is taken. `OriginalKept` does not count a download under way as
VRChat's binary, and excepts one step (`NewerOverwritten`): a restore that found a newer
binary discards the backup without looking again, and VRChat may have begun to download over that
binary (`tools.rs:98`). If the download is interrupted, none is left: the run does reach this.
**tools_live** asks for progress
once VRChat leaves its folder in peace; a stub or half a download that nobody
completes is excepted (`Peace`), because the code then waits for VRChat on purpose.

**shim.** The numbers are the code's: 28 s in all, 5 s for the native resolver, 5 s for the
re-ask, and so on. Waits of 0, 0.5 s and 17.5 s and hints of 0, 4.75 s and 25 s fall on both
sides of every comparison. A URL is printed within 28 s; a run is over after 41 s at most
(28 + 5 + 2 reports of 1.5 + 5 to kill or drain). `AnswerIsHeard` relates the two programs: the
watchdog takes at least a second (`effective_budget_ms`), and the shortest re-ask is two.

**lifecycle.** The triggers are those that differ in what they wait for. Each is pulled at
any point, so that a shutdown meets every prefix of the start-up. Two changes are the least
for which an older copy can reach the file after a newer one. One hanging step
(IPC, the one that others depend on) shows a step that is left behind and comes late. A restore
that fails leaves the wrapper in place and changes nothing else, and `NativeBeforeStop` excepts it;
the run leaves it out, the proofs include it. `NeverStuck`
states what liveness would, without fairness: while main waits, somebody it waits for can go on. `EndComesNearer` adds a measure: each step of
main, of the shutdown and of its save makes `StepsLeft` less, and no step of anybody else makes it
more, neither answers that still come in nor a second request for the end. Together they say that
the end comes after 35 of these steps at most.
What `LastAnswersKept` and `FileOnlyAdvances` except is the one meeting of two saves that the
code does not exclude: the shutdown's flush does not wait for the thread's.

**relay.** One slot and two connections are the least for which one request finds the relay
full because of another, and a slot that comes back late. Two chunks are a body cut in the
middle, three add nothing. `SlotsCounted` compares the counter with its holders in each state: handlers,
pumps, requests that are about to be refused, and slots not yet given back. Five bytes with a carriage return, a line feed, a byte order mark
and a letter, cut everywhere, contain every position of a cut; a frame of three is shorter,
equal and longer than their lines.

**playback.** Two plays are one and the one that takes its place; two sessions are the one
that is cut off and the next. The two windows only have to be ordered as in the code.
One line waits to be read at a time: a poll that finds more handles them one after the other
by the same clock, which the proof of `FailedOnce` covers for any number. `PublishedIsServed` is about
a start that got a port. If none can be reserved (`ports.rs:48`), the start goes on without a
relay and nobody deletes the files of a watchdog that was killed: they name a port that nobody
serves, and the run includes that.

**update.** The release has one file of each kind: the manifest, a file that is added, the
staged updater and the watchdog; the installed one has two that are dropped, so that the
deletes may stop between them. Files of a kind are treated alike, one after the other, and the proofs
hold for any number of each.

**machine.** Two certificates are that of this start and that of an earlier one, whose child
may be late; two codecs are one with one store id and one with two; four days lie before, in
and after both windows. In the order of the properties: an uninstall, certificates,
limit and certificates, codecs. What they except is in the code:

* the hosts entry may stay although the uninstaller reports no error (`entryStays`). The user is told
  when the program is missing, when the prompt is declined and when the child takes too long. The
  user is not told when the hosts file cannot be read, which is reported as "entry already absent"
  (`main.rs:101`), or when Windows gives no handle of the child, which counts as exit code 0
  (`win/certificates.rs:219`);
* for the same reason a removal of the certificates may be reported as done while they are still
  trusted (remover "unseen"); `TracesGone` is about those that were seen to succeed;
* a result of the codec check that was told to the user and then lost, to a kill before the one save
  at its end, to a save that failed or with the file, is not remembered (`lost`): the codec may be
  tried again at once, and only the file's older result counts.

### Fairness

A run that checks liveness states what the code's scheduling gives, and no more.

* MeshClient: tokio polls every task that is ready and its timers fire, so the
  runner, each welcome task, each resolve's own steps, the end of the grace, the probe of
  a quiet link and `stop` are weakly fair. The peer, the network, the callers and
  the request's deadline owe nothing; only `AnswersInTime` assumes that the
  deadline around a resolve passes, which `timeout_at` in the IPC server sees to.
* IpcResolve: client tasks, timers, hint expiry and the monitor are weakly fair.
  `NotShutOut` needs requests to keep coming: strong fairness of an arrival, as players in
  VRChat keep loading videos, and a link that stays up (its premise). Plays owe nothing.
* PatchManager: the thread ticks, operations go on, the gap between patches ends. VRChat owes
  nothing.
* Shim: the program's own steps and its timeouts. The watchdog, the native resolver
  and whoever holds its output open owe nothing.
* RelayServer: the accept loop, each connection, each pump and the release of a slot are
  weakly fair; the end of a connection by the token is strongly fair, since `drive` polls the
  token each time it is polled, so that a busy client cannot keep it from being seen. Clients and
  upstreams owe nothing but what time-outs force: that slots come back (`TasksEnd`) is asked only of behaviours
  whose requests end.
* Playback: the monitor's loop goes on to the last line of what it has read, and the newest log is looked for every few polls
  (strong fairness of a poll that looks). VRChat, the player and the relay owe nothing.

## 4. The proofs

TLAPS proves the following for every value of the constants that satisfies the modules'
assumptions: any number of requests, links, clients, URLs, versions, starts, plays, sessions,
changes of the cache, connections, certificates and files of a release, every threshold, every
length of a delay, a body or a text. Where a run checks the same property it does so on a small
instance. `ReleaseAssumption` (Updating) says of a release that its files are finitely many and that
it does not drop what it brings; that the watchdog comes last and the staged updater before it is
in `Payload`, for it is what the order of the bytes of the names gives in `files_under`:
"vrcresolver.Updater.next.exe" sorts before "vrcresolver.exe".

| module | theorem | proves |
|---|---|---|
| `MeshClientProofs` | `TypeCorrect`, `ResentAtMostOnce`, `OncePerLink` | `TypeOK`, `ResentOnce`, `NeverTwiceOnALink` |
| | `VersionAlwaysOfItsLink`, `EntriesNeverLeak` | `VersionOfItsLink`, `NoLeakedEntries` |
| | `ArrivedIsReturned`, `PromiseKept` | `AnswerIsTaken`, `KeepsPromise` |
| | `WakeUpsNeverLost` | `NoWakeUpLost` |
| `IpcResolveProofs` | `IpcTypeCorrect`, `ProbeAlwaysUnderWay`, `NotSentBackToOg` | `TypeOK`, `ProbeIsUnderWay`, `NeverBackToOg` |
| `PatchManagerProofs` | `PatchTypeCorrect`, `BackupAlwaysComplete`, `WrapperAlwaysHasFallback`, `StoppedAlwaysNative`, `OriginalAlwaysKept` | `TypeOK`, `BackupIsComplete`, `WrapperHasFallback`, `StoppedMeansNative`, `OriginalKept` |
| `ShimProofs` | `ShimTypeCorrect`, `AlwaysInTime`, `NeverWorseEver`, `AnswerAlwaysHeard`, `ReAskAlwaysKept` | `TypeOK`, `InTime`, `NeverWorse`, `AnswerIsHeard`, `ReAskKept` |
| `LifecycleProofs` | `NativeAlwaysBeforeStop`, `PortsAlwaysGone` | `NativeBeforeStop`, `GoneWhenStopped` |
| | `AnswersAlwaysKept`, `FileAlwaysAdvances` | `LastAnswersKept`, `FileOnlyAdvances` |
| | `EndAlwaysComesNearer` | `EndComesNearer` |
| `RelayProofs` | `CleanEndAlwaysComplete`, `SlotsAlwaysCounted` | `CleanEndIsComplete`, `SlotsCounted` |
| | `AlwaysSplitsTheSame` | `SplitsTheSame` |
| | `AlwaysPublishedIsServed`, `AlwaysFailedOnce` | `PublishedIsServed`, `FailedOnce` |
| `MachineProofs` | `AlwaysTrusted`, `TracesAlwaysGone`, `NeverRetriedEarly`, `NothingLeft` | `SecureIsTrusted`, `TracesGone`, `NotRetriedEarly`, `LeavesNothing` |
| `UpdatingProofs` | `Atomic`, `FilesKept`, `VersionTrusted` | `AllOrNothing`, `NothingLost`, `VersionTellsAll` |

Each module proves an inductive invariant: it holds initially, each action preserves it
(a lemma per action or group of actions), and it implies the properties. The type
invariants, `ResentOnce`, `BackupIsComplete` and `StoppedMeansNative` are proved without a run
of their own.

**MeshInv** adds to the two properties that sends are counted (`SendsCounted`: a resolve
has sent at most once per counted drop, and once more while it awaits an answer), that
whoever sends holds a link, and `SentLinksAreDown`: a link that has had a request is down,
or the request waits on it. The last is why a request never goes twice to a
link: the ready link a waiter finds is not down at the time, and a link that is down
stays so.

**VersionInv** explains the version, one cell for the whole client that any task may read
or write: a newer version is the last link's (`VersionOfLastLink`), earlier links are down
(`EarlierLinksDown`) and nobody knows of a link that was not opened (`KnownLinksOpened`). A stamp
is of the link the request goes out on or of an earlier one, and the version was negotiated on a
link since. It
rests on the order in `attempt`: a link is marked down before the runner goes back for
another, and the version is forgotten before that one opens.

**ReplyInv** and the refinement. A resolve has ended when it is done (`EndedIsDone`), and an
answer in the server's name is only left for one that was sent (`AnswerWasSent`). Every step
is then one of four sorts: an answer arrives for somebody (`Arrives`), a resolve begins
(`Begins`), goes on without sending (`GoesOn`), or ends with what `AnswerIsTaken` asks
(`Ends`). Under `ResolvePromise!` each of the four is a step of the promise or changes nothing
of it; the sends go to "ask". This is the safety half of the refinement, which is all
that `ResolvePromise` states; that an answer comes is `AnswersInTime`.

**WakeInv** is about bells. While a connect is in flight the runner is at it; whoever listens for a
link has its bell rung if a link is ready, and whoever waits past the grace either has the bell
of the settled connect rung or a connect is in flight. The steps that make a link ready or settle
a connect ring in the same step (`SystemCalls`), so that only the listeners' own steps, which
register before they look, have to be followed one by one.

**IpcInv** adds `RetryLeft`: who waits for a retry has one left. `ProbeIsUnderWay` is then
inductive: the only step into the probe phase is that of a request which goes on to look
at the gate a second time, and each way out of its task passes `Record`, or happens when
the gate has left the phase or its verdict is overdue. **OgInv** follows a request whose
video the native resolver is known to fail on: it re-asks or its site is still blocked, and
it has not passed the test of the block as one that is not. So neither the hint nor the
gate can send it back. Where a block runs out in the middle, the request is no longer one the
property is about.

**PatchInv** is `TypeOK` and `Safe`. `Safe` says of each operation midway what it relies on: the
backup stands while it is about to be used (`BackupStands`), what was found complete is so
unless a download began since (`FoundIsComplete`), a copy is of something complete, an
orphaned wrapper is still the wrapper, a restore that has not failed has put the wrapper
away, and a shutdown is the last operation of a process. The invariants of the files alone
are not inductive: the step that installs the wrapper does not look at the backup again.
The proofs use two facts of the environment that `ToolsFolder` states: VRChat keeps the file
locked while it downloads, and a download that begins in the middle of an operation
outlasts it.

**ShimInv** bounds the clock at each await (`VideoTimed`), an ask by its deadline and its
connect by the ask (`AskTimed`), the native resolver by its window (`WindowKept`), and says
which states of the native resolver occur where (`NativeKnown`). The assumption `BudgetFits`
states how the code's constants fit together, in six inequalities; whoever changes one of
the constants can read off what has to hold. With it the proofs hold for all budgets and
all delays, where the run has three.

**LifeInv** says that the original stays once it was restored (`NativeOnceRestored`: a tick
asks for that), that no step comes before the restore (`RestoredFirst`), and that parts are
stopped by steps only (`StoppedBySteps`). **PortsInv** adds that a shutdown asked for after the
start-up finds the port file's owner (`ShutdownFindsPorts`: it is put before the patcher and
the relay start) and that a file deleted then stays so.

**CacheInv** is about the two writers of the cache's file. As long as two saves have not met,
at most one saves, and what the file, the temporary file and the copy hold are three points of
time in that order (`CopyIsAhead`); `WrittenOrSaving` adds that what is not dirty is in the file
or in the copy of the one that saves. **AnswersInv** is about the order of the shutdown: an
undisturbed one finds the parts that fill the cache (`PartsArePut`), has a step for
each that still runs (`StepsToTake`), and by the time it has come to the cache nothing else is left
and nobody changes it (`CacheIsLast`). With `WrittenOrSaving` the last answers are in the file.

**EndInv** is what the measure of `EndComesNearer` needs: where main is, which steps are left
(`TodoCounted` counts them without one) and where the last save is. `NearerIsBounded` adds that
the measure begins with 35 and stays a natural number, so that the steps end.

**ServerInv** says of each connection (`Sound`) that as long as its body is not whole, what is
out falls short of what was declared, and that a pump which is done with it has cancelled the
connection. A response of an undeclared length ends well only by its pump's own last step.

**SlotsInv** counts. The slots are as many as their holders (`SlotsCounted`), who are finitely many
among the connections, whose number is not bounded: a step keeps the holders, adds the one
connection that takes a slot, removes the one that gives it back, or hands it from handler to pump,
and the counter changes with them. Those just refused are counted beside the holders until they
have given theirs back, and a slot is only kept where the limit was not yet reached.

**LinesInv** goes along the text. The lines given so far and those of what the splitter keeps and of
what is to come are the lines of the whole (`LinesSoFar`), where a line feed at the start of
what is to come does not count if the last chunk ended with a carriage return (`AfterCr`); the frame
and the first line of what is to come are the first line of the whole, as far as it fits
(`FrameSoFar`). What a chunk of any length contributes needs an induction over texts. The library's
theorems of induction are out of reach, but that the proper subsets of a finite set are
well-founded is stated about sets: a set of naturals has a least element (`LeastNatural`), so
whatever holds of a text if it holds of all shorter ones holds of all (`RankInduction`, with a
set in place of the operator), and the recursive functions of `Lines` are what they say
they are (`RecursiveFunction`).

**PortInv** ties the two files to the point the start of the relay has reached (`FilesFollow`),
through every fall to another port or scheme, and says that a bypass takes them away only from a
relay that is up. **FailInv** says why a play is not counted twice, for its line and for its silence.
The line that opens a play is in one place at most: one log or the batch (`ToldOnce`). As long as
it is there nothing was counted (`NewWhileUntold`), and a play that was counted is not waited for, and
is too old for an error line to be taken for its own (`CountedIsOld`), because the window of the
silence is the longer one. For this the lines of a poll must all be handled by one clock,
which is why the model has `batch`.

**MachineInv** has a part per module. `TlsInv`: nothing adds a certificate while a removal goes
on, and its child, once past the stores, has emptied them or says that it has not.
`LimitInv`: a value that is ours has a marker, and watchdog and uninstaller are never both at
it. `CodecInv`: what the user was told and was not lost is in memory while a check runs, and in
the file when none does; what was lost is there as the file had it. `UninstInv`: past the step that closes the programs nobody is left at
work unless somebody disturbed it (`NobodyLeft`), which rests on that step having found
the watchdog (`AllListed`); from there on the steps that follow find the tools, the entry and the
program as they leave them.

**UpdateInv** goes along `Payload`, whatever the order of the others in it. What the swap has passed is new
(`PassedIsNew`), what it has renamed on the way is noted with the content the run found and stands
aside (`PassedIsNoted`, `NotesRight`), and what is noted has been passed (`NotesPassed`), so that the
rollback, which undoes the notes in the order of the swap, knows what remains to undo
(`StillToUndo`, `PutBackNext`) and ends with what the run found (`UndoneIsAsFound`). The watchdog is
last (`AtWatchdog`): its version tells that the rest is new (`VersionTellsAll`), and no run begins where
it does (`NotYetNew`). What the new release drops is deleted after the last file of it is in, one
file after the other and the manifest known, so that none is missed (`AllHere`). That each file has
exactly one place in the payload (`PayloadFacts`) comes from the bijection of a finite set with
1 .. n.

Only model-checked:

* everything about liveness (`WaitsEnd`, `AnswersInTime`, `RequestsEnd`, `NotShutOut`, `Settles`,
  `AlwaysEnds`, `TasksEnd`, `BypassEnds`),
  which rests on fairness and is beyond the prover. What `WaitsEnd` and `TasksEnd` rely on
  at each step are theorems: `NoWakeUpLost` and `SlotsCounted`;
* `NeverStuck`, which is stated with ENABLED, and the prover cannot expand that. The other half of
  what it is for, that the steps it finds are bounded in number, is `EndAlwaysComesNearer`.

`WaitsForConnectInFlight` is violated by the code and has no theorem. Every other property of a
run is one.

## 5. What the models leave out

* Contents of frames, URLs, file names, log lines, statistics, presentation. A frame has a
  kind, a URL is a value, a file's content one of a few sorts.
* MeshClient: the dialling itself, the reconnect counter and the lengths of the back-off,
  playback feedback and reports, the cached welcome (it settles a welcome as any other).
* IpcResolve: the limit of 128 clients, the size of the cache's map, times other than
  "has passed". A deadline hit with a full window counts as a failure, with less as a
  decline; which of the two is free.
* PatchManager: the removal of PyInstaller folders, `halt.flag`, the cache of classifications,
  wrappers known by hash only. A restore that
  fails while the wrapper is missing is not tried again by the code; the liveness run
  assumes that the wrapper is there. What other programs delete is excepted where it makes
  the promise void (`ogLost`).
* Shim: computation between awaits takes no time; a process is gone `KillTime` (5 s) after
  `kill_tree` begins, which the code does not bound. The ties of equal times are free. The
  exit code is 0 or not; stderr and the wrapping of URLs for the gateway are left out, and so
  is the failure to build a runtime before the first step.
* Lifecycle: the lengths of the budgets (a step ends in time or does not), arguments, banner,
  and tasks nobody waits for. CacheFile: what makes a file unreadable.
* RelayServer: targets, headers, the guard of addresses, redirects, and what a line of a
  manifest is rewritten to; a manifest over 64 MB, which the code cuts on purpose.
* Playback: bytes and encodings of the log, the height that was delivered, the records of slow
  segments. Files of the port that cannot be written.
* Updating: the release, the download, its hash and the archive are choices that end a run; the
  `.new-*` copies, whose names are random, are nobody's to read.
* Uninstall and Machine: files of older versions, the script that deletes the uninstaller
  itself, the state folder's other files; a certificate is known by its pair and by whether it
  is soon to expire.

The models assume of the environment, outside this repository: a running image can be
renamed but not replaced or deleted; VRChat keeps `yt-dlp.exe` locked while it downloads;
names of files moved aside count seconds; the prompt for elevation goes away with who
asked for it, but an elevated child that has begun outlives its parent; Windows ends a process
after its console handler has returned.

### Not modelled

The terminal, statistics, monitors, error reports, the settings file, wire formats, the build
helper: they decide nothing that a property of more than one step could be about, or are
presentation and I/O. The welcome cache is one file per node, rewritten by the one task that
reads it; what it does to the client is a welcome like any other. Dialling, the creation of the
pipe, and Windows bindings are calls whose outcome the models leave open. `PROJECT.json`
"components" has the reason for each.

## 6. The plan

Done, in the order of the harm a mistake does: mesh client, IPC server, Tools folder, wrapper;
shutdown and cache file; relay and log monitor; updater and uninstaller; what is installed
on the machine; and the proofs of section 4.

Left, in the models: two clients of the IPC server against the limit of the pipe, and the
relay's activity that `Playback` uses, composed with `RelayServer`, which supplies it.

Left, in the proofs: the safety halves of the other liveness properties, with a measure as in
`EndComesNearer` where the steps are bounded (the wrapper's run, a request's retries), and
`NeverStuck` with the guards of its actions written out.
