----------------------------- MODULE Lifecycle -----------------------------
(***************************************************************************)
(* The life of a watchdog process (crates/vrcr-watchdog/src/app and        *)
(* maintenance/shutdown.rs): the main thread starts the parts one after    *)
(* the other and hands them over, while Ctrl-C, the closing of the console *)
(* or a command may ask for the end at any point.  The first to ask starts *)
(* the one shutdown there is, everybody after it waits for the same.  It   *)
(* gives VRChat its own yt-dlp back first and then stops the parts that it *)
(* finds, each within a budget of its own.                                 *)
(***************************************************************************)
EXTENDS CacheFile, Integers, Sequences, FiniteSets, SequencesExt

CONSTANTS
    Triggers,       \* bound: who may ask for the end
    Hangs,          \* bound: the steps of the shutdown that may hang
    RestoreFails    \* bound: whether the original may not be put back

ASSUME LifeAssumption ==
    /\ Triggers \subseteq {"ctrl-c", "console-close", "quit", "patch-refused"}
    /\ RestoreFails \in BOOLEAN
    /\ Hangs \subseteq {"terminal", "tickers", "logmon", "ipc", "relay", "mesh", "cache"}

VARIABLES
    main,       \* where the main thread is in StartUp, or what it waits for
    proc,       \* the process: up, returned from main, or killed
    life,       \* Lifecycle
    exec,       \* the one execution of the shutdown
    parts,      \* Parts: what was put and not taken
    up,         \* the services that run
    stopped,    \* those that were stopped
    hook,       \* VRChat's yt-dlp: its own, or the wrapper over it
    patcher,    \* PatchManager
    ports,      \* the port file (see PortFile) and RelayBypass.active
    closing     \* the handler of the console's closing waits

lifeVars == <<main, proc, life, exec, parts, up, stopped, hook, patcher, ports, closing>>
vars == <<lifeVars, cacheVars>>

(* A mistake lifecycle must catch: the cache is written before the requests *)
(* that fill it are stopped.                                               *)
CacheFirst == <<"terminal", "cache", "tickers", "logmon", "ipc", "relay", "mesh">>

(* Parts::steps, in its order; the tickers are perf, heartbeat and hosts.   *)
StepOrder == <<"terminal", "tickers", "logmon", "ipc", "relay", "mesh", "cache">>
Services == Range(StepOrder)
Steps == DOMAIN StepOrder
Peeked == {"terminal", "mesh", "cache"}

(* App::watch: "up" starts a part, "put" lets a shutdown find it. *)
StartUp == <<
    <<"install", "shutdown">>, <<"recover", "tools">>,
    <<"put", "mesh">>, <<"put", "cache">>,
    <<"up", "ipc">>, <<"put", "ipc">>, <<"up", "mesh">>,
    <<"put", "ports">>, <<"start", "relay">>, <<"put", "relay">>,
    <<"up", "logmon">>, <<"put", "logmon">>,
    <<"patch", "tools">>,
    <<"up", "tickers">>, <<"put", "tickers">>,
    <<"put", "terminal">>, <<"up", "terminal">> >>
Started == Len(StartUp) + 1     \* waits for somebody to ask for the end
Closing == Len(StartUp) + 2     \* waits for the shutdown

TypeOK ==
    /\ main \in 1 .. Closing
    /\ proc \in {"up", "returned", "killed"}
    /\ life \in [coordinator : BOOLEAN, quit : BOOLEAN]
    /\ exec \in [phase : {"none", "restore", "unpublish", "collect", "steps", "done"},
                 fast : BOOLEAN,
                 early : BOOLEAN,       \* history: it began during the start-up
                 cut : BOOLEAN,         \* history: a step was left behind or skipped
                 back : BOOLEAN,        \* history: the port was published again
                 todo : SUBSET Steps]    \* positions of StepOrder
    /\ parts \in SUBSET (Services \cup {"ports"})
    /\ up \in SUBSET Services
    /\ stopped \in SUBSET Services
    /\ hook \in {"native", "wrapper"}
    /\ patcher \in [ticking : BOOLEAN, restored : BOOLEAN, failed : BOOLEAN,
                    applied : BOOLEAN]      \* history: the wrapper was installed
    /\ ports \in [published : BOOLEAN, bypassed : BOOLEAN]
    /\ closing \in BOOLEAN
    /\ CacheTypeOK

Init ==
    /\ main = 1
    /\ proc = "up"
    /\ life = [coordinator |-> FALSE, quit |-> FALSE]
    /\ exec = [phase |-> "none", fast |-> FALSE, early |-> FALSE, cut |-> FALSE, back |-> FALSE,
               todo |-> {}]
    /\ parts = {}
    /\ up = {}
    /\ stopped = {}
    /\ hook \in {"native", "wrapper"}       \* left by a watchdog that was killed
    /\ patcher = [ticking |-> FALSE, restored |-> FALSE, failed |-> FALSE,
                applied |-> FALSE]
    /\ ports \in [published : BOOLEAN, bypassed : {FALSE}]     \* likewise
    /\ closing = FALSE
    /\ CacheInit

-----------------------------------------------------------------------------
(* Lifecycle::begin and ShutdownCoordinator::run: the first to come decides *)
(* what the shutdown does, the others share it.                            *)
Begin(fast) ==
    exec' = IF exec.phase # "none" THEN exec
            ELSE [exec EXCEPT !.phase = "restore", !.fast = fast, !.early = main < Started]

At(op) == proc = "up" /\ main < Started /\ StartUp[main][1] = op
Advances == main' = main + 1

-----------------------------------------------------------------------------
(* The main thread. *)
InstallShutdown ==
    /\ At("install")
    /\ life' = [life EXCEPT !.coordinator = TRUE]
    /\ Advances
    /\ UNCHANGED <<proc, exec, parts, up, stopped, hook, patcher, ports, closing, cacheVars>>

(* recover_from_unclean_shutdown, unless the shutdown was there before it. *)
Recover ==
    /\ At("recover")
    /\ hook' = IF patcher.restored THEN hook ELSE "native"
    /\ Advances
    /\ UNCHANGED <<proc, life, exec, parts, up, stopped, patcher, ports, closing, cacheVars>>

PutPart ==
    /\ At("put")
    /\ LET part == StartUp[main][2] IN
       parts' = IF part = "relay" /\ "relay" \notin up THEN parts ELSE parts \cup {part}
    /\ Advances
    /\ UNCHANGED <<proc, life, exec, up, stopped, hook, patcher, ports, closing, cacheVars>>

(* What was told to stop before it was started ends at once. *)
StartPart ==
    /\ At("up")
    /\ up' = up \cup ({StartUp[main][2]} \ stopped)
    /\ Advances
    /\ UNCHANGED <<proc, life, exec, parts, stopped, hook, patcher, ports, closing, cacheVars>>

(* initialize and start_relay, in detail in PortFile: the port is published *)
(* and the relay listens, or there is neither; but if no port could be      *)
(* reserved, what a killed watchdog published stays so.                     *)
StartRelay ==
    /\ At("start")
    /\ \E listens \in BOOLEAN, published \in {ports.published, FALSE} :
          /\ ports' = [ports EXCEPT !.published = listens \/ published]
          /\ up' = IF listens THEN up \cup {"relay"} ELSE up
    /\ Advances
    /\ UNCHANGED <<proc, life, exec, parts, stopped, hook, patcher, closing, cacheVars>>

(* PatchManager::start *)
StartPatcher ==
    /\ At("patch")
    /\ \/ /\ patcher' = [patcher EXCEPT !.ticking = ~patcher.restored]
          /\ Advances
          /\ UNCHANGED exec
       \/ /\ "patch-refused" \in Triggers
          /\ Begin(FALSE)
          /\ main' = Closing
          /\ UNCHANGED patcher
    /\ UNCHANGED <<proc, life, parts, up, stopped, hook, closing, ports, cacheVars>>

(* wait_quit, and the shutdown that then is waited for. *)
WaitEnds ==
    /\ proc = "up" /\ main = Started /\ life.quit
    /\ Begin(FALSE)
    /\ main' = Closing
    /\ UNCHANGED <<proc, life, parts, up, stopped, hook, patcher, ports, closing, cacheVars>>

Returns ==
    /\ proc = "up" /\ main = Closing /\ exec.phase = "done"
    /\ proc' = "returned"
    /\ UNCHANGED <<main, life, exec, parts, up, stopped, hook, patcher, ports, closing, cacheVars>>

MainStep ==
    \/ InstallShutdown \/ Recover \/ PutPart \/ StartPart \/ StartRelay
    \/ StartPatcher \/ WaitEnds \/ Returns

-----------------------------------------------------------------------------
(* Who asks for the end. *)

Quits ==
    /\ proc = "up" /\ "quit" \in Triggers
    /\ "terminal" \in up /\ ~life.quit
    /\ life' = [life EXCEPT !.quit = TRUE]
    /\ UNCHANGED <<main, proc, exec, parts, up, stopped, hook, patcher, ports, closing, cacheVars>>

(* on_ctrl, Ctrl-C: before the coordinator is there, only main is told. *)
CtrlC ==
    /\ proc = "up" /\ "ctrl-c" \in Triggers
    /\ ~life.quit
    /\ IF life.coordinator THEN Begin(FALSE) ELSE UNCHANGED exec
    /\ life' = [life EXCEPT !.quit = TRUE]
    /\ UNCHANGED <<main, proc, parts, up, stopped, hook, patcher, ports, closing, cacheVars>>

(* on_ctrl, the console or the session is closed. *)
Close ==
    /\ proc = "up" /\ "console-close" \in Triggers
    /\ ~closing
    /\ IF life.coordinator THEN Begin(TRUE) ELSE UNCHANGED exec
    /\ closing' = TRUE
    /\ UNCHANGED <<main, proc, life, parts, up, stopped, hook, patcher, ports, cacheVars>>

(* CLOSE_WAIT ends, the shutdown does, or there was none to wait for; Windows*)
(* ends a process whose handler has returned.                              *)
CloseReturns ==
    /\ proc = "up" /\ closing
    /\ proc' = "killed"
    /\ life' = [life EXCEPT !.quit = TRUE]
    /\ UNCHANGED <<main, exec, parts, up, stopped, hook, patcher, ports, closing, cacheVars>>

-----------------------------------------------------------------------------
(* Core::run *)

(* restore_now, under the lock of the patch manager ... *)
RestoreTools ==
    /\ proc = "up" /\ exec.phase = "restore"
    /\ \/ hook' = "native" /\ patcher' = [patcher EXCEPT !.restored = TRUE]
       \/ /\ RestoreFails
          /\ patcher' = [patcher EXCEPT !.restored = TRUE, !.failed = TRUE]
          /\ UNCHANGED hook
    /\ exec' = [exec EXCEPT !.phase = "unpublish"]
    /\ UNCHANGED <<main, proc, life, parts, up, stopped, ports, closing, cacheVars>>

(* A mistake lifecycle must catch: the ports are looked for when the        *)
(* shutdown is installed, before they are there.                           *)
UnpublishNothing ==
    /\ proc = "up" /\ exec.phase = "unpublish"
    /\ exec' = [exec EXCEPT !.phase = IF exec.fast THEN "done" ELSE "collect"]
    /\ UNCHANGED <<main, proc, life, parts, up, stopped, hook, patcher, ports, closing, cacheVars>>

(* ... and the port file, if the start-up has come that far. *)
Unpublish ==
    /\ proc = "up" /\ exec.phase = "unpublish"
    /\ ports' = [ports EXCEPT !.published = @ /\ "ports" \notin parts]
    /\ exec' = [exec EXCEPT !.phase = IF exec.fast THEN "done" ELSE "collect"]
    /\ UNCHANGED <<main, proc, life, parts, up, stopped, hook, patcher, closing, cacheVars>>

(* Parts::steps *)
Collect ==
    /\ proc = "up" /\ exec.phase = "collect"
    /\ exec' = [exec EXCEPT !.phase = "steps", !.todo = {i \in Steps : StepOrder[i] \in parts}]
    /\ parts' = parts \cap (Peeked \cup {"ports"})
    /\ UNCHANGED <<main, proc, life, up, stopped, hook, patcher, ports, closing, cacheVars>>

InSteps == proc = "up" /\ exec.phase = "steps"

StopPart(s) == up' = up \ {s} /\ stopped' = stopped \cup {s}
Current == StepOrder[Min(exec.todo)]
NextStep(cut) == exec' = [exec EXCEPT !.todo = @ \ {Min(@)}, !.cut = @ \/ cut]

(* flush_now, in the last step *)
BeginFlush ==
    /\ InSteps /\ exec.todo # {} /\ Current = "cache" /\ "cache" \notin stopped
    /\ saver["closer"].pc = "idle"
    /\ saver' = [saver EXCEPT !["closer"].pc = "copy"]
    /\ StopPart("cache")
    /\ UNCHANGED <<memVars, tmp, disk, mishap>>
    /\ UNCHANGED <<main, proc, life, exec, parts, hook, patcher, ports, closing>>

StepWorks ==
    /\ InSteps /\ exec.todo # {}
    /\ IF Current = "cache"
       THEN "cache" \in stopped /\ saver["closer"].pc = "idle" /\ UNCHANGED <<up, stopped>>
       ELSE StopPart(Current)
    /\ NextStep(FALSE)
    /\ UNCHANGED <<main, proc, life, parts, hook, patcher, ports, closing, cacheVars>>

(* run_step moves on; the task of the step goes on too. *)
StepTimesOut ==
    /\ InSteps /\ exec.todo # {} /\ Current \in Hangs
    /\ NextStep(TRUE)
    /\ UNCHANGED <<main, proc, life, parts, up, stopped, hook, patcher, ports, closing, cacheVars>>

LateStep(s) ==
    /\ proc = "up" /\ exec.cut
    /\ s \in Hangs \ stopped /\ s \notin {StepOrder[i] : i \in exec.todo}
    /\ StopPart(s)
    /\ UNCHANGED <<main, proc, life, exec, parts, hook, patcher, ports, closing, cacheVars>>

(* A mistake lifecycle must catch: a step left behind keeps the end from    *)
(* being told.                                                             *)
StepsEndClean ==
    /\ InSteps
    /\ exec.todo = {} /\ ~exec.cut
    /\ exec' = [exec EXCEPT !.phase = "done"]
    /\ UNCHANGED <<main, proc, life, parts, up, stopped, hook, patcher, ports, closing, cacheVars>>

(* The steps are over, or the budget is and what is left of them is skipped.*)
StepsEnd ==
    /\ InSteps
    /\ exec.todo # {} => exec.cut
    /\ exec' = [exec EXCEPT !.phase = "done", !.todo = {}]
    /\ UNCHANGED <<main, proc, life, parts, up, stopped, hook, patcher, ports, closing, cacheVars>>

ExecStep ==
    RestoreTools \/ Unpublish \/ Collect \/ BeginFlush \/ StepWorks \/ StepTimesOut \/ StepsEnd

-----------------------------------------------------------------------------
(* What the parts do meanwhile. *)

(* A mistake lifecycle must catch: a tick does not ask whether the shutdown *)
(* has put the original back.                                              *)
TickAnyway ==
    /\ proc = "up" /\ patcher.ticking
    /\ patcher' = [patcher EXCEPT !.applied = TRUE]
    /\ hook' = "wrapper"
    /\ UNCHANGED <<main, proc, life, exec, parts, up, stopped, ports, closing, cacheVars>>

(* The thread of start, and tick_once. *)
Tick ==
    /\ proc = "up" /\ patcher.ticking
    /\ IF patcher.restored
       THEN patcher' = [patcher EXCEPT !.ticking = FALSE] /\ UNCHANGED hook
       ELSE patcher' = [patcher EXCEPT !.applied = TRUE] /\ hook' = "wrapper"
    /\ UNCHANGED <<main, proc, life, exec, parts, up, stopped, ports, closing, cacheVars>>

(* Requests come once the wrapper was installed; they store and evict, the  *)
(* log monitor evicts, and all of them look.                               *)
UseCache ==
    /\ proc = "up" /\ patcher.applied
    /\ \/ up \cap {"ipc", "logmon"} # {} /\ Change
       \/ up \cap {"ipc", "logmon", "tickers"} # {} /\ LoadDrops
    /\ UNCHANGED lifeVars

Flush == proc = "up" /\ FlusherStep /\ UNCHANGED lifeVars
Closer == proc = "up" /\ SaverStep("closer") /\ UNCHANGED lifeVars

(* RelayBypass: the log monitor finds VRChat cut off from the relay, or in a*)
(* new session.                                                            *)
Engage ==
    /\ proc = "up" /\ {"logmon", "relay"} \subseteq up
    /\ ~ports.bypassed
    /\ ports' = [published |-> FALSE, bypassed |-> TRUE]
    /\ UNCHANGED <<main, proc, life, exec, parts, up, stopped, hook, patcher, closing, cacheVars>>

Release ==
    /\ proc = "up" /\ "logmon" \in up /\ ports.bypassed
    /\ ports' = [published |-> TRUE, bypassed |-> FALSE]
    /\ exec' = [exec EXCEPT !.back = exec.phase # "none"]
    /\ UNCHANGED <<main, proc, life, parts, up, stopped, hook, patcher, closing, cacheVars>>

Next ==
    \/ MainStep \/ ExecStep
    \/ Quits \/ CtrlC \/ Close \/ CloseReturns
    \/ \E s \in Services : LateStep(s)
    \/ Tick \/ UseCache \/ Flush \/ Closer \/ Engage \/ Release

Spec == Init /\ [][Next]_vars

-----------------------------------------------------------------------------
(* VRChat has its own yt-dlp again before any part is stopped and when main *)
(* returns, whenever the end is asked for: during the recovery, before the  *)
(* patch thread starts or between two of its ticks (Core::run, restore_now, *)
(* PatchManager::start).  Only a restore that failed is excepted.           *)
NativeBeforeStop ==
    (stopped # {} \/ proc = "returned") /\ ~patcher.failed => hook = "native"

(* A shutdown asked for after the start-up leaves no port file behind, for  *)
(* the relay it names is gone (install_shutdown), unless VRChat began a new *)
(* session meanwhile (RelayBypass::release).                                *)
GoneWhenStopped ==
    proc = "returned" /\ ~exec.early /\ ~exec.back => ~ports.published

(* When main returns from an undisturbed shutdown, the file of the resolve  *)
(* cache holds every answer that was stored, for whoever stored it was      *)
(* stopped before the file was written (Parts::steps, flush_now): unless the*)
(* thread was writing at that very time, which flush_now does not wait for. *)
LastAnswersKept ==
    /\ proc = "returned"
    /\ ~exec.fast /\ ~exec.early /\ ~exec.cut
    /\ saver["flusher"].pc = "idle" /\ mishap = {}
    => ~dirty /\ disk = mem

(* Whoever asks for the end gets it, although a step may hang, others may   *)
(* ask too and the start-up may still be under way: main never waits for a  *)
(* shutdown that cannot go on (wait_quit, ShutdownCoordinator::run).        *)
NeverStuck ==
    life.quit /\ proc = "up" => ENABLED (MainStep \/ ExecStep \/ SaverStep("closer"))

(* What is left at most of the start-up and of main's return, of the        *)
(* shutdown, and of the cache's last save.                                  *)
MainLeft == Closing - main + IF proc = "up" THEN 1 ELSE 0

ExecLeft ==
    CASE exec.phase \in {"none", "restore"} -> Len(StepOrder) + 4
      [] exec.phase = "unpublish" -> Len(StepOrder) + 3
      [] exec.phase = "collect" -> Len(StepOrder) + 2
      [] exec.phase = "steps" -> Cardinality(exec.todo) + 1
      [] exec.phase = "done" -> 0

SaveLeft ==
    LET pc == saver["closer"].pc IN
    (IF "cache" \in stopped THEN 0 ELSE 5)
        + CASE pc = "copy" -> 4 [] pc = "open" -> 3 [] pc = "fill" -> 2
            [] pc = "rename" -> 1 [] pc = "idle" -> 0

StepsLeft == MainLeft + ExecLeft + SaveLeft

(* The end is reached in a bounded number of steps of main, of the shutdown *)
(* and of the last save (NeverStuck tells that one of them can be taken):   *)
(* each brings it nearer, and nothing that the parts, the thread of the     *)
(* cache, VRChat or a second request for the end do puts it off: no step is *)
(* tried again, and answers that still come in while the file is written do *)
(* not keep it from being finished (run_step, Parts::steps, flush_now).     *)
EndComesNearer ==
    [][/\ StepsLeft' <= StepsLeft
       /\ MainStep \/ ExecStep \/ SaverStep("closer") => StepsLeft' < StepsLeft]_vars
=============================================================================
