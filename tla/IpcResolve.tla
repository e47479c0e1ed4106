----------------------------- MODULE IpcResolve -----------------------------
(***************************************************************************)
(* How the watchdog answers the resolve requests of the yt-dlp wrappers    *)
(* (crates/vrcr-watchdog/src/ipc/server): one task per pipe client asks    *)
(* the native-fallback hint, the health gate and the resolve cache, and    *)
(* then the mesh, retrying what the server says to retry.  The wrapper's   *)
(* report that the native resolver failed too, and the verdicts of the     *)
(* monitor that reads VRChat's log, change the same hint, gate and cache.  *)
(* Each of these has a lock of its own and every use of one is a step.     *)
(***************************************************************************)
EXTENDS HealthGate

CONSTANTS
    Clients,        \* pipe clients served at the same time
    Urls,           \* source URLs, each on a site of its own
    MaxRetries,     \* retry::MAX_RETRIES
    Events          \* bound: what wrappers and plays may do in one behaviour

ASSUME IpcAssumption ==
    /\ MaxRetries \in Nat
    /\ Urls # {}
    /\ Events \subseteq {"reAsk", "ogFailed", "play"}

VARIABLES
    gate,       \* HealthGate
    connected,  \* Mesh::is_connected
    preferOg,   \* OgFallbackHint.expires: URLs whose last load failed
    ogBlocked,  \* OgFallbackHint.blocked_until, by URL
    cached,     \* URLs with a live entry in the resolve cache
    req,        \* the client tasks
    monitor     \* the log monitor's mark_playback_failure

vars == <<gate, connected, preferOg, ogBlocked, cached, req, monitor>>

(* What a resolve comes to.  A deadline hit is "failed" for a request with  *)
(* a full window and "declined" for one with less (is_healthy_outcome).     *)
Outcomes == {"resolved", "discovering", "unreachable", "declined", "failed"}
Retryable == {"discovering", "unreachable"}
Healthy(outcome) == outcome \notin {"unreachable", "failed"}

AskPcs == {"asking", "retry", "store", "record"}
ReqPcs == {"idle", "blocked", "hint", "bypass", "gate", "verdict", "lookup"} \cup AskPcs
            \cup {"evict", "block", "clear"}

ReqRecord == [pc : ReqPcs, url : Urls, skip : BOOLEAN, isProbe : BOOLEAN,
              retries : 0 .. MaxRetries, outcome : Outcomes \cup {"none"},
              ogIsOut : BOOLEAN]    \* history: see NeverBackToOg

MonitorRecord == [pc : {"watching", "hinting", "evicting", "recording"},
                  url : Urls, attributed : BOOLEAN]

TypeOK ==
    /\ gate \in GateRecord
    /\ connected \in BOOLEAN
    /\ preferOg \in SUBSET Urls
    /\ ogBlocked \in SUBSET Urls
    /\ cached \in SUBSET Urls
    /\ req \in [Clients -> ReqRecord]
    /\ monitor \in MonitorRecord

Idle(u) == [pc |-> "idle", url |-> u, skip |-> FALSE, isProbe |-> FALSE,
            retries |-> 0, outcome |-> "none", ogIsOut |-> FALSE]
NoUrl == CHOOSE u \in Urls : TRUE
Watching == [pc |-> "watching", url |-> NoUrl, attributed |-> FALSE]

Init ==
    /\ gate = NewGate
    /\ connected = FALSE
    /\ preferOg = {}
    /\ ogBlocked = {}
    /\ cached = {}
    /\ req = [c \in Clients |-> Idle(NoUrl)]
    /\ monitor = Watching

-----------------------------------------------------------------------------
(* Ipc::resolve, for client c. *)

At(c, pc) == req[c].pc = pc
Update(c, locals) == req' = [req EXCEPT ![c] = locals]
Goto(c, pc) == Update(c, [req[c] EXCEPT !.pc = pc])

(* The reply is written and nothing is left to do for this client. *)
Finish(c) == Update(c, Idle(NoUrl))

Arrives(c, u, skip) ==
    /\ At(c, "idle")
    /\ skip => "reAsk" \in Events
    /\ Update(c, [Idle(u) EXCEPT !.pc = IF skip THEN "clear" ELSE "blocked", !.skip = skip,
                                  !.ogIsOut = skip \/ u \in ogBlocked])
    /\ UNCHANGED <<gate, connected, preferOg, ogBlocked, cached, monitor>>

(* should_prefer_og: a blocked site is never sent to the native resolver ... *)
CheckBlocked(c) ==
    /\ At(c, "blocked")
    /\ Goto(c, IF req[c].url \in ogBlocked THEN "bypass" ELSE "hint")
    /\ UNCHANGED <<gate, connected, preferOg, ogBlocked, cached, monitor>>

(* ... any other URL is for a while after its load failed. *)
CheckHint(c) ==
    /\ At(c, "hint")
    /\ IF req[c].url \in preferOg THEN Finish(c) ELSE Goto(c, "bypass")
    /\ UNCHANGED <<gate, connected, preferOg, ogBlocked, cached, monitor>>

(* try_clear: the wrapper re-asks, or reports that the native one failed. *)
ClearHint(c) ==
    /\ At(c, "clear")
    /\ preferOg' = preferOg \ {req[c].url}
    /\ IF req[c].skip THEN Goto(c, "bypass") ELSE Finish(c)
    /\ UNCHANGED <<gate, connected, ogBlocked, cached, monitor>>

BypassesGate(c) == req[c].skip \/ req[c].url \in ogBlocked

(* A mistake ipc must catch: a blocked site asks the gate. *)
SkipBypassesGate(c) ==
    /\ At(c, "bypass")
    /\ Goto(c, IF req[c].skip THEN "lookup" ELSE "gate")
    /\ UNCHANGED <<gate, connected, preferOg, ogBlocked, cached, monitor>>

CheckBypass(c) ==
    /\ At(c, "bypass")
    /\ Goto(c, IF BypassesGate(c) THEN "lookup" ELSE "gate")
    /\ UNCHANGED <<gate, connected, preferOg, ogBlocked, cached, monitor>>

CheckGate(c) ==
    /\ At(c, "gate")
    /\ gate' = AfterCheck(gate, connected)
    /\ IF LetsThrough(gate, connected) THEN Goto(c, "verdict") ELSE Finish(c)
    /\ UNCHANGED <<connected, preferOg, ogBlocked, cached, monitor>>

(* A mistake ipc must catch: the probe may be answered from the cache. *)
ProbeUnmarked(c) ==
    /\ At(c, "verdict")
    /\ Goto(c, "lookup")
    /\ UNCHANGED <<gate, connected, preferOg, ogBlocked, cached, monitor>>

(* A second look at the gate, under a lock of its own. *)
CheckProbe(c) ==
    /\ At(c, "verdict")
    /\ Update(c, [req[c] EXCEPT !.pc = "lookup", !.isProbe = AwaitingProbeVerdict(gate)])
    /\ UNCHANGED <<gate, connected, preferOg, ogBlocked, cached, monitor>>

(* A hit is the reply, and says nothing about the resolver's health. *)
Lookup(c) ==
    /\ At(c, "lookup")
    /\ IF req[c].url \in cached /\ ~req[c].isProbe THEN Finish(c) ELSE Goto(c, "asking")
    /\ UNCHANGED <<gate, connected, preferOg, ogBlocked, cached, monitor>>

MayRetry(c, outcome) == outcome \in Retryable /\ req[c].retries < MaxRetries

(* The mesh answers, or the deadline around it does.  What may be retried   *)
(* is retried as long as enough of the budget remains.                      *)
Answered(c, outcome) ==
    /\ At(c, "asking")
    /\ \/ /\ MayRetry(c, outcome)
          /\ Update(c, [req[c] EXCEPT !.pc = "retry", !.outcome = outcome])
       \/ Update(c, [req[c] EXCEPT !.pc = IF outcome = "resolved" THEN "store" ELSE "record",
                                   !.outcome = outcome])
    /\ UNCHANGED <<gate, connected, preferOg, ogBlocked, cached, monitor>>

(* A mistake ipc must catch: retries that are not counted. *)
RetryUncounted(c) ==
    /\ At(c, "retry")
    /\ Goto(c, "asking") \/ Goto(c, "record")
    /\ UNCHANGED <<gate, connected, preferOg, ogBlocked, cached, monitor>>

(* The delay is over: ask again, under a fresh id; or the deadline is. *)
Retry(c) ==
    /\ At(c, "retry")
    /\ \/ Update(c, [req[c] EXCEPT !.pc = "asking", !.retries = @ + 1])
       \/ Goto(c, "record")
    /\ UNCHANGED <<gate, connected, preferOg, ogBlocked, cached, monitor>>

(* The reply was written before; with no node host it is not cached. *)
Store(c) ==
    /\ At(c, "store")
    /\ cached' \in {cached, cached \cup {req[c].url}}
    /\ Goto(c, "record")
    /\ UNCHANGED <<gate, connected, preferOg, ogBlocked, monitor>>

Record(c) ==
    /\ At(c, "record")
    /\ gate' = AfterResolve(gate, Healthy(req[c].outcome), req[c].outcome = "resolved")
    /\ Finish(c)
    /\ UNCHANGED <<connected, preferOg, ogBlocked, cached, monitor>>

-----------------------------------------------------------------------------
(* Ipc::og_failed: the wrapper reports that the native resolver failed too. *)

OgFailed(c, u) ==
    /\ At(c, "idle")
    /\ "ogFailed" \in Events
    /\ Update(c, [Idle(u) EXCEPT !.pc = "evict"])
    /\ UNCHANGED <<gate, connected, preferOg, ogBlocked, cached, monitor>>

EvictFailed(c) ==
    /\ At(c, "evict")
    /\ cached' = cached \ {req[c].url}
    /\ Goto(c, "block") \/ Goto(c, "clear")
    /\ UNCHANGED <<gate, connected, preferOg, ogBlocked, monitor>>

(* Only for a reason that holds for the whole site. *)
BlockSite(c) ==
    /\ At(c, "block")
    /\ ogBlocked' = ogBlocked \cup {req[c].url}
    /\ Goto(c, "clear")
    /\ UNCHANGED <<gate, connected, preferOg, cached, monitor>>

-----------------------------------------------------------------------------
(* The log monitor.  Only a play it can attribute counts: one through the   *)
(* playback proxy, or of a URL the cache still knows.                       *)

PlaybackFails(u, proxied) ==
    /\ monitor.pc = "watching"
    /\ "play" \in Events
    /\ monitor' = [pc |-> "hinting", url |-> u, attributed |-> proxied \/ u \in cached]
    /\ UNCHANGED <<gate, connected, preferOg, ogBlocked, cached, req>>

HintFailure ==
    /\ monitor.pc = "hinting"
    /\ preferOg' = IF monitor.url \in cached THEN preferOg \cup {monitor.url} ELSE preferOg
    /\ monitor' = [monitor EXCEPT !.pc = "evicting"]
    /\ UNCHANGED <<gate, connected, ogBlocked, cached, req>>

EvictPlayed ==
    /\ monitor.pc = "evicting"
    /\ cached' = cached \ {monitor.url}
    /\ monitor' = [monitor EXCEPT !.pc = "recording"]
    /\ UNCHANGED <<gate, connected, preferOg, ogBlocked, req>>

RecordPlayback ==
    /\ monitor.pc = "recording"
    /\ gate' = IF monitor.attributed THEN AfterPlaybackFailure(gate) ELSE gate
    /\ monitor' = Watching
    /\ UNCHANGED <<connected, preferOg, ogBlocked, cached, req>>

(* confirm_playback, of an attributed play. *)
PlaybackConfirmed ==
    /\ monitor.pc = "watching"
    /\ "play" \in Events
    /\ gate' = AfterPlaybackConfirmed(gate)
    /\ UNCHANGED <<connected, preferOg, ogBlocked, cached, req, monitor>>

-----------------------------------------------------------------------------
(* Time, and the mesh's link. *)

CooldownEnds ==
    /\ gate.phase = "open" /\ ~gate.cooled
    /\ gate' = [gate EXCEPT !.cooled = TRUE]
    /\ UNCHANGED <<connected, preferOg, ogBlocked, cached, req, monitor>>

VerdictTimesOut ==
    /\ gate.phase \in HalfOpen /\ ~gate.overdue
    /\ gate' = [gate EXCEPT !.overdue = TRUE]
    /\ UNCHANGED <<connected, preferOg, ogBlocked, cached, req, monitor>>

HintExpires(u) ==
    /\ u \in preferOg
    /\ preferOg' = preferOg \ {u}
    /\ UNCHANGED <<gate, connected, ogBlocked, cached, req, monitor>>

BlockExpires(u) ==
    /\ u \in ogBlocked
    /\ ogBlocked' = ogBlocked \ {u}
    /\ req' = [c \in Clients |->
                 IF req[c].url = u THEN [req[c] EXCEPT !.ogIsOut = req[c].skip] ELSE req[c]]
    /\ UNCHANGED <<gate, connected, preferOg, cached, monitor>>

EntryExpires(u) ==
    /\ u \in cached
    /\ cached' = cached \ {u}
    /\ UNCHANGED <<gate, connected, preferOg, ogBlocked, req, monitor>>

LinkChanges ==
    /\ connected' = ~connected
    /\ UNCHANGED <<gate, preferOg, ogBlocked, cached, req, monitor>>

-----------------------------------------------------------------------------
ResolveStep(c) ==
    \/ CheckBlocked(c) \/ CheckHint(c) \/ ClearHint(c) \/ CheckBypass(c) \/ CheckGate(c)
    \/ CheckProbe(c) \/ Lookup(c) \/ Retry(c) \/ Store(c) \/ Record(c)
    \/ \E outcome \in Outcomes : Answered(c, outcome)

OgFailedStep(c) == EvictFailed(c) \/ BlockSite(c)

ClientStep(c) ==
    \/ \E u \in Urls, skip \in BOOLEAN : Arrives(c, u, skip)
    \/ \E u \in Urls : OgFailed(c, u)
    \/ ResolveStep(c)
    \/ OgFailedStep(c)

MonitorStep ==
    \/ \E u \in Urls, proxied \in BOOLEAN : PlaybackFails(u, proxied)
    \/ HintFailure \/ EvictPlayed \/ RecordPlayback \/ PlaybackConfirmed

TimeStep ==
    \/ CooldownEnds \/ VerdictTimesOut
    \/ \E u \in Urls : HintExpires(u) \/ BlockExpires(u) \/ EntryExpires(u)

Next == (\E c \in Clients : ClientStep(c)) \/ MonitorStep \/ TimeStep \/ LinkChanges

Spec == Init /\ [][Next]_vars

(* Tasks run, timers fire, the mesh keeps its promise to answer or the      *)
(* deadline does; wrappers keep asking for videos without skipping the hint.*)
Fairness ==
    /\ \A c \in Clients : /\ WF_vars(ResolveStep(c) \/ OgFailedStep(c))
                          /\ SF_vars(\E u \in Urls : Arrives(c, u, FALSE))
    /\ WF_vars(CooldownEnds) /\ WF_vars(VerdictTimesOut)
    /\ \A u \in Urls : WF_vars(HintExpires(u))
    /\ WF_vars(HintFailure \/ EvictPlayed \/ RecordPlayback)

FairSpec == Spec /\ Fairness

-----------------------------------------------------------------------------
(* Properties. *)

(* Its outcome will be recorded: it asks the mesh, or is about to.          *)
WillTell(c) ==
    \/ req[c].pc \in AskPcs \cup {"verdict"}
    \/ At(c, "lookup") /\ req[c].isProbe

(* While the gate waits for a probe's outcome somebody is on the way to     *)
(* tell it, and is not answered from the cache instead: no probe is lost    *)
(* although the gate is asked twice (tests/integration/ipc_server/          *)
(* health_cases.rs:145).                                                    *)
ProbeIsUnderWay ==
    gate.phase = "probe" => gate.overdue \/ \E c \in Clients : WillTell(c)

(* A video is not sent back to the resolver that is known to fail on it:    *)
(* neither the hint nor the gate turns a request away that re-asks after    *)
(* the native one failed, or whose site was blocked from its arrival on     *)
(* (tests/integration/ipc_server/health_cases.rs:122 and 133).              *)
NeverBackToOg ==
    [][\A c \in Clients :
          req[c].pc \in {"hint", "gate"} /\ At(c, "idle")' => ~req[c].ogIsOut]_vars

(* A request ends, however often it is retried and whoever else is served.  *)
RequestsEnd == \A c \in Clients : ~At(c, "idle") ~> At(c, "idle")

(* The resolver is not shut out for good: once the link stays up and no     *)
(* more plays fail, request after request gets past the hint and the gate,  *)
(* whatever paused it and whatever the mesh answers.                        *)
NotShutOut ==
    <>[](connected /\ monitor.pc = "watching") => []<>(\E c \in Clients : At(c, "lookup"))
=============================================================================
