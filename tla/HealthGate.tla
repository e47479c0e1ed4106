----------------------------- MODULE HealthGate -----------------------------
(***************************************************************************)
(* The circuit breaker in front of the remote resolver                     *)
(* (crates/vrcr-watchdog/src/health.rs): after a run of failures it sends  *)
(* VRChat's videos to its own resolver, then lets one request through as a *)
(* probe and waits for the verdict on it.  Every method holds the state's  *)
(* lock, so each is one operator from a gate to a gate.                    *)
(***************************************************************************)
EXTENDS Naturals

CONSTANT Threshold      \* OPEN_THRESHOLD: failures in a row that open the gate

ASSUME GateAssumption == Threshold \in Nat \ {0}

Phases == {"closed", "open", "probe", "verdict"}
HalfOpen == {"probe", "verdict"}

GateRecord ==
    [phase : Phases,
     cooled : BOOLEAN,              \* open_until has passed
     overdue : BOOLEAN,             \* verdict_timeout has passed since verdict_since
     resolveStreak : 0 .. Threshold - 1,
     playbackStreak : 0 .. Threshold - 1]

NewGate == [phase |-> "closed", cooled |-> TRUE, overdue |-> TRUE,
            resolveStreak |-> 0, playbackStreak |-> 0]

Opened(g) == [g EXCEPT !.phase = "open", !.cooled = FALSE,
                       !.resolveStreak = 0, !.playbackStreak = 0]
Closed(g) == [g EXCEPT !.phase = "closed", !.resolveStreak = 0, !.playbackStreak = 0]

AwaitingProbeVerdict(g) == g.phase \in HalfOpen /\ ~g.overdue

(* should_short_circuit: who gets through, and what that does to the gate.  *)
StartsProbe(g, connected) == g.phase = "open" /\ connected /\ g.cooled
NeverTimesOut(g) == FALSE   \* a mistake ipc_live must catch
TimesOut(g) == g.phase \in HalfOpen /\ g.overdue
LetsThrough(g, connected) ==
    g.phase = "closed" \/ StartsProbe(g, connected) \/ TimesOut(g)

AfterCheck(g, connected) ==
    IF StartsProbe(g, connected) THEN [g EXCEPT !.phase = "probe", !.overdue = FALSE]
    ELSE IF TimesOut(g) THEN Closed(g) ELSE g

ProbeResult(g, healthy, resolved) ==
    IF ~healthy THEN Opened(g)
    ELSE IF resolved THEN [g EXCEPT !.phase = "verdict", !.overdue = FALSE]
    ELSE Closed(g)

(* A mistake ipc must catch: the gate opens one failure too late. *)
AfterResolveLate(g, healthy, resolved) ==
    CASE g.phase = "closed" ->
            IF healthy THEN [g EXCEPT !.resolveStreak = 0]
            ELSE IF g.resolveStreak + 1 > Threshold THEN Opened(g)
            ELSE [g EXCEPT !.resolveStreak = @ + 1]
      [] g.phase = "probe" -> ProbeResult(g, healthy, resolved)
      [] OTHER -> g

AfterResolve(g, healthy, resolved) ==
    CASE g.phase = "closed" ->
            IF healthy THEN [g EXCEPT !.resolveStreak = 0]
            ELSE IF g.resolveStreak + 1 >= Threshold THEN Opened(g)
            ELSE [g EXCEPT !.resolveStreak = @ + 1]
      [] g.phase = "probe" -> ProbeResult(g, healthy, resolved)
      [] OTHER -> g

AfterPlaybackFailure(g) ==
    CASE g.phase = "closed" ->
            IF g.playbackStreak + 1 >= Threshold THEN Opened(g)
            ELSE [g EXCEPT !.playbackStreak = @ + 1]
      [] g.phase \in HalfOpen -> Opened(g)
      [] OTHER -> g

AfterPlaybackConfirmed(g) ==
    IF g.phase = "closed" THEN [g EXCEPT !.playbackStreak = 0] ELSE Closed(g)
=============================================================================
