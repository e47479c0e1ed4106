-------------------------- MODULE IpcResolveProofs --------------------------
(***************************************************************************)
(* For any number of pipe clients and URLs and any threshold: the types,   *)
(* that a half-open gate is never left without a probe on its way, and     *)
(* that a video whose native resolver is out is never sent back to it.     *)
(***************************************************************************)
EXTENDS IpcResolve, TLAPS

(* A retry waits only while there is one left. *)
RetryLeft == \A c \in Clients : At(c, "retry") => req[c].retries < MaxRetries

IpcInv == TypeOK /\ RetryLeft /\ ProbeIsUnderWay

(* Every method of the gate returns a gate, and leaves the probe phase or   *)
(* stays as it was; only an admitted request starts a probe.                *)
LEMMA GateTypes ==
    ASSUME NEW g \in GateRecord
    PROVE  /\ Opened(g) \in GateRecord /\ Opened(g).phase = "open"
           /\ Closed(g) \in GateRecord /\ Closed(g).phase = "closed"
<1>1. 0 \in 0 .. Threshold - 1
    BY GateAssumption
<1>2. Opened(g) \in GateRecord /\ Opened(g).phase = "open"
    BY <1>1 DEF GateRecord, Opened, Phases
<1>3. Closed(g) \in GateRecord /\ Closed(g).phase = "closed"
    BY <1>1 DEF GateRecord, Closed, Phases
<1> QED BY <1>2, <1>3

LEMMA CheckIsTyped ==
    ASSUME NEW g \in GateRecord, NEW connected_ \in BOOLEAN
    PROVE  /\ AfterCheck(g, connected_) \in GateRecord
           /\ ~LetsThrough(g, connected_) => AfterCheck(g, connected_) = g
<1>1. [g EXCEPT !.phase = "probe", !.overdue = FALSE] \in GateRecord
    BY DEF GateRecord, Phases
<1> QED BY <1>1, GateTypes DEF AfterCheck, LetsThrough

LEMMA ResolveIsTyped ==
    ASSUME NEW g \in GateRecord, NEW healthy \in BOOLEAN, NEW resolved \in BOOLEAN
    PROVE  /\ AfterResolve(g, healthy, resolved) \in GateRecord
           /\ AfterResolve(g, healthy, resolved).phase # "probe"
<1>1. /\ [g EXCEPT !.resolveStreak = 0] \in GateRecord
      /\ [g EXCEPT !.resolveStreak = 0].phase = g.phase
    BY GateAssumption DEF GateRecord
<1>2. ASSUME ~(g.resolveStreak + 1 >= Threshold)
      PROVE  /\ [g EXCEPT !.resolveStreak = @ + 1] \in GateRecord
             /\ [g EXCEPT !.resolveStreak = @ + 1].phase = g.phase
    BY <1>2, GateAssumption DEF GateRecord
<1>3. /\ [g EXCEPT !.phase = "verdict", !.overdue = FALSE] \in GateRecord
      /\ [g EXCEPT !.phase = "verdict", !.overdue = FALSE].phase = "verdict"
    BY DEF GateRecord, Phases
<1>4. CASE g.phase = "closed"
    BY <1>1, <1>2, <1>4, GateTypes DEF AfterResolve
<1>5. CASE g.phase = "probe"
    BY <1>3, <1>5, GateTypes DEF AfterResolve, ProbeResult
<1>6. CASE g.phase \notin {"closed", "probe"}
    BY <1>6 DEF AfterResolve
<1> QED BY <1>4, <1>5, <1>6

LEMMA PlaybackIsTyped ==
    ASSUME NEW g \in GateRecord
    PROVE  /\ AfterPlaybackFailure(g) \in GateRecord
           /\ AfterPlaybackFailure(g).phase # "probe"
           /\ AfterPlaybackConfirmed(g) \in GateRecord
           /\ AfterPlaybackConfirmed(g).phase # "probe"
<1>1. ASSUME ~(g.playbackStreak + 1 >= Threshold)
      PROVE  /\ [g EXCEPT !.playbackStreak = @ + 1] \in GateRecord
             /\ [g EXCEPT !.playbackStreak = @ + 1].phase = g.phase
    BY <1>1, GateAssumption DEF GateRecord
<1>2. /\ [g EXCEPT !.playbackStreak = 0] \in GateRecord
      /\ [g EXCEPT !.playbackStreak = 0].phase = g.phase
    BY GateAssumption DEF GateRecord
<1>3. CASE g.phase = "closed"
    BY <1>1, <1>2, <1>3, GateTypes DEF AfterPlaybackFailure, AfterPlaybackConfirmed
<1>4. CASE g.phase \in HalfOpen
    BY <1>4, GateTypes DEF AfterPlaybackFailure, AfterPlaybackConfirmed, HalfOpen
<1>5. CASE g.phase = "open"
    BY <1>5, GateTypes DEF AfterPlaybackFailure, AfterPlaybackConfirmed, HalfOpen
<1> QED BY <1>3, <1>4, <1>5 DEF GateRecord, Phases, HalfOpen

-----------------------------------------------------------------------------
LEMMA InitIpcInv == Init => IpcInv
<1> SUFFICES ASSUME Init PROVE IpcInv
    OBVIOUS
<1>1. NoUrl \in Urls
    BY IpcAssumption DEF NoUrl
<1>2. NewGate \in GateRecord /\ NewGate.phase = "closed"
    BY GateAssumption DEF NewGate, GateRecord, Phases
<1>3. Idle(NoUrl) \in ReqRecord
    BY <1>1, IpcAssumption DEF Idle, ReqRecord, ReqPcs
<1>4. Watching \in MonitorRecord
    BY <1>1 DEF Watching, MonitorRecord
<1> HIDE DEF NoUrl
<1>5. TypeOK
    BY <1>2, <1>3, <1>4 DEF Init, TypeOK
<1>6. ProbeIsUnderWay
    BY <1>2 DEF Init, ProbeIsUnderWay
<1>7. RetryLeft
    BY DEF Init, RetryLeft, At, Idle
<1> QED BY <1>5, <1>6, <1>7 DEF IpcInv

(* A client moves to locals x; the gate stays, or nobody waits for a probe. *)
LEMMA ClientMoves ==
    ASSUME IpcInv, NEW c \in Clients, NEW x \in ReqRecord, Update(c, x),
           x.pc = "retry" => x.retries < MaxRetries,
           gate' \in GateRecord,
           \/ gate' = gate
           \/ gate'.phase # "probe"
           \/ x.pc = "verdict",
           WillTell(c) /\ gate'.phase = "probe" /\ ~gate'.overdue
             => x.pc \in AskPcs \cup {"verdict"} \/ (x.pc = "lookup" /\ x.isProbe),
           connected' = connected, monitor' = monitor,
           preferOg' \in SUBSET Urls, ogBlocked' \in SUBSET Urls, cached' \in SUBSET Urls
    PROVE  IpcInv'
<1>t. /\ gate \in GateRecord /\ connected \in BOOLEAN
      /\ preferOg \in SUBSET Urls /\ ogBlocked \in SUBSET Urls /\ cached \in SUBSET Urls
      /\ req \in [Clients -> ReqRecord]
      /\ monitor \in MonitorRecord
    BY DEF IpcInv, TypeOK
<1>1. req' \in [Clients -> ReqRecord] /\ req'[c] = x
      /\ \A d \in Clients \ {c} : req'[d] = req[d]
    BY <1>t DEF Update
<1>2. TypeOK'
    BY <1>t, <1>1 DEF TypeOK
<1>3. ASSUME gate'.phase = "probe", ~gate'.overdue
      PROVE  \E d \in Clients : WillTell(d)'
    <2>1. CASE x.pc = "verdict"
        BY <1>1, <2>1 DEF WillTell
    <2>2. CASE x.pc # "verdict"
        <3>1. gate' = gate
            BY <1>3, <2>2
        <3>2. PICK d \in Clients : WillTell(d)
            BY <1>3, <3>1 DEF IpcInv, ProbeIsUnderWay
        <3>3. CASE d = c
            BY <1>1, <1>3, <3>2, <3>3 DEF WillTell, At
        <3>4. CASE d # c
            BY <1>1, <3>2, <3>4 DEF WillTell, At
        <3> QED BY <3>3, <3>4
    <2> QED BY <2>1, <2>2
<1>4. ProbeIsUnderWay'
    BY <1>3 DEF ProbeIsUnderWay
<1>5. RetryLeft'
    BY <1>1 DEF IpcInv, RetryLeft, At
<1> QED BY <1>2, <1>4, <1>5 DEF IpcInv

(* The clients stay where they are. *)
LEMMA OthersMove ==
    ASSUME IpcInv, gate' \in GateRecord,
           gate' = gate \/ gate'.phase # "probe" \/ gate'.overdue,
           req' \in [Clients -> ReqRecord],
           \A c \in Clients : /\ req'[c].pc = req[c].pc
                              /\ req'[c].isProbe = req[c].isProbe
                              /\ req'[c].retries = req[c].retries,
           connected' \in BOOLEAN, monitor' \in MonitorRecord,
           preferOg' \in SUBSET Urls, ogBlocked' \in SUBSET Urls, cached' \in SUBSET Urls
    PROVE  IpcInv'
<1>1. TypeOK'
    BY DEF TypeOK
<1>2. ProbeIsUnderWay'
    BY DEF IpcInv, ProbeIsUnderWay, WillTell, At
<1>3. RetryLeft'
    BY DEF IpcInv, RetryLeft, At
<1> QED BY <1>1, <1>2, <1>3 DEF IpcInv

(* The locals a client goes on with are typed. *)
LEMMA Locals ==
    ASSUME NEW x \in ReqRecord, NEW pc \in ReqPcs
    PROVE  /\ [x EXCEPT !.pc = pc] \in ReqRecord
           /\ [x EXCEPT !.pc = pc].pc = pc
           /\ [x EXCEPT !.pc = pc].retries = x.retries
BY DEF ReqRecord

LEMMA IdleIsTyped ==
    ASSUME NEW u \in Urls
    PROVE  Idle(u) \in ReqRecord /\ Idle(u).pc = "idle"
BY IpcAssumption DEF ReqRecord, Idle, ReqPcs

(* Finish(c) and Goto(c, pc), with what they need to keep the invariant. *)
LEMMA FinishPreserves ==
    ASSUME IpcInv, NEW c \in Clients, Finish(c), gate' \in GateRecord,
           gate' = gate \/ gate'.phase # "probe",
           WillTell(c) => gate'.phase # "probe",
           connected' = connected, monitor' = monitor,
           preferOg' \in SUBSET Urls, ogBlocked' \in SUBSET Urls, cached' \in SUBSET Urls
    PROVE  IpcInv'
<1>1. NoUrl \in Urls
    BY IpcAssumption DEF NoUrl
<1> DEFINE x == Idle(NoUrl)
<1>2. x \in ReqRecord /\ x.pc = "idle"
    BY <1>1, IdleIsTyped
<1>3. Update(c, x)
    BY DEF Finish
<1> HIDE DEF x
<1> QED BY <1>2, <1>3, ClientMoves

LEMMA GotoPreserves ==
    ASSUME IpcInv, NEW c \in Clients, NEW pc \in ReqPcs, Goto(c, pc), gate' = gate,
           WillTell(c) => pc \in AskPcs, pc # "retry",
           connected' = connected, monitor' = monitor,
           preferOg' \in SUBSET Urls, ogBlocked' \in SUBSET Urls, cached' \in SUBSET Urls
    PROVE  IpcInv'
<1>t. /\ gate \in GateRecord /\ connected \in BOOLEAN
      /\ preferOg \in SUBSET Urls /\ ogBlocked \in SUBSET Urls /\ cached \in SUBSET Urls
      /\ req \in [Clients -> ReqRecord]
      /\ monitor \in MonitorRecord
    BY DEF IpcInv, TypeOK
<1> DEFINE x == [req[c] EXCEPT !.pc = pc]
<1>1. req[c] \in ReqRecord
    BY <1>t
<1>2. x \in ReqRecord /\ x.pc = pc
    BY <1>1, Locals DEF ReqRecord
<1>3. Update(c, x)
    BY DEF Goto
<1> HIDE DEF x
<1> QED BY <1>t, <1>2, <1>3, ClientMoves

LEMMA ClientPreserves ==
    ASSUME IpcInv, NEW c \in Clients, ClientStep(c)
    PROVE  IpcInv'
<1>t. /\ gate \in GateRecord /\ connected \in BOOLEAN
      /\ preferOg \in SUBSET Urls /\ ogBlocked \in SUBSET Urls /\ cached \in SUBSET Urls
      /\ req \in [Clients -> ReqRecord]
      /\ monitor \in MonitorRecord
    BY DEF IpcInv, TypeOK
<1>r. req[c] \in ReqRecord
    BY <1>t
<1>1. ASSUME NEW u \in Urls, NEW skip \in BOOLEAN, Arrives(c, u, skip)
      PROVE  IpcInv'
    <2> DEFINE out == skip \/ u \in ogBlocked
    <2> DEFINE pc == IF skip THEN "clear" ELSE "blocked"
    <2> DEFINE x == [Idle(u) EXCEPT !.pc = pc, !.skip = skip, !.ogIsOut = out]
    <2>1. out \in BOOLEAN /\ pc \in ReqPcs
        BY DEF ReqPcs
    <2>2. Update(c, x) /\ At(c, "idle")
          /\ UNCHANGED <<gate, connected, preferOg, ogBlocked, cached, monitor>>
        BY <1>1 DEF Arrives
    <2>3. Idle(u) \in ReqRecord
        BY IdleIsTyped
    <2>p. pc # "retry"
        OBVIOUS
    <2> HIDE DEF out, pc
    <2>4. x \in ReqRecord /\ x.pc # "retry"
        <3>1. ASSUME NEW y \in ReqRecord
              PROVE  /\ [y EXCEPT !.pc = pc, !.skip = skip, !.ogIsOut = out] \in ReqRecord
                     /\ [y EXCEPT !.pc = pc, !.skip = skip, !.ogIsOut = out].pc = pc
            BY <2>1 DEF ReqRecord
        <3> QED BY <2>3, <2>p, <3>1
    <2> HIDE DEF x
    <2>5. ~WillTell(c)
        BY <2>2 DEF WillTell, At, AskPcs
    <2> QED BY <1>t, <2>2, <2>4, <2>5, ClientMoves
<1>2. CASE CheckBlocked(c)
    <2>1. PICK pc \in {"bypass", "hint"} : Goto(c, pc)
        BY <1>2 DEF CheckBlocked
    <2> QED BY <1>t, <1>2, <2>1, GotoPreserves
        DEF CheckBlocked, WillTell, At, AskPcs, ReqPcs
<1>3. CASE CheckHint(c)
    <2>1. ~WillTell(c)
        BY <1>3 DEF CheckHint, WillTell, At, AskPcs
    <2> QED BY <1>t, <1>3, <2>1, GotoPreserves, FinishPreserves DEF CheckHint, ReqPcs
<1>4. CASE ClearHint(c)
    <2>1. ~WillTell(c)
        BY <1>4 DEF ClearHint, WillTell, At, AskPcs
    <2> QED BY <1>t, <1>4, <2>1, GotoPreserves, FinishPreserves DEF ClearHint, ReqPcs
<1>5. CASE CheckBypass(c)
    <2>1. ~WillTell(c)
        BY <1>5 DEF CheckBypass, WillTell, At, AskPcs
    <2>2. PICK pc \in {"lookup", "gate"} : Goto(c, pc)
        BY <1>5 DEF CheckBypass
    <2> QED BY <1>t, <1>5, <2>1, <2>2, GotoPreserves DEF CheckBypass, ReqPcs
<1>6. CASE CheckGate(c)
    <2>1. AfterCheck(gate, connected) \in GateRecord
          /\ (~LetsThrough(gate, connected) => AfterCheck(gate, connected) = gate)
        BY <1>t, CheckIsTyped
    <2>2. ~WillTell(c)
        BY <1>6 DEF CheckGate, WillTell, At, AskPcs
    <2>3. CASE LetsThrough(gate, connected)
        <3> DEFINE x == [req[c] EXCEPT !.pc = "verdict"]
        <3>1. x \in ReqRecord /\ x.pc = "verdict"
            BY <1>r, Locals DEF ReqPcs
        <3>2. Update(c, x)
            BY <1>6, <2>3 DEF CheckGate, Goto
        <3> HIDE DEF x
        <3> QED BY <1>t, <1>6, <2>1, <2>2, <3>1, <3>2, ClientMoves DEF CheckGate
    <2>4. CASE ~LetsThrough(gate, connected)
        BY <1>t, <1>6, <2>1, <2>2, <2>4, FinishPreserves DEF CheckGate
    <2> QED BY <2>3, <2>4
<1>7. CASE CheckProbe(c)
    <2> DEFINE b == AwaitingProbeVerdict(gate)
    <2> DEFINE x == [req[c] EXCEPT !.pc = "lookup", !.isProbe = b]
    <2>1. b \in BOOLEAN
        BY DEF AwaitingProbeVerdict
    <2>2. gate.phase = "probe" /\ ~gate.overdue => b
        BY DEF AwaitingProbeVerdict, HalfOpen
    <2>3. Update(c, x) /\ UNCHANGED <<gate, connected, preferOg, ogBlocked, cached, monitor>>
        BY <1>7 DEF CheckProbe
    <2> HIDE DEF b
    <2>4. x \in ReqRecord /\ x.pc = "lookup" /\ x.isProbe = b
        BY <1>r, <2>1 DEF ReqRecord, ReqPcs
    <2> HIDE DEF x
    <2> QED BY <1>t, <2>2, <2>3, <2>4, ClientMoves
<1>8. CASE Lookup(c)
    <2>1. CASE req[c].url \in cached /\ ~req[c].isProbe
        <3>1. ~WillTell(c)
            BY <1>8, <2>1 DEF Lookup, WillTell, At, AskPcs
        <3> QED BY <1>t, <1>8, <2>1, <3>1, FinishPreserves DEF Lookup
    <2>2. CASE ~(req[c].url \in cached /\ ~req[c].isProbe)
        BY <1>t, <1>8, <2>2, GotoPreserves DEF Lookup, ReqPcs, AskPcs
    <2> QED BY <2>1, <2>2
<1>9. ASSUME NEW outcome \in Outcomes, Answered(c, outcome)
      PROVE  IpcInv'
    <2>1. PICK pc \in {"retry", "store", "record"} :
              /\ Update(c, [req[c] EXCEPT !.pc = pc, !.outcome = outcome])
              /\ pc = "retry" => req[c].retries < MaxRetries
        BY <1>9 DEF Answered, MayRetry
    <2> DEFINE x == [req[c] EXCEPT !.pc = pc, !.outcome = outcome]
    <2>2. x \in ReqRecord /\ x.pc = pc /\ x.retries = req[c].retries /\ x.pc \in AskPcs
        BY <1>r, <2>1 DEF ReqRecord, ReqPcs, AskPcs
    <2>3. Update(c, x) /\ (x.pc = "retry" => x.retries < MaxRetries)
        BY <2>1, <2>2
    <2> HIDE DEF x
    <2> QED BY <1>t, <1>9, <2>2, <2>3, ClientMoves DEF Answered
<1>10. CASE Retry(c)
    <2>1. CASE Goto(c, "record")
        BY <1>t, <1>10, <2>1, GotoPreserves DEF Retry, ReqPcs, AskPcs
    <2>2. CASE Update(c, [req[c] EXCEPT !.pc = "asking", !.retries = @ + 1])
        <3> DEFINE x == [req[c] EXCEPT !.pc = "asking", !.retries = @ + 1]
        <3>0. req[c].retries < MaxRetries
            BY <1>10 DEF IpcInv, RetryLeft, Retry
        <3>1. x \in ReqRecord /\ x.pc = "asking" /\ x.pc \in AskPcs
            <4>1. req[c].retries + 1 \in 0 .. MaxRetries
                BY <1>r, <3>0, IpcAssumption DEF ReqRecord
            <4>2. "asking" \in ReqPcs /\ "asking" \in AskPcs
                BY DEF ReqPcs, AskPcs
            <4> QED BY <1>r, <4>1, <4>2 DEF ReqRecord
        <3>2. Update(c, x)
            BY <2>2
        <3> HIDE DEF x
        <3> QED BY <1>t, <1>10, <3>1, <3>2, ClientMoves DEF Retry
    <2> QED BY <1>10, <2>1, <2>2 DEF Retry
<1>11. CASE Store(c)
    <2>1. cached' \in SUBSET Urls
        BY <1>t, <1>r, <1>11 DEF Store, ReqRecord
    <2> QED BY <1>t, <1>11, <2>1, GotoPreserves DEF Store, ReqPcs, AskPcs
<1>12. CASE Record(c)
    <2> DEFINE h == Healthy(req[c].outcome)
    <2> DEFINE s == req[c].outcome = "resolved"
    <2>1. h \in BOOLEAN /\ s \in BOOLEAN
        BY DEF Healthy
    <2>2. gate' = AfterResolve(gate, h, s)
        BY <1>12 DEF Record
    <2> HIDE DEF h, s
    <2>3. gate' \in GateRecord /\ gate'.phase # "probe"
        BY <1>t, <2>1, <2>2, ResolveIsTyped
    <2> QED BY <1>t, <1>12, <2>3, FinishPreserves DEF Record
<1>13. ASSUME NEW u \in Urls, OgFailed(c, u)
       PROVE  IpcInv'
    <2> DEFINE x == [Idle(u) EXCEPT !.pc = "evict"]
    <2>1. Idle(u) \in ReqRecord
        BY IdleIsTyped
    <2>2. x \in ReqRecord /\ x.pc # "retry"
        BY <2>1, Locals DEF ReqPcs
    <2>3. Update(c, x) /\ ~WillTell(c)
        BY <1>13 DEF OgFailed, WillTell, At, AskPcs
    <2> HIDE DEF x
    <2> QED BY <1>t, <1>13, <2>2, <2>3, ClientMoves DEF OgFailed
<1>14. CASE EvictFailed(c) \/ BlockSite(c)
    <2>1. PICK pc \in {"block", "clear"} : Goto(c, pc)
        BY <1>14 DEF EvictFailed, BlockSite
    <2>2. ~WillTell(c)
        BY <1>14 DEF EvictFailed, BlockSite, WillTell, At, AskPcs
    <2>3. cached' \in SUBSET Urls /\ ogBlocked' \in SUBSET Urls
        BY <1>t, <1>r, <1>14 DEF EvictFailed, BlockSite, ReqRecord
    <2> QED BY <1>t, <1>14, <2>1, <2>2, <2>3, GotoPreserves DEF EvictFailed, BlockSite, ReqPcs
<1> QED BY <1>1, <1>2, <1>3, <1>4, <1>5, <1>6, <1>7, <1>8, <1>9, <1>10, <1>11, <1>12,
           <1>13, <1>14 DEF ClientStep, ResolveStep, OgFailedStep

LEMMA MonitorPreserves ==
    ASSUME IpcInv, MonitorStep
    PROVE  IpcInv'
<1>t. /\ gate \in GateRecord /\ connected \in BOOLEAN
      /\ preferOg \in SUBSET Urls /\ ogBlocked \in SUBSET Urls /\ cached \in SUBSET Urls
      /\ req \in [Clients -> ReqRecord]
      /\ monitor \in MonitorRecord
    BY DEF IpcInv, TypeOK
<1>1. monitor' \in MonitorRecord
    <2>1. ASSUME NEW u \in Urls, NEW proxied \in BOOLEAN, PlaybackFails(u, proxied)
          PROVE  monitor' \in MonitorRecord
        <3>1. (proxied \/ u \in cached) \in BOOLEAN
            OBVIOUS
        <3> QED BY <2>1, <3>1 DEF PlaybackFails, MonitorRecord
    <2>2. CASE HintFailure
        BY <1>t, <2>2 DEF HintFailure, MonitorRecord
    <2>3. CASE EvictPlayed
        BY <1>t, <2>3 DEF EvictPlayed, MonitorRecord
    <2>4. CASE RecordPlayback
        <3>1. NoUrl \in Urls
            BY IpcAssumption DEF NoUrl
        <3> QED BY <2>4, <3>1 DEF RecordPlayback, Watching, MonitorRecord
    <2>5. CASE PlaybackConfirmed
        BY <1>t, <2>5 DEF PlaybackConfirmed
    <2> QED BY <2>1, <2>2, <2>3, <2>4, <2>5 DEF MonitorStep
<1>2. gate' \in GateRecord /\ (gate' = gate \/ gate'.phase # "probe")
    BY <1>t, PlaybackIsTyped
        DEF MonitorStep, PlaybackFails, HintFailure, EvictPlayed, RecordPlayback, PlaybackConfirmed
<1>3. req' = req /\ connected' = connected /\ ogBlocked' = ogBlocked
    BY DEF MonitorStep, PlaybackFails, HintFailure, EvictPlayed, RecordPlayback, PlaybackConfirmed
<1>4. preferOg' \in SUBSET Urls /\ cached' \in SUBSET Urls
    BY <1>t
        DEF MonitorStep, PlaybackFails, HintFailure, EvictPlayed, RecordPlayback, PlaybackConfirmed,
            MonitorRecord
<1> QED BY <1>t, <1>1, <1>2, <1>3, <1>4, OthersMove

LEMMA TimePreserves ==
    ASSUME IpcInv, TimeStep \/ LinkChanges
    PROVE  IpcInv'
<1>t. /\ gate \in GateRecord /\ connected \in BOOLEAN
      /\ preferOg \in SUBSET Urls /\ ogBlocked \in SUBSET Urls /\ cached \in SUBSET Urls
      /\ req \in [Clients -> ReqRecord]
      /\ monitor \in MonitorRecord
    BY DEF IpcInv, TypeOK
<1>1. CASE CooldownEnds
    <2>1. [gate EXCEPT !.cooled = TRUE] \in GateRecord
          /\ [gate EXCEPT !.cooled = TRUE].phase = gate.phase
        BY <1>t DEF GateRecord
    <2> QED BY <1>t, <1>1, <2>1, OthersMove DEF CooldownEnds
<1>2. CASE VerdictTimesOut
    <2>1. [gate EXCEPT !.overdue = TRUE] \in GateRecord /\ [gate EXCEPT !.overdue = TRUE].overdue
        BY <1>t DEF GateRecord
    <2> QED BY <1>t, <1>2, <2>1, OthersMove DEF VerdictTimesOut
<1>3. ASSUME NEW u \in Urls, HintExpires(u) \/ EntryExpires(u)
      PROVE  IpcInv'
    BY <1>t, <1>3, OthersMove DEF HintExpires, EntryExpires
<1>4. ASSUME NEW u \in Urls, BlockExpires(u)
      PROVE  IpcInv'
    <2>1. ASSUME NEW x \in ReqRecord
          PROVE  /\ [x EXCEPT !.ogIsOut = x.skip] \in ReqRecord
                 /\ [x EXCEPT !.ogIsOut = x.skip].pc = x.pc
                 /\ [x EXCEPT !.ogIsOut = x.skip].isProbe = x.isProbe
                 /\ [x EXCEPT !.ogIsOut = x.skip].retries = x.retries
        BY DEF ReqRecord
    <2>2. /\ req' \in [Clients -> ReqRecord]
          /\ \A c \in Clients : /\ req'[c].pc = req[c].pc
                               /\ req'[c].isProbe = req[c].isProbe
                               /\ req'[c].retries = req[c].retries
        BY <1>t, <1>4, <2>1 DEF BlockExpires
    <2> QED BY <1>t, <1>4, <2>2, OthersMove DEF BlockExpires
<1>5. CASE LinkChanges
    BY <1>t, <1>5, OthersMove DEF LinkChanges
<1> QED BY <1>1, <1>2, <1>3, <1>4, <1>5 DEF TimeStep

-----------------------------------------------------------------------------
LEMMA NextIpcInv == IpcInv /\ [Next]_vars => IpcInv'
<1> SUFFICES ASSUME IpcInv, [Next]_vars PROVE IpcInv'
    OBVIOUS
<1>1. CASE Next
    BY <1>1, ClientPreserves, MonitorPreserves, TimePreserves DEF Next
<1>2. CASE UNCHANGED vars
    BY <1>2 DEF vars, IpcInv, TypeOK, RetryLeft, ProbeIsUnderWay, WillTell, At
<1> QED BY <1>1, <1>2

LEMMA AlwaysIpcInv == Spec => []IpcInv
BY InitIpcInv, NextIpcInv, PTL DEF Spec

(* The cells of the gate, the hint, the cache and the requests keep their   *)
(* types; no streak of the gate ever reaches the threshold.                 *)
THEOREM IpcTypeCorrect == Spec => []TypeOK
<1>1. IpcInv => TypeOK
    BY DEF IpcInv
<1> QED BY <1>1, AlwaysIpcInv, PTL

(* A gate that waits for a probe has one on its way, or gives up waiting.   *)
THEOREM ProbeAlwaysUnderWay == Spec => []ProbeIsUnderWay
<1>1. IpcInv => ProbeIsUnderWay
    BY DEF IpcInv
<1> QED BY <1>1, AlwaysIpcInv, PTL

-----------------------------------------------------------------------------
(* A request keeps a way past the hint and the gate for as long as the       *)
(* native resolver is known to fail on its video: it re-asks, or its site    *)
(* is blocked still, and it has not passed the test of the block as one      *)
(* that is not.                                                              *)
OgInv ==
    \A c \in Clients :
        /\ req[c].ogIsOut => req[c].skip \/ req[c].url \in ogBlocked
        /\ req[c].pc \in {"blocked", "hint", "gate"} => ~req[c].skip
        /\ req[c].pc \in {"hint", "gate"} => ~req[c].ogIsOut

LEMMA OgClientMoves ==
    ASSUME IpcInv, OgInv, NEW c \in Clients, NEW x \in ReqRecord, Update(c, x),
           ogBlocked \subseteq ogBlocked',
           x.ogIsOut => x.skip \/ x.url \in ogBlocked',
           x.pc \in {"blocked", "hint", "gate"} => ~x.skip,
           x.pc \in {"hint", "gate"} => ~x.ogIsOut
    PROVE  OgInv'
<1>1. req \in [Clients -> ReqRecord]
    BY DEF IpcInv, TypeOK
<1>2. req'[c] = x /\ \A d \in Clients \ {c} : req'[d] = req[d]
    BY <1>1 DEF Update
<1> QED BY <1>2 DEF OgInv, At

LEMMA OgFinish ==
    ASSUME IpcInv, OgInv, NEW c \in Clients, Finish(c), ogBlocked' = ogBlocked
    PROVE  OgInv'
<1>1. NoUrl \in Urls
    BY IpcAssumption DEF NoUrl
<1> DEFINE x == Idle(NoUrl)
<1>2. x \in ReqRecord /\ x.pc = "idle" /\ ~x.ogIsOut
    BY <1>1, IdleIsTyped DEF Idle
<1>3. Update(c, x)
    BY DEF Finish
<1> HIDE DEF x
<1> QED BY <1>2, <1>3, OgClientMoves

LEMMA OgGoto ==
    ASSUME IpcInv, OgInv, NEW c \in Clients, NEW pc \in ReqPcs \ {"blocked"}, Goto(c, pc),
           ogBlocked \subseteq ogBlocked',
           pc \in {"hint", "gate"} => ~req[c].skip /\ ~req[c].ogIsOut
    PROVE  OgInv'
<1>1. req[c] \in ReqRecord
    BY DEF IpcInv, TypeOK
<1> DEFINE x == [req[c] EXCEPT !.pc = pc]
<1>2. /\ x \in ReqRecord /\ x.pc = pc /\ x.skip = req[c].skip /\ x.url = req[c].url
      /\ x.ogIsOut = req[c].ogIsOut
    BY <1>1 DEF ReqRecord
<1>3. Update(c, x)
    BY DEF Goto
<1> HIDE DEF x
<1>4. x.ogIsOut => x.skip \/ x.url \in ogBlocked'
    BY <1>2 DEF OgInv
<1> QED BY <1>2, <1>3, <1>4, OgClientMoves

LEMMA OgClientKeeps ==
    ASSUME IpcInv, OgInv, NEW c \in Clients, ClientStep(c)
    PROVE  OgInv'
<1>r. req[c] \in ReqRecord
    BY DEF IpcInv, TypeOK
<1>1. ASSUME NEW u \in Urls, NEW skip \in BOOLEAN, Arrives(c, u, skip)
      PROVE  OgInv'
  <2> DEFINE out == skip \/ u \in ogBlocked
             pc == IF skip THEN "clear" ELSE "blocked"
             x == [Idle(u) EXCEPT !.pc = pc, !.skip = skip, !.ogIsOut = out]
  <2>1. out \in BOOLEAN /\ pc \in {"clear", "blocked"} /\ (pc = "blocked" => ~skip)
    OBVIOUS
  <2>2. Update(c, x) /\ ogBlocked' = ogBlocked
    BY <1>1 DEF Arrives
  <2>3. out => skip \/ u \in ogBlocked'
    BY <2>2
  <2> HIDE DEF out, pc
  <2>4. Idle(u) \in ReqRecord /\ Idle(u).url = u
    BY IdleIsTyped DEF Idle
  <2>5. ASSUME NEW y \in ReqRecord
        PROVE  LET z == [y EXCEPT !.pc = pc, !.skip = skip, !.ogIsOut = out]
               IN  z \in ReqRecord /\ z.pc = pc /\ z.skip = skip /\ z.ogIsOut = out /\ z.url = y.url
    BY <2>1 DEF ReqRecord, ReqPcs
  <2>6. x \in ReqRecord /\ x.pc = pc /\ x.skip = skip /\ x.ogIsOut = out /\ x.url = u
    BY <2>4, <2>5
  <2> HIDE DEF x
  <2> QED BY <2>1, <2>2, <2>3, <2>6, OgClientMoves
<1>2. CASE CheckBlocked(c)
  <2>1. req[c].url \notin ogBlocked => ~req[c].skip /\ ~req[c].ogIsOut
    BY <1>2 DEF CheckBlocked, OgInv, At
  <2> QED BY <1>2, <2>1, OgGoto DEF CheckBlocked, ReqPcs
<1>3. CASE CheckHint(c)
    BY <1>3, OgGoto, OgFinish DEF CheckHint, ReqPcs
<1>4. CASE ClearHint(c)
    BY <1>4, OgGoto, OgFinish DEF ClearHint, ReqPcs
<1>5. CASE CheckBypass(c)
  <2>1. ~BypassesGate(c) => ~req[c].skip /\ ~req[c].ogIsOut
    BY DEF BypassesGate, OgInv
  <2> QED BY <1>5, <2>1, OgGoto DEF CheckBypass, ReqPcs
<1>6. CASE CheckGate(c)
    BY <1>6, OgGoto, OgFinish DEF CheckGate, ReqPcs
<1>7. CASE CheckProbe(c)
  <2> DEFINE b == AwaitingProbeVerdict(gate)
             x == [req[c] EXCEPT !.pc = "lookup", !.isProbe = b]
  <2>1. b \in BOOLEAN
    BY DEF AwaitingProbeVerdict
  <2>2. Update(c, x) /\ ogBlocked' = ogBlocked
    BY <1>7 DEF CheckProbe
  <2> HIDE DEF b
  <2>3. /\ x \in ReqRecord /\ x.pc = "lookup" /\ x.skip = req[c].skip /\ x.url = req[c].url
        /\ x.ogIsOut = req[c].ogIsOut
    BY <1>r, <2>1 DEF ReqRecord, ReqPcs
  <2> HIDE DEF x
  <2>4. x.ogIsOut => x.skip \/ x.url \in ogBlocked'
    BY <2>2, <2>3 DEF OgInv
  <2> QED BY <2>2, <2>3, <2>4, OgClientMoves
<1>8. CASE Lookup(c)
    BY <1>8, OgGoto, OgFinish DEF Lookup, ReqPcs, AskPcs
<1>9. ASSUME NEW outcome \in Outcomes, Answered(c, outcome)
      PROVE  OgInv'
  <2>1. PICK pc \in {"retry", "store", "record"} :
            Update(c, [req[c] EXCEPT !.pc = pc, !.outcome = outcome]) /\ ogBlocked' = ogBlocked
    BY <1>9 DEF Answered
  <2> DEFINE x == [req[c] EXCEPT !.pc = pc, !.outcome = outcome]
  <2>2. /\ x \in ReqRecord /\ x.pc = pc /\ x.skip = req[c].skip /\ x.url = req[c].url
        /\ x.ogIsOut = req[c].ogIsOut
    BY <1>r, <2>1 DEF ReqRecord, ReqPcs, AskPcs
  <2>3. Update(c, x)
    BY <2>1
  <2> HIDE DEF x
  <2>4. x.ogIsOut => x.skip \/ x.url \in ogBlocked'
    BY <2>1, <2>2 DEF OgInv
  <2> QED BY <2>1, <2>2, <2>3, <2>4, OgClientMoves
<1>10. CASE Retry(c)
  <2>1. CASE Goto(c, "record")
    BY <1>10, <2>1, OgGoto DEF Retry, ReqPcs, AskPcs
  <2>2. CASE Update(c, [req[c] EXCEPT !.pc = "asking", !.retries = @ + 1])
    <3> DEFINE x == [req[c] EXCEPT !.pc = "asking", !.retries = @ + 1]
    <3>1. req[c].retries < MaxRetries /\ ogBlocked' = ogBlocked
      BY <1>10 DEF IpcInv, RetryLeft, Retry
    <3>2. req[c].retries + 1 \in 0 .. MaxRetries
      BY <1>r, <3>1, IpcAssumption DEF ReqRecord
    <3>3. /\ x \in ReqRecord /\ x.pc = "asking" /\ x.skip = req[c].skip /\ x.url = req[c].url
          /\ x.ogIsOut = req[c].ogIsOut
      BY <1>r, <3>2 DEF ReqRecord, ReqPcs, AskPcs
    <3>4. Update(c, x)
      BY <2>2
    <3> HIDE DEF x
    <3>5. x.ogIsOut => x.skip \/ x.url \in ogBlocked'
      BY <3>1, <3>3 DEF OgInv
    <3> QED BY <3>1, <3>3, <3>4, <3>5, OgClientMoves
  <2> QED BY <1>10, <2>1, <2>2 DEF Retry
<1>11. CASE Store(c)
    BY <1>11, OgGoto DEF Store, ReqPcs, AskPcs
<1>12. CASE Record(c)
    BY <1>12, OgFinish DEF Record
<1>13. ASSUME NEW u \in Urls, OgFailed(c, u)
       PROVE  OgInv'
  <2> DEFINE x == [Idle(u) EXCEPT !.pc = "evict"]
  <2>1. Idle(u) \in ReqRecord /\ ~Idle(u).ogIsOut
    BY IdleIsTyped DEF Idle
  <2>2. ASSUME NEW y \in ReqRecord
        PROVE  LET z == [y EXCEPT !.pc = "evict"]
               IN  z \in ReqRecord /\ z.pc = "evict" /\ z.ogIsOut = y.ogIsOut
    BY DEF ReqRecord, ReqPcs
  <2>3. x \in ReqRecord /\ x.pc = "evict" /\ ~x.ogIsOut
    BY <2>1, <2>2
  <2>4. Update(c, x) /\ ogBlocked' = ogBlocked
    BY <1>13 DEF OgFailed
  <2> HIDE DEF x
  <2> QED BY <2>3, <2>4, OgClientMoves
<1>14. CASE EvictFailed(c) \/ BlockSite(c)
    BY <1>14, OgGoto DEF EvictFailed, BlockSite, ReqPcs
<1> QED BY <1>1, <1>2, <1>3, <1>4, <1>5, <1>6, <1>7, <1>8, <1>9, <1>10, <1>11, <1>12,
           <1>13, <1>14 DEF ClientStep, ResolveStep, OgFailedStep

(* A block that runs out takes with it that the native resolver is out.      *)
LEMMA OgTimeKeeps ==
    ASSUME IpcInv, OgInv, TimeStep
    PROVE  OgInv'
<1>t. req \in [Clients -> ReqRecord] /\ \A c \in Clients : req[c] \in ReqRecord
    BY DEF IpcInv, TypeOK
<1>1. CASE UNCHANGED <<req, ogBlocked>>
    BY <1>1 DEF OgInv, At
<1>2. ASSUME NEW u \in Urls, BlockExpires(u)
      PROVE  OgInv'
  <2>1. ASSUME NEW y \in ReqRecord
        PROVE  LET z == [y EXCEPT !.ogIsOut = y.skip]
               IN  z.pc = y.pc /\ z.skip = y.skip /\ z.url = y.url /\ z.ogIsOut = y.skip
    BY DEF ReqRecord
  <2>2. SUFFICES ASSUME NEW c \in Clients
                 PROVE  /\ req'[c].ogIsOut => req'[c].skip \/ req'[c].url \in ogBlocked'
                        /\ req'[c].pc \in {"blocked", "hint", "gate"} => ~req'[c].skip
                        /\ req'[c].pc \in {"hint", "gate"} => ~req'[c].ogIsOut
    BY DEF OgInv, At
  <2>3. /\ req'[c] = IF req[c].url = u THEN [req[c] EXCEPT !.ogIsOut = req[c].skip] ELSE req[c]
        /\ ogBlocked' = ogBlocked \ {u}
    BY <1>2 DEF BlockExpires
  <2>4. CASE req[c].url = u
    <3>1. /\ req'[c].pc = req[c].pc /\ req'[c].skip = req[c].skip /\ req'[c].ogIsOut = req[c].skip
      BY <1>t, <2>1, <2>3, <2>4
    <3> QED BY <3>1 DEF OgInv
  <2>5. CASE req[c].url # u
    BY <2>3, <2>5 DEF OgInv, At
  <2> QED BY <2>4, <2>5
<1> QED BY <1>1, <1>2 DEF TimeStep, CooldownEnds, VerdictTimesOut, HintExpires, EntryExpires

LEMMA NextOgInv == IpcInv /\ OgInv /\ [Next]_vars => OgInv'
<1> SUFFICES ASSUME IpcInv, OgInv, [Next]_vars PROVE OgInv'
    OBVIOUS
<1>1. CASE MonitorStep \/ LinkChanges \/ UNCHANGED vars
  <2>1. UNCHANGED <<req, ogBlocked>>
    BY <1>1 DEF MonitorStep, PlaybackFails, HintFailure, EvictPlayed, RecordPlayback,
       PlaybackConfirmed, LinkChanges, vars
  <2> QED BY <2>1 DEF OgInv
<1> QED BY <1>1, OgClientKeeps, OgTimeKeeps DEF Next

LEMMA InitOgInv == Init => OgInv
BY DEF Init, Idle, OgInv

(* A request leaves the hint and the gate for a finished one only if nobody  *)
(* knows the native resolver to fail on its video.                           *)
THEOREM NotSentBackToOg == Spec => NeverBackToOg
<1>1. OgInv => \A c \in Clients :
                req[c].pc \in {"hint", "gate"} /\ At(c, "idle")' => ~req[c].ogIsOut
    BY DEF OgInv
<1>2. Spec => []OgInv
    BY InitIpcInv, NextIpcInv, InitOgInv, NextOgInv, PTL DEF Spec
<1>3. Spec => [][\A c \in Clients :
                req[c].pc \in {"hint", "gate"} /\ At(c, "idle")' => ~req[c].ogIsOut]_vars
    BY <1>1, <1>2, PTL
<1> QED BY <1>3 DEF NeverBackToOg
=============================================================================
