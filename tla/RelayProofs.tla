----------------------------- MODULE RelayProofs -----------------------------
(***************************************************************************)
(* For any number of connections, any limit and bodies of any length: the  *)
(* slots are counted right, and a body that was cut short never ends as if *)
(* it were whole.  For texts of any length and cut anywhere: the lines are *)
(* those of the whole.  For any number of plays and sessions of VRChat: the*)
(* files name where the relay listens and a play that fails is counted     *)
(* once.                                                                   *)
(***************************************************************************)
EXTENDS Relay, Playback, Integers, FiniteSetTheorems, SequenceTheorems, WellFoundedInduction, TLAPS

Phases == {"none", "tls", "idle", "overfull", "handling", "answering", "gone"}
Pumps == {"none", "reading", "sending", "manifest", "writing", "failing", "failed"}
ConnRecord == [phase : Phases, declared : Nat, out : Nat, taken : Nat,
               whole : BOOLEAN, abort : BOOLEAN]

(* A connection k with pump p.  The pump belongs to the answer under way; as *)
(* long as the body is not whole, what is out falls short of what was        *)
(* declared, and a pump that is done with it has seen to an abort.           *)
Sound(k, p, stopping) ==
    /\ k.phase \in {"none", "tls", "idle", "overfull", "handling"} => p = "none"
    /\ k.phase = "answering" => k.taken <= k.out
    /\ k.phase = "answering" /\ ~k.whole =>
          /\ k.declared # Undeclared => k.out < k.declared
          /\ p \in {"manifest", "writing"} => k.declared = Undeclared
          /\ p = "none" => k.abort \/ stopping
          /\ p = "failed" => k.abort

ServerTypes ==
    /\ server \in {"up", "stopping", "draining", "stopped"}
    /\ conn \in [Conns -> ConnRecord]
    /\ pump \in [Conns -> Pumps]

ServerInv == ServerTypes /\ \A c \in Conns : Sound(conn[c], pump[c], Stopping)

LEMMA ServerInvInit == Init => ServerInv
BY DEF Init, ServerInv, ServerTypes, ConnRecord, Phases, Pumps, Blank, Undeclared, Sound

(* A step of one connection and its pump. *)
Becomes(c, k, p) ==
    /\ conn' = [conn EXCEPT ![c] = k]
    /\ pump' = [pump EXCEPT ![c] = p]
    /\ server' = server

LEMMA OneConnection ==
    ASSUME ServerInv, NEW c \in Conns, NEW k \in ConnRecord, NEW p \in Pumps,
           Becomes(c, k, p), Sound(k, p, Stopping)
    PROVE  ServerInv'
<1>1. ServerTypes'
    BY DEF ServerInv, ServerTypes, Becomes
<1>2. Stopping' = Stopping
    BY DEF Becomes, Stopping
<1>3. ASSUME NEW d \in Conns PROVE Sound(conn'[d], pump'[d], Stopping)
  <2>1. CASE d = c
    <3>1. conn'[d] = k /\ pump'[d] = p
        BY <2>1 DEF ServerInv, ServerTypes, Becomes
    <3> QED BY <3>1
  <2>2. CASE d # c
    <3>1. conn'[d] = conn[d] /\ pump'[d] = pump[d]
        BY <2>2 DEF ServerInv, ServerTypes, Becomes
    <3> QED BY <3>1 DEF ServerInv
  <2> QED BY <2>1, <2>2
<1> QED BY <1>1, <1>2, <1>3 DEF ServerInv

(* The same where only the connection changes, or only the pump. *)
LEMMA ConnAlone ==
    ASSUME ServerInv, NEW c \in Conns, NEW k \in ConnRecord,
           conn' = [conn EXCEPT ![c] = k], UNCHANGED <<server, pump>>,
           Sound(k, pump[c], Stopping)
    PROVE  ServerInv'
<1>1. pump[c] \in Pumps /\ pump' = [pump EXCEPT ![c] = pump[c]]
    BY DEF ServerInv, ServerTypes
<1> QED BY <1>1, OneConnection DEF Becomes

LEMMA PumpAlone ==
    ASSUME ServerInv, NEW c \in Conns, NEW p \in Pumps,
           pump' = [pump EXCEPT ![c] = p], UNCHANGED <<server, conn>>,
           Sound(conn[c], p, Stopping)
    PROVE  ServerInv'
<1>1. conn[c] \in ConnRecord /\ conn' = [conn EXCEPT ![c] = conn[c]]
    BY DEF ServerInv, ServerTypes
<1> QED BY <1>1, OneConnection DEF Becomes

(* Blank connections are sound as long as no pump is at work for them. *)
LEMMA BlankIsSound ==
    ASSUME NEW phase \in Phases, NEW abort \in BOOLEAN, NEW p, NEW stopping,
           p = "none" \/ phase = "gone"
    PROVE  /\ [Blank EXCEPT !.phase = phase, !.abort = abort] \in ConnRecord
           /\ [Blank EXCEPT !.abort = abort, !.phase = phase] \in ConnRecord
           /\ Sound([Blank EXCEPT !.phase = phase, !.abort = abort], p, stopping)
           /\ Sound([Blank EXCEPT !.abort = abort, !.phase = phase], p, stopping)
<1>1. Blank \in ConnRecord /\ Blank.declared = 0 /\ Blank.out = 0 /\ Blank.taken = 0 /\ Blank.whole
    BY RelayAssumption DEF Blank, Undeclared, ConnRecord, Phases
<1> DEFINE k == [Blank EXCEPT !.phase = phase, !.abort = abort]
           m == [Blank EXCEPT !.abort = abort, !.phase = phase]
<1>2. k \in ConnRecord /\ m \in ConnRecord
    BY <1>1 DEF ConnRecord
<1>3. /\ k.phase = phase /\ k.abort = abort /\ k.declared = 0 /\ k.out = 0 /\ k.taken = 0 /\ k.whole
      /\ m.phase = phase /\ m.abort = abort /\ m.declared = 0 /\ m.out = 0 /\ m.taken = 0 /\ m.whole
    BY <1>1 DEF ConnRecord
<1> HIDE DEF k, m
<1>4. Sound(k, p, stopping) /\ Sound(m, p, stopping)
    BY <1>3 DEF Sound, Undeclared
<1> QED BY <1>2, <1>4 DEF k, m

LEMMA ConnStepKeeps ==
    ASSUME ServerInv, NEW c \in Conns,
           Accept(c) \/ Request(c) \/ ConnStep(c) \/ ClientStep(c)
    PROVE  ServerInv'
<1> DEFINE k == conn[c]
<1>1. /\ k \in ConnRecord /\ pump[c] \in Pumps /\ Sound(k, pump[c], Stopping)
      /\ k.abort \in BOOLEAN
      /\ \A x \in ConnRecord : [conn EXCEPT ![c] = x][c] = x
    BY DEF ServerInv, ServerTypes, ConnRecord
<1>2. ASSUME NEW phase \in Phases \ {"answering", "gone"}, k.phase # "answering", k.phase # "gone",
             conn' = [conn EXCEPT ![c].phase = phase], UNCHANGED <<server, pump>>
      PROVE  ServerInv'
  <2>1. [k EXCEPT !.phase = phase] \in ConnRecord
    BY <1>1 DEF ConnRecord
  <2>2. Sound([k EXCEPT !.phase = phase], pump[c], Stopping)
    BY <1>1, <1>2 DEF Sound, ConnRecord, Phases
  <2> QED BY <1>2, <2>1, <2>2, ConnAlone
<1>3. ASSUME Drop(c) PROVE ServerInv'
  <2>1. conn' = [conn EXCEPT ![c] = [Blank EXCEPT !.phase = "gone", !.abort = k.abort]]
    BY <1>3 DEF Drop
  <2> QED BY <1>1, <1>3, <2>1, BlankIsSound, ConnAlone DEF Drop, Phases
<1>4. CASE Accept(c)
    BY <1>2, <1>4 DEF Accept, Phases
<1>5. CASE Request(c)
    BY <1>2, <1>5 DEF Request, Phases
<1>6. CASE Handshake(c)
  <2>1. CASE conn' = [conn EXCEPT ![c].phase = "idle"]
    BY <1>2, <1>6, <2>1 DEF Handshake, Phases
  <2>2. CASE conn' = [conn EXCEPT ![c].phase = "gone"]
    <3>1. [k EXCEPT !.phase = "gone"] \in ConnRecord
        BY <1>1 DEF ConnRecord, Phases
    <3>2. Sound([k EXCEPT !.phase = "gone"], pump[c], Stopping)
        BY <1>1 DEF Sound, ConnRecord
    <3> QED BY <1>6, <2>2, <3>1, <3>2, ConnAlone DEF Handshake
  <2> QED BY <1>6, <2>1, <2>2 DEF Handshake
<1>7. CASE AbortConnection(c) \/ ClientLeaves(c)
    BY <1>3, <1>7 DEF AbortConnection, ClientLeaves
<1>8. CASE AnswerEmpty(c)
  <2>1. pump[c] = "none"
    BY <1>1, <1>8 DEF AnswerEmpty, Sound
  <2>2. conn' = [conn EXCEPT ![c] = [Blank EXCEPT !.phase = "answering", !.abort = k.abort]]
    BY <1>8 DEF AnswerEmpty, Answer
  <2>3. [Blank EXCEPT !.phase = "answering", !.abort = k.abort] \in ConnRecord
    BY <1>1, <2>1, BlankIsSound DEF Phases
  <2>4. Sound([Blank EXCEPT !.phase = "answering", !.abort = k.abort], pump[c], Stopping)
    BY <1>1, <2>1, BlankIsSound DEF Phases
  <2> QED BY <1>8, <2>2, <2>3, <2>4, ConnAlone DEF AnswerEmpty
<1>9. CASE Respond(c)
  <2> PICK kind \in {"reading", "manifest"}, d \in 0 .. MaxChunks :
           /\ kind = "manifest" => d = Undeclared
           /\ pump' = [pump EXCEPT ![c] = kind]
           /\ conn' = [conn EXCEPT ![c] = [phase |-> "answering", declared |-> d, out |-> 0,
                                           taken |-> 0, whole |-> FALSE, abort |-> k.abort]]
    BY <1>9 DEF Respond
  <2> DEFINE new == [phase |-> "answering", declared |-> d, out |-> 0,
                     taken |-> 0, whole |-> FALSE, abort |-> k.abort]
  <2>1. new \in ConnRecord /\ kind \in Pumps
    BY <1>1, RelayAssumption DEF ConnRecord, Phases, Pumps
  <2>2. Sound(new, kind, Stopping)
    BY RelayAssumption DEF Sound, Undeclared
  <2> HIDE DEF new
  <2>3. Becomes(c, new, kind)
    BY <1>9 DEF Becomes, Respond, new
  <2> QED BY <2>1, <2>2, <2>3, OneConnection
<1>10. CASE BodyEnds(c)
  <2>1. PICK phase \in {"idle", "gone"} :
            conn' = [conn EXCEPT ![c] = [Blank EXCEPT !.abort = k.abort, !.phase = phase]]
    BY <1>10 DEF BodyEnds
  <2>2. /\ [Blank EXCEPT !.abort = k.abort, !.phase = phase] \in ConnRecord
        /\ Sound([Blank EXCEPT !.abort = k.abort, !.phase = phase], pump[c], Stopping)
    BY <1>1, <1>10, <2>1, BlankIsSound DEF BodyEnds, Phases
  <2> QED BY <1>10, <2>1, <2>2, ConnAlone DEF BodyEnds
<1>11. CASE ClientTakes(c)
  <2>1. k.taken < k.out /\ k.taken + 1 \in Nat /\ k.taken + 1 <= k.out
    BY <1>1, <1>11 DEF ClientTakes, ConnRecord
  <2> DEFINE taken == k.taken + 1
  <2>2. conn' = [conn EXCEPT ![c] = [k EXCEPT !.taken = taken]]
    BY <1>1, <1>11 DEF ClientTakes, ServerInv, ServerTypes
  <2>3. taken \in Nat /\ taken <= k.out
    BY <2>1
  <2> HIDE DEF taken
  <2>4. [k EXCEPT !.taken = taken] \in ConnRecord
    BY <1>1, <2>3 DEF ConnRecord
  <2>5. Sound([k EXCEPT !.taken = taken], pump[c], Stopping)
    BY <1>1, <2>3 DEF Sound, ConnRecord
  <2> QED BY <1>11, <2>2, <2>4, <2>5, ConnAlone DEF ClientTakes
<1> QED BY <1>4, <1>5, <1>6, <1>7, <1>8, <1>9, <1>10, <1>11 DEF ConnStep, ClientStep

LEMMA PumpStepKeeps ==
    ASSUME ServerInv, NEW c \in Conns, PumpStep(c)
    PROVE  ServerInv'
<1> DEFINE k == conn[c]
<1>1. k \in ConnRecord /\ pump[c] \in Pumps /\ Sound(k, pump[c], Stopping)
    BY DEF ServerInv, ServerTypes
<1>2. ASSUME NEW to \in {"reading", "sending", "failing"}, pump[c] # "none",
             PumpGoes(c, to), UNCHANGED server
      PROVE  ServerInv'
  <2>1. Sound(k, to, Stopping)
    BY <1>1, <1>2 DEF Sound
  <2> QED BY <1>2, <2>1, PumpAlone DEF PumpGoes, Pumps
(* The pump is done: the body is whole, or the server is stopping.           *)
<1>3. ASSUME pump[c] # "none", Whole(c), PumpDone(c), UNCHANGED server
      PROVE  ServerInv'
  <2> DEFINE new == [k EXCEPT !.whole = (k.phase = "answering" \/ @)]
  <2>1. new \in ConnRecord
    BY <1>1 DEF ConnRecord
  <2>2. Sound(new, "none", Stopping)
    BY <1>1 DEF Sound, ConnRecord
  <2>3. conn' = [conn EXCEPT ![c] = new]
    BY <1>3 DEF Whole, ServerInv, ServerTypes
  <2> HIDE DEF new
  <2>4. Becomes(c, new, "none")
    BY <1>3, <2>3 DEF Becomes, PumpDone
  <2> QED BY <2>1, <2>2, <2>4, OneConnection DEF Pumps
<1>4. ASSUME pump[c] \notin {"none"}, Stopping \/ pump[c] = "failed", PumpDone(c),
             UNCHANGED <<server, conn>>
      PROVE  ServerInv'
  <2>1. Sound(k, "none", Stopping)
    BY <1>1, <1>4 DEF Sound
  <2> QED BY <1>4, <2>1, PumpAlone DEF PumpDone, Pumps
<1>5. CASE PumpReads(c)
    BY <1>2, <1>3, <1>5 DEF PumpReads
<1>6. CASE PumpSends(c)
  <2> DEFINE out == k.out + 1
             sent == [k EXCEPT !.out = out]
             last == [k EXCEPT !.out = out, !.whole = TRUE]
  <2>1. k.phase # "gone" /\ k.phase = "answering"
    BY <1>1, <1>6 DEF PumpSends, Fits, Unread, Sound, ConnRecord, Phases
  <2>2. /\ out \in Nat /\ k.taken <= out
        /\ k.declared # Undeclared /\ ~k.whole /\ out # k.declared => out < k.declared
    BY <1>1, <1>6, <2>1 DEF PumpSends, Fits, ConnRecord, Sound
  <2>3. \/ /\ out = k.declared /\ conn' = [conn EXCEPT ![c] = last]
           /\ pump' = [pump EXCEPT ![c] = "none"]
        \/ /\ out # k.declared /\ conn' = [conn EXCEPT ![c] = sent]
           /\ pump' = [pump EXCEPT ![c] = "reading"]
    BY <1>6 DEF PumpSends, PumpDone, ServerInv, ServerTypes
  <2>4. server' = server
    BY <1>6 DEF PumpSends
  <2> HIDE DEF out
  <2>5. sent \in ConnRecord /\ last \in ConnRecord
    BY <1>1, <2>2 DEF ConnRecord
  <2>6. Sound(last, "none", Stopping)
    BY <1>1, <2>1, <2>2 DEF Sound, ConnRecord
  <2>7. out # k.declared => Sound(sent, "reading", Stopping)
    BY <1>1, <2>1, <2>2 DEF Sound, ConnRecord
  <2> HIDE DEF sent, last
  <2>8. CASE pump' = [pump EXCEPT ![c] = "none"] /\ conn' = [conn EXCEPT ![c] = last]
    BY <2>4, <2>5, <2>6, <2>8, OneConnection DEF Becomes, Pumps
  <2>9. CASE /\ out # k.declared /\ pump' = [pump EXCEPT ![c] = "reading"]
             /\ conn' = [conn EXCEPT ![c] = sent]
    BY <2>4, <2>5, <2>7, <2>9, OneConnection DEF Becomes, Pumps
  <2> QED BY <2>3, <2>8, <2>9
<1>7. CASE PumpGivesUp(c)
    BY <1>2, <1>7 DEF PumpGivesUp
<1>8. CASE ManifestReads(c)
  <2>1. CASE PumpGoes(c, "failing")
    BY <1>2, <1>8, <2>1 DEF ManifestReads
  <2>2. CASE PumpGoes(c, "writing")
    <3>1. Sound(k, "writing", Stopping)
        BY <1>1, <1>8 DEF ManifestReads, Sound
    <3> QED BY <1>8, <2>2, <3>1, PumpAlone DEF ManifestReads, PumpGoes, Pumps
  <2>3. CASE Whole(c) /\ PumpDone(c)
    BY <1>3, <1>8, <2>3 DEF ManifestReads
  <2>4. CASE Stopping /\ PumpDone(c) /\ UNCHANGED conn
    BY <1>4, <1>8, <2>4 DEF ManifestReads
  <2> QED BY <1>8, <2>1, <2>2, <2>3, <2>4 DEF ManifestReads
<1>9. CASE ManifestWrites(c)
  <2>1. CASE PumpGoes(c, "failing")
    BY <1>2, <1>9, <2>1 DEF ManifestWrites
  <2>2. CASE Stopping /\ PumpDone(c) /\ UNCHANGED conn
    BY <1>4, <1>9, <2>2 DEF ManifestWrites
  <2>3. CASE /\ Fits(c)
             /\ conn' = [conn EXCEPT ![c].out = @ + 1]
             /\ pump' = [pump EXCEPT ![c] = "manifest"]
    <3> DEFINE out == k.out + 1
               new == [k EXCEPT !.out = out]
    <3>1. out \in Nat /\ k.taken <= out
        BY <1>1, <2>3 DEF Fits, ConnRecord
    <3>2. conn' = [conn EXCEPT ![c] = new]
        BY <2>3 DEF ServerInv, ServerTypes
    <3> HIDE DEF out
    <3>3. new \in ConnRecord
        BY <1>1, <3>1 DEF ConnRecord
    <3>4. Sound(new, "manifest", Stopping)
        BY <1>1, <1>9, <3>1 DEF ManifestWrites, Sound, ConnRecord
    <3> HIDE DEF new
    <3>5. Becomes(c, new, "manifest")
        BY <1>9, <2>3, <3>2 DEF ManifestWrites, Becomes
    <3> QED BY <3>3, <3>4, <3>5, OneConnection DEF Pumps
  <2> QED BY <1>9, <2>1, <2>2, <2>3 DEF ManifestWrites
<1>10. CASE PumpAborts(c)
  <2> DEFINE new == [k EXCEPT !.abort = TRUE]
  <2>1. new \in ConnRecord
    BY <1>1 DEF ConnRecord
  <2>2. Sound(new, "failed", Stopping)
    BY <1>1, <1>10 DEF PumpAborts, Sound, ConnRecord
  <2>3. conn' = [conn EXCEPT ![c] = new]
    BY <1>10 DEF PumpAborts, ServerInv, ServerTypes
  <2> HIDE DEF new
  <2>4. Becomes(c, new, "failed")
    BY <1>10, <2>3 DEF PumpAborts, Becomes
  <2> QED BY <2>1, <2>2, <2>4, OneConnection DEF Pumps
<1>11. CASE PumpCloses(c)
    BY <1>4, <1>11 DEF PumpCloses
<1> QED BY <1>5, <1>6, <1>7, <1>8, <1>9, <1>10, <1>11 DEF PumpStep

(* stop, and the tasks that are not a connection's. *)
LEMMA RelayStepKeeps ==
    ASSUME ServerInv, [RelayNext]_<<vars, linesVars, part>>
    PROVE  ServerInv'
<1>1. CASE Stop \/ StopReturns \/ AcceptLoopEnds \/ LetGo
  <2>1. ServerTypes' /\ conn' = conn /\ pump' = pump /\ (Stopping => Stopping')
    BY <1>1 DEF Stop, StopReturns, AcceptLoopEnds, LetGo, ServerInv, ServerTypes, Stopping
  <2>2. ASSUME NEW c \in Conns PROVE Sound(conn'[c], pump'[c], Stopping')
    BY <2>1 DEF ServerInv, Sound
  <2> QED BY <2>1, <2>2 DEF ServerInv
<1>2. CASE UNCHANGED vars
    BY <1>2 DEF vars, ServerInv, ServerTypes, Stopping
<1>3. CASE Next
    BY <1>1, <1>3, ConnStepKeeps, PumpStepKeeps DEF Next
<1> QED BY <1>2, <1>3 DEF RelayNext

(* Only the end of a body leads from an answer to the next request. *)
LEMMA EndIsClean ==
    ASSUME ServerInv, [RelayNext]_<<vars, linesVars, part>>, NEW c \in Conns,
           conn[c].phase = "answering", conn'[c].phase = "idle"
    PROVE  conn[c].whole
<1>1. CASE BodyEnds(c)
  <2> SUFFICES ASSUME ~conn[c].whole PROVE FALSE
    OBVIOUS
  <2>1. conn[c] \in ConnRecord /\ Sound(conn[c], "none", Stopping) /\ conn[c].taken = conn[c].out
    BY <1>1 DEF BodyEnds, ServerInv, ServerTypes
  <2>2. EndsWell(c)
    BY <1>1 DEF BodyEnds, ServerInv, ServerTypes, Blank
  <2>3. Aborted(c) /\ (conn[c].declared # Undeclared => conn[c].taken < conn[c].declared)
    BY <2>1 DEF Sound, Aborted
  <2> QED BY <2>1, <2>2, <2>3 DEF EndsWell, ConnRecord
<1>2. CASE ~BodyEnds(c)
  <2>1. conn \in [Conns -> ConnRecord]
    BY DEF ServerInv, ServerTypes
  <2>2. CASE \E d \in Conns : PumpStep(d)
    BY <2>1, <2>2 DEF PumpStep, PumpReads, PumpSends, PumpGivesUp, ManifestReads, ManifestWrites,
       PumpAborts, PumpCloses, PumpGoes, PumpDone, Whole, ConnRecord
  <2>3. CASE \E d \in Conns : Accept(d) \/ Request(d) \/ ConnStep(d) \/ ClientStep(d)
    <3>1. PICK d \in Conns : Accept(d) \/ Request(d) \/ ConnStep(d) \/ ClientStep(d)
      BY <2>3
    <3>2. CASE d # c
      <4>1. conn'[c] = conn[c]
        BY <2>1, <3>1, <3>2 DEF Accept, Request, ConnStep, ClientStep, Handshake, AbortConnection,
           AnswerEmpty, Answer, Respond, BodyEnds, ClientLeaves, ClientTakes, Drop
      <4> QED BY <4>1
    <3>3. CASE d = c
      <4>1. ClientLeaves(c) \/ AbortConnection(c) \/ ClientTakes(c)
        BY <1>2, <3>1, <3>3 DEF Accept, Request, ConnStep, ClientStep, Handshake, AnswerEmpty, Respond
      <4>2. CASE Drop(c)
        BY <2>1, <4>2 DEF Drop, Blank
      <4>3. CASE ClientTakes(c)
        BY <2>1, <4>3 DEF ClientTakes
      <4> QED BY <4>1, <4>2, <4>3 DEF ClientLeaves, AbortConnection
    <3> QED BY <3>2, <3>3
  <2>4. CASE conn' = conn
    BY <2>4
  <2> QED BY <2>2, <2>3, <2>4 DEF RelayNext, Next, vars, AcceptLoopEnds, LetGo, Stop, StopReturns
<1> QED BY <1>1, <1>2

LEMMA ServerInvariant == RelaySpec => []ServerInv
<1>1. RelayInit => ServerInv
    BY ServerInvInit DEF RelayInit
<1>2. ServerInv /\ [RelayNext]_<<vars, linesVars, part>> => ServerInv'
    BY RelayStepKeeps
<1> QED BY <1>1, <1>2, PTL DEF RelaySpec

(* pump_body, channel_body: a response that ends as it should had all of its *)
(* body, for any number of connections and chunks.                           *)
THEOREM CleanEndAlwaysComplete == RelaySpec => CleanEndIsComplete
<1>1. ServerInv /\ [RelayNext]_<<vars, linesVars, part>> =>
        [\A c \in Conns : conn[c].phase = "answering" /\ conn'[c].phase = "idle"
                           => conn[c].whole]_vars
    BY EndIsClean
<1> QED BY <1>1, ServerInvariant, PTL DEF RelaySpec, CleanEndIsComplete

-----------------------------------------------------------------------------
(* The slots of the requests under way.  Any number of connections may be    *)
(* waiting; those that hold a slot are finitely many.                        *)

HoldsSlot(c) == conn[c].phase = "handling" \/ pump[c] # "none"
GetsNone(c) == conn[c].phase = "overfull"

SlotsInv ==
    /\ IsFiniteSet(Held) /\ IsFiniteSet(Refused) /\ late \in Nat
    /\ SlotsCounted

LEMMA InitSlotsInv == Init => SlotsInv
<1> SUFFICES ASSUME Init PROVE SlotsInv
    OBVIOUS
<1>1. Held = {} /\ Refused = {}
    BY DEF Init, Blank, Held, Refused
<1> QED BY <1>1, FS_EmptySet, RelayAssumption DEF Init, SlotsInv, SlotsCounted

LEMMA SlotsTyped == SlotsInv => inFlight \in Nat
BY FS_CardinalityType DEF SlotsInv, SlotsCounted

(* A step of connection c or of its pump keeps what it holds, takes a slot   *)
(* for a request, leaves it to the end of the pump or gives it back.         *)
Elsewhere(c) == \A d \in Conns \ {c} : conn'[d] = conn[d] /\ pump'[d] = pump[d]
SlotKept(c) ==
    /\ HoldsSlot(c)' = HoldsSlot(c) /\ GetsNone(c)' = GetsNone(c)
    /\ inFlight' = inFlight /\ late' = late
SlotTaken(c) ==
    /\ ~HoldsSlot(c) /\ ~GetsNone(c)
    /\ inFlight' = inFlight + 1 /\ late' = late
    /\ \/ HoldsSlot(c)' /\ ~GetsNone(c)' /\ inFlight < MaxInFlight
       \/ ~HoldsSlot(c)' /\ GetsNone(c)'
SlotLeft(c) ==
    /\ HoldsSlot(c) /\ ~HoldsSlot(c)' /\ ~GetsNone(c) /\ ~GetsNone(c)'
    /\ inFlight' = inFlight /\ late' = late + 1
SlotGiven(c) ==
    /\ ~HoldsSlot(c)' /\ ~GetsNone(c)'
    /\ (HoldsSlot(c) /\ ~GetsNone(c)) \/ (~HoldsSlot(c) /\ GetsNone(c))
    /\ inFlight' = inFlight - 1 /\ late' = late
SlotStep(c) == SlotKept(c) \/ SlotTaken(c) \/ SlotLeft(c) \/ SlotGiven(c)

LEMMA OneSlot ==
    ASSUME NEW c \in Conns, Elsewhere(c)
    PROVE  /\ c \in Held <=> HoldsSlot(c)
           /\ c \in Refused <=> GetsNone(c)
           /\ HoldsSlot(c)' => Held' = Held \cup {c}
           /\ ~HoldsSlot(c)' => Held' = Held \ {c}
           /\ GetsNone(c)' => Refused' = Refused \cup {c}
           /\ ~GetsNone(c)' => Refused' = Refused \ {c}
<1>1. \A d \in Conns \ {c} : (d \in Held' <=> d \in Held) /\ (d \in Refused' <=> d \in Refused)
    BY DEF Elsewhere, Held, Refused
<1>2. (c \in Held' <=> HoldsSlot(c)') /\ (c \in Refused' <=> GetsNone(c)')
    BY DEF Held, Refused, HoldsSlot, GetsNone
<1>3. (c \in Held <=> HoldsSlot(c)) /\ (c \in Refused <=> GetsNone(c))
    BY DEF Held, Refused, HoldsSlot, GetsNone
<1>4. Held \subseteq Conns /\ Held' \subseteq Conns /\ Refused \subseteq Conns /\ Refused' \subseteq Conns
    BY DEF Held, Refused
<1> QED BY <1>1, <1>2, <1>3, <1>4

LEMMA SlotStepKeeps ==
    ASSUME SlotsInv, NEW c \in Conns, Elsewhere(c), SlotStep(c)
    PROVE  SlotsInv'
<1> DEFINE h == Cardinality(Held)
           f == Cardinality(Refused)
<1>f. IsFiniteSet(Held) /\ IsFiniteSet(Refused)
    BY DEF SlotsInv
<1>n. /\ h \in Nat /\ f \in Nat /\ late \in Nat /\ MaxInFlight \in Nat
      /\ inFlight = h + f + late /\ h + late <= MaxInFlight
    BY <1>f, FS_CardinalityType, RelayAssumption DEF SlotsInv, SlotsCounted
<1>s. /\ IsFiniteSet(Held \cup {c}) /\ IsFiniteSet(Held \ {c})
      /\ IsFiniteSet(Refused \cup {c}) /\ IsFiniteSet(Refused \ {c})
      /\ Cardinality(Held \cup {c}) = IF HoldsSlot(c) THEN h ELSE h + 1
      /\ Cardinality(Held \ {c}) = IF HoldsSlot(c) THEN h - 1 ELSE h
      /\ Cardinality(Refused \cup {c}) = IF GetsNone(c) THEN f ELSE f + 1
      /\ Cardinality(Refused \ {c}) = IF GetsNone(c) THEN f - 1 ELSE f
    BY <1>f, OneSlot, FS_AddElement, FS_RemoveElement
<1>1. /\ IsFiniteSet(Held') /\ IsFiniteSet(Refused')
      /\ Cardinality(Held') = IF HoldsSlot(c)' THEN IF HoldsSlot(c) THEN h ELSE h + 1
                                           ELSE IF HoldsSlot(c) THEN h - 1 ELSE h
      /\ Cardinality(Refused') = IF GetsNone(c)' THEN IF GetsNone(c) THEN f ELSE f + 1
                                                ELSE IF GetsNone(c) THEN f - 1 ELSE f
    BY <1>s, OneSlot
<1>2. /\ late' \in Nat
      /\ inFlight' = Cardinality(Held') + Cardinality(Refused') + late'
      /\ Cardinality(Held') + late' <= MaxInFlight
  <2> HIDE DEF h, f
  <2>1. CASE SlotKept(c)
    BY <1>n, <1>1, <2>1 DEF SlotKept
  <2>2. CASE SlotTaken(c)
    BY <1>n, <1>1, <2>2 DEF SlotTaken
  <2>3. CASE SlotLeft(c)
    BY <1>n, <1>1, <2>3 DEF SlotLeft
  <2>4. CASE SlotGiven(c)
    BY <1>n, <1>1, <2>4 DEF SlotGiven
  <2> QED BY <2>1, <2>2, <2>3, <2>4 DEF SlotStep
<1> QED BY <1>1, <1>2 DEF SlotsInv, SlotsCounted

(* A pump holds the slot until it is done. *)
LEMMA PumpSlots ==
    ASSUME ServerInv, NEW c \in Conns, PumpStep(c)
    PROVE  Elsewhere(c) /\ SlotStep(c)
<1>t. /\ conn \in [Conns -> ConnRecord] /\ pump \in [Conns -> Pumps] /\ conn[c] \in ConnRecord
    BY DEF ServerInv, ServerTypes
<1>1. Elsewhere(c)
    BY <1>t DEF PumpStep, PumpReads, PumpSends, PumpGivesUp, ManifestReads, ManifestWrites,
       PumpAborts, PumpCloses, PumpGoes, PumpDone, Whole, Elsewhere
<1>2. pump[c] # "none" /\ inFlight' = inFlight
    BY DEF PumpStep, PumpReads, PumpSends, PumpGivesUp, ManifestReads, ManifestWrites,
       PumpAborts, PumpCloses
<1>3. conn[c].phase \notin {"handling", "overfull"}
    BY <1>t, <1>2 DEF ServerInv, Sound
<1>4. conn'[c].phase = conn[c].phase
    BY <1>t DEF PumpStep, PumpReads, PumpSends, PumpGivesUp, ManifestReads, ManifestWrites,
       PumpAborts, PumpCloses, PumpGoes, PumpDone, Whole, ConnRecord
<1>5. \/ pump'[c] # "none" /\ late' = late
      \/ pump'[c] = "none" /\ late' = late + 1
    BY <1>t DEF PumpStep, PumpReads, PumpSends, PumpGivesUp, ManifestReads, ManifestWrites,
       PumpAborts, PumpCloses, PumpGoes, PumpDone
<1> QED BY <1>1, <1>2, <1>3, <1>4, <1>5 DEF SlotStep, SlotKept, SlotLeft, HoldsSlot, GetsNone

(* A request takes it, and gives it back or leaves it to a pump. *)
LEMMA ConnSlots ==
    ASSUME ServerInv, SlotsInv, NEW c \in Conns,
           Accept(c) \/ Request(c) \/ ConnStep(c) \/ ClientStep(c)
    PROVE  Elsewhere(c) /\ SlotStep(c)
<1>t. /\ conn \in [Conns -> ConnRecord] /\ pump \in [Conns -> Pumps] /\ conn[c] \in ConnRecord
      /\ Sound(conn[c], pump[c], Stopping)
    BY DEF ServerInv, ServerTypes
<1>b. ASSUME NEW phase, NEW abort
      PROVE  /\ [Blank EXCEPT !.phase = phase, !.abort = abort].phase = phase
             /\ [Blank EXCEPT !.abort = abort, !.phase = phase].phase = phase
    BY DEF Blank
<1>1. Elsewhere(c)
    BY <1>t DEF Accept, Request, ConnStep, ClientStep, Handshake, AbortConnection, ClientLeaves,
       AnswerEmpty, Answer, Respond, BodyEnds, ClientTakes, Drop, Elsewhere
<1> SUFFICES SlotStep(c)
    BY <1>1
<1>2. CASE Accept(c) \/ Handshake(c)
    BY <1>t, <1>2 DEF Accept, Handshake, ConnRecord, Sound, SlotStep, SlotKept, HoldsSlot, GetsNone
<1>3. CASE Request(c)
  <2>1. /\ conn[c].phase = "idle" /\ pump' = pump /\ late' = late /\ inFlight' = inFlight + 1
        /\ conn'[c].phase = IF inFlight >= MaxInFlight THEN "overfull" ELSE "handling"
    BY <1>t, <1>3 DEF Request, ConnRecord
  <2>2. MaxInFlight \in Nat /\ inFlight \in Int
    BY SlotsTyped, RelayAssumption
  <2> QED BY <1>t, <2>1, <2>2 DEF Sound, SlotStep, SlotTaken, HoldsSlot, GetsNone
<1>4. CASE AbortConnection(c) \/ ClientLeaves(c)
  <2>1. /\ conn'[c].phase = "gone" /\ pump' = pump /\ late' = late
        /\ inFlight' = IF conn[c].phase = "handling" THEN inFlight - 1 ELSE inFlight
    <3>1. Drop(c)
      BY <1>4 DEF AbortConnection, ClientLeaves
    <3>2. conn'[c] = [Blank EXCEPT !.phase = "gone", !.abort = conn[c].abort]
      BY <1>t, <3>1 DEF Drop
    <3>3. conn'[c].phase = "gone"
      BY <1>b, <3>2
    <3> QED BY <3>1, <3>3 DEF Drop
  <2>2. conn[c].phase # "overfull"
    BY <1>4 DEF AbortConnection, ClientLeaves, Droppable
  <2> QED BY <1>t, <2>1, <2>2 DEF Sound, SlotStep, SlotKept, SlotGiven, HoldsSlot, GetsNone
<1>5. CASE AnswerEmpty(c)
  <2>1. /\ conn'[c].phase = "answering" /\ pump' = pump /\ late' = late /\ inFlight' = inFlight - 1
        /\ conn[c].phase \in {"overfull", "handling"}
    BY <1>t, <1>b, <1>5 DEF AnswerEmpty, Answer
  <2> QED BY <1>t, <2>1 DEF Sound, SlotStep, SlotGiven, HoldsSlot, GetsNone
<1>6. CASE Respond(c)
    BY <1>t, <1>6 DEF Respond, SlotStep, SlotKept, HoldsSlot, GetsNone
<1>7. CASE BodyEnds(c)
  <2>1. /\ conn'[c].phase \in {"idle", "gone"} /\ pump' = pump /\ late' = late /\ inFlight' = inFlight
        /\ conn[c].phase = "answering"
    BY <1>t, <1>b, <1>7 DEF BodyEnds
  <2> QED BY <2>1 DEF SlotStep, SlotKept, HoldsSlot, GetsNone
<1>8. CASE ClientTakes(c)
    BY <1>t, <1>8 DEF ClientTakes, ConnRecord, SlotStep, SlotKept, HoldsSlot, GetsNone
<1> QED BY <1>2, <1>3, <1>4, <1>5, <1>6, <1>7, <1>8 DEF ConnStep, ClientStep

LEMMA NextSlotsInv ==
    ASSUME ServerInv, SlotsInv, [RelayNext]_<<vars, linesVars, part>>
    PROVE  SlotsInv'
<1>1. CASE Next
  <2>1. ASSUME NEW c \in Conns, Accept(c) \/ Request(c) \/ PumpStep(c) \/ ConnStep(c) \/ ClientStep(c)
        PROVE  SlotsInv'
    BY <2>1, ConnSlots, PumpSlots, SlotStepKeeps
  <2>2. CASE Stop \/ StopReturns \/ AcceptLoopEnds
    BY <2>2 DEF Stop, StopReturns, AcceptLoopEnds, SlotsInv, SlotsCounted, Held, Refused
  <2>3. CASE LetGo
    <3>1. Held' = Held /\ Refused' = Refused /\ late' = late - 1 /\ inFlight' = inFlight - 1 /\ late > 0
      BY <2>3 DEF LetGo, Held, Refused
    <3>2. Cardinality(Held) \in Nat /\ Cardinality(Refused) \in Nat /\ MaxInFlight \in Nat
      BY FS_CardinalityType, RelayAssumption DEF SlotsInv
    <3> QED BY <3>1, <3>2 DEF SlotsInv, SlotsCounted
  <2> QED BY <1>1, <2>1, <2>2, <2>3 DEF Next
<1>2. CASE UNCHANGED vars
    BY <1>2 DEF vars, SlotsInv, SlotsCounted, Held, Refused
<1> QED BY <1>1, <1>2 DEF RelayNext

(* handle, InFlight: for any number of connections and any limit, the        *)
(* counter counts every request under way once, and never are more of them   *)
(* fetched for or written than the limit allows.                             *)
THEOREM SlotsAlwaysCounted == RelaySpec => []SlotsCounted
<1>1. RelayInit => ServerInv /\ SlotsInv
    BY ServerInvInit, InitSlotsInv DEF RelayInit
<1>2. ServerInv /\ SlotsInv /\ [RelayNext]_<<vars, linesVars, part>> => ServerInv' /\ SlotsInv'
    BY RelayStepKeeps, NextSlotsInv
<1>3. SlotsInv => SlotsCounted
    BY DEF SlotsInv
<1> QED BY <1>1, <1>2, <1>3, PTL DEF RelaySpec

-----------------------------------------------------------------------------
(* The files follow the start of the relay, and the bypass only takes them   *)
(* away from one that is up.                                                 *)

FilesFollow ==
    /\ starter \in {"off", "reserve"} => current = NoPort
    /\ starter \in {"scheme", "listen", "up"} /\ ~bypassed => portFile = current
    /\ starter = "listen" => schemeFile = IF secure THEN "https" ELSE "http"
    /\ starter = "up" => relay.port = current /\ (~bypassed => schemeFile = relay.scheme)
    /\ (starter = "none" /\ current # NoPort) \/ bypassed => portFile = NoPort
    /\ bypassed => starter = "up"

PortInv == PortTypeOK /\ FilesFollow

LEMMA RelayStartKeeps ==
    ASSUME PortInv, RelayStarts
    PROVE  PortInv'
<1>1. CASE starter = "off" /\ starter' = "reserve" /\ UNCHANGED <<current, portFile, schemeFile, secure, relay, bypassed>>
    BY <1>1 DEF PortInv, PortTypeOK, FilesFollow, Starting
<1>2. CASE Reserve
    BY <1>2 DEF PortInv, PortTypeOK, FilesFollow, Starting, Ports, Reserve, Publish
<1>3. CASE ChooseScheme
    BY <1>3 DEF PortInv, PortTypeOK, FilesFollow, Starting, Schemes, ChooseScheme
<1>4. CASE Listens
    BY <1>4 DEF PortInv, PortTypeOK, FilesFollow, Starting, Schemes, Listens
<1>5. CASE SecureFails
    BY <1>5 DEF PortInv, PortTypeOK, FilesFollow, Starting, Schemes, SecureFails
<1>6. CASE PlainFails
    BY <1>6 DEF PortInv, PortTypeOK, FilesFollow, Starting, Ports, PlainFails, Publish, DeletePortFile
<1> QED BY <1>1, <1>2, <1>3, <1>4, <1>5, <1>6 DEF RelayStarts, StarterStep

LEMMA BypassKeeps ==
    ASSUME PortInv, Engage \/ Release \/ UNCHANGED portVars
    PROVE  PortInv'
<1>1. CASE Engage
    BY <1>1 DEF PortInv, PortTypeOK, FilesFollow, Engage, DeletePortFile
<1>2. CASE Release
    BY <1>2 DEF PortInv, PortTypeOK, FilesFollow, Release
<1>3. CASE UNCHANGED portVars
    BY <1>3 DEF PortInv, PortTypeOK, FilesFollow, portVars
<1> QED BY <1>1, <1>2, <1>3

LEMMA PlayKeepsPort == PortInv /\ [PlayNext]_playVars => PortInv'
<1> SUFFICES ASSUME PortInv, [PlayNext]_playVars PROVE PortInv'
    OBVIOUS
<1>1. RelayStarts \/ Engage \/ Release \/ UNCHANGED portVars
  <2>1. CASE Starts \/ Logs \/ Wedges \/ Restarts \/ TimePasses \/ Spawn \/ ProcessLines
    BY <2>1 DEF Starts, Logs, Wedges, Restarts, TimePasses, Spawn, ProcessLines
  <2>2. CASE Poll
    BY <2>2 DEF Poll, ReadsOn, SwitchesLog
  <2>3. CASE FireDue
    BY <2>3 DEF FireDue
  <2>4. CASE \E p \in Plays : Open(p) \/ Reaches(p)
    BY <2>4 DEF Open, Reaches
  <2>5. CASE UNCHANGED playVars
    BY <2>5 DEF playVars
  <2> QED BY <2>1, <2>2, <2>3, <2>4, <2>5 DEF PlayNext
<1> QED BY <1>1, RelayStartKeeps, BypassKeeps

LEMMA InitPortInv == PlayInit => PortInv
<1> SUFFICES ASSUME PlayInit PROVE PortInv
    OBVIOUS
<1>1. /\ portFile \in {NoPort, "previous"} /\ schemeFile \in {NoPort, "https"}
      /\ starter = "off" /\ secure = FALSE /\ ~bypassed /\ bypassed \in BOOLEAN /\ current = NoPort
      /\ relay = [port |-> NoPort, scheme |-> "http"]
    BY DEF PlayInit, PortInit
<1>2. relay \in [port : Ports \cup {NoPort}, scheme : Schemes]
    BY <1>1 DEF Schemes
<1> QED BY <1>1, <1>2 DEF PortInv, PortTypeOK, FilesFollow, Ports, Schemes

(* start_relay, RelayBypass: once a port was reserved, the files name where  *)
(* the relay listens and how, whichever attempts failed and whichever        *)
(* sessions were cut off from it.                                            *)
THEOREM AlwaysPublishedIsServed == PlaySpec => []PublishedIsServed
<1>1. PortInv => PublishedIsServed
    BY DEF PortInv, PortTypeOK, FilesFollow, PublishedIsServed
<1> QED BY <1>1, InitPortInv, PlayKeepsPort, PTL DEF PlaySpec

-----------------------------------------------------------------------------
(* The lines about the opening of a play: there is one, in one place. *)

Tells(q, p) == \E i \in 1 .. Len(q) : q[i].kind = "opening" /\ q[i].play = p
TellsOnce(q) ==
    \A i, j \in 1 .. Len(q) :
        /\ q[i].kind = "opening" /\ q[j].kind = "opening"
        /\ q[i].play = q[j].play
        => i = j

LEMMA NothingTold == TellsOnce(<< >>) /\ \A p : ~Tells(<< >>, p)
BY DEF TellsOnce, Tells

LEMMA TellsMore ==
    ASSUME NEW q \in Seq(Line), NEW l \in Line, TellsOnce(q), l.kind = "opening" => ~Tells(q, l.play)
    PROVE  /\ Append(q, l) \in Seq(Line) /\ TellsOnce(Append(q, l))
           /\ \A p : Tells(Append(q, l), p) => Tells(q, p) \/ (l.kind = "opening" /\ l.play = p)
<1> DEFINE r == Append(q, l)
<1>1. /\ r \in Seq(Line) /\ Len(r) = Len(q) + 1 /\ r[Len(r)] = l
      /\ \A i \in 1 .. Len(q) : r[i] = q[i]
    OBVIOUS
<1> HIDE DEF r
<1>2. Len(q) \in Nat /\ \A i \in 1 .. Len(r) : i \in 1 .. Len(q) \/ i = Len(r)
    BY <1>1
<1>3. ASSUME NEW i \in 1 .. Len(r), NEW j \in 1 .. Len(r), r[i].kind = "opening", r[j].kind = "opening",
             r[i].play = r[j].play
      PROVE  i = j
  <2>1. CASE i \in 1 .. Len(q) /\ j \in 1 .. Len(q)
    BY <1>1, <1>3, <2>1 DEF TellsOnce
  <2>2. CASE i \in 1 .. Len(q) /\ j = Len(r)
    BY <1>1, <1>3, <2>2 DEF Tells
  <2>3. CASE j \in 1 .. Len(q) /\ i = Len(r)
    BY <1>1, <1>3, <2>3 DEF Tells
  <2> QED BY <1>2, <2>1, <2>2, <2>3
<1>4. ASSUME NEW p, Tells(r, p)
      PROVE  Tells(q, p) \/ (l.kind = "opening" /\ l.play = p)
    BY <1>1, <1>2, <1>4 DEF Tells
<1>5. TellsOnce(r)
    BY <1>3 DEF TellsOnce
<1> QED BY <1>1, <1>4, <1>5 DEF r

LEMMA TellsLess ==
    ASSUME NEW q \in Seq(Line), q # << >>, TellsOnce(q)
    PROVE  /\ Tail(q) \in Seq(Line) /\ TellsOnce(Tail(q)) /\ Head(q) \in Line
           /\ \A p : Tells(Tail(q), p) =>
                 Tells(q, p) /\ ~(Head(q).kind = "opening" /\ Head(q).play = p)
           /\ Head(q).kind = "opening" => Tells(q, Head(q).play)
<1> DEFINE r == Tail(q)
<1>1. /\ r \in Seq(Line) /\ Len(r) = Len(q) - 1 /\ Len(q) \in Nat \ {0} /\ Head(q) = q[1]
      /\ \A i \in 1 .. Len(r) : r[i] = q[i + 1] /\ i + 1 \in 1 .. Len(q) /\ i + 1 # 1
      /\ 1 \in 1 .. Len(q)
    OBVIOUS
<1> HIDE DEF r
<1>2. TellsOnce(r)
  <2>1. ASSUME NEW i \in 1 .. Len(r), NEW j \in 1 .. Len(r), r[i].kind = "opening", r[j].kind = "opening",
               r[i].play = r[j].play
        PROVE  i = j
    <3>1. i + 1 = j + 1
      BY <1>1, <2>1 DEF TellsOnce
    <3> QED BY <3>1
  <2> QED BY <2>1 DEF TellsOnce
<1>3. ASSUME NEW p, Tells(r, p)
      PROVE  Tells(q, p) /\ ~(q[1].kind = "opening" /\ q[1].play = p)
  <2>1. PICK i \in 1 .. Len(r) : r[i].kind = "opening" /\ r[i].play = p
    BY <1>3 DEF Tells
  <2>2. q[i + 1].kind = "opening" /\ q[i + 1].play = p /\ i + 1 \in 1 .. Len(q) /\ i + 1 # 1
    BY <1>1, <2>1
  <2> QED BY <1>1, <2>2 DEF Tells, TellsOnce
<1>4. q[1].kind = "opening" => Tells(q, q[1].play)
    BY <1>1 DEF Tells
<1>5. q[1] \in Line
    BY <1>1
<1> QED BY <1>1, <1>2, <1>3, <1>4, <1>5 DEF r

-----------------------------------------------------------------------------
(* A play is counted for its line or for its silence.  As long as its        *)
(* opening has not been read nothing was counted; what was counted is not    *)
(* waited for any more, and is too old for the line to be taken for its own. *)

MonitorTypes ==
    /\ session \in Sessions /\ log \in Sessions \cup {0}
    /\ link \in [Plays -> Ports \cup {Direct, "none"}]
    /\ unread \in [Sessions -> Seq(Line)] /\ batch \in Seq(Line)
    /\ opening \in Plays \cup {NoPlay} /\ stall \in {opening, NoPlay}
    /\ age \in Nat
    /\ failures \in [Plays -> Nat]
    /\ turn \in {"off", "poll", "fire"} => batch = << >>
    /\ turn = "lines" => batch # << >>

Waits(p) == Tells(batch, p) \/ \E s \in Sessions : Tells(unread[s], p)

ToldOnce ==
    /\ TellsOnce(batch) /\ \A s \in Sessions : TellsOnce(unread[s])
    /\ \A p \in Plays : \A s \in Sessions :
          /\ ~(Tells(batch, p) /\ Tells(unread[s], p))
          /\ \A t \in Sessions : Tells(unread[s], p) /\ Tells(unread[t], p) => s = t

NewWhileUntold ==
    \A p \in Plays :
        /\ Waits(p) => link[p] # "none"
        /\ Waits(p) \/ link[p] = "none" => failures[p] = 0 /\ opening # p

CountedIsOld ==
    /\ \A p \in Plays : failures[p] <= 1
    /\ stall # NoPlay => failures[stall] = 0
    /\ opening # NoPlay /\ failures[opening] # 0 => age > OpenFailWindow

FailInv == MonitorTypes /\ ToldOnce /\ NewWhileUntold /\ CountedIsOld

LEMMA NoPlayIsNone == NoPlay \notin Plays /\ OpenFailWindow \in Nat /\ StallWindow \in Nat /\ OpenFailWindow < StallWindow
BY WindowAssumption DEF NoPlay

LEMMA InitFailInv == PlayInit => FailInv
<1> SUFFICES ASSUME PlayInit PROVE FailInv
    OBVIOUS
<1>1. /\ session = 1 /\ link = [p \in Plays |-> "none"] /\ unread = [s \in Sessions |-> << >>]
      /\ turn = "off" /\ batch = << >> /\ log = 0 /\ opening = NoPlay /\ stall = NoPlay /\ age = 0
      /\ failures = [p \in Plays |-> 0]
    BY DEF PlayInit
<1>2. 1 \in Sessions
    BY WindowAssumption DEF Sessions
<1>3. MonitorTypes
    BY <1>1, <1>2 DEF MonitorTypes
<1>4. \A p : ~Waits(p)
    BY <1>1, NothingTold DEF Waits
<1>5. ToldOnce
    BY <1>1, NothingTold DEF ToldOnce
<1>6. NewWhileUntold
    BY <1>1, <1>4, NoPlayIsNone DEF NewWhileUntold
<1>7. CountedIsOld
    BY <1>1 DEF CountedIsOld
<1> QED BY <1>3, <1>5, <1>6, <1>7 DEF FailInv

(* VRChat writes a line: about a new play, or about none. *)
LEMMA WriteKeeps ==
    ASSUME FailInv, NEW l \in Line, Write(l),
           \/ l.kind # "opening" /\ link' = link
           \/ /\ l.kind = "opening" /\ link[l.play] = "none" /\ l.play \in Plays
              /\ \E to \in Ports \cup {Direct} : link' = [link EXCEPT ![l.play] = to]
           ,
           session' = session, UNCHANGED logVars
    PROVE  FailInv'
<1>t. MonitorTypes
    BY DEF FailInv
<1>1. UNCHANGED <<turn, batch, log, opening, stall, age, failures>>
    BY DEF logVars
<1>2. unread' = [unread EXCEPT ![session] = Append(unread[session], l)]
    BY <1>t DEF Write, MonitorTypes
<1>3. l.kind = "opening" => l.play \in Plays /\ ~Waits(l.play)
    BY DEF FailInv, NewWhileUntold
<1>4. /\ Append(unread[session], l) \in Seq(Line) /\ TellsOnce(Append(unread[session], l))
      /\ \A p : Tells(Append(unread[session], l), p) =>
            Tells(unread[session], p) \/ (l.kind = "opening" /\ l.play = p)
    BY <1>t, <1>3, TellsMore DEF FailInv, ToldOnce, MonitorTypes, Waits
<1>5. link' \in [Plays -> Ports \cup {Direct, "none"}]
    BY <1>t DEF MonitorTypes
<1>6. \A p \in Plays : link'[p] = "none" => link[p] = "none"
    BY <1>t DEF MonitorTypes, Ports, Direct
<1>7. /\ unread' \in [Sessions -> Seq(Line)] /\ TellsOnce(unread'[session])
      /\ \A s \in Sessions \ {session} : unread'[s] = unread[s]
      /\ \A p : Tells(unread'[session], p) => Tells(unread[session], p) \/ (l.kind = "opening" /\ l.play = p)
    BY <1>t, <1>2, <1>4 DEF MonitorTypes
<1>8. \A s \in Sessions, p \in Plays :
        Tells(unread'[s], p) => Tells(unread[s], p) \/ (l.kind = "opening" /\ l.play = p /\ s = session)
    BY <1>7
<1>9. MonitorTypes'
    BY <1>t, <1>1, <1>5, <1>7 DEF MonitorTypes
<1>10. ToldOnce'
  <2>1. TellsOnce(batch') /\ \A s \in Sessions : TellsOnce(unread'[s])
    BY <1>1, <1>7 DEF FailInv, ToldOnce
  <2>2. ASSUME NEW p \in Plays, NEW s \in Sessions, Tells(unread'[s], p)
        PROVE  ~Tells(batch', p)
    BY <1>1, <1>3, <1>8, <2>2 DEF FailInv, ToldOnce, Waits
  <2>3. ASSUME NEW p \in Plays, NEW s \in Sessions, NEW t \in Sessions,
               Tells(unread'[s], p), Tells(unread'[t], p)
        PROVE  s = t
    BY <1>3, <1>8, <2>3 DEF FailInv, ToldOnce, Waits
  <2> QED BY <2>1, <2>2, <2>3 DEF ToldOnce
<1>11. \A p \in Plays : Waits(p)' => Waits(p) \/ (l.kind = "opening" /\ l.play = p)
    BY <1>1, <1>8 DEF Waits
<1>12. NewWhileUntold'
  <2> SUFFICES ASSUME NEW p \in Plays
               PROVE  /\ Waits(p)' => link'[p] # "none"
                      /\ Waits(p)' \/ link'[p] = "none" => failures[p] = 0 /\ opening # p
    BY <1>1 DEF NewWhileUntold
  <2>1. CASE l.kind = "opening" /\ l.play = p
    <3>1. link'[p] # "none" /\ link[p] = "none"
      BY <1>t, <2>1 DEF MonitorTypes, Ports, Direct
    <3> QED BY <3>1 DEF FailInv, NewWhileUntold
  <2>2. CASE ~(l.kind = "opening" /\ l.play = p)
    <3>1. link'[p] = link[p]
      BY <1>t, <2>2 DEF MonitorTypes
    <3> QED BY <1>11, <2>2, <3>1 DEF FailInv, NewWhileUntold
  <2> QED BY <2>1, <2>2
<1>13. CountedIsOld'
    BY <1>1 DEF FailInv, CountedIsOld
<1> QED BY <1>9, <1>10, <1>12, <1>13 DEF FailInv

(* The poll takes over what one log has unread, or nothing. *)
LEMMA PollKeeps ==
    ASSUME FailInv, Poll
    PROVE  FailInv'
<1>t. MonitorTypes /\ batch = << >>
    BY DEF FailInv, MonitorTypes, Poll
<1>1. PICK s \in Sessions :
        /\ unread' = [unread EXCEPT ![s] = << >>]
        /\ batch' \in {unread[s], << >>} /\ log' \in Sessions
    BY <1>t DEF Poll, ReadsOn, SwitchesLog, MonitorTypes
<1>2. /\ UNCHANGED <<session, link, opening, stall, age, failures>>
      /\ turn' = IF batch' = << >> THEN "fire" ELSE "lines"
    BY DEF Poll
<1>3. /\ unread' \in [Sessions -> Seq(Line)] /\ unread'[s] = << >>
      /\ \A t \in Sessions \ {s} : unread'[t] = unread[t]
    BY <1>t, <1>1 DEF MonitorTypes
<1>4. MonitorTypes'
    BY <1>t, <1>1, <1>2, <1>3 DEF MonitorTypes
<1>5. /\ \A t \in Sessions, p \in Plays : Tells(unread'[t], p) => Tells(unread[t], p) /\ t # s
      /\ \A p \in Plays : Tells(batch', p) => Tells(unread[s], p)
    BY <1>1, <1>3, NothingTold
<1>6. \A p \in Plays : Waits(p)' => Waits(p)
    BY <1>5 DEF Waits
<1>7. ToldOnce'
  <2>1. TellsOnce(batch') /\ \A t \in Sessions : TellsOnce(unread'[t])
    BY <1>1, <1>3, NothingTold DEF FailInv, ToldOnce
  <2>2. ASSUME NEW p \in Plays, NEW t \in Sessions
        PROVE  /\ ~(Tells(batch', p) /\ Tells(unread'[t], p))
               /\ \A u \in Sessions : Tells(unread'[t], p) /\ Tells(unread'[u], p) => t = u
    BY <1>5 DEF FailInv, ToldOnce
  <2> QED BY <2>1, <2>2 DEF ToldOnce
<1>8. NewWhileUntold'
    BY <1>2, <1>6 DEF FailInv, NewWhileUntold
<1>9. CountedIsOld'
    BY <1>2 DEF FailInv, CountedIsOld
<1> QED BY <1>4, <1>7, <1>8, <1>9 DEF FailInv

(* What a line does to the opening, the silence and the counts. *)
LEMMA LineEffect ==
    ASSUME MonitorTypes, NEW l \in Line, NEW m, m = ProcessLine(Seen, l)
    PROVE  \/ /\ l.kind \in {"left", "progress", "failed"} /\ m.opening \in {opening, NoPlay} /\ m.stall = NoPlay
              /\ m.age = age /\ m.failures = failures
           \/ /\ l.kind = "failed" /\ opening # NoPlay /\ age <= OpenFailWindow
              /\ m.opening = NoPlay /\ m.stall = NoPlay /\ m.age = age
              /\ m.failures = [failures EXCEPT ![opening] = @ + 1]
           \/ /\ l.kind = "opening" /\ m.opening = l.play /\ m.stall = l.play /\ m.age = 0
              /\ m.failures = failures
<1>1. l.kind \in {"opening", "failed", "progress", "left"}
    BY DEF Line, Kinds
<1>2. CASE l.kind = "left"
    BY <1>2 DEF ProcessLine, Seen
<1>3. CASE l.kind = "progress"
    BY <1>3 DEF ProcessLine, Seen
<1>4. CASE l.kind = "opening"
    BY <1>4 DEF ProcessLine, Seen, OnOpening
<1>5. CASE l.kind = "failed"
  <2>1. m = OnLoadFailed(Seen)
    BY <1>5 DEF ProcessLine
  <2> QED BY <1>5, <2>1 DEF OnLoadFailed, Seen
<1> QED BY <1>1, <1>2, <1>3, <1>4, <1>5

LEMMA LinesKeep ==
    ASSUME FailInv, ProcessLines
    PROVE  FailInv'
<1>t. MonitorTypes /\ batch # << >> /\ TellsOnce(batch)
    BY DEF FailInv, MonitorTypes, ToldOnce, ProcessLines
<1> DEFINE l == Head(batch)
<1>1. /\ batch' = Tail(batch) /\ turn' = IF batch' = << >> THEN "fire" ELSE "lines"
      /\ UNCHANGED <<session, log, link, unread>>
    BY DEF ProcessLines, vrchatVars
<1>2. /\ batch' \in Seq(Line) /\ TellsOnce(batch') /\ l \in Line
      /\ \A p \in Plays : Tells(batch', p) => Tells(batch, p) /\ ~(l.kind = "opening" /\ l.play = p)
      /\ l.kind = "opening" => Tells(batch, l.play)
    BY <1>t, <1>1, TellsLess DEF MonitorTypes
<1>3. PICK m : m = ProcessLine(Seen, l) /\ opening' = m.opening /\ stall' = m.stall /\ age' = m.age
               /\ failures' = m.failures
    BY DEF ProcessLines
<1> HIDE DEF l
<1>4. /\ \A p \in Plays : Waits(p)' => Waits(p) /\ ~(l.kind = "opening" /\ l.play = p)
      /\ l.kind = "opening" => Waits(l.play)
  <2>1. ASSUME NEW p \in Plays, Waits(p)'
        PROVE  Waits(p) /\ ~(l.kind = "opening" /\ l.play = p)
    BY <1>1, <1>2, <2>1 DEF Waits, FailInv, ToldOnce
  <2> QED BY <1>2, <2>1 DEF Waits
<1>5. ToldOnce'
    BY <1>1, <1>2 DEF FailInv, ToldOnce
<1>6. CASE /\ opening' \in {opening, NoPlay} /\ stall' = NoPlay
           /\ age' = age /\ failures' = failures
  <2>1. MonitorTypes'
    BY <1>t, <1>1, <1>2, <1>6 DEF MonitorTypes
  <2>2. NewWhileUntold' /\ CountedIsOld'
    BY <1>1, <1>4, <1>6, NoPlayIsNone DEF FailInv, NewWhileUntold, CountedIsOld
  <2> QED BY <1>5, <2>1, <2>2 DEF FailInv
<1>7. CASE /\ opening # NoPlay /\ age <= OpenFailWindow
           /\ opening' = NoPlay /\ stall' = NoPlay /\ age' = age
           /\ failures' = [failures EXCEPT ![opening] = @ + 1]
  <2>1. opening \in Plays /\ failures[opening] = 0 /\ failures \in [Plays -> Nat] /\ age \in Nat
    BY <1>t, <1>7, NoPlayIsNone DEF FailInv, MonitorTypes, CountedIsOld
  <2>2. /\ failures' \in [Plays -> Nat] /\ failures'[opening] = 1
        /\ \A p \in Plays \ {opening} : failures'[p] = failures[p]
    BY <1>7, <2>1
  <2>3. MonitorTypes'
    BY <1>t, <1>1, <1>2, <1>7, <2>2 DEF MonitorTypes
  <2>4. CountedIsOld'
    BY <1>7, <2>2 DEF FailInv, CountedIsOld
  <2>5. NewWhileUntold'
    BY <1>1, <1>4, <1>7, <2>1, <2>2, NoPlayIsNone DEF FailInv, NewWhileUntold
  <2> QED BY <1>5, <2>3, <2>4, <2>5 DEF FailInv
<1>8. CASE /\ l.kind = "opening" /\ opening' = l.play /\ stall' = l.play /\ age' = 0
           /\ failures' = failures
  <2>1. l.play \in Plays \cup {NoPlay}
    BY <1>2 DEF Line
  <2>2. MonitorTypes'
    BY <1>t, <1>1, <1>2, <1>8, <2>1 DEF MonitorTypes
  <2>3. l.play \in Plays => failures[l.play] = 0 /\ link[l.play] # "none"
    BY <1>4, <1>8 DEF FailInv, NewWhileUntold
  <2>4. NewWhileUntold'
    BY <1>1, <1>4, <1>8, <2>3 DEF FailInv, NewWhileUntold
  <2>5. CountedIsOld'
    BY <1>8, <2>1, <2>3 DEF FailInv, CountedIsOld
  <2> QED BY <1>5, <2>2, <2>4, <2>5 DEF FailInv
<1> QED BY <1>t, <1>2, <1>3, <1>6, <1>7, <1>8, LineEffect

LEMMA FireKeeps ==
    ASSUME FailInv, FireDue
    PROVE  FailInv'
<1>t. MonitorTypes
    BY DEF FailInv
<1>1. UNCHANGED <<session, link, unread, batch, log, opening, age>> /\ turn' = "poll" /\ turn = "fire"
    BY DEF FireDue, vrchatVars
<1>2. ToldOnce' /\ \A p \in Plays : Waits(p)' => Waits(p)
    BY <1>1 DEF FailInv, ToldOnce, Waits
<1>3. CASE stall' \in {stall, NoPlay} /\ failures' = failures
  <2>1. MonitorTypes'
    BY <1>t, <1>1, <1>3 DEF MonitorTypes
  <2>2. NewWhileUntold' /\ CountedIsOld'
    BY <1>1, <1>2, <1>3 DEF FailInv, NewWhileUntold, CountedIsOld
  <2> QED BY <1>2, <2>1, <2>2 DEF FailInv
<1>4. CASE Due /\ stall' = NoPlay /\ failures' = [failures EXCEPT ![stall] = @ + 1]
  <2>1. stall = opening /\ stall \in Plays /\ failures[stall] = 0 /\ age > OpenFailWindow
    BY <1>t, <1>4, NoPlayIsNone DEF Due, FailInv, MonitorTypes, CountedIsOld
  <2>2. /\ failures' \in [Plays -> Nat] /\ failures'[stall] = 1
        /\ \A p \in Plays \ {stall} : failures'[p] = failures[p]
    BY <1>t, <1>4, <2>1 DEF MonitorTypes
  <2>3. MonitorTypes'
    BY <1>t, <1>1, <1>4, <2>2 DEF MonitorTypes
  <2>4. CountedIsOld'
    BY <1>1, <1>4, <2>1, <2>2 DEF FailInv, CountedIsOld
  <2>5. NewWhileUntold'
    BY <1>1, <1>2, <2>1, <2>2 DEF FailInv, NewWhileUntold
  <2> QED BY <1>2, <2>3, <2>4, <2>5 DEF FailInv
<1> QED BY <1>3, <1>4 DEF FireDue

(* A step that leaves the logs and what the monitor made of them. *)
LEMMA ElsewhereKeeps ==
    ASSUME FailInv, session' \in Sessions, link' = link,
           UNCHANGED <<unread, batch, log, opening, stall, failures>>,
           age' = age \/ age' = age + 1,
           turn' = turn \/ (turn = "off" /\ turn' = "poll")
    PROVE  FailInv'
<1>1. MonitorTypes'
    BY DEF FailInv, MonitorTypes
<1>2. ToldOnce' /\ NewWhileUntold'
    BY DEF FailInv, ToldOnce, NewWhileUntold, Waits
<1>3. CountedIsOld'
    BY NoPlayIsNone DEF FailInv, MonitorTypes, CountedIsOld
<1> QED BY <1>1, <1>2, <1>3 DEF FailInv

LEMMA NextFailInv == FailInv /\ PortInv /\ [PlayNext]_playVars => FailInv'
<1> SUFFICES ASSUME FailInv, PortInv, [PlayNext]_playVars PROVE FailInv'
    OBVIOUS
<1>p. portFile \in Ports \cup {NoPort}
    BY DEF PortInv, PortTypeOK
<1>t. MonitorTypes
    BY DEF FailInv
<1>1. ASSUME NEW p \in Plays, Open(p)
      PROVE  FailInv'
  <2> DEFINE l == [kind |-> "opening", play |-> p]
  <2>1. l \in Line /\ l.kind = "opening" /\ l.play = p
    BY DEF Line, Kinds
  <2>2. Write(l) /\ session' = session /\ UNCHANGED logVars /\ link[p] = "none"
    BY <1>1 DEF Open
  <2>3. \E to \in Ports \cup {Direct} : link' = [link EXCEPT ![p] = to]
    BY <1>1, <1>p DEF Open
  <2> HIDE DEF l
  <2> QED BY <2>1, <2>2, <2>3, WriteKeeps
<1>2. CASE Logs
  <2>1. PICK kind \in {"failed", "progress", "left"} : Write([kind |-> kind, play |-> NoPlay])
    BY <1>2 DEF Logs
  <2> DEFINE l == [kind |-> kind, play |-> NoPlay]
  <2>2. l \in Line /\ l.kind # "opening"
    BY DEF Line, Kinds
  <2>3. Write(l) /\ link' = link /\ session' = session /\ UNCHANGED logVars
    BY <1>2, <2>1 DEF Logs
  <2> HIDE DEF l
  <2> QED BY <2>2, <2>3, WriteKeeps
<1>3. CASE Starts \/ Wedges \/ TimePasses \/ Spawn \/ UNCHANGED playVars
  <2>1. /\ session' = session /\ link' = link
        /\ UNCHANGED <<unread, batch, log, opening, stall, failures>>
        /\ age' = age \/ age' = age + 1
        /\ turn' = turn \/ (turn = "off" /\ turn' = "poll")
    BY <1>3 DEF Starts, Wedges, TimePasses, Spawn, playVars, vrchatVars, logVars
  <2> QED BY <1>t, <2>1, ElsewhereKeeps DEF MonitorTypes
<1>4. CASE Restarts
  <2>1. session' \in Sessions
    BY <1>t, <1>4, WindowAssumption DEF Restarts, MonitorTypes, Sessions
  <2> QED BY <1>4, <2>1, ElsewhereKeeps DEF Restarts, logVars
<1>5. ASSUME NEW p \in Plays, Reaches(p)
      PROVE  FailInv'
    BY <1>t, <1>5, ElsewhereKeeps DEF Reaches, logVars, MonitorTypes
<1> QED BY <1>1, <1>2, <1>3, <1>4, <1>5, PollKeeps, LinesKeep, FireKeeps DEF PlayNext

(* process_line, fire_due: a play is counted as failed for its line or for   *)
(* its silence, never for both, however the lines come and whenever they are *)
(* read.                                                                     *)
THEOREM AlwaysFailedOnce == PlaySpec => []FailedOnce
<1>1. FailInv => FailedOnce
    BY DEF FailInv, CountedIsOld, FailedOnce
<1> QED BY <1>1, InitPortInv, PlayKeepsPort, InitFailInv, NextFailInv, PTL DEF PlaySpec

-----------------------------------------------------------------------------
(* Induction.  The library's theorems of induction are about an operator,    *)
(* which the provers here cannot fill in; that the proper subsets of a       *)
(* finite set are well-founded is about sets.                                *)

(* A set of natural numbers that is not empty has a least element. *)
LEMMA LeastNatural ==
    ASSUME NEW T, T \subseteq Nat, T # {}
    PROVE  \E m \in T : \A k \in T : m <= k
<1>1. PICK n \in T : TRUE
    OBVIOUS
<1> DEFINE S == 0 .. n
           R == StrictSubsetOrdering(S)
           U == {X \in SUBSET S : \E m \in T : X = 0 .. m}
<1>2. IsFiniteSet(S)
    BY FS_Interval
<1>3. IsWellFoundedOn(R, SUBSET S)
    BY <1>2, FS_FiniteSubsetsOfFinite, FS_StrictSubsetOrderingWellFounded
<1>4. U \subseteq SUBSET S /\ 0 .. n \in U
    BY <1>1
<1>5. PICK X \in U : \A Y \in U : <<Y, X>> \notin R
  <2> HIDE DEF R, U
  <2> QED BY <1>3, <1>4, WFMin
<1>6. PICK m \in T : X = 0 .. m
    BY <1>5
<1>7. m <= n
    BY <1>5, <1>6
<1>8. ASSUME NEW k \in T, ~(m <= k) PROVE FALSE
  <2>1. 0 .. k \in U
    BY <1>7, <1>8
  <2>2. 0 .. k \subseteq 0 .. m /\ m \in 0 .. m /\ m \notin 0 .. k
    BY <1>8
  <2>3. <<0 .. k, X>> \in R
    BY <1>5, <1>6, <2>1, <2>2 DEF StrictSubsetOrdering
  <2> QED BY <1>5, <2>1, <2>3
<1> QED BY <1>8

(* Induction along a rank: what is in G whenever all of lower rank is. *)
LEMMA RankInduction ==
    ASSUME NEW S, NEW rank \in [S -> Nat], NEW G,
           \A s \in S : (\A t \in S : rank[t] < rank[s] => t \in G) => s \in G
    PROVE  S \subseteq G
<1> DEFINE T == {rank[s] : s \in S \ G}
<1>1. SUFFICES ASSUME T # {} PROVE FALSE
    OBVIOUS
<1>2. PICK m \in T : \A k \in T : m <= k
  <2>1. T \subseteq Nat
    OBVIOUS
  <2> HIDE DEF T
  <2> QED BY <1>1, <2>1, LeastNatural
<1>3. PICK s \in S \ G : m = rank[s]
    BY <1>2
<1>4. \A t \in S : rank[t] < rank[s] => t \in G
    BY <1>2, <1>3
<1> QED BY <1>3, <1>4

(* A function may be defined by its value at a next argument of lower rank.  *)
Recursion(S, V, rank, base, next, start, step) ==
    /\ rank \in [S -> Nat] /\ start \in [S -> V] /\ step \in [S \X V -> V]
    /\ \A s \in S \ base : next[s] \in S /\ rank[next[s]] < rank[s]
Follows(f, S, base, next, start, step) ==
    \A s \in S : f[s] = IF s \in base THEN start[s] ELSE step[<<s, f[next[s]]>>]

LEMMA RecursiveFunction ==
    ASSUME NEW S, NEW V, NEW rank, NEW base, NEW next, NEW start, NEW step,
           Recursion(S, V, rank, base, next, start, step)
    PROVE  \E f \in [S -> V] : Follows(f, S, base, next, start, step)
<1> USE DEF Recursion, Follows
<1> DEFINE Upto(s) == {t \in S : rank[t] < rank[s]} \cup {s}
           Obeys(g, t) == g[t] = IF t \in base THEN start[t] ELSE step[<<t, g[next[t]]>>]
           Works(s, g) == \A t \in Upto(s) : Obeys(g, t)
           Agree == {s \in S : \A g, h \in [S -> V] : \A x, y \in S :
                        Works(x, g) /\ Works(y, h) /\ s \in Upto(x) /\ s \in Upto(y) => g[s] = h[s]}
           Good == {s \in S : \E g \in [S -> V] : Works(s, g)}
<1>0. \A s, t \in S : t \in Upto(s) => /\ \A u \in S : rank[u] < rank[t] => u \in Upto(s)
                                       /\ Upto(t) \subseteq Upto(s)
    BY SMT
<1>1. S \subseteq Agree
  <2>1. ASSUME NEW s \in S, \A t \in S : rank[t] < rank[s] => t \in Agree
        PROVE  s \in Agree
    <3> SUFFICES ASSUME NEW g \in [S -> V], NEW h \in [S -> V], NEW x \in S, NEW y \in S,
                        Works(x, g), Works(y, h), s \in Upto(x), s \in Upto(y)
                 PROVE  g[s] = h[s]
        OBVIOUS
    <3>1. Obeys(g, s) /\ Obeys(h, s)
        OBVIOUS
    <3>2. CASE s \in base
        BY <3>1, <3>2
    <3>3. CASE s \notin base
      <4>1. next[s] \in S /\ rank[next[s]] < rank[s]
        BY <3>3
      <4>2. next[s] \in Agree /\ next[s] \in Upto(x) /\ next[s] \in Upto(y)
        <5> HIDE DEF Upto, Agree
        <5> QED BY <4>1, <2>1, <1>0
      <4>3. g[next[s]] = h[next[s]]
        <5> HIDE DEF Upto, Works
        <5> QED BY <4>1, <4>2
      <4> QED BY <3>1, <3>3, <4>3
    <3> QED BY <3>2, <3>3
  <2> HIDE DEF Agree
  <2> QED BY <2>1, RankInduction
<1>2. S \subseteq Good
  <2>1. ASSUME NEW s \in S, \A t \in S : rank[t] < rank[s] => t \in Good
        PROVE  s \in Good
    <3> DEFINE own == [t \in S |-> CHOOSE g \in [S -> V] : Works(t, g)]
               below == [t \in S |-> IF rank[t] < rank[s] THEN own[t][t] ELSE start[t]]
               g == [t \in S |-> IF t = s THEN IF s \in base THEN start[s] ELSE step[<<s, below[next[s]]>>]
                                 ELSE below[t]]
    <3>1. \A t \in S : rank[t] < rank[s] => own[t] \in [S -> V] /\ Works(t, own[t])
      <4> HIDE DEF Works
      <4> QED BY <2>1
    <3>2. below \in [S -> V]
      <4>1. \A t \in S : rank[t] < rank[s] => own[t] \in [S -> V]
        BY <3>1
      <4> HIDE DEF own
      <4> QED BY <4>1
    <3>3. g \in [S -> V]
      <4> HIDE DEF below
      <4> QED BY <3>2
    <3>4. \A t \in S : rank[t] < rank[s] => g[t] = own[t][t]
      <4>1. \A t \in S : rank[t] < rank[s] => t # s /\ below[t] = own[t][t]
        <5> HIDE DEF own
        <5> QED OBVIOUS
      <4> HIDE DEF below, own
      <4> QED BY <4>1
    <3>5. \A t \in S : rank[t] < rank[s] => Obeys(g, t)
      <4> SUFFICES ASSUME NEW t \in S, rank[t] < rank[s] PROVE Obeys(g, t)
        OBVIOUS
      <4>1. Obeys(own[t], t) /\ g[t] = own[t][t]
        <5>1. Works(t, own[t])
            BY <3>1
        <5>2. g[t] = own[t][t]
            BY <3>4
        <5> HIDE DEF g, own
        <5> QED BY <5>1, <5>2
      <4>2. CASE t \in base
        <5> HIDE DEF g, own
        <5> QED BY <4>1, <4>2
      <4>3. CASE t \notin base
        <5>1. next[t] \in S /\ rank[next[t]] < rank[t] /\ rank[next[t]] < rank[s]
            BY <4>3
        <5>2. g[next[t]] = own[next[t]][next[t]]
            BY <3>4, <5>1
        <5>3. own[next[t]] \in [S -> V] /\ Works(next[t], own[next[t]])
            BY <3>1, <5>1
        <5>4. own[t] \in [S -> V] /\ Works(t, own[t])
            BY <3>1
        <5>5. next[t] \in Upto(t) /\ next[t] \in Upto(next[t]) /\ next[t] \in Agree
          <6>1. next[t] \in Agree
            BY <1>1, <5>1
          <6> HIDE DEF Agree
          <6> QED BY <5>1, <6>1
        <5>6. own[next[t]][next[t]] = own[t][next[t]]
          <6> HIDE DEF own, Works, Upto
          <6> QED BY <5>1, <5>3, <5>4, <5>5
        <5> HIDE DEF g, own
        <5> QED BY <4>1, <4>3, <5>2, <5>6
      <4> QED BY <4>2, <4>3
    <3>6. Obeys(g, s)
      <4>1. CASE s \in base
        BY <4>1
      <4>2. CASE s \notin base
        <5>1. next[s] \in S /\ rank[next[s]] < rank[s] /\ next[s] # s
            BY <4>2
        <5> HIDE DEF below
        <5> QED BY <4>2, <5>1
      <4> QED BY <4>1, <4>2
    <3>7. Works(s, g)
      <4> HIDE DEF g
      <4> QED BY <3>5, <3>6
    <3> HIDE DEF g
    <3> QED BY <3>3, <3>7
  <2> HIDE DEF Good
  <2> QED BY <2>1, RankInduction
<1> DEFINE own == [t \in S |-> CHOOSE g \in [S -> V] : Works(t, g)]
           f == [s \in S |-> own[s][s]]
<1>3. \A s \in S : own[s] \in [S -> V] /\ Works(s, own[s])
  <2> HIDE DEF Works
  <2> QED BY <1>2
<1>4. f \in [S -> V]
  <2> HIDE DEF own
  <2> QED BY <1>3
<1>5. ASSUME NEW s \in S
      PROVE  Obeys(f, s)
  <2>1. Obeys(own[s], s) /\ f[s] = own[s][s]
    <3>1. Works(s, own[s])
        BY <1>3
    <3> HIDE DEF own
    <3> QED BY <3>1
  <2>2. CASE s \in base
    <3> HIDE DEF f, own
    <3> QED BY <2>1, <2>2
  <2>3. CASE s \notin base
    <3>1. next[s] \in S /\ rank[next[s]] < rank[s]
        BY <2>3
    <3>2. own[next[s]] \in [S -> V] /\ Works(next[s], own[next[s]])
        BY <1>3, <3>1
    <3>3. own[s] \in [S -> V] /\ Works(s, own[s])
        BY <1>3
    <3>4. next[s] \in Agree
        BY <1>1, <3>1
    <3>5. next[s] \in Upto(s) /\ next[s] \in Upto(next[s])
      <4> HIDE DEF Agree
      <4> QED BY <3>1
    <3>6. own[next[s]][next[s]] = own[s][next[s]]
      <4> HIDE DEF own, Works, Upto
      <4> QED BY <3>1, <3>2, <3>3, <3>4, <3>5
    <3>7. f[next[s]] = own[next[s]][next[s]]
      BY <3>1
    <3> HIDE DEF f, own
    <3> QED BY <2>1, <2>3, <3>6, <3>7
  <2> QED BY <2>2, <2>3
<1> HIDE DEF f
<1> QED BY <1>4, <1>5

-----------------------------------------------------------------------------
(* Sequences of bytes and their line ends. *)

Text == Seq(Bytes)
EndFree(s) == \A i \in 1 .. Len(s) : ~IsEnd(s[i])

LEMMA FirstEndFacts ==
    ASSUME NEW s \in Text
    PROVE  /\ FirstEnd(s) \in 0 .. Len(s)
           /\ FirstEnd(s) = 0 => EndFree(s)
           /\ FirstEnd(s) # 0 => IsEnd(s[FirstEnd(s)]) /\ \A j \in 1 .. FirstEnd(s) - 1 : ~IsEnd(s[j])
<1> DEFINE I == {i \in 1 .. Len(s) : IsEnd(s[i])}
<1>1. FirstEnd(s) = IF I # {} THEN Min(I) ELSE 0
    BY DEF FirstEnd, SelectInSeq
<1>2. CASE I = {}
    BY <1>1, <1>2 DEF Text, EndFree
<1>3. CASE I # {}
  <2>1. I \subseteq Nat
    BY DEF Text
  <2>2. PICK m \in I : \A k \in I : m <= k
    <3> HIDE DEF I
    <3> QED BY <1>3, <2>1, LeastNatural
  <2>3. Min(I) \in I /\ \A k \in I : Min(I) <= k
    <3> HIDE DEF I
    <3> QED BY <2>2 DEF Min
  <2>4. FirstEnd(s) = Min(I)
    BY <1>1, <1>3
  <2>5. FirstEnd(s) \in I /\ \A k \in I : FirstEnd(s) <= k
    BY <2>3, <2>4
  <2> QED BY <2>5 DEF Text
<1> QED BY <1>2, <1>3

LEMMA FirstEndIs ==
    ASSUME NEW s \in Text, NEW i \in 1 .. Len(s), IsEnd(s[i]), \A j \in 1 .. i - 1 : ~IsEnd(s[j])
    PROVE  FirstEnd(s) = i
BY FirstEndFacts DEF EndFree, Text

LEMMA EndFreeHasNone ==
    ASSUME NEW s \in Text, EndFree(s)
    PROVE  FirstEnd(s) = 0
BY FirstEndFacts DEF EndFree, Text

LEMMA FromFacts ==
    ASSUME NEW s \in Text, NEW i \in 1 .. Len(s) + 1
    PROVE  /\ From(s, i) \in Text
           /\ Len(From(s, i)) = Len(s) - i + 1
           /\ \A j \in 1 .. Len(s) - i + 1 : From(s, i)[j] = s[i + j - 1]
BY DEF From, Text

LEMMA AfterCrFacts ==
    ASSUME NEW cr, NEW s \in Text
    PROVE  AfterCr(cr, s) \in Text /\ Len(AfterCr(cr, s)) <= Len(s)
BY DEF AfterCr, Text

-----------------------------------------------------------------------------
(* The three recursive definitions, unfolded once. *)

Skip(s) == IF IsPrefix(<<"cr", "lf">>, From(s, FirstEnd(s))) THEN 2 ELSE 1

LEMMA SkipFacts ==
    ASSUME NEW s \in Text, FirstEnd(s) # 0
    PROVE  /\ Skip(s) \in {1, 2}
           /\ FirstEnd(s) + Skip(s) <= Len(s) + 1
           /\ From(s, FirstEnd(s) + Skip(s)) = AfterCr(s[FirstEnd(s)] = "cr", From(s, FirstEnd(s) + 1))
<1> DEFINE i == FirstEnd(s)
           r == From(s, i + 1)
<1>1. i \in 1 .. Len(s) /\ Len(s) \in Nat
    BY FirstEndFacts DEF Text
<1>2. From(s, i) \in Text /\ Len(From(s, i)) = Len(s) - i + 1
      /\ \A j \in 1 .. Len(s) - i + 1 : From(s, i)[j] = s[i + j - 1]
  <2> HIDE DEF i
  <2> QED BY <1>1, FromFacts
<1>3. r \in Text /\ Len(r) = Len(s) - i /\ \A j \in 1 .. Len(s) - i : r[j] = s[i + j]
  <2> HIDE DEF i
  <2> QED BY <1>1, FromFacts
<1>4. Skip(s) = 2 <=> Len(s) > i /\ s[i] = "cr" /\ s[i + 1] = "lf"
  <2> HIDE DEF i
  <2>1. IsPrefix(<<"cr", "lf">>, From(s, i)) <=> Len(s) > i /\ s[i] = "cr" /\ s[i + 1] = "lf"
    <3>1. CASE Len(s) > i
      <4>1. From(s, i)[1] = s[i] /\ From(s, i)[2] = s[i + 1] /\ Len(From(s, i)) >= 2
        BY <1>1, <1>2, <3>1
      <4> DEFINE two == SubSeq(From(s, i), 1, 2)
      <4>2. Len(two) = 2 /\ two[1] = s[i] /\ two[2] = s[i + 1] /\ two \in Text
        BY <1>1, <1>2, <4>1 DEF Text
      <4>3. two = <<s[i], s[i + 1]>>
        <5>1. s[i] \in Bytes /\ s[i + 1] \in Bytes
          BY <1>1, <3>1 DEF Text
        <5>2. /\ <<s[i], s[i + 1]>> \in Seq(Bytes) /\ Len(<<s[i], s[i + 1]>>) = 2
              /\ <<s[i], s[i + 1]>>[1] = s[i] /\ <<s[i], s[i + 1]>>[2] = s[i + 1]
          BY <5>1
        <5> HIDE DEF two
        <5> QED BY <4>2, <5>2, SeqEqual DEF Text
      <4> QED BY <1>1, <1>2, <3>1, <4>1, <4>3 DEF IsPrefix
    <3>2. CASE ~(Len(s) > i)
      BY <1>1, <1>2, <3>2 DEF IsPrefix
    <3> QED BY <3>1, <3>2
  <2> QED BY <2>1 DEF Skip, i
<1>5. r # <<>> /\ r[1] = "lf" <=> Len(s) > i /\ s[i + 1] = "lf"
  <2> HIDE DEF i, r
  <2> QED BY <1>1, <1>3 DEF Text
<1>6. CASE Skip(s) = 2
  <2>1. r # <<>> /\ r[1] = "lf" /\ s[i] = "cr"
    BY <1>4, <1>5, <1>6
  <2>2. Tail(r) = From(s, i + 2)
    <3> HIDE DEF i
    <3> QED BY <1>1, <1>4, <1>6 DEF From, Text
  <2> HIDE DEF i, r
  <2> QED BY <1>1, <1>4, <1>6, <2>1, <2>2 DEF AfterCr, i, r
<1>7. CASE Skip(s) # 2
  <2>1. ~(s[i] = "cr" /\ r # <<>> /\ r[1] = "lf")
    BY <1>4, <1>5, <1>7
  <2>2. Skip(s) = 1
    BY <1>7 DEF Skip
  <2> HIDE DEF i, r
  <2> QED BY <1>1, <2>1, <2>2 DEF AfterCr, i, r
<1> QED BY <1>6, <1>7

LEMMA ReadLinesRule ==
    /\ ReadLines \in [Text -> Seq(Text)]
    /\ \A s \in Text :
          ReadLines[s] = IF FirstEnd(s) = 0
                         THEN IF s = <<>> THEN <<>> ELSE <<s>>
                         ELSE <<SubSeq(s, 1, FirstEnd(s) - 1)>> \o ReadLines[From(s, FirstEnd(s) + Skip(s))]
<1> DEFINE rank == [s \in Text |-> Len(s)]
           base == {s \in Text : FirstEnd(s) = 0}
           next == [s \in Text |-> From(s, FirstEnd(s) + Skip(s))]
           start == [s \in Text |-> IF s = <<>> THEN <<>> ELSE <<s>>]
           step == [p \in Text \X Seq(Text) |-> <<SubSeq(p[1], 1, FirstEnd(p[1]) - 1)>> \o p[2]]
           Body(f, s) == IF FirstEnd(s) = 0
                         THEN IF s = <<>> THEN <<>> ELSE <<s>>
                         ELSE <<SubSeq(s, 1, FirstEnd(s) - 1)>> \o f[From(s, FirstEnd(s) + Skip(s))]
<1>1. rank \in [Text -> Nat]
    BY DEF Text
<1>2. start \in [Text -> Seq(Text)]
    BY DEF Text
<1>3. step \in [Text \X Seq(Text) -> Seq(Text)]
  <2> SUFFICES ASSUME NEW s \in Text, NEW v \in Seq(Text)
               PROVE  <<SubSeq(s, 1, FirstEnd(s) - 1)>> \o v \in Seq(Text)
    OBVIOUS
  <2>1. SubSeq(s, 1, FirstEnd(s) - 1) \in Text
    BY FirstEndFacts DEF Text
  <2> DEFINE l == SubSeq(s, 1, FirstEnd(s) - 1)
  <2> HIDE DEF l
  <2> QED BY <2>1
<1>4. \A s \in Text \ base : next[s] \in Text /\ rank[next[s]] < rank[s]
  <2> SUFFICES ASSUME NEW s \in Text, FirstEnd(s) # 0
               PROVE  From(s, FirstEnd(s) + Skip(s)) \in Text /\ Len(From(s, FirstEnd(s) + Skip(s))) < Len(s)
    OBVIOUS
  <2>1. FirstEnd(s) \in 1 .. Len(s) /\ Skip(s) \in {1, 2} /\ FirstEnd(s) + Skip(s) <= Len(s) + 1
    BY FirstEndFacts, SkipFacts
  <2> QED BY <2>1, FromFacts DEF Text
<1>a. Recursion(Text, Seq(Text), rank, base, next, start, step)
  <2> HIDE DEF rank, base, next, start, step
  <2> QED BY <1>1, <1>2, <1>3, <1>4 DEF Recursion
<1>5. PICK g \in [Text -> Seq(Text)] : Follows(g, Text, base, next, start, step)
  <2> HIDE DEF rank, base, next, start, step
  <2> QED BY <1>a, RecursiveFunction
<1>6. \A s \in Text : g[s] = Body(g, s)
  <2> SUFFICES ASSUME NEW s \in Text PROVE g[s] = Body(g, s)
    OBVIOUS
  <2>1. CASE FirstEnd(s) = 0
    BY <1>5, <2>1 DEF Follows
  <2>2. CASE FirstEnd(s) # 0
    <3>1. next[s] \in Text /\ g[next[s]] \in Seq(Text)
      BY <1>4, <2>2
    <3>2. g[s] = step[<<s, g[next[s]]>>]
      BY <1>5, <2>2 DEF Follows
    <3>3. step[<<s, g[next[s]]>>] = <<SubSeq(s, 1, FirstEnd(s) - 1)>> \o g[next[s]]
      <4> HIDE DEF next
      <4> QED BY <3>1
    <3> QED BY <2>2, <3>2, <3>3
  <2> QED BY <2>1, <2>2
<1>7. g = [s \in Text |-> Body(g, s)]
  <2> HIDE DEF Body
  <2> QED BY <1>6
<1>8. ReadLines = CHOOSE f : f = [s \in Text |-> Body(f, s)]
    BY DEF ReadLines, Skip, Text
<1>9. ReadLines = [s \in Text |-> Body(ReadLines, s)]
  <2> HIDE DEF Body
  <2> QED BY <1>7, <1>8
<1>10. \A s \in Text : ReadLines[s] = Body(ReadLines, s)
  <2> HIDE DEF Body
  <2> QED BY <1>9
<1>11. Text \subseteq {s \in Text : ReadLines[s] \in Seq(Text)}
  <2> DEFINE G == {s \in Text : ReadLines[s] \in Seq(Text)}
  <2>1. ASSUME NEW s \in Text, \A t \in Text : rank[t] < rank[s] => t \in G
        PROVE  s \in G
    <3>1. CASE FirstEnd(s) = 0
      <4>1. ReadLines[s] = start[s]
        BY <1>10, <3>1
      <4> HIDE DEF start
      <4> QED BY <4>1, <1>2
    <3>2. CASE FirstEnd(s) # 0
      <4>1. next[s] \in Text /\ ReadLines[next[s]] \in Seq(Text)
        BY <1>4, <2>1, <3>2
      <4>2. ReadLines[s] = <<SubSeq(s, 1, FirstEnd(s) - 1)>> \o ReadLines[next[s]]
        BY <1>10, <3>2
      <4>3. step[<<s, ReadLines[next[s]]>>] = <<SubSeq(s, 1, FirstEnd(s) - 1)>> \o ReadLines[next[s]]
        <5> HIDE DEF next
        <5> QED BY <4>1
      <4> HIDE DEF next, step
      <4> QED BY <1>3, <4>1, <4>2, <4>3
    <3> QED BY <3>1, <3>2
  <2>2. Text \subseteq G
    <3> HIDE DEF G, rank
    <3> QED BY <1>1, <2>1, RankInduction
  <2> QED BY <2>2
<1>12. ReadLines \in [Text -> Seq(Text)]
  <2> HIDE DEF Body
  <2> QED BY <1>9, <1>11
<1> QED BY <1>10, <1>12

Cr(s) == s[FirstEnd(s)] = "cr"
Rest(s) == From(s, FirstEnd(s) + 1)
Scans == [lines : Seq(Text), buf : Text, skipLf : BOOLEAN]

LEMMA TextConcat ==
    ASSUME NEW a \in Text, NEW b \in Text
    PROVE  /\ a \o b \in Text /\ Len(a \o b) = Len(a) + Len(b)
           /\ \A j \in 1 .. Len(a) : (a \o b)[j] = a[j]
           /\ \A j \in 1 .. Len(b) : (a \o b)[Len(a) + j] = b[j]
BY DEF Text

LEMMA RestFacts ==
    ASSUME NEW s \in Text, FirstEnd(s) # 0
    PROVE  /\ FirstEnd(s) \in 1 .. Len(s)
           /\ SubSeq(s, 1, FirstEnd(s) - 1) \in Text
           /\ EndFree(SubSeq(s, 1, FirstEnd(s) - 1))
           /\ Rest(s) \in Text /\ Len(Rest(s)) < Len(s)
           /\ AfterCr(Cr(s), Rest(s)) \in Text /\ Len(AfterCr(Cr(s), Rest(s))) < Len(s)
           /\ s = SubSeq(s, 1, FirstEnd(s) - 1) \o <<s[FirstEnd(s)]>> \o Rest(s)
<1> DEFINE i == FirstEnd(s)
           b == SubSeq(s, 1, i - 1)
<1>1. i \in 1 .. Len(s) /\ Len(s) \in Nat /\ \A j \in 1 .. i - 1 : ~IsEnd(s[j])
    BY FirstEndFacts DEF Text
<1> HIDE DEF i
<1>2. b \in Text /\ Len(b) = i - 1 /\ \A j \in 1 .. i - 1 : b[j] = s[j]
    BY <1>1 DEF Text
<1>3. EndFree(b)
    BY <1>1, <1>2 DEF EndFree
<1>4. Rest(s) \in Text /\ Len(Rest(s)) = Len(s) - i /\ \A j \in 1 .. Len(s) - i : Rest(s)[j] = s[i + j]
  <2>1. Rest(s) = From(s, i + 1)
    BY DEF Rest, i
  <2>2. i + 1 \in 1 .. Len(s) + 1
    BY <1>1
  <2>3. /\ Rest(s) \in Text /\ Len(Rest(s)) = Len(s) - (i + 1) + 1
        /\ \A j \in 1 .. Len(s) - (i + 1) + 1 : Rest(s)[j] = s[i + 1 + j - 1]
    BY <2>1, <2>2, FromFacts
  <2>4. Len(s) - (i + 1) + 1 = Len(s) - i
    BY <1>1
  <2>5. ASSUME NEW j \in 1 .. Len(s) - i PROVE Rest(s)[j] = s[i + j]
    <3>1. i + 1 + j - 1 = i + j
      BY <1>1
    <3> QED BY <2>3, <2>4, <3>1
  <2> QED BY <2>3, <2>4, <2>5
<1>5. AfterCr(Cr(s), Rest(s)) \in Text /\ Len(AfterCr(Cr(s), Rest(s))) < Len(s)
  <2>1. Len(AfterCr(Cr(s), Rest(s))) \in Nat
    BY <1>4, AfterCrFacts DEF Text
  <2> QED BY <1>1, <1>4, <2>1, AfterCrFacts
<1>6. s = b \o <<s[i]>> \o Rest(s)
  <2> DEFINE r == Rest(s)
             w == b \o <<s[i]>> \o r
  <2>1. s[i] \in Bytes
    BY <1>1 DEF Text
  <2>a. r \in Text /\ Len(r) = Len(s) - i /\ \A j \in 1 .. Len(s) - i : r[j] = s[i + j]
    BY <1>4
  <2> HIDE DEF r, b
  <2>2. w \in Text /\ Len(w) = Len(s) /\ \A j \in 1 .. Len(s) : w[j] = s[j]
    <3> DEFINE v == b \o <<s[i]>>
    <3>1. v \in Text /\ Len(v) = i /\ \A j \in 1 .. i : v[j] = s[j]
      BY <1>1, <1>2, <2>1 DEF Text
    <3> HIDE DEF v
    <3>a. /\ v \o r \in Text /\ Len(v \o r) = i + Len(r)
          /\ \A j \in 1 .. i : (v \o r)[j] = v[j]
          /\ \A j \in 1 .. Len(r) : (v \o r)[i + j] = r[j]
      BY <2>a, <3>1, TextConcat
    <3>2. v \o r \in Text /\ Len(v \o r) = Len(s)
      BY <1>1, <2>a, <3>a
    <3>3. ASSUME NEW j \in 1 .. Len(s) PROVE (v \o r)[j] = s[j]
      <4>1. CASE j <= i
        BY <1>1, <3>1, <3>a, <4>1
      <4>2. CASE j > i
        <5>1. j - i \in 1 .. Len(r) /\ i + (j - i) = j
          BY <1>1, <2>a, <4>2
        <5>2. (v \o r)[i + (j - i)] = r[j - i]
          BY <3>a, <5>1
        <5> QED BY <2>a, <5>1, <5>2
      <4>3. j <= i \/ j > i
        BY <1>1
      <4> QED BY <4>1, <4>2, <4>3
    <3> QED BY <3>2, <3>3 DEF v
  <2> HIDE DEF w
  <2>3. s = w
    BY <2>2, SeqEqual DEF Text
  <2> QED BY <2>3 DEF w, r, b
<1>7. Len(Rest(s)) < Len(s)
    BY <1>1, <1>4
<1> HIDE DEF b
<1>8. i = FirstEnd(s) /\ b = SubSeq(s, 1, FirstEnd(s) - 1)
    BY DEF i, b
<1> QED BY <1>1, <1>2, <1>3, <1>4, <1>5, <1>6, <1>7, <1>8

LEMMA ScanRule ==
    /\ Scan \in [Text -> Scans]
    /\ \A s \in Text :
          Scan[s] = IF FirstEnd(s) = 0
                    THEN [lines |-> <<>>, buf |-> s, skipLf |-> FALSE]
                    ELSE LET more == Scan[AfterCr(Cr(s), Rest(s))] IN
                         [lines |-> <<SubSeq(s, 1, FirstEnd(s) - 1)>> \o more.lines, buf |-> more.buf,
                          skipLf |-> more.skipLf \/ (Cr(s) /\ Rest(s) = <<>>)]
<1> DEFINE rank == [s \in Text |-> Len(s)]
           base == {s \in Text : FirstEnd(s) = 0}
           next == [s \in Text |-> AfterCr(Cr(s), Rest(s))]
           start == [s \in Text |-> [lines |-> <<>>, buf |-> s, skipLf |-> FALSE]]
           Joined(s, more) == [lines |-> <<SubSeq(s, 1, FirstEnd(s) - 1)>> \o more.lines, buf |-> more.buf,
                               skipLf |-> more.skipLf \/ (Cr(s) /\ Rest(s) = <<>>)]
           inner == Text \ base
           step == [p \in Text \X Scans |-> IF p[1] \in base THEN p[2] ELSE Joined(p[1], p[2])]
           Body(f, s) == IF FirstEnd(s) = 0
                         THEN [lines |-> <<>>, buf |-> s, skipLf |-> FALSE]
                         ELSE Joined(s, f[AfterCr(Cr(s), Rest(s))])
<1>1. rank \in [Text -> Nat]
    BY DEF Text
<1>2. start \in [Text -> Scans]
    BY DEF Text, Scans
<1>3. \A s \in Text, v \in Scans : FirstEnd(s) # 0 => Joined(s, v) \in Scans
  <2> SUFFICES ASSUME NEW s \in Text, NEW v \in Scans, FirstEnd(s) # 0
               PROVE  Joined(s, v) \in Scans
    OBVIOUS
  <2> DEFINE l == SubSeq(s, 1, FirstEnd(s) - 1)
  <2>1. l \in Text
    BY RestFacts
  <2> HIDE DEF l
  <2>2. <<l>> \o v.lines \in Seq(Text)
    BY <2>1 DEF Scans
  <2> QED BY <2>2 DEF l, Scans
<1>b. step \in [Text \X Scans -> Scans]
  <2> SUFFICES ASSUME NEW s \in Text, NEW v \in Scans
               PROVE  (IF s \in base THEN v ELSE Joined(s, v)) \in Scans
    OBVIOUS
  <2> HIDE DEF Joined
  <2> QED BY <1>3
<1>4. \A s \in Text \ base : next[s] \in Text /\ rank[next[s]] < rank[s]
  <2> SUFFICES ASSUME NEW s \in Text, FirstEnd(s) # 0
               PROVE  AfterCr(Cr(s), Rest(s)) \in Text /\ Len(AfterCr(Cr(s), Rest(s))) < Len(s)
    OBVIOUS
  <2> QED BY RestFacts
<1>a. Recursion(Text, Scans, rank, base, next, start, step)
  <2> HIDE DEF rank, base, next, start, step
  <2> QED BY <1>1, <1>2, <1>b, <1>4 DEF Recursion
<1>5. PICK g \in [Text -> Scans] : Follows(g, Text, base, next, start, step)
  <2> HIDE DEF rank, base, next, start, step
  <2> QED BY <1>a, RecursiveFunction
<1>6. \A s \in Text : g[s] = Body(g, s)
  <2> SUFFICES ASSUME NEW s \in Text PROVE g[s] = Body(g, s)
    OBVIOUS
  <2>1. CASE FirstEnd(s) = 0
    BY <1>5, <2>1 DEF Follows
  <2>2. CASE FirstEnd(s) # 0
    <3>1. next[s] \in Text /\ g[next[s]] \in Scans
      BY <1>4, <2>2
    <3>2. g[s] = step[<<s, g[next[s]]>>]
      BY <1>5, <2>2 DEF Follows
    <3>3. step[<<s, g[next[s]]>>] = Joined(s, g[next[s]])
      <4> HIDE DEF next, Joined
      <4> QED BY <3>1, <2>2
    <3> HIDE DEF Joined, step
    <3> QED BY <2>2, <3>2, <3>3
  <2> QED BY <2>1, <2>2
<1>7. g = [s \in Text |-> Body(g, s)]
  <2> HIDE DEF Body
  <2> QED BY <1>6
<1>8. Scan = CHOOSE f : f = [s \in Text |-> Body(f, s)]
    BY DEF Scan, Cr, Rest, Text
<1>9. Scan = [s \in Text |-> Body(Scan, s)]
  <2> HIDE DEF Body
  <2> QED BY <1>7, <1>8
<1>10. \A s \in Text : Scan[s] = Body(Scan, s)
  <2> HIDE DEF Body
  <2> QED BY <1>9
<1>11. Text \subseteq {s \in Text : Scan[s] \in Scans}
  <2> DEFINE G == {s \in Text : Scan[s] \in Scans}
  <2>1. ASSUME NEW s \in Text, \A t \in Text : rank[t] < rank[s] => t \in G
        PROVE  s \in G
    <3>1. CASE FirstEnd(s) = 0
      <4>1. Scan[s] = start[s]
        BY <1>10, <3>1
      <4> HIDE DEF start
      <4> QED BY <4>1, <1>2
    <3>2. CASE FirstEnd(s) # 0
      <4>1. next[s] \in Text /\ Scan[next[s]] \in Scans
        BY <1>4, <2>1, <3>2
      <4>2. Scan[s] = Joined(s, Scan[next[s]])
        <5> HIDE DEF Joined
        <5> QED BY <1>10, <3>2
      <4> HIDE DEF next, Joined
      <4> QED BY <1>3, <4>1, <4>2, <3>2
    <3> QED BY <3>1, <3>2
  <2>2. Text \subseteq G
    <3> HIDE DEF G, rank
    <3> QED BY <1>1, <2>1, RankInduction
  <2> QED BY <2>2
<1>12. Scan \in [Text -> Scans]
  <2> HIDE DEF Body
  <2> QED BY <1>9, <1>11
<1> QED BY <1>10, <1>12

LEMMA FirstLineRule ==
    /\ FirstLine \in [Text -> Text]
    /\ \A s \in Text :
          FirstLine[s] = IF s = <<>> \/ s[1] = "lf" THEN <<>>
                         ELSE (IF s[1] = "cr" THEN <<>> ELSE <<s[1]>>) \o FirstLine[Tail(s)]
<1> DEFINE rank == [s \in Text |-> Len(s)]
           base == {s \in Text : s = <<>> \/ s[1] = "lf"}
           next == [s \in Text |-> Tail(s)]
           start == [s \in Text |-> <<>>]
           Joined(s, more) == (IF s[1] = "cr" THEN <<>> ELSE <<s[1]>>) \o more
           step == [p \in Text \X Text |-> IF p[1] \in base THEN p[2] ELSE Joined(p[1], p[2])]
           Body(f, s) == IF s = <<>> \/ s[1] = "lf" THEN <<>> ELSE Joined(s, f[Tail(s)])
<1>1. rank \in [Text -> Nat]
    BY DEF Text
<1>2. start \in [Text -> Text]
    BY DEF Text
<1>3. \A s \in Text \ base, v \in Text : Joined(s, v) \in Text
    BY DEF Text
<1>b. step \in [Text \X Text -> Text]
  <2> SUFFICES ASSUME NEW s \in Text, NEW v \in Text
               PROVE  (IF s \in base THEN v ELSE Joined(s, v)) \in Text
    OBVIOUS
  <2> HIDE DEF Joined, base
  <2> QED BY <1>3
<1>4. \A s \in Text \ base : next[s] \in Text /\ rank[next[s]] < rank[s]
    BY DEF Text
<1>a. Recursion(Text, Text, rank, base, next, start, step)
  <2> HIDE DEF rank, base, next, start, step
  <2> QED BY <1>1, <1>2, <1>b, <1>4 DEF Recursion
<1>5. PICK g \in [Text -> Text] : Follows(g, Text, base, next, start, step)
  <2> HIDE DEF rank, base, next, start, step
  <2> QED BY <1>a, RecursiveFunction
<1>6. \A s \in Text : g[s] = Body(g, s)
  <2> SUFFICES ASSUME NEW s \in Text PROVE g[s] = Body(g, s)
    OBVIOUS
  <2>1. CASE s \in base
    BY <1>5, <2>1 DEF Follows
  <2>2. CASE s \notin base
    <3>1. next[s] \in Text /\ g[next[s]] \in Text
      BY <1>4, <2>2
    <3>2. g[s] = step[<<s, g[next[s]]>>]
      BY <1>5, <2>2 DEF Follows
    <3>3. step[<<s, g[next[s]]>>] = Joined(s, g[next[s]])
      <4> HIDE DEF next, Joined, base
      <4> QED BY <3>1, <2>2
    <3> HIDE DEF Joined, step
    <3> QED BY <2>2, <3>2, <3>3
  <2> QED BY <2>1, <2>2
<1>7. g = [s \in Text |-> Body(g, s)]
  <2> HIDE DEF Body
  <2> QED BY <1>6
<1>8. FirstLine = CHOOSE f : f = [s \in Text |-> Body(f, s)]
    BY DEF FirstLine, Text
<1>9. FirstLine = [s \in Text |-> Body(FirstLine, s)]
  <2> HIDE DEF Body
  <2> QED BY <1>7, <1>8
<1>10. \A s \in Text : FirstLine[s] = Body(FirstLine, s)
  <2> HIDE DEF Body
  <2> QED BY <1>9
<1>11. Text \subseteq {s \in Text : FirstLine[s] \in Text}
  <2> DEFINE G == {s \in Text : FirstLine[s] \in Text}
  <2>1. ASSUME NEW s \in Text, \A t \in Text : rank[t] < rank[s] => t \in G
        PROVE  s \in G
    <3>1. CASE s \in base
      <4>1. FirstLine[s] = start[s]
        BY <1>10, <3>1
      <4> HIDE DEF start
      <4> QED BY <4>1, <1>2
    <3>2. CASE s \notin base
      <4>1. next[s] \in Text /\ FirstLine[next[s]] \in Text
        BY <1>4, <2>1, <3>2
      <4>2. FirstLine[s] = Joined(s, FirstLine[next[s]])
        <5> HIDE DEF Joined
        <5> QED BY <1>10, <3>2
      <4> HIDE DEF next, Joined, base
      <4> QED BY <1>3, <4>1, <4>2, <3>2
    <3> QED BY <3>1, <3>2
  <2>2. Text \subseteq G
    <3> HIDE DEF G, rank
    <3> QED BY <1>1, <2>1, RankInduction
  <2> QED BY <2>2
<1>12. FirstLine \in [Text -> Text]
  <2> HIDE DEF Body
  <2> QED BY <1>9, <1>11
<1> QED BY <1>10, <1>12

-----------------------------------------------------------------------------
(* What the reading of a text as a whole has to do with its parts. *)

LEMMA TextAssoc ==
    ASSUME NEW a \in Text, NEW b \in Text, NEW c \in Text
    PROVE  a \o (b \o c) = (a \o b) \o c
BY DEF Text

LEMMA TextEmpty ==
    ASSUME NEW a \in Text
    PROVE  <<>> \in Text /\ <<>> \o a = a /\ a \o <<>> = a
BY DEF Text

LEMMA LinesAssoc ==
    ASSUME NEW a \in Seq(Text), NEW b \in Seq(Text), NEW c \in Seq(Text)
    PROVE  a \o (b \o c) = (a \o b) \o c /\ <<>> \o a = a /\ a \o <<>> = a /\ a \o b \in Seq(Text)
OBVIOUS

LEMMA TextEqual ==
    ASSUME NEW a \in Text, NEW b \in Text, Len(a) = Len(b), \A j \in 1 .. Len(a) : a[j] = b[j]
    PROVE  a = b
BY SeqEqual DEF Text

(* A text whose first line b ends with e; its first line end, and what is on *)
(* both sides of it.                                                         *)
Ended(b, e, t) == b \o (<<e>> \o t)

LEMMA CutFacts ==
    ASSUME NEW b \in Text, EndFree(b), NEW e \in {"cr", "lf"}, NEW t \in Text
    PROVE  LET s == Ended(b, e, t) IN
           /\ s \in Text /\ FirstEnd(s) = Len(b) + 1 /\ s[FirstEnd(s)] = e
           /\ SubSeq(s, 1, FirstEnd(s) - 1) = b /\ Rest(s) = t
<1> DEFINE r == <<e>> \o t
           s == b \o r
<1>1. Len(b) \in Nat /\ Len(t) \in Nat
    BY DEF Text
<1>2. <<e>> \in Text /\ Len(<<e>>) = 1 /\ <<e>>[1] = e
    BY DEF Text, Bytes
<1>3. r \in Text /\ Len(r) = 1 + Len(t) /\ r[1] = e /\ \A j \in 1 .. Len(t) : r[1 + j] = t[j]
    BY <1>2, TextConcat
<1> HIDE DEF r
<1>4. /\ s \in Text /\ Len(s) = Len(b) + Len(r)
      /\ \A j \in 1 .. Len(b) : s[j] = b[j]
      /\ \A j \in 1 .. Len(r) : s[Len(b) + j] = r[j]
  <2>1. r \in Text
    BY <1>3
  <2> QED BY <2>1, TextConcat
<1> HIDE DEF s
<1>5. Len(s) = Len(b) + 1 + Len(t) /\ s[Len(b) + 1] = e
    BY <1>1, <1>3, <1>4
<1>6. ASSUME NEW j \in 1 .. Len(t) PROVE s[Len(b) + 1 + j] = t[j]
  <2>1. 1 + j \in 1 .. Len(r) /\ Len(b) + (1 + j) = Len(b) + 1 + j
    BY <1>1, <1>3
  <2> QED BY <1>3, <1>4, <2>1
<1>7. FirstEnd(s) = Len(b) + 1
  <2>1. IsEnd(s[Len(b) + 1]) /\ Len(b) + 1 \in 1 .. Len(s)
    BY <1>1, <1>5 DEF IsEnd
  <2>2. \A j \in 1 .. (Len(b) + 1) - 1 : ~IsEnd(s[j])
    BY <1>1, <1>4 DEF EndFree
  <2> QED BY <1>4, <2>1, <2>2, FirstEndIs
<1>8. SubSeq(s, 1, Len(b)) = b
  <2>1. SubSeq(s, 1, Len(b)) \in Text /\ Len(SubSeq(s, 1, Len(b))) = Len(b)
        /\ \A j \in 1 .. Len(b) : SubSeq(s, 1, Len(b))[j] = s[j]
    BY <1>1, <1>4, <1>5 DEF Text
  <2> DEFINE u == SubSeq(s, 1, Len(b))
  <2> HIDE DEF u
  <2>2. u = b
    BY <1>4, <2>1, TextEqual DEF u
  <2> QED BY <2>2 DEF u
<1>9. Rest(s) = t
  <2>1. Len(b) + 1 + 1 \in 1 .. Len(s) + 1
    BY <1>1, <1>5
  <2>2. Rest(s) = From(s, Len(b) + 1 + 1)
    BY <1>7 DEF Rest
  <2>3. /\ Rest(s) \in Text /\ Len(Rest(s)) = Len(s) - (Len(b) + 1 + 1) + 1
        /\ \A j \in 1 .. Len(s) - (Len(b) + 1 + 1) + 1 : Rest(s)[j] = s[Len(b) + 1 + 1 + j - 1]
    <3>1. /\ From(s, Len(b) + 1 + 1) \in Text /\ Len(From(s, Len(b) + 1 + 1)) = Len(s) - (Len(b) + 1 + 1) + 1
          /\ \A j \in 1 .. Len(s) - (Len(b) + 1 + 1) + 1 :
                From(s, Len(b) + 1 + 1)[j] = s[Len(b) + 1 + 1 + j - 1]
      <4>1. s \in Text
        BY <1>4
      <4> QED BY <4>1, <2>1, FromFacts
    <3> QED BY <2>2, <3>1
  <2>4. Len(s) - (Len(b) + 1 + 1) + 1 = Len(t)
    BY <1>1, <1>5
  <2>5. ASSUME NEW j \in 1 .. Len(t) PROVE Rest(s)[j] = t[j]
    <3>1. Len(b) + 1 + 1 + j - 1 = Len(b) + 1 + j
      BY <1>1
    <3>2. Rest(s)[j] = s[Len(b) + 1 + j]
      BY <2>3, <2>4, <3>1
    <3> QED BY <1>6, <3>2
  <2> QED BY <2>3, <2>4, <2>5, TextEqual
<1>10. FirstEnd(s) - 1 = Len(b)
    BY <1>1, <1>7
<1>11. /\ s \in Text /\ FirstEnd(s) = Len(b) + 1 /\ s[FirstEnd(s)] = e
       /\ SubSeq(s, 1, FirstEnd(s) - 1) = b /\ Rest(s) = t
    BY <1>4, <1>5, <1>7, <1>8, <1>9, <1>10
<1>12. s = Ended(b, e, t)
    BY DEF s, r, Ended
<1> QED BY <1>11, <1>12

LEMMA ReadLinesCut ==
    ASSUME NEW b \in Text, EndFree(b), NEW e \in {"cr", "lf"}, NEW t \in Text
    PROVE  ReadLines[Ended(b, e, t)] = <<b>> \o ReadLines[AfterCr(e = "cr", t)]
<1> DEFINE s == Ended(b, e, t)
<1>1. /\ s \in Text /\ FirstEnd(s) = Len(b) + 1 /\ s[FirstEnd(s)] = e
      /\ SubSeq(s, 1, FirstEnd(s) - 1) = b /\ Rest(s) = t
    BY CutFacts
<1> HIDE DEF s
<1>2. FirstEnd(s) # 0
    BY <1>1 DEF Text
<1>3. From(s, FirstEnd(s) + Skip(s)) = AfterCr(e = "cr", t)
    BY <1>1, <1>2, SkipFacts DEF Rest
<1>4. ReadLines[s] = <<b>> \o ReadLines[AfterCr(e = "cr", t)]
    BY <1>1, <1>2, <1>3, ReadLinesRule
<1> QED BY <1>4 DEF s

LEMMA ReadLinesOne ==
    ASSUME NEW s \in Text, EndFree(s)
    PROVE  ReadLines[s] = IF s = <<>> THEN <<>> ELSE <<s>>
BY EndFreeHasNone, ReadLinesRule

LEMMA EndFreeConcat ==
    ASSUME NEW a \in Text, NEW b \in Text, EndFree(a), EndFree(b)
    PROVE  EndFree(a \o b)
<1>1. Len(a \o b) = Len(a) + Len(b) /\ Len(a) \in Nat /\ Len(b) \in Nat
    BY TextConcat DEF Text
<1>2. ASSUME NEW j \in 1 .. Len(a \o b) PROVE ~IsEnd((a \o b)[j])
  <2>1. CASE j <= Len(a)
    BY <1>1, <2>1, TextConcat DEF EndFree
  <2>2. CASE j > Len(a)
    <3>1. j - Len(a) \in 1 .. Len(b) /\ Len(a) + (j - Len(a)) = j
      BY <1>1, <2>2
    <3>2. (a \o b)[Len(a) + (j - Len(a))] = b[j - Len(a)]
      BY <3>1, TextConcat
    <3> QED BY <3>1, <3>2 DEF EndFree
  <2>3. j <= Len(a) \/ j > Len(a)
    BY <1>1
  <2> QED BY <2>1, <2>2, <2>3
<1> QED BY <1>2 DEF EndFree

(* What precedes a line that ends is the start of that line. *)
LEMMA ReadLinesPrepend ==
    ASSUME NEW b \in Text, EndFree(b), NEW s \in Text, FirstEnd(s) # 0
    PROVE  ReadLines[b \o s] = <<b \o Head(ReadLines[s])>> \o Tail(ReadLines[s])
<1> DEFINE x == SubSeq(s, 1, FirstEnd(s) - 1)
           e == s[FirstEnd(s)]
           t == Rest(s)
<1>1. x \in Text /\ EndFree(x) /\ t \in Text /\ s = x \o <<e>> \o t
    BY RestFacts
<1>2. e \in {"cr", "lf"}
    BY FirstEndFacts DEF IsEnd
<1> HIDE DEF x, e, t
<1>3. <<e>> \in Text
    BY <1>2 DEF Text, Bytes
<1>a. (x \o <<e>>) \o t = x \o (<<e>> \o t)
    BY <1>1, <1>3, TextAssoc
<1>b. <<e>> \o t \in Text
    BY <1>1, <1>3, TextConcat
<1>4. s = x \o (<<e>> \o t) /\ <<e>> \o t \in Text
    BY <1>1, <1>a, <1>b
<1>5. b \o s = (b \o x) \o (<<e>> \o t)
  <2> DEFINE z == <<e>> \o t
  <2>1. z \in Text /\ s = x \o z
    BY <1>4
  <2> HIDE DEF z
  <2>2. b \o (x \o z) = (b \o x) \o z
    BY <1>1, <2>1, TextAssoc
  <2> QED BY <2>1, <2>2 DEF z
<1>6. b \o x \in Text /\ EndFree(b \o x)
    BY <1>1, TextConcat, EndFreeConcat
<1> DEFINE R == ReadLines[AfterCr(e = "cr", t)]
<1>7. R \in Seq(Text)
    BY <1>1, AfterCrFacts, ReadLinesRule
<1>8. ReadLines[s] = <<x>> \o R
  <2>1. ReadLines[Ended(x, e, t)] = <<x>> \o R
    BY <1>1, <1>2, ReadLinesCut
  <2> QED BY <1>4, <2>1 DEF Ended
<1>9. ReadLines[b \o s] = <<b \o x>> \o R
  <2> DEFINE y == b \o x
  <2> HIDE DEF y
  <2>1. ReadLines[Ended(y, e, t)] = <<y>> \o R
    BY <1>1, <1>2, <1>6, ReadLinesCut DEF y
  <2> QED BY <1>5, <2>1 DEF y, Ended
<1> HIDE DEF R
<1>10. Head(<<x>> \o R) = x /\ Tail(<<x>> \o R) = R
    BY <1>1, <1>7
<1> QED BY <1>8, <1>9, <1>10

LEMMA AfterCrConcat ==
    ASSUME NEW cr, NEW a \in Text, NEW b \in Text
    PROVE  /\ a # <<>> => AfterCr(cr, a \o b) = AfterCr(cr, a) \o b
           /\ AfterCr(cr, <<>>) = <<>> /\ AfterCr(FALSE, a) = a
<1>1. ASSUME a # <<>> PROVE AfterCr(cr, a \o b) = AfterCr(cr, a) \o b
  <2>1. a \o b # <<>> /\ (a \o b)[1] = a[1] /\ Tail(a \o b) = Tail(a) \o b
    BY <1>1 DEF Text
  <2> QED BY <1>1, <2>1 DEF AfterCr
<1> QED BY <1>1 DEF AfterCr

(* A scan of a text gives the lines it has, whatever comes after it: the     *)
(* rest of the lines are those of what was kept and what comes.              *)
Splits(c, scan) ==
    /\ scan \in Scans /\ EndFree(scan.buf)
    /\ \A t \in Text : ReadLines[c \o t] = scan.lines \o ReadLines[scan.buf \o AfterCr(scan.skipLf, t)]

LEMMA ScanSplits == \A c \in Text : Splits(c, Scan[c])
<1> DEFINE rank == [s \in Text |-> Len(s)]
           G == {c \in Text : Splits(c, Scan[c])}
<1>1. rank \in [Text -> Nat]
    BY DEF Text
<1>2. ASSUME NEW c \in Text, \A s \in Text : rank[s] < rank[c] => s \in G
      PROVE  c \in G
  <2>0. Scan[c] \in Scans
    BY ScanRule
  <2>1. CASE FirstEnd(c) = 0
    <3>1. Scan[c] = [lines |-> <<>>, buf |-> c, skipLf |-> FALSE]
        BY <2>1, ScanRule
    <3>2. EndFree(c)
        BY <2>1, FirstEndFacts
    <3>3. ASSUME NEW t \in Text
          PROVE  ReadLines[c \o t] = <<>> \o ReadLines[c \o AfterCr(FALSE, t)]
      <4>1. AfterCr(FALSE, t) = t /\ c \o t \in Text
        BY AfterCrConcat, TextConcat
      <4>2. ReadLines[c \o t] \in Seq(Text)
        BY <4>1, ReadLinesRule
      <4> QED BY <4>1, <4>2, LinesAssoc
    <3>4. Scan[c].lines = <<>> /\ Scan[c].buf = c /\ Scan[c].skipLf = FALSE
        BY <3>1
    <3>5. Splits(c, Scan[c])
        BY <2>0, <3>2, <3>3, <3>4 DEF Splits
    <3> QED BY <3>5
  <2>2. CASE FirstEnd(c) # 0
    <3> DEFINE x == SubSeq(c, 1, FirstEnd(c) - 1)
               e == c[FirstEnd(c)]
               r == Rest(c)
               n == AfterCr(Cr(c), r)
               more == Scan[n]
    <3>1. x \in Text /\ EndFree(x) /\ r \in Text /\ n \in Text /\ Len(n) < Len(c) /\ c = x \o <<e>> \o r
        BY <2>2, RestFacts
    <3>2. e \in {"cr", "lf"} /\ Cr(c) = (e = "cr")
        BY <2>2, FirstEndFacts DEF IsEnd, Cr
    <3>3. Scan[c] = [lines |-> <<x>> \o more.lines, buf |-> more.buf,
                     skipLf |-> more.skipLf \/ (Cr(c) /\ r = <<>>)]
        BY <2>2, ScanRule
    <3>4. Splits(n, more)
      <4>1. n \in G
        BY <1>2, <3>1
      <4> QED BY <4>1
    <3>n. n = AfterCr(Cr(c), r)
        OBVIOUS
    <3>m. more = Scan[n]
        OBVIOUS
    <3> HIDE DEF x, e, r, n, more, G, rank
    <3>5. more \in Scans /\ EndFree(more.buf) /\ more.lines \in Seq(Text) /\ more.buf \in Text
        BY <3>4 DEF Splits, Scans
    <3>6. ASSUME NEW t \in Text
          PROVE  ReadLines[c \o t] = Scan[c].lines \o ReadLines[Scan[c].buf \o AfterCr(Scan[c].skipLf, t)]
      <4>1. <<e>> \in Text
        BY <3>2 DEF Text, Bytes
      <4>2. r \o t \in Text
        BY <3>1, TextConcat
      <4>3. c \o t = Ended(x, e, r \o t)
        <5>1. x \o <<e>> \in Text /\ <<e>> \o r \in Text
            BY <3>1, <4>1, TextConcat
        <5>2. (x \o <<e>>) \o r = x \o (<<e>> \o r)
            BY <3>1, <4>1, TextAssoc
        <5>3. (x \o (<<e>> \o r)) \o t = x \o ((<<e>> \o r) \o t)
          <6> DEFINE z == <<e>> \o r
          <6>1. z \in Text
            BY <5>1
          <6> HIDE DEF z
          <6>2. x \o (z \o t) = (x \o z) \o t
            BY <3>1, <6>1, TextAssoc
          <6> QED BY <6>2 DEF z
        <5>4. (<<e>> \o r) \o t = <<e>> \o (r \o t)
            BY <3>1, <4>1, TextAssoc
        <5> QED BY <3>1, <5>2, <5>3, <5>4 DEF Ended
      <4>4. ReadLines[c \o t] = <<x>> \o ReadLines[AfterCr(Cr(c), r \o t)]
        <5> DEFINE v == r \o t
        <5> HIDE DEF v
        <5>1. ReadLines[Ended(x, e, v)] = <<x>> \o ReadLines[AfterCr(e = "cr", v)]
            BY <3>1, <3>2, <4>2, ReadLinesCut DEF v
        <5> QED BY <3>2, <4>3, <5>1 DEF v
      <4>5. CASE r # <<>>
        <5>1. AfterCr(Cr(c), r \o t) = n \o t
          <6>1. r \in Text
            BY <3>1
          <6>2. AfterCr(Cr(c), r \o t) = AfterCr(Cr(c), r) \o t
            BY <4>5, <6>1, AfterCrConcat
          <6> QED BY <3>n, <6>2
        <5>2. ReadLines[n \o t] = more.lines \o ReadLines[more.buf \o AfterCr(more.skipLf, t)]
            BY <3>4 DEF Splits
        <5> DEFINE R == ReadLines[more.buf \o AfterCr(more.skipLf, t)]
        <5>3. R \in Seq(Text)
          <6>1. more.buf \o AfterCr(more.skipLf, t) \in Text
            BY <3>5, AfterCrFacts, TextConcat
          <6> QED BY <6>1, ReadLinesRule
        <5>4. Scan[c].lines = <<x>> \o more.lines /\ Scan[c].buf = more.buf /\ Scan[c].skipLf = more.skipLf
            BY <3>3, <3>5, <4>5 DEF Scans
        <5> HIDE DEF R
        <5>5. <<x>> \o (more.lines \o R) = (<<x>> \o more.lines) \o R
          <6> DEFINE h == <<x>>
                     m == more.lines
          <6>1. h \in Seq(Text)
            BY <3>1
          <6>2. R \in Seq(Text) /\ m \in Seq(Text)
            BY <3>5, <5>3
          <6> HIDE DEF h, m
          <6>3. h \o (m \o R) = (h \o m) \o R
            BY <6>1, <6>2, LinesAssoc
          <6> QED BY <6>3 DEF h, m
        <5> QED BY <4>4, <5>1, <5>2, <5>4, <5>5 DEF R
      <4>6. CASE r = <<>>
        <5>1. n = <<>>
            BY <3>n, <4>6 DEF AfterCr
        <5>2. more = [lines |-> <<>>, buf |-> <<>>, skipLf |-> FALSE]
          <6>1. <<>> \in Text /\ EndFree(<<>>)
            BY DEF Text, EndFree
          <6>2. FirstEnd(<<>>) = 0
            BY <6>1, EndFreeHasNone
          <6> QED BY <3>m, <5>1, <6>1, <6>2, ScanRule
        <5>3. Scan[c].lines = <<x>> /\ Scan[c].buf = <<>> /\ Scan[c].skipLf = Cr(c)
          <6>1. <<x>> \o <<>> = <<x>>
            BY <3>1
          <6>2. Cr(c) \in BOOLEAN
            BY DEF Cr
          <6> QED BY <3>3, <4>6, <5>2, <6>1, <6>2
        <5>4. r \o t = t
            BY <4>6, TextEmpty
        <5>5. <<>> \o AfterCr(Cr(c), t) = AfterCr(Cr(c), t)
            BY AfterCrFacts, TextEmpty
        <5> QED BY <4>4, <5>3, <5>4, <5>5
      <4> QED BY <4>5, <4>6
    <3>7. EndFree(Scan[c].buf)
        BY <3>3, <3>5
    <3>8. Splits(c, Scan[c])
        BY <2>0, <3>6, <3>7 DEF Splits
    <3> QED BY <3>8 DEF G
  <2> QED BY <2>1, <2>2
<1>3. Text \subseteq G
  <2> HIDE DEF G, rank
  <2> QED BY <1>1, <1>2, RankInduction
<1> QED BY <1>3

(* The same with what was kept before in front. *)
LEMMA AfterSplits ==
    ASSUME NEW b \in Text, EndFree(b), NEW c \in Text
    PROVE  Splits(b \o c, After(b, Scan[c]))
<1> DEFINE scan == Scan[c]
<1>1. scan \in Scans /\ Splits(c, scan) /\ b \o c \in Text
    BY ScanSplits, ScanRule, TextConcat
<1>2. CASE scan.lines = <<>>
  <2>1. FirstEnd(c) = 0
    <3>1. SUFFICES ASSUME FirstEnd(c) # 0 PROVE FALSE
        OBVIOUS
    <3> DEFINE x == SubSeq(c, 1, FirstEnd(c) - 1)
               more == Scan[AfterCr(Cr(c), Rest(c))]
    <3>2. scan.lines = <<x>> \o more.lines
        BY <3>1, ScanRule
    <3>3. x \in Text /\ more.lines \in Seq(Text)
        BY <3>1, RestFacts, ScanRule DEF Scans
    <3> HIDE DEF x, more, scan
    <3> QED BY <1>2, <3>2, <3>3
  <2>2. scan = [lines |-> <<>>, buf |-> c, skipLf |-> FALSE]
    BY <2>1, ScanRule
  <2>3. After(b, scan) = [lines |-> <<>>, buf |-> b \o c, skipLf |-> FALSE]
    <3> HIDE DEF scan
    <3> QED BY <1>2, <2>2 DEF After
  <2>4. EndFree(b \o c)
    BY <2>1, FirstEndFacts, EndFreeConcat
  <2>5. ASSUME NEW t \in Text
        PROVE  ReadLines[(b \o c) \o t] = <<>> \o ReadLines[(b \o c) \o AfterCr(FALSE, t)]
    <3> DEFINE d == b \o c
    <3>1. d \in Text
        BY <1>1
    <3> HIDE DEF d
    <3>2. AfterCr(FALSE, t) = t /\ d \o t \in Text
        BY <3>1, AfterCrConcat, TextConcat
    <3>3. ReadLines[d \o t] \in Seq(Text)
        BY <3>2, ReadLinesRule
    <3>4. ReadLines[d \o t] = <<>> \o ReadLines[d \o AfterCr(FALSE, t)]
        BY <3>2, <3>3, LinesAssoc
    <3> QED BY <3>4 DEF d
  <2>6. <<>> \in Seq(Text)
    OBVIOUS
  <2>7. After(b, scan) \in Scans
    BY <1>1, <2>3, <2>6 DEF Scans
  <2> HIDE DEF scan
  <2> DEFINE kept == After(b, scan)
  <2>8. kept \in Scans /\ kept.lines = <<>> /\ kept.buf = b \o c /\ kept.skipLf = FALSE
    BY <2>3, <2>7
  <2> HIDE DEF kept
  <2>9. Splits(b \o c, kept)
    BY <2>4, <2>5, <2>8 DEF Splits
  <2> QED BY <2>9 DEF kept, scan
<1>3. CASE scan.lines # <<>>
  <2>1. FirstEnd(c) # 0
    <3>1. FirstEnd(c) = 0 => scan = [lines |-> <<>>, buf |-> c, skipLf |-> FALSE]
        BY ScanRule
    <3> HIDE DEF scan
    <3> QED BY <1>3, <3>1
  <2> DEFINE L == scan.lines
  <2>2. L \in Seq(Text) /\ L # <<>> /\ scan.buf \in Text /\ scan.skipLf \in BOOLEAN
    BY <1>1, <1>3 DEF Scans
  <2>3. Head(L) \in Text /\ Tail(L) \in Seq(Text) /\ b \o Head(L) \in Text
    <3>1. Head(L) \in Text /\ Tail(L) \in Seq(Text)
      <4> HIDE DEF L
      <4> QED BY <2>2
    <3> QED BY <3>1, TextConcat
  <2> DEFINE N == <<b \o Head(L)>> \o Tail(L)
  <2>4. N \in Seq(Text)
    <3> DEFINE h == b \o Head(L)
    <3> HIDE DEF h, L
    <3> QED BY <2>3 DEF h
  <2>5. After(b, scan) = [lines |-> N, buf |-> scan.buf, skipLf |-> scan.skipLf]
    <3> HIDE DEF N
    <3>1. After(b, scan) = [scan EXCEPT !.lines = N]
        BY <1>3 DEF After, N
    <3> HIDE DEF scan
    <3> QED BY <1>1, <3>1 DEF Scans
  <2>6. ASSUME NEW t \in Text
        PROVE  ReadLines[(b \o c) \o t] = N \o ReadLines[scan.buf \o AfterCr(scan.skipLf, t)]
    <3> DEFINE R == ReadLines[scan.buf \o AfterCr(scan.skipLf, t)]
    <3>1. R \in Seq(Text)
      <4>1. scan.buf \o AfterCr(scan.skipLf, t) \in Text
        <5> HIDE DEF scan
        <5> QED BY <2>2, AfterCrFacts, TextConcat
      <4> QED BY <4>1, ReadLinesRule
    <3>2. ReadLines[c \o t] = L \o R
        BY <1>1 DEF Splits
    <3>3. c \o t \in Text /\ (b \o c) \o t = b \o (c \o t)
        BY TextConcat, TextAssoc
    <3>4. FirstEnd(c \o t) # 0
      <4>1. FirstEnd(c) \in 1 .. Len(c) /\ IsEnd(c[FirstEnd(c)]) /\ Len(c) \in Nat /\ Len(t) \in Nat
        BY <2>1, FirstEndFacts DEF Text
      <4>2. Len(c \o t) = Len(c) + Len(t) /\ (c \o t)[FirstEnd(c)] = c[FirstEnd(c)]
        BY <4>1, TextConcat
      <4>3. ~EndFree(c \o t)
        BY <4>1, <4>2 DEF EndFree
      <4> QED BY <3>3, <4>3, FirstEndFacts
    <3>5. ReadLines[b \o (c \o t)] = <<b \o Head(ReadLines[c \o t])>> \o Tail(ReadLines[c \o t])
      <4> DEFINE v == c \o t
      <4>1. v \in Text /\ FirstEnd(v) # 0
        BY <3>3, <3>4
      <4> HIDE DEF v
      <4>2. ReadLines[b \o v] = <<b \o Head(ReadLines[v])>> \o Tail(ReadLines[v])
        BY <4>1, ReadLinesPrepend
      <4> QED BY <4>2 DEF v
    <3>6. Head(L \o R) = Head(L) /\ Tail(L \o R) = Tail(L) \o R
      <4> HIDE DEF L, R
      <4> QED BY <2>2, <3>1
    <3>7. <<b \o Head(L)>> \o (Tail(L) \o R) = N \o R
      <4> DEFINE h == <<b \o Head(L)>>
      <4>1. h \in Seq(Text)
        <5> DEFINE k == b \o Head(L)
        <5>1. k \in Text
            BY <2>3
        <5> HIDE DEF k
        <5> QED BY <5>1 DEF k
      <4>2. N = h \o Tail(L)
        OBVIOUS
      <4> HIDE DEF h, N, L, R
      <4>3. h \o (Tail(L) \o R) = (h \o Tail(L)) \o R
        BY <2>3, <3>1, <4>1, LinesAssoc
      <4> QED BY <4>2, <4>3 DEF h
    <3> HIDE DEF N, L, R, scan
    <3> QED BY <3>2, <3>3, <3>5, <3>6, <3>7 DEF R
  <2>7. EndFree(scan.buf)
    BY <1>1 DEF Splits
  <2> HIDE DEF N, scan
  <2>8. After(b, scan) \in Scans
    BY <2>2, <2>4, <2>5 DEF Scans
  <2> QED BY <2>5, <2>6, <2>7, <2>8 DEF Splits, scan
<1> QED BY <1>2, <1>3

LEMMA PrefixOfConcat ==
    ASSUME NEW a \in Text, NEW b \in Text, NEW p \in Text
    PROVE  /\ Len(p) <= Len(a) => (IsPrefix(p, a \o b) <=> IsPrefix(p, a))
           /\ Len(a) <= Len(p) /\ IsPrefix(p, a \o b) => IsPrefix(a, p)
<1> DEFINE w == a \o b
<1>1. /\ w \in Text /\ Len(w) = Len(a) + Len(b)
      /\ \A j \in 1 .. Len(a) : w[j] = a[j]
    BY TextConcat
<1>2. Len(a) \in Nat /\ Len(b) \in Nat /\ Len(p) \in Nat
    BY DEF Text
<1> HIDE DEF w
<1>3. ASSUME NEW k \in Nat, NEW s \in Text, NEW t \in Text, k <= Len(s), k <= Len(t)
      PROVE  SubSeq(s, 1, k) = SubSeq(t, 1, k) <=> \A j \in 1 .. k : s[j] = t[j]
  <2> DEFINE u == SubSeq(s, 1, k)
             v == SubSeq(t, 1, k)
  <2>1. /\ u \in Text /\ Len(u) = k /\ \A j \in 1 .. k : u[j] = s[j]
        /\ v \in Text /\ Len(v) = k /\ \A j \in 1 .. k : v[j] = t[j]
    BY <1>3 DEF Text
  <2> HIDE DEF u, v
  <2>2. ASSUME \A j \in 1 .. k : s[j] = t[j] PROVE u = v
    BY <2>1, <2>2, TextEqual
  <2>3. ASSUME u = v PROVE \A j \in 1 .. k : s[j] = t[j]
    BY <2>1, <2>3
  <2>4. u = v <=> \A j \in 1 .. k : s[j] = t[j]
    BY <2>2, <2>3
  <2> QED BY <2>4 DEF u, v
<1>4. ASSUME NEW s \in Text, NEW t \in Text
      PROVE  IsPrefix(s, t) <=> Len(s) <= Len(t) /\ \A j \in 1 .. Len(s) : s[j] = t[j]
  <2>1. Len(s) \in Nat /\ Len(t) \in Nat
    BY DEF Text
  <2>2. Len(s) <= Len(t) => (SubSeq(s, 1, Len(s)) = SubSeq(t, 1, Len(s)) <=> \A j \in 1 .. Len(s) : s[j] = t[j])
    BY <1>3, <2>1
  <2> QED BY <2>2 DEF IsPrefix
<1>5. IsPrefix(p, w) <=> Len(p) <= Len(w) /\ \A j \in 1 .. Len(p) : p[j] = w[j]
    BY <1>1, <1>4
<1>6. IsPrefix(p, a) <=> Len(p) <= Len(a) /\ \A j \in 1 .. Len(p) : p[j] = a[j]
    BY <1>4
<1>7. IsPrefix(a, p) <=> Len(a) <= Len(p) /\ \A j \in 1 .. Len(a) : a[j] = p[j]
    BY <1>4
<1>8. Len(p) <= Len(a) => (IsPrefix(p, w) <=> IsPrefix(p, a))
    BY <1>1, <1>2, <1>5, <1>6
<1>9. Len(a) <= Len(p) /\ IsPrefix(p, w) => IsPrefix(a, p)
    BY <1>1, <1>2, <1>5, <1>7
<1> QED BY <1>8, <1>9 DEF w

(* Once it is clear whether a text starts with a byte order mark, what comes *)
(* after it does not matter.                                                 *)
LEMMA StripBomConcat ==
    ASSUME NEW a \in Text, NEW b \in Text, ~(Len(a) < Len(Bom) /\ IsPrefix(a, Bom))
    PROVE  StripBom(a) \in Text /\ StripBom(a \o b) = StripBom(a) \o b
<1>1. Bom \in Text /\ Len(Bom) = 3 /\ Len(a) \in Nat /\ Len(b) \in Nat
    BY DEF Bom, Text, Bytes
<1>2. CASE Len(a) >= 3 /\ IsPrefix(Bom, a)
  <2>1. IsPrefix(Bom, a \o b)
    BY <1>1, <1>2, PrefixOfConcat
  <2>2. From(a \o b, 4) = From(a, 4) \o b /\ From(a, 4) \in Text
    BY <1>1, <1>2 DEF From, Text
  <2> QED BY <1>2, <2>1, <2>2 DEF StripBom
<1>3. CASE ~IsPrefix(Bom, a)
  <2>1. ~IsPrefix(Bom, a \o b)
    <3>1. CASE Len(Bom) <= Len(a)
        BY <1>1, <1>3, <3>1, PrefixOfConcat
    <3>2. CASE Len(a) < Len(Bom)
      <4>1. ~IsPrefix(a, Bom) /\ Len(a) <= Len(Bom)
        BY <1>1, <3>2
      <4> QED BY <1>1, <4>1, PrefixOfConcat
    <3> QED BY <1>1, <3>1, <3>2
  <2> QED BY <1>3, <2>1 DEF StripBom
<1>4. IsPrefix(Bom, a) => Len(a) >= 3
    BY <1>1 DEF IsPrefix
<1> QED BY <1>2, <1>3, <1>4

LEMMA FirstLineConcat ==
    \A a \in Text : \A b \in Text :
        FirstLine[a \o b] = IF Contains(a, "lf") THEN FirstLine[a] ELSE FirstLine[a] \o FirstLine[b]
<1> DEFINE rank == [s \in Text |-> Len(s)]
           Holds(a, b) == FirstLine[a \o b] = IF Contains(a, "lf") THEN FirstLine[a]
                                              ELSE FirstLine[a] \o FirstLine[b]
           G == {a \in Text : \A b \in Text : Holds(a, b)}
<1>1. rank \in [Text -> Nat]
    BY DEF Text
<1>2. ASSUME NEW a \in Text, \A s \in Text : rank[s] < rank[a] => s \in G
      PROVE  a \in G
  <2> SUFFICES ASSUME NEW b \in Text PROVE Holds(a, b)
    OBVIOUS
  <2>1. CASE a = <<>>
    <3>1. a \o b = b /\ ~Contains(a, "lf")
        BY <2>1, TextEmpty DEF Contains
    <3>2. FirstLine[a] = <<>> /\ FirstLine[b] \in Text
        BY <2>1, FirstLineRule
    <3>3. <<>> \o FirstLine[b] = FirstLine[b]
        BY <3>2, TextEmpty
    <3> QED BY <3>1, <3>2, <3>3
  <2>2. CASE a # <<>>
    <3>1. Len(a) \in Nat \ {0} /\ a \o b \in Text /\ a \o b # <<>> /\ (a \o b)[1] = a[1]
          /\ Tail(a) \in Text /\ Tail(a \o b) = Tail(a) \o b /\ Len(Tail(a)) < Len(a) /\ a[1] \in Bytes
        BY <2>2 DEF Text
    <3>2. CASE a[1] = "lf"
      <4>1. Contains(a, "lf")
        BY <3>1, <3>2 DEF Contains
      <4>2. FirstLine[a \o b] = <<>> /\ FirstLine[a] = <<>>
        <5> DEFINE w == a \o b
        <5>1. w \in Text /\ w[1] = "lf"
            BY <3>1, <3>2
        <5> HIDE DEF w
        <5>2. FirstLine[w] = <<>> /\ FirstLine[a] = <<>>
            BY <3>2, <5>1, FirstLineRule
        <5> QED BY <5>2 DEF w
      <4> QED BY <4>1, <4>2
    <3>3. CASE a[1] # "lf"
      <4> DEFINE own == IF a[1] = "cr" THEN <<>> ELSE <<a[1]>>
                 w == a \o b
                 r == Tail(a)
      <4>1. own \in Text
        BY <3>1 DEF Text
      <4>2. w \in Text /\ w # <<>> /\ w[1] = a[1] /\ Tail(w) = r \o b /\ r \in Text
        BY <3>1
      <4>a. r \in G
        <5> HIDE DEF G
        <5> QED BY <1>2, <3>1
      <4>3. Holds(r, b)
        BY <4>a
      <4>4. Contains(a, "lf") <=> Contains(r, "lf")
        <5>1. ASSUME NEW i \in 1 .. Len(a), a[i] = "lf" PROVE \E k \in 1 .. Len(r) : r[k] = "lf"
          <6>1. i - 1 \in 1 .. Len(r) /\ r[i - 1] = a[i]
            BY <3>1, <3>3, <5>1 DEF Text
          <6> QED BY <5>1, <6>1
        <5>2. ASSUME NEW k \in 1 .. Len(r), r[k] = "lf" PROVE \E i \in 1 .. Len(a) : a[i] = "lf"
          <6>1. k + 1 \in 1 .. Len(a) /\ a[k + 1] = r[k]
            BY <3>1, <5>2 DEF Text
          <6> QED BY <5>2, <6>1
        <5> QED BY <5>1, <5>2 DEF Contains
      <4>w. w = a \o b
        OBVIOUS
      <4> HIDE DEF own, w, r, G, rank
      <4>5. FirstLine[w] = own \o FirstLine[r \o b]
        BY <3>3, <4>2, FirstLineRule DEF own
      <4>6. FirstLine[a] = own \o FirstLine[r]
        BY <2>2, <3>3, FirstLineRule DEF own, r
      <4>7. FirstLine[r] \in Text /\ FirstLine[b] \in Text
        BY <4>2, FirstLineRule
      <4>8. own \o (FirstLine[r] \o FirstLine[b]) = (own \o FirstLine[r]) \o FirstLine[b]
        BY <4>1, <4>7, TextAssoc
      <4>9. CASE Contains(r, "lf")
        BY <4>3, <4>4, <4>5, <4>6, <4>9, <4>w
      <4>10. CASE ~Contains(r, "lf")
        BY <4>3, <4>4, <4>5, <4>6, <4>8, <4>10, <4>w
      <4> QED BY <4>9, <4>10
    <3> QED BY <3>2, <3>3
  <2> QED BY <2>1, <2>2
<1>3. Text \subseteq G
  <2> HIDE DEF G, rank
  <2> QED BY <1>1, <1>2, RankInduction
<1> QED BY <1>3

LEMMA UpToFacts ==
    ASSUME NEW s \in Text, NEW n \in Nat \ {0}
    PROVE  /\ UpTo(n, s) \in Text
           /\ Len(UpTo(n, s)) < n => UpTo(n, s) = s
           /\ ~(Len(UpTo(n, s)) < n) => \A t \in Text : UpTo(n, s \o t) = UpTo(n, s)
<1>0. Len(s) \in Nat
    BY DEF Text
<1>1. CASE Len(s) < n
    BY <1>0, <1>1 DEF UpTo
<1>2. CASE Len(s) >= n
  <2>1. UpTo(n, s) = SubSeq(s, 1, n)
    <3>1. Len(s) = n => s = SubSeq(s, 1, n)
      BY <1>2 DEF Text
    <3> QED BY <1>0, <1>2, <3>1 DEF UpTo
  <2>2. SubSeq(s, 1, n) \in Text /\ Len(SubSeq(s, 1, n)) = n
    BY <1>2 DEF Text
  <2>3. ASSUME NEW t \in Text PROVE UpTo(n, s \o t) = SubSeq(s, 1, n)
    <3>1. SubSeq(s \o t, 1, n) = SubSeq(s, 1, n)
      BY <1>0, <1>2 DEF Text
    <3>2. Len(s \o t) = Len(s) + Len(t) /\ Len(t) \in Nat
      BY TextConcat DEF Text
    <3>3. CASE Len(t) = 0
      <4>1. s \o t = s
        BY <3>3, TextEmpty DEF Text
      <4> QED BY <2>1, <4>1
    <3>4. CASE Len(t) > 0
      <4>1. Len(s \o t) > n
        BY <1>0, <1>2, <3>2, <3>4
      <4> QED BY <3>1, <4>1 DEF UpTo
    <3> QED BY <3>2, <3>3, <3>4
  <2>4. n \in Nat /\ ~(n < n)
    OBVIOUS
  <2> QED BY <2>1, <2>2, <2>3, <2>4
<1> QED BY <1>0, <1>1, <1>2

-----------------------------------------------------------------------------
(* However a text is cut, the lines the splitter has given are the first of  *)
(* the whole, and the others are those of what it keeps and what is to come; *)
(* the line of the pipe is what it has and the first line of what is to come.*)

LinesTypes ==
    /\ whole \in Text /\ text \in Text
    /\ splitter \in [buf : Text, started : BOOLEAN, skipLf : BOOLEAN]
    /\ lines \in Seq(Text)
    /\ frame \in [out : Text, open : BOOLEAN]
    /\ ended \in BOOLEAN

All == ReadLines[StripBom(whole)]

LinesSoFar ==
    /\ ended => text = <<>> /\ lines = All
    /\ ~ended /\ splitter.started =>
          /\ EndFree(splitter.buf)
          /\ All = lines \o ReadLines[splitter.buf \o AfterCr(splitter.skipLf, text)]
    /\ ~ended /\ ~splitter.started => lines = <<>> /\ whole = splitter.buf \o text

FrameSoFar ==
    /\ frame.open => Len(frame.out) < MaxFrame /\ FirstLine[whole] = frame.out \o FirstLine[text]
    /\ ~frame.open => frame.out = UpTo(MaxFrame, FirstLine[whole])

LinesInv == LinesTypes /\ LinesSoFar /\ FrameSoFar

LEMMA StripBomType == ASSUME NEW s \in Text PROVE StripBom(s) \in Text
<1>1. IsPrefix(Bom, s) => Len(s) >= 3
    BY DEF IsPrefix, Bom
<1>2. Len(s) >= 3 => From(s, 4) \in Text
    BY DEF From, Text
<1> QED BY <1>1, <1>2 DEF StripBom

LEMMA LinesInvInit == ASSUME NEW all \in Text, Reads(all) PROVE LinesInv
<1>1. <<>> \in Text /\ <<>> \o all = all
    BY TextEmpty
<1>2. LinesTypes
  <2>1. /\ splitter.buf = <<>> /\ splitter.started = FALSE
        /\ splitter \in [buf : Text, started : BOOLEAN, skipLf : BOOLEAN]
    BY <1>1 DEF Reads, NewSplitter
  <2>2. lines \in Seq(Text)
    <3>1. lines = <<>>
      BY DEF Reads
    <3> QED BY <3>1
  <2>4. ended \in BOOLEAN /\ whole \in Text /\ text \in Text
    BY DEF Reads
  <2>3. frame \in [out : Text, open : BOOLEAN]
    BY <1>1 DEF Reads
  <2> QED BY <2>1, <2>2, <2>3, <2>4 DEF LinesTypes
<1>3. LinesSoFar
    BY <1>1 DEF Reads, NewSplitter, LinesSoFar
<1>4. FirstLine[all] \in Text
    BY FirstLineRule
<1>5. <<>> \o FirstLine[all] = FirstLine[all]
    BY <1>4, TextEmpty
<1>6. FrameSoFar
  <2>1. frame.open = TRUE /\ frame.out = <<>> /\ whole = all /\ text = all
    BY DEF Reads
  <2>2. Len(<<>>) = 0 /\ 0 < MaxFrame
    BY LinesAssumption
  <2> QED BY <1>5, <2>1, <2>2 DEF FrameSoFar
<1> QED BY <1>2, <1>3, <1>6 DEF LinesInv

(* A chunk and what is left. *)
LEMMA ChunkFacts ==
    ASSUME NEW t \in Text, NEW n \in 1 .. Len(t)
    PROVE  /\ SubSeq(t, 1, n) \in Text /\ SubSeq(t, 1, n) # <<>> /\ From(t, n + 1) \in Text
           /\ t = SubSeq(t, 1, n) \o From(t, n + 1)
<1> DEFINE a == SubSeq(t, 1, n)
           b == From(t, n + 1)
           w == a \o b
<1>1. Len(t) \in Nat /\ n + 1 \in 1 .. Len(t) + 1
    BY DEF Text
<1>2. a \in Text /\ Len(a) = n /\ \A j \in 1 .. n : a[j] = t[j]
    BY <1>1 DEF Text
<1>3. /\ b \in Text /\ Len(b) = Len(t) - (n + 1) + 1
      /\ \A j \in 1 .. Len(t) - (n + 1) + 1 : b[j] = t[n + 1 + j - 1]
    BY <1>1, FromFacts
<1>4. a # <<>>
    BY <1>2
<1> HIDE DEF a, b
<1>5. /\ w \in Text /\ Len(w) = n + Len(b)
      /\ \A j \in 1 .. n : w[j] = a[j]
      /\ \A j \in 1 .. Len(b) : w[n + j] = b[j]
    BY <1>2, <1>3, TextConcat
<1> HIDE DEF w
<1>6. Len(w) = Len(t)
    BY <1>1, <1>3, <1>5
<1>7. ASSUME NEW j \in 1 .. Len(t) PROVE w[j] = t[j]
  <2>1. CASE j <= n
    BY <1>2, <1>5, <2>1
  <2>2. CASE j > n
    <3>1. j - n \in 1 .. Len(b) /\ n + (j - n) = j /\ n + 1 + (j - n) - 1 = j
      BY <1>1, <1>3, <2>2
    <3>2. w[n + (j - n)] = b[j - n]
      BY <1>5, <3>1
    <3>3. b[j - n] = t[n + 1 + (j - n) - 1]
      BY <1>3, <3>1
    <3> QED BY <3>1, <3>2, <3>3
  <2>3. j <= n \/ j > n
    BY <1>1
  <2> QED BY <2>1, <2>2, <2>3
<1>8. t = w
    BY <1>5, <1>6, <1>7, TextEqual
<1> QED BY <1>2, <1>3, <1>4, <1>8 DEF w, a, b

(* What a scan leaves is as it should be. *)
LEMMA ScannedKeeps ==
    ASSUME LinesTypes, NEW c \in Text, NEW scan, Splits(c, scan), Scanned(scan), ~ended,
           UNCHANGED <<whole, ended>>, text' \in Text,
           All = lines \o ReadLines[c \o text']
    PROVE  /\ splitter' \in [buf : Text, started : BOOLEAN, skipLf : BOOLEAN]
           /\ lines' \in Seq(Text)
           /\ LinesSoFar'
<1> DEFINE R == ReadLines[scan.buf \o AfterCr(scan.skipLf, text')]
           L == scan.lines
<1>1. L \in Seq(Text) /\ scan.buf \in Text /\ scan.skipLf \in BOOLEAN /\ EndFree(scan.buf)
    BY DEF Splits, Scans
<1>2. R \in Seq(Text)
  <2>1. scan.buf \o AfterCr(scan.skipLf, text') \in Text
    BY <1>1, AfterCrFacts, TextConcat
  <2> QED BY <2>1, ReadLinesRule
<1>3. All = lines \o (L \o R)
    BY DEF Splits
<1> HIDE DEF R, L
<1>4. lines \o (L \o R) = (lines \o L) \o R /\ lines \o L \in Seq(Text)
    BY <1>1, <1>2, LinesAssoc DEF LinesTypes
<1>5. lines' = lines \o L
    BY DEF Scanned, L
<1>6. splitter' = [buf |-> scan.buf, started |-> TRUE, skipLf |-> scan.skipLf]
    BY DEF Scanned
<1>7. All' = All
    BY DEF All
<1>8. splitter'.started /\ splitter'.buf = scan.buf /\ splitter'.skipLf = scan.skipLf
    BY <1>6
<1>9. All' = lines' \o ReadLines[splitter'.buf \o AfterCr(splitter'.skipLf, text')]
    BY <1>3, <1>4, <1>5, <1>7, <1>8 DEF R
<1>10. LinesSoFar'
    BY <1>1, <1>8, <1>9 DEF LinesSoFar
<1> QED BY <1>1, <1>4, <1>5, <1>6, <1>10

LEMMA PushKeeps ==
    ASSUME LinesInv, NEW chunk \in Text, chunk # <<>>, Push(chunk), UNCHANGED <<whole, ended>>,
           text' \in Text, text = chunk \o text'
    PROVE  /\ splitter' \in [buf : Text, started : BOOLEAN, skipLf : BOOLEAN]
           /\ lines' \in Seq(Text)
           /\ LinesSoFar'
<1> DEFINE b == splitter.buf
<1>1. b \in Text /\ LinesTypes /\ LinesSoFar
    BY DEF LinesInv, LinesTypes
<1>2. ~ended
  <2>1. text # <<>>
    BY DEF Text
  <2> QED BY <1>1, <2>1 DEF LinesSoFar
<1>3. CASE splitter.started
  <2> DEFINE c == AfterCr(splitter.skipLf, chunk)
  <2>1. c \in Text /\ EndFree(b)
    BY <1>1, <1>2, <1>3, AfterCrFacts DEF LinesSoFar
  <2>2. AfterCr(splitter.skipLf, text) = c \o text'
    BY AfterCrConcat
  <2> HIDE DEF c
  <2>3. b \o (c \o text') = (b \o c) \o text'
    BY <1>1, <2>1, TextAssoc
  <2>4. All = lines \o ReadLines[(b \o c) \o text']
    BY <1>1, <1>2, <1>3, <2>2, <2>3 DEF LinesSoFar
  <2>5. Scanned(After(b, Scan[c]))
    BY <1>3 DEF Push, c
  <2>6. Splits(b \o c, After(b, Scan[c])) /\ b \o c \in Text
    BY <1>1, <2>1, AfterSplits, TextConcat
  <2> DEFINE d == b \o c
             scan == After(b, Scan[c])
  <2>7. d \in Text /\ Splits(d, scan) /\ Scanned(scan) /\ All = lines \o ReadLines[d \o text']
    BY <2>4, <2>5, <2>6
  <2> HIDE DEF d, scan, b
  <2> QED BY <1>1, <1>2, <2>7, ScannedKeeps
<1>4. CASE ~splitter.started
  <2> DEFINE head == b \o chunk
  <2>1. PushHead(chunk) /\ lines = <<>> /\ whole = b \o text
    BY <1>1, <1>2, <1>4 DEF Push, LinesSoFar
  <2>2. head \in Text /\ b \o (chunk \o text') = head \o text'
    BY <1>1, TextConcat, TextAssoc
  <2>3. whole = head \o text'
    BY <2>1, <2>2
  <2>4. CASE Len(head) < Len(Bom) /\ IsPrefix(head, Bom)
    <3>1. splitter' = [splitter EXCEPT !.buf = head] /\ lines' = lines
      BY <2>1, <2>4 DEF PushHead
    <3> HIDE DEF head, b
    <3>2. splitter' \in [buf : Text, started : BOOLEAN, skipLf : BOOLEAN]
          /\ splitter'.buf = head /\ splitter'.started = FALSE
      BY <1>1, <1>4, <2>2, <3>1 DEF LinesTypes
    <3>3. LinesSoFar'
      BY <1>2, <2>1, <2>3, <3>1, <3>2 DEF LinesSoFar
    <3> QED BY <1>1, <3>1, <3>2, <3>3 DEF LinesTypes
  <2>5. CASE ~(Len(head) < Len(Bom) /\ IsPrefix(head, Bom))
    <3> DEFINE c == StripBom(head)
    <3>1. Scanned(Scan[c])
      BY <2>1, <2>5 DEF PushHead
    <3> HIDE DEF head, b
    <3>2. c \in Text /\ StripBom(head \o text') = c \o text'
      BY <2>2, <2>5, StripBomConcat
    <3>3. Splits(c, Scan[c]) /\ c \o text' \in Text
      BY <3>2, ScanSplits, TextConcat
    <3>4. All = ReadLines[c \o text']
      BY <2>3, <3>2 DEF All
    <3>5. ReadLines[c \o text'] \in Seq(Text)
      BY <3>3, ReadLinesRule
    <3>6. All = lines \o ReadLines[c \o text']
      BY <2>1, <3>4, <3>5, LinesAssoc
    <3> HIDE DEF c
    <3> QED BY <1>1, <1>2, <3>1, <3>2, <3>3, <3>6, ScannedKeeps
  <2> QED BY <2>4, <2>5
<1> QED BY <1>3, <1>4

LEMMA FrameKeeps ==
    ASSUME LinesInv, NEW chunk \in Text, ReadsFrame(chunk), UNCHANGED whole,
           text' \in Text, text = chunk \o text'
    PROVE  frame' \in [out : Text, open : BOOLEAN] /\ FrameSoFar'
<1>1. frame \in [out : Text, open : BOOLEAN] /\ FrameSoFar /\ whole \in Text
    BY DEF LinesInv, LinesTypes
<1>2. CASE ~frame.open
  <2>1. frame' = frame
    BY <1>2 DEF ReadsFrame
  <2> QED BY <1>1, <1>2, <2>1 DEF FrameSoFar
<1>3. CASE frame.open
  <2> DEFINE f == FirstLine[chunk]
             g == FirstLine[text']
             o == frame.out \o f
             out == UpTo(MaxFrame, o)
             lf == Contains(chunk, "lf")
  <2>1. f \in Text /\ g \in Text /\ frame.out \in Text
    BY <1>1, FirstLineRule
  <2>2. FirstLine[text] = IF lf THEN f ELSE f \o g
    BY FirstLineConcat
  <2>3. FirstLine[whole] = frame.out \o FirstLine[text] /\ Len(frame.out) < MaxFrame
    BY <1>1, <1>3 DEF FrameSoFar
  <2>4. frame' = [out |-> out, open |-> Len(out) < MaxFrame /\ ~lf]
    BY <1>3 DEF ReadsFrame
  <2> HIDE DEF f, g
  <2>5. o \in Text /\ frame.out \o (f \o g) = o \o g
    <3> DEFINE k == frame.out
    <3>1. k \in Text /\ f \in Text /\ g \in Text
      BY <2>1
    <3> HIDE DEF k, o
    <3>2. k \o f \in Text
      BY <3>1, TextConcat
    <3>3. k \o (f \o g) = (k \o f) \o g
      BY <3>1, TextAssoc, Zenon
    <3> QED BY <3>2, <3>3 DEF k, o
  <2> HIDE DEF o
  <2>6. FirstLine[whole] = IF lf THEN o ELSE o \o g
    BY <2>2, <2>3, <2>5 DEF o
  <2>7. /\ out \in Text
        /\ Len(out) < MaxFrame => out = o
        /\ ~(Len(out) < MaxFrame) => \A t \in Text : UpTo(MaxFrame, o \o t) = out
    BY <2>5, LinesAssumption, UpToFacts
  <2>o. out = UpTo(MaxFrame, o)
    OBVIOUS
  <2> HIDE DEF out, lf
  <2>8. frame'.out = out /\ frame'.open = (Len(out) < MaxFrame /\ ~lf) /\ frame' \in [out : Text, open : BOOLEAN]
    BY <2>4, <2>7
  <2>9. CASE frame'.open
    <3>1. Len(frame'.out) < MaxFrame /\ FirstLine[whole] = frame'.out \o g
      BY <2>6, <2>7, <2>8, <2>9
    <3> QED BY <2>8, <2>9, <3>1 DEF FrameSoFar, g
  <2>10. CASE ~frame'.open
    <3>1. UpTo(MaxFrame, FirstLine[whole]) = out
      <4>1. CASE lf
        BY <2>6, <2>o, <4>1
      <4>2. CASE ~lf
        BY <2>1, <2>6, <2>7, <2>8, <2>10, <4>2
      <4> QED BY <4>1, <4>2
    <3> QED BY <2>8, <2>10, <3>1 DEF FrameSoFar
  <2> QED BY <2>9, <2>10
<1> QED BY <1>2, <1>3

LEMMA ReadsChunkKeeps == LinesInv /\ ReadsChunk => LinesInv'
<1> SUFFICES ASSUME LinesInv, ReadsChunk PROVE LinesInv'
    OBVIOUS
<1>1. PICK n \in 1 .. Len(text) :
        /\ text' = From(text, n + 1)
        /\ Push(SubSeq(text, 1, n))
        /\ ReadsFrame(SubSeq(text, 1, n))
        /\ UNCHANGED <<whole, ended>>
    BY DEF ReadsChunk
<1> DEFINE chunk == SubSeq(text, 1, n)
<1>2. chunk \in Text /\ chunk # <<>> /\ text' \in Text /\ text = chunk \o text'
    BY <1>1, ChunkFacts DEF LinesInv, LinesTypes
<1>3. Push(chunk) /\ ReadsFrame(chunk)
    BY <1>1
<1> HIDE DEF chunk
<1>4. splitter' \in [buf : Text, started : BOOLEAN, skipLf : BOOLEAN] /\ lines' \in Seq(Text) /\ LinesSoFar'
    BY <1>1, <1>2, <1>3, PushKeeps
<1>5. frame' \in [out : Text, open : BOOLEAN] /\ FrameSoFar'
    BY <1>1, <1>2, <1>3, FrameKeeps
<1>6. LinesTypes'
    BY <1>1, <1>2, <1>4, <1>5 DEF LinesInv, LinesTypes
<1> QED BY <1>4, <1>5, <1>6 DEF LinesInv

LEMMA FinishesTextKeeps == LinesInv /\ FinishesText => LinesInv'
<1> SUFFICES ASSUME LinesInv, FinishesText PROVE LinesInv'
    OBVIOUS
<1> DEFINE last == IF splitter.started
                   THEN [lines |-> <<>>, buf |-> splitter.buf]
                   ELSE Scan[StripBom(splitter.buf)]
           end == IF last.buf = <<>> THEN <<>> ELSE <<last.buf>>
           b == splitter.buf
<1>1. /\ text = <<>> /\ ~ended /\ ended' = TRUE
      /\ lines' = lines \o last.lines \o end
      /\ frame' = [frame EXCEPT !.open = FALSE]
      /\ UNCHANGED <<text, whole, splitter>>
    BY DEF FinishesText
<1>2. LinesTypes /\ LinesSoFar /\ FrameSoFar /\ b \in Text
    BY DEF LinesInv, LinesTypes
<1>3. ReadLines[last.buf] = end /\ last.lines \in Seq(Text) /\ end \in Seq(Text)
      /\ All = (lines \o last.lines) \o end
  <2>1. CASE splitter.started
    <3>1. last.lines = <<>> /\ last.buf = b /\ EndFree(b)
      BY <1>1, <1>2, <2>1 DEF LinesSoFar
    <3>2. AfterCr(splitter.skipLf, text) = <<>> /\ b \o <<>> = b
      BY <1>1, <1>2, AfterCrConcat, TextEmpty
    <3>3. All = lines \o ReadLines[b]
      BY <1>1, <1>2, <2>1, <3>2 DEF LinesSoFar
    <3>4. ReadLines[b] = end /\ ReadLines[b] \in Seq(Text)
      BY <1>2, <3>1, ReadLinesOne, ReadLinesRule
    <3>5. lines \o <<>> = lines
      BY <1>2, LinesAssoc DEF LinesTypes
    <3>6. <<>> \in Seq(Text)
      OBVIOUS
    <3> HIDE DEF last, end
    <3> QED BY <3>1, <3>3, <3>4, <3>5, <3>6
  <2>2. CASE ~splitter.started
    <3> DEFINE c == StripBom(b)
    <3>1. c \in Text /\ last = Scan[c]
      BY <1>2, <2>2, StripBomType
    <3>2. Splits(c, last)
      BY <3>1, ScanSplits
    <3>e. end = IF last.buf = <<>> THEN <<>> ELSE <<last.buf>>
      OBVIOUS
    <3>3. whole = b /\ lines = <<>>
      <4>1. b \o <<>> = b
        BY <1>2, TextEmpty
      <4> QED BY <1>1, <1>2, <2>2, <4>1 DEF LinesSoFar
    <3>4. All = ReadLines[c]
      BY <3>3 DEF All
    <3> HIDE DEF c, last, end, b
    <3>5. last.lines \in Seq(Text) /\ last.buf \in Text /\ EndFree(last.buf) /\ last.skipLf \in BOOLEAN
      BY <3>2 DEF Splits, Scans
    <3>6. ReadLines[c \o <<>>] = last.lines \o ReadLines[last.buf \o AfterCr(last.skipLf, <<>>)]
      <4>1. <<>> \in Text
        BY DEF Text
      <4> QED BY <3>2, <4>1 DEF Splits
    <3>7. c \o <<>> = c /\ AfterCr(last.skipLf, <<>>) = <<>> /\ last.buf \o <<>> = last.buf
      BY <3>1, <3>5, AfterCrConcat, TextEmpty
    <3>8. ReadLines[last.buf] = end
      BY <3>5, <3>e, ReadLinesOne
    <3>9. end \in Seq(Text)
      BY <3>5, <3>8, ReadLinesRule
    <3>10. lines \o last.lines = last.lines
      BY <3>3, <3>5, LinesAssoc
    <3> QED BY <3>4, <3>5, <3>6, <3>7, <3>8, <3>9, <3>10
  <2> QED BY <2>1, <2>2
<1>l. lines' = (lines \o last.lines) \o end
    BY <1>1
<1> HIDE DEF last, end, b
<1>4. lines' \in Seq(Text) /\ lines' = All'
  <2>1. lines \o last.lines \in Seq(Text)
    BY <1>2, <1>3, LinesAssoc DEF LinesTypes
  <2> DEFINE m == lines \o last.lines
  <2>2. m \in Seq(Text) /\ lines' = m \o end /\ All = m \o end
    BY <1>3, <1>l, <2>1
  <2> HIDE DEF m
  <2>3. m \o end \in Seq(Text)
    BY <1>3, <2>2, LinesAssoc
  <2> QED BY <1>1, <2>2, <2>3 DEF All
<1>5. LinesSoFar'
    BY <1>1, <1>4 DEF LinesSoFar
<1>6. frame' \in [out : Text, open : BOOLEAN] /\ frame'.out = frame.out /\ frame'.open = FALSE
    BY <1>1, <1>2 DEF LinesTypes
<1>7. frame.out = UpTo(MaxFrame, FirstLine[whole])
  <2>1. CASE frame.open
    <3>1. FirstLine[text] = <<>>
      <4>1. <<>> \in Text
        BY DEF Text
      <4> QED BY <1>1, <4>1, FirstLineRule
    <3>2. frame.out \in Text
      BY <1>2 DEF LinesTypes
    <3>3. FirstLine[whole] = frame.out /\ Len(frame.out) < MaxFrame
      BY <1>2, <2>1, <3>1, <3>2, TextEmpty DEF FrameSoFar
    <3>4. Len(frame.out) \in Nat
      BY <3>2 DEF Text
    <3> QED BY <3>3, <3>4, LinesAssumption DEF UpTo
  <2>2. CASE ~frame.open
    BY <1>2, <2>2 DEF FrameSoFar
  <2> QED BY <2>1, <2>2
<1>8. FrameSoFar'
    BY <1>1, <1>6, <1>7 DEF FrameSoFar
<1>9. LinesTypes'
    BY <1>1, <1>2, <1>4, <1>6 DEF LinesTypes
<1> QED BY <1>5, <1>8, <1>9 DEF LinesInv

LEMMA LinesInvSplits == LinesInv => SplitsTheSame
<1> SUFFICES ASSUME LinesInv PROVE SplitsTheSame
    OBVIOUS
<1>1. LinesTypes /\ LinesSoFar /\ FrameSoFar
    BY DEF LinesInv
<1>2. ~frame.open => frame.out = UpTo(MaxFrame, FirstLine[whole])
    BY <1>1 DEF FrameSoFar
<1>3. CASE ended
    BY <1>1, <1>2, <1>3 DEF SplitsTheSame, LinesSoFar, All
<1>4. CASE ~ended
  <2>1. All \in Seq(Text)
    BY <1>1, StripBomType, ReadLinesRule DEF LinesTypes, All
  <2>2. ASSUME NEW R \in Seq(Text), All = lines \o R PROVE IsPrefix(lines, All)
    BY <1>1, <2>2 DEF LinesTypes, IsPrefix
  <2>3. CASE splitter.started
    <3> DEFINE r == splitter.buf \o AfterCr(splitter.skipLf, text)
    <3>1. r \in Text
      BY <1>1, AfterCrFacts, TextConcat DEF LinesTypes
    <3>2. All = lines \o ReadLines[r]
      BY <1>1, <1>4, <2>3 DEF LinesSoFar
    <3> HIDE DEF r
    <3>3. ReadLines[r] \in Seq(Text)
      BY <3>1, ReadLinesRule
    <3> QED BY <1>2, <1>4, <2>2, <3>2, <3>3 DEF SplitsTheSame, All
  <2>4. CASE ~splitter.started
    <3>1. lines = <<>>
      BY <1>1, <1>4, <2>4 DEF LinesSoFar
    <3>2. All = lines \o All
      BY <2>1, <3>1, LinesAssoc
    <3> QED BY <1>2, <1>4, <2>1, <2>2, <3>2 DEF SplitsTheSame, All
  <2> QED BY <2>3, <2>4
<1> QED BY <1>3, <1>4

THEOREM InitLinesInv == RelayInit => LinesInv
<1> SUFFICES ASSUME RelayInit PROVE LinesInv
    OBVIOUS
<1>1. Reads(<<>>) \/ \E all \in Texts : Reads(all)
    BY DEF RelayInit
<1>2. Texts \subseteq Text /\ <<>> \in Text
    BY LinesAssumption DEF Texts, Text
<1> QED BY <1>1, <1>2, LinesInvInit

THEOREM NextLinesInv == LinesInv /\ [RelayNext]_<<vars, linesVars, part>> => LinesInv'
<1> SUFFICES ASSUME LinesInv, [RelayNext]_<<vars, linesVars, part>> PROVE LinesInv'
    OBVIOUS
<1>1. ASSUME UNCHANGED linesVars PROVE LinesInv'
    BY <1>1 DEF linesVars, LinesInv, LinesTypes, LinesSoFar, FrameSoFar, All
<1>2. ASSUME LinesNext PROVE LinesInv'
    BY <1>2, ReadsChunkKeeps, FinishesTextKeeps DEF LinesNext
<1> QED BY <1>1, <1>2 DEF RelayNext

(* LineSplitter, read_line: for texts of any length, however they are cut,   *)
(* the lines are those of the whole, as far as it is there, and what crosses *)
(* the pipe is the first line, as far as it fits.                            *)
THEOREM AlwaysSplitsTheSame == RelaySpec => []SplitsTheSame
BY InitLinesInv, NextLinesInv, LinesInvSplits, PTL DEF RelaySpec

=============================================================================
