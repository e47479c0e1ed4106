---------------------------- MODULE RelayServer ----------------------------
(***************************************************************************)
(* The local relay that passes a video from the server on to VRChat        *)
(* (relay/server in crates/vrcr-watchdog).  A connection is a task; a      *)
(* response with a body is written by a second task, its pump, through a   *)
(* channel of one chunk.  The pump, the connection, the client, the        *)
(* upstream and stop run side by side, and each may end first.  Contents,  *)
(* headers and the reasons for a refusal are abstracted, and a manifest is *)
(* not over its 64 MB, where the code cuts it on purpose.                  *)
(***************************************************************************)
EXTENDS Integers, FiniteSets

CONSTANTS
    Conns,          \* connections
    MaxInFlight,    \* MAX_IN_FLIGHT
    MaxChunks       \* bound: chunks of a body

ASSUME RelayAssumption == MaxInFlight \in Nat \ {0} /\ MaxChunks \in Nat \ {0}

VARIABLES
    server,     \* the token shutdown, the accept loop and stop
    conn,       \* the task of each connection and its response under way
    pump,       \* the task that feeds the body of that response
    inFlight,   \* Inner.in_flight
    late        \* pumps that have closed their body and not yet let go

vars == <<server, conn, pump, inFlight, late>>

Undeclared == 0
Blank == [phase |-> "none", declared |-> Undeclared, out |-> 0, taken |-> 0,
          whole |-> TRUE, abort |-> FALSE]

TypeOK ==
    /\ server \in {"up", "stopping", "draining", "stopped"}
    /\ conn \in [Conns -> [phase : {"none", "tls", "idle", "overfull", "handling",
                                    "answering", "gone"},
                           declared : 0 .. MaxChunks, out : 0 .. MaxChunks,
                           taken : 0 .. MaxChunks, whole : BOOLEAN, abort : BOOLEAN]]
    /\ pump \in [Conns -> {"none", "reading", "sending", "manifest", "writing",
                           "failing", "failed"}]
    /\ inFlight \in Nat
    /\ late \in Nat

Init ==
    /\ server = "up"
    /\ conn = [c \in Conns |-> Blank]
    /\ pump = [c \in Conns |-> "none"]
    /\ inFlight = 0
    /\ late = 0

Stopping == server # "up"
Aborted(c) == conn[c].abort \/ Stopping      \* a child of the token shutdown
Unread(c) == conn[c].phase = "gone"          \* the body was dropped with the connection

-----------------------------------------------------------------------------
(* accept_loop and serve_connection.  The select may take a connection after *)
(* the token is cancelled.  Over plain HTTP no handshake fails.              *)
Accept(c) ==
    /\ server \in {"up", "stopping"}
    /\ conn[c].phase = "none"
    /\ conn' = [conn EXCEPT ![c].phase = "tls"]
    /\ UNCHANGED <<server, pump, inFlight, late>>

AcceptLoopEnds ==
    /\ server = "stopping"
    /\ server' = "draining"
    /\ UNCHANGED <<conn, pump, inFlight, late>>

Handshake(c) ==
    /\ conn[c].phase = "tls"
    /\ \E ok \in BOOLEAN : conn' = [conn EXCEPT ![c].phase = IF ok THEN "idle" ELSE "gone"]
    /\ UNCHANGED <<server, pump, inFlight, late>>

(* A mistake the run relay must catch: a slot taken by hand, not by a guard. *)
DropKeepsSlot(c) ==
    /\ conn' = [conn EXCEPT ![c] = [Blank EXCEPT !.phase = "gone", !.abort = conn[c].abort]]
    /\ UNCHANGED <<server, pump, inFlight, late>>

(* drive: the connection is dropped, and with it the handler and its slot. *)
Drop(c) ==
    /\ conn' = [conn EXCEPT ![c] = [Blank EXCEPT !.phase = "gone", !.abort = conn[c].abort]]
    /\ inFlight' = IF conn[c].phase = "handling" THEN inFlight - 1 ELSE inFlight
    /\ UNCHANGED <<server, pump, late>>

Droppable(c) == conn[c].phase \in {"tls", "idle", "handling", "answering"}

(* A mistake the run relay must catch: a token that is no child of shutdown. *)
AbortOnFailure(c) == Droppable(c) /\ conn[c].abort /\ Drop(c)

AbortConnection(c) == Droppable(c) /\ Aborted(c) /\ Drop(c)
ClientLeaves(c) == Droppable(c) /\ Drop(c)

-----------------------------------------------------------------------------
(* handle counts a request before it looks at the limit. *)
Request(c) ==
    /\ conn[c].phase = "idle"
    /\ inFlight' = inFlight + 1
    /\ conn' = [conn EXCEPT ![c].phase =
                    IF inFlight >= MaxInFlight THEN "overfull" ELSE "handling"]
    /\ UNCHANGED <<server, pump, late>>

(* A response without a body, its slot given back. *)
Answer(c) ==
    /\ conn' = [conn EXCEPT ![c] = [Blank EXCEPT !.phase = "answering", !.abort = conn[c].abort]]
    /\ inFlight' = inFlight - 1

(* 503 over the limit; 4xx for what it does not serve; 504, 502 or 503 for an *)
(* upstream that is late or fails, or a shutdown; and an answer to HEAD.      *)
AnswerEmpty(c) ==
    /\ conn[c].phase \in {"overfull", "handling"}
    /\ Answer(c)
    /\ UNCHANGED <<server, pump, late>>

(* A mistake the run relay must catch: the slot stays with the handler. *)
RespondKeepsSlot(c) ==
    /\ conn[c].phase = "handling"
    /\ \E d \in 0 .. MaxChunks :
           conn' = [conn EXCEPT ![c] = [phase |-> "answering", declared |-> d, out |-> 0,
                                        taken |-> 0, whole |-> FALSE, abort |-> conn[c].abort]]
    /\ pump' = [pump EXCEPT ![c] = "reading"]
    /\ inFlight' = inFlight - 1
    /\ UNCHANGED <<server, late>>

(* respond_stream and respond_manifest: the slot goes to the pump. *)
Respond(c) ==
    /\ conn[c].phase = "handling"
    /\ \E kind \in {"reading", "manifest"}, d \in 0 .. MaxChunks :
           /\ kind = "manifest" => d = Undeclared
           /\ pump' = [pump EXCEPT ![c] = kind]
           /\ conn' = [conn EXCEPT ![c] = [phase |-> "answering", declared |-> d, out |-> 0,
                                           taken |-> 0, whole |-> FALSE,
                                           abort |-> conn[c].abort]]
    /\ UNCHANGED <<server, inFlight, late>>

-----------------------------------------------------------------------------
(* pump_body and pump_manifest.  The body is whole once the upstream has     *)
(* ended it or all that was declared is out.                                 *)
PumpDone(c) ==
    /\ pump' = [pump EXCEPT ![c] = "none"]
    /\ late' = late + 1

PumpGoes(c, to) == pump' = [pump EXCEPT ![c] = to] /\ UNCHANGED <<conn, late>>

Whole(c) == conn' = [conn EXCEPT ![c].whole = conn[c].phase = "answering" \/ @]

PumpReads(c) ==
    /\ pump[c] = "reading"
    /\ \/ PumpGoes(c, "failing")        \* a shutdown, an error or a silent upstream
       \/ conn[c].out < MaxChunks /\ PumpGoes(c, "sending")
       \/ IF conn[c].declared = Undeclared \/ Unread(c)
          THEN Whole(c) /\ PumpDone(c)
          ELSE PumpGoes(c, "failing")   \* upstream_short_body
    /\ UNCHANGED <<server, inFlight>>

(* The channel has room once the client has taken the chunk before. *)
Fits(c) == ~Unread(c) /\ conn[c].out = conn[c].taken

PumpSends(c) ==
    /\ pump[c] = "sending"
    /\ Fits(c)
    /\ LET out == conn[c].out + 1 IN
       IF out = conn[c].declared
       THEN conn' = [conn EXCEPT ![c].out = out, ![c].whole = TRUE] /\ PumpDone(c)
       ELSE /\ conn' = [conn EXCEPT ![c].out = out]
            /\ pump' = [pump EXCEPT ![c] = "reading"]
            /\ UNCHANGED late
    /\ UNCHANGED <<server, inFlight>>

(* The shutdown, the client that left or the one that does not take it. *)
PumpGivesUp(c) ==
    /\ pump[c] = "sending"
    /\ ~Fits(c) \/ Stopping
    /\ PumpGoes(c, "failing")
    /\ UNCHANGED <<server, inFlight>>

ManifestReads(c) ==
    /\ pump[c] = "manifest"
    /\ \/ PumpGoes(c, "failing")
       \/ conn[c].out < MaxChunks /\ PumpGoes(c, "writing")
       \/ Whole(c) /\ PumpDone(c)
       \/ Stopping /\ PumpDone(c) /\ UNCHANGED conn
    /\ UNCHANGED <<server, inFlight>>

ManifestWrites(c) ==
    /\ pump[c] = "writing"
    /\ \/ /\ Fits(c)
          /\ conn' = [conn EXCEPT ![c].out = @ + 1]
          /\ pump' = [pump EXCEPT ![c] = "manifest"]
          /\ UNCHANGED late
       \/ PumpGoes(c, "failing")
       \/ Stopping /\ PumpDone(c) /\ UNCHANGED conn
    /\ UNCHANGED <<server, inFlight>>

(* A mistake the run relay must catch: the body just ends. *)
PumpEndsBody(c) ==
    /\ pump[c] = "failing"
    /\ PumpDone(c)
    /\ UNCHANGED <<server, conn, inFlight>>

(* A body that failed or was stopped aborts its connection, and only then is *)
(* its channel closed; the slot is given back last.                          *)
PumpAborts(c) ==
    /\ pump[c] = "failing"
    /\ conn' = [conn EXCEPT ![c].abort = TRUE]
    /\ pump' = [pump EXCEPT ![c] = "failed"]
    /\ UNCHANGED <<server, inFlight, late>>

PumpCloses(c) ==
    /\ pump[c] = "failed"
    /\ PumpDone(c)
    /\ UNCHANGED <<server, conn, inFlight>>

LetGo ==
    /\ late > 0
    /\ late' = late - 1
    /\ inFlight' = inFlight - 1
    /\ UNCHANGED <<server, conn, pump>>

-----------------------------------------------------------------------------
(* channel_body, and what hyper makes of it: the client sees a whole body, or *)
(* its connection break.                                                      *)
ClientTakes(c) ==
    /\ conn[c].phase = "answering" /\ conn[c].taken < conn[c].out
    /\ conn' = [conn EXCEPT ![c].taken = @ + 1]
    /\ UNCHANGED <<server, pump, inFlight, late>>

EndsWell(c) ==
    IF conn[c].declared = Undeclared THEN ~Aborted(c) ELSE conn[c].taken = conn[c].declared

BodyEnds(c) ==
    /\ conn[c].phase = "answering" /\ conn[c].taken = conn[c].out /\ pump[c] = "none"
    /\ conn' = [conn EXCEPT ![c] = [Blank EXCEPT !.abort = conn[c].abort,
                                        !.phase = IF EndsWell(c) THEN "idle" ELSE "gone"]]
    /\ UNCHANGED <<server, pump, inFlight, late>>

-----------------------------------------------------------------------------
(* stop waits for every task. *)
Stop ==
    /\ server = "up"
    /\ server' = "stopping"
    /\ UNCHANGED <<conn, pump, inFlight, late>>

StopReturns ==
    /\ server = "draining"
    /\ \A c \in Conns : conn[c].phase \in {"none", "gone"} /\ pump[c] = "none"
    /\ late = 0
    /\ server' = "stopped"
    /\ UNCHANGED <<conn, pump, inFlight, late>>

PumpStep(c) ==
    PumpReads(c) \/ PumpSends(c) \/ PumpGivesUp(c) \/ ManifestReads(c) \/ ManifestWrites(c)
        \/ PumpAborts(c) \/ PumpCloses(c)

ConnStep(c) ==
    Handshake(c) \/ AbortConnection(c) \/ AnswerEmpty(c) \/ Respond(c) \/ BodyEnds(c)

ClientStep(c) == ClientLeaves(c) \/ ClientTakes(c)

(* The tasks of the relay run; its clients need not do anything.  drive polls *)
(* the token each time it polls the connection, so that no request of a busy  *)
(* client keeps it from ending.                                               *)
Fairness ==
    /\ WF_vars(AcceptLoopEnds) /\ WF_vars(LetGo) /\ WF_vars(StopReturns)
    /\ \A c \in Conns :
          WF_vars(PumpStep(c)) /\ WF_vars(ConnStep(c)) /\ SF_vars(AbortConnection(c))

Next ==
    \/ AcceptLoopEnds \/ LetGo \/ Stop \/ StopReturns
    \/ \E c \in Conns :
          Accept(c) \/ Request(c) \/ PumpStep(c) \/ ConnStep(c) \/ ClientStep(c)

Spec == Init /\ [][Next]_vars /\ Fairness

-----------------------------------------------------------------------------
(* Properties. *)

(* A body that was cut short by the upstream, by a time-out or by a shutdown  *)
(* never ends as if it were whole: the response is only completed where all   *)
(* of the body went through (pump_body, channel_body).                        *)
CleanEndIsComplete ==
    [][\A c \in Conns :
          conn[c].phase = "answering" /\ conn'[c].phase = "idle" => conn[c].whole]_vars

(* Never more than MAX_IN_FLIGHT requests are fetched for or written at once, *)
(* although a request is counted before it looks at the limit; and the counter*)
(* is exact, so that no end of a handler or of a pump gives a slot back twice *)
(* and takes it below zero (handle, InFlight).                                *)
Held == {c \in Conns : conn[c].phase = "handling" \/ pump[c] # "none"}
Refused == {c \in Conns : conn[c].phase = "overfull"}
SlotsCounted ==
    /\ inFlight = Cardinality(Held) + Cardinality(Refused) + late
    /\ Cardinality(Held) + late <= MaxInFlight

(* No task of the relay outlasts what it is for.  The counter of the requests *)
(* under way comes back to zero once there are no more of them, whatever      *)
(* clients that stop reading, upstreams that fall silent and connections      *)
(* dropped at any point do (InFlight, MAX_IN_FLIGHT); and stop returns, since *)
(* none outlasts its token (RelayServer::stop).                               *)
TasksEnd ==
    /\ []<><<\E c \in Conns : Request(c)>>_vars \/ <>[](inFlight = 0)
    /\ server = "stopping" ~> server = "stopped"
=============================================================================
