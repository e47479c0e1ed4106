--------------------------- MODULE ResolvePromise ---------------------------
(***************************************************************************)
(* What Mesh::resolve promises its caller (trait Mesh in                   *)
(* crates/vrcr-watchdog/src/ipc/mod.rs): a resolve that was asked ends     *)
(* with exactly one answer, and an answer in the server's name is only     *)
(* given for a request the server was told about.                          *)
(***************************************************************************)
CONSTANTS Requests, ClientAnswers

VARIABLES
    asked,      \* the resolves that were asked
    heard,      \* the resolves the server may have heard of
    answer      \* what each resolve returned, "none" before

promiseVars == <<asked, heard, answer>>

PromiseInit ==
    /\ asked = {}
    /\ heard = {}
    /\ answer = [r \in Requests |-> "none"]

Tell(r) ==
    /\ r \in asked
    /\ answer[r] = "none"
    /\ heard' = heard \cup {r}
    /\ UNCHANGED <<asked, answer>>

AnswersFor(r) == ClientAnswers \cup (IF r \in heard THEN {"answered"} ELSE {})

Answer(r) ==
    /\ r \in asked
    /\ answer[r] = "none"
    /\ \E a \in AnswersFor(r) : answer' = [answer EXCEPT ![r] = a]
    /\ UNCHANGED <<asked, heard>>

(* A resolve is asked, and may be refused on the spot. *)
Ask(r) ==
    /\ r \notin asked
    /\ asked' = asked \cup {r}
    /\ \/ UNCHANGED answer
       \/ \E a \in ClientAnswers : answer' = [answer EXCEPT ![r] = a]
    /\ UNCHANGED heard

PromiseNext == \E r \in Requests : Ask(r) \/ Tell(r) \/ Answer(r)

PromiseSteps == PromiseInit /\ [][PromiseNext]_promiseVars

(* Every resolve that is asked is answered. *)
PromiseAnswers == \A r \in Requests : (r \in asked) ~> (answer[r] # "none")
=============================================================================
