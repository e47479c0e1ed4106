------------------------------- MODULE Relay -------------------------------
(***************************************************************************)
(* The local relay: what passes through it (RelayServer), and how the text *)
(* it rewrites is cut into lines (Lines).  The two share nothing, so that  *)
(* a behaviour is one of either.                                           *)
(***************************************************************************)
EXTENDS RelayServer, Lines

VARIABLE part

RelayInit ==
    /\ Init
    /\ \/ part = "server" /\ Reads(<<>>)
       \/ part = "lines" /\ \E all \in Texts : Reads(all)

RelayNext ==
    /\ \/ part = "server" /\ Next /\ UNCHANGED linesVars
       \/ part = "lines" /\ LinesNext /\ UNCHANGED vars
    /\ UNCHANGED part

RelaySpec == RelayInit /\ [][RelayNext]_<<vars, linesVars, part>> /\ Fairness

(* Types of both. *)
RelayTypeOK == TypeOK /\ LinesTypeOK
=============================================================================
