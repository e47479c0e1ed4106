------------------------------ MODULE Wininet ------------------------------
(***************************************************************************)
(* The limit of connections Windows keeps for a user, which the watchdog   *)
(* raises when it starts and the uninstaller puts back                     *)
(* (vrcr-shared/src/wininet.rs).  A marker file remembers what was there   *)
(* before, and either program may end between any two steps.               *)
(***************************************************************************)
VARIABLES
    limit,      \* the value in the registry
    marker,     \* wininet_limit_previous.txt
    raiser,     \* raise_wininet of the watchdog, and the value it saw
    putBack,    \* the uninstaller: its steps about the limit
    had,        \* history: the values that were not ours
    ours,       \* history: the value in the registry is the one we set
    mishap      \* history: a marker was torn, or wiped before it was of use

limitVars == <<limit, marker, raiser, putBack, had, ours, mishap>>

(* Values below TARGET, TARGET, and one above. *)
TooLow == {"absent", "two", "eight"}
Limits == TooLow \cup {"TARGET", "more"}

LimitTypeOK ==
    /\ limit \in Limits
    /\ marker \in Limits \cup {"none", "torn"}
    /\ raiser \in [pc : {"off", "mark", "set", "up"}, saw : Limits]
    /\ putBack \in [pc : {"off", "restore", "drop", "wipe", "done"}, errors : BOOLEAN]
    /\ had \subseteq Limits
    /\ {ours, mishap} \subseteq BOOLEAN

NotRaising == [pc |-> "off", saw |-> "absent"]
NotRemoving == [pc |-> "off", errors |-> FALSE]

LimitInit ==
    /\ limit \in Limits
    /\ marker = "none"
    /\ raiser = NotRaising
    /\ putBack = NotRemoving
    /\ had = {limit}
    /\ ours = FALSE
    /\ mishap = FALSE

RaiserAt(pc) == raiser.pc = pc
RaiserGoes(pc) == raiser' = [raiser EXCEPT !.pc = pc]
PutBackAt(pc) == putBack.pc = pc
PutBackGoes(pc) == putBack' = [putBack EXCEPT !.pc = pc]

Stays == UNCHANGED <<limit, had, ours>>

UserSets ==
    /\ limit' \in Limits
    /\ had' = had \cup {limit'}
    /\ ours' = FALSE
    /\ UNCHANGED <<marker, raiser, putBack, mishap>>

-----------------------------------------------------------------------------
(* ensure, when a watchdog starts, which it does not during an uninstall. *)

Raises ==
    /\ RaiserAt("off") /\ putBack.pc \in {"off", "done"}
    /\ raiser' = [pc |-> IF limit \notin TooLow THEN "up"
                         ELSE IF marker = "none" THEN "mark" ELSE "set",
                  saw |-> limit]
    /\ putBack' = NotRemoving
    /\ UNCHANGED <<limit, marker, had, ours, mishap>>

(* The write may fail, or be cut off and leave an empty file. *)
Marks ==
    /\ RaiserAt("mark")
    /\ \/ marker' = raiser.saw /\ RaiserGoes("set") /\ UNCHANGED mishap
       \/ marker' = "torn" /\ RaiserGoes("up") /\ mishap' = TRUE
       \/ RaiserGoes("up") /\ UNCHANGED <<marker, mishap>>
    /\ Stays
    /\ UNCHANGED putBack

(* The registry may refuse. *)
RaiseSets ==
    /\ RaiserAt("set")
    /\ RaiserGoes("up")
    /\ \/ limit' = "TARGET" /\ ours' = TRUE /\ UNCHANGED had
       \/ Stays
    /\ UNCHANGED <<marker, putBack, mishap>>

RaiserEnds ==
    /\ ~RaiserAt("off")
    /\ raiser' = NotRaising
    /\ UNCHANGED <<limit, marker, putBack, had, ours, mishap>>

-----------------------------------------------------------------------------
(* restore_wininet and wipe_state of the uninstaller. *)

PutBackBegins ==
    /\ RaiserAt("off") /\ putBack.pc \in {"off", "done"}
    /\ putBack' = [NotRemoving EXCEPT !.pc = "restore"]
    /\ UNCHANGED <<limit, marker, raiser, had, ours, mishap>>

(* A marker without a number stands for no value. *)
Previous == IF marker = "torn" THEN "absent" ELSE marker

(* A mistake run machine must catch: the marker is dropped before. *)
DropsFirst ==
    /\ PutBackAt("restore") /\ marker # "none"
    /\ marker' = "none"
    /\ \/ PutBackGoes("wipe") /\ limit # "TARGET" /\ Stays
       \/ /\ PutBackGoes("wipe") /\ limit = "TARGET"
          /\ limit' = Previous /\ ours' = FALSE /\ UNCHANGED had
       \/ putBack' = [pc |-> "wipe", errors |-> TRUE] /\ Stays
    /\ UNCHANGED <<raiser, mishap>>

(* The value is put back if it is the one we set; the registry may refuse.  *)
PutsBack ==
    /\ PutBackAt("restore") /\ marker # "none"
    /\ \/ PutBackGoes("drop") /\ limit # "TARGET" /\ Stays
       \/ /\ PutBackGoes("drop") /\ limit = "TARGET"
          /\ limit' = Previous /\ ours' = FALSE /\ UNCHANGED had
       \/ putBack' = [pc |-> "wipe", errors |-> TRUE] /\ Stays
    /\ UNCHANGED <<marker, raiser, mishap>>

(* Without a marker, or with one that cannot be read, nothing is put back. *)
PassesOver ==
    /\ PutBackAt("restore")
    /\ PutBackGoes("wipe")
    /\ mishap' = (mishap \/ marker # "none")
    /\ Stays
    /\ UNCHANGED <<marker, raiser>>

DropsMarker ==
    /\ PutBackAt("drop")
    /\ PutBackGoes("wipe")
    /\ marker' \in {"none", marker}
    /\ Stays
    /\ UNCHANGED <<raiser, mishap>>

(* The state folder goes, whatever came of the steps before; what cannot be *)
(* deleted is no error.                                                     *)
WipesState ==
    /\ PutBackAt("wipe")
    /\ PutBackGoes("done")
    /\ marker' \in {"none", marker}
    /\ mishap' = (mishap \/ (ours /\ marker # marker'))
    /\ Stays
    /\ UNCHANGED raiser

PutBackEnds ==
    /\ ~PutBackAt("off")
    /\ putBack' = NotRemoving
    /\ UNCHANGED <<limit, marker, raiser, had, ours, mishap>>

LimitNext ==
    \/ UserSets \/ Raises \/ Marks \/ RaiseSets \/ RaiserEnds
    \/ PutBackBegins \/ PutsBack \/ PassesOver \/ DropsMarker \/ WipesState \/ PutBackEnds

-----------------------------------------------------------------------------
(* An uninstall that reports no error leaves the limit as the user or       *)
(* Windows had it, whatever either program was stopped in before            *)
(* (console_log/wininet_cases.rs:12,29,44) -- if no marker was torn, left   *)
(* unread, or wiped with the state folder after a restore that failed.      *)
LimitComesBack ==
    PutBackAt("done") /\ ~putBack.errors /\ ~mishap => ~ours /\ limit \in had
=============================================================================
