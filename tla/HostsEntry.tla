----------------------------- MODULE HostsEntry -----------------------------
(***************************************************************************)
(* The hosts entry public worlds need, and who asks for it                 *)
(* (crates/vrcr-watchdog/src/hosts.rs): when the watchdog starts, one      *)
(* thread makes sure of the entry and another, the ticker, looks after it. *)
(* Either asks for administrator rights and lets an elevated child of the  *)
(* same program append the line; the child is a process of its own, which  *)
(* goes on when whoever asked stops waiting or ends.                       *)
(***************************************************************************)
EXTENDS Naturals

Threads == {"startup", "ticker"}
Askers == Threads \cup {"uninstaller"}

VARIABLES
    entry,      \* the hosts file has the line
    child,      \* the elevated child of each asker: whether it runs, and has read the file
    thread,     \* where each thread of the watchdog is
    manager,    \* HostsManager's two flags
    gaveUp      \* TickState

hostsVars == <<entry, child, thread, manager, gaveUp>>

EnsurePcs == {"check", "claim", "recheck", "prompt", "wait", "verify", "release"}
ThreadPcs == EnsurePcs \cup {"none", "done", "tick", "flight", "asked", "result", "again"}

HostsTypeOK ==
    /\ entry \in BOOLEAN
    /\ child \in [Askers -> {"none", "started", "read"}]
    /\ thread \in [Threads -> ThreadPcs]
    /\ manager \in [inFlight : BOOLEAN, declined : BOOLEAN]
    /\ gaveUp \in BOOLEAN

NoThreads == [t \in Threads |-> "none"]
NewManager == [inFlight |-> FALSE, declined |-> FALSE]

HostsInit ==
    /\ entry = FALSE
    /\ child = [a \in Askers |-> "none"]
    /\ thread = NoThreads
    /\ manager = NewManager
    /\ gaveUp = FALSE

(* start_hosts; and the end of the process, which its children survive. *)
ThreadsStart ==
    /\ thread' = [t \in Threads |-> IF t = "ticker" THEN "tick" ELSE "check"]
    /\ manager' = NewManager
    /\ gaveUp' = FALSE
    /\ UNCHANGED <<entry, child>>

ThreadsEnd ==
    /\ thread' = NoThreads
    /\ UNCHANGED <<entry, child, manager, gaveUp>>

At(t, pc) == thread[t] = pc
Goto(t, pc) == thread' = [thread EXCEPT ![t] = pc]

(* is_active: a file that cannot be read does not have the line. *)
Active(t, then, else) ==
    \/ entry /\ Goto(t, then)
    \/ Goto(t, else)

AfterEnsure(t) == IF t = "ticker" THEN "result" ELSE "done"

-----------------------------------------------------------------------------
(* ensure_entry and ensure_locked. *)

Check(t) ==
    /\ At(t, "check")
    /\ Active(t, AfterEnsure(t), "claim")
    /\ UNCHANGED <<entry, child, manager, gaveUp>>

Claim(t) ==
    /\ At(t, "claim")
    /\ manager' = [manager EXCEPT !.inFlight = TRUE]
    /\ Goto(t, IF manager.inFlight THEN AfterEnsure(t) ELSE "recheck")
    /\ UNCHANGED <<entry, child, gaveUp>>

Recheck(t) ==
    /\ At(t, "recheck")
    /\ Active(t, "release", "prompt")
    /\ UNCHANGED <<entry, child, manager, gaveUp>>

(* run_elevated: declined or failed, or a child is started and waited for,  *)
(* for a minute at most.  (Bound: one child of each asker at a time.)       *)
Elevates(a) == child[a] = "none" /\ child' = [child EXCEPT ![a] = "started"]

Prompt(t) ==
    /\ At(t, "prompt")
    /\ \/ Elevates(t) /\ Goto(t, "wait")
       \/ Goto(t, "verify") /\ UNCHANGED child
    /\ UNCHANGED <<entry, manager, gaveUp>>

Waited(t) ==
    /\ At(t, "wait")
    /\ Goto(t, "verify")
    /\ UNCHANGED <<entry, child, manager, gaveUp>>

Verify(t) ==
    /\ At(t, "verify")
    /\ Goto(t, "release")
    /\ \/ entry /\ UNCHANGED manager
       \/ manager' = [manager EXCEPT !.declined = TRUE]
    /\ UNCHANGED <<entry, child, gaveUp>>

Release(t) ==
    /\ At(t, "release")
    /\ manager' = [manager EXCEPT !.inFlight = FALSE]
    /\ Goto(t, AfterEnsure(t))
    /\ UNCHANGED <<entry, child, gaveUp>>

Ensure(t) ==
    Check(t) \/ Claim(t) \/ Recheck(t) \/ Prompt(t) \/ Waited(t) \/ Verify(t) \/ Release(t)

-----------------------------------------------------------------------------
(* HostsTicker::tick: the two flags are read one after the other. *)

TickReads ==
    /\ At("ticker", "tick")
    /\ ~entry /\ ~gaveUp
    /\ Goto("ticker", "flight")
    /\ UNCHANGED <<entry, child, manager, gaveUp>>

TickLooksInFlight ==
    /\ At("ticker", "flight")
    /\ Goto("ticker", IF manager.inFlight THEN "tick" ELSE "asked")
    /\ UNCHANGED <<entry, child, manager, gaveUp>>

TickLooksDeclined ==
    /\ At("ticker", "asked")
    /\ Goto("ticker", IF manager.declined THEN "tick" ELSE "check")
    /\ gaveUp' = (gaveUp \/ manager.declined)
    /\ UNCHANGED <<entry, child, manager>>

TickResult ==
    /\ At("ticker", "result")
    /\ Active("ticker", "tick", "again")
    /\ UNCHANGED <<entry, child, manager, gaveUp>>

TickGivesUp ==
    /\ At("ticker", "again")
    /\ Goto("ticker", "tick")
    /\ gaveUp' = (gaveUp \/ ~manager.inFlight)
    /\ UNCHANGED <<entry, child, manager>>

TickerStep == TickReads \/ TickLooksInFlight \/ TickLooksDeclined \/ TickResult \/ TickGivesUp

-----------------------------------------------------------------------------
(* The elevated children: run_add appends, run_remove writes what it read   *)
(* without the line; either may fail.                                       *)

ChildReads(a) ==
    /\ child[a] = "started"
    /\ child' = [child EXCEPT ![a] = IF entry = (a = "uninstaller") THEN "read" ELSE "none"]
    /\ UNCHANGED <<entry, thread, manager, gaveUp>>

ChildWrites(a) ==
    /\ child[a] = "read"
    /\ child' = [child EXCEPT ![a] = "none"]
    /\ entry' \in {entry, a # "uninstaller"}
    /\ UNCHANGED <<thread, manager, gaveUp>>

HostsStep ==
    \/ \E t \in Threads : Ensure(t)
    \/ TickerStep
    \/ \E a \in Askers : ChildReads(a) \/ ChildWrites(a)
=============================================================================
