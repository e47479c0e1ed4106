----------------------------- MODULE Uninstall -----------------------------
(***************************************************************************)
(* Removing the program (crates/vrcr-uninstaller/src/flow.rs, lib.rs,      *)
(* main.rs) while it may run: the uninstaller stops the watchdogs it finds *)
(* once, puts VRChat's yt-dlp back, has the hosts entry removed and        *)
(* deletes the files.  Meanwhile elevated children of the watchdog may     *)
(* outlive it, and the user may start or kill a watchdog at any time.      *)
(***************************************************************************)
EXTENDS HostsEntry

VARIABLES
    tools,      \* what VRChat runs as yt-dlp.exe
    exe,        \* vrcresolver.exe is there
    life,       \* a watchdog of this installation runs
    uninst,     \* the uninstaller
    disturbed   \* history: who was there that close-watchdog could not have stopped

vars == <<hostsVars, tools, exe, life, uninst, disturbed>>

UninstPcs == {"idle", "close", "restore", "hosts", "hostsWait", "files", "done", "refused"}
UninstRecord == [pc : UninstPcs,
                 listed : SUBSET ({"watchdog"} \cup Askers),  \* pids found
                 errors : BOOLEAN,
                 entryStays : {"no", "told", "unread", "unseen"}]
                                \* history: why the entry may be there without an error

TypeOK ==
    /\ HostsTypeOK
    /\ tools \in {"native", "ours"}
    /\ exe \in BOOLEAN
    /\ life \in {"down", "up"}
    /\ uninst \in UninstRecord
    /\ disturbed \in BOOLEAN

Init ==
    /\ HostsInit
    /\ tools = "native"
    /\ exe = TRUE
    /\ life = "down"
    /\ uninst = [pc |-> "idle", listed |-> {}, errors |-> FALSE, entryStays |-> "no"]
    /\ disturbed = FALSE

-----------------------------------------------------------------------------
(* The watchdog, as far as it leaves traces. *)

Running == {a \in Askers : child[a] # "none"}

WatchdogStarts ==
    /\ life = "down" /\ exe
    /\ life' = "up"
    /\ ThreadsStart
    /\ disturbed' = (disturbed \/ uninst.pc \notin {"idle", "refused"})
    /\ UNCHANGED <<tools, exe, uninst>>

Patches ==
    /\ life = "up"
    /\ tools' = "ours"
    /\ UNCHANGED <<hostsVars, exe, life, uninst, disturbed>>

(* A shutdown restores, or fails to; a kill does not.                       *)
WatchdogEnds ==
    /\ life = "up"
    /\ life' = "down"
    /\ tools' \in {"native", tools}
    /\ ThreadsEnd
    /\ UNCHANGED <<exe, uninst, disturbed>>

(* The user or an antivirus deletes the program, while nothing runs it.     *)
ExeVanishes ==
    /\ exe /\ life = "down" /\ Running = {}
    /\ exe' = FALSE
    /\ UNCHANGED <<hostsVars, tools, life, uninst, disturbed>>

EntryVanishes ==
    /\ entry
    /\ entry' = FALSE
    /\ UNCHANGED <<child, thread, manager, gaveUp, tools, exe, life, uninst, disturbed>>

-----------------------------------------------------------------------------
(* The uninstaller. *)

UninstAt(pc) == uninst.pc = pc
UninstGoes(pc) == uninst' = [uninst EXCEPT !.pc = pc]
Fails(pc) == uninst' = [uninst EXCEPT !.pc = pc, !.errors = TRUE]
LeavesEntry(why) == uninst' = [uninst EXCEPT !.pc = "files", !.entryStays = why]

(* The processes named after the watchdog, its children among them. *)
UninstStarts ==
    /\ UninstAt("idle") \/ UninstAt("refused")
    /\ uninst' = [pc |-> "close", errors |-> FALSE, entryStays |-> "no",
                  listed |-> Running \cup {w \in {"watchdog"} : life = "up"}]
    /\ disturbed' = FALSE
    /\ UNCHANGED <<hostsVars, tools, exe, life>>

Stuck == \E p \in uninst.listed : p \in Running \/ (p = "watchdog" /\ life = "up")

(* stop: Ctrl-C, upon which the watchdog may shut down by itself, and after *)
(* five seconds the end of a process, whatever it is at.                    *)
Terminates ==
    /\ UninstAt("close")
    /\ \/ /\ "watchdog" \in uninst.listed /\ life = "up"
          /\ life' = "down"
          /\ ThreadsEnd
       \/ \E a \in uninst.listed \cap Running :
             /\ child' = [child EXCEPT ![a] = "none"]
             /\ UNCHANGED <<entry, thread, manager, gaveUp, life>>
    /\ UNCHANGED <<tools, exe, uninst, disturbed>>

(* close-watchdog ends the uninstall if a process cannot be inspected or    *)
(* does not exit.  A child started after the list was made is not seen.     *)
CloseRefuses ==
    /\ UninstAt("close")
    /\ uninst.listed # {}
    /\ Fails("refused")
    /\ UNCHANGED <<hostsVars, tools, exe, life, disturbed>>

(* A mistake run machine must catch: one that does not exit is left.      *)
CloseTrusts ==
    /\ UninstAt("close")
    /\ UninstGoes("restore")
    /\ disturbed' = (disturbed \/ Running # {})
    /\ UNCHANGED <<hostsVars, tools, exe, life>>

CloseEnds ==
    /\ UninstAt("close")
    /\ ~Stuck
    /\ UninstGoes("restore")
    /\ disturbed' = (disturbed \/ Running # {})
    /\ UNCHANGED <<hostsVars, tools, exe, life>>

RestoreTools ==
    /\ UninstAt("restore")
    /\ \/ tools' = "native" /\ UninstGoes("hosts")
       \/ Fails("hosts") /\ UNCHANGED tools
    /\ UNCHANGED <<hostsVars, exe, life, disturbed>>

(* remove-hosts says that it is skipped without the watchdog's program; and *)
(* that the entry is absent, also if the file cannot be read.  The user may *)
(* decline, which is told, or it fails; a child is started and waited for;  *)
(* or Windows gives no handle of it, which counts as exit code 0.           *)
RemoveHosts ==
    /\ UninstAt("hosts")
    /\ \/ ~exe /\ LeavesEntry("told") /\ UNCHANGED child
       \/ exe /\ ~entry /\ UninstGoes("files") /\ UNCHANGED child
       \/ exe /\ entry /\ (LeavesEntry("unread") \/ LeavesEntry("told") \/ Fails("files"))
                /\ UNCHANGED child
       \/ exe /\ entry /\ Elevates("uninstaller")
                /\ (UninstGoes("hostsWait") \/ LeavesEntry("unseen"))
    /\ UNCHANGED <<entry, thread, manager, gaveUp, tools, exe, life, disturbed>>

(* Its exit code tells whether the line is gone; after ten seconds nobody   *)
(* asks, and the user is told; or it cannot be waited for.                  *)
HostsRemoved ==
    /\ UninstAt("hostsWait")
    /\ \/ "uninstaller" \notin Running /\ ~entry /\ UninstGoes("files")
       \/ "uninstaller" \in Running /\ LeavesEntry("told")
       \/ Fails("files")
    /\ UNCHANGED <<hostsVars, tools, exe, life, disturbed>>

(* The program of a running process cannot be deleted. *)
RemoveFiles ==
    /\ UninstAt("files")
    /\ \/ life = "down" /\ Running = {} /\ exe' = FALSE /\ UninstGoes("done")
       \/ Fails("done") /\ UNCHANGED exe
    /\ UNCHANGED <<hostsVars, tools, life, disturbed>>

UninstStep ==
    \/ UninstStarts \/ Terminates \/ CloseRefuses \/ CloseEnds \/ RestoreTools
    \/ RemoveHosts \/ HostsRemoved \/ RemoveFiles

Next ==
    \/ WatchdogStarts \/ Patches \/ WatchdogEnds \/ ExeVanishes \/ EntryVanishes
    \/ HostsStep /\ UNCHANGED <<tools, exe, life, uninst, disturbed>>
    \/ UninstStep

Spec == Init /\ [][Next]_vars

-----------------------------------------------------------------------------
(* An uninstall that reports no error leaves nothing behind: VRChat runs    *)
(* its own yt-dlp, no watchdog runs or can be started, and the hosts entry  *)
(* is gone (README.md:41) -- provided nobody started a watchdog, and no     *)
(* elevated child, while the watchdogs were being closed or later.  The     *)
(* entry may stay for three reasons.  One the user is told: the program is  *)
(* missing, the prompt was declined, or the child takes too long.  Two are  *)
(* silent: a hosts file that could not be read is reported as one without   *)
(* the entry, and a child without a handle as one that has succeeded.       *)
LeavesNothing ==
    UninstAt("done") /\ ~uninst.errors /\ ~disturbed =>
        /\ tools = "native"
        /\ life = "down" /\ ~exe
        /\ entry => uninst.entryStays \in {"told", "unread", "unseen"}
=============================================================================
