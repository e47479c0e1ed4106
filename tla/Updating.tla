------------------------------ MODULE Updating ------------------------------
(***************************************************************************)
(* Installing a release over the installed one                             *)
(* (crates/vrcr-updater/src/flow.rs, install.rs) and the watchdog that     *)
(* takes over the staged updater when it starts                            *)
(* (crates/vrcr-watchdog/src/maintenance/update.rs).  The updater is a     *)
(* program of its own: it may be killed between any two renames, run again *)
(* later, and share the folder with a watchdog that would not stop or that *)
(* the user starts meanwhile.  Any rename and any deletion may fail.       *)
(*                                                                         *)
(* A file is known by the release its content is of.  The copies .new-*    *)
(* next to their targets are not kept: their names are random, and a run   *)
(* that is killed leaves them behind for nobody to read.                   *)
(***************************************************************************)
EXTENDS Naturals, Sequences, SequencesExt, FiniteSets

CONSTANTS
    Others,     \* the release's files besides the watchdog and the staged updater
    Manifest,   \* data/release-manifest.tsv, one of them
    Added,      \* those that the installed release does not have
    Dropped     \* files of the installed release that the new one does not have

ASSUME ReleaseAssumption ==
    /\ IsFiniteSet(Others)
    /\ Manifest \in Others \ Added
    /\ Added \subseteq Others
    /\ Others \cap Dropped = {}
    /\ (Others \cup Dropped) \cap {"watchdog", "staged", "updater"} = {}

(* A mistake update must catch: the order of the capitals ignored.          *)
PayloadFolded == SetToSeq(Others) \o <<"watchdog", "staged">>

(* The order of files_under, by bytes: data/ and tools/ in some order, then *)
(* the programs, capitals first: the watchdog comes after the staged        *)
(* updater, which ensure_staged_updater_copy adds.                          *)
Payload == SetToSeq(Others) \o <<"staged", "watchdog">>

Shipped == Others \cup {"watchdog"}
File == Shipped \cup {"staged", "updater"} \cup Dropped
Content == {"none", "old", "new"}
Kept == [name : File, content : {"old", "new"}]     \* a file renamed to .old-*

VARIABLES
    file,       \* what is at each name
    aside,      \* the .old-* files
    updater,    \* the updater's process
    watchdog,   \* the watchdog's process, as far as it touches the folder
    halfUndone  \* history: a rollback began over the new watchdog and has not restored it

vars == <<file, aside, updater, watchdog, halfUndone>>

UpdaterPcs == {"idle", "checked", "stopped", "aside", "in", "delete", "remove",
               "putBack", "undone", "clean", "relaunch"}
UpdaterRecord == [pc : UpdaterPcs,
                  at : 1 .. Len(Payload) + 1,
                  deletes : SUBSET Dropped,
                  renamed : Seq(Kept),
                  failed : BOOLEAN,                 \* the rollback, too
                  before : [File -> Content]]       \* history: what the run found

WatchdogPcs == {"down", "apply", "applyIn", "applyBack", "applyClean", "up"}

TypeOK ==
    /\ file \in [File -> Content]
    /\ aside \subseteq Kept
    /\ updater \in UpdaterRecord
    /\ watchdog \in [pc : WatchdogPcs, backup : Content]
    /\ halfUndone \in BOOLEAN

Installed == [f \in File |-> IF f \in Added \cup {"staged"} THEN "none" ELSE "old"]
NoRun == [pc |-> "idle", at |-> 1, deletes |-> {}, renamed |-> <<>>, failed |-> FALSE,
          before |-> Installed]
Down == [pc |-> "down", backup |-> "none"]

Init ==
    /\ file = Installed
    /\ aside = {}
    /\ updater = NoRun
    /\ watchdog = [Down EXCEPT !.pc = "up"]
    /\ halfUndone = FALSE

-----------------------------------------------------------------------------
(* Renames and deletions; a deletion that fails leaves the file there. *)

Is(f) == file[f] # "none"
Backup(f) == [name |-> f, content |-> file[f]]
MoveAside(f) ==
    /\ Is(f)
    /\ aside' = aside \cup {Backup(f)}
    /\ file' = [file EXCEPT ![f] = "none"]
MoveBack(k) ==
    /\ k \in aside /\ ~Is(k.name)
    /\ aside' = aside \ {k}
    /\ file' = [file EXCEPT ![k.name] = k.content]
Folder == <<file, aside>>

UpdaterAt(pc) == updater.pc = pc
UpdaterGoes(pc) == updater' = [updater EXCEPT !.pc = pc]

-----------------------------------------------------------------------------
(* The updater: update, and atomic_copy_over. *)

(* What is newer is decided by the version of the watchdog's file alone.    *)
(* The release, the prompt, the download and its hash change no file; each  *)
(* may end the run.                                                         *)
UpdaterStarts ==
    /\ UpdaterAt("idle")
    /\ file["watchdog"] = "old"
    /\ UpdaterGoes("checked")
    /\ UNCHANGED <<Folder, watchdog, halfUndone>>

UpdaterDeclines ==
    /\ UpdaterAt("checked")
    /\ updater' = NoRun
    /\ UNCHANGED <<Folder, watchdog, halfUndone>>

(* A watchdog that does not exit is installed over all the same. *)
StopWatchdog ==
    /\ UpdaterAt("checked")
    /\ UpdaterGoes("stopped")
    /\ watchdog' \in {Down, watchdog}
    /\ UNCHANGED <<Folder, halfUndone>>

(* What the old release lists and the new one does not is deleted, unless   *)
(* the list is not there.                                                   *)
Deletes == IF file[Manifest] = "old" THEN Dropped ELSE {}

Stage ==
    /\ UpdaterAt("stopped")
    /\ \/ updater' = [updater EXCEPT !.pc = "aside", !.deletes = Deletes, !.before = file]
       \/ updater' = NoRun
    /\ UNCHANGED <<Folder, watchdog, halfUndone>>

(* swap; a failure ends it and begins the rollback, in the order of swap. *)
Target == Payload[updater.at]

SwapFails ==
    /\ UpdaterGoes("remove")
    /\ halfUndone' = (halfUndone \/ file["watchdog"] = "new")
    /\ UNCHANGED <<Folder, watchdog>>

(* A mistake update must catch: the backup is noted after both renames. *)
SwapAsideUnnoted ==
    /\ UpdaterAt("aside")
    /\ \/ Is(Target) /\ MoveAside(Target) /\ UpdaterGoes("in") /\ UNCHANGED <<watchdog, halfUndone>>
       \/ ~Is(Target) /\ UpdaterGoes("in") /\ UNCHANGED <<Folder, watchdog, halfUndone>>
       \/ SwapFails

SwapAside ==
    /\ UpdaterAt("aside")
    /\ \/ /\ MoveAside(Target)
          /\ updater' = [updater EXCEPT !.pc = "in", !.renamed = Append(@, Backup(Target))]
          /\ UNCHANGED <<watchdog, halfUndone>>
       \/ /\ ~Is(Target)
          /\ UpdaterGoes("in")
          /\ UNCHANGED <<Folder, watchdog, halfUndone>>
       \/ SwapFails

SwapIn ==
    /\ UpdaterAt("in")
    /\ \/ /\ file' = [file EXCEPT ![Target] = "new"]
          /\ updater' = [updater EXCEPT !.pc = IF updater.at = Len(Payload) THEN "delete" ELSE "aside",
                                        !.at = @ + 1]
          /\ UNCHANGED <<aside, watchdog, halfUndone>>
       \/ SwapFails

(* One after the other; the order is of no account. *)
Deletable == {f \in updater.deletes : Is(f)}

SwapDelete ==
    /\ UpdaterAt("delete")
    /\ \/ \E f \in Deletable :
             /\ MoveAside(f)
             /\ updater' = [updater EXCEPT !.renamed = Append(@, Backup(f))]
             /\ UNCHANGED <<watchdog, halfUndone>>
       \/ /\ Deletable = {}
          /\ UpdaterGoes("clean")
          /\ UNCHANGED <<Folder, watchdog, halfUndone>>
       \/ Deletable # {} /\ SwapFails

(* rollback: what stands at the name is removed, the backup renamed back.   *)
(* One that fails is reported and left aside.                               *)
Undoing == Head(updater.renamed)
NextUndo(failed) ==
    updater' = [updater EXCEPT !.pc = "remove", !.renamed = Tail(@), !.failed = @ \/ failed]

RemoveSwapped ==
    /\ UpdaterAt("remove")
    /\ updater.renamed # <<>>
    /\ \/ file' = [file EXCEPT ![Undoing.name] = "none"] /\ UpdaterGoes("putBack")
       \/ Is(Undoing.name) /\ NextUndo(TRUE) /\ UNCHANGED file
    /\ UNCHANGED <<aside, watchdog, halfUndone>>

PutBack ==
    /\ UpdaterAt("putBack")
    /\ \/ /\ MoveBack(Undoing)
          /\ NextUndo(FALSE)
          /\ halfUndone' = (halfUndone /\ Undoing.name # "watchdog")
       \/ NextUndo(TRUE) /\ UNCHANGED <<Folder, halfUndone>>
    /\ UNCHANGED watchdog

(* A mistake update must catch: the backups are deleted after a         *)
(* rollback, too, whether or not each could be put back.                    *)
UndoneCleansUp ==
    /\ UpdaterAt("remove")
    /\ updater.renamed = <<>>
    /\ UpdaterGoes("undone")
    /\ aside' = {}
    /\ UNCHANGED <<file, watchdog, halfUndone>>

Undone ==
    /\ UpdaterAt("remove")
    /\ updater.renamed = <<>>
    /\ UpdaterGoes("undone")
    /\ UNCHANGED <<Folder, watchdog, halfUndone>>

(* Nothing is relaunched after a failure. *)
Reports ==
    /\ UpdaterAt("undone")
    /\ updater' = NoRun
    /\ UNCHANGED <<Folder, watchdog, halfUndone>>

CleanUp ==
    /\ UpdaterAt("clean")
    /\ UpdaterGoes("relaunch")
    /\ \E left \in SUBSET ToSet(updater.renamed) :
           aside' = (aside \ ToSet(updater.renamed)) \cup (aside \cap left)
    /\ UNCHANGED <<file, watchdog, halfUndone>>

(* A second watchdog finds the mutex taken and exits (acquire_instance). *)
Launched == IF watchdog.pc = "down" /\ Is("watchdog") THEN [Down EXCEPT !.pc = "apply"] ELSE watchdog

LaunchWatchdog ==
    /\ UpdaterAt("relaunch")
    /\ updater' = NoRun
    /\ watchdog' \in {Launched, watchdog}
    /\ UNCHANGED <<Folder, halfUndone>>

UpdaterKilled ==
    /\ ~UpdaterAt("idle")
    /\ updater' = NoRun
    /\ UNCHANGED <<Folder, watchdog, halfUndone>>

-----------------------------------------------------------------------------
(* The watchdog: started by the user, it first applies the staged updater   *)
(* (apply_pair), over the program of an updater that may be running.        *)

WatchdogAt(pc) == watchdog.pc = pc
WatchdogGoes(pc) == watchdog' = [watchdog EXCEPT !.pc = pc]

WatchdogStarts ==
    /\ Launched # watchdog
    /\ watchdog' = Launched
    /\ UNCHANGED <<Folder, updater, halfUndone>>

ApplyAside ==
    /\ WatchdogAt("apply")
    /\ \/ ~Is("staged") /\ WatchdogGoes("up") /\ UNCHANGED Folder
       \/ /\ Is("staged") /\ MoveAside("updater")
          /\ watchdog' = [pc |-> "applyIn", backup |-> file["updater"]]
       \/ Is("staged") /\ ~Is("updater") /\ WatchdogGoes("applyIn") /\ UNCHANGED Folder
       \/ Is("staged") /\ Is("updater") /\ WatchdogGoes("up") /\ UNCHANGED Folder
    /\ UNCHANGED <<updater, halfUndone>>

ApplyIn ==
    /\ WatchdogAt("applyIn")
    /\ \/ /\ Is("staged")
          /\ file' = [file EXCEPT !["updater"] = file["staged"], !["staged"] = "none"]
          /\ WatchdogGoes("applyClean")
       \/ WatchdogGoes("applyBack") /\ UNCHANGED file
    /\ UNCHANGED <<aside, updater, halfUndone>>

OldUpdater == [name |-> "updater", content |-> watchdog.backup]

ApplyBack ==
    /\ WatchdogAt("applyBack")
    /\ MoveBack(OldUpdater) \/ UNCHANGED Folder
    /\ watchdog' = [Down EXCEPT !.pc = "up"]
    /\ UNCHANGED <<updater, halfUndone>>

ApplyClean ==
    /\ WatchdogAt("applyClean")
    /\ aside' \in {aside, aside \ {OldUpdater}}
    /\ watchdog' = [Down EXCEPT !.pc = "up"]
    /\ UNCHANGED <<file, updater, halfUndone>>

WatchdogEnds ==
    /\ ~WatchdogAt("down")
    /\ watchdog' = Down
    /\ UNCHANGED <<Folder, updater, halfUndone>>

-----------------------------------------------------------------------------
Swap == SwapAside \/ SwapIn \/ SwapDelete
Rollback == RemoveSwapped \/ PutBack \/ Undone \/ Reports
Apply == ApplyAside \/ ApplyIn \/ ApplyBack \/ ApplyClean

Next ==
    \/ UpdaterStarts \/ UpdaterDeclines \/ StopWatchdog \/ Stage
    \/ Swap \/ Rollback \/ CleanUp \/ LaunchWatchdog \/ UpdaterKilled
    \/ WatchdogStarts \/ Apply \/ WatchdogEnds

Spec == Init /\ [][Next]_vars

-----------------------------------------------------------------------------
(* Properties. *)

(* A run that got to its end has replaced every file and deleted what the   *)
(* release no longer has; one that failed and could undo its renames has    *)
(* left every file it found as it found it.  (A file the release adds stays *)
(* behind, a staged updater among them; a watchdog may have taken it over.) *)
AllOrNothing ==
    /\ UpdaterAt("clean") \/ UpdaterAt("relaunch") =>
           /\ \A f \in Shipped : file[f] = "new"
           /\ \A f \in updater.deletes : ~Is(f)
    /\ UpdaterAt("undone") /\ ~updater.failed =>
           \A f \in Shipped \cup Dropped :
              updater.before[f] # "none" => file[f] = updater.before[f]

(* Whatever fails and whoever is killed, each installed file is at its name *)
(* or in a .old-* file next to it, as the updater's message for a manual    *)
(* recovery says (install.rs:246); only what a finished update dropped is   *)
(* gone.                                                                    *)
NothingLost ==
    \A f \in File \ (Added \cup {"staged"}) :
        \/ Is(f) \/ \E k \in aside : k.name = f
        \/ f \in Dropped /\ file[Manifest] = "new"

(* The updater trusts the version of the watchdog's file: where it is new,  *)
(* every file of the release is, after a kill at any point of the swap; a   *)
(* rollback over the new watchdog restores it last and is the exception.    *)
VersionTellsAll ==
    file["watchdog"] = "new" /\ ~halfUndone =>
        /\ \A f \in Shipped : file[f] = "new"
        /\ "new" \in {file["staged"], file["updater"]}
=============================================================================
