---------------------------- MODULE PatchManager ----------------------------
(***************************************************************************)
(* The watchdog's care of VRChat's yt-dlp.exe                              *)
(* (crates/vrcr-watchdog/src/maintenance/patch, crates/vrcr-shared/src/    *)
(* tools.rs): recovery after an unclean exit, the tick that keeps the      *)
(* wrapper installed, and the restore at shutdown.  The three hold one     *)
(* mutex, so one operation runs at a time; but each is a sequence of file  *)
(* system calls between which VRChat goes on, a file may vanish, and the   *)
(* watchdog may be killed.                                                 *)
(***************************************************************************)
EXTENDS ToolsFolder

CONSTANT MaxStarts      \* bound: how often the watchdog is started

ASSUME PatchAssumption == MaxStarts \in Nat

RestorePcs == {"look", "discardTarget", "discardOg", "moveIn", "moveOver",
               "aside", "replace", "putBack"}
TickPcs == {"capture", "captured", "dropOrphan", "copyTarget", "refreshOg", "install"}
Pcs == {"idle", "unsweep", "sweep", "recover", "flag"} \cup RestorePcs \cup TickPcs

VARIABLES
    wrapper,    \* the wrapper is in the install folder
    cleanExit,  \* clean_exit.flag
    starts,     \* how often the watchdog was started
    life,       \* how far the watchdog's process is
    op,         \* the operation that holds the lock, and how far it is
    state       \* TickState

patchVars == <<wrapper, cleanExit, starts, life, op, state>>
vars == <<folder, patchVars>>

OpRecord == [pc : Pcs, job : {"none", "recover", "tick", "shutdown"},
             failed : BOOLEAN,                  \* RestoreOutcome::Failed
             copy : {"none"} \cup Versions]      \* the .new-* file about to be renamed

StateRecord == [restored : BOOLEAN,
                clean : BOOLEAN,                \* restore_now returned true
                recent : BOOLEAN,               \* last_patch is less than MIN_REAPPLY_GAP ago
                saidMissing : BOOLEAN]          \* last_outcome = WrapperMissing

TypeOK ==
    /\ FolderTypeOK
    /\ wrapper \in BOOLEAN
    /\ cleanExit \in BOOLEAN
    /\ starts \in 0 .. MaxStarts
    /\ life \in {"down", "starting", "ready", "ticking"}
    /\ op \in OpRecord
    /\ state \in StateRecord

Idle == [pc |-> "idle", job |-> "none", failed |-> FALSE, copy |-> "none"]
NewState == [restored |-> FALSE, clean |-> FALSE, recent |-> FALSE, saidMissing |-> FALSE]

Init ==
    /\ FolderInit
    /\ wrapper = TRUE
    /\ cleanExit = FALSE
    /\ starts = 0
    /\ life = "down"
    /\ op = Idle
    /\ state = NewState

-----------------------------------------------------------------------------
(* Where an operation goes next. *)

At(pc) == op.pc = pc
Goto(pc) == op' = [op EXCEPT !.pc = pc]
End == op' = Idle
Process == <<wrapper, cleanExit, starts, life>>

(* A call that cannot succeed fails, and under "fail" any call may. *)
Refused(possible) == (~possible \/ "fail" \in Events) /\ UNCHANGED folder

(* tools::restore returns: the shutdown goes on to sweep. *)
RestoreEnds(failed) ==
    /\ IF op.job = "shutdown" THEN op' = [op EXCEPT !.pc = "unsweep", !.failed = failed]
       ELSE End
    /\ UNCHANGED <<Process, state>>

-----------------------------------------------------------------------------
(* tools::restore. *)

(* Two mistakes tools_safe must catch: any difference makes the target      *)
(* newer; or half a download does.                                          *)
NewerByHash == target # "none" /\ target # og
NewerByKind == Bundled(target) /\ target # og
Newer == Bundled(target) /\ Complete(target) /\ target # og

(* The choice; a hash that cannot be read is no difference. *)
Look ==
    /\ At("look")
    /\ \/ og = "none" /\ target # "ours" /\ RestoreEnds(FALSE)
       \/ /\ \/ og = "none" /\ target = "ours" /\ Goto("discardTarget")
             \/ og # "none" /\ Newer /\ Goto("discardOg")
             \/ og # "none" /\ target = "none" /\ Goto("moveIn")
             \/ /\ og # "none" /\ target # "none"
                /\ Newer => "fail" \in Events
                /\ Goto("moveOver")
          /\ UNCHANGED <<Process, state>>
    /\ UNCHANGED folder

(* discard: deleted, or moved aside if it runs. *)
DiscardTarget ==
    /\ At("discardTarget")
    /\ \/ target # "none" /\ ReplaceTarget("none") /\ RestoreEnds(FALSE)
       \/ (TargetInUse \/ "fail" \in Events) /\ MoveTargetAside /\ RestoreEnds(FALSE)
       \/ Refused(CanMoveTarget /\ NameIsFree) /\ RestoreEnds(TRUE)

DiscardOg ==
    /\ At("discardOg")
    /\ DropOg \/ Refused(TRUE)
    /\ RestoreEnds(FALSE)

MoveIn ==
    /\ At("moveIn")
    /\ \/ target = "none" /\ MoveOgToTarget /\ RestoreEnds(FALSE)
       \/ Refused(target = "none" /\ og # "none") /\ RestoreEnds(TRUE)

MoveOver ==
    /\ At("moveOver")
    /\ \/ ~TargetInUse /\ MoveOgToTarget /\ RestoreEnds(FALSE)
       \/ /\ Refused(~TargetInUse /\ og # "none")
          /\ IF og = "none" THEN RestoreEnds(TRUE)
             ELSE Goto("aside") /\ UNCHANGED <<Process, state>>

Aside ==
    /\ At("aside")
    /\ \/ MoveTargetAside /\ Goto("replace") /\ UNCHANGED <<Process, state>>
       \/ Refused(CanMoveTarget /\ NameIsFree) /\ RestoreEnds(TRUE)

Replace ==
    /\ At("replace")
    /\ \/ target = "none" /\ MoveOgToTarget /\ RestoreEnds(FALSE)
       \/ /\ Refused(target = "none" /\ og # "none")
          /\ Goto("putBack") /\ UNCHANGED <<Process, state>>

PutBack ==
    /\ At("putBack")
    /\ (\E f \in stale : Newest(f) /\ MoveBack(f)) \/ Refused(target = "none")
    /\ RestoreEnds(TRUE)

-----------------------------------------------------------------------------
(* tools::sweep. *)

(* restore_bundled_stale: VRChat's binary comes back if nothing else is left. *)
Unsweep ==
    /\ At("unsweep")
    /\ \/ og = "none" /\ \E f \in stale : Newest(f) /\ Bundled(f.content) /\ MoveBack(f)
       \/ Refused(og = "none" /\ target = "none" /\ \E f \in stale : Newest(f) /\ Bundled(f.content))
    /\ Goto("sweep")
    /\ UNCHANGED <<Process, state>>

Sweep ==
    /\ At("sweep")
    /\ DeleteStales \/ Refused(TRUE)
    /\ IF op.job = "recover" THEN Goto("recover")
       ELSE IF op.failed THEN End
       ELSE Goto("flag")
    /\ UNCHANGED <<Process, state>>

-----------------------------------------------------------------------------
(* The process starts and recovers. *)

ProcessStarts ==
    /\ life = "down"
    /\ starts < MaxStarts
    /\ starts' = starts + 1
    /\ life' = "starting"
    /\ op' = Idle
    /\ state' = NewState
    /\ UNCHANGED <<folder, wrapper, cleanExit>>

RecoverBegins ==
    /\ life = "starting" /\ op = Idle
    /\ life' = "ready"
    /\ op' = IF state.restored THEN Idle ELSE [Idle EXCEPT !.pc = "unsweep", !.job = "recover"]
    /\ UNCHANGED <<folder, wrapper, cleanExit, starts, state>>

(* The flag of a clean exit is consumed; without it, what was patched is undone. *)
Recover ==
    /\ At("recover")
    /\ IF ~cleanExit /\ (og # "none" \/ target = "ours") THEN Goto("look") ELSE End
    /\ \/ cleanExit' = FALSE
       \/ "fail" \in Events /\ UNCHANGED cleanExit
    /\ UNCHANGED <<folder, wrapper, starts, life, state>>

(* start: refused without a wrapper or a binary of VRChat's. *)
Starts ==
    /\ life = "ready" /\ op = Idle
    /\ wrapper /\ (target # "none" \/ og # "none")
    /\ life' = "ticking"
    /\ UNCHANGED <<folder, wrapper, cleanExit, starts, op, state>>

-----------------------------------------------------------------------------
(* tick_core.  "said" is whether the last outcome reported is WrapperMissing. *)

Settled == target # "none" /\ ~changed
Capturable == Settled /\ Complete(target) /\ ~TargetInUse

(* A mistake tools_live must catch: the stamp is not remembered. *)
TickForgetsStamp ==
    /\ life = "ticking" /\ op = Idle
    /\ ~state.restored
    /\ UNCHANGED <<folder, Process>>

TickBegins ==
    /\ life = "ticking" /\ op = Idle
    /\ ~state.restored
    /\ changed' = FALSE
    /\ UNCHANGED <<target, og, stale, ogLost, vrchat, Process>>

Plan(pc, said) ==
    /\ op' = IF pc = "idle" THEN Idle ELSE [Idle EXCEPT !.pc = pc, !.job = "tick"]
    /\ state' = [state EXCEPT !.saidMissing = said]

TickWithoutBackup ==
    /\ TickBegins
    /\ og = "none"
    /\ \/ ~Bundled(target) /\ (target = "ours" => TargetInUse) /\ Plan("idle", FALSE)
       \/ target = "ours" /\ ~TargetInUse /\ Plan("dropOrphan", state.saidMissing)
       \/ Bundled(target) /\ ~wrapper /\ Plan("idle", TRUE)
       \/ Bundled(target) /\ wrapper /\ Capturable /\ Plan("capture", state.saidMissing)
       \/ /\ Bundled(target) /\ wrapper /\ ~Capturable
          /\ Plan("idle", state.saidMissing /\ ~(Settled /\ Complete(target)))

TickWithBackup ==
    /\ TickBegins
    /\ og # "none"
    /\ \/ ~wrapper /\ Plan(IF state.saidMissing THEN "idle" ELSE "look", TRUE)
       \/ wrapper /\ target = "none" /\ Plan("install", state.saidMissing)
       \/ wrapper /\ target = "ours" /\ Plan("idle", FALSE)
       \/ /\ wrapper /\ target \notin {"none", "ours"}
          /\ \/ state.recent /\ Plan("idle", state.saidMissing)
             \/ ~state.recent /\ Capturable /\ Plan("copyTarget", state.saidMissing)
             \/ /\ ~state.recent /\ ~Capturable
                /\ Plan("idle", state.saidMissing /\ Bundled(target) /\ ~(Settled /\ Complete(target)))

Capture ==
    /\ At("capture")
    /\ \/ MoveTargetToOg /\ Goto("captured") /\ state' = [state EXCEPT !.saidMissing = FALSE]
       \/ Refused(CanMoveTarget /\ og = "none") /\ End /\ UNCHANGED state
    /\ UNCHANGED Process

Captured ==
    /\ At("captured")
    /\ IF ~wrapper THEN Goto("look") /\ state' = [state EXCEPT !.saidMissing = TRUE]
       ELSE (IF TargetInUse THEN End ELSE Goto("install")) /\ UNCHANGED state
    /\ UNCHANGED <<folder, Process>>

DropOrphan ==
    /\ At("dropOrphan")
    /\ \/ target # "none" /\ ReplaceTarget("none") /\ state' = [state EXCEPT !.saidMissing = FALSE]
       \/ Refused(target # "none" /\ ~TargetInUse) /\ UNCHANGED state
    /\ End
    /\ UNCHANGED Process

(* A mistake tools_safe must catch: what is being downloaded is copied. *)
CopyWhileWritten ==
    /\ At("copyTarget")
    /\ target # "none"
    /\ op' = [op EXCEPT !.pc = "refreshOg", !.copy = target]
    /\ UNCHANGED <<folder, Process, state>>

(* atomic_copy of the target to yt-dlp-og.exe: the copy, and its rename. *)
CopyTarget ==
    /\ At("copyTarget")
    /\ \/ ~Writing /\ op' = [op EXCEPT !.pc = "refreshOg", !.copy = target] /\ UNCHANGED folder
       \/ Refused(~Writing) /\ End
    /\ UNCHANGED <<Process, state>>

RefreshOg ==
    /\ At("refreshOg")
    /\ \/ ReplaceOg(op.copy) /\ Goto("install")
       \/ Refused(~OgInUse) /\ End
    /\ UNCHANGED <<Process, state>>

(* atomic_copy of the wrapper to the target. *)
Install ==
    /\ At("install")
    /\ \/ /\ wrapper /\ ReplaceTarget("ours")
          /\ state' = [state EXCEPT !.recent = TRUE, !.saidMissing = FALSE]
       \/ Refused(wrapper /\ ~TargetInUse) /\ UNCHANGED state
    /\ End
    /\ UNCHANGED Process

-----------------------------------------------------------------------------
(* restore_now, and the ends of the process. *)

ShutdownBegins ==
    /\ life # "down" /\ op = Idle
    /\ ~state.restored
    /\ op' = [Idle EXCEPT !.pc = "look", !.job = "shutdown"]
    /\ state' = [state EXCEPT !.restored = TRUE]
    /\ UNCHANGED <<folder, Process>>

WriteFlag ==
    /\ At("flag")
    /\ \/ cleanExit' = TRUE
       \/ "fail" \in Events /\ UNCHANGED cleanExit
    /\ End
    /\ state' = [state EXCEPT !.clean = TRUE]
    /\ UNCHANGED <<folder, wrapper, starts, life>>

(* The rest of the shutdown is over; the tick thread may have gone on. *)
ProcessEnds ==
    /\ life # "down" /\ op = Idle
    /\ state.restored
    /\ life' = "down"
    /\ state' = [state EXCEPT !.recent = FALSE]
    /\ UNCHANGED <<folder, wrapper, cleanExit, starts, op>>

Crash ==
    /\ life # "down"
    /\ life' = "down"
    /\ op' = Idle
    /\ state' = NewState
    /\ UNCHANGED <<folder, wrapper, cleanExit, starts>>

-----------------------------------------------------------------------------
(* Around the process: MIN_REAPPLY_GAP passes, the wrapper is quarantined,  *)
(* and VRChat goes on.                                                      *)

GapEnds ==
    /\ state.recent
    /\ state' = [state EXCEPT !.recent = FALSE]
    /\ UNCHANGED <<folder, Process, op>>

WrapperChanges ==
    /\ "wrapper" \in Events
    /\ wrapper' = ~wrapper
    /\ UNCHANGED <<folder, cleanExit, starts, life, op, state>>

Midway == op # Idle
VRChatStep ==
    /\ \/ \E v \in Versions : VRChatUpdates(v)
       \/ DownloadBegins(Midway) \/ DownloadEnds(Midway)
       \/ Runs \/ Exits \/ OgVanishes
    /\ UNCHANGED patchVars

RestoreStep == Look \/ DiscardTarget \/ DiscardOg \/ MoveIn \/ MoveOver \/ Aside \/ Replace \/ PutBack
SweepStep == Unsweep \/ Sweep
TickStep == Capture \/ Captured \/ DropOrphan \/ CopyTarget \/ RefreshOg \/ Install
OpStep == RestoreStep \/ SweepStep \/ TickStep \/ Recover \/ WriteFlag
Tick == TickWithoutBackup \/ TickWithBackup

Next ==
    \/ ProcessStarts \/ RecoverBegins \/ Starts \/ Tick \/ ShutdownBegins \/ OpStep
    \/ ProcessEnds \/ Crash \/ GapEnds \/ WrapperChanges \/ VRChatStep

Spec == Init /\ [][Next]_vars

(* The operation under way goes on, the thread ticks and time passes. *)
FairSpec ==
    /\ Spec
    /\ WF_vars(OpStep) /\ WF_vars(Tick) /\ WF_vars(GapEnds)

-----------------------------------------------------------------------------
(* Properties. *)

(* VRChat's yt-dlp is backed up only once its download is complete, and is  *)
(* never replaced by an incomplete one (CHANGELOG.md:65).                   *)
BackupIsComplete == og = "none" \/ Complete(og)

(* The wrapper never stands in the Tools folder without the binary it falls *)
(* back to, in the middle of every operation and after a kill at any point  *)
(* of one, unless somebody else deleted the backup.                         *)
WrapperHasFallback == target = "ours" => Complete(og) \/ ogLost

(* Once a restore has succeeded the wrapper is not there until the watchdog *)
(* is started again, whatever its tick thread was about                     *)
(* (restore_now_racing_a_running_loop_never_leaves_the_wrapper).            *)
StoppedMeansNative == state.clean => target # "ours"

(* No step of the watchdog's takes the last complete binary of VRChat's     *)
(* away, whatever VRChat did since the step was decided on; one that is     *)
(* only among the files moved aside does not count, nor does one that is    *)
(* being downloaded.  The one exception is restore itself: between its look *)
(* at a newer binary and the discard of the backup, VRChat may begin to     *)
(* download over that binary, and the discard does not look again.  If such *)
(* a download is interrupted, no complete binary is left.                   *)
HasOriginal == Complete(target) \/ Complete(og)
NewerOverwritten == At("discardOg") /\ vrchat.download = "during"
OriginalKept ==
    [][op' # op /\ HasOriginal => HasOriginal' \/ ogLost \/ NewerOverwritten]_vars

(* When VRChat leaves its folder in peace, with no half of a download in    *)
(* it, the wrapper gets installed over a complete backup; without a binary  *)
(* to back up it does not stay.                                             *)
Peace ==
    /\ life = "ticking" /\ ~state.restored /\ wrapper
    /\ ~Writing /\ ~vrchat.runs /\ ~vrchat.ogRuns
    /\ target \notin {"stub", "partial"}
Settles ==
    <>[]Peace => <>[](target = "ours" /\ Complete(og)) \/ <>[](target # "ours" /\ ~HasOriginal)
=============================================================================
