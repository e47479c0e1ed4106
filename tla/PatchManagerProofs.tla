------------------------- MODULE PatchManagerProofs -------------------------
(***************************************************************************)
(* For any versions of VRChat's yt-dlp, any number of starts and any mix   *)
(* of events: the backup is complete, the wrapper has its fallback, and a  *)
(* successful restore lasts.                                               *)
(***************************************************************************)
EXTENDS PatchManager, TLAPS

WritesPartial == Writing => target \in {"stub", "partial"}

FilesSafe == BackupIsComplete /\ WrapperHasFallback /\ WritesPartial

(* What an operation that is about to use the backup relies on. *)
UsesBackup == {"captured", "install", "moveIn", "moveOver", "aside", "replace", "putBack"}
BackupStands == op.pc \in UsesBackup => Complete(og) \/ ogLost

(* A binary found complete is complete as long as nobody writes to it, and  *)
(* a download that began meanwhile outlasts the operation.                  *)
FoundIsComplete ==
    op.pc \in {"capture", "copyTarget", "discardOg"} =>
        vrchat.download = "during" \/ (~Writing /\ Complete(target))
CopyIsComplete == op.pc = "refreshOg" => Complete(op.copy)

(* So is the orphaned wrapper still the wrapper. *)
OrphanStands ==
    op.pc \in {"discardTarget", "dropOrphan"} =>
        vrchat.download = "during" \/ (~Writing /\ target = "ours")

(* A shutdown that has not failed has put the wrapper away. *)
RestoredIsNative ==
    /\ op.pc \in {"unsweep", "sweep"} =>
         op.job = "recover" \/ (op.job = "shutdown" /\ (op.failed \/ target # "ours"))
    /\ op.pc = "flag" => target # "ours"

(* Where the shutdown's operation runs, ticks are over. *)
ShutdownIsFinal ==
    /\ op.job = "shutdown" => state.restored
    /\ op.pc = "flag" => state.restored
    /\ state.clean => state.restored /\ op = Idle /\ target # "ours"
    /\ op.pc = "idle" => op = Idle

Safe ==
    /\ FilesSafe
    /\ BackupStands
    /\ FoundIsComplete
    /\ CopyIsComplete
    /\ OrphanStands
    /\ RestoredIsNative
    /\ ShutdownIsFinal

PatchInv == TypeOK /\ Safe

-----------------------------------------------------------------------------
(* Types, an action at a time. *)

LEMMA FolderTypes ==
    ASSUME FolderTypeOK
    PROVE  /\ MoveOgToTarget => FolderTypeOK'
           /\ MoveTargetToOg => FolderTypeOK'
           /\ MoveTargetAside => FolderTypeOK'
           /\ \A f \in stale : MoveBack(f) => FolderTypeOK'
           /\ DropOg => FolderTypeOK'
           /\ \A c \in Contents : ReplaceTarget(c) => FolderTypeOK'
           /\ \A c \in Contents : ReplaceOg(c) => FolderTypeOK'
           /\ DeleteStales => FolderTypeOK'
           /\ UNCHANGED folder => FolderTypeOK'
<1> "none" \in Contents
    BY DEF Contents
<1> USE DEF FolderTypeOK
<1>1. MoveOgToTarget => FolderTypeOK'
    BY DEF MoveOgToTarget, VRChatRecord
<1>2. MoveTargetToOg => FolderTypeOK'
    BY DEF MoveTargetToOg, VRChatRecord
<1>3. ASSUME MoveTargetAside PROVE FolderTypeOK'
    <2>1. PICK n \in 1 .. MaxStale :
            stale' = stale \cup {[content |-> target, runs |-> vrchat.runs, age |-> n]}
        BY <1>3 DEF MoveTargetAside
    <2>2. vrchat.runs \in BOOLEAN
        BY DEF VRChatRecord
    <2>3. [content |-> target, runs |-> vrchat.runs, age |-> n] \in StaleRecord
        BY <2>2 DEF StaleRecord
    <2>4. stale' \in SUBSET StaleRecord
        BY <2>1, <2>3
    <2>5. vrchat' \in VRChatRecord
        BY <1>3 DEF MoveTargetAside, VRChatRecord
    <2> QED BY <1>3, <2>4, <2>5 DEF MoveTargetAside
<1>4. ASSUME NEW f \in stale, MoveBack(f) PROVE FolderTypeOK'
    BY <1>4 DEF MoveBack, VRChatRecord, StaleRecord
<1>5. DropOg => FolderTypeOK'
    BY DEF DropOg, VRChatRecord
<1>6. ASSUME NEW c \in Contents, ReplaceTarget(c) PROVE FolderTypeOK'
    BY <1>6 DEF ReplaceTarget
<1>7. ASSUME NEW c \in Contents, ReplaceOg(c) PROVE FolderTypeOK'
    BY <1>7 DEF ReplaceOg
<1>8. DeleteStales => FolderTypeOK'
    BY DEF DeleteStales
<1>9. UNCHANGED folder => FolderTypeOK'
    BY DEF folder
<1> QED BY <1>1, <1>2, <1>3, <1>4, <1>5, <1>6, <1>7, <1>8, <1>9

LEMMA VRChatTypes ==
    ASSUME FolderTypeOK, VRChatStep
    PROVE  FolderTypeOK'
<1> /\ "stub" \in Contents /\ "partial" \in Contents /\ "none" \in Contents
    /\ Versions \subseteq Contents
    BY DEF Contents
<1> USE DEF FolderTypeOK
<1>1. ASSUME NEW v \in Versions, VRChatUpdates(v) PROVE FolderTypeOK'
    BY <1>1 DEF VRChatUpdates, VRChatRecord
<1>2. ASSUME DownloadBegins(Midway) PROVE FolderTypeOK'
    BY <1>2 DEF DownloadBegins, VRChatRecord
<1>3. ASSUME DownloadEnds(Midway) PROVE FolderTypeOK'
    BY <1>3 DEF DownloadEnds, VRChatRecord
<1>4. ASSUME Runs PROVE FolderTypeOK'
    BY <1>4 DEF Runs, VRChatRecord
<1>5. ASSUME Exits PROVE FolderTypeOK'
    BY <1>5 DEF Exits, VRChatRecord, StaleRecord
<1>6. ASSUME OgVanishes PROVE FolderTypeOK'
    BY <1>6 DEF OgVanishes
<1> QED BY <1>1, <1>2, <1>3, <1>4, <1>5, <1>6 DEF VRChatStep

LEMMA OpTypes ==
    ASSUME op \in OpRecord
    PROVE  /\ \A pc \in Pcs : Goto(pc) => op' \in OpRecord
           /\ End => op' \in OpRecord
           /\ Idle \in OpRecord
           /\ \A pc \in Pcs, job \in {"recover", "tick", "shutdown"} :
                 [Idle EXCEPT !.pc = pc, !.job = job] \in OpRecord
           /\ \A failed \in BOOLEAN : RestoreEnds(failed) => op' \in OpRecord
<1>1. "idle" \in Pcs /\ "unsweep" \in Pcs
    BY DEF Pcs
<1>2. Idle \in OpRecord
    BY <1>1 DEF Idle, OpRecord
<1>3. ASSUME NEW pc \in Pcs, NEW job \in {"recover", "tick", "shutdown"}
      PROVE  [Idle EXCEPT !.pc = pc, !.job = job] \in OpRecord
    BY <1>2, <1>3 DEF OpRecord
<1>4. ASSUME NEW pc \in Pcs, Goto(pc) PROVE op' \in OpRecord
    BY <1>4 DEF Goto, OpRecord
<1>5. ASSUME NEW failed \in BOOLEAN, RestoreEnds(failed) PROVE op' \in OpRecord
    BY <1>1, <1>2, <1>5 DEF RestoreEnds, End, OpRecord
<1> QED BY <1>2, <1>3, <1>4, <1>5 DEF End

LEMMA RestoreTypes ==
    ASSUME TypeOK, RestoreStep
    PROVE  TypeOK'
<1> DEFINE Kept == UNCHANGED <<Process, state>>
<1>p. /\ {"discardTarget", "discardOg", "moveIn", "moveOver", "aside", "replace", "putBack"} \subseteq Pcs
      /\ "none" \in Contents
    BY DEF Pcs, RestorePcs, Contents
<1>t. FolderTypeOK /\ op \in OpRecord /\ state \in StateRecord
    BY DEF TypeOK
<1>e. ASSUME NEW failed \in BOOLEAN, RestoreEnds(failed)
      PROVE  op' \in OpRecord /\ Kept
    BY <1>t, <1>e, OpTypes DEF RestoreEnds
<1>g. ASSUME NEW pc \in {"discardTarget", "discardOg", "moveIn", "moveOver", "aside", "replace", "putBack"},
             Goto(pc)
      PROVE  op' \in OpRecord
    BY <1>p, <1>t, <1>g, OpTypes
<1>k. ASSUME Kept, op' \in OpRecord, FolderTypeOK'
      PROVE  TypeOK'
    BY <1>t, <1>k DEF TypeOK, Process
<1> HIDE DEF Kept
<1>1. CASE Look
    BY <1>1, <1>e, <1>g, <1>k, <1>t, FolderTypes DEF Look, Kept
<1>2. CASE DiscardTarget
    <2>1. FolderTypeOK'
        BY <1>2, <1>p, <1>t, FolderTypes DEF DiscardTarget, Refused
    <2> QED BY <1>2, <1>e, <1>k, <2>1 DEF DiscardTarget
<1>3. CASE DiscardOg
    <2>1. FolderTypeOK'
        BY <1>3, <1>t, FolderTypes DEF DiscardOg, Refused
    <2> QED BY <1>3, <1>e, <1>k, <2>1 DEF DiscardOg
<1>4. CASE MoveIn
    <2>1. FolderTypeOK'
        BY <1>4, <1>t, FolderTypes DEF MoveIn, Refused
    <2> QED BY <1>4, <1>e, <1>k, <2>1 DEF MoveIn
<1>5. CASE MoveOver
    <2>1. FolderTypeOK'
        BY <1>5, <1>t, FolderTypes DEF MoveOver, Refused
    <2> QED BY <1>5, <1>e, <1>g, <1>k, <2>1 DEF MoveOver, Kept
<1>6. CASE Aside
    <2>1. FolderTypeOK'
        BY <1>6, <1>t, FolderTypes DEF Aside, Refused
    <2> QED BY <1>6, <1>e, <1>g, <1>k, <2>1 DEF Aside, Kept
<1>7. CASE Replace
    <2>1. FolderTypeOK'
        BY <1>7, <1>t, FolderTypes DEF Replace, Refused
    <2> QED BY <1>7, <1>e, <1>g, <1>k, <2>1 DEF Replace, Kept
<1>8. CASE PutBack
    <2>1. FolderTypeOK'
        BY <1>8, <1>t, FolderTypes DEF PutBack, Refused
    <2> QED BY <1>8, <1>e, <1>k, <2>1 DEF PutBack
<1> QED BY <1>1, <1>2, <1>3, <1>4, <1>5, <1>6, <1>7, <1>8 DEF RestoreStep

LEMMA TickTypes ==
    ASSUME TypeOK, FoundIsComplete, TickStep
    PROVE  TypeOK'
<1>p. /\ {"captured", "refreshOg", "install", "look"} \subseteq Pcs
      /\ "none" \in Contents /\ "ours" \in Contents /\ Versions \subseteq Contents
    BY DEF Pcs, RestorePcs, TickPcs, Contents
<1>t. FolderTypeOK /\ op \in OpRecord /\ state \in StateRecord
    BY DEF TypeOK
<1>g. ASSUME NEW pc \in {"captured", "refreshOg", "install", "look"}, Goto(pc)
      PROVE  op' \in OpRecord
    BY <1>p, <1>t, <1>g, OpTypes
<1>e. End => op' \in OpRecord
    BY <1>t, OpTypes
<1>s. /\ [state EXCEPT !.saidMissing = FALSE] \in StateRecord
      /\ [state EXCEPT !.saidMissing = TRUE] \in StateRecord
      /\ [state EXCEPT !.recent = TRUE, !.saidMissing = FALSE] \in StateRecord
    BY <1>t DEF StateRecord
<1>k. ASSUME UNCHANGED Process, op' \in OpRecord, FolderTypeOK', state' \in StateRecord
      PROVE  TypeOK'
    BY <1>k DEF TypeOK, Process
<1>1. CASE Capture
    <2>1. FolderTypeOK'
        BY <1>1, <1>t, FolderTypes DEF Capture, Refused
    <2> QED BY <1>1, <1>e, <1>g, <1>k, <1>s, <1>t, <2>1 DEF Capture
<1>2. CASE Captured
    <2>1. FolderTypeOK' /\ UNCHANGED Process
        BY <1>2, <1>t, FolderTypes DEF Captured, Process, folder
    <2> QED BY <1>2, <1>e, <1>g, <1>k, <1>s, <1>t, <2>1 DEF Captured
<1>3. CASE DropOrphan
    <2>1. FolderTypeOK'
        BY <1>3, <1>p, <1>t, FolderTypes DEF DropOrphan, Refused
    <2> QED BY <1>3, <1>e, <1>k, <1>s, <1>t, <2>1 DEF DropOrphan
<1>5. CASE RefreshOg
    <2>1. op.copy \in Contents
        BY <1>p, <1>t DEF OpRecord
    <2>2. FolderTypeOK'
        BY <1>5, <1>t, <2>1, FolderTypes DEF RefreshOg, Refused
    <2> QED BY <1>5, <1>e, <1>g, <1>k, <1>t, <2>2 DEF RefreshOg, Process
<1>6. CASE Install
    <2>1. FolderTypeOK'
        BY <1>6, <1>p, <1>t, FolderTypes DEF Install, Refused
    <2> QED BY <1>6, <1>e, <1>k, <1>s, <1>t, <2>1 DEF Install
<1>4. CASE CopyTarget
    <2>1. FolderTypeOK' /\ UNCHANGED <<Process, state>>
        BY <1>4, <1>t, FolderTypes DEF CopyTarget, Refused
    <2>2. CASE ~Writing /\ op' = [op EXCEPT !.pc = "refreshOg", !.copy = target]
        <3>1. target \in Versions
            BY <1>4, <2>2 DEF FoundIsComplete, CopyTarget, At, Writing, Complete
        <3>2. op' \in OpRecord
            BY <1>p, <1>t, <2>2, <3>1 DEF OpRecord
        <3> QED BY <1>k, <1>t, <2>1, <3>2
    <2>3. CASE End
        BY <1>e, <1>k, <1>t, <2>1, <2>3
    <2> QED BY <1>4, <2>2, <2>3 DEF CopyTarget
<1> QED BY <1>1, <1>2, <1>3, <1>4, <1>5, <1>6 DEF TickStep

LEMMA OtherTypes ==
    ASSUME TypeOK,
           \/ SweepStep \/ Recover \/ WriteFlag \/ Tick
           \/ ProcessStarts \/ RecoverBegins \/ Starts \/ ShutdownBegins
           \/ ProcessEnds \/ Crash \/ GapEnds \/ WrapperChanges \/ VRChatStep
    PROVE  TypeOK'
<1>p. {"unsweep", "sweep", "recover", "flag", "look", "capture", "dropOrphan", "install", "copyTarget"}
        \subseteq Pcs
    BY DEF Pcs, RestorePcs, TickPcs
<1>t. FolderTypeOK /\ op \in OpRecord /\ state \in StateRecord
    BY DEF TypeOK
<1>s. /\ NewState \in StateRecord
      /\ \A b \in BOOLEAN : [state EXCEPT !.saidMissing = b] \in StateRecord
      /\ [state EXCEPT !.restored = TRUE] \in StateRecord
      /\ [state EXCEPT !.clean = TRUE] \in StateRecord
      /\ [state EXCEPT !.recent = FALSE] \in StateRecord
    BY <1>t DEF NewState, StateRecord
<1>f. UNCHANGED folder => FolderTypeOK'
    BY <1>t, FolderTypes
<1>1. CASE Unsweep
    <2>1. FolderTypeOK'
        BY <1>1, <1>t, FolderTypes DEF Unsweep, Refused
    <2>2. op' \in OpRecord
        BY <1>1, <1>p, <1>t, OpTypes DEF Unsweep
    <2> QED BY <1>1, <2>1, <2>2 DEF Unsweep, TypeOK, Process
<1>2. CASE Sweep
    <2>1. FolderTypeOK'
        BY <1>2, <1>t, FolderTypes DEF Sweep, Refused
    <2>2. op' \in OpRecord
        BY <1>2, <1>p, <1>t, OpTypes DEF Sweep
    <2> QED BY <1>2, <2>1, <2>2 DEF Sweep, TypeOK, Process
<1>3. CASE Recover
    <2>1. op' \in OpRecord
        BY <1>3, <1>p, <1>t, OpTypes DEF Recover
    <2> QED BY <1>3, <1>f, <2>1 DEF Recover, TypeOK
<1>4. CASE WriteFlag
    <2>1. op' \in OpRecord
        BY <1>4, <1>t, OpTypes DEF WriteFlag
    <2> QED BY <1>4, <1>f, <1>s, <2>1 DEF WriteFlag, TypeOK
<1>5. CASE ProcessStarts
    <2>1. FolderTypeOK' /\ op' \in OpRecord /\ state' \in StateRecord
        BY <1>5, <1>f, <1>s, <1>t, OpTypes DEF ProcessStarts
    <2>2. starts' \in 0 .. MaxStarts
        BY <1>5, PatchAssumption DEF ProcessStarts, TypeOK
    <2> QED BY <1>5, <2>1, <2>2 DEF ProcessStarts, TypeOK
<1>6. CASE RecoverBegins
    <2>1. op' \in OpRecord
        BY <1>6, <1>p, <1>t, OpTypes DEF RecoverBegins
    <2> QED BY <1>6, <1>f, <2>1 DEF RecoverBegins, TypeOK
<1>7. CASE Starts
    BY <1>7, <1>f DEF Starts, TypeOK
<1>8. CASE ShutdownBegins
    <2>1. op' \in OpRecord
        BY <1>8, <1>p, <1>t, OpTypes DEF ShutdownBegins
    <2> QED BY <1>8, <1>f, <1>s, <2>1 DEF ShutdownBegins, TypeOK, Process
<1>9. CASE ProcessEnds \/ GapEnds
    BY <1>9, <1>f, <1>s DEF ProcessEnds, GapEnds, TypeOK, Process
<1>10. CASE Crash
    BY <1>10, <1>f, <1>s, <1>t, OpTypes DEF Crash, TypeOK
<1>11. CASE WrapperChanges
    BY <1>11, <1>f DEF WrapperChanges, TypeOK
<1>12. CASE VRChatStep
    <2>1. FolderTypeOK'
        BY <1>12, <1>t, VRChatTypes
    <2> QED BY <1>12, <2>1 DEF VRChatStep, TypeOK, patchVars
<1>13. CASE Tick
    <2>1. FolderTypeOK' /\ UNCHANGED Process
        BY <1>13, <1>t DEF Tick, TickWithoutBackup, TickWithBackup, TickBegins, FolderTypeOK
    <2>2. \E pc \in {"idle", "look", "capture", "dropOrphan", "install", "copyTarget"} :
             \E said \in BOOLEAN : Plan(pc, said)
        <3>1. state.saidMissing \in BOOLEAN
            BY <1>t DEF StateRecord
        <3>2. CASE TickWithoutBackup
            BY <3>1, <3>2 DEF TickWithoutBackup
        <3>3. CASE TickWithBackup
            BY <3>1, <3>3 DEF TickWithBackup
        <3> QED BY <1>13, <3>2, <3>3 DEF Tick
    <2>3. ASSUME NEW pc \in {"idle", "look", "capture", "dropOrphan", "install", "copyTarget"},
                 NEW said \in BOOLEAN, Plan(pc, said)
          PROVE  op' \in OpRecord /\ state' \in StateRecord
        <3>1. op' \in OpRecord
            BY <1>p, <1>t, <2>3, OpTypes DEF Plan
        <3>2. state' \in StateRecord
            BY <1>s, <2>3 DEF Plan
        <3> QED BY <3>1, <3>2
    <2> QED BY <2>1, <2>2, <2>3 DEF TypeOK, Process
<1> QED BY <1>1, <1>2, <1>3, <1>4, <1>5, <1>6, <1>7, <1>8, <1>9, <1>10, <1>11, <1>12, <1>13 DEF SweepStep

-----------------------------------------------------------------------------
(* Safety.  An operation under way is not after the end of a clean run.     *)

LEMMA Marks == \A c \in {"none", "ours", "stub", "partial"} : c \notin Versions
BY ToolsAssumption

LEMMA NotCleanMidway ==
    ASSUME TypeOK, Safe, op.pc # "idle"
    PROVE  ~state.clean /\ op # Idle
BY DEF Safe, ShutdownIsFinal, Idle

(* The ways out of a restore: to its caller, or to the next of its steps.   *)
LEMMA RestoreEndsSafely ==
    ASSUME TypeOK, Safe, op.pc # "idle",
           NEW failed \in BOOLEAN, RestoreEnds(failed),
           FilesSafe',
           failed \/ target' # "ours"
    PROVE  Safe'
<1>1. ~state.clean /\ state' = state
    BY NotCleanMidway DEF RestoreEnds
<1>2. \/ op' = Idle
      \/ /\ op.job = "shutdown"
         /\ op'.pc = "unsweep" /\ op'.job = "shutdown" /\ op'.failed = failed
    BY DEF RestoreEnds, End, TypeOK, OpRecord
<1>3. op.job = "shutdown" => state.restored
    BY DEF Safe, ShutdownIsFinal
<1>4. BackupStands' /\ FoundIsComplete' /\ CopyIsComplete' /\ OrphanStands'
    BY <1>2 DEF BackupStands, FoundIsComplete, CopyIsComplete, OrphanStands, UsesBackup, Idle
<1>5. RestoredIsNative'
    BY <1>2 DEF RestoredIsNative, Idle
<1>6. ShutdownIsFinal'
    BY <1>1, <1>2, <1>3 DEF ShutdownIsFinal, Idle
<1> QED BY <1>4, <1>5, <1>6 DEF Safe

LEMMA GoesOnSafely ==
    ASSUME TypeOK, Safe, op.pc # "idle",
           NEW pc \in Pcs \ {"idle", "unsweep", "sweep", "flag", "capture", "dropOrphan", "copyTarget", "refreshOg"},
           Goto(pc),
           state'.clean = state.clean, state'.restored = state.restored,
           FilesSafe',
           pc \in UsesBackup => Complete(og') \/ ogLost',
           pc = "discardOg" => ~Writing' /\ Complete(target'),
           pc = "discardTarget" => ~Writing' /\ target' = "ours"
    PROVE  Safe'
<1>1. ~state.clean
    BY NotCleanMidway
<1>2. op'.pc = pc /\ op'.job = op.job
    BY DEF Goto, TypeOK, OpRecord
<1>3. op.job = "shutdown" => state.restored
    BY DEF Safe, ShutdownIsFinal
<1>4. BackupStands' /\ FoundIsComplete' /\ CopyIsComplete' /\ OrphanStands'
    BY <1>2 DEF BackupStands, FoundIsComplete, CopyIsComplete, OrphanStands, Complete
<1>5. RestoredIsNative'
    BY <1>2 DEF RestoredIsNative
<1>6. ShutdownIsFinal'
    BY <1>1, <1>2, <1>3 DEF ShutdownIsFinal
<1> QED BY <1>4, <1>5, <1>6 DEF Safe

(* None of our moves begins or ends a download. *)
LEMMA DownloadStays ==
    ASSUME TypeOK
    PROVE  /\ MoveOgToTarget \/ MoveTargetToOg \/ MoveTargetAside \/ DropOg => (Writing' <=> Writing)
           /\ \A f \in stale : MoveBack(f) => (Writing' <=> Writing)
<1>1. \A b \in BOOLEAN, c \in BOOLEAN :
          /\ [vrchat EXCEPT !.runs = b].download = vrchat.download
          /\ [vrchat EXCEPT !.ogRuns = b].download = vrchat.download
          /\ [vrchat EXCEPT !.runs = b, !.ogRuns = c].download = vrchat.download
          /\ [vrchat EXCEPT !.ogRuns = b, !.runs = c].download = vrchat.download
    BY DEF TypeOK, FolderTypeOK, VRChatRecord
<1>2. vrchat.runs \in BOOLEAN /\ vrchat.ogRuns \in BOOLEAN /\ \A f \in stale : f.runs \in BOOLEAN
    BY DEF TypeOK, FolderTypeOK, VRChatRecord, StaleRecord
<1> QED BY <1>1, <1>2 DEF Writing, MoveOgToTarget, MoveTargetToOg, MoveTargetAside, DropOg, MoveBack

(* When a change of the files keeps them safe. *)
LEMMA FilesSafely ==
    ASSUME TypeOK, Safe
    PROVE  /\ MoveOgToTarget /\ (target = "none" \/ ~TargetInUse) => FilesSafe' /\ target' # "ours"
           /\ MoveTargetToOg /\ Complete(target) => FilesSafe' /\ Complete(og')
           /\ MoveTargetAside => FilesSafe' /\ target' = "none" /\ og' = og /\ ogLost' = ogLost
           /\ \A f \in stale : MoveBack(f) /\ (Bundled(f.content) \/ Complete(og) \/ ogLost) => FilesSafe'
           /\ DropOg /\ target # "ours" => FilesSafe' /\ target' = target
           /\ ReplaceTarget("none") => FilesSafe' /\ target' = "none"
           /\ ReplaceTarget("ours") /\ (Complete(og) \/ ogLost) => FilesSafe'
           /\ \A c \in Versions : ReplaceOg(c) => FilesSafe' /\ Complete(og')
           /\ UNCHANGED folder => FilesSafe' /\ target' = target /\ og' = og /\ ogLost' = ogLost
                                 /\ (Writing' <=> Writing)
<1>0. FilesSafe
    BY DEF Safe
<1>w. target = "none" \/ ~TargetInUse \/ CanMoveTarget => ~Writing
    BY <1>0 DEF FilesSafe, WritesPartial, TargetInUse, CanMoveTarget
<1> USE <1>0, Marks DEF FilesSafe, BackupIsComplete, WrapperHasFallback, WritesPartial, Complete
<1>1. MoveOgToTarget /\ (target = "none" \/ ~TargetInUse) => FilesSafe' /\ target' # "ours"
    BY <1>w, DownloadStays DEF MoveOgToTarget
<1>2. MoveTargetToOg /\ Complete(target) => FilesSafe' /\ Complete(og')
    BY <1>w, DownloadStays DEF MoveTargetToOg
<1>3. MoveTargetAside => FilesSafe' /\ target' = "none" /\ og' = og /\ ogLost' = ogLost
    BY <1>w, DownloadStays DEF MoveTargetAside
<1>4. ASSUME NEW f \in stale, MoveBack(f), Bundled(f.content) \/ Complete(og) \/ ogLost
      PROVE  FilesSafe'
    <2>1. ~Writing'
        BY <1>4, <1>w, DownloadStays DEF MoveBack
    <2> QED BY <1>4, <2>1 DEF MoveBack, Bundled
<1>5. DropOg /\ target # "ours" => FilesSafe' /\ target' = target
    BY DownloadStays DEF DropOg
<1>6. ReplaceTarget("none") => FilesSafe' /\ target' = "none"
    BY <1>w DEF ReplaceTarget, Writing
<1>7. ReplaceTarget("ours") /\ (Complete(og) \/ ogLost) => FilesSafe'
    BY <1>w DEF ReplaceTarget, Writing
<1>8. ASSUME NEW c \in Versions, ReplaceOg(c) PROVE FilesSafe' /\ Complete(og')
    BY <1>8 DEF ReplaceOg, Writing
<1>9. UNCHANGED folder => FilesSafe' /\ target' = target /\ og' = og /\ ogLost' = ogLost
                        /\ (Writing' <=> Writing)
    BY DEF folder, Writing
<1> QED BY <1>1, <1>2, <1>3, <1>4, <1>5, <1>6, <1>7, <1>8, <1>9

LEMMA RestoreSafely ==
    ASSUME TypeOK, Safe, RestoreStep
    PROVE  Safe'
<1> DEFINE Here == op.pc # "idle"
<1>p. /\ {"discardTarget", "discardOg", "moveIn", "moveOver", "aside", "replace", "putBack"}
            \subseteq Pcs \ {"idle", "unsweep", "sweep", "flag", "capture", "dropOrphan", "copyTarget", "refreshOg"}
      /\ {"captured", "install", "moveIn", "moveOver", "aside", "replace", "putBack"} = UsesBackup
    BY DEF Pcs, RestorePcs, UsesBackup
<1>s. FilesSafe /\ BackupStands /\ FoundIsComplete
    BY DEF Safe
<1>1. CASE Look
    <2>0. UNCHANGED folder /\ Here
        BY <1>1 DEF Look, At
    <2>f. FilesSafe' /\ target' = target /\ og' = og /\ ogLost' = ogLost
        BY <2>0, FilesSafely
    <2>1. CASE target # "ours" /\ RestoreEnds(FALSE)
        BY <2>0, <2>1, <2>f, RestoreEndsSafely
    <2>2. CASE target = "ours" /\ Goto("discardTarget") /\ UNCHANGED <<Process, state>>
        <3>1. ~Writing'
            BY <1>s, <2>0, <2>2 DEF FilesSafe, WritesPartial, Writing, folder
        <3> QED BY <1>p, <2>0, <2>2, <2>f, <3>1, GoesOnSafely
    <2>3. CASE Newer /\ Goto("discardOg") /\ UNCHANGED <<Process, state>>
        <3>1. ~Writing' /\ Complete(target')
            BY <1>s, <2>0, <2>3, Marks DEF Newer, Complete, FilesSafe, WritesPartial, Writing, folder
        <3> QED BY <1>p, <2>0, <2>3, <2>f, <3>1, GoesOnSafely
    <2>4. ASSUME NEW pc \in {"moveIn", "moveOver"}, og # "none", Goto(pc), UNCHANGED <<Process, state>>
          PROVE  Safe'
        <3>1. Complete(og')
            BY <1>s, <2>4, <2>f DEF FilesSafe, BackupIsComplete
        <3> QED BY <1>p, <2>0, <2>4, <2>f, <3>1, GoesOnSafely
    <2> QED BY <1>1, <2>1, <2>2, <2>3, <2>4 DEF Look
<1>2. CASE DiscardTarget
    <2>0. Here
        BY <1>2 DEF DiscardTarget, At
    <2>1. CASE (ReplaceTarget("none") \/ MoveTargetAside) /\ RestoreEnds(FALSE)
        BY <2>0, <2>1, FilesSafely, RestoreEndsSafely
    <2>2. CASE UNCHANGED folder /\ RestoreEnds(TRUE)
        BY <2>0, <2>2, FilesSafely, RestoreEndsSafely
    <2> QED BY <1>2, <2>1, <2>2 DEF DiscardTarget, Refused
<1>3. CASE DiscardOg
    <2>0. Here /\ target # "ours"
        BY <1>3, <1>s, Marks DEF DiscardOg, At, FoundIsComplete, FilesSafe, WritesPartial, Writing, Complete
    <2>1. FilesSafe' /\ target' = target
        BY <1>3, <2>0, FilesSafely DEF DiscardOg, Refused
    <2> QED BY <1>3, <2>0, <2>1, RestoreEndsSafely DEF DiscardOg
<1>4. CASE MoveIn
    <2>0. Here
        BY <1>4 DEF MoveIn, At
    <2> QED BY <1>4, <2>0, FilesSafely, RestoreEndsSafely DEF MoveIn, Refused
<1>5. CASE MoveOver
    <2>0. Here /\ (Complete(og) \/ ogLost)
        BY <1>5, <1>p, <1>s DEF MoveOver, At, BackupStands
    <2>1. CASE ~TargetInUse /\ MoveOgToTarget /\ RestoreEnds(FALSE)
        BY <2>0, <2>1, FilesSafely, RestoreEndsSafely
    <2>2. CASE UNCHANGED folder /\ RestoreEnds(TRUE)
        BY <2>0, <2>2, FilesSafely, RestoreEndsSafely
    <2>3. CASE UNCHANGED folder /\ Goto("aside") /\ UNCHANGED <<Process, state>>
        <3>1. Complete(og') \/ ogLost'
            BY <2>0, <2>3, FilesSafely
        <3> QED BY <1>p, <2>0, <2>3, <3>1, FilesSafely, GoesOnSafely
    <2> QED BY <1>5, <2>1, <2>2, <2>3 DEF MoveOver, Refused
<1>6. CASE Aside
    <2>0. Here /\ (Complete(og) \/ ogLost)
        BY <1>6, <1>p, <1>s DEF Aside, At, BackupStands
    <2>1. CASE MoveTargetAside /\ Goto("replace") /\ UNCHANGED <<Process, state>>
        <3>1. Complete(og') \/ ogLost'
            BY <2>0, <2>1, FilesSafely
        <3> QED BY <1>p, <2>0, <2>1, <3>1, FilesSafely, GoesOnSafely
    <2>2. CASE UNCHANGED folder /\ RestoreEnds(TRUE)
        BY <2>0, <2>2, FilesSafely, RestoreEndsSafely
    <2> QED BY <1>6, <2>1, <2>2 DEF Aside, Refused
<1>7. CASE Replace
    <2>0. Here /\ (Complete(og) \/ ogLost)
        BY <1>7, <1>p, <1>s DEF Replace, At, BackupStands
    <2>1. CASE target = "none" /\ MoveOgToTarget /\ RestoreEnds(FALSE)
        BY <2>0, <2>1, FilesSafely, RestoreEndsSafely
    <2>2. CASE UNCHANGED folder /\ Goto("putBack") /\ UNCHANGED <<Process, state>>
        <3>1. Complete(og') \/ ogLost'
            BY <2>0, <2>2, FilesSafely
        <3> QED BY <1>p, <2>0, <2>2, <3>1, FilesSafely, GoesOnSafely
    <2> QED BY <1>7, <2>1, <2>2 DEF Replace, Refused
<1>8. CASE PutBack
    <2>0. Here /\ (Complete(og) \/ ogLost)
        BY <1>8, <1>p, <1>s DEF PutBack, At, BackupStands
    <2>1. FilesSafe'
        BY <1>8, <2>0, FilesSafely DEF PutBack, Refused
    <2> QED BY <1>8, <2>0, <2>1, RestoreEndsSafely DEF PutBack
<1> QED BY <1>1, <1>2, <1>3, <1>4, <1>5, <1>6, <1>7, <1>8 DEF RestoreStep

LEMMA SweepSafely ==
    ASSUME TypeOK, Safe, SweepStep \/ Recover \/ WriteFlag
    PROVE  Safe'
<1>s. /\ FilesSafe /\ RestoredIsNative /\ ShutdownIsFinal
    BY DEF Safe
<1>o. op.job = "shutdown" => state.restored
    BY <1>s DEF ShutdownIsFinal
<1>1. CASE Unsweep
    <2>0. op.pc = "unsweep" /\ op'.pc = "sweep" /\ op'.job = op.job /\ op'.failed = op.failed
        BY <1>1 DEF Unsweep, At, Goto, TypeOK, OpRecord, Pcs
    <2>1. FilesSafe' /\ (target # "ours" => target' # "ours")
        BY <1>1, Marks, FilesSafely DEF Unsweep, MoveBack, Refused, Bundled
    <2>2. RestoredIsNative'
        BY <1>s, <2>0, <2>1 DEF RestoredIsNative
    <2>3. ShutdownIsFinal'
        BY <1>1, <1>o, <2>0, NotCleanMidway DEF Unsweep, ShutdownIsFinal
    <2>4. BackupStands' /\ FoundIsComplete' /\ CopyIsComplete' /\ OrphanStands'
        BY <2>0 DEF BackupStands, FoundIsComplete, CopyIsComplete, OrphanStands, UsesBackup
    <2> QED BY <2>1, <2>2, <2>3, <2>4 DEF Safe
<1>2. CASE Sweep
    <2>0. op.pc = "sweep" /\ ~state.clean /\ state' = state
        BY <1>2, NotCleanMidway DEF Sweep, At
    <2>1. /\ FilesSafe' /\ target' = target
        BY <1>2, <1>s, FilesSafely DEF Sweep, DeleteStales, Refused, FilesSafe, BackupIsComplete, WrapperHasFallback, WritesPartial, Writing
    <2>2. \/ op'.pc = "recover" /\ op'.job = op.job
          \/ op' = Idle
          \/ op'.pc = "flag" /\ op'.job = op.job /\ op.job # "recover" /\ ~op.failed
        BY <1>2 DEF Sweep, Goto, End, TypeOK, OpRecord
    <2>3. RestoredIsNative'
        BY <1>s, <2>0, <2>1, <2>2 DEF RestoredIsNative, Idle
    <2>4. ShutdownIsFinal'
        BY <1>o, <1>s, <2>0, <2>2 DEF ShutdownIsFinal, RestoredIsNative, Idle
    <2>5. BackupStands' /\ FoundIsComplete' /\ CopyIsComplete' /\ OrphanStands'
        BY <2>2 DEF BackupStands, FoundIsComplete, CopyIsComplete, OrphanStands, UsesBackup, Idle
    <2> QED BY <2>1, <2>3, <2>4, <2>5 DEF Safe
<1>3. CASE Recover
    <2>0. op.pc = "recover" /\ ~state.clean /\ state' = state
        BY <1>3, NotCleanMidway DEF Recover, At
    <2>1. FilesSafe'
        BY <1>3, FilesSafely DEF Recover
    <2>2. \/ op'.pc = "look" /\ op'.job = op.job
          \/ op' = Idle
        BY <1>3 DEF Recover, Goto, End, TypeOK, OpRecord
    <2>3. RestoredIsNative' /\ ShutdownIsFinal'
        BY <1>o, <2>0, <2>2 DEF RestoredIsNative, ShutdownIsFinal, Idle
    <2>5. BackupStands' /\ FoundIsComplete' /\ CopyIsComplete' /\ OrphanStands'
        BY <2>2 DEF BackupStands, FoundIsComplete, CopyIsComplete, OrphanStands, UsesBackup, Idle
    <2> QED BY <2>1, <2>3, <2>5 DEF Safe
<1>4. CASE WriteFlag
    <2>0. op.pc = "flag" /\ op' = Idle
        BY <1>4 DEF WriteFlag, At, End
    <2>1. FilesSafe' /\ target' = target
        BY <1>4, FilesSafely DEF WriteFlag
    <2>2. target # "ours" /\ state.restored
        BY <1>s, <2>0 DEF RestoredIsNative, ShutdownIsFinal
    <2>3. state'.restored = state.restored
        BY <1>4 DEF WriteFlag, TypeOK, StateRecord
    <2>4. RestoredIsNative' /\ ShutdownIsFinal'
        BY <2>0, <2>1, <2>2, <2>3 DEF RestoredIsNative, ShutdownIsFinal, Idle
    <2>5. BackupStands' /\ FoundIsComplete' /\ CopyIsComplete' /\ OrphanStands'
        BY <2>0 DEF BackupStands, FoundIsComplete, CopyIsComplete, OrphanStands, UsesBackup, Idle
    <2> QED BY <2>1, <2>4, <2>5 DEF Safe
<1> QED BY <1>1, <1>2, <1>3, <1>4 DEF SweepStep

(* An operation that is over leaves nothing but the files to look at. *)
LEMMA EndsSafely ==
    ASSUME TypeOK, Safe, op.pc # "idle", End,
           state'.clean = state.clean,
           FilesSafe'
    PROVE  Safe'
<1>1. ~state.clean
    BY NotCleanMidway
<1>2. BackupStands' /\ FoundIsComplete' /\ CopyIsComplete' /\ OrphanStands'
    BY DEF End, BackupStands, FoundIsComplete, CopyIsComplete, OrphanStands, UsesBackup, Idle
<1>3. RestoredIsNative' /\ ShutdownIsFinal'
    BY <1>1 DEF End, RestoredIsNative, ShutdownIsFinal, Idle
<1> QED BY <1>2, <1>3 DEF Safe

LEMMA TickStepSafely ==
    ASSUME TypeOK, Safe, TickStep
    PROVE  Safe'
<1>p. {"captured", "install", "look"} \subseteq
        Pcs \ {"idle", "unsweep", "sweep", "flag", "capture", "dropOrphan", "copyTarget", "refreshOg"}
    BY DEF Pcs, RestorePcs, TickPcs
<1>s. /\ FilesSafe /\ BackupStands
      /\ FoundIsComplete /\ CopyIsComplete
    BY DEF Safe
<1>f. /\ \A b \in BOOLEAN : /\ [state EXCEPT !.saidMissing = b].clean = state.clean
                            /\ [state EXCEPT !.saidMissing = b].restored = state.restored
      /\ [state EXCEPT !.recent = TRUE, !.saidMissing = FALSE].clean = state.clean
    BY DEF TypeOK, StateRecord
<1>1. CASE Capture
    <2>0. op.pc = "capture"
        BY <1>1 DEF Capture, At
    <2>1. CASE MoveTargetToOg /\ Goto("captured") /\ state' = [state EXCEPT !.saidMissing = FALSE]
        <3>1. Complete(target)
            BY <1>s, <2>0, <2>1 DEF FoundIsComplete, MoveTargetToOg, CanMoveTarget, Writing
        <3>3. FilesSafe' /\ Complete(og')
            BY <2>1, <3>1, FilesSafely
        <3> QED BY <1>f, <1>p, <2>0, <2>1, <3>3, GoesOnSafely
    <2>2. CASE UNCHANGED folder /\ End /\ UNCHANGED state
        BY <2>0, <2>2, FilesSafely, EndsSafely
    <2> QED BY <1>1, <2>1, <2>2 DEF Capture, Refused
<1>2. CASE Captured
    <2>0. op.pc = "captured" /\ UNCHANGED folder
        BY <1>2 DEF Captured, At
    <2>1. Complete(og) \/ ogLost
        BY <1>s, <2>0 DEF BackupStands, UsesBackup
    <2>2. FilesSafe' /\ (Complete(og') \/ ogLost')
        BY <2>0, <2>1, FilesSafely
    <2>3. CASE Goto("look") /\ state' = [state EXCEPT !.saidMissing = TRUE]
        BY <1>f, <1>p, <2>0, <2>2, <2>3, GoesOnSafely DEF UsesBackup
    <2>4. CASE End /\ UNCHANGED state
        BY <2>0, <2>2, <2>4, EndsSafely
    <2>5. CASE Goto("install") /\ UNCHANGED state
        BY <1>p, <2>0, <2>2, <2>5, GoesOnSafely
    <2> QED BY <1>2, <2>3, <2>4, <2>5 DEF Captured
<1>3. CASE DropOrphan
    <2>0. op.pc # "idle" /\ End
        BY <1>3 DEF DropOrphan, At
    <2>1. FilesSafe'
        BY <1>3, FilesSafely DEF DropOrphan, Refused
    <2>2. state'.clean = state.clean
        BY <1>3, <1>f DEF DropOrphan
    <2> QED BY <2>0, <2>1, <2>2, EndsSafely
<1>4. CASE CopyTarget
    <2>0. op.pc = "copyTarget" /\ UNCHANGED <<folder, state>>
        BY <1>4 DEF CopyTarget, At, Refused
    <2>1. FilesSafe'
        BY <2>0, FilesSafely
    <2>2. CASE ~Writing /\ op' = [op EXCEPT !.pc = "refreshOg", !.copy = target]
        <3>1. /\ op'.pc = "refreshOg" /\ op'.copy = target /\ op'.job = op.job
            BY <2>2 DEF TypeOK, OpRecord
        <3>2. Complete(target)
            BY <1>s, <2>0, <2>2 DEF FoundIsComplete, Writing
        <3>3. BackupStands' /\ FoundIsComplete' /\ CopyIsComplete' /\ OrphanStands'
            BY <3>1, <3>2 DEF BackupStands, FoundIsComplete, CopyIsComplete, OrphanStands, UsesBackup, Complete
        <3>4. op.job = "shutdown" => state.restored
            BY DEF Safe, ShutdownIsFinal
        <3>5. RestoredIsNative' /\ ShutdownIsFinal'
            BY <2>0, <3>1, <3>4, NotCleanMidway DEF RestoredIsNative, ShutdownIsFinal
        <3> QED BY <2>1, <3>3, <3>5 DEF Safe
    <2>3. CASE End
        BY <2>0, <2>1, <2>3, EndsSafely
    <2> QED BY <1>4, <2>2, <2>3 DEF CopyTarget
<1>5. CASE RefreshOg
    <2>0. op.pc = "refreshOg" /\ Complete(op.copy) /\ UNCHANGED state
        BY <1>5, <1>s DEF RefreshOg, At, CopyIsComplete
    <2>1. CASE ReplaceOg(op.copy) /\ Goto("install")
        <3>2. FilesSafe' /\ Complete(og')
            BY <2>0, <2>1, FilesSafely DEF Complete
        <3> QED BY <1>p, <2>0, <2>1, <3>2, GoesOnSafely
    <2>2. CASE UNCHANGED folder /\ End
        BY <2>0, <2>2, FilesSafely, EndsSafely
    <2> QED BY <1>5, <2>1, <2>2 DEF RefreshOg, Refused
<1>6. CASE Install
    <2>0. op.pc = "install" /\ End
        BY <1>6 DEF Install, At
    <2>1. Complete(og) \/ ogLost
        BY <1>s, <2>0 DEF BackupStands, UsesBackup
    <2>2. FilesSafe'
        BY <1>6, <2>1, FilesSafely DEF Install, Refused
    <2>3. state'.clean = state.clean
        BY <1>6, <1>f DEF Install
    <2> QED BY <2>0, <2>2, <2>3, EndsSafely
<1> QED BY <1>1, <1>2, <1>3, <1>4, <1>5, <1>6 DEF TickStep

(* A tick decides on a settled, complete binary that nobody uses, or on the *)
(* backup it has seen.                                                      *)
LEMMA TickSafely ==
    ASSUME TypeOK, Safe, Tick
    PROVE  Safe'
<1>s. FilesSafe
    BY DEF Safe
<1>0. /\ op = Idle /\ ~state.restored
      /\ target' = target /\ og' = og /\ ogLost' = ogLost /\ vrchat' = vrchat
    BY DEF Tick, TickWithoutBackup, TickWithBackup, TickBegins
<1>1. FilesSafe'
    BY <1>0, <1>s DEF FilesSafe, BackupIsComplete, WrapperHasFallback, WritesPartial, Writing, Complete
<1>2. ASSUME NEW pc \in {"idle", "look", "capture", "dropOrphan", "install", "copyTarget"},
             NEW said \in BOOLEAN, Plan(pc, said),
             pc = "install" => og # "none",
             pc \in {"capture", "copyTarget"} => Capturable,
             pc = "dropOrphan" => target = "ours" /\ ~TargetInUse
      PROVE  Safe'
    <2>1. state'.clean = state.clean /\ state'.restored = state.restored /\ ~state.clean
        BY <1>0, <1>2 DEF Plan, TypeOK, StateRecord, Safe, ShutdownIsFinal
    <2>2. op'.pc = pc /\ op'.job # "shutdown" /\ (pc = "idle" => op' = Idle)
        BY <1>2 DEF Plan, Idle
    <2>3. BackupStands'
        BY <1>0, <1>2, <1>s, <2>2 DEF BackupStands, UsesBackup, FilesSafe, BackupIsComplete, Complete
    <2>4. FoundIsComplete'
        BY <1>0, <1>2, <2>2
           DEF FoundIsComplete, Capturable, Settled, TargetInUse, Writing, Complete
    <2>5. OrphanStands'
        BY <1>0, <1>2, <2>2 DEF OrphanStands, TargetInUse, Writing
    <2>7. CopyIsComplete' /\ RestoredIsNative'
        BY <2>2 DEF CopyIsComplete, RestoredIsNative
    <2>6. ShutdownIsFinal'
        BY <2>1, <2>2 DEF ShutdownIsFinal
    <2> QED BY <1>1, <2>3, <2>4, <2>5, <2>6, <2>7 DEF Safe
<1>3. state.saidMissing \in BOOLEAN
    BY DEF TypeOK, StateRecord
<1>4. CASE TickWithoutBackup
    BY <1>2, <1>3, <1>4 DEF TickWithoutBackup
<1>5. CASE TickWithBackup
    BY <1>2, <1>3, <1>5 DEF TickWithBackup
<1> QED BY <1>4, <1>5 DEF Tick

LEMMA ProcessSafely ==
    ASSUME TypeOK, Safe,
           \/ ProcessStarts \/ RecoverBegins \/ Starts \/ ShutdownBegins
           \/ ProcessEnds \/ Crash \/ GapEnds \/ WrapperChanges
    PROVE  Safe'
<1>s. /\ FilesSafe /\ BackupStands /\ FoundIsComplete
      /\ CopyIsComplete /\ OrphanStands /\ RestoredIsNative /\ ShutdownIsFinal
    BY DEF Safe
<1>0. UNCHANGED folder
    BY DEF ProcessStarts, RecoverBegins, Starts, ShutdownBegins, ProcessEnds, Crash, GapEnds, WrapperChanges
<1>1. /\ target' = target /\ og' = og /\ ogLost' = ogLost /\ vrchat' = vrchat
      /\ FilesSafe'
    BY <1>0, FilesSafely DEF folder
<1>2. ASSUME op' = op, state'.clean = state.clean, state'.restored = state.restored
      PROVE  Safe'
    <2>1. BackupStands' /\ FoundIsComplete' /\ CopyIsComplete' /\ OrphanStands'
        BY <1>1, <1>2, <1>s
           DEF BackupStands, FoundIsComplete, CopyIsComplete, OrphanStands, Writing, Complete
    <2>2. RestoredIsNative' /\ ShutdownIsFinal'
        BY <1>1, <1>2, <1>s DEF RestoredIsNative, ShutdownIsFinal
    <2> QED BY <1>1, <2>1, <2>2 DEF Safe
<1>3. ASSUME op' = Idle, ~state'.clean
      PROVE  Safe'
    <2>1. BackupStands' /\ FoundIsComplete' /\ CopyIsComplete' /\ OrphanStands'
        BY <1>3 DEF BackupStands, FoundIsComplete, CopyIsComplete, OrphanStands, UsesBackup, Idle
    <2>2. RestoredIsNative' /\ ShutdownIsFinal'
        BY <1>3 DEF RestoredIsNative, ShutdownIsFinal, Idle
    <2> QED BY <1>1, <2>1, <2>2 DEF Safe
<1>4. CASE ProcessStarts
    BY <1>3, <1>4 DEF ProcessStarts, NewState
<1>5. CASE RecoverBegins
    <2>1. CASE state.restored
        <3>1. op' = op /\ state' = state
            BY <1>5, <2>1 DEF RecoverBegins
        <3> QED BY <1>2, <3>1
    <2>2. CASE ~state.restored
        <3>1. /\ op'.pc = "unsweep" /\ op'.job = "recover" /\ state' = state /\ ~state.clean
            BY <1>5, <1>s, <2>2 DEF RecoverBegins, Idle, ShutdownIsFinal
        <3>2. BackupStands' /\ FoundIsComplete' /\ CopyIsComplete' /\ OrphanStands'
            BY <3>1 DEF BackupStands, FoundIsComplete, CopyIsComplete, OrphanStands, UsesBackup
        <3>3. RestoredIsNative' /\ ShutdownIsFinal'
            BY <3>1 DEF RestoredIsNative, ShutdownIsFinal
        <3> QED BY <1>1, <3>2, <3>3 DEF Safe
    <2> QED BY <2>1, <2>2
<1>6. CASE Starts \/ WrapperChanges
    BY <1>2, <1>6 DEF Starts, WrapperChanges
<1>7. CASE ShutdownBegins
    <2>1. /\ op'.pc = "look" /\ op'.job = "shutdown"
          /\ state'.restored /\ ~state'.clean
        BY <1>7, <1>s DEF ShutdownBegins, Idle, TypeOK, StateRecord, ShutdownIsFinal
    <2>2. BackupStands' /\ FoundIsComplete' /\ CopyIsComplete' /\ OrphanStands'
        BY <2>1 DEF BackupStands, FoundIsComplete, CopyIsComplete, OrphanStands, UsesBackup
    <2>3. RestoredIsNative' /\ ShutdownIsFinal'
        BY <2>1 DEF RestoredIsNative, ShutdownIsFinal
    <2> QED BY <1>1, <2>2, <2>3 DEF Safe
<1>8. CASE ProcessEnds \/ GapEnds
    <2>1. op' = op /\ state' = [state EXCEPT !.recent = FALSE]
        BY <1>8 DEF ProcessEnds, GapEnds
    <2>2. state'.clean = state.clean /\ state'.restored = state.restored
        BY <2>1 DEF TypeOK, StateRecord
    <2> QED BY <1>2, <2>1, <2>2
<1>9. CASE Crash
    BY <1>3, <1>9 DEF Crash, NewState
<1> QED BY <1>4, <1>5, <1>6, <1>7, <1>8, <1>9

(* VRChat writes nothing but its own binary, and only somebody else takes   *)
(* the backup away.                                                         *)
LEMMA VRChatSafely ==
    ASSUME TypeOK, Safe, VRChatStep
    PROVE  Safe'
<1>s. /\ FilesSafe /\ BackupStands /\ FoundIsComplete
      /\ CopyIsComplete /\ OrphanStands /\ RestoredIsNative /\ ShutdownIsFinal
    BY DEF Safe
<1>0. op' = op /\ state' = state
    BY DEF VRChatStep, patchVars
<1>1. /\ target' = target \/ target' # "ours"
      /\ (og' = og /\ ogLost' = ogLost) \/ (og' = "none" /\ ogLost')
    BY Marks DEF VRChatStep, VRChatUpdates, DownloadBegins, DownloadEnds, Runs, Exits, OgVanishes,
                 TypeOK, FolderTypeOK, VRChatRecord
<1>2. BackupIsComplete' /\ WrapperHasFallback' /\ BackupStands'
    BY <1>0, <1>1, <1>s DEF FilesSafe, BackupIsComplete, WrapperHasFallback, BackupStands, Complete
<1>3. CopyIsComplete' /\ RestoredIsNative' /\ ShutdownIsFinal'
    BY <1>0, <1>1, <1>s DEF CopyIsComplete, RestoredIsNative, ShutdownIsFinal, Complete
<1>4. \/ Writing' /\ target' \in {"stub", "partial"} /\ (Midway => vrchat'.download = "during")
      \/ Writing /\ ~Writing' /\ ~(Midway /\ vrchat.download = "during")
      \/ target' = target /\ vrchat'.download = vrchat.download
    <2>1. CASE DownloadBegins(Midway)
        BY <2>1 DEF DownloadBegins, Writing, TypeOK, FolderTypeOK, VRChatRecord
    <2>2. CASE DownloadEnds(Midway)
        BY <2>2 DEF DownloadEnds, Writing, TypeOK, FolderTypeOK, VRChatRecord
    <2>3. CASE ~DownloadBegins(Midway) /\ ~DownloadEnds(Midway)
        BY <2>3 DEF VRChatStep, VRChatUpdates, Runs, Exits, OgVanishes, TypeOK, FolderTypeOK, VRChatRecord
    <2> QED BY <2>1, <2>2, <2>3
<1>5. WritesPartial'
    BY <1>4, <1>s DEF FilesSafe, WritesPartial, Writing
<1>6. FoundIsComplete' /\ OrphanStands'
    <2>1. op.pc # "idle" => Midway
        BY DEF Midway, Idle
    <2> QED BY <1>0, <1>4, <1>s, <2>1 DEF FoundIsComplete, OrphanStands, Writing, Complete
<1> QED BY <1>2, <1>3, <1>5, <1>6 DEF Safe, FilesSafe

-----------------------------------------------------------------------------
LEMMA InitPatchInv == Init => PatchInv
<1> SUFFICES ASSUME Init PROVE PatchInv
    OBVIOUS
<1>1. TypeOK
    <2>1. FolderTypeOK
        <3>1. target \in Contents /\ og \in Contents /\ stale \in SUBSET StaleRecord
            BY DEF Init, FolderInit, Contents
        <3>2. vrchat \in VRChatRecord
            BY DEF Init, FolderInit, VRChatRecord
        <3>3. changed \in BOOLEAN /\ ogLost \in BOOLEAN
            BY DEF Init, FolderInit
        <3> QED BY <3>1, <3>2, <3>3 DEF FolderTypeOK
    <2>2. op \in OpRecord
        BY DEF Init, Idle, OpRecord, Pcs
    <2>3. state \in StateRecord
        BY DEF Init, NewState, StateRecord
    <2>4. starts \in 0 .. MaxStarts
        BY PatchAssumption DEF Init
    <2>5. wrapper \in BOOLEAN /\ cleanExit \in BOOLEAN /\ life = "down"
        BY DEF Init
    <2> QED BY <2>1, <2>2, <2>3, <2>4, <2>5 DEF TypeOK
<1>2. og = "none" /\ target # "ours" /\ op = Idle /\ state = NewState
    BY Marks DEF Init, FolderInit
<1>3. Safe
    BY <1>2 DEF Init, FolderInit, Safe, FilesSafe, BackupIsComplete, WrapperHasFallback, WritesPartial, Writing,
                BackupStands, FoundIsComplete, CopyIsComplete, OrphanStands, RestoredIsNative, ShutdownIsFinal, UsesBackup, Idle, NewState
<1> QED BY <1>1, <1>3 DEF PatchInv

LEMMA NextPatchInv == PatchInv /\ [Next]_vars => PatchInv'
<1> SUFFICES ASSUME TypeOK, Safe, [Next]_vars PROVE TypeOK' /\ Safe'
    BY DEF PatchInv
<1>1. FoundIsComplete
    BY DEF Safe
<1>2. CASE OpStep
    <2>1. TypeOK'
        BY <1>1, <1>2, RestoreTypes, TickTypes, OtherTypes DEF OpStep
    <2>2. Safe'
        BY <1>2, RestoreSafely, SweepSafely, TickStepSafely DEF OpStep
    <2> QED BY <2>1, <2>2
<1>3. CASE Next /\ ~OpStep
    <2>1. TypeOK'
        BY <1>3, OtherTypes DEF Next
    <2>2. Safe'
        BY <1>3, TickSafely, ProcessSafely, VRChatSafely DEF Next
    <2> QED BY <2>1, <2>2
<1>4. CASE UNCHANGED vars
    <2>1. TypeOK'
        BY <1>4 DEF vars, folder, patchVars, TypeOK, FolderTypeOK
    <2>2. Safe'
        BY <1>4 DEF vars, folder, patchVars, Safe, FilesSafe, BackupIsComplete, WrapperHasFallback, WritesPartial, Writing, BackupStands,
                    FoundIsComplete, CopyIsComplete, OrphanStands, RestoredIsNative, ShutdownIsFinal,
                    Writing, Complete
    <2> QED BY <2>1, <2>2
<1> QED BY <1>2, <1>3, <1>4

(* What a step of ours takes away there is another of, or it is not VRChat's. *)
LEMMA KeepsOriginal ==
    ASSUME TypeOK, Safe, Next, op' # op, HasOriginal, ~ogLost, ~NewerOverwritten
    PROVE  HasOriginal'
<1>s. FilesSafe /\ BackupStands /\ FoundIsComplete /\ OrphanStands /\ CopyIsComplete
    BY DEF Safe
<1>w. Writing => target # "none"
    BY <1>s DEF FilesSafe, WritesPartial
<1>u. target' = target /\ og' = og /\ vrchat' = vrchat => HasOriginal'
    BY DEF HasOriginal, Complete, Writing
<1>f. UNCHANGED folder => HasOriginal'
    BY <1>u DEF folder
<1>g. og' = og /\ Complete(og) => HasOriginal'
    BY DEF HasOriginal, Complete
<1>1. ASSUME op.pc \in UsesBackup
      PROVE  /\ Complete(og)
             /\ MoveOgToTarget \/ MoveTargetAside \/ ReplaceTarget("ours") => HasOriginal'
             /\ \A f \in stale : MoveBack(f) => HasOriginal'
    <2>1. Complete(og)
        BY <1>1, <1>s DEF BackupStands
    <2> QED BY <1>g, <2>1 DEF MoveOgToTarget, MoveTargetAside, ReplaceTarget, MoveBack, HasOriginal, Complete
<1>2. ASSUME op.pc \in {"discardTarget", "dropOrphan"}
      PROVE  ReplaceTarget("none") \/ MoveTargetAside => HasOriginal'
    <2>1. SUFFICES ASSUME ReplaceTarget("none") \/ MoveTargetAside PROVE HasOriginal'
        OBVIOUS
    <2>2. ~Writing /\ og' = og
        BY <1>w, <2>1 DEF ReplaceTarget, MoveTargetAside, TargetInUse, CanMoveTarget
    <2>3. target = "ours"
        BY <1>2, <1>s, <2>2 DEF OrphanStands, Writing
    <2> QED BY <1>g, <2>2, <2>3, Marks DEF HasOriginal, Complete
<1>3. CASE RestoreStep
    <2>1. CASE Look
        BY <1>f, <2>1 DEF Look
    <2>2. CASE DiscardTarget
        BY <1>2, <1>f, <2>2 DEF DiscardTarget, At, Refused
    <2>3. CASE DiscardOg
        <3>1. Complete(target)
            BY <1>s, <2>3 DEF DiscardOg, At, FoundIsComplete, NewerOverwritten
        <3>2. CASE DropOg
            BY <3>1, <3>2 DEF DropOg, HasOriginal, Complete
        <3> QED BY <1>f, <2>3, <3>2 DEF DiscardOg, Refused
    <2>4. CASE MoveIn \/ MoveOver \/ Aside \/ Replace \/ PutBack
        <3>1. op.pc \in UsesBackup
            BY <2>4 DEF MoveIn, MoveOver, Aside, Replace, PutBack, At, UsesBackup
        <3> QED BY <1>1, <1>f, <2>4, <3>1 DEF MoveIn, MoveOver, Aside, Replace, PutBack, Refused
    <2> QED BY <1>3, <2>1, <2>2, <2>3, <2>4 DEF RestoreStep
<1>4. CASE SweepStep
    <2>1. CASE Sweep
        BY <1>f, <1>u, <2>1 DEF Sweep, DeleteStales, Refused
    <2>2. ASSUME NEW f \in stale, og = "none", MoveBack(f)
          PROVE  FALSE
        BY <1>w, <2>2, Marks DEF MoveBack, HasOriginal, Complete
    <2>3. CASE Unsweep
        BY <1>f, <2>2, <2>3 DEF Unsweep, Refused
    <2> QED BY <1>4, <2>1, <2>3 DEF SweepStep
<1>5. CASE TickStep
    <2>1. CASE Capture
        <3>1. MoveTargetToOg => Complete(target)
            BY <1>s, <2>1 DEF Capture, At, FoundIsComplete, MoveTargetToOg, CanMoveTarget, Writing
        <3> QED BY <1>f, <2>1, <3>1, FilesSafely DEF Capture, Refused, HasOriginal
    <2>2. CASE Captured \/ CopyTarget
        BY <1>f, <2>2 DEF Captured, CopyTarget, Refused
    <2>3. CASE DropOrphan
        BY <1>2, <1>f, <2>3 DEF DropOrphan, At, Refused
    <2>4. CASE RefreshOg
        BY <1>f, <1>s, <2>4, FilesSafely DEF RefreshOg, At, CopyIsComplete, Complete, Refused, HasOriginal
    <2>5. CASE Install
        BY <1>1, <1>f, <2>5 DEF Install, At, UsesBackup, Refused
    <2> QED BY <1>5, <2>1, <2>2, <2>3, <2>4, <2>5 DEF TickStep
<1>6. CASE Recover \/ WriteFlag \/ ProcessStarts \/ RecoverBegins \/ Starts \/ ShutdownBegins
           \/ ProcessEnds \/ Crash \/ GapEnds \/ WrapperChanges
    BY <1>6, <1>f DEF Recover, WriteFlag, ProcessStarts, RecoverBegins, Starts, ShutdownBegins,
                      ProcessEnds, Crash, GapEnds, WrapperChanges
<1>7. CASE Tick
    BY <1>7, <1>u DEF Tick, TickWithoutBackup, TickWithBackup, TickBegins
<1>8. CASE VRChatStep
    BY <1>8 DEF VRChatStep, patchVars
<1> QED BY <1>3, <1>4, <1>5, <1>6, <1>7, <1>8 DEF Next, OpStep

LEMMA AlwaysPatchInv == Spec => []PatchInv
BY InitPatchInv, NextPatchInv, PTL DEF Spec

(* The files, the operation and the tick state keep their types; what is    *)
(* copied to the backup is a complete binary.                               *)
THEOREM PatchTypeCorrect == Spec => []TypeOK
<1>1. PatchInv => TypeOK
    BY DEF PatchInv
<1> QED BY <1>1, AlwaysPatchInv, PTL

(* The backup is never half a download. *)
THEOREM BackupAlwaysComplete == Spec => []BackupIsComplete
<1>1. PatchInv => BackupIsComplete
    BY DEF PatchInv, Safe, FilesSafe
<1> QED BY <1>1, AlwaysPatchInv, PTL

(* The wrapper is never in the Tools folder without a binary to fall back   *)
(* to, unless somebody else deleted it.                                     *)
THEOREM WrapperAlwaysHasFallback == Spec => []WrapperHasFallback
<1>1. PatchInv => WrapperHasFallback
    BY DEF PatchInv, Safe, FilesSafe
<1> QED BY <1>1, AlwaysPatchInv, PTL

(* After a successful restore the wrapper stays away. *)
THEOREM StoppedAlwaysNative == Spec => []StoppedMeansNative
<1>1. PatchInv => StoppedMeansNative
    BY DEF PatchInv, Safe, ShutdownIsFinal, StoppedMeansNative
<1> QED BY <1>1, AlwaysPatchInv, PTL

(* No step of the watchdog's takes away the last complete binary, but the   *)
(* discard of a backup for a newer binary VRChat began to download over     *)
(* since the look.                                                          *)
THEOREM OriginalAlwaysKept == Spec => OriginalKept
<1>1. PatchInv /\ [Next]_vars
      => [op' # op /\ HasOriginal => HasOriginal' \/ ogLost \/ NewerOverwritten]_vars
    <2>1. ASSUME PatchInv, Next, op' # op, HasOriginal, ~ogLost, ~NewerOverwritten
          PROVE  HasOriginal'
        BY <2>1, KeepsOriginal DEF PatchInv
    <2> QED BY <2>1
<1> QED BY <1>1, AlwaysPatchInv, PTL DEF Spec, OriginalKept
=============================================================================
