----------------------------- MODULE ToolsFolder -----------------------------
(***************************************************************************)
(* The files of VRChat's Tools folder and who may touch them.  VRChat      *)
(* downloads its yt-dlp.exe there and runs it.  The watchdog keeps that    *)
(* binary as yt-dlp-og.exe, puts its wrapper in its place, and moves it    *)
(* back (crates/vrcr-shared/src/tools.rs).  A file that is executed can be *)
(* renamed but neither replaced nor deleted; one that is being written can *)
(* be neither.                                                             *)
(***************************************************************************)
EXTENDS Naturals

CONSTANTS
    Versions,   \* complete yt-dlp binaries VRChat may download
    MaxStale,   \* bound: how many files moved aside lie in the folder
    Events      \* bound: what may happen in one behaviour

ASSUME ToolsAssumption ==
    /\ Versions \cap {"none", "ours", "stub", "partial"} = {}
    /\ Versions # {}
    /\ MaxStale \in Nat
    /\ Events \subseteq {"update", "interrupt", "run", "fail", "lose", "wrapper"}

(* A download that stopped is a "stub" too small to tell what it is, or     *)
(* "partial" but large enough to be taken for VRChat's.                     *)
Contents == {"none", "ours", "stub", "partial"} \cup Versions

Bundled(c) == c = "partial" \/ c \in Versions       \* WrapperKind::VrcBundledYtDlp
Complete(c) == c \in Versions                       \* looks_complete, of a bundled one

VARIABLES
    target,     \* yt-dlp.exe
    og,         \* yt-dlp-og.exe
    stale,      \* yt-dlp.exe.stale-*: what was moved aside, and whether it still runs
    changed,    \* yt-dlp.exe has another Stamp than the last tick saw
    ogLost,     \* history: somebody else deleted yt-dlp-og.exe
    vrchat      \* which version it wants, and what it does with the files

folder == <<target, og, stale, changed, ogLost, vrchat>>

(* "during": a download that began in the middle of an operation of ours.   *)
VRChatRecord == [wants : Versions, download : {"none", "before", "during"},
                 runs : BOOLEAN, ogRuns : BOOLEAN]

StaleRecord == [content : Contents, runs : BOOLEAN, age : 1 .. MaxStale]

FolderTypeOK ==
    /\ target \in Contents
    /\ og \in Contents
    /\ stale \in SUBSET StaleRecord
    /\ changed \in BOOLEAN
    /\ ogLost \in BOOLEAN
    /\ vrchat \in VRChatRecord

FolderInit ==
    /\ target \in {"none"} \cup Versions
    /\ og = "none"
    /\ stale = {}
    /\ changed = TRUE
    /\ ogLost = FALSE
    /\ vrchat \in [wants : Versions, download : {"none"}, runs : {FALSE}, ogRuns : {FALSE}]

-----------------------------------------------------------------------------
(* What the file system allows. *)

Writing == vrchat.download # "none"
TargetInUse == target # "none" /\ (vrchat.runs \/ Writing)      \* is_target_in_use
OgInUse == og # "none" /\ vrchat.ogRuns
CanMoveTarget == target # "none" /\ ~Writing

(* yt-dlp-og.exe becomes yt-dlp.exe; what executes it goes on doing so. *)
MoveOgToTarget ==
    /\ og # "none"
    /\ target' = og
    /\ changed' = TRUE
    /\ og' = "none"
    /\ vrchat' = [vrchat EXCEPT !.runs = vrchat.ogRuns, !.ogRuns = FALSE]
    /\ UNCHANGED <<stale, ogLost>>

MoveTargetToOg ==
    /\ CanMoveTarget
    /\ og = "none"
    /\ og' = target
    /\ target' = "none"
    /\ changed' = TRUE
    /\ ogLost' = FALSE
    /\ vrchat' = [vrchat EXCEPT !.ogRuns = vrchat.runs, !.runs = FALSE]
    /\ UNCHANGED stale

(* The stamp in the name of a file moved aside makes it the newest. *)
Newest(f) == \A other \in stale : other.age <= f.age
NextAge(n) == (\A f \in stale : f.age < n) /\ (n = 1 \/ \E f \in stale : f.age = n - 1)

(* It counts seconds: a file moved aside in the same second has the name.   *)
NameIsFree == stale = {}

MoveTargetAside ==
    /\ CanMoveTarget
    /\ \E n \in 1 .. MaxStale :
          /\ NextAge(n)
          /\ stale' = stale \cup {[content |-> target, runs |-> vrchat.runs, age |-> n]}
    /\ target' = "none"
    /\ changed' = TRUE
    /\ vrchat' = [vrchat EXCEPT !.runs = FALSE]
    /\ UNCHANGED <<og, ogLost>>

MoveBack(f) ==
    /\ target = "none"
    /\ target' = f.content
    /\ stale' = stale \ {f}
    /\ changed' = TRUE
    /\ vrchat' = [vrchat EXCEPT !.runs = f.runs]
    /\ UNCHANGED <<og, ogLost>>

DropOg ==
    /\ og' = "none"
    /\ vrchat' = [vrchat EXCEPT !.ogRuns = FALSE]
    /\ UNCHANGED <<target, stale, changed, ogLost>>

(* remove_file, or the rename of a copy over the target. *)
ReplaceTarget(content) ==
    /\ ~TargetInUse
    /\ target' = content
    /\ changed' = TRUE
    /\ UNCHANGED <<og, stale, ogLost, vrchat>>

ReplaceOg(content) ==
    /\ ~OgInUse
    /\ og' = content
    /\ ogLost' = FALSE
    /\ UNCHANGED <<target, stale, changed, vrchat>>

(* What still runs cannot be deleted. *)
DeleteStales ==
    /\ stale' = {f \in stale : f.runs}
    /\ UNCHANGED <<target, og, changed, ogLost, vrchat>>

-----------------------------------------------------------------------------
(* VRChat, its processes, and whoever else deletes files.  "midway" says    *)
(* that an operation of the watchdog's is under way.                        *)

VRChatUpdates(v) ==
    /\ "update" \in Events
    /\ ~Writing
    /\ vrchat' = [vrchat EXCEPT !.wants = v]
    /\ UNCHANGED <<target, og, stale, changed, ogLost>>

DownloadBegins(midway) ==
    /\ ~TargetInUse
    /\ target # vrchat.wants
    /\ target' \in {"stub", "partial"}
    /\ changed' = TRUE
    /\ vrchat' = [vrchat EXCEPT !.download = IF midway THEN "during" ELSE "before"]
    /\ UNCHANGED <<og, stale, ogLost>>

(* It takes longer than the operation in the middle of which it began. *)
DownloadEnds(midway) ==
    /\ Writing /\ (vrchat.download = "during" => ~midway)
    /\ \/ target' = vrchat.wants
       \/ "interrupt" \in Events /\ UNCHANGED target
    /\ changed' = TRUE
    /\ vrchat' = [vrchat EXCEPT !.download = "none"]
    /\ UNCHANGED <<og, stale, ogLost>>

Runs ==
    /\ "run" \in Events
    /\ \/ target # "none" /\ ~Writing /\ vrchat' = [vrchat EXCEPT !.runs = TRUE]
       \/ og # "none" /\ vrchat' = [vrchat EXCEPT !.ogRuns = TRUE]
    /\ UNCHANGED <<target, og, stale, changed, ogLost>>

Exits ==
    /\ \/ vrchat.runs /\ vrchat' = [vrchat EXCEPT !.runs = FALSE] /\ UNCHANGED stale
       \/ vrchat.ogRuns /\ vrchat' = [vrchat EXCEPT !.ogRuns = FALSE] /\ UNCHANGED stale
       \/ \E f \in stale : /\ f.runs
                           /\ stale' = (stale \ {f}) \cup {[f EXCEPT !.runs = FALSE]}
                           /\ UNCHANGED vrchat
    /\ UNCHANGED <<target, og, changed, ogLost>>

OgVanishes ==
    /\ "lose" \in Events
    /\ og # "none" /\ ~OgInUse
    /\ og' = "none"
    /\ ogLost' = TRUE
    /\ UNCHANGED <<target, stale, changed, vrchat>>
=============================================================================
