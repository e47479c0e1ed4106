----------------------------- MODULE CacheFile -----------------------------
(***************************************************************************)
(* How the resolve cache reaches its file                                  *)
(* (crates/vrcr-watchdog/src/resolve_cache.rs).  The entries are a number  *)
(* of changes made to them.  Whoever changes them marks them dirty and has *)
(* a thread write them after a pause; the shutdown writes them at once.    *)
(* Both take a copy under the lock and write it outside, through one       *)
(* temporary file of a fixed name.                                         *)
(***************************************************************************)
EXTENDS Naturals

CONSTANTS
    MaxChanges,     \* bound: changes made to the entries
    SavesFail       \* bound: whether a save or the start of its thread may fail

ASSUME CacheAssumption == MaxChanges \in Nat /\ SavesFail \in BOOLEAN

Versions == 0 .. MaxChanges
Absent == MaxChanges + 1    \* there is no such file
Torn == MaxChanges + 2      \* a part of a copy, which is read as no entries

Writers == {"flusher", "closer"}   \* the thread, and the step of the shutdown

VARIABLES
    mem,        \* Inner.file, once it is loaded
    dirty,      \* Inner.dirty
    due,        \* Inner.due is set
    thread,     \* Inner.flusher: the thread is there
    saver,      \* what each writer is doing in flush_now and save_file
    tmp,        \* resolve_cache.json.new
    disk,       \* resolve_cache.json
    mishap      \* history: a save failed, or two were under way at once

memVars == <<mem, dirty, due, thread>>
fileVars == <<saver, tmp, disk, mishap>>
cacheVars == <<memVars, fileVars>>

CacheTypeOK ==
    /\ mem \in Versions
    /\ dirty \in BOOLEAN
    /\ due \in BOOLEAN
    /\ thread \in BOOLEAN
    /\ saver \in [Writers -> [pc : {"idle", "copy", "open", "fill", "rename"},
                              copy : Versions,
                              at : {"tmp", "disk", "gone"}]]  \* where its open file is
    /\ tmp \in Versions \cup {Absent, Torn}
    /\ disk \in Versions \cup {Absent, Torn}
    /\ mishap \in SUBSET {"failed", "overlap"}

CacheInit ==
    /\ mem = 0
    /\ dirty = FALSE
    /\ due = FALSE
    /\ thread = FALSE
    /\ saver = [w \in Writers |-> [pc |-> "idle", copy |-> 0, at |-> "tmp"]]
    /\ tmp = Absent
    /\ disk = 0
    /\ mishap = {}

-----------------------------------------------------------------------------
(* schedule: the thread is told, or started if it can be. *)
Schedule ==
    /\ due' = TRUE
    /\ \E started \in {TRUE, ~SavesFail} :
          thread' = (thread \/ started)

Marked == mem < MaxChanges /\ mem' = mem + 1 /\ dirty' = TRUE

(* store, evict_by_url and the lookup of an expired entry *)
Change ==
    /\ Marked
    /\ Schedule
    /\ UNCHANGED fileVars

(* loaded: the first to look drops what has expired; no write is due for it.*)
LoadDrops ==
    /\ mem = 0
    /\ Marked
    /\ UNCHANGED <<due, thread, fileVars>>

Saving(w) == saver[w].pc \in {"open", "fill", "rename"}
Goto(w, pc) == saver' = [saver EXCEPT ![w].pc = pc]

(* flush_loop: the pause is over, or nothing is left to do. *)
FlushDue ==
    /\ thread /\ due
    /\ saver["flusher"].pc = "idle"
    /\ due' = FALSE
    /\ Goto("flusher", "copy")
    /\ UNCHANGED <<mem, dirty, thread, tmp, disk, mishap>>

FlusherEnds ==
    /\ thread /\ ~due
    /\ saver["flusher"].pc = "idle"
    /\ thread' = FALSE
    /\ UNCHANGED <<mem, dirty, due, fileVars>>

(* flush_now: the entries are copied if there is something to write. *)
Copy(w) ==
    /\ saver[w].pc = "copy"
    /\ IF dirty
       THEN /\ saver' = [saver EXCEPT ![w] = [pc |-> "open", copy |-> mem, at |-> "tmp"]]
            /\ mishap' = IF \E o \in Writers \ {w} : Saving(o)
                         THEN mishap \cup {"overlap"} ELSE mishap
       ELSE /\ Goto(w, "idle")
            /\ UNCHANGED mishap
    /\ dirty' = FALSE
    /\ UNCHANGED <<mem, due, thread, tmp, disk>>

(* A mistake lifecycle must catch: the file itself is emptied and written. *)
OpenInPlace(w) ==
    /\ saver[w].pc = "open"
    /\ tmp' = Torn
    /\ disk' = Torn
    /\ Goto(w, "fill")
    /\ UNCHANGED <<memVars, mishap>>

(* save_file: the temporary file is emptied, written and renamed. *)
Open(w) ==
    /\ saver[w].pc = "open"
    /\ tmp' = Torn
    /\ Goto(w, "fill")
    /\ UNCHANGED <<memVars, disk, mishap>>

(* Where two write at once, either copy or a mixture of them is left; the   *)
(* file may have been renamed by the other writer meanwhile.                *)
Left(w) == {saver[w].copy} \cup {Torn : o \in {o \in Writers \ {w} : saver[o].pc = "fill"}}

Fill(w) ==
    /\ saver[w].pc = "fill"
    /\ \E text \in Left(w) :
          /\ disk' = IF saver[w].at = "disk" THEN text ELSE disk
          /\ tmp' = IF saver[w].at = "tmp" THEN text ELSE tmp
    /\ Goto(w, "rename")
    /\ UNCHANGED <<memVars, mishap>>

(* What happens to the temporary file happens to whoever has it open. *)
Ends(w, place) ==
    saver' = [o \in Writers |->
                IF o = w THEN [saver[w] EXCEPT !.pc = "idle"]
                ELSE IF saver[o].pc = "fill" /\ saver[o].at = "tmp"
                THEN [saver[o] EXCEPT !.at = place] ELSE saver[o]]

(* A mistake lifecycle must catch: a save goes on as long as there are new  *)
(* entries.                                                                *)
RenameAgain(w) ==
    /\ saver[w].pc = "rename" /\ tmp # Absent
    /\ disk' = tmp
    /\ tmp' = Absent
    /\ Goto(w, IF dirty THEN "copy" ELSE "idle")
    /\ UNCHANGED <<memVars, mishap>>

Rename(w) ==
    /\ saver[w].pc = "rename" /\ tmp # Absent
    /\ disk' = tmp
    /\ tmp' = Absent
    /\ Ends(w, "disk")
    /\ UNCHANGED <<memVars, mishap>>

(* Any of the three may fail, the last because another writer was faster.  *)
SaveFails(w) ==
    /\ Saving(w)
    /\ SavesFail \/ (saver[w].pc = "rename" /\ tmp = Absent)
    /\ tmp' = Absent
    /\ Ends(w, "gone")
    /\ mishap' = mishap \cup {"failed"}
    /\ UNCHANGED <<memVars, disk>>

SaverStep(w) == Copy(w) \/ Open(w) \/ Fill(w) \/ Rename(w) \/ SaveFails(w)
FlusherStep == FlushDue \/ FlusherEnds \/ SaverStep("flusher")

-----------------------------------------------------------------------------
(* The file is never a part of a copy, and never goes back to older entries,*)
(* as long as two saves have not met.                                       *)
FileOnlyAdvances ==
    [][("overlap" \notin mishap') =>
          disk' # Torn /\ (disk \in Versions => disk' \in Versions /\ disk' >= disk)]_disk
=============================================================================
