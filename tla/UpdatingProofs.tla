--------------------------- MODULE UpdatingProofs ---------------------------
(***************************************************************************)
(* The three invariants of Updating, for every release whose watchdog is   *)
(* its last file, however often the updater is killed, fails and is run    *)
(* again beside a watchdog.  The argument goes along the order of the      *)
(* payload: what the swap has passed is new, and what it has renamed on    *)
(* the way is noted with the content it found.                             *)
(***************************************************************************)
EXTENDS Updating, Functions, FiniteSetTheorems, SequenceTheorems, TLAPS

(* The phases of a run: before the swap, in it, in its rollback, after it.  *)
Preparing == UpdaterAt("checked") \/ UpdaterAt("stopped")
Swapping == UpdaterAt("aside") \/ UpdaterAt("in")
Undoes == UpdaterAt("remove") \/ UpdaterAt("putBack")
Swapped == UpdaterAt("delete") \/ UpdaterAt("clean") \/ UpdaterAt("relaunch")

AtWatchdog == Cardinality(Others) + 2
Restorable == Shipped \cup Dropped
Passed(f) == \E j \in 1 .. AtWatchdog : Payload[j] = f /\ (j < updater.at \/ (j = updater.at /\ UpdaterAt("in")))
Noted == ToSet(updater.renamed)
HereOrAside(f) == Is(f) \/ \E k \in aside : k.name = f
UpdaterRenewed == "new" \in {file["staged"], file["updater"]}
ShippedNew == \A f \in Shipped : file[f] = "new"

(* Where the swap is. *)
PlaceKnown ==
    /\ UpdaterAt("idle") \/ Preparing =>
           updater.at = 1 /\ updater.renamed = <<>> /\ ~updater.failed
    /\ Swapping => updater.at \in 1 .. AtWatchdog
    /\ UpdaterAt("delete") => updater.at = AtWatchdog + 1

(* The staged updater is only ever the one of the release being installed.  *)
OnlyNewAdded == file["staged"] # "old"

(* What was renamed is noted once, stands aside, and has the content that   *)
(* the run found.                                                           *)
NamesDiffer(s) == \A i, j \in 1 .. Len(s) : s[i].name = s[j].name => i = j
NotesRight ==
    Swapping \/ Undoes \/ UpdaterAt("delete") \/ UpdaterAt("clean") =>
        /\ NamesDiffer(updater.renamed)
        /\ \A k \in Noted :
              /\ k \in aside
              /\ k.name # "updater"
              /\ k.name = "watchdog" => k.content = "old"
              /\ k.name = "staged" => k.content = "new"
              /\ k.name \in Restorable => k.content = updater.before[k.name]
NotesPassed ==
    /\ Swapping => \A k \in Noted : Passed(k.name)
    /\ UpdaterAt("delete") => \A k \in Noted : Passed(k.name) \/ (k.name \in Dropped /\ ~Is(k.name))

(* In the swap: what it passed is new, what is ahead as it was found, and   *)
(* the version is not yet new.                                              *)
PassedIsNew ==
    /\ Swapping => \A f \in Shipped : Passed(f) /\ f # Target => file[f] = "new"
    /\ Swapping /\ updater.at = AtWatchdog => UpdaterRenewed
PassedIsNoted ==
    /\ Swapping =>
        \A f \in Restorable :
            IF Passed(f)
            THEN updater.before[f] # "none" => [name |-> f, content |-> updater.before[f]] \in Noted
            ELSE file[f] = updater.before[f]
    /\ UpdaterAt("delete") =>
        \A f \in Restorable :
            IF Passed(f)
            THEN updater.before[f] # "none" => [name |-> f, content |-> updater.before[f]] \in Noted
            ELSE \/ file[f] = updater.before[f]
                 \/ f \in Dropped /\ ~Is(f) /\ [name |-> f, content |-> updater.before[f]] \in Noted
NotYetNew == /\ Preparing => file["watchdog"] = "old"
             /\ Swapping => file["watchdog"] # "new"

(* In the rollback: what is not as it was found is still to be undone.      *)
StillToUndo ==
    Undoes /\ ~updater.failed =>
        \A f \in Restorable :
            updater.before[f] # "none" =>
                \/ file[f] = updater.before[f]
                \/ [name |-> f, content |-> updater.before[f]] \in Noted
PutBackNext ==
    UpdaterAt("putBack") => updater.renamed # <<>> /\ ~Is(Undoing.name)
HalfIsKnown == Undoes \/ UpdaterAt("undone") => (file["watchdog"] = "new" => halfUndone)
UndoneIsAsFound ==
    UpdaterAt("undone") /\ ~updater.failed =>
        \A f \in Restorable : updater.before[f] # "none" => file[f] = updater.before[f]

(* After the swap. *)
SwappedIsNew == Swapped => ShippedNew /\ UpdaterRenewed
DroppedIsGone ==
    UpdaterAt("clean") \/ UpdaterAt("relaunch") => \A f \in updater.deletes : ~Is(f)

(* Nothing is lost. *)
Lasting == (Shipped \ Added) \cup {"updater"}
AllHere ==
    /\ \A f \in Lasting : HereOrAside(f)
    /\ \/ \A f \in Dropped : HereOrAside(f)
       \/ (UpdaterAt("idle") \/ UpdaterAt("relaunch")) /\ ShippedNew
AppliedIsHere == watchdog.pc = "applyClean" => Is("updater")

UpdateInv ==
    /\ TypeOK /\ PlaceKnown /\ OnlyNewAdded
    /\ NotesRight /\ NotesPassed
    /\ PassedIsNew /\ PassedIsNoted /\ NotYetNew
    /\ StillToUndo /\ PutBackNext /\ HalfIsKnown /\ UndoneIsAsFound
    /\ SwappedIsNew /\ DroppedIsGone
    /\ AllHere /\ AppliedIsHere
    /\ VersionTellsAll

-----------------------------------------------------------------------------
(* The payload, in whatever order the other files come, and sequences of    *)
(* what was renamed.                                                        *)

LEMMA InSomeOrder ==
    /\ Cardinality(Others) \in Nat \ {0}
    /\ SetToSeq(Others) \in [1 .. Cardinality(Others) -> Others]
    /\ \A i, j \in 1 .. Cardinality(Others) : SetToSeq(Others)[i] = SetToSeq(Others)[j] => i = j
    /\ \A f \in Others : \E i \in 1 .. Cardinality(Others) : SetToSeq(Others)[i] = f
<1> DEFINE N == Cardinality(Others)
           order == SetToSeq(Others)
<1>1. N \in Nat \ {0} /\ ExistsBijection(1 .. N, Others)
    BY ReleaseAssumption, FS_CardinalityType, FS_EmptySet
<1>2. \E g \in [1 .. N -> Others] : IsInjective(g)
    BY <1>1 DEF ExistsBijection, Bijection, Injection
<1>3. order \in [1 .. N -> Others] /\ IsInjective(order)
    BY <1>2 DEF SetToSeq
<1>4. IsFiniteSet(1 .. N) /\ Cardinality(1 .. N) = N
    BY <1>1, FS_Interval
<1>5. order \in Injection(1 .. N, Others)
    BY <1>3 DEF Injection
<1>6. order \in Surjection(1 .. N, Others)
    BY <1>4, <1>5, FS_Injection, ReleaseAssumption
<1> QED BY <1>1, <1>3, <1>6 DEF Surjection, IsInjective

LEMMA PayloadFacts ==
    /\ AtWatchdog \in Nat /\ AtWatchdog > 2
    /\ Len(Payload) = AtWatchdog
    /\ Payload[AtWatchdog - 1] = "staged" /\ Payload[AtWatchdog] = "watchdog"
    /\ \A i \in 1 .. AtWatchdog : Payload[i] \in Shipped \cup {"staged"}
    /\ \A i, j \in 1 .. AtWatchdog : Payload[i] = Payload[j] => i = j
    /\ \A f \in Shipped : \E j \in 1 .. AtWatchdog : Payload[j] = f
<1> DEFINE N == Cardinality(Others)
           order == SetToSeq(Others)
           programs == <<"staged", "watchdog">>
<1>1. N \in Nat \ {0} /\ AtWatchdog = N + 2
    BY InSomeOrder DEF AtWatchdog
<1>2. order \in Seq(Others) /\ Len(order) = N /\ DOMAIN order = 1 .. N
  <2>1. order \in [1 .. N -> Others]
    BY InSomeOrder
  <2> QED BY <1>1, <2>1
<1>3. /\ Len(Payload) = AtWatchdog
      /\ \A i \in 1 .. N : Payload[i] = order[i]
      /\ Payload[N + 1] = "staged" /\ Payload[N + 2] = "watchdog"
  <2>1. programs \in Seq({"staged", "watchdog"}) /\ Len(programs) = 2
        /\ programs[1] = "staged" /\ programs[2] = "watchdog"
    <3>1. \A i \in 1 .. 2 : i = 1 \/ i = 2
        OBVIOUS
    <3> QED BY <3>1
  <2>2. Payload = order \o programs
    BY DEF Payload
  <2>3. order \in Seq(Others \cup {"staged", "watchdog"}) /\ programs \in Seq(Others \cup {"staged", "watchdog"})
    BY <1>2, <2>1
  <2> HIDE DEF order, programs, N
  <2>4. Len(Payload) = N + 2 /\ \A i \in 1 .. N + 2 : Payload[i] = IF i <= N THEN order[i] ELSE programs[i - N]
    BY <1>2, <2>1, <2>2, <2>3, ConcatProperties
  <2>5. N + 1 - N = 1 /\ N + 2 - N = 2 /\ N + 1 \in 1 .. N + 2 /\ N + 2 \in 1 .. N + 2 /\ ~(N + 1 <= N) /\ ~(N + 2 <= N)
    BY <1>1
  <2>6. \A i \in 1 .. N : i \in 1 .. N + 2 /\ i <= N
    BY <1>1
  <2> QED BY <1>1, <2>1, <2>4, <2>5, <2>6
<1>4. \A i \in 1 .. AtWatchdog : i \in 1 .. N \/ i = N + 1 \/ i = N + 2
    BY <1>1
<1>5. /\ \A i \in 1 .. N : order[i] \in Others
      /\ \A i, j \in 1 .. N : order[i] = order[j] => i = j
      /\ \A f \in Others : \E i \in 1 .. N : order[i] = f
    BY InSomeOrder
<1>6. "staged" \notin Others /\ "watchdog" \notin Others
    BY ReleaseAssumption
<1> HIDE DEF order, N
<1>7. \A i \in 1 .. AtWatchdog : Payload[i] \in Shipped \cup {"staged"}
    BY <1>3, <1>4, <1>5 DEF Shipped
<1>8. ASSUME NEW i \in 1 .. AtWatchdog, NEW j \in 1 .. AtWatchdog, Payload[i] = Payload[j] PROVE i = j
  <2>1. CASE i \in 1 .. N
    <3>1. Payload[i] \in Others
        BY <1>3, <1>5, <2>1
    <3>2. j \in 1 .. N
        BY <1>3, <1>4, <1>6, <1>8, <3>1
    <3> QED BY <1>3, <1>5, <1>8, <2>1, <3>2
  <2>2. CASE i = N + 1
    <3>1. j \notin 1 .. N
        BY <1>3, <1>5, <1>6, <1>8, <2>2
    <3> QED BY <1>3, <1>4, <1>8, <2>2, <3>1
  <2>3. CASE i = N + 2
    <3>1. j \notin 1 .. N
        BY <1>3, <1>5, <1>6, <1>8, <2>3
    <3> QED BY <1>3, <1>4, <1>8, <2>3, <3>1
  <2> QED BY <1>4, <2>1, <2>2, <2>3
<1>9. ASSUME NEW f \in Shipped PROVE \E j \in 1 .. AtWatchdog : Payload[j] = f
  <2>1. CASE f \in Others
    <3>1. PICK i \in 1 .. N : order[i] = f
        BY <1>5, <2>1
    <3> QED BY <1>1, <1>3, <3>1
  <2>2. CASE f = "watchdog"
    <3>1. N + 2 \in 1 .. AtWatchdog
        BY <1>1
    <3> QED BY <1>3, <2>2, <3>1
  <2> QED BY <2>1, <2>2 DEF Shipped
<1> QED BY <1>1, <1>3, <1>7, <1>8, <1>9

LEMMA Names ==
    /\ Shipped \subseteq File /\ Restorable \subseteq File /\ Shipped \subseteq Restorable
    /\ {"staged", "updater"} \subseteq File
    /\ "staged" \notin Restorable /\ "updater" \notin Restorable \cup {"staged"}
    /\ "watchdog" \in Shipped /\ Manifest \in Shipped
    /\ Dropped \subseteq Restorable /\ Shipped \cap Dropped = {}
    /\ Lasting \subseteq File
BY ReleaseAssumption DEF Shipped, Restorable, File, Lasting

LEMMA NotingOne ==
    ASSUME NEW s \in Seq(Kept), NEW k \in Kept
    PROVE  /\ Append(s, k) \in Seq(Kept)
           /\ ToSet(Append(s, k)) = ToSet(s) \cup {k}
           /\ NamesDiffer(s) /\ (\A o \in ToSet(s) : o.name # k.name) => NamesDiffer(Append(s, k))
<1>1. /\ Append(s, k) \in Seq(Kept)
      /\ Len(Append(s, k)) = Len(s) + 1
      /\ \A i \in 1 .. Len(s) : Append(s, k)[i] = s[i]
      /\ Append(s, k)[Len(s) + 1] = k
      /\ DOMAIN s = 1 .. Len(s) /\ DOMAIN Append(s, k) = 1 .. Len(s) + 1
      /\ Len(s) \in Nat
    OBVIOUS
<1>2. 1 .. Len(s) + 1 = (1 .. Len(s)) \cup {Len(s) + 1}
    BY <1>1
<1>3. ToSet(Append(s, k)) = ToSet(s) \cup {k}
    BY <1>1, <1>2 DEF ToSet
<1>4. ASSUME NamesDiffer(s), \A o \in ToSet(s) : o.name # k.name,
             NEW i \in 1 .. Len(s) + 1, NEW j \in 1 .. Len(s) + 1,
             Append(s, k)[i].name = Append(s, k)[j].name
      PROVE  i = j
  <2>1. \A m \in 1 .. Len(s) : s[m] \in ToSet(s)
    BY <1>1 DEF ToSet
  <2>2. CASE i \in 1 .. Len(s) /\ j \in 1 .. Len(s)
    BY <1>1, <1>4, <2>2 DEF NamesDiffer
  <2>3. CASE i \in 1 .. Len(s) /\ j = Len(s) + 1
    BY <1>1, <1>4, <2>1, <2>3
  <2>4. CASE i = Len(s) + 1 /\ j \in 1 .. Len(s)
    BY <1>1, <1>4, <2>1, <2>4
  <2> QED BY <1>2, <2>2, <2>3, <2>4
<1> QED BY <1>1, <1>3, <1>4 DEF NamesDiffer

LEMMA UndoingOne ==
    ASSUME NEW s \in Seq(Kept), s # <<>>, NamesDiffer(s)
    PROVE  /\ Head(s) \in Kept /\ Tail(s) \in Seq(Kept)
           /\ ToSet(s) = ToSet(Tail(s)) \cup {Head(s)}
           /\ NamesDiffer(Tail(s))
           /\ \A k \in ToSet(Tail(s)) : k.name # Head(s).name
<1>1. /\ Head(s) = s[1] /\ Tail(s) \in Seq(Kept) /\ Len(s) \in Nat \ {0}
      /\ Len(Tail(s)) = Len(s) - 1
      /\ \A i \in 1 .. Len(s) - 1 : Tail(s)[i] = s[i + 1]
      /\ DOMAIN s = 1 .. Len(s) /\ DOMAIN Tail(s) = 1 .. Len(s) - 1
      /\ \A i \in 1 .. Len(s) : s[i] \in Kept
    OBVIOUS
<1>2. \A i \in 1 .. Len(s) : i = 1 \/ (i - 1 \in 1 .. Len(s) - 1 /\ s[i] = Tail(s)[i - 1])
    BY <1>1
<1>3. ToSet(s) = ToSet(Tail(s)) \cup {Head(s)}
  <2>1. ASSUME NEW k \in ToSet(s) PROVE k \in ToSet(Tail(s)) \cup {Head(s)}
    <3>1. PICK i \in 1 .. Len(s) : k = s[i]
        BY <1>1 DEF ToSet
    <3>2. CASE i = 1
        BY <1>1, <3>1, <3>2
    <3>3. CASE i - 1 \in 1 .. Len(s) - 1 /\ s[i] = Tail(s)[i - 1]
        BY <1>1, <3>1, <3>3 DEF ToSet
    <3> QED BY <1>2, <3>2, <3>3
  <2>2. Head(s) \in ToSet(s)
    BY <1>1 DEF ToSet
  <2>3. ASSUME NEW k \in ToSet(Tail(s)) PROVE k \in ToSet(s)
    <3>1. PICK i \in 1 .. Len(s) - 1 : k = Tail(s)[i]
        BY <1>1 DEF ToSet
    <3>2. k = s[i + 1] /\ i + 1 \in 1 .. Len(s)
        BY <1>1, <3>1
    <3> QED BY <1>1, <3>2 DEF ToSet
  <2> QED BY <2>1, <2>2, <2>3
<1>4. NamesDiffer(Tail(s))
  <2> SUFFICES ASSUME NEW i \in 1 .. Len(s) - 1, NEW j \in 1 .. Len(s) - 1,
                      Tail(s)[i].name = Tail(s)[j].name
               PROVE  i = j
    BY <1>1 DEF NamesDiffer
  <2>1. i + 1 \in 1 .. Len(s) /\ j + 1 \in 1 .. Len(s) /\ s[i + 1].name = s[j + 1].name
    BY <1>1
  <2> QED BY <2>1 DEF NamesDiffer
<1>5. ASSUME NEW k \in ToSet(Tail(s)) PROVE k.name # Head(s).name
  <2>1. PICK i \in 1 .. Len(s) - 1 : k = Tail(s)[i]
    BY <1>1 DEF ToSet
  <2>2. k = s[i + 1] /\ i + 1 \in 1 .. Len(s) /\ 1 \in 1 .. Len(s) /\ i + 1 # 1
    BY <1>1, <2>1
  <2> QED BY <1>1, <2>2 DEF NamesDiffer
<1> QED BY <1>1, <1>3, <1>4, <1>5

-----------------------------------------------------------------------------
LEMMA NoRunTyped == NoRun \in UpdaterRecord
<1>1. Installed \in [File -> Content]
    BY DEF Installed, Content
<1>2. 1 \in 1 .. Len(Payload) + 1 /\ <<>> \in Seq(Kept)
    BY PayloadFacts
<1> QED BY <1>1, <1>2 DEF NoRun, UpdaterRecord, UpdaterPcs

LEMMA UpdateInvInit == Init => UpdateInv
<1> SUFFICES ASSUME Init PROVE UpdateInv
    OBVIOUS
<1>1. Installed \in [File -> Content] /\ \A f \in File : Installed[f] # "new"
    BY DEF Installed, Content
<1>2. TypeOK
    BY <1>1, NoRunTyped DEF Init, TypeOK, WatchdogPcs, Down, Content
<1>3. \A f \in File \ (Added \cup {"staged"}) : Is(f)
    BY DEF Init, Installed, Is
<1>4. updater = NoRun /\ updater.pc = "idle" /\ watchdog.pc = "up" /\ file["staged"] = "none" /\ file["watchdog"] = "old"
    BY ReleaseAssumption DEF Init, NoRun, Down, Installed, File, Shipped
<1>6. updater.at = 1 /\ updater.renamed = <<>> /\ ~updater.failed
    BY DEF Init, NoRun
<1>5. AllHere
    BY <1>3, ReleaseAssumption DEF AllHere, HereOrAside, File, Shipped, Lasting
<1> QED BY <1>2, <1>4, <1>5, <1>6 DEF UpdateInv, PlaceKnown, OnlyNewAdded, NotesRight, NotesPassed, PassedIsNew,
           PassedIsNoted, NotYetNew, StillToUndo, PutBackNext, HalfIsKnown, UndoneIsAsFound,
           SwappedIsNew, DroppedIsGone, AppliedIsHere, VersionTellsAll, UpdaterAt, Preparing,
           Swapping, Undoes, Swapped

(* A step of the watchdog: the updater's own copy and the staged one.        *)
LEMMA WatchdogKeeps ==
    ASSUME UpdateInv, UNCHANGED <<updater, halfUndone>>, TypeOK',
           \A f \in File \ {"staged", "updater"} : file'[f] = file[f],
           file'["staged"] \in {file["staged"], "none"},
           \A k \in Kept : k.name # "updater" => (k \in aside <=> k \in aside'),
           UpdaterRenewed => UpdaterRenewed', HereOrAside("updater")', AppliedIsHere'
    PROVE  UpdateInv'
<1>1. /\ \A f \in Restorable : file'[f] = file[f] /\ (Is(f)' <=> Is(f))
      /\ \A f \in Restorable : HereOrAside(f) => HereOrAside(f)'
  <2>1. \A f \in Restorable : f \in File \ {"staged", "updater"}
    BY Names
  <2>2. aside \subseteq Kept
    BY DEF UpdateInv, TypeOK
  <2> QED BY <2>1, <2>2 DEF Is, HereOrAside
<1>2. PlaceKnown' /\ OnlyNewAdded' /\ NotesPassed' /\ PassedIsNew'
  <2>1. PlaceKnown' /\ OnlyNewAdded'
    BY DEF UpdateInv, PlaceKnown, OnlyNewAdded, Swapping, Preparing, UpdaterAt
  <2>2. NotesPassed' /\ PassedIsNew'
    BY <1>1, Names DEF UpdateInv, NotesPassed, PassedIsNew, Swapping, UpdaterAt, Passed, Noted, Target
  <2> QED BY <2>1, <2>2
<1>3. NotesRight'
  <2>1. aside \subseteq Kept
    BY DEF UpdateInv, TypeOK
  <2> QED BY <2>1 DEF UpdateInv, NotesRight, Swapping, Undoes, UpdaterAt, Noted
<1>4. PassedIsNoted' /\ NotYetNew' /\ StillToUndo' /\ HalfIsKnown' /\ UndoneIsAsFound'
    BY <1>1, Names DEF UpdateInv, PassedIsNoted, NotYetNew, StillToUndo, HalfIsKnown, UndoneIsAsFound,
       Swapping, Undoes, Preparing, UpdaterAt, Passed, Noted
<1>5. PutBackNext'
  <2>1. CASE UpdaterAt("putBack")
    <3>1. updater.renamed # <<>> /\ ~Is(Undoing.name)
        BY <2>1 DEF UpdateInv, PutBackNext
    <3>2. Undoing.name # "updater" /\ Undoing.name \in File
        BY <2>1, <3>1, UndoingOne DEF UpdateInv, NotesRight, Undoes, Noted, Undoing, TypeOK, UpdaterRecord, Kept
    <3> QED BY <3>1, <3>2 DEF PutBackNext, Is, Undoing
  <2> QED BY <2>1 DEF PutBackNext, UpdaterAt
<1>6. SwappedIsNew' /\ DroppedIsGone' /\ VersionTellsAll' /\ AllHere'
  <2>1. updater.deletes \subseteq Restorable
    BY Names DEF UpdateInv, TypeOK, UpdaterRecord, Restorable
  <2>2. ShippedNew' <=> ShippedNew
    BY <1>1, Names DEF ShippedNew
  <2>3. file'["watchdog"] = file["watchdog"]
    BY <1>1, Names
  <2>4. SwappedIsNew' /\ VersionTellsAll'
    BY <2>2, <2>3 DEF UpdateInv, SwappedIsNew, VersionTellsAll, ShippedNew, UpdaterRenewed, Swapped, UpdaterAt
  <2>5. DroppedIsGone'
    BY <1>1, <2>1 DEF UpdateInv, DroppedIsGone, UpdaterAt
  <2>6. AllHere'
    BY <1>1, <2>2, Names DEF UpdateInv, AllHere, UpdaterAt, Restorable, Lasting
  <2> QED BY <2>4, <2>5, <2>6
<1> QED BY <1>2, <1>3, <1>4, <1>5, <1>6 DEF UpdateInv

LEMMA WatchdogStep ==
    ASSUME UpdateInv, WatchdogStarts \/ Apply \/ WatchdogEnds
    PROVE  UpdateInv'
<1>a. TypeOK /\ AllHere /\ OnlyNewAdded /\ AppliedIsHere
    BY DEF UpdateInv
<1>b. /\ {"staged", "updater"} \subseteq File
      /\ file \in [File -> Content] /\ aside \subseteq Kept
    BY <1>a, Names DEF TypeOK
<1>1. CASE WatchdogStarts \/ WatchdogEnds
  <2>1. watchdog' \in {[Down EXCEPT !.pc = "apply"], Down} /\ UNCHANGED <<file, aside, updater, halfUndone>>
    BY <1>1 DEF WatchdogStarts, WatchdogEnds, Launched, Folder
  <2>2. watchdog' \in [pc : WatchdogPcs, backup : Content] /\ watchdog'.pc # "applyClean"
    BY <2>1 DEF Down, WatchdogPcs, Content
  <2> QED BY <1>a, <2>1, <2>2, WatchdogKeeps DEF TypeOK, AppliedIsHere, AllHere, Lasting, HereOrAside, Is,
             UpdaterRenewed
<1>2. CASE ApplyAside
  <2>1. CASE MoveAside("updater") /\ Is("staged") /\ watchdog' = [pc |-> "applyIn", backup |-> file["updater"]]
    <3>1. Backup("updater") \in Kept /\ Backup("updater").name = "updater"
        BY <1>b, <2>1 DEF MoveAside, Is, Backup, Kept, Content
    <3>2. TypeOK' /\ AppliedIsHere' /\ HereOrAside("updater")'
        BY <1>a, <1>b, <1>2, <2>1, <3>1 DEF ApplyAside, MoveAside, TypeOK, AppliedIsHere, HereOrAside,
           WatchdogPcs, Content
    <3>3. UpdaterRenewed'
        BY <1>a, <1>b, <2>1 DEF MoveAside, UpdaterRenewed, OnlyNewAdded, Is, Content
    <3> QED BY <1>b, <1>2, <2>1, <3>1, <3>2, <3>3, WatchdogKeeps DEF ApplyAside, MoveAside
  <2>2. CASE UNCHANGED Folder /\ watchdog'.pc \in {"up", "applyIn"} /\ watchdog' = [watchdog EXCEPT !.pc = watchdog'.pc]
    BY <1>a, <1>2, <2>2, WatchdogKeeps DEF ApplyAside, Folder, TypeOK, AppliedIsHere, AllHere, Lasting, HereOrAside, Is,
             UpdaterRenewed, WatchdogPcs
  <2>3. watchdog \in [pc : WatchdogPcs, backup : Content]
    BY <1>a DEF TypeOK
  <2> QED BY <1>2, <2>1, <2>2, <2>3 DEF ApplyAside, WatchdogGoes
<1>3. CASE ApplyIn
  <2>1. CASE /\ Is("staged")
             /\ file' = [file EXCEPT !["updater"] = file["staged"], !["staged"] = "none"]
             /\ WatchdogGoes("applyClean")
    <3>1. file'["updater"] = "new" /\ file'["staged"] = "none" /\ file' \in [File -> Content]
        BY <1>a, <1>b, <2>1 DEF OnlyNewAdded, Is, Content
    <3>2. TypeOK' /\ AppliedIsHere' /\ HereOrAside("updater")' /\ UpdaterRenewed'
        BY <1>a, <1>3, <2>1, <3>1 DEF ApplyIn, WatchdogGoes, TypeOK, AppliedIsHere, HereOrAside, Is,
           UpdaterRenewed, WatchdogPcs
    <3> QED BY <1>b, <1>3, <2>1, <3>1, <3>2, WatchdogKeeps DEF ApplyIn
  <2>2. CASE WatchdogGoes("applyBack") /\ UNCHANGED file
    BY <1>a, <1>3, <2>2, WatchdogKeeps DEF ApplyIn, WatchdogGoes, TypeOK, AppliedIsHere, AllHere, Lasting, HereOrAside, Is,
             UpdaterRenewed, WatchdogPcs
  <2> QED BY <1>3, <2>1, <2>2 DEF ApplyIn
<1>4. CASE ApplyBack
  <2>1. watchdog' \in [pc : WatchdogPcs, backup : Content] /\ watchdog'.pc = "up"
    BY <1>4 DEF ApplyBack, Down, WatchdogPcs, Content
  <2>2. CASE UNCHANGED Folder
    BY <1>a, <1>4, <2>1, <2>2, WatchdogKeeps DEF ApplyBack, Folder, TypeOK, AppliedIsHere, AllHere, Lasting, HereOrAside, Is,
             UpdaterRenewed
  <2>3. CASE MoveBack(OldUpdater)
    <3>1. OldUpdater.name = "updater" /\ OldUpdater \in Kept /\ OldUpdater.content \in {"old", "new"}
        BY <1>b, <2>3 DEF MoveBack, OldUpdater, Kept
    <3>2. file'["updater"] # "none" /\ file' \in [File -> Content] /\ file["updater"] = "none"
        BY <1>b, <2>3, <3>1 DEF MoveBack, Content, Is
    <3>3. TypeOK' /\ AppliedIsHere' /\ HereOrAside("updater")' /\ (UpdaterRenewed => UpdaterRenewed')
        BY <1>a, <1>b, <1>4, <2>1, <2>3, <3>1, <3>2 DEF ApplyBack, MoveBack, TypeOK, AppliedIsHere, HereOrAside, Is,
           UpdaterRenewed
    <3> QED BY <1>b, <1>4, <2>3, <3>1, <3>2, <3>3, WatchdogKeeps DEF ApplyBack, MoveBack
  <2> QED BY <1>4, <2>2, <2>3 DEF ApplyBack
<1>5. CASE ApplyClean
  <2>1. /\ watchdog' \in [pc : WatchdogPcs, backup : Content] /\ watchdog'.pc = "up"
        /\ Is("updater")
    BY <1>a, <1>5 DEF ApplyClean, Down, AppliedIsHere, WatchdogAt, WatchdogPcs, Content
  <2>2. TypeOK' /\ AppliedIsHere' /\ HereOrAside("updater")'
    BY <1>a, <1>5, <2>1 DEF ApplyClean, TypeOK, AppliedIsHere, HereOrAside, Is
  <2>3. \A k \in Kept : k.name # "updater" => (k \in aside <=> k \in aside')
    BY <1>5 DEF ApplyClean, OldUpdater
  <2> QED BY <1>5, <2>2, <2>3, WatchdogKeeps DEF ApplyClean, UpdaterRenewed
<1> QED BY <1>1, <1>2, <1>3, <1>4, <1>5 DEF Apply

-----------------------------------------------------------------------------
(* The updater's steps. *)

(* Before a run's swap, and after its end.                                   *)
LEMMA OutsideKeeps ==
    ASSUME UpdateInv, UNCHANGED <<Folder, halfUndone>>,
           updater' \in UpdaterRecord, updater'.pc \in {"idle", "checked", "stopped"},
           updater'.at = 1, updater'.renamed = <<>>, ~updater'.failed,
           updater'.pc # "idle" => file["watchdog"] = "old",
           watchdog' \in [pc : WatchdogPcs, backup : Content],
           watchdog'.pc = "applyClean" => watchdog.pc = "applyClean"
    PROVE  UpdateInv'
<1>1. /\ TypeOK' /\ PlaceKnown' /\ OnlyNewAdded' /\ NotesRight' /\ NotesPassed'
      /\ PassedIsNew' /\ PassedIsNoted' /\ NotYetNew'
    BY DEF UpdateInv, Folder, TypeOK, PlaceKnown, OnlyNewAdded, NotesRight, NotesPassed, PassedIsNew,
           PassedIsNoted, NotYetNew, UpdaterAt, Preparing, Swapping, Undoes
<1>2. /\ StillToUndo' /\ PutBackNext' /\ HalfIsKnown' /\ UndoneIsAsFound' /\ SwappedIsNew'
      /\ DroppedIsGone' /\ AppliedIsHere' /\ VersionTellsAll'
    BY DEF UpdateInv, Folder, StillToUndo, PutBackNext, HalfIsKnown, UndoneIsAsFound, SwappedIsNew,
           DroppedIsGone, AppliedIsHere, VersionTellsAll, UpdaterAt, Undoes, Swapped, Is
<1>3. AllHere'
    BY DEF UpdateInv, Folder, AllHere, HereOrAside, Is, ShippedNew, UpdaterAt, Shipped
<1> QED BY <1>1, <1>2, <1>3 DEF UpdateInv

LEMMA OutsideStep ==
    ASSUME UpdateInv,
           UpdaterStarts \/ UpdaterDeclines \/ StopWatchdog \/ Reports \/ LaunchWatchdog \/ UpdaterKilled
    PROVE  UpdateInv'
<1>a. TypeOK /\ PlaceKnown /\ NotYetNew /\ updater \in UpdaterRecord
    BY DEF UpdateInv, TypeOK
<1>b. NoRun \in UpdaterRecord /\ NoRun.pc = "idle" /\ NoRun.at = 1 /\ NoRun.renamed = <<>> /\ ~NoRun.failed
    BY NoRunTyped DEF NoRun
<1>c. /\ Down \in [pc : WatchdogPcs, backup : Content] /\ Down.pc # "applyClean"
      /\ Launched \in [pc : WatchdogPcs, backup : Content]
      /\ Launched.pc = "applyClean" => watchdog.pc = "applyClean"
    BY <1>a DEF Down, Launched, WatchdogPcs, Content, TypeOK
<1>d. watchdog \in [pc : WatchdogPcs, backup : Content]
    BY <1>a DEF TypeOK
<1>1. CASE UpdaterStarts
    BY <1>1, <1>a, <1>d, OutsideKeeps DEF UpdaterStarts, UpdaterGoes, UpdaterAt, PlaceKnown, UpdaterRecord, UpdaterPcs
<1>2. CASE UpdaterDeclines \/ Reports \/ UpdaterKilled
    BY <1>2, <1>a, <1>b, <1>d, OutsideKeeps DEF UpdaterDeclines, Reports, UpdaterKilled
<1>3. CASE StopWatchdog
  <2>1. updater' \in UpdaterRecord /\ updater'.pc = "stopped" /\ updater'.at = 1
        /\ updater'.renamed = <<>> /\ ~updater'.failed /\ file["watchdog"] = "old"
    BY <1>3, <1>a DEF StopWatchdog, UpdaterGoes, UpdaterAt, PlaceKnown, NotYetNew, Preparing, UpdaterRecord, UpdaterPcs
  <2> QED BY <1>3, <1>c, <1>d, <2>1, OutsideKeeps DEF StopWatchdog
<1>4. CASE LaunchWatchdog
    BY <1>4, <1>b, <1>c, <1>d, OutsideKeeps DEF LaunchWatchdog
<1> QED BY <1>1, <1>2, <1>3, <1>4

(* What the swap has passed, as it goes on.                                  *)
LEMMA NeverPassed == ASSUME NEW f \in Dropped PROVE ~Passed(f)
BY PayloadFacts, ReleaseAssumption DEF Passed, Shipped

LEMMA TargetFacts ==
    ASSUME UpdateInv, Swapping
    PROVE  /\ updater.at \in 1 .. AtWatchdog
           /\ Target \in Shipped \cup {"staged"} /\ Target \in File /\ Target # "updater" /\ Target \notin Dropped
           /\ UpdaterAt("aside") => ~Passed(Target)
           /\ UpdaterAt("in") => Passed(Target)
           /\ \A f \in Dropped : ~Passed(f)
           /\ (Target = "watchdog") <=> (updater.at = AtWatchdog)
           /\ (Target = "staged") <=> (updater.at = AtWatchdog - 1)
<1>1. updater.at \in 1 .. AtWatchdog
    BY DEF UpdateInv, PlaceKnown
<1>2. Target \in Shipped \cup {"staged"}
    BY <1>1, PayloadFacts DEF Target
<1>3. UpdaterAt("aside") => ~Passed(Target)
    BY <1>1, PayloadFacts DEF Target, Passed, UpdaterAt
<1>4. UpdaterAt("in") => Passed(Target)
    BY <1>1 DEF Target, Passed
<1>5. \A f \in Dropped : ~Passed(f)
    BY NeverPassed
<1>6. (Target = "watchdog") <=> (updater.at = AtWatchdog)
    BY <1>1, PayloadFacts DEF Target
<1>7. (Target = "staged") <=> (updater.at = AtWatchdog - 1)
    BY <1>1, PayloadFacts DEF Target
<1>8. Target \in File /\ Target # "updater" /\ Target \notin Dropped
    BY <1>2, Names
<1> QED BY <1>1, <1>2, <1>3, <1>4, <1>5, <1>6, <1>7, <1>8

LEMMA GoesInPasses ==
    ASSUME UpdaterAt("aside"), updater'.pc = "in", updater'.at = updater.at, updater.at \in 1 .. AtWatchdog,
           NEW f
    PROVE  Passed(f)' <=> Passed(f) \/ f = Target
BY PayloadFacts DEF Passed, Target, UpdaterAt

LEMMA GoesOnPasses ==
    ASSUME UpdaterAt("in"), updater'.pc # "in", updater'.at = updater.at + 1, updater.at \in 1 .. AtWatchdog,
           NEW f
    PROVE  Passed(f)' <=> Passed(f)
BY PayloadFacts DEF Passed, Target, UpdaterAt

LEMMA AllReached ==
    ASSUME updater.at = AtWatchdog, UpdaterAt("in"), NEW f \in Shipped
    PROVE  Passed(f)
<1>1. \E j \in 1 .. AtWatchdog : Payload[j] = f
    BY PayloadFacts
<1> QED BY <1>1, PayloadFacts DEF Passed


(* The sets of names: what is renamed on a step, and what stays.             *)
LEMMA KeptFacts ==
    ASSUME TypeOK
    PROVE  /\ file \in [File -> Content] /\ aside \subseteq Kept /\ updater \in UpdaterRecord
           /\ updater.renamed \in Seq(Kept) /\ updater.before \in [File -> Content]
           /\ updater.deletes \subseteq Dropped /\ updater.at \in 1 .. AtWatchdog + 1
           /\ \A f \in File : Is(f) => Backup(f) \in Kept
           /\ \A k \in Kept : k = [name |-> k.name, content |-> k.content] /\ k.name \in File
           /\ Noted \subseteq Kept
<1>1. /\ file \in [File -> Content] /\ aside \subseteq Kept /\ updater \in UpdaterRecord
      /\ updater.renamed \in Seq(Kept) /\ updater.before \in [File -> Content]
      /\ updater.deletes \subseteq Dropped /\ updater.at \in 1 .. AtWatchdog + 1
    BY PayloadFacts DEF TypeOK, UpdaterRecord
<1>2. \A f \in File : Is(f) => Backup(f) \in Kept
    BY <1>1 DEF Is, Backup, Kept, Content
<1>3. \A k \in Kept : k = [name |-> k.name, content |-> k.content] /\ k.name \in File
    BY DEF Kept
<1>4. Noted \subseteq Kept
    BY <1>1 DEF Noted, ToSet
<1> QED BY <1>1, <1>2, <1>3, <1>4

LEMMA StageStep == ASSUME UpdateInv, Stage PROVE UpdateInv'
<1>a. TypeOK /\ PlaceKnown /\ NotYetNew /\ updater \in UpdaterRecord
    BY DEF UpdateInv, TypeOK
<1>1. CASE updater' = NoRun
  <2>1. NoRun \in UpdaterRecord /\ NoRun.pc = "idle" /\ NoRun.at = 1 /\ NoRun.renamed = <<>> /\ ~NoRun.failed
    BY NoRunTyped DEF NoRun
  <2>2. watchdog \in [pc : WatchdogPcs, backup : Content]
    BY <1>a DEF TypeOK
  <2> QED BY <1>1, <2>1, <2>2, OutsideKeeps DEF Stage
<1>2. CASE updater' = [updater EXCEPT !.pc = "aside", !.deletes = Deletes, !.before = file]
  <2>1. /\ updater' \in UpdaterRecord /\ updater'.pc = "aside" /\ updater'.before = file
        /\ updater'.at = 1 /\ updater'.renamed = <<>> /\ file["watchdog"] = "old"
        /\ UNCHANGED <<file, aside, watchdog, halfUndone>>
    BY <1>a, <1>2 DEF Stage, TypeOK, UpdaterRecord, UpdaterPcs, Deletes, Folder, PlaceKnown, NotYetNew,
       Preparing, UpdaterAt
  <2>2. Noted' = {} /\ \A f : ~Passed(f)'
    BY <2>1 DEF Noted, ToSet, Passed, UpdaterAt
  <2>3. TypeOK' /\ PlaceKnown' /\ OnlyNewAdded' /\ NotesPassed' /\ PassedIsNew' /\ NotYetNew'
    BY <1>a, <2>1, <2>2, PayloadFacts DEF UpdateInv, TypeOK, PlaceKnown, OnlyNewAdded, NotesPassed, PassedIsNew,
       NotYetNew, Preparing, Swapping, UpdaterAt
  <2>4. NotesRight' /\ PassedIsNoted'
    BY <2>1, <2>2 DEF NotesRight, PassedIsNoted, NamesDiffer
  <2>5. /\ StillToUndo' /\ PutBackNext' /\ HalfIsKnown' /\ UndoneIsAsFound' /\ SwappedIsNew'
        /\ DroppedIsGone'
    BY <2>1 DEF StillToUndo, PutBackNext, HalfIsKnown, UndoneIsAsFound, SwappedIsNew, DroppedIsGone,
       Undoes, Swapped, UpdaterAt
  <2>6. AllHere' /\ AppliedIsHere' /\ VersionTellsAll'
    BY <1>2, <2>1 DEF Stage, UpdateInv, AllHere, AppliedIsHere, VersionTellsAll, HereOrAside, Is, UpdaterAt
  <2> QED BY <2>3, <2>4, <2>5, <2>6 DEF UpdateInv
<1> QED BY <1>1, <1>2 DEF Stage

LEMMA SwapFailsStep ==
    ASSUME UpdateInv, Swapping \/ UpdaterAt("delete"), SwapFails
    PROVE  UpdateInv'
<1>a. TypeOK /\ updater \in UpdaterRecord
    BY DEF UpdateInv, TypeOK
<1>1. /\ updater' \in UpdaterRecord /\ updater'.pc = "remove" /\ updater'.renamed = updater.renamed
      /\ updater'.before = updater.before /\ UNCHANGED <<file, aside, watchdog>>
      /\ halfUndone' = (halfUndone \/ file["watchdog"] = "new")
    BY <1>a DEF SwapFails, UpdaterGoes, UpdaterRecord, UpdaterPcs, Folder
<1>2. TypeOK' /\ PlaceKnown' /\ OnlyNewAdded' /\ NotesPassed' /\ PassedIsNew' /\ PassedIsNoted' /\ NotYetNew'
  <2>1. halfUndone \in BOOLEAN /\ halfUndone' \in BOOLEAN
    BY <1>a, <1>1 DEF TypeOK
  <2>2. TypeOK'
    BY <1>a, <1>1, <2>1 DEF TypeOK
  <2> QED BY <1>1, <2>2 DEF UpdateInv, PlaceKnown, OnlyNewAdded, NotesPassed, PassedIsNew, PassedIsNoted,
       NotYetNew, Preparing, Swapping, UpdaterAt
<1>3. NotesRight'
    BY <1>1 DEF UpdateInv, NotesRight, Noted
<1>4. StillToUndo'
    BY <1>1 DEF UpdateInv, StillToUndo, PassedIsNoted, Noted
<1>5. HalfIsKnown' /\ VersionTellsAll'
    BY <1>1 DEF UpdateInv, HalfIsKnown, VersionTellsAll
<1>6. PutBackNext' /\ UndoneIsAsFound' /\ SwappedIsNew' /\ DroppedIsGone'
    BY <1>1 DEF PutBackNext, UndoneIsAsFound, SwappedIsNew, DroppedIsGone, Swapped, UpdaterAt
<1>7. AllHere' /\ AppliedIsHere'
    BY <1>1 DEF UpdateInv, AllHere, AppliedIsHere, HereOrAside, Is, UpdaterAt, Swapping
<1> QED BY <1>2, <1>3, <1>4, <1>5, <1>6, <1>7 DEF UpdateInv

LEMMA SwapAsideStep == ASSUME UpdateInv, SwapAside PROVE UpdateInv'
<1>a. TypeOK /\ Swapping /\ UpdaterAt("aside") /\ PassedIsNoted /\ NotesRight /\ NotesPassed /\ NotYetNew
    BY DEF UpdateInv, SwapAside, Swapping
<1>b. /\ file \in [File -> Content] /\ aside \subseteq Kept /\ updater \in UpdaterRecord
      /\ updater.renamed \in Seq(Kept) /\ Noted \subseteq Kept
      /\ \A f \in File : Is(f) => Backup(f) \in Kept
    BY <1>a, KeptFacts
<1>c. /\ updater.at \in 1 .. AtWatchdog
      /\ Target \in Shipped \cup {"staged"} /\ Target \in File /\ Target # "updater" /\ Target \notin Dropped
      /\ ~Passed(Target)
      /\ (Target = "watchdog") <=> (updater.at = AtWatchdog)
      /\ (Target = "staged") <=> (updater.at = AtWatchdog - 1)
    BY <1>a, TargetFacts
<1>1. CASE /\ MoveAside(Target)
           /\ updater' = [updater EXCEPT !.pc = "in", !.renamed = Append(@, Backup(Target))]
           /\ UNCHANGED <<watchdog, halfUndone>>
  <2>1. /\ Backup(Target) \in Kept /\ Backup(Target).name = Target
        /\ Backup(Target) = [name |-> Target, content |-> file[Target]] /\ file[Target] # "none"
    BY <1>1, <1>b, <1>c DEF MoveAside, Backup, Is
  <2>2. /\ updater.renamed' = Append(updater.renamed, Backup(Target))
        /\ updater'.pc = "in" /\ updater'.at = updater.at /\ updater'.before = updater.before
        /\ Target' = Target
        /\ aside' = aside \cup {Backup(Target)}
        /\ file' \in [File -> Content] /\ file'[Target] = "none"
        /\ \A f \in File \ {Target} : file'[f] = file[f]
    BY <1>1, <1>b, <1>c DEF MoveAside, UpdaterRecord, Target, Content
  <2>3. \A k \in Noted : k.name # Target
    BY <1>a, <1>c DEF NotesPassed
  <2>4. /\ Append(updater.renamed, Backup(Target)) \in Seq(Kept)
        /\ Noted' = Noted \cup {Backup(Target)}
        /\ NamesDiffer(updater.renamed')
    BY <1>a, <1>b, <2>1, <2>2, <2>3, NotingOne DEF Noted, NotesRight
  <2>5. \A f : Passed(f)' <=> Passed(f) \/ f = Target
    BY <1>a, <1>c, <2>2, GoesInPasses
  <2>6. updater' \in UpdaterRecord
    BY <1>1, <1>b, <2>4 DEF UpdaterRecord, UpdaterPcs
  <2>7. TypeOK' /\ PlaceKnown' /\ OnlyNewAdded'
    <3>1. TypeOK'
        BY <1>1, <1>a, <1>b, <2>1, <2>2, <2>6 DEF TypeOK
    <3>2. PlaceKnown'
        BY <1>c, <2>2 DEF PlaceKnown, UpdaterAt, Preparing
    <3>3. OnlyNewAdded'
        BY <2>2, Names DEF UpdateInv, OnlyNewAdded
    <3> QED BY <3>1, <3>2, <3>3
  <2>8. NotesRight'
    <3>1. Backup(Target).name = "watchdog" => Backup(Target).content = "old"
        BY <1>a, <1>b, <2>1 DEF NotYetNew, Kept
    <3>2. Backup(Target).name = "staged" => Backup(Target).content = "new"
        BY <2>1 DEF UpdateInv, OnlyNewAdded, Kept
    <3>3. Backup(Target).name \in Restorable => Backup(Target).content = updater.before[Backup(Target).name]
      <4>1. Target \in Restorable => file[Target] = updater.before[Target]
        BY <1>a, <1>c DEF PassedIsNoted
      <4>2. Backup(Target).content = file[Target]
        BY <2>1
      <4> QED BY <2>1, <4>1, <4>2
    <3>4. ASSUME NEW k \in Noted'
          PROVE  /\ k \in aside' /\ k.name # "updater"
                 /\ k.name = "watchdog" => k.content = "old"
                 /\ k.name = "staged" => k.content = "new"
                 /\ k.name \in Restorable => k.content = updater'.before[k.name]
      <4>1. CASE k = Backup(Target)
        BY <1>c, <2>1, <2>2, <3>1, <3>2, <3>3, <4>1
      <4>2. CASE k \in Noted
        BY <1>a, <2>2, <4>2 DEF NotesRight
      <4> QED BY <2>4, <4>1, <4>2
    <3> QED BY <2>4, <3>4 DEF NotesRight
  <2>9. NotesPassed'
    BY <1>a, <2>1, <2>4, <2>5 DEF NotesPassed
  <2>10. PassedIsNew'
    <3>1. \A f \in Shipped : Passed(f)' /\ f # Target' => file'[f] = "new"
        BY <1>a, <2>2, <2>5, Names DEF UpdateInv, PassedIsNew
    <3>2. updater'.at = AtWatchdog => UpdaterRenewed'
        BY <1>a, <1>c, <2>2, Names DEF UpdateInv, PassedIsNew, UpdaterRenewed
    <3> QED BY <3>1, <3>2 DEF PassedIsNew
  <2>11. PassedIsNoted'
    <3> SUFFICES ASSUME NEW f \in Restorable
                 PROVE  IF Passed(f)'
                        THEN updater'.before[f] # "none" => [name |-> f, content |-> updater'.before[f]] \in Noted'
                        ELSE file'[f] = updater'.before[f]
        BY DEF PassedIsNoted
    <3>1. CASE f = Target
        BY <1>a, <1>c, <2>1, <2>2, <2>4, <2>5, <3>1 DEF PassedIsNoted
    <3>2. CASE f # Target
        BY <1>a, <2>2, <2>4, <2>5, <3>2, Names DEF PassedIsNoted
    <3> QED BY <3>1, <3>2
  <2>12. NotYetNew' /\ VersionTellsAll'
    <3>1. file'["watchdog"] # "new"
        BY <1>a, <2>2, Names DEF NotYetNew
    <3> QED BY <2>2, <3>1 DEF NotYetNew, VersionTellsAll, UpdaterAt, Preparing
  <2>13. /\ StillToUndo' /\ PutBackNext' /\ HalfIsKnown' /\ UndoneIsAsFound' /\ SwappedIsNew'
         /\ DroppedIsGone'
    BY <2>2 DEF StillToUndo, PutBackNext, HalfIsKnown, UndoneIsAsFound, SwappedIsNew, DroppedIsGone,
       Undoes, Swapped, UpdaterAt
  <2>14. \A f \in File : HereOrAside(f) => HereOrAside(f)'
    BY <2>1, <2>2 DEF HereOrAside, Is
  <2>15. AllHere' /\ AppliedIsHere'
    <3>1. \A f \in Dropped : HereOrAside(f)
        BY <1>a DEF UpdateInv, AllHere, UpdaterAt
    <3>2. Lasting \cup Dropped \subseteq File
        BY Names
    <3>3. AllHere'
        BY <2>14, <3>1, <3>2 DEF UpdateInv, AllHere
    <3>4. AppliedIsHere'
        BY <1>1, <1>c, <2>2, Names DEF UpdateInv, AppliedIsHere, Is
    <3> QED BY <3>3, <3>4
  <2> QED BY <2>7, <2>8, <2>9, <2>10, <2>11, <2>12, <2>13, <2>15 DEF UpdateInv
<1>2. CASE ~Is(Target) /\ UpdaterGoes("in") /\ UNCHANGED <<Folder, watchdog, halfUndone>>
  <2>1. /\ updater' \in UpdaterRecord /\ updater'.pc = "in" /\ updater'.at = updater.at
        /\ updater'.before = updater.before /\ updater'.renamed = updater.renamed
        /\ Noted' = Noted /\ Target' = Target /\ UNCHANGED <<file, aside, watchdog, halfUndone>>
    BY <1>2, <1>b DEF UpdaterGoes, UpdaterRecord, UpdaterPcs, Folder, Noted, Target
  <2>2. \A f : Passed(f)' <=> Passed(f) \/ f = Target
    BY <1>a, <1>c, <2>1, GoesInPasses
  <2>3. TypeOK' /\ PlaceKnown' /\ OnlyNewAdded'
    BY <1>a, <1>c, <2>1 DEF UpdateInv, TypeOK, PlaceKnown, OnlyNewAdded, UpdaterAt, Preparing
  <2>4. NotesRight' /\ NotesPassed' /\ PassedIsNew' /\ NotYetNew'
    BY <1>a, <2>1, <2>2 DEF UpdateInv, NotesRight, NotesPassed, PassedIsNew, NotYetNew, UpdaterRenewed,
       Preparing, Swapping, UpdaterAt
  <2>5. PassedIsNoted'
    <3> SUFFICES ASSUME NEW f \in Restorable
                 PROVE  IF Passed(f)
                           \/ f = Target
                        THEN updater.before[f] # "none" => [name |-> f, content |-> updater.before[f]] \in Noted
                        ELSE file[f] = updater.before[f]
        BY <2>1, <2>2 DEF PassedIsNoted
    <3>1. CASE f = Target
        BY <1>2, <1>a, <1>c, <3>1 DEF PassedIsNoted, Is
    <3>2. CASE f # Target
        BY <1>a, <3>2 DEF PassedIsNoted
    <3> QED BY <3>1, <3>2
  <2>6. /\ StillToUndo' /\ PutBackNext' /\ HalfIsKnown' /\ UndoneIsAsFound' /\ SwappedIsNew'
        /\ DroppedIsGone'
    BY <2>1 DEF StillToUndo, PutBackNext, HalfIsKnown, UndoneIsAsFound, SwappedIsNew, DroppedIsGone,
       Undoes, Swapped, UpdaterAt
  <2>7. AllHere' /\ AppliedIsHere' /\ VersionTellsAll'
    BY <1>a, <2>1 DEF UpdateInv, AllHere, AppliedIsHere, VersionTellsAll, HereOrAside, Is, UpdaterAt
  <2> QED BY <2>3, <2>4, <2>5, <2>6, <2>7 DEF UpdateInv
<1> QED BY <1>a, <1>1, <1>2, SwapFailsStep DEF SwapAside

LEMMA SwapInStep == ASSUME UpdateInv, SwapIn PROVE UpdateInv'
<1>a. TypeOK /\ Swapping /\ UpdaterAt("in") /\ PassedIsNoted /\ NotesRight /\ NotesPassed /\ NotYetNew /\ PassedIsNew
    BY DEF UpdateInv, SwapIn, Swapping
<1>b. /\ file \in [File -> Content] /\ aside \subseteq Kept /\ updater \in UpdaterRecord
      /\ updater.renamed \in Seq(Kept) /\ Noted \subseteq Kept /\ Len(Payload) = AtWatchdog
    BY <1>a, KeptFacts, PayloadFacts
<1>c. /\ updater.at \in 1 .. AtWatchdog
      /\ Target \in Shipped \cup {"staged"} /\ Target \in File /\ Target # "updater" /\ Target \notin Dropped
      /\ Passed(Target)
      /\ (Target = "watchdog") <=> (updater.at = AtWatchdog)
      /\ (Target = "staged") <=> (updater.at = AtWatchdog - 1)
    BY <1>a, TargetFacts
<1>1. CASE /\ file' = [file EXCEPT ![Target] = "new"]
           /\ updater' = [updater EXCEPT !.pc = IF updater.at = Len(Payload) THEN "delete" ELSE "aside",
                                        !.at = @ + 1]
           /\ UNCHANGED <<aside, watchdog, halfUndone>>
  <2>1. /\ file' \in [File -> Content] /\ file'[Target] = "new"
        /\ \A f \in File \ {Target} : file'[f] = file[f]
    BY <1>1, <1>b, <1>c DEF Content
  <2>2. /\ updater'.pc = IF updater.at = AtWatchdog THEN "delete" ELSE "aside"
        /\ updater'.at = updater.at + 1 /\ updater'.before = updater.before
        /\ updater'.renamed = updater.renamed /\ Noted' = Noted
        /\ updater' \in UpdaterRecord
    <3>1. /\ updater'.pc = IF updater.at = AtWatchdog THEN "delete" ELSE "aside"
          /\ updater'.at = updater.at + 1 /\ updater'.before = updater.before
          /\ updater'.renamed = updater.renamed
        BY <1>1, <1>b DEF UpdaterRecord
    <3>2. updater.at + 1 \in 1 .. Len(Payload) + 1
        BY <1>b, <1>c
    <3>3. updater' \in UpdaterRecord
        BY <1>1, <1>b, <3>2 DEF UpdaterRecord, UpdaterPcs
    <3> QED BY <3>1, <3>3 DEF Noted
  <2>3. \A f : Passed(f)' <=> Passed(f)
    BY <1>a, <1>c, <2>2, GoesOnPasses
  <2>4. TypeOK' /\ PlaceKnown' /\ OnlyNewAdded'
    <3>1. TypeOK'
        BY <1>1, <1>a, <2>1, <2>2 DEF TypeOK
    <3>2. PlaceKnown'
        BY <1>c, <2>2, PayloadFacts DEF PlaceKnown, UpdaterAt, Preparing, Swapping
    <3>3. OnlyNewAdded'
        BY <2>1, Names DEF UpdateInv, OnlyNewAdded
    <3> QED BY <3>1, <3>2, <3>3
  <2>5. NotesRight' /\ NotesPassed'
    BY <1>1, <1>a, <2>2, <2>3 DEF NotesRight, NotesPassed
  <2>6. \A f \in Shipped : Passed(f) => file'[f] = "new"
    BY <1>a, <2>1, Names DEF PassedIsNew
  <2>7. updater.at \in {AtWatchdog - 1, AtWatchdog} => UpdaterRenewed'
    <3>1. CASE updater.at = AtWatchdog - 1
        BY <1>c, <2>1, <3>1 DEF UpdaterRenewed
    <3>2. CASE updater.at = AtWatchdog
        BY <1>a, <1>c, <2>1, <3>2, Names DEF PassedIsNew, UpdaterRenewed
    <3> QED BY <3>1, <3>2
  <2>8. PassedIsNew'
    BY <1>c, <2>2, <2>3, <2>6, <2>7 DEF PassedIsNew, Swapping, UpdaterAt
  <2>9. PassedIsNoted'
    <3> SUFFICES ASSUME NEW f \in Restorable
                 PROVE  IF Passed(f)
                        THEN updater.before[f] # "none" => [name |-> f, content |-> updater.before[f]] \in Noted
                        ELSE file'[f] = updater.before[f]
        BY <2>2, <2>3 DEF PassedIsNoted
    <3>1. CASE Passed(f)
        BY <1>a, <3>1 DEF PassedIsNoted
    <3>2. CASE ~Passed(f)
        BY <1>a, <1>c, <2>1, <3>2, Names DEF PassedIsNoted
    <3> QED BY <3>1, <3>2
  <2>10. updater.at # AtWatchdog => file'["watchdog"] # "new"
    BY <1>a, <1>c, <2>1, Names DEF NotYetNew
  <2>11. updater.at = AtWatchdog => ShippedNew' /\ UpdaterRenewed'
    <3>1. updater.at = AtWatchdog => \A f \in Shipped : Passed(f)
        BY <1>a, AllReached
    <3> QED BY <2>6, <2>7, <3>1 DEF ShippedNew
  <2>12. NotYetNew' /\ SwappedIsNew' /\ VersionTellsAll'
    BY <2>2, <2>10, <2>11 DEF NotYetNew, SwappedIsNew, VersionTellsAll, UpdaterAt, Preparing, Swapping,
       Swapped, ShippedNew, UpdaterRenewed
  <2>13. StillToUndo' /\ PutBackNext' /\ HalfIsKnown' /\ UndoneIsAsFound' /\ DroppedIsGone'
    BY <2>2 DEF StillToUndo, PutBackNext, HalfIsKnown, UndoneIsAsFound, DroppedIsGone, Undoes, UpdaterAt
  <2>14. \A f \in File : HereOrAside(f) => HereOrAside(f)'
    BY <1>1, <2>1 DEF HereOrAside, Is
  <2>15. AllHere' /\ AppliedIsHere'
    <3>1. \A f \in Dropped : HereOrAside(f)
        BY <1>a DEF UpdateInv, AllHere, UpdaterAt
    <3>2. Lasting \cup Dropped \subseteq File
        BY Names
    <3>3. AllHere'
        BY <2>14, <3>1, <3>2 DEF UpdateInv, AllHere
    <3>4. AppliedIsHere'
        BY <1>1, <1>c, <2>1, Names DEF UpdateInv, AppliedIsHere, Is
    <3> QED BY <3>3, <3>4
  <2> QED BY <2>4, <2>5, <2>8, <2>9, <2>12, <2>13, <2>15 DEF UpdateInv
<1> QED BY <1>a, <1>1, SwapFailsStep DEF SwapIn

LEMMA SwapDeleteStep == ASSUME UpdateInv, SwapDelete PROVE UpdateInv'
<1>a. /\ TypeOK /\ UpdaterAt("delete") /\ updater.at = AtWatchdog + 1 /\ PassedIsNoted /\ NotesRight /\ NotesPassed
      /\ ShippedNew /\ UpdaterRenewed
    BY DEF UpdateInv, SwapDelete, PlaceKnown, SwappedIsNew, Swapped
<1>b. /\ file \in [File -> Content] /\ aside \subseteq Kept /\ updater \in UpdaterRecord
      /\ updater.renamed \in Seq(Kept) /\ Noted \subseteq Kept /\ updater.deletes \subseteq Dropped
      /\ \A f \in File : Is(f) => Backup(f) \in Kept
    BY <1>a, KeptFacts
<1>c. \A d \in Dropped : ~Passed(d) /\ d \in File \cap Restorable /\ d \notin Shipped \cup {"staged", "updater"}
    BY NeverPassed, Names
<1>1. ASSUME NEW f \in Deletable,
             MoveAside(f),
             updater' = [updater EXCEPT !.renamed = Append(@, Backup(f))],
             UNCHANGED <<watchdog, halfUndone>>
      PROVE  UpdateInv'
  <2>0. f \in Dropped /\ f \in File /\ Is(f)
    BY <1>b, <1>c DEF Deletable
  <2>1. /\ Backup(f) \in Kept /\ Backup(f).name = f
        /\ Backup(f).content = file[f]
    BY <1>1, <1>b, <2>0 DEF MoveAside, Backup
  <2>2. /\ updater.renamed' = Append(updater.renamed, Backup(f))
        /\ updater'.pc = "delete" /\ updater'.at = updater.at /\ updater'.before = updater.before /\ updater'.deletes = updater.deletes
        /\ aside' = aside \cup {Backup(f)}
        /\ file' \in [File -> Content] /\ file'[f] = "none"
        /\ \A g \in File \ {f} : file'[g] = file[g]
    BY <1>1, <1>a, <1>b, <2>0 DEF MoveAside, UpdaterRecord, UpdaterAt, Content
  <2>3. \A k \in Noted : k.name # f
    BY <1>a, <1>c, <2>0 DEF NotesPassed
  <2>4. /\ Append(updater.renamed, Backup(f)) \in Seq(Kept)
        /\ Noted' = Noted \cup {Backup(f)}
        /\ NamesDiffer(updater.renamed')
    BY <1>a, <1>b, <2>1, <2>2, <2>3, NotingOne DEF Noted, NotesRight
  <2>5. updater' \in UpdaterRecord
    BY <1>1, <1>b, <2>4 DEF UpdaterRecord, UpdaterPcs
  <2>6. TypeOK' /\ OnlyNewAdded'
    <3>1. TypeOK'
        BY <1>1, <1>a, <1>b, <2>1, <2>2, <2>5 DEF TypeOK
    <3>2. OnlyNewAdded'
        BY <2>2, Names DEF UpdateInv, OnlyNewAdded
    <3> QED BY <3>1, <3>2
  <2>7. NotesRight'
    <3>1. file[f] = updater.before[f]
        BY <1>a, <1>c, <2>0 DEF PassedIsNoted
    <3>2. ASSUME NEW k \in Noted'
          PROVE  /\ k \in aside' /\ k.name # "updater"
                 /\ k.name = "watchdog" => k.content = "old"
                 /\ k.name = "staged" => k.content = "new"
                 /\ k.name \in Restorable => k.content = updater'.before[k.name]
      <4>1. CASE k = Backup(f)
        BY <1>c, <2>0, <2>1, <2>2, <3>1, <4>1, Names
      <4>2. CASE k \in Noted
        BY <1>a, <2>2, <4>2 DEF NotesRight
      <4> QED BY <2>4, <4>1, <4>2
    <3> QED BY <2>4, <3>2 DEF NotesRight
  <2>8. \A g : Passed(g)' <=> Passed(g)
    BY <2>2, <1>a DEF Passed, UpdaterAt
  <2>9. ShippedNew' /\ UpdaterRenewed'
    <3>1. \A g \in Shipped \cup {"staged", "updater"} : g \in File \ {f}
        BY <1>c, <2>0, Names
    <3> QED BY <1>a, <2>2, <3>1 DEF ShippedNew, UpdaterRenewed
  <2>10. /\ PlaceKnown' /\ PassedIsNew' /\ NotYetNew' /\ StillToUndo' /\ PutBackNext' /\ HalfIsKnown'
         /\ UndoneIsAsFound' /\ SwappedIsNew' /\ DroppedIsGone' /\ VersionTellsAll'
    BY <1>a, <2>2, <2>9 DEF PlaceKnown, PassedIsNew, NotYetNew, StillToUndo, PutBackNext, HalfIsKnown,
       UndoneIsAsFound, SwappedIsNew, DroppedIsGone, VersionTellsAll, Undoes, Swapping, Preparing,
       ShippedNew, UpdaterRenewed, UpdaterAt
  <2>13. NotesPassed'
    <3> SUFFICES ASSUME NEW k \in Noted'
                 PROVE  Passed(k.name)' \/ (k.name \in Dropped /\ ~Is(k.name)')
        BY <2>2 DEF NotesPassed, Swapping, UpdaterAt
    <3>1. CASE k = Backup(f)
        BY <2>0, <2>1, <2>2, <3>1 DEF Is
    <3>2. CASE k \in Noted
        BY <1>a, <1>c, <2>2, <2>8, <3>2 DEF NotesPassed, Is
    <3> QED BY <2>4, <3>1, <3>2
  <2>14. PassedIsNoted'
    <3> SUFFICES ASSUME NEW g \in Restorable
                 PROVE  IF Passed(g)
                        THEN updater.before[g] # "none" => [name |-> g, content |-> updater.before[g]] \in Noted'
                        ELSE \/ file'[g] = updater.before[g]
                             \/ g \in Dropped /\ ~Is(g)' /\ [name |-> g, content |-> updater.before[g]] \in Noted'
        BY <2>2, <2>8 DEF PassedIsNoted, Swapping, UpdaterAt
    <3>1. CASE g = f
      <4>1. file[f] = updater.before[f]
        BY <1>a, <1>c, <2>0 DEF PassedIsNoted
      <4> QED BY <1>c, <2>0, <2>1, <2>2, <2>4, <3>1, <4>1 DEF Is, Backup
    <3>2. CASE g # f
        BY <1>a, <2>2, <2>4, <3>2, Names DEF PassedIsNoted, Is
    <3> QED BY <3>1, <3>2
  <2>11. \A g \in File : HereOrAside(g) => HereOrAside(g)'
    BY <2>1, <2>2 DEF HereOrAside, Is
  <2>12. AllHere' /\ AppliedIsHere'
    <3>1. \A g \in Dropped : HereOrAside(g)
        BY <1>a DEF UpdateInv, AllHere, UpdaterAt
    <3>2. Lasting \cup Dropped \subseteq File
        BY Names
    <3>3. AllHere'
        BY <1>a, <2>11, <3>1, <3>2 DEF UpdateInv, AllHere
    <3>4. AppliedIsHere'
        BY <1>1, <1>c, <2>0, <2>2, Names DEF UpdateInv, AppliedIsHere, Is
    <3> QED BY <3>3, <3>4
  <2> QED BY <2>6, <2>7, <2>10, <2>12, <2>13, <2>14 DEF UpdateInv
<1>2. CASE /\ Deletable = {}
           /\ UpdaterGoes("clean")
           /\ UNCHANGED <<Folder, watchdog, halfUndone>>
  <2>1. /\ updater' \in UpdaterRecord /\ updater'.pc = "clean" /\ updater'.before = updater.before
        /\ updater'.deletes = updater.deletes /\ updater'.renamed = updater.renamed /\ Noted' = Noted
        /\ UNCHANGED <<file, aside, watchdog, halfUndone>>
    BY <1>2, <1>b DEF UpdaterGoes, UpdaterRecord, UpdaterPcs, Folder, Noted
  <2>2. TypeOK' /\ OnlyNewAdded' /\ NotesRight'
    BY <1>a, <2>1 DEF UpdateInv, TypeOK, OnlyNewAdded, NotesRight
  <2>3. /\ PlaceKnown' /\ NotesPassed' /\ PassedIsNew' /\ PassedIsNoted' /\ NotYetNew'
        /\ StillToUndo' /\ PutBackNext' /\ HalfIsKnown' /\ UndoneIsAsFound'
    BY <2>1 DEF PlaceKnown, NotesPassed, PassedIsNew, PassedIsNoted, NotYetNew, StillToUndo, PutBackNext,
       HalfIsKnown, UndoneIsAsFound, Undoes, Swapping, Preparing, UpdaterAt
  <2>4. SwappedIsNew' /\ DroppedIsGone'
    BY <1>2, <1>a, <1>b, <2>1 DEF SwappedIsNew, DroppedIsGone, ShippedNew, UpdaterRenewed, Deletable, Is
  <2>5. AllHere' /\ AppliedIsHere' /\ VersionTellsAll'
    BY <1>a, <2>1 DEF UpdateInv, AllHere, AppliedIsHere, VersionTellsAll, HereOrAside, Is, UpdaterAt
  <2> QED BY <2>2, <2>3, <2>4, <2>5 DEF UpdateInv
<1> QED BY <1>a, <1>1, <1>2, SwapFailsStep DEF SwapDelete

-----------------------------------------------------------------------------
(* The rollback. *)

LEMMA UndoingFacts ==
    ASSUME UpdateInv, Undoes, updater.renamed # <<>>
    PROVE  /\ Undoing \in Kept \cap aside /\ Undoing \in Noted
           /\ Undoing = [name |-> Undoing.name, content |-> Undoing.content]
           /\ Undoing.name \in File \ {"updater"} /\ Undoing.content \in {"old", "new"}
           /\ Undoing.name = "watchdog" => Undoing.content = "old"
           /\ Undoing.name = "staged" => Undoing.content = "new"
           /\ Undoing.name \in Restorable => Undoing.content = updater.before[Undoing.name]
           /\ Tail(updater.renamed) \in Seq(Kept) /\ NamesDiffer(Tail(updater.renamed))
           /\ Noted = ToSet(Tail(updater.renamed)) \cup {Undoing}
           /\ \A k \in ToSet(Tail(updater.renamed)) : k.name # Undoing.name
<1>1. updater.renamed \in Seq(Kept) /\ NotesRight
    BY KeptFacts DEF UpdateInv
<1>2. /\ Undoing \in Kept /\ Tail(updater.renamed) \in Seq(Kept) /\ NamesDiffer(Tail(updater.renamed))
      /\ Noted = ToSet(Tail(updater.renamed)) \cup {Undoing}
      /\ \A k \in ToSet(Tail(updater.renamed)) : k.name # Undoing.name
    BY <1>1, UndoingOne DEF NotesRight, Noted, Undoing
<1>3. /\ Undoing = [name |-> Undoing.name, content |-> Undoing.content]
      /\ Undoing.name \in File /\ Undoing.content \in {"old", "new"}
    BY <1>2 DEF Kept
<1> QED BY <1>1, <1>2, <1>3 DEF NotesRight

(* One backup is done with, put back or not.                                 *)
LEMMA NextUndoKeeps ==
    ASSUME UpdateInv, Undoes, updater.renamed # <<>>, NEW failed \in BOOLEAN, NextUndo(failed)
    PROVE  /\ updater' \in UpdaterRecord /\ updater'.pc = "remove" /\ updater'.before = updater.before
           /\ updater'.renamed = Tail(updater.renamed)
           /\ ~updater'.failed => ~updater.failed /\ ~failed
           /\ Noted' = ToSet(Tail(updater.renamed))
           /\ PlaceKnown' /\ NotesPassed' /\ PassedIsNew' /\ PassedIsNoted' /\ NotYetNew'
           /\ PutBackNext' /\ UndoneIsAsFound' /\ SwappedIsNew' /\ DroppedIsGone'
<1>1. updater \in UpdaterRecord /\ Tail(updater.renamed) \in Seq(Kept)
    BY UndoingFacts DEF UpdateInv, TypeOK
<1>2. /\ updater' \in UpdaterRecord /\ updater'.pc = "remove" /\ updater'.before = updater.before
      /\ updater'.renamed = Tail(updater.renamed)
      /\ ~updater'.failed => ~updater.failed /\ ~failed
      /\ Noted' = ToSet(Tail(updater.renamed))
    BY <1>1 DEF NextUndo, UpdaterRecord, UpdaterPcs, Noted
<1>3. /\ PlaceKnown' /\ NotesPassed' /\ PassedIsNew' /\ PassedIsNoted' /\ NotYetNew'
      /\ PutBackNext' /\ UndoneIsAsFound' /\ SwappedIsNew' /\ DroppedIsGone'
    BY <1>2 DEF PlaceKnown, NotesPassed, PassedIsNew, PassedIsNoted, NotYetNew, PutBackNext,
       UndoneIsAsFound, SwappedIsNew, DroppedIsGone, Swapped, Swapping, Preparing, UpdaterAt
<1> QED BY <1>2, <1>3

(* One that could not be: what is at the names, and aside, is untouched.     *)
LEMMA GivingUpKeeps ==
    ASSUME UpdateInv, Undoes, updater.renamed # <<>>, NextUndo(TRUE),
           UNCHANGED <<Folder, watchdog, halfUndone>>
    PROVE  UpdateInv'
<1>1. /\ updater' \in UpdaterRecord /\ updater'.pc = "remove" /\ updater'.before = updater.before
      /\ updater'.renamed = Tail(updater.renamed) /\ updater'.failed \in BOOLEAN /\ updater'.failed
      /\ Noted' = ToSet(Tail(updater.renamed))
      /\ PlaceKnown' /\ NotesPassed' /\ PassedIsNew' /\ PassedIsNoted' /\ NotYetNew'
      /\ PutBackNext' /\ UndoneIsAsFound' /\ SwappedIsNew' /\ DroppedIsGone'
    BY NextUndoKeeps DEF UpdaterRecord
<1>2. TypeOK' /\ OnlyNewAdded' /\ HalfIsKnown' /\ VersionTellsAll' /\ AppliedIsHere'
    BY <1>1 DEF UpdateInv, Folder, TypeOK, OnlyNewAdded, HalfIsKnown, VersionTellsAll, AppliedIsHere, Is
<1>3. NotesRight'
    BY <1>1, UndoingFacts DEF UpdateInv, Folder, NotesRight
<1>4. StillToUndo'
    BY <1>1 DEF StillToUndo
<1>5. AllHere'
    BY <1>1 DEF UpdateInv, Folder, AllHere, HereOrAside, Is, Undoes, UpdaterAt
<1> QED BY <1>1, <1>2, <1>3, <1>4, <1>5 DEF UpdateInv

LEMMA RemoveStep == ASSUME UpdateInv, RemoveSwapped PROVE UpdateInv'
<1>a. /\ Undoes /\ UpdaterAt("remove") /\ updater.renamed # <<>> /\ TypeOK /\ HalfIsKnown
      /\ file \in [File -> Content] /\ updater \in UpdaterRecord
    BY DEF UpdateInv, RemoveSwapped, Undoes, TypeOK
<1>1. CASE file' = [file EXCEPT ![Undoing.name] = "none"] /\ UpdaterGoes("putBack")
  <2>1. /\ updater' \in UpdaterRecord /\ updater'.pc = "putBack" /\ updater'.before = updater.before
        /\ updater'.renamed = updater.renamed /\ updater'.failed = updater.failed
        /\ Noted' = Noted /\ Undoing' = Undoing /\ UNCHANGED <<aside, watchdog, halfUndone>>
    BY <1>1, <1>a DEF RemoveSwapped, UpdaterGoes, UpdaterRecord, UpdaterPcs, Noted, Undoing
  <2>2. /\ Undoing.name \in File \ {"updater"}
        /\ file' \in [File -> Content] /\ file'[Undoing.name] = "none"
        /\ \A f \in File \ {Undoing.name} : file'[f] = file[f]
    BY <1>1, <1>a, UndoingFacts DEF Content
  <2>3. TypeOK' /\ OnlyNewAdded' /\ NotesRight'
    <3>1. TypeOK'
        BY <1>a, <2>1, <2>2 DEF TypeOK
    <3>2. OnlyNewAdded'
        BY <2>2, Names DEF UpdateInv, OnlyNewAdded
    <3>3. NotesRight'
        BY <1>a, <2>1 DEF UpdateInv, NotesRight
    <3> QED BY <3>1, <3>2, <3>3
  <2>4. /\ PlaceKnown' /\ NotesPassed' /\ PassedIsNew' /\ PassedIsNoted' /\ NotYetNew'
        /\ UndoneIsAsFound' /\ SwappedIsNew' /\ DroppedIsGone'
    BY <2>1 DEF PlaceKnown, NotesPassed, PassedIsNew, PassedIsNoted, NotYetNew,
       UndoneIsAsFound, SwappedIsNew, DroppedIsGone, Swapped, Swapping, Preparing, UpdaterAt
  <2>5. StillToUndo'
    <3> SUFFICES ASSUME ~updater.failed, NEW f \in Restorable, updater.before[f] # "none"
                 PROVE  \/ file'[f] = updater.before[f]
                        \/ [name |-> f, content |-> updater.before[f]] \in Noted
        BY <2>1 DEF StillToUndo
    <3>1. CASE f = Undoing.name
        BY <1>a, <3>1, UndoingFacts
    <3>2. CASE f # Undoing.name
        BY <1>a, <2>2, <3>2, Names DEF UpdateInv, StillToUndo
    <3> QED BY <3>1, <3>2
  <2>6. PutBackNext'
    BY <1>a, <2>1, <2>2 DEF PutBackNext, Is
  <2>7. HalfIsKnown' /\ VersionTellsAll'
    <3>1. file'["watchdog"] = "new" => file["watchdog"] = "new"
        BY <2>2, Names
    <3> QED BY <1>a, <2>1, <3>1 DEF HalfIsKnown, VersionTellsAll
  <2>8. AllHere' /\ AppliedIsHere'
    <3>1. \A f \in File : HereOrAside(f) => HereOrAside(f)'
        BY <1>a, <2>1, <2>2, UndoingFacts DEF HereOrAside, Is
    <3>2. \A f \in Dropped : HereOrAside(f)
        BY <1>a DEF UpdateInv, AllHere, UpdaterAt
    <3>3. Lasting \cup Dropped \subseteq File
        BY Names
    <3>4. AllHere'
        BY <3>1, <3>2, <3>3 DEF UpdateInv, AllHere
    <3>5. AppliedIsHere'
        BY <2>1, <2>2, Names DEF UpdateInv, AppliedIsHere, Is
    <3> QED BY <3>4, <3>5
  <2> QED BY <2>3, <2>4, <2>5, <2>6, <2>7, <2>8 DEF UpdateInv
<1>2. CASE NextUndo(TRUE) /\ UNCHANGED file
    BY <1>2, <1>a, GivingUpKeeps DEF RemoveSwapped, Folder
<1> QED BY <1>1, <1>2 DEF RemoveSwapped

LEMMA PutBackStep == ASSUME UpdateInv, PutBack PROVE UpdateInv'
<1>a. /\ Undoes /\ UpdaterAt("putBack") /\ updater.renamed # <<>> /\ TypeOK /\ HalfIsKnown
      /\ file \in [File -> Content] /\ aside \subseteq Kept /\ halfUndone \in BOOLEAN
    BY DEF UpdateInv, PutBack, Undoes, TypeOK, PutBackNext
<1>1. CASE /\ MoveBack(Undoing)
           /\ NextUndo(FALSE)
           /\ halfUndone' = (halfUndone /\ Undoing.name # "watchdog")
  <2>1. /\ updater' \in UpdaterRecord /\ updater'.pc = "remove" /\ updater'.before = updater.before
        /\ updater'.renamed = Tail(updater.renamed) /\ (~updater'.failed => ~updater.failed)
        /\ Noted' = ToSet(Tail(updater.renamed))
        /\ PlaceKnown' /\ NotesPassed' /\ PassedIsNew' /\ PassedIsNoted' /\ NotYetNew'
        /\ PutBackNext' /\ UndoneIsAsFound' /\ SwappedIsNew' /\ DroppedIsGone'
    BY <1>1, <1>a, NextUndoKeeps
  <2>2. /\ Undoing.name \in File \ {"updater"} /\ Undoing.content \in {"old", "new"}
        /\ Undoing.name = "watchdog" => Undoing.content = "old"
        /\ Undoing.name = "staged" => Undoing.content = "new"
    BY <1>a, UndoingFacts
  <2>3. /\ file' \in [File -> Content] /\ file'[Undoing.name] = Undoing.content
        /\ \A f \in File \ {Undoing.name} : file'[f] = file[f]
        /\ aside' = aside \ {Undoing} /\ watchdog' = watchdog
    BY <1>1, <1>a, <2>2 DEF PutBack, MoveBack, Content
  <2>4. TypeOK' /\ OnlyNewAdded'
    <3>1. halfUndone' \in BOOLEAN
        BY <1>1, <1>a
    <3>2. aside' \subseteq Kept
        BY <1>a, <2>3
    <3>3. OnlyNewAdded'
        BY <2>2, <2>3, Names DEF UpdateInv, OnlyNewAdded
    <3> QED BY <1>a, <2>1, <2>3, <3>1, <3>2, <3>3 DEF TypeOK
  <2>5. NotesRight'
    BY <1>a, <2>1, <2>3, UndoingFacts DEF UpdateInv, NotesRight
  <2>6. StillToUndo'
    <3> SUFFICES ASSUME ~updater.failed, NEW f \in Restorable, updater.before[f] # "none"
                 PROVE  \/ file'[f] = updater.before[f]
                        \/ [name |-> f, content |-> updater.before[f]] \in ToSet(Tail(updater.renamed))
        BY <2>1 DEF StillToUndo
    <3>1. CASE f = Undoing.name
        BY <1>a, <2>3, <3>1, UndoingFacts
    <3>2. CASE f # Undoing.name
      <4>1. \/ file[f] = updater.before[f]
            \/ [name |-> f, content |-> updater.before[f]] \in Noted
        BY <1>a DEF UpdateInv, StillToUndo
      <4>2. [name |-> f, content |-> updater.before[f]] # Undoing
        BY <3>2
      <4>3. Noted = ToSet(Tail(updater.renamed)) \cup {Undoing}
        BY <1>a, UndoingFacts
      <4> QED BY <2>3, <3>2, <4>1, <4>2, <4>3, Names
    <3> QED BY <3>1, <3>2
  <2>7. HalfIsKnown' /\ VersionTellsAll'
    <3>1. file'["watchdog"] = "new" => Undoing.name # "watchdog" /\ file["watchdog"] = "new"
        BY <2>2, <2>3, Names
    <3>2. file'["watchdog"] = "new" => halfUndone'
        BY <1>1, <1>a, <3>1 DEF HalfIsKnown
    <3> QED BY <3>2 DEF HalfIsKnown, VersionTellsAll
  <2>8. AllHere' /\ AppliedIsHere'
    <3>1. \A f \in File : HereOrAside(f) => HereOrAside(f)'
        BY <1>a, <2>2, <2>3 DEF HereOrAside, Is
    <3>2. \A f \in Dropped : HereOrAside(f)
        BY <1>a DEF UpdateInv, AllHere, UpdaterAt
    <3>3. Lasting \cup Dropped \subseteq File
        BY Names
    <3>4. AllHere'
        BY <3>1, <3>2, <3>3 DEF UpdateInv, AllHere
    <3>5. AppliedIsHere'
        BY <2>2, <2>3, Names DEF UpdateInv, AppliedIsHere, Is
    <3> QED BY <3>4, <3>5
  <2> QED BY <2>1, <2>4, <2>5, <2>6, <2>7, <2>8 DEF UpdateInv
<1>2. CASE NextUndo(TRUE) /\ UNCHANGED <<Folder, halfUndone>>
    BY <1>2, <1>a, GivingUpKeeps DEF PutBack
<1> QED BY <1>1, <1>2 DEF PutBack

LEMMA UndoneStep == ASSUME UpdateInv, Undone PROVE UpdateInv'
<1>a. Undoes /\ updater.renamed = <<>> /\ TypeOK /\ updater \in UpdaterRecord
    BY DEF UpdateInv, Undone, Undoes, TypeOK
<1>1. /\ updater' \in UpdaterRecord /\ updater'.pc = "undone" /\ updater'.before = updater.before
      /\ updater'.failed = updater.failed /\ UNCHANGED <<file, aside, watchdog, halfUndone>>
    BY <1>a DEF Undone, UpdaterGoes, UpdaterRecord, UpdaterPcs, Folder
<1>2. Noted = {}
    BY <1>a DEF Noted, ToSet
<1>3. UndoneIsAsFound'
    BY <1>a, <1>1, <1>2 DEF UpdateInv, StillToUndo, UndoneIsAsFound
<1>4. TypeOK' /\ OnlyNewAdded' /\ HalfIsKnown' /\ VersionTellsAll' /\ AppliedIsHere'
    BY <1>a, <1>1 DEF UpdateInv, TypeOK, OnlyNewAdded, HalfIsKnown, VersionTellsAll, AppliedIsHere, Is
<1>5. /\ PlaceKnown' /\ NotesRight' /\ NotesPassed' /\ PassedIsNew' /\ PassedIsNoted' /\ NotYetNew'
      /\ StillToUndo' /\ PutBackNext' /\ SwappedIsNew' /\ DroppedIsGone'
    BY <1>1 DEF PlaceKnown, NotesRight, NotesPassed, PassedIsNew, PassedIsNoted, NotYetNew, StillToUndo,
       PutBackNext, SwappedIsNew, DroppedIsGone, Undoes, Swapped, Swapping, Preparing, UpdaterAt
<1>6. AllHere'
    BY <1>a, <1>1 DEF UpdateInv, AllHere, HereOrAside, Is, Undoes, UpdaterAt
<1> QED BY <1>3, <1>4, <1>5, <1>6 DEF UpdateInv

-----------------------------------------------------------------------------
(* The end of a run that succeeded. *)

LEMMA CleanUpStep == ASSUME UpdateInv, CleanUp PROVE UpdateInv'
<1>a. UpdaterAt("clean") /\ TypeOK /\ updater \in UpdaterRecord /\ ShippedNew /\ UpdaterRenewed /\ DroppedIsGone
    BY DEF UpdateInv, CleanUp, TypeOK, SwappedIsNew, Swapped
<1>1. /\ updater' \in UpdaterRecord /\ updater'.pc = "relaunch" /\ updater'.deletes = updater.deletes
      /\ UNCHANGED <<file, watchdog, halfUndone>>
    BY <1>a DEF CleanUp, UpdaterGoes, UpdaterRecord, UpdaterPcs
<1>2. aside' \subseteq aside /\ \A k \in aside : k \notin aside' => k \in Noted
    BY DEF CleanUp, Noted
<1>3. /\ TypeOK' /\ OnlyNewAdded' /\ VersionTellsAll' /\ AppliedIsHere' /\ SwappedIsNew' /\ DroppedIsGone'
      /\ ShippedNew'
    BY <1>a, <1>1, <1>2 DEF UpdateInv, TypeOK, OnlyNewAdded, VersionTellsAll, AppliedIsHere, Is,
       SwappedIsNew, DroppedIsGone, ShippedNew, UpdaterRenewed, UpdaterAt
<1>4. /\ PlaceKnown' /\ NotesRight' /\ NotesPassed' /\ PassedIsNew' /\ PassedIsNoted' /\ NotYetNew'
      /\ StillToUndo' /\ PutBackNext' /\ HalfIsKnown' /\ UndoneIsAsFound'
    BY <1>1 DEF PlaceKnown, NotesRight, NotesPassed, PassedIsNew, PassedIsNoted, NotYetNew, StillToUndo,
       PutBackNext, HalfIsKnown, UndoneIsAsFound, Undoes, Swapping, Preparing, UpdaterAt
<1>5. AllHere'
  <2>1. \A f \in Shipped : HereOrAside(f)'
    BY <1>a, <1>1 DEF ShippedNew, HereOrAside, Is
  <2>2. \A k \in Noted : k.name # "updater"
    BY <1>a DEF UpdateInv, NotesRight
  <2>3. HereOrAside("updater")'
    BY <1>1, <1>2, <2>2 DEF UpdateInv, AllHere, Lasting, HereOrAside, Is
  <2> QED BY <1>1, <1>3, <2>1, <2>3 DEF AllHere, Lasting, UpdaterAt
<1> QED BY <1>3, <1>4, <1>5 DEF UpdateInv

LEMMA UpdateInvNext == UpdateInv /\ [Next]_vars => UpdateInv'
<1> SUFFICES ASSUME UpdateInv, [Next]_vars PROVE UpdateInv'
    OBVIOUS
<1>1. CASE Swap
    BY <1>1, SwapAsideStep, SwapInStep, SwapDeleteStep DEF Swap
<1>2. CASE Rollback
    BY <1>2, RemoveStep, PutBackStep, UndoneStep, OutsideStep DEF Rollback
<1>3. CASE Stage \/ CleanUp
    BY <1>3, StageStep, CleanUpStep
<1>4. CASE UpdaterStarts \/ UpdaterDeclines \/ StopWatchdog \/ LaunchWatchdog \/ UpdaterKilled
    BY <1>4, OutsideStep
<1>5. CASE WatchdogStarts \/ Apply \/ WatchdogEnds
    BY <1>5, WatchdogStep
<1>6. CASE UNCHANGED vars
  <2>1. TypeOK' /\ AppliedIsHere' /\ AllHere'
    BY <1>6 DEF UpdateInv, vars, TypeOK, AppliedIsHere, AllHere, HereOrAside, Is, ShippedNew, UpdaterAt
  <2> QED BY <1>6, <2>1, WatchdogKeeps DEF vars, AllHere, Lasting, UpdaterRenewed
<1> QED BY <1>1, <1>2, <1>3, <1>4, <1>5, <1>6 DEF Next

THEOREM UpdateInvariant == Spec => []UpdateInv
BY UpdateInvInit, UpdateInvNext, PTL DEF Spec

(* A run that reached its end replaced every file; one whose rollback could  *)
(* undo every rename left each file as it found it.                          *)
THEOREM Atomic == Spec => []AllOrNothing
<1>1. UpdateInv => AllOrNothing
  <2> SUFFICES ASSUME UpdateInv PROVE AllOrNothing
    OBVIOUS
  <2>1. UpdaterAt("clean") \/ UpdaterAt("relaunch") =>
           (\A f \in Shipped : file[f] = "new") /\ \A f \in updater.deletes : ~Is(f)
    BY DEF UpdateInv, SwappedIsNew, DroppedIsGone, Swapped, ShippedNew
  <2>2. UpdaterAt("undone") /\ ~updater.failed =>
           \A f \in Restorable : updater.before[f] # "none" => file[f] = updater.before[f]
    BY DEF UpdateInv, UndoneIsAsFound
  <2> QED BY <2>1, <2>2 DEF AllOrNothing, Restorable
<1> QED BY <1>1, UpdateInvariant, PTL

(* However often the updater is killed, and whatever fails, each installed   *)
(* file is at its name or aside.                                             *)
THEOREM FilesKept == Spec => []NothingLost
<1>1. UpdateInv => NothingLost
  <2> SUFFICES ASSUME UpdateInv, NEW f \in File \ (Added \cup {"staged"})
               PROVE  \/ Is(f) \/ \E k \in aside : k.name = f
                      \/ f \in Dropped /\ file[Manifest] = "new"
    BY DEF NothingLost
  <2>1. f \in Lasting \/ f \in Dropped
    BY DEF File, Lasting
  <2> QED BY <2>1, Names DEF UpdateInv, AllHere, HereOrAside, ShippedNew
<1> QED BY <1>1, UpdateInvariant, PTL

(* Where the watchdog's file is the new release's, every file is, unless a   *)
(* rollback has not come to it yet.                                          *)
THEOREM VersionTrusted == Spec => []VersionTellsAll
<1>1. UpdateInv => VersionTellsAll
    BY DEF UpdateInv
<1> QED BY <1>1, UpdateInvariant, PTL
=============================================================================
