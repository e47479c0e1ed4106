---------------------------- MODULE MachineProofs ----------------------------
(***************************************************************************)
(* For any number of certificates, any windows of retry and any clock: a   *)
(* certificate that is served is trusted, what the uninstaller saw removed *)
(* is gone, and no codec is touched before the time that is known of it.   *)
(***************************************************************************)
EXTENDS Machine, TLAPS

-----------------------------------------------------------------------------
(* The certificate. *)

(* While a removal that was not overtaken by a start goes on, nothing adds a *)
(* certificate; and its child, once past the stores, has emptied them or     *)
(* says that it has not.                                                     *)
RemovalIsAlone == ~RemoverAt("off") => RelayAt("off") /\ \A c \in Certs : setup[c] = "none"
ChildEmpties ==
    RemoverAt("wait") =>
        /\ remover.child # "none"
        /\ remover.child \in {"key", "cert", "exit"} /\ ~remover.errors => root = {}

TlsInv == TlsTypeOK /\ SecureIsTrusted /\ RemovalIsAlone /\ ChildEmpties /\ NoTrustLeft

LEMMA TlsInvInit == TlsInit => TlsInv
<1> SUFFICES ASSUME TlsInit PROVE TlsInv
    OBVIOUS
<1>1. TlsTypeOK
    BY DEF TlsInit, TlsTypeOK, NoRelay, RelayPcs
<1>2. SecureIsTrusted /\ RemovalIsAlone /\ ChildEmpties /\ NoTrustLeft
    BY DEF TlsInit, SecureIsTrusted, RemovalIsAlone, ChildEmpties, NoTrustLeft, RemoverAt,
           RelayAt, NoRelay
<1> QED BY <1>1, <1>2 DEF TlsInv

(* The relay's own steps leave the store alone; only a check that finds the  *)
(* certificate there goes on to serve it.                                    *)
LEMMA RelayStepKeeps ==
    ASSUME TlsInv, RelayStep
    PROVE  TlsInv'
<1> USE DEF TlsInv, TlsTypeOK, SecureIsTrusted, RemovalIsAlone, ChildEmpties, NoTrustLeft,
            RemoverAt, RelayAt, RelayGoes, NoRelay, RelayPcs
<1>1. CASE RelayBegins
    BY <1>1 DEF RelayBegins
<1>2. CASE PortIsTaken
    BY <1>2 DEF PortIsTaken
<1>3. CASE LoadPair
    BY <1>3 DEF LoadPair, Loadable, Usable, Ours
<1>4. CASE NewPair
  <2>1. CASE relay' = [relay EXCEPT !.pc = "http"] /\ UNCHANGED fresh
    BY <1>4, <2>1 DEF NewPair
  <2>2. CASE \E c \in fresh : /\ Generates(c)
                             /\ relay' = [relay EXCEPT !.pc = "saveKey", !.pair = c]
    <3> PICK c \in fresh : /\ Generates(c)
                           /\ relay' = [relay EXCEPT !.pc = "saveKey", !.pair = c]
        BY <2>2
    <3>1. c \in Certs /\ fresh' \in SUBSET Certs
        BY DEF Generates
    <3>2. relay' \in [pc : RelayPcs, pair : Certs \cup {None}, again : BOOLEAN]
        BY <3>1
    <3>3. TlsTypeOK'
        BY <1>4, <3>1, <3>2 DEF NewPair
    <3> QED BY <1>4, <3>3 DEF NewPair
  <2> QED BY <1>4, <2>1, <2>2 DEF NewPair
<1>5. CASE SaveKey
    BY <1>5 DEF SaveKey
<1>6. CASE SaveCert
    BY <1>6 DEF SaveCert
<1>7. CASE CheckTrust
    BY <1>7 DEF CheckTrust, Trusted
<1>8. CASE PromptForTrust
    BY <1>8 DEF PromptForTrust
<1>9. CASE WaitForTrust
    BY <1>9 DEF WaitForTrust
<1>10. CASE VerifyTrust
    BY <1>10 DEF VerifyTrust, Trusted
<1>11. CASE RelayEnds
    BY <1>11 DEF RelayEnds
<1> QED BY <1>1, <1>2, <1>3, <1>4, <1>5, <1>6, <1>7, <1>8, <1>9, <1>10, <1>11 DEF RelayStep

LEMMA RemovalStepKeeps ==
    ASSUME TlsInv, RemovalStep
    PROVE  TlsInv'
<1> USE DEF TlsInv, TlsTypeOK, SecureIsTrusted, RemovalIsAlone, ChildEmpties, NoTrustLeft,
            RemoverAt, RelayAt
<1>1. CASE RemovalBegins
    BY <1>1 DEF RemovalBegins
<1>2. CASE RemovalElevates
  <2> DEFINE Removers == [pc : {"off", "check", "wait", "clean", "told", "unseen"},
                            child : {"none", "roots", "key", "cert", "exit"},
                            errors : BOOLEAN]
  <2>2. CASE ~NeedsRemoval /\ remover' = [remover EXCEPT !.pc = "clean"]
    <3>1. remover' \in Removers
        BY <2>2
    <3> QED BY <1>2, <2>2, <3>1 DEF RemovalElevates, NeedsRemoval
  <2>3. CASE remover' = [remover EXCEPT !.pc = "told"]
    <3>1. remover' \in Removers
        BY <2>3
    <3> QED BY <1>2, <2>3, <3>1 DEF RemovalElevates
  <2>4. CASE \E pc \in {"wait", "unseen"} :
                remover' = [pc |-> pc, child |-> "roots", errors |-> FALSE]
    <3>1. remover' \in Removers
        BY <2>4
    <3> QED BY <1>2, <2>4, <3>1 DEF RemovalElevates
  <2> QED BY <1>2, <2>2, <2>3, <2>4 DEF RemovalElevates
<1>3. CASE RemoveRoots
  <2>1. CASE RemovesRoots(Ours) /\ remover' = [remover EXCEPT !.child = "key"]
    <3>1. root' = {}
        BY <2>1 DEF RemovesRoots, Ours
    <3>2. late' \in BOOLEAN /\ SecureIsTrusted'
        BY <1>3, <2>1 DEF RemoveRoots, RemovesRoots, Serves, Ours
    <3>3. TlsTypeOK'
        BY <1>3, <2>1, <3>1, <3>2 DEF RemoveRoots
    <3> QED BY <1>3, <2>1, <3>1, <3>2, <3>3 DEF RemoveRoots
  <2>2. CASE /\ \E some \in SUBSET Ours : RemovesRoots(some)
             /\ remover' = [remover EXCEPT !.child = "key", !.errors = TRUE]
    <3> PICK some \in SUBSET Ours : RemovesRoots(some)
        BY <2>2
    <3>1. root' \in SUBSET root
        BY DEF RemovesRoots
    <3>2. late' \in BOOLEAN /\ SecureIsTrusted'
        BY <1>3 DEF RemoveRoots, RemovesRoots, Serves, Ours
    <3>3. TlsTypeOK'
        BY <1>3, <2>2, <3>1, <3>2 DEF RemoveRoots
    <3> QED BY <1>3, <2>2, <3>1, <3>2, <3>3 DEF RemoveRoots
  <2> QED BY <1>3, <2>1, <2>2 DEF RemoveRoots
<1>4. CASE RemoveKey
    BY <1>4 DEF RemoveKey
<1>5. CASE RemoveCert
    BY <1>5 DEF RemoveCert
<1>6. CASE RemovalReports
    BY <1>6 DEF RemovalReports
<1>7. CASE RemovalForgotten
    BY <1>7 DEF RemovalForgotten
<1> QED BY <1>1, <1>2, <1>3, <1>4, <1>5, <1>6, <1>7 DEF RemovalStep

LEMMA SetupStepKeeps ==
    ASSUME TlsInv, NEW c \in Certs,
           AddRoot(c) \/ RemoveOthers(c) \/ SetupForgotten(c) \/ Expires(c)
    PROVE  TlsInv'
<1> USE DEF TlsInv, TlsTypeOK, SecureIsTrusted, RemovalIsAlone, ChildEmpties, NoTrustLeft,
            RemoverAt, RelayAt
<1>1. CASE AddRoot(c)
    BY <1>1 DEF AddRoot, Installable, Usable, Ours
<1>2. CASE RemoveOthers(c)
  <2>1. PICK some \in SUBSET Certs : RemovesRoots(some)
    BY <1>2 DEF RemoveOthers, Ours
  <2>2. root' \in SUBSET root
    BY <2>1 DEF RemovesRoots
  <2>3. late' \in BOOLEAN /\ SecureIsTrusted'
    BY <1>2, <2>1 DEF RemoveOthers, RemovesRoots, Serves
  <2>4. setup' \in [Certs -> {"none", "started", "added", "removed", "failed"}]
    BY <1>2 DEF RemoveOthers
  <2>5. RemoverAt("off")
    BY <1>2 DEF RemoveOthers
  <2>6. TlsTypeOK'
    BY <1>2, <2>2, <2>3, <2>4 DEF RemoveOthers
  <2> QED BY <1>2, <2>3, <2>5, <2>6 DEF RemoveOthers
<1>3. CASE SetupForgotten(c)
    BY <1>3 DEF SetupForgotten
<1>4. CASE Expires(c)
    BY <1>4 DEF Expires
<1> QED BY <1>1, <1>2, <1>3, <1>4

LEMMA TlsInvNext == TlsInv /\ [TlsNext]_tlsVars => TlsInv'
<1>1. TlsInv /\ UNCHANGED tlsVars => TlsInv'
    BY DEF TlsInv, TlsTypeOK, SecureIsTrusted, RemovalIsAlone, ChildEmpties, NoTrustLeft,
           RemoverAt, RelayAt, tlsVars
<1> QED BY <1>1, RelayStepKeeps, RemovalStepKeeps, SetupStepKeeps DEF TlsNext

-----------------------------------------------------------------------------
(* The limit of connections. *)

(* Short of a mishap: what is not ours was there before, and so was whatever *)
(* the marker says; as long as the value is ours the marker is there; and    *)
(* the two programs are never both at it.                                    *)
ValueKnown ==
    /\ ours => limit = "TARGET"
    /\ ~ours /\ ~mishap => limit \in had
MarkerKnown ==
    ~mishap => /\ marker \in had \cup {"none"}
               /\ RaiserAt("mark") => raiser.saw \in had
MarkerStays == ours \/ RaiserAt("set") => marker # "none" \/ mishap
OneAtATime == RaiserAt("off") \/ PutBackAt("off")
PutBackWorks ==
    /\ PutBackAt("drop") => ~ours
    /\ PutBackAt("wipe") /\ ~putBack.errors /\ ~mishap => ~ours

LimitInv ==
    /\ LimitTypeOK
    /\ ValueKnown /\ MarkerKnown /\ MarkerStays
    /\ OneAtATime /\ PutBackWorks /\ LimitComesBack

LEMMA LimitInvInit == LimitInit => LimitInv
<1> SUFFICES ASSUME LimitInit PROVE LimitInv
    OBVIOUS
<1>1. LimitTypeOK
    BY DEF LimitInit, LimitTypeOK, NotRaising, NotRemoving, Limits, TooLow
<1>2. ValueKnown /\ MarkerKnown
    BY DEF LimitInit, ValueKnown, MarkerKnown, RaiserAt, NotRaising, Limits, TooLow
<1>3. MarkerStays /\ OneAtATime /\ PutBackWorks /\ LimitComesBack
    BY DEF LimitInit, MarkerStays, OneAtATime, PutBackWorks, LimitComesBack, RaiserAt,
           PutBackAt, NotRaising, NotRemoving
<1> QED BY <1>1, <1>2, <1>3 DEF LimitInv

LEMMA LimitInvNext == LimitInv /\ [LimitNext]_limitVars => LimitInv'
<1> SUFFICES ASSUME LimitInv, [LimitNext]_limitVars PROVE LimitInv'
    OBVIOUS
<1> USE DEF LimitInv, LimitTypeOK, ValueKnown, MarkerKnown, MarkerStays, OneAtATime,
            PutBackWorks, LimitComesBack, RaiserAt, RaiserGoes, PutBackAt, PutBackGoes,
            Stays, NotRaising, NotRemoving, Limits, TooLow
<1>1. CASE UserSets
  <2>1. limit' \in Limits /\ had' \subseteq Limits /\ limit' \in had' /\ had \subseteq had' /\ ~ours'
    BY <1>1 DEF UserSets
  <2>2. LimitTypeOK'
    BY <1>1, <2>1 DEF UserSets
  <2> QED BY <1>1, <2>1, <2>2 DEF UserSets
<1>2. CASE Raises
    BY <1>2 DEF Raises
<1>3. CASE Marks
  <2>1. CASE marker' = raiser.saw /\ RaiserGoes("set") /\ UNCHANGED mishap
    BY <1>3, <2>1 DEF Marks
  <2>2. CASE marker' = "torn" /\ RaiserGoes("up") /\ mishap' = TRUE
    BY <1>3, <2>2 DEF Marks
  <2>3. CASE RaiserGoes("up") /\ UNCHANGED <<marker, mishap>>
    BY <1>3, <2>3 DEF Marks
  <2> QED BY <1>3, <2>1, <2>2, <2>3 DEF Marks
<1>4. CASE RaiseSets
  <2>1. CASE limit' = "TARGET" /\ ours' = TRUE /\ UNCHANGED had
    BY <1>4, <2>1 DEF RaiseSets
  <2>2. CASE Stays
    BY <1>4, <2>2 DEF RaiseSets
  <2> QED BY <1>4, <2>1, <2>2 DEF RaiseSets
<1>5. CASE RaiserEnds
    BY <1>5 DEF RaiserEnds
<1>6. CASE PutBackBegins
    BY <1>6 DEF PutBackBegins
<1>7. CASE PutsBack
  <2>1. CASE PutBackGoes("drop") /\ limit # "TARGET" /\ Stays
    BY <1>7, <2>1 DEF PutsBack
  <2>2. CASE /\ PutBackGoes("drop") /\ limit = "TARGET"
             /\ limit' = Previous /\ ours' = FALSE /\ UNCHANGED had
    BY <1>7, <2>2 DEF PutsBack, Previous
  <2>3. CASE putBack' = [pc |-> "wipe", errors |-> TRUE] /\ Stays
    BY <1>7, <2>3 DEF PutsBack
  <2> QED BY <1>7, <2>1, <2>2, <2>3 DEF PutsBack
<1>8. CASE PassesOver
    BY <1>8 DEF PassesOver
<1>9. CASE DropsMarker
    BY <1>9 DEF DropsMarker
<1>10. CASE WipesState
    BY <1>10 DEF WipesState
<1>11. CASE PutBackEnds
    BY <1>11 DEF PutBackEnds
<1>12. CASE UNCHANGED limitVars
    BY <1>12 DEF limitVars
<1> QED BY <1>1, <1>2, <1>3, <1>4, <1>5, <1>6, <1>7, <1>8, <1>9, <1>10, <1>11, <1>12
        DEF LimitNext

-----------------------------------------------------------------------------
(* The codecs. *)

(* What stands of each codec is what the task has or, when it has nothing,   *)
(* what the file has; before the first new result these are the same.        *)
Telling ==
    IF check.step \in {"off", "over"}
    THEN \A c \in Codecs : Standing(c) = stateFile[c]
    ELSE /\ \A c \in Codecs : Standing(c) = state[c]
         /\ check.dirty \/ state = stateFile

CheckRecord == [step : {"off", "next", "mf", "appx", "winget", "verify", "verifyAppx", "save",
                        "over"},
                codec : Nat, id : Nat, dirty : BOOLEAN]
CodecTypes ==
    /\ day \in 0 .. LastDay
    /\ check \in CheckRecord
    /\ state \in [Codecs -> Entries]
    /\ stateFile \in [Codecs -> Entries]
    /\ told \in [Codecs -> Entries]
    /\ lost \in SUBSET Codecs

CodecInv == CodecTypes /\ Telling

LEMMA WindowIsNat == ASSUME NEW r PROVE Window(r) \in Nat
BY CodecAssumption DEF Window

LEMMA NothingIsTyped == NothingKnown \in [Codecs -> Entries]
<1>1. NoEntry \in Entries
    BY CodecAssumption DEF NoEntry, Entries
<1> QED BY <1>1 DEF NothingKnown

LEMMA CodecInvInit == CodecInit => CodecInv
<1> SUFFICES ASSUME CodecInit PROVE CodecInv
    OBVIOUS
<1>1. CodecTypes
    BY NothingIsTyped, CodecAssumption DEF CodecInit, CodecTypes, CheckRecord, Off
<1> QED BY <1>1 DEF CodecInv, Telling, Standing, CodecInit, Off

(* The next codec, the next store id. *)
LEMMA NextIsTyped ==
    ASSUME NEW k \in CheckRecord, NEW dirty \in BOOLEAN
    PROVE  /\ [k EXCEPT !.codec = @ + 1] \in CheckRecord
           /\ [k EXCEPT !.step = "winget", !.id = @ + 1] \in CheckRecord
           /\ [k EXCEPT !.step = "next", !.codec = @ + 1, !.dirty = dirty] \in CheckRecord
<1>1. k.codec + 1 \in Nat /\ k.id + 1 \in Nat
    BY DEF CheckRecord
<1> QED BY <1>1 DEF CheckRecord

LEMMA OutcomeKeeps ==
    ASSUME CodecInv, ~(check.step \in {"off", "over"}), NEW result \in Results,
           Outcome(result), UNCHANGED <<day, stateFile>>
    PROVE  CodecInv'
<1> DEFINE noted == [result |-> result, on |-> day]
<1>1. noted \in Entries
    BY DEF Entries, CodecInv, CodecTypes
<1>2. /\ state' \in [Codecs -> Entries]
      /\ told' \in [Codecs -> Entries]
      /\ lost' \in SUBSET Codecs
      /\ \A c \in Codecs : Standing(c)' = state'[c]
    BY <1>1 DEF Outcome, CodecInv, CodecTypes, Telling, Standing
<1>3. check' \in CheckRecord /\ check'.dirty /\ check'.step = "next"
    BY NextIsTyped DEF Outcome, CodecInv, CodecTypes, CheckRecord
<1> QED BY <1>2, <1>3 DEF CodecInv, CodecTypes, Telling

LEMMA GoesOnKeeps ==
    ASSUME CodecInv, ~(check.step \in {"off", "over"}),
           NEW step \in {"appx", "winget", "verify", "verifyAppx"},
           GoesOn(step), UNCHANGED <<day, stateFile>>
    PROVE  CodecInv'
BY DEF GoesOn, CheckGoes, CodecInv, CodecTypes, CheckRecord, Telling, Standing

LEMMA TryFailedKeeps ==
    ASSUME CodecInv, ~(check.step \in {"off", "over"}), NEW class \in WingetFailures,
           TryFailed(class), UNCHANGED <<day, stateFile>>
    PROVE  CodecInv'
<1>1. CASE Outcome(class)
    BY <1>1, OutcomeKeeps DEF WingetFailures, Results
<1>2. CASE /\ check' = [check EXCEPT !.step = "winget", !.id = @ + 1]
           /\ UNCHANGED <<state, told, lost>>
  <2>1. check' \in CheckRecord
    BY <1>2, NextIsTyped DEF CodecInv, CodecTypes, CheckRecord
  <2>2. check'.step = "winget" /\ check'.dirty = check.dirty
    BY <1>2 DEF CodecInv, CodecTypes, CheckRecord
  <2> QED BY <1>2, <2>1, <2>2 DEF CodecInv, CodecTypes, Telling, Standing
<1> QED BY <1>1, <1>2 DEF TryFailed

LEMMA CodecInvNext == CodecInv /\ [CodecNext]_codecVars => CodecInv'
<1> SUFFICES ASSUME CodecInv, [CodecNext]_codecVars PROVE CodecInv'
    OBVIOUS
<1> USE DEF CheckAt
<1>1. CASE NextCodec
  <2>1. CASE check' = [check EXCEPT !.codec = @ + 1]
    <3>1. check' \in CheckRecord
        BY <2>1, NextIsTyped DEF CodecInv, CodecTypes, CheckRecord
    <3> QED BY <1>1, <2>1, <3>1 DEF NextCodec, CodecInv, CodecTypes, CheckRecord, Telling, Standing
  <2>2. CASE check' = [check EXCEPT !.step = "mf", !.id = 1]
    BY <1>1, <2>2 DEF NextCodec, CodecInv, CodecTypes, CheckRecord, Telling, Standing
  <2>3. CASE check' = [check EXCEPT !.step = IF check.dirty THEN "save" ELSE "over"]
    BY <1>1, <2>3 DEF NextCodec, CodecInv, CodecTypes, CheckRecord, Telling, Standing
  <2> QED BY <1>1, <2>1, <2>2, <2>3 DEF NextCodec, CheckGoes
<1>2. CASE MfProbe
    BY <1>2, OutcomeKeeps, GoesOnKeeps DEF MfProbe, Results
<1>3. CASE AppxProbe
    BY <1>3, OutcomeKeeps, GoesOnKeeps DEF AppxProbe, Results
<1>4. CASE Winget
    BY <1>4, OutcomeKeeps, GoesOnKeeps, TryFailedKeeps DEF Winget, Results
<1>5. CASE VerifyMf
    BY <1>5, OutcomeKeeps, GoesOnKeeps DEF VerifyMf, Results
<1>6. CASE VerifyAppx
    BY <1>6, OutcomeKeeps, TryFailedKeeps DEF VerifyAppx, Results, WingetFailures
<1>7. CASE LoadState
    BY <1>7 DEF LoadState, CheckGoes, CodecInv, CodecTypes, CheckRecord, Telling, Standing
<1>8. CASE SaveState
    BY <1>8 DEF SaveState, Unsaved, CheckGoes, CodecInv, CodecTypes, CheckRecord, Telling, Standing
<1>9. CASE CheckIsDropped
    BY <1>9, NothingIsTyped DEF CheckIsDropped, Unsaved, Off, CodecInv, CodecTypes, CheckRecord, Telling, Standing
<1>10. CASE StateFileLost
    BY <1>10, NothingIsTyped DEF StateFileLost, CodecInv, CodecTypes, Telling, Standing
<1>11. CASE SetClock
    BY <1>11 DEF SetClock, CodecInv, CodecTypes, Telling, Standing
<1>12. CASE UNCHANGED codecVars
    BY <1>12 DEF codecVars, CodecInv, CodecTypes, Telling, Standing
<1> QED BY <1>1, <1>2, <1>3, <1>4, <1>5, <1>6, <1>7, <1>8, <1>9, <1>10, <1>11, <1>12
        DEF CodecNext

(* What the task skips by its state, it skips by what stands. *)
LEMMA TouchedInTime ==
    ASSUME CodecInv, [CodecNext]_codecVars, NEW c \in Codecs,
           check.step = "next", check'.step = "mf", check.codec = c
    PROVE  /\ Standing(c).result # "installed"
           /\ Standing(c).result # "none" =>
                  day >= Standing(c).on + Window(Standing(c).result)
<1>1. NextCodec
    BY DEF CodecNext, codecVars, MfProbe, AppxProbe, Winget, VerifyMf, VerifyAppx, LoadState,
           SaveState, CheckIsDropped, StateFileLost, SetClock, CheckAt, Off
<1>2. ~ShouldSkip(c)
    BY <1>1 DEF NextCodec, CheckGoes, CodecInv, CodecTypes, CheckRecord
<1>3. Standing(c) = state[c]
    BY DEF CodecInv, Telling
<1>4. day \in Nat /\ state[c].on \in Nat /\ Window(state[c].result) \in Nat
    BY WindowIsNat, CodecAssumption DEF CodecInv, CodecTypes, Entries
<1> QED BY <1>2, <1>3, <1>4 DEF ShouldSkip

-----------------------------------------------------------------------------
(* The uninstaller. *)

(* Where the watchdogs have been closed and nobody came after them.          *)
Closed == UninstAt("restore") \/ UninstAt("hosts") \/ UninstAt("hostsWait")
          \/ UninstAt("files") \/ UninstAt("done")
Undisturbed == ~uninst.errors /\ ~disturbed

(* Threads run in a watchdog, and the uninstaller's child is of its third    *)
(* step.                                                                     *)
ThreadsAlive == life = "down" => thread = NoThreads
OwnChildKnown ==
    child["uninstaller"] # "none" => UninstAt("hostsWait") \/ UninstAt("files") \/ UninstAt("done")

(* What each step has achieved, as long as nobody interferes: every watchdog *)
(* is on the list; those on the list and their children are gone; yt-dlp is  *)
(* back; the entry is gone; so is the program.                               *)
AllListed == UninstAt("close") /\ ~disturbed /\ life = "up" => "watchdog" \in uninst.listed
NobodyLeft == Closed /\ ~disturbed => life = "down" /\ \A t \in Threads : child[t] = "none"
ToolsBack == Closed /\ ~UninstAt("restore") /\ Undisturbed => tools = "native"
Excused == uninst.entryStays \in {"told", "unread", "unseen"}
EntryGone ==
    (UninstAt("files") \/ UninstAt("done")) /\ Undisturbed => (entry => Excused)
ProgramGone == UninstAt("done") /\ ~uninst.errors => ~exe

UninstInv ==
    /\ TypeOK
    /\ ThreadsAlive /\ OwnChildKnown
    /\ AllListed /\ NobodyLeft /\ ToolsBack /\ EntryGone /\ ProgramGone

LEMMA UninstInvImplies == UninstInv => LeavesNothing
BY DEF UninstInv, TypeOK, HostsTypeOK, LeavesNothing, NobodyLeft, ToolsBack, EntryGone, Excused,
       ProgramGone, Closed, Undisturbed, UninstAt

LEMMA UninstInvInit == Init => UninstInv
<1> SUFFICES ASSUME Init PROVE UninstInv
    OBVIOUS
<1>1. HostsTypeOK
    BY DEF Init, HostsInit, HostsTypeOK, NoThreads, NewManager, ThreadPcs, Threads, Askers
<1>2. TypeOK
    BY <1>1 DEF Init, TypeOK, UninstRecord, UninstPcs
<1>3. uninst.pc = "idle" /\ child["uninstaller"] = "none" /\ exe /\ thread = NoThreads
    BY DEF Init, HostsInit, Askers
<1> QED BY <1>2, <1>3 DEF UninstInv, ThreadsAlive, OwnChildKnown, AllListed, NobodyLeft,
           ToolsBack, EntryGone, ProgramGone, Closed, UninstAt

(* What the threads and the children do keeps the types.                     *)
LEMMA HostsStepTyped == HostsTypeOK /\ HostsStep => HostsTypeOK'
<1> SUFFICES ASSUME HostsTypeOK, HostsStep PROVE HostsTypeOK'
    OBVIOUS
<1> USE DEF HostsTypeOK, ThreadPcs, EnsurePcs, At, Goto, Active, AfterEnsure
<1>1. ASSUME NEW t \in Threads, Ensure(t) PROVE HostsTypeOK'
  <2>1. CASE Check(t)
    BY <2>1 DEF Check
  <2>2. CASE Claim(t)
    BY <2>2 DEF Claim
  <2>3. CASE Recheck(t)
    BY <2>3 DEF Recheck
  <2>4. CASE Prompt(t)
    BY <2>4 DEF Prompt, Elevates, Askers
  <2>5. CASE Waited(t)
    BY <2>5 DEF Waited
  <2>6. CASE Verify(t)
    BY <2>6 DEF Verify
  <2>7. CASE Release(t)
    BY <2>7 DEF Release
  <2> QED BY <1>1, <2>1, <2>2, <2>3, <2>4, <2>5, <2>6, <2>7 DEF Ensure
<1>2. CASE TickerStep
  <2>1. "ticker" \in Threads
    BY DEF Threads
  <2> QED BY <1>2, <2>1 DEF TickerStep, TickReads, TickLooksInFlight, TickLooksDeclined, TickResult,
             TickGivesUp
<1>3. ASSUME NEW a \in Askers, ChildReads(a) \/ ChildWrites(a) PROVE HostsTypeOK'
    BY <1>3 DEF ChildReads, ChildWrites
<1> QED BY <1>1, <1>2, <1>3 DEF HostsStep

(* Without threads nobody prompts, and without their children nobody adds.   *)
LEMMA HostsStepQuiet ==
    ASSUME HostsTypeOK, HostsStep
    PROVE  /\ thread = NoThreads => thread' = NoThreads /\ \A a \in Askers :
                                        child[a] = "none" => child'[a] = "none"
           /\ child["uninstaller"] = "none" => child'["uninstaller"] = "none"
           /\ thread = NoThreads /\ (\A t \in Threads : child[t] = "none") => (entry' => entry)
<1> USE DEF HostsTypeOK, At
<1>1. ASSUME NEW t \in Threads, Ensure(t)
      PROVE  /\ thread # NoThreads
             /\ entry' = entry
             /\ child["uninstaller"] = "none" => child'["uninstaller"] = "none"
  <2>1. NoThreads[t] = "none" /\ t # "uninstaller"
    BY DEF NoThreads, Threads
  <2>2. thread # NoThreads /\ entry' = entry
    BY <1>1, <2>1 DEF Ensure, Check, Claim, Recheck, Prompt, Waited, Verify, Release
  <2>3. child' = child \/ child' = [child EXCEPT ![t] = "started"]
    BY <1>1 DEF Ensure, Check, Claim, Recheck, Prompt, Waited, Verify, Release, Elevates
  <2>4. "uninstaller" \in Askers
    BY DEF Askers
  <2> QED BY <2>1, <2>2, <2>3, <2>4
<1>2. CASE TickerStep
  <2>1. "ticker" \in Threads /\ NoThreads["ticker"] = "none"
    BY DEF NoThreads, Threads
  <2>2. thread # NoThreads
    BY <1>2, <2>1 DEF TickerStep, TickReads, TickLooksInFlight, TickLooksDeclined, TickResult,
           TickGivesUp
  <2>3. UNCHANGED <<entry, child>>
    BY <1>2 DEF TickerStep, TickReads, TickLooksInFlight, TickLooksDeclined, TickResult, TickGivesUp
  <2> QED BY <2>2, <2>3
<1>3. ASSUME NEW a \in Askers, ChildReads(a) \/ ChildWrites(a)
      PROVE  /\ thread' = thread /\ child[a] # "none"
             /\ \A b \in Askers : child[b] = "none" => child'[b] = "none"
             /\ a = "uninstaller" => (entry' => entry)
    BY <1>3 DEF ChildReads, ChildWrites
<1>4. Askers = Threads \cup {"uninstaller"}
    BY DEF Askers
<1> QED BY <1>1, <1>2, <1>3, <1>4 DEF HostsStep

LEMMA UninstInvNext == UninstInv /\ [Next]_vars => UninstInv'
<1> SUFFICES ASSUME UninstInv, [Next]_vars PROVE UninstInv'
    OBVIOUS
<1>a. TypeOK /\ HostsTypeOK
    BY DEF UninstInv, TypeOK
<1>b. "uninstaller" \in Askers /\ Threads \subseteq Askers
    BY DEF Askers
<1>c. NoThreads \in [Threads -> ThreadPcs]
    BY DEF NoThreads, ThreadPcs
<1> USE DEF UninstInv, ThreadsAlive, OwnChildKnown, AllListed, NobodyLeft, ToolsBack,
            EntryGone, Excused, ProgramGone, Closed, Undisturbed, UninstAt
<1>1. CASE WatchdogStarts
  <2>1. TypeOK'
    <3>1. thread' \in [Threads -> ThreadPcs] /\ manager' \in [inFlight : BOOLEAN, declined : BOOLEAN]
        BY <1>1 DEF WatchdogStarts, ThreadsStart, ThreadPcs, EnsurePcs, NewManager
    <3> QED BY <1>1, <1>a, <3>1 DEF WatchdogStarts, ThreadsStart, TypeOK, HostsTypeOK
  <2>2. ~disturbed' => uninst.pc \in {"idle", "refused"}
    BY <1>1 DEF WatchdogStarts
  <2> QED BY <1>1, <2>1, <2>2 DEF WatchdogStarts, ThreadsStart
<1>2. CASE Patches
    BY <1>2 DEF Patches, TypeOK, hostsVars, HostsTypeOK
<1>3. CASE WatchdogEnds
    BY <1>3, <1>a, <1>c DEF WatchdogEnds, ThreadsEnd, TypeOK, HostsTypeOK
<1>4. CASE EntryVanishes
    BY <1>4 DEF EntryVanishes, TypeOK, HostsTypeOK
<1>15. CASE ExeVanishes
    BY <1>15 DEF ExeVanishes, TypeOK, hostsVars, HostsTypeOK
<1>5. CASE HostsStep /\ UNCHANGED <<tools, exe, life, uninst, disturbed>>
  <2>1. TypeOK'
    BY <1>5, <1>a, HostsStepTyped DEF TypeOK
  <2> QED BY <1>5, <1>a, <1>b, <2>1, HostsStepQuiet
<1>6. CASE UninstStarts
  <2>1. uninst' \in UninstRecord
    BY <1>6 DEF UninstStarts, UninstRecord, UninstPcs, Running
  <2>2. uninst'.pc = "close" /\ (life = "up" => "watchdog" \in uninst'.listed)
    BY <1>6 DEF UninstStarts
  <2> QED BY <1>6, <2>1, <2>2 DEF UninstStarts, TypeOK, hostsVars, HostsTypeOK
<1>7. CASE Terminates
  <2>1. ASSUME NEW a \in uninst.listed \cap Running, child' = [child EXCEPT ![a] = "none"],
               UNCHANGED <<entry, thread, manager, gaveUp, life>>
        PROVE  UninstInv'
    BY <1>7, <1>a, <1>b, <2>1 DEF Terminates, TypeOK, HostsTypeOK, Running
  <2>2. CASE life' = "down" /\ ThreadsEnd
    BY <1>7, <1>a, <1>c, <2>2 DEF Terminates, ThreadsEnd, TypeOK, HostsTypeOK
  <2> QED BY <1>7, <2>1, <2>2 DEF Terminates
<1>8. CASE CloseRefuses
    BY <1>8 DEF CloseRefuses, Fails, TypeOK, UninstRecord, UninstPcs, hostsVars, HostsTypeOK
<1>9. CASE CloseEnds
  <2>1. ~disturbed' => life = "down" /\ Running = {}
    BY <1>9, <1>a DEF CloseEnds, Stuck, TypeOK
  <2>2. ~disturbed' => \A t \in Threads : child[t] = "none"
    BY <2>1, <1>b DEF Running
  <2>3. uninst' \in UninstRecord /\ uninst'.pc = "restore" /\ child["uninstaller"] = "none"
    BY <1>9, <1>b DEF CloseEnds, UninstGoes, TypeOK, UninstRecord, UninstPcs
  <2> QED BY <1>9, <2>1, <2>2, <2>3 DEF CloseEnds, TypeOK, hostsVars, HostsTypeOK
<1>10. CASE RestoreTools
    BY <1>10 DEF RestoreTools, UninstGoes, Fails, TypeOK, UninstRecord, UninstPcs, hostsVars,
           HostsTypeOK
<1>11. CASE RemoveHosts
  <2>1. child' \in [Askers -> {"none", "started", "read"}] /\ \A t \in Threads : child'[t] = child[t]
    BY <1>11, <1>a, <1>b DEF RemoveHosts, Elevates, HostsTypeOK, Threads
  <2>2. /\ uninst' \in UninstRecord
        /\ uninst'.pc \in {"files", "hostsWait"}
        /\ ~uninst'.errors => ~uninst.errors
        /\ uninst'.pc = "files" /\ ~uninst'.errors /\ entry => Excused'
    BY <1>11 DEF RemoveHosts, LeavesEntry, Fails, UninstGoes, TypeOK, UninstRecord, UninstPcs
  <2> QED BY <1>11, <1>a, <2>1, <2>2 DEF RemoveHosts, TypeOK, HostsTypeOK
<1>12. CASE HostsRemoved
  <2>1. /\ uninst' \in UninstRecord
        /\ uninst'.pc = "files"
        /\ ~uninst'.errors => ~uninst.errors
        /\ ~uninst'.errors /\ entry => Excused'
    BY <1>12 DEF HostsRemoved, LeavesEntry, Fails, UninstGoes, TypeOK, UninstRecord, UninstPcs
  <2> QED BY <1>12, <2>1 DEF HostsRemoved, TypeOK, hostsVars, HostsTypeOK
<1>13. CASE RemoveFiles
    BY <1>13 DEF RemoveFiles, UninstGoes, Fails, TypeOK, UninstRecord, UninstPcs, hostsVars,
           HostsTypeOK
<1>14. CASE UNCHANGED vars
    BY <1>14 DEF vars, TypeOK, hostsVars, HostsTypeOK
<1> QED BY <1>1, <1>2, <1>3, <1>4, <1>5, <1>6, <1>7, <1>8, <1>9, <1>10, <1>11, <1>12, <1>13, <1>14, <1>15
        DEF Next, UninstStep

-----------------------------------------------------------------------------
(* All of it. *)

MachineInv == TlsInv /\ LimitInv /\ CodecInv /\ UninstInv

LEMMA MachineStep ==
    [MachineNext]_machineVars =>
        [TlsNext]_tlsVars /\ [LimitNext]_limitVars /\ [CodecNext]_codecVars /\ [Next]_vars
BY DEF MachineNext, machineVars

LEMMA MachineInvariant == MachineSpec => []MachineInv
<1>1. MachineInit => MachineInv
    BY TlsInvInit, LimitInvInit, CodecInvInit, UninstInvInit DEF MachineInit, MachineInv
<1>2. MachineInv /\ [MachineNext]_machineVars => MachineInv'
    BY MachineStep, TlsInvNext, LimitInvNext, CodecInvNext, UninstInvNext DEF MachineInv
<1> QED BY <1>1, <1>2, PTL DEF MachineSpec

(* ensure_ready: the relay never serves a certificate the machine does not   *)
(* trust, for any number of certificates and children of earlier starts.     *)
THEOREM AlwaysTrusted == MachineSpec => []SecureIsTrusted
<1>1. MachineInv => SecureIsTrusted
    BY DEF MachineInv, TlsInv
<1> QED BY <1>1, MachineInvariant, PTL

(* run_check, run_remove and restore: what the uninstaller found gone, or saw *)
(* its child or its own step end without an error over, is gone, wherever it, *)
(* the watchdog or a child ended before.  Nothing is claimed of a child of    *)
(* which Windows gave no handle, although it is reported as done.             *)
THEOREM TracesAlwaysGone == MachineSpec => []TracesGone
<1>1. MachineInv => TracesGone
    BY DEF MachineInv, TlsInv, LimitInv, TracesGone
<1> QED BY <1>1, MachineInvariant, PTL

(* README.md:41: an uninstall that reports no error leaves nothing behind,    *)
(* whoever was running when it began and wherever a child of it stops, but    *)
(* perhaps the hosts entry, in three cases: the user was told that it stays   *)
(* (no program to elevate, or declined), the file could not be read, or       *)
(* Windows gave no handle of the child; of the last two nobody is told.       *)
THEOREM NothingLeft == MachineSpec => []LeavesNothing
<1>1. MachineInv => LeavesNothing
    BY UninstInvImplies DEF MachineInv
<1> QED BY <1>1, MachineInvariant, PTL

(* Installer::run: for any windows, clock and number of starts, a codec is   *)
(* not touched before the time the user was told, unless that result was     *)
(* lost to a kill before the save, a save that failed or with the file; then *)
(* not before the time the file says.                                        *)
THEOREM NeverRetriedEarly == MachineSpec => NotRetriedEarly
<1> DEFINE InTime(c) ==
        check.step = "next" /\ check'.step = "mf" /\ check.codec = c =>
            /\ Standing(c).result # "installed"
            /\ Standing(c).result # "none" =>
                   day >= Standing(c).on + Window(Standing(c).result)
<1>1. MachineInv /\ [MachineNext]_machineVars => [\A c \in Codecs : InTime(c)]_codecVars
  <2> SUFFICES ASSUME MachineInv, [MachineNext]_machineVars, NEW c \in Codecs
               PROVE  InTime(c)
    OBVIOUS
  <2> QED BY MachineStep, TouchedInTime DEF MachineInv
<1> QED BY <1>1, MachineInvariant, PTL DEF MachineSpec, NotRetriedEarly
=============================================================================
