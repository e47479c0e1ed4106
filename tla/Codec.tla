------------------------------- MODULE Codec -------------------------------
(***************************************************************************)
(* Installing the video codecs VRChat needs (maintenance/codec.rs in       *)
(* crates/vrcr-watchdog): once per start, a background task looks at each  *)
(* codec, asks winget for the missing ones and remembers in a file how it  *)
(* went, so that what failed is left alone for a day or a week.  The task  *)
(* ends with the process, wherever it is.                                  *)
(***************************************************************************)
EXTENDS Naturals

CONSTANTS
    TransientRetry,     \* TRANSIENT_RETRY_WINDOW, in days
    PermanentRetry,     \* PERMANENT_RETRY_WINDOW, in days
    LastDay,            \* bound: the clock
    NumCodecs           \* bound: the first so many of REQUIRED

ASSUME CodecAssumption ==
    /\ TransientRetry \in Nat /\ PermanentRetry \in Nat /\ LastDay \in Nat
    /\ NumCodecs \in 1 .. 3

VARIABLES
    day,        \* the clock, which the user may set
    check,      \* the background task, and the codec it is at
    state,      \* CodecState: what the task knows of each codec
    stateFile,  \* codec-state.json
    told,       \* history: the last result of each codec the user was told of
    lost        \* history: the codecs whose last result never reached the file, or
                \* went with it

codecVars == <<day, check, state, stateFile, told, lost>>

(* The number of store ids of AV1, HEVC and VP9. *)
REQUIRED == <<1, 2, 1>>
Codecs == 1 .. NumCodecs

Results == {"installed", "transient", "permanent"}
NoEntry == [result |-> "none", on |-> 0]
Entries == [result : {"none"} \cup Results, on : 0 .. LastDay]
NothingKnown == [c \in Codecs |-> NoEntry]

CodecTypeOK ==
    /\ day \in 0 .. LastDay
    /\ check \in [step : {"off", "next", "mf", "appx", "winget", "verify", "verifyAppx",
                          "save", "over"},
                  codec : 1 .. NumCodecs + 1, id : 1 .. 3, dirty : BOOLEAN]
    /\ {state, stateFile, told} \subseteq [Codecs -> Entries]
    /\ lost \subseteq Codecs

Off == [step |-> "off", codec |-> 1, id |-> 1, dirty |-> FALSE]

CodecInit ==
    /\ day = 0
    /\ check = Off
    /\ state = NothingKnown
    /\ stateFile = NothingKnown
    /\ told = NothingKnown
    /\ lost = {}

CheckAt(step) == check.step = step
CheckGoes(step) == check' = [check EXCEPT !.step = step]

-----------------------------------------------------------------------------
(* Installer::run. *)

(* is_transient: a time-out, an install that cannot be verified, anything    *)
(* unknown.                                                                  *)
Window(result) == IF result = "transient" THEN TransientRetry ELSE PermanentRetry

(* A clock set back before the last attempt counts as too early. *)
ShouldSkip(c) ==
    \/ state[c].result = "installed"
    \/ state[c].result # "none" /\ day < state[c].on + Window(state[c].result)

NextCodec ==
    /\ CheckAt("next")
    /\ IF check.codec > NumCodecs
       THEN CheckGoes(IF check.dirty THEN "save" ELSE "over")
       ELSE IF ShouldSkip(check.codec)
       THEN check' = [check EXCEPT !.codec = @ + 1]
       ELSE check' = [check EXCEPT !.step = "mf", !.id = 1]
    /\ UNCHANGED <<day, state, stateFile, told, lost>>

(* A mistake run machine must catch: only what was installed is saved. *)
OutcomeSavedIfGood(result) ==
    LET entry == [result |-> result, on |-> day] IN
    /\ state' = [state EXCEPT ![check.codec] = entry]
    /\ told' = [told EXCEPT ![check.codec] = entry]
    /\ lost' = lost \ {check.codec}
    /\ check' = [check EXCEPT !.step = "next", !.codec = @ + 1,
                              !.dirty = check.dirty \/ result = "installed"]

(* The entry of the codec, and the message to the user. *)
Outcome(result) ==
    LET entry == [result |-> result, on |-> day] IN
    /\ state' = [state EXCEPT ![check.codec] = entry]
    /\ told' = [told EXCEPT ![check.codec] = entry]
    /\ lost' = lost \ {check.codec}
    /\ check' = [check EXCEPT !.step = "next", !.codec = @ + 1, !.dirty = TRUE]

GoesOn(step) == CheckGoes(step) /\ UNCHANGED <<state, told, lost>>

MfProbe ==
    /\ CheckAt("mf")
    /\ Outcome("installed") \/ GoesOn("appx")
    /\ UNCHANGED <<day, stateFile>>

AppxProbe ==
    /\ CheckAt("appx")
    /\ Outcome("installed") \/ GoesOn("winget")
    /\ UNCHANGED <<day, stateFile>>

(* The next store id is tried; the last one's failure counts. *)
TryFailed(class) ==
    IF check.id < REQUIRED[check.codec]
    THEN check' = [check EXCEPT !.step = "winget", !.id = @ + 1] /\ UNCHANGED <<state, told, lost>>
    ELSE Outcome(class)

(* classify_winget_failure: timeout and unknown; not_entitled, not_found and *)
(* an unavailable source.                                                    *)
WingetFailures == {"transient", "permanent"}

(* winget_install.  Without winget (winget_missing) no other id is tried.    *)
Winget ==
    /\ CheckAt("winget")
    /\ \/ GoesOn("verify")              \* exit code 0
       \/ Outcome("permanent")
       \/ \E class \in WingetFailures : TryFailed(class)
    /\ UNCHANGED <<day, stateFile>>

VerifyMf ==
    /\ CheckAt("verify")
    /\ Outcome("installed") \/ GoesOn("verifyAppx")
    /\ UNCHANGED <<day, stateFile>>

VerifyAppx ==
    /\ CheckAt("verifyAppx")
    /\ Outcome("installed") \/ TryFailed("transient")   \* install_unverified
    /\ UNCHANGED <<day, stateFile>>

-----------------------------------------------------------------------------
(* run_check and start_background_check. *)

LoadState ==
    /\ CheckAt("off")
    /\ CheckGoes("next")
    /\ state' = stateFile
    /\ UNCHANGED <<day, stateFile, told, lost>>

Unsaved == {c \in Codecs : state[c] # stateFile[c]}

(* The results are saved once, after the last codec; an error is ignored. *)
SaveState ==
    /\ CheckAt("save")
    /\ CheckGoes("over")
    /\ \/ stateFile' = state /\ UNCHANGED lost
       \/ lost' = lost \cup Unsaved /\ UNCHANGED stateFile
    /\ UNCHANGED <<day, state, told>>

(* The process ends: what was not saved is lost. *)
CheckIsDropped ==
    /\ ~CheckAt("off")
    /\ check' = Off
    /\ state' = NothingKnown
    /\ lost' = IF CheckAt("over") THEN lost ELSE lost \cup Unsaved
    /\ UNCHANGED <<day, stateFile, told>>

(* The file is deleted, or cannot be read at the next start. *)
StateFileLost ==
    /\ CheckAt("off")
    /\ stateFile' = NothingKnown
    /\ lost' = Codecs
    /\ UNCHANGED <<day, check, state, told>>

SetClock ==
    /\ day' \in (0 .. LastDay) \ {day}
    /\ UNCHANGED <<check, state, stateFile, told, lost>>

CodecNext ==
    \/ NextCodec \/ MfProbe \/ AppxProbe \/ Winget \/ VerifyMf \/ VerifyAppx
    \/ LoadState \/ SaveState \/ CheckIsDropped \/ StateFileLost \/ SetClock

-----------------------------------------------------------------------------
(* What the user was told holds (report_message): a codec that is ready is   *)
(* not touched again, and one that failed not before tomorrow, or next week, *)
(* over any number of starts, kills in the middle of a check and changes of  *)
(* the clock.  It does not hold of a result that was lost with the file, to  *)
(* a save that failed or to a kill before the save (run_check saves once, at *)
(* the end): of such a codec the file's older result, if any, holds instead, *)
(* and it may be asked for again at the next start.                          *)
Standing(c) == IF c \in lost THEN stateFile[c] ELSE told[c]
NotRetriedEarly ==
    [][\A c \in Codecs :
          check.step = "next" /\ check'.step = "mf" /\ check.codec = c =>
              /\ Standing(c).result # "installed"
              /\ Standing(c).result # "none" =>
                     day >= Standing(c).on + Window(Standing(c).result)]_codecVars
=============================================================================
