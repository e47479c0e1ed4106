-------------------------------- MODULE Shim --------------------------------
(***************************************************************************)
(* One run of the program VRChat takes for yt-dlp (crates/vrcr-ytdlp): it  *)
(* asks the watchdog over a pipe, falls back to VRChat's own resolver and, *)
(* when that fails too, asks once more, all within one budget, and prints  *)
(* one answer.  It is sequential: each step is one await, and moves the    *)
(* clock by the time that await takes; what lies between takes none.       *)
(***************************************************************************)
EXTENDS Budget

CONSTANTS
    Waits,      \* bound: how long anything may take, besides up to its timeout
    Hints       \* bound: the delays after which a server says to ask again

ASSUME ShimAssumption == Waits \subseteq Nat /\ Hints \subseteq Nat

VARIABLES
    pc,         \* the await the program is at
    elapsed,    \* the time since its start
    kind,       \* what it was called for
    ask,        \* resolve_over_pipe: the ask under way, or the last one
    pipeUp,     \* ~pipe_unavailable
    hint,       \* server_retry_at_ms
    reason,     \* server_fallback_reason
    og,         \* the run of VRChat's own resolver
    printed,    \* what went to stdout
    exit        \* what run returns: 0, or 1 for any other exit code

vars == <<pc, elapsed, kind, ask, pipeUp, hint, reason, og, printed, exit>>

Pcs == {"begin", "connect", "exchange", "notify", "select", "native", "kill",
        "drain", "report", "consider", "done"}

AskRecord == [from : 0 .. Total, window : 0 .. Total, retried : BOOLEAN, again : BOOLEAN]
OgRecord == [state : {"untried", "absent", "broken", "running", "timedOut", "failed", "succeeded"},
             from : Nat, until : Nat,
             wrote : BOOLEAN,   \* it printed something, which has been read
             gone : BOOLEAN,    \* classify_failure: content_not_found
             held : BOOLEAN]    \* history: its output was not closed in time

TypeOK ==
    /\ pc \in Pcs
    /\ elapsed \in Nat
    /\ kind \in {"none", "noUrl", "firstParty", "video"}
    /\ ask \in AskRecord
    /\ pipeUp \in BOOLEAN
    /\ hint \in [given : BOOLEAN, at : Nat]
    /\ reason \in {"none", "validation", "other"}
    /\ og \in OgRecord
    /\ printed \in SUBSET {"url", "native"}
    /\ exit \in {0, 1}

Init ==
    /\ pc = "begin"
    /\ elapsed = 0
    /\ kind = "none"
    /\ ask = [from |-> 0, window |-> Total, retried |-> FALSE, again |-> FALSE]
    /\ pipeUp = TRUE
    /\ hint = NoHint
    /\ reason = "none"
    /\ og = [state |-> "untried", from |-> 0, until |-> 0,
             wrote |-> FALSE, gone |-> FALSE, held |-> FALSE]
    /\ printed = {}
    /\ exit = 0

(* Something that takes some time up to a limit, or all of it. *)
Durations(limit) == {d \in Waits : d <= limit} \cup {limit}
Takes(limit) == \E d \in Durations(limit) : elapsed' = elapsed + d

Goes(from, to) == pc = from /\ pc' = to
IsVideo == kind = "video"

(* The process ends, with what it printed and its exit code. *)
Ends(what, code) == pc' = "done" /\ printed' = printed \cup what /\ exit' = code
GoesOn(to) == pc' = to /\ UNCHANGED <<printed, exit>>

-----------------------------------------------------------------------------
(* run: a video is asked for, a playback URL of the resolver's own is the   *)
(* answer to itself, and a call without a URL goes to the native resolver.  *)
Begin ==
    /\ pc = "begin"
    /\ \/ kind' = "video" /\ GoesOn("connect")
       \/ kind' = "noUrl" /\ GoesOn("notify")
       \/ kind' = "firstParty" /\ Ends({"url"}, 0)
    /\ UNCHANGED <<elapsed, ask, pipeUp, hint, reason, og>>

-----------------------------------------------------------------------------
(* resolve_over_pipe, for the first ask and the second. *)

Deadline == ask.from + ask.window

NativeFailed == og.state \in {"failed", "timedOut"}

(* What the native resolver said is passed on; a run that could not even    *)
(* start it, or was killed, says nothing.                                   *)
PassOn == Ends(IF og.wrote THEN {"native"} ELSE {}, IF og.state = "succeeded" THEN 0 ELSE 1)

AskFailed ==
    /\ IF ask.again THEN PassOn ELSE GoesOn("notify")
    /\ reason' = IF ~ask.again /\ reason = "none" THEN "other" ELSE reason

Connects ==
    /\ pc = "connect"
    /\ Takes(ConnectTimeout)
    /\ IF elapsed' < Deadline THEN GoesOn("exchange") /\ UNCHANGED reason ELSE AskFailed
    /\ UNCHANGED <<kind, ask, pipeUp, hint, og>>

Retries(now) == ~ask.retried /\ Deadline - now > RetryMin

(* Not there, busy until the timeout, or refused: tried a second time, or   *)
(* the watchdog is given up for this run.                                   *)
ConnectFails ==
    /\ pc = "connect"
    /\ \E d \in Durations(ConnectTimeout) :
          LET now == elapsed + d IN
            IF Retries(now)
            THEN /\ elapsed' = now + RetryPause
                 /\ ask' = [ask EXCEPT !.retried = TRUE]
                 /\ UNCHANGED <<pc, pipeUp, reason, printed, exit>>
            ELSE /\ elapsed' = now
                 /\ pipeUp' = FALSE
                 /\ AskFailed
                 /\ UNCHANGED ask
    /\ UNCHANGED <<kind, hint, og>>

(* A URL that passes the checks is the answer. *)
Resolved ==
    /\ pc = "exchange"
    /\ Takes(Deadline - elapsed)
    /\ Ends({"url"}, 0)
    /\ UNCHANGED <<kind, ask, pipeUp, hint, reason, og>>

(* fallback_native, with or without a hint when to ask again. *)
Declined ==
    /\ pc = "exchange"
    /\ Takes(Deadline - elapsed)
    /\ hint' \in {NoHint} \cup {[given |-> TRUE, at |-> elapsed' + h] : h \in Hints}
    /\ IF ask.again THEN PassOn ELSE GoesOn("notify")
    /\ reason' \in IF ask.again THEN {reason} ELSE {"validation", "other"}
    /\ UNCHANGED <<kind, ask, pipeUp, og>>

(* The exchange breaks off, or its URL fails a check. *)
ExchangeFails ==
    /\ pc = "exchange"
    /\ Takes(Deadline - elapsed)
    /\ AskFailed
    /\ UNCHANGED <<kind, ask, pipeUp, hint, og>>

(* A mistake shim must catch: only the first ask has a timeout. *)
FirstAskTimesOut ==
    /\ pc = "exchange"
    /\ ~ask.again
    /\ elapsed' = Deadline
    /\ AskFailed
    /\ UNCHANGED <<kind, ask, pipeUp, hint, og>>

AskTimesOut ==
    /\ pc = "exchange"
    /\ elapsed' = Deadline
    /\ AskFailed
    /\ UNCHANGED <<kind, ask, pipeUp, hint, og>>

-----------------------------------------------------------------------------
(* exec_fallback and og::run. *)

(* send_notify: not tried again once the pipe could not be reached. *)
SendNotify == Takes(IF pipeUp THEN NotifyTimeout ELSE 0)

NotifyOgFallback ==
    /\ Goes("notify", "select")
    /\ SendNotify
    /\ UNCHANGED <<kind, ask, pipeUp, hint, reason, og, printed, exit>>

(* No native resolver is found, or it cannot be started. *)
NoNative ==
    /\ pc = "select"
    /\ \E state \in {"absent", "broken"} : og' = [og EXCEPT !.state = state]
    /\ IF IsVideo THEN GoesOn("consider") ELSE Ends({}, 1)
    /\ UNCHANGED <<elapsed, kind, ask, pipeUp, hint, reason>>

(* Without a URL the time before does not count, nor does the budget. *)
StartNative ==
    /\ Goes("select", "native")
    /\ og' = [og EXCEPT !.state = "running", !.from = elapsed,
                        !.until = elapsed + OgWindow(elapsed, IsVideo, hint)]
    /\ UNCHANGED <<elapsed, kind, ask, pipeUp, hint, reason, printed, exit>>

NativeExits ==
    /\ Goes("native", "drain")
    /\ Takes(og.until - elapsed)
    /\ \/ og' = [og EXCEPT !.state = "succeeded"]
       \/ \E gone \in BOOLEAN : og' = [og EXCEPT !.state = "failed", !.gone = gone]
    /\ UNCHANGED <<kind, ask, pipeUp, hint, reason, printed, exit>>

(* Too much output, or an error while it is read or waited for. *)
NativeBreaks ==
    /\ Goes("native", "kill")
    /\ Takes(og.until - elapsed)
    /\ og' = [og EXCEPT !.state = "broken"]
    /\ UNCHANGED <<kind, ask, pipeUp, hint, reason, printed, exit>>

NativeTimesOut ==
    /\ Goes("native", "kill")
    /\ elapsed' = og.until
    /\ og' = [og EXCEPT !.state = "timedOut"]
    /\ UNCHANGED <<kind, ask, pipeUp, hint, reason, printed, exit>>

KillTree ==
    /\ pc = "kill"
    /\ Takes(KillTime)
    /\ IF ~IsVideo THEN PassOn
       ELSE GoesOn(IF og.state = "timedOut" THEN "report" ELSE "consider")
    /\ UNCHANGED <<kind, ask, pipeUp, hint, reason, og>>

(* A mistake shim must catch: what a failed run printed is passed on before *)
(* the re-ask.                                                              *)
OutputAtOnce ==
    /\ pc = "drain"
    /\ Takes(DrainTime)
    /\ \E wrote \in BOOLEAN :
          /\ og' = [og EXCEPT !.wrote = wrote]
          /\ printed' = IF wrote THEN {"native"} ELSE {}
          /\ exit' = IF NativeFailed THEN 1 ELSE 0
          /\ pc' = IF IsVideo /\ NativeFailed THEN "report" ELSE "done"
    /\ UNCHANGED <<kind, ask, pipeUp, hint, reason>>

(* The child is gone and its output is read to the end ... *)
OutputCloses ==
    /\ pc = "drain"
    /\ Takes(DrainTime)
    /\ \E wrote \in BOOLEAN :
          /\ og' = [og EXCEPT !.wrote = wrote]
          /\ IF IsVideo /\ NativeFailed THEN GoesOn("report")
             ELSE Ends(IF wrote THEN {"native"} ELSE {}, IF NativeFailed THEN 1 ELSE 0)
    /\ UNCHANGED <<kind, ask, pipeUp, hint, reason>>

(* ... or cannot be read, which counts as a run that did not work ... *)
OutputBreaks ==
    /\ pc = "drain"
    /\ Takes(DrainTime)
    /\ og' = [og EXCEPT !.state = "broken", !.gone = FALSE]
    /\ IF IsVideo THEN GoesOn("consider") ELSE Ends({}, 1)
    /\ UNCHANGED <<kind, ask, pipeUp, hint, reason>>

(* ... or another process holds it open: it counts as empty. *)
OutputHeld ==
    /\ pc = "drain"
    /\ elapsed' = elapsed + DrainTime
    /\ og' = [og EXCEPT !.held = TRUE, !.gone = FALSE]
    /\ IF IsVideo /\ NativeFailed THEN GoesOn("report")
       ELSE Ends({}, IF NativeFailed THEN 1 ELSE 0)
    /\ UNCHANGED <<kind, ask, pipeUp, hint, reason>>

NotifyOgFailed ==
    /\ Goes("report", "consider")
    /\ SendNotify
    /\ UNCHANGED <<kind, ask, pipeUp, hint, reason, og, printed, exit>>

(* re_ask: for a video that may exist, unless the server has already tried  *)
(* again or no time is left for it.                                         *)
Redundant == ~hint.given /\ reason = "validation"
WorthReAsking == ~og.gone /\ ~Redundant /\ ReAskInTime(elapsed, hint)

StartReAsk ==
    /\ Goes("consider", "connect")
    /\ WorthReAsking
    /\ elapsed' = ReAskStart(elapsed, hint)
    /\ ask' = [from |-> elapsed', window |-> ReAskWindow(elapsed'),
               retried |-> FALSE, again |-> TRUE]
    /\ UNCHANGED <<kind, pipeUp, hint, reason, og, printed, exit>>

GivesUp ==
    /\ pc = "consider"
    /\ ~WorthReAsking
    /\ PassOn
    /\ UNCHANGED <<elapsed, kind, ask, pipeUp, hint, reason, og>>

-----------------------------------------------------------------------------
AskStep ==
    \/ Connects \/ ConnectFails
    \/ Resolved \/ Declined \/ ExchangeFails \/ AskTimesOut

NativeStep ==
    \/ NoNative \/ StartNative \/ NativeExits \/ NativeBreaks \/ NativeTimesOut
    \/ KillTree \/ OutputCloses \/ OutputBreaks \/ OutputHeld

Next ==
    \/ Begin \/ AskStep \/ NotifyOgFallback \/ NativeStep \/ NotifyOgFailed
    \/ StartReAsk \/ GivesUp

Spec == Init /\ [][Next]_vars

(* The program runs and its timers fire; the watchdog, the native resolver  *)
(* and whoever holds its output owe nothing.                                *)
Fairness ==
    /\ WF_vars(Begin) /\ WF_vars(ConnectFails) /\ WF_vars(AskTimesOut)
    /\ WF_vars(NotifyOgFallback) /\ WF_vars(NoNative \/ StartNative)
    /\ WF_vars(NativeTimesOut) /\ WF_vars(KillTree) /\ WF_vars(OutputHeld)
    /\ WF_vars(NotifyOgFailed) /\ WF_vars(StartReAsk \/ GivesUp)

FairSpec == Spec /\ Fairness

-----------------------------------------------------------------------------
(* Properties. *)

(* A URL is printed within the budget or not at all, the retried connects   *)
(* and the delay of a hinted re-ask included; and nothing makes the run     *)
(* longer than the budget, the native resolver's reserve, the two reports   *)
(* and the end of that resolver together (41 s).                            *)
LastEnd == Total + OgReserve + 2 * NotifyTimeout + Larger(KillTime, DrainTime)
InTime ==
    /\ "url" \in printed => elapsed <= Total
    /\ IsVideo => elapsed <= LastEnd

(* Playback is never worse than without the wrapper: it ends with one URL   *)
(* and exit code 0, or with what VRChat's own resolver printed and its exit *)
(* code; it ends with neither only if that resolver is not there, does not  *)
(* run, was out of time, or left its output open to another process.        *)
NeverWorse ==
    pc = "done" =>
        \/ printed = {"url"} /\ exit = 0
        \/ /\ og.state \in {"succeeded", "failed"}
           /\ printed = IF og.wrote THEN {"native"} ELSE {}
           /\ exit = IF og.state = "succeeded" THEN 0 ELSE 1
        \/ /\ og.state \in {"absent", "broken", "timedOut"}
           /\ printed = {} /\ exit = 1

(* The deadline the watchdog sets itself for an ask that was connected at   *)
(* the first try lies within that ask, the shortest re-ask included: its    *)
(* answer that it found nothing is heard.                                   *)
AnswerIsHeard ==
    pc = "exchange" /\ ~ask.retried => WatchdogBudget(Deadline - elapsed) <= Deadline - elapsed

(* A native resolver that starts early enough and then runs out its window  *)
(* leaves room for the re-ask it was cut short for, if killing it and       *)
(* reporting it take no more than the reserve is larger than a re-ask.      *)
ReAskKept ==
    [][/\ pc = "consider" /\ og.state = "timedOut"
       /\ og.from + OgReserve + ReAskReserve <= Total
       /\ elapsed - og.until <= ReAskReserve - NoHintMin
       /\ ReAskFits(hint) /\ ~Redundant
       /\ pc' # pc
       => ask'.again]_vars

(* The run ends, whoever does not answer. *)
AlwaysEnds == <>(pc = "done")
=============================================================================
