------------------------------- MODULE Budget -------------------------------
(***************************************************************************)
(* The time a yt-dlp wrapper has for one video and how it is shared        *)
(* between the first ask, VRChat's own resolver and a second ask           *)
(* (crates/vrcr-shared/src/budget.rs), with the timeouts of the wrapper    *)
(* and the margin the watchdog takes off.  Times are durations since the   *)
(* wrapper's start, in one unit.                                           *)
(***************************************************************************)
EXTENDS Integers

CONSTANTS
    Total,              \* TOTAL: the budget VRChat's patience allows
    OgReserve,          \* OG_RESERVE: what the native resolver gets at least
    ReAskReserve,       \* RE_ASK_RESERVE: what it leaves for a second ask
    OgHardCap,          \* OG_HARD_CAP: what it gets when nobody waits for a video
    ReAskMinWindow,     \* RE_ASK_MIN_WINDOW_MS: below, a hinted re-ask is hopeless
    NoHintMin,          \* NO_HINT_MIN_REMAINING_MS: the same without a hint
    ReAskSlack,         \* what a re-ask leaves of the budget ...
    ReAskMinAsk,        \* ... and the shortest it is
    ConnectTimeout,     \* pipe::CONNECT_TIMEOUT
    RetryMin,           \* a connect is retried when more than this is left ...
    RetryPause,         \* ... after this pause
    NotifyTimeout,      \* pipe::NOTIFY_TIMEOUT
    DrainTime,          \* DRAIN_AFTER_EXIT: how long a dead child's pipes are read
    KillTime,           \* assumption: a process is gone this long after kill_tree begins
    AnswerMargin,       \* what the wrapper takes off the deadline it announces
    WatchdogMargin,     \* WRAPPER_BUDGET_SAFETY_MARGIN_MS
    WatchdogMin         \* WRAPPER_BUDGET_MINIMUM_MS

ASSUME BudgetTypes ==
    /\ Total \in Nat /\ OgReserve \in Nat /\ ReAskReserve \in Nat /\ OgHardCap \in Nat
    /\ ReAskMinWindow \in Nat /\ NoHintMin \in Nat /\ ReAskSlack \in Nat
    /\ ReAskMinAsk \in Nat /\ ConnectTimeout \in Nat /\ RetryMin \in Nat
    /\ RetryPause \in Nat /\ NotifyTimeout \in Nat /\ DrainTime \in Nat
    /\ KillTime \in Nat /\ AnswerMargin \in Nat /\ WatchdogMargin \in Nat
    /\ WatchdogMin \in Nat

(* How the numbers of the code fit together. *)
ASSUME BudgetFits ==
    /\ ReAskMinAsk + ReAskSlack <= ReAskMinWindow
    /\ ReAskMinWindow <= NoHintMin /\ NoHintMin <= ReAskReserve
    /\ RetryPause + ConnectTimeout <= RetryMin
    /\ ConnectTimeout + WatchdogMin <= ReAskMinAsk
    /\ ReAskReserve + OgReserve <= Total

Larger(a, b) == IF a >= b THEN a ELSE b

(* A server's hint: when, if at all, it says to ask again. *)
NoHint == [given |-> FALSE, at |-> 0]

ReAskFits(hint) == hint.given => Total - hint.at >= ReAskMinWindow

ReAskStart(now, hint) == IF hint.given THEN Larger(hint.at, now) ELSE now

(* A mistake shim must catch: only what is left now counts. *)
HintUnchecked(now, hint) ==
    Total - now >= IF hint.given THEN ReAskMinWindow ELSE NoHintMin

(* re_ask_delay_ms is Some(ReAskStart - now) if this holds, and None if not. *)
ReAskInTime(now, hint) ==
    Total - ReAskStart(now, hint) >= IF hint.given THEN ReAskMinWindow ELSE NoHintMin

(* A mistake shim must catch: no room is left for the re-ask. *)
OgWindowUnreserved(now, reAsk, hint) ==
    IF reAsk THEN Larger(Total - now, OgReserve) ELSE OgHardCap

OgWindow(now, reAsk, hint) ==
    IF reAsk THEN Larger(Total - now - (IF ReAskFits(hint) THEN ReAskReserve ELSE 0), OgReserve)
    ELSE OgHardCap

(* A mistake shim must catch: the slack is taken off the whole budget. *)
ReAskWindowWhole(now) == Larger(Total - ReAskSlack, ReAskMinAsk)

(* How long a re-ask that starts now may take. *)
ReAskWindow(now) == Larger(Total - now - ReAskSlack, ReAskMinAsk)

(* A mistake shim must catch: the least the watchdog takes is too much. *)
WatchdogBudgetDoubled(left) ==
    Larger(Larger(left - AnswerMargin, 0) - WatchdogMargin, 2 * WatchdogMin)

(* What the watchdog allows itself for a request of a wrapper that waits    *)
(* for so long: wrapper_deadline_ms, then effective_budget_ms, whose ceiling*)
(* of 90 s is above every budget.                                           *)
WatchdogBudget(left) ==
    Larger(Larger(left - AnswerMargin, 0) - WatchdogMargin, WatchdogMin)
=============================================================================
