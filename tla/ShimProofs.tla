----------------------------- MODULE ShimProofs -----------------------------
(***************************************************************************)
(* The wrapper's deadlines, for every budget whose numbers fit together as *)
(* BudgetFits says and for waits of every length: what VRChat gets, and    *)
(* until when.                                                             *)
(***************************************************************************)
EXTENDS Shim, TLAPS

(* When VRChat's own resolver is over at the latest. *)
NativeEnd == Total + NotifyTimeout + OgReserve
Asking == pc \in {"connect", "exchange"}

(* An ask under way ends within the budget, and its connect within the ask. *)
AskTimed ==
    Asking =>
        /\ IsVideo
        /\ Deadline <= Total /\ ReAskMinAsk <= ask.window
        /\ ask.from <= elapsed /\ elapsed <= Deadline
        /\ ~ask.retried => elapsed <= ask.from + ConnectTimeout
        /\ pc = "connect" => /\ elapsed + ConnectTimeout <= Deadline
                             /\ ~ask.retried => elapsed = ask.from

(* How far the clock is at each await of a run for a video. *)
VideoTimed ==
    IsVideo =>
        /\ pc = "notify" => elapsed <= Total
        /\ pc = "select" => elapsed <= Total + NotifyTimeout
        /\ pc = "native" => og.until <= NativeEnd
        /\ pc \in {"kill", "drain"} => elapsed <= NativeEnd
        /\ pc = "report" => elapsed <= NativeEnd + Larger(KillTime, DrainTime)
        /\ elapsed <= LastEnd

(* The native resolver is timed from its start, with the hint of that time. *)
WindowKept ==
    /\ pc = "native" => og.from <= elapsed /\ elapsed <= og.until
    /\ pc \in {"native", "kill", "report", "consider"} /\ og.state \in {"running", "timedOut"}
         => og.until = og.from + OgWindow(og.from, IsVideo, hint)

(* What is known of the native resolver where. *)
NativeKnown ==
    /\ pc = "begin" => /\ elapsed = 0
                       /\ ask = [from |-> 0, window |-> Total, retried |-> FALSE, again |-> FALSE]
    /\ pc # "done" => printed = {}
    /\ og.wrote => og.state \in {"failed", "succeeded"}
    /\ pc = "native" => og.state = "running"
    /\ pc = "kill" => og.state \in {"broken", "timedOut"}
    /\ pc = "drain" => og.state \in {"failed", "succeeded"}
    /\ pc \notin {"report", "consider", "done"} /\ ~(Asking /\ ask.again) => ~og.wrote
    /\ pc = "report" => IsVideo /\ NativeFailed
    /\ pc = "consider" \/ (Asking /\ ask.again) =>
          IsVideo /\ og.state \in {"absent", "broken", "failed", "timedOut"}
    /\ og.gone => /\ og.state = "failed"
                  /\ pc \in {"drain", "report", "consider", "done"} \/ (Asking /\ ask.again)

UrlInTime == "url" \in printed => elapsed <= Total

ShimInv == /\ TypeOK /\ AskTimed /\ VideoTimed /\ WindowKept /\ NativeKnown
           /\ NeverWorse /\ UrlInTime

-----------------------------------------------------------------------------
(* Arithmetic of the budget. *)

LEMMA TakesBounds ==
    ASSUME elapsed \in Nat, NEW limit \in Nat, Takes(limit)
    PROVE  elapsed' \in Nat /\ elapsed <= elapsed' /\ elapsed' <= elapsed + limit
<1>1. PICK d \in Durations(limit) : elapsed' = elapsed + d
    BY DEF Takes
<1>2. d \in Nat /\ d <= limit
    BY ShimAssumption DEF Durations
<1> QED BY <1>1, <1>2

LEMMA ReAskFirstFits == ReAskMinAsk <= Total /\ ConnectTimeout <= ReAskMinAsk
BY BudgetTypes, BudgetFits

(* The native resolver's window ends with the budget, or with its reserve.  *)
LEMMA WindowBounds ==
    ASSUME NEW now \in Nat, NEW h \in [given : BOOLEAN, at : Nat], NEW b \in BOOLEAN
    PROVE  /\ OgWindow(now, b, h) \in Nat
           /\ b /\ now <= Total + NotifyTimeout => now + OgWindow(now, b, h) <= NativeEnd
BY BudgetTypes, BudgetFits DEF OgWindow, Larger, NativeEnd

(* A re-ask that is in time starts and ends within the budget.              *)
LEMMA ReAskBounds ==
    ASSUME NEW now \in Nat, NEW h \in [given : BOOLEAN, at : Nat], ReAskInTime(now, h)
    PROVE  /\ ReAskStart(now, h) \in Nat /\ now <= ReAskStart(now, h)
           /\ ReAskWindow(ReAskStart(now, h)) \in Nat
           /\ ReAskMinAsk <= ReAskWindow(ReAskStart(now, h))
           /\ ReAskStart(now, h) + ReAskWindow(ReAskStart(now, h)) <= Total
BY BudgetTypes, BudgetFits DEF ReAskInTime, ReAskStart, ReAskWindow, Larger

LEMMA EndsLast ==
    /\ NativeEnd \in Nat /\ LastEnd \in Nat
    /\ Larger(KillTime, DrainTime) \in Nat
    /\ KillTime <= Larger(KillTime, DrainTime) /\ DrainTime <= Larger(KillTime, DrainTime)
    /\ Total + NotifyTimeout <= NativeEnd
    /\ NativeEnd + Larger(KillTime, DrainTime) + NotifyTimeout = LastEnd
BY BudgetTypes DEF NativeEnd, LastEnd, Larger

LEMMA HintTyped ==
    ASSUME NEW now \in Nat, NEW h \in Hints
    PROVE  [given |-> TRUE, at |-> now + h] \in [given : BOOLEAN, at : Nat]
<1>1. h \in Nat
    BY ShimAssumption
<1>2. now + h \in Nat
    BY <1>1
<1> QED BY <1>2

LEMMA NativeTyped ==
    ASSUME NEW x \in OgRecord, NEW from \in Nat, NEW w \in Nat
    PROVE  [x EXCEPT !.state = "running", !.from = from, !.until = from + w] \in OgRecord
<1>1. from + w \in Nat
    OBVIOUS
<1> QED BY <1>1 DEF OgRecord

(* An ask has time for its first connect.                                   *)
LEMMA AskTyped ==
    ASSUME NEW from \in Nat, NEW w \in Nat, ReAskMinAsk <= w, from + w <= Total
    PROVE  /\ from <= from + w /\ from + ConnectTimeout <= from + w
           /\ from <= from + ConnectTimeout
           /\ from \in 0 .. Total /\ w \in 0 .. Total
BY ReAskFirstFits, BudgetTypes

LEMMA WithinAsk ==
    ASSUME NEW now \in Nat, NEW end \in Nat, now + ConnectTimeout <= end, end <= Total
    PROVE  now <= end /\ now <= Total /\ now <= LastEnd
BY EndsLast, BudgetTypes

(* What is left after a window that leaves the re-ask its reserve.          *)
LEMMA ReserveIsLeft ==
    ASSUME NEW from \in Nat, NEW until \in Nat, NEW now \in Nat,
           until = from + (Total - from - ReAskReserve),
           now - until <= ReAskReserve - NoHintMin
    PROVE  now <= Total - NoHintMin
BY BudgetTypes

-----------------------------------------------------------------------------
LEMMA InitShimInv == Init => ShimInv
<1> SUFFICES ASSUME Init PROVE ShimInv
    OBVIOUS
<1>1. TypeOK
    BY BudgetTypes DEF Init, TypeOK, Pcs, AskRecord, OgRecord, NoHint
<1>2. AskTimed /\ VideoTimed /\ WindowKept /\ NativeKnown /\ NeverWorse /\ UrlInTime
    BY DEF Init, AskTimed, VideoTimed, WindowKept, NativeKnown, NeverWorse, UrlInTime,
           Asking, IsVideo
<1> QED BY <1>1, <1>2 DEF ShimInv

LEMMA BeginPreserves == ShimInv /\ Begin => ShimInv'
<1> SUFFICES ASSUME ShimInv, Begin PROVE ShimInv'
    OBVIOUS
<1>1. TypeOK'
    BY DEF ShimInv, TypeOK, Begin, Ends, GoesOn, Pcs
<1>2. AskTimed' /\ VideoTimed' /\ UrlInTime'
    BY ReAskFirstFits, EndsLast, BudgetTypes DEF ShimInv, TypeOK, NativeKnown, AskTimed,
       VideoTimed, UrlInTime, Begin, Ends, GoesOn, Asking, IsVideo, Deadline
<1>3. WindowKept'
    BY DEF WindowKept, Begin, Ends, GoesOn
<1>4. NativeKnown'
    BY DEF ShimInv, NativeKnown, Begin, Ends, GoesOn, Asking, IsVideo, NativeFailed
<1>5. NeverWorse'
    BY DEF ShimInv, NativeKnown, NeverWorse, Begin, Ends, GoesOn
<1> QED BY <1>1, <1>2, <1>3, <1>4, <1>5 DEF ShimInv

-----------------------------------------------------------------------------
(* Each action preserves the invariant: the time it may take, then part by  *)
(* part.                                                                    *)

LEMMA ConnectsPreserves == ShimInv /\ Connects => ShimInv'
<1> SUFFICES ASSUME ShimInv, Connects PROVE ShimInv'
    OBVIOUS
<1>i. TypeOK /\ AskTimed /\ VideoTimed /\ WindowKept /\ NativeKnown
    BY DEF ShimInv
<1>t. elapsed \in Nat /\ pc \in Pcs /\ ask \in AskRecord /\ og \in OgRecord
      /\ hint \in [given : BOOLEAN, at : Nat]
      /\ kind \in {"none", "noUrl", "firstParty", "video"}
    BY <1>i DEF TypeOK
<1>d. elapsed' \in Nat /\ elapsed <= elapsed' /\ elapsed' <= elapsed + (ConnectTimeout)
    BY <1>i, <1>t, TakesBounds, BudgetTypes
       DEF Connects, AskTimed, Asking, Deadline, AskRecord, WindowKept, NativeKnown,
           OgRecord
<1>p. pc' \in Pcs /\ printed' \in SUBSET {"url", "native"} /\ exit' \in {0, 1}
    BY <1>i, <1>t DEF TypeOK, Pcs, Connects, Ends, GoesOn, AskFailed, PassOn, Deadline
<1>1. TypeOK'
    BY <1>i, <1>t, <1>d, <1>p, BudgetTypes
       DEF Connects, Ends, GoesOn, AskFailed, PassOn, Deadline, TypeOK, AskRecord,
           OgRecord
<1>2. AskTimed'
    BY <1>i, <1>t, <1>d, BudgetTypes
       DEF Connects, Ends, GoesOn, AskFailed, PassOn, Deadline, AskTimed, Asking,
           IsVideo, AskRecord
<1>3. VideoTimed'
    BY <1>i, <1>t, <1>d, EndsLast, BudgetTypes
       DEF Connects, Ends, GoesOn, AskFailed, PassOn, Deadline, VideoTimed, IsVideo,
           AskTimed, Asking, WindowKept, NativeKnown, AskRecord, OgRecord
<1>4. WindowKept'
    BY <1>i, <1>t, <1>d
       DEF Connects, Ends, GoesOn, AskFailed, PassOn, Deadline, WindowKept, NativeKnown,
           IsVideo, Asking, OgRecord
<1>5. NativeKnown'
    BY <1>i, <1>t, <1>d
       DEF Connects, Ends, GoesOn, AskFailed, PassOn, Deadline, NativeKnown,
           NativeFailed, Asking, IsVideo, OgRecord
<1>6. NeverWorse'
    BY <1>i, <1>t, <1>d
       DEF Connects, Ends, GoesOn, AskFailed, PassOn, Deadline, NeverWorse, NativeKnown,
           NativeFailed, Asking, OgRecord
<1>7. UrlInTime'
    BY <1>i, <1>t, <1>d
       DEF Connects, Ends, GoesOn, AskFailed, PassOn, Deadline, UrlInTime, NativeKnown,
           AskTimed, Asking, AskRecord
<1> QED BY <1>1, <1>2, <1>3, <1>4, <1>5, <1>6, <1>7 DEF ShimInv

LEMMA ResolvedPreserves == ShimInv /\ Resolved => ShimInv'
<1> SUFFICES ASSUME ShimInv, Resolved PROVE ShimInv'
    OBVIOUS
<1>i. TypeOK /\ AskTimed /\ VideoTimed /\ WindowKept /\ NativeKnown
    BY DEF ShimInv
<1>t. elapsed \in Nat /\ pc \in Pcs /\ ask \in AskRecord /\ og \in OgRecord
      /\ hint \in [given : BOOLEAN, at : Nat]
      /\ kind \in {"none", "noUrl", "firstParty", "video"}
    BY <1>i DEF TypeOK
<1>d. elapsed' \in Nat /\ elapsed <= elapsed' /\ elapsed' <= elapsed + (Deadline - elapsed)
    BY <1>i, <1>t, TakesBounds, BudgetTypes
       DEF Resolved, AskTimed, Asking, Deadline, AskRecord, WindowKept, NativeKnown,
           OgRecord
<1>e. Deadline \in Nat /\ elapsed' <= Deadline /\ Deadline <= Total
    BY <1>i, <1>t, <1>d, BudgetTypes DEF Resolved, AskTimed, Asking, Deadline, AskRecord
<1>p. pc' \in Pcs /\ printed' \in SUBSET {"url", "native"} /\ exit' \in {0, 1}
    BY <1>i, <1>t DEF TypeOK, Pcs, Resolved, Ends, GoesOn, AskFailed, PassOn, Deadline
<1>1. TypeOK'
    BY <1>i, <1>t, <1>d, <1>p, BudgetTypes
       DEF Resolved, Ends, GoesOn, AskFailed, PassOn, Deadline, TypeOK, AskRecord,
           OgRecord
<1>2. AskTimed'
    BY <1>i, <1>t, <1>d, BudgetTypes
       DEF Resolved, Ends, GoesOn, AskFailed, PassOn, Deadline, AskTimed, Asking,
           IsVideo, AskRecord
<1>3. VideoTimed'
    BY <1>i, <1>t, <1>d, EndsLast, BudgetTypes
       DEF Resolved, Ends, GoesOn, AskFailed, PassOn, Deadline, VideoTimed, IsVideo,
           AskTimed, Asking, WindowKept, NativeKnown, AskRecord, OgRecord
<1>4. WindowKept'
    BY <1>i, <1>t, <1>d
       DEF Resolved, Ends, GoesOn, AskFailed, PassOn, Deadline, WindowKept, NativeKnown,
           IsVideo, Asking, OgRecord
<1>5. NativeKnown'
    BY <1>i, <1>t, <1>d
       DEF Resolved, Ends, GoesOn, AskFailed, PassOn, Deadline, NativeKnown,
           NativeFailed, Asking, IsVideo, OgRecord
<1>6. NeverWorse'
    BY <1>i, <1>t, <1>d
       DEF Resolved, Ends, GoesOn, AskFailed, PassOn, Deadline, NeverWorse, NativeKnown,
           NativeFailed, Asking, OgRecord
<1>7. UrlInTime'
    BY <1>d, <1>e, <1>t, BudgetTypes DEF UrlInTime
<1> QED BY <1>1, <1>2, <1>3, <1>4, <1>5, <1>6, <1>7 DEF ShimInv

LEMMA DeclinedPreserves == ShimInv /\ Declined => ShimInv'
<1> SUFFICES ASSUME ShimInv, Declined PROVE ShimInv'
    OBVIOUS
<1>i. TypeOK /\ AskTimed /\ VideoTimed /\ WindowKept /\ NativeKnown
    BY DEF ShimInv
<1>t. elapsed \in Nat /\ pc \in Pcs /\ ask \in AskRecord /\ og \in OgRecord
      /\ hint \in [given : BOOLEAN, at : Nat]
      /\ kind \in {"none", "noUrl", "firstParty", "video"}
    BY <1>i DEF TypeOK
<1>d. elapsed' \in Nat /\ elapsed <= elapsed' /\ elapsed' <= elapsed + (Deadline - elapsed)
    BY <1>i, <1>t, TakesBounds, BudgetTypes
       DEF Declined, AskTimed, Asking, Deadline, AskRecord, WindowKept, NativeKnown,
           OgRecord
<1>e. Deadline \in Nat /\ elapsed' <= Deadline /\ Deadline <= Total
    BY <1>i, <1>t, <1>d, BudgetTypes DEF Declined, AskTimed, Asking, Deadline, AskRecord
<1>m. elapsed' \in Nat
    BY <1>d
<1>h. hint' \in [given : BOOLEAN, at : Nat]
    <2>1. CASE hint' = NoHint
        BY <2>1 DEF NoHint
    <2>2. ASSUME NEW h \in Hints, hint' = [given |-> TRUE, at |-> elapsed' + h]
          PROVE  hint' \in [given : BOOLEAN, at : Nat]
        BY <1>m, <2>2, HintTyped
    <2> QED BY <2>1, <2>2 DEF Declined
<1>p. pc' \in Pcs /\ printed' \in SUBSET {"url", "native"} /\ exit' \in {0, 1}
    BY <1>i, <1>t
       DEF TypeOK, Pcs, Declined, Ends, GoesOn, AskFailed, PassOn, Deadline, NoHint
<1>1. TypeOK'
    BY <1>i, <1>t, <1>d, <1>p, <1>h DEF Declined, AskFailed, GoesOn, PassOn, Ends, TypeOK
<1>2. AskTimed'
    BY <1>i, <1>t, <1>d, BudgetTypes
       DEF Declined, Ends, GoesOn, AskFailed, PassOn, Deadline, NoHint, AskTimed,
           Asking, IsVideo, AskRecord
<1>3. VideoTimed'
    BY <1>i, <1>t, <1>d, EndsLast, BudgetTypes
       DEF Declined, Ends, GoesOn, AskFailed, PassOn, Deadline, NoHint, VideoTimed,
           IsVideo, AskTimed, Asking, WindowKept, NativeKnown, AskRecord, OgRecord
<1>4. WindowKept'
    BY <1>i, <1>t, <1>d
       DEF Declined, Ends, GoesOn, AskFailed, PassOn, Deadline, NoHint, WindowKept,
           NativeKnown, IsVideo, Asking, OgRecord
<1>5. NativeKnown'
    BY <1>i, <1>t, <1>d
       DEF Declined, Ends, GoesOn, AskFailed, PassOn, Deadline, NoHint, NativeKnown,
           NativeFailed, Asking, IsVideo, OgRecord
<1>6. NeverWorse'
    BY <1>i, <1>t, <1>d
       DEF Declined, Ends, GoesOn, AskFailed, PassOn, Deadline, NoHint, NeverWorse,
           NativeKnown, NativeFailed, Asking, OgRecord
<1>7. UrlInTime'
    BY <1>i, <1>t, <1>d
       DEF Declined, Ends, GoesOn, AskFailed, PassOn, Deadline, NoHint, UrlInTime,
           NativeKnown, AskTimed, Asking, AskRecord
<1> QED BY <1>1, <1>2, <1>3, <1>4, <1>5, <1>6, <1>7 DEF ShimInv

LEMMA ExchangeFailsPreserves == ShimInv /\ ExchangeFails => ShimInv'
<1> SUFFICES ASSUME ShimInv, ExchangeFails PROVE ShimInv'
    OBVIOUS
<1>i. TypeOK /\ AskTimed /\ VideoTimed /\ WindowKept /\ NativeKnown
    BY DEF ShimInv
<1>t. elapsed \in Nat /\ pc \in Pcs /\ ask \in AskRecord /\ og \in OgRecord
      /\ hint \in [given : BOOLEAN, at : Nat]
      /\ kind \in {"none", "noUrl", "firstParty", "video"}
    BY <1>i DEF TypeOK
<1>d. elapsed' \in Nat /\ elapsed <= elapsed' /\ elapsed' <= elapsed + (Deadline - elapsed)
    BY <1>i, <1>t, TakesBounds, BudgetTypes
       DEF ExchangeFails, AskTimed, Asking, Deadline, AskRecord, WindowKept,
           NativeKnown, OgRecord
<1>e. Deadline \in Nat /\ elapsed' <= Deadline /\ Deadline <= Total
    BY <1>i, <1>t, <1>d, BudgetTypes
       DEF ExchangeFails, AskTimed, Asking, Deadline, AskRecord
<1>p. pc' \in Pcs /\ printed' \in SUBSET {"url", "native"} /\ exit' \in {0, 1}
    BY <1>i, <1>t DEF TypeOK, Pcs, ExchangeFails, Ends, GoesOn, AskFailed, PassOn, Deadline
<1>1. TypeOK'
    BY <1>i, <1>t, <1>d, <1>p, BudgetTypes
       DEF ExchangeFails, Ends, GoesOn, AskFailed, PassOn, Deadline, TypeOK, AskRecord,
           OgRecord
<1>2. AskTimed'
    BY <1>i, <1>t, <1>d, BudgetTypes
       DEF ExchangeFails, Ends, GoesOn, AskFailed, PassOn, Deadline, AskTimed, Asking,
           IsVideo, AskRecord
<1>3. VideoTimed'
    BY <1>i, <1>t, <1>d, EndsLast, BudgetTypes
       DEF ExchangeFails, Ends, GoesOn, AskFailed, PassOn, Deadline, VideoTimed,
           IsVideo, AskTimed, Asking, WindowKept, NativeKnown, AskRecord, OgRecord
<1>4. WindowKept'
    BY <1>i, <1>t, <1>d
       DEF ExchangeFails, Ends, GoesOn, AskFailed, PassOn, Deadline, WindowKept,
           NativeKnown, IsVideo, Asking, OgRecord
<1>5. NativeKnown'
    BY <1>i, <1>t, <1>d
       DEF ExchangeFails, Ends, GoesOn, AskFailed, PassOn, Deadline, NativeKnown,
           NativeFailed, Asking, IsVideo, OgRecord
<1>6. NeverWorse'
    BY <1>i, <1>t, <1>d
       DEF ExchangeFails, Ends, GoesOn, AskFailed, PassOn, Deadline, NeverWorse,
           NativeKnown, NativeFailed, Asking, OgRecord
<1>7. UrlInTime'
    BY <1>i, <1>t, <1>d
       DEF ExchangeFails, Ends, GoesOn, AskFailed, PassOn, Deadline, UrlInTime,
           NativeKnown, AskTimed, Asking, AskRecord
<1> QED BY <1>1, <1>2, <1>3, <1>4, <1>5, <1>6, <1>7 DEF ShimInv

LEMMA AskTimesOutPreserves == ShimInv /\ AskTimesOut => ShimInv'
<1> SUFFICES ASSUME ShimInv, AskTimesOut PROVE ShimInv'
    OBVIOUS
<1>i. TypeOK /\ AskTimed /\ VideoTimed /\ WindowKept /\ NativeKnown
    BY DEF ShimInv
<1>t. elapsed \in Nat /\ pc \in Pcs /\ ask \in AskRecord /\ og \in OgRecord
      /\ hint \in [given : BOOLEAN, at : Nat]
      /\ kind \in {"none", "noUrl", "firstParty", "video"}
    BY <1>i DEF TypeOK
<1>d. elapsed' \in Nat /\ elapsed <= elapsed' /\ elapsed' = Deadline
    BY <1>i, <1>t, BudgetTypes DEF AskTimesOut, AskTimed, Asking, Deadline, AskRecord
<1>p. pc' \in Pcs /\ printed' \in SUBSET {"url", "native"} /\ exit' \in {0, 1}
    BY <1>i, <1>t DEF TypeOK, Pcs, AskTimesOut, Ends, GoesOn, AskFailed, PassOn, Deadline
<1>1. TypeOK'
    BY <1>i, <1>t, <1>d, <1>p, BudgetTypes
       DEF AskTimesOut, Ends, GoesOn, AskFailed, PassOn, Deadline, TypeOK, AskRecord,
           OgRecord
<1>2. AskTimed'
    BY <1>i, <1>t, <1>d, BudgetTypes
       DEF AskTimesOut, Ends, GoesOn, AskFailed, PassOn, Deadline, AskTimed, Asking,
           IsVideo, AskRecord
<1>3. VideoTimed'
    BY <1>i, <1>t, <1>d, EndsLast, BudgetTypes
       DEF AskTimesOut, Ends, GoesOn, AskFailed, PassOn, Deadline, VideoTimed, IsVideo,
           AskTimed, Asking, WindowKept, NativeKnown, AskRecord, OgRecord
<1>4. WindowKept'
    BY <1>i, <1>t, <1>d
       DEF AskTimesOut, Ends, GoesOn, AskFailed, PassOn, Deadline, WindowKept,
           NativeKnown, IsVideo, Asking, OgRecord
<1>5. NativeKnown'
    BY <1>i, <1>t, <1>d
       DEF AskTimesOut, Ends, GoesOn, AskFailed, PassOn, Deadline, NativeKnown,
           NativeFailed, Asking, IsVideo, OgRecord
<1>6. NeverWorse'
    BY <1>i, <1>t, <1>d
       DEF AskTimesOut, Ends, GoesOn, AskFailed, PassOn, Deadline, NeverWorse,
           NativeKnown, NativeFailed, Asking, OgRecord
<1>7. UrlInTime'
    BY <1>i, <1>t, <1>d
       DEF AskTimesOut, Ends, GoesOn, AskFailed, PassOn, Deadline, UrlInTime,
           NativeKnown, AskTimed, Asking, AskRecord
<1> QED BY <1>1, <1>2, <1>3, <1>4, <1>5, <1>6, <1>7 DEF ShimInv

LEMMA NotifyOgFallbackPreserves == ShimInv /\ NotifyOgFallback => ShimInv'
<1> SUFFICES ASSUME ShimInv, NotifyOgFallback PROVE ShimInv'
    OBVIOUS
<1>i. TypeOK /\ AskTimed /\ VideoTimed /\ WindowKept /\ NativeKnown
    BY DEF ShimInv
<1>t. elapsed \in Nat /\ pc \in Pcs /\ ask \in AskRecord /\ og \in OgRecord
      /\ hint \in [given : BOOLEAN, at : Nat]
      /\ kind \in {"none", "noUrl", "firstParty", "video"}
    BY <1>i DEF TypeOK
<1>d. elapsed' \in Nat /\ elapsed <= elapsed' /\ elapsed' <= elapsed + (NotifyTimeout)
    BY <1>t, TakesBounds, BudgetTypes DEF NotifyOgFallback, SendNotify
<1>p. pc' \in Pcs /\ printed' \in SUBSET {"url", "native"} /\ exit' \in {0, 1}
    BY <1>i, <1>t DEF TypeOK, Pcs, NotifyOgFallback, Ends, GoesOn, Goes
<1>1. TypeOK'
    BY <1>i, <1>t, <1>d, <1>p, BudgetTypes
       DEF NotifyOgFallback, Ends, GoesOn, Goes, TypeOK, AskRecord, OgRecord
<1>2. AskTimed'
    BY <1>i, <1>t, <1>d, BudgetTypes
       DEF NotifyOgFallback, Ends, GoesOn, Goes, AskTimed, Asking, IsVideo, Deadline,
           AskRecord
<1>3. VideoTimed'
    BY <1>i, <1>t, <1>d, EndsLast, BudgetTypes
       DEF NotifyOgFallback, Ends, GoesOn, Goes, VideoTimed, IsVideo, AskTimed, Asking,
           Deadline, WindowKept, NativeKnown, AskRecord, OgRecord
<1>4. WindowKept'
    BY <1>i, <1>t, <1>d
       DEF NotifyOgFallback, Ends, GoesOn, Goes, WindowKept, NativeKnown, IsVideo,
           Asking, OgRecord
<1>5. NativeKnown'
    BY <1>i, <1>t, <1>d
       DEF NotifyOgFallback, Ends, GoesOn, Goes, NativeKnown, NativeFailed, Asking,
           IsVideo, OgRecord
<1>6. NeverWorse'
    BY <1>i, <1>t, <1>d
       DEF NotifyOgFallback, Ends, GoesOn, Goes, NeverWorse, NativeKnown, NativeFailed,
           Asking, OgRecord
<1>7. UrlInTime'
    BY <1>i, <1>t, <1>d
       DEF NotifyOgFallback, Ends, GoesOn, Goes, UrlInTime, NativeKnown, AskTimed,
           Asking, Deadline, AskRecord
<1> QED BY <1>1, <1>2, <1>3, <1>4, <1>5, <1>6, <1>7 DEF ShimInv

LEMMA NoNativePreserves == ShimInv /\ NoNative => ShimInv'
<1> SUFFICES ASSUME ShimInv, NoNative PROVE ShimInv'
    OBVIOUS
<1>i. TypeOK /\ AskTimed /\ VideoTimed /\ WindowKept /\ NativeKnown
    BY DEF ShimInv
<1>t. elapsed \in Nat /\ pc \in Pcs /\ ask \in AskRecord /\ og \in OgRecord
      /\ hint \in [given : BOOLEAN, at : Nat]
      /\ kind \in {"none", "noUrl", "firstParty", "video"}
    BY <1>i DEF TypeOK
<1>p. pc' \in Pcs /\ printed' \in SUBSET {"url", "native"} /\ exit' \in {0, 1}
    BY <1>i, <1>t DEF TypeOK, Pcs, NoNative, Ends, GoesOn
<1>1. TypeOK'
    BY <1>i, <1>t, <1>p, BudgetTypes DEF NoNative, Ends, GoesOn, TypeOK, AskRecord, OgRecord
<1>2. AskTimed'
    BY <1>i, <1>t, BudgetTypes
       DEF NoNative, Ends, GoesOn, AskTimed, Asking, IsVideo, Deadline, AskRecord
<1>3. VideoTimed'
    BY <1>i, <1>t, EndsLast, BudgetTypes
       DEF NoNative, Ends, GoesOn, VideoTimed, IsVideo, AskTimed, Asking, Deadline,
           WindowKept, NativeKnown, AskRecord, OgRecord
<1>4. WindowKept'
    BY <1>i, <1>t
       DEF NoNative, Ends, GoesOn, WindowKept, NativeKnown, IsVideo, Asking, OgRecord
<1>5. NativeKnown'
    BY <1>i, <1>t
       DEF NoNative, Ends, GoesOn, NativeKnown, NativeFailed, Asking, IsVideo, OgRecord
<1>6. NeverWorse'
    BY <1>i, <1>t
       DEF NoNative, Ends, GoesOn, NeverWorse, NativeKnown, NativeFailed, Asking,
           OgRecord
<1>7. UrlInTime'
    BY <1>i, <1>t
       DEF NoNative, Ends, GoesOn, UrlInTime, NativeKnown, AskTimed, Asking, Deadline,
           AskRecord
<1> QED BY <1>1, <1>2, <1>3, <1>4, <1>5, <1>6, <1>7 DEF ShimInv

LEMMA StartNativePreserves == ShimInv /\ StartNative => ShimInv'
<1> SUFFICES ASSUME ShimInv, StartNative PROVE ShimInv'
    OBVIOUS
<1>i. TypeOK /\ AskTimed /\ VideoTimed /\ WindowKept /\ NativeKnown
    BY DEF ShimInv
<1>t. elapsed \in Nat /\ pc \in Pcs /\ ask \in AskRecord /\ og \in OgRecord
      /\ hint \in [given : BOOLEAN, at : Nat]
      /\ kind \in {"none", "noUrl", "firstParty", "video"}
    BY <1>i DEF TypeOK
<1>d. elapsed' = elapsed /\ og'.state = "running" /\ og'.from = elapsed
      /\ og'.until = elapsed + OgWindow(elapsed, IsVideo, hint)
      /\ OgWindow(elapsed, IsVideo, hint) \in Nat /\ og' \in OgRecord
    <2>1. IsVideo \in BOOLEAN
        BY DEF IsVideo
    <2>2. OgWindow(elapsed, IsVideo, hint) \in Nat
        BY <1>t, <2>1, WindowBounds
    <2> HIDE DEF IsVideo
    <2>3. elapsed' = elapsed
          /\ og' = [og EXCEPT !.state = "running", !.from = elapsed,
                                !.until = elapsed + OgWindow(elapsed, IsVideo, hint)]
        BY DEF StartNative
    <2>4. ASSUME NEW w \in Nat, og' = [og EXCEPT !.state = "running", !.from = elapsed,
                                                !.until = elapsed + w]
          PROVE  /\ og'.state = "running" /\ og'.from = elapsed
                 /\ og'.until = elapsed + w /\ og' \in OgRecord
        BY <1>t, <2>4, NativeTyped DEF OgRecord
    <2> QED BY <2>2, <2>3, <2>4
<1>p. pc' \in Pcs /\ printed' \in SUBSET {"url", "native"} /\ exit' \in {0, 1}
    BY <1>i, <1>t DEF TypeOK, Pcs, StartNative, Ends, GoesOn, Goes
<1>1. TypeOK'
    BY <1>i, <1>d, <1>p DEF StartNative, TypeOK
<1>2. AskTimed'
    BY <1>i, <1>t, <1>d, BudgetTypes
       DEF StartNative, Ends, GoesOn, Goes, AskTimed, Asking, IsVideo, Deadline,
           AskRecord
<1>3. VideoTimed'
    BY <1>i, <1>t, <1>d, WindowBounds, EndsLast, BudgetTypes
       DEF StartNative, Ends, GoesOn, Goes, VideoTimed, IsVideo, AskTimed, Asking,
           Deadline, WindowKept, NativeKnown, AskRecord, OgRecord
<1>4. WindowKept'
    BY <1>i, <1>t, <1>d
       DEF StartNative, Ends, GoesOn, Goes, WindowKept, NativeKnown, IsVideo, Asking,
           OgRecord
<1>5. NativeKnown'
    BY <1>i, <1>t, <1>d
       DEF StartNative, Ends, GoesOn, Goes, NativeKnown, NativeFailed, Asking, IsVideo,
           OgRecord
<1>6. NeverWorse'
    BY <1>i, <1>t, <1>d
       DEF StartNative, Ends, GoesOn, Goes, NeverWorse, NativeKnown, NativeFailed,
           Asking, OgRecord
<1>7. UrlInTime'
    BY <1>i, <1>t, <1>d
       DEF StartNative, Ends, GoesOn, Goes, UrlInTime, NativeKnown, AskTimed, Asking,
           Deadline, AskRecord
<1> QED BY <1>1, <1>2, <1>3, <1>4, <1>5, <1>6, <1>7 DEF ShimInv

LEMMA NativeExitsPreserves == ShimInv /\ NativeExits => ShimInv'
<1> SUFFICES ASSUME ShimInv, NativeExits PROVE ShimInv'
    OBVIOUS
<1>i. TypeOK /\ AskTimed /\ VideoTimed /\ WindowKept /\ NativeKnown
    BY DEF ShimInv
<1>t. elapsed \in Nat /\ pc \in Pcs /\ ask \in AskRecord /\ og \in OgRecord
      /\ hint \in [given : BOOLEAN, at : Nat]
      /\ kind \in {"none", "noUrl", "firstParty", "video"}
    BY <1>i DEF TypeOK
<1>s. pc = "native"
    BY DEF NativeExits, Goes
<1>n. og.until - elapsed \in Nat
    BY <1>i, <1>t, <1>s DEF WindowKept, OgRecord
<1>d. elapsed' \in Nat /\ elapsed <= elapsed' /\ elapsed' <= elapsed + (og.until - elapsed)
    BY <1>n, <1>t, TakesBounds DEF NativeExits
<1>o. /\ pc = "native" /\ elapsed' <= og.until
      /\ og'.from = og.from /\ og'.until = og.until
    <2>1. elapsed' <= og.until
        BY <1>n, <1>d, <1>t DEF OgRecord
    <2> QED BY <1>s, <1>t, <2>1 DEF NativeExits, OgRecord
<1>r. IsVideo => elapsed' <= NativeEnd /\ elapsed' <= LastEnd
    <2>1. og.until \in Nat
        BY <1>t DEF OgRecord
    <2>2. IsVideo => og.until <= NativeEnd
        BY <1>i, <1>s DEF VideoTimed
    <2> QED BY <1>d, <1>o, <2>1, <2>2, EndsLast, BudgetTypes
<1>p. pc' \in Pcs /\ printed' \in SUBSET {"url", "native"} /\ exit' \in {0, 1}
    BY <1>i, <1>t DEF TypeOK, Pcs, NativeExits, Ends, GoesOn, Goes
<1>1. TypeOK'
    BY <1>i, <1>t, <1>d, <1>p, BudgetTypes
       DEF NativeExits, Ends, GoesOn, Goes, TypeOK, AskRecord, OgRecord
<1>2. AskTimed'
    BY <1>i, <1>t, <1>d, BudgetTypes
       DEF NativeExits, Ends, GoesOn, Goes, AskTimed, Asking, IsVideo, Deadline,
           AskRecord
<1>3. VideoTimed'
    BY <1>r, <1>o DEF NativeExits, Goes, VideoTimed, IsVideo
<1>4. WindowKept'
    BY <1>i, <1>t, <1>d
       DEF NativeExits, Ends, GoesOn, Goes, WindowKept, NativeKnown, IsVideo, Asking,
           OgRecord
<1>5. NativeKnown'
    BY <1>i, <1>t, <1>d
       DEF NativeExits, Ends, GoesOn, Goes, NativeKnown, NativeFailed, Asking, IsVideo,
           OgRecord
<1>6. NeverWorse'
    BY <1>i, <1>t, <1>d
       DEF NativeExits, Ends, GoesOn, Goes, NeverWorse, NativeKnown, NativeFailed,
           Asking, OgRecord
<1>7. UrlInTime'
    BY <1>i, <1>t, <1>d
       DEF NativeExits, Ends, GoesOn, Goes, UrlInTime, NativeKnown, AskTimed, Asking,
           Deadline, AskRecord
<1> QED BY <1>1, <1>2, <1>3, <1>4, <1>5, <1>6, <1>7 DEF ShimInv

LEMMA NativeBreaksPreserves == ShimInv /\ NativeBreaks => ShimInv'
<1> SUFFICES ASSUME ShimInv, NativeBreaks PROVE ShimInv'
    OBVIOUS
<1>i. TypeOK /\ AskTimed /\ VideoTimed /\ WindowKept /\ NativeKnown
    BY DEF ShimInv
<1>t. elapsed \in Nat /\ pc \in Pcs /\ ask \in AskRecord /\ og \in OgRecord
      /\ hint \in [given : BOOLEAN, at : Nat]
      /\ kind \in {"none", "noUrl", "firstParty", "video"}
    BY <1>i DEF TypeOK
<1>s. pc = "native"
    BY DEF NativeBreaks, Goes
<1>n. og.until - elapsed \in Nat
    BY <1>i, <1>t, <1>s DEF WindowKept, OgRecord
<1>d. elapsed' \in Nat /\ elapsed <= elapsed' /\ elapsed' <= elapsed + (og.until - elapsed)
    BY <1>n, <1>t, TakesBounds DEF NativeBreaks
<1>o. /\ pc = "native" /\ elapsed' <= og.until
      /\ og'.from = og.from /\ og'.until = og.until
    <2>1. elapsed' <= og.until
        BY <1>n, <1>d, <1>t DEF OgRecord
    <2> QED BY <1>s, <1>t, <2>1 DEF NativeBreaks, OgRecord
<1>r. IsVideo => elapsed' <= NativeEnd /\ elapsed' <= LastEnd
    <2>1. og.until \in Nat
        BY <1>t DEF OgRecord
    <2>2. IsVideo => og.until <= NativeEnd
        BY <1>i, <1>s DEF VideoTimed
    <2> QED BY <1>d, <1>o, <2>1, <2>2, EndsLast, BudgetTypes
<1>p. pc' \in Pcs /\ printed' \in SUBSET {"url", "native"} /\ exit' \in {0, 1}
    BY <1>i, <1>t DEF TypeOK, Pcs, NativeBreaks, Ends, GoesOn, Goes
<1>1. TypeOK'
    BY <1>i, <1>t, <1>d, <1>p, BudgetTypes
       DEF NativeBreaks, Ends, GoesOn, Goes, TypeOK, AskRecord, OgRecord
<1>2. AskTimed'
    BY <1>i, <1>t, <1>d, BudgetTypes
       DEF NativeBreaks, Ends, GoesOn, Goes, AskTimed, Asking, IsVideo, Deadline,
           AskRecord
<1>3. VideoTimed'
    BY <1>r, <1>o DEF NativeBreaks, Goes, VideoTimed, IsVideo
<1>4. WindowKept'
    BY <1>i, <1>t, <1>d
       DEF NativeBreaks, Ends, GoesOn, Goes, WindowKept, NativeKnown, IsVideo, Asking,
           OgRecord
<1>5. NativeKnown'
    BY <1>i, <1>t, <1>d
       DEF NativeBreaks, Ends, GoesOn, Goes, NativeKnown, NativeFailed, Asking, IsVideo,
           OgRecord
<1>6. NeverWorse'
    BY <1>i, <1>t, <1>d
       DEF NativeBreaks, Ends, GoesOn, Goes, NeverWorse, NativeKnown, NativeFailed,
           Asking, OgRecord
<1>7. UrlInTime'
    BY <1>i, <1>t, <1>d
       DEF NativeBreaks, Ends, GoesOn, Goes, UrlInTime, NativeKnown, AskTimed, Asking,
           Deadline, AskRecord
<1> QED BY <1>1, <1>2, <1>3, <1>4, <1>5, <1>6, <1>7 DEF ShimInv

LEMMA NativeTimesOutPreserves == ShimInv /\ NativeTimesOut => ShimInv'
<1> SUFFICES ASSUME ShimInv, NativeTimesOut PROVE ShimInv'
    OBVIOUS
<1>i. TypeOK /\ AskTimed /\ VideoTimed /\ WindowKept /\ NativeKnown
    BY DEF ShimInv
<1>t. elapsed \in Nat /\ pc \in Pcs /\ ask \in AskRecord /\ og \in OgRecord
      /\ hint \in [given : BOOLEAN, at : Nat]
      /\ kind \in {"none", "noUrl", "firstParty", "video"}
    BY <1>i DEF TypeOK
<1>d. elapsed' \in Nat /\ elapsed <= elapsed' /\ elapsed' = og.until
    BY <1>i, <1>t DEF NativeTimesOut, Goes, WindowKept, OgRecord
<1>p. pc' \in Pcs /\ printed' \in SUBSET {"url", "native"} /\ exit' \in {0, 1}
    BY <1>i, <1>t DEF TypeOK, Pcs, NativeTimesOut, Ends, GoesOn, Goes
<1>1. TypeOK'
    BY <1>i, <1>t, <1>d, <1>p, BudgetTypes
       DEF NativeTimesOut, Ends, GoesOn, Goes, TypeOK, AskRecord, OgRecord
<1>2. AskTimed'
    BY <1>i, <1>t, <1>d, BudgetTypes
       DEF NativeTimesOut, Ends, GoesOn, Goes, AskTimed, Asking, IsVideo, Deadline,
           AskRecord
<1>3. VideoTimed'
    BY <1>i, <1>t, <1>d, EndsLast, BudgetTypes
       DEF NativeTimesOut, Ends, GoesOn, Goes, VideoTimed, IsVideo, AskTimed, Asking,
           Deadline, WindowKept, NativeKnown, AskRecord, OgRecord
<1>4. WindowKept'
    BY <1>i, <1>t, <1>d
       DEF NativeTimesOut, Ends, GoesOn, Goes, WindowKept, NativeKnown, IsVideo, Asking,
           OgRecord
<1>5. NativeKnown'
    BY <1>i, <1>t, <1>d
       DEF NativeTimesOut, Ends, GoesOn, Goes, NativeKnown, NativeFailed, Asking,
           IsVideo, OgRecord
<1>6. NeverWorse'
    BY <1>i, <1>t, <1>d
       DEF NativeTimesOut, Ends, GoesOn, Goes, NeverWorse, NativeKnown, NativeFailed,
           Asking, OgRecord
<1>7. UrlInTime'
    BY <1>i, <1>t, <1>d
       DEF NativeTimesOut, Ends, GoesOn, Goes, UrlInTime, NativeKnown, AskTimed, Asking,
           Deadline, AskRecord
<1> QED BY <1>1, <1>2, <1>3, <1>4, <1>5, <1>6, <1>7 DEF ShimInv

LEMMA KillTreePreserves == ShimInv /\ KillTree => ShimInv'
<1> SUFFICES ASSUME ShimInv, KillTree PROVE ShimInv'
    OBVIOUS
<1>i. TypeOK /\ AskTimed /\ VideoTimed /\ WindowKept /\ NativeKnown
    BY DEF ShimInv
<1>t. elapsed \in Nat /\ pc \in Pcs /\ ask \in AskRecord /\ og \in OgRecord
      /\ hint \in [given : BOOLEAN, at : Nat]
      /\ kind \in {"none", "noUrl", "firstParty", "video"}
    BY <1>i DEF TypeOK
<1>d. elapsed' \in Nat /\ elapsed <= elapsed' /\ elapsed' <= elapsed + (KillTime)
    BY <1>t, TakesBounds, BudgetTypes DEF KillTree
<1>p. pc' \in Pcs /\ printed' \in SUBSET {"url", "native"} /\ exit' \in {0, 1}
    BY <1>i, <1>t DEF TypeOK, Pcs, KillTree, Ends, GoesOn, PassOn
<1>1. TypeOK'
    BY <1>i, <1>t, <1>d, <1>p, BudgetTypes
       DEF KillTree, Ends, GoesOn, PassOn, TypeOK, AskRecord, OgRecord
<1>2. AskTimed'
    BY <1>i, <1>t, <1>d, BudgetTypes
       DEF KillTree, Ends, GoesOn, PassOn, AskTimed, Asking, IsVideo, Deadline,
           AskRecord
<1>3. VideoTimed'
    BY <1>i, <1>t, <1>d, EndsLast, BudgetTypes
       DEF KillTree, Ends, GoesOn, PassOn, VideoTimed, IsVideo, AskTimed, Asking,
           Deadline, WindowKept, NativeKnown, AskRecord, OgRecord
<1>4. WindowKept'
    BY <1>i, <1>t, <1>d
       DEF KillTree, Ends, GoesOn, PassOn, WindowKept, NativeKnown, IsVideo, Asking,
           OgRecord
<1>5. NativeKnown'
    BY <1>i, <1>t, <1>d
       DEF KillTree, Ends, GoesOn, PassOn, NativeKnown, NativeFailed, Asking, IsVideo,
           OgRecord
<1>6. NeverWorse'
    BY <1>i, <1>t, <1>d
       DEF KillTree, Ends, GoesOn, PassOn, NeverWorse, NativeKnown, NativeFailed,
           Asking, OgRecord
<1>7. UrlInTime'
    BY <1>i, <1>t, <1>d
       DEF KillTree, Ends, GoesOn, PassOn, UrlInTime, NativeKnown, AskTimed, Asking,
           Deadline, AskRecord
<1> QED BY <1>1, <1>2, <1>3, <1>4, <1>5, <1>6, <1>7 DEF ShimInv

LEMMA OutputClosesPreserves == ShimInv /\ OutputCloses => ShimInv'
<1> SUFFICES ASSUME ShimInv, OutputCloses PROVE ShimInv'
    OBVIOUS
<1>i. TypeOK /\ AskTimed /\ VideoTimed /\ WindowKept /\ NativeKnown
    BY DEF ShimInv
<1>t. elapsed \in Nat /\ pc \in Pcs /\ ask \in AskRecord /\ og \in OgRecord
      /\ hint \in [given : BOOLEAN, at : Nat]
      /\ kind \in {"none", "noUrl", "firstParty", "video"}
    BY <1>i DEF TypeOK
<1>d. elapsed' \in Nat /\ elapsed <= elapsed' /\ elapsed' <= elapsed + (DrainTime)
    BY <1>t, TakesBounds, BudgetTypes DEF OutputCloses
<1>p. pc' \in Pcs /\ printed' \in SUBSET {"url", "native"} /\ exit' \in {0, 1}
    BY <1>i, <1>t DEF TypeOK, Pcs, OutputCloses, Ends, GoesOn
<1>1. TypeOK'
    BY <1>i, <1>t, <1>d, <1>p, BudgetTypes
       DEF OutputCloses, Ends, GoesOn, TypeOK, AskRecord, OgRecord
<1>2. AskTimed'
    BY <1>i, <1>t, <1>d, BudgetTypes
       DEF OutputCloses, Ends, GoesOn, AskTimed, Asking, IsVideo, Deadline, AskRecord
<1>3. VideoTimed'
    BY <1>i, <1>t, <1>d, EndsLast, BudgetTypes
       DEF OutputCloses, Ends, GoesOn, VideoTimed, IsVideo, AskTimed, Asking, Deadline,
           WindowKept, NativeKnown, AskRecord, OgRecord
<1>4. WindowKept'
    BY <1>i, <1>t, <1>d
       DEF OutputCloses, Ends, GoesOn, WindowKept, NativeKnown, IsVideo, Asking,
           OgRecord
<1>5. NativeKnown'
    BY <1>i, <1>t, <1>d
       DEF OutputCloses, Ends, GoesOn, NativeKnown, NativeFailed, Asking, IsVideo,
           OgRecord
<1>6. NeverWorse'
    BY <1>i, <1>t, <1>d
       DEF OutputCloses, Ends, GoesOn, NeverWorse, NativeKnown, NativeFailed, Asking,
           OgRecord
<1>7. UrlInTime'
    BY <1>i, <1>t, <1>d
       DEF OutputCloses, Ends, GoesOn, UrlInTime, NativeKnown, AskTimed, Asking,
           Deadline, AskRecord
<1> QED BY <1>1, <1>2, <1>3, <1>4, <1>5, <1>6, <1>7 DEF ShimInv

LEMMA OutputBreaksPreserves == ShimInv /\ OutputBreaks => ShimInv'
<1> SUFFICES ASSUME ShimInv, OutputBreaks PROVE ShimInv'
    OBVIOUS
<1>i. TypeOK /\ AskTimed /\ VideoTimed /\ WindowKept /\ NativeKnown
    BY DEF ShimInv
<1>t. elapsed \in Nat /\ pc \in Pcs /\ ask \in AskRecord /\ og \in OgRecord
      /\ hint \in [given : BOOLEAN, at : Nat]
      /\ kind \in {"none", "noUrl", "firstParty", "video"}
    BY <1>i DEF TypeOK
<1>d. elapsed' \in Nat /\ elapsed <= elapsed' /\ elapsed' <= elapsed + (DrainTime)
    BY <1>t, TakesBounds, BudgetTypes DEF OutputBreaks
<1>p. pc' \in Pcs /\ printed' \in SUBSET {"url", "native"} /\ exit' \in {0, 1}
    BY <1>i, <1>t DEF TypeOK, Pcs, OutputBreaks, Ends, GoesOn
<1>1. TypeOK'
    BY <1>i, <1>t, <1>d, <1>p, BudgetTypes
       DEF OutputBreaks, Ends, GoesOn, TypeOK, AskRecord, OgRecord
<1>2. AskTimed'
    BY <1>i, <1>t, <1>d, BudgetTypes
       DEF OutputBreaks, Ends, GoesOn, AskTimed, Asking, IsVideo, Deadline, AskRecord
<1>3. VideoTimed'
    BY <1>i, <1>t, <1>d, EndsLast, BudgetTypes
       DEF OutputBreaks, Ends, GoesOn, VideoTimed, IsVideo, AskTimed, Asking, Deadline,
           WindowKept, NativeKnown, AskRecord, OgRecord
<1>4. WindowKept'
    BY <1>i, <1>t, <1>d
       DEF OutputBreaks, Ends, GoesOn, WindowKept, NativeKnown, IsVideo, Asking,
           OgRecord
<1>5. NativeKnown'
    BY <1>i, <1>t, <1>d
       DEF OutputBreaks, Ends, GoesOn, NativeKnown, NativeFailed, Asking, IsVideo,
           OgRecord
<1>6. NeverWorse'
    BY <1>i, <1>t, <1>d
       DEF OutputBreaks, Ends, GoesOn, NeverWorse, NativeKnown, NativeFailed, Asking,
           OgRecord
<1>7. UrlInTime'
    BY <1>i, <1>t, <1>d
       DEF OutputBreaks, Ends, GoesOn, UrlInTime, NativeKnown, AskTimed, Asking,
           Deadline, AskRecord
<1> QED BY <1>1, <1>2, <1>3, <1>4, <1>5, <1>6, <1>7 DEF ShimInv

LEMMA OutputHeldPreserves == ShimInv /\ OutputHeld => ShimInv'
<1> SUFFICES ASSUME ShimInv, OutputHeld PROVE ShimInv'
    OBVIOUS
<1>i. TypeOK /\ AskTimed /\ VideoTimed /\ WindowKept /\ NativeKnown
    BY DEF ShimInv
<1>t. elapsed \in Nat /\ pc \in Pcs /\ ask \in AskRecord /\ og \in OgRecord
      /\ hint \in [given : BOOLEAN, at : Nat]
      /\ kind \in {"none", "noUrl", "firstParty", "video"}
    BY <1>i DEF TypeOK
<1>d. elapsed' = elapsed + DrainTime /\ elapsed' \in Nat
    BY <1>t, BudgetTypes DEF OutputHeld
<1>p. pc' \in Pcs /\ printed' \in SUBSET {"url", "native"} /\ exit' \in {0, 1}
    BY <1>i, <1>t DEF TypeOK, Pcs, OutputHeld, Ends, GoesOn
<1>1. TypeOK'
    BY <1>i, <1>t, <1>d, <1>p, BudgetTypes
       DEF OutputHeld, Ends, GoesOn, TypeOK, AskRecord, OgRecord
<1>2. AskTimed'
    BY <1>i, <1>t, <1>d, BudgetTypes
       DEF OutputHeld, Ends, GoesOn, AskTimed, Asking, IsVideo, Deadline, AskRecord
<1>3. VideoTimed'
    BY <1>i, <1>t, <1>d, EndsLast, BudgetTypes
       DEF OutputHeld, Ends, GoesOn, VideoTimed, IsVideo, AskTimed, Asking, Deadline,
           WindowKept, NativeKnown, AskRecord, OgRecord
<1>4. WindowKept'
    BY <1>i, <1>t, <1>d
       DEF OutputHeld, Ends, GoesOn, WindowKept, NativeKnown, IsVideo, Asking, OgRecord
<1>5. NativeKnown'
    BY <1>i, <1>t, <1>d
       DEF OutputHeld, Ends, GoesOn, NativeKnown, NativeFailed, Asking, IsVideo,
           OgRecord
<1>6. NeverWorse'
    BY <1>i, <1>t, <1>d
       DEF OutputHeld, Ends, GoesOn, NeverWorse, NativeKnown, NativeFailed, Asking,
           OgRecord
<1>7. UrlInTime'
    BY <1>i, <1>t, <1>d
       DEF OutputHeld, Ends, GoesOn, UrlInTime, NativeKnown, AskTimed, Asking, Deadline,
           AskRecord
<1> QED BY <1>1, <1>2, <1>3, <1>4, <1>5, <1>6, <1>7 DEF ShimInv

LEMMA NotifyOgFailedPreserves == ShimInv /\ NotifyOgFailed => ShimInv'
<1> SUFFICES ASSUME ShimInv, NotifyOgFailed PROVE ShimInv'
    OBVIOUS
<1>i. TypeOK /\ AskTimed /\ VideoTimed /\ WindowKept /\ NativeKnown
    BY DEF ShimInv
<1>t. elapsed \in Nat /\ pc \in Pcs /\ ask \in AskRecord /\ og \in OgRecord
      /\ hint \in [given : BOOLEAN, at : Nat]
      /\ kind \in {"none", "noUrl", "firstParty", "video"}
    BY <1>i DEF TypeOK
<1>d. elapsed' \in Nat /\ elapsed <= elapsed' /\ elapsed' <= elapsed + (NotifyTimeout)
    BY <1>t, TakesBounds, BudgetTypes DEF NotifyOgFailed, SendNotify
<1>p. pc' \in Pcs /\ printed' \in SUBSET {"url", "native"} /\ exit' \in {0, 1}
    BY <1>i, <1>t DEF TypeOK, Pcs, NotifyOgFailed, Ends, GoesOn, Goes
<1>1. TypeOK'
    BY <1>i, <1>t, <1>d, <1>p, BudgetTypes
       DEF NotifyOgFailed, Ends, GoesOn, Goes, TypeOK, AskRecord, OgRecord
<1>2. AskTimed'
    BY <1>i, <1>t, <1>d, BudgetTypes
       DEF NotifyOgFailed, Ends, GoesOn, Goes, AskTimed, Asking, IsVideo, Deadline,
           AskRecord
<1>3. VideoTimed'
    BY <1>i, <1>t, <1>d, EndsLast, BudgetTypes
       DEF NotifyOgFailed, Ends, GoesOn, Goes, VideoTimed, IsVideo, AskTimed, Asking,
           Deadline, WindowKept, NativeKnown, AskRecord, OgRecord
<1>4. WindowKept'
    BY <1>i, <1>t, <1>d
       DEF NotifyOgFailed, Ends, GoesOn, Goes, WindowKept, NativeKnown, IsVideo, Asking,
           OgRecord
<1>5. NativeKnown'
    BY <1>i, <1>t, <1>d
       DEF NotifyOgFailed, Ends, GoesOn, Goes, NativeKnown, NativeFailed, Asking,
           IsVideo, OgRecord
<1>6. NeverWorse'
    BY <1>i, <1>t, <1>d
       DEF NotifyOgFailed, Ends, GoesOn, Goes, NeverWorse, NativeKnown, NativeFailed,
           Asking, OgRecord
<1>7. UrlInTime'
    BY <1>i, <1>t, <1>d
       DEF NotifyOgFailed, Ends, GoesOn, Goes, UrlInTime, NativeKnown, AskTimed, Asking,
           Deadline, AskRecord
<1> QED BY <1>1, <1>2, <1>3, <1>4, <1>5, <1>6, <1>7 DEF ShimInv

LEMMA StartReAskPreserves == ShimInv /\ StartReAsk => ShimInv'
<1> SUFFICES ASSUME ShimInv, StartReAsk PROVE ShimInv'
    OBVIOUS
<1>i. TypeOK /\ AskTimed /\ VideoTimed /\ WindowKept /\ NativeKnown
    BY DEF ShimInv
<1>t. elapsed \in Nat /\ pc \in Pcs /\ ask \in AskRecord /\ og \in OgRecord
      /\ hint \in [given : BOOLEAN, at : Nat]
      /\ kind \in {"none", "noUrl", "firstParty", "video"}
    BY <1>i DEF TypeOK
<1>d. /\ elapsed' \in Nat /\ elapsed <= elapsed'
      /\ ask'.from = elapsed' /\ ask'.window \in Nat /\ ReAskMinAsk <= ask'.window
      /\ ask'.from + ask'.window <= Total /\ ~ask'.retried /\ ask'.again
    BY <1>t, ReAskBounds DEF StartReAsk, WorthReAsking, Goes
<1>c. pc' = "connect" /\ IsVideo' /\ pc = "consider"
    BY <1>i DEF StartReAsk, Goes, NativeKnown, IsVideo
<1>e. /\ Deadline' <= Total /\ elapsed' <= Deadline' /\ elapsed' + ConnectTimeout <= Deadline'
      /\ elapsed' <= ask'.from + ConnectTimeout /\ elapsed' = ask'.from /\ ask'.from <= elapsed'
      /\ ReAskMinAsk <= ask'.window
    <2>1. Deadline' = elapsed' + ask'.window
        BY <1>d DEF Deadline
    <2> QED BY <1>d, <2>1, AskTyped
<1>p. pc' \in Pcs /\ printed' \in SUBSET {"url", "native"} /\ exit' \in {0, 1}
    BY <1>i, <1>t DEF TypeOK, Pcs, StartReAsk, Ends, GoesOn, Goes
<1>1. TypeOK'
    BY <1>i, <1>t, <1>d, <1>p, BudgetTypes
       DEF StartReAsk, Ends, GoesOn, Goes, TypeOK, AskRecord, OgRecord
<1>2. AskTimed'
    BY <1>c, <1>e DEF AskTimed, Asking, Deadline
<1>3. VideoTimed'
    BY <1>i, <1>t, <1>d, EndsLast, BudgetTypes
       DEF StartReAsk, Ends, GoesOn, Goes, VideoTimed, IsVideo, AskTimed, Asking,
           Deadline, WindowKept, NativeKnown, AskRecord, OgRecord
<1>4. WindowKept'
    BY <1>i, <1>t, <1>d
       DEF StartReAsk, Ends, GoesOn, Goes, WindowKept, NativeKnown, IsVideo, Asking,
           OgRecord
<1>5. NativeKnown'
    BY <1>i, <1>t, <1>d
       DEF StartReAsk, Ends, GoesOn, Goes, NativeKnown, NativeFailed, Asking, IsVideo,
           OgRecord
<1>6. NeverWorse'
    BY <1>i, <1>t, <1>d
       DEF StartReAsk, Ends, GoesOn, Goes, NeverWorse, NativeKnown, NativeFailed,
           Asking, OgRecord
<1>7. UrlInTime'
    BY <1>i, <1>t, <1>d
       DEF StartReAsk, Ends, GoesOn, Goes, UrlInTime, NativeKnown, AskTimed, Asking,
           Deadline, AskRecord
<1> QED BY <1>1, <1>2, <1>3, <1>4, <1>5, <1>6, <1>7 DEF ShimInv

LEMMA GivesUpPreserves == ShimInv /\ GivesUp => ShimInv'
<1> SUFFICES ASSUME ShimInv, GivesUp PROVE ShimInv'
    OBVIOUS
<1>i. TypeOK /\ AskTimed /\ VideoTimed /\ WindowKept /\ NativeKnown
    BY DEF ShimInv
<1>t. elapsed \in Nat /\ pc \in Pcs /\ ask \in AskRecord /\ og \in OgRecord
      /\ hint \in [given : BOOLEAN, at : Nat]
      /\ kind \in {"none", "noUrl", "firstParty", "video"}
    BY <1>i DEF TypeOK
<1>p. pc' \in Pcs /\ printed' \in SUBSET {"url", "native"} /\ exit' \in {0, 1}
    BY <1>i, <1>t DEF TypeOK, Pcs, GivesUp, Ends, GoesOn, PassOn
<1>1. TypeOK'
    BY <1>i, <1>t, <1>p, BudgetTypes
       DEF GivesUp, Ends, GoesOn, PassOn, TypeOK, AskRecord, OgRecord
<1>2. AskTimed'
    BY <1>i, <1>t, BudgetTypes
       DEF GivesUp, Ends, GoesOn, PassOn, AskTimed, Asking, IsVideo, Deadline, AskRecord
<1>3. VideoTimed'
    BY <1>i, <1>t, EndsLast, BudgetTypes
       DEF GivesUp, Ends, GoesOn, PassOn, VideoTimed, IsVideo, AskTimed, Asking,
           Deadline, WindowKept, NativeKnown, AskRecord, OgRecord
<1>4. WindowKept'
    BY <1>i, <1>t
       DEF GivesUp, Ends, GoesOn, PassOn, WindowKept, NativeKnown, IsVideo, Asking,
           OgRecord
<1>5. NativeKnown'
    BY <1>i, <1>t
       DEF GivesUp, Ends, GoesOn, PassOn, NativeKnown, NativeFailed, Asking, IsVideo,
           OgRecord
<1>6. NeverWorse'
    BY <1>i, <1>t
       DEF GivesUp, Ends, GoesOn, PassOn, NeverWorse, NativeKnown, NativeFailed, Asking,
           OgRecord
<1>7. UrlInTime'
    BY <1>i, <1>t
       DEF GivesUp, Ends, GoesOn, PassOn, UrlInTime, NativeKnown, AskTimed, Asking,
           Deadline, AskRecord
<1> QED BY <1>1, <1>2, <1>3, <1>4, <1>5, <1>6, <1>7 DEF ShimInv

LEMMA ConnectFailsPreserves == ShimInv /\ ConnectFails => ShimInv'
<1> SUFFICES ASSUME ShimInv, ConnectFails PROVE ShimInv'
    OBVIOUS
<1>i. TypeOK /\ AskTimed /\ VideoTimed /\ WindowKept /\ NativeKnown
    BY DEF ShimInv
<1>t. elapsed \in Nat /\ pc \in Pcs /\ ask \in AskRecord /\ og \in OgRecord
      /\ hint \in [given : BOOLEAN, at : Nat]
      /\ kind \in {"none", "noUrl", "firstParty", "video"}
    BY <1>i DEF TypeOK
<1>u. pc = "connect" /\ UNCHANGED <<kind, hint, og>>
    BY DEF ConnectFails
<1>d. PICK d \in Durations(ConnectTimeout) :
          \/ /\ Retries(elapsed + d)
             /\ elapsed' = elapsed + d + RetryPause
             /\ ask' = [ask EXCEPT !.retried = TRUE]
             /\ UNCHANGED <<pc, pipeUp, reason, printed, exit>>
          \/ /\ elapsed' = elapsed + d
             /\ pipeUp' = FALSE
             /\ AskFailed
             /\ UNCHANGED ask
    BY DEF ConnectFails
<1>b. /\ d \in Nat /\ d <= ConnectTimeout
      /\ Deadline \in Nat /\ Deadline <= Total /\ elapsed + d <= Deadline
    BY <1>i, <1>t, <1>u, ShimAssumption, BudgetTypes
       DEF Durations, AskTimed, Asking, Deadline, AskRecord
<1>1. CASE /\ Retries(elapsed + d)
           /\ elapsed' = elapsed + d + RetryPause
           /\ ask' = [ask EXCEPT !.retried = TRUE]
           /\ UNCHANGED <<pc, pipeUp, reason, printed, exit>>
    <2>1. elapsed' \in Nat /\ elapsed <= elapsed' /\ elapsed' + ConnectTimeout <= Deadline
        BY <1>1, <1>b, <1>t, BudgetTypes, BudgetFits DEF Retries
    <2>2. /\ ask' \in AskRecord /\ ask'.retried /\ Deadline' = Deadline
          /\ ask'.from = ask.from /\ ask'.window = ask.window /\ ask'.again = ask.again
        BY <1>1, <1>t DEF AskRecord, Deadline
    <2>3. elapsed' <= Deadline /\ elapsed' <= Total /\ elapsed' <= LastEnd
        BY <2>1, <1>b, WithinAsk
    <2>4. TypeOK'
        BY <1>1, <1>i, <1>u, <2>1, <2>2 DEF TypeOK
    <2>5. AskTimed'
        <3>1. IsVideo /\ ask.from <= elapsed /\ ReAskMinAsk <= ask.window
            BY <1>i, <1>u DEF AskTimed, Asking
        <3>2. ask.from \in Nat /\ ask.from <= elapsed'
            BY <3>1, <2>1, <1>t DEF AskRecord
        <3>3. IsVideo' /\ pc' = "connect"
            BY <3>1, <1>1, <1>u DEF IsVideo
        <3> QED BY <3>1, <3>2, <3>3, <2>1, <2>2, <2>3, <1>b DEF AskTimed
    <2>6. VideoTimed'
        BY <1>1, <1>u, <2>3 DEF VideoTimed
    <2>7. WindowKept' /\ NativeKnown' /\ NeverWorse' /\ UrlInTime'
        BY <1>1, <1>i, <1>u, <2>2
           DEF WindowKept, NativeKnown, NeverWorse, UrlInTime, Asking, IsVideo, NativeFailed
    <2> QED BY <2>4, <2>5, <2>6, <2>7 DEF ShimInv
<1>2. CASE /\ elapsed' = elapsed + d
           /\ pipeUp' = FALSE
           /\ AskFailed
           /\ UNCHANGED ask
    <2>1. elapsed' \in Nat /\ elapsed' <= Total /\ elapsed' <= LastEnd
        BY <1>2, <1>b, <1>t, EndsLast, BudgetTypes DEF NativeEnd
    <2>2. TypeOK'
        BY <1>2, <1>i, <1>u, <2>1 DEF TypeOK, AskFailed, PassOn, GoesOn, Ends, Pcs
    <2>3. pc' \in {"notify", "done"}
        BY <1>2 DEF AskFailed, PassOn, GoesOn, Ends
    <2>4. AskTimed' /\ WindowKept'
        BY <2>3 DEF AskTimed, WindowKept, Asking
    <2>5. VideoTimed'
        BY <2>1, <2>3 DEF VideoTimed
    <2>6. NativeKnown' /\ NeverWorse' /\ UrlInTime'
        BY <1>2, <1>i, <1>t, <1>u DEF NativeKnown, NeverWorse, UrlInTime, Asking, IsVideo,
           NativeFailed, AskFailed, PassOn, GoesOn, Ends, OgRecord
    <2> QED BY <2>2, <2>4, <2>5, <2>6 DEF ShimInv
<1> QED BY <1>d, <1>1, <1>2

-----------------------------------------------------------------------------
LEMMA NextPreserves == ShimInv /\ [Next]_vars => ShimInv'
<1> SUFFICES ASSUME ShimInv, [Next]_vars PROVE ShimInv'
    OBVIOUS
<1>1. CASE Begin
    BY <1>1, BeginPreserves
<1>2. CASE AskStep
    BY <1>2, ConnectsPreserves, ConnectFailsPreserves, ResolvedPreserves, DeclinedPreserves,
       ExchangeFailsPreserves, AskTimesOutPreserves DEF AskStep
<1>3. CASE NotifyOgFallback
    BY <1>3, NotifyOgFallbackPreserves
<1>4. CASE NativeStep
    BY <1>4, NoNativePreserves, StartNativePreserves, NativeExitsPreserves,
       NativeBreaksPreserves, NativeTimesOutPreserves, KillTreePreserves,
       OutputClosesPreserves, OutputBreaksPreserves, OutputHeldPreserves DEF NativeStep
<1>5. CASE NotifyOgFailed
    BY <1>5, NotifyOgFailedPreserves
<1>6. CASE StartReAsk
    BY <1>6, StartReAskPreserves
<1>7. CASE GivesUp
    BY <1>7, GivesUpPreserves
<1>8. CASE UNCHANGED vars
    BY <1>8 DEF vars, ShimInv, TypeOK, AskTimed, VideoTimed, WindowKept, NativeKnown,
       NeverWorse, UrlInTime, Asking, IsVideo, Deadline, NativeFailed
<1> QED BY <1>1, <1>2, <1>3, <1>4, <1>5, <1>6, <1>7, <1>8 DEF Next

LEMMA AlwaysShimInv == Spec => []ShimInv
BY InitShimInv, NextPreserves, PTL DEF Spec

-----------------------------------------------------------------------------
(* Every step keeps the state well typed: the deadline of an ask included,  *)
(* no time the wrapper computes is negative or beyond the budget.           *)
THEOREM ShimTypeCorrect == Spec => []TypeOK
<1>1. ShimInv => TypeOK
    BY DEF ShimInv
<1> QED BY <1>1, AlwaysShimInv, PTL

(* VRChat gets a URL within the budget or not at all, and its process back  *)
(* at the latest when the budget, the native resolver's reserve, two        *)
(* reports and the end of that resolver are over: shim::run, exec_fallback  *)
(* and og::run with any delay at any await.                                 *)
THEOREM AlwaysInTime == Spec => []InTime
<1>1. ShimInv => InTime
    BY DEF ShimInv, InTime, UrlInTime, VideoTimed
<1> QED BY <1>1, AlwaysShimInv, PTL

(* Whatever fails and in whatever order, VRChat gets one URL, or what its   *)
(* own resolver says, or an error: never a mixture, nor an empty success of *)
(* a resolver that is missing, broken or killed.                            *)
THEOREM NeverWorseEver == Spec => []NeverWorse
<1>1. ShimInv => NeverWorse
    BY DEF ShimInv
<1> QED BY <1>1, AlwaysShimInv, PTL

(* The least time the watchdog allows itself (effective_budget_ms) is never *)
(* more than the wrapper waits for it, the shortest re-ask included.        *)
THEOREM AnswerAlwaysHeard == Spec => []AnswerIsHeard
<1>1. ASSUME ShimInv PROVE AnswerIsHeard
    <2> SUFFICES ASSUME pc = "exchange", ~ask.retried
                 PROVE  WatchdogBudget(Deadline - elapsed) <= Deadline - elapsed
        BY DEF AnswerIsHeard
    <2>1. /\ elapsed \in Nat /\ ask.from \in Nat /\ ask.window \in Nat
          /\ ReAskMinAsk <= ask.window /\ elapsed <= ask.from + ConnectTimeout
        BY <1>1, BudgetTypes DEF ShimInv, TypeOK, AskRecord, AskTimed, Asking
    <2> DEFINE left == Deadline - elapsed
    <2>2. left \in Int /\ WatchdogMin <= left
        BY <2>1, BudgetTypes, BudgetFits DEF Deadline
    <2> HIDE DEF left
    <2>3. WatchdogBudget(left) <= left
        BY <2>2, BudgetTypes DEF WatchdogBudget, Larger
    <2> QED BY <2>3 DEF left
<1> QED BY <1>1, AlwaysShimInv, PTL

(* Cutting the native resolver short for a re-ask is never for nothing: if  *)
(* killing and reporting it is quick enough, the re-ask is made.            *)
THEOREM ReAskAlwaysKept == Spec => ReAskKept
<1>1. ASSUME ShimInv, Next,
             pc = "consider", og.state = "timedOut",
             og.from + OgReserve + ReAskReserve <= Total,
             elapsed - og.until <= ReAskReserve - NoHintMin,
             ReAskFits(hint), ~Redundant, pc' # pc
      PROVE  ask'.again
    <2>1. /\ elapsed \in Nat /\ og.from \in Nat /\ og.until \in Nat /\ ~og.gone /\ IsVideo
          /\ hint \in [given : BOOLEAN, at : Nat]
          /\ og.until = og.from + OgWindow(og.from, TRUE, hint)
        BY <1>1 DEF ShimInv, TypeOK, OgRecord, NativeKnown, WindowKept
    <2>2. OgWindow(og.from, TRUE, hint) = Total - og.from - ReAskReserve
        BY <1>1, <2>1, BudgetTypes DEF OgWindow, Larger
    <2>3. elapsed <= Total - NoHintMin
        BY <1>1, <2>1, <2>2, ReserveIsLeft
    <2>4. ReAskInTime(elapsed, hint)
        BY <1>1, <2>1, <2>3, BudgetTypes, BudgetFits
           DEF ReAskInTime, ReAskStart, ReAskFits, Larger
    <2>5. WorthReAsking
        BY <1>1, <2>1, <2>4 DEF WorthReAsking
    <2>6. StartReAsk
        BY <1>1, <2>5 DEF Next, Begin, AskStep, Connects, ConnectFails, Resolved, Declined,
           ExchangeFails, AskTimesOut, NotifyOgFallback, NativeStep, NoNative, StartNative,
           NativeExits, NativeBreaks, NativeTimesOut, KillTree, OutputCloses, OutputBreaks,
           OutputHeld, NotifyOgFailed, GivesUp, Goes
    <2> QED BY <2>6 DEF StartReAsk
<1>2. ShimInv /\ [Next]_vars =>
        [/\ pc = "consider" /\ og.state = "timedOut"
         /\ og.from + OgReserve + ReAskReserve <= Total
         /\ elapsed - og.until <= ReAskReserve - NoHintMin
         /\ ReAskFits(hint) /\ ~Redundant
         /\ pc' # pc
         => ask'.again]_vars
    BY <1>1
<1> QED BY <1>2, AlwaysShimInv, PTL DEF Spec, ReAskKept
=============================================================================
