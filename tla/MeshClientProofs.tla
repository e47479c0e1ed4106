-------------------------- MODULE MeshClientProofs --------------------------
(***************************************************************************)
(* What holds of MeshClient for every set of requests and every number of  *)
(* links: its type invariant; that a resolve is resent at most once, and   *)
(* no link gets the same request twice; that the version a request is      *)
(* stamped with is one its link negotiated; that no resolve that is over   *)
(* leaves an entry behind; what a resolve returns, up to the promise of    *)
(* Mesh::resolve, which each step of the client keeps; and that nobody who *)
(* waits for a link misses the notification of one.                        *)
(***************************************************************************)
EXTENDS MeshClient, TLAPS

(* Between sends, every counted send has been followed by a counted drop. *)
SendsCounted ==
    \A r \in Requests :
        req[r].sends <= req[r].drops + (IF req[r].pc = "await" THEN 1 ELSE 0)

(* Whoever sends or waits for an answer holds a link. *)
LinkHeld ==
    \A r \in Requests :
        req[r].pc \in SendPcs \cup {"unsent", "await"} => req[r].link \in Links

(* A link that had the request is the one it waits on, or it is down. *)
SentLinksAreDown ==
    \A r \in Requests, l \in Links :
        r \in sentOn[l] =>
            \/ req[r].pc = "done"
            \/ link[l].down
            \/ req[r].pc \in {"unsent", "await"} /\ req[r].link = l

MeshInv == TypeOK /\ SendsCounted /\ LinkHeld /\ SentLinksAreDown /\ NeverTwiceOnALink

(* The invariants of run mesh_faults follow at once. *)
LEMMA MeshInvImplies == MeshInv => TypeOK /\ ResentOnce /\ NeverTwiceOnALink
<1> SUFFICES ASSUME MeshInv, NEW r \in Requests, ~At(r, "await")
             PROVE  req[r].sends <= 1
    BY DEF MeshInv, ResentOnce
<1>1. req[r].drops \in 0 .. 1 /\ req[r].sends \in 0 .. 2
    BY DEF MeshInv, TypeOK, ReqRecord
<1>2. req[r].sends <= req[r].drops
    BY <1>1 DEF MeshInv, SendsCounted, At
<1> QED BY <1>1, <1>2

LEMMA InitMeshInv == Init => MeshInv
<1> SUFFICES ASSUME Init PROVE MeshInv
    OBVIOUS
<1> USE DEF Init
<1>1. TypeOK
    <2>1. Fresh \in ReqRecord
        BY DEF Fresh, ReqRecord, ReqPcs, NoLink
    <2>2. req \in [Requests -> ReqRecord]
        BY <2>1
    <2>3. link \in [Links -> LinkRecord]
        BY DEF LinkRecord, ArmPcs
    <2>4. inner \in InnerRecord
        BY DEF InnerRecord, NoLink
    <2>5. opened \in 0 .. MaxLinks
        BY MeshAssumption
    <2> HIDE DEF Init
    <2>6. /\ runner \in RunnerPcs
          /\ mute \in BOOLEAN
          /\ stopper \in {"running", "failing", "joining", "returned"}
          /\ sentOn \in [Links -> SUBSET Requests]
          /\ result \in [Requests -> Answers \cup {"none"}]
        BY DEF Init, RunnerPcs
    <2> QED BY <2>2, <2>3, <2>4, <2>5, <2>6 DEF TypeOK
<1>2. SendsCounted /\ LinkHeld /\ SentLinksAreDown /\ NeverTwiceOnALink
    BY DEF Fresh, SendsCounted, LinkHeld, SentLinksAreDown, NeverTwiceOnALink, SendPcs
<1> QED BY <1>1, <1>2 DEF MeshInv

-----------------------------------------------------------------------------
(* Steps that leave where the requests are and what was sent alone.  They   *)
(* only ring bells, fill a reply channel, or take links down.               *)

(* The part of Quiet that is about the requests. *)
SameRequests ==
    /\ req' \in [Requests -> ReqRecord]
    /\ \A r \in Requests :
          /\ req'[r].pc = req[r].pc
          /\ req'[r].link = req[r].link
          /\ req'[r].sends = req[r].sends
          /\ req'[r].drops = req[r].drops

Quiet ==
    /\ sentOn' = sentOn
    /\ SameRequests
    /\ \A l \in Links : link[l].down => link'[l].down

LEMMA QuietPreserves ==
    ASSUME MeshInv, Quiet, TypeOK'
    PROVE  MeshInv'
<1>1. SendsCounted'
    BY DEF MeshInv, SendsCounted, Quiet, SameRequests
<1>2. LinkHeld'
    BY DEF MeshInv, LinkHeld, Quiet, SameRequests
<1>3. SentLinksAreDown'
    BY DEF MeshInv, SentLinksAreDown, Quiet, SameRequests
<1>4. NeverTwiceOnALink'
    BY DEF MeshInv, NeverTwiceOnALink, Quiet, SameRequests
<1> QED BY <1>1, <1>2, <1>3, <1>4 DEF MeshInv

LEMMA BellsAreQuiet ==
    ASSUME req \in [Requests -> ReqRecord], RingReady \/ RingSettled
    PROVE  SameRequests
<1>1. \A r \in Requests : req[r] \in ReqRecord
    OBVIOUS
<1>2. CASE RingReady
    <2>1. ASSUME NEW x \in ReqRecord
          PROVE  /\ [x EXCEPT !.readyBell = TRUE] \in ReqRecord
                 /\ [x EXCEPT !.readyBell = TRUE].pc = x.pc
                 /\ [x EXCEPT !.readyBell = TRUE].link = x.link
                 /\ [x EXCEPT !.readyBell = TRUE].sends = x.sends
                 /\ [x EXCEPT !.readyBell = TRUE].drops = x.drops
        BY DEF ReqRecord
    <2> QED BY <1>1, <1>2, <2>1 DEF RingReady, SameRequests
<1>3. CASE RingSettled
    <2>1. ASSUME NEW x \in ReqRecord
          PROVE  /\ [x EXCEPT !.settledBell = TRUE] \in ReqRecord
                 /\ [x EXCEPT !.settledBell = TRUE].pc = x.pc
                 /\ [x EXCEPT !.settledBell = TRUE].link = x.link
                 /\ [x EXCEPT !.settledBell = TRUE].sends = x.sends
                 /\ [x EXCEPT !.settledBell = TRUE].drops = x.drops
        BY DEF ReqRecord
    <2> QED BY <1>1, <1>3, <2>1 DEF RingSettled, SameRequests
<1> QED BY <1>2, <1>3

LEMMA AnswerAllIsQuiet ==
    ASSUME req \in [Requests -> ReqRecord],
           NEW answer \in ClientAnswers, AnswerAll(answer)
    PROVE  SameRequests
<1>1. ASSUME NEW x \in ReqRecord
      PROVE  /\ [x EXCEPT !.reply = answer] \in ReqRecord
             /\ [x EXCEPT !.reply = answer].pc = x.pc
             /\ [x EXCEPT !.reply = answer].link = x.link
             /\ [x EXCEPT !.reply = answer].sends = x.sends
             /\ [x EXCEPT !.reply = answer].drops = x.drops
    BY DEF ReqRecord, Answers
<1> QED BY <1>1 DEF AnswerAll, SameRequests

-----------------------------------------------------------------------------
(* A step of the runner, a link or a timer is quiet. *)

LEMMA RunnerPreserves == MeshInv /\ RunnerStep => MeshInv'
<1> SUFFICES ASSUME MeshInv, RunnerStep PROVE MeshInv'
    OBVIOUS
<1> USE MeshAssumption
<1>t. /\ runner \in RunnerPcs /\ opened \in 0 .. MaxLinks /\ mute \in BOOLEAN
      /\ link \in [Links -> LinkRecord] /\ inner \in InnerRecord
      /\ stopper \in {"running", "failing", "joining", "returned"}
      /\ req \in [Requests -> ReqRecord] /\ sentOn \in [Links -> SUBSET Requests]
      /\ result \in [Requests -> Answers \cup {"none"}]
    BY DEF MeshInv, TypeOK
<1>1. /\ runner' \in RunnerPcs /\ opened' \in 0 .. MaxLinks /\ mute' \in BOOLEAN
      /\ stopper' = stopper /\ sentOn' = sentOn /\ result' = result
    <2>1. runner' \in RunnerPcs
        BY DEF RunnerStep, RunnerGoes, StartAttempt, RunnerStops, ConnectSucceeds,
            ConnectFails, PeerCloses, PumpStops, ClearReady, StampDown, MarkDown, EndAttempt,
            BackOff, Woken, WaitElapses, RunnerPcs
    <2>2. opened' \in 0 .. MaxLinks
        <3>1. CASE ConnectSucceeds
            BY <1>t, <3>1 DEF ConnectSucceeds
        <3> QED BY <1>t, <3>1
            DEF RunnerStep, StartAttempt, RunnerStops, ConnectFails, PeerCloses, PumpStops,
                ClearReady, StampDown, MarkDown, EndAttempt, BackOff, Woken, WaitElapses
    <2>3. /\ mute' \in BOOLEAN
          /\ stopper' = stopper /\ sentOn' = sentOn /\ result' = result
        BY <1>t DEF RunnerStep, StartAttempt, RunnerStops, ConnectSucceeds,
            ConnectFails, PeerCloses, PumpStops, ClearReady, StampDown, MarkDown, EndAttempt,
            BackOff, Woken, WaitElapses
    <2> QED BY <2>1, <2>2, <2>3
<1>2. inner' \in InnerRecord
    <2>1. CASE StartAttempt
        BY <1>t, <2>1 DEF StartAttempt, InnerRecord
    <2>2. CASE ConnectSucceeds
        <3>1. opened + 1 \in Links
            BY <1>t, <2>2 DEF ConnectSucceeds, Links
        <3> QED BY <1>t, <2>2, <3>1 DEF ConnectSucceeds, InnerRecord
    <2>3. CASE ConnectFails
        BY <1>t, <2>3 DEF ConnectFails, InnerRecord
    <2>4. CASE ClearReady
        BY <1>t, <2>4 DEF ClearReady, InnerRecord
    <2>5. CASE StampDown
        BY <1>t, <2>5 DEF StampDown, InnerRecord
    <2>6. CASE EndAttempt
        BY <1>t, <2>6 DEF EndAttempt, InnerRecord
    <2>7. CASE WaitElapses
        BY <1>t, <2>7 DEF WaitElapses, InnerRecord
    <2>8. CASE inner' = inner
        BY <1>t, <2>8
    <2> QED BY <2>1, <2>2, <2>3, <2>4, <2>5, <2>6, <2>7, <2>8
        DEF RunnerStep, RunnerStops, PeerCloses, PumpStops, MarkDown, BackOff, Woken
<1>3. /\ link' \in [Links -> LinkRecord]
      /\ \A l \in Links : link[l].down => link'[l].down
    <2>l. \A l \in Links : link[l] \in LinkRecord
        BY <1>t
    <2>1. CASE ConnectSucceeds
        <3>1. link' = [link EXCEPT ![opened + 1] = [@ EXCEPT !.open = TRUE, !.arm = "waiting"]]
            BY <2>1 DEF ConnectSucceeds
        <3>2. ASSUME NEW x \in LinkRecord
              PROVE  /\ [x EXCEPT !.open = TRUE, !.arm = "waiting"] \in LinkRecord
                     /\ [x EXCEPT !.open = TRUE, !.arm = "waiting"].down = x.down
            BY DEF LinkRecord, ArmPcs
        <3> QED BY <1>t, <2>l, <3>1, <3>2
    <2>2. CASE MarkDown
        <3>1. link' = [link EXCEPT ![opened] = [@ EXCEPT !.down = TRUE]]
            BY <2>2 DEF MarkDown
        <3>2. ASSUME NEW x \in LinkRecord
              PROVE  [x EXCEPT !.down = TRUE] \in LinkRecord /\ [x EXCEPT !.down = TRUE].down
            BY DEF LinkRecord
        <3> QED BY <1>t, <2>l, <3>1, <3>2
    <2>3. CASE EndAttempt
        <3>1. link' = [link EXCEPT ![opened] = [@ EXCEPT !.welcome = TRUE, !.open = FALSE]]
            BY <2>3 DEF EndAttempt
        <3>2. ASSUME NEW x \in LinkRecord
              PROVE  /\ [x EXCEPT !.welcome = TRUE, !.open = FALSE] \in LinkRecord
                     /\ [x EXCEPT !.welcome = TRUE, !.open = FALSE].down = x.down
            BY DEF LinkRecord
        <3> QED BY <1>t, <2>l, <3>1, <3>2
    <2>4. CASE link' = link
        BY <1>t, <2>4
    <2> QED BY <2>1, <2>2, <2>3, <2>4
        DEF RunnerStep, StartAttempt, RunnerStops, ConnectFails, PeerCloses, PumpStops,
            ClearReady, StampDown, BackOff, Woken, WaitElapses
<1>4. SameRequests
    <2>1. CASE ConnectFails \/ EndAttempt
        BY <1>t, <2>1, BellsAreQuiet DEF ConnectFails, EndAttempt
    <2>2. CASE req' = req
        BY <1>t, <2>2 DEF SameRequests
    <2> QED BY <2>1, <2>2
        DEF RunnerStep, StartAttempt, RunnerStops, ConnectSucceeds, PeerCloses, PumpStops,
            ClearReady, StampDown, MarkDown, BackOff, Woken, WaitElapses
<1>5. TypeOK'
    BY <1>t, <1>1, <1>2, <1>3, <1>4 DEF TypeOK, SameRequests
<1> QED BY <1>1, <1>3, <1>4, <1>5, QuietPreserves DEF Quiet, SameRequests

(* Updating one link leaves the links typed and takes none up again. *)
LEMMA OneLink ==
    ASSUME link \in [Links -> LinkRecord], NEW k \in Links, NEW x \in LinkRecord,
           link' = [link EXCEPT ![k] = x], link[k].down => x.down
    PROVE  /\ link' \in [Links -> LinkRecord]
           /\ \A l \in Links : link[l].down => link'[l].down
OBVIOUS

LEMMA AbortKeepsLinksDown ==
    ASSUME link \in [Links -> LinkRecord], NEW k \in Links, Abort(k)
    PROVE  /\ link' \in [Links -> LinkRecord]
           /\ \A l \in Links : link[l].down => link'[l].down
<1>1. link' = [link EXCEPT ![k] = [link[k] EXCEPT !.open = FALSE]]
    BY DEF Abort
<1>2. link[k] \in LinkRecord
    OBVIOUS
<1>3. /\ [link[k] EXCEPT !.open = FALSE] \in LinkRecord
      /\ [link[k] EXCEPT !.open = FALSE].down = link[k].down
    BY <1>2 DEF LinkRecord
<1> QED BY <1>1, <1>3, OneLink

LEMMA ArmPreserves ==
    ASSUME MeshInv, NEW l \in Links, ArmStep(l)
    PROVE  MeshInv'
<1>t. /\ runner \in RunnerPcs /\ opened \in 0 .. MaxLinks /\ mute \in BOOLEAN
      /\ link \in [Links -> LinkRecord] /\ inner \in InnerRecord
      /\ stopper \in {"running", "failing", "joining", "returned"}
      /\ req \in [Requests -> ReqRecord] /\ sentOn \in [Links -> SUBSET Requests]
      /\ result \in [Requests -> Answers \cup {"none"}]
    BY DEF MeshInv, TypeOK
<1>1. runner' = runner /\ opened' = opened /\ mute' = mute /\ stopper' = stopper
      /\ sentOn' = sentOn /\ result' = result
    BY DEF ArmStep, WelcomeSettled, WelcomeTimesOut, AssumeOldServer, CheckOpen,
        PublishReady, SettleReady
<1>2. inner' \in InnerRecord
    <2>1. CASE AssumeOldServer(l)
        <3>1. OldServer(inner.version) \in {0, 1, 2}
            BY <1>t DEF OldServer, InnerRecord
        <3> QED BY <1>t, <2>1, <3>1 DEF AssumeOldServer, InnerRecord
    <2>2. CASE PublishReady(l)
        BY <1>t, <2>2 DEF PublishReady, InnerRecord
    <2>3. CASE SettleReady(l)
        BY <1>t, <2>3 DEF SettleReady, InnerRecord
    <2>4. CASE inner' = inner
        BY <1>t, <2>4
    <2> QED BY <2>1, <2>2, <2>3, <2>4 DEF ArmStep, WelcomeSettled, WelcomeTimesOut, CheckOpen
<1>3. /\ link' \in [Links -> LinkRecord]
      /\ \A k \in Links : link[k].down => link'[k].down
    <2>l. link[l] \in LinkRecord
        BY <1>t
    <2>x. ASSUME NEW x \in LinkRecord, NEW a \in ArmPcs
          PROVE  /\ [x EXCEPT !.arm = a] \in LinkRecord
                 /\ [x EXCEPT !.arm = a].down = x.down
                 /\ [x EXCEPT !.welcome = TRUE, !.arm = a] \in LinkRecord
                 /\ [x EXCEPT !.welcome = TRUE, !.arm = a].down = x.down
                 /\ [x EXCEPT !.arm = a, !.wasReady = TRUE] \in LinkRecord
                 /\ [x EXCEPT !.arm = a, !.wasReady = TRUE].down = x.down
        BY DEF LinkRecord
    <2>1. ASSUME NEW a, NEW b \in ArmPcs, ArmGoes(l, a, b)
          PROVE  /\ link' \in [Links -> LinkRecord]
                 /\ \A k \in Links : link[k].down => link'[k].down
        <3>1. link' = [link EXCEPT ![l] = [link[l] EXCEPT !.arm = b]]
            BY <2>1 DEF ArmGoes
        <3> QED BY <1>t, <2>l, <2>x, <3>1, OneLink
    <2>2. CASE WelcomeSettled(l)
        BY <2>1, <2>2 DEF WelcomeSettled, ArmPcs
    <2>3. CASE WelcomeTimesOut(l)
        <3> DEFINE a == IF link[l].welcome THEN "check" ELSE "downgrade"
        <3>1. link' = [link EXCEPT ![l] = [link[l] EXCEPT !.welcome = TRUE, !.arm = a]]
            BY <2>3 DEF WelcomeTimesOut
        <3>2. a \in ArmPcs
            BY DEF ArmPcs
        <3> HIDE DEF a
        <3> QED BY <1>t, <2>l, <2>x, <3>1, <3>2, OneLink
    <2>4. CASE AssumeOldServer(l)
        BY <2>1, <2>4 DEF AssumeOldServer, ArmPcs
    <2>5. CASE CheckOpen(l)
        <3>1. (IF IsOpen(l) THEN "publish" ELSE "done") \in ArmPcs
            BY DEF ArmPcs
        <3> QED BY <2>1, <2>5, <3>1 DEF CheckOpen
    <2>6. CASE PublishReady(l)
        <3>1. link' = [link EXCEPT ![l] = [link[l] EXCEPT !.arm = "settle", !.wasReady = TRUE]]
            BY <2>6 DEF PublishReady
        <3>2. /\ [link[l] EXCEPT !.arm = "settle", !.wasReady = TRUE] \in LinkRecord
              /\ [link[l] EXCEPT !.arm = "settle", !.wasReady = TRUE].down = link[l].down
            BY <2>l, <2>x DEF ArmPcs
        <3> QED BY <1>t, <3>1, <3>2, OneLink
    <2>7. CASE SettleReady(l)
        BY <2>1, <2>7 DEF SettleReady, ArmPcs
    <2> QED BY <2>2, <2>3, <2>4, <2>5, <2>6, <2>7 DEF ArmStep
<1>4. SameRequests
    <2>1. CASE PublishReady(l) \/ SettleReady(l)
        BY <1>t, <2>1, BellsAreQuiet DEF PublishReady, SettleReady
    <2>2. CASE req' = req
        BY <1>t, <2>2 DEF SameRequests
    <2> QED BY <2>1, <2>2
        DEF ArmStep, WelcomeSettled, WelcomeTimesOut, AssumeOldServer, CheckOpen
<1>5. TypeOK'
    BY <1>t, <1>1, <1>2, <1>3, <1>4 DEF TypeOK, SameRequests
<1> QED BY <1>1, <1>3, <1>4, <1>5, QuietPreserves DEF Quiet

(* Frames the pump dispatches, aborted links, and the other events. *)
LEMMA LinkPreserves ==
    ASSUME MeshInv, NEW l \in Links, LinkStep(l)
    PROVE  MeshInv'
<1>t. /\ runner \in RunnerPcs /\ opened \in 0 .. MaxLinks /\ mute \in BOOLEAN
      /\ link \in [Links -> LinkRecord] /\ inner \in InnerRecord
      /\ stopper \in {"running", "failing", "joining", "returned"}
      /\ req \in [Requests -> ReqRecord] /\ sentOn \in [Links -> SUBSET Requests]
      /\ result \in [Requests -> Answers \cup {"none"}]
    BY DEF MeshInv, TypeOK
<1>1. runner' = runner /\ opened' = opened /\ mute' = mute /\ stopper' = stopper
      /\ sentOn' = sentOn /\ result' = result
    BY DEF LinkStep, OnWelcome, OnUnreadableWelcome, OnAnswer, OnRateLimitedAll,
        LinkAborted, ProbeFails
<1>2. inner' \in InnerRecord
    <2>1. CASE \E v \in Versions : OnWelcome(l, v)
        BY <1>t, <2>1, MeshAssumption DEF OnWelcome, InnerRecord
    <2>2. CASE OnUnreadableWelcome(l)
        <3>1. OldServer(inner.version) \in {0, 1, 2}
            BY <1>t DEF OldServer, InnerRecord
        <3> QED BY <1>t, <2>2, <3>1 DEF OnUnreadableWelcome, InnerRecord
    <2>3. ASSUME NEW r \in Requests, NEW answer \in {"answered", "rateLimited"},
                 OnAnswer(l, r, answer)
          PROVE  inner' \in InnerRecord
        <3> DEFINE b == inner.limited \/ answer = "rateLimited"
        <3>1. inner' = [inner EXCEPT !.cids = @ \ {r}, !.pending = @ \ {r}, !.limited = b]
            BY <2>3 DEF OnAnswer
        <3>2. b \in BOOLEAN
            OBVIOUS
        <3> HIDE DEF b
        <3> QED BY <1>t, <3>1, <3>2 DEF InnerRecord
    <2>4. CASE OnRateLimitedAll(l)
        BY <1>t, <2>4 DEF OnRateLimitedAll, InnerRecord
    <2>5. CASE inner' = inner
        BY <1>t, <2>5
    <2> QED BY <2>1, <2>2, <2>3, <2>4, <2>5 DEF LinkStep, LinkAborted, ProbeFails
<1>3. /\ link' \in [Links -> LinkRecord]
      /\ \A k \in Links : link[k].down => link'[k].down
    <2>l. link[l] \in LinkRecord
        BY <1>t
    <2>1. CASE \E v \in Versions : OnWelcome(l, v)
        <3>1. PICK v \in Versions : OnWelcome(l, v)
            BY <2>1
        <3> DEFINE n == link[l].newer \/ v = 2
        <3>2. link' = [link EXCEPT ![l] = [link[l] EXCEPT !.welcome = TRUE, !.newer = n]]
            BY <3>1 DEF OnWelcome
        <3>3. n \in BOOLEAN
            OBVIOUS
        <3> HIDE DEF n
        <3>4. /\ [link[l] EXCEPT !.welcome = TRUE, !.newer = n] \in LinkRecord
              /\ [link[l] EXCEPT !.welcome = TRUE, !.newer = n].down = link[l].down
            BY <2>l, <3>3 DEF LinkRecord
        <3> QED BY <1>t, <3>2, <3>4, OneLink
    <2>2. CASE OnUnreadableWelcome(l)
        <3>1. link' = [link EXCEPT ![l] = [link[l] EXCEPT !.welcome = TRUE]]
            BY <2>2 DEF OnUnreadableWelcome
        <3>2. /\ [link[l] EXCEPT !.welcome = TRUE] \in LinkRecord
              /\ [link[l] EXCEPT !.welcome = TRUE].down = link[l].down
            BY <2>l DEF LinkRecord
        <3> QED BY <1>t, <3>1, <3>2, OneLink
    <2>3. CASE LinkAborted(l) \/ ProbeFails(l)
        BY <1>t, <2>3, AbortKeepsLinksDown DEF LinkAborted, ProbeFails
    <2>4. CASE link' = link
        BY <1>t, <2>4
    <2> QED BY <2>1, <2>2, <2>3, <2>4 DEF LinkStep, OnAnswer, OnRateLimitedAll
<1>4. SameRequests
    <2>1. ASSUME NEW r \in Requests, NEW answer \in {"answered", "rateLimited"},
                 OnAnswer(l, r, answer)
          PROVE  SameRequests
        <3>1. req' = [req EXCEPT ![r] = [req[r] EXCEPT !.reply = answer]] \/ req' = req
            BY <2>1 DEF OnAnswer
        <3>2. ASSUME NEW x \in ReqRecord
              PROVE  /\ [x EXCEPT !.reply = answer] \in ReqRecord
                     /\ [x EXCEPT !.reply = answer].pc = x.pc
                     /\ [x EXCEPT !.reply = answer].link = x.link
                     /\ [x EXCEPT !.reply = answer].sends = x.sends
                     /\ [x EXCEPT !.reply = answer].drops = x.drops
            BY DEF ReqRecord, Answers, ClientAnswers
        <3>3. req[r] \in ReqRecord
            BY <1>t
        <3> QED BY <1>t, <3>1, <3>2, <3>3 DEF SameRequests
    <2>2. CASE OnRateLimitedAll(l)
        BY <1>t, <2>2, AnswerAllIsQuiet DEF OnRateLimitedAll, ClientAnswers
    <2>3. CASE req' = req
        BY <1>t, <2>3 DEF SameRequests
    <2> QED BY <2>1, <2>2, <2>3
        DEF LinkStep, OnWelcome, OnUnreadableWelcome, LinkAborted, ProbeFails
<1>5. TypeOK'
    BY <1>t, <1>1, <1>2, <1>3, <1>4 DEF TypeOK, SameRequests
<1> QED BY <1>1, <1>3, <1>4, <1>5, QuietPreserves DEF Quiet

LEMMA EventPreserves ==
    ASSUME MeshInv, LinkGoesMute \/ StopStep \/ TimerStep
    PROVE  MeshInv'
<1>t. /\ runner \in RunnerPcs /\ opened \in 0 .. MaxLinks /\ mute \in BOOLEAN
      /\ link \in [Links -> LinkRecord] /\ inner \in InnerRecord
      /\ stopper \in {"running", "failing", "joining", "returned"}
      /\ req \in [Requests -> ReqRecord] /\ sentOn \in [Links -> SUBSET Requests]
      /\ result \in [Requests -> Answers \cup {"none"}]
    BY DEF MeshInv, TypeOK
<1>1. runner' = runner /\ opened' = opened /\ mute' \in BOOLEAN /\ link' = link
      /\ stopper' \in {"running", "failing", "joining", "returned"}
      /\ sentOn' = sentOn /\ result' = result
    BY <1>t DEF LinkGoesMute, StopStep, StopBegins, StopFailsPending, StopReturns,
        TimerStep, GraceExpires, CooldownEnds
<1>2. inner' \in InnerRecord
    <2>1. CASE StopBegins
        BY <1>t, <2>1 DEF StopBegins, InnerRecord
    <2>2. CASE StopFailsPending
        BY <1>t, <2>2 DEF StopFailsPending, InnerRecord
    <2>3. CASE GraceExpires
        BY <1>t, <2>3 DEF GraceExpires, InnerRecord
    <2>4. CASE CooldownEnds
        BY <1>t, <2>4 DEF CooldownEnds, InnerRecord
    <2>5. CASE inner' = inner
        BY <1>t, <2>5
    <2> QED BY <2>1, <2>2, <2>3, <2>4, <2>5
        DEF LinkGoesMute, StopStep, StopReturns, TimerStep
<1>3. SameRequests
    <2>1. CASE StopFailsPending
        BY <1>t, <2>1, AnswerAllIsQuiet DEF StopFailsPending, ClientAnswers
    <2>2. CASE req' = req
        BY <1>t, <2>2 DEF SameRequests
    <2> QED BY <2>1, <2>2
        DEF LinkGoesMute, StopStep, StopBegins, StopReturns, TimerStep, GraceExpires,
            CooldownEnds
<1>4. TypeOK'
    BY <1>t, <1>1, <1>2, <1>3 DEF TypeOK, SameRequests
<1> QED BY <1>1, <1>3, <1>4, QuietPreserves DEF Quiet

-----------------------------------------------------------------------------
(* A step of a request r only moves r, to locals x that keep the invariant, *)
(* and at most hands r, and no other request, to a link.                    *)
Moves(r, x) ==
    /\ x \in ReqRecord
    /\ x.sends <= x.drops + (IF x.pc = "await" THEN 1 ELSE 0)
    /\ x.pc \in SendPcs \cup {"unsent", "await"} => x.link \in Links
    /\ \A l \in Links :
          r \in sentOn'[l] =>
              \/ x.pc = "done"
              \/ link[l].down
              \/ x.pc \in {"unsent", "await"} /\ x.link = l
    /\ x.pc \in SendPcs => r \notin sentOn'[x.link]

HandsOver(r) ==
    /\ sentOn' \in [Links -> SUBSET Requests]
    /\ \A l \in Links, q \in Requests \ {r} : q \in sentOn'[l] <=> q \in sentOn[l]

LEMMA OneRequest ==
    ASSUME MeshInv, NEW r \in Requests, NEW x, Update(r, x), Moves(r, x), HandsOver(r),
           runner' = runner /\ opened' = opened /\ mute' = mute /\ stopper' = stopper,
           inner' \in InnerRecord, result' \in [Requests -> Answers \cup {"none"}],
           link' \in [Links -> LinkRecord],
           \A l \in Links : link[l].down => link'[l].down
    PROVE  MeshInv'
<1>t. /\ runner \in RunnerPcs /\ opened \in 0 .. MaxLinks /\ mute \in BOOLEAN
      /\ link \in [Links -> LinkRecord] /\ inner \in InnerRecord
      /\ stopper \in {"running", "failing", "joining", "returned"}
      /\ req \in [Requests -> ReqRecord] /\ sentOn \in [Links -> SUBSET Requests]
      /\ result \in [Requests -> Answers \cup {"none"}]
    BY DEF MeshInv, TypeOK
<1>1. req' \in [Requests -> ReqRecord] /\ req'[r] = x
      /\ \A q \in Requests \ {r} : req'[q] = req[q]
    BY <1>t DEF Update, Moves
<1>2. TypeOK'
    BY <1>t, <1>1 DEF TypeOK, HandsOver
<1>3. SendsCounted'
    BY <1>1 DEF MeshInv, SendsCounted, Moves
<1>4. LinkHeld'
    BY <1>1 DEF MeshInv, LinkHeld, Moves
<1>5. SentLinksAreDown'
    BY <1>1 DEF MeshInv, SentLinksAreDown, Moves, HandsOver
<1>6. NeverTwiceOnALink'
    <2> SUFFICES ASSUME NEW q \in Requests, req'[q].pc \in SendPcs
                 PROVE  q \notin sentOn'[req'[q].link]
        BY DEF NeverTwiceOnALink
    <2>1. CASE q = r
        BY <1>1, <2>1 DEF Moves
    <2>2. CASE q # r
        BY <1>1, <2>2 DEF MeshInv, LinkHeld, NeverTwiceOnALink, HandsOver
    <2> QED BY <2>1, <2>2
<1> QED BY <1>2, <1>3, <1>4, <1>5, <1>6 DEF MeshInv

(* Returning forgets everything about the request. *)
LEMMA ReturnPreserves ==
    ASSUME MeshInv, NEW r \in Requests, NEW answer \in Answers, Return(r, answer),
           UNCHANGED Others
    PROVE  MeshInv'
<1>t. /\ runner \in RunnerPcs /\ opened \in 0 .. MaxLinks /\ mute \in BOOLEAN
      /\ link \in [Links -> LinkRecord] /\ inner \in InnerRecord
      /\ stopper \in {"running", "failing", "joining", "returned"}
      /\ req \in [Requests -> ReqRecord] /\ sentOn \in [Links -> SUBSET Requests]
      /\ result \in [Requests -> Answers \cup {"none"}]
    BY DEF MeshInv, TypeOK
<1> DEFINE x == [Fresh EXCEPT !.pc = "done"]
<1>1. x \in ReqRecord /\ x.pc = "done" /\ x.sends = 0 /\ x.drops = 0
    BY DEF Fresh, ReqRecord, ReqPcs, NoLink
<1>2. Update(r, x) /\ sentOn' = sentOn
      /\ result' = [result EXCEPT ![r] = answer]
      /\ inner' = [inner EXCEPT !.pending = @ \ {r}, !.cids = @ \ {r}]
    BY DEF Return
<1> HIDE DEF x
<1>3. Moves(r, x)
    BY <1>1 DEF Moves, SendPcs
<1>4. inner' \in InnerRecord
    BY <1>t, <1>2 DEF InnerRecord
<1>5. HandsOver(r) /\ result' \in [Requests -> Answers \cup {"none"}]
    BY <1>t, <1>2 DEF HandsOver
<1> QED BY <1>t, <1>2, <1>3, <1>4, <1>5, OneRequest DEF Others

(* Staying out of the send steps, or taking back a link that is down. *)
LEMMA ContinuePreserves ==
    ASSUME MeshInv, NEW r \in Requests, NEW x, Continue(r, x), Moves(r, x), UNCHANGED Others
    PROVE  MeshInv'
<1>t. /\ runner \in RunnerPcs /\ opened \in 0 .. MaxLinks /\ mute \in BOOLEAN
      /\ link \in [Links -> LinkRecord] /\ inner \in InnerRecord
      /\ stopper \in {"running", "failing", "joining", "returned"}
      /\ req \in [Requests -> ReqRecord] /\ sentOn \in [Links -> SUBSET Requests]
      /\ result \in [Requests -> Answers \cup {"none"}]
    BY DEF MeshInv, TypeOK
<1>1. HandsOver(r)
    BY <1>t DEF Continue, HandsOver
<1> QED BY <1>t, <1>1, OneRequest DEF Continue, Others

LEMMA WaitMoves ==
    ASSUME MeshInv, NEW r \in Requests, NEW x \in ReqRecord,
           req[r].pc \in {"idle", "register"} \cup WaitPcs,
           x.pc \in {"register"} \cup WaitPcs,
           x.sends = req[r].sends, x.drops = req[r].drops, sentOn' = sentOn
    PROVE  Moves(r, x)
<1>1. x.pc # "await" /\ x.pc \notin SendPcs \cup {"unsent", "await"}
    BY DEF WaitPcs, SendPcs
<1>2. x.sends <= x.drops + (IF x.pc = "await" THEN 1 ELSE 0)
    <2>1. req[r].pc # "await"
        BY DEF WaitPcs
    <2>2. req[r].sends <= req[r].drops + (IF req[r].pc = "await" THEN 1 ELSE 0)
        BY DEF MeshInv, SendsCounted
    <2> QED BY <1>1, <2>1, <2>2
<1>3. \A l \in Links : r \in sentOn'[l] => link[l].down
    <2>1. req[r].pc \notin {"done", "unsent", "await"}
        BY DEF WaitPcs
    <2> QED BY <2>1 DEF MeshInv, SentLinksAreDown
<1> QED BY <1>1, <1>2, <1>3 DEF Moves

(* A link found ready is up, so it has not had the request. *)
LEMMA UseReadyPreserves ==
    ASSUME MeshInv, NEW r \in Requests, req[r].pc \in WaitPcs, HasReadyLink,
           UseReadyLink(r), UNCHANGED Others
    PROVE  MeshInv'
<1>t. /\ runner \in RunnerPcs /\ opened \in 0 .. MaxLinks /\ mute \in BOOLEAN
      /\ link \in [Links -> LinkRecord] /\ inner \in InnerRecord
      /\ stopper \in {"running", "failing", "joining", "returned"}
      /\ req \in [Requests -> ReqRecord] /\ sentOn \in [Links -> SUBSET Requests]
      /\ result \in [Requests -> Answers \cup {"none"}]
    BY DEF MeshInv, TypeOK
<1> DEFINE x == [req[r] EXCEPT !.pc = "take", !.link = inner.ready, !.woke = FALSE,
                               !.out = FALSE, !.readyBell = FALSE, !.settledBell = FALSE]
<1>1. inner.ready \in Links /\ ~link[inner.ready].down
    BY <1>t DEF HasReadyLink, InnerRecord
<1>2. req[r] \in ReqRecord
    BY <1>t
<1>3. /\ x \in ReqRecord /\ x.pc = "take" /\ x.link = inner.ready
      /\ x.sends = req[r].sends /\ x.drops = req[r].drops
    BY <1>1, <1>2 DEF ReqRecord, ReqPcs, SendPcs
<1>4. Continue(r, x)
    BY DEF UseReadyLink
<1> HIDE DEF x
<1>5. req[r].pc \notin {"done", "unsent", "await"}
    BY DEF WaitPcs
<1>6. \A l \in Links : r \in sentOn[l] => link[l].down
    BY <1>5 DEF MeshInv, SentLinksAreDown
<1>7. req[r].sends <= req[r].drops + 0
    BY <1>5 DEF MeshInv, SendsCounted
<1>8. x.sends <= x.drops + (IF x.pc = "await" THEN 1 ELSE 0)
    BY <1>3, <1>7
<1>9. Moves(r, x)
    BY <1>1, <1>3, <1>4, <1>6, <1>8 DEF Moves, Continue
<1> QED BY <1>4, <1>9, ContinuePreserves

LEMMA WaitPreserves ==
    ASSUME MeshInv, NEW r \in Requests, WaitStep(r)
    PROVE  MeshInv'
<1>t. /\ runner \in RunnerPcs /\ opened \in 0 .. MaxLinks /\ mute \in BOOLEAN
      /\ link \in [Links -> LinkRecord] /\ inner \in InnerRecord
      /\ stopper \in {"running", "failing", "joining", "returned"}
      /\ req \in [Requests -> ReqRecord] /\ sentOn \in [Links -> SUBSET Requests]
      /\ result \in [Requests -> Answers \cup {"none"}]
    BY DEF MeshInv, TypeOK
<1>r. req[r] \in ReqRecord
    BY <1>t
<1>o. UNCHANGED Others
    BY DEF WaitStep, Subscribe, Look, Nudge, Listen, CheckFlight, SelectReady,
        SelectGraceEnd, SelectSettled, Others
<1>w. req[r].pc \in WaitPcs
    BY DEF WaitStep, Subscribe, Look, Nudge, Listen, CheckFlight, SelectReady,
        SelectGraceEnd, SelectSettled, At, WaitPcs
<1>g. ASSUME NEW pc \in WaitPcs, Goto(r, pc)
      PROVE  MeshInv'
    <2> DEFINE x == [req[r] EXCEPT !.pc = pc]
    <2>1. x \in ReqRecord /\ x.pc = pc /\ x.sends = req[r].sends /\ x.drops = req[r].drops
        BY <1>r DEF ReqRecord, ReqPcs
    <2>2. Continue(r, x) /\ sentOn' = sentOn
        BY <1>g DEF Goto, Continue
    <2> HIDE DEF x
    <2>3. Moves(r, x)
        BY <1>w, <2>1, <2>2, WaitMoves
    <2> QED BY <1>o, <2>2, <2>3, ContinuePreserves
<1>1. CASE Subscribe(r)
    <2> DEFINE x == [req[r] EXCEPT !.pc = "look", !.readyBell = FALSE,
                                   !.settledBell = FALSE, !.out = FALSE]
    <2>1. /\ x \in ReqRecord /\ x.pc \in WaitPcs
          /\ x.sends = req[r].sends /\ x.drops = req[r].drops
        BY <1>r DEF ReqRecord, ReqPcs, WaitPcs
    <2>2. Continue(r, x) /\ sentOn' = sentOn
        BY <1>1 DEF Subscribe, Continue
    <2> HIDE DEF x
    <2>3. Moves(r, x)
        BY <1>w, <2>1, <2>2, WaitMoves
    <2> QED BY <1>o, <2>2, <2>3, ContinuePreserves
<1>2. CASE Look(r)
    BY <1>o, <1>w, <1>g, <1>2, UseReadyPreserves DEF Look, WaitPcs
<1>3. CASE Nudge(r)
    <2> DEFINE x == [req[r] EXCEPT !.pc = "listen", !.woke = TRUE]
    <2> DEFINE b == inner.wake \/ ~req[r].woke
    <2>1. /\ x \in ReqRecord /\ x.pc \in WaitPcs
          /\ x.sends = req[r].sends /\ x.drops = req[r].drops
        BY <1>r DEF ReqRecord, ReqPcs, WaitPcs
    <2>2. Update(r, x) /\ sentOn' = sentOn /\ result' = result
        BY <1>3 DEF Nudge
    <2>3. inner' = [inner EXCEPT !.wake = b] /\ b \in BOOLEAN
        BY <1>3 DEF Nudge
    <2> HIDE DEF x, b
    <2>4. inner' \in InnerRecord
        BY <1>t, <2>3 DEF InnerRecord
    <2>5. Moves(r, x)
        BY <1>w, <2>1, <2>2, WaitMoves
    <2>6. HandsOver(r)
        BY <1>t, <2>2 DEF HandsOver
    <2> QED BY <1>t, <1>o, <2>2, <2>4, <2>5, <2>6, OneRequest DEF Others
<1>4. CASE Listen(r)
    <2> DEFINE pc == IF inner.graceOver THEN "flight" ELSE "select"
    <2> DEFINE x == [req[r] EXCEPT !.pc = pc, !.out = inner.graceOver]
    <2>1. pc \in WaitPcs
        BY DEF WaitPcs
    <2>2. inner.graceOver \in BOOLEAN
        BY <1>t DEF InnerRecord
    <2>3. Continue(r, x) /\ sentOn' = sentOn
        BY <1>4 DEF Listen, Continue
    <2> HIDE DEF pc
    <2>4. /\ x \in ReqRecord /\ x.pc \in WaitPcs
          /\ x.sends = req[r].sends /\ x.drops = req[r].drops
        BY <1>r, <2>1, <2>2 DEF ReqRecord, ReqPcs
    <2> HIDE DEF x
    <2>5. Moves(r, x)
        BY <1>w, <2>3, <2>4, WaitMoves
    <2> QED BY <1>o, <2>3, <2>5, ContinuePreserves
<1>5. CASE CheckFlight(r)
    BY <1>o, <1>g, <1>5, ReturnPreserves DEF CheckFlight, WaitPcs, Answers, ClientAnswers
<1>6. CASE SelectReady(r)
    <2> DEFINE x == [req[r] EXCEPT !.pc = "subscribe", !.woke = FALSE]
    <2>1. /\ x \in ReqRecord /\ x.pc \in WaitPcs
          /\ x.sends = req[r].sends /\ x.drops = req[r].drops
        BY <1>r DEF ReqRecord, ReqPcs, WaitPcs
    <2>2. Continue(r, x) /\ sentOn' = sentOn
        BY <1>6 DEF SelectReady, Continue
    <2> HIDE DEF x
    <2>3. Moves(r, x)
        BY <1>w, <2>1, <2>2, WaitMoves
    <2> QED BY <1>o, <2>2, <2>3, ContinuePreserves
<1>7. CASE SelectGraceEnd(r)
    BY <1>g, <1>7 DEF SelectGraceEnd, WaitPcs
<1>8. CASE SelectSettled(r)
    BY <1>o, <1>w, <1>8, UseReadyPreserves, ReturnPreserves
        DEF SelectSettled, Answers, ClientAnswers
<1> QED BY <1>1, <1>2, <1>3, <1>4, <1>5, <1>6, <1>7, <1>8 DEF WaitStep

(* What is known of a request that is about to send, at the same link. *)
LEMMA SenderMoves ==
    ASSUME MeshInv, NEW r \in Requests, NEW x \in ReqRecord,
           req[r].pc \in SendPcs, x.pc \in SendPcs \cup {"unsent"},
           x.link = req[r].link, x.sends = req[r].sends, x.drops = req[r].drops,
           sentOn' = sentOn
    PROVE  Moves(r, x)
<1>1. req[r].link \in Links /\ r \notin sentOn[req[r].link]
    BY DEF MeshInv, LinkHeld, NeverTwiceOnALink
<1>2. req[r].pc \notin {"done", "unsent", "await"} /\ x.pc # "await"
    BY DEF SendPcs
<1>3. \A l \in Links : r \in sentOn[l] => link[l].down
    BY <1>2 DEF MeshInv, SentLinksAreDown
<1>4. req[r].sends <= req[r].drops + 0
    BY <1>2 DEF MeshInv, SendsCounted
<1>5. x.sends <= x.drops + (IF x.pc = "await" THEN 1 ELSE 0)
    BY <1>2, <1>4
<1> QED BY <1>1, <1>3, <1>5 DEF Moves

(* The frame handed over: r's link is the only one that may still be up. *)
LEMMA SentMoves ==
    ASSUME MeshInv, NEW r \in Requests, NEW x \in ReqRecord, At(r, "send"), HandOver(r),
           x.pc \in {"unsent", "await"}, x.link = req[r].link, x.drops = req[r].drops,
           x.sends <= req[r].sends + (IF x.pc = "await" THEN 1 ELSE 0)
    PROVE  Moves(r, x) /\ HandsOver(r)
<1>t. /\ runner \in RunnerPcs /\ opened \in 0 .. MaxLinks /\ mute \in BOOLEAN
      /\ link \in [Links -> LinkRecord] /\ inner \in InnerRecord
      /\ stopper \in {"running", "failing", "joining", "returned"}
      /\ req \in [Requests -> ReqRecord] /\ sentOn \in [Links -> SUBSET Requests]
      /\ result \in [Requests -> Answers \cup {"none"}]
    BY DEF MeshInv, TypeOK
<1>1. req[r].pc = "send" /\ req[r].link \in Links
    BY DEF MeshInv, LinkHeld, SendPcs, At
<1>2. sentOn' \in [Links -> SUBSET Requests]
      /\ \A l \in Links, q \in Requests :
            q \in sentOn'[l] <=> q \in sentOn[l] \/ (q = r /\ l = req[r].link)
    BY <1>t, <1>1 DEF HandOver
<1>3. HandsOver(r)
    BY <1>2 DEF HandsOver
<1>4. \A l \in Links : r \in sentOn[l] => link[l].down
    BY <1>1 DEF MeshInv, SentLinksAreDown
<1>5. \A l \in Links : r \in sentOn'[l] => link[l].down \/ x.link = l
    BY <1>2, <1>4
<1>6. x.sends <= x.drops + (IF x.pc = "await" THEN 1 ELSE 0)
    <2>1. req[r].sends <= req[r].drops + 0
        BY <1>1 DEF MeshInv, SendsCounted
    <2>2. req[r].sends \in {0, 1, 2} /\ req[r].drops \in {0, 1} /\ x.sends \in {0, 1, 2}
        BY <1>t DEF ReqRecord
    <2> QED BY <2>1, <2>2
<1> QED BY <1>1, <1>3, <1>5, <1>6 DEF Moves, SendPcs

(* Going back to wait for a link, from one that is down. *)
LEMMA TryAgainPreserves ==
    ASSUME MeshInv, NEW r \in Requests, req[r].pc \in {"unsent", "await"},
           link[req[r].link].down, NEW drops \in {0, 1}, req[r].sends <= drops,
           TryAgain(r, drops), UNCHANGED Others
    PROVE  MeshInv'
<1>t. /\ runner \in RunnerPcs /\ opened \in 0 .. MaxLinks /\ mute \in BOOLEAN
      /\ link \in [Links -> LinkRecord] /\ inner \in InnerRecord
      /\ stopper \in {"running", "failing", "joining", "returned"}
      /\ req \in [Requests -> ReqRecord] /\ sentOn \in [Links -> SUBSET Requests]
      /\ result \in [Requests -> Answers \cup {"none"}]
    BY DEF MeshInv, TypeOK
<1> DEFINE x == [req[r] EXCEPT !.pc = "subscribe", !.drops = drops, !.link = NoLink]
<1>1. req[r] \in ReqRecord
    BY <1>t
<1>2. x \in ReqRecord /\ x.pc = "subscribe" /\ x.sends = req[r].sends /\ x.drops = drops
    BY <1>1 DEF ReqRecord, ReqPcs, WaitPcs, NoLink
<1>3. Continue(r, x) /\ sentOn' = sentOn
    BY DEF TryAgain, Continue
<1> HIDE DEF x
<1>4. \A l \in Links : r \in sentOn[l] => link[l].down
    BY DEF MeshInv, SentLinksAreDown
<1>5. x.sends <= x.drops + (IF x.pc = "await" THEN 1 ELSE 0)
    BY <1>2
<1>6. Moves(r, x)
    BY <1>2, <1>3, <1>4, <1>5 DEF Moves, SendPcs
<1> QED BY <1>3, <1>6, ContinuePreserves

LEMMA DroppedPreserves ==
    ASSUME MeshInv, NEW r \in Requests, req[r].pc \in {"unsent", "await"},
           link[req[r].link].down, Dropped(r), UNCHANGED Others
    PROVE  MeshInv'
<1>1. CASE req[r].drops = 1
    BY <1>1, ReturnPreserves DEF Dropped, Answers, ClientAnswers
<1>2. CASE req[r].drops # 1
    <2>1. req[r].drops = 0 /\ req[r].sends \in {0, 1, 2}
        BY <1>2 DEF MeshInv, TypeOK, ReqRecord
    <2>2. req[r].sends <= req[r].drops + (IF req[r].pc = "await" THEN 1 ELSE 0)
        BY DEF MeshInv, SendsCounted
    <2>3. req[r].sends <= 1
        BY <2>1, <2>2
    <2> QED BY <1>2, <2>3, TryAgainPreserves DEF Dropped
<1> QED BY <1>1, <1>2

LEMMA SendPreserves ==
    ASSUME MeshInv, NEW r \in Requests, SendStep(r)
    PROVE  MeshInv'
<1>t. /\ runner \in RunnerPcs /\ opened \in 0 .. MaxLinks /\ mute \in BOOLEAN
      /\ link \in [Links -> LinkRecord] /\ inner \in InnerRecord
      /\ stopper \in {"running", "failing", "joining", "returned"}
      /\ req \in [Requests -> ReqRecord] /\ sentOn \in [Links -> SUBSET Requests]
      /\ result \in [Requests -> Answers \cup {"none"}]
    BY DEF MeshInv, TypeOK
<1>r. req[r] \in ReqRecord
    BY <1>t
<1>1. CASE TakeReply(r)
    <2>1. req[r].reply \in Answers
        BY <1>r, <1>1 DEF TakeReply, ReqRecord
    <2> QED BY <1>1, <2>1, ReturnPreserves DEF TakeReply
<1>2. CASE ReadVersion(r)
    <2> DEFINE x == [req[r] EXCEPT !.pc = "check", !.stamp = StampOf(r)]
    <2>1. StampOf(r) \in Links \cup {NoLink}
        BY <1>r, <1>2 DEF ReadVersion, At, StampOf, MeshInv, LinkHeld, SendPcs, ReqRecord
    <2>2. /\ x \in ReqRecord /\ x.pc = "check" /\ x.link = req[r].link
          /\ x.sends = req[r].sends /\ x.drops = req[r].drops
        BY <1>r, <2>1 DEF ReqRecord, ReqPcs, SendPcs
    <2>3. Continue(r, x) /\ sentOn' = sentOn /\ req[r].pc = "take" /\ UNCHANGED Others
        BY <1>2 DEF ReadVersion, Continue, At
    <2> HIDE DEF x
    <2>4. Moves(r, x)
        BY <2>2, <2>3, SenderMoves DEF SendPcs
    <2> QED BY <2>3, <2>4, ContinuePreserves
<1>3. CASE CheckLink(r) \/ SendSkipped(r)
    <2>1. PICK pc \in {"send", "unsent"} : Goto(r, pc)
        BY <1>3 DEF CheckLink, SendSkipped
    <2> DEFINE x == [req[r] EXCEPT !.pc = pc]
    <2>2. /\ x \in ReqRecord /\ x.pc = pc /\ x.link = req[r].link
          /\ x.sends = req[r].sends /\ x.drops = req[r].drops
        BY <1>r DEF ReqRecord, ReqPcs, SendPcs
    <2>3. Continue(r, x) /\ sentOn' = sentOn /\ UNCHANGED Others
        BY <1>3, <2>1 DEF CheckLink, SendSkipped, Goto, Continue
    <2>4. req[r].pc \in {"check", "send"}
        BY <1>3 DEF CheckLink, SendSkipped, At
    <2> HIDE DEF x
    <2>5. Moves(r, x)
        BY <2>2, <2>3, <2>4, SenderMoves DEF SendPcs
    <2> QED BY <2>3, <2>5, ContinuePreserves
<1>4. CASE SendCounted(r)
    <2> DEFINE x == [req[r] EXCEPT !.pc = "await", !.sends = @ + 1]
    <2>1. At(r, "send") /\ HandOver(r) /\ Update(r, x) /\ UNCHANGED <<Others, inner, result>>
        BY <1>4 DEF SendCounted
    <2>2. req[r].sends <= req[r].drops + 0 /\ req[r].drops \in {0, 1} /\ req[r].sends \in {0, 1, 2}
        BY <1>r, <2>1 DEF MeshInv, SendsCounted, At, ReqRecord
    <2>3. req[r].sends + 1 \in {0, 1, 2}
        BY <2>2
    <2>4. /\ x \in ReqRecord /\ x.pc = "await" /\ x.link = req[r].link
          /\ x.sends = req[r].sends + 1 /\ x.drops = req[r].drops
        BY <1>r, <2>3 DEF ReqRecord, ReqPcs
    <2> HIDE DEF x
    <2>5. Moves(r, x) /\ HandsOver(r)
        BY <2>1, <2>2, <2>4, SentMoves
    <2> QED BY <1>t, <2>1, <2>5, OneRequest DEF Others
<1>5. CASE SendFails(r)
    <2> DEFINE x == [req[r] EXCEPT !.pc = "unsent"]
    <2>1. /\ At(r, "send") /\ HandOver(r) /\ Update(r, x)
          /\ Abort(req[r].link) \/ UNCHANGED link
          /\ UNCHANGED <<runner, opened, mute, inner, stopper, result>>
        BY <1>5 DEF SendFails
    <2>2. /\ x \in ReqRecord /\ x.pc = "unsent" /\ x.link = req[r].link
          /\ x.sends = req[r].sends /\ x.drops = req[r].drops
        BY <1>r DEF ReqRecord, ReqPcs
    <2> HIDE DEF x
    <2>3. req[r].sends \in {0, 1, 2}
        BY <1>r DEF ReqRecord
    <2>4. Moves(r, x) /\ HandsOver(r)
        BY <2>1, <2>2, <2>3, SentMoves
    <2>5. req[r].link \in Links
        BY <2>1 DEF MeshInv, LinkHeld, SendPcs, At
    <2>6. /\ link' \in [Links -> LinkRecord]
          /\ \A l \in Links : link[l].down => link'[l].down
        BY <1>t, <2>1, <2>5, AbortKeepsLinksDown
    <2> QED BY <1>t, <2>1, <2>4, <2>6, OneRequest
<1>6. CASE UnsentLinkDown(r)
    <2>1. CASE req[r].sends > 0
        BY <1>6, <2>1, DroppedPreserves DEF UnsentLinkDown, At
    <2>2. CASE ~(req[r].sends > 0)
        <3>1. req[r].sends \in {0, 1, 2} /\ req[r].drops \in {0, 1}
            BY <1>r DEF ReqRecord
        <3>2. req[r].sends <= req[r].drops
            BY <2>2, <3>1
        <3> QED BY <1>6, <2>2, <3>1, <3>2, TryAgainPreserves DEF UnsentLinkDown, At
    <2> QED BY <2>1, <2>2
<1>7. CASE UnsentGivesUp(r)
    BY <1>7, ReturnPreserves DEF UnsentGivesUp, Answers, ClientAnswers
<1>8. CASE AwaitLinkDown(r)
    <2>1. CASE req[r].reply # "none"
        <3>1. req[r].reply \in Answers
            BY <1>r, <2>1 DEF ReqRecord
        <3> QED BY <1>8, <2>1, <3>1, ReturnPreserves DEF AwaitLinkDown
    <2>2. CASE req[r].reply = "none"
        BY <1>8, <2>2, DroppedPreserves DEF AwaitLinkDown, At
    <2> QED BY <2>1, <2>2
<1> QED BY <1>1, <1>2, <1>3, <1>4, <1>5, <1>6, <1>7, <1>8 DEF SendStep

LEMMA RequestPreserves ==
    ASSUME MeshInv, NEW r \in Requests, RequestStep(r)
    PROVE  MeshInv'
<1>t. /\ runner \in RunnerPcs /\ opened \in 0 .. MaxLinks /\ mute \in BOOLEAN
      /\ link \in [Links -> LinkRecord] /\ inner \in InnerRecord
      /\ stopper \in {"running", "failing", "joining", "returned"}
      /\ req \in [Requests -> ReqRecord] /\ sentOn \in [Links -> SUBSET Requests]
      /\ result \in [Requests -> Answers \cup {"none"}]
    BY DEF MeshInv, TypeOK
<1>r. req[r] \in ReqRecord
    BY <1>t
<1>m. ASSUME NEW pc \in {"register", "subscribe"}, req[r].pc \in {"idle", "register"},
             sentOn' = sentOn
      PROVE  Moves(r, [req[r] EXCEPT !.pc = pc])
    <2> DEFINE x == [req[r] EXCEPT !.pc = pc]
    <2>1. x \in ReqRecord /\ x.pc = pc /\ x.sends = req[r].sends /\ x.drops = req[r].drops
        BY <1>r DEF ReqRecord, ReqPcs, WaitPcs
    <2> HIDE DEF x
    <2>2. Moves(r, x)
        BY <1>m, <2>1, WaitMoves DEF WaitPcs
    <2> QED BY <2>2 DEF x
<1>1. CASE Begin(r)
    <2>1. CASE inner.limited
        BY <1>1, <2>1, ReturnPreserves DEF Begin, Answers, ClientAnswers
    <2>2. CASE ~inner.limited
        BY <1>1, <1>m, <2>2, ContinuePreserves DEF Begin, Goto, Continue, At
    <2> QED BY <2>1, <2>2
<1>2. CASE Register(r)
    <2>1. inner' \in InnerRecord
        BY <1>t, <1>2 DEF Register, InnerRecord
    <2>2. HandsOver(r)
        BY <1>t, <1>2 DEF Register, HandsOver
    <2>3. Moves(r, [req[r] EXCEPT !.pc = "subscribe"])
        BY <1>m, <1>2 DEF Register, At
    <2>4. Update(r, [req[r] EXCEPT !.pc = "subscribe"]) /\ UNCHANGED <<Others, result>>
        BY <1>2 DEF Register
    <2> QED BY <1>t, <2>1, <2>2, <2>3, <2>4, OneRequest DEF Others
<1>3. CASE WaitStep(r)
    BY <1>3, WaitPreserves
<1>4. CASE SendStep(r)
    BY <1>4, SendPreserves
<1>5. CASE DeadlinePasses(r)
    BY <1>5, ReturnPreserves DEF DeadlinePasses, Answers, ClientAnswers
<1> QED BY <1>1, <1>2, <1>3, <1>4, <1>5 DEF RequestStep

-----------------------------------------------------------------------------
LEMMA StutterPreserves == MeshInv /\ UNCHANGED vars => MeshInv'
BY DEF vars, MeshInv, TypeOK, SendsCounted, LinkHeld, SentLinksAreDown, NeverTwiceOnALink

LEMMA NextPreserves == MeshInv /\ [Next]_vars => MeshInv'
<1> SUFFICES ASSUME MeshInv, [Next]_vars PROVE MeshInv'
    OBVIOUS
<1>1. CASE Next
    BY <1>1, RunnerPreserves, ArmPreserves, LinkPreserves, EventPreserves, RequestPreserves
        DEF Next
<1>2. CASE UNCHANGED vars
    BY <1>2, StutterPreserves
<1> QED BY <1>1, <1>2

(* The inductive invariant. *)
LEMMA AlwaysMeshInv == Spec => []MeshInv
BY InitMeshInv, NextPreserves, PTL DEF Spec

(* Every cell keeps its type; in particular a resolve counts two sends and  *)
(* one drop at the most, though nothing in resolve_loop bounds its turns.   *)
THEOREM TypeCorrect == Spec => []TypeOK
BY AlwaysMeshInv, MeshInvImplies, PTL

(* A resolve that was sent twice looks for no third link (CHANGELOG.md:57).  *)
THEOREM ResentAtMostOnce == Spec => []ResentOnce
BY AlwaysMeshInv, MeshInvImplies, PTL

(* No link is handed the same request twice, with any number of links.      *)
THEOREM OncePerLink == Spec => []NeverTwiceOnALink
BY AlwaysMeshInv, MeshInvImplies, PTL

-----------------------------------------------------------------------------
(* The version and the entries.  The version is one cell for the whole      *)
(* client, and any task may read or write it.  What keeps it from reaching  *)
(* a link of another server is the order of attempt: a link is marked down  *)
(* before the runner goes back for another one, and the version is          *)
(* forgotten before that one opens.                                         *)

(* The runner has a link, and has not marked it down yet. *)
AtLink == {"pumping", "clearReady", "stampDown", "markDown"}

(* Nobody knows of a link before it was opened. *)
KnownLinksOpened ==
    /\ \A l \in Links : link[l].arm # "none" => l <= opened
    /\ inner.ready <= opened
    /\ \A r \in Requests : req[r].pc \in SendPcs => req[r].link <= opened

(* All links but the runner's are down. *)
EarlierLinksDown ==
    \A l \in Links : l < opened \/ (l = opened /\ runner \notin AtLink) => link[l].down

(* A newer version is the last link's, and it is forgotten before the next. *)
VersionOfLastLink ==
    inner.version = 2 => /\ runner # "connecting"
                         /\ \A l \in Links : l = opened => link[l].newer

(* What a request says, a server it was stamped for or a later one did. *)
NewerSince(s) ==
    s <= opened /\ \E l \in Links : s <= l /\ l <= opened /\ link[l].newer

StampsNegotiated ==
    \A r \in Requests : req[r].stamp # NoLink => NewerSince(req[r].stamp)

VersionInv ==
    KnownLinksOpened /\ EarlierLinksDown /\ VersionOfLastLink /\ StampsNegotiated

LEMMA InitVersionInv == Init => VersionInv /\ NoLeakedEntries
BY MeshAssumption
    DEF Init, VersionInv, KnownLinksOpened, EarlierLinksDown, VersionOfLastLink,
        StampsNegotiated, NoLeakedEntries, Fresh, SendPcs, NoLink, Links

(* A link that is up is the last one, so the stamp is of it or of one before. *)
LEMMA StampsOfLink ==
    ASSUME MeshInv, VersionInv
    PROVE  VersionOfItsLink
<1> SUFFICES ASSUME NEW r \in Requests, req[r].pc \in {"check", "send"},
                    req[r].stamp # NoLink, ~link[req[r].link].down
             PROVE  \E l \in req[r].stamp .. req[r].link : link[l].newer
    BY DEF VersionOfItsLink
<1>1. req[r].link \in Links /\ req[r].link <= opened
    BY DEF MeshInv, LinkHeld, VersionInv, KnownLinksOpened, SendPcs
<1>2. req[r].link = opened
    BY <1>1 DEF VersionInv, EarlierLinksDown, MeshInv, TypeOK, Links
<1>3. req[r].stamp \in Links
    BY DEF MeshInv, TypeOK, ReqRecord
<1>4. PICK l \in Links : req[r].stamp <= l /\ l <= opened /\ link[l].newer
    BY DEF VersionInv, StampsNegotiated, NewerSince
<1> QED BY <1>2, <1>3, <1>4 DEF Links

-----------------------------------------------------------------------------
(* What no step undoes, and what only a step of its own request changes. *)

Grows ==
    /\ opened <= opened'
    /\ \A l \in Links : (link[l].down => link'[l].down) /\ (link[l].newer => link'[l].newer)

Still ==
    \A r \in Requests :
        req'[r].pc = req[r].pc /\ req'[r].link = req[r].link /\ req'[r].stamp = req[r].stamp

SameEntries ==
    inner'.pending \cup inner'.cids \subseteq inner.pending \cup inner.cids

LEMMA RequestFields ==
    ASSUME NEW x \in ReqRecord, NEW a
    PROVE  /\ [x EXCEPT !.readyBell = TRUE].pc = x.pc
           /\ [x EXCEPT !.readyBell = TRUE].link = x.link
           /\ [x EXCEPT !.readyBell = TRUE].stamp = x.stamp
           /\ [x EXCEPT !.settledBell = TRUE].pc = x.pc
           /\ [x EXCEPT !.settledBell = TRUE].link = x.link
           /\ [x EXCEPT !.settledBell = TRUE].stamp = x.stamp
           /\ [x EXCEPT !.reply = a].pc = x.pc
           /\ [x EXCEPT !.reply = a].link = x.link
           /\ [x EXCEPT !.reply = a].stamp = x.stamp
BY DEF ReqRecord

LEMMA CallsAreStill ==
    ASSUME req \in [Requests -> ReqRecord], NEW answer,
           RingReady \/ RingSettled \/ AnswerAll(answer) \/ req' = req
    PROVE  Still
<1>1. \A r \in Requests : req[r] \in ReqRecord
    OBVIOUS
<1>2. CASE RingReady
    BY <1>1, <1>2, RequestFields DEF RingReady, Still
<1>3. CASE RingSettled
    BY <1>1, <1>3, RequestFields DEF RingSettled, Still
<1>4. CASE AnswerAll(answer)
    BY <1>1, <1>4, RequestFields DEF AnswerAll, Still
<1>5. CASE req' = req
    BY <1>5 DEF Still
<1> QED BY <1>2, <1>3, <1>4, <1>5

LEMMA StampsStay ==
    ASSUME opened \in Nat, opened' \in Nat, Grows, NEW s \in Links, NewerSince(s)
    PROVE  NewerSince(s)'
<1>1. PICK l \in Links : s <= l /\ l <= opened /\ link[l].newer
    BY DEF NewerSince
<1>2. l <= opened' /\ s <= opened' /\ link'[l].newer
    BY <1>1 DEF Grows, Links, NewerSince
<1> QED BY <1>1, <1>2 DEF NewerSince

LEMMA OneLinkGrows ==
    ASSUME link \in [Links -> LinkRecord], NEW k \in Links, NEW x,
           link' = [link EXCEPT ![k] = x],
           link[k].down => x.down, link[k].newer => x.newer
    PROVE  \A l \in Links : (link[l].down => link'[l].down) /\ (link[l].newer => link'[l].newer)
OBVIOUS

LEMMA LinkFields ==
    ASSUME NEW x \in LinkRecord, NEW a, NEW n
    PROVE  /\ [x EXCEPT !.open = FALSE].down = x.down
           /\ [x EXCEPT !.open = FALSE].newer = x.newer
           /\ [x EXCEPT !.open = FALSE].arm = x.arm
           /\ [x EXCEPT !.open = TRUE, !.arm = a].down = x.down
           /\ [x EXCEPT !.open = TRUE, !.arm = a].newer = x.newer
           /\ [x EXCEPT !.down = TRUE].down
           /\ [x EXCEPT !.down = TRUE].newer = x.newer
           /\ [x EXCEPT !.down = TRUE].arm = x.arm
           /\ [x EXCEPT !.welcome = TRUE, !.open = FALSE].down = x.down
           /\ [x EXCEPT !.welcome = TRUE, !.open = FALSE].newer = x.newer
           /\ [x EXCEPT !.welcome = TRUE, !.open = FALSE].arm = x.arm
           /\ [x EXCEPT !.arm = a].down = x.down
           /\ [x EXCEPT !.arm = a].newer = x.newer
           /\ [x EXCEPT !.welcome = TRUE, !.arm = a].down = x.down
           /\ [x EXCEPT !.welcome = TRUE, !.arm = a].newer = x.newer
           /\ [x EXCEPT !.arm = a, !.wasReady = TRUE].down = x.down
           /\ [x EXCEPT !.arm = a, !.wasReady = TRUE].newer = x.newer
           /\ [x EXCEPT !.welcome = TRUE].down = x.down
           /\ [x EXCEPT !.welcome = TRUE].newer = x.newer
           /\ [x EXCEPT !.welcome = TRUE].arm = x.arm
           /\ [x EXCEPT !.welcome = TRUE, !.newer = n].down = x.down
           /\ [x EXCEPT !.welcome = TRUE, !.newer = n].newer = n
           /\ [x EXCEPT !.welcome = TRUE, !.newer = n].arm = x.arm
BY DEF LinkRecord

-----------------------------------------------------------------------------
(* The runner. *)

LEMMA RunnerLinks ==
    ASSUME MeshInv, RunnerStep
    PROVE  /\ Grows
           /\ \A l \in Links : link'[l].arm # "none" => link[l].arm # "none" \/ l = opened'
<1> USE MeshAssumption
<1>t. /\ opened \in 0 .. MaxLinks /\ link \in [Links -> LinkRecord]
      /\ \A l \in Links : link[l] \in LinkRecord
    BY DEF MeshInv, TypeOK
<1>1. CASE ConnectSucceeds
  <2>1. /\ link' = [link EXCEPT ![opened + 1] = [@ EXCEPT !.open = TRUE, !.arm = "waiting"]]
        /\ opened' = opened + 1
    BY <1>1 DEF ConnectSucceeds
  <2> QED BY <1>t, <2>1, LinkFields DEF Grows
<1>2. CASE MarkDown
  <2>1. /\ link' = [link EXCEPT ![opened] = [@ EXCEPT !.down = TRUE]]
        /\ opened' = opened
    BY <1>2 DEF MarkDown
  <2> QED BY <1>t, <2>1, LinkFields DEF Grows
<1>3. CASE EndAttempt
  <2>1. /\ link' = [link EXCEPT ![opened] = [@ EXCEPT !.welcome = TRUE, !.open = FALSE]]
        /\ opened' = opened
    BY <1>3 DEF EndAttempt
  <2> QED BY <1>t, <2>1, LinkFields DEF Grows
<1>4. CASE link' = link /\ opened' = opened
    BY <1>t, <1>4 DEF Grows
<1> QED BY <1>1, <1>2, <1>3, <1>4
    DEF RunnerStep, StartAttempt, RunnerStops, ConnectFails, PeerCloses, PumpStops,
        ClearReady, StampDown, BackOff, Woken, WaitElapses

LEMMA RunnerCells ==
    ASSUME MeshInv, RunnerStep
    PROVE  /\ SameEntries
           /\ inner'.ready \in {inner.ready, NoLink}
           /\ inner'.version \in {inner.version, 0}
           /\ runner' = "connecting" => inner'.version = 0
<1>t. inner \in InnerRecord
    BY DEF MeshInv, TypeOK
<1>1. CASE StartAttempt
    BY <1>t, <1>1 DEF StartAttempt, InnerRecord, SameEntries
<1>2. CASE ConnectSucceeds
    BY <1>t, <1>2 DEF ConnectSucceeds, RunnerGoes, InnerRecord, SameEntries
<1>3. CASE ConnectFails
    BY <1>t, <1>3 DEF ConnectFails, RunnerGoes, InnerRecord, SameEntries
<1>4. CASE ClearReady
    BY <1>t, <1>4 DEF ClearReady, RunnerGoes, InnerRecord, SameEntries
<1>5. CASE StampDown
    BY <1>t, <1>5 DEF StampDown, RunnerGoes, InnerRecord, SameEntries
<1>6. CASE EndAttempt
    BY <1>t, <1>6 DEF EndAttempt, RunnerGoes, InnerRecord, SameEntries
<1>7. CASE WaitElapses
    BY <1>t, <1>7 DEF WaitElapses, RunnerGoes, InnerRecord, SameEntries
<1>8. CASE inner' = inner /\ runner' # "connecting"
    BY <1>8 DEF SameEntries
<1> QED BY <1>1, <1>2, <1>3, <1>4, <1>5, <1>6, <1>7, <1>8
    DEF RunnerStep, RunnerGoes, RunnerStops, PeerCloses, PumpStops, MarkDown, BackOff, Woken

LEMMA RunnerIsStill ==
    ASSUME MeshInv, RunnerStep
    PROVE  Still
<1>1. RingSettled \/ req' = req
    BY DEF RunnerStep, StartAttempt, RunnerStops, ConnectSucceeds, ConnectFails, PeerCloses,
        PumpStops, ClearReady, StampDown, MarkDown, EndAttempt, BackOff, Woken, WaitElapses
<1> QED BY <1>1, CallsAreStill DEF MeshInv, TypeOK

(* Where the runner is: it leaves a link only by marking it down. *)
LEMMA RunnerLeavesDown ==
    ASSUME MeshInv, EarlierLinksDown, RunnerStep
    PROVE  EarlierLinksDown' /\ (opened' = opened \/ runner = "connecting")
<1>t. /\ opened \in 0 .. MaxLinks /\ link \in [Links -> LinkRecord]
      /\ \A l \in Links : link[l] \in LinkRecord
    BY DEF MeshInv, TypeOK
<1>g. \A l \in Links : link[l].down => link'[l].down
    BY RunnerLinks DEF Grows
<1>1. CASE ConnectSucceeds
  <2>1. runner = "connecting" /\ runner' = "pumping" /\ opened' = opened + 1
    BY <1>1 DEF ConnectSucceeds, RunnerGoes
  <2>2. ASSUME NEW l \in Links, l < opened' PROVE link[l].down
    <3>1. l < opened \/ l = opened
      BY <1>t, <2>1, <2>2 DEF Links
    <3> QED BY <2>1, <3>1 DEF EarlierLinksDown, AtLink
  <2> QED BY <1>t, <1>g, <2>1, <2>2 DEF EarlierLinksDown, AtLink
<1>2. CASE MarkDown
  <2>1. opened' = opened /\ link' = [link EXCEPT ![opened] = [@ EXCEPT !.down = TRUE]]
    BY <1>2 DEF MarkDown
  <2>2. \A l \in Links : l = opened => link'[l].down
    BY <1>t, <2>1, LinkFields
  <2> QED BY <1>g, <2>1, <2>2 DEF EarlierLinksDown
<1>3. CASE opened' = opened /\ (runner' \notin AtLink => runner \notin AtLink)
    BY <1>g, <1>3 DEF EarlierLinksDown
<1> QED BY <1>1, <1>2, <1>3
    DEF RunnerStep, RunnerGoes, StartAttempt, RunnerStops, ConnectFails, PeerCloses, PumpStops,
        ClearReady, StampDown, EndAttempt, BackOff, Woken, WaitElapses, AtLink

-----------------------------------------------------------------------------
(* A step that moves no request. *)
LEMMA SystemKeeps ==
    ASSUME MeshInv, VersionInv, NoLeakedEntries, opened \in Nat, opened' \in Nat,
           Still, SameEntries, Grows,
           \A l \in Links : link'[l].arm # "none" => l <= opened',
           inner'.ready <= opened', EarlierLinksDown', VersionOfLastLink'
    PROVE  VersionInv' /\ NoLeakedEntries'
<1>1. \A r \in Requests : req[r].pc \in SendPcs => req[r].link \in Links /\ req[r].link <= opened
    BY DEF MeshInv, LinkHeld, VersionInv, KnownLinksOpened
<1>2. KnownLinksOpened'
  <2>1. ASSUME NEW r \in Requests, req'[r].pc \in SendPcs PROVE req'[r].link <= opened'
    <3>1. req'[r].link \in Links /\ req'[r].link <= opened
      BY <1>1, <2>1 DEF Still
    <3> QED BY <3>1 DEF Grows, Links
  <2> QED BY <2>1 DEF KnownLinksOpened
<1>3. StampsNegotiated'
  <2> SUFFICES ASSUME NEW r \in Requests, NEW s, s = req'[r].stamp, s # NoLink
               PROVE  NewerSince(s)'
    BY DEF StampsNegotiated, NewerSince
  <2>1. s \in Links /\ NewerSince(s)
    BY DEF Still, VersionInv, StampsNegotiated, MeshInv, TypeOK, ReqRecord
  <2> QED BY <2>1, StampsStay DEF NewerSince
<1>4. NoLeakedEntries'
  <2> SUFFICES ASSUME NEW r \in inner'.pending \cup inner'.cids
               PROVE  req'[r].pc \notin {"idle", "register", "done"}
    BY DEF NoLeakedEntries
  <2>1. r \in inner.pending \cup inner.cids
    BY DEF SameEntries
  <2>2. r \in Requests
    BY <2>1 DEF MeshInv, TypeOK, InnerRecord
  <2> QED BY <2>1, <2>2 DEF NoLeakedEntries, Still
<1> QED BY <1>2, <1>3, <1>4 DEF VersionInv

LEMMA RunnerKeepsVersions ==
    ASSUME MeshInv, VersionInv, NoLeakedEntries, RunnerStep
    PROVE  VersionInv' /\ NoLeakedEntries'
<1>t. /\ opened \in Nat /\ opened' \in Nat /\ opened \in 0 .. MaxLinks
      /\ inner.ready \in Nat
  <2>1. opened \in 0 .. MaxLinks /\ opened' \in 0 .. MaxLinks
    BY RunnerPreserves DEF MeshInv, TypeOK
  <2> QED BY <2>1 DEF MeshInv, TypeOK, InnerRecord, Links, NoLink
<1>1. Grows /\ Still /\ SameEntries /\ EarlierLinksDown'
    BY RunnerLinks, RunnerIsStill, RunnerCells, RunnerLeavesDown DEF VersionInv
<1>2. \A l \in Links : link'[l].arm # "none" => l <= opened'
  <2> SUFFICES ASSUME NEW l \in Links, link'[l].arm # "none" PROVE l <= opened'
    OBVIOUS
  <2>1. l <= opened \/ l = opened'
    BY RunnerLinks DEF VersionInv, KnownLinksOpened
  <2> QED BY <1>t, <1>1, <2>1 DEF Grows, Links
<1>3. inner'.ready <= opened'
  <2>1. inner.ready <= opened /\ opened <= opened' /\ inner'.ready \in {inner.ready, 0}
    BY <1>1, RunnerCells DEF VersionInv, KnownLinksOpened, Grows, NoLink
  <2>2. CASE inner'.ready = inner.ready
    BY <1>t, <2>1, <2>2
  <2>3. CASE inner'.ready = 0
    BY <1>t, <2>3
  <2> QED BY <2>1, <2>2, <2>3
<1>4. VersionOfLastLink'
  <2> SUFFICES ASSUME inner'.version = 2
               PROVE  runner' # "connecting" /\ \A l \in Links : l = opened' => link'[l].newer
    BY DEF VersionOfLastLink
  <2>1. inner.version = 2 /\ runner' # "connecting"
    BY RunnerCells
  <2>2. runner # "connecting" /\ \A l \in Links : l = opened => link[l].newer
    BY <2>1 DEF VersionInv, VersionOfLastLink
  <2>3. opened' = opened
    BY <2>2, RunnerLeavesDown DEF VersionInv
  <2> QED BY <1>1, <2>1, <2>2, <2>3 DEF Grows
<1> QED BY <1>t, <1>1, <1>2, <1>3, <1>4, SystemKeeps

(* Steps that leave the runner and its count of links alone. *)
LEMMA OthersKeepVersions ==
    ASSUME MeshInv, VersionInv, NoLeakedEntries,
           runner' = runner, opened' = opened, Still, SameEntries, Grows,
           \A l \in Links : link'[l].arm # "none" => link[l].arm # "none",
           inner'.ready <= opened,
           inner'.version = 2 =>
               \/ inner.version = 2
               \/ runner # "connecting" /\ \A l \in Links : l = opened => link'[l].newer
    PROVE  VersionInv' /\ NoLeakedEntries'
<1>1. opened \in Nat
    BY DEF MeshInv, TypeOK
<1>2. EarlierLinksDown'
    BY DEF VersionInv, EarlierLinksDown, Grows
<1>3. VersionOfLastLink'
    BY DEF VersionInv, VersionOfLastLink, Grows
<1>4. \A l \in Links : link'[l].arm # "none" => l <= opened'
    BY DEF VersionInv, KnownLinksOpened
<1> QED BY <1>1, <1>2, <1>3, <1>4, SystemKeeps

LEMMA ArmLinks ==
    ASSUME MeshInv, NEW k \in Links, ArmStep(k)
    PROVE  /\ Grows
           /\ \A l \in Links : link'[l].arm # "none" => link[l].arm # "none"
<1>t. /\ opened \in Nat /\ link \in [Links -> LinkRecord]
      /\ \A l \in Links : link[l] \in LinkRecord
    BY DEF MeshInv, TypeOK
<1>1. link[k].arm # "none" /\ opened' = opened
    BY DEF ArmStep, ArmGoes, WelcomeSettled, WelcomeTimesOut, AssumeOldServer, CheckOpen,
        PublishReady, SettleReady
<1>2. PICK x : /\ link' = [link EXCEPT ![k] = x]
               /\ x.down = link[k].down /\ x.newer = link[k].newer
  <2>1. \A a : /\ [link[k] EXCEPT !.arm = a].down = link[k].down
               /\ [link[k] EXCEPT !.arm = a].newer = link[k].newer
               /\ [link[k] EXCEPT !.welcome = TRUE, !.arm = a].down = link[k].down
               /\ [link[k] EXCEPT !.welcome = TRUE, !.arm = a].newer = link[k].newer
               /\ [link[k] EXCEPT !.arm = a, !.wasReady = TRUE].down = link[k].down
               /\ [link[k] EXCEPT !.arm = a, !.wasReady = TRUE].newer = link[k].newer
    BY <1>t, LinkFields
  <2>2. CASE \E a, b : ArmGoes(k, a, b)
    <3>1. PICK b : link' = [link EXCEPT ![k] = [link[k] EXCEPT !.arm = b]]
      BY <2>2 DEF ArmGoes
    <3> QED BY <2>1, <3>1
  <2>3. CASE WelcomeTimesOut(k)
    <3>1. PICK b : link' = [link EXCEPT ![k] = [link[k] EXCEPT !.welcome = TRUE, !.arm = b]]
      BY <2>3 DEF WelcomeTimesOut
    <3> QED BY <2>1, <3>1
  <2>4. CASE PublishReady(k)
    <3>1. link' = [link EXCEPT ![k] = [link[k] EXCEPT !.arm = "settle", !.wasReady = TRUE]]
      BY <2>4 DEF PublishReady
    <3> QED BY <2>1, <3>1
  <2> QED BY <2>2, <2>3, <2>4 DEF ArmStep, WelcomeSettled, AssumeOldServer, CheckOpen, SettleReady
<1>3. Grows
    BY <1>t, <1>1, <1>2, OneLinkGrows DEF Grows
<1> QED BY <1>t, <1>1, <1>2, <1>3

LEMMA ArmKeepsVersions ==
    ASSUME MeshInv, VersionInv, NoLeakedEntries, NEW k \in Links, ArmStep(k)
    PROVE  VersionInv' /\ NoLeakedEntries'
<1>t. inner \in InnerRecord /\ req \in [Requests -> ReqRecord]
    BY DEF MeshInv, TypeOK
<1>1. runner' = runner /\ opened' = opened
    BY DEF ArmStep, WelcomeSettled, WelcomeTimesOut, AssumeOldServer, CheckOpen,
        PublishReady, SettleReady
<1>2. Still
  <2>1. RingReady \/ RingSettled \/ req' = req
    BY DEF ArmStep, WelcomeSettled, WelcomeTimesOut, AssumeOldServer, CheckOpen,
        PublishReady, SettleReady
  <2> QED BY <1>t, <2>1, CallsAreStill
<1>3. /\ SameEntries
      /\ inner'.ready \in {inner.ready, k}
      /\ inner'.ready = inner.ready \/ link[k].arm = "publish"
      /\ inner'.version = 2 => inner.version = 2
  <2>1. CASE AssumeOldServer(k)
    <3>1. OldServer(inner.version) = 2 => inner.version = 2
      BY DEF OldServer
    <3> QED BY <1>t, <2>1, <3>1 DEF AssumeOldServer, InnerRecord, SameEntries
  <2>2. CASE PublishReady(k)
    BY <1>t, <2>2 DEF PublishReady, InnerRecord, SameEntries
  <2>3. CASE SettleReady(k)
    BY <1>t, <2>3 DEF SettleReady, InnerRecord, SameEntries
  <2>4. CASE inner' = inner
    BY <2>4 DEF SameEntries
  <2> QED BY <2>1, <2>2, <2>3, <2>4 DEF ArmStep, WelcomeSettled, WelcomeTimesOut, CheckOpen
<1>4. inner'.ready <= opened
    BY <1>3 DEF VersionInv, KnownLinksOpened
<1> QED BY <1>1, <1>2, <1>3, <1>4, ArmLinks, OthersKeepVersions

LEMMA AnsweredFields ==
    ASSUME NEW x \in InnerRecord, NEW c, NEW p, NEW b
    PROVE  /\ [x EXCEPT !.cids = c, !.pending = p, !.limited = b].cids = c
           /\ [x EXCEPT !.cids = c, !.pending = p, !.limited = b].pending = p
           /\ [x EXCEPT !.cids = c, !.pending = p, !.limited = b].ready = x.ready
           /\ [x EXCEPT !.cids = c, !.pending = p, !.limited = b].version = x.version
BY DEF InnerRecord

(* A welcome comes over the last link, which is the runner's. *)
LEMMA LinkKeepsVersions ==
    ASSUME MeshInv, VersionInv, NoLeakedEntries, NEW k \in Links, LinkStep(k)
    PROVE  VersionInv' /\ NoLeakedEntries'
<1>t. /\ inner \in InnerRecord /\ req \in [Requests -> ReqRecord] /\ opened \in Nat
      /\ link \in [Links -> LinkRecord] /\ link[k] \in LinkRecord
    BY DEF MeshInv, TypeOK
<1>1. runner' = runner /\ opened' = opened
    BY DEF LinkStep, OnWelcome, OnUnreadableWelcome, OnAnswer, OnRateLimitedAll,
        LinkAborted, ProbeFails
<1>2. Still
  <2>1. CASE OnRateLimitedAll(k)
    BY <1>t, <2>1, CallsAreStill DEF OnRateLimitedAll
  <2>2. ASSUME NEW r \in Requests, NEW answer, OnAnswer(k, r, answer) PROVE Still
    <3>1. req' = [req EXCEPT ![r] = [req[r] EXCEPT !.reply = answer]] \/ req' = req
      BY <2>2 DEF OnAnswer
    <3> DEFINE x == [req[r] EXCEPT !.reply = answer]
    <3>2. x.pc = req[r].pc /\ x.link = req[r].link /\ x.stamp = req[r].stamp
      BY <1>t, RequestFields
    <3> HIDE DEF x
    <3>3. req' = [req EXCEPT ![r] = x] \/ req' = req
      BY <3>1 DEF x
    <3> QED BY <1>t, <3>2, <3>3 DEF Still
  <2>3. CASE req' = req
    BY <2>3 DEF Still
  <2> QED BY <2>1, <2>2, <2>3
      DEF LinkStep, OnWelcome, OnUnreadableWelcome, LinkAborted, ProbeFails
<1>3. SameEntries /\ inner'.ready = inner.ready
  <2>1. CASE \E v \in Versions : OnWelcome(k, v)
    BY <1>t, <2>1 DEF OnWelcome, InnerRecord, SameEntries
  <2>2. CASE OnUnreadableWelcome(k)
    BY <1>t, <2>2 DEF OnUnreadableWelcome, InnerRecord, SameEntries
  <2>3. ASSUME NEW r \in Requests, NEW answer, OnAnswer(k, r, answer)
        PROVE  SameEntries /\ inner'.ready = inner.ready
    <3>1. PICK b : inner' = [inner EXCEPT !.cids = inner.cids \ {r},
                                          !.pending = inner.pending \ {r}, !.limited = b]
      BY <2>3 DEF OnAnswer
    <3> QED BY <1>t, <3>1, AnsweredFields DEF SameEntries
  <2>4. CASE OnRateLimitedAll(k)
    BY <1>t, <2>4 DEF OnRateLimitedAll, InnerRecord, SameEntries
  <2>5. CASE inner' = inner
    BY <2>5 DEF SameEntries
  <2> QED BY <2>1, <2>2, <2>3, <2>4, <2>5 DEF LinkStep, LinkAborted, ProbeFails
<1>4. Grows /\ \A l \in Links : link'[l].arm # "none" => link[l].arm # "none"
  <2>1. CASE \E v \in Versions : OnWelcome(k, v)
    <3>1. PICK n \in {link[k].newer, TRUE} :
             link' = [link EXCEPT ![k] = [link[k] EXCEPT !.welcome = TRUE, !.newer = n]]
      <4>1. PICK v \in Versions : OnWelcome(k, v)
        BY <2>1
      <4>2. link' = [link EXCEPT ![k] = [link[k] EXCEPT !.welcome = TRUE,
                                                        !.newer = link[k].newer \/ v = 2]]
        BY <4>1 DEF OnWelcome
      <4>3. link[k].newer \in BOOLEAN
        BY <1>t DEF LinkRecord
      <4>4. CASE v = 2
        BY <4>2, <4>4
      <4>5. CASE v # 2
        BY <4>2, <4>3, <4>5
      <4> QED BY <4>4, <4>5
    <3> DEFINE x == [link[k] EXCEPT !.welcome = TRUE, !.newer = n]
    <3>2. /\ x.down = link[k].down /\ x.arm = link[k].arm /\ (link[k].newer => x.newer)
      BY <1>t, LinkFields
    <3> HIDE DEF x
    <3>3. link' = [link EXCEPT ![k] = x]
      BY <3>1 DEF x
    <3> QED BY <1>t, <1>1, <3>2, <3>3, OneLinkGrows DEF Grows
  <2>2. CASE OnUnreadableWelcome(k)
    <3>1. link' = [link EXCEPT ![k] = [link[k] EXCEPT !.welcome = TRUE]]
      BY <2>2 DEF OnUnreadableWelcome
    <3> QED BY <1>t, <1>1, <3>1, LinkFields, OneLinkGrows DEF Grows
  <2>3. CASE Abort(k)
    <3>1. link' = [link EXCEPT ![k] = [link[k] EXCEPT !.open = FALSE]]
      BY <2>3 DEF Abort
    <3> QED BY <1>t, <1>1, <3>1, LinkFields, OneLinkGrows DEF Grows
  <2>4. CASE link' = link
    BY <1>t, <1>1, <2>4 DEF Grows
  <2> QED BY <2>1, <2>2, <2>3, <2>4
      DEF LinkStep, OnAnswer, OnRateLimitedAll, LinkAborted, ProbeFails
<1>5. inner'.version = 2 =>
          \/ inner.version = 2
          \/ runner # "connecting" /\ \A l \in Links : l = opened => link'[l].newer
  <2>1. CASE \E v \in Versions : OnWelcome(k, v)
    <3>1. PICK v \in Versions : OnWelcome(k, v)
      BY <2>1
    <3>2. inner'.version = v /\ k = opened /\ runner = "pumping"
      BY <1>t, <3>1 DEF OnWelcome, Hears, InnerRecord
    <3>3. ASSUME v = 2 PROVE link'[k].newer
      <4>1. link' = [link EXCEPT ![k] = [link[k] EXCEPT !.welcome = TRUE, !.newer = TRUE]]
        BY <3>1, <3>3 DEF OnWelcome
      <4> QED BY <1>t, <4>1, LinkFields
    <3> QED BY <3>2, <3>3
  <2>2. CASE OnUnreadableWelcome(k)
    <3>1. OldServer(inner.version) = 2 => inner.version = 2
      BY DEF OldServer
    <3> QED BY <1>t, <2>2, <3>1 DEF OnUnreadableWelcome, InnerRecord
  <2>3. ASSUME NEW r \in Requests, NEW answer, OnAnswer(k, r, answer)
        PROVE  inner'.version = inner.version
    <3>1. PICK b : inner' = [inner EXCEPT !.cids = inner.cids \ {r},
                                          !.pending = inner.pending \ {r}, !.limited = b]
      BY <2>3 DEF OnAnswer
    <3> QED BY <1>t, <3>1, AnsweredFields
  <2>4. CASE OnRateLimitedAll(k)
    BY <1>t, <2>4 DEF OnRateLimitedAll, InnerRecord
  <2>5. CASE inner' = inner
    BY <2>5
  <2> QED BY <2>1, <2>2, <2>3, <2>4, <2>5 DEF LinkStep, LinkAborted, ProbeFails
<1>6. inner'.ready <= opened
    BY <1>3 DEF VersionInv, KnownLinksOpened
<1> QED BY <1>1, <1>2, <1>3, <1>4, <1>5, <1>6, OthersKeepVersions

LEMMA EventKeepsVersions ==
    ASSUME MeshInv, VersionInv, NoLeakedEntries, LinkGoesMute \/ StopStep \/ TimerStep
    PROVE  VersionInv' /\ NoLeakedEntries'
<1>t. /\ inner \in InnerRecord /\ req \in [Requests -> ReqRecord] /\ opened \in Nat
    BY DEF MeshInv, TypeOK
<1>1. runner' = runner /\ opened' = opened /\ link' = link
    BY DEF LinkGoesMute, StopStep, StopBegins, StopFailsPending, StopReturns,
        TimerStep, GraceExpires, CooldownEnds
<1>2. Still
  <2>1. AnswerAll("unreachable") \/ req' = req
    BY DEF LinkGoesMute, StopStep, StopBegins, StopFailsPending, StopReturns,
        TimerStep, GraceExpires, CooldownEnds
  <2> QED BY <1>t, <2>1, CallsAreStill
<1>3. SameEntries /\ inner'.ready = inner.ready /\ inner'.version = inner.version
  <2>1. CASE StopBegins
    BY <1>t, <2>1 DEF StopBegins, InnerRecord, SameEntries
  <2>2. CASE StopFailsPending
    BY <1>t, <2>2 DEF StopFailsPending, InnerRecord, SameEntries
  <2>3. CASE TimerStep
    BY <1>t, <2>3 DEF TimerStep, GraceExpires, CooldownEnds, InnerRecord, SameEntries
  <2>4. CASE inner' = inner
    BY <2>4 DEF SameEntries
  <2> QED BY <2>1, <2>2, <2>3, <2>4 DEF LinkGoesMute, StopStep, StopReturns
<1>4. Grows
    BY <1>t, <1>1 DEF Grows
<1>5. inner'.ready <= opened
    BY <1>3 DEF VersionInv, KnownLinksOpened
<1> QED BY <1>1, <1>2, <1>3, <1>4, <1>5, OthersKeepVersions

-----------------------------------------------------------------------------
(* A step of request r. *)

(* The locals r goes on with; an entry of its own is kept only while it runs. *)
Stamped(r, x) ==
    /\ x.pc \in SendPcs => x.link <= opened
    /\ x.stamp = req[r].stamp \/ x.stamp = NoLink \/ NewerSince(x.stamp)

EntriesKept(r, x) ==
    \A q \in inner'.pending \cup inner'.cids :
        IF q = r THEN x.pc \notin {"idle", "register", "done"}
                 ELSE q \in inner.pending \cup inner.cids

LEMMA OneRequestKeeps ==
    ASSUME MeshInv, MeshInv', VersionInv, NoLeakedEntries, NEW r \in Requests, NEW x,
           Update(r, x), Stamped(r, x), EntriesKept(r, x),
           runner' = runner, opened' = opened, Grows,
           \A l \in Links : link'[l].arm = link[l].arm,
           inner'.ready = inner.ready, inner'.version = inner.version
    PROVE  VersionInv' /\ NoLeakedEntries'
<1>t. /\ req \in [Requests -> ReqRecord] /\ opened \in Nat /\ opened' \in Nat
      /\ inner' \in InnerRecord
    BY DEF MeshInv, TypeOK
<1>0. \A q \in Requests : req'[q].stamp # NoLink => req'[q].stamp \in Links
    BY DEF MeshInv, TypeOK, ReqRecord
<1>1. req'[r] = x /\ \A q \in Requests \ {r} : req'[q] = req[q]
    BY <1>t DEF Update
<1>2. KnownLinksOpened'
    BY <1>1 DEF VersionInv, KnownLinksOpened, Stamped
<1>3. EarlierLinksDown' /\ VersionOfLastLink'
    BY DEF VersionInv, EarlierLinksDown, VersionOfLastLink, Grows
<1>4. StampsNegotiated'
  <2> SUFFICES ASSUME NEW q \in Requests, NEW s, s = req'[q].stamp, s # NoLink
               PROVE  NewerSince(s)'
    BY DEF StampsNegotiated, NewerSince
  <2>1. s \in Links /\ NewerSince(s)
    <3>1. CASE q = r /\ NewerSince(x.stamp)
      BY <1>0, <1>1, <3>1
    <3>2. CASE q = r /\ x.stamp = req[r].stamp
      BY <1>0, <1>1, <3>2 DEF VersionInv, StampsNegotiated
    <3>3. CASE q # r
      BY <1>0, <1>1, <3>3 DEF VersionInv, StampsNegotiated
    <3> QED BY <1>1, <3>1, <3>2, <3>3 DEF Stamped
  <2> QED BY <1>t, <2>1, StampsStay DEF NewerSince
<1>5. NoLeakedEntries'
  <2> SUFFICES ASSUME NEW q \in inner'.pending \cup inner'.cids
               PROVE  req'[q].pc \notin {"idle", "register", "done"}
    BY DEF NoLeakedEntries
  <2>1. q \in Requests
    BY <1>t DEF InnerRecord
  <2> QED BY <1>1, <2>1 DEF EntriesKept, NoLeakedEntries
<1> QED BY <1>2, <1>3, <1>4, <1>5 DEF VersionInv

LEMMA ReturnKeeps ==
    ASSUME MeshInv, MeshInv', VersionInv, NoLeakedEntries, NEW r \in Requests, NEW answer,
           Return(r, answer), UNCHANGED Others
    PROVE  VersionInv' /\ NoLeakedEntries'
<1>t. inner \in InnerRecord /\ opened \in Nat
    BY DEF MeshInv, TypeOK
<1> DEFINE x == [Fresh EXCEPT !.pc = "done"]
<1>1. x.pc = "done" /\ x.stamp = NoLink /\ Update(r, x)
    BY DEF Return, Fresh
<1> HIDE DEF x
<1>2. Stamped(r, x)
    BY <1>1 DEF Stamped, SendPcs
<1>3. /\ inner'.pending = inner.pending \ {r} /\ inner'.cids = inner.cids \ {r}
      /\ inner'.ready = inner.ready /\ inner'.version = inner.version
  <2> DEFINE p == inner.pending \ {r}
             c == inner.cids \ {r}
  <2>1. inner' = [inner EXCEPT !.pending = p, !.cids = c]
    BY DEF Return
  <2>2. ASSUME NEW a, NEW b
        PROVE  LET i == [inner EXCEPT !.pending = a, !.cids = b]
               IN  i.pending = a /\ i.cids = b /\ i.ready = inner.ready /\ i.version = inner.version
    BY <1>t DEF InnerRecord
  <2> QED BY <2>1, <2>2
<1>4. EntriesKept(r, x)
    BY <1>3 DEF EntriesKept
<1>5. Grows
    BY <1>t DEF Grows, Others
<1> QED BY <1>1, <1>2, <1>3, <1>4, <1>5, OneRequestKeeps DEF Others

LEMMA ContinueKeeps ==
    ASSUME MeshInv, MeshInv', VersionInv, NoLeakedEntries, NEW r \in Requests, NEW x,
           Continue(r, x), Stamped(r, x), UNCHANGED Others,
           x.pc \in {"idle", "register", "done"} => req[r].pc \in {"idle", "register", "done"}
    PROVE  VersionInv' /\ NoLeakedEntries'
<1>1. EntriesKept(r, x)
    BY DEF EntriesKept, Continue, NoLeakedEntries
<1>2. Grows
    BY DEF Grows, Others, MeshInv, TypeOK
<1> QED BY <1>1, <1>2, OneRequestKeeps DEF Continue, Others

LEMMA GotoKeeps ==
    ASSUME MeshInv, MeshInv', VersionInv, NoLeakedEntries, NEW r \in Requests, NEW pc,
           Goto(r, pc), UNCHANGED Others,
           pc \in SendPcs => pc # "take" /\ req[r].pc \in {"check", "send"},
           pc \in {"idle", "register", "done"} => req[r].pc \in {"idle", "register", "done"}
    PROVE  VersionInv' /\ NoLeakedEntries'
<1> DEFINE x == [req[r] EXCEPT !.pc = pc]
<1>1. Continue(r, x)
    BY DEF Goto
<1>2. x.pc = pc /\ x.link = req[r].link /\ x.stamp = req[r].stamp
  <2>1. req[r] \in ReqRecord
    BY DEF MeshInv, TypeOK
  <2> QED BY <2>1 DEF ReqRecord
<1> HIDE DEF x
<1>3. Stamped(r, x)
    BY <1>2 DEF Stamped, VersionInv, KnownLinksOpened, SendPcs
<1> QED BY <1>1, <1>2, <1>3, ContinueKeeps

LEMMA UseReadyKeeps ==
    ASSUME MeshInv, MeshInv', VersionInv, NoLeakedEntries, NEW r \in Requests,
           UseReadyLink(r), UNCHANGED Others
    PROVE  VersionInv' /\ NoLeakedEntries'
<1> DEFINE x == [req[r] EXCEPT !.pc = "take", !.link = inner.ready, !.woke = FALSE,
                               !.out = FALSE, !.readyBell = FALSE, !.settledBell = FALSE]
<1>1. Continue(r, x)
    BY DEF UseReadyLink
<1>2. x.pc = "take" /\ x.link = inner.ready /\ x.stamp = req[r].stamp
  <2>1. req[r] \in ReqRecord
    BY DEF MeshInv, TypeOK
  <2> QED BY <2>1 DEF ReqRecord
<1> HIDE DEF x
<1>3. Stamped(r, x)
    BY <1>2 DEF Stamped, VersionInv, KnownLinksOpened
<1> QED BY <1>1, <1>2, <1>3, ContinueKeeps

(* The stamp itself: the version is the last link's, and r's link is that   *)
(* one or down.                                                             *)
LEMMA ReadVersionKeeps ==
    ASSUME MeshInv, MeshInv', VersionInv, NoLeakedEntries, NEW r \in Requests, ReadVersion(r)
    PROVE  VersionInv' /\ NoLeakedEntries'
<1> DEFINE x == [req[r] EXCEPT !.pc = "check", !.stamp = StampOf(r)]
<1>1. Continue(r, x) /\ req[r].pc = "take" /\ UNCHANGED Others
    BY DEF ReadVersion, At
<1>2. x.pc = "check" /\ x.stamp = StampOf(r) /\ x.link = req[r].link
  <2>1. req[r] \in ReqRecord
    BY DEF MeshInv, TypeOK
  <2> QED BY <2>1 DEF ReqRecord
<1> HIDE DEF x
<1>3. req[r].link \in Links /\ req[r].link <= opened
    BY <1>1 DEF MeshInv, LinkHeld, VersionInv, KnownLinksOpened, SendPcs
<1>4. ASSUME inner.version = 2 PROVE NewerSince(req[r].link)
  <2>1. opened \in Links
    BY <1>3 DEF MeshInv, TypeOK, Links
  <2>2. link[opened].newer
    BY <1>4, <2>1 DEF VersionInv, VersionOfLastLink
  <2> QED BY <1>3, <2>1, <2>2 DEF NewerSince, Links
<1>5. Stamped(r, x)
    BY <1>2, <1>3, <1>4 DEF Stamped, StampOf
<1> QED BY <1>1, <1>2, <1>5, ContinueKeeps

(* Going on within the wait for a link, with any other locals. *)
LEMMA WaitingKeeps ==
    ASSUME MeshInv, MeshInv', VersionInv, NoLeakedEntries, NEW r \in Requests, NEW x,
           Continue(r, x), UNCHANGED Others, x.pc \in WaitPcs, x.stamp = req[r].stamp
    PROVE  VersionInv' /\ NoLeakedEntries'
<1>1. x.pc \notin SendPcs /\ x.pc \notin {"idle", "register", "done"}
    BY DEF WaitPcs, SendPcs
<1>2. Stamped(r, x)
    BY <1>1 DEF Stamped, SendPcs
<1> QED BY <1>1, <1>2, ContinueKeeps

LEMMA WaitKeepsVersions ==
    ASSUME MeshInv, MeshInv', VersionInv, NoLeakedEntries, NEW r \in Requests, WaitStep(r)
    PROVE  VersionInv' /\ NoLeakedEntries'
<1>t. req[r] \in ReqRecord /\ inner \in InnerRecord /\ opened \in Nat
    BY DEF MeshInv, TypeOK
<1>o. UNCHANGED Others
    BY DEF WaitStep, Subscribe, Look, Nudge, Listen, CheckFlight, SelectReady,
        SelectGraceEnd, SelectSettled, Others
<1>g. ASSUME NEW pc \in WaitPcs, Goto(r, pc) PROVE VersionInv' /\ NoLeakedEntries'
    BY <1>o, <1>g, GotoKeeps DEF WaitPcs, SendPcs
<1>1. CASE Subscribe(r)
  <2> DEFINE x == [req[r] EXCEPT !.pc = "look", !.readyBell = FALSE,
                                 !.settledBell = FALSE, !.out = FALSE]
  <2>1. Continue(r, x) /\ x.pc \in WaitPcs /\ x.stamp = req[r].stamp
    BY <1>t, <1>1 DEF Subscribe, ReqRecord, WaitPcs
  <2> HIDE DEF x
  <2> QED BY <1>o, <2>1, WaitingKeeps
<1>2. CASE Look(r)
    BY <1>o, <1>g, <1>2, UseReadyKeeps DEF Look, WaitPcs
<1>3. CASE Nudge(r)
  <2> DEFINE x == [req[r] EXCEPT !.pc = "listen", !.woke = TRUE]
  <2>1. x.pc = "listen" /\ x.stamp = req[r].stamp /\ Update(r, x)
    BY <1>t, <1>3 DEF Nudge, ReqRecord
  <2> HIDE DEF x
  <2>2. /\ inner'.pending = inner.pending /\ inner'.cids = inner.cids
        /\ inner'.ready = inner.ready /\ inner'.version = inner.version
    <3>1. PICK b : inner' = [inner EXCEPT !.wake = b]
      BY <1>3 DEF Nudge
    <3> QED BY <1>t, <3>1 DEF InnerRecord
  <2>3. Stamped(r, x) /\ EntriesKept(r, x)
    BY <2>1, <2>2 DEF Stamped, SendPcs, EntriesKept
  <2>4. Grows
    BY <1>t, <1>o DEF Grows, Others
  <2> QED BY <1>o, <2>1, <2>2, <2>3, <2>4, OneRequestKeeps DEF Others
<1>4. CASE Listen(r)
  <2> DEFINE pc == IF inner.graceOver THEN "flight" ELSE "select"
             x == [req[r] EXCEPT !.pc = pc, !.out = inner.graceOver]
  <2>1. pc \in WaitPcs
    BY DEF WaitPcs
  <2> HIDE DEF pc
  <2>2. Continue(r, x) /\ x.pc \in WaitPcs /\ x.stamp = req[r].stamp
    BY <1>t, <1>4, <2>1 DEF Listen, ReqRecord, pc
  <2> HIDE DEF x
  <2> QED BY <1>o, <2>2, WaitingKeeps
<1>5. CASE CheckFlight(r)
    BY <1>o, <1>g, <1>5, ReturnKeeps DEF CheckFlight, WaitPcs
<1>6. CASE SelectReady(r)
  <2> DEFINE x == [req[r] EXCEPT !.pc = "subscribe", !.woke = FALSE]
  <2>1. Continue(r, x) /\ x.pc \in WaitPcs /\ x.stamp = req[r].stamp
    BY <1>t, <1>6 DEF SelectReady, ReqRecord, WaitPcs
  <2> HIDE DEF x
  <2> QED BY <1>o, <2>1, WaitingKeeps
<1>7. CASE SelectGraceEnd(r)
    BY <1>g, <1>7 DEF SelectGraceEnd, WaitPcs
<1>8. CASE SelectSettled(r)
    BY <1>o, <1>8, UseReadyKeeps, ReturnKeeps DEF SelectSettled
<1> QED BY <1>1, <1>2, <1>3, <1>4, <1>5, <1>6, <1>7, <1>8 DEF WaitStep

LEMMA DroppedKeeps ==
    ASSUME MeshInv, MeshInv', VersionInv, NoLeakedEntries, NEW r \in Requests, UNCHANGED Others,
           Dropped(r) \/ TryAgain(r, req[r].drops)
    PROVE  VersionInv' /\ NoLeakedEntries'
<1>t. req[r] \in ReqRecord
    BY DEF MeshInv, TypeOK
<1>1. ASSUME NEW d, TryAgain(r, d) PROVE VersionInv' /\ NoLeakedEntries'
  <2> DEFINE x == [req[r] EXCEPT !.pc = "subscribe", !.drops = d, !.link = NoLink]
  <2>1. Continue(r, x) /\ x.pc \in WaitPcs /\ x.stamp = req[r].stamp
    BY <1>t, <1>1 DEF TryAgain, ReqRecord, WaitPcs
  <2> HIDE DEF x
  <2> QED BY <2>1, WaitingKeeps
<1> QED BY <1>1, ReturnKeeps DEF Dropped

LEMMA SendKeepsVersions ==
    ASSUME MeshInv, MeshInv', VersionInv, NoLeakedEntries, NEW r \in Requests, SendStep(r)
    PROVE  VersionInv' /\ NoLeakedEntries'
<1>t. /\ req[r] \in ReqRecord /\ inner \in InnerRecord /\ opened \in Nat
      /\ link \in [Links -> LinkRecord] /\ \A l \in Links : link[l] \in LinkRecord
    BY DEF MeshInv, TypeOK
<1>1. CASE TakeReply(r)
    BY <1>1, ReturnKeeps DEF TakeReply
<1>2. CASE ReadVersion(r)
    BY <1>2, ReadVersionKeeps
<1>3. CASE CheckLink(r)
    BY <1>3, GotoKeeps DEF CheckLink, At, SendPcs
<1>4. CASE SendCounted(r) \/ SendFails(r)
  <2>1. PICK x : Update(r, x) /\ x.pc \in {"await", "unsent"} /\ x.stamp = req[r].stamp
    <3>1. CASE SendCounted(r)
      <4> DEFINE y == [req[r] EXCEPT !.pc = "await", !.sends = @ + 1]
      <4>1. y.pc = "await" /\ y.stamp = req[r].stamp /\ Update(r, y)
        BY <1>t, <3>1 DEF SendCounted, ReqRecord
      <4> QED BY <4>1
    <3>2. CASE SendFails(r)
      <4> DEFINE y == [req[r] EXCEPT !.pc = "unsent"]
      <4>1. y.pc = "unsent" /\ y.stamp = req[r].stamp /\ Update(r, y)
        BY <1>t, <3>2 DEF SendFails, ReqRecord
      <4> QED BY <4>1
    <3> QED BY <1>4, <3>1, <3>2
  <2>2. inner' = inner /\ runner' = runner /\ opened' = opened
    BY <1>4 DEF SendCounted, SendFails, Others
  <2>3. Stamped(r, x) /\ EntriesKept(r, x)
    BY <2>1, <2>2 DEF Stamped, SendPcs, EntriesKept
  <2>4. Grows /\ \A l \in Links : link'[l].arm = link[l].arm
    <3>1. CASE link' = link
      BY <1>t, <2>2, <3>1 DEF Grows
    <3>2. CASE At(r, "send") /\ Abort(req[r].link)
      <4>1. req[r].link \in Links
        BY <3>2 DEF MeshInv, LinkHeld, SendPcs, At
      <4>2. link' = [link EXCEPT ![req[r].link] = [link[req[r].link] EXCEPT !.open = FALSE]]
        BY <3>2 DEF Abort
      <4> QED BY <1>t, <2>2, <4>1, <4>2, LinkFields, OneLinkGrows DEF Grows
    <3> QED BY <1>4, <3>1, <3>2 DEF SendCounted, SendFails, Others
  <2> QED BY <2>1, <2>2, <2>3, <2>4, OneRequestKeeps
<1>5. CASE SendSkipped(r)
    BY <1>5, GotoKeeps DEF SendSkipped, SendPcs
<1>6. CASE UnsentLinkDown(r)
    BY <1>6, DroppedKeeps DEF UnsentLinkDown
<1>7. CASE UnsentGivesUp(r)
    BY <1>7, ReturnKeeps DEF UnsentGivesUp
<1>8. CASE AwaitLinkDown(r)
    BY <1>8, DroppedKeeps, ReturnKeeps DEF AwaitLinkDown
<1> QED BY <1>1, <1>2, <1>3, <1>4, <1>5, <1>6, <1>7, <1>8 DEF SendStep

LEMMA RequestKeepsVersions ==
    ASSUME MeshInv, MeshInv', VersionInv, NoLeakedEntries, NEW r \in Requests, RequestStep(r)
    PROVE  VersionInv' /\ NoLeakedEntries'
<1>t. req[r] \in ReqRecord /\ inner \in InnerRecord /\ opened \in Nat
    BY DEF MeshInv, TypeOK
<1>1. CASE Begin(r)
    BY <1>1, ReturnKeeps, GotoKeeps DEF Begin, At, SendPcs
<1>2. CASE Register(r)
  <2> DEFINE x == [req[r] EXCEPT !.pc = "subscribe"]
  <2>1. x.pc = "subscribe" /\ x.stamp = req[r].stamp /\ Update(r, x)
    BY <1>t, <1>2 DEF Register, ReqRecord
  <2> HIDE DEF x
  <2>2. /\ inner'.pending = inner.pending \cup {r} /\ inner'.cids = inner.cids \cup {r}
        /\ inner'.ready = inner.ready /\ inner'.version = inner.version
    <3>1. inner' = [inner EXCEPT !.pending = inner.pending \cup {r}, !.cids = inner.cids \cup {r}]
      BY <1>2 DEF Register
    <3>2. ASSUME NEW a, NEW b
          PROVE  LET i == [inner EXCEPT !.pending = a, !.cids = b]
                 IN  i.pending = a /\ i.cids = b /\ i.ready = inner.ready /\ i.version = inner.version
      BY <1>t DEF InnerRecord
    <3> QED BY <3>1, <3>2
  <2>3. Stamped(r, x) /\ EntriesKept(r, x)
    BY <2>1, <2>2 DEF Stamped, SendPcs, EntriesKept
  <2>4. Grows /\ runner' = runner /\ opened' = opened /\ link' = link
    BY <1>t, <1>2 DEF Register, Grows, Others
  <2> QED BY <2>1, <2>2, <2>3, <2>4, OneRequestKeeps
<1>3. CASE WaitStep(r)
    BY <1>3, WaitKeepsVersions
<1>4. CASE SendStep(r)
    BY <1>4, SendKeepsVersions
<1>5. CASE DeadlinePasses(r)
    BY <1>5, ReturnKeeps DEF DeadlinePasses
<1> QED BY <1>1, <1>2, <1>3, <1>4, <1>5 DEF RequestStep

-----------------------------------------------------------------------------
LEMMA NextKeepsVersions ==
    ASSUME MeshInv, MeshInv', VersionInv, NoLeakedEntries, [Next]_vars
    PROVE  VersionInv' /\ NoLeakedEntries'
<1>1. CASE Next
    BY <1>1, RunnerKeepsVersions, ArmKeepsVersions, LinkKeepsVersions, EventKeepsVersions,
       RequestKeepsVersions DEF Next
<1>2. CASE UNCHANGED vars
    BY <1>2 DEF vars, VersionInv, KnownLinksOpened, EarlierLinksDown, VersionOfLastLink,
       StampsNegotiated, NewerSince, NoLeakedEntries, At
<1> QED BY <1>1, <1>2

LEMMA AlwaysVersionInv == Spec => [](VersionInv /\ NoLeakedEntries)
<1>1. MeshInv /\ MeshInv' /\ VersionInv /\ NoLeakedEntries /\ [Next]_vars
          => (VersionInv /\ NoLeakedEntries)'
    BY NextKeepsVersions
<1> QED BY <1>1, InitVersionInv, AlwaysMeshInv, PTL DEF Spec

(* resolve_loop: whoever is about to send version 2 has it from a server it *)
(* went out to, at the earliest the one of the link it was stamped for, or  *)
(* its link is down, with any number of links.                              *)
THEOREM VersionAlwaysOfItsLink == Spec => []VersionOfItsLink
BY AlwaysMeshInv, AlwaysVersionInv, StampsOfLink, PTL

(* PendingGuard: an entry of either map belongs to a resolve that runs, for *)
(* any number of resolves at once.                                          *)
THEOREM EntriesNeverLeak == Spec => []NoLeakedEntries
BY AlwaysVersionInv, PTL

-----------------------------------------------------------------------------
(* What a resolve returns.  Only a step of its own ends it; an answer in    *)
(* the server's name is only left for one that was sent.                    *)

HasHeard(r) == \E l \in Links : r \in sentOn[l]
EndedIsDone == \A r \in Requests : result[r] # "none" => At(r, "done")
AnswerWasSent == \A r \in Requests : req[r].reply = "answered" => HasHeard(r)
ReplyInv == EndedIsDone /\ AnswerWasSent

LEMMA InitReplyInv == Init => ReplyInv
BY DEF Init, ReplyInv, EndedIsDone, AnswerWasSent, Fresh

(* A step of the others: at the most, an answer arrives.                     *)
Arrives ==
    /\ UNCHANGED <<result, sentOn>>
    /\ \A r \in Requests :
          /\ req'[r].pc = req[r].pc
          /\ \/ req'[r].reply = req[r].reply
             \/ req'[r].reply \in ClientAnswers
             \/ HasHeard(r)

LEMMA ReplyFields ==
    ASSUME NEW x \in ReqRecord, NEW a
    PROVE  /\ [x EXCEPT !.readyBell = TRUE].pc = x.pc
           /\ [x EXCEPT !.readyBell = TRUE].reply = x.reply
           /\ [x EXCEPT !.settledBell = TRUE].pc = x.pc
           /\ [x EXCEPT !.settledBell = TRUE].reply = x.reply
           /\ [x EXCEPT !.reply = a].pc = x.pc
           /\ [x EXCEPT !.reply = a].reply = a
BY DEF ReqRecord

LEMMA CallsArrive ==
    ASSUME req \in [Requests -> ReqRecord], UNCHANGED <<result, sentOn>>,
           RingReady \/ RingSettled \/ (\E answer \in ClientAnswers : AnswerAll(answer)) \/ req' = req
    PROVE  Arrives
<1>1. \A r \in Requests : req[r] \in ReqRecord
    OBVIOUS
<1>2. CASE RingReady
    BY <1>1, <1>2, ReplyFields DEF RingReady, Arrives
<1>3. CASE RingSettled
    BY <1>1, <1>3, ReplyFields DEF RingSettled, Arrives
<1>4. CASE \E answer \in ClientAnswers : AnswerAll(answer)
  <2>1. PICK answer \in ClientAnswers : AnswerAll(answer)
    BY <1>4
  <2> QED BY <1>1, <2>1, ReplyFields DEF AnswerAll, Arrives
<1>5. CASE req' = req
    BY <1>5 DEF Arrives
<1> QED BY <1>2, <1>3, <1>4, <1>5

LEMMA SystemArrives ==
    ASSUME MeshInv,
           \/ RunnerStep \/ LinkGoesMute \/ StopStep \/ TimerStep
           \/ \E l \in Links : ArmStep(l) \/ LinkStep(l)
           \/ UNCHANGED vars
    PROVE  Arrives
<1>t. req \in [Requests -> ReqRecord] /\ \A r \in Requests : req[r] \in ReqRecord
    BY DEF MeshInv, TypeOK
<1>1. CASE RunnerStep
  <2>1. (RingSettled \/ req' = req) /\ UNCHANGED <<result, sentOn>>
    BY <1>1 DEF RunnerStep, StartAttempt, RunnerStops, ConnectSucceeds, ConnectFails, PeerCloses,
        PumpStops, ClearReady, StampDown, MarkDown, EndAttempt, BackOff, Woken, WaitElapses
  <2> QED BY <1>t, <2>1, CallsArrive
<1>2. CASE LinkGoesMute \/ StopStep \/ TimerStep
  <2>1. ((\E answer \in ClientAnswers : AnswerAll(answer)) \/ req' = req) /\ UNCHANGED <<result, sentOn>>
    BY <1>2 DEF LinkGoesMute, StopStep, StopBegins, StopFailsPending, StopReturns, TimerStep,
        GraceExpires, CooldownEnds, ClientAnswers
  <2> QED BY <1>t, <2>1, CallsArrive
<1>3. ASSUME NEW l \in Links, ArmStep(l) PROVE Arrives
  <2>1. (RingReady \/ RingSettled \/ req' = req) /\ UNCHANGED <<result, sentOn>>
    BY <1>3 DEF ArmStep, ArmGoes, WelcomeSettled, WelcomeTimesOut, AssumeOldServer, CheckOpen,
        PublishReady, SettleReady
  <2> QED BY <1>t, <2>1, CallsArrive
<1>4. ASSUME NEW l \in Links, LinkStep(l) PROVE Arrives
  <2>1. CASE \E r \in Requests, answer \in {"answered", "rateLimited"} : OnAnswer(l, r, answer)
    <3>1. PICK r \in Requests, answer \in {"answered", "rateLimited"} : OnAnswer(l, r, answer)
      BY <2>1
    <3>2. HasHeard(r) /\ UNCHANGED <<result, sentOn>>
      BY <3>1 DEF OnAnswer, HasHeard
    <3>3. req' = [req EXCEPT ![r] = [req[r] EXCEPT !.reply = answer]] \/ req' = req
      BY <3>1 DEF OnAnswer
    <3>4. ASSUME NEW s \in Requests
          PROVE  /\ req'[s].pc = req[s].pc
                 /\ req'[s].reply = req[s].reply \/ req'[s].reply \in ClientAnswers \/ HasHeard(s)
      <4>1. CASE s = r /\ req' = [req EXCEPT ![r] = [req[r] EXCEPT !.reply = answer]]
        BY <1>t, <3>2, <4>1, ReplyFields
      <4>2. CASE s # r \/ req' = req
        BY <1>t, <3>3, <4>2
      <4> QED BY <3>3, <4>1, <4>2
    <3> QED BY <3>2, <3>4 DEF Arrives
  <2>2. CASE ~ \E r \in Requests, answer \in {"answered", "rateLimited"} : OnAnswer(l, r, answer)
    <3>1. /\ (\E answer \in ClientAnswers : AnswerAll(answer)) \/ req' = req
          /\ UNCHANGED <<result, sentOn>>
      BY <1>4, <2>2 DEF LinkStep, OnWelcome, OnUnreadableWelcome, OnRateLimitedAll, LinkAborted,
          ProbeFails, ClientAnswers
    <3> QED BY <1>t, <3>1, CallsArrive
  <2> QED BY <2>1, <2>2
<1>5. CASE UNCHANGED vars
    BY <1>t, <1>5, CallsArrive DEF vars
<1> QED BY <1>1, <1>2, <1>3, <1>4, <1>5

(* The steps of a resolve: it begins, goes on, or ends.                      *)
Begins(r) ==
    /\ At(r, "idle")
    /\ \E x : /\ Update(r, x)
              /\ \/ x.pc = "register" /\ x.reply = req[r].reply /\ UNCHANGED result
                 \/ x = [Fresh EXCEPT !.pc = "done"] /\ result' = [result EXCEPT ![r] = "rateLimited"]
    /\ UNCHANGED sentOn

GoesOn(r) ==
    /\ req[r].pc \notin {"idle", "done"}
    /\ \E x : Update(r, x) /\ x.pc \notin {"idle", "done"} /\ x.reply = req[r].reply
    /\ UNCHANGED result
    /\ \/ UNCHANGED sentOn
       \/ req[r].link \in Links /\ HandOver(r)

Ends(r) ==
    /\ req[r].pc \notin {"idle", "done"}
    /\ Update(r, [Fresh EXCEPT !.pc = "done"])
    /\ UNCHANGED sentOn
    /\ \E a \in (ClientAnswers \cup {req[r].reply}) \ {"none"} :
          /\ result' = [result EXCEPT ![r] = a]
          /\ req[r].pc \in {"await", "take"} /\ req[r].reply # "none" => a \in {req[r].reply, "deadline"}

LEMMA GoingOn ==
    ASSUME NEW r \in Requests, req[r] \in ReqRecord, req[r].pc \notin {"idle", "done"},
           NEW x, Continue(r, x), x.pc \notin {"idle", "done"}, x.reply = req[r].reply
    PROVE  GoesOn(r)
BY DEF GoesOn, Continue

LEMMA GotoGoesOn ==
    ASSUME NEW r \in Requests, req[r] \in ReqRecord, req[r].pc \notin {"idle", "done"},
           NEW pc, pc \notin {"idle", "done"}, Goto(r, pc)
    PROVE  GoesOn(r)
<1> DEFINE x == [req[r] EXCEPT !.pc = pc]
<1>1. x.pc = pc /\ x.reply = req[r].reply /\ Continue(r, x)
    BY DEF ReqRecord, Goto
<1> HIDE DEF x
<1> QED BY <1>1, GoingOn

LEMMA ReturnEnds ==
    ASSUME NEW r \in Requests, req[r].pc \notin {"idle", "done"},
           NEW a \in (ClientAnswers \cup {req[r].reply}) \ {"none"}, Return(r, a),
           req[r].pc \in {"await", "take"} /\ req[r].reply # "none" => a \in {req[r].reply, "deadline"}
    PROVE  Ends(r)
BY DEF Ends, Return

LEMMA LinkFoundGoesOn ==
    ASSUME NEW r \in Requests, req[r] \in ReqRecord, req[r].pc \notin {"idle", "done"}, UseReadyLink(r)
    PROVE  GoesOn(r)
<1> DEFINE x == [req[r] EXCEPT !.pc = "take", !.link = inner.ready, !.woke = FALSE,
                               !.out = FALSE, !.readyBell = FALSE, !.settledBell = FALSE]
<1>1. x.pc = "take" /\ x.reply = req[r].reply /\ Continue(r, x)
    BY DEF ReqRecord, UseReadyLink
<1> HIDE DEF x
<1> QED BY <1>1, GoingOn

LEMMA WaitSteps ==
    ASSUME MeshInv, NEW r \in Requests, WaitStep(r)
    PROVE  GoesOn(r) \/ Ends(r)
<1>t. req[r] \in ReqRecord
    BY DEF MeshInv, TypeOK
<1>p. req[r].pc \in WaitPcs /\ req[r].pc \notin {"idle", "done", "await", "take"}
    BY DEF WaitStep, Subscribe, Look, Nudge, Listen, CheckFlight, SelectReady, SelectGraceEnd,
       SelectSettled, At, WaitPcs
<1>1. CASE Subscribe(r)
  <2> DEFINE x == [req[r] EXCEPT !.pc = "look", !.readyBell = FALSE, !.settledBell = FALSE, !.out = FALSE]
  <2>1. x.pc = "look" /\ x.reply = req[r].reply /\ Continue(r, x)
    BY <1>t, <1>1 DEF ReqRecord, Subscribe
  <2> HIDE DEF x
  <2> QED BY <1>t, <1>p, <2>1, GoingOn
<1>2. CASE Nudge(r)
  <2> DEFINE x == [req[r] EXCEPT !.pc = "listen", !.woke = TRUE]
  <2>1. x.pc = "listen" /\ x.reply = req[r].reply /\ Update(r, x) /\ UNCHANGED <<sentOn, result>>
    BY <1>t, <1>2 DEF ReqRecord, Nudge
  <2> HIDE DEF x
  <2> QED BY <1>p, <2>1 DEF GoesOn
<1>3. CASE Listen(r)
  <2> DEFINE pc == IF inner.graceOver THEN "flight" ELSE "select"
             x == [req[r] EXCEPT !.pc = pc, !.out = inner.graceOver]
  <2>1. pc \notin {"idle", "done"}
    OBVIOUS
  <2> HIDE DEF pc
  <2>2. x.pc = pc /\ x.reply = req[r].reply /\ Continue(r, x)
    BY <1>t, <1>3 DEF ReqRecord, Listen, pc
  <2> HIDE DEF x
  <2> QED BY <1>t, <1>p, <2>1, <2>2, GoingOn
<1>4. CASE SelectReady(r)
  <2> DEFINE x == [req[r] EXCEPT !.pc = "subscribe", !.woke = FALSE]
  <2>1. x.pc = "subscribe" /\ x.reply = req[r].reply /\ Continue(r, x)
    BY <1>t, <1>4 DEF ReqRecord, SelectReady
  <2> HIDE DEF x
  <2> QED BY <1>t, <1>p, <2>1, GoingOn
<1>5. CASE Look(r) \/ SelectGraceEnd(r)
    BY <1>t, <1>p, <1>5, LinkFoundGoesOn, GotoGoesOn DEF Look, SelectGraceEnd
<1>6. CASE CheckFlight(r) \/ SelectSettled(r)
  <2>1. "unreachable" \in (ClientAnswers \cup {req[r].reply}) \ {"none"}
    BY DEF ClientAnswers
  <2> QED BY <1>t, <1>p, <1>6, <2>1, LinkFoundGoesOn, GotoGoesOn, ReturnEnds DEF CheckFlight, SelectSettled
<1> QED BY <1>1, <1>2, <1>3, <1>4, <1>5, <1>6 DEF WaitStep

LEMMA DroppedGoes ==
    ASSUME NEW r \in Requests, req[r] \in ReqRecord, req[r].pc \notin {"idle", "done"},
           req[r].pc # "await" \/ req[r].reply = "none", req[r].pc # "take",
           Dropped(r) \/ TryAgain(r, req[r].drops)
    PROVE  GoesOn(r) \/ Ends(r)
<1>1. ASSUME NEW d, TryAgain(r, d) PROVE GoesOn(r)
  <2> DEFINE x == [req[r] EXCEPT !.pc = "subscribe", !.drops = d, !.link = NoLink]
  <2>1. x.pc = "subscribe" /\ x.reply = req[r].reply /\ Continue(r, x)
    BY <1>1 DEF TryAgain, ReqRecord
  <2> HIDE DEF x
  <2> QED BY <2>1, GoingOn
<1>2. "unreachable" \in (ClientAnswers \cup {req[r].reply}) \ {"none"}
    BY DEF ClientAnswers
<1> QED BY <1>1, <1>2, ReturnEnds DEF Dropped

LEMMA SendSteps ==
    ASSUME MeshInv, NEW r \in Requests, SendStep(r)
    PROVE  GoesOn(r) \/ Ends(r)
<1>t. req[r] \in ReqRecord
    BY DEF MeshInv, TypeOK
<1>p. req[r].pc \notin {"idle", "done"}
    BY DEF SendStep, TakeReply, ReadVersion, CheckLink, SendCounted, SendFails, SendSkipped,
       UnsentLinkDown, UnsentGivesUp, AwaitLinkDown, At
<1>1. CASE TakeReply(r)
  <2>1. req[r].reply \in (ClientAnswers \cup {req[r].reply}) \ {"none"}
    BY <1>1 DEF TakeReply
  <2> QED BY <1>p, <1>1, <2>1, ReturnEnds DEF TakeReply
<1>2. CASE ReadVersion(r)
  <2> DEFINE x == [req[r] EXCEPT !.pc = "check", !.stamp = StampOf(r)]
  <2>1. x.pc = "check" /\ x.reply = req[r].reply /\ Continue(r, x)
    BY <1>t, <1>2 DEF ReqRecord, ReadVersion
  <2> HIDE DEF x
  <2> QED BY <1>t, <1>p, <2>1, GoingOn
<1>3. CASE CheckLink(r) \/ SendSkipped(r)
    BY <1>t, <1>p, <1>3, GotoGoesOn DEF CheckLink, SendSkipped
<1>4. CASE SendCounted(r) \/ SendFails(r)
  <2>1. req[r].link \in Links /\ HandOver(r) /\ UNCHANGED result
    BY <1>4 DEF SendCounted, SendFails, MeshInv, LinkHeld, SendPcs, At
  <2>2. PICK x : Update(r, x) /\ x.pc \in {"await", "unsent"} /\ x.reply = req[r].reply
    <3>1. CASE SendCounted(r)
      <4> DEFINE y == [req[r] EXCEPT !.pc = "await", !.sends = @ + 1]
      <4>1. y.pc = "await" /\ y.reply = req[r].reply /\ Update(r, y)
        BY <1>t, <3>1 DEF SendCounted, ReqRecord
      <4> QED BY <4>1
    <3>2. CASE SendFails(r)
      <4> DEFINE y == [req[r] EXCEPT !.pc = "unsent"]
      <4>1. y.pc = "unsent" /\ y.reply = req[r].reply /\ Update(r, y)
        BY <1>t, <3>2 DEF SendFails, ReqRecord
      <4> QED BY <4>1
    <3> QED BY <1>4, <3>1, <3>2
  <2> QED BY <1>p, <2>1, <2>2 DEF GoesOn
<1>5. CASE UnsentLinkDown(r)
    BY <1>t, <1>p, <1>5, DroppedGoes DEF UnsentLinkDown, At
<1>6. CASE UnsentGivesUp(r)
  <2>1. "unreachable" \in (ClientAnswers \cup {req[r].reply}) \ {"none"}
    BY DEF ClientAnswers
  <2> QED BY <1>p, <1>6, <2>1, ReturnEnds DEF UnsentGivesUp, At
<1>7. CASE AwaitLinkDown(r)
  <2>1. CASE req[r].reply # "none"
    <3>1. req[r].reply \in (ClientAnswers \cup {req[r].reply}) \ {"none"}
      BY <2>1
    <3> QED BY <1>p, <1>7, <2>1, <3>1, ReturnEnds DEF AwaitLinkDown
  <2>2. CASE req[r].reply = "none"
    BY <1>t, <1>p, <1>7, <2>2, DroppedGoes DEF AwaitLinkDown, At
  <2> QED BY <2>1, <2>2
<1> QED BY <1>1, <1>2, <1>3, <1>4, <1>5, <1>6, <1>7 DEF SendStep

LEMMA RequestSteps ==
    ASSUME MeshInv, NEW r \in Requests, RequestStep(r)
    PROVE  Begins(r) \/ GoesOn(r) \/ Ends(r)
<1>t. req[r] \in ReqRecord
    BY DEF MeshInv, TypeOK
<1>1. CASE Begin(r)
  <2>1. CASE inner.limited
    BY <1>1, <2>1 DEF Begin, Begins, Return
  <2>2. CASE ~inner.limited
    <3> DEFINE x == [req[r] EXCEPT !.pc = "register"]
    <3>1. x.pc = "register" /\ x.reply = req[r].reply /\ Continue(r, x)
      BY <1>t, <1>1, <2>2 DEF ReqRecord, Begin, Goto
    <3> HIDE DEF x
    <3> QED BY <1>1, <3>1 DEF Begin, Begins, Continue
  <2> QED BY <2>1, <2>2
<1>2. CASE Register(r)
  <2> DEFINE x == [req[r] EXCEPT !.pc = "subscribe"]
  <2>1. x.pc = "subscribe" /\ x.reply = req[r].reply /\ Update(r, x) /\ UNCHANGED <<sentOn, result>>
    BY <1>t, <1>2 DEF ReqRecord, Register
  <2> HIDE DEF x
  <2> QED BY <1>2, <2>1 DEF Register, At, GoesOn
<1>3. CASE DeadlinePasses(r)
  <2>1. "deadline" \in (ClientAnswers \cup {req[r].reply}) \ {"none"}
    BY DEF ClientAnswers
  <2> QED BY <1>3, <2>1, ReturnEnds DEF DeadlinePasses
<1> QED BY <1>1, <1>2, <1>3, WaitSteps, SendSteps DEF RequestStep

LEMMA StepsOfNext ==
    ASSUME MeshInv, [Next]_vars
    PROVE  Arrives \/ \E r \in Requests : Begins(r) \/ GoesOn(r) \/ Ends(r)
BY SystemArrives, RequestSteps DEF Next

LEMMA NextReplyInv ==
    ASSUME MeshInv, ReplyInv, [Next]_vars
    PROVE  ReplyInv'
<1>t. /\ req \in [Requests -> ReqRecord] /\ result \in [Requests -> Answers \cup {"none"}]
      /\ sentOn \in [Links -> SUBSET Requests]
    BY DEF MeshInv, TypeOK
<1>1. CASE Arrives
    BY <1>1 DEF Arrives, ReplyInv, EndedIsDone, AnswerWasSent, HasHeard, At, ClientAnswers
<1>2. ASSUME NEW r \in Requests, Begins(r) \/ GoesOn(r) \/ Ends(r) PROVE ReplyInv'
  <2>1. \A s \in Requests : HasHeard(s) => HasHeard(s)'
    BY <1>t, <1>2 DEF Begins, GoesOn, Ends, HandOver, HasHeard
  <2>2. PICK x : /\ Update(r, x)
                 /\ x.reply \in {req[r].reply, "none"}
                 /\ result'[r] # "none" => x.pc = "done"
    <3>1. [Fresh EXCEPT !.pc = "done"].pc = "done" /\ [Fresh EXCEPT !.pc = "done"].reply = "none"
      BY DEF Fresh
    <3> QED BY <1>t, <1>2, <3>1 DEF Begins, GoesOn, Ends, ReplyInv, EndedIsDone, At
  <2>3. \A s \in Requests \ {r} : req'[s] = req[s] /\ result'[s] = result[s]
    BY <1>t, <1>2 DEF Begins, GoesOn, Ends, Update
  <2>4. req'[r] = x
    BY <1>t, <2>2 DEF Update
  <2> QED BY <2>1, <2>2, <2>3, <2>4 DEF ReplyInv, EndedIsDone, AnswerWasSent, At
<1> QED BY <1>1, <1>2, StepsOfNext

LEMMA AlwaysReplyInv == Spec => [](MeshInv /\ ReplyInv)
<1>1. MeshInv /\ ReplyInv /\ [Next]_vars => ReplyInv'
    BY NextReplyInv
<1> QED BY <1>1, InitReplyInv, AlwaysMeshInv, PTL DEF Spec

(* resolve_loop and wait_for_reply: an answer that arrived is what the       *)
(* resolve returns, or its deadline ended it, for any number of both.        *)
THEOREM ArrivedIsReturned == Spec => AnswerIsTaken
<1> DEFINE Taken == \A r \in Requests :
          req[r].pc \in {"await", "take"} /\ req[r].reply # "none" /\ At(r, "done")'
          => result'[r] \in {req[r].reply, "deadline"}
<1>1. MeshInv /\ [Next]_vars => [Taken]_vars
  <2> SUFFICES ASSUME MeshInv, [Next]_vars, NEW r \in Requests,
                      req[r].pc \in {"await", "take"}, req[r].reply # "none", At(r, "done")'
               PROVE  result'[r] \in {req[r].reply, "deadline"}
    OBVIOUS
  <2>t. req \in [Requests -> ReqRecord] /\ result \in [Requests -> Answers \cup {"none"}]
    BY DEF MeshInv, TypeOK
  <2>1. CASE Arrives
    BY <2>1 DEF Arrives, At
  <2>2. ASSUME NEW s \in Requests, Begins(s) \/ GoesOn(s) \/ Ends(s) PROVE s = r /\ Ends(r)
    BY <2>t, <2>2 DEF Begins, GoesOn, Ends, Update, At
  <2>3. CASE Ends(r)
    BY <2>t, <2>3 DEF Ends
  <2> QED BY <2>1, <2>2, <2>3, StepsOfNext
<1>2. Spec => [][Taken]_vars
    BY <1>1, AlwaysReplyInv, PTL DEF Spec
<1> QED BY <1>2 DEF AnswerIsTaken

-----------------------------------------------------------------------------
(* The promise of Mesh::resolve. *)

LEMMA PromisedInit == Init => Promise!PromiseInit
BY DEF Init, Promise!PromiseInit, Fresh

LEMMA PromisedNext ==
    ASSUME MeshInv, ReplyInv, [Next]_vars
    PROVE  [Promise!PromiseNext]_(Promise!promiseVars)
<1> DEFINE asked == {r \in Requests : req[r].pc # "idle"}
           heard == UNION {sentOn[l] : l \in Links}
<1>t. /\ req \in [Requests -> ReqRecord] /\ result \in [Requests -> Answers \cup {"none"}]
      /\ sentOn \in [Links -> SUBSET Requests]
    BY DEF MeshInv, TypeOK
<1>1. CASE Arrives
  <2>1. UNCHANGED <<asked, heard, result>>
    BY <1>1 DEF Arrives
  <2> QED BY <2>1 DEF Promise!promiseVars
<1>2. ASSUME NEW r \in Requests, Begins(r) PROVE Promise!Ask(r)
  <2>1. PICK x : /\ Update(r, x) /\ x.pc # "idle"
                 /\ \/ UNCHANGED result
                    \/ result' = [result EXCEPT ![r] = "rateLimited"]
    BY <1>2 DEF Begins, Fresh
  <2>2. r \notin asked /\ asked' = asked \cup {r} /\ UNCHANGED heard
    BY <1>t, <1>2, <2>1 DEF Begins, Update, At
  <2> QED BY <2>1, <2>2 DEF Promise!Ask, ClientAnswers
<1>3. ASSUME NEW r \in Requests, GoesOn(r)
      PROVE  Promise!Tell(r) \/ UNCHANGED <<asked, heard, result>>
  <2>1. PICK x : Update(r, x) /\ x.pc \notin {"idle", "done"}
    BY <1>3 DEF GoesOn
  <2>2. r \in asked /\ UNCHANGED <<asked, result>> /\ result[r] = "none"
    BY <1>t, <1>3, <2>1 DEF GoesOn, Update, ReplyInv, EndedIsDone, At
  <2>3. CASE UNCHANGED sentOn
    BY <2>2, <2>3
  <2>4. CASE req[r].link \in Links /\ HandOver(r)
    <3>1. heard' = heard \cup {r}
      BY <1>t, <2>4 DEF HandOver
    <3> QED BY <2>2, <3>1 DEF Promise!Tell
  <2> QED BY <1>3, <2>3, <2>4 DEF GoesOn
<1>4. ASSUME NEW r \in Requests, Ends(r) PROVE Promise!Answer(r)
  <2>1. r \in asked /\ UNCHANGED <<asked, heard>> /\ result[r] = "none"
    <3>1. [Fresh EXCEPT !.pc = "done"].pc = "done"
      BY DEF Fresh
    <3> QED BY <1>t, <1>4, <3>1 DEF Ends, Update, ReplyInv, EndedIsDone, At
  <2>2. PICK a \in (ClientAnswers \cup {req[r].reply}) \ {"none"} : result' = [result EXCEPT ![r] = a]
    BY <1>4 DEF Ends
  <2>3. a \in ClientAnswers \/ (a = "answered" /\ r \in heard)
    <3>1. req[r].reply \in ClientAnswers \cup {"answered", "none"}
      BY <1>t DEF ReqRecord, Answers
    <3>2. req[r].reply = "answered" => r \in heard
      BY DEF ReplyInv, AnswerWasSent, HasHeard
    <3> QED BY <2>2, <3>1, <3>2
  <2>4. a \in Promise!AnswersFor(r)
    BY <2>3 DEF Promise!AnswersFor
  <2> QED BY <2>1, <2>2, <2>4 DEF Promise!Answer
<1>5. UNCHANGED <<asked, heard, result>> => UNCHANGED Promise!promiseVars
    BY DEF Promise!promiseVars
<1> QED BY <1>1, <1>2, <1>3, <1>4, <1>5, StepsOfNext DEF Promise!PromiseNext

(* MeshClient implements ResolvePromise: step by step, for every number of   *)
(* resolves and links, it answers each resolve once, and in the server's     *)
(* name only one that it sent.                                               *)
THEOREM PromiseKept == Spec => KeepsPromise
<1>1. MeshInv /\ ReplyInv /\ [Next]_vars => [Promise!PromiseNext]_(Promise!promiseVars)
    BY PromisedNext
<1>2. Spec => Promise!PromiseInit /\ [][Promise!PromiseNext]_(Promise!promiseVars)
    BY <1>1, PromisedInit, AlwaysReplyInv, PTL DEF Spec
<1> QED BY <1>2 DEF KeepsPromise, Promise!PromiseSteps


-----------------------------------------------------------------------------
(* No wake-up is lost: whatever makes a link ready, or settles a connect,    *)
(* rings the bell of who waits for it, in the same step.                     *)

Listening == WaitPcs \ {"subscribe", "look"}

(* A resolve with the locals x, while a link is ready or a connect in flight. *)
Hearing(x, ready, flight) ==
    /\ x.pc \in Listening /\ ready => x.readyBell
    /\ x.pc = "select" /\ x.out => x.settledBell \/ flight

WakeInv ==
    /\ inner.inFlight => Attempting
    /\ \A r \in Requests : Hearing(req[r], HasReadyLink, inner.inFlight)

LEMMA WakeInvImplies == WakeInv => NoWakeUpLost
BY DEF WakeInv, NoWakeUpLost, Hearing, Listening, At

LEMMA InitWakeInv == Init => WakeInv
<1>1. Fresh.pc = "idle"
    BY DEF Fresh
<1>2. Init => ~inner.inFlight /\ \A r \in Requests : req[r] = Fresh
    BY DEF Init
<1> QED BY <1>1, <1>2 DEF WakeInv, Hearing, Listening, WaitPcs

LEMMA BellFields ==
    ASSUME NEW x \in ReqRecord, NEW a
    PROVE  /\ [x EXCEPT !.readyBell = TRUE].readyBell
           /\ [x EXCEPT !.readyBell = TRUE].pc = x.pc
           /\ [x EXCEPT !.readyBell = TRUE].out = x.out
           /\ [x EXCEPT !.readyBell = TRUE].settledBell = x.settledBell
           /\ [x EXCEPT !.settledBell = TRUE].settledBell
           /\ [x EXCEPT !.settledBell = TRUE].pc = x.pc
           /\ [x EXCEPT !.settledBell = TRUE].readyBell = x.readyBell
           /\ [x EXCEPT !.reply = a].pc = x.pc
           /\ [x EXCEPT !.reply = a].out = x.out
           /\ [x EXCEPT !.reply = a].readyBell = x.readyBell
           /\ [x EXCEPT !.reply = a].settledBell = x.settledBell
BY DEF ReqRecord

(* The steps of the others: a link gets ready or a connect settles only with *)
(* its bell.                                                                 *)
SystemCalls ==
    \/ RingReady /\ inner'.inFlight = inner.inFlight
    \/ RingSettled /\ (HasReadyLink' => HasReadyLink)
    \/ /\ HasReadyLink' => HasReadyLink
       /\ inner.inFlight => inner'.inFlight
       /\ \A r \in Requests : req'[r] = req[r] \/ \E a : req'[r] = [req[r] EXCEPT !.reply = a]

LEMMA CallsAreHeard ==
    ASSUME MeshInv, WakeInv, SystemCalls, NEW r \in Requests
    PROVE  Hearing(req'[r], HasReadyLink', inner'.inFlight)
<1>t. req[r] \in ReqRecord
    BY DEF MeshInv, TypeOK
<1>h. Hearing(req[r], HasReadyLink, inner.inFlight)
    BY DEF WakeInv
<1>1. CASE RingReady /\ inner'.inFlight = inner.inFlight
  <2>1. CASE req[r].pc \in WaitPcs \ {"subscribe"}
    <3>1. req'[r] = [req[r] EXCEPT !.readyBell = TRUE]
      BY <1>1, <2>1 DEF RingReady
    <3> QED BY <1>t, <1>h, <1>1, <3>1, BellFields DEF Hearing
  <2>2. CASE req[r].pc \notin WaitPcs \ {"subscribe"}
    <3>1. req'[r] = req[r]
      BY <1>1, <2>2 DEF RingReady
    <3> QED BY <2>2, <3>1 DEF Hearing, Listening, WaitPcs
  <2> QED BY <2>1, <2>2
<1>2. CASE RingSettled /\ (HasReadyLink' => HasReadyLink)
  <2>1. CASE req[r].out
    <3>1. req'[r] = [req[r] EXCEPT !.settledBell = TRUE]
      BY <1>2, <2>1 DEF RingSettled
    <3> QED BY <1>t, <1>h, <1>2, <3>1, BellFields DEF Hearing
  <2>2. CASE ~req[r].out
    <3>1. req'[r] = req[r]
      BY <1>2, <2>2 DEF RingSettled
    <3> QED BY <1>h, <1>2, <2>2, <3>1 DEF Hearing
  <2> QED BY <2>1, <2>2
<1>3. CASE /\ HasReadyLink' => HasReadyLink
           /\ inner.inFlight => inner'.inFlight
           /\ \A s \in Requests : req'[s] = req[s] \/ \E a : req'[s] = [req[s] EXCEPT !.reply = a]
  <2>1. CASE req'[r] = req[r]
    BY <1>h, <1>3, <2>1 DEF Hearing
  <2>2. ASSUME NEW a, req'[r] = [req[r] EXCEPT !.reply = a]
        PROVE  Hearing(req'[r], HasReadyLink', inner'.inFlight)
    <3>1. /\ req'[r].pc = req[r].pc /\ req'[r].out = req[r].out
          /\ req'[r].readyBell = req[r].readyBell /\ req'[r].settledBell = req[r].settledBell
      BY <1>t, <2>2, BellFields
    <3> QED BY <1>h, <1>3, <3>1 DEF Hearing
  <2> QED BY <1>3, <2>1, <2>2
<1> QED BY <1>1, <1>2, <1>3 DEF SystemCalls

(* No link comes up that was down, and none gets ready. *)
NoneGetsReady == HasReadyLink' => HasReadyLink

LEMMA StillNotReady ==
    ASSUME MeshInv, \A l \in Links : link[l].down => link'[l].down,
           inner'.ready \in {inner.ready, NoLink}
    PROVE  NoneGetsReady
<1>1. inner.ready \in Links \cup {NoLink}
    BY DEF MeshInv, TypeOK, InnerRecord
<1>2. CASE inner'.ready = NoLink
    BY <1>2 DEF NoneGetsReady, HasReadyLink
<1>3. CASE inner'.ready = inner.ready /\ inner.ready \in Links
    BY <1>3 DEF NoneGetsReady, HasReadyLink
<1> QED BY <1>1, <1>2, <1>3

LEMMA LinkStepGrows ==
    ASSUME MeshInv, NEW k \in Links, LinkStep(k)
    PROVE  \A l \in Links : link[l].down => link'[l].down
<1>t. link \in [Links -> LinkRecord] /\ link[k] \in LinkRecord
    BY DEF MeshInv, TypeOK
<1>1. ASSUME NEW v, OnWelcome(k, v)
      PROVE  \A l \in Links : link[l].down => link'[l].down
  <2> DEFINE newer == link[k].newer \/ v = 2
  <2>1. link' = [link EXCEPT ![k] = [link[k] EXCEPT !.welcome = TRUE, !.newer = newer]]
    BY <1>1 DEF OnWelcome
  <2> HIDE DEF newer
  <2>2. [link[k] EXCEPT !.welcome = TRUE, !.newer = newer].down = link[k].down
    BY <1>t, LinkFields
  <2> QED BY <1>t, <2>1, <2>2
<1>2. CASE OnUnreadableWelcome(k)
  <2>1. link' = [link EXCEPT ![k] = [link[k] EXCEPT !.welcome = TRUE]]
    BY <1>2 DEF OnUnreadableWelcome
  <2>2. [link[k] EXCEPT !.welcome = TRUE].down = link[k].down
    BY <1>t, LinkFields
  <2> QED BY <1>t, <2>1, <2>2
<1>3. CASE Abort(k)
    BY <1>t, <1>3, AbortKeepsLinksDown
<1>4. CASE link' = link
    BY <1>4
<1> QED BY <1>1, <1>2, <1>3, <1>4 DEF LinkStep, OnAnswer, OnRateLimitedAll, LinkAborted, ProbeFails

(* The runner: a connect is in flight from the start of an attempt to its    *)
(* end, which rings; and it makes no link ready.                             *)
LEMMA RunnerFlight ==
    ASSUME MeshInv, RunnerStep
    PROVE  \/ (ConnectFails \/ EndAttempt) /\ RingSettled /\ ~inner'.inFlight
           \/ StartAttempt /\ req' = req /\ inner'.inFlight
           \/ /\ req' = req /\ inner'.inFlight = inner.inFlight
              /\ Attempting => Attempting'
<1>t. inner \in InnerRecord
    BY DEF MeshInv, TypeOK
<1>1. CASE StartAttempt
    BY <1>t, <1>1 DEF StartAttempt, InnerRecord
<1>2. CASE ConnectSucceeds
    BY <1>t, <1>2 DEF ConnectSucceeds, RunnerGoes, InnerRecord, Attempting
<1>3. CASE ConnectFails
    BY <1>t, <1>3 DEF ConnectFails, InnerRecord
<1>4. CASE ClearReady
    BY <1>t, <1>4 DEF ClearReady, RunnerGoes, InnerRecord, Attempting
<1>5. CASE StampDown
    BY <1>t, <1>5 DEF StampDown, RunnerGoes, InnerRecord, Attempting
<1>6. CASE EndAttempt
    BY <1>t, <1>6 DEF EndAttempt, InnerRecord
<1>7. CASE WaitElapses
    BY <1>t, <1>7 DEF WaitElapses, RunnerGoes, InnerRecord, Attempting
<1>8. CASE RunnerStops \/ PeerCloses \/ PumpStops \/ MarkDown \/ BackOff \/ Woken
    BY <1>8 DEF RunnerStops, PeerCloses, PumpStops, MarkDown, BackOff, Woken, RunnerGoes, Attempting
<1> QED BY <1>1, <1>2, <1>3, <1>4, <1>5, <1>6, <1>7, <1>8 DEF RunnerStep

LEMMA RunnerCalls ==
    ASSUME MeshInv, WakeInv, RunnerStep
    PROVE  SystemCalls /\ (inner'.inFlight => Attempting')
<1>1. NoneGetsReady
    BY RunnerLinks, RunnerCells, StillNotReady DEF Grows
<1>2. StartAttempt => Attempting'
    BY DEF StartAttempt, RunnerGoes, Attempting
<1> QED BY <1>1, <1>2, RunnerFlight DEF SystemCalls, NoneGetsReady, WakeInv

(* The task of a link: who publishes it rings, and who settles the connect.  *)
LEMMA ArmFlight ==
    ASSUME MeshInv, NEW k \in Links, ArmStep(k)
    PROVE  \/ RingReady /\ inner'.inFlight = inner.inFlight
           \/ RingSettled /\ inner'.ready = inner.ready /\ ~inner'.inFlight
           \/ req' = req /\ inner'.ready = inner.ready /\ inner'.inFlight = inner.inFlight
<1>t. inner \in InnerRecord
    BY DEF MeshInv, TypeOK
<1>1. CASE AssumeOldServer(k)
    BY <1>t, <1>1 DEF AssumeOldServer, InnerRecord
<1>2. CASE PublishReady(k)
    BY <1>t, <1>2 DEF PublishReady, InnerRecord
<1>3. CASE SettleReady(k)
    BY <1>t, <1>3 DEF SettleReady, InnerRecord
<1>4. CASE WelcomeSettled(k) \/ WelcomeTimesOut(k) \/ CheckOpen(k)
    BY <1>4 DEF WelcomeSettled, WelcomeTimesOut, CheckOpen
<1> QED BY <1>1, <1>2, <1>3, <1>4 DEF ArmStep

LEMMA ArmCalls ==
    ASSUME MeshInv, WakeInv, NEW k \in Links, ArmStep(k)
    PROVE  SystemCalls /\ (inner'.inFlight => Attempting')
<1>1. Attempting' = Attempting
    BY DEF ArmStep, WelcomeSettled, WelcomeTimesOut, AssumeOldServer, CheckOpen, PublishReady,
        SettleReady, Attempting
<1>2. inner'.ready = inner.ready => NoneGetsReady
    BY ArmLinks, StillNotReady DEF Grows
<1> QED BY <1>1, <1>2, ArmFlight DEF SystemCalls, NoneGetsReady, WakeInv

(* All others leave both as they are, and only fill reply channels.          *)
LEMMA LeavesReady ==
    ASSUME MeshInv, WakeInv, runner' = runner,
           \A l \in Links : link[l].down => link'[l].down,
           inner'.ready = inner.ready, inner'.inFlight = inner.inFlight
    PROVE  NoneGetsReady /\ (inner.inFlight => inner'.inFlight) /\ (inner'.inFlight => Attempting')
BY StillNotReady DEF WakeInv, Attempting

OnlyReplies ==
    \A r \in Requests : req'[r] = req[r] \/ \E a : req'[r] = [req[r] EXCEPT !.reply = a]

LEMMA AnswerAllReplies ==
    ASSUME req \in [Requests -> ReqRecord], NEW answer, AnswerAll(answer)
    PROVE  OnlyReplies
BY DEF AnswerAll, OnlyReplies

LEMMA LinkCalls ==
    ASSUME MeshInv, WakeInv, NEW k \in Links, LinkStep(k)
    PROVE  SystemCalls /\ (inner'.inFlight => Attempting')
<1>t. inner \in InnerRecord /\ req \in [Requests -> ReqRecord]
    BY DEF MeshInv, TypeOK
<1>1. runner' = runner
    BY DEF LinkStep, OnWelcome, OnUnreadableWelcome, OnAnswer, OnRateLimitedAll, LinkAborted, ProbeFails
<1>2. inner'.ready = inner.ready /\ inner'.inFlight = inner.inFlight /\ OnlyReplies
  <2>1. CASE \E v \in Versions : OnWelcome(k, v)
    BY <1>t, <2>1 DEF OnWelcome, InnerRecord, OnlyReplies
  <2>2. CASE OnUnreadableWelcome(k)
    BY <1>t, <2>2 DEF OnUnreadableWelcome, InnerRecord, OnlyReplies
  <2>3. ASSUME NEW r \in Requests, NEW answer, OnAnswer(k, r, answer)
        PROVE  inner'.ready = inner.ready /\ inner'.inFlight = inner.inFlight /\ OnlyReplies
    <3>1. PICK b : inner' = [inner EXCEPT !.cids = inner.cids \ {r},
                                          !.pending = inner.pending \ {r}, !.limited = b]
      BY <2>3 DEF OnAnswer
    <3>2. inner'.ready = inner.ready /\ inner'.inFlight = inner.inFlight
      BY <1>t, <3>1 DEF InnerRecord
    <3>3. OnlyReplies
      <4>1. req' = [req EXCEPT ![r] = [req[r] EXCEPT !.reply = answer]] \/ req' = req
        BY <2>3 DEF OnAnswer
      <4> QED BY <1>t, <4>1 DEF OnlyReplies
    <3> QED BY <3>2, <3>3
  <2>4. CASE OnRateLimitedAll(k)
    <3>1. inner'.ready = inner.ready /\ inner'.inFlight = inner.inFlight
      BY <1>t, <2>4 DEF OnRateLimitedAll, InnerRecord
    <3> QED BY <1>t, <2>4, <3>1, AnswerAllReplies DEF OnRateLimitedAll
  <2>5. CASE LinkAborted(k) \/ ProbeFails(k)
    BY <2>5 DEF LinkAborted, ProbeFails, OnlyReplies
  <2> QED BY <2>1, <2>2, <2>3, <2>4, <2>5 DEF LinkStep
<1> QED BY <1>1, <1>2, LinkStepGrows, LeavesReady DEF SystemCalls, NoneGetsReady, OnlyReplies

LEMMA EventCalls ==
    ASSUME MeshInv, WakeInv, LinkGoesMute \/ StopStep \/ TimerStep \/ UNCHANGED vars
    PROVE  SystemCalls /\ (inner'.inFlight => Attempting')
<1>t. inner \in InnerRecord /\ req \in [Requests -> ReqRecord]
    BY DEF MeshInv, TypeOK
<1>1. runner' = runner /\ link' = link
    BY DEF LinkGoesMute, StopStep, StopBegins, StopFailsPending, StopReturns, TimerStep, GraceExpires,
        CooldownEnds, vars
<1>2. inner'.ready = inner.ready /\ inner'.inFlight = inner.inFlight
  <2>1. CASE StopBegins
    BY <1>t, <2>1 DEF StopBegins, InnerRecord
  <2>2. CASE StopFailsPending
    BY <1>t, <2>2 DEF StopFailsPending, InnerRecord
  <2>3. CASE TimerStep
    BY <1>t, <2>3 DEF TimerStep, GraceExpires, CooldownEnds, InnerRecord
  <2>4. CASE inner' = inner
    BY <2>4
  <2> QED BY <2>1, <2>2, <2>3, <2>4 DEF LinkGoesMute, StopStep, StopReturns, vars
<1>3. OnlyReplies
  <2>1. AnswerAll("unreachable") \/ req' = req
    BY DEF LinkGoesMute, StopStep, StopBegins, StopFailsPending, StopReturns, TimerStep,
        GraceExpires, CooldownEnds, vars
  <2> QED BY <1>t, <2>1, AnswerAllReplies DEF OnlyReplies
<1> QED BY <1>1, <1>2, <1>3, LeavesReady DEF SystemCalls, NoneGetsReady, OnlyReplies

(* A resolve: it listens only after it found no ready link, with the bell it *)
(* subscribed before; and it waits out of grace only for a connect.          *)
LEMMA ListensWell ==
    ASSUME MeshInv, WakeInv, NEW r \in Requests, RequestStep(r)
    PROVE  Hearing(req'[r], HasReadyLink, inner.inFlight)
<1>t. req \in [Requests -> ReqRecord] /\ req[r] \in ReqRecord
    BY DEF MeshInv, TypeOK
<1>h. Hearing(req[r], HasReadyLink, inner.inFlight)
    BY DEF WakeInv
<1>s. \A x : Update(r, x) => req'[r] = x
    BY <1>t DEF Update
<1>0. ASSUME req'[r].pc \notin Listening PROVE Hearing(req'[r], HasReadyLink, inner.inFlight)
    BY <1>0 DEF Hearing, Listening, WaitPcs
<1>1. CASE Look(r)
  <2>1. CASE HasReadyLink
    <3>1. req'[r].pc = "take"
      BY <1>t, <1>s, <1>1, <2>1 DEF Look, UseReadyLink, Continue, ReqRecord
    <3> QED BY <1>0, <3>1 DEF Listening, WaitPcs
  <2>2. CASE ~HasReadyLink
    <3>1. req'[r].pc = "nudge"
      BY <1>t, <1>s, <1>1, <2>2 DEF Look, Goto, Continue, ReqRecord
    <3> QED BY <2>2, <3>1 DEF Hearing
  <2> QED BY <2>1, <2>2
<1>2. CASE Nudge(r)
  <2>1. req'[r] = [req[r] EXCEPT !.pc = "listen", !.woke = TRUE] /\ req[r].pc = "nudge"
    BY <1>s, <1>2 DEF Nudge, At
  <2>2. req'[r].pc = "listen" /\ req'[r].readyBell = req[r].readyBell
    BY <1>t, <2>1 DEF ReqRecord
  <2> QED BY <1>h, <2>1, <2>2 DEF Hearing, Listening, WaitPcs
<1>3. CASE Listen(r)
  <2> DEFINE pc == IF inner.graceOver THEN "flight" ELSE "select"
  <2>1. req'[r] = [req[r] EXCEPT !.pc = pc, !.out = inner.graceOver] /\ req[r].pc = "listen"
    BY <1>s, <1>3 DEF Listen, Continue, At
  <2>2. req'[r].pc = pc /\ req'[r].out = inner.graceOver /\ req'[r].readyBell = req[r].readyBell
    <3> HIDE DEF pc
    <3> QED BY <1>t, <2>1 DEF ReqRecord
  <2> QED BY <1>h, <2>1, <2>2 DEF Hearing, Listening, WaitPcs
<1>4. CASE CheckFlight(r)
  <2>1. CASE inner.inFlight
    <3>1. req'[r] = [req[r] EXCEPT !.pc = "select"] /\ req[r].pc = "flight"
      BY <1>s, <1>4, <2>1 DEF CheckFlight, Goto, Continue, At
    <3>2. req'[r].pc = "select" /\ req'[r].readyBell = req[r].readyBell
      BY <1>t, <3>1 DEF ReqRecord
    <3> QED BY <1>h, <2>1, <3>1, <3>2 DEF Hearing, Listening, WaitPcs
  <2>2. CASE ~inner.inFlight
    <3>1. req'[r].pc = "done"
      BY <1>s, <1>4, <2>2 DEF CheckFlight, Return, Fresh
    <3> QED BY <1>0, <3>1 DEF Listening, WaitPcs
  <2> QED BY <2>1, <2>2
<1>5. CASE ~(Look(r) \/ Nudge(r) \/ Listen(r) \/ CheckFlight(r))
  <2>1. req'[r].pc \notin Listening
    <3>1. \A pc \in {"look", "subscribe", "register", "take", "check", "send", "unsent", "await"} : \A y :
              y = [req[r] EXCEPT !.pc = pc] => y.pc \notin Listening
      BY <1>t DEF ReqRecord, Listening, WaitPcs
    <3>2. ASSUME Return(r, "rateLimited") \/ Return(r, "unreachable") \/ Return(r, "deadline") \/ Return(r, req[r].reply)
          PROVE  req'[r].pc \notin Listening
      BY <1>s, <3>2 DEF Return, Fresh, Listening, WaitPcs
    <3>3. ASSUME UseReadyLink(r) PROVE req'[r].pc \notin Listening
      <4>1. req'[r].pc = "take"
        BY <1>t, <1>s, <3>3 DEF UseReadyLink, Continue, ReqRecord
      <4> QED BY <4>1 DEF Listening, WaitPcs
    <3>4. ASSUME NEW d, TryAgain(r, d) PROVE req'[r].pc \notin Listening
      <4>1. req'[r].pc = "subscribe"
        BY <1>t, <1>s, <3>4 DEF TryAgain, Continue, ReqRecord
      <4> QED BY <4>1 DEF Listening, WaitPcs
    <3>5. ASSUME NEW pc \in {"register", "subscribe", "send", "unsent"}, Goto(r, pc)
          PROVE  req'[r].pc \notin Listening
      BY <1>s, <3>1, <3>5 DEF Goto, Continue
    <3>6. CASE Begin(r) \/ TakeReply(r) \/ UnsentGivesUp(r) \/ DeadlinePasses(r) \/ SelectSettled(r)
      BY <3>2, <3>3, <3>5, <3>6 DEF Begin, TakeReply, UnsentGivesUp, DeadlinePasses, SelectSettled
    <3>7. CASE UnsentLinkDown(r) \/ AwaitLinkDown(r)
      BY <3>2, <3>4, <3>7 DEF UnsentLinkDown, AwaitLinkDown, Dropped
    <3>8. CASE CheckLink(r) \/ SendSkipped(r) \/ SelectGraceEnd(r)
      BY <3>5, <3>8 DEF CheckLink, SendSkipped, SelectGraceEnd
    <3>9. CASE Register(r) \/ SendFails(r)
      BY <1>s, <3>1, <3>9 DEF Register, SendFails
    <3>10. CASE Subscribe(r) \/ ReadVersion(r) \/ SelectReady(r) \/ SendCounted(r)
      <4>1. req'[r].pc \in {"look", "check", "subscribe", "await"}
        BY <1>t, <1>s, <3>10 DEF Subscribe, ReadVersion, SelectReady, SendCounted, Continue, ReqRecord
      <4> QED BY <4>1 DEF Listening, WaitPcs
    <3> QED BY <1>5, <3>6, <3>7, <3>8, <3>9, <3>10 DEF RequestStep, WaitStep, SendStep
  <2> QED BY <1>0, <2>1
<1> QED BY <1>1, <1>2, <1>3, <1>4, <1>5

Leaves(r) ==
    /\ inner'.ready = inner.ready /\ inner'.inFlight = inner.inFlight
    /\ \E x : Update(r, x)

LEMMA MovesLeave ==
    ASSUME inner \in InnerRecord, NEW r \in Requests
    PROVE  /\ \A x : Continue(r, x) => Leaves(r)
           /\ \A a : Return(r, a) => Leaves(r)
<1>1. ASSUME NEW x, Continue(r, x) PROVE Leaves(r)
    BY <1>1 DEF Continue, Leaves
<1>2. ASSUME NEW a, Return(r, a) PROVE Leaves(r)
  <2>1. inner' = [inner EXCEPT !.pending = inner.pending \ {r}, !.cids = inner.cids \ {r}]
    BY <1>2 DEF Return
  <2>2. inner'.ready = inner.ready /\ inner'.inFlight = inner.inFlight
    BY <2>1 DEF InnerRecord
  <2> QED BY <1>2, <2>2 DEF Return, Leaves
<1> QED BY <1>1, <1>2

LEMMA RequestLeaves ==
    ASSUME MeshInv, NEW r \in Requests, RequestStep(r)
    PROVE  /\ runner' = runner /\ Leaves(r)
           /\ \A l \in Links : link[l].down => link'[l].down
<1>t. inner \in InnerRecord /\ link \in [Links -> LinkRecord]
    BY DEF MeshInv, TypeOK
<1>m. /\ \A x : Continue(r, x) => Leaves(r)
      /\ \A a : Return(r, a) => Leaves(r)
    BY <1>t, MovesLeave
<1>1. CASE WaitStep(r)
  <2>1. runner' = runner /\ link' = link
    BY <1>1 DEF WaitStep, Subscribe, Look, Nudge, Listen, CheckFlight, SelectReady,
        SelectGraceEnd, SelectSettled, Others
  <2>2. CASE Nudge(r)
    <3>1. PICK w : inner' = [inner EXCEPT !.wake = w]
      BY <2>2 DEF Nudge
    <3>2. inner'.ready = inner.ready /\ inner'.inFlight = inner.inFlight
      BY <1>t, <3>1 DEF InnerRecord
    <3> QED BY <2>1, <2>2, <3>2 DEF Nudge, Leaves
  <2>3. CASE ~Nudge(r)
    <3>1. Leaves(r)
      <4>1. CASE Subscribe(r) \/ Listen(r) \/ SelectReady(r) \/ SelectGraceEnd(r)
        BY <1>m, <4>1 DEF Subscribe, Listen, SelectReady, SelectGraceEnd, Goto
      <4>2. CASE Look(r) \/ CheckFlight(r) \/ SelectSettled(r)
        BY <1>m, <4>2 DEF Look, CheckFlight, SelectSettled, UseReadyLink, Goto
      <4> QED BY <1>1, <2>3, <4>1, <4>2 DEF WaitStep
    <3> QED BY <2>1, <3>1
  <2> QED BY <2>2, <2>3
<1>2. CASE SendStep(r)
  <2>1. runner' = runner
    BY <1>2 DEF SendStep, TakeReply, ReadVersion, CheckLink, SendCounted, SendFails, SendSkipped,
        UnsentLinkDown, UnsentGivesUp, AwaitLinkDown, Others
  <2>2. link' = link \/ Abort(req[r].link)
    BY <1>2 DEF SendStep, TakeReply, ReadVersion, CheckLink, SendCounted, SendFails, SendSkipped,
        UnsentLinkDown, UnsentGivesUp, AwaitLinkDown, Others
  <2>3. \A l \in Links : link[l].down => link'[l].down
    <3>1. CASE Abort(req[r].link) /\ req[r].link \in Links
      BY <1>t, <3>1, AbortKeepsLinksDown
    <3>2. CASE Abort(req[r].link) /\ req[r].link \notin Links
      BY <1>t, <3>2 DEF Abort
    <3> QED BY <2>2, <3>1, <3>2
  <2>4. Leaves(r)
    <3>1. CASE SendCounted(r) \/ SendFails(r)
      BY <3>1 DEF SendCounted, SendFails, Leaves
    <3>2. CASE ~(SendCounted(r) \/ SendFails(r))
      BY <1>2, <1>m, <3>2 DEF SendStep, TakeReply, ReadVersion, CheckLink, SendSkipped,
          UnsentLinkDown, UnsentGivesUp, AwaitLinkDown, Dropped, TryAgain, Goto
    <3> QED BY <3>1, <3>2
  <2> QED BY <2>1, <2>3, <2>4
<1>3. CASE Begin(r) \/ DeadlinePasses(r)
    BY <1>m, <1>3 DEF Begin, DeadlinePasses, Goto, Others
<1>4. CASE Register(r)
  <2>1. runner' = runner /\ link' = link
    BY <1>4 DEF Register, Others
  <2>2. Leaves(r)
    <3>1. inner' = [inner EXCEPT !.pending = inner.pending \cup {r}, !.cids = inner.cids \cup {r}]
      BY <1>4 DEF Register
    <3>2. inner'.ready = inner.ready /\ inner'.inFlight = inner.inFlight
      BY <1>t, <3>1 DEF InnerRecord
    <3> QED BY <1>4, <3>2 DEF Register, Leaves
  <2> QED BY <2>1, <2>2
<1> QED BY <1>1, <1>2, <1>3, <1>4 DEF RequestStep

LEMMA RequestWakes ==
    ASSUME MeshInv, WakeInv, NEW r \in Requests, RequestStep(r)
    PROVE  WakeInv'
<1>t. req \in [Requests -> ReqRecord]
    BY DEF MeshInv, TypeOK
<1>1. /\ runner' = runner /\ inner'.ready = inner.ready /\ inner'.inFlight = inner.inFlight
      /\ \A l \in Links : link[l].down => link'[l].down
      /\ \E x : Update(r, x)
    BY RequestLeaves DEF Leaves
<1>3. NoneGetsReady /\ (inner'.inFlight => Attempting')
    BY <1>1, LeavesReady
<1>4. ASSUME NEW s \in Requests
      PROVE  Hearing(req'[s], HasReadyLink, inner.inFlight)
  <2>1. CASE s = r
    BY <2>1, ListensWell
  <2>2. CASE s # r
    BY <1>t, <1>1, <2>2 DEF Update, WakeInv
  <2> QED BY <2>1, <2>2
<1>5. ASSUME NEW s \in Requests
      PROVE  Hearing(req'[s], HasReadyLink', inner'.inFlight)
    BY <1>1, <1>3, <1>4 DEF Hearing, NoneGetsReady
<1> QED BY <1>3, <1>5 DEF WakeInv

LEMMA NextWakeInv ==
    ASSUME MeshInv, WakeInv, [Next]_vars
    PROVE  WakeInv'
<1>1. ASSUME SystemCalls, inner'.inFlight => Attempting' PROVE WakeInv'
    BY <1>1, CallsAreHeard DEF WakeInv
<1> QED BY <1>1, RunnerCalls, ArmCalls, LinkCalls, EventCalls, RequestWakes DEF Next

(* wait_for_link, mark_link_ready, attempt: for any number of resolves and   *)
(* links, no notification of a ready link or of a settled connect is lost    *)
(* between a look and a wait.                                                *)
THEOREM WakeUpsNeverLost == Spec => []NoWakeUpLost
<1>1. MeshInv /\ WakeInv /\ [Next]_vars => WakeInv'
    BY NextWakeInv
<1> QED BY <1>1, InitWakeInv, WakeInvImplies, AlwaysMeshInv, PTL DEF Spec
=============================================================================
