----------------------------- MODULE MeshClient -----------------------------
(***************************************************************************)
(* The watchdog's WebSocket client of the remote resolver                  *)
(* (crates/vrcr-watchdog/src/mesh/client).  One runner task connects,      *)
(* pumps a link until it dies and backs off before the next attempt; one   *)
(* task per link waits for the server's welcome and then publishes the     *)
(* link as ready; every resolve waits for a ready link, sends its request, *)
(* waits for the answer and resends once when the link drops under it.     *)
(* All of them run on a multi-threaded runtime and share atomics, locked   *)
(* cells and watch channels, so an access to a shared cell that another    *)
(* task can observe is a step of its own.                                  *)
(*                                                                         *)
(* A watch-channel subscription is a bell per waiter: subscribing clears   *)
(* it, a new generation rings it for everyone who listens.                 *)
(***************************************************************************)
EXTENDS Naturals

CONSTANTS
    Requests,   \* resolve calls, one fresh request id each
    MaxLinks,   \* bound: how many connections are opened in one behaviour
    Versions,   \* protocol versions a welcome negotiates: 1, or 2 for later ones
    Events      \* bound: what may befall the client in one behaviour

ASSUME MeshAssumption ==
    /\ MaxLinks \in Nat \ {0}
    /\ Versions \subseteq {1, 2}
    /\ Events \subseteq {"stop", "mute", "rateLimit", "abort", "badSend"}

Links == 1 .. MaxLinks
NoLink == 0

(* What a resolve can end with: a frame of the server's (resolved, fallback *)
(* or protocol error are one here), or an answer the client makes itself.   *)
ClientAnswers == {"rateLimited", "unreachable", "deadline"}
Answers == {"answered"} \cup ClientAnswers

RunnerPcs == {"top", "connecting", "pumping", "clearReady", "stampDown",
              "markDown", "settling", "ended", "backoff", "spacing", "stopped"}
ArmPcs == {"none", "waiting", "downgrade", "check", "publish", "settle", "done"}
WaitPcs == {"subscribe", "look", "nudge", "listen", "flight", "select"}
SendPcs == {"take", "check", "send"}
ReqPcs == {"idle", "register"} \cup WaitPcs \cup SendPcs
             \cup {"unsent", "await", "done"}

VARIABLES
    runner,     \* where Inner::run is
    opened,     \* links opened so far; the last one is the runner's
    mute,       \* the network delivers nothing more on the runner's link
    link,       \* the links, and where the task arm_welcome spawned for each is
    inner,      \* the cells of Inner
    stopper,    \* where MeshClient::stop is
    req,        \* the resolve futures: where each one is, and its locals
    sentOn,     \* history: requests whose frame was handed to the link's socket
    result      \* what each resolve returned, "none" before

vars == <<runner, opened, mute, link, inner, stopper, req, sentOn, result>>

LinkRecord ==
    [open : BOOLEAN,        \* cleared by abort(), which also wakes the pump
     down : BOOLEAN,
     welcome : BOOLEAN,     \* the welcome is settled
     wasReady : BOOLEAN,
     newer : BOOLEAN,       \* history: a welcome negotiated version 2 or later
     arm : ArmPcs]

InnerRecord ==
    [current : Links \cup {NoLink},
     ready : Links \cup {NoLink},
     inFlight : BOOLEAN,    \* connect_in_flight
     wake : BOOLEAN,
     shutdown : BOOLEAN,
     graceOver : BOOLEAN,   \* reconnect_grace has passed since link_down_since
     version : {0, 1, 2},     \* protocol_version: 0 unknown, 2 stands for >= 2
     limited : BOOLEAN,     \* rate_limited_until lies in the future
     pending : SUBSET Requests,
     cids : SUBSET Requests]    \* keys of inflight_cids

ReqRecord ==
    [pc : ReqPcs, link : Links \cup {NoLink}, sends : {0, 1, 2}, drops : {0, 1},
     woke : BOOLEAN, out : BOOLEAN,         \* grace_ran_out
     stamp : Links \cup {NoLink},   \* the link version 2 was put on it for, if it was
     readyBell : BOOLEAN, settledBell : BOOLEAN,
     reply : Answers \cup {"none"}]         \* its oneshot channel

TypeOK ==
    /\ runner \in RunnerPcs
    /\ opened \in 0 .. MaxLinks
    /\ mute \in BOOLEAN
    /\ link \in [Links -> LinkRecord]
    /\ inner \in InnerRecord
    /\ stopper \in {"running", "failing", "joining", "returned"}
    /\ req \in [Requests -> ReqRecord]
    /\ sentOn \in [Links -> SUBSET Requests]
    /\ result \in [Requests -> Answers \cup {"none"}]

IsOpen(l) == link[l].open /\ ~link[l].down
HasReadyLink == inner.ready # NoLink /\ ~link[inner.ready].down

Fresh == [pc |-> "idle", link |-> NoLink, sends |-> 0, drops |-> 0,
          woke |-> FALSE, out |-> FALSE, stamp |-> NoLink,
          readyBell |-> FALSE, settledBell |-> FALSE, reply |-> "none"]

Init ==
    /\ runner = "top"
    /\ opened = 0
    /\ mute = FALSE
    /\ link = [l \in Links |-> [open |-> FALSE, down |-> FALSE, welcome |-> FALSE,
                                wasReady |-> FALSE, newer |-> FALSE, arm |-> "none"]]
    /\ inner = [current |-> NoLink, ready |-> NoLink, inFlight |-> FALSE,
                wake |-> FALSE, shutdown |-> FALSE, graceOver |-> FALSE,
                version |-> 0, limited |-> FALSE, pending |-> {}, cids |-> {}]
    /\ stopper = "running"
    /\ req = [r \in Requests |-> Fresh]
    /\ sentOn = [l \in Links |-> {}]
    /\ result = [r \in Requests |-> "none"]

-----------------------------------------------------------------------------
(* Effects shared by several handlers. *)

Abort(l) == link' = [link EXCEPT ![l].open = FALSE]

(* A bell only matters to a waiter that is subscribed and will look at it. *)
RingReady == req' = [r \in Requests |->
    IF req[r].pc \in WaitPcs \ {"subscribe"} THEN [req[r] EXCEPT !.readyBell = TRUE] ELSE req[r]]
RingSettled == req' = [r \in Requests |->
    IF req[r].out THEN [req[r] EXCEPT !.settledBell = TRUE] ELSE req[r]]

(* fail_all_pending: every registered resolve is answered by the client. *)
AnswerAll(answer) == req' = [r \in Requests |->
    IF r \in inner.pending THEN [req[r] EXCEPT !.reply = answer] ELSE req[r]]

-----------------------------------------------------------------------------
(* The runner task. *)

RunnerGoes(from, to) == runner = from /\ runner' = to

(* A mistake mesh_faults must catch: the last server's version is kept. *)
StartAttemptKeepsVersion ==
    /\ RunnerGoes("top", "connecting")
    /\ ~inner.shutdown
    /\ inner' = [inner EXCEPT !.inFlight = TRUE]
    /\ UNCHANGED <<opened, mute, link, stopper, req, sentOn, result>>

(* Loop top and the start of attempt: forget the last server, raise the flag. *)
StartAttempt ==
    /\ RunnerGoes("top", "connecting")
    /\ ~inner.shutdown
    /\ inner' = [inner EXCEPT !.version = 0, !.inFlight = TRUE]
    /\ UNCHANGED <<opened, mute, link, stopper, req, sentOn, result>>

RunnerStops ==
    /\ runner \in {"top", "ended", "backoff", "spacing"}
    /\ inner.shutdown
    /\ runner' = "stopped"
    /\ UNCHANGED <<opened, mute, link, inner, stopper, req, sentOn, result>>

(* The socket opens: the link becomes current and its welcome is awaited. *)
ConnectSucceeds ==
    /\ RunnerGoes("connecting", "pumping")
    /\ opened < MaxLinks
    /\ opened' = opened + 1
    /\ mute' = FALSE
    /\ link' = [link EXCEPT ![opened + 1].open = TRUE, ![opened + 1].arm = "waiting"]
    /\ inner' = [inner EXCEPT !.current = opened + 1]
    /\ UNCHANGED <<stopper, req, sentOn, result>>

(* Refused, failed or past the connect deadline; or cancelled by shutdown. *)
ConnectFails ==
    /\ \/ RunnerGoes("connecting", "ended")
       \/ RunnerGoes("connecting", "stopped") /\ inner.shutdown
    /\ inner' = [inner EXCEPT !.inFlight = FALSE]
    /\ RingSettled
    /\ UNCHANGED <<opened, mute, link, stopper, sentOn, result>>

(* The server closes the socket, or it breaks. *)
PeerCloses ==
    /\ RunnerGoes("pumping", "clearReady")
    /\ UNCHANGED <<opened, mute, link, inner, stopper, req, sentOn, result>>

(* Two mistakes mesh_live must catch: an end of the link that is not heard. *)
PumpIgnoresAbort ==
    /\ RunnerGoes("pumping", "clearReady")
    /\ inner.shutdown
    /\ UNCHANGED <<opened, mute, link, inner, stopper, req, sentOn, result>>

PumpIgnoresShutdown ==
    /\ RunnerGoes("pumping", "clearReady")
    /\ ~link[opened].open
    /\ UNCHANGED <<opened, mute, link, inner, stopper, req, sentOn, result>>

(* pump returns on Link.abort, and the select around it on shutdown. *)
PumpStops ==
    /\ RunnerGoes("pumping", "clearReady")
    /\ ~link[opened].open \/ inner.shutdown
    /\ UNCHANGED <<opened, mute, link, inner, stopper, req, sentOn, result>>

(* mark_link_down, one shared cell at a time. *)
ClearReady ==
    /\ RunnerGoes("clearReady", "stampDown")
    /\ inner' = [inner EXCEPT !.ready = IF @ = opened THEN NoLink ELSE @]
    /\ UNCHANGED <<opened, mute, link, stopper, req, sentOn, result>>

StampDown ==
    /\ RunnerGoes("stampDown", "markDown")
    /\ inner' = [inner EXCEPT !.graceOver = @ /\ ~link[opened].wasReady]
    /\ UNCHANGED <<opened, mute, link, stopper, req, sentOn, result>>

MarkDown ==
    /\ RunnerGoes("markDown", "settling")
    /\ link' = [link EXCEPT ![opened].down = TRUE]
    /\ UNCHANGED <<opened, mute, inner, stopper, req, sentOn, result>>

(* The rest of attempt. *)
EndAttempt ==
    /\ RunnerGoes("settling", "ended")
    /\ mute' = FALSE
    /\ link' = [link EXCEPT ![opened].welcome = TRUE, ![opened].open = FALSE]
    /\ inner' = [inner EXCEPT !.inFlight = FALSE, !.current = NoLink]
    /\ RingSettled
    /\ UNCHANGED <<opened, stopper, sentOn, result>>

BackOff ==
    /\ RunnerGoes("ended", "backoff")
    /\ ~inner.shutdown
    /\ UNCHANGED <<opened, mute, link, inner, stopper, req, sentOn, result>>

(* wait_before_reconnect: woken early, but spaced from the last attempt ... *)
Woken ==
    /\ RunnerGoes("backoff", "spacing")
    /\ inner.wake
    /\ UNCHANGED <<opened, mute, link, inner, stopper, req, sentOn, result>>

(* ... or waited to the end; either way the wake is used up. *)
WaitElapses ==
    /\ RunnerGoes("backoff", "top") \/ RunnerGoes("spacing", "top")
    /\ ~inner.shutdown
    /\ inner' = [inner EXCEPT !.wake = FALSE]
    /\ UNCHANGED <<opened, mute, link, stopper, req, sentOn, result>>

-----------------------------------------------------------------------------
(* The task arm_welcome spawns for link l. *)

ArmGoes(l, from, to) == link[l].arm = from /\ link' = [link EXCEPT ![l].arm = to]

WelcomeSettled(l) ==
    /\ link[l].welcome
    /\ ArmGoes(l, "waiting", "check")
    /\ UNCHANGED <<runner, opened, mute, inner, stopper, req, sentOn, result>>

(* The wait ran out; only the one who settles the welcome assumes an old server. *)
WelcomeTimesOut(l) ==
    /\ link[l].arm = "waiting"
    /\ link' = [link EXCEPT ![l].welcome = TRUE,
                            ![l].arm = IF link[l].welcome THEN "check" ELSE "downgrade"]
    /\ UNCHANGED <<runner, opened, mute, inner, stopper, req, sentOn, result>>

OldServer(version) == IF version = 0 THEN 1 ELSE version

AssumeOldServer(l) ==
    /\ ArmGoes(l, "downgrade", "check")
    /\ inner' = [inner EXCEPT !.version = OldServer(@)]
    /\ UNCHANGED <<runner, opened, mute, stopper, req, sentOn, result>>

(* mark_link_ready: the check, the publication, and the settled connect. *)
CheckOpen(l) ==
    /\ ArmGoes(l, "check", IF IsOpen(l) THEN "publish" ELSE "done")
    /\ UNCHANGED <<runner, opened, mute, inner, stopper, req, sentOn, result>>

PublishReady(l) ==
    /\ link[l].arm = "publish"
    /\ link' = [link EXCEPT ![l].arm = "settle", ![l].wasReady = TRUE]
    /\ inner' = [inner EXCEPT !.wake = FALSE, !.ready = l]
    /\ RingReady
    /\ UNCHANGED <<runner, opened, mute, stopper, sentOn, result>>

SettleReady(l) ==
    /\ ArmGoes(l, "settle", "done")
    /\ inner' = [inner EXCEPT !.inFlight = FALSE]
    /\ RingSettled
    /\ UNCHANGED <<runner, opened, mute, stopper, sentOn, result>>

-----------------------------------------------------------------------------
(* Frames the runner's pump dispatches, and what else befalls its link. *)

Hears(l) == runner = "pumping" /\ l = opened /\ ~mute

(* on_welcome and on_welcome_cached, with the version they negotiate. *)
OnWelcome(l, v) ==
    /\ Hears(l)
    /\ inner' = [inner EXCEPT !.version = v]
    /\ link' = [link EXCEPT ![l].welcome = TRUE, ![l].newer = @ \/ v = 2]
    /\ UNCHANGED <<runner, opened, mute, stopper, req, sentOn, result>>

(* A welcome that does not parse counts as an old server's. *)
OnUnreadableWelcome(l) ==
    /\ Hears(l)
    /\ inner' = [inner EXCEPT !.version = OldServer(@)]
    /\ link' = [link EXCEPT ![l].welcome = TRUE]
    /\ UNCHANGED <<runner, opened, mute, stopper, req, sentOn, result>>

(* A mistake mesh_live must catch: an answer taken for whoever is pending. *)
OnAnyAnswer(l, r, answer) ==
    /\ Hears(l)
    /\ r \in inner.pending
    /\ answer = "rateLimited" => "rateLimit" \in Events
    /\ inner' = [inner EXCEPT !.cids = @ \ {r}, !.pending = @ \ {r},
                              !.limited = @ \/ answer = "rateLimited"]
    /\ req' = [req EXCEPT ![r].reply = answer]
    /\ UNCHANGED <<runner, opened, mute, link, stopper, sentOn, result>>

(* finish_resolve, and rate_limited or protocol_error naming one request. *)
OnAnswer(l, r, answer) ==
    /\ Hears(l)
    /\ r \in sentOn[l]
    /\ answer = "rateLimited" => "rateLimit" \in Events
    /\ inner' = [inner EXCEPT !.cids = @ \ {r}, !.pending = @ \ {r},
                              !.limited = @ \/ answer = "rateLimited"]
    /\ req' = IF r \in inner.pending THEN [req EXCEPT ![r].reply = answer] ELSE req
    /\ UNCHANGED <<runner, opened, mute, link, stopper, sentOn, result>>

(* rate_limited naming no request fails every registered one. *)
OnRateLimitedAll(l) ==
    /\ Hears(l)
    /\ "rateLimit" \in Events
    /\ inner' = [inner EXCEPT !.cids = {}, !.pending = {}, !.limited = TRUE]
    /\ AnswerAll("rateLimited")
    /\ UNCHANGED <<runner, opened, mute, link, stopper, sentOn, result>>

CooldownEnds ==
    /\ inner.limited
    /\ inner' = [inner EXCEPT !.limited = FALSE]
    /\ UNCHANGED <<runner, opened, mute, link, stopper, req, sentOn, result>>

(* A frame that breaks the negotiation, drop_connection, or a missed heartbeat. *)
LinkAborted(l) ==
    /\ "abort" \in Events
    /\ inner.current = l
    /\ Abort(l)
    /\ UNCHANGED <<runner, opened, mute, inner, stopper, req, sentOn, result>>

(* The environment: the socket stays open but nothing arrives any more. *)
LinkGoesMute ==
    /\ "mute" \in Events
    /\ runner = "pumping"
    /\ mute' = TRUE
    /\ UNCHANGED <<runner, opened, link, inner, stopper, req, sentOn, result>>

(* probe_if_quiet and probe_link: a resolve waits, and a ping goes unanswered. *)
ProbeFails(l) ==
    /\ \E r \in Requests : req[r].pc = "await" /\ req[r].link = l
    /\ l = opened /\ mute
    /\ ~link[l].down
    /\ Abort(l)
    /\ UNCHANGED <<runner, opened, mute, inner, stopper, req, sentOn, result>>

GraceExpires ==
    /\ ~inner.graceOver
    /\ inner' = [inner EXCEPT !.graceOver = TRUE]
    /\ UNCHANGED <<runner, opened, mute, link, stopper, req, sentOn, result>>

-----------------------------------------------------------------------------
(* One resolve call. *)

Others == <<runner, opened, mute, link, stopper>>
At(r, pc) == req[r].pc = pc
Update(r, locals) == req' = [req EXCEPT ![r] = locals]

(* A mistake mesh_faults must catch: one of the two maps keeps the request. *)
ReturnForgetsHalf(r, answer) ==
    /\ Update(r, [Fresh EXCEPT !.pc = "done"])
    /\ result' = [result EXCEPT ![r] = answer]
    /\ inner' = [inner EXCEPT !.pending = @ \ {r}]
    /\ UNCHANGED sentOn

(* The future returns or is dropped: PendingGuard forgets the request. *)
Return(r, answer) ==
    /\ Update(r, [Fresh EXCEPT !.pc = "done"])
    /\ result' = [result EXCEPT ![r] = answer]
    /\ inner' = [inner EXCEPT !.pending = @ \ {r}, !.cids = @ \ {r}]
    /\ UNCHANGED sentOn

Continue(r, locals) == Update(r, locals) /\ UNCHANGED <<inner, sentOn, result>>
Goto(r, pc) == Continue(r, [req[r] EXCEPT !.pc = pc])

(* resolve: a running cooldown answers at once. *)
Begin(r) ==
    /\ At(r, "idle")
    /\ IF inner.limited THEN Return(r, "rateLimited") ELSE Goto(r, "register")
    /\ UNCHANGED Others

Register(r) ==
    /\ At(r, "register")
    /\ inner' = [inner EXCEPT !.pending = @ \cup {r}, !.cids = @ \cup {r}]
    /\ Update(r, [req[r] EXCEPT !.pc = "subscribe"])
    /\ UNCHANGED <<Others, sentOn, result>>

(* wait_for_link, from the subscription on. *)
Subscribe(r) ==
    /\ At(r, "subscribe")
    /\ Continue(r, [req[r] EXCEPT !.pc = "look", !.readyBell = FALSE,
                                  !.settledBell = FALSE, !.out = FALSE])
    /\ UNCHANGED Others

UseReadyLink(r) ==
    Continue(r, [req[r] EXCEPT !.pc = "take", !.link = inner.ready, !.woke = FALSE,
                               !.out = FALSE, !.readyBell = FALSE, !.settledBell = FALSE])

Look(r) ==
    /\ At(r, "look")
    /\ IF HasReadyLink THEN UseReadyLink(r) ELSE Goto(r, "nudge")
    /\ UNCHANGED Others

Nudge(r) ==
    /\ At(r, "nudge")
    /\ inner' = [inner EXCEPT !.wake = @ \/ ~req[r].woke]
    /\ Update(r, [req[r] EXCEPT !.pc = "listen", !.woke = TRUE])
    /\ UNCHANGED <<Others, sentOn, result>>

(* A mistake mesh_live must catch: a subscription where the wait begins. *)
ListenAnew(r) ==
    /\ At(r, "listen")
    /\ Continue(r, [req[r] EXCEPT !.pc = IF inner.graceOver THEN "flight" ELSE "select",
                                  !.out = inner.graceOver, !.readyBell = FALSE])
    /\ UNCHANGED Others

Listen(r) ==
    /\ At(r, "listen")
    /\ Continue(r, [req[r] EXCEPT !.pc = IF inner.graceOver THEN "flight" ELSE "select",
                                  !.out = inner.graceOver])
    /\ UNCHANGED Others

(* A mistake mesh_live must catch: waiting for a connect nobody makes. *)
FlightAssumed(r) ==
    /\ At(r, "flight")
    /\ Goto(r, "select")
    /\ UNCHANGED Others

CheckFlight(r) ==
    /\ At(r, "flight")
    /\ IF inner.inFlight THEN Goto(r, "select") ELSE Return(r, "unreachable")
    /\ UNCHANGED Others

(* The select of wait_for_link: any branch that is ready may win. *)
SelectReady(r) ==
    /\ At(r, "select")
    /\ req[r].readyBell
    /\ Continue(r, [req[r] EXCEPT !.pc = "subscribe", !.woke = FALSE])
    /\ UNCHANGED Others

SelectGraceEnd(r) ==
    /\ At(r, "select")
    /\ ~req[r].out
    /\ inner.graceOver
    /\ Goto(r, "subscribe")
    /\ UNCHANGED Others

SelectSettled(r) ==
    /\ At(r, "select")
    /\ req[r].settledBell
    /\ IF HasReadyLink THEN UseReadyLink(r) ELSE Return(r, "unreachable")
    /\ UNCHANGED Others

(* The answer is taken: in a select, or by try_recv before sending. *)
TakeReply(r) ==
    /\ req[r].pc \in {"select", "take", "unsent", "await"}
    /\ req[r].reply # "none"
    /\ Return(r, req[r].reply)
    /\ UNCHANGED Others

(* No answer yet: put version 2 on the request of a caller that opted in,   *)
(* if the server negotiated it.  What is on the request stays on it when it *)
(* is resent, whatever the next server speaks ...                           *)
StampOf(r) ==
    IF inner.version = 2 /\ req[r].stamp = NoLink THEN req[r].link ELSE req[r].stamp

ReadVersion(r) ==
    /\ At(r, "take")
    /\ req[r].reply = "none"
    /\ Continue(r, [req[r] EXCEPT !.pc = "check", !.stamp = StampOf(r)])
    /\ UNCHANGED Others

(* ... and hand the frame to the link if it is still open. *)
CheckLink(r) ==
    /\ At(r, "check")
    /\ Goto(r, IF IsOpen(req[r].link) THEN "send" ELSE "unsent")
    /\ UNCHANGED Others

HandOver(r) == sentOn' = [sentOn EXCEPT ![req[r].link] = @ \cup {r}]

SendCounted(r) ==
    /\ At(r, "send")
    /\ HandOver(r)
    /\ Update(r, [req[r] EXCEPT !.pc = "await", !.sends = @ + 1])
    /\ UNCHANGED <<Others, inner, result>>

(* An error after the bytes may have left, or a stall, which aborts the link. *)
SendFails(r) ==
    /\ "badSend" \in Events
    /\ At(r, "send")
    /\ HandOver(r)
    /\ Update(r, [req[r] EXCEPT !.pc = "unsent"])
    /\ Abort(req[r].link) \/ UNCHANGED link
    /\ UNCHANGED <<runner, opened, mute, inner, stopper, result>>

(* Another send held the socket for the whole send deadline. *)
SendSkipped(r) ==
    /\ "badSend" \in Events
    /\ At(r, "send")
    /\ Goto(r, "unsent")
    /\ UNCHANGED Others

(* The link went down under the request: look for another one, or give up. *)
TryAgain(r, drops) ==
    Continue(r, [req[r] EXCEPT !.pc = "subscribe", !.drops = drops, !.link = NoLink])

Dropped(r) == IF req[r].drops = 1 THEN Return(r, "unreachable") ELSE TryAgain(r, 1)

UnsentLinkDown(r) ==
    /\ At(r, "unsent")
    /\ link[req[r].link].down
    /\ IF req[r].sends > 0 THEN Dropped(r) ELSE TryAgain(r, req[r].drops)
    /\ UNCHANGED Others

UnsentGivesUp(r) ==
    /\ At(r, "unsent")
    /\ Return(r, "unreachable")
    /\ UNCHANGED Others

(* Two mistakes mesh_faults must catch: an answer that came first is lost,  *)
(* and a resend before the old link is marked down.                         *)
AwaitForgetsReply(r) ==
    /\ At(r, "await")
    /\ link[req[r].link].down
    /\ Dropped(r)
    /\ UNCHANGED Others

AwaitAbort(r) ==
    /\ At(r, "await")
    /\ ~link[req[r].link].open
    /\ IF req[r].reply # "none" THEN Return(r, req[r].reply) ELSE Dropped(r)
    /\ UNCHANGED Others

(* wait_for_reply ended by the drop; an answer that came first still counts. *)
AwaitLinkDown(r) ==
    /\ At(r, "await")
    /\ link[req[r].link].down
    /\ IF req[r].reply # "none" THEN Return(r, req[r].reply) ELSE Dropped(r)
    /\ UNCHANGED Others

(* A mistake mesh_live must catch: the reply is awaited without a deadline. *)
DeadlineSparesReply(r) ==
    /\ req[r].pc \in {"select", "send", "unsent"}
    /\ Return(r, "deadline")
    /\ UNCHANGED Others

(* timeout_at around the whole loop; it can only fire where the loop awaits. *)
DeadlinePasses(r) ==
    /\ req[r].pc \in {"select", "send", "unsent", "await"}
    /\ Return(r, "deadline")
    /\ UNCHANGED Others

-----------------------------------------------------------------------------
(* MeshClient::stop. *)

StopBegins ==
    /\ "stop" \in Events
    /\ stopper = "running"
    /\ stopper' = "failing"
    /\ inner' = [inner EXCEPT !.shutdown = TRUE]
    /\ UNCHANGED <<runner, opened, mute, link, req, sentOn, result>>

StopFailsPending ==
    /\ stopper = "failing"
    /\ stopper' = "joining"
    /\ inner' = [inner EXCEPT !.cids = {}, !.pending = {}]
    /\ AnswerAll("unreachable")
    /\ UNCHANGED <<runner, opened, mute, link, sentOn, result>>

StopReturns ==
    /\ stopper = "joining"
    /\ runner = "stopped"
    /\ stopper' = "returned"
    /\ UNCHANGED <<runner, opened, mute, link, inner, req, sentOn, result>>

-----------------------------------------------------------------------------
RunnerStep ==
    \/ StartAttempt \/ RunnerStops \/ ConnectSucceeds \/ ConnectFails
    \/ PeerCloses \/ PumpStops \/ ClearReady \/ StampDown \/ MarkDown
    \/ EndAttempt \/ BackOff \/ Woken \/ WaitElapses

ArmStep(l) ==
    \/ WelcomeSettled(l) \/ WelcomeTimesOut(l) \/ AssumeOldServer(l)
    \/ CheckOpen(l) \/ PublishReady(l) \/ SettleReady(l)

LinkStep(l) ==
    \/ \E v \in Versions : OnWelcome(l, v)
    \/ OnUnreadableWelcome(l)
    \/ \E r \in Requests, answer \in {"answered", "rateLimited"} : OnAnswer(l, r, answer)
    \/ OnRateLimitedAll(l)
    \/ LinkAborted(l)
    \/ ProbeFails(l)

WaitStep(r) ==
    \/ Subscribe(r) \/ Look(r) \/ Nudge(r) \/ Listen(r) \/ CheckFlight(r)
    \/ SelectReady(r) \/ SelectGraceEnd(r) \/ SelectSettled(r)

SendStep(r) ==
    \/ TakeReply(r) \/ ReadVersion(r) \/ CheckLink(r)
    \/ SendCounted(r) \/ SendFails(r) \/ SendSkipped(r)
    \/ UnsentLinkDown(r) \/ UnsentGivesUp(r) \/ AwaitLinkDown(r)

RequestStep(r) ==
    \/ Begin(r) \/ Register(r) \/ WaitStep(r) \/ SendStep(r) \/ DeadlinePasses(r)

StopStep == StopBegins \/ StopFailsPending \/ StopReturns

TimerStep == GraceExpires \/ CooldownEnds

Next ==
    \/ RunnerStep
    \/ \E l \in Links : ArmStep(l) \/ LinkStep(l)
    \/ LinkGoesMute
    \/ \E r \in Requests : RequestStep(r)
    \/ StopStep
    \/ TimerStep

Spec == Init /\ [][Next]_vars

(* Tasks the runtime schedules and timers that fire; the peer, the network, *)
(* the caller and the request's own deadline owe nothing.                   *)
Fairness ==
    /\ WF_vars(RunnerStep /\ ~PeerCloses)
    /\ WF_vars(PumpStops)
    /\ WF_vars(GraceExpires)
    /\ \A l \in Links : WF_vars(ArmStep(l)) /\ WF_vars(ProbeFails(l))
    /\ \A r \in Requests : WF_vars(Register(r) \/ WaitStep(r)) /\ WF_vars(SendStep(r))
    /\ WF_vars(StopFailsPending \/ StopReturns)

FairSpec == Spec /\ Fairness

-----------------------------------------------------------------------------
(* Properties. *)

(* A request is never handed twice to the same link: whoever is about to    *)
(* send found a link that has not had this request (resolve_loop, with the  *)
(* order of mark_link_down and the filter of ready_link).                   *)
NeverTwiceOnALink ==
    \A r \in Requests : req[r].pc \in SendPcs => r \notin sentOn[req[r].link]

(* A pending resolve is resent once, then it falls back (CHANGELOG.md:57):  *)
(* one that was sent twice only waits for its answer, and does not look for *)
(* a third link.                                                            *)
ResentOnce == \A r \in Requests : req[r].sends <= 1 \/ At(r, "await")

(* A request says version 2 only if a server negotiated it, and never       *)
(* because of a server from before the link it was stamped for: what an     *)
(* earlier link left in the one cell of the version, or its welcome task    *)
(* wrote late, reaches no link that is still up.  It may be the link the    *)
(* request goes out on now or, for the stamp is not taken back, one it went *)
(* out on before: a resend to an old server still says 2.                   *)
VersionOfItsLink ==
    \A r \in Requests :
        req[r].pc \in {"check", "send"} /\ req[r].stamp # NoLink
        => \/ link[req[r].link].down
           \/ \E l \in req[r].stamp .. req[r].link : link[l].newer

(* Every entry of the two request maps belongs to a running resolve.        *)
NoLeakedEntries ==
    \A r \in inner.pending \cup inner.cids : req[r].pc \notin {"idle", "register", "done"}

(* An answer that reached a resolve whose send was counted is what the      *)
(* resolve returns, unless its deadline passes first.                       *)
AnswerIsTaken ==
    [][\A r \in Requests :
          req[r].pc \in {"await", "take"} /\ req[r].reply # "none" /\ At(r, "done")'
          => result'[r] \in {req[r].reply, "deadline"}]_vars

(* No resolve gives up for want of a link while a connect is under way      *)
(* (tests/integration/mesh_live/reconnect_cases.rs:36).                     *)
WaitsForConnectInFlight ==
    [][\A r \in Requests :
          At(r, "flight") /\ At(r, "done")' => runner # "connecting"]_vars

(* No wake-up is lost: a resolve that found no ready link has its bell rung *)
(* if there is one now; and one that waits past the grace for a connect to  *)
(* settle waits for one that is being made, or has its bell rung            *)
(* (wait_for_link, with the order of its subscriptions and its looks).      *)
Attempting == runner \in {"connecting", "pumping", "clearReady", "stampDown", "markDown", "settling"}
NoWakeUpLost ==
    \A r \in Requests :
        /\ req[r].pc \in WaitPcs \ {"subscribe", "look"} /\ HasReadyLink => req[r].readyBell
        /\ At(r, "select") /\ req[r].out => req[r].settledBell \/ (inner.inFlight /\ Attempting)

(* No task of the client waits for ever.  The wait for a link ends without  *)
(* the help of the request's deadline, for no notification of a ready link  *)
(* or of a settled connect is lost; a resolve that waits on a link gone mute*)
(* is not left there; and stop returns, since the runner notices the        *)
(* shutdown wherever it is (wait_for_link, probe_if_quiet, stop).           *)
WaitsEnd ==
    /\ \A r \in Requests : (req[r].pc \in WaitPcs) ~> (req[r].pc \notin WaitPcs)
    /\ \A r \in Requests, l \in Links :
          (At(r, "await") /\ req[r].link = l /\ l = opened /\ mute)
          ~> ~(At(r, "await") /\ req[r].link = l)
    /\ inner.shutdown ~> (stopper = "returned")

(* The client keeps the promise of Mesh::resolve: step by step ...          *)
Promise == INSTANCE ResolvePromise WITH
    ClientAnswers <- ClientAnswers,
    asked <- {r \in Requests : req[r].pc # "idle"},
    heard <- UNION {sentOn[l] : l \in Links},
    answer <- result
KeepsPromise == Promise!PromiseSteps

(* ... and in time, if timeout_at ends what has waited past its deadline:   *)
(* every resolve that was asked returns, whatever the peer does.            *)
AnswersInTime ==
    (\A r \in Requests : WF_vars(DeadlinePasses(r))) => Promise!PromiseAnswers
=============================================================================
