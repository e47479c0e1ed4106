------------------------------ MODULE Playback ------------------------------
(***************************************************************************)
(* VRChat plays videos through the local relay, and the monitor of its log *)
(* judges from the lines, from the silence after them and from what the    *)
(* relay has seen whether a play failed, and whether VRChat can reach the  *)
(* relay at all (monitoring/vrclog, relay/activity.rs and relay/bypass.rs  *)
(* in crates/vrcr-watchdog).  Lines are abstracted to what the monitor     *)
(* makes of them; a poll reads whole lines, and takes them one by one.      *)
(***************************************************************************)
EXTENDS PortFile, Integers, Sequences

CONSTANTS
    Plays,          \* what VRChat opens, each with an id of its own
    OpenFailWindow, \* AVPRO_OPEN_FAIL_WINDOW
    StallWindow,    \* DEFAULT_SILENT_STALL_WINDOW
    MaxSessions,    \* bound: sessions of VRChat
    MaxUnread       \* bound: lines the monitor has not read

ASSUME WindowAssumption ==
    /\ OpenFailWindow \in Nat /\ StallWindow \in Nat /\ OpenFailWindow < StallWindow
    /\ Plays \subseteq Nat \ {0}
    /\ MaxSessions \in Nat \ {0}

VARIABLES
    session,    \* the session of VRChat, which has a log of its own
    wedged,     \* its connections no longer reach the relay
    link,       \* the port in the URL each play was opened with
    unread,     \* the lines of each log that have not been read
    reached,    \* RelayActivity: the plays the relay has seen
    turn,       \* what the monitor does next
    batch,      \* the lines the poll has read and not yet processed
    log,        \* VrcLogMonitor.current
    opening,    \* last_opening
    stall,      \* the opening that has shown no progress
    age,        \* since both were set, by one line
    failures    \* how often each play was reported as failed

logVars == <<turn, batch, log, opening, stall, age, failures>>
vrchatVars == <<session, wedged, link, unread, reached>>
playVars == <<portVars, vrchatVars, logVars>>

NoPlay == 0
Direct == "direct"
Opened == {p \in Plays : link[p] # "none"}
Sessions == 1 .. MaxSessions

Kinds == {"opening", "failed", "progress", "left"}
Line == [kind : Kinds, play : Plays \cup {NoPlay}]

PlayTypeOK ==
    /\ PortTypeOK
    /\ session \in Sessions /\ wedged \in BOOLEAN
    /\ link \in [Plays -> Ports \cup {Direct, "none"}]
    /\ reached \subseteq Plays
    /\ unread \in [Sessions -> Seq(Line)]
    /\ turn \in {"off", "poll", "lines", "fire"}
    /\ batch \in Seq(Line)
    /\ log \in Sessions \cup {0}
    /\ {opening, stall} \subseteq Plays \cup {NoPlay}
    /\ age \in 0 .. StallWindow
    /\ failures \in [Plays -> Nat]

PlayInit ==
    /\ PortInit
    /\ session = 1 /\ wedged = FALSE
    /\ link = [p \in Plays |-> "none"]
    /\ unread = [s \in Sessions |-> << >>]
    /\ reached = {}
    /\ turn = "off" /\ batch = << >> /\ log = 0
    /\ opening = NoPlay /\ stall = NoPlay /\ age = 0
    /\ failures = [p \in Plays |-> 0]

-----------------------------------------------------------------------------
(* VRChat.  The wrapper puts the published port into the URL, or none.  A    *)
(* line may be about something else than the last opening.                   *)
Write(line) ==
    /\ Len(unread[session]) < MaxUnread
    /\ unread' = [unread EXCEPT ![session] = Append(@, line)]

Open(p) ==
    /\ link[p] = "none" /\ \A q \in Plays : q < p => q \in Opened
    /\ starter \in {"up", "none"}
    /\ link' = [link EXCEPT ![p] = IF portFile = NoPort THEN Direct ELSE portFile]
    /\ Write([kind |-> "opening", play |-> p])
    /\ UNCHANGED <<portVars, session, wedged, reached, logVars>>

Logs ==
    /\ Opened # {}
    /\ \E kind \in {"failed", "progress", "left"} : Write([kind |-> kind, play |-> NoPlay])
    /\ UNCHANGED <<portVars, session, wedged, link, reached, logVars>>

Wedges ==
    /\ starter = "up" /\ ~wedged
    /\ wedged' = TRUE
    /\ UNCHANGED <<portVars, session, link, unread, reached, logVars>>

Restarts ==
    /\ session < MaxSessions
    /\ session' = session + 1
    /\ wedged' = FALSE
    /\ UNCHANGED <<portVars, link, unread, reached, logVars>>

(* handle records every request, whatever becomes of it. *)
Reaches(p) ==
    /\ starter = "up" /\ ~wedged
    /\ link[p] = relay.port
    /\ reached' = reached \cup {p}
    /\ UNCHANGED <<portVars, session, wedged, link, unread, logVars>>

-----------------------------------------------------------------------------
(* process_line *)
Seen == [opening |-> opening, stall |-> stall, age |-> age, failures |-> failures]

OnOpening(m, p) == [m EXCEPT !.opening = p, !.stall = p, !.age = 0]

(* A mistake the run playback must catch: any failure is the last opening's. *)
OnAnyLoadFailed(m) ==
    IF m.opening # NoPlay
    THEN [m EXCEPT !.opening = NoPlay, !.stall = NoPlay, !.failures[m.opening] = @ + 1]
    ELSE [m EXCEPT !.stall = NoPlay]

(* on_load_failed: only a recent opening is taken for the one that failed. *)
OnLoadFailed(m) ==
    IF m.opening # NoPlay /\ m.age <= OpenFailWindow
    THEN [m EXCEPT !.opening = NoPlay, !.stall = NoPlay, !.failures[m.opening] = @ + 1]
    ELSE [m EXCEPT !.stall = NoPlay]

ProcessLine(m, line) ==
    CASE line.kind = "left"     -> [m EXCEPT !.opening = NoPlay, !.stall = NoPlay]
      [] line.kind = "failed"   -> OnLoadFailed(m)
      [] line.kind = "progress" -> [m EXCEPT !.stall = NoPlay]
      [] line.kind = "opening"  -> OnOpening(m, line.play)

(* process_bytes: a poll has one clock for all of its lines. *)
ProcessLines ==
    /\ turn = "lines"
    /\ LET m == ProcessLine(Seen, Head(batch)) IN
       opening' = m.opening /\ stall' = m.stall /\ age' = m.age /\ failures' = m.failures
    /\ batch' = Tail(batch)
    /\ turn' = IF batch' = << >> THEN "fire" ELSE "lines"
    /\ UNCHANGED <<portVars, vrchatVars, log>>

(* poll_once: the newest log, which is looked for only now and then; the first *)
(* one is read from its end, and each later one is a new session.              *)
ReadsOn ==
    /\ log # 0
    /\ batch' = unread[log]
    /\ unread' = [unread EXCEPT ![log] = << >>]
    /\ UNCHANGED <<log, portVars>>

(* A mistake the run playback must catch: a switch that tells nobody. *)
SwitchesQuietly ==
    /\ log # session
    /\ log' = session
    /\ batch' = IF log = 0 THEN << >> ELSE unread[session]
    /\ unread' = [unread EXCEPT ![session] = << >>]
    /\ UNCHANGED portVars

SwitchesLog ==
    /\ log # session
    /\ log' = session
    /\ batch' = IF log = 0 THEN << >> ELSE unread[session]
    /\ unread' = [unread EXCEPT ![session] = << >>]
    /\ IF log # 0 /\ bypassed THEN Release ELSE UNCHANGED portVars

Poll ==
    /\ turn = "poll"
    /\ ReadsOn \/ SwitchesLog
    /\ turn' = IF batch' = << >> THEN "fire" ELSE "lines"
    /\ UNCHANGED <<session, wedged, link, reached, opening, stall, age, failures>>

(* fire_due, on_silent_stall and handle_wedged_relay *)
Due == stall # NoPlay /\ age >= StallWindow
NeverReached == starter = "up" /\ link[stall] # Direct /\ stall \notin reached
Handled == NeverReached /\ (link[stall] = current \/ bypassed)

FireDue ==
    /\ turn = "fire"
    /\ turn' = "poll"
    /\ stall' = IF Due THEN NoPlay ELSE stall
    /\ failures' = IF Due /\ ~Handled THEN [failures EXCEPT ![stall] = @ + 1] ELSE failures
    /\ IF Due /\ NeverReached /\ link[stall] = current /\ ~bypassed
       THEN Engage ELSE UNCHANGED portVars
    /\ UNCHANGED <<vrchatVars, batch, log, opening, age>>

TimePasses ==
    /\ turn # "lines" /\ opening # NoPlay /\ age < StallWindow
    /\ age' = age + 1
    /\ UNCHANGED <<portVars, vrchatVars, turn, batch, log, opening, stall, failures>>

(* The monitor is spawned once the start of the relay is over. *)
Spawn ==
    /\ turn = "off" /\ starter \in {"up", "none"}
    /\ turn' = "poll"
    /\ UNCHANGED <<portVars, vrchatVars, batch, log, opening, stall, age, failures>>

-----------------------------------------------------------------------------
RelayStarts ==
    \/ /\ starter = "off"
       /\ starter' = "reserve"
       /\ UNCHANGED <<current, portFile, schemeFile, secure, relay, bypassed>>
    \/ StarterStep

Starts == RelayStarts /\ UNCHANGED <<vrchatVars, logVars>>

PlayNext ==
    \/ Starts \/ Logs \/ Wedges \/ Restarts \/ Poll \/ ProcessLines \/ FireDue \/ TimePasses
    \/ Spawn
    \/ \E p \in Plays : Open(p) \/ Reaches(p)

(* The monitor keeps polling, and looks for a newer log every few seconds. *)
PlayFairness ==
    /\ WF_playVars(Poll) /\ WF_playVars(ProcessLines) /\ WF_playVars(FireDue)
    /\ SF_playVars(Poll /\ SwitchesLog)

PlaySpec == PlayInit /\ [][PlayNext]_playVars /\ PlayFairness

-----------------------------------------------------------------------------
(* Properties. *)

(* A play is reported as failed once at most, although its failure shows in  *)
(* two ways, the line and the silence, that do not know of each other: it    *)
(* would count twice for the health gate (process_line, fire_due).           *)
FailedOnce == \A p \in Plays : failures[p] <= 1

(* The bypass of a relay that a session of VRChat could not reach ends with  *)
(* that session: the next one gets relay links again (RelayBypass).          *)
BypassEnds == bypassed /\ log # session ~> ~bypassed
=============================================================================
