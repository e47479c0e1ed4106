------------------------------ MODULE PortFile ------------------------------
(***************************************************************************)
(* The files that tell the yt-dlp wrapper where the local relay listens,   *)
(* and the start of that relay (relay/ports.rs, relay/bypass.rs and the    *)
(* start_relay of app/mod.rs in crates/vrcr-watchdog).  A port is reserved *)
(* by binding it and letting it go, so that it may be taken by the time    *)
(* the relay listens; HTTPS falls back to HTTP and a port to a fresh one,  *)
(* and the files have to follow.                                           *)
(***************************************************************************)
Ports == {"previous", "ephemeral", "fresh"}
NoPort == "none"
Schemes == {"http", "https"}

VARIABLES
    current,    \* RelayPortManager.current
    portFile,   \* relay_port.txt
    schemeFile, \* relay_scheme.txt
    starter,    \* how far the start of the relay is
    secure,     \* the attempt under way has TLS
    relay,      \* where the relay listens
    bypassed    \* RelayBypass.active

portVars == <<current, portFile, schemeFile, starter, secure, relay, bypassed>>

Starting == {"reserve", "scheme", "listen"}

PortTypeOK ==
    /\ current \in Ports \cup {NoPort}
    /\ portFile \in Ports \cup {NoPort}
    /\ schemeFile \in Schemes \cup {NoPort}
    /\ starter \in Starting \cup {"off", "up", "none"}
    /\ secure \in BOOLEAN
    /\ relay \in [port : Ports \cup {NoPort}, scheme : Schemes]
    /\ bypassed \in BOOLEAN

(* A watchdog that was killed has left its files. *)
PortInit ==
    /\ current = NoPort
    /\ \/ portFile = NoPort /\ schemeFile = NoPort
       \/ portFile = "previous" /\ schemeFile = "https"
    /\ starter = "off"
    /\ secure = FALSE
    /\ relay = [port |-> NoPort, scheme |-> "http"]
    /\ bypassed = FALSE

-----------------------------------------------------------------------------
(* Files that cannot be written or deleted are left out. *)
Publish(p) == current' = p /\ portFile' = p
DeletePortFile == portFile' = NoPort /\ schemeFile' = NoPort

(* initialize: without a port there is no relay, and nobody deletes the     *)
(* files of a watchdog that was killed.                                     *)
Reserve ==
    /\ starter = "reserve"
    /\ \/ /\ \E p \in {"previous", "ephemeral"} : Publish(p)
          /\ starter' = "scheme"
       \/ starter' = "none" /\ UNCHANGED <<current, portFile>>
    /\ UNCHANGED <<schemeFile, secure, relay, bypassed>>

(* start_on_current_port: the scheme is written before the relay listens. *)
ChooseScheme ==
    /\ starter = "scheme"
    /\ secure' \in BOOLEAN
    /\ schemeFile' = IF secure' THEN "https" ELSE "http"
    /\ starter' = "listen"
    /\ UNCHANGED <<current, portFile, relay, bypassed>>

Listens ==
    /\ starter = "listen"
    /\ relay' = [port |-> current, scheme |-> IF secure THEN "https" ELSE "http"]
    /\ starter' = "up"
    /\ secure' = FALSE
    /\ UNCHANGED <<current, portFile, schemeFile, bypassed>>

(* A mistake the run playback must catch: the file keeps what failed. *)
SecureFailsQuietly ==
    /\ starter = "listen" /\ secure
    /\ secure' = FALSE
    /\ UNCHANGED <<current, portFile, schemeFile, starter, relay, bypassed>>

SecureFails ==
    /\ starter = "listen" /\ secure
    /\ schemeFile' = "http"
    /\ secure' = FALSE
    /\ UNCHANGED <<current, portFile, starter, relay, bypassed>>

(* start_relay: one more port, then no relay and no file. *)
PlainFails ==
    /\ starter = "listen" /\ ~secure
    /\ \/ /\ current # "fresh"
          /\ Publish("fresh")
          /\ starter' = "scheme"
          /\ UNCHANGED schemeFile
       \/ /\ DeletePortFile
          /\ starter' = "none"
          /\ UNCHANGED current
    /\ UNCHANGED <<secure, relay, bypassed>>

StarterStep == Reserve \/ ChooseScheme \/ Listens \/ SecureFails \/ PlainFails

(* RelayBypass: VRChat cannot reach the relay until its next session. *)
Engage ==
    /\ starter = "up" /\ ~bypassed
    /\ bypassed' = TRUE
    /\ DeletePortFile
    /\ UNCHANGED <<current, starter, secure, relay>>

Release ==
    /\ bypassed
    /\ bypassed' = FALSE
    /\ portFile' = current
    /\ schemeFile' = relay.scheme
    /\ UNCHANGED <<current, starter, secure, relay>>

-----------------------------------------------------------------------------
(* Once the start of the relay is over, what the files say is where it      *)
(* listens and how, whichever of its attempts succeeded, or there is no     *)
(* file (start_relay, RelayBypass).  This needs a port to be reserved: if   *)
(* none could be, the files of a watchdog that was killed stay, and name a  *)
(* port that nobody serves.                                                 *)
PublishedIsServed ==
    starter \in {"up", "none"} /\ current # NoPort /\ portFile # NoPort =>
        /\ relay.port = portFile
        /\ relay.scheme = schemeFile
=============================================================================
