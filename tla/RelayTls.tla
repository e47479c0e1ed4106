------------------------------ MODULE RelayTls ------------------------------
(***************************************************************************)
(* The certificate the relay serves HTTPS with (relay/tls and              *)
(* win/certificates.rs in crates/vrcr-watchdog and vrcr-shared).  A pair   *)
(* of key and certificate is kept in two files; an elevated child puts the *)
(* certificate in the root store of the machine and takes the older ones   *)
(* of ours out.  The child outlives who started it, and so may be late.    *)
(* The uninstaller has a child remove everything.                          *)
(***************************************************************************)
EXTENDS Naturals

CONSTANTS
    Certs,      \* bound: the pairs that are ever generated
    None        \* no pair

ASSUME TlsAssumption == None \notin Certs

VARIABLES
    files,      \* KEY_FILE and CERT_FILE: of which pair
    fresh,      \* the pairs not yet generated
    valid,      \* the pairs that are not to expire within 30 days
    root,       \* those of our certificates the machine trusts
    relay,      \* the relay of a watchdog: the pair it has, and its port
    setup,      \* the elevated child of each pair
    remover,    \* the uninstaller's step remove-relay-tls, and its child
    late        \* history: the child of another pair, or the remover's, took the
                \* certificate out that the relay serves

tlsVars == <<files, fresh, valid, root, relay, setup, remover, late>>

RelayPcs == {"off", "load", "saveKey", "saveCert", "check", "prompt", "wait", "verify",
             "http", "https"}

TlsTypeOK ==
    /\ files \in [key : Certs \cup {None}, cert : Certs \cup {None}]
    /\ {fresh, valid, root} \subseteq SUBSET Certs
    /\ relay \in [pc : RelayPcs, pair : Certs \cup {None}, again : BOOLEAN]
    /\ setup \in [Certs -> {"none", "started", "added", "removed", "failed"}]
    /\ remover \in [pc : {"off", "check", "wait", "clean", "told", "unseen"},
                    child : {"none", "roots", "key", "cert", "exit"},
                    errors : BOOLEAN]
    /\ late \in BOOLEAN

NoRelay == [pc |-> "off", pair |-> None, again |-> FALSE]

TlsInit ==
    /\ files = [key |-> None, cert |-> None]
    /\ fresh = Certs
    /\ valid = Certs
    /\ root = {}
    /\ relay = NoRelay
    /\ setup = [c \in Certs |-> "none"]
    /\ remover = [pc |-> "off", child |-> "none", errors |-> FALSE]
    /\ late = FALSE

RelayAt(pc) == relay.pc = pc
RelayGoes(pc) == relay' = [relay EXCEPT !.pc = pc]
Serves(c) == RelayAt("https") /\ relay.pair = c

-----------------------------------------------------------------------------
(* ensure_ready, when the relay starts and, if its port is taken, once more. *)
(* (A removal under way goes on; what it reports no longer holds.)           *)

RelayBegins ==
    /\ RelayAt("off")
    /\ relay' = [NoRelay EXCEPT !.pc = "load"]
    /\ remover' = [remover EXCEPT !.pc = "off"]
    /\ late' = FALSE
    /\ UNCHANGED <<files, fresh, valid, root, setup>>

PortIsTaken ==
    /\ RelayAt("http") \/ RelayAt("https")
    /\ ~relay.again
    /\ relay' = [NoRelay EXCEPT !.pc = "load", !.again = TRUE]
    /\ late' = FALSE
    /\ UNCHANGED <<files, fresh, valid, root, setup, remover>>

(* inspect, is_ours: by its subject, whatever else is in the stores. *)
Ours == Certs

(* usable and validate_for_trust: one of ours that lasts 30 days more. *)
Usable(c) == c \in Ours \cap valid
Installable(c) == Usable(c)

(* server_config: halves that are not of one another make no server. *)
MakesServer == files.key = files.cert

(* load *)
Loadable == Usable(files.cert) /\ MakesServer

LoadPair ==
    /\ RelayAt("load") /\ Loadable
    /\ relay' = [relay EXCEPT !.pc = "check", !.pair = files.cert]
    /\ UNCHANGED <<files, fresh, valid, root, setup, remover, late>>

Generates(c) == c \in fresh /\ fresh' = fresh \ {c}

(* load_or_create; a file that cannot be read counts as none. *)
NewPair ==
    /\ RelayAt("load")
    /\ \/ RelayGoes("http") /\ UNCHANGED fresh
       \/ \E c \in fresh : /\ Generates(c)
                           /\ relay' = [relay EXCEPT !.pc = "saveKey", !.pair = c]
    /\ UNCHANGED <<files, valid, root, setup, remover, late>>

(* save: the key first; an error ends it, but the pair is used. *)
SaveKey ==
    /\ RelayAt("saveKey")
    /\ \/ files' = [files EXCEPT !.key = relay.pair] /\ RelayGoes("saveCert")
       \/ RelayGoes("check") /\ UNCHANGED files
    /\ UNCHANGED <<fresh, valid, root, setup, remover, late>>

SaveCert ==
    /\ RelayAt("saveCert")
    /\ files' \in {files, [files EXCEPT !.cert = relay.pair]}
    /\ RelayGoes("check")
    /\ UNCHANGED <<fresh, valid, root, setup, remover, late>>

(* trusted: the store may not be readable. *)
Trusted(then, else) ==
    \/ relay.pair \in root /\ RelayGoes(then)
    \/ RelayGoes(else)

CheckTrust ==
    /\ RelayAt("check")
    /\ Trusted("https", "prompt")
    /\ UNCHANGED <<files, fresh, valid, root, setup, remover, late>>

(* run_elevated: the user declines or it fails; a child is started and waited *)
(* for; or Windows gives no handle of it, which counts as exit code 0.        *)
(* (Bound: one child of each pair at a time.)                                 *)
PromptForTrust ==
    /\ RelayAt("prompt")
    /\ \/ RelayGoes("http") /\ UNCHANGED setup
       \/ /\ setup[relay.pair] = "none"
          /\ setup' = [setup EXCEPT ![relay.pair] = "started"]
          /\ RelayGoes("wait") \/ RelayGoes("verify")
    /\ UNCHANGED <<files, fresh, valid, root, remover, late>>

(* It exits with 0, with an error, or not within a minute. *)
WaitForTrust ==
    /\ RelayAt("wait")
    /\ LET mine == setup[relay.pair] IN
       \/ mine = "removed" /\ RelayGoes("verify")
            /\ setup' = [setup EXCEPT ![relay.pair] = "none"]
       \/ mine = "failed" /\ RelayGoes("http")
            /\ setup' = [setup EXCEPT ![relay.pair] = "none"]
       \/ RelayGoes("http") /\ UNCHANGED setup
    /\ UNCHANGED <<files, fresh, valid, root, remover, late>>

(* A mistake run machine must catch: exit code 0 is taken at its word. *)
VerifyNothing ==
    /\ RelayAt("verify")
    /\ RelayGoes("https")
    /\ UNCHANGED <<files, fresh, valid, root, setup, remover, late>>

VerifyTrust ==
    /\ RelayAt("verify")
    /\ Trusted("https", "http")
    /\ UNCHANGED <<files, fresh, valid, root, setup, remover, late>>

(* The watchdog ends; an open prompt goes with it. *)
RelayEnds ==
    /\ ~RelayAt("off")
    /\ relay' = NoRelay
    /\ UNCHANGED <<files, fresh, valid, root, setup, remover, late>>

-----------------------------------------------------------------------------
(* run_bootstrap in the elevated child.                                      *)

(* Takes ours out of the root store, some of them if it fails half way.      *)
RemovesRoots(victims) ==
    /\ root' = root \ victims
    /\ late' = (late \/ \E c \in victims : Serves(c))

AddRoot(c) ==
    /\ setup[c] = "started"
    /\ \/ Installable(c) /\ root' = root \cup {c} /\ setup' = [setup EXCEPT ![c] = "added"]
       \/ setup' = [setup EXCEPT ![c] = "failed"] /\ UNCHANGED root
    /\ UNCHANGED <<files, fresh, valid, relay, remover, late>>

RemoveOthers(c) ==
    /\ setup[c] = "added"
    /\ \/ RemovesRoots(Ours \ {c}) /\ setup' = [setup EXCEPT ![c] = "removed"]
       \/ /\ \E some \in SUBSET (Ours \ {c}) : RemovesRoots(some)
          /\ setup' = [setup EXCEPT ![c] = "failed"]
    /\ UNCHANGED <<files, fresh, valid, relay, remover>>

(* Nobody waits for its exit code. *)
SetupForgotten(c) ==
    /\ setup[c] \in {"removed", "failed"}
    /\ ~(RelayAt("wait") /\ relay.pair = c)
    /\ setup' = [setup EXCEPT ![c] = "none"]
    /\ UNCHANGED <<files, fresh, valid, root, relay, remover, late>>

-----------------------------------------------------------------------------
(* remove_relay_tls, once no watchdog and no child of one runs, and          *)
(* run_check and run_remove.  A store that cannot be read needs removal.     *)

RemoverAt(pc) == remover.pc = pc

RemovalBegins ==
    /\ RelayAt("off") /\ \A c \in Certs : setup[c] = "none"
    /\ RemoverAt("off") /\ remover.child = "none"
    /\ remover' = [remover EXCEPT !.pc = "check"]
    /\ UNCHANGED <<files, fresh, valid, root, relay, setup, late>>

(* Skipped if clean; skipped without the program, declined or failed; or a  *)
(* child is started and waited for; or Windows gives no handle of it, which *)
(* counts as exit code 0 while it is still at work.                         *)
NeedsRemoval == root # {}
RemovalElevates ==
    /\ RemoverAt("check")
    /\ \/ ~NeedsRemoval /\ remover' = [remover EXCEPT !.pc = "clean"]
       \/ remover' = [remover EXCEPT !.pc = "told"]
       \/ \E pc \in {"wait", "unseen"} :
             remover' = [pc |-> pc, child |-> "roots", errors |-> FALSE]
    /\ UNCHANGED <<files, fresh, valid, root, relay, setup, late>>

(* Each step may fail; the others are done all the same. *)
RemoveRoots ==
    /\ remover.child = "roots"
    /\ \/ RemovesRoots(Ours) /\ remover' = [remover EXCEPT !.child = "key"]
       \/ /\ \E some \in SUBSET Ours : RemovesRoots(some)
          /\ remover' = [remover EXCEPT !.child = "key", !.errors = TRUE]
    /\ UNCHANGED <<files, fresh, valid, relay, setup>>

RemoveKey ==
    /\ remover.child = "key"
    /\ \/ files' = [files EXCEPT !.key = None] /\ remover' = [remover EXCEPT !.child = "cert"]
       \/ remover' = [remover EXCEPT !.child = "cert", !.errors = TRUE] /\ UNCHANGED files
    /\ UNCHANGED <<fresh, valid, root, relay, setup, late>>

RemoveCert ==
    /\ remover.child = "cert"
    /\ \/ files' = [files EXCEPT !.cert = None] /\ remover' = [remover EXCEPT !.child = "exit"]
       \/ /\ remover' = [remover EXCEPT !.child = "exit", !.errors = TRUE]
          /\ UNCHANGED files
    /\ UNCHANGED <<fresh, valid, root, relay, setup, late>>

RemovalReports ==
    /\ RemoverAt("wait")
    /\ \/ /\ remover.child = "exit"
          /\ remover' = [remover EXCEPT !.pc = IF remover.errors THEN "told" ELSE "clean",
                                        !.child = "none"]
       \/ /\ remover.child # "exit"     \* TLS_TIMEOUT
          /\ remover' = [remover EXCEPT !.pc = "told"]
    /\ UNCHANGED <<files, fresh, valid, root, relay, setup, late>>

RemovalForgotten ==
    /\ remover.child = "exit" /\ ~RemoverAt("wait")
    /\ remover' = [remover EXCEPT !.child = "none"]
    /\ UNCHANGED <<files, fresh, valid, root, relay, setup, late>>

Expires(c) ==
    /\ c \in valid /\ c \notin fresh
    /\ valid' = valid \ {c}
    /\ UNCHANGED <<files, fresh, root, relay, setup, remover, late>>

RelayStep ==
    \/ RelayBegins \/ PortIsTaken \/ LoadPair \/ NewPair \/ SaveKey \/ SaveCert
    \/ CheckTrust \/ PromptForTrust \/ WaitForTrust \/ VerifyTrust \/ RelayEnds

RemovalStep ==
    \/ RemovalBegins \/ RemovalElevates \/ RemoveRoots \/ RemoveKey \/ RemoveCert
    \/ RemovalReports \/ RemovalForgotten

TlsNext ==
    \/ RelayStep \/ RemovalStep
    \/ \E c \in Certs : AddRoot(c) \/ RemoveOthers(c) \/ SetupForgotten(c) \/ Expires(c)

-----------------------------------------------------------------------------
(* A relay that serves HTTPS serves a certificate the machine trusts, and so *)
(* VRChat never meets one it refuses -- whatever children of this or earlier *)
(* starts are still at work, and even if Windows gives no handle of the      *)
(* child -- unless one of them takes it out while it is served               *)
(* (ensure_ready, "HTTPS verification failed after elevation").              *)
SecureIsTrusted == RelayAt("https") => relay.pair \in root \/ late

(* Where the uninstaller found nothing left to remove, or its child was seen *)
(* to exit with 0, no certificate of ours is trusted any more, until a       *)
(* watchdog is started again (run_check, run_remove).  A child without a     *)
(* handle is reported as done too, but it may be at work yet, or have failed *)
(* with nobody to tell: of it nothing is claimed.                            *)
NoTrustLeft == RemoverAt("clean") => root = {}
=============================================================================
