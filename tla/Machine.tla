------------------------------ MODULE Machine ------------------------------
(***************************************************************************)
(* What the program does to the machine it is installed on, and how it is  *)
(* undone: VRChat's yt-dlp, the hosts entry and the files (Uninstall), the *)
(* certificate of the relay (RelayTls), the limit of connections (Wininet) *)
(* and the codecs (Codec), which stay.  These share nothing, so that a     *)
(* behaviour is one of any of them.                                        *)
(***************************************************************************)
EXTENDS Uninstall, RelayTls, Wininet, Codec

VARIABLE part

Parts == {"uninstall", "certificate", "limit", "codecs"}
machineVars == <<vars, tlsVars, limitVars, codecVars, part>>

MachineInit ==
    /\ part \in Parts
    /\ Init /\ TlsInit /\ CodecInit
    /\ LimitInit
    /\ part = "limit" \/ limit = "absent"

MachineNext ==
    /\ \/ part = "uninstall" /\ Next /\ UNCHANGED <<tlsVars, limitVars, codecVars>>
       \/ part = "certificate" /\ TlsNext /\ UNCHANGED <<vars, limitVars, codecVars>>
       \/ part = "limit" /\ LimitNext /\ UNCHANGED <<vars, tlsVars, codecVars>>
       \/ part = "codecs" /\ CodecNext /\ UNCHANGED <<vars, tlsVars, limitVars>>
    /\ UNCHANGED part

MachineSpec == MachineInit /\ [][MachineNext]_machineVars

(* Types of all. *)
MachineTypeOK == TypeOK /\ TlsTypeOK /\ LimitTypeOK /\ CodecTypeOK

(* What the uninstaller found gone, or saw a removal succeed for, is gone:   *)
(* the trust in our certificates (run_check, run_remove) and the limit we    *)
(* set (restore).                                                            *)
TracesGone == NoTrustLeft /\ LimitComesBack
=============================================================================
