------------------------------- MODULE PdPort -------------------------------
(***************************************************************************)
(* The policy engine (PdPolicy) implements the port of UsbPort. The phase  *)
(* is told by pd_state alone, whatever step the main loop is in.           *)
(***************************************************************************)
EXTENDS PdPolicy

Phase ==
  CASE pd_state = "SETUP"      -> "closed"
    [] pd_state = "UNATTACHED" -> "looking"
    [] pd_state \in {"UNATTACHED_SNK", "ATTACHED_SNK"} -> "sink"
    [] pd_state \in {"UNATTACHED_SRC", "ATTACHED_SRC"} -> "source"

Port == INSTANCE UsbPort WITH
  Resets   <- "pdreset" \in Commands,
  phase    <- Phase,
  charging <- chg_en

(* Whatever the partner sends and whatever commands come between the steps *)
(* of the main loop, the port is only used as UsbPort says: no session     *)
(* begins with charging left on, none turns charging on before it is       *)
(* attached, none goes from one partner to the next without closing.       *)
(* (pd_com.c, pd_tick)                                                     *)
PortSpec == Port!Spec
=============================================================================
