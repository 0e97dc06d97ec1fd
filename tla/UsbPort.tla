------------------------------ MODULE UsbPort ------------------------------
(***************************************************************************)
(* What the USB-C port promises the rest of the system: it looks for a     *)
(* partner with charging off, becomes a sink or a source, may swap, and    *)
(* ends every session by closing; charging begins only when an attached    *)
(* partner grants it, or, while the port is closed, for an empty battery.  *)
(* PdPolicy implements this (PdPort).                                      *)
(***************************************************************************)
CONSTANTS
  Resets     \* TRUE if the command pdreset may come in the middle of a step

VARIABLES
  phase,
  charging

Attached == {"sink", "source"}

Init == phase = "closed" /\ charging \in BOOLEAN

(* Looking for a partner begins with charging off.                         *)
Look ==
  /\ phase = "closed" /\ phase' = "looking"
  /\ charging' = FALSE

Attach ==
  /\ phase = "looking" /\ phase' \in Attached
  /\ UNCHANGED charging

Swap ==
  /\ phase \in Attached /\ phase' \in Attached
  /\ UNCHANGED charging

Grant ==
  /\ phase \in Attached
  /\ charging' = TRUE
  /\ UNCHANGED phase

ChargeEmptyBattery ==
  /\ phase = "closed"
  /\ charging' = TRUE
  /\ UNCHANGED phase

StopCharging ==
  /\ charging' = FALSE
  /\ UNCHANGED phase

Close ==
  /\ phase' = "closed"
  /\ UNCHANGED charging

(* A step that was under way when the command closed the port overwrites   *)
(* it: the session goes on.                                                *)
Resume ==
  /\ Resets
  /\ phase = "closed" /\ phase' \in Attached
  /\ UNCHANGED charging

Next ==
  \/ Look \/ Attach \/ Swap \/ Grant \/ ChargeEmptyBattery
  \/ StopCharging \/ Close \/ Resume

Spec == Init /\ [][Next]_<<phase, charging>>
=============================================================================
