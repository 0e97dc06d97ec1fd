----------------------------- MODULE MCPdPolicy -----------------------------
(* A partner that sends anything at any time, and all commands. *)
EXTENDS PdPort

Msg(r, d, ty, c) == [role |-> r, dr |-> d, type |-> ty, cur |-> c]

AnyMessages ==
  {Msg("SOURCE", "DFP", ty, 0) : ty \in MsgTypes \ {"SOURCE_CAPS"}}
  \cup {Msg("SOURCE", "UFP", ty, 0) : ty \in {"GOODCRC", "DR_SWAP"}}
  \cup {Msg("SOURCE", "DFP", "SOURCE_CAPS", c) : c \in {400}}
  \cup {Msg("SINK", "UFP", ty, 0) : ty \in MsgTypes}

(* What the commands run against: the messages that change the session.   *)
SomeMessages ==
  {Msg("SOURCE", "DFP", ty, 0) : ty \in {"PS_RDY", "PR_SWAP", "VCONN_SWAP", "DR_SWAP", "GOODCRC"}}
  \cup {Msg("SINK", "UFP", ty, 0) : ty \in {"PR_SWAP", "VCONN_SWAP"}}
=============================================================================
