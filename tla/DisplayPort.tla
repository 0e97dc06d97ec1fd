---------------------------- MODULE DisplayPort ----------------------------
(***************************************************************************)
(* DisplayPort as an alternate mode of the USB-C port (pd_com.c): once the *)
(* port is the host (DFP) it asks the partner for its modes, enters the    *)
(* DisplayPort mode, asks for the status and configures the pins; the      *)
(* partner's hot plug detect (HPD) is passed on to the SOM. As a device    *)
(* (UFP) it answers the same requests. Each step is the answer to a        *)
(* message: there is no timeout and no retry but a new session.            *)
(*                                                                         *)
(* The partner is external; it keeps to the protocol, may refuse, may be   *)
(* busy, and messages may be lost in both directions. What of the session  *)
(* is not about the alternate mode is in PdPolicy.                         *)
(***************************************************************************)
EXTENDS Naturals, Sequences

CONSTANTS
  MaxWire    \* bound on the messages on their way

ASSUME MaxWireAssumption == MaxWire \in Nat \ {0}

Assignments == {"C", "D", "E"}       \* pin assignments
Requests == {"SVIDS", "MODES", "ENTER", "STATUS", "CONFIGURE", "ATTENTION"}
Kinds    == {"REQ", "ACK", "NAK", "BUSY"}

(* pins: what a MODES answer offers or a CONFIGURE asks for; hpd: of a     *)
(* STATUS or an ATTENTION. A NAK or BUSY has no second object: what is     *)
(* read for it then is left from an earlier message.                       *)
Message == [kind: Kinds, cmd: Requests, pins: SUBSET Assignments, hpd: BOOLEAN]

VARIABLES
  attached,            \* pd_state is neither SETUP nor UNATTACHED
  dfp,                 \* pd_datarole
  ready,               \* source_pdo_ready_acked
  alt_mode_requested,
  pins,                \* alt_mode_pin_assignment
  hpd,                 \* PIN_V20_DP_HPD
  toPeer, toUs,        \* the messages on their way
  mode,                \* the partner's: "out", "entered" or "configured"
  configured,          \* the assignment it was configured with
  offers,              \* the assignments it offers, {} without DisplayPort
  display,             \* its HPD: a display is there and on
  trouble              \* what went wrong in this session (history)

ourVars  == <<attached, dfp, ready, alt_mode_requested, pins, hpd>>
peerVars == <<mode, configured, offers, display>>
vars == <<ourVars, peerVars, toPeer, toUs, trouble>>

Msg(kind, cmd, p, h) == [kind |-> kind, cmd |-> cmd, pins |-> p, hpd |-> h]
Req(cmd) == Msg("REQ", cmd, {}, FALSE)
Ack(cmd) == Msg("ACK", cmd, {}, FALSE)

Init ==
  /\ attached = FALSE /\ dfp = FALSE /\ ready = FALSE
  /\ alt_mode_requested = FALSE
  /\ pins = "none" /\ hpd = FALSE
  /\ toPeer = <<>> /\ toUs = <<>>
  /\ mode = "out" /\ configured = "none" /\ offers = {} /\ display = FALSE
  /\ trouble = {}

-----------------------------------------------------------------------------
(* The session (see PdPolicy).                                             *)

(* Mutant: what was requested in the last session is remembered. *)
SetupKeepsRequested ==
  /\ attached' = FALSE /\ dfp' = FALSE /\ ready' = FALSE
  /\ UNCHANGED alt_mode_requested
  /\ pins' = "E" /\ hpd' = FALSE
  /\ toPeer' = <<>> /\ toUs' = <<>>
  /\ mode' = "out" /\ configured' = "none"
  /\ trouble' = {}
  /\ UNCHANGED <<offers, display>>

(* PD_STATE_SETUP, at boot and after every session. It resets the FUSB302  *)
(* and sends a hard reset, upon which the partner leaves all modes.        *)
Setup ==
  /\ attached' = FALSE /\ dfp' = FALSE /\ ready' = FALSE
  /\ alt_mode_requested' = FALSE
  /\ pins' = "E" /\ hpd' = FALSE
  /\ toPeer' = <<>> /\ toUs' = <<>>
  /\ mode' = "out" /\ configured' = "none"
  /\ trouble' = {}
  /\ UNCHANGED <<offers, display>>

(* A source is the host, a sink at first the device.                       *)
Attach ==
  /\ ~attached /\ pins = "E"
  /\ attached' = TRUE /\ dfp' \in BOOLEAN
  /\ offers' \in SUBSET Assignments /\ display' \in BOOLEAN
  /\ UNCHANGED <<ready, alt_mode_requested, pins, hpd, toPeer, toUs, mode, configured, trouble>>

Send(m) == toPeer' = Append(toPeer, m)

(* The sink we supply has its power (source_pdo_ready_acked).              *)
PowerReady ==
  /\ attached /\ dfp /\ ~ready /\ ready' = TRUE
  /\ UNCHANGED <<attached, dfp, alt_mode_requested, pins, hpd, peerVars, toPeer, toUs, trouble>>

(* ATTACHED_SRC *)
Trigger ==
  /\ ready /\ ~alt_mode_requested
  /\ Send(Req("SVIDS"))
  /\ alt_mode_requested' = TRUE
  /\ UNCHANGED <<attached, dfp, ready, pins, hpd, peerVars, toUs, trouble>>

(* Our supply has made us the host (swap_dr_after_goodcrc).                *)
SwappedToDfp ==
  /\ attached /\ ~dfp /\ toUs = <<>> /\ toPeer = <<>>
  /\ dfp' = TRUE
  /\ IF alt_mode_requested THEN UNCHANGED toPeer ELSE Send(Req("SVIDS"))
  /\ alt_mode_requested' = TRUE
  /\ UNCHANGED <<attached, ready, pins, hpd, peerVars, toUs, trouble>>

-----------------------------------------------------------------------------
(* pd_handle_vdm_response. The type of a message is told by its ACK bit,   *)
(* which BUSY has, too ("TODO: handle BUSY"); a NAK is ignored.            *)

Take == attached /\ toUs # <<>> /\ toUs' = Tail(toUs)
In   == Head(toUs)
IsAck == In.kind \in {"ACK", "BUSY"}

(* What is read as the second object. *)
Obj1(m) ==
  IF m.kind = "ACK" THEN {[pins |-> m.pins, hpd |-> m.hpd]}
  ELSE [pins: {{}, {"D"}}, hpd: BOOLEAN]

sessionKept == <<attached, dfp, ready, peerVars, trouble>>

DiscoveredSvids ==
  /\ Take /\ IsAck /\ In.cmd = "SVIDS"
  /\ Send(Req("MODES"))
  /\ alt_mode_requested' = TRUE
  /\ UNCHANGED <<pins, hpd, sessionKept>>

(* Mutant: whatever the partner offers will do. *)
DiscoveredModesAny ==
  /\ Take /\ IsAck /\ In.cmd = "MODES"
  /\ \E obj1 \in Obj1(In) : pins' \in obj1.pins
  /\ Send(Req("ENTER"))
  /\ UNCHANGED <<alt_mode_requested, hpd, sessionKept>>

(* D, which leaves two lanes to USB, if the partner offers it, else E,     *)
(* whether it offers that or not.                                          *)
DiscoveredModes ==
  /\ Take /\ IsAck /\ In.cmd = "MODES"
  /\ \E obj1 \in Obj1(In) : pins' = IF "D" \in obj1.pins THEN "D" ELSE "E"
  /\ Send(Req("ENTER"))
  /\ UNCHANGED <<alt_mode_requested, hpd, sessionKept>>

EnteredMode ==
  /\ Take /\ IsAck /\ In.cmd = "ENTER"
  /\ Send(Req("STATUS"))
  /\ UNCHANGED <<alt_mode_requested, pins, hpd, sessionKept>>

StatusUpdated ==
  /\ Take /\ IsAck /\ In.cmd = "STATUS"
  /\ Send(Msg("REQ", "CONFIGURE", {pins}, FALSE))
  /\ \E obj1 \in Obj1(In) : hpd' = obj1.hpd
  /\ UNCHANGED <<alt_mode_requested, pins, sessionKept>>

(* The end of the negotiation, and what is not followed up.                *)
NothingToDo ==
  /\ Take
  /\ In.kind = "NAK" \/ (IsAck /\ In.cmd \in {"CONFIGURE", "ATTENTION"})
  /\ UNCHANGED <<alt_mode_requested, pins, hpd, toPeer, sessionKept>>

(* pd_handle_vdm_request: each request is acknowledged, in whatever order  *)
(* they come. The status and an ATTENTION carry the partner's HPD.         *)

(* Mutant: an ATTENTION is acknowledged only. *)
HpdOfStatusOnly(m) == IF m.cmd = "STATUS" THEN m.hpd ELSE hpd

HpdOf(m) == IF m.cmd \in {"STATUS", "ATTENTION"} THEN m.hpd ELSE hpd

AnswerRequest ==
  /\ Take /\ In.kind = "REQ"
  /\ Send(IF In.cmd \in {"MODES", "CONFIGURE"}
          THEN Msg("ACK", In.cmd, {pins}, FALSE) ELSE Ack(In.cmd))
  /\ hpd' = HpdOf(In)
  /\ UNCHANGED <<alt_mode_requested, pins, sessionKept>>

Handle ==
  \/ DiscoveredSvids \/ DiscoveredModes \/ EnteredMode \/ StatusUpdated
  \/ NothingToDo \/ AnswerRequest

-----------------------------------------------------------------------------
(* The partner (external). As a device it answers; a request it cannot     *)
(* fulfil it refuses.                                                      *)

PeerTakes == toPeer # <<>> /\ toPeer' = Tail(toPeer)
Got       == Head(toPeer)
Reply(m)  == toUs' = Append(toUs, m)
peerKept  == <<ourVars, offers, display>>

Fulfils(m) ==
  CASE m.cmd = "STATUS"    -> mode # "out"
    [] m.cmd = "CONFIGURE" -> mode # "out" /\ m.pins \subseteq offers
    [] OTHER               -> offers # {}

PeerAnswers ==
  /\ PeerTakes /\ Got.kind = "REQ" /\ Fulfils(Got)
  /\ Reply(CASE Got.cmd = "MODES"  -> Msg("ACK", "MODES", offers, FALSE)
             [] Got.cmd = "STATUS" -> Msg("ACK", "STATUS", {}, display)
             [] OTHER              -> Ack(Got.cmd))
  /\ mode' = CASE Got.cmd = "ENTER" /\ mode = "out" -> "entered"
               [] Got.cmd = "CONFIGURE"             -> "configured"
               [] OTHER                             -> mode
  /\ configured' = IF Got.cmd = "CONFIGURE" THEN CHOOSE p \in Got.pins : TRUE ELSE configured
  /\ UNCHANGED <<peerKept, trouble>>

PeerRefuses ==
  /\ PeerTakes /\ Got.kind = "REQ" /\ ~Fulfils(Got)
  /\ Reply(Msg("NAK", Got.cmd, {}, FALSE))
  /\ trouble' = trouble \cup {"refused"}
  /\ UNCHANGED <<peerKept, mode, configured>>

PeerBusy ==
  /\ PeerTakes /\ Got.kind = "REQ"
  /\ Reply(Msg("BUSY", Got.cmd, {}, FALSE))
  /\ trouble' = trouble \cup {"busy"}
  /\ UNCHANGED <<peerKept, mode, configured>>

PeerIgnores ==
  /\ PeerTakes /\ Got.kind # "REQ"
  /\ UNCHANGED <<peerKept, mode, configured, toUs, trouble>>

(* In the mode a device reports each change of its HPD. (A bound: not      *)
(* while MaxWire messages are on their way.)                               *)
HpdChanges ==
  /\ attached /\ Len(toUs) + Len(toPeer) < MaxWire
  /\ display' = ~display
  /\ IF dfp /\ mode # "out"
     THEN Reply(Msg("REQ", "ATTENTION", {}, ~display)) ELSE UNCHANGED toUs
  /\ UNCHANGED <<ourVars, mode, configured, offers, toPeer, trouble>>

(* As the host it asks, one request at a time; its status has no HPD.      *)
PeerAsks ==
  /\ attached /\ ~dfp /\ offers # {} /\ toUs = <<>> /\ toPeer = <<>>
  /\ \E cmd \in Requests \ {"ATTENTION"} : Reply(Req(cmd))
  /\ UNCHANGED <<ourVars, peerVars, toPeer, trouble>>

(* A message is lost for good, after the retries of the FUSB302.           *)
Lose ==
  /\ \/ toPeer # <<>> /\ toPeer' = Tail(toPeer) /\ UNCHANGED toUs
     \/ toUs # <<>> /\ toUs' = Tail(toUs) /\ UNCHANGED toPeer
  /\ trouble' = trouble \cup {"lost"}
  /\ UNCHANGED <<ourVars, peerVars>>

Peer == PeerAnswers \/ PeerRefuses \/ PeerBusy \/ PeerIgnores

Next ==
  \/ Setup \/ Attach \/ PowerReady \/ Trigger \/ SwappedToDfp
  \/ Handle \/ Peer \/ HpdChanges \/ PeerAsks \/ Lose

Spec == Init /\ [][Next]_vars

(* The main loop runs, and the partner answers.                            *)
FairSpec == Spec /\ WF_vars(Trigger \/ Handle) /\ WF_vars(Peer)

-----------------------------------------------------------------------------
DisplayTypeOK ==
  /\ {attached, dfp, ready, alt_mode_requested, hpd, display} \subseteq BOOLEAN
  /\ pins \in {"none", "D", "E"}
  /\ toPeer \in Seq(Message) /\ toUs \in Seq(Message)
  /\ Len(toPeer) + Len(toUs) <= MaxWire
  /\ mode \in {"out", "entered", "configured"} /\ configured \in Assignments \cup {"none"}
  /\ offers \subseteq Assignments
  /\ trouble \subseteq {"lost", "refused", "busy"}
  /\ pins = "none" => ~attached

Settled == toPeer = <<>> /\ toUs = <<>>

(* When nothing is on its way, the SOM sees a hot plug only for a display  *)
(* that is there and configured with the assignment we use, and one that   *)
(* is configured is not hidden from it, unless in this session a message   *)
(* was lost, refused or answered with BUSY. (PIN_V20_DP_HPD)               *)
HpdMeansPicture ==
  Settled /\ trouble = {} =>
    (hpd <=> attached /\ mode = "configured" /\ configured = pins /\ display)

(* A partner that offers an assignment we use is configured with one, or   *)
(* the session ends, unless a message was lost, refused or answered with   *)
(* BUSY: nothing is asked twice. (alt_mode_requested)                      *)
DisplayComesUp ==
  (attached /\ dfp /\ (ready \/ alt_mode_requested) /\ offers \cap {"D", "E"} # {})
    ~> (mode = "configured" \/ trouble # {} \/ ~attached)
=============================================================================
