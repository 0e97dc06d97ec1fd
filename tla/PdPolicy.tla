------------------------------ MODULE PdPolicy ------------------------------
(***************************************************************************)
(* The USB Power Delivery policy engine of the Pocket Reform system        *)
(* controller (pd_com.c), with the parts of the charger (sysctl.c) and of  *)
(* the CLI (hwapi_pocket.c) that it shares state with.                     *)
(*                                                                         *)
(* Actors:                                                                 *)
(*   - the main loop, one iteration in up to four steps (pc): pd_comm_pd,  *)
(*     the branch of pd_tick for the pd_state found there (pc is then that *)
(*     state, whatever an interrupt makes of pd_state meanwhile), the role *)
(*     assignment that ends the UNATTACHED branch, and charger_tick;       *)
(*   - commands, which the SPI interrupt handler runs between any two      *)
(*     steps while the SOM is on, and the UART between two iterations;     *)
(*   - whatever is plugged into the port (external).                       *)
(* The model is of motherboard 2.0 and of a build without FACTORY_MODE.    *)
(***************************************************************************)
EXTENDS Integers, Sequences

CONSTANTS
  Messages,        \* the messages the port partner may send
  Commands,        \* the CLI commands that are given
  CapPeriod,       \* 30: source capabilities are repeated every so many ticks
  DetachPeriod,    \* 500: a source looks for a detach
  AckPeriod,       \* 1000: a source looks whether its capabilities led anywhere
  SrcSettle,       \* 10: ticks before a source looks for a sink
  SrcTimeout,      \* 1000: a source gives up waiting for a sink
  SrcReadTimeout,  \* 10000: a source gives up reading the FUSB302
  VbusTimeout,     \* 2000: a sink gives up waiting for VBUS
  SoftResetAfter,  \* 8000: a sink without charge sends a soft reset
  HandshakeTimeout,\* 10000: a sink without charge starts over
  TMax, TWrap,     \* bound on t: it goes from TMax back to TMax - TWrap + 1
  MaxAttempts      \* 4: bound on the count of flushed transmissions

States == {"SETUP", "UNATTACHED", "UNATTACHED_SNK", "ATTACHED_SNK",
           "UNATTACHED_SRC", "ATTACHED_SRC"}
Steps == {"comm", "roles", "charger"} \cup States
PowerRoles == {"SINK", "SOURCE"}
DataRoles  == {"UFP", "DFP"}
MsgTypes == {"EXT", "GOODCRC", "ACCEPT", "REJECT", "WAIT", "PS_RDY", "DR_SWAP",
             "PR_SWAP", "VCONN_SWAP", "SOFT_RESET", "GET_SINK_CAP",
             "GET_SOURCE_CAP", "SOURCE_CAPS", "REQUEST", "SVIDS_ACK", "OTHER"}
TxTypes == {"NOT_SUPPORTED", "ACCEPT", "WAIT", "PS_RDY", "SOFT_RESET",
            "SINK_CAPS", "SOURCE_CAPS", "REQUEST", "VDM"}
CommandNames == {"pdreset", "pdcap", "pdsink", "set-gpio", "set-rail"}
(* cur: what pick_pdo makes of a SOURCE_CAPS message, in units of 10 mA    *)
Message == [role: PowerRoles, dr: DataRoles, type: MsgTypes, cur: Nat]

ASSUME MessagesAssumption == Messages \subseteq Message
ASSUME CommandsAssumption == Commands \subseteq CommandNames
ASSUME TimerAssumption ==
  /\ {CapPeriod, DetachPeriod, AckPeriod, SrcSettle, SrcTimeout, SrcReadTimeout,
      VbusTimeout, SoftResetAfter, HandshakeTimeout, TMax, TWrap} \subseteq Nat \ {0}
  /\ TWrap <= TMax
  /\ MaxAttempts \in Nat

VARIABLES
  pc,            \* the step of the main loop that comes next: "comm", the
                 \* branch of a state, "roles" or "charger"
  pd_state,
  t,
  pd_powerrole, pd_datarole,
  swap_dr_after_goodcrc,
  accept_sent, ready_sent, ready_acked, cap_acked,  \* source_pdo_*, pd_source_cap_acked
  alt_mode_requested, sent_soft_reset, enable_vconn,
  attempts,      \* pd_src_attempts
  requested_current,
  chg_en, input_limit,       \* charger: charging enabled, input_i_limit1 (50 mA)
  emergency,                 \* battery_info.emergency_charge_necessary
  som_is_powered, force_sink,
  v5,            \* PIN_USB_SRC1_ENABLE: the port supplies 5 V
  drp,           \* the FUSB302 toggles between both roles (CONTROL2 mode)
  rx_on,         \* the FUSB302's receiver is powered (FUSB_POWER)
  peer,          \* what is plugged in (external)
  tx             \* the messages sent by the last step

sourceVars == <<accept_sent, ready_sent, ready_acked, cap_acked>>
roleVars   == <<pd_powerrole, pd_datarole>>
chargeVars == <<chg_en, input_limit>>
boardVars  == <<som_is_powered, force_sink>>
vars == <<pc, pd_state, t, roleVars, swap_dr_after_goodcrc, sourceVars,
          alt_mode_requested, sent_soft_reset, enable_vconn, attempts,
          requested_current, chargeVars, emergency, boardVars, v5, drp, rx_on, peer, tx>>

-----------------------------------------------------------------------------
(* Charger.                                                                *)

DefaultLimit == 10     \* 500 mA

charger_enable_charge(current) ==
  /\ input_limit' = current \div 5
  /\ chg_en' = TRUE

charger_disable_charge ==
  /\ chg_en' = FALSE
  /\ input_limit' = DefaultLimit

(* Mutant: no upper limit. *)
ClampUnlimited(cur) == IF cur < 10 THEN 10 ELSE cur

Clamp(cur) == IF cur > 300 THEN 300 ELSE IF cur < 10 THEN 10 ELSE cur

-----------------------------------------------------------------------------
(* Reset at boot: main runs setup() (charger_init may continue an          *)
(* emergency charge, pd_init), then the loop.                              *)

Init ==
  /\ pc = "comm"
  /\ pd_state = "SETUP"
  /\ t = 0
  /\ pd_powerrole = "SINK" /\ pd_datarole = "UFP"
  /\ swap_dr_after_goodcrc = FALSE
  /\ accept_sent = FALSE /\ ready_sent = FALSE
  /\ ready_acked = FALSE /\ cap_acked = FALSE
  /\ alt_mode_requested = FALSE /\ sent_soft_reset = FALSE
  /\ enable_vconn = FALSE
  /\ attempts = 0
  /\ requested_current = 0
  /\ emergency \in BOOLEAN
  /\ chg_en = emergency
  /\ input_limit = DefaultLimit
  /\ som_is_powered \in BOOLEAN     \* warm boot leaves the SOM on
  /\ force_sink = FALSE
  /\ v5 = FALSE
  /\ drp \in BOOLEAN
  /\ rx_on \in BOOLEAN              \* the FUSB302 is not reset with the MCU
  /\ peer \in {"none", "source", "sink"}
  /\ tx = <<>>

-----------------------------------------------------------------------------
(* pd_comm_pd: at the start of an iteration, unless in SETUP, the 5 V      *)
(* switch is set for the current power role (pd_set_fusb_switches) and at  *)
(* most one message is taken from the FUSB302. The handlers below say what *)
(* a message does; each leaves pc, t, v5 and the environment to Receive.   *)

(* Mutant: switched on, never off. *)
pd_set_fusb_switches_on == v5' = (v5 \/ pd_powerrole = "SOURCE")

pd_set_fusb_switches == v5' = (pd_powerrole = "SOURCE")

replyOnly == <<pd_state, roleVars, swap_dr_after_goodcrc, sourceVars,
               alt_mode_requested, enable_vconn, requested_current, chargeVars>>

Answer(reply) == tx' = reply /\ UNCHANGED replyOnly

(* A power source. GoodCRC of any message completes an accepted data role  *)
(* swap; becoming host starts the DisplayPort discovery once.              *)
CompleteDrSwap(m) ==
  /\ swap_dr_after_goodcrc
  /\ swap_dr_after_goodcrc' = FALSE
  /\ pd_datarole' = m.dr
  /\ alt_mode_requested' = (alt_mode_requested \/ m.dr = "DFP")
  /\ tx' = IF m.dr = "DFP" /\ ~alt_mode_requested THEN <<"VDM">> ELSE <<>>
  /\ UNCHANGED <<pd_state, pd_powerrole, sourceVars, enable_vconn,
                 requested_current, chargeVars>>

SourceGoodCrc(m) ==
  /\ m.type = "GOODCRC"
  /\ CompleteDrSwap(m) \/ (~swap_dr_after_goodcrc /\ Answer(<<>>))

SourcePsReady(m) ==
  /\ m.type = "PS_RDY"
  /\ charger_enable_charge(requested_current)
  /\ tx' = <<>>
  /\ UNCHANGED <<pd_state, roleVars, swap_dr_after_goodcrc, sourceVars,
                 alt_mode_requested, enable_vconn, requested_current>>

(* Mutant: the swap is remembered although the partner was told to wait. *)
SourceDrSwapWaiting(m) ==
  /\ m.type = "DR_SWAP"
  /\ swap_dr_after_goodcrc' = TRUE
  /\ tx' = IF m.dr = "DFP" /\ ~som_is_powered THEN <<"WAIT">> ELSE <<"ACCEPT">>
  /\ UNCHANGED <<pd_state, roleVars, sourceVars, alt_mode_requested,
                 enable_vconn, requested_current, chargeVars>>

SourceDrSwap(m) ==
  /\ m.type = "DR_SWAP"
  /\ \/ m.dr = "DFP" /\ ~som_is_powered /\ Answer(<<"WAIT">>)
     \/ /\ m.dr = "UFP" \/ som_is_powered
        /\ swap_dr_after_goodcrc' = TRUE
        /\ tx' = <<"ACCEPT">>
        /\ UNCHANGED <<pd_state, roleVars, sourceVars, alt_mode_requested,
                       enable_vconn, requested_current, chargeVars>>

(* Mutant: the power role stays. *)
SourcePrSwapState(m) ==
  /\ m.type = "PR_SWAP"
  /\ pd_state' = "UNATTACHED_SRC"
  /\ tx' = <<"ACCEPT">>
  /\ UNCHANGED <<roleVars, swap_dr_after_goodcrc, sourceVars,
                 alt_mode_requested, enable_vconn, requested_current, chargeVars>>

SourcePrSwap(m) ==
  /\ m.type = "PR_SWAP"
  /\ pd_powerrole' = "SOURCE"
  /\ pd_state' = "UNATTACHED_SRC"
  /\ tx' = <<"ACCEPT">>
  /\ UNCHANGED <<pd_datarole, swap_dr_after_goodcrc, sourceVars,
                 alt_mode_requested, enable_vconn, requested_current, chargeVars>>

SourceVconnSwap(m) ==
  /\ m.type = "VCONN_SWAP"
  /\ enable_vconn' = TRUE
  /\ tx' = <<"ACCEPT">>
  /\ UNCHANGED <<pd_state, roleVars, swap_dr_after_goodcrc, sourceVars,
                 alt_mode_requested, requested_current, chargeVars>>

(* Mutant: the largest current ever offered. *)
SourceCapabilitiesLargest(m) ==
  /\ m.type = "SOURCE_CAPS"
  /\ requested_current' = IF Clamp(m.cur) > requested_current
                          THEN Clamp(m.cur) ELSE requested_current
  /\ tx' = <<"REQUEST">>
  /\ UNCHANGED <<pd_state, roleVars, swap_dr_after_goodcrc, sourceVars,
                 alt_mode_requested, enable_vconn, chargeVars>>

SourceCapabilities(m) ==
  /\ m.type = "SOURCE_CAPS"
  /\ requested_current' = Clamp(m.cur)
  /\ tx' = <<"REQUEST">>
  /\ UNCHANGED <<pd_state, roleVars, swap_dr_after_goodcrc, sourceVars,
                 alt_mode_requested, enable_vconn, chargeVars>>

(* pd_send_reset, also a command *)
pd_send_reset ==
  /\ tx' = <<"SOFT_RESET">>
  /\ pd_state' = "SETUP"

keepAllButState == <<roleVars, swap_dr_after_goodcrc, sourceVars, alt_mode_requested,
                     enable_vconn, requested_current, chargeVars>>

(* Discovery: an ACK of Discover SVIDs makes the engine ask for the modes. *)
SvidsAck(m) ==
  /\ m.type = "SVIDS_ACK"
  /\ alt_mode_requested' = TRUE
  /\ tx' = <<"VDM">>
  /\ UNCHANGED <<pd_state, roleVars, swap_dr_after_goodcrc, sourceVars,
                 enable_vconn, requested_current, chargeVars>>

pd_handle_msg_from_power_source(m) ==
  \/ SourceGoodCrc(m) \/ SourcePsReady(m) \/ SourceDrSwap(m) \/ SourcePrSwap(m)
  \/ SourceVconnSwap(m) \/ SourceCapabilities(m) \/ SvidsAck(m)
  \/ m.type = "SOFT_RESET" /\ pd_send_reset /\ UNCHANGED keepAllButState
  \/ m.type = "GET_SINK_CAP" /\ Answer(<<"SINK_CAPS">>)
  \/ m.type \in {"ACCEPT", "WAIT"} /\ Answer(<<>>)
  \/ m.type \in {"EXT", "REJECT", "GET_SOURCE_CAP", "REQUEST"} /\ Answer(<<"NOT_SUPPORTED">>)
  \/ m.type = "OTHER" /\ \E reply \in {<<>>, <<"VDM">>, <<"NOT_SUPPORTED">>} : Answer(reply)

(* Mutant: PS_RDY for any GoodCRC before it. *)
SinkGoodCrcEager(m) ==
  /\ m.type = "GOODCRC"
  /\ cap_acked' = TRUE
  /\ tx' = IF ready_sent THEN <<>> ELSE <<"PS_RDY">>
  /\ accept_sent' = FALSE /\ ready_sent' = TRUE
  /\ ready_acked' = (ready_acked \/ ready_sent)
  /\ UNCHANGED <<pd_state, roleVars, swap_dr_after_goodcrc, alt_mode_requested,
                 enable_vconn, requested_current, chargeVars>>

(* A power sink. GoodCRC acknowledges the capabilities, sends PS_RDY after *)
(* an accepted request, and acknowledges PS_RDY, in whatever order it      *)
(* comes.                                                                  *)
SinkGoodCrc(m) ==
  /\ m.type = "GOODCRC"
  /\ cap_acked' = TRUE
  /\ \/ /\ accept_sent /\ ~ready_sent
        /\ tx' = <<"PS_RDY">>
        /\ accept_sent' = FALSE /\ ready_sent' = TRUE /\ ready_acked' = FALSE
     \/ /\ ~(accept_sent /\ ~ready_sent)
        /\ tx' = <<>>
        /\ ready_acked' = (ready_acked \/ ready_sent)
        /\ UNCHANGED <<accept_sent, ready_sent>>
  /\ UNCHANGED <<pd_state, roleVars, swap_dr_after_goodcrc, alt_mode_requested,
                 enable_vconn, requested_current, chargeVars>>

SinkRequest(m) ==
  /\ m.type = "REQUEST"
  /\ accept_sent' = TRUE
  /\ ready_sent' = FALSE
  /\ tx' = <<"ACCEPT">>
  /\ UNCHANGED <<pd_state, roleVars, swap_dr_after_goodcrc, ready_acked, cap_acked,
                 alt_mode_requested, enable_vconn, requested_current, chargeVars>>

SinkPrSwap(m) ==
  /\ m.type = "PR_SWAP"
  /\ pd_powerrole' = "SINK"
  /\ pd_state' = "UNATTACHED_SNK"
  /\ tx' = <<"ACCEPT">>
  /\ UNCHANGED <<pd_datarole, swap_dr_after_goodcrc, sourceVars,
                 alt_mode_requested, enable_vconn, requested_current, chargeVars>>

SinkVconnSwap(m) ==
  /\ m.type = "VCONN_SWAP"
  /\ enable_vconn' = FALSE
  /\ tx' = <<"ACCEPT">>
  /\ UNCHANGED <<pd_state, roleVars, swap_dr_after_goodcrc, sourceVars,
                 alt_mode_requested, requested_current, chargeVars>>

SinkSoftReset(m) ==
  /\ m.type = "SOFT_RESET"
  /\ pd_state' = "SETUP"
  /\ tx' = <<>>
  /\ UNCHANGED keepAllButState

pd_handle_msg_from_power_sink(m) ==
  \/ SinkGoodCrc(m) \/ SinkRequest(m) \/ SinkPrSwap(m) \/ SinkVconnSwap(m)
  \/ SinkSoftReset(m) \/ SvidsAck(m)
  \/ m.type = "GET_SOURCE_CAP" /\ Answer(<<"SOURCE_CAPS">>)
  \/ m.type = "GET_SINK_CAP" /\ Answer(<<"SINK_CAPS">>)
  \/ m.type \in {"ACCEPT", "REJECT", "WAIT"} /\ Answer(<<>>)
  \/ m.type \in {"EXT", "PS_RDY", "DR_SWAP"} /\ Answer(<<"NOT_SUPPORTED">>)
  \/ m.type \in {"SOURCE_CAPS", "OTHER"}
     /\ \E reply \in {<<>>, <<"VDM">>, <<"NOT_SUPPORTED">>} : Answer(reply)

Polling == pc = "comm" /\ pd_state # "SETUP"

commKept == <<t, sent_soft_reset, emergency, boardVars, drp, rx_on, peer>>

(* A message reaches the engine only through a powered receiver.           *)
Receive(m) ==
  /\ Polling /\ rx_on /\ peer # "none"
  /\ pd_set_fusb_switches
  /\ \/ m.type # "EXT" /\ m.role = "SOURCE" /\ pd_handle_msg_from_power_source(m)
     \/ m.type # "EXT" /\ m.role = "SINK" /\ pd_handle_msg_from_power_sink(m)
     \/ m.type = "EXT" /\ Answer(<<"NOT_SUPPORTED">>)
  /\ pc' = pd_state'
  /\ UNCHANGED <<attempts, commKept>>

ReceiveNothing ==
  /\ Polling
  /\ pd_set_fusb_switches
  /\ pc' = pd_state
  /\ tx' = <<>>
  /\ UNCHANGED <<replyOnly, attempts, commKept>>

(* STATUS1 shows a condition that is taken for a stuck transmission (an    *)
(* empty receive FIFO or a full transmit FIFO, with another alarm): what   *)
(* waits in the transmit FIFO is dropped. MaxAttempts + 1 of these are     *)
(* counted; the next one ends the session.                                 *)
Flush ==
  /\ Polling
  /\ pd_set_fusb_switches
  /\ IF attempts > MaxAttempts
     THEN pd_state' = "SETUP" /\ attempts' = 0
     ELSE attempts' = attempts + 1 /\ UNCHANGED pd_state
  /\ pc' = pd_state'
  /\ tx' = <<>>
  /\ UNCHANGED <<keepAllButState, commKept>>

(* In SETUP the switches and the FUSB302 are left alone until the branch.  *)
SkipComm ==
  /\ pc = "comm" /\ pd_state = "SETUP"
  /\ pc' = pd_state
  /\ tx' = <<>>
  /\ UNCHANGED <<v5, replyOnly, attempts, commKept>>

-----------------------------------------------------------------------------
(* The branches of pd_tick. Each ends with the increment of t.             *)

NextT(x) == IF x < TMax THEN x + 1 ELSE TMax - TWrap + 1

Branch(state) == pc = state

EndTick(x) == t' = NextT(x) /\ pc' = "charger"

policyKept == <<enable_vconn, requested_current, emergency, boardVars, drp, peer>>

(* Mutant: a data role swap survives. *)
ResetDefaultsButSwap ==
  /\ pd_powerrole' = "SINK" /\ pd_datarole' = "UFP"
  /\ accept_sent' = FALSE /\ ready_sent' = FALSE
  /\ ready_acked' = FALSE /\ cap_acked' = FALSE
  /\ alt_mode_requested' = FALSE
  /\ enable_vconn' = FALSE
  /\ attempts' = 0
  /\ v5' = FALSE
  /\ tx' = <<>>
  /\ UNCHANGED swap_dr_after_goodcrc

(* SETUP: back to the defaults of a sink; requested_current and t stay.    *)
ResetDefaults ==
  /\ pd_powerrole' = "SINK" /\ pd_datarole' = "UFP"
  /\ swap_dr_after_goodcrc' = FALSE
  /\ accept_sent' = FALSE /\ ready_sent' = FALSE
  /\ ready_acked' = FALSE /\ cap_acked' = FALSE
  /\ alt_mode_requested' = FALSE
  /\ enable_vconn' = FALSE
  /\ attempts' = 0
  /\ v5' = FALSE
  /\ tx' = <<>>

setupKept == <<sent_soft_reset, requested_current, emergency, boardVars, peer>>

(* An empty battery that the charger trickle-charges is charged without PD. *)
SetupEmergency ==
  /\ Branch("SETUP") /\ emergency
  /\ ResetDefaults
  /\ IF chg_en THEN UNCHANGED chargeVars ELSE charger_enable_charge(50)
  /\ EndTick(t)
  /\ UNCHANGED <<pd_state, drp, rx_on, setupKept>>

(* Mutant: the charger is left alone. *)
SetupSucceedsCharging ==
  /\ Branch("SETUP") /\ ~emergency
  /\ ResetDefaults
  /\ rx_on' = FALSE
  /\ drp' = (som_is_powered /\ ~force_sink)
  /\ pd_state' = "UNATTACHED"
  /\ EndTick(0)
  /\ UNCHANGED <<chargeVars, setupKept>>

(* The FUSB302 is reset and starts toggling, as a dual role port only if   *)
(* the SOM is on and sourcing was not switched off by command.             *)
SetupSucceeds ==
  /\ Branch("SETUP") /\ ~emergency
  /\ ResetDefaults
  /\ charger_disable_charge
  /\ rx_on' = FALSE
  /\ drp' = (som_is_powered /\ ~force_sink)
  /\ pd_state' = "UNATTACHED"
  /\ EndTick(0)
  /\ UNCHANGED setupKept

(* A transfer fails, at the reset of the FUSB302, before the toggling mode *)
(* is written, or after it. The first one, of fusb_probe, fails unseen: it *)
(* returns the negative error as a bool, so the branch for a timeout, with *)
(* its t = 0, is never taken.                                              *)
SetupFails ==
  /\ Branch("SETUP") /\ ~emergency
  /\ ResetDefaults
  /\ charger_disable_charge
  /\ \/ UNCHANGED <<rx_on, drp>>
     \/ rx_on' = FALSE /\ UNCHANGED drp
     \/ rx_on' = FALSE /\ drp' = (som_is_powered /\ ~force_sink)
  /\ EndTick(t)
  /\ UNCHANGED <<pd_state, setupKept>>

(* UNATTACHED: the toggling found a partner. The state is assigned first   *)
(* and read again for the roles, so a command may come between.            *)
ToggleDone ==
  /\ Branch("UNATTACHED")
  /\ peer = "source" \/ (peer = "sink" /\ drp)
  /\ pd_state' = IF peer = "source" THEN "UNATTACHED_SNK" ELSE "UNATTACHED_SRC"
  /\ pc' = "roles"
  /\ sent_soft_reset' = FALSE
  /\ tx' = <<>>
  /\ UNCHANGED <<t, roleVars, swap_dr_after_goodcrc, sourceVars, alt_mode_requested,
                 attempts, chargeVars, v5, rx_on, policyKept>>

(* An audio accessory, or a misread result                                 *)
ToggleOther ==
  /\ Branch("UNATTACHED")
  /\ peer # "none"
  /\ pd_state' = "SETUP"
  /\ EndTick(0)
  /\ sent_soft_reset' = FALSE
  /\ tx' = <<>>
  /\ UNCHANGED <<roleVars, swap_dr_after_goodcrc, sourceVars, alt_mode_requested,
                 attempts, chargeVars, v5, rx_on, policyKept>>

Toggling ==
  /\ Branch("UNATTACHED")
  /\ EndTick(t)
  /\ sent_soft_reset' = FALSE
  /\ tx' = <<>>
  /\ UNCHANGED <<pd_state, roleVars, swap_dr_after_goodcrc, sourceVars,
                 alt_mode_requested, attempts, chargeVars, v5, rx_on, policyKept>>

AssignRoles ==
  /\ pc = "roles"
  /\ pd_powerrole' = IF pd_state = "UNATTACHED_SNK" THEN "SINK" ELSE "SOURCE"
  /\ pd_datarole'  = IF pd_state = "UNATTACHED_SNK" THEN "UFP" ELSE "DFP"
  /\ v5' = (pd_powerrole' = "SOURCE")
  /\ rx_on' = TRUE
  /\ EndTick(0)
  /\ tx' = <<>>
  /\ UNCHANGED <<pd_state, swap_dr_after_goodcrc, sourceVars, alt_mode_requested,
                 sent_soft_reset, attempts, chargeVars, policyKept>>

branchKept == <<roleVars, swap_dr_after_goodcrc, attempts, chargeVars, v5, rx_on, policyKept>>

(* VBUSOK does not tell who drives VBUS.                                   *)
vbus == peer = "source" \/ v5

(* A read of the FUSB302 may fail, so what is there may go unseen.         *)
VbusArrives ==
  /\ Branch("UNATTACHED_SNK") /\ vbus
  /\ pd_state' = "ATTACHED_SNK"
  /\ EndTick(0)
  /\ tx' = <<>>
  /\ UNCHANGED <<sourceVars, alt_mode_requested, sent_soft_reset, branchKept>>

VbusAwaited ==
  /\ Branch("UNATTACHED_SNK")
  /\ IF t > VbusTimeout /\ pd_state = "UNATTACHED_SNK"
     THEN pd_state' = "SETUP" /\ EndTick(0)
     ELSE EndTick(t) /\ UNCHANGED pd_state
  /\ tx' = <<>>
  /\ UNCHANGED <<sourceVars, alt_mode_requested, sent_soft_reset, branchKept>>

VbusLost ==
  /\ Branch("ATTACHED_SNK") /\ ~vbus
  /\ pd_state' = "SETUP"
  /\ EndTick(0)
  /\ tx' = <<>>
  /\ UNCHANGED <<sourceVars, alt_mode_requested, sent_soft_reset, branchKept>>

HandshakeTimedOut ==
  /\ Branch("ATTACHED_SNK") /\ ~chg_en /\ t > HandshakeTimeout
  /\ pd_state' = "SETUP"
  /\ EndTick(0)
  /\ tx' = <<>>
  /\ UNCHANGED <<sourceVars, alt_mode_requested, sent_soft_reset, branchKept>>

(* Mutant: not remembered. *)
SinkSendsSoftResetUnrecorded ==
  /\ Branch("ATTACHED_SNK") /\ ~chg_en
  /\ t > SoftResetAfter /\ ~(t > HandshakeTimeout) /\ ~sent_soft_reset
  /\ tx' = <<"SOFT_RESET">>
  /\ EndTick(t)
  /\ UNCHANGED <<pd_state, sourceVars, alt_mode_requested, sent_soft_reset, branchKept>>

(* Mutant: the wait begins anew. *)
SinkSendsSoftResetAndWaits ==
  /\ Branch("ATTACHED_SNK") /\ ~chg_en
  /\ t > SoftResetAfter /\ ~(t > HandshakeTimeout) /\ ~sent_soft_reset
  /\ tx' = <<"SOFT_RESET">>
  /\ EndTick(0)
  /\ UNCHANGED <<pd_state, sourceVars, alt_mode_requested, sent_soft_reset, branchKept>>

SinkSendsSoftReset ==
  /\ Branch("ATTACHED_SNK") /\ ~chg_en
  /\ t > SoftResetAfter /\ ~(t > HandshakeTimeout) /\ ~sent_soft_reset
  /\ sent_soft_reset' = TRUE
  /\ tx' = <<"SOFT_RESET">>
  /\ EndTick(t)
  /\ UNCHANGED <<pd_state, sourceVars, alt_mode_requested, branchKept>>

SinkStays ==
  /\ Branch("ATTACHED_SNK")
  /\ chg_en \/ ~(t > HandshakeTimeout)
  /\ chg_en \/ ~(t > SoftResetAfter) \/ sent_soft_reset
  /\ EndTick(t)
  /\ tx' = <<>>
  /\ UNCHANGED <<pd_state, sourceVars, alt_mode_requested, sent_soft_reset, branchKept>>

(* The comparator sees the pull-down of a sink.                            *)
SinkFound ==
  /\ Branch("UNATTACHED_SRC") /\ t >= SrcSettle /\ peer = "sink"
  /\ pd_state' = "ATTACHED_SRC"
  /\ cap_acked' = FALSE
  /\ EndTick(0)
  /\ tx' = <<>>
  /\ UNCHANGED <<accept_sent, ready_sent, ready_acked, alt_mode_requested,
                 sent_soft_reset, branchKept>>

SinkAwaited ==
  /\ Branch("UNATTACHED_SRC")
  /\ \/ /\ \/ t >= SrcSettle /\ t >= SrcTimeout /\ peer # "sink"
           \/ t >= SrcReadTimeout
        /\ pd_state' = "SETUP"
        /\ EndTick(0)
     \/ /\ ~(t >= SrcReadTimeout)     \* too early, no sink yet, or a failed read
        /\ EndTick(t)
        /\ UNCHANGED pd_state
  /\ tx' = <<>>
  /\ UNCHANGED <<sourceVars, alt_mode_requested, sent_soft_reset, branchKept>>

srcKept == <<sourceVars, sent_soft_reset, branchKept>>

CapsDue == t % CapPeriod = 0 /\ ~cap_acked
(* Mutant: starts over when nobody acknowledged. *)
IgnoredUnacked == t % AckPeriod = 0 /\ ~cap_acked /\ ~ready_sent

Ignored == t % AckPeriod = 0 /\ cap_acked /\ ~ready_sent

(* The capabilities were acknowledged and nothing followed.                *)
SourceStartsOver ==
  /\ Branch("ATTACHED_SRC") /\ Ignored
  /\ pd_send_reset
  /\ EndTick(t)
  /\ UNCHANGED <<alt_mode_requested, srcKept>>

(* Mutant: a detach goes unnoticed. *)
SourceStaysForever ==
  /\ Branch("ATTACHED_SRC") /\ ~Ignored
  /\ tx' = IF CapsDue THEN <<"SOURCE_CAPS">> ELSE <<>>
  /\ EndTick(t)
  /\ UNCHANGED <<pd_state, alt_mode_requested, srcKept>>

SourceStays ==
  /\ Branch("ATTACHED_SRC") /\ ~Ignored
  /\ LET discover == ready_acked /\ ~alt_mode_requested IN
       /\ tx' = (IF CapsDue THEN <<"SOURCE_CAPS">> ELSE <<>>)
                \o (IF discover THEN <<"VDM">> ELSE <<>>)
       /\ alt_mode_requested' = (alt_mode_requested \/ discover)
  /\ \/ /\ t % DetachPeriod # 0 \/ peer = "sink"
        /\ UNCHANGED pd_state
     \/ /\ t % DetachPeriod = 0       \* no pull-down seen, or a failed read
        /\ pd_state' = "SETUP"
  /\ EndTick(t)
  /\ UNCHANGED srcKept

-----------------------------------------------------------------------------
(* charger_tick and gauge_tick: the charger's status and the gauge's       *)
(* percentage, which may change at any tick, decide the emergency.         *)
charger_tick ==
  /\ pc = "charger"
  /\ pc' = "comm"
  /\ emergency' \in BOOLEAN
  /\ tx' = <<>>
  /\ UNCHANGED <<pd_state, t, roleVars, swap_dr_after_goodcrc, sourceVars,
                 alt_mode_requested, sent_soft_reset, enable_vconn, attempts,
                 requested_current, chargeVars, boardVars, v5, drp, rx_on, peer>>

-----------------------------------------------------------------------------
(* Commands. handle_spi_commands runs in the interrupt handler and only    *)
(* while the SOM is on; handle_uart_commands runs before pd_tick. A reset  *)
(* comes before the branch is chosen or too late for this iteration, where *)
(* the branch may overwrite it.                                            *)
Commanded(name) == name \in Commands /\ (pc = "comm" \/ som_is_powered)

commandKept == <<t, roleVars, swap_dr_after_goodcrc, sourceVars,
                 alt_mode_requested, sent_soft_reset, enable_vconn, attempts,
                 requested_current, emergency, drp, rx_on, peer>>

PdResetCommand ==
  /\ Commanded("pdreset")
  /\ pd_send_reset
  /\ pc' \in {pc} \cup IF pc \in States THEN {"SETUP"} ELSE {}
  /\ UNCHANGED <<commandKept, chargeVars, boardVars, v5>>

SendCommand ==
  /\ Commanded("pdcap")
  /\ tx' \in {<<"SOURCE_CAPS">>, <<"VDM">>}
  /\ UNCHANGED <<commandKept, pc, pd_state, chargeVars, boardVars, v5>>

ForceSinkCommand ==
  /\ Commanded("pdsink")
  /\ force_sink' \in BOOLEAN
  /\ tx' = <<>>
  /\ UNCHANGED <<commandKept, pc, pd_state, chargeVars, som_is_powered, v5>>

(* set-gpio 6 drives the 5 V switch until the next iteration sets it again. *)
Port5vCommand ==
  /\ Commanded("set-gpio")
  /\ charger_disable_charge
  /\ v5' \in BOOLEAN
  /\ tx' = <<>>
  /\ UNCHANGED <<commandKept, pc, pd_state, boardVars>>

SetRailCommand ==
  /\ Commanded("set-rail")
  /\ som_is_powered' \in BOOLEAN
  /\ tx' = <<>>
  /\ UNCHANGED <<commandKept, pc, pd_state, chargeVars, force_sink, v5>>

-----------------------------------------------------------------------------
(* The port partner (external): plugged, unplugged, and after a power role *)
(* swap taking the other role.                                             *)
peerKept == <<pc, pd_state, t, roleVars, swap_dr_after_goodcrc, sourceVars,
              alt_mode_requested, sent_soft_reset, enable_vconn, attempts,
              requested_current, chargeVars, emergency, boardVars, v5, drp, rx_on>>

Plug ==
  /\ peer = "none"
  /\ peer' \in {"source", "sink"}
  /\ tx' = <<>>
  /\ UNCHANGED peerKept

Unplug ==
  /\ peer # "none"
  /\ peer' = "none"
  /\ tx' = <<>>
  /\ UNCHANGED peerKept

PeerSwapsRole ==
  /\ \/ /\ peer = "source" /\ pd_state \in {"UNATTACHED_SRC", "ATTACHED_SRC"}
        /\ peer' = "sink"
     \/ /\ peer = "sink" /\ pd_state \in {"UNATTACHED_SNK", "ATTACHED_SNK"}
        /\ peer' = "source"
  /\ tx' = <<>>
  /\ UNCHANGED peerKept

-----------------------------------------------------------------------------
Comm == SkipComm \/ ReceiveNothing \/ Flush \/ \E m \in Messages : Receive(m)

Policy ==
  \/ SetupEmergency \/ SetupSucceeds \/ SetupFails
  \/ ToggleDone \/ ToggleOther \/ Toggling \/ AssignRoles
  \/ VbusArrives \/ VbusAwaited
  \/ VbusLost \/ HandshakeTimedOut \/ SinkSendsSoftReset \/ SinkStays
  \/ SinkFound \/ SinkAwaited
  \/ SourceStartsOver \/ SourceStays

pd_tick == Comm \/ Policy

Loop == pd_tick \/ charger_tick

Command == PdResetCommand \/ SendCommand \/ ForceSinkCommand \/ Port5vCommand \/ SetRailCommand

Environment == Plug \/ Unplug \/ PeerSwapsRole

Next == Loop \/ Command \/ Environment

(* The loop runs for ever: nothing in an iteration blocks (I2C transfers   *)
(* time out). A read that is possible again and again succeeds some time.  *)
Fairness ==
  /\ WF_vars(Loop)
  /\ SF_vars(SetupSucceeds)
  /\ SF_vars(VbusLost)

Spec == Init /\ [][Next]_vars
FairSpec == Spec /\ Fairness

-----------------------------------------------------------------------------
TypeOK ==
  /\ pc \in Steps
  /\ pd_state \in States
  /\ t \in 0..TMax
  /\ pd_powerrole \in PowerRoles /\ pd_datarole \in DataRoles
  /\ swap_dr_after_goodcrc \in BOOLEAN
  /\ accept_sent \in BOOLEAN /\ ready_sent \in BOOLEAN
  /\ ready_acked \in BOOLEAN /\ cap_acked \in BOOLEAN
  /\ alt_mode_requested \in BOOLEAN /\ sent_soft_reset \in BOOLEAN
  /\ enable_vconn \in BOOLEAN
  /\ attempts \in 0..(MaxAttempts + 1)
  /\ requested_current \in {0} \cup 10..300
  /\ chg_en \in BOOLEAN /\ input_limit \in 0..60
  /\ emergency \in BOOLEAN
  /\ som_is_powered \in BOOLEAN /\ force_sink \in BOOLEAN
  /\ v5 \in BOOLEAN /\ drp \in BOOLEAN /\ rx_on \in BOOLEAN
  /\ peer \in {"none", "source", "sink"}
  /\ tx \in Seq(TxTypes)

(***************************************************************************)
(* Safety. The first group holds whatever the partner sends and whatever   *)
(* commands are given (set-gpio 6, which drives the 5 V switch by hand,    *)
(* excepted where v5 is named).                                            *)
(***************************************************************************)

NotByHand == "set-gpio" \notin Commands

(* A session starts clean: while the port looks for a partner, nothing of  *)
(* an earlier session is left but requested_current: charging is off, the  *)
(* port is an unswapped sink that sources nothing, no handshake is half    *)
(* way and the receiver is deaf. (pd_com.c, PD_STATE_SETUP)                *)
FreshSession ==
  pd_state = "UNATTACHED" =>
    /\ ~chg_en /\ input_limit = DefaultLimit
    /\ pd_powerrole = "SINK" /\ pd_datarole = "UFP" /\ ~swap_dr_after_goodcrc
    /\ ~(accept_sent \/ ready_sent \/ ready_acked \/ cap_acked)
    /\ ~alt_mode_requested /\ ~enable_vconn /\ ~rx_on
    /\ NotByHand => ~v5

(* The power role is the one the state is named for, through attach, both  *)
(* power role swaps and every timeout; only between the two halves of the  *)
(* UNATTACHED branch and in SETUP may it lag.                              *)
RoleMatchesState ==
  pc # "roles" =>
    /\ pd_state \in {"UNATTACHED", "UNATTACHED_SNK", "ATTACHED_SNK"} => pd_powerrole = "SINK"
    /\ pd_state \in {"UNATTACHED_SRC", "ATTACHED_SRC"} => pd_powerrole = "SOURCE"

(* An attached sink supplies 5 V at most for the rest of the iteration in  *)
(* which it swapped from source and took its own 5 V for its partner's.    *)
SinkStopsSourcing ==
  NotByHand /\ pd_state = "ATTACHED_SNK" /\ v5 => t = 1 /\ pc \in {"charger", "comm"}

(* A sink that never got to charge is not reset by the handshake timeout   *)
(* before it tried a soft reset ("an Apple 30W charger, which apparently   *)
(* ignores a hard-reset without a soft-reset", pd_com.c).                  *)
SoftResetFirst ==
  NotByHand /\ Branch("ATTACHED_SNK") /\ ~chg_en /\ t > HandshakeTimeout
    => sent_soft_reset

(* The source handshake never has an accept and a PS_RDY outstanding at    *)
(* once, and an acknowledged PS_RDY is forgotten only for a newer request. *)
SourceHandshake ==
  /\ ~(accept_sent /\ ready_sent)
  /\ ready_acked => ready_sent \/ accept_sent
=============================================================================
