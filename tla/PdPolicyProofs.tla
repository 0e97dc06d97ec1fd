--------------------------- MODULE PdPolicyProofs ---------------------------
(* Proofs about PdPolicy, for every set of messages and commands and every *)
(* value of the timers.                                                    *)
EXTENDS PdPort, TLAPS

USE DEF sourceVars, roleVars, chargeVars, boardVars, replyOnly, keepAllButState,
        commKept, policyKept, setupKept, branchKept, srcKept, commandKept, peerKept

(* t stays within its bound.                                               *)
LEMMA NextTBounded == ASSUME NEW x \in 0..TMax PROVE NextT(x) \in 0..TMax
  BY TimerAssumption DEF NextT

LEMMA NextTOfZero == NextT(0) = 1
  BY TimerAssumption DEF NextT

(* requested_current is a current the charger can be set to.               *)
LEMMA ClampBounded == ASSUME NEW c \in Nat PROVE Clamp(c) \in 10..300
  BY DEF Clamp

LEMMA TimersNat ==
  /\ CapPeriod \in Nat /\ DetachPeriod \in Nat /\ AckPeriod \in Nat
  /\ SrcSettle \in Nat /\ SrcTimeout \in Nat /\ SrcReadTimeout \in Nat
  /\ VbusTimeout \in Nat /\ SoftResetAfter \in Nat /\ HandshakeTimeout \in Nat
  /\ TMax \in Nat /\ TMax > 0 /\ TWrap \in Nat /\ TWrap > 0 /\ TWrap <= TMax
  /\ MaxAttempts \in Nat /\ SoftResetAfter > 0
  BY TimerAssumption

LEMMA SentMessages ==
  /\ <<>> \in Seq(TxTypes)
  /\ <<"NOT_SUPPORTED">> \in Seq(TxTypes) /\ <<"ACCEPT">> \in Seq(TxTypes)
  /\ <<"WAIT">> \in Seq(TxTypes) /\ <<"PS_RDY">> \in Seq(TxTypes)
  /\ <<"SOFT_RESET">> \in Seq(TxTypes) /\ <<"SINK_CAPS">> \in Seq(TxTypes)
  /\ <<"SOURCE_CAPS">> \in Seq(TxTypes) /\ <<"REQUEST">> \in Seq(TxTypes)
  /\ <<"VDM">> \in Seq(TxTypes)
<1>1. \A x \in TxTypes : <<x>> \in Seq(TxTypes)
  OBVIOUS
<1>2. TxTypes = {"NOT_SUPPORTED", "ACCEPT", "WAIT", "PS_RDY", "SOFT_RESET",
                 "SINK_CAPS", "SOURCE_CAPS", "REQUEST", "VDM"}
  BY DEF TxTypes
<1>3. <<>> \in Seq(TxTypes)
  OBVIOUS
<1> QED
  BY <1>1, <1>2, <1>3

(* The values the steps assign, so that the sets need not be expanded.     *)
LEMMA Names ==
  /\ States \subseteq Steps /\ {"comm", "roles", "charger"} \subseteq Steps
  /\ "SETUP" \in States /\ "UNATTACHED" \in States
  /\ "UNATTACHED_SNK" \in States /\ "ATTACHED_SNK" \in States
  /\ "UNATTACHED_SRC" \in States /\ "ATTACHED_SRC" \in States
  /\ "SINK" \in PowerRoles /\ "SOURCE" \in PowerRoles
  /\ "UFP" \in DataRoles /\ "DFP" \in DataRoles
  BY DEF Steps, States, PowerRoles, DataRoles

LEMMA TypeOfInit == Init => TypeOK
<1> SUFFICES ASSUME Init PROVE TypeOK
  OBVIOUS
<1>1. t \in 0..TMax /\ attempts \in 0..(MaxAttempts + 1)
  BY TimersNat DEF Init
<1>2. chg_en \in BOOLEAN
  BY Zenon DEF Init
<1>3. tx \in Seq(TxTypes)
  BY DEF Init
<1>4. pc \in Steps /\ pd_state \in States /\ pd_powerrole \in PowerRoles /\ pd_datarole \in DataRoles
  BY DEF Init, Steps, States, PowerRoles, DataRoles
<1>5. requested_current \in {0} \cup 10..300 /\ input_limit \in 0..60
  BY DEF Init, DefaultLimit
<1>6. /\ swap_dr_after_goodcrc \in BOOLEAN
      /\ accept_sent \in BOOLEAN /\ ready_sent \in BOOLEAN
      /\ ready_acked \in BOOLEAN /\ cap_acked \in BOOLEAN
      /\ alt_mode_requested \in BOOLEAN /\ sent_soft_reset \in BOOLEAN
      /\ enable_vconn \in BOOLEAN /\ emergency \in BOOLEAN
      /\ som_is_powered \in BOOLEAN /\ force_sink \in BOOLEAN
      /\ v5 \in BOOLEAN /\ drp \in BOOLEAN /\ rx_on \in BOOLEAN
      /\ peer \in {"none", "source", "sink"}
  BY DEF Init
<1> QED
  BY <1>1, <1>2, <1>3, <1>4, <1>5, <1>6 DEF TypeOK

(* What Receive does besides what the handler of the message does.         *)
Handling == TypeOK /\ pc' = pd_state' /\ v5' \in BOOLEAN /\ UNCHANGED <<attempts, commKept>>

(* A handler that only answers keeps every variable in its type.           *)
LEMMA TypeOfAnswer ==
  ASSUME Handling, NEW reply \in Seq(TxTypes), Answer(reply) PROVE TypeOK'
  BY Names DEF Handling, TypeOK, Answer

(* So do the handlers of a power source's messages,                        *)
LEMMA TypeOfSourceMessage ==
  ASSUME Handling, NEW m \in Messages, pd_handle_msg_from_power_source(m) PROVE TypeOK'
<1> USE Names, SentMessages DEF Handling, TypeOK
<1>0. m.dr \in DataRoles /\ Clamp(m.cur) \in 10..300
  BY MessagesAssumption, ClampBounded DEF Message
<1>1. CASE SourceGoodCrc(m)
  <2>1. CASE Answer(<<>>)
    BY <2>1, TypeOfAnswer
  <2>2. CASE CompleteDrSwap(m)
    <3>1. swap_dr_after_goodcrc' \in BOOLEAN /\ alt_mode_requested' \in BOOLEAN
      BY <2>2, Zenon DEF CompleteDrSwap
    <3>2. tx' \in Seq(TxTypes)
      BY <2>2 DEF CompleteDrSwap
    <3> QED
      BY <1>0, <2>2, <3>1, <3>2 DEF CompleteDrSwap
  <2> QED
    BY <1>1, <2>1, <2>2 DEF SourceGoodCrc
<1>2. CASE SourcePsReady(m)
  BY <1>2 DEF SourcePsReady, charger_enable_charge
<1>3. CASE SourceDrSwap(m)
  <2>1. CASE Answer(<<"WAIT">>)
    BY <2>1, TypeOfAnswer
  <2>2. CASE ~Answer(<<"WAIT">>)
    <3>1. swap_dr_after_goodcrc' \in BOOLEAN /\ tx' = <<"ACCEPT">>
      BY <1>3, <2>2, Zenon DEF SourceDrSwap
    <3>2. UNCHANGED <<pd_state, roleVars, sourceVars, alt_mode_requested,
                      enable_vconn, requested_current, chargeVars>>
      BY <1>3, <2>2, Zenon DEF SourceDrSwap
    <3> QED
      BY <3>1, <3>2
  <2> QED
    BY <2>1, <2>2
<1>4. CASE SourcePrSwap(m)
  BY <1>4 DEF SourcePrSwap
<1>5. CASE SourceVconnSwap(m)
  BY <1>5 DEF SourceVconnSwap
<1>6. CASE SourceCapabilities(m)
  BY <1>0, <1>6 DEF SourceCapabilities
<1>7. CASE SvidsAck(m)
  BY <1>7 DEF SvidsAck
<1>8. CASE m.type = "SOFT_RESET" /\ pd_send_reset /\ UNCHANGED keepAllButState
  BY <1>8 DEF pd_send_reset
<1>9. CASE \E reply \in {<<>>, <<"SINK_CAPS">>, <<"VDM">>, <<"NOT_SUPPORTED">>} : Answer(reply)
  BY <1>9, TypeOfAnswer
<1> QED
  BY <1>1, <1>2, <1>3, <1>4, <1>5, <1>6, <1>7, <1>8, <1>9 DEF pd_handle_msg_from_power_source

(* and those of a power sink's messages.                                   *)
LEMMA TypeOfSinkMessage ==
  ASSUME Handling, NEW m \in Messages, pd_handle_msg_from_power_sink(m) PROVE TypeOK'
<1> USE Names, SentMessages DEF Handling, TypeOK
<1>1. CASE SinkGoodCrc(m)
  <2>1. accept_sent' \in BOOLEAN /\ ready_sent' \in BOOLEAN /\ ready_acked' \in BOOLEAN
    BY <1>1, Zenon DEF SinkGoodCrc
  <2>2. tx' \in Seq(TxTypes) /\ cap_acked' \in BOOLEAN
    BY <1>1 DEF SinkGoodCrc
  <2> HIDE SentMessages
  <2>3. CASE accept_sent /\ ~ready_sent
    BY <1>1, <2>1, <2>2, <2>3 DEF SinkGoodCrc
  <2>4. CASE ~(accept_sent /\ ~ready_sent)
    BY <1>1, <2>1, <2>2, <2>4 DEF SinkGoodCrc
  <2> QED
    BY <2>3, <2>4
<1>2. CASE SinkRequest(m)
  <2>1. accept_sent' \in BOOLEAN /\ ready_sent' \in BOOLEAN
    BY <1>2, Zenon DEF SinkRequest
  <2> QED
    BY <1>2, <2>1 DEF SinkRequest
<1>3. CASE SinkPrSwap(m)
  BY <1>3 DEF SinkPrSwap
<1>4. CASE SinkVconnSwap(m)
  <2>1. enable_vconn' \in BOOLEAN
    BY <1>4, Zenon DEF SinkVconnSwap
  <2> QED
    BY <1>4, <2>1 DEF SinkVconnSwap
<1>5. CASE SinkSoftReset(m)
  BY <1>5 DEF SinkSoftReset
<1>6. CASE SvidsAck(m)
  BY <1>6 DEF SvidsAck
<1>7. CASE \E reply \in {<<>>, <<"SOURCE_CAPS">>, <<"SINK_CAPS">>, <<"VDM">>, <<"NOT_SUPPORTED">>} : Answer(reply)
  BY <1>7, TypeOfAnswer
<1> QED
  BY <1>1, <1>2, <1>3, <1>4, <1>5, <1>6, <1>7 DEF pd_handle_msg_from_power_sink

LEMMA TypeOfReceive ==
  ASSUME TypeOK, NEW m \in Messages, Receive(m) PROVE TypeOK'
<1>1. Handling
  BY DEF Receive, Handling, pd_set_fusb_switches
<1>2. CASE Answer(<<"NOT_SUPPORTED">>)
  BY <1>1, <1>2, TypeOfAnswer, SentMessages
<1>3. CASE pd_handle_msg_from_power_source(m)
  BY <1>1, <1>3, TypeOfSourceMessage
<1>4. CASE pd_handle_msg_from_power_sink(m)
  BY <1>1, <1>4, TypeOfSinkMessage
<1> QED
  BY <1>2, <1>3, <1>4 DEF Receive

(* SETUP assigns the defaults; what is left is up to its three ends.       *)
LEMMA TypeOfSetup ==
  ASSUME TypeOK, ResetDefaults, UNCHANGED setupKept,
         pc' = "charger", t' \in 0..TMax, pd_state' \in States,
         chg_en' \in BOOLEAN, input_limit' \in 0..60,
         rx_on' \in BOOLEAN, drp' \in BOOLEAN
  PROVE  TypeOK'
<1>1. /\ swap_dr_after_goodcrc' \in BOOLEAN
      /\ accept_sent' \in BOOLEAN /\ ready_sent' \in BOOLEAN
      /\ ready_acked' \in BOOLEAN /\ cap_acked' \in BOOLEAN
      /\ alt_mode_requested' \in BOOLEAN /\ enable_vconn' \in BOOLEAN
      /\ v5' \in BOOLEAN
  BY Zenon DEF ResetDefaults
<1>2. attempts' \in 0..(MaxAttempts + 1)
  BY TimersNat DEF ResetDefaults
<1> QED
  BY <1>1, <1>2, Names, SentMessages DEF ResetDefaults, TypeOK

(* So does every branch of pd_tick.                                        *)
LEMMA TypeOfPolicy == ASSUME TypeOK, Policy PROVE TypeOK'
<1> USE DEF TypeOK, EndTick
<1> USE SentMessages, Names
<1>1. NextT(0) \in 0..TMax /\ NextT(t) \in 0..TMax
  BY TimersNat, NextTBounded
<1>2. CASE SetupEmergency
  <2>1. chg_en' \in BOOLEAN
    BY <1>2, Zenon DEF SetupEmergency, charger_enable_charge
  <2>2. input_limit' = input_limit \/ input_limit' = 50 \div 5
    BY <1>2, Zenon DEF SetupEmergency, charger_enable_charge, chargeVars
  <2>3. input_limit \in 0..60 /\ 50 \div 5 \in 0..60
    OBVIOUS
  <2>4. input_limit' \in 0..60
    BY <2>2, <2>3
  <2>5. rx_on' \in BOOLEAN /\ drp' \in BOOLEAN /\ pd_state' \in States
    BY <1>2 DEF SetupEmergency
  <2>6. ResetDefaults /\ UNCHANGED setupKept /\ pc' = "charger" /\ t' \in 0..TMax
    BY <1>1, <1>2 DEF SetupEmergency
  <2> QED
    BY <2>1, <2>4, <2>5, <2>6, TypeOfSetup
<1>3. CASE SetupSucceeds
  <2>1. chg_en' \in BOOLEAN
    BY <1>3, Zenon DEF SetupSucceeds, charger_disable_charge
  <2>2. rx_on' \in BOOLEAN /\ drp' \in BOOLEAN
    BY <1>3, Zenon DEF SetupSucceeds
  <2> QED
    BY <1>1, <1>3, <2>1, <2>2, TypeOfSetup DEF SetupSucceeds, charger_disable_charge, DefaultLimit
<1>4. CASE SetupFails
  <2>1. chg_en' \in BOOLEAN
    BY <1>4, Zenon DEF SetupFails, charger_disable_charge
  <2>2. rx_on' \in BOOLEAN /\ drp' \in BOOLEAN
    BY <1>4, Zenon DEF SetupFails
  <2> QED
    BY <1>1, <1>4, <2>1, <2>2, TypeOfSetup DEF SetupFails, charger_disable_charge, DefaultLimit
<1>5. CASE ToggleDone
  <2>1. sent_soft_reset' \in BOOLEAN
    BY <1>5, Zenon DEF ToggleDone
  <2> QED
    BY <1>1, <1>5, <2>1 DEF ToggleDone, Branch
<1>6. CASE ToggleOther
  <2>1. sent_soft_reset' \in BOOLEAN
    BY <1>6, Zenon DEF ToggleOther
  <2> QED
    BY <1>1, <1>6, <2>1 DEF ToggleOther, Branch
<1>7. CASE Toggling
  <2>1. sent_soft_reset' \in BOOLEAN
    BY <1>7, Zenon DEF Toggling
  <2> QED
    BY <1>1, <1>7, <2>1 DEF Toggling, Branch
<1>8. CASE AssignRoles
  BY <1>1, <1>8 DEF AssignRoles
<1>9. CASE VbusArrives
  BY <1>1, <1>9 DEF VbusArrives, Branch
<1>10. CASE VbusAwaited
  BY <1>1, <1>10 DEF VbusAwaited, Branch
<1>11. CASE VbusLost
  BY <1>1, <1>11 DEF VbusLost, Branch
<1>12. CASE HandshakeTimedOut
  BY <1>1, <1>12 DEF HandshakeTimedOut, Branch
<1>13. CASE SinkSendsSoftReset
  BY <1>1, <1>13 DEF SinkSendsSoftReset, Branch
<1>14. CASE SinkStays
  BY <1>1, <1>14 DEF SinkStays, Branch
<1>15. CASE SinkFound
  <2>1. cap_acked' \in BOOLEAN
    BY <1>15, Zenon DEF SinkFound
  <2> QED
    BY <1>1, <1>15, <2>1 DEF SinkFound, Branch
<1>16. CASE SinkAwaited
  BY <1>1, <1>16 DEF SinkAwaited, Branch
<1>17. CASE SourceStartsOver
  BY <1>1, <1>17 DEF SourceStartsOver, Branch, pd_send_reset
<1>18. CASE SourceStays
  BY <1>1, <1>18 DEF SourceStays, Branch
<1> QED
  BY <1>2, <1>3, <1>4, <1>5, <1>6, <1>7, <1>8, <1>9, <1>10, <1>11, <1>12, <1>13, <1>14, <1>15, <1>16, <1>17, <1>18 DEF Policy

(* And every other step.                                                   *)
LEMMA TypeOfNext == ASSUME TypeOK, [Next]_vars PROVE TypeOK'
<1> USE DEF TypeOK
<1> USE SentMessages, Names
<1>1. CASE Policy
  BY <1>1, TypeOfPolicy
<1>2. CASE \E m \in Messages : Receive(m)
  BY <1>2, TypeOfReceive
<1>3. CASE SkipComm
  BY <1>3 DEF SkipComm
<1>4. CASE ReceiveNothing
  BY <1>4 DEF ReceiveNothing, pd_set_fusb_switches
<1>5. CASE Flush
  BY TimersNat, <1>5 DEF Flush, pd_set_fusb_switches
<1>6. CASE charger_tick
  BY <1>6 DEF charger_tick
<1>7. CASE PdResetCommand
  BY <1>7 DEF PdResetCommand, pd_send_reset
<1>8. CASE SendCommand
  <2>1. tx' \in Seq(TxTypes)
    BY <1>8 DEF SendCommand
  <2> QED
    BY <1>8, <2>1 DEF SendCommand
<1>9. CASE ForceSinkCommand
  BY <1>9 DEF ForceSinkCommand
<1>10. CASE Port5vCommand
  <2>1. chg_en' \in BOOLEAN
    BY <1>10, Zenon DEF Port5vCommand, charger_disable_charge
  <2> QED
    BY <1>10, <2>1 DEF Port5vCommand, charger_disable_charge, DefaultLimit
<1>11. CASE SetRailCommand
  BY <1>11 DEF SetRailCommand
<1>12. CASE Plug
  BY <1>12 DEF Plug
<1>13. CASE Unplug
  BY <1>13 DEF Unplug
<1>14. CASE PeerSwapsRole
  BY <1>14 DEF PeerSwapsRole
<1>15. CASE UNCHANGED vars
  BY <1>15 DEF vars
<1> QED
  BY <1>1, <1>2, <1>3, <1>4, <1>5, <1>6, <1>7, <1>8, <1>9, <1>10, <1>11, <1>12, <1>13, <1>14, <1>15 DEF Next, Loop, pd_tick, Comm, Command, Environment

(* Every variable keeps to its type.                                       *)
THEOREM TypeCorrect == Spec => []TypeOK
<1>1. Init => TypeOK
  BY TypeOfInit
<1>2. TypeOK /\ [Next]_vars => TypeOK'
  BY TypeOfNext
<1> QED
  BY <1>1, <1>2, PTL DEF Spec

(* What a message does to the power role, the state and the charger.       *)
LEMMA EffectOfMessage ==
  ASSUME NEW m \in Messages, Receive(m)
  PROVE  /\ pc = "comm" /\ pd_state # "SETUP" /\ rx_on
         /\ pc' = pd_state' /\ v5' = (pd_powerrole = "SOURCE")
         /\ t' = t /\ sent_soft_reset' = sent_soft_reset /\ rx_on' = rx_on
         /\ \/ pd_state' = pd_state /\ pd_powerrole' = pd_powerrole
            \/ pd_state' = "SETUP" /\ pd_powerrole' = pd_powerrole
            \/ pd_state' = "UNATTACHED_SRC" /\ pd_powerrole' = "SOURCE"
            \/ pd_state' = "UNATTACHED_SNK" /\ pd_powerrole' = "SINK"
         /\ chg_en => chg_en'
<1> USE DEF Receive, Polling, pd_set_fusb_switches
<1>1. CASE Answer(<<"NOT_SUPPORTED">>)
  BY <1>1 DEF Answer
<1>2. CASE pd_handle_msg_from_power_source(m)
  BY <1>2 DEF pd_handle_msg_from_power_source, SourceGoodCrc, SourcePsReady, SourceDrSwap, SourcePrSwap,
              SourceVconnSwap, SourceCapabilities, SvidsAck, CompleteDrSwap,
              Answer, pd_send_reset, charger_enable_charge
<1>3. CASE pd_handle_msg_from_power_sink(m)
  BY <1>3 DEF pd_handle_msg_from_power_sink, SinkGoodCrc, SinkRequest, SinkPrSwap, SinkVconnSwap,
              SinkSoftReset, SvidsAck, Answer
<1> QED
  BY <1>1, <1>2, <1>3

-----------------------------------------------------------------------------
(* The power role is that of the state, also of the state a branch was     *)
(* chosen for: a command may have reset pd_state since, and no more.       *)
SinkStates == {"UNATTACHED", "UNATTACHED_SNK", "ATTACHED_SNK"}
SourceStates == {"UNATTACHED_SRC", "ATTACHED_SRC"}

StepMatchesState ==
  /\ pc \in States => pd_state \in {pc, "SETUP"}
  /\ pc = "roles" => pd_state \in {"UNATTACHED_SNK", "UNATTACHED_SRC", "SETUP"}
  /\ pc \in SinkStates => pd_powerrole = "SINK"
  /\ pc \in SourceStates => pd_powerrole = "SOURCE"

RolesInv == RoleMatchesState /\ StepMatchesState

LEMMA RolesInductive == ASSUME TypeOK, RolesInv, [Next]_vars PROVE RolesInv'
<1> pc \in Steps /\ pd_state \in States
  BY DEF TypeOK
<1> USE DEF RolesInv, RoleMatchesState, StepMatchesState, SinkStates, SourceStates, Steps, States
<1>1. CASE \E m \in Messages : Receive(m)
  BY <1>1, EffectOfMessage
<1>2. CASE SetupEmergency
  BY <1>2 DEF SetupEmergency, Branch, ResetDefaults, EndTick
<1>3. CASE SetupSucceeds
  BY <1>3 DEF SetupSucceeds, Branch, ResetDefaults, EndTick
<1>4. CASE SetupFails
  BY <1>4 DEF SetupFails, Branch, ResetDefaults, EndTick
<1>5. CASE ToggleDone
  BY <1>5 DEF ToggleDone, Branch, EndTick
<1>6. CASE ToggleOther
  BY <1>6 DEF ToggleOther, Branch, EndTick
<1>7. CASE Toggling
  BY <1>7 DEF Toggling, Branch, EndTick
<1>8. CASE AssignRoles
  BY <1>8 DEF AssignRoles, EndTick
<1>9. CASE VbusArrives
  BY <1>9 DEF VbusArrives, Branch, EndTick
<1>10. CASE VbusAwaited
  BY <1>10 DEF VbusAwaited, Branch, EndTick
<1>11. CASE VbusLost
  BY <1>11 DEF VbusLost, Branch, EndTick
<1>12. CASE HandshakeTimedOut
  BY <1>12 DEF HandshakeTimedOut, Branch, EndTick
<1>13. CASE SinkSendsSoftReset
  BY <1>13 DEF SinkSendsSoftReset, Branch, EndTick
<1>14. CASE SinkStays
  BY <1>14 DEF SinkStays, Branch, EndTick
<1>15. CASE SinkFound
  BY <1>15 DEF SinkFound, Branch, EndTick
<1>16. CASE SinkAwaited
  BY <1>16 DEF SinkAwaited, Branch, EndTick
<1>17. CASE SourceStartsOver
  BY <1>17 DEF SourceStartsOver, Branch, pd_send_reset, EndTick
<1>18. CASE SourceStays
  BY <1>18 DEF SourceStays, Branch, EndTick
<1>19. CASE SkipComm
  BY <1>19 DEF SkipComm
<1>20. CASE ReceiveNothing
  BY <1>20 DEF ReceiveNothing, Polling, pd_set_fusb_switches
<1>21. CASE Flush
  BY <1>21 DEF Flush, Polling, pd_set_fusb_switches
<1>22. CASE charger_tick
  BY <1>22 DEF charger_tick
<1>23. CASE PdResetCommand
  BY <1>23 DEF PdResetCommand, pd_send_reset
<1>24. CASE SendCommand
  BY <1>24 DEF SendCommand
<1>25. CASE ForceSinkCommand
  BY <1>25 DEF ForceSinkCommand
<1>26. CASE Port5vCommand
  BY <1>26 DEF Port5vCommand, Commanded
<1>27. CASE SetRailCommand
  BY <1>27 DEF SetRailCommand
<1>28. CASE Plug
  BY <1>28 DEF Plug
<1>29. CASE Unplug
  BY <1>29 DEF Unplug
<1>30. CASE PeerSwapsRole
  BY <1>30 DEF PeerSwapsRole
<1>31. CASE UNCHANGED vars
  BY <1>31 DEF vars
<1> QED
  BY <1>1, <1>2, <1>3, <1>4, <1>5, <1>6, <1>7, <1>8, <1>9, <1>10, <1>11,
     <1>12, <1>13, <1>14, <1>15, <1>16, <1>17, <1>18, <1>19, <1>20, <1>21,
     <1>22, <1>23, <1>24, <1>25, <1>26, <1>27, <1>28, <1>29, <1>30, <1>31
     DEF Next, Loop, pd_tick, Comm, Policy, Command, Environment

(* The power role is the one the state is named for.                       *)
THEOREM RolesCorrect == Spec => []RoleMatchesState
<1>1. Init => RolesInv
  BY DEF Init, RolesInv, RoleMatchesState, StepMatchesState, SinkStates, SourceStates, States
<1>2. TypeOK /\ RolesInv /\ [Next]_vars => RolesInv'
  BY RolesInductive
<1>3. RolesInv => RoleMatchesState
  BY DEF RolesInv
<1> QED
  BY <1>1, <1>2, <1>3, TypeCorrect, PTL DEF Spec

-----------------------------------------------------------------------------
(* The source's handshake: only the messages of a sink and SETUP disturb   *)
(* it, and SourceHandshake is inductive by itself.                         *)
LEMMA HandshakeOfMessage ==
  ASSUME NEW m \in Messages, Receive(m), TypeOK, SourceHandshake PROVE SourceHandshake'
<1> USE DEF TypeOK, SourceHandshake
<1>1. CASE Answer(<<"NOT_SUPPORTED">>)
  BY <1>1 DEF Answer
<1>2. CASE pd_handle_msg_from_power_source(m)
  BY <1>2 DEF pd_handle_msg_from_power_source, SourceGoodCrc, SourcePsReady, SourceDrSwap,
              SourcePrSwap, SourceVconnSwap, SourceCapabilities, SvidsAck, CompleteDrSwap, Answer
<1>3. CASE pd_handle_msg_from_power_sink(m)
  BY <1>3 DEF pd_handle_msg_from_power_sink, SinkGoodCrc, SinkRequest, SinkPrSwap,
              SinkVconnSwap, SinkSoftReset, SvidsAck, Answer
<1> QED
  BY <1>1, <1>2, <1>3 DEF Receive

LEMMA HandshakeInductive ==
  ASSUME TypeOK, SourceHandshake, [Next]_vars PROVE SourceHandshake'
<1> USE DEF SourceHandshake
<1>1. CASE \E m \in Messages : Receive(m)
  BY <1>1, HandshakeOfMessage
<1>2. CASE SetupEmergency
  BY <1>2 DEF SetupEmergency, Branch, ResetDefaults
<1>3. CASE SetupSucceeds
  BY <1>3 DEF SetupSucceeds, Branch, ResetDefaults
<1>4. CASE SetupFails
  BY <1>4 DEF SetupFails, Branch, ResetDefaults
<1>5. CASE ToggleDone
  BY <1>5 DEF ToggleDone, Branch
<1>6. CASE ToggleOther
  BY <1>6 DEF ToggleOther, Branch
<1>7. CASE Toggling
  BY <1>7 DEF Toggling, Branch
<1>8. CASE AssignRoles
  BY <1>8 DEF AssignRoles
<1>9. CASE VbusArrives
  BY <1>9 DEF VbusArrives, Branch
<1>10. CASE VbusAwaited
  BY <1>10 DEF VbusAwaited, Branch
<1>11. CASE VbusLost
  BY <1>11 DEF VbusLost, Branch
<1>12. CASE HandshakeTimedOut
  BY <1>12 DEF HandshakeTimedOut, Branch
<1>13. CASE SinkSendsSoftReset
  BY <1>13 DEF SinkSendsSoftReset, Branch
<1>14. CASE SinkStays
  BY <1>14 DEF SinkStays, Branch
<1>15. CASE SinkFound
  BY <1>15 DEF SinkFound, Branch
<1>16. CASE SinkAwaited
  BY <1>16 DEF SinkAwaited, Branch
<1>17. CASE SourceStartsOver
  BY <1>17 DEF SourceStartsOver, Branch, pd_send_reset
<1>18. CASE SourceStays
  BY <1>18 DEF SourceStays, Branch
<1>19. CASE SkipComm
  BY <1>19 DEF SkipComm
<1>20. CASE ReceiveNothing
  BY <1>20 DEF ReceiveNothing, Polling, pd_set_fusb_switches
<1>21. CASE Flush
  BY <1>21 DEF Flush, Polling, pd_set_fusb_switches
<1>22. CASE charger_tick
  BY <1>22 DEF charger_tick
<1>23. CASE PdResetCommand
  BY <1>23 DEF PdResetCommand, pd_send_reset
<1>24. CASE SendCommand
  BY <1>24 DEF SendCommand
<1>25. CASE ForceSinkCommand
  BY <1>25 DEF ForceSinkCommand
<1>26. CASE Port5vCommand
  BY <1>26 DEF Port5vCommand, Commanded
<1>27. CASE SetRailCommand
  BY <1>27 DEF SetRailCommand
<1>28. CASE Plug
  BY <1>28 DEF Plug
<1>29. CASE Unplug
  BY <1>29 DEF Unplug
<1>30. CASE PeerSwapsRole
  BY <1>30 DEF PeerSwapsRole
<1>31. CASE UNCHANGED vars
  BY <1>31 DEF vars
<1> QED
  BY <1>1, <1>2, <1>3, <1>4, <1>5, <1>6, <1>7, <1>8, <1>9, <1>10, <1>11,
     <1>12, <1>13, <1>14, <1>15, <1>16, <1>17, <1>18, <1>19, <1>20, <1>21,
     <1>22, <1>23, <1>24, <1>25, <1>26, <1>27, <1>28, <1>29, <1>30, <1>31
     DEF Next, Loop, pd_tick, Comm, Policy, Command, Environment

(* No accept and PS_RDY are outstanding at once.                           *)
THEOREM SourceHandshakeCorrect == Spec => []SourceHandshake
<1>1. Init => SourceHandshake
  BY DEF Init, SourceHandshake
<1>2. TypeOK /\ SourceHandshake /\ [Next]_vars => SourceHandshake'
  BY HandshakeInductive
<1> QED
  BY <1>1, <1>2, TypeCorrect, PTL DEF Spec

-----------------------------------------------------------------------------
(* A session starts clean. The receiver is off in UNATTACHED, so no        *)
(* message can spoil the defaults, and RolesInv tells that UNATTACHED is   *)
(* reached from SETUP only.                                                *)
LEMMA FreshInductive ==
  ASSUME TypeOK, RolesInv, FreshSession, [Next]_vars PROVE FreshSession'
<1> pc \in Steps /\ pd_state \in States
  BY DEF TypeOK
<1> USE DEF RolesInv, StepMatchesState, FreshSession, States, NotByHand
<1>1. CASE \E m \in Messages : Receive(m)
  BY <1>1, EffectOfMessage
<1>2. CASE SetupEmergency
  BY <1>2 DEF SetupEmergency, Branch, ResetDefaults
<1>3. CASE SetupSucceeds
  BY <1>3 DEF SetupSucceeds, Branch, ResetDefaults, charger_disable_charge
<1>4. CASE SetupFails
  BY <1>4 DEF SetupFails, Branch, ResetDefaults
<1>5. CASE ToggleDone
  BY <1>5 DEF ToggleDone, Branch
<1>6. CASE ToggleOther
  BY <1>6 DEF ToggleOther, Branch
<1>7. CASE Toggling
  BY <1>7 DEF Toggling, Branch
<1>8. CASE AssignRoles
  BY <1>8 DEF AssignRoles
<1>9. CASE VbusArrives
  BY <1>9 DEF VbusArrives, Branch
<1>10. CASE VbusAwaited
  BY <1>10 DEF VbusAwaited, Branch
<1>11. CASE VbusLost
  BY <1>11 DEF VbusLost, Branch
<1>12. CASE HandshakeTimedOut
  BY <1>12 DEF HandshakeTimedOut, Branch
<1>13. CASE SinkSendsSoftReset
  BY <1>13 DEF SinkSendsSoftReset, Branch
<1>14. CASE SinkStays
  BY <1>14 DEF SinkStays, Branch
<1>15. CASE SinkFound
  BY <1>15 DEF SinkFound, Branch
<1>16. CASE SinkAwaited
  BY <1>16 DEF SinkAwaited, Branch
<1>17. CASE SourceStartsOver
  BY <1>17 DEF SourceStartsOver, Branch, pd_send_reset
<1>18. CASE SourceStays
  BY <1>18 DEF SourceStays, Branch
<1>19. CASE SkipComm
  BY <1>19 DEF SkipComm
<1>20. CASE ReceiveNothing
  BY <1>20 DEF ReceiveNothing, Polling, pd_set_fusb_switches
<1>21. CASE Flush
  BY <1>21 DEF Flush, Polling, pd_set_fusb_switches
<1>22. CASE charger_tick
  BY <1>22 DEF charger_tick
<1>23. CASE PdResetCommand
  BY <1>23 DEF PdResetCommand, pd_send_reset
<1>24. CASE SendCommand
  BY <1>24 DEF SendCommand
<1>25. CASE ForceSinkCommand
  BY <1>25 DEF ForceSinkCommand
<1>26. CASE Port5vCommand
  BY <1>26 DEF Port5vCommand, Commanded, charger_disable_charge
<1>27. CASE SetRailCommand
  BY <1>27 DEF SetRailCommand
<1>28. CASE Plug
  BY <1>28 DEF Plug
<1>29. CASE Unplug
  BY <1>29 DEF Unplug
<1>30. CASE PeerSwapsRole
  BY <1>30 DEF PeerSwapsRole
<1>31. CASE UNCHANGED vars
  BY <1>31 DEF vars
<1> QED
  BY <1>1, <1>2, <1>3, <1>4, <1>5, <1>6, <1>7, <1>8, <1>9, <1>10, <1>11,
     <1>12, <1>13, <1>14, <1>15, <1>16, <1>17, <1>18, <1>19, <1>20, <1>21,
     <1>22, <1>23, <1>24, <1>25, <1>26, <1>27, <1>28, <1>29, <1>30, <1>31
     DEF Next, Loop, pd_tick, Comm, Policy, Command, Environment

(* While the port looks for a partner nothing of an earlier session is     *)
(* left.                                                                   *)
THEOREM FreshSessionCorrect == Spec => []FreshSession
<1>1. Init => FreshSession /\ RolesInv
  BY DEF Init, FreshSession, RolesInv, RoleMatchesState, StepMatchesState,
         SinkStates, SourceStates, States
<1>2. TypeOK /\ RolesInv /\ FreshSession /\ [Next]_vars => FreshSession' /\ RolesInv'
  BY FreshInductive, RolesInductive
<1> QED
  BY <1>1, <1>2, TypeCorrect, PTL DEF Spec

-----------------------------------------------------------------------------
(* An attached sink without charge counts t from 1, one at a time, and     *)
(* sends its soft reset at the first tick past SoftResetAfter, so it is    *)
(* sent before t can reach SoftResetAfter + 2.                             *)
SoftResetInv ==
  NotByHand /\ ~chg_en /\ t > SoftResetAfter + 1 /\ "ATTACHED_SNK" \in {pd_state, pc}
    => sent_soft_reset

LEMMA SoftResetInductive ==
  ASSUME TypeOK, RolesInv, SoftResetInv, [Next]_vars PROVE SoftResetInv'
<1> pc \in Steps /\ pd_state \in States /\ t \in 0..TMax
  BY DEF TypeOK
<1>a. NextT(t) <= t + 1
  BY TimersNat DEF NextT
<1> USE TimersNat DEF RolesInv, StepMatchesState, SoftResetInv, States, Steps, NotByHand
<1>1. CASE \E m \in Messages : Receive(m)
  BY <1>1, EffectOfMessage
<1>2. CASE SetupEmergency
  BY <1>2 DEF SetupEmergency, Branch, ResetDefaults, EndTick
<1>3. CASE SetupSucceeds
  BY <1>3 DEF SetupSucceeds, Branch, ResetDefaults, EndTick
<1>4. CASE SetupFails
  BY <1>4 DEF SetupFails, Branch, ResetDefaults, EndTick
<1>5. CASE ToggleDone
  BY <1>5 DEF ToggleDone, Branch, EndTick
<1>6. CASE ToggleOther
  BY <1>6 DEF ToggleOther, Branch, EndTick
<1>7. CASE Toggling
  BY <1>7 DEF Toggling, Branch, EndTick
<1>8. CASE AssignRoles
  BY <1>8 DEF AssignRoles, EndTick
<1>9. CASE VbusArrives
  BY NextTOfZero, <1>9 DEF VbusArrives, Branch, EndTick
<1>10. CASE VbusAwaited
  BY <1>10 DEF VbusAwaited, Branch, EndTick
<1>11. CASE VbusLost
  BY <1>11 DEF VbusLost, Branch, EndTick
<1>12. CASE HandshakeTimedOut
  BY <1>12 DEF HandshakeTimedOut, Branch, EndTick
<1>13. CASE SinkSendsSoftReset
  BY <1>a, <1>13 DEF SinkSendsSoftReset, Branch, EndTick
<1>14. CASE SinkStays
  <2>1. chg_en' = chg_en /\ sent_soft_reset' = sent_soft_reset /\ t' = NextT(t)
    BY <1>14 DEF SinkStays, EndTick
  <2>2. CASE chg_en
    BY <2>1, <2>2
  <2>3. CASE ~(t > SoftResetAfter)
    <3>1. ~(t' > SoftResetAfter + 1)
      BY <1>a, <2>1, <2>3 DEF NextT
    <3> QED
      BY <3>1
  <2>4. CASE sent_soft_reset
    BY <2>1, <2>4
  <2> QED
    BY <1>14, <2>2, <2>3, <2>4 DEF SinkStays
<1>15. CASE SinkFound
  BY <1>15 DEF SinkFound, Branch, EndTick
<1>16. CASE SinkAwaited
  BY <1>16 DEF SinkAwaited, Branch, EndTick
<1>17. CASE SourceStartsOver
  BY <1>17 DEF SourceStartsOver, Branch, pd_send_reset, EndTick
<1>18. CASE SourceStays
  BY <1>18 DEF SourceStays, Branch, EndTick
<1>19. CASE SkipComm
  BY <1>19 DEF SkipComm
<1>20. CASE ReceiveNothing
  BY <1>20 DEF ReceiveNothing, Polling, pd_set_fusb_switches
<1>21. CASE Flush
  BY <1>21 DEF Flush, Polling, pd_set_fusb_switches
<1>22. CASE charger_tick
  BY <1>22 DEF charger_tick
<1>23. CASE PdResetCommand
  BY <1>23 DEF PdResetCommand, pd_send_reset
<1>24. CASE SendCommand
  BY <1>24 DEF SendCommand
<1>25. CASE ForceSinkCommand
  BY <1>25 DEF ForceSinkCommand
<1>26. CASE Port5vCommand
  BY <1>26 DEF Port5vCommand, Commanded
<1>27. CASE SetRailCommand
  BY <1>27 DEF SetRailCommand
<1>28. CASE Plug
  BY <1>28 DEF Plug
<1>29. CASE Unplug
  BY <1>29 DEF Unplug
<1>30. CASE PeerSwapsRole
  BY <1>30 DEF PeerSwapsRole
<1>31. CASE UNCHANGED vars
  BY <1>31 DEF vars
<1> QED
  BY <1>1, <1>2, <1>3, <1>4, <1>5, <1>6, <1>7, <1>8, <1>9, <1>10, <1>11,
     <1>12, <1>13, <1>14, <1>15, <1>16, <1>17, <1>18, <1>19, <1>20, <1>21,
     <1>22, <1>23, <1>24, <1>25, <1>26, <1>27, <1>28, <1>29, <1>30, <1>31
     DEF Next, Loop, pd_tick, Comm, Policy, Command, Environment

(* A sink tries a soft reset before it gives up, if there is a tick for it. *)
THEOREM SoftResetFirstCorrect ==
  ASSUME HandshakeTimeout > SoftResetAfter PROVE Spec => []SoftResetFirst
<1>1. Init => SoftResetInv /\ RolesInv
  BY TimersNat DEF Init, SoftResetInv, RolesInv, RoleMatchesState, StepMatchesState,
         SinkStates, SourceStates, States
<1>2. TypeOK /\ RolesInv /\ SoftResetInv /\ [Next]_vars => SoftResetInv' /\ RolesInv'
  BY SoftResetInductive, RolesInductive
<1>3. TypeOK /\ SoftResetInv => SoftResetFirst
  BY TimersNat DEF TypeOK, SoftResetInv, SoftResetFirst, Branch
<1> QED
  BY <1>1, <1>2, <1>3, TypeCorrect, PTL DEF Spec

-----------------------------------------------------------------------------
(* A sink that supplies 5 V came from UNATTACHED_SNK in this iteration;    *)
(* the next one sets the switch for its role before the branch is chosen.  *)
LEMMA StopsSourcingInductive ==
  ASSUME TypeOK, RolesInv, SinkStopsSourcing, [Next]_vars PROVE SinkStopsSourcing'
<1> pc \in Steps /\ pd_state \in States
  BY DEF TypeOK
<1> USE DEF RolesInv, RoleMatchesState, StepMatchesState, SinkStates, SinkStopsSourcing,
            States, Steps, NotByHand
<1>1. CASE \E m \in Messages : Receive(m)
  BY <1>1, EffectOfMessage
<1>2. CASE SetupEmergency
  BY <1>2 DEF SetupEmergency, Branch, ResetDefaults, EndTick
<1>3. CASE SetupSucceeds
  BY <1>3 DEF SetupSucceeds, Branch, ResetDefaults, EndTick
<1>4. CASE SetupFails
  BY <1>4 DEF SetupFails, Branch, ResetDefaults, EndTick
<1>5. CASE ToggleDone
  BY <1>5 DEF ToggleDone, Branch, EndTick
<1>6. CASE ToggleOther
  BY <1>6 DEF ToggleOther, Branch, EndTick
<1>7. CASE Toggling
  BY <1>7 DEF Toggling, Branch, EndTick
<1>8. CASE AssignRoles
  BY <1>8 DEF AssignRoles, EndTick
<1>9. CASE VbusArrives
  BY NextTOfZero, <1>9 DEF VbusArrives, Branch, EndTick
<1>10. CASE VbusAwaited
  BY <1>10 DEF VbusAwaited, Branch, EndTick
<1>11. CASE VbusLost
  BY <1>11 DEF VbusLost, Branch, EndTick
<1>12. CASE HandshakeTimedOut
  BY <1>12 DEF HandshakeTimedOut, Branch, EndTick
<1>13. CASE SinkSendsSoftReset
  BY <1>13 DEF SinkSendsSoftReset, Branch, EndTick
<1>14. CASE SinkStays
  BY <1>14 DEF SinkStays, Branch, EndTick
<1>15. CASE SinkFound
  BY <1>15 DEF SinkFound, Branch, EndTick
<1>16. CASE SinkAwaited
  BY <1>16 DEF SinkAwaited, Branch, EndTick
<1>17. CASE SourceStartsOver
  BY <1>17 DEF SourceStartsOver, Branch, pd_send_reset, EndTick
<1>18. CASE SourceStays
  BY <1>18 DEF SourceStays, Branch, EndTick
<1>19. CASE SkipComm
  BY <1>19 DEF SkipComm
<1>20. CASE ReceiveNothing
  BY <1>20 DEF ReceiveNothing, Polling, pd_set_fusb_switches
<1>21. CASE Flush
  BY <1>21 DEF Flush, Polling, pd_set_fusb_switches
<1>22. CASE charger_tick
  BY <1>22 DEF charger_tick
<1>23. CASE PdResetCommand
  BY <1>23 DEF PdResetCommand, pd_send_reset
<1>24. CASE SendCommand
  BY <1>24 DEF SendCommand
<1>25. CASE ForceSinkCommand
  BY <1>25 DEF ForceSinkCommand
<1>26. CASE Port5vCommand
  BY <1>26 DEF Port5vCommand, Commanded
<1>27. CASE SetRailCommand
  BY <1>27 DEF SetRailCommand
<1>28. CASE Plug
  BY <1>28 DEF Plug
<1>29. CASE Unplug
  BY <1>29 DEF Unplug
<1>30. CASE PeerSwapsRole
  BY <1>30 DEF PeerSwapsRole
<1>31. CASE UNCHANGED vars
  BY <1>31 DEF vars
<1> QED
  BY <1>1, <1>2, <1>3, <1>4, <1>5, <1>6, <1>7, <1>8, <1>9, <1>10, <1>11,
     <1>12, <1>13, <1>14, <1>15, <1>16, <1>17, <1>18, <1>19, <1>20, <1>21,
     <1>22, <1>23, <1>24, <1>25, <1>26, <1>27, <1>28, <1>29, <1>30, <1>31
     DEF Next, Loop, pd_tick, Comm, Policy, Command, Environment

(* An attached sink does not go on supplying 5 V.                          *)
THEOREM SinkStopsSourcingCorrect == Spec => []SinkStopsSourcing
<1>1. Init => SinkStopsSourcing /\ RolesInv
  BY DEF Init, SinkStopsSourcing, RolesInv, RoleMatchesState, StepMatchesState,
         SinkStates, SourceStates, States
<1>2. TypeOK /\ RolesInv /\ SinkStopsSourcing /\ [Next]_vars => SinkStopsSourcing' /\ RolesInv'
  BY StopsSourcingInductive, RolesInductive
<1> QED
  BY <1>1, <1>2, TypeCorrect, PTL DEF Spec

-----------------------------------------------------------------------------
(* The refinement of UsbPort. In UNATTACHED charging is off and the        *)
(* receiver is deaf (FreshSession), and a branch overwrites a state that   *)
(* is not its own only if that is SETUP, by a reset (StepMatchesState).    *)

LEMMA PhaseOfState ==
  /\ pd_state = "SETUP" => Phase = "closed"
  /\ pd_state = "UNATTACHED" => Phase = "looking"
  /\ pd_state \in {"UNATTACHED_SNK", "ATTACHED_SNK"} => Phase = "sink"
  /\ pd_state \in {"UNATTACHED_SRC", "ATTACHED_SRC"} => Phase = "source"
  BY DEF Phase

LEMMA PhaseOfNextState ==
  /\ pd_state' = "SETUP" => Phase' = "closed"
  /\ pd_state' = "UNATTACHED" => Phase' = "looking"
  /\ pd_state' \in {"UNATTACHED_SNK", "ATTACHED_SNK"} => Phase' = "sink"
  /\ pd_state' \in {"UNATTACHED_SRC", "ATTACHED_SRC"} => Phase' = "source"
  BY DEF Phase

PortStep == [Port!Next]_<<Phase, chg_en>>

(* A step that leaves the charger alone and ends the session or keeps its  *)
(* state is a step of the port.                                            *)
LEMMA ClosingStep ==
  ASSUME chg_en' = chg_en, pd_state' \in {pd_state, "SETUP"}
  PROVE  PortStep
<1>1. CASE pd_state' = pd_state
  BY <1>1 DEF PortStep, Phase
<1>2. CASE pd_state' = "SETUP"
  <2>1. Phase' = "closed"  BY <1>2, PhaseOfNextState
  <2>. QED  BY <2>1 DEF PortStep, Port!Next, Port!Close
<1>. QED  BY <1>1, <1>2

(* Only a PS_RDY turns charging on, and that keeps the state.              *)
LEMMA GrantOfMessage ==
  ASSUME NEW m \in Messages, Receive(m), chg_en' # chg_en
  PROVE  chg_en' = TRUE /\ pd_state' = pd_state
<1> USE DEF Receive, Polling, pd_set_fusb_switches
<1>1. CASE Answer(<<"NOT_SUPPORTED">>)
  BY <1>1 DEF Answer
<1>2. CASE pd_handle_msg_from_power_source(m)
  BY <1>2 DEF pd_handle_msg_from_power_source, SourceGoodCrc, SourcePsReady, SourceDrSwap, SourcePrSwap,
              SourceVconnSwap, SourceCapabilities, SvidsAck, CompleteDrSwap,
              Answer, pd_send_reset, charger_enable_charge
<1>3. CASE pd_handle_msg_from_power_sink(m)
  BY <1>3 DEF pd_handle_msg_from_power_sink, SinkGoodCrc, SinkRequest, SinkPrSwap, SinkVconnSwap,
              SinkSoftReset, SvidsAck, Answer
<1> QED
  BY <1>1, <1>2, <1>3

(* What a message does to the port.                                        *)
LEMMA ReceiveStep ==
  ASSUME TypeOK, RolesInv, FreshSession, NEW m \in Messages, Receive(m)
  PROVE  PortStep
<1>1. pd_state \in States \ {"SETUP", "UNATTACHED"}
  BY EffectOfMessage DEF TypeOK, FreshSession
<1>2. Phase \in {"sink", "source"}
  BY <1>1, PhaseOfState DEF States
<1>4. CASE chg_en' = chg_en
  <2>1. CASE pd_state' \in {pd_state, "SETUP"}
    BY <1>4, <2>1, ClosingStep
  <2>2. CASE pd_state' \in {"UNATTACHED_SRC", "UNATTACHED_SNK"}
    <3>1. Phase' \in {"sink", "source"}
      BY <2>2, PhaseOfNextState
    <3>. QED
      BY <1>2, <1>4, <3>1 DEF PortStep, Port!Next, Port!Swap, Port!Attached
  <2>. QED
    BY <2>1, <2>2, EffectOfMessage
<1>5. CASE chg_en' # chg_en
  <2>1. chg_en' = TRUE /\ pd_state' = pd_state
    BY <1>5, GrantOfMessage
  <2>2. Phase' = Phase
    BY <2>1 DEF Phase
  <2>. QED
    BY Zenon, <1>2, <2>1, <2>2 DEF PortStep, Port!Next, Port!Grant, Port!Attached
<1>. QED
  BY <1>4, <1>5

(* An attach, from looking or against a reset.                             *)
LEMMA AttachStep ==
  ASSUME RolesInv, chg_en' = chg_en,
         NEW b \in States \ {"SETUP"}, pc = b,
         pd_state' \in States \ {"SETUP", "UNATTACHED"},
         pd_state = "SETUP" => "pdreset" \in Commands
  PROVE  PortStep
<1>1. pd_state \in {b, "SETUP"}
  BY DEF RolesInv, StepMatchesState
<1>2. Phase' \in {"sink", "source"}
  BY PhaseOfNextState DEF States
<1>3. CASE pd_state = "SETUP"
  BY <1>2, <1>3, PhaseOfState DEF PortStep, Port!Next, Port!Resume, Port!Attached
<1>4. CASE pd_state = "UNATTACHED"
  BY <1>2, <1>4, PhaseOfState DEF PortStep, Port!Next, Port!Attach, Port!Attached
<1>5. CASE pd_state \in States \ {"SETUP", "UNATTACHED"}
  <2>1. Phase \in {"sink", "source"}
    BY <1>5, PhaseOfState DEF States
  <2>. QED
    BY <1>2, <2>1 DEF PortStep, Port!Next, Port!Swap, Port!Attached
<1>. QED
  BY <1>1, <1>3, <1>4, <1>5

(* A reset comes between the choice of a branch and its steps only by      *)
(* command.                                                                *)
ResetByCommand ==
  pc \in States \ {"SETUP"} /\ pd_state = "SETUP" => "pdreset" \in Commands

LEMMA SetupStep ==
  ASSUME TypeOK, RolesInv, SetupEmergency \/ SetupSucceeds \/ SetupFails
  PROVE  PortStep
<1>1. pd_state = "SETUP" /\ Phase = "closed"
  BY PhaseOfState DEF RolesInv, StepMatchesState, States, Branch, SetupEmergency, SetupSucceeds, SetupFails
<1>2. CASE SetupEmergency
  <2>1. Phase' = Phase
    BY <1>2 DEF SetupEmergency, Phase
  <2>2. chg_en' = TRUE
    BY Zenon, <1>2 DEF SetupEmergency, charger_enable_charge, TypeOK
  <2>. QED
    BY Zenon, <1>1, <2>1, <2>2 DEF PortStep, Port!Next, Port!ChargeEmptyBattery
<1>3. CASE SetupSucceeds
  <2>1. Phase' = "looking"
    BY <1>3, PhaseOfNextState DEF SetupSucceeds
  <2>2. chg_en' = FALSE
    BY <1>3 DEF SetupSucceeds, charger_disable_charge
  <2>. QED
    BY Zenon, <1>1, <2>1, <2>2 DEF PortStep, Port!Next, Port!Look
<1>4. CASE SetupFails
  <2>1. Phase' = Phase
    BY <1>4 DEF SetupFails, Phase
  <2>2. chg_en' = FALSE
    BY <1>4 DEF SetupFails, charger_disable_charge
  <2>. QED
    BY Zenon, <2>1, <2>2 DEF PortStep, Port!Next, Port!StopCharging
<1>. QED
  BY <1>2, <1>3, <1>4

LEMMA ResetInductive ==
  ASSUME RolesInv, ResetByCommand, [Next]_vars PROVE ResetByCommand'
<1> USE DEF ResetByCommand
<1>1. ASSUME Policy PROVE pc' \in {"charger", "roles"}
  BY <1>1 DEF Policy, EndTick, SetupEmergency, SetupSucceeds, SetupFails, ToggleDone, ToggleOther, Toggling, AssignRoles, VbusArrives, VbusAwaited, VbusLost, HandshakeTimedOut, SinkSendsSoftReset, SinkStays, SinkFound, SinkAwaited, SourceStartsOver, SourceStays
<1>2. CASE Policy
  BY <1>1, <1>2 DEF States
<1>3. CASE Comm
  BY <1>3, EffectOfMessage DEF Comm, SkipComm, ReceiveNothing, Flush
<1>4. CASE charger_tick
  BY <1>4 DEF charger_tick, States
<1>5. CASE PdResetCommand
  BY <1>5 DEF PdResetCommand, Commanded
<1>6. CASE SendCommand \/ ForceSinkCommand \/ Port5vCommand \/ SetRailCommand
  BY <1>6 DEF SendCommand, ForceSinkCommand, Port5vCommand, SetRailCommand
<1>7. CASE Environment
  BY <1>7 DEF Environment, Plug, Unplug, PeerSwapsRole
<1>8. CASE UNCHANGED vars
  BY <1>8 DEF vars
<1> QED
  BY Zenon, <1>2, <1>3, <1>4, <1>5, <1>6, <1>7, <1>8 DEF Next, Loop, pd_tick, Command

LEMMA PortInductive ==
  ASSUME TypeOK, RolesInv, FreshSession, ResetByCommand, [Next]_vars PROVE PortStep
<1>1. CASE \E m \in Messages : Receive(m)
  BY <1>1, ReceiveStep
<1>2. CASE SetupEmergency \/ SetupSucceeds \/ SetupFails
  BY <1>2, SetupStep
<1>3. CASE ToggleDone
  <2>1. pc = "UNATTACHED" /\ chg_en' = chg_en /\ pd_state' \in States \ {"SETUP", "UNATTACHED"}
    BY <1>3 DEF ToggleDone, Branch, States
  <2>. QED
    BY <2>1, AttachStep DEF ResetByCommand, States
<1>4. CASE VbusArrives
  <2>1. pc = "UNATTACHED_SNK" /\ chg_en' = chg_en /\ pd_state' \in States \ {"SETUP", "UNATTACHED"}
    BY <1>4 DEF VbusArrives, Branch, States
  <2>. QED
    BY <2>1, AttachStep DEF ResetByCommand, States
<1>5. CASE SinkFound
  <2>1. pc = "UNATTACHED_SRC" /\ chg_en' = chg_en /\ pd_state' \in States \ {"SETUP", "UNATTACHED"}
    BY <1>5 DEF SinkFound, Branch, States
  <2>. QED
    BY <2>1, AttachStep DEF ResetByCommand, States
<1>6. CASE ToggleOther
  BY <1>6, ClosingStep DEF ToggleOther
<1>7. CASE Toggling
  BY <1>7, ClosingStep DEF Toggling
<1>8. CASE AssignRoles
  BY <1>8, ClosingStep DEF AssignRoles
<1>9. CASE VbusAwaited
  BY <1>9, ClosingStep DEF VbusAwaited
<1>10. CASE VbusLost
  BY <1>10, ClosingStep DEF VbusLost
<1>11. CASE HandshakeTimedOut
  BY <1>11, ClosingStep DEF HandshakeTimedOut
<1>12. CASE SinkSendsSoftReset
  BY <1>12, ClosingStep DEF SinkSendsSoftReset
<1>13. CASE SinkStays
  BY <1>13, ClosingStep DEF SinkStays
<1>14. CASE SinkAwaited
  BY <1>14, ClosingStep DEF SinkAwaited
<1>15. CASE SourceStartsOver
  BY <1>15, ClosingStep DEF SourceStartsOver, pd_send_reset
<1>16. CASE SourceStays
  BY <1>16, ClosingStep DEF SourceStays
<1>17. CASE SkipComm \/ ReceiveNothing \/ Flush
  BY <1>17, ClosingStep DEF SkipComm, ReceiveNothing, Flush
<1>18. CASE charger_tick
  BY <1>18, ClosingStep DEF charger_tick
<1>19. CASE PdResetCommand
  BY <1>19, ClosingStep DEF PdResetCommand, pd_send_reset
<1>20. CASE SendCommand \/ ForceSinkCommand \/ SetRailCommand
  BY <1>20, ClosingStep DEF SendCommand, ForceSinkCommand, SetRailCommand
<1>21. CASE Port5vCommand
  <2>1. chg_en' = FALSE /\ Phase' = Phase
    BY <1>21 DEF Port5vCommand, charger_disable_charge, Phase
  <2>. QED
    BY Zenon, <2>1 DEF PortStep, Port!Next, Port!StopCharging
<1>22. CASE Environment
  BY <1>22, ClosingStep DEF Environment, Plug, Unplug, PeerSwapsRole
<1>23. CASE UNCHANGED vars
  BY <1>23, ClosingStep DEF vars
<1> QED
  BY Zenon, <1>1, <1>2, <1>3, <1>4, <1>5, <1>6, <1>7, <1>8, <1>9, <1>10,
     <1>11, <1>12, <1>13, <1>14, <1>15, <1>16, <1>17, <1>18, <1>19, <1>20,
     <1>21, <1>22, <1>23
     DEF Next, Loop, pd_tick, Comm, Policy, Command

(* The policy engine implements the port: for any messages, commands and   *)
(* timers, no session begins with charging left on, and charging begins    *)
(* only for an attached partner or an empty battery. (pd_com.c, pd_tick)   *)
THEOREM PortRefined == Spec => PortSpec
<1>1. Init => Port!Init /\ FreshSession /\ RolesInv /\ ResetByCommand
  <2>1. Init => pd_state = "SETUP" /\ pc = "comm" /\ Phase = "closed"
    BY PhaseOfState DEF Init
  <2>2. Init => chg_en \in BOOLEAN
    BY Zenon DEF Init
  <2>3. Init => FreshSession /\ RolesInv /\ ResetByCommand
    BY DEF Init, FreshSession, RolesInv, RoleMatchesState, StepMatchesState,
           SinkStates, SourceStates, States, ResetByCommand
  <2>. QED
    BY Zenon, <2>1, <2>2, <2>3 DEF Port!Init
<1>2. TypeOK /\ RolesInv /\ FreshSession /\ ResetByCommand /\ [Next]_vars
        => PortStep /\ RolesInv' /\ FreshSession' /\ ResetByCommand'
  BY FreshInductive, RolesInductive, ResetInductive, PortInductive
<1> QED
  BY <1>1, <1>2, TypeCorrect, PTL DEF Spec, PortSpec, Port!Spec, PortStep
=============================================================================
