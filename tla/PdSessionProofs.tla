-------------------------- MODULE PdSessionProofs ---------------------------
(***************************************************************************)
(* A compliant partner is a partner: where Messages leaves out none, every *)
(* behaviour of PdSession is one of PdPolicy, so what PdPolicyProofs shows *)
(* for any partner holds for a compliant one. Then what the two ends know  *)
(* of each other: contract, data roles, who supplies. SessionNext does not *)
(* mention Messages; the assumption on it serves the first part only.      *)
(***************************************************************************)
EXTENDS PdSession, PdPolicyProofs

(* The partner's data role and offer are of their types, which makes what  *)
(* it sends messages.                                                      *)
PartnerTypeOK == peer_dr \in DataRoles /\ offer \in Currents

LEMMA PartnerTypeCorrect == SessionSpec => []PartnerTypeOK
<1> USE DEF PartnerTypeOK, DataRoles
<1>1. SessionInit => PartnerTypeOK
  BY DEF SessionInit
<1>2. ASSUME PartnerTypeOK, [SessionNext]_sessionVars PROVE PartnerTypeOK'
  <2>1. CASE Acknowledge
    BY <1>2, <2>1 DEF Acknowledge, PeerReceives
  <2>2. CASE Lose
    BY <1>2, <2>2 DEF Lose
  <2>3. CASE SourceSays
    BY <1>2, <2>3 DEF SourceSays, Say
  <2>4. CASE SinkSays
    BY <1>2, <2>4 DEF SinkSays, Say
  <2>5. CASE EitherSays
    BY <1>2, <2>5 DEF EitherSays, Say
  <2>6. CASE StartOver
    BY <1>2, <2>6 DEF StartOver
  <2>7. CASE UNCHANGED <<peer_dr, offer>>
    BY <1>2, <2>7
  <2>8. CASE NewPartner
    BY <1>2, <2>8 DEF NewPartner
  <2> QED
    BY <1>2, <2>1, <2>2, <2>3, <2>4, <2>5, <2>6, <2>7, <2>8
       DEF SessionNext, SessionLoop, Silence, Quietly, PartnerLeaves, PowerRoleTurns,
           sessionVars, peerVars
<1> QED
  BY <1>1, <1>2, PTL DEF SessionSpec

LEMMA PartnerSends ==
  ASSUME Message \subseteq Messages, PartnerTypeOK, NEW ty \in MsgTypes
  PROVE  /\ Msg(ty) \in Messages
         /\ \A c \in Currents : [Msg(ty) EXCEPT !.cur = c] \in Messages
<1>1. Msg(ty) \in Message
  BY DEF Msg, Message, PowerRoles, PartnerTypeOK
<1>2. \A c \in Currents : [Msg(ty) EXCEPT !.cur = c] \in Message
  BY <1>1, CurrentsAssumption DEF Message
<1> QED
  BY <1>1, <1>2

(* Each step of a session is a step of the policy engine.                  *)
LEMMA SessionStep ==
  ASSUME Message \subseteq Messages, PartnerTypeOK, [SessionNext]_sessionVars
  PROVE  [Next]_vars
<1>a. \A m \in Messages : Receive(m) => Next
  BY DEF Next, Loop, pd_tick, Comm
<1>b. \A ty \in MsgTypes : Receive(Msg(ty)) => Next
  BY <1>a, PartnerSends
<1>c. {"GOODCRC", "ACCEPT", "PS_RDY", "REQUEST", "GET_SOURCE_CAP", "SOFT_RESET",
       "VCONN_SWAP", "DR_SWAP", "PR_SWAP", "SOURCE_CAPS"} \subseteq MsgTypes
  BY DEF MsgTypes
<1>1. CASE Acknowledge
  BY <1>1, <1>b, <1>c DEF Acknowledge
<1>2. CASE Lose \/ Quietly(Flush)
  BY <1>2 DEF Lose, Quietly, Next, Loop, pd_tick, Comm
<1>3. CASE SourceSays
  <2>1. CASE Say("ACCEPT", {"requested"}, "accepted") \/ Say("PS_RDY", {"accepted"}, "ready")
    BY <2>1, <1>b, <1>c DEF Say
  <2>2. CASE offer' \in Currents /\ Receive([Msg("SOURCE_CAPS") EXCEPT !.cur = offer'])
    BY <2>2, <1>a, <1>c, PartnerSends
  <2> QED
    BY <1>3, <2>1, <2>2 DEF SourceSays
<1>4. CASE SinkSays
  BY <1>4, <1>b, <1>c DEF SinkSays, Say
<1>5. CASE EitherSays
  BY <1>5, <1>b, <1>c DEF EitherSays, Say
<1>6. CASE StartOver
  BY <1>6 DEF StartOver, Next, Loop, pd_tick, Policy
<1>7. CASE ReceiveNothing \/ SkipComm \/ SetupEmergency \/ SetupFails
  BY <1>7 DEF Next, Loop, pd_tick, Comm, Policy
<1>8. CASE ToggleDone \/ ToggleOther \/ Toggling \/ AssignRoles \/ VbusArrives \/ VbusAwaited
  BY <1>8 DEF Next, Loop, pd_tick, Policy
<1>9. CASE VbusLost \/ HandshakeTimedOut \/ SinkSendsSoftReset \/ SinkStays \/ SinkFound
           \/ SinkAwaited \/ SourceStartsOver \/ SourceStays \/ charger_tick \/ Command
  BY <1>9 DEF Next, Loop, pd_tick, Policy
<1>10. CASE Plug \/ Unplug \/ PeerSwapsRole
  BY <1>10 DEF Next, Environment
<1>11. CASE UNCHANGED sessionVars
  BY <1>11 DEF sessionVars
<1> QED
  BY <1>1, <1>2, <1>3, <1>4, <1>5, <1>6, <1>7, <1>8, <1>9, <1>10, <1>11
     DEF SessionNext, SessionLoop, Silence, Quietly, NewPartner, PartnerLeaves, PowerRoleTurns

(* A session with a compliant partner is a behaviour of the policy engine. *)
THEOREM SessionImplementsPolicy ==
  ASSUME Message \subseteq Messages PROVE SessionSpec => Spec
<1>1. SessionInit => Init
  BY DEF SessionInit
<1>2. PartnerTypeOK /\ [SessionNext]_sessionVars => [Next]_vars
  BY SessionStep
<1> QED
  BY <1>1, <1>2, PartnerTypeCorrect, PTL DEF SessionSpec, Spec

(* So its power role, its handshake and its fresh starts are right.        *)
THEOREM SessionSafe ==
  ASSUME Message \subseteq Messages
  PROVE  SessionSpec => [](TypeOK /\ RoleMatchesState /\ SourceHandshake /\ FreshSession
                           /\ SinkStopsSourcing)
  BY SessionImplementsPolicy, TypeCorrect, RolesCorrect, SourceHandshakeCorrect,
     FreshSessionCorrect, SinkStopsSourcingCorrect, PTL

-----------------------------------------------------------------------------
(* What engine and partner know of each other. Set-up of the port: a       *)
(* partner is only looked for while nobody has said anything.              *)

SinkSide == {"UNATTACHED_SNK", "ATTACHED_SNK"}

(* The engine is in one of these states, or in the branch of one that a    *)
(* reset by command has already left.                                      *)
At(S) == pc # "roles" /\ {pd_state, pc} \cap S # {}

Orderly == upset \cap {"pr_swap", "replaced"} = {}

Begins ==
  pd_state = "UNATTACHED" \/ pc \in {"UNATTACHED", "roles"} =>
    /\ ps = "idle" /\ inflight = <<>> /\ ~rx_on
    /\ ~swap_dr_after_goodcrc /\ ~accept_sent /\ ~chg_en
    /\ peer # "none" => peer_dr = IF peer = "sink" THEN "UFP" ELSE "DFP"

RolesChosen ==
  Orderly /\ pc = "roles" /\ peer # "none" =>
    /\ pd_state = "UNATTACHED_SNK" => peer = "source"
    /\ pd_state = "UNATTACHED_SRC" => peer = "sink"

Hears == At(SinkSide \cup SourceStates) => rx_on

NotSwapping == Orderly => ps \notin {"pr_swap", "pr_swapping"}

(* As a sink: a data role swap is under way at both ends or at neither,    *)
(* and the answer to it is what the partner acknowledges next.             *)
SwapAnswered ==
  /\ pd_datarole # peer_dr
  /\ swap_dr_after_goodcrc => ps = "dr_swap"
  /\ ps = "dr_swap" =>
       inflight # <<>> /\ Head(inflight) = IF swap_dr_after_goodcrc THEN "ACCEPT" ELSE "WAIT"

AsSink ==
  Orderly /\ At(SinkSide) /\ peer # "none" =>
    peer = "source" /\ (upset = {} => SwapAnswered)

(* As a source: an accepted request is the one the sink waits to see       *)
(* accepted.                                                               *)
RequestAnswered ==
  /\ pd_datarole = "DFP" /\ peer_dr = "UFP" /\ ps # "dr_swap"
  /\ accept_sent => ps = "requested" /\ inflight # <<>> /\ Head(inflight) = "ACCEPT"

AsSource ==
  Orderly /\ At(SourceStates) /\ peer # "none" =>
    peer = "sink" /\ (upset = {} => RequestAnswered)

(* Charging and supplying exclude one another: not only the switch, also   *)
(* the role for which the next iteration will set it.                      *)
NoSupplyCharges == chg_en /\ (v5 \/ pd_powerrole = "SOURCE") => ~Orderly

(* What is requested, and then granted, is what was offered last, until    *)
(* the session is over. It is over with SETUP, unless the branch of an     *)
(* earlier state still assigns another one.                                *)
Live == pd_state # "SETUP" \/ pc \in {"UNATTACHED", "UNATTACHED_SNK", "UNATTACHED_SRC"}

LastOffer ==
  /\ peer = "source" /\ ps \in {"requested", "accepted", "ready", "dr_swap"}
       => requested_current = Clamp(offer)
  /\ NotByHand /\ peer = "source" /\ ps \in {"ready", "dr_swap"} /\ Live
       => chg_en /\ input_limit = Clamp(offer) \div 5

SessionInv ==
  /\ inflight \in Seq(TxTypes)
  /\ Begins /\ RolesChosen /\ Hears /\ NotSwapping
  /\ AsSink /\ AsSource
  /\ NoSupplyCharges
  /\ LastOffer

(* Steps that leave the session as it is: what both sides rely on stays,   *)
(* and the engine moves on in its iteration or gives the session up.       *)
core == <<pd_powerrole, pd_datarole, swap_dr_after_goodcrc, accept_sent,
          requested_current, rx_on, peer>>

Onward ==
  /\ pd_state' \in {pd_state, "SETUP"}
  /\ pc' \in {pc, pd_state', "charger", "comm"}
  /\ pc' = "roles" <=> pc = "roles"

Still ==
  /\ UNCHANGED core
  /\ Onward
  /\ v5' => v5 \/ pd_powerrole = "SOURCE" \/ ~chg_en'
  /\ chg_en' => chg_en
  /\ NotByHand => UNCHANGED chargeVars

Says == UNCHANGED <<ps, peer_dr, offer, upset>> /\ Transmit

LEMMA HeadKept ==
  ASSUME inflight \in Seq(TxTypes), TypeOK', Transmit
  PROVE  /\ inflight' \in Seq(TxTypes)
         /\ peer # "none" /\ rx_on /\ inflight # <<>> =>
              inflight' # <<>> /\ Head(inflight') = Head(inflight)
<1>1. tx' \in Seq(TxTypes)  BY DEF TypeOK
<1>2. ASSUME inflight # <<>>
      PROVE  inflight \o tx' # <<>> /\ Head(inflight \o tx') = Head(inflight)
  <2>1. Len(inflight) \in Nat \ {0} /\ Len(tx') \in Nat  BY <1>1, <1>2
  <2>2. Len(inflight \o tx') = Len(inflight) + Len(tx')  BY <1>1
  <2>3. (inflight \o tx')[1] = inflight[1]  BY <1>1, <2>1
  <2>. QED  BY <1>1, <2>1, <2>2, <2>3
<1>. QED  BY <1>1, <1>2 DEF Transmit

LEMMA StillKeeps ==
  ASSUME TypeOK, TypeOK', RolesInv, SessionInv, Still, Says
  PROVE  SessionInv'
<1>. USE DEF SessionInv, Still, Says, core
<1>1. \A S : At(S)' /\ "SETUP" \notin S /\ S \subseteq States => At(S)
  BY DEF Onward, At, States
<1>2. At(SinkSide)' => At(SinkSide)  BY <1>1 DEF SinkSide, States
<1>3. At(SourceStates)' => At(SourceStates)  BY <1>1 DEF SourceStates, States
<1>4. At(SinkSide \cup SourceStates)' => At(SinkSide \cup SourceStates)
  BY <1>1 DEF SourceStates, SinkSide, States
<1>5. Orderly' = Orderly  BY DEF Orderly
<1>6. inflight' \in Seq(TxTypes)  BY HeadKept
<1>7. Begins'
  <2>1. pd_state' = "UNATTACHED" \/ pc' \in {"UNATTACHED", "roles"}
          => pd_state = "UNATTACHED" \/ pc \in {"UNATTACHED", "roles"}  BY DEF Onward
  <2>2. ~rx_on => inflight' = <<>>  BY DEF Transmit
  <2>. QED  BY <2>1, <2>2 DEF Begins
<1>8. RolesChosen'  BY <1>5 DEF RolesChosen, Onward
<1>9. Hears'  BY <1>4 DEF Hears
<1>10. NotSwapping'  BY <1>5 DEF NotSwapping
<1>11. AsSink'
  <2>1. At(SinkSide) => rx_on  BY DEF Hears, At
  <2>. QED  BY <1>2, <1>5, <2>1, HeadKept DEF AsSink, SwapAnswered
<1>12. AsSource'
  <2>1. At(SourceStates) => rx_on  BY DEF Hears, At
  <2>. QED  BY <1>3, <1>5, <2>1, HeadKept DEF AsSource, RequestAnswered
<1>13. NoSupplyCharges'  BY <1>5 DEF NoSupplyCharges
<1>14. LastOffer'
  <2>1. Live' => Live  BY DEF Live, Onward
  <2>2. NotByHand => chg_en' = chg_en /\ input_limit' = input_limit  BY DEF chargeVars
  <2>. QED  BY <2>1, <2>2 DEF LastOffer, NotByHand, Clamp
<1>. QED  BY <1>6, <1>7, <1>8, <1>9, <1>10, <1>11, <1>12, <1>13, <1>14

LEMMA CommStills ==
  ASSUME TypeOK, ReceiveNothing \/ Flush \/ SkipComm
  PROVE  Still
<1>1. CASE ReceiveNothing
  <2>1. v5' => pd_powerrole = "SOURCE"
    BY Zenon, <1>1 DEF ReceiveNothing, pd_set_fusb_switches
  <2>2. pc = "comm" /\ pc' = pd_state /\ pd_state # "roles"
    BY <1>1 DEF ReceiveNothing, Polling, TypeOK, States
  <2>3. UNCHANGED <<core, pd_state, chargeVars>>
    BY <1>1 DEF ReceiveNothing, core, replyOnly, commKept, sourceVars, roleVars, chargeVars
  <2>. QED  BY <2>1, <2>2, <2>3 DEF Still, Onward, chargeVars
<1>2. CASE Flush
  <2>1. v5' => pd_powerrole = "SOURCE"
    BY Zenon, <1>2 DEF Flush, pd_set_fusb_switches
  <2>2. pc = "comm" /\ pd_state' \in {pd_state, "SETUP"} /\ pc' = pd_state' /\ pd_state # "roles"
    BY <1>2 DEF Flush, Polling, TypeOK, States
  <2>3. UNCHANGED <<core, chargeVars>>
    BY <1>2 DEF Flush, core, keepAllButState, commKept, sourceVars, roleVars, chargeVars
  <2>. QED  BY <2>1, <2>2, <2>3 DEF Still, Onward, chargeVars
<1>3. CASE SkipComm
  BY <1>3 DEF SkipComm, Still, Onward, core, replyOnly, commKept, sourceVars, roleVars, chargeVars
<1>. QED  BY <1>1, <1>2, <1>3

(* Branches that assign no state but SETUP.                                *)
LEMMA BranchStills ==
  ASSUME TypeOK, RolesInv,
         \/ ToggleOther \/ Toggling \/ VbusAwaited \/ VbusLost \/ HandshakeTimedOut
         \/ SinkSendsSoftReset \/ SinkStays \/ SinkAwaited \/ SourceStartsOver \/ SourceStays
         \/ charger_tick
  PROVE  Still
<1>. USE DEF Branch, EndTick, Still, Onward, core, policyKept, branchKept, srcKept,
             sourceVars, roleVars, chargeVars, boardVars
<1>1. CASE ToggleOther \/ Toggling  BY <1>1 DEF ToggleOther, Toggling
<1>2. CASE VbusAwaited \/ VbusLost  BY <1>2 DEF VbusAwaited, VbusLost
<1>3. CASE HandshakeTimedOut \/ SinkSendsSoftReset \/ SinkStays
  BY <1>3 DEF HandshakeTimedOut, SinkSendsSoftReset, SinkStays
<1>4. CASE SinkAwaited \/ SourceStartsOver
  BY <1>4 DEF SinkAwaited, SourceStartsOver, pd_send_reset
<1>5. CASE SourceStays  BY <1>5 DEF SourceStays
<1>6. CASE charger_tick  BY <1>6 DEF charger_tick
<1>. QED  BY Zenon, <1>1, <1>2, <1>3, <1>4, <1>5, <1>6

LEMMA CommandStills ==
  ASSUME TypeOK, Command
  PROVE  Still
<1>. USE DEF Still, Onward, core, commandKept, sourceVars, roleVars, chargeVars, boardVars
<1>1. CASE PdResetCommand  BY <1>1 DEF PdResetCommand, pd_send_reset, States
<1>2. CASE SendCommand \/ ForceSinkCommand  BY <1>2 DEF SendCommand, ForceSinkCommand
<1>3. CASE Port5vCommand
  BY <1>3 DEF Port5vCommand, Commanded, NotByHand, charger_disable_charge
<1>4. CASE SetRailCommand  BY <1>4 DEF SetRailCommand
<1>. QED  BY Zenon, <1>1, <1>2, <1>3, <1>4 DEF Command

(* The partner's silence: a message may be lost.                           *)
LEMMA LoseKeeps ==
  ASSUME TypeOK, TypeOK', RolesInv, SessionInv, Lose
  PROVE  SessionInv'
<1>1. Still  BY CommStills DEF Lose
<1>2. UNCHANGED <<ps, peer_dr, offer>> /\ upset' = upset \cup {"lost"} /\ inflight # <<>>
      /\ inflight' \in {<<>>, Tail(inflight)}
  BY DEF Lose
<1>. USE DEF SessionInv, Still, core
<1>3. \A S : At(S)' /\ "SETUP" \notin S /\ S \subseteq States => At(S)
  BY <1>1 DEF Onward, At, States
<1>4. (At(SinkSide)' => At(SinkSide)) /\ (At(SourceStates)' => At(SourceStates))
      /\ (At(SinkSide \cup SourceStates)' => At(SinkSide \cup SourceStates))
  BY <1>3 DEF SinkSide, SourceStates, States
<1>5. Orderly' = Orderly /\ upset' # {}  BY <1>2 DEF Orderly
<1>6. inflight' \in Seq(TxTypes)
  <2>1. inflight \in Seq(TxTypes) /\ inflight # <<>>  BY <1>2
  <2>2. Tail(inflight) \in Seq(TxTypes)  BY ONLY <2>1
  <2>. QED  BY <1>2, <2>2, SentMessages
<1>7. Begins'
  BY <1>1, <1>2 DEF Begins, Onward
<1>8. RolesChosen'  BY <1>1, <1>5 DEF RolesChosen, Onward
<1>9. Hears' /\ NotSwapping'  BY <1>1, <1>2, <1>4, <1>5 DEF Hears, NotSwapping
<1>10. AsSink' /\ AsSource'  BY <1>1, <1>4, <1>5 DEF AsSink, AsSource
<1>11. NoSupplyCharges'  BY <1>1, <1>5 DEF NoSupplyCharges
<1>12. LastOffer'
  <2>1. Live' => Live  BY <1>1 DEF Live, Onward
  <2>2. NotByHand => chg_en' = chg_en /\ input_limit' = input_limit  BY <1>1 DEF chargeVars
  <2>. QED  BY <1>1, <1>2, <2>1, <2>2 DEF LastOffer, NotByHand, Clamp
<1>. QED  BY <1>6, <1>7, <1>8, <1>9, <1>10, <1>11, <1>12

(* SETUP, which does not get through, and the steps that find a partner.   *)
LEMMA SetupKeeps ==
  ASSUME TypeOK, TypeOK', RolesInv, SessionInv, SetupEmergency \/ SetupFails, Says
  PROVE  SessionInv'
<1>1. pc = "SETUP" /\ pd_state = "SETUP" /\ pd_state' = "SETUP" /\ pc' = "charger"
  BY DEF SetupEmergency, SetupFails, Branch, EndTick, RolesInv, StepMatchesState, States
<1>2. pd_powerrole' = "SINK" /\ ~v5' /\ peer' = peer /\ requested_current' = requested_current
  BY DEF SetupEmergency, SetupFails, ResetDefaults, setupKept
<1>3. inflight' \in Seq(TxTypes)  BY HeadKept DEF SessionInv, Says
<1>4. ~At(SinkSide)' /\ ~At(SourceStates)' /\ ~At(SinkSide \cup SourceStates)'
  BY <1>1 DEF At, SinkSide, SourceStates
<1>5. Begins' /\ RolesChosen' /\ Hears' /\ AsSink' /\ AsSource'
  BY <1>1, <1>4 DEF Begins, RolesChosen, Hears, AsSink, AsSource
<1>6. NotSwapping'  BY DEF SessionInv, NotSwapping, Orderly, Says
<1>7. NoSupplyCharges'  BY <1>2 DEF NoSupplyCharges
<1>8. LastOffer'  BY <1>1, <1>2 DEF SessionInv, LastOffer, Live, Says, Clamp
<1>. QED  BY <1>3, <1>5, <1>6, <1>7, <1>8 DEF SessionInv

LEMMA StartOverKeeps ==
  ASSUME TypeOK, TypeOK', RolesInv, SessionInv, StartOver
  PROVE  SessionInv'
<1>1. /\ pd_state' = "UNATTACHED" /\ pc' = "charger" /\ ~rx_on' /\ ~chg_en' /\ ~accept_sent'
      /\ ~swap_dr_after_goodcrc' /\ peer' = peer
  BY DEF StartOver, SetupSucceeds, ResetDefaults, EndTick, setupKept, charger_disable_charge
<1>2. ps' = "idle" /\ inflight' = <<>> /\ peer_dr' = IF peer = "sink" THEN "UFP" ELSE "DFP"
  BY DEF StartOver
<1>3. ~At(SinkSide)' /\ ~At(SourceStates)' /\ ~At(SinkSide \cup SourceStates)'
  BY <1>1 DEF At, SinkSide, SourceStates
<1>4. Begins' /\ RolesChosen' /\ Hears' /\ AsSink' /\ AsSource'
  BY <1>1, <1>2, <1>3 DEF Begins, RolesChosen, Hears, AsSink, AsSource
<1>5. NotSwapping' /\ NoSupplyCharges' /\ LastOffer'
  BY <1>1, <1>2 DEF NotSwapping, NoSupplyCharges, LastOffer
<1>6. inflight' \in Seq(TxTypes)  BY <1>2, SentMessages
<1>. QED  BY <1>4, <1>5, <1>6 DEF SessionInv

LEMMA AttachKeeps ==
  ASSUME TypeOK, TypeOK', RolesInv, SessionInv, ToggleDone \/ AssignRoles, Says
  PROVE  SessionInv'
<1>. USE DEF core, sourceVars, roleVars, chargeVars, boardVars, policyKept
<1>1. /\ Begins /\ pc \in {"UNATTACHED", "roles"}
      /\ UNCHANGED <<swap_dr_after_goodcrc, accept_sent, requested_current, chargeVars, peer>>
  BY DEF SessionInv, ToggleDone, AssignRoles, Branch
<1>2. /\ ps = "idle" /\ ps' = "idle" /\ inflight' = <<>> /\ ~swap_dr_after_goodcrc' /\ ~accept_sent'
      /\ ~chg_en' /\ Orderly' = Orderly
      /\ peer # "none" => peer_dr' = IF peer = "sink" THEN "UFP" ELSE "DFP"
  BY <1>1 DEF Begins, Says, Transmit, Orderly
<1>3. NotSwapping' /\ NoSupplyCharges' /\ LastOffer'
  BY <1>2 DEF NotSwapping, NoSupplyCharges, LastOffer
<1>4. inflight' \in Seq(TxTypes)  BY <1>2, SentMessages
<1>5. CASE ToggleDone
  <2>1. pc' = "roles" /\ pd_state' = IF peer = "source" THEN "UNATTACHED_SNK" ELSE "UNATTACHED_SRC"
    BY <1>5 DEF ToggleDone
  <2>2. (peer = "source" \/ peer = "sink") /\ rx_on' = rx_on /\ ~rx_on
    BY <1>1, <1>5 DEF ToggleDone, Begins
  <2>. QED
    BY <1>1, <1>2, <1>3, <1>4, <2>1, <2>2
       DEF SessionInv, Begins, RolesChosen, Hears, AsSink, AsSource, At
<1>6. CASE AssignRoles
  <2>1. /\ pc = "roles" /\ pc' = "charger" /\ rx_on' /\ pd_state' = pd_state
        /\ pd_state \in {"UNATTACHED_SNK", "UNATTACHED_SRC", "SETUP"}
        /\ pd_datarole' = IF pd_state = "UNATTACHED_SNK" THEN "UFP" ELSE "DFP"
    BY <1>6 DEF AssignRoles, EndTick, RolesInv, StepMatchesState
  <2>2. RolesChosen  BY DEF SessionInv
  <2>3. Begins' /\ RolesChosen' /\ Hears'
    BY <2>1 DEF Begins, RolesChosen, Hears
  <2>4. AsSink'
    BY <1>1, <1>2, <2>1, <2>2 DEF AsSink, At, SinkSide, RolesChosen, SwapAnswered
  <2>5. AsSource'
    BY <1>1, <1>2, <2>1, <2>2 DEF AsSource, At, SourceStates, RolesChosen, RequestAnswered
  <2>. QED  BY <1>3, <1>4, <2>3, <2>4, <2>5 DEF SessionInv
<1>. QED  BY <1>5, <1>6

LEMMA FoundKeeps ==
  ASSUME TypeOK, TypeOK', RolesInv, SessionInv, VbusArrives \/ SinkFound, Says
  PROVE  SessionInv'
<1>1. /\ pc' = "charger" /\ UNCHANGED core /\ UNCHANGED <<v5, pd_powerrole>> /\ UNCHANGED chargeVars
      /\ \/ pc = "UNATTACHED_SNK" /\ pd_state' = "ATTACHED_SNK"
         \/ pc = "UNATTACHED_SRC" /\ pd_state' = "ATTACHED_SRC"
  BY DEF VbusArrives, SinkFound, Branch, EndTick, core, sourceVars, branchKept, policyKept,
         roleVars, chargeVars
<1>2. Orderly' = Orderly /\ inflight' \in Seq(TxTypes)
  BY HeadKept DEF SessionInv, Says, Orderly
<1>3. /\ At(SinkSide)' => At(SinkSide)
      /\ At(SourceStates)' => At(SourceStates)
      /\ At(SinkSide \cup SourceStates)' => At(SinkSide \cup SourceStates)
  BY <1>1 DEF At, SinkSide, SourceStates
<1>4. At(SinkSide \cup SourceStates) /\ rx_on
  BY <1>1 DEF SessionInv, Hears, At, SinkSide, SourceStates
<1>. USE DEF SessionInv, core, Says
<1>5. Begins' /\ RolesChosen'  BY <1>1 DEF Begins, RolesChosen
<1>6. Hears'  BY <1>1, <1>4 DEF Hears
<1>7. NotSwapping'  BY <1>2 DEF NotSwapping
<1>8. AsSink'  BY <1>1, <1>2, <1>3, <1>4, HeadKept DEF AsSink, SwapAnswered
<1>9. AsSource'  BY <1>1, <1>2, <1>3, <1>4, HeadKept DEF AsSource, RequestAnswered
<1>10. NoSupplyCharges'  BY <1>1, <1>2 DEF NoSupplyCharges, chargeVars
<1>11. LastOffer'
  <2>1. Live  BY <1>1 DEF Live
  <2>. QED  BY <1>1, <2>1 DEF LastOffer, NotByHand, Clamp, chargeVars
<1>. QED  BY <1>2, <1>5, <1>6, <1>7, <1>8, <1>9, <1>10, <1>11

(* Partners that come, leave and turn round.                               *)
LEMMA PartnerKeeps ==
  ASSUME TypeOK, TypeOK', RolesInv, SessionInv, NewPartner \/ PartnerLeaves \/ PowerRoleTurns
  PROVE  SessionInv'
<1>1. /\ UNCHANGED <<pc, pd_state, pd_powerrole, pd_datarole, swap_dr_after_goodcrc, accept_sent,
                     requested_current, chg_en, input_limit, rx_on, v5, offer>>
  BY DEF NewPartner, PartnerLeaves, PowerRoleTurns, Plug, Unplug, PeerSwapsRole, peerKept,
         sourceVars, roleVars, chargeVars
<1>2. \A S : At(S)' = At(S)  BY <1>1 DEF At
<1>3. inflight' \in Seq(TxTypes)
  BY SentMessages DEF SessionInv, NewPartner, PartnerLeaves, PowerRoleTurns
<1>4. Hears'  BY <1>1, <1>2 DEF SessionInv, Hears
<1>. USE DEF SessionInv
<1>5. CASE NewPartner
  <2>1. /\ peer' \in {"source", "sink"} /\ ps' = "idle" /\ inflight' = <<>>
        /\ peer_dr' = IF peer' = "sink" THEN "UFP" ELSE "DFP"
    BY <1>5 DEF NewPartner, Plug
  <2>2. {pd_state, pc} \cap SinkSide = {}  BY <1>5 DEF NewPartner, SinkSide
  <2>3. /\ Orderly' => Orderly
        /\ {pd_state, pc} \cap SourceStates # {} => ~Orderly'
    BY <1>5 DEF NewPartner, Orderly, SourceStates
  <2>4. Begins' /\ NotSwapping' /\ LastOffer'
    BY <1>1, <2>1 DEF Begins, NotSwapping, LastOffer
  <2>5. RolesChosen'
    BY <1>1, <2>2, <2>3 DEF RolesChosen, SinkSide, SourceStates
  <2>6. AsSink' /\ AsSource'
    BY <1>2, <2>2, <2>3 DEF AsSink, AsSource, At
  <2>7. NoSupplyCharges'  BY <1>1, <2>3 DEF NoSupplyCharges
  <2>. QED  BY <1>3, <1>4, <2>4, <2>5, <2>6, <2>7
<1>6. CASE PartnerLeaves
  <2>1. peer' = "none" /\ ps' = ps /\ inflight' = <<>> /\ Orderly' = Orderly
    BY <1>6 DEF PartnerLeaves, Unplug, Orderly
  <2>2. Begins' /\ NotSwapping' /\ LastOffer' /\ RolesChosen'
    BY <1>1, <2>1 DEF Begins, NotSwapping, LastOffer, RolesChosen
  <2>3. AsSink' /\ AsSource' /\ NoSupplyCharges'
    BY <1>1, <2>1 DEF AsSink, AsSource, NoSupplyCharges
  <2>. QED  BY <1>3, <1>4, <2>2, <2>3
<1>7. CASE PowerRoleTurns
  <2>1. ps = "pr_swapping" /\ ps' = "idle" /\ ~Orderly /\ ~Orderly'
    BY <1>7 DEF PowerRoleTurns, NotSwapping, Orderly
  <2>2. Begins' /\ NotSwapping' /\ LastOffer' /\ RolesChosen'
    BY <1>1, <2>1 DEF Begins, NotSwapping, LastOffer, RolesChosen
  <2>3. AsSink' /\ AsSource' /\ NoSupplyCharges'
    BY <2>1 DEF AsSink, AsSource, NoSupplyCharges
  <2>. QED  BY <1>3, <1>4, <2>2, <2>3
<1>. QED  BY <1>5, <1>6, <1>7

-----------------------------------------------------------------------------
(* Messages. What a session says, and in which roles it is heard.          *)
Heard(ty) ==
  \/ ty \in {"ACCEPT", "PS_RDY", "SOURCE_CAPS", "DR_SWAP"} /\ peer = "source"
  \/ ty \in {"REQUEST", "GET_SOURCE_CAP"} /\ peer = "sink"
  \/ ty \in {"GOODCRC", "SOFT_RESET", "VCONN_SWAP", "PR_SWAP"}

Received(m) ==
  /\ pc = "comm" /\ pd_state \in States \ {"SETUP"} /\ rx_on /\ peer # "none"
  /\ v5' => pd_powerrole = "SOURCE"
  /\ pc' = pd_state'
  /\ UNCHANGED <<rx_on, peer>>
  /\ IF peer = "source" THEN pd_handle_msg_from_power_source(m)
                        ELSE pd_handle_msg_from_power_sink(m)

LEMMA ReceivedBy ==
  ASSUME TypeOK, NEW m, Receive(m), m.type # "EXT",
         m.role = IF peer = "source" THEN "SOURCE" ELSE "SINK"
  PROVE  Received(m)
<1>1. v5' => pd_powerrole = "SOURCE"
  BY Zenon DEF Receive, pd_set_fusb_switches
<1>2. /\ pc = "comm" /\ pd_state \in States \ {"SETUP"} /\ rx_on /\ peer # "none"
      /\ pc' = pd_state' /\ UNCHANGED <<rx_on, peer>>
  BY DEF Receive, Polling, commKept, TypeOK
<1>3. IF peer = "source" THEN pd_handle_msg_from_power_source(m)
                         ELSE pd_handle_msg_from_power_sink(m)
  BY DEF Receive
<1>. QED  BY <1>1, <1>2, <1>3 DEF Received

(* Between the messages of a session the engine is at work as sink or as   *)
(* source; while it looks for a partner it hears nothing.                  *)
LEMMA ReceivedWhere ==
  ASSUME RolesInv, SessionInv, NEW m, Received(m)
  PROVE  /\ pd_state \in SinkSide \cup SourceStates
         /\ pd_state \in SinkSide => At(SinkSide) /\ pd_powerrole = "SINK"
         /\ pd_state \in SourceStates => At(SourceStates) /\ pd_powerrole = "SOURCE"
         /\ Live
<1>1. pd_state # "UNATTACHED"  BY DEF SessionInv, Begins, Received
<1>. QED
  BY <1>1 DEF Received, States, SinkSide, SourceStates, RolesInv, RoleMatchesState, At, Live

LEMMA SourceHandles ==
  ASSUME NEW m, pd_handle_msg_from_power_source(m)
  PROVE  /\ m.type = "GOODCRC" => SourceGoodCrc(m)
         /\ m.type = "PS_RDY" => SourcePsReady(m)
         /\ m.type = "DR_SWAP" => SourceDrSwap(m)
         /\ m.type = "PR_SWAP" => SourcePrSwap(m)
         /\ m.type = "VCONN_SWAP" => SourceVconnSwap(m)
         /\ m.type = "SOURCE_CAPS" => SourceCapabilities(m)
         /\ m.type = "SOFT_RESET" => pd_send_reset /\ UNCHANGED keepAllButState
         /\ m.type = "ACCEPT" => Answer(<<>>)
BY DEF pd_handle_msg_from_power_source, SourceGoodCrc, SourcePsReady, SourceDrSwap, SourcePrSwap,
       SourceVconnSwap, SourceCapabilities, SvidsAck

LEMMA SinkHandles ==
  ASSUME NEW m, pd_handle_msg_from_power_sink(m)
  PROVE  /\ m.type = "GOODCRC" => SinkGoodCrc(m)
         /\ m.type = "REQUEST" => SinkRequest(m)
         /\ m.type = "PR_SWAP" => SinkPrSwap(m)
         /\ m.type = "VCONN_SWAP" => SinkVconnSwap(m)
         /\ m.type = "SOFT_RESET" => SinkSoftReset(m)
         /\ m.type = "GET_SOURCE_CAP" => Answer(<<"SOURCE_CAPS">>)
BY DEF pd_handle_msg_from_power_sink, SinkGoodCrc, SinkRequest, SinkPrSwap, SinkVconnSwap,
       SinkSoftReset, SvidsAck

(* A message that leaves the engine in its state, or ends the session,     *)
(* disturbs only what is said of sources and sinks at work.                *)
LEMMA HeardFrame ==
  ASSUME TypeOK, RolesInv, SessionInv, NEW m, Received(m), pd_state' \in {pd_state, "SETUP"}
  PROVE  /\ Begins' /\ RolesChosen' /\ Hears'
         /\ At(SinkSide)' => At(SinkSide) /\ pd_powerrole = "SINK"
         /\ At(SourceStates)' => At(SourceStates) /\ pd_powerrole = "SOURCE"
         /\ pd_powerrole = "SOURCE" => At(SourceStates)
         /\ Live
<1>1. pd_state \in SinkSide \cup SourceStates /\ pc' = pd_state' /\ rx_on'
  BY ReceivedWhere DEF Received
<1>2. Begins' /\ RolesChosen' /\ Hears'
  BY <1>1 DEF Begins, RolesChosen, Hears, SinkSide, SourceStates
<1>. QED  BY <1>1, <1>2, ReceivedWhere DEF At, SinkSide, SourceStates

(* A partner speaks with its role and when all of ours is acknowledged.    *)
LEMMA Spoken ==
  ASSUME TypeOK, TypeOK', NEW ty \in MsgTypes \ {"EXT"}, NEW from, NEW to, Say(ty, from, to)
  PROVE  /\ Received(Msg(ty)) /\ Msg(ty).type = ty /\ Msg(ty).dr = peer_dr
         /\ inflight = <<>> /\ inflight' = tx' /\ ps \in from /\ ps' = to
         /\ UNCHANGED <<peer_dr, offer>>
<1>1. Msg(ty).type = ty /\ Msg(ty).dr = peer_dr
      /\ Msg(ty).role = IF peer = "source" THEN "SOURCE" ELSE "SINK"
  BY DEF Msg
<1>2. Received(Msg(ty))  BY <1>1, ReceivedBy DEF Say
<1>3. tx' \in Seq(TxTypes)  BY DEF TypeOK
<1>4. inflight' = tx'  BY <1>2, <1>3 DEF Say, Transmit, Received
<1>. QED  BY <1>1, <1>2, <1>4 DEF Say

LEMMA SourceSaysKeeps ==
  ASSUME TypeOK, TypeOK', RolesInv, SessionInv, SourceSays
  PROVE  SessionInv'
<1>. USE DEF SessionInv, MsgTypes, replyOnly, keepAllButState, sourceVars, roleVars, chargeVars
<1>1. peer = "source" /\ inflight' \in Seq(TxTypes)
  <2>1. tx' \in Seq(TxTypes) /\ <<>> \in Seq(TxTypes)  BY SentMessages DEF TypeOK
  <2>2. inflight = <<>> /\ Transmit  BY DEF SourceSays, Say
  <2>. QED  BY <2>1, <2>2 DEF Transmit, SourceSays
<1>2. ASSUME NEW m, Received(m), UNCHANGED <<pd_state, pd_powerrole, pd_datarole, peer_dr, upset>>,
             swap_dr_after_goodcrc' = swap_dr_after_goodcrc, ps # "dr_swap",
             ps' \in {"requested", "accepted", "ready"},
             chg_en' => chg_en \/ pd_powerrole # "SOURCE" \/ ~Orderly,
             LastOffer'
      PROVE  SessionInv'
  <2>1. Orderly' = Orderly /\ peer' = peer  BY <1>2 DEF Orderly, Received
  <2>2. NotSwapping'  BY <1>2 DEF NotSwapping
  <2>3. At(SinkSide)' => At(SinkSide)  BY <1>2, HeardFrame
  <2>4. At(SourceStates)' => At(SourceStates)  BY <1>2, HeardFrame
  <2>5. AsSink'
    <3>1. SwapAnswered => SwapAnswered'  BY <1>2 DEF SwapAnswered
    <3>. QED  BY <1>2, <2>1, <2>3, <3>1 DEF AsSink
  <2>6. AsSource'  BY <1>1, <2>1, <2>4 DEF AsSource
  <2>7. NoSupplyCharges'  BY <1>2, <2>1 DEF NoSupplyCharges, Received
  <2>8. Begins' /\ RolesChosen' /\ Hears'  BY <1>2, HeardFrame
  <2>. QED  BY <1>1, <1>2, <2>2, <2>5, <2>6, <2>7, <2>8
<1>3. ASSUME NEW m, Received(m), pd_state' = pd_state PROVE pd_powerrole # "SOURCE" \/ ~Orderly
  BY <1>1, <1>3, HeardFrame DEF AsSource
<1>4. CASE Say("ACCEPT", {"requested"}, "accepted") /\ UNCHANGED upset
  <2>1. Received(Msg("ACCEPT")) /\ Msg("ACCEPT").type = "ACCEPT"
        /\ ps = "requested" /\ ps' = "accepted" /\ UNCHANGED <<peer_dr, offer>>
    BY <1>4, Spoken
  <2>2. Answer(<<>>)  BY <1>1, <2>1, SourceHandles DEF Received
  <2>3. LastOffer'  BY <1>1, <2>1, <2>2 DEF Answer, LastOffer, Clamp
  <2>. QED  BY <1>2, <1>4, <2>1, <2>2, <2>3 DEF Answer
<1>5. CASE Say("PS_RDY", {"accepted"}, "ready") /\ UNCHANGED upset
  <2>1. Received(Msg("PS_RDY")) /\ Msg("PS_RDY").type = "PS_RDY"
        /\ ps = "accepted" /\ ps' = "ready" /\ UNCHANGED <<peer_dr, offer>>
    BY <1>5, Spoken
  <2>2. SourcePsReady(Msg("PS_RDY"))  BY <1>1, <2>1, SourceHandles DEF Received
  <2>3. requested_current = Clamp(offer)  BY <1>1, <2>1 DEF LastOffer
  <2>4. LastOffer'
    BY <1>1, <2>1, <2>2, <2>3 DEF SourcePsReady, charger_enable_charge, LastOffer, Clamp
  <2>. QED  BY <1>2, <1>3, <1>5, <2>1, <2>2, <2>4 DEF SourcePsReady
<1>6. CASE /\ inflight = <<>> /\ ps \in {"idle", "ready"}
           /\ Receive([Msg("SOURCE_CAPS") EXCEPT !.cur = offer'])
           /\ ps' = "requested" /\ UNCHANGED <<peer_dr, upset>>
  <2>. DEFINE m == [Msg("SOURCE_CAPS") EXCEPT !.cur = offer']
  <2>1. m.type = "SOURCE_CAPS" /\ m.cur = offer' /\ m.role = "SOURCE"  BY <1>1 DEF Msg
  <2>2. Received(m)  BY <1>1, <1>6, <2>1, ReceivedBy
  <2>3. SourceCapabilities(m)  BY <1>1, <2>1, <2>2, SourceHandles DEF Received
  <2>4. LastOffer'
    BY <1>6, <2>1, <2>3 DEF SourceCapabilities, LastOffer, Clamp
  <2>. QED  BY <1>2, <1>6, <2>2, <2>3, <2>4 DEF SourceCapabilities
<1>. QED  BY <1>4, <1>5, <1>6 DEF SourceSays

LEMMA SinkSaysKeeps ==
  ASSUME TypeOK, TypeOK', RolesInv, SessionInv, SinkSays
  PROVE  SessionInv'
<1>. USE DEF SessionInv, MsgTypes, replyOnly, keepAllButState, sourceVars, roleVars, chargeVars
<1>1. ASSUME NEW m, Received(m),
             UNCHANGED <<pd_state, pd_powerrole, pd_datarole, peer_dr, upset, chg_en>>,
             ps' \in {"requested", "idle", "ready"}, inflight' \in Seq(TxTypes),
             RequestAnswered => RequestAnswered'
      PROVE  SessionInv'
  <2>1. Orderly' = Orderly /\ peer' = peer  BY <1>1 DEF Orderly, Received
  <2>2. NotSwapping' /\ LastOffer'
    BY <1>1, <2>1 DEF NotSwapping, LastOffer, SinkSays
  <2>3. At(SinkSide)' => At(SinkSide)  BY <1>1, HeardFrame
  <2>4. At(SourceStates)' => At(SourceStates)  BY <1>1, HeardFrame
  <2>5. AsSink'  BY <2>1, <2>3 DEF AsSink, SinkSays
  <2>6. AsSource'  BY <1>1, <2>1, <2>4 DEF AsSource
  <2>7. NoSupplyCharges'  BY <1>1, <2>1 DEF NoSupplyCharges, Received
  <2>8. Begins' /\ RolesChosen' /\ Hears'  BY <1>1, HeardFrame
  <2>. QED  BY <1>1, <2>2, <2>5, <2>6, <2>7, <2>8
<1>2. peer = "sink"  BY DEF SinkSays
<1>3. CASE Say("REQUEST", {"offered", "ready"}, "requested") /\ UNCHANGED upset
  <2>1. Received(Msg("REQUEST")) /\ Msg("REQUEST").type = "REQUEST" /\ inflight' = tx'
        /\ ps' = "requested" /\ UNCHANGED <<peer_dr, offer>>
    BY <1>3, Spoken
  <2>2. SinkRequest(Msg("REQUEST"))  BY <1>2, <2>1, SinkHandles DEF Received
  <2>3. inflight' = <<"ACCEPT">>  BY <2>1, <2>2 DEF SinkRequest
  <2>4. inflight' # <<>> /\ Head(inflight') = "ACCEPT" /\ inflight' \in Seq(TxTypes)
    BY <2>3, SentMessages
  <2>5. RequestAnswered => RequestAnswered'
    BY <2>1, <2>2, <2>4 DEF SinkRequest, RequestAnswered
  <2>. QED  BY <1>1, <1>2, <1>3, <2>1, <2>2, <2>4, <2>5 DEF SinkRequest
<1>4. CASE Say("GET_SOURCE_CAP", {"idle", "ready"}, ps) /\ UNCHANGED upset
  <2>1. Received(Msg("GET_SOURCE_CAP")) /\ Msg("GET_SOURCE_CAP").type = "GET_SOURCE_CAP"
        /\ inflight' = tx' /\ ps \in {"idle", "ready"} /\ ps' = ps /\ UNCHANGED <<peer_dr, offer>>
    BY <1>4, Spoken
  <2>2. Answer(<<"SOURCE_CAPS">>)  BY <1>2, <2>1, SinkHandles DEF Received
  <2>3. inflight' \in Seq(TxTypes)  BY <2>1, <2>2, SentMessages DEF Answer
  <2>4. RequestAnswered => RequestAnswered'
    BY <2>1, <2>2 DEF Answer, RequestAnswered
  <2>. QED  BY <1>1, <1>2, <1>4, <2>1, <2>2, <2>3, <2>4 DEF Answer
<1>. QED  BY <1>3, <1>4 DEF SinkSays

LEMMA SoftResetKeeps ==
  ASSUME TypeOK, TypeOK', RolesInv, SessionInv,
         Say("SOFT_RESET", {"ready", "idle"}, "idle"), UNCHANGED upset
  PROVE  SessionInv'
<1>. USE DEF SessionInv, MsgTypes, replyOnly, keepAllButState, sourceVars, roleVars, chargeVars
<1>1. Received(Msg("SOFT_RESET")) /\ Msg("SOFT_RESET").type = "SOFT_RESET" /\ inflight' = tx'
      /\ ps' = "idle" /\ UNCHANGED <<peer_dr, offer>>
  BY Spoken
<1>2. pd_state' = "SETUP" /\ UNCHANGED <<pd_powerrole, chg_en>>
  BY <1>1, SourceHandles, SinkHandles DEF Received, pd_send_reset, SinkSoftReset
<1>3. Begins' /\ RolesChosen' /\ Hears'  BY <1>1, <1>2, HeardFrame
<1>4. ~At(SinkSide)' /\ ~At(SourceStates)'
  BY <1>1, <1>2 DEF Received, At, SinkSide, SourceStates
<1>5. AsSink' /\ AsSource'  BY <1>4 DEF AsSink, AsSource
<1>6. NotSwapping' /\ LastOffer'  BY <1>1 DEF NotSwapping, LastOffer
<1>7. NoSupplyCharges'  BY <1>1, <1>2 DEF NoSupplyCharges, Received, Orderly
<1>8. inflight' \in Seq(TxTypes)  BY <1>1 DEF TypeOK
<1>. QED  BY <1>3, <1>5, <1>6, <1>7, <1>8

LEMMA VconnSwapKeeps ==
  ASSUME TypeOK, TypeOK', RolesInv, SessionInv,
         Say("VCONN_SWAP", {"ready"}, "ready"), UNCHANGED upset
  PROVE  SessionInv'
<1>. USE DEF SessionInv, MsgTypes, sourceVars, roleVars, chargeVars
<1>1. Received(Msg("VCONN_SWAP")) /\ Msg("VCONN_SWAP").type = "VCONN_SWAP" /\ inflight' = tx'
      /\ ps = "ready" /\ ps' = "ready" /\ UNCHANGED <<peer_dr, offer>>
  BY Spoken
<1>2. UNCHANGED <<pd_state, pd_powerrole, pd_datarole, swap_dr_after_goodcrc, accept_sent,
                  requested_current, chg_en, input_limit>>
  BY <1>1, SourceHandles, SinkHandles DEF Received, SourceVconnSwap, SinkVconnSwap
<1>3. Begins' /\ RolesChosen' /\ Hears'  BY <1>1, <1>2, HeardFrame
<1>4. (At(SinkSide)' => At(SinkSide)) /\ (At(SourceStates)' => At(SourceStates))
  BY <1>1, <1>2, HeardFrame
<1>5. Orderly' = Orderly /\ peer' = peer  BY <1>1 DEF Received, Orderly
<1>6. (SwapAnswered => SwapAnswered') /\ (RequestAnswered => RequestAnswered')
  BY <1>1, <1>2 DEF SwapAnswered, RequestAnswered
<1>7. AsSink' /\ AsSource'  BY <1>4, <1>5, <1>6 DEF AsSink, AsSource
<1>8. NotSwapping'  BY <1>1 DEF NotSwapping
<1>9. LastOffer'
  <2>1. Live  BY <1>1, ReceivedWhere
  <2>. QED  BY <1>1, <1>2, <1>5, <2>1 DEF LastOffer, Clamp, NotByHand
<1>10. NoSupplyCharges'  BY <1>1, <1>2, <1>5 DEF NoSupplyCharges, Received
<1>11. inflight' \in Seq(TxTypes)  BY <1>1 DEF TypeOK
<1>. QED  BY <1>3, <1>7, <1>8, <1>9, <1>10, <1>11

LEMMA DrSwapKeeps ==
  ASSUME TypeOK, TypeOK', RolesInv, SessionInv, peer = "source",
         Say("DR_SWAP", {"ready"}, "dr_swap"), UNCHANGED upset
  PROVE  SessionInv'
<1>. USE DEF SessionInv, MsgTypes, replyOnly, sourceVars, roleVars, chargeVars
<1>1. Received(Msg("DR_SWAP")) /\ Msg("DR_SWAP").type = "DR_SWAP" /\ inflight' = tx'
      /\ ps = "ready" /\ ps' = "dr_swap" /\ UNCHANGED <<peer_dr, offer>>
  BY Spoken
<1>2. SourceDrSwap(Msg("DR_SWAP"))  BY <1>1, SourceHandles DEF Received
<1>3. UNCHANGED <<pd_state, pd_powerrole, pd_datarole, requested_current, chg_en, input_limit>>
  BY <1>2 DEF SourceDrSwap, Answer
<1>4. \/ swap_dr_after_goodcrc' = swap_dr_after_goodcrc /\ tx' = <<"WAIT">>
      \/ swap_dr_after_goodcrc' /\ tx' = <<"ACCEPT">>
  BY <1>2 DEF SourceDrSwap, Answer
<1>5. SwapAnswered => SwapAnswered'
  <2>1. \A x : Head(<<x>>) = x /\ <<x>> # <<>>  OBVIOUS
  <2>. QED  BY <1>1, <1>3, <1>4, <2>1 DEF SwapAnswered
<1>6. Begins' /\ RolesChosen' /\ Hears'  BY <1>1, <1>3, HeardFrame
<1>7. (At(SinkSide)' => At(SinkSide)) /\ (At(SourceStates)' => At(SourceStates))
  BY <1>1, <1>3, HeardFrame
<1>8. Orderly' = Orderly /\ peer' = peer  BY <1>1 DEF Received, Orderly
<1>9. AsSink' /\ AsSource'  BY <1>5, <1>7, <1>8 DEF AsSink, AsSource
<1>10. NotSwapping'  BY <1>1 DEF NotSwapping
<1>11. LastOffer'
  <2>1. Live  BY <1>1, ReceivedWhere
  <2>. QED  BY <1>1, <1>3, <1>8, <2>1 DEF LastOffer, Clamp, NotByHand
<1>12. NoSupplyCharges'  BY <1>1, <1>3, <1>8 DEF NoSupplyCharges, Received
<1>13. inflight' \in Seq(TxTypes)  BY <1>1 DEF TypeOK
<1>. QED  BY <1>6, <1>9, <1>10, <1>11, <1>12, <1>13

LEMMA PrSwapKeeps ==
  ASSUME TypeOK, TypeOK', RolesInv, SessionInv,
         Say("PR_SWAP", {"ready"}, "pr_swap"), upset' = upset \cup {"pr_swap"}
  PROVE  SessionInv'
<1>. USE DEF SessionInv, MsgTypes
<1>1. Received(Msg("PR_SWAP")) /\ Msg("PR_SWAP").type = "PR_SWAP" /\ inflight' = tx'
      /\ ps' = "pr_swap"
  BY Spoken
<1>2. ~Orderly'  BY DEF Orderly
<1>3. pd_state' \in {"UNATTACHED_SRC", "UNATTACHED_SNK"} /\ pc' = pd_state' /\ rx_on'
  BY <1>1, SourceHandles, SinkHandles DEF Received, SourcePrSwap, SinkPrSwap
<1>4. Begins' /\ RolesChosen' /\ Hears'  BY <1>3 DEF Begins, RolesChosen, Hears
<1>5. NotSwapping' /\ AsSink' /\ AsSource' /\ NoSupplyCharges'
  BY <1>2 DEF NotSwapping, AsSink, AsSource, NoSupplyCharges
<1>6. LastOffer'  BY <1>1 DEF LastOffer
<1>7. inflight' \in Seq(TxTypes)  BY <1>1 DEF TypeOK
<1>. QED  BY <1>4, <1>5, <1>6, <1>7

(* A GoodCRC acknowledges the oldest message of ours; the engine takes any *)
(* for the one it waits for.                                               *)
LEMMA Acknowledged ==
  ASSUME TypeOK, TypeOK', Acknowledge
  PROVE  /\ Received(Msg("GOODCRC")) /\ Msg("GOODCRC").type = "GOODCRC"
         /\ Msg("GOODCRC").dr = peer_dr
         /\ PeerReceives(Head(inflight)) /\ inflight # <<>>
         /\ UNCHANGED <<offer, upset>> /\ Orderly' = Orderly /\ peer' = peer
<1>1. Msg("GOODCRC").type = "GOODCRC" /\ Msg("GOODCRC").dr = peer_dr
      /\ Msg("GOODCRC").role = IF peer = "source" THEN "SOURCE" ELSE "SINK"
  BY DEF Msg
<1>2. Received(Msg("GOODCRC"))  BY <1>1, ReceivedBy DEF Acknowledge
<1>. QED  BY <1>1, <1>2 DEF Acknowledge, Orderly, Received

LEMMA SourceAcknowledges ==
  ASSUME TypeOK, TypeOK', RolesInv, PartnerTypeOK, SessionInv, Acknowledge, peer = "source"
  PROVE  SessionInv'
<1>. USE DEF SessionInv
<1>1. SourceGoodCrc(Msg("GOODCRC"))  BY Acknowledged, SourceHandles DEF Received
<1>2. UNCHANGED <<pd_state, pd_powerrole, requested_current, chg_en, input_limit>>
  BY <1>1 DEF SourceGoodCrc, CompleteDrSwap, Answer, replyOnly, sourceVars, roleVars, chargeVars
<1>3. /\ swap_dr_after_goodcrc => ~swap_dr_after_goodcrc' /\ pd_datarole' = peer_dr
      /\ ~swap_dr_after_goodcrc => ~swap_dr_after_goodcrc' /\ pd_datarole' = pd_datarole
  BY <1>1, Acknowledged DEF SourceGoodCrc, CompleteDrSwap, Answer, replyOnly, roleVars
<1>4. PeerReceives(Head(inflight)) /\ inflight # <<>>  BY Acknowledged
<1>5. /\ ps' = "dr_swap" => ps = "dr_swap" /\ Head(inflight) \notin {"ACCEPT", "WAIT"}
      /\ ps' = "pr_swap" => ps = "pr_swap"
      /\ ps' = "pr_swapping" => ps \in {"pr_swap", "pr_swapping"}
      /\ ps' = "requested" => ps = "requested"
      /\ ps' = "accepted" => ps = "accepted"
      /\ ps' = "ready" => ps \in {"ready", "dr_swap"}
  BY <1>4 DEF PeerReceives
<1>6. IF ps = "dr_swap" /\ Head(inflight) = "ACCEPT"
      THEN peer_dr' = IF peer_dr = "DFP" THEN "UFP" ELSE "DFP"
      ELSE peer_dr' = peer_dr
  BY <1>4 DEF PeerReceives
<1>7. SwapAnswered => SwapAnswered'
  BY <1>3, <1>5, <1>6 DEF SwapAnswered, PartnerTypeOK, DataRoles
<1>8. Begins' /\ RolesChosen' /\ Hears'  BY <1>2, Acknowledged, HeardFrame
<1>9. (At(SinkSide)' => At(SinkSide)) /\ (At(SourceStates)' => At(SourceStates))
  BY <1>2, Acknowledged, HeardFrame
<1>10. AsSink'  BY <1>7, <1>9, Acknowledged DEF AsSink
<1>11. AsSource'  BY <1>9, Acknowledged DEF AsSource
<1>12. NotSwapping'  BY <1>5, Acknowledged DEF NotSwapping
<1>13. LastOffer'
  <2>1. Live  BY Acknowledged, ReceivedWhere
  <2>. QED  BY <1>2, <1>5, <2>1, Acknowledged DEF LastOffer, NotByHand, Clamp
<1>14. NoSupplyCharges'  BY <1>2, Acknowledged DEF NoSupplyCharges, Received
<1>15. inflight' \in Seq(TxTypes)
  <2>1. tx' \in Seq(TxTypes)  BY DEF TypeOK
  <2>2. Tail(inflight) \in Seq(TxTypes)
    <3>1. inflight \in Seq(TxTypes) /\ inflight # <<>>  BY <1>4
    <3>. QED  BY ONLY <3>1
  <2>3. inflight' = Tail(inflight) \o tx'  BY DEF Acknowledge
  <2>. QED  BY ONLY <2>1, <2>2, <2>3
<1>. QED  BY <1>8, <1>10, <1>11, <1>12, <1>13, <1>14, <1>15

LEMMA SinkAcknowledges ==
  ASSUME TypeOK, TypeOK', RolesInv, SourceHandshake, SessionInv, Acknowledge, peer = "sink"
  PROVE  SessionInv'
<1>. USE DEF SessionInv
<1>1. SinkGoodCrc(Msg("GOODCRC"))  BY Acknowledged, SinkHandles DEF Received
<1>2. UNCHANGED <<pd_state, pd_powerrole, pd_datarole, chg_en>> /\ ~accept_sent'
  BY <1>1 DEF SinkGoodCrc, roleVars, chargeVars, SourceHandshake
<1>3. PeerReceives(Head(inflight)) /\ inflight # <<>>  BY Acknowledged
<1>4. RequestAnswered => RequestAnswered'
  BY <1>2, <1>3 DEF RequestAnswered, PeerReceives
<1>5. ps' \in {"pr_swap", "pr_swapping"} => ps \in {"pr_swap", "pr_swapping"}
  BY <1>3 DEF PeerReceives
<1>6. Begins' /\ RolesChosen' /\ Hears'  BY <1>2, Acknowledged, HeardFrame
<1>7. (At(SinkSide)' => At(SinkSide)) /\ (At(SourceStates)' => At(SourceStates))
  BY <1>2, Acknowledged, HeardFrame
<1>8. AsSink'  BY <1>7, Acknowledged DEF AsSink
<1>9. AsSource'  BY <1>4, <1>7, Acknowledged DEF AsSource
<1>10. NotSwapping' /\ LastOffer'  BY <1>5, Acknowledged DEF NotSwapping, LastOffer
<1>11. NoSupplyCharges'  BY <1>2, Acknowledged DEF NoSupplyCharges, Received
<1>12. inflight' \in Seq(TxTypes)
  <2>1. tx' \in Seq(TxTypes)  BY DEF TypeOK
  <2>2. Tail(inflight) \in Seq(TxTypes)
    <3>1. inflight \in Seq(TxTypes) /\ inflight # <<>>  BY <1>3
    <3>. QED  BY ONLY <3>1
  <2>3. inflight' = Tail(inflight) \o tx'  BY DEF Acknowledge
  <2>. QED  BY ONLY <2>1, <2>2, <2>3
<1>. QED  BY <1>6, <1>8, <1>9, <1>10, <1>11, <1>12

-----------------------------------------------------------------------------
LEMMA SessionInvInit == SessionInit => SessionInv
<1>. SUFFICES ASSUME SessionInit PROVE SessionInv  OBVIOUS
<1>1. /\ pc = "comm" /\ pd_state = "SETUP" /\ pd_powerrole = "SINK" /\ ~v5
      /\ ps = "idle" /\ inflight = <<>>
  BY DEF SessionInit, Init
<1>2. ~At(SinkSide) /\ ~At(SourceStates) /\ ~At(SinkSide \cup SourceStates)
  BY <1>1 DEF At, SinkSide, SourceStates
<1>. QED
  BY <1>1, <1>2, SentMessages
     DEF SessionInv, Begins, RolesChosen, Hears, NotSwapping, AsSink, AsSource,
         NoSupplyCharges, LastOffer

LEMMA SessionInductive ==
  ASSUME TypeOK, TypeOK', RolesInv, SourceHandshake, PartnerTypeOK, SessionInv,
         [SessionNext]_sessionVars
  PROVE  SessionInv'
<1>1. CASE Acknowledge
  <2>1. peer = "source" \/ peer = "sink"
    BY <1>1, Acknowledged DEF Received, TypeOK
  <2>. QED  BY <1>1, <2>1, SourceAcknowledges, SinkAcknowledges
<1>2. CASE Lose  BY <1>2, LoseKeeps
<1>3. CASE SourceSays  BY <1>3, SourceSaysKeeps
<1>4. CASE SinkSays  BY <1>4, SinkSaysKeeps
<1>5. CASE EitherSays
  BY <1>5, SoftResetKeeps, VconnSwapKeeps, DrSwapKeeps, PrSwapKeeps DEF EitherSays
<1>6. CASE StartOver  BY <1>6, StartOverKeeps
<1>7. CASE Silence \/ Quietly(SkipComm) \/ Quietly(Flush)
  BY <1>7, CommStills, StillKeeps DEF Silence, Quietly, Says
<1>8. CASE Quietly(SetupEmergency) \/ Quietly(SetupFails)
  BY <1>8, SetupKeeps DEF Quietly, Says
<1>9. CASE Quietly(ToggleDone) \/ Quietly(AssignRoles)
  BY <1>9, AttachKeeps DEF Quietly, Says
<1>10. CASE Quietly(VbusArrives) \/ Quietly(SinkFound)
  BY <1>10, FoundKeeps DEF Quietly, Says
<1>11. CASE \/ Quietly(ToggleOther) \/ Quietly(Toggling) \/ Quietly(VbusAwaited)
            \/ Quietly(VbusLost) \/ Quietly(HandshakeTimedOut) \/ Quietly(SinkSendsSoftReset)
            \/ Quietly(SinkStays) \/ Quietly(SinkAwaited) \/ Quietly(SourceStartsOver)
            \/ Quietly(SourceStays) \/ Quietly(charger_tick)
  BY <1>11, BranchStills, StillKeeps DEF Quietly, Says
<1>12. CASE Quietly(Command)  BY <1>12, CommandStills, StillKeeps DEF Quietly, Says
<1>13. CASE NewPartner \/ PartnerLeaves \/ PowerRoleTurns  BY <1>13, PartnerKeeps
<1>14. CASE UNCHANGED sessionVars
  BY <1>14 DEF sessionVars, peerVars, vars, sourceVars, roleVars, chargeVars, boardVars,
       SessionInv, Begins, RolesChosen, Hears, NotSwapping, AsSink, AsSource, NoSupplyCharges,
       LastOffer, At, Orderly, SwapAnswered, RequestAnswered, Live, NotByHand, Clamp
<1>. QED
  BY Zenon, <1>1, <1>2, <1>3, <1>4, <1>5, <1>6, <1>7, <1>8, <1>9, <1>10, <1>11, <1>12, <1>13, <1>14
     DEF SessionNext, SessionLoop

(* What both ends hold of the session agrees at every step of it: messages *)
(* lost or late, partners that go and come, commands anywhere. (pd_com.c)  *)
THEOREM SessionAgrees ==
  ASSUME Message \subseteq Messages
  PROVE  SessionSpec => [](SessionInv /\ TypeOK /\ RolesInv /\ SourceHandshake /\ PartnerTypeOK)
<1>1. SessionInit => Init /\ SessionInv  BY SessionInvInit DEF SessionInit
<1>2. Init => RolesInv /\ SourceHandshake
  BY DEF Init, RolesInv, RoleMatchesState, StepMatchesState, SinkStates, SourceStates, States,
         SourceHandshake
<1>3. PartnerTypeOK /\ [SessionNext]_sessionVars => [Next]_vars  BY SessionStep
<1>4. TypeOK /\ RolesInv /\ SourceHandshake /\ [Next]_vars
        => TypeOK' /\ RolesInv' /\ SourceHandshake'
  BY TypeOfNext, RolesInductive, HandshakeInductive
<1>5. TypeOK /\ TypeOK' /\ RolesInv /\ SourceHandshake /\ PartnerTypeOK /\ SessionInv
        /\ [SessionNext]_sessionVars => SessionInv'
  BY SessionInductive
<1>. QED
  BY <1>1, <1>2, <1>3, <1>4, <1>5, TypeOfInit, PartnerTypeCorrect, PTL DEF SessionSpec

(* While a source considers the contract concluded, the charger is on with *)
(* the current of its last offer, unless set-gpio 6 switches it off.       *)
(* (requested_current, PS_RDY)                                             *)
THEOREM ContractIsAgreed ==
  ASSUME Message \subseteq Messages, NotByHand
  PROVE  SessionSpec => []ContractAgreed
<1>1. SessionInv => ContractAgreed  BY DEF SessionInv, LastOffer, Live, Attached, ContractAgreed
<1>. QED  BY <1>1, SessionAgrees, PTL

(* The two ends never play the same data role in a session without loss,   *)
(* replacement or power role swap. (swap_dr_after_goodcrc)                 *)
THEOREM DataRolesAgree ==
  ASSUME Message \subseteq Messages
  PROVE  SessionSpec => []DataRolesDiffer
<1>1. SessionInv => DataRolesDiffer
  BY DEF SessionInv, AsSink, AsSource, SwapAnswered, RequestAnswered, Orderly, At, SinkSide,
         SourceStates, Attached, DataRolesDiffer
<1>. QED  BY <1>1, SessionAgrees, PTL

(* The port does not charge from its own 5 V. (pd_set_fusb_switches)       *)
THEOREM NeverBackfeeds ==
  ASSUME Message \subseteq Messages
  PROVE  SessionSpec => []NoBackfeed
<1>1. SessionInv => NoBackfeed
  BY DEF SessionInv, NoSupplyCharges, Orderly, NoBackfeed
<1>. QED  BY <1>1, SessionAgrees, PTL

(* PS_RDY goes to a sink that has just acknowledged a message: of all      *)
(* steps, only the handling of a GoodCRC sends it.                         *)
LEMMA OnlyToSinks ==
  ASSUME TypeOK, TypeOK', SessionNext, peer = "sink", tx' = <<"PS_RDY">>
  PROVE  Acknowledge
<1>1. \A x : x # "PS_RDY" => tx' # <<x>>
  <2>1. \A x : <<x>>[1] = x  OBVIOUS
  <2>. QED  BY <2>1
<1>2. tx' # <<>>
  <2>1. Len(<<>>) = 0 /\ Len(<<"PS_RDY">>) = 1  OBVIOUS
  <2>. QED  BY <2>1
<1>3. ~Lose /\ ~Silence /\ ~Quietly(SkipComm) /\ ~Quietly(Flush)
  BY <1>2 DEF Lose, Silence, Quietly, ReceiveNothing, Flush, SkipComm
<1>4. ~SourceSays  BY DEF SourceSays
<1>5. ~SinkSays
  <2>1. ~Say("REQUEST", {"offered", "ready"}, "requested")
    BY <1>1, Spoken, SinkHandles DEF Received, SinkRequest, MsgTypes
  <2>2. ~Say("GET_SOURCE_CAP", {"idle", "ready"}, ps)
    BY <1>1, Spoken, SinkHandles DEF Received, Answer, MsgTypes
  <2>. QED  BY <2>1, <2>2 DEF SinkSays
<1>6. ~EitherSays
  <2>1. ~Say("SOFT_RESET", {"ready", "idle"}, "idle")
    BY <1>2, Spoken, SinkHandles DEF Received, SinkSoftReset, MsgTypes
  <2>2. ~Say("VCONN_SWAP", {"ready"}, "ready")
    BY <1>1, Spoken, SinkHandles DEF Received, SinkVconnSwap, MsgTypes
  <2>3. ~Say("PR_SWAP", {"ready"}, "pr_swap")
    BY <1>1, Spoken, SinkHandles DEF Received, SinkPrSwap, MsgTypes
  <2>. QED  BY <2>1, <2>2, <2>3 DEF EitherSays
<1>7. ~StartOver /\ ~Quietly(SetupEmergency) /\ ~Quietly(SetupFails)
  BY <1>2 DEF StartOver, Quietly, SetupEmergency, SetupSucceeds, SetupFails, ResetDefaults
<1>8. ~Quietly(ToggleDone) /\ ~Quietly(ToggleOther) /\ ~Quietly(Toggling) /\ ~Quietly(AssignRoles)
  BY <1>2 DEF Quietly, ToggleDone, ToggleOther, Toggling, AssignRoles
<1>9. ~Quietly(VbusArrives) /\ ~Quietly(VbusAwaited) /\ ~Quietly(VbusLost) /\ ~Quietly(HandshakeTimedOut)
  BY <1>2 DEF Quietly, VbusArrives, VbusAwaited, VbusLost, HandshakeTimedOut
<1>10. ~Quietly(SinkSendsSoftReset) /\ ~Quietly(SourceStartsOver)
  BY <1>1 DEF Quietly, SinkSendsSoftReset, SourceStartsOver, pd_send_reset
<1>11. ~Quietly(SinkStays) /\ ~Quietly(SinkFound) /\ ~Quietly(SinkAwaited) /\ ~Quietly(charger_tick)
  BY <1>2 DEF Quietly, SinkStays, SinkFound, SinkAwaited, charger_tick
<1>12. ~Quietly(SourceStays)
  <2>1. <<>> \o <<>> = <<>> /\ <<>> \o <<"VDM">> = <<"VDM">> /\ <<"SOURCE_CAPS">> \o <<>> = <<"SOURCE_CAPS">>
        /\ (<<"SOURCE_CAPS">> \o <<"VDM">>)[1] = "SOURCE_CAPS" /\ <<"PS_RDY">>[1] = "PS_RDY"
    OBVIOUS
  <2>. QED  BY <1>1, <1>2, <2>1 DEF Quietly, SourceStays
<1>13. ~Quietly(Command)
  BY <1>1, <1>2 DEF Quietly, Command, PdResetCommand, SendCommand, ForceSinkCommand,
     Port5vCommand, SetRailCommand, pd_send_reset
<1>14. ~NewPartner /\ ~PartnerLeaves /\ ~PowerRoleTurns
  BY <1>2 DEF NewPartner, PartnerLeaves, PowerRoleTurns, Plug, Unplug, PeerSwapsRole
<1>. QED
  BY Zenon, <1>3, <1>4, <1>5, <1>6, <1>7, <1>8, <1>9, <1>10, <1>11, <1>12, <1>13, <1>14
     DEF SessionNext, SessionLoop

LEMMA PsReadyStep ==
  ASSUME TypeOK, TypeOK', RolesInv, SourceHandshake, SessionInv, SessionNext,
         peer = "sink", upset = {}, tx' = <<"PS_RDY">>
  PROVE  ps' = "accepted"
<1>1. Acknowledge  BY OnlyToSinks
<1>2. /\ Received(Msg("GOODCRC")) /\ Msg("GOODCRC").type = "GOODCRC" /\ PeerReceives(Head(inflight))
  BY <1>1, Acknowledged
<1>3. SinkGoodCrc(Msg("GOODCRC"))  BY <1>2, SinkHandles DEF Received
<1>4. accept_sent
  <2>1. <<>> # <<"PS_RDY">>
    <3>1. Len(<<>>) = 0 /\ Len(<<"PS_RDY">>) = 1  OBVIOUS
    <3>. QED  BY <3>1
  <2>. QED  BY <1>3, <2>1 DEF SinkGoodCrc
<1>5. Orderly /\ ~At(SinkSide)  BY <1>2 DEF Orderly, SessionInv, AsSink, Received
<1>6. At(SourceStates)  BY <1>2, <1>5, ReceivedWhere
<1>7. RequestAnswered  BY <1>2, <1>5, <1>6 DEF SessionInv, AsSource, Received
<1>. QED  BY <1>2, <1>4, <1>7 DEF RequestAnswered, PeerReceives

(* In a session in which nothing has gone wrong, PS_RDY answers a request  *)
(* that was accepted, and nothing else. (pd_handle_msg_from_power_sink)    *)
THEOREM PsReadyIsAnswer ==
  ASSUME Message \subseteq Messages
  PROVE  SessionSpec => PsReadyAnswersRequest
<1>1. TypeOK /\ TypeOK' /\ RolesInv /\ SourceHandshake /\ SessionInv /\ [SessionNext]_sessionVars
        => [peer = "sink" /\ upset = {} /\ tx' = <<"PS_RDY">> => ps' = "accepted"]_sessionVars
  BY PsReadyStep
<1>. QED  BY <1>1, SessionAgrees, PTL DEF SessionSpec, PsReadyAnswersRequest
=============================================================================
