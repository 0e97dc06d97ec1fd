----------------------------- MODULE PdSession ------------------------------
(***************************************************************************)
(* The policy engine of PdPolicy with a port partner that keeps to USB PD  *)
(* (external): it sends one message at a time, answers each of ours with a *)
(* GoodCRC before it sends anything else, negotiates in order, and takes   *)
(* part in data and power role swaps. What can still go wrong is recorded  *)
(* in upset: a message that is lost after all retries, a power role swap,  *)
(* and a sink replaced by another before the engine saw it go (it looks    *)
(* every 500 ticks only; that a source goes is seen at the next tick, so   *)
(* it is not replaced sooner).                                             *)
(***************************************************************************)
EXTENDS PdPolicy

CONSTANTS Currents   \* what sources offer, as pick_pdo reads it, in 10 mA

ASSUME CurrentsAssumption == Currents \subseteq Nat

VARIABLES
  ps,        \* where the partner is in the negotiation
  peer_dr,   \* its data role
  inflight,  \* our messages it has not acknowledged yet
  offer,     \* the current of its last SOURCE_CAPS
  upset      \* what has disturbed this session

peerVars == <<ps, peer_dr, inflight, offer, upset>>
sessionVars == <<vars, peerVars>>

Msg(ty) ==
  [role |-> IF peer = "source" THEN "SOURCE" ELSE "SINK", dr |-> peer_dr, type |-> ty, cur |-> 0]

SessionInit ==
  /\ Init
  /\ ps = "idle" /\ inflight = <<>> /\ offer \in Currents /\ upset = {}
  /\ peer_dr = IF peer = "sink" THEN "UFP" ELSE "DFP"

(* What we send is on the wire until it is acknowledged or given up, which *)
(* the FUSB302 reports by the next iteration.                              *)
Transmit == inflight' = IF peer = "none" \/ ~rx_on THEN <<>> ELSE inflight \o tx'

(* The partner got our message: it advances and acknowledges.              *)
PeerReceives(msg) ==
  /\ peer_dr' = IF msg = "ACCEPT" /\ ps = "dr_swap"
                THEN IF peer_dr = "DFP" THEN "UFP" ELSE "DFP" ELSE peer_dr
  /\ ps' = CASE msg = "SOFT_RESET"                         -> "idle"
             [] msg = "SOURCE_CAPS" /\ ps = "idle" /\ peer = "sink" -> "offered"
             [] msg = "ACCEPT" /\ ps = "dr_swap"           -> "ready"
             [] msg = "ACCEPT" /\ ps = "pr_swap"           -> "pr_swapping"
             [] msg = "ACCEPT" /\ ps = "requested" /\ peer = "sink" -> "accepted"
             [] msg = "WAIT" /\ ps = "dr_swap"             -> "ready"
             [] msg = "PS_RDY" /\ ps = "accepted" /\ peer = "sink" -> "ready"
             [] OTHER                                      -> ps

Acknowledge ==
  /\ inflight # <<>>
  /\ Receive(Msg("GOODCRC"))
  /\ PeerReceives(Head(inflight))
  /\ inflight' = Tail(inflight) \o tx'
  /\ UNCHANGED <<offer, upset>>

(* A message is lost after all retries, which the engine does not learn,   *)
(* or with whatever else a flush drops.                                    *)
Lose ==
  /\ inflight # <<>>
  /\ \/ ReceiveNothing /\ inflight' = Tail(inflight)
     \/ Flush /\ inflight' = <<>>
  /\ upset' = upset \cup {"lost"}
  /\ UNCHANGED <<ps, peer_dr, offer>>

(* Messages of the partner's own accord: the steps of a negotiation and,   *)
(* once there is a contract, everything else.                              *)
Say(ty, from, to) ==
  /\ inflight = <<>> /\ ps \in from
  /\ Receive(Msg(ty))
  /\ ps' = to
  /\ Transmit
  /\ UNCHANGED <<peer_dr, offer>>

SourceSays ==
  /\ peer = "source"
  /\ \/ /\ inflight = <<>> /\ ps \in {"idle", "ready"}
        /\ offer' \in Currents
        /\ Receive([Msg("SOURCE_CAPS") EXCEPT !.cur = offer'])
        /\ ps' = "requested"
        /\ Transmit
        /\ UNCHANGED <<peer_dr, upset>>
     \/ Say("ACCEPT", {"requested"}, "accepted") /\ UNCHANGED upset
     \/ Say("PS_RDY", {"accepted"}, "ready") /\ UNCHANGED upset

SinkSays ==
  /\ peer = "sink"
  /\ \/ Say("REQUEST", {"offered", "ready"}, "requested") /\ UNCHANGED upset
     \/ Say("GET_SOURCE_CAP", {"idle", "ready"}, ps) /\ UNCHANGED upset

EitherSays ==
  \/ Say("SOFT_RESET", {"ready", "idle"}, "idle") /\ UNCHANGED upset
  \/ Say("VCONN_SWAP", {"ready"}, "ready") /\ UNCHANGED upset
  \/ peer = "source" /\ Say("DR_SWAP", {"ready"}, "dr_swap") /\ UNCHANGED upset
  \/ Say("PR_SWAP", {"ready"}, "pr_swap") /\ upset' = upset \cup {"pr_swap"}

(* Starting over, the engine has the FUSB302 send a hard reset.            *)
StartOver ==
  /\ SetupSucceeds
  /\ ps' = "idle"
  /\ peer_dr' = IF peer = "sink" THEN "UFP" ELSE "DFP"
  /\ inflight' = <<>>
  /\ upset' = {}
  /\ UNCHANGED offer

Quietly(A) == A /\ Transmit /\ UNCHANGED <<ps, peer_dr, offer, upset>>

Silence == inflight = <<>> /\ Quietly(ReceiveNothing)

SessionLoop ==
  \/ Acknowledge \/ Lose \/ SourceSays \/ SinkSays \/ EitherSays \/ StartOver
  \/ Silence \/ Quietly(SkipComm) \/ (inflight = <<>> /\ Quietly(Flush))
  \/ Quietly(SetupEmergency) \/ Quietly(SetupFails)
  \/ Quietly(ToggleDone) \/ Quietly(ToggleOther) \/ Quietly(Toggling) \/ Quietly(AssignRoles)
  \/ Quietly(VbusArrives) \/ Quietly(VbusAwaited) \/ Quietly(VbusLost)
  \/ Quietly(HandshakeTimedOut) \/ Quietly(SinkSendsSoftReset) \/ Quietly(SinkStays)
  \/ Quietly(SinkFound) \/ Quietly(SinkAwaited)
  \/ Quietly(SourceStartsOver) \/ Quietly(SourceStays)
  \/ Quietly(charger_tick)

NewPartner ==
  /\ {pd_state, pc} \cap {"UNATTACHED_SNK", "ATTACHED_SNK"} = {}
  /\ Plug
  /\ ps' = "idle" /\ inflight' = <<>>
  /\ peer_dr' = IF peer' = "sink" THEN "UFP" ELSE "DFP"
  /\ upset' = IF {pd_state, pc} \cap {"UNATTACHED_SRC", "ATTACHED_SRC"} # {}
              THEN upset \cup {"replaced"} ELSE upset
  /\ UNCHANGED offer

PartnerLeaves ==
  /\ Unplug
  /\ inflight' = <<>>
  /\ UNCHANGED <<ps, peer_dr, offer, upset>>

PowerRoleTurns ==
  /\ ps = "pr_swapping"
  /\ PeerSwapsRole
  /\ ps' = "idle"
  /\ UNCHANGED <<peer_dr, inflight, offer, upset>>

SessionNext ==
  \/ SessionLoop
  \/ Quietly(Command)
  \/ NewPartner \/ PartnerLeaves \/ PowerRoleTurns

SessionFairness ==
  /\ WF_sessionVars(SessionLoop)
  /\ SF_sessionVars(StartOver)
  /\ SF_sessionVars(Quietly(VbusLost))

SessionSpec == SessionInit /\ [][SessionNext]_sessionVars
FairSessionSpec == SessionSpec /\ SessionFairness

(***************************************************************************)
(* Properties.                                                             *)
(***************************************************************************)

Attached == pd_state \in {"UNATTACHED_SNK", "ATTACHED_SNK", "ATTACHED_SRC"} /\ pc # "roles"

(* While a source considers the contract concluded, the charger is on and  *)
(* its input limit is the current of that source's last offer, never of an *)
(* earlier offer, session or partner. (requested_current, PS_RDY)          *)
ContractAgreed ==
  peer = "source" /\ ps = "ready" /\ Attached /\ inflight = <<>> =>
    chg_en /\ input_limit = Clamp(offer) \div 5

(* The two ends never play the same data role, unless a message was lost   *)
(* for good: any GoodCRC completes a swap, also one that acknowledges      *)
(* something else than the ACCEPT. (swap_dr_after_goodcrc)                 *)
DataRolesDiffer ==
  peer # "none" /\ Attached /\ upset = {} => pd_datarole # peer_dr

(* The port does not charge from the 5 V it supplies itself, unless it     *)
(* took over as the source by a power role swap, or a source was plugged   *)
(* in where it supplied a sink, and the contract is concluded before the   *)
(* next look for a detach. (pd_set_fusb_switches, PS_RDY)                  *)
NoBackfeed ==
  chg_en /\ v5 => upset \cap {"pr_swap", "replaced"} # {}

(* A sink is told that power is ready only after it saw its request        *)
(* accepted, unless a message was lost or it inherited the handshake of a  *)
(* sink that left unseen or of a role swapped away.                        *)
PsReadyAnswersRequest ==
  [][peer = "sink" /\ upset = {} /\ tx' = <<"PS_RDY">> => ps' = "accepted"]_sessionVars

(* Once nothing is plugged in any more and the battery is not in need, the *)
(* port ends up neither charging nor supplying 5 V.                        *)
PartnerGoneQuiet ==
  <>[](peer = "none" /\ ~emergency) => <>[](~chg_en /\ ~v5)

(* No attached sink waits for ever for its contract: it charges or starts  *)
(* over.                                                                   *)
SinkHandshakeEnds ==
  (pd_state = "ATTACHED_SNK" /\ ~chg_en) ~> (chg_en \/ pd_state # "ATTACHED_SNK")

(* No source whose capabilities were acknowledged waits for ever for the   *)
(* request.                                                                *)
SourceHandshakeEnds ==
  (pd_state = "ATTACHED_SRC" /\ cap_acked /\ ~ready_sent)
    ~> (ready_sent \/ pd_state # "ATTACHED_SRC")
=============================================================================
