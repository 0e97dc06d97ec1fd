------------------------------ MODULE Charger ------------------------------
(***************************************************************************)
(* Charger control (sysctl.c 138-250 and 420-433, mp2650.c): the registers *)
(* of the MP2650, the copies the firmware keeps of them, the PD session    *)
(* that decides when to charge and how much (pd_com.c, with the choice of  *)
(* PickPdo), and an I2C bus on which every transfer may fail: no caller    *)
(* looks at a result.                                                      *)
(*                                                                         *)
(* The functions are run one statement or transfer at a time: todo holds   *)
(* the statements that are left, those of the function called last first.  *)
(* The model is of motherboard 2.0, where OTG is not used.                 *)
(***************************************************************************)
EXTENDS PickPdo

CONSTANTS
  ResetLimit    \* input limit of the MP2650 after its own reset, in 50 mA (external)

ASSUME ResetLimitAssumption == ResetLimit \in 0..255

VARIABLES
  todo,
  ram,          \* mps_reg_config and mps_reg_limits
  chip,         \* the registers of the MP2650
  chg_stat,     \* mps_reg_status.status.chg_stat
  emergency,    \* battery_info.emergency_charge_necessary
  session,      \* the PD state: "setup", or "attached" (looking for or with a source)
  asked,        \* a PDO was requested and is not granted yet
  granted,      \* the current of the contract, 0 without one: PS_RDY came
  upset         \* what chip and ram may disagree on (history)

chargerVars == <<todo, ram, chip, chg_stat, emergency,
                 session, asked, granted, upset>>
vars == <<pickVars, chargerVars>>

Stats == {"TRICKLE", "OTHER"}
Groups == {"config0", "limits"}
DefaultLimit == 10     \* 500 mA, "should always be safe"

(* What the MP2650 comes up with: it charges (external).                   *)
ChipReset == [chg_en |-> TRUE, limit |-> ResetLimit]

-----------------------------------------------------------------------------
(* The functions, as the statements they run: an assignment, or a transfer.*)

StatementNames ==
  {"limit", "chg_en", "reg_rst", "chg_en_by_emergency", "wtd_rst", "derive",
   "write_limits", "write_config0", "write_stale",
   "read_limits", "read_config", "read_status"}

WriteLimits(limit) ==
  << <<"limit", limit>>, <<"write_limits", 0>>, <<"read_limits", 0>> >>

(* Mutant: nothing is written if charging is on already. *)
EnableOnce(current) ==
  IF ram.chg_en THEN <<>>
  ELSE WriteLimits(current \div 5) \o << <<"chg_en", 1>>, <<"write_config0", 0>> >>

charger_enable_charge(current) ==
  WriteLimits(current \div 5) \o << <<"chg_en", 1>>, <<"write_config0", 0>> >>

charger_disable_charge ==
  << <<"chg_en", 0>>, <<"write_config0", 0>> >> \o WriteLimits(DefaultLimit)

(* Mutant: the watchdog is fed without the rest of config0. *)
TickFeedsOnly == << <<"derive", 0>>, <<"wtd_rst", 0>> >>

charger_tick == << <<"derive", 0>>, <<"wtd_rst", 0>>, <<"write_config0", 0>> >>

charger_init ==
  << <<"read_status", 0>>, <<"derive", 0>>, <<"reg_rst", 0>>, <<"write_config0", 0>>,
     <<"read_config", 0>>, <<"chg_en_by_emergency", 0>>, <<"write_config0", 0>>,
     <<"read_limits", 0>>, <<"read_status", 0>> >>
  \o WriteLimits(DefaultLimit) \o charger_tick

(* Boot of the controller: setup() has read the gauge (gauge_init) and     *)
(* calls charger_init; the MP2650 has kept its registers.                  *)
Init ==
  /\ PickInit
  /\ todo = charger_init
  /\ ram = [chg_en |-> FALSE, reg_rst |-> FALSE, limit |-> 0]
  /\ chip \in [chg_en: BOOLEAN, limit: {DefaultLimit, ResetLimit}]
  /\ chg_stat = "OTHER"
  /\ emergency = FALSE
  /\ session = "setup" /\ asked = FALSE /\ granted = 0
  /\ upset = Groups

-----------------------------------------------------------------------------
(* One statement. The main loop is in PickPdo's loop while that is not idle. *)

Do(name) == Idle /\ todo # <<>> /\ Head(todo)[1] = name
Arg      == Head(todo)[2]
Done     == todo' = Tail(todo)

registers == <<ram, chip, upset>>
batteryVars == <<chg_stat, emergency>>
pdVars == <<session, asked, granted>>
kept == <<pickVars, pdVars>>

(* Trickle charge at 0 %. The gauge decides the percentage (external), and *)
(* 0 is also what one leaves that does not answer.                         *)
derive_emergency_charge_necessary ==
  /\ Do("derive") /\ Done
  /\ emergency' \in {FALSE, chg_stat = "TRICKLE"}
  /\ UNCHANGED <<kept, registers, chg_stat>>

(* The assignments to the copies; reg_rst and chg_en are bits of config0.  *)
Assign ==
  /\ \/ Do("limit")   /\ ram' = [ram EXCEPT !.limit = Arg]
     \/ Do("chg_en")  /\ ram' = [ram EXCEPT !.chg_en = (Arg = 1)]
     \/ Do("reg_rst") /\ ram' = [ram EXCEPT !.reg_rst = TRUE]
     \/ Do("chg_en_by_emergency") /\ ram' = [ram EXCEPT !.chg_en = emergency]
     \/ Do("wtd_rst") /\ UNCHANGED ram
  /\ Done
  /\ UNCHANGED <<kept, batteryVars, chip, upset>>

(* A transfer that the MP2650 does not answer changes nothing: not the     *)
(* register, and not the copy.                                             *)
Written == [g \in Groups |->
  CASE g = "config0" -> IF ram.reg_rst THEN ChipReset ELSE [chip EXCEPT !.chg_en = ram.chg_en]
    [] g = "limits"  -> [chip EXCEPT !.limit = ram.limit]]

WriteName == [g \in Groups |->
  CASE g = "config0" -> "write_config0" [] g = "limits" -> "write_limits"]

WriteSucceeds(g) ==
  /\ Do(WriteName[g]) /\ Done
  /\ chip' = Written[g]
  /\ upset' = IF g = "config0" /\ ram.reg_rst THEN upset \cup Groups ELSE upset \ {g}
  /\ UNCHANGED <<kept, batteryVars, ram>>

WriteFails(g) ==
  /\ Do(WriteName[g]) /\ Done
  /\ upset' = upset \cup {g}
  /\ UNCHANGED <<kept, batteryVars, ram, chip>>

(* An interrupt came after the byte for config0 was fetched and cleared    *)
(* chg_en: the byte that is written still has it set.                      *)
StaleWrite ==
  /\ Do("write_stale") /\ Done
  /\ chip' = IF ram.reg_rst THEN ChipReset ELSE [chip EXCEPT !.chg_en = TRUE]
  /\ upset' = upset \cup IF ram.reg_rst THEN Groups ELSE {"config0"}
  /\ UNCHANGED <<kept, batteryVars, ram>>

ReadConfig ==
  /\ Do("read_config") /\ Done
  /\ ram' = [ram EXCEPT !.chg_en = chip.chg_en, !.reg_rst = FALSE]
  /\ upset' = upset \ {"config0"}
  /\ UNCHANGED <<kept, batteryVars, chip>>

ReadLimits ==
  /\ Do("read_limits") /\ Done
  /\ ram' = [ram EXCEPT !.limit = chip.limit]
  /\ UNCHANGED <<kept, batteryVars, chip, upset>>

(* The battery decides what the charger reports (external).                *)
ReadStatus ==
  /\ Do("read_status") /\ Done
  /\ chg_stat' \in IF chip.chg_en THEN Stats ELSE {"OTHER"}
  /\ UNCHANGED <<kept, registers, emergency>>

ReadFails ==
  /\ Do("read_config") \/ Do("read_limits") \/ Do("read_status")
  /\ Done
  /\ UNCHANGED <<kept, batteryVars, registers>>

Statement ==
  \/ derive_emergency_charge_necessary
  \/ Assign
  \/ \E g \in Groups : WriteSucceeds(g) \/ WriteFails(g)
  \/ StaleWrite \/ ReadConfig \/ ReadLimits \/ ReadStatus \/ ReadFails

-----------------------------------------------------------------------------
(* The iterations of the main loop: what pd_tick makes of the charger, and *)
(* then the tick, and every 100 ticks a look at the status.               *)

Quiet == todo = <<>> /\ Idle

Iterate(call) ==
  /\ Quiet
  /\ \E rest \in {<<>>, << <<"read_status", 0>> >>} :
       todo' = call \o charger_tick \o rest
  /\ upset' = IF call = <<>> THEN upset ELSE upset \ {"command"}
  /\ UNCHANGED <<ram, chip, batteryVars>>

NoCall ==
  /\ Iterate(<<>>)
  /\ UNCHANGED <<pickVars, pdVars>>

(* Mutant: charging is left to the end of the session. *)
PdSetupCharging ==
  /\ session = "setup"
  /\ Iterate(IF ~emergency \/ ram.chg_en THEN <<>> ELSE charger_enable_charge(50))
  /\ session' \in IF emergency THEN {"setup"} ELSE {"setup", "attached"}
  /\ asked' = FALSE /\ granted' = 0
  /\ UNCHANGED pickVars

(* PD_STATE_SETUP: an emergency is charged for without PD. Otherwise       *)
(* nothing is drawn before a contract, also when the FUSB302 is not found. *)
PdSetup ==
  /\ session = "setup"
  /\ Iterate(IF ~emergency THEN charger_disable_charge
             ELSE IF ram.chg_en THEN <<>> ELSE charger_enable_charge(50))
  /\ session' \in IF emergency THEN {"setup"} ELSE {"setup", "attached"}
  /\ asked' = FALSE /\ granted' = 0
  /\ UNCHANGED pickVars

(* The partner offers, also once more during a contract; the statements    *)
(* of the rest of this iteration wait for the loop of pick_pdo.            *)
Offer ==
  /\ session = "attached"
  /\ Iterate(<<>>)
  /\ \E c \in CapLists : SourceCaps(c)
  /\ asked' = FALSE
  /\ UNCHANGED <<session, granted>>

Pick ==
  /\ TakePdo \/ SkipPdo
  /\ UNCHANGED chargerVars

(* A partner grants no request for object 0 (external).                    *)
Ask ==
  /\ Request
  /\ asked' = (picked.pdo_num # 0)
  /\ UNCHANGED <<todo, registers, batteryVars, session, granted>>

PsReady ==
  /\ session = "attached" /\ asked
  /\ Iterate(charger_enable_charge(requested_current))
  /\ asked' = FALSE /\ granted' = requested_current
  /\ UNCHANGED <<pickVars, session>>

(* Detach, reset or timeout: the state goes back to SETUP.                 *)
SessionEnds ==
  /\ session = "attached"
  /\ Iterate(<<>>)
  /\ session' = "setup"
  /\ UNCHANGED <<pickVars, asked, granted>>

-----------------------------------------------------------------------------
(* What comes at any moment.                                               *)

(* Outside of the loop of pick_pdo and between two iterations are all the  *)
(* moments that pdvolt can tell apart.                                     *)
Pdvolt ==
  /\ Quiet \/ ~Idle
  /\ \E v \in MaxVoltages : MaxVoltage(v)
  /\ UNCHANGED chargerVars

(* set-gpio 6 from the SPI interrupt runs charger_disable_charge between   *)
(* any two statements, in one step: the main loop does not run meanwhile.  *)
(* Interrupted in the update of config0 (wtd_rst), the main loop stores    *)
(* the old chg_en again; interrupted in the call of mps_write_byte, it     *)
(* writes the old one.                                                     *)
SetGpio6 ==
  /\ \E done \in SUBSET (Groups \cup {"read"}) :
       LET chip1 == IF "config0" \notin done THEN chip
                    ELSE IF ram.reg_rst THEN ChipReset ELSE [chip EXCEPT !.chg_en = FALSE] IN
       /\ chip' = [chip1 EXCEPT !.limit = IF "limits" \in done THEN DefaultLimit ELSE @]
       /\ ram' = [ram EXCEPT !.chg_en = FALSE,
                             !.limit = IF "read" \in done THEN chip'.limit ELSE DefaultLimit]
       /\ upset' = (Groups \ done) \cup (IF ram.reg_rst THEN {"config0"} ELSE {})
                                  \cup (IF todo # <<>> THEN {"command"} ELSE {})
  /\ \/ UNCHANGED todo
     \/ todo # <<>> /\ Head(todo)[1] = "wtd_rst" /\ ram.chg_en
        /\ todo' = << <<"chg_en", 1>> >> \o Tail(todo)
     \/ todo # <<>> /\ Head(todo)[1] = "write_config0" /\ ram.chg_en
        /\ todo' = << <<"write_stale", 0>> >> \o Tail(todo)
  /\ UNCHANGED <<pickVars, batteryVars, pdVars>>

(* The watchdog of the MP2650 resets it when no write to config0 arrives   *)
(* for 160 s (external).                                                   *)
ChipWatchdog ==
  /\ "config0" \in upset
  /\ chip' = ChipReset
  /\ upset' = upset \cup Groups
  /\ UNCHANGED <<kept, todo, batteryVars, ram>>

Next ==
  \/ Statement
  \/ NoCall \/ PdSetup \/ Offer \/ Pick \/ Ask \/ PsReady \/ SessionEnds
  \/ Pdvolt \/ SetGpio6 \/ ChipWatchdog

Spec == Init /\ [][Next]_vars

(* The main loop goes on, and the bus does not fail for ever.              *)
FairSpec ==
  /\ Spec
  /\ WF_vars(Statement \/ NoCall \/ Pick \/ Ask)
  /\ SF_vars(WriteSucceeds("config0"))

-----------------------------------------------------------------------------
ChargerTypeOK ==
  /\ PickTypeOK
  /\ \A j \in 1..Len(todo) : todo[j] \in StatementNames \X Nat
  /\ ram \in [chg_en: BOOLEAN, reg_rst: BOOLEAN, limit: 0..255]
  /\ chip \in [chg_en: BOOLEAN, limit: 0..255]
  /\ chg_stat \in Stats /\ emergency \in BOOLEAN
  /\ session \in {"setup", "attached"}
  /\ asked \in BOOLEAN /\ granted \in {0} \cup 10..300
  /\ upset \subseteq Groups \cup {"command"}

(* "Turn off charging until PD allows it" (sysctl.c): between two          *)
(* iterations the MP2650 charges only during a contract, or while SETUP    *)
(* has it charge an empty battery or has not run yet; or the last write of *)
(* config0 was lost, or reset it (see reg_rst in the README).              *)
OnlyWhenAllowed ==
  Quiet /\ chip.chg_en =>
    session = "setup" \/ granted > 0 \/ "config0" \in upset

(* The input limit of the MP2650 is at most the current of the contract,   *)
(* whatever was negotiated before: also a contract for less than the       *)
(* default limit, and a second contract in a session. Not so if a write    *)
(* was lost (nothing repeats that of the limits), or if set-gpio 6 came in *)
(* the middle of an iteration. (pd_com.c, PS_RDY; charger_enable_charge)   *)
DrawsNoMoreThanGranted ==
  Quiet /\ chip.chg_en /\ granted > 0 /\ upset = {} => chip.limit * 5 <= granted

(* What the firmware decides reaches the MP2650 although writes are lost   *)
(* and the MP2650 resets itself, because every tick writes config0 again;  *)
(* unless the reset bit stayed set in the copy. (sysctl.c, charger_tick)   *)
ChipFollows ==
  /\ ram.chg_en ~> (chip.chg_en \/ ~ram.chg_en)
  /\ ~ram.chg_en ~> (~chip.chg_en \/ ram.chg_en \/ ram.reg_rst)
=============================================================================
