------------------------------ MODULE PickPdo ------------------------------
(***************************************************************************)
(* The sink's choice among the power data objects (PDOs) of a source, and  *)
(* the current it then requests (pd_com.c, pick_pdo and the handler of     *)
(* PD_MSGTYPE_D_SOURCE_CAPABILITIES). The loop over the objects takes one  *)
(* step per object, because the command pdvolt, which the SPI interrupt    *)
(* runs, may change max_voltage_requested in the middle of it.             *)
(* Currents are in units of 10 mA, powers in units of 10 mW.               *)
(***************************************************************************)
EXTENDS Integers, Sequences

CONSTANTS
  CapLists,     \* the lists of objects a source may send
  MaxVoltages   \* the arguments pdvolt is given

(* A voltage of 0 stands for an object that is not a fixed supply.         *)
Pdo == [voltage: Nat, current: Nat]

ASSUME CapListsAssumption ==
  /\ CapLists \subseteq Seq(Pdo)
  /\ \A c \in CapLists : Len(c) \in 1..7
ASSUME MaxVoltagesAssumption == MaxVoltages \subseteq Nat

VARIABLES
  caps,       \* rx_msg: the objects being looked at, <<>> outside pick_pdo
  i,          \* the next object
  picked,
  max_voltage_requested,
  steady,     \* no command changed the limit since the loop began (history)
  requested_current

pickVars == <<caps, i, picked, max_voltage_requested, steady, requested_current>>

NoPdo == [pdo_num |-> 0, voltage |-> 0, max_current |-> 0, max_power |-> 0]

PickInit ==
  /\ caps = <<>> /\ i = 0 /\ picked = NoPdo
  /\ max_voltage_requested = 20
  /\ steady = TRUE
  /\ requested_current = 0

Idle == caps = <<>>

SourceCaps(c) ==
  /\ Idle
  /\ caps' = c /\ i' = 1
  /\ UNCHANGED <<picked, max_voltage_requested, steady, requested_current>>

(* A fixed supply the charger can take (20 V) and that is worth it (100 mA) *)
Suits(pdo) ==
  pdo.voltage \in 1..max_voltage_requested /\ pdo.current >= 10

(* Mutant: below 9 V a higher voltage must have the power, too.            *)
BetterByPower(pdo) ==
  /\ pdo.voltage > picked.voltage
  /\ picked.max_power < 10 \/ pdo.voltage * pdo.current >= picked.max_power - 10

(* 9 V at any power; above it a higher voltage may cost 100 mW.            *)
Better(pdo) ==
  /\ pdo.voltage > picked.voltage
  /\ \/ picked.voltage < 9
     \/ picked.max_power < 10
     \/ pdo.voltage * pdo.current >= picked.max_power - 10

TakePdo ==
  /\ i \in 1..Len(caps)
  /\ Suits(caps[i]) /\ Better(caps[i])
  /\ picked' = [pdo_num |-> i, voltage |-> caps[i].voltage,
                max_current |-> caps[i].current,
                max_power |-> caps[i].voltage * caps[i].current]
  /\ i' = i + 1
  /\ UNCHANGED <<caps, max_voltage_requested, steady, requested_current>>

SkipPdo ==
  /\ i \in 1..Len(caps)
  /\ ~(Suits(caps[i]) /\ Better(caps[i]))
  /\ i' = i + 1
  /\ UNCHANGED <<caps, picked, max_voltage_requested, steady, requested_current>>

(* At most 3 A; when nothing suits, object 0 is requested with 100 mA.     *)
Clamp(cur) == IF cur > 300 THEN 300 ELSE IF cur < 10 THEN 10 ELSE cur

Request ==
  /\ i = Len(caps) + 1
  /\ requested_current' = Clamp(picked.max_current)
  /\ caps' = <<>> /\ i' = 0 /\ picked' = NoPdo
  /\ steady' = TRUE
  /\ UNCHANGED max_voltage_requested

(* Mutant: any limit is taken. *)
MaxVoltageUnchecked(v) ==
  /\ max_voltage_requested' = v
  /\ steady' = Idle
  /\ UNCHANGED <<caps, i, picked, requested_current>>

(* The command pdvolt, at any moment. *)
MaxVoltage(v) ==
  /\ max_voltage_requested' = IF v \in 5..20 THEN v ELSE max_voltage_requested
  /\ steady' = Idle
  /\ UNCHANGED <<caps, i, picked, requested_current>>

PickNext ==
  \/ \E c \in CapLists : SourceCaps(c)
  \/ TakePdo \/ SkipPdo \/ Request
  \/ \E v \in MaxVoltages : MaxVoltage(v)

PickSpec == PickInit /\ [][PickNext]_pickVars

PickTypeOK ==
  /\ caps \in CapLists \cup {<<>>}
  /\ i \in 0..(Len(caps) + 1)
  /\ i = 0 <=> caps = <<>>
  /\ picked \in [pdo_num: Nat, voltage: Nat, max_current: Nat, max_power: Nat]
  /\ max_voltage_requested \in 5..20
  /\ steady \in BOOLEAN
  /\ requested_current \in {0} \cup 10..300

-----------------------------------------------------------------------------
Power(pdo) == pdo.voltage * pdo.current

(* USB PD demands of a source that its voltages ascend.                    *)
Ascending == \A j, k \in 1..Len(caps) :
  j < k /\ caps[k].voltage > 0 => caps[j].voltage < caps[k].voltage

(* What of the objects before the next one was not picked, although it     *)
(* suits, is no better than what was: none with 9 V or more for one with   *)
(* less and, in ascending order, none with a higher voltage and the power  *)
(* within the leeway. The leeways given on the way add up to at most       *)
(* 100 mW for each object.                                                 *)
BestSoFar ==
  /\ picked.pdo_num = 0 => \A j \in 1..(i - 1) : ~Suits(caps[j])
  /\ \A j \in 1..(i - 1) :
       Suits(caps[j]) /\ caps[j].voltage >= 9 =>
         /\ picked.voltage >= 9
         /\ Ascending =>
              /\ caps[j].voltage > picked.voltage
                   => Power(caps[j]) < picked.max_power - 10
              /\ Power(caps[j]) <= picked.max_power + 10 * (i - 1)

(* What the comment over the selection promises of its result holds when   *)
(* all objects were looked at, if no command changed the limit meanwhile:  *)
(* something suitable is picked if there is any, and the best in the sense *)
(* above. (pd_com.c, pick_pdo)                                             *)
PickIsBest == ~Idle /\ i = Len(caps) + 1 /\ steady => BestSoFar

(* Whatever pdvolt is given and whenever it comes, the object picked is    *)
(* none that the charger's input could not take, it is the object of that  *)
(* number, and it is worth requesting. (pd_com.c, pick_pdo and             *)
(* pd_set_max_voltage_req)                                                 *)
PickWithinLimits ==
  picked.pdo_num # 0 =>
    /\ picked.voltage <= 20
    /\ picked.max_current >= 10
    /\ ~Idle => /\ picked.pdo_num < i
                /\ caps[picked.pdo_num] =
                     [voltage |-> picked.voltage, current |-> picked.max_current]
=============================================================================
