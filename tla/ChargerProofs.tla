--------------------------- MODULE ChargerProofs ---------------------------
(***************************************************************************)
(* What the choice of PickPdo guarantees, for every list of objects a      *)
(* source may send and every sequence of pdvolt commands; that Charger     *)
(* makes the steps of PickPdo and no others on its variables, so that all  *)
(* of it holds there; and that the MP2650, whichever transfers fail and    *)
(* whenever a command comes, charges only when it may and draws no more    *)
(* than was granted.                                                       *)
(***************************************************************************)
EXTENDS Charger, SequenceTheorems, TLAPS

(* What else holds on the way: between two choices nothing is picked, and  *)
(* within one, unless the limit changed, what is picked suits.             *)
PickedKnown ==
  /\ Idle => picked = NoPdo
  /\ picked.pdo_num = 0 => picked = NoPdo
  /\ picked.pdo_num # 0 => picked.max_power = Power(caps[picked.pdo_num])
  /\ picked.pdo_num # 0 /\ steady => Suits(caps[picked.pdo_num])

PickInv ==
  /\ PickTypeOK
  /\ PickWithinLimits
  /\ PickedKnown
  /\ ~Idle /\ steady => BestSoFar

-----------------------------------------------------------------------------
LEMMA PowerIsNat ==
  ASSUME NEW pdo \in Pdo
  PROVE  Power(pdo) \in Nat
BY DEF Pdo, Power

(* What suits has at least the least voltage and current that suit.        *)
LEMMA PowerOfSuitable ==
  ASSUME NEW v \in Nat, NEW c \in Nat, v >= 1, c >= 10
  PROVE  v * c >= 10
<1>1. PICK w \in Nat : v = w + 1
  <2>1. v - 1 \in Nat /\ v = (v - 1) + 1  OBVIOUS
  <2>. QED  BY <2>1
<1>2. v * c = w * c + c  BY <1>1
<1>3. w * c \in Nat  BY <1>1
<1>. QED  BY <1>2, <1>3

LEMMA CapIsPdo ==
  ASSUME PickTypeOK, NEW j \in 1..Len(caps)
  PROVE  caps[j] \in Pdo
BY CapListsAssumption DEF PickTypeOK

LEMMA CapsFit ==
  ASSUME PickTypeOK
  PROVE  /\ caps \in Seq(Pdo)
         /\ Len(caps) \in Nat
         /\ Idle <=> Len(caps) = 0
         /\ Idle <=> i = 0
<1>1. caps = <<>> => caps \in Seq(Pdo) /\ Len(caps) = 0  OBVIOUS
<1>2. caps # <<>> => caps \in Seq(Pdo) /\ Len(caps) \in 1..7
  BY CapListsAssumption DEF PickTypeOK
<1>. QED  BY <1>1, <1>2 DEF PickTypeOK, Idle

-----------------------------------------------------------------------------
(* A step that looks at an object.                                         *)

LEMMA TakeKeepsBest ==
  ASSUME PickInv, TakePdo, steady
  PROVE  BestSoFar'
<1>. DEFINE k == i
<1>1. k \in 1..Len(caps) /\ k \in Nat /\ i' = k + 1 /\ caps' = caps /\ ~Idle
  BY CapsFit DEF PickInv, TakePdo
<1>2. caps[k] \in Pdo /\ Power(caps[k]) \in Nat
  BY <1>1, CapIsPdo, PowerIsNat DEF PickInv
<1>3. /\ picked' = [pdo_num |-> k, voltage |-> caps[k].voltage,
                    max_current |-> caps[k].current, max_power |-> Power(caps[k])]
      /\ Suits(caps[k]) /\ Better(caps[k])
  BY <1>1 DEF TakePdo, Power
<1>4. BestSoFar  BY <1>1 DEF PickInv
<1>5. \A j : Suits(caps[j])' <=> Suits(caps[j])
  BY DEF TakePdo, Suits
<1>6. Ascending' <=> Ascending
  BY DEF TakePdo, Ascending
<1>7. picked'.pdo_num # 0  BY <1>1, <1>3
<1>8. ASSUME NEW j \in 1..k, Suits(caps[j]), caps[j].voltage >= 9
      PROVE  /\ picked'.voltage >= 9
             /\ Ascending =>
                  /\ caps[j].voltage > picked'.voltage
                       => Power(caps[j]) < picked'.max_power - 10
                  /\ Power(caps[j]) <= picked'.max_power + 10 * k
  <2>1. CASE j = k
    BY <2>1, <1>1, <1>2, <1>3, <1>8 DEF Pdo
  <2>2. CASE j # k
    <3>1. j \in 1..(k - 1) /\ j \in 1..Len(caps)  BY <2>2, <1>1
    <3>2. caps[j] \in Pdo /\ Power(caps[j]) \in Nat
      BY <3>1, CapIsPdo, PowerIsNat DEF PickInv
    <3>3. picked.voltage >= 9  BY <3>1, <1>4, <1>8 DEF BestSoFar
    <3>4. caps[k].voltage > picked.voltage  BY <1>3 DEF Better
    <3>5. picked.voltage \in Nat /\ picked.max_power \in Nat
      BY DEF PickInv, PickTypeOK
    <3>6. picked'.voltage >= 9  BY <1>3, <3>3, <3>4, <3>5, <1>2 DEF Pdo
    <3>7. ASSUME Ascending PROVE ~(caps[j].voltage > picked'.voltage)
      <4>1. caps[k].voltage > 0  BY <3>4, <3>5, <1>2 DEF Pdo
      <4>2. caps[j].voltage < caps[k].voltage
        BY <3>1, <3>7, <4>1, <1>1 DEF Ascending
      <4>. QED  BY <4>2, <1>3, <1>2, <3>2 DEF Pdo
    <3>8. ASSUME Ascending PROVE Power(caps[j]) <= picked'.max_power + 10 * k
      <4>1. Power(caps[j]) <= picked.max_power + 10 * (k - 1)
        BY <3>1, <3>8, <1>4, <1>8 DEF BestSoFar
      <4>2. picked.max_power >= 10
        <5>1. picked.pdo_num # 0  BY <3>3 DEF PickInv, PickedKnown, NoPdo
        <5>2. /\ picked.pdo_num \in 1..Len(caps)
              /\ picked.max_power = picked.voltage * picked.max_current
              /\ picked.max_current >= 10 /\ picked.max_current \in Nat
          BY <5>1, <1>1 DEF PickInv, PickWithinLimits, PickedKnown, PickTypeOK, Power
        <5>. QED  BY <5>2, <3>3, <3>5, PowerOfSuitable
      <4>3. Power(caps[k]) >= picked.max_power - 10
        BY <1>3, <3>3, <3>5, <4>2 DEF Better, Power
      <4>. QED  BY <4>1, <4>3, <1>1, <1>2, <1>3, <3>2, <3>5
    <3>. QED  BY <3>6, <3>7, <3>8
  <2>. QED  BY <2>1, <2>2
<1>. QED  BY <1>1, <1>5, <1>6, <1>7, <1>8 DEF BestSoFar

LEMMA SkipKeepsBest ==
  ASSUME PickInv, SkipPdo, steady
  PROVE  BestSoFar'
<1>. DEFINE k == i
<1>1. k \in 1..Len(caps) /\ k \in Nat /\ i' = k + 1 /\ caps' = caps /\ ~Idle /\ picked' = picked
  BY CapsFit DEF PickInv, SkipPdo
<1>2. caps[k] \in Pdo /\ Power(caps[k]) \in Nat
  BY <1>1, CapIsPdo, PowerIsNat DEF PickInv
<1>3. BestSoFar  BY <1>1 DEF PickInv
<1>4. \A j : Suits(caps[j])' <=> Suits(caps[j])
  BY DEF SkipPdo, Suits
<1>5. Ascending' <=> Ascending
  BY DEF SkipPdo, Ascending
<1>6. picked.voltage \in Nat /\ picked.max_power \in Nat /\ picked.pdo_num \in Nat
  BY DEF PickInv, PickTypeOK
<1>7. ASSUME picked.pdo_num = 0 PROVE ~Suits(caps[k])
  <2>1. picked.voltage = 0 /\ picked.max_power = 0
    BY <1>7 DEF PickInv, PickedKnown, NoPdo
  <2>2. SUFFICES ASSUME Suits(caps[k]) PROVE FALSE  OBVIOUS
  <2>3. caps[k].voltage > picked.voltage
    BY <2>1, <2>2, <1>2 DEF Suits, Pdo, PickInv, PickTypeOK
  <2>4. Better(caps[k])  BY <2>1, <2>3 DEF Better
  <2>. QED  BY <2>2, <2>4 DEF SkipPdo
<1>8. ASSUME NEW j \in 1..k, Suits(caps[j]), caps[j].voltage >= 9
      PROVE  /\ picked.voltage >= 9
             /\ Ascending =>
                  /\ caps[j].voltage > picked.voltage
                       => Power(caps[j]) < picked.max_power - 10
                  /\ Power(caps[j]) <= picked.max_power + 10 * k
  <2>1. CASE j = k
    <3>1. ~Better(caps[k])  BY <2>1, <1>8 DEF SkipPdo
    <3>2. picked.voltage >= 9  BY <3>1, <2>1, <1>8, <1>2, <1>6 DEF Better, Pdo
    <3>3. picked.pdo_num # 0  BY <3>2 DEF PickInv, PickedKnown, NoPdo
    <3>4. /\ picked.pdo_num \in 1..(k - 1) /\ picked.pdo_num \in 1..Len(caps)
          /\ caps[picked.pdo_num].voltage = picked.voltage
      BY <3>3, <1>1, <1>6 DEF PickInv, PickWithinLimits
    <3>5. CASE caps[k].voltage > picked.voltage
      <4>1. ~(Power(caps[k]) >= picked.max_power - 10)
        BY <3>1, <3>5 DEF Better, Power
      <4>. QED  BY <4>1, <3>2, <2>1, <1>1, <1>2, <1>6
    <3>6. CASE ~(caps[k].voltage > picked.voltage)
      <4>1. ~Ascending
        BY <3>4, <3>6, <1>1, <1>2, <1>6, <1>8, <2>1 DEF Ascending, Pdo
      <4>. QED  BY <4>1, <3>2
    <3>. QED  BY <3>5, <3>6
  <2>2. CASE j # k
    <3>1. j \in 1..(k - 1) /\ j \in 1..Len(caps)  BY <2>2, <1>1
    <3>2. Power(caps[j]) \in Nat
      BY <3>1, CapIsPdo, PowerIsNat DEF PickInv
    <3>3. /\ picked.voltage >= 9
          /\ Ascending =>
               /\ caps[j].voltage > picked.voltage
                    => Power(caps[j]) < picked.max_power - 10
               /\ Power(caps[j]) <= picked.max_power + 10 * (k - 1)
      BY <3>1, <1>3, <1>8 DEF BestSoFar
    <3>. QED  BY <3>2, <3>3, <1>1, <1>6
  <2>. QED  BY <2>1, <2>2
<1>9. ASSUME picked.pdo_num = 0, NEW j \in 1..k PROVE ~Suits(caps[j])
  <2>1. CASE j = k  BY <2>1, <1>7, <1>9
  <2>2. CASE j # k  BY <2>2, <1>9, <1>3, <1>1 DEF BestSoFar
  <2>. QED  BY <2>1, <2>2
<1>. QED  BY <1>1, <1>4, <1>5, <1>8, <1>9 DEF BestSoFar

-----------------------------------------------------------------------------
(* The invariant, action by action.                                        *)

LEMMA InitPick == PickInit => PickInv
<1>. SUFFICES ASSUME PickInit PROVE PickInv  OBVIOUS
<1>1. PickTypeOK
  BY DEF PickInit, PickTypeOK, NoPdo
<1>2. Idle /\ picked.pdo_num = 0  BY DEF PickInit, Idle, NoPdo
<1>. QED  BY <1>1, <1>2 DEF PickInit, PickInv, PickWithinLimits, PickedKnown

LEMMA SourceCapsKeeps ==
  ASSUME PickInv, NEW c \in CapLists, SourceCaps(c)
  PROVE  PickInv'
<1>1. c \in Seq(Pdo) /\ Len(c) \in 1..7  BY CapListsAssumption
<1>2. picked' = NoPdo /\ i' = 1 /\ caps' = c /\ steady' = steady
  BY DEF PickInv, PickedKnown, SourceCaps
<1>3. c # <<>>  BY <1>1
<1>4. PickTypeOK'
  BY <1>1, <1>2, <1>3 DEF PickInv, PickTypeOK, SourceCaps
<1>5. picked'.pdo_num = 0  BY <1>2 DEF NoPdo
<1>6. BestSoFar'  BY <1>2 DEF BestSoFar
<1>. QED  BY <1>2, <1>4, <1>5, <1>6 DEF PickInv, PickWithinLimits, PickedKnown

LEMMA TakeKeeps ==
  ASSUME PickInv, TakePdo
  PROVE  PickInv'
<1>1. /\ i \in 1..Len(caps) /\ i \in Nat /\ i' = i + 1 /\ caps' = caps
      /\ ~Idle /\ ~Idle' /\ caps[i] \in Pdo /\ Power(caps[i]) \in Nat
  BY CapsFit, CapIsPdo, PowerIsNat DEF PickInv, TakePdo, Idle
<1>2. picked' = [pdo_num |-> i, voltage |-> caps[i].voltage,
                 max_current |-> caps[i].current, max_power |-> Power(caps[i])]
  BY DEF TakePdo, Power
<1>3. Suits(caps[i])  BY DEF TakePdo
<1>4. PickTypeOK'
  BY <1>1, <1>2 DEF PickInv, PickTypeOK, TakePdo, Pdo
<1>5. PickWithinLimits'
  <2>1. picked'.voltage <= 20 /\ picked'.max_current >= 10
    BY <1>1, <1>2, <1>3 DEF Suits, Pdo, PickInv, PickTypeOK
  <2>2. picked'.pdo_num < i' /\ caps'[picked'.pdo_num]
          = [voltage |-> picked'.voltage, current |-> picked'.max_current]
    BY <1>1, <1>2 DEF Pdo
  <2>. QED  BY <2>1, <2>2 DEF PickWithinLimits
<1>6. PickedKnown'
  <2>1. picked'.pdo_num = i /\ i # 0  BY <1>1, <1>2
  <2>2. picked'.max_power = Power(caps'[picked'.pdo_num])
    BY <1>1, <1>2
  <2>3. Suits(caps[picked.pdo_num])'
    BY <1>1, <2>1, <1>3 DEF Suits, TakePdo
  <2>. QED  BY <1>1, <2>1, <2>2, <2>3 DEF PickedKnown, Power
<1>7. steady' => BestSoFar'
  BY TakeKeepsBest DEF TakePdo
<1>. QED  BY <1>4, <1>5, <1>6, <1>7 DEF PickInv

LEMMA SkipKeeps ==
  ASSUME PickInv, SkipPdo
  PROVE  PickInv'
<1>1. /\ i \in 1..Len(caps) /\ i \in Nat /\ i' = i + 1 /\ ~Idle /\ ~Idle'
  BY CapsFit DEF PickInv, SkipPdo, Idle
<1>2. /\ caps' = caps /\ picked' = picked /\ max_voltage_requested' = max_voltage_requested
      /\ steady' = steady /\ requested_current' = requested_current
  BY DEF SkipPdo
<1>3. PickTypeOK'
  BY <1>1, <1>2, CapsFit DEF PickInv, PickTypeOK
<1>4. PickWithinLimits'
  BY <1>1, <1>2 DEF PickInv, PickWithinLimits, PickTypeOK
<1>5. PickedKnown'
  BY <1>1, <1>2 DEF PickInv, PickedKnown, Power, Suits
<1>6. steady' => BestSoFar'
  BY SkipKeepsBest, <1>2
<1>. QED  BY <1>3, <1>4, <1>5, <1>6 DEF PickInv

LEMMA RequestKeeps ==
  ASSUME PickInv, Request
  PROVE  PickInv'
<1>1. Clamp(picked.max_current) \in 10..300
  <2>1. picked.max_current \in Nat  BY DEF PickInv, PickTypeOK
  <2>. QED  BY <2>1 DEF Clamp
<1>2. picked' = NoPdo /\ Idle'  BY DEF Request, Idle
<1>3. PickTypeOK'
  BY <1>1 DEF PickInv, PickTypeOK, Request, NoPdo
<1>4. picked'.pdo_num = 0  BY <1>2 DEF NoPdo
<1>. QED  BY <1>2, <1>3, <1>4 DEF PickInv, PickWithinLimits, PickedKnown

LEMMA MaxVoltageKeeps ==
  ASSUME PickInv, NEW v \in MaxVoltages, MaxVoltage(v)
  PROVE  PickInv'
<1>1. /\ caps' = caps /\ i' = i /\ picked' = picked /\ steady' = Idle
      /\ requested_current' = requested_current
  BY DEF MaxVoltage
<1>2. max_voltage_requested' \in 5..20
  BY DEF MaxVoltage, PickInv, PickTypeOK
<1>3. PickTypeOK'
  <2>1. steady' \in BOOLEAN  BY Zenon, <1>1 DEF Idle
  <2>. QED  BY <2>1, <1>1, <1>2 DEF PickInv, PickTypeOK
<1>4. Idle' <=> Idle  BY <1>1 DEF Idle
<1>5. PickWithinLimits'  BY <1>1, <1>4 DEF PickInv, PickWithinLimits
<1>6. steady' => picked' = NoPdo /\ picked'.pdo_num = 0
  BY <1>1 DEF PickInv, PickedKnown, NoPdo
<1>7. PickedKnown'
  BY <1>1, <1>4, <1>6 DEF PickInv, PickedKnown, Power
<1>8. steady' => Idle'  BY <1>1, <1>4
<1>. QED  BY Zenon, <1>3, <1>5, <1>7, <1>8 DEF PickInv

THEOREM PickSafe == PickSpec => []PickInv
<1>1. PickInit => PickInv  BY InitPick
<1>2. ASSUME PickInv, [PickNext]_pickVars
      PROVE  PickInv'
  <2>1. CASE UNCHANGED pickVars
    BY <1>2, <2>1 DEF pickVars, PickInv, PickTypeOK, PickWithinLimits, PickedKnown,
      BestSoFar, Idle, Suits, Power, Ascending
  <2>2. CASE \E c \in CapLists : SourceCaps(c)
    BY <1>2, <2>2, SourceCapsKeeps
  <2>3. CASE TakePdo  BY <1>2, <2>3, TakeKeeps
  <2>4. CASE SkipPdo  BY <1>2, <2>4, SkipKeeps
  <2>5. CASE Request  BY <1>2, <2>5, RequestKeeps
  <2>6. CASE \E v \in MaxVoltages : MaxVoltage(v)
    BY <1>2, <2>6, MaxVoltageKeeps
  <2>. QED  BY <1>2, <2>1, <2>2, <2>3, <2>4, <2>5, <2>6 DEF PickNext
<1>. QED  BY <1>1, <1>2, PTL DEF PickSpec

(* The limit of the charger's input is kept for any pdvolt command at any  *)
(* moment of any selection. (pd_com.c, pick_pdo and pd_set_max_voltage_req)*)
THEOREM PickLimits == PickSpec => []PickWithinLimits
<1>1. PickInv => PickWithinLimits  BY DEF PickInv
<1>. QED  BY <1>1, PickSafe, PTL

(* The object picked is the best one in the sense of PickIsBest, for every *)
(* list of objects. (pd_com.c, pick_pdo)                                   *)
THEOREM PickBest == PickSpec => []PickIsBest
<1>1. PickInv => PickIsBest  BY DEF PickInv, PickIsBest
<1>. QED  BY <1>1, PickSafe, PTL

-----------------------------------------------------------------------------
(* The charger's model.                                                    *)

LEMMA StatementKeepsPick ==
  ASSUME Statement PROVE UNCHANGED pickVars
<1>1. ASSUME NEW g \in Groups, WriteSucceeds(g) \/ WriteFails(g)
      PROVE  UNCHANGED pickVars
  BY <1>1 DEF WriteSucceeds, WriteFails, kept
<1>2. CASE derive_emergency_charge_necessary
  BY <1>2 DEF derive_emergency_charge_necessary, kept
<1>3. CASE Assign  BY <1>3 DEF Assign, kept
<1>4. CASE StaleWrite  BY <1>4 DEF StaleWrite, kept
<1>5. CASE ReadConfig \/ ReadLimits
  BY <1>5 DEF ReadConfig, ReadLimits, kept
<1>6. CASE ReadStatus \/ ReadFails
  BY <1>6 DEF ReadStatus, ReadFails, kept
<1>. QED  BY Zenon, <1>1, <1>2, <1>3, <1>4, <1>5, <1>6 DEF Statement

LEMMA NextIsPickStep == Next => [PickNext]_pickVars
<1>. SUFFICES ASSUME Next PROVE [PickNext]_pickVars  OBVIOUS
<1>1. CASE Statement  BY <1>1, StatementKeepsPick
<1>2. CASE NoCall  BY <1>2 DEF NoCall
<1>3. CASE PdSetup  BY <1>3 DEF PdSetup
<1>4. CASE Offer  BY <1>4 DEF Offer, PickNext
<1>5. CASE Pick  BY <1>5 DEF Pick, PickNext
<1>6. CASE Ask  BY <1>6 DEF Ask, PickNext
<1>7. CASE PsReady  BY <1>7 DEF PsReady
<1>8. CASE SessionEnds  BY <1>8 DEF SessionEnds
<1>9. CASE Pdvolt  BY <1>9 DEF Pdvolt, PickNext
<1>10. CASE SetGpio6  BY <1>10 DEF SetGpio6
<1>11. CASE ChipWatchdog  BY <1>11 DEF ChipWatchdog, kept
<1>. QED  BY Zenon, <1>1, <1>2, <1>3, <1>4, <1>5, <1>6, <1>7, <1>8, <1>9, <1>10, <1>11 DEF Next

(* The charger's main loop and its interrupts implement the choice of      *)
(* PickPdo. (sysctl.c and pd_com.c)                                        *)
THEOREM ChargerPicks == Spec => PickSpec
<1>1. Init => PickInit  BY DEF Init
<1>2. [Next]_vars => [PickNext]_pickVars
  BY NextIsPickStep DEF vars
<1>. QED  BY <1>1, <1>2, PTL DEF Spec, PickSpec

(* So, whatever the source offers and whenever pdvolt comes, the object    *)
(* requested is within the limits of the charger's input, and the best.    *)
(* (pd_com.c, pick_pdo)                                                    *)
THEOREM ChargerPicksWell == Spec => [](PickWithinLimits /\ PickIsBest)
BY ChargerPicks, PickLimits, PickBest, PTL
-----------------------------------------------------------------------------
(* The statements that are left.                                           *)

Stmt == StatementNames \X Nat

Pending(name, s) == \E x \in Range(s) : x[1] = name

(* Nothing in s sets chg_en, and what reads it back is not there either.   *)
Uncharging(s) == \A x \in Range(s) :
  x # <<"chg_en", 1>> /\ x[1] \notin {"chg_en_by_emergency", "read_config", "write_stale"}

ToldToStop(s) == s # <<>> /\ Head(s) = <<"chg_en", 0>>

(* The limits are read back after they were written, never before.         *)
ReadsLast(s) == \A j, k \in 1..Len(s) :
  s[j][1] = "read_limits" /\ s[k][1] = "write_limits" => k < j

LEMMA Next1 ==
  ASSUME NEW s \in Seq(Stmt), s # <<>>
  PROVE  /\ Head(s) \in Stmt /\ Tail(s) \in Seq(Stmt)
         /\ Range(s) = {Head(s)} \cup Range(Tail(s))
<1>1. Head(s) = s[1] /\ Head(s) \in Stmt /\ Tail(s) \in Seq(Stmt) /\ Len(s) \in Nat \ {0}
  BY EmptySeq, HeadTailProperties
<1>2. Len(Tail(s)) = Len(s) - 1 /\ \A j \in 1..Len(Tail(s)) : Tail(s)[j] = s[j + 1]
  BY HeadTailProperties
<1>3. Range(s) = {s[j] : j \in 1..Len(s)}  BY RangeEquality
<1>4. Range(Tail(s)) = {Tail(s)[j] : j \in 1..Len(Tail(s))}  BY <1>1, RangeEquality
<1>5. ASSUME NEW x \in Range(s) PROVE x = Head(s) \/ x \in Range(Tail(s))
  <2>1. PICK j \in 1..Len(s) : x = s[j]  BY <1>3
  <2>2. CASE j = 1  BY <1>1, <2>1, <2>2
  <2>3. CASE j # 1
    <3>1. j - 1 \in 1..Len(Tail(s)) /\ (j - 1) + 1 = j  BY <1>1, <1>2, <2>3
    <3>. QED  BY <1>2, <1>4, <2>1, <3>1
  <2>. QED  BY <2>2, <2>3
<1>6. ASSUME NEW x \in Range(Tail(s)) PROVE x \in Range(s)
  <2>1. PICK j \in 1..Len(Tail(s)) : x = Tail(s)[j]  BY <1>4
  <2>2. j + 1 \in 1..Len(s)  BY <1>1, <1>2
  <2>. QED  BY <1>2, <1>3, <2>1, <2>2
<1>7. Head(s) \in Range(s)  BY <1>1, <1>3
<1>. QED  BY <1>1, <1>5, <1>6, <1>7

LEMMA ReadsLastTail ==
  ASSUME NEW s \in Seq(Stmt), s # <<>>, ReadsLast(s)
  PROVE  /\ ReadsLast(Tail(s))
         /\ Head(s)[1] = "read_limits" => ~Pending("write_limits", Tail(s))
<1>1. Head(s) = s[1] /\ Tail(s) \in Seq(Stmt) /\ Len(s) \in Nat \ {0}
  BY EmptySeq, HeadTailProperties
<1>2. Len(Tail(s)) = Len(s) - 1 /\ \A j \in 1..Len(Tail(s)) : Tail(s)[j] = s[j + 1]
  BY HeadTailProperties
<1>3. Range(Tail(s)) = {Tail(s)[j] : j \in 1..Len(Tail(s))}  BY <1>1, RangeEquality
<1>4. ASSUME NEW j \in 1..Len(Tail(s)), NEW k \in 1..Len(Tail(s)),
             Tail(s)[j][1] = "read_limits", Tail(s)[k][1] = "write_limits"
      PROVE  k < j
  <2>1. j + 1 \in 1..Len(s) /\ k + 1 \in 1..Len(s)  BY <1>1, <1>2
  <2>2. k + 1 < j + 1  BY <1>2, <1>4, <2>1 DEF ReadsLast
  <2>. QED  BY <1>1, <1>2, <2>2
<1>5. ASSUME s[1][1] = "read_limits", NEW k \in 1..Len(Tail(s)), Tail(s)[k][1] = "write_limits"
      PROVE  FALSE
  <2>1. 1 \in 1..Len(s) /\ k + 1 \in 1..Len(s)  BY <1>1, <1>2
  <2>2. k + 1 < 1  BY <1>2, <1>5, <2>1 DEF ReadsLast
  <2>. QED  BY <1>1, <1>2, <2>2
<1>. QED  BY <1>1, <1>3, <1>4, <1>5 DEF ReadsLast, Pending

LEMMA ReadsLastJoined ==
  ASSUME NEW s \in Seq(Stmt), NEW t \in Seq(Stmt), NEW u \in Seq(Stmt),
         Len(u) = Len(s) + Len(t),
         \A n \in 1..Len(s) : u[n] = s[n],
         \A n \in 1..Len(t) : u[Len(s) + n] = t[n],
         ReadsLast(s), ~Pending("write_limits", t)
  PROVE  ReadsLast(u)
<1>. SUFFICES ASSUME NEW j \in 1..Len(u), NEW k \in 1..Len(u),
                     u[j][1] = "read_limits", u[k][1] = "write_limits"
              PROVE  k < j
  BY DEF ReadsLast
<1>1. Len(s) \in Nat /\ Len(t) \in Nat /\ j \in Nat /\ k \in Nat /\ 1 <= j /\ 1 <= k
      /\ j <= Len(s) + Len(t) /\ k <= Len(s) + Len(t)
  BY LenProperties
<1>2. k <= Len(s)
  <2>. SUFFICES ASSUME k > Len(s) PROVE FALSE  BY <1>1
  <2>1. k - Len(s) \in 1..Len(t) /\ Len(s) + (k - Len(s)) = k  BY <1>1
  <2>2. t[k - Len(s)] \in Range(t)  BY <2>1, RangeEquality
  <2>. QED  BY <2>1, <2>2 DEF Pending
<1>3. u[k] = s[k] /\ k \in 1..Len(s)  BY <1>1, <1>2
<1>4. CASE j <= Len(s)
  <2>1. u[j] = s[j] /\ j \in 1..Len(s)  BY <1>1, <1>4
  <2>. QED  BY <1>3, <2>1 DEF ReadsLast
<1>5. CASE j > Len(s)  BY <1>1, <1>2, <1>5
<1>. QED  BY <1>1, <1>4, <1>5

LEMMA JoinedStmts ==
  ASSUME NEW s \in Seq(Stmt), NEW t \in Seq(Stmt)
  PROVE  /\ s \o t \in Seq(Stmt)
         /\ Range(s \o t) = Range(s) \cup Range(t)
         /\ s = <<>> => s \o t = t
         /\ s # <<>> => s \o t # <<>> /\ Head(s \o t) = Head(s)
         /\ ReadsLast(s) /\ ~Pending("write_limits", t) => ReadsLast(s \o t)
<1>1. /\ s \o t \in Seq(Stmt) /\ Len(s) \in Nat /\ Len(t) \in Nat
      /\ Len(s \o t) = Len(s) + Len(t)
      /\ \A j \in 1..Len(s) + Len(t) : (s \o t)[j] = IF j <= Len(s) THEN s[j] ELSE t[j - Len(s)]
  BY ConcatProperties
<1>2. Range(s \o t) = Range(s) \cup Range(t)  BY RangeConcatenation
<1>3. s = <<>> => s \o t = t  BY ConcatEmptySeq
<1>4. ASSUME s # <<>> PROVE s \o t # <<>> /\ Head(s \o t) = Head(s)
  <2>1. Len(s) \in Nat \ {0}  BY <1>4, EmptySeq
  <2>2. Len(s \o t) # 0 /\ (s \o t)[1] = s[1]  BY <1>1, <2>1
  <2>3. s \o t # <<>>  BY <2>2
  <2>. QED  BY <1>1, <1>4, <2>2, <2>3, HeadTailProperties
<1>5. ReadsLast(s) /\ ~Pending("write_limits", t) => ReadsLast(s \o t)
  <2>1. \A n \in 1..Len(s) : (s \o t)[n] = s[n]  BY <1>1
  <2>2. \A n \in 1..Len(t) : (s \o t)[Len(s) + n] = t[n]  BY <1>1
  <2>. QED  BY ONLY <1>1, <2>1, <2>2, ReadsLastJoined, s \in Seq(Stmt), t \in Seq(Stmt)
<1>. QED  BY <1>1, <1>2, <1>3, <1>4, <1>5

LEMMA One ==
  ASSUME NEW S, NEW a \in S
  PROVE  <<a>> \in Seq(S) /\ Range(<<a>>) = {a}
BY DEF Range

LEMMA Two ==
  ASSUME NEW S, NEW a \in S, NEW b \in S
  PROVE  /\ <<a, b>> \in Seq(S) /\ Range(<<a, b>>) = {a, b}
         /\ Head(<<a, b>>) = a /\ <<a, b>> # <<>>
BY DEF Range

LEMMA Three ==
  ASSUME NEW S, NEW a \in S, NEW b \in S, NEW c \in S
  PROVE  /\ <<a, b, c>> \in Seq(S) /\ Range(<<a, b, c>>) = {a, b, c}
         /\ Head(<<a, b, c>>) = a /\ <<a, b, c>> # <<>>
<1>1. Range(<<a, b, c>>) = {a, b, c}  BY DEF Range
<1>. QED  BY <1>1

-----------------------------------------------------------------------------
(* What the functions and the iterations of the main loop leave to be done.*)

LEMMA WriteLimitsStmts ==
  ASSUME NEW l \in 0..255
  PROVE  /\ WriteLimits(l) \in Seq(Stmt) /\ WriteLimits(l) # <<>>
         /\ Head(WriteLimits(l)) = <<"limit", l>>
         /\ Range(WriteLimits(l)) = {<<"limit", l>>, <<"write_limits", 0>>, <<"read_limits", 0>>}
         /\ ReadsLast(WriteLimits(l))
<1>. DEFINE set == <<"limit", l>>  write == <<"write_limits", 0>>  read == <<"read_limits", 0>>
<1>1. set \in Stmt /\ write \in Stmt /\ read \in Stmt  BY DEF Stmt, StatementNames
<1>2. WriteLimits(l) = <<set, write, read>>  BY DEF WriteLimits
<1>3. ReadsLast(WriteLimits(l))  BY DEF WriteLimits, ReadsLast
<1>. HIDE DEF set, write, read
<1>4. <<set, write, read>> \in Seq(Stmt) /\ Range(<<set, write, read>>) = {set, write, read}
  BY ONLY <1>1, Three, Zenon
<1>5. <<set, write, read>> # <<>> /\ Head(<<set, write, read>>) = set
  OBVIOUS
<1>. QED  BY ONLY <1>2, <1>3, <1>4, <1>5 DEF set, write, read

Tick == {<<"derive", 0>>, <<"wtd_rst", 0>>, <<"write_config0", 0>>}

LEMMA TickStmts == charger_tick \in Seq(Stmt) /\ Range(charger_tick) = Tick
<1>. DEFINE derive == <<"derive", 0>>  feed == <<"wtd_rst", 0>>  write == <<"write_config0", 0>>
<1>1. derive \in Stmt /\ feed \in Stmt /\ write \in Stmt  BY DEF Stmt, StatementNames
<1>2. charger_tick = <<derive, feed, write>> /\ Tick = {derive, feed, write}
  BY DEF charger_tick, Tick
<1>. HIDE DEF derive, feed, write
<1>3. <<derive, feed, write>> \in Seq(Stmt) /\ Range(<<derive, feed, write>>) = {derive, feed, write}
  BY ONLY <1>1, Three, Zenon
<1>. QED  BY ONLY <1>2, <1>3

LEMMA ChgEnStmts ==
  ASSUME NEW k \in Nat
  PROVE  /\ << <<"chg_en", k>>, <<"write_config0", 0>> >> \in Seq(Stmt)
         /\ << <<"chg_en", k>>, <<"write_config0", 0>> >> # <<>>
         /\ Head(<< <<"chg_en", k>>, <<"write_config0", 0>> >>) = <<"chg_en", k>>
         /\ Range(<< <<"chg_en", k>>, <<"write_config0", 0>> >>)
              = {<<"chg_en", k>>, <<"write_config0", 0>>}
<1>. DEFINE set == <<"chg_en", k>>  write == <<"write_config0", 0>>
<1>1. set \in Stmt /\ write \in Stmt  BY DEF Stmt, StatementNames
<1>. HIDE DEF set, write
<1>2. <<set, write>> \in Seq(Stmt) /\ <<set, write>> # <<>> /\ Head(<<set, write>>) = set
      /\ Range(<<set, write>>) = {set, write}
  BY ONLY <1>1, Two, Zenon
<1>. QED  BY <1>2 DEF set, write

LEMMA OneLimit ==
  ASSUME NEW l, NEW k, NEW R,
         R \subseteq {<<"limit", l>>, <<"write_limits", 0>>, <<"read_limits", 0>>,
                      <<"chg_en", k>>, <<"write_config0", 0>>}
  PROVE  \A x \in R : x[1] = "limit" => x[2] = l
<1>. SUFFICES ASSUME NEW x \in R, x[1] = "limit" PROVE x[2] = l  OBVIOUS
<1>1. \/ x = <<"limit", l>> \/ x = <<"write_limits", 0>> \/ x = <<"read_limits", 0>>
      \/ x = <<"chg_en", k>> \/ x = <<"write_config0", 0>>
  BY Zenon
<1>2. x = <<"limit", l>>  BY <1>1
<1>. QED  BY ONLY <1>2

LEMMA EnableStmts ==
  ASSUME NEW c \in 0..300
  PROVE  /\ charger_enable_charge(c) \in Seq(Stmt)
         /\ charger_enable_charge(c) # <<>>
         /\ Head(charger_enable_charge(c)) = <<"limit", c \div 5>>
         /\ c \div 5 \in 0..60 /\ (c \div 5) * 5 <= c
         /\ Range(charger_enable_charge(c)) =
              {<<"limit", c \div 5>>, <<"write_limits", 0>>, <<"read_limits", 0>>,
               <<"chg_en", 1>>, <<"write_config0", 0>>}
         /\ \A x \in Range(charger_enable_charge(c)) : x[1] = "limit" => x[2] = c \div 5
         /\ ReadsLast(charger_enable_charge(c))
<1>. DEFINE l == c \div 5
            on == << <<"chg_en", 1>>, <<"write_config0", 0>> >>
<1>1. l \in 0..60 /\ l * 5 <= c  OBVIOUS
<1>2. on \in Seq(Stmt) /\ Range(on) = {<<"chg_en", 1>>, <<"write_config0", 0>>}
  BY ChgEnStmts
<1>3. Range(on) = {<<"chg_en", 1>>, <<"write_config0", 0>>}  BY <1>2
<1>4. ~Pending("write_limits", on)  BY <1>3 DEF Pending
<1>5. charger_enable_charge(c) = WriteLimits(l) \o on  BY DEF charger_enable_charge
<1>6. l \in 0..255  BY <1>1
<1>. HIDE DEF l, on
<1>7. /\ charger_enable_charge(c) \in Seq(Stmt)
      /\ charger_enable_charge(c) # <<>>
      /\ Head(charger_enable_charge(c)) = <<"limit", l>>
      /\ Range(charger_enable_charge(c)) =
           {<<"limit", l>>, <<"write_limits", 0>>, <<"read_limits", 0>>,
            <<"chg_en", 1>>, <<"write_config0", 0>>}
      /\ ReadsLast(charger_enable_charge(c))
  <2>1. /\ WriteLimits(l) \in Seq(Stmt) /\ WriteLimits(l) # <<>>
        /\ Head(WriteLimits(l)) = <<"limit", l>>
        /\ Range(WriteLimits(l)) = {<<"limit", l>>, <<"write_limits", 0>>, <<"read_limits", 0>>}
        /\ ReadsLast(WriteLimits(l))
    BY ONLY <1>6, WriteLimitsStmts
  <2>. QED  BY ONLY <1>2, <1>3, <1>4, <1>5, <2>1, JoinedStmts, Zenon
<1>8. \A x \in Range(charger_enable_charge(c)) : x[1] = "limit" => x[2] = l
  BY ONLY <1>7, OneLimit, Zenon
<1>. QED  BY <1>1, <1>7, <1>8 DEF l

LEMMA DisableStmts ==
  /\ charger_disable_charge \in Seq(Stmt)
  /\ ToldToStop(charger_disable_charge)
  /\ Range(charger_disable_charge) =
       {<<"chg_en", 0>>, <<"write_config0", 0>>,
        <<"limit", DefaultLimit>>, <<"write_limits", 0>>, <<"read_limits", 0>>}
  /\ \A x \in Range(charger_disable_charge) : x[1] = "limit" => x[2] = DefaultLimit
<1>. DEFINE off == << <<"chg_en", 0>>, <<"write_config0", 0>> >>
<1>1. off \in Seq(Stmt) /\ Head(off) = <<"chg_en", 0>> /\ off # <<>>  BY ChgEnStmts
<1>2. Range(off) = {<<"chg_en", 0>>, <<"write_config0", 0>>}  BY ChgEnStmts
<1>3. charger_disable_charge = off \o WriteLimits(DefaultLimit)  BY DEF charger_disable_charge
<1>4. DefaultLimit \in 0..255  BY DEF DefaultLimit
<1>. HIDE DEF off
<1>5. /\ WriteLimits(DefaultLimit) \in Seq(Stmt)
      /\ Range(WriteLimits(DefaultLimit)) =
           {<<"limit", DefaultLimit>>, <<"write_limits", 0>>, <<"read_limits", 0>>}
  BY ONLY <1>4, WriteLimitsStmts
<1>6. /\ off \o WriteLimits(DefaultLimit) \in Seq(Stmt)
      /\ Range(off \o WriteLimits(DefaultLimit)) = Range(off) \cup Range(WriteLimits(DefaultLimit))
      /\ off \o WriteLimits(DefaultLimit) # <<>> /\ Head(off \o WriteLimits(DefaultLimit)) = Head(off)
  BY ONLY <1>1, <1>5, JoinedStmts, Zenon
<1>7. Range(charger_disable_charge) = Range(off) \cup Range(WriteLimits(DefaultLimit))
  BY ONLY <1>3, <1>6
<1>8. Range(charger_disable_charge) =
        {<<"chg_en", 0>>, <<"write_config0", 0>>,
         <<"limit", DefaultLimit>>, <<"write_limits", 0>>, <<"read_limits", 0>>}
  BY ONLY <1>2, <1>5, <1>7, Zenon
<1>9. \A x \in Range(charger_disable_charge) : x[1] = "limit" => x[2] = DefaultLimit
  <2>1. Range(charger_disable_charge) \subseteq
          {<<"limit", DefaultLimit>>, <<"write_limits", 0>>, <<"read_limits", 0>>,
           <<"chg_en", 0>>, <<"write_config0", 0>>}
    BY ONLY <1>8, Zenon
  <2>. QED  BY ONLY <2>1, OneLimit, Zenon
<1>. QED  BY ONLY <1>1, <1>3, <1>6, <1>8, <1>9, Zenon DEF ToldToStop

LEMMA InitStmts ==
  /\ charger_init \in Seq(Stmt)
  /\ \A x \in Range(charger_init) : x[1] = "limit" => x[2] \in 0..255
<1>. DEFINE first ==
       << <<"read_status", 0>>, <<"derive", 0>>, <<"reg_rst", 0>>, <<"write_config0", 0>>,
          <<"read_config", 0>>, <<"chg_en_by_emergency", 0>>, <<"write_config0", 0>>,
          <<"read_limits", 0>>, <<"read_status", 0>> >>
<1>1. first \in Seq(Stmt)
  <2>. DEFINE status == <<"read_status", 0>>  derive == <<"derive", 0>>  rst == <<"reg_rst", 0>>
              write == <<"write_config0", 0>>  config == <<"read_config", 0>>
              chg_en == <<"chg_en_by_emergency", 0>>  limits == <<"read_limits", 0>>
  <2>1. {status, derive, rst, write, config, chg_en, limits} \subseteq Stmt  BY DEF Stmt, StatementNames
  <2>2. first = <<status, derive, rst, write, config, chg_en, write, limits, status>>  OBVIOUS
  <2>. HIDE DEF status, derive, rst, write, config, chg_en, limits, first
  <2>3. <<status, derive, rst, write, config, chg_en, write, limits, status>> \in Seq(Stmt)
    BY ONLY <2>1
  <2>. QED  BY <2>2, <2>3
<1>2. \A x \in Range(first) : x[1] # "limit"
  <2>1. \A j \in 1..9 : first[j][1] # "limit"
    <3>. SUFFICES ASSUME NEW j \in 1..9 PROVE first[j][1] # "limit"  OBVIOUS
    <3>1. j \in {1, 2, 3, 4, 5, 6, 7, 8, 9}  OBVIOUS
    <3>. QED  BY <3>1
  <2>2. Range(first) = {first[j] : j \in 1..9}  BY RangeEquality, <1>1
  <2>. QED  BY <2>1, <2>2
<1>3. charger_init = first \o WriteLimits(DefaultLimit) \o charger_tick  BY DEF charger_init
<1>4. DefaultLimit \in 0..255  BY DEF DefaultLimit
<1>. HIDE DEF first
<1>5. /\ WriteLimits(DefaultLimit) \in Seq(Stmt)
      /\ Range(WriteLimits(DefaultLimit)) =
           {<<"limit", DefaultLimit>>, <<"write_limits", 0>>, <<"read_limits", 0>>}
  BY ONLY <1>4, WriteLimitsStmts
<1>6. /\ first \o WriteLimits(DefaultLimit) \in Seq(Stmt)
      /\ Range(first \o WriteLimits(DefaultLimit)) = Range(first) \cup Range(WriteLimits(DefaultLimit))
  BY ONLY <1>1, <1>5, JoinedStmts
<1>7. /\ charger_init \in Seq(Stmt)
      /\ Range(charger_init) = Range(first) \cup Range(WriteLimits(DefaultLimit)) \cup Range(charger_tick)
  BY ONLY <1>3, <1>6, TickStmts, JoinedStmts
<1>8. ASSUME NEW x \in Range(charger_init), x[1] = "limit" PROVE x[2] \in 0..255
  <2>1. x \notin Range(first)  BY <1>2, <1>8
  <2>2. x \in Range(WriteLimits(DefaultLimit)) \/ x \in Tick
    BY ONLY <1>7, <1>8, <2>1, TickStmts, Zenon
  <2>3. x \notin Tick /\ x # <<"write_limits", 0>> /\ x # <<"read_limits", 0>>
    BY ONLY <1>8 DEF Tick
  <2>4. x = <<"limit", DefaultLimit>>  BY ONLY <1>5, <2>2, <2>3, Zenon
  <2>. QED  BY ONLY <1>4, <2>4
<1>. QED  BY <1>7, <1>8

(* What an iteration does after the call is harmless.                      *)
LEMMA Iterated ==
  ASSUME NEW call \in Seq(Stmt), Iterate(call)
  PROVE  /\ todo' \in Seq(Stmt)
         /\ Range(call) \cup Tick \subseteq Range(todo')
         /\ Range(todo') \subseteq Range(call) \cup Tick \cup {<<"read_status", 0>>}
         /\ call # <<>> => todo' # <<>> /\ Head(todo') = Head(call)
         /\ ReadsLast(call) => ReadsLast(todo')
<1>1. PICK rest \in {<<>>, << <<"read_status", 0>> >>} : todo' = call \o charger_tick \o rest
  BY DEF Iterate
<1>2. rest \in Seq(Stmt) /\ Range(rest) \subseteq {<<"read_status", 0>>}
  <2>1. CASE rest = <<>>  BY <2>1 DEF Range
  <2>3. <<"read_status", 0>> \in Stmt  BY DEF Stmt, StatementNames
  <2>2. CASE rest = << <<"read_status", 0>> >>  BY <2>2, <2>3, One, Zenon
  <2>. QED  BY <2>1, <2>2
<1>3. ~Pending("write_limits", rest) /\ ~Pending("write_limits", charger_tick)
  BY <1>2, TickStmts DEF Pending, Tick
<1>4. /\ call \o charger_tick \in Seq(Stmt)
      /\ Range(call \o charger_tick) = Range(call) \cup Tick
      /\ call # <<>> => call \o charger_tick # <<>> /\ Head(call \o charger_tick) = Head(call)
      /\ ReadsLast(call) => ReadsLast(call \o charger_tick)
  BY ONLY <1>3, TickStmts, JoinedStmts, call \in Seq(Stmt), Zenon
<1>. DEFINE most == call \o charger_tick
<1>. HIDE DEF most
<1>5. /\ most \o rest \in Seq(Stmt)
      /\ Range(most \o rest) = Range(most) \cup Range(rest)
      /\ most # <<>> => most \o rest # <<>> /\ Head(most \o rest) = Head(most)
      /\ ReadsLast(most) => ReadsLast(most \o rest)
  <2>1. most \in Seq(Stmt)  BY <1>4 DEF most
  <2>. QED  BY ONLY <1>2, <1>3, <2>1, JoinedStmts, Zenon
<1>6. todo' = most \o rest  BY <1>1 DEF most
<1>. QED
  <2>1. /\ Range(most) = Range(call) \cup Tick
        /\ call # <<>> => most # <<>> /\ Head(most) = Head(call)
        /\ ReadsLast(call) => ReadsLast(most)
    BY <1>4 DEF most
  <2>. QED  BY ONLY <1>2, <1>5, <1>6, <2>1, Zenon
-----------------------------------------------------------------------------
(* The invariant. Without a contract the firmware has told the MP2650 to   *)
(* stop, and has not told it anything else since.                          *)
Stopped ==
  /\ Uncharging(todo)
  /\ ram.chg_en => ToldToStop(todo)
  /\ chip.chg_en => "config0" \in upset \/ Pending("write_config0", todo)

(* With one, the limit is set before it is written, and written before it  *)
(* is read back.                                                           *)
Limited ==
  /\ ReadsLast(todo)
  /\ \A x \in Range(todo) : x[1] = "limit" => x[2] * 5 <= granted
  /\ Pending("write_limits", todo) => ram.limit * 5 <= granted \/ Head(todo)[1] = "limit"
  /\ "limits" \in upset \/ chip.limit * 5 <= granted \/ Pending("write_limits", todo)

NoContract == session = "attached" /\ granted = 0 => Stopped

(* set-gpio 6 has charging stopped, too.                                   *)
Contract == granted > 0 /\ "command" \notin upset => Stopped \/ Limited

StmtsOK ==
  /\ todo \in Seq(Stmt)
  /\ \A x \in Range(todo) : x[1] = "limit" => x[2] \in 0..255

RegistersOK ==
  /\ ram \in [chg_en: BOOLEAN, reg_rst: BOOLEAN, limit: 0..255]
  /\ chip \in [chg_en: BOOLEAN, limit: 0..255]
  /\ upset \subseteq Groups \cup {"command"}

ModesOK ==
  /\ chg_stat \in Stats /\ emergency \in BOOLEAN
  /\ session \in {"setup", "attached"}
  /\ asked \in BOOLEAN /\ granted \in {0} \cup 10..300
  /\ asked => requested_current # 0

ChargerInv == StmtsOK /\ RegistersOK /\ ModesOK /\ NoContract /\ Contract

LEMMA InitCharger == Init => ChargerInv
<1>. SUFFICES ASSUME Init PROVE ChargerInv  OBVIOUS
<1>1. StmtsOK  BY InitStmts DEF Init, StmtsOK
<1>2. RegistersOK
  BY ResetLimitAssumption DEF Init, RegistersOK, Groups, DefaultLimit
<1>3. ModesOK  BY DEF Init, ModesOK, Stats
<1>4. NoContract /\ Contract  BY DEF Init, NoContract, Contract
<1>. QED  BY <1>1, <1>2, <1>3, <1>4 DEF ChargerInv

(* One statement of those that are left.                                   *)
LEMMA StmtDone ==
  ASSUME StmtsOK, todo # <<>>, Done
  PROVE  /\ StmtsOK' /\ Head(todo) \in Range(todo)
         /\ Range(todo) = {Head(todo)} \cup Range(todo)'
         /\ \A n : Pending(n, todo) <=> Head(todo)[1] = n \/ Pending(n, todo)'
         /\ Uncharging(todo) => Uncharging(todo)'
         /\ ReadsLast(todo) =>
              /\ ReadsLast(todo)'
              /\ Head(todo)[1] = "read_limits" => ~Pending("write_limits", todo)'
<1>1. todo \in Seq(Stmt) /\ todo' = Tail(todo)  BY DEF StmtsOK, Done
<1>2. /\ todo' \in Seq(Stmt)
      /\ Range(todo) = {Head(todo)} \cup Range(todo')
  BY <1>1, Next1
<1>3. StmtsOK'  BY <1>2 DEF StmtsOK
<1>4. \A n : Pending(n, todo) <=> Head(todo)[1] = n \/ Pending(n, todo')
  BY <1>2 DEF Pending
<1>5. Uncharging(todo) => Uncharging(todo')  BY <1>2 DEF Uncharging
<1>6. ReadsLast(todo) =>
        /\ ReadsLast(todo')
        /\ Head(todo)[1] = "read_limits" => ~Pending("write_limits", todo')
  BY <1>1, ReadsLastTail
<1>. QED  BY <1>2, <1>3, <1>4, <1>5, <1>6
(* What the lemmas on the statements have in common.                       *)
LEMMA StatementFrame ==
  ASSUME ChargerInv, StmtsOK', RegistersOK', chg_stat' \in Stats, emergency' \in BOOLEAN,
         UNCHANGED kept, "command" \in upset' <=> "command" \in upset,
         Stopped => Stopped', Limited => Limited'
  PROVE  ChargerInv'
<1>1. /\ session' = session /\ asked' = asked /\ granted' = granted
      /\ requested_current' = requested_current
  BY DEF kept, pdVars, pickVars
<1>2. ModesOK'  BY <1>1 DEF ChargerInv, ModesOK
<1>3. NoContract' /\ Contract'
  BY Zenon, <1>1 DEF ChargerInv, NoContract, Contract
<1>. QED  BY <1>2, <1>3 DEF ChargerInv

LEMMA DeriveKeeps ==
  ASSUME ChargerInv, derive_emergency_charge_necessary
  PROVE  ChargerInv'
<1>1. /\ todo # <<>> /\ Head(todo)[1] = "derive" /\ Done /\ UNCHANGED kept
      /\ ram' = ram /\ chip' = chip /\ upset' = upset /\ chg_stat' = chg_stat
      /\ emergency' \in BOOLEAN
  BY DEF derive_emergency_charge_necessary, Do, registers
<1>2. granted' = granted  BY <1>1 DEF kept, pdVars
<1>3. StmtsOK' /\ \A n : Pending(n, todo) <=> n = "derive" \/ Pending(n, todo)'
  BY <1>1, StmtDone DEF ChargerInv
<1>4. RegistersOK' /\ chg_stat' \in Stats  BY <1>1 DEF ChargerInv, RegistersOK, ModesOK
<1>5. Stopped => Stopped'
  BY <1>1, <1>3, StmtDone DEF ChargerInv, Stopped, ToldToStop
<1>6. Limited => Limited'
  BY <1>1, <1>2, <1>3, StmtDone DEF ChargerInv, Limited
<1>. QED  BY <1>1, <1>3, <1>4, <1>5, <1>6, StatementFrame

LEMMA AssignKeeps ==
  ASSUME ChargerInv, Assign
  PROVE  ChargerInv'
<1>1. /\ todo # <<>> /\ Done /\ UNCHANGED kept
      /\ chip' = chip /\ upset' = upset /\ chg_stat' = chg_stat /\ emergency' = emergency
      /\ Head(todo)[1] \in {"limit", "chg_en", "reg_rst", "chg_en_by_emergency", "wtd_rst"}
  BY DEF Assign, Do, batteryVars
<1>2. granted' = granted  BY <1>1 DEF kept, pdVars
<1>3. /\ StmtsOK' /\ Head(todo) \in Range(todo) /\ Head(todo) \in Stmt
      /\ \A n : Pending(n, todo) <=> Head(todo)[1] = n \/ Pending(n, todo)'
  BY <1>1, StmtDone, Next1 DEF ChargerInv, StmtsOK
<1>4. /\ ram' \in [chg_en: BOOLEAN, reg_rst: BOOLEAN, limit: 0..255]
      /\ Head(todo)[1] = "limit" => ram'.limit = Head(todo)[2]
      /\ Head(todo)[1] # "limit" => ram'.limit = ram.limit
      /\ ram'.chg_en => \/ ram.chg_en /\ Head(todo)[1] # "chg_en"
                        \/ Head(todo)[1] = "chg_en" /\ Head(todo)[2] = 1
                        \/ Head(todo)[1] = "chg_en_by_emergency"
  <2>. DEFINE IsOne == Arg = 1
  <2>1. ram \in [chg_en: BOOLEAN, reg_rst: BOOLEAN, limit: 0..255] /\ emergency \in BOOLEAN
    BY DEF ChargerInv, RegistersOK, ModesOK
  <2>2. Head(todo)[1] = "limit" => Arg \in 0..255
    BY <1>3 DEF ChargerInv, StmtsOK, Arg
  <2>3. IsOne \in BOOLEAN  BY Zenon
  <2>4. \/ Head(todo)[1] = "limit" /\ ram' = [ram EXCEPT !.limit = Arg]
        \/ Head(todo)[1] = "chg_en" /\ ram' = [ram EXCEPT !.chg_en = IsOne]
        \/ Head(todo)[1] = "reg_rst" /\ ram' = [ram EXCEPT !.reg_rst = TRUE]
        \/ Head(todo)[1] = "chg_en_by_emergency" /\ ram' = [ram EXCEPT !.chg_en = emergency]
        \/ Head(todo)[1] = "wtd_rst" /\ ram' = ram
    BY DEF Assign, Do
  <2>5. Arg = Head(todo)[2] /\ (IsOne => Arg = 1)  BY DEF Arg
  <2>. HIDE DEF IsOne
  <2>6. CASE Head(todo)[1] = "limit" /\ ram' = [ram EXCEPT !.limit = Arg]
    BY ONLY <2>1, <2>2, <2>5, <2>6
  <2>7. CASE Head(todo)[1] = "chg_en" /\ ram' = [ram EXCEPT !.chg_en = IsOne]
    BY ONLY <2>1, <2>3, <2>5, <2>7
  <2>8. CASE Head(todo)[1] = "reg_rst" /\ ram' = [ram EXCEPT !.reg_rst = TRUE]
    BY ONLY <2>1, <2>8
  <2>9. CASE Head(todo)[1] = "chg_en_by_emergency" /\ ram' = [ram EXCEPT !.chg_en = emergency]
    BY ONLY <2>1, <2>9
  <2>10. CASE Head(todo)[1] = "wtd_rst" /\ ram' = ram
    BY ONLY <2>1, <2>10
  <2>. QED  BY ONLY <2>4, <2>6, <2>7, <2>8, <2>9, <2>10
<1>5. RegistersOK' /\ chg_stat' \in Stats /\ emergency' \in BOOLEAN
  BY <1>1, <1>4 DEF ChargerInv, RegistersOK, ModesOK
<1>6. Stopped => Stopped'
  <2>. SUFFICES ASSUME Stopped PROVE Stopped'  OBVIOUS
  <2>1. Uncharging(todo)' /\ Head(todo) # <<"chg_en", 1>>
        /\ Head(todo)[1] # "chg_en_by_emergency"
    BY <1>1, <1>3, StmtDone DEF ChargerInv, Stopped, Uncharging
  <2>2. ~(Head(todo)[1] = "chg_en" /\ Head(todo)[2] = 1)
    BY <1>3, <2>1 DEF Stmt
  <2>3. ~ram'.chg_en
    BY <1>4, <2>1, <2>2 DEF Stopped, ToldToStop
  <2>4. Pending("write_config0", todo) <=> Pending("write_config0", todo)'
    BY <1>1, <1>3
  <2>. QED  BY <1>1, <2>1, <2>3, <2>4 DEF Stopped
<1>7. Limited => Limited'
  <2>. SUFFICES ASSUME Limited PROVE Limited'  OBVIOUS
  <2>1. ReadsLast(todo)'  BY <1>1, StmtDone DEF ChargerInv, Limited
  <2>2. Range(todo)' \subseteq Range(todo)  BY <1>1, StmtDone DEF ChargerInv
  <2>3. Pending("write_limits", todo) <=> Pending("write_limits", todo)'
    BY <1>1, <1>3
  <2>4. Head(todo)[1] = "limit" => Head(todo)[2] * 5 <= granted
    BY <1>3 DEF Limited
  <2>. QED  BY <1>1, <1>2, <1>4, <2>1, <2>2, <2>3, <2>4 DEF Limited
<1>. QED  BY <1>1, <1>3, <1>5, <1>6, <1>7, StatementFrame

LEMMA WriteKeeps ==
  ASSUME ChargerInv, NEW g \in Groups, WriteSucceeds(g) \/ WriteFails(g)
  PROVE  ChargerInv'
<1>1. /\ todo # <<>> /\ Done /\ UNCHANGED kept /\ Head(todo)[1] = WriteName[g]
      /\ ram' = ram /\ chg_stat' = chg_stat /\ emergency' = emergency
  BY DEF WriteSucceeds, WriteFails, Do, batteryVars
<1>2. granted' = granted  BY <1>1 DEF kept, pdVars
<1>3. /\ StmtsOK' /\ Range(todo)' \subseteq Range(todo)
      /\ \A n : Pending(n, todo) <=> WriteName[g] = n \/ Pending(n, todo)'
  BY <1>1, StmtDone DEF ChargerInv
<1>4. \/ g = "config0" /\ WriteName[g] = "write_config0"
      \/ g = "limits" /\ WriteName[g] = "write_limits"
  <2>1. WriteName["config0"] = "write_config0" /\ WriteName["limits"] = "write_limits"
    BY DEF Groups, WriteName
  <2>2. g = "config0" \/ g = "limits"  BY DEF Groups
  <2>. QED  BY ONLY <2>1, <2>2, Zenon
<1>5. Written["config0"] = (IF ram.reg_rst THEN ChipReset ELSE [chip EXCEPT !.chg_en = ram.chg_en])
      /\ Written["limits"] = [chip EXCEPT !.limit = ram.limit]
  BY DEF Written, Groups
<1>6. /\ ram \in [chg_en: BOOLEAN, reg_rst: BOOLEAN, limit: 0..255]
      /\ chip \in [chg_en: BOOLEAN, limit: 0..255]
      /\ upset \subseteq Groups \cup {"command"}
      /\ ChipReset \in [chg_en: BOOLEAN, limit: 0..255]
  BY ResetLimitAssumption DEF ChargerInv, RegistersOK, ChipReset
(* What has become of the registers, one case each.                        *)
<1>7. \/ g \in upset' /\ chip' = chip /\ upset' = upset \cup {g}
      \/ g = "config0" /\ upset' = upset \cup Groups /\ chip' = ChipReset
      \/ g = "config0" /\ upset' = upset \ {g} /\ chip' = [chip EXCEPT !.chg_en = ram.chg_en]
      \/ g = "limits" /\ upset' = upset \ {g} /\ chip' = [chip EXCEPT !.limit = ram.limit]
  BY <1>4, <1>5 DEF WriteSucceeds, WriteFails
<1>8. RegistersOK'
  <2>1. chip' \in [chg_en: BOOLEAN, limit: 0..255]  BY <1>6, <1>7
  <2>2. upset' \subseteq Groups \cup {"command"}  BY <1>6, <1>7, Zenon
  <2>. QED  BY <1>1, <1>6, <2>1, <2>2 DEF RegistersOK
<1>9. "command" \in upset' <=> "command" \in upset
  BY <1>4, <1>7 DEF Groups
<1>10. Stopped => Stopped'
  <2>. SUFFICES ASSUME Stopped PROVE Stopped'  OBVIOUS
  <2>1. Uncharging(todo)'  BY <1>1, StmtDone DEF ChargerInv, Stopped
  <2>2. ~ram.chg_en  BY <1>1, <1>4 DEF Stopped, ToldToStop
  <2>3. chip'.chg_en => "config0" \in upset' \/ Pending("write_config0", todo)'
    <3>1. CASE g = "config0"
      BY <1>6, <1>7, <2>2, <3>1 DEF Groups
    <3>2. CASE g = "limits"
      <4>1. chip'.chg_en = chip.chg_en /\ ("config0" \in upset => "config0" \in upset')
        BY <1>6, <1>7, <3>2
      <4>2. Pending("write_config0", todo) <=> Pending("write_config0", todo)'
        BY <1>3, <1>4, <3>2
      <4>. QED  BY <4>1, <4>2 DEF Stopped
    <3>. QED  BY <1>4, <3>1, <3>2
  <2>. QED  BY <1>1, <2>1, <2>2, <2>3 DEF Stopped
<1>11. Limited => Limited'
  <2>. SUFFICES ASSUME Limited PROVE Limited'  OBVIOUS
  <2>1. ReadsLast(todo)'  BY <1>1, StmtDone DEF ChargerInv, Limited
  <2>2. Pending("write_limits", todo) => ram.limit * 5 <= granted
    BY <1>1, <1>4 DEF Limited
  <2>3. "limits" \in upset' \/ chip'.limit * 5 <= granted \/ Pending("write_limits", todo)'
    <3>1. CASE g = "config0"
      <4>1. "limits" \in upset' \/ (chip'.limit = chip.limit /\ ("limits" \in upset => "limits" \in upset'))
        BY <1>6, <1>7, <3>1 DEF Groups
      <4>2. Pending("write_limits", todo) <=> Pending("write_limits", todo)'
        BY <1>3, <1>4, <3>1
      <4>. QED  BY <4>1, <4>2 DEF Limited
    <3>2. CASE g = "limits"
      <4>1. Pending("write_limits", todo)  BY <1>3, <1>4, <3>2
      <4>. QED  BY <1>6, <1>7, <2>2, <3>2, <4>1
    <3>. QED  BY <1>4, <3>1, <3>2
  <2>4. Pending("write_limits", todo)' => Pending("write_limits", todo)  BY <1>3
  <2>. QED  BY <1>1, <1>2, <1>3, <2>1, <2>2, <2>3, <2>4 DEF Limited
<1>. QED  BY <1>1, <1>3, <1>8, <1>9, <1>10, <1>11, StatementFrame DEF ChargerInv, ModesOK
LEMMA OtherStatementKeeps ==
  ASSUME ChargerInv, StaleWrite \/ ReadConfig \/ ReadLimits \/ ReadStatus \/ ReadFails
  PROVE  ChargerInv'
<1>1. /\ todo # <<>> /\ Done /\ UNCHANGED kept /\ emergency' = emergency
      /\ Head(todo)[1] \in {"write_stale", "read_config", "read_limits", "read_status"}
  BY DEF StaleWrite, ReadConfig, ReadLimits, ReadStatus, ReadFails, Do, batteryVars
<1>2. granted' = granted  BY <1>1 DEF kept, pdVars
<1>3. /\ StmtsOK' /\ Range(todo)' \subseteq Range(todo) /\ Head(todo) \in Range(todo)
      /\ \A n : Pending(n, todo) <=> Head(todo)[1] = n \/ Pending(n, todo)'
  BY <1>1, StmtDone DEF ChargerInv
<1>4. /\ ram \in [chg_en: BOOLEAN, reg_rst: BOOLEAN, limit: 0..255]
      /\ chip \in [chg_en: BOOLEAN, limit: 0..255]
      /\ upset \subseteq Groups \cup {"command"}
      /\ ChipReset \in [chg_en: BOOLEAN, limit: 0..255]
  BY ResetLimitAssumption DEF ChargerInv, RegistersOK, ChipReset
<1>5. chg_stat' \in Stats
  BY DEF ChargerInv, ModesOK, Stats, StaleWrite, ReadConfig, ReadLimits, ReadStatus, ReadFails, batteryVars
(* What has become of the registers and their copies, one case each.       *)
<1>6. \/ /\ Head(todo)[1] = "write_stale" /\ ram' = ram
         /\ \/ chip' = ChipReset /\ upset' = upset \cup Groups
            \/ chip' = [chip EXCEPT !.chg_en = TRUE] /\ upset' = upset \cup {"config0"}
      \/ /\ Head(todo)[1] = "read_config" /\ chip' = chip /\ upset' = upset \ {"config0"}
         /\ ram' = [ram EXCEPT !.chg_en = chip.chg_en, !.reg_rst = FALSE]
      \/ /\ Head(todo)[1] = "read_limits" /\ chip' = chip /\ upset' = upset
         /\ ram' = [ram EXCEPT !.limit = chip.limit]
      \/ ram' = ram /\ chip' = chip /\ upset' = upset
  BY DEF StaleWrite, ReadConfig, ReadLimits, ReadStatus, ReadFails, registers, Do
<1>7. RegistersOK'
  <2>1. ram' \in [chg_en: BOOLEAN, reg_rst: BOOLEAN, limit: 0..255]  BY ONLY <1>4, <1>6
  <2>2. chip' \in [chg_en: BOOLEAN, limit: 0..255]  BY ONLY <1>4, <1>6
  <2>3. upset' \subseteq Groups \cup {"command"}  BY ONLY <1>4, <1>6 DEF Groups
  <2>. QED  BY <2>1, <2>2, <2>3 DEF RegistersOK
<1>8. "command" \in upset' <=> "command" \in upset
  BY ONLY <1>6 DEF Groups
<1>9. Stopped => Stopped'
  <2>. SUFFICES ASSUME Stopped PROVE Stopped'  OBVIOUS
  <2>1. Uncharging(todo)'  BY <1>1, StmtDone DEF ChargerInv, Stopped
  <2>2. Head(todo)[1] \notin {"read_config", "write_stale"}
    BY <1>3 DEF Stopped, Uncharging
  <2>3. ~ram.chg_en  BY <1>1 DEF Stopped, ToldToStop
  <2>4. ~ram'.chg_en /\ chip' = chip /\ upset' = upset  BY ONLY <1>4, <1>6, <2>2, <2>3
  <2>5. Pending("write_config0", todo) <=> Pending("write_config0", todo)'
    BY <1>1, <1>3
  <2>. QED  BY <2>1, <2>4, <2>5 DEF Stopped
<1>10. Limited => Limited'
  <2>. SUFFICES ASSUME Limited PROVE Limited'  OBVIOUS
  <2>1. /\ ReadsLast(todo)'
        /\ Head(todo)[1] = "read_limits" => ~Pending("write_limits", todo)'
    BY <1>1, StmtDone DEF ChargerInv, Limited
  <2>2. \A x \in Range(todo)' : x[1] = "limit" => x[2] * 5 <= granted'
    BY <1>2, <1>3 DEF Limited
  <2>3. Pending("write_limits", todo) <=> Pending("write_limits", todo)'
    BY <1>1, <1>3
  <2>4. Pending("write_limits", todo) => ram.limit * 5 <= granted
    BY <1>1 DEF Limited
  <2>5. ram'.limit = ram.limit \/ Head(todo)[1] = "read_limits"
    BY ONLY <1>4, <1>6
  <2>6. "limits" \in upset' \/ (chip'.limit = chip.limit /\ ("limits" \in upset => "limits" \in upset'))
    BY ONLY <1>4, <1>6 DEF Groups
  <2>7. "limits" \in upset \/ chip.limit * 5 <= granted \/ Pending("write_limits", todo)
    BY DEF Limited
  <2>. QED  BY <1>2, <2>1, <2>2, <2>3, <2>4, <2>5, <2>6, <2>7 DEF Limited
<1>. QED  BY <1>1, <1>3, <1>5, <1>7, <1>8, <1>9, <1>10, StatementFrame DEF ChargerInv, ModesOK

-----------------------------------------------------------------------------
(* The iterations.                                                         *)

LEMMA NothingPending == Range(<<>>) = {} /\ \A n : ~Pending(n, <<>>)
BY DEF Range, Pending

LEMMA IterateTypes ==
  ASSUME ChargerInv, NEW call \in Seq(Stmt), Iterate(call),
         \A x \in Range(call) : x[1] = "limit" => x[2] \in 0..255
  PROVE  /\ StmtsOK' /\ RegistersOK' /\ todo = <<>>
         /\ ram' = ram /\ chip' = chip /\ chg_stat' = chg_stat /\ emergency' = emergency
         /\ call = <<>> => upset' = upset
         /\ upset' \cup {"command"} = upset \cup {"command"}
<1>1. /\ todo = <<>> /\ ram' = ram /\ chip' = chip /\ chg_stat' = chg_stat /\ emergency' = emergency
      /\ upset' = IF call = <<>> THEN upset ELSE upset \ {"command"}
  BY DEF Iterate, Quiet, batteryVars
<1>2. StmtsOK'
  <2>1. /\ todo' \in Seq(Stmt)
        /\ Range(todo') \subseteq Range(call) \cup Tick \cup {<<"read_status", 0>>}
    BY ONLY Iterated, Iterate(call), call \in Seq(Stmt)
  <2>2. ASSUME NEW x \in Range(todo'), x[1] = "limit" PROVE x[2] \in 0..255
    <3>1. x \notin Tick /\ x # <<"read_status", 0>>  BY ONLY <2>2 DEF Tick
    <3>2. x \in Range(call)  BY ONLY <2>1, <2>2, <3>1
    <3>. QED  BY ONLY <2>2, <3>2, \A y \in Range(call) : y[1] = "limit" => y[2] \in 0..255
  <2>. QED  BY <2>1, <2>2 DEF StmtsOK
<1>3. RegistersOK'  BY <1>1 DEF ChargerInv, RegistersOK
<1>. QED  BY <1>1, <1>2, <1>3

(* An iteration that calls nothing before the tick.                        *)
LEMMA TickKeeps ==
  ASSUME ChargerInv, Iterate(<<>>)
  PROVE  /\ StmtsOK' /\ RegistersOK' /\ chg_stat' = chg_stat /\ emergency' = emergency
         /\ upset' = upset
         /\ Stopped => Stopped'
         /\ Limited /\ granted' = granted => Limited'
<1>1. <<>> \in Seq(Stmt) /\ Range(<<>>) = {}  BY NothingPending
<1>2. /\ StmtsOK' /\ RegistersOK' /\ todo = <<>>
      /\ ram' = ram /\ chip' = chip /\ chg_stat' = chg_stat /\ emergency' = emergency
      /\ upset' = upset
  BY <1>1, IterateTypes
<1>3. /\ Range(todo') \subseteq Tick \cup {<<"read_status", 0>>}
      /\ ReadsLast(<<>>) => ReadsLast(todo')
  BY <1>1, Iterated
<1>4. Stopped => Stopped'
  BY <1>2, <1>3, NothingPending DEF Stopped, ToldToStop, Uncharging, Tick
<1>5. ~Pending("write_limits", todo)' /\ \A x \in Range(todo)' : x[1] # "limit"
  BY <1>3 DEF Pending, Tick
<1>6. Limited /\ granted' = granted => Limited'
  BY <1>2, <1>3, <1>5, NothingPending DEF Limited
<1>. QED  BY <1>2, <1>4, <1>6

LEMMA NoCallKeeps ==
  ASSUME ChargerInv, NoCall \/ Offer \/ SessionEnds
  PROVE  ChargerInv'
<1>1. /\ Iterate(<<>>) /\ granted' = granted
      /\ \/ session' = session
         \/ session' = "setup"
      /\ \/ asked' = asked /\ requested_current' = requested_current
         \/ asked' = FALSE
  BY DEF NoCall, Offer, SessionEnds, pdVars, pickVars
<1>2. /\ StmtsOK' /\ RegistersOK' /\ chg_stat' = chg_stat /\ emergency' = emergency
      /\ upset' = upset
      /\ Stopped => Stopped'
      /\ Limited => Limited'
  BY <1>1, TickKeeps
<1>3. ModesOK'
  <2>1. asked' \in BOOLEAN /\ (asked' => requested_current' # 0)
    <3>1. CASE asked' = FALSE  BY Zenon, <3>1
    <3>2. CASE asked' = asked /\ requested_current' = requested_current
      BY Zenon, <3>2 DEF ChargerInv, ModesOK
    <3>. QED  BY <1>1, <3>1, <3>2
  <2>. QED  BY <1>1, <1>2, <2>1 DEF ChargerInv, ModesOK
<1>4. NoContract' /\ Contract'
  BY <1>1, <1>2 DEF ChargerInv, NoContract, Contract
<1>. QED  BY <1>2, <1>3, <1>4 DEF ChargerInv

LEMMA PdSetupKeeps ==
  ASSUME ChargerInv, PdSetup
  PROVE  ChargerInv'
<1>. DEFINE call == IF ~emergency THEN charger_disable_charge
                    ELSE IF ram.chg_en THEN <<>> ELSE charger_enable_charge(50)
<1>1. /\ Iterate(call) /\ session' \in {"setup", "attached"} /\ asked' = FALSE /\ granted' = 0
      /\ session' = "attached" => ~emergency
  BY DEF PdSetup
<1>2. call \in Seq(Stmt) /\ \A x \in Range(call) : x[1] = "limit" => x[2] \in 0..255
  <2>1. CASE ~emergency
    <3>1. call = charger_disable_charge  BY <2>1
    <3>. HIDE DEF call
    <3>. QED  BY <3>1, DisableStmts DEF DefaultLimit
  <2>2. CASE emergency /\ ram.chg_en  BY <2>2, NothingPending
  <2>3. CASE emergency /\ ~ram.chg_en
    <3>1. call = charger_enable_charge(50)  BY <2>3
    <3>. HIDE DEF call
    <3>2. 50 \in 0..300  OBVIOUS
    <3>3. call \in Seq(Stmt) /\ \A x \in Range(call) : x[1] = "limit" => x[2] = 50 \div 5
      BY ONLY <3>1, <3>2, EnableStmts, Zenon
    <3>4. \A n : n = 50 \div 5 => n \in 0..255  OBVIOUS
    <3>. QED  BY ONLY <3>3, <3>4, Zenon
  <2>. QED  BY <2>1, <2>2, <2>3
<1>3. StmtsOK' /\ RegistersOK' /\ chg_stat' = chg_stat /\ emergency' = emergency
  BY <1>1, <1>2, IterateTypes
<1>4. ModesOK'  BY <1>1, <1>3 DEF ChargerInv, ModesOK
<1>5. ASSUME session' = "attached" PROVE Stopped'
  <2>1. call = charger_disable_charge /\ call # <<>>
    BY <1>1, <1>5, DisableStmts DEF ToldToStop
  <2>2. /\ Range(todo') \subseteq Range(charger_disable_charge) \cup Tick \cup {<<"read_status", 0>>}
        /\ Tick \subseteq Range(todo')
        /\ todo' # <<>> /\ Head(todo') = Head(charger_disable_charge)
    BY <1>1, <1>2, <2>1, Iterated
  <2>3. Uncharging(todo')  BY <2>2, DisableStmts DEF Uncharging, Tick
  <2>4. ToldToStop(todo')  BY <2>2, DisableStmts DEF ToldToStop
  <2>5. Pending("write_config0", todo')  BY <2>2 DEF Pending, Tick
  <2>. QED  BY <2>3, <2>4, <2>5 DEF Stopped
<1>6. NoContract' /\ Contract'  BY <1>1, <1>5 DEF NoContract, Contract
<1>. QED  BY <1>3, <1>4, <1>6 DEF ChargerInv

LEMMA PsReadyKeeps ==
  ASSUME ChargerInv, PickTypeOK, PsReady
  PROVE  ChargerInv'
<1>. DEFINE c == requested_current
            call == charger_enable_charge(c)
<1>1. /\ Iterate(call) /\ session' = "attached" /\ asked' = FALSE /\ granted' = c
      /\ c \in 10..300
  BY DEF PsReady, ChargerInv, ModesOK, PickTypeOK
<1>. HIDE DEF c
<1>2. /\ call \in Seq(Stmt) /\ call # <<>> /\ Head(call) = <<"limit", c \div 5>>
      /\ c \div 5 \in 0..60 /\ (c \div 5) * 5 <= c
      /\ Range(call) = {<<"limit", c \div 5>>, <<"write_limits", 0>>, <<"read_limits", 0>>,
                        <<"chg_en", 1>>, <<"write_config0", 0>>}
      /\ \A x \in Range(call) : x[1] = "limit" => x[2] = c \div 5
      /\ ReadsLast(call)
  <2>1. c \in 0..300  BY <1>1
  <2>. QED  BY <2>1, EnableStmts
<1>. HIDE DEF call
<1>3. \A x \in Range(call) : x[1] = "limit" => x[2] = c \div 5  BY Zenon, <1>2
<1>4. StmtsOK' /\ RegistersOK' /\ chg_stat' = chg_stat /\ emergency' = emergency
  <2>1. \A x \in Range(call) : x[1] = "limit" => x[2] \in 0..255
    <3>1. \A n : n = c \div 5 => n \in 0..255  BY <1>2
    <3>. QED  BY Zenon, <1>3, <3>1
  <2>. QED  BY <1>1, <1>2, <2>1, IterateTypes
<1>5. ModesOK'  BY <1>1, <1>4 DEF ChargerInv, ModesOK
<1>6. /\ Range(call) \subseteq Range(todo') /\ Head(todo') = Head(call) /\ ReadsLast(todo')
      /\ Range(todo') \subseteq Range(call) \cup Tick \cup {<<"read_status", 0>>}
  BY <1>1, <1>2, Iterated
<1>7. ASSUME NEW x \in Range(todo'), x[1] = "limit" PROVE x[2] * 5 <= granted'
  <2>1. x \notin Tick /\ x # <<"read_status", 0>>  BY ONLY <1>7 DEF Tick
  <2>2. x \in Range(call)  BY ONLY <1>6, <1>7, <2>1
  <2>3. x[2] = c \div 5  BY Zenon, <1>3, <1>7, <2>2
  <2>. QED  BY <1>1, <1>2, <2>3
<1>8. Head(todo')[1] = "limit" /\ Pending("write_limits", todo')
  BY <1>2, <1>6 DEF Pending
<1>9. Limited'  BY <1>6, <1>7, <1>8 DEF Limited
<1>10. NoContract' /\ Contract'
  BY <1>1, <1>9 DEF NoContract, Contract
<1>. QED  BY <1>4, <1>5, <1>10 DEF ChargerInv
-----------------------------------------------------------------------------
(* What comes at any moment.                                               *)

LEMMA AskKeeps ==
  ASSUME ChargerInv, PickTypeOK', Pick \/ Ask \/ Pdvolt
  PROVE  ChargerInv'
<1>1. /\ UNCHANGED <<todo, ram, chip, upset, chg_stat, emergency, session, granted>>
      /\ \/ asked' = asked /\ requested_current' = requested_current
         \/ requested_current' = Clamp(picked.max_current) /\ asked' \in BOOLEAN
  BY DEF Pick, TakePdo, SkipPdo, Ask, Request, Pdvolt, MaxVoltage, chargerVars, registers, batteryVars
<1>2. StmtsOK' /\ RegistersOK'  BY <1>1 DEF ChargerInv, StmtsOK, RegistersOK
<1>3. NoContract' /\ Contract'
  BY <1>1 DEF ChargerInv, NoContract, Contract, Stopped, Limited, Pending, Uncharging, ReadsLast, ToldToStop
<1>4. ModesOK'
  <2>1. asked' \in BOOLEAN  BY Zenon, <1>1 DEF ChargerInv, ModesOK
  <2>2. asked' => requested_current' # 0
    <3>1. CASE requested_current' = Clamp(picked.max_current)
      <4>1. Clamp(picked.max_current) # 0  BY DEF Clamp
      <4>. QED  BY <3>1, <4>1
    <3>2. CASE asked' = asked /\ requested_current' = requested_current
      BY <3>2 DEF ChargerInv, ModesOK
    <3>. QED  BY <1>1, <3>1, <3>2
  <2>. QED  BY <1>1, <2>1, <2>2 DEF ChargerInv, ModesOK
<1>. QED  BY <1>2, <1>3, <1>4 DEF ChargerInv

LEMMA WatchdogKeeps ==
  ASSUME ChargerInv, ChipWatchdog
  PROVE  ChargerInv'
<1>1. /\ UNCHANGED kept /\ todo' = todo /\ ram' = ram /\ chip' = ChipReset
      /\ chg_stat' = chg_stat /\ emergency' = emergency
      /\ upset' = upset \cup Groups /\ Groups = {"config0", "limits"}
  BY DEF ChipWatchdog, batteryVars, Groups
<1>2. granted' = granted  BY <1>1 DEF kept, pdVars
<1>3. StmtsOK'  BY <1>1 DEF ChargerInv, StmtsOK
<1>4. RegistersOK'
  <2>1. ChipReset \in [chg_en: BOOLEAN, limit: 0..255]  BY ResetLimitAssumption DEF ChipReset
  <2>. QED  BY <1>1, <2>1 DEF ChargerInv, RegistersOK
<1>5. Stopped => Stopped'
  BY <1>1 DEF Stopped, Uncharging, ToldToStop, Pending
<1>6. Limited => Limited'
  BY <1>1, <1>2 DEF Limited, ReadsLast, Pending
<1>. QED  BY <1>1, <1>3, <1>4, <1>5, <1>6, StatementFrame DEF ChargerInv, ModesOK

(* What set-gpio 6 can do to what is left: it makes a stored chg_en, or a  *)
(* byte on its way, a stale one, if charging was on.                       *)
LEMMA StaleStmts ==
  ASSUME ChargerInv, SetGpio6
  PROVE  /\ StmtsOK'
         /\ \/ todo' = todo
            \/ todo # <<>> /\ ram.chg_en /\ ~ToldToStop(todo)
<1>1. CASE todo' = todo  BY <1>1 DEF ChargerInv, StmtsOK
<1>2. ASSUME NEW x \in Stmt, x[1] # "limit", todo # <<>>, todo' = <<x>> \o Tail(todo)
      PROVE  StmtsOK'
  <2>1. Tail(todo) \in Seq(Stmt) /\ Range(Tail(todo)) \subseteq Range(todo)
    BY <1>2, Next1 DEF ChargerInv, StmtsOK
  <2>2. <<x>> \in Seq(Stmt) /\ Range(<<x>>) = {x}  BY One
  <2>3. todo' \in Seq(Stmt) /\ Range(todo') = {x} \cup Range(Tail(todo))
    BY ONLY <1>2, <2>1, <2>2, JoinedStmts, Zenon
  <2>. QED  BY <1>2, <2>1, <2>3 DEF ChargerInv, StmtsOK
<1>3. CASE /\ todo # <<>> /\ Head(todo)[1] = "wtd_rst" /\ ram.chg_en
           /\ todo' = << <<"chg_en", 1>> >> \o Tail(todo)
  <2>1. <<"chg_en", 1>> \in Stmt /\ <<"chg_en", 1>>[1] # "limit"  BY DEF Stmt, StatementNames
  <2>2. StmtsOK'  BY ONLY <1>2, <1>3, <2>1
  <2>. QED  BY <1>3, <2>2 DEF ToldToStop
<1>4. CASE /\ todo # <<>> /\ Head(todo)[1] = "write_config0" /\ ram.chg_en
           /\ todo' = << <<"write_stale", 0>> >> \o Tail(todo)
  <2>1. <<"write_stale", 0>> \in Stmt /\ <<"write_stale", 0>>[1] # "limit"  BY DEF Stmt, StatementNames
  <2>2. StmtsOK'  BY ONLY <1>2, <1>4, <2>1
  <2>. QED  BY <1>4, <2>2 DEF ToldToStop
<1>. QED  BY <1>1, <1>3, <1>4 DEF SetGpio6

LEMMA SetGpio6Keeps ==
  ASSUME ChargerInv, SetGpio6
  PROVE  ChargerInv'
<1>1. /\ ram \in [chg_en: BOOLEAN, reg_rst: BOOLEAN, limit: 0..255]
      /\ chip \in [chg_en: BOOLEAN, limit: 0..255]
      /\ ChipReset \in [chg_en: BOOLEAN, limit: 0..255] /\ DefaultLimit \in 0..255
  BY ResetLimitAssumption DEF ChargerInv, RegistersOK, ChipReset, DefaultLimit
<1>2. PICK done \in SUBSET (Groups \cup {"read"}) :
        LET chip1 == IF "config0" \notin done THEN chip
                     ELSE IF ram.reg_rst THEN ChipReset ELSE [chip EXCEPT !.chg_en = FALSE] IN
        /\ chip' = [chip1 EXCEPT !.limit = IF "limits" \in done THEN DefaultLimit ELSE @]
        /\ ram' = [ram EXCEPT !.chg_en = FALSE,
                              !.limit = IF "read" \in done THEN chip'.limit ELSE DefaultLimit]
        /\ upset' = (Groups \ done) \cup (IF ram.reg_rst THEN {"config0"} ELSE {})
                                    \cup (IF todo # <<>> THEN {"command"} ELSE {})
  BY DEF SetGpio6
<1>. DEFINE chip1 == IF "config0" \notin done THEN chip
                     ELSE IF ram.reg_rst THEN ChipReset ELSE [chip EXCEPT !.chg_en = FALSE]
<1>3. /\ chip1 \in [chg_en: BOOLEAN, limit: 0..255]
      /\ chip1.chg_en => "config0" \notin done \/ ram.reg_rst
  BY <1>1
<1>. HIDE DEF chip1
<1>4. chip' = [chip1 EXCEPT !.limit = IF "limits" \in done THEN DefaultLimit ELSE @]
  BY <1>2 DEF chip1
<1>5. chip' \in [chg_en: BOOLEAN, limit: 0..255] /\ chip'.chg_en = chip1.chg_en
  BY ONLY <1>1, <1>3, <1>4
<1>6. ram' \in [chg_en: BOOLEAN, reg_rst: BOOLEAN, limit: 0..255] /\ ~ram'.chg_en
  <2>1. ram' = [ram EXCEPT !.chg_en = FALSE,
                           !.limit = IF "read" \in done THEN chip'.limit ELSE DefaultLimit]
    BY <1>2
  <2>. QED  BY ONLY <1>1, <1>5, <2>1
<1>7. /\ upset' \subseteq Groups \cup {"command"}
      /\ chip'.chg_en => "config0" \in upset'
      /\ todo # <<>> => "command" \in upset'
  BY <1>2, <1>3, <1>5 DEF Groups
<1>8. /\ UNCHANGED <<chg_stat, emergency, session, asked, granted, requested_current>>
      /\ todo = <<>> => todo' = <<>>
  BY DEF SetGpio6, batteryVars, pdVars, pickVars
<1>9. RegistersOK' /\ ModesOK'
  BY <1>5, <1>6, <1>7, <1>8 DEF ChargerInv, RegistersOK, ModesOK
<1>10. NoContract'
  <2>. SUFFICES ASSUME session' = "attached", granted' = 0 PROVE Stopped'
    BY DEF NoContract
  <2>1. Stopped  BY <1>8 DEF ChargerInv, NoContract
  <2>2. todo' = todo  BY <2>1, StaleStmts DEF Stopped
  <2>. QED  BY <1>6, <1>7, <2>1, <2>2 DEF Stopped, Uncharging
<1>11. Contract'
  <2>. SUFFICES ASSUME "command" \notin upset' PROVE Stopped'
    BY DEF Contract
  <2>1. todo' = <<>>  BY <1>7, <1>8
  <2>. QED  BY <1>6, <1>7, <2>1, NothingPending DEF Stopped, Uncharging
<1>. QED  BY <1>9, <1>10, <1>11, StaleStmts DEF ChargerInv

-----------------------------------------------------------------------------
LEMMA NextCharger ==
  ASSUME ChargerInv, PickTypeOK, PickTypeOK', [Next]_vars
  PROVE  ChargerInv'
<1>1. CASE UNCHANGED vars
  BY <1>1 DEF vars, pickVars, chargerVars, ChargerInv, StmtsOK, RegistersOK, ModesOK,
    NoContract, Contract, Stopped, Limited, Pending, Uncharging, ReadsLast, ToldToStop
<1>2. CASE Statement
  <2>1. ASSUME NEW g \in Groups, WriteSucceeds(g) \/ WriteFails(g) PROVE ChargerInv'
    BY <2>1, WriteKeeps
  <2>. QED  BY Zenon, <1>2, <2>1, DeriveKeeps, AssignKeeps, OtherStatementKeeps DEF Statement
<1>. QED
  BY Zenon, <1>1, <1>2, NoCallKeeps, PdSetupKeeps, PsReadyKeeps, AskKeeps,
    SetGpio6Keeps, WatchdogKeeps DEF Next

(* Between any two statements of the main loop, what is left to do will    *)
(* make the registers of the MP2650 and their copies agree with the        *)
(* session again, up to what failed. (sysctl.c, charger_init, charger_tick,*)
(* charger_enable_charge, charger_disable_charge)                          *)
THEOREM ChargerSafe == Spec => []ChargerInv
<1>1. PickInv => PickTypeOK  BY DEF PickInv
<1>2. Spec => []PickTypeOK  BY <1>1, ChargerPicks, PickSafe, PTL
<1>3. ChargerInv /\ PickTypeOK /\ PickTypeOK' /\ [Next]_vars => ChargerInv'
  BY NextCharger
<1>. QED  BY <1>2, <1>3, InitCharger, PTL DEF Spec

(* The types: what is granted is a current that pick_pdo may ask for, and  *)
(* the limit, in 50 mA, fits into the byte of its register.                *)
(* (sysctl.c, charger_enable_charge)                                       *)
THEOREM ChargerTyped == Spec => []ChargerTypeOK
<1>1. PickInv => PickTypeOK  BY DEF PickInv
<1>2. Spec => []PickTypeOK  BY <1>1, ChargerPicks, PickSafe, PTL
<1>3. ChargerInv /\ PickTypeOK => ChargerTypeOK
  <2>. SUFFICES ASSUME ChargerInv, PickTypeOK PROVE ChargerTypeOK  OBVIOUS
  <2>1. \A j \in 1..Len(todo) : todo[j] \in StatementNames \X Nat
    BY ElementOfSeq DEF ChargerInv, StmtsOK, Stmt
  <2>. QED  BY <2>1 DEF ChargerInv, RegistersOK, ModesOK, ChargerTypeOK
<1>. QED  BY <1>2, <1>3, ChargerSafe, PTL

(* Without a contract the MP2650 does not charge between two iterations of *)
(* the main loop, for any source, any commands and any failing transfers.  *)
(* (sysctl.c, charger_disable_charge; pd_com.c, PD_STATE_SETUP)            *)
THEOREM ChargesOnlyWhenAllowed == Spec => []OnlyWhenAllowed
<1>1. ChargerInv => OnlyWhenAllowed
  BY NothingPending DEF ChargerInv, NoContract, Stopped, ModesOK, OnlyWhenAllowed, Quiet
<1>. QED  BY <1>1, ChargerSafe, PTL

(* With one it draws no more than was granted, for any contracts one after *)
(* the other in one session or in several. (pd_com.c, PS_RDY)              *)
THEOREM DrawsWithinContract == Spec => []DrawsNoMoreThanGranted
<1>1. ChargerInv => DrawsNoMoreThanGranted
  <2>. SUFFICES ASSUME ChargerInv, Quiet, chip.chg_en, granted > 0, upset = {}
                PROVE  chip.limit * 5 <= granted
    BY DEF DrawsNoMoreThanGranted
  <2>1. Stopped \/ Limited  BY DEF ChargerInv, Contract
  <2>2. ~Stopped  BY NothingPending DEF Stopped, Quiet
  <2>. QED  BY <2>1, <2>2, NothingPending DEF Limited, Quiet
<1>. QED  BY <1>1, ChargerSafe, PTL
=============================================================================
