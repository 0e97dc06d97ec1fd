-------------------------- MODULE SomPowerProofs --------------------------
(***************************************************************************)
(* Safety of the switching of the SOM, on both motherboards, for any       *)
(* commands given to the main loop and by the SOM, any number of failed    *)
(* writes, and a reset between any two operations: the types, that flag,   *)
(* boot magic and 5 V rail agree between commands, that the rails of a     *)
(* SOM that is off are off, that a controller that is reset with the SOM   *)
(* running comes back knowing it and then drops no rail, and that port 2   *)
(* is supplied only as a host's.                                           *)
(***************************************************************************)
EXTENDS SomPower, Functions, SequenceTheorems, TLAPS

-----------------------------------------------------------------------------
(* Programs as sequences.                                                  *)

Flags == {"som_is_powered", "boot_magic", "irq"}

Operations ==
  ({"ext"} \X ExtBits \X BOOLEAN) \cup ({"uswitch"} \X UswitchBits \X BOOLEAN)
  \cup ({"pin"} \X Pins \X BOOLEAN) \cup ({"flag"} \X Flags \X BOOLEAN)
  \cup ({"setup"} \X {"ext", "uswitch"} \X BOOLEAN)
  \cup ({"pulse"} \X {"resets"} \X BOOLEAN) \cup ({"usb_default"} \X {"port2"} \X BOOLEAN)
  \cup ({"version"} \X {"board"} \X BOOLEAN)

LEMMA Operands ==
  /\ \A b \in ExtBits, high \in BOOLEAN :
       /\ <<"ext", b, high>> \in Operations
       /\ gpio_ext_enable(b) = <<"ext", b, TRUE>> /\ gpio_ext_disable(b) = <<"ext", b, FALSE>>
  /\ \A b \in UswitchBits, high \in BOOLEAN :
       uswitch(b, high) \in Operations /\ uswitch(b, high) = <<"uswitch", b, high>>
  /\ \A p \in Pins, high \in BOOLEAN :
       gpio_put(p, high) \in Operations /\ gpio_put(p, high) = <<"pin", p, high>>
  /\ \A f \in Flags, v \in BOOLEAN :
       Flag(f, v) \in Operations /\ Flag(f, v) = <<"flag", f, v>>
  /\ \A v \in BOOLEAN :
       /\ <<"setup", "ext", v>> \in Operations /\ <<"setup", "uswitch", v>> \in Operations
       /\ <<"pulse", "resets", v>> \in Operations
       /\ <<"usb_default", "port2", v>> \in Operations /\ <<"version", "board", v>> \in Operations
BY DEF Operations, gpio_ext_enable, gpio_ext_disable, uswitch, gpio_put, Flag

LEMMA OneOf ==
  ASSUME NEW S, NEW a \in S
  PROVE  <<a>> \in Seq(S) /\ Range(<<a>>) = {a}
BY DEF Range

LEMMA TwoOf ==
  ASSUME NEW S, NEW a \in S, NEW b \in S
  PROVE  <<a, b>> \in Seq(S) /\ Range(<<a, b>>) = {a, b}
BY DEF Range

LEMMA ThreeOf ==
  ASSUME NEW S, NEW a \in S, NEW b \in S, NEW c \in S
  PROVE  <<a, b, c>> \in Seq(S) /\ Range(<<a, b, c>>) = {a, b, c}
BY DEF Range

LEMMA FourOf ==
  ASSUME NEW S, NEW a \in S, NEW b \in S, NEW c \in S, NEW d \in S
  PROVE  <<a, b, c, d>> \in Seq(S) /\ Range(<<a, b, c, d>>) = {a, b, c, d}
BY DEF Range

LEMMA FiveOf ==
  ASSUME NEW S, NEW a \in S, NEW b \in S, NEW c \in S, NEW d \in S, NEW e \in S
  PROVE  <<a, b, c, d, e>> \in Seq(S) /\ Range(<<a, b, c, d, e>>) = {a, b, c, d, e}
BY DEF Range

LEMMA Joined ==
  ASSUME NEW S, NEW s \in Seq(S), NEW t \in Seq(S)
  PROVE  /\ s \o t \in Seq(S) /\ Range(s \o t) = Range(s) \cup Range(t)
         /\ Len(s) \in Nat /\ Len(t) \in Nat /\ Len(s \o t) = Len(s) + Len(t)
         /\ \A i \in 1..Len(s) : (s \o t)[i] = s[i]
         /\ \A i \in 1..Len(t) : (s \o t)[Len(s) + i] = t[i]
         /\ s # <<>> \/ t # <<>> => s \o t # <<>>
         /\ s # <<>> => Head(s \o t) = Head(s)
<1>. DEFINE u == s \o t
<1>1. /\ u \in Seq(S) /\ Len(u) = Len(s) + Len(t) /\ Len(s) \in Nat /\ Len(t) \in Nat
      /\ \A i \in 1..Len(s) : u[i] = s[i]
      /\ \A i \in 1..Len(s) + Len(t) : i > Len(s) => u[i] = t[i - Len(s)]
  BY ConcatProperties
<1>. HIDE DEF u
<1>2. \A i \in 1..Len(t) : u[Len(s) + i] = t[i]
  <2>. TAKE i \in 1..Len(t)
  <2>1. Len(s) + i \in 1..Len(s) + Len(t) /\ Len(s) + i > Len(s) /\ (Len(s) + i) - Len(s) = i
    BY <1>1
  <2>. QED  BY <1>1, <2>1
<1>3. /\ Range(u) = {u[i] : i \in 1..Len(u)} /\ Range(s) = {s[i] : i \in 1..Len(s)}
      /\ Range(t) = {t[i] : i \in 1..Len(t)}
  BY <1>1, RangeEquality
<1>4. ASSUME NEW i \in 1..Len(u) PROVE u[i] \in Range(s) \cup Range(t)
  <2>1. CASE i \in 1..Len(s)  BY <1>1, <1>3, <2>1
  <2>2. CASE i > Len(s)
    <3>1. i - Len(s) \in 1..Len(t) /\ u[i] = t[i - Len(s)]  BY <1>1, <1>4, <2>2
    <3>. QED  BY <1>3, <3>1
  <2>. QED  BY <1>1, <1>4, <2>1, <2>2
<1>5. \A i \in 1..Len(s) : i \in 1..Len(u) /\ u[i] = s[i]  BY <1>1
<1>6. \A i \in 1..Len(t) : Len(s) + i \in 1..Len(u) /\ u[Len(s) + i] = t[i]  BY <1>1, <1>2
<1>7. Range(u) = Range(s) \cup Range(t)
  <2>1. Range(u) \subseteq Range(s) \cup Range(t)  BY <1>3, <1>4
  <2>2. Range(s) \subseteq Range(u)  BY <1>3, <1>5
  <2>3. Range(t) \subseteq Range(u)  BY <1>3, <1>6
  <2>. QED  BY <2>1, <2>2, <2>3
<1>8. s # <<>> \/ t # <<>> => u # <<>>
  <2>1. (s # <<>> => Len(s) # 0) /\ (t # <<>> => Len(t) # 0)  BY EmptySeq
  <2>2. s # <<>> \/ t # <<>> => Len(u) # 0  BY <1>1, <2>1
  <2>. QED  BY <2>2
<1>9. s # <<>> => Head(u) = Head(s)
  <2>1. s # <<>> => Len(s) # 0  BY EmptySeq
  <2>2. s # <<>> => 1 \in 1..Len(s) /\ u # <<>>  BY <1>1, <1>8, <2>1
  <2>3. s # <<>> => Head(u) = u[1] /\ Head(s) = s[1]  BY <1>1, <2>2, HeadTailProperties
  <2>. QED  BY <1>1, <2>2, <2>3
<1>. QED  BY <1>1, <1>2, <1>7, <1>8, <1>9 DEF u

LEMMA Begun ==
  ASSUME NEW S, NEW s \in Seq(S), s # <<>>
  PROVE  /\ Tail(s) \in Seq(S) /\ Head(s) \in S /\ Head(s) = s[1]
         /\ Len(s) \in Nat /\ Len(s) >= 1 /\ Len(Tail(s)) = Len(s) - 1
         /\ \A i \in 1..Len(Tail(s)) : Tail(s)[i] = s[i + 1]
         /\ Range(s) = {Head(s)} \cup Range(Tail(s))
<1>. DEFINE u == Tail(s)
<1>1. /\ u \in Seq(S) /\ Head(s) \in S /\ Head(s) = s[1]
      /\ Len(s) \in Nat /\ Len(s) >= 1 /\ Len(u) = Len(s) - 1
      /\ \A i \in 1..Len(u) : u[i] = s[i + 1]
  BY EmptySeq, HeadTailProperties
<1>. HIDE DEF u
<1>2. Range(u) = {u[i] : i \in 1..Len(u)} /\ Range(s) = {s[i] : i \in 1..Len(s)}
  BY <1>1, RangeEquality
<1>3. ASSUME NEW i \in 1..Len(s) PROVE s[i] \in {Head(s)} \cup Range(u)
  <2>1. CASE i = 1  BY <1>1, <2>1
  <2>2. CASE i # 1
    <3>1. i - 1 \in 1..Len(u) /\ (i - 1) + 1 = i  BY <1>1, <1>3, <2>2
    <3>. QED  BY <1>1, <1>2, <3>1
  <2>. QED  BY <2>1, <2>2
<1>4. \A i \in 1..Len(u) : i + 1 \in 1..Len(s) /\ u[i] = s[i + 1]  BY <1>1
<1>5. 1 \in 1..Len(s)  BY <1>1
<1>6. Range(s) = {Head(s)} \cup Range(u)
  <2>1. Range(s) \subseteq {Head(s)} \cup Range(u)  BY <1>2, <1>3
  <2>2. Range(u) \subseteq Range(s)  BY <1>2, <1>4
  <2>3. Head(s) \in Range(s)  BY <1>1, <1>2, <1>5
  <2>. QED  BY <2>1, <2>2, <2>3
<1>. QED  BY <1>1, <1>6 DEF u

-----------------------------------------------------------------------------
(* What the programs consist of.                                           *)

Prog(s, R) == s \in Seq(Operations) /\ Range(s) = R

LEMMA NamesOK ==
  /\ {"5V", "3V3", "HUB_PWR", "PCIE_PWR", "USWITCH_OFF", "DISP_RESET_N", "DISP_BL_PWR",
      "DISP_1EN_2BL"} \subseteq ExtBits
  /\ {"1", "2", "3", "4"} \subseteq UswitchBits
  /\ {"1V1", "3V3", "5V", "DISP_RESET_N", "DISP_EN", "usb_loader", "modem", "modem_reset_n",
      "usb1_5v", "usb2_5v", Latch} \subseteq Pins
  /\ Latch = "usb2_5v"
BY DEF ExtBits, UswitchBits, Pins, LatchedPins, Latch

LEMMA PiecesOfOn ==
  /\ Prog(RailsOn, {gpio_ext_enable("5V"), gpio_ext_enable("3V3"), gpio_ext_enable("HUB_PWR"),
                    gpio_ext_enable("PCIE_PWR"), gpio_ext_disable("USWITCH_OFF")})
  /\ Prog(PeripheralsOn,
          {gpio_put("modem", TRUE), gpio_put("modem_reset_n", TRUE), gpio_put("DISP_EN", TRUE),
           gpio_ext_enable("DISP_RESET_N"), gpio_ext_enable("DISP_BL_PWR"),
           gpio_ext_enable("DISP_1EN_2BL"), <<"pulse", "resets", TRUE>>})
  /\ Prog(PinsOn,
          {gpio_put("1V1", TRUE), gpio_put("3V3", TRUE), gpio_put("5V", TRUE),
           gpio_put("modem_reset_n", TRUE), gpio_put("modem", TRUE),
           gpio_put("DISP_RESET_N", TRUE), gpio_put("DISP_EN", TRUE)})
<1>1. /\ \A b \in {"5V", "3V3", "HUB_PWR", "PCIE_PWR", "USWITCH_OFF", "DISP_RESET_N", "DISP_BL_PWR",
                    "DISP_1EN_2BL"} :
           gpio_ext_enable(b) \in Operations /\ gpio_ext_disable(b) \in Operations
      /\ \A p \in {"1V1", "3V3", "5V", "DISP_RESET_N", "DISP_EN", "modem", "modem_reset_n"} :
           gpio_put(p, TRUE) \in Operations
      /\ <<"pulse", "resets", TRUE>> \in Operations
  BY Operands, NamesOK
<1>. DEFINE pl == <<"pulse", "resets", TRUE>>
<1>. HIDE DEF pl
<1>2. pl \in Operations  BY <1>1 DEF pl
<1>3. Prog(RailsOn, {gpio_ext_enable("5V"), gpio_ext_enable("3V3"), gpio_ext_enable("HUB_PWR"),
                    gpio_ext_enable("PCIE_PWR"), gpio_ext_disable("USWITCH_OFF")})
  <2>. DEFINE a == gpio_ext_enable("5V")
              b == gpio_ext_enable("3V3")
              c == gpio_ext_enable("HUB_PWR")
              d == gpio_ext_enable("PCIE_PWR")
              e == gpio_ext_disable("USWITCH_OFF")
  <2>1. a \in Operations /\ b \in Operations /\ c \in Operations /\ d \in Operations
        /\ e \in Operations
    BY <1>1
  <2>. HIDE DEF a, b, c, d, e
  <2>2. Prog(<<a, b, c, d, e>>, {a, b, c, d, e})  BY <2>1, FiveOf DEF Prog
  <2>3. RailsOn = <<a, b, c, d, e>>  BY Zenon DEF a, b, c, d, e, RailsOn
  <2>. QED  BY Zenon, <2>2, <2>3 DEF a, b, c, d, e
<1>4. Prog(PeripheralsOn,
          {gpio_put("modem", TRUE), gpio_put("modem_reset_n", TRUE), gpio_put("DISP_EN", TRUE),
           gpio_ext_enable("DISP_RESET_N"), gpio_ext_enable("DISP_BL_PWR"),
           gpio_ext_enable("DISP_1EN_2BL"), pl})
  <2>. DEFINE a == gpio_put("modem", TRUE)
              b == gpio_put("modem_reset_n", TRUE)
              c == gpio_put("DISP_EN", TRUE)
              d == gpio_ext_enable("DISP_RESET_N")
              e == gpio_ext_enable("DISP_BL_PWR")
              f == gpio_ext_enable("DISP_1EN_2BL")
              g == pl
  <2>1. a \in Operations /\ b \in Operations /\ c \in Operations /\ d \in Operations
        /\ e \in Operations /\ f \in Operations /\ g \in Operations
    BY <1>1, <1>2
  <2>. HIDE DEF a, b, c, d, e, f, g
  <2>2. Prog(<<a, b, c, d, e, f, g>>, {a, b, c, d, e, f, g})
    BY <2>1 DEF Prog, Range
  <2>3. PeripheralsOn = <<a, b, c, d, e, f, g>>  BY Zenon DEF a, b, c, d, e, f, g, PeripheralsOn, pl
  <2>. QED  BY Zenon, <2>2, <2>3 DEF a, b, c, d, e, f, g
<1>5. Prog(PinsOn,
          {gpio_put("1V1", TRUE), gpio_put("3V3", TRUE), gpio_put("5V", TRUE),
           gpio_put("modem_reset_n", TRUE), gpio_put("modem", TRUE),
           gpio_put("DISP_RESET_N", TRUE), gpio_put("DISP_EN", TRUE)})
  <2>. DEFINE a == gpio_put("1V1", TRUE)
              b == gpio_put("3V3", TRUE)
              c == gpio_put("5V", TRUE)
              d == gpio_put("modem_reset_n", TRUE)
              e == gpio_put("modem", TRUE)
              f == gpio_put("DISP_RESET_N", TRUE)
              g == gpio_put("DISP_EN", TRUE)
  <2>1. a \in Operations /\ b \in Operations /\ c \in Operations /\ d \in Operations
        /\ e \in Operations /\ f \in Operations /\ g \in Operations
    BY <1>1
  <2>. HIDE DEF a, b, c, d, e, f, g
  <2>2. Prog(<<a, b, c, d, e, f, g>>, {a, b, c, d, e, f, g})
    BY <2>1 DEF Prog, Range
  <2>3. PinsOn = <<a, b, c, d, e, f, g>>  BY Zenon DEF a, b, c, d, e, f, g, PinsOn
  <2>. QED  BY Zenon, <2>2, <2>3 DEF a, b, c, d, e, f, g
<1>. QED  BY <1>3, <1>4, <1>5 DEF pl

LEMMA PiecesOfOff ==
  /\ Prog(RailsOff, {gpio_ext_disable("5V"), gpio_ext_disable("3V3"), gpio_ext_disable("HUB_PWR"),
                     gpio_ext_disable("PCIE_PWR"), gpio_ext_disable("USWITCH_OFF")})
  /\ Prog(PeripheralsOff,
          {gpio_put("modem", FALSE), gpio_put("modem_reset_n", FALSE),
           gpio_ext_disable("DISP_RESET_N"), gpio_ext_disable("DISP_BL_PWR"),
           gpio_ext_disable("DISP_1EN_2BL")})
  /\ Prog(PinsOff,
          {gpio_put("DISP_RESET_N", FALSE), gpio_put("DISP_EN", FALSE),
           gpio_put("modem_reset_n", FALSE), gpio_put("modem", FALSE),
           gpio_put("5V", FALSE), gpio_put("3V3", FALSE), gpio_put("1V1", FALSE)})
<1>1. /\ \A b \in {"5V", "3V3", "HUB_PWR", "PCIE_PWR", "USWITCH_OFF", "DISP_RESET_N", "DISP_BL_PWR",
                    "DISP_1EN_2BL"} :
           gpio_ext_disable(b) \in Operations
      /\ \A p \in {"1V1", "3V3", "5V", "DISP_RESET_N", "DISP_EN", "modem", "modem_reset_n"} :
           gpio_put(p, FALSE) \in Operations
  BY Operands, NamesOK
<1>2. Prog(RailsOff, {gpio_ext_disable("5V"), gpio_ext_disable("3V3"), gpio_ext_disable("HUB_PWR"),
                     gpio_ext_disable("PCIE_PWR"), gpio_ext_disable("USWITCH_OFF")})
  <2>. DEFINE a == gpio_ext_disable("5V")
              b == gpio_ext_disable("3V3")
              c == gpio_ext_disable("HUB_PWR")
              d == gpio_ext_disable("PCIE_PWR")
              e == gpio_ext_disable("USWITCH_OFF")
  <2>1. a \in Operations /\ b \in Operations /\ c \in Operations /\ d \in Operations
        /\ e \in Operations
    BY <1>1
  <2>. HIDE DEF a, b, c, d, e
  <2>2. Prog(<<a, b, c, d, e>>, {a, b, c, d, e})  BY <2>1, FiveOf DEF Prog
  <2>3. RailsOff = <<a, b, c, d, e>>  BY Zenon DEF a, b, c, d, e, RailsOff
  <2>. QED  BY Zenon, <2>2, <2>3 DEF a, b, c, d, e
<1>3. Prog(PeripheralsOff,
          {gpio_put("modem", FALSE), gpio_put("modem_reset_n", FALSE),
           gpio_ext_disable("DISP_RESET_N"), gpio_ext_disable("DISP_BL_PWR"),
           gpio_ext_disable("DISP_1EN_2BL")})
  <2>. DEFINE a == gpio_put("modem", FALSE)
              b == gpio_put("modem_reset_n", FALSE)
              c == gpio_ext_disable("DISP_RESET_N")
              d == gpio_ext_disable("DISP_BL_PWR")
              e == gpio_ext_disable("DISP_1EN_2BL")
  <2>1. a \in Operations /\ b \in Operations /\ c \in Operations /\ d \in Operations
        /\ e \in Operations
    BY <1>1
  <2>. HIDE DEF a, b, c, d, e
  <2>2. Prog(<<a, b, c, d, e>>, {a, b, c, d, e})  BY <2>1, FiveOf DEF Prog
  <2>3. PeripheralsOff = <<a, b, c, d, e>>  BY Zenon DEF a, b, c, d, e, PeripheralsOff
  <2>. QED  BY Zenon, <2>2, <2>3 DEF a, b, c, d, e
<1>4. Prog(PinsOff,
          {gpio_put("DISP_RESET_N", FALSE), gpio_put("DISP_EN", FALSE),
           gpio_put("modem_reset_n", FALSE), gpio_put("modem", FALSE),
           gpio_put("5V", FALSE), gpio_put("3V3", FALSE), gpio_put("1V1", FALSE)})
  <2>. DEFINE a == gpio_put("DISP_RESET_N", FALSE)
              b == gpio_put("DISP_EN", FALSE)
              c == gpio_put("modem_reset_n", FALSE)
              d == gpio_put("modem", FALSE)
              e == gpio_put("5V", FALSE)
              f == gpio_put("3V3", FALSE)
              g == gpio_put("1V1", FALSE)
  <2>1. a \in Operations /\ b \in Operations /\ c \in Operations /\ d \in Operations
        /\ e \in Operations /\ f \in Operations /\ g \in Operations
    BY <1>1
  <2>. HIDE DEF a, b, c, d, e, f, g
  <2>2. Prog(<<a, b, c, d, e, f, g>>, {a, b, c, d, e, f, g})
    BY <2>1 DEF Prog, Range
  <2>3. PinsOff = <<a, b, c, d, e, f, g>>  BY Zenon DEF a, b, c, d, e, f, g, PinsOff
  <2>. QED  BY Zenon, <2>2, <2>3 DEF a, b, c, d, e, f, g
<1>. QED  BY <1>2, <1>3, <1>4

(* The flags and the rail that the invariant is about; the others are what *)
(* finding out about the board works on and the enabling of the interrupt. *)
Targets == {"5V", "som_is_powered", "boot_magic"}

Touches(op) == op[2] \in Targets \cup {"ext", "board", "irq"}

Quiet(s) == s \in Seq(Operations) /\ \A op \in Range(s) : ~Touches(op)

LEMMA QuietJoined ==
  ASSUME NEW s, NEW t, Quiet(s), Quiet(t)
  PROVE  Quiet(s \o t)
BY Joined DEF Quiet

LEMMA QuietOps ==
  ASSUME NEW op, \/ \E b \in ExtBits \ {"5V"}, high \in BOOLEAN : op = <<"ext", b, high>>
                 \/ \E b \in UswitchBits, high \in BOOLEAN : op = <<"uswitch", b, high>>
                 \/ \E p \in Pins \ {"5V"}, high \in BOOLEAN : op = <<"pin", p, high>>
                 \/ \E high \in BOOLEAN : op = <<"usb_default", "port2", high>>
                 \/ \E high \in BOOLEAN : op = <<"pulse", "resets", high>>
                 \/ \E high \in BOOLEAN : op = <<"setup", "uswitch", high>>
  PROVE  op \in Operations /\ ~Touches(op)
BY DEF Operations, Flags, Touches, Targets, ExtBits, UswitchBits, Pins, LatchedPins

LEMMA QuietLiterals ==
  ASSUME NEW a \in Operations, NEW b \in Operations, NEW c \in Operations, NEW d \in Operations,
         ~Touches(a), ~Touches(b), ~Touches(c), ~Touches(d)
  PROVE  /\ Quiet(<<>>) /\ Quiet(<<a>>) /\ Quiet(<<a, b>>) /\ Quiet(<<a, b, c>>)
         /\ Quiet(<<a, b, c, d>>)
<1>1. Quiet(<<>>)  BY DEF Quiet, Range
<1>. QED  BY <1>1, OneOf, TwoOf, ThreeOf, FourOf DEF Quiet

LEMMA QuietUsb ==
  ASSUME NEW port \in {0, 1}, NEW mode \in Garbage
  PROVE  Quiet(set_usb_mode(port, mode))
<1>1. \A b \in {"1", "2", "3", "4"}, high \in BOOLEAN :
        uswitch(b, high) \in Operations /\ ~Touches(uswitch(b, high))
  BY Operands, NamesOK, QuietOps DEF UswitchBits
<1>2. \A high \in BOOLEAN : /\ usb_host_5v_set(high) \in Operations
                            /\ ~Touches(usb_host_5v_set(high))
  <2>. TAKE high \in BOOLEAN
  <2>1. \E p \in {"usb1_5v", "usb2_5v"} : usb_host_5v_set(high) = <<"pin", p, high>>
    BY Operands, NamesOK DEF usb_host_5v_set
  <2>. QED  BY <2>1, NamesOK, QuietOps
<1>. DEFINE h0 == usb_host_5v_set(FALSE)  h1 == usb_host_5v_set(TRUE)
            u(b, v) == uswitch(b, v)
<1>3. /\ h0 \in Operations /\ ~Touches(h0) /\ h1 \in Operations /\ ~Touches(h1)
      /\ \A b \in {"1", "2", "3", "4"} : /\ uswitch(b, TRUE) \in Operations /\ ~Touches(uswitch(b, TRUE))
                                         /\ uswitch(b, FALSE) \in Operations /\ ~Touches(uswitch(b, FALSE))
  BY <1>1, <1>2
<1>. HIDE DEF h0, h1
<1>4. /\ Quiet(<<h0, uswitch("1", TRUE), uswitch("2", TRUE), uswitch("3", TRUE)>>)
      /\ Quiet(<<uswitch("1", FALSE), uswitch("2", FALSE), uswitch("3", FALSE), h1>>)
      /\ Quiet(<<h0, uswitch("1", TRUE), uswitch("2", FALSE), uswitch("3", TRUE)>>)
      /\ Quiet(<<uswitch("4", TRUE)>>) /\ Quiet(<<uswitch("4", FALSE)>>) /\ Quiet(<<>>)
  BY <1>3, QuietLiterals
<1>. QED  BY <1>4 DEF set_usb_mode, h0, h1

LEMMA QuietPulse == Quiet(pulse)
<1>. DEFINE a(high) == IF mb_version < 2 THEN gpio_put("DISP_RESET_N", high)
                                         ELSE <<"ext", "DISP_RESET_N", high>>
<1>1. \A high \in BOOLEAN : a(high) \in Operations /\ ~Touches(a(high))
  BY Operands, NamesOK, QuietOps
<1>2. \A high \in BOOLEAN : /\ gpio_put("modem_reset_n", high) \in Operations
                            /\ ~Touches(gpio_put("modem_reset_n", high))
  BY Operands, NamesOK, QuietOps
<1>. DEFINE a0 == a(FALSE)  a1 == a(TRUE)
<1>3. pulse = <<a0, gpio_put("modem_reset_n", FALSE), a1, gpio_put("modem_reset_n", TRUE)>>
  BY Zenon DEF pulse
<1>4. a0 \in Operations /\ ~Touches(a0) /\ a1 \in Operations /\ ~Touches(a1)  BY <1>1
<1>. HIDE DEF a0, a1, a
<1>. QED  BY <1>2, <1>3, <1>4, QuietLiterals

LEMMA QuietDisplay ==
  ASSUME NEW bit \in ExtBits \ {"5V"}, NEW pin \in Pins \ {"5V"}, NEW high \in BOOLEAN
  PROVE  Quiet(Display(bit, pin, high)) /\ Display(bit, pin, high) # <<>>
<1>. DEFINE e == <<"ext", bit, high>>
<1>1. /\ gpio_put(pin, high) \in Operations /\ ~Touches(gpio_put(pin, high))
      /\ gpio_put(Latch, TRUE) \in Operations /\ ~Touches(gpio_put(Latch, TRUE))
      /\ gpio_put(Latch, FALSE) \in Operations /\ ~Touches(gpio_put(Latch, FALSE))
      /\ e \in Operations /\ ~Touches(e)
  BY Operands, NamesOK, QuietOps
<1>. HIDE DEF e
<1>2. Quiet(<<gpio_put(pin, high), gpio_put(Latch, TRUE), gpio_put(Latch, FALSE)>>) /\ Quiet(<<e>>)
  BY <1>1, QuietLiterals
<1>3. Quiet(Display(bit, pin, high))
  BY Zenon, <1>2 DEF Display, e
<1>4. Display(bit, pin, high) # <<>>
  BY DEF Display
<1>. QED  BY <1>3, <1>4

(* All commands but power off and on leave the flags and the 5 V rail be.  *)
LEMMA QuietPrograms ==
  ASSUME NEW c \in Commands \ PowerCommands
  PROVE  Quiet(Program(c)) /\ Program(c) # <<>>
<1>. DEFINE ok(s) == Quiet(s) /\ s # <<>>
<1>. DEFINE e(b, high) == <<"ext", b, high>>
<1>1. \A b \in ExtBits \ {"5V"}, high \in BOOLEAN : e(b, high) \in Operations /\ ~Touches(e(b, high))
  BY QuietOps
<1>2. /\ gpio_ext_enable("3V3") = e("3V3", TRUE) /\ gpio_ext_disable("3V3") = e("3V3", FALSE)
      /\ gpio_ext_enable("HUB_PWR") = e("HUB_PWR", TRUE) /\ gpio_ext_disable("HUB_PWR") = e("HUB_PWR", FALSE)
      /\ gpio_ext_enable("DISP_BL_PWR") = e("DISP_BL_PWR", TRUE)
      /\ gpio_ext_disable("DISP_BL_PWR") = e("DISP_BL_PWR", FALSE)
      /\ gpio_ext_enable("DISP_RESET_N") = e("DISP_RESET_N", TRUE)
      /\ gpio_ext_disable("DISP_RESET_N") = e("DISP_RESET_N", FALSE)
  BY DEF gpio_ext_enable, gpio_ext_disable
<1>3. {"3V3", "HUB_PWR", "PCIE_PWR", "USWITCH_OFF", "DISP_RESET_N", "DISP_BL_PWR", "DISP_1EN_2BL"}
        \subseteq ExtBits \ {"5V"}
  BY DEF ExtBits
<1>. HIDE DEF e
<1>4. ok(som_wake) /\ ok(hwapi_soc_pre_suspend) /\ ok(hwapi_soc_post_suspend)
  <2>1. /\ Quiet(som_wake) /\ Quiet(hwapi_soc_pre_suspend) /\ Quiet(hwapi_soc_post_suspend)
    BY <1>1, <1>2, <1>3, QuietLiterals DEF som_wake, hwapi_soc_pre_suspend, hwapi_soc_post_suspend
  <2>2. som_wake # <<>> /\ hwapi_soc_pre_suspend # <<>> /\ hwapi_soc_post_suspend # <<>>
    BY DEF som_wake, hwapi_soc_pre_suspend, hwapi_soc_post_suspend
  <2>. QED  BY <2>1, <2>2
<1>5. /\ ok(set_usb_mode(0, 0) \o set_usb_mode(1, 0)) /\ ok(set_usb_mode(0, 1) \o set_usb_mode(1, 1))
      /\ ok(set_usb_mode(0, 0) \o set_usb_mode(1, 2))
  <2>1. set_usb_mode(0, 0) # <<>> /\ set_usb_mode(0, 1) # <<>>  BY DEF set_usb_mode
  <2>2. /\ Quiet(set_usb_mode(0, 0)) /\ Quiet(set_usb_mode(1, 0)) /\ Quiet(set_usb_mode(0, 1))
        /\ Quiet(set_usb_mode(1, 1)) /\ Quiet(set_usb_mode(1, 2))
    BY QuietUsb DEF Garbage
  <2>. QED  BY <2>1, <2>2, QuietJoined, Joined DEF Quiet
<1>6. ASSUME NEW id \in GpioIds, NEW high \in BOOLEAN PROVE ok(hwapi_set_gpio(id, high))
  <2>1. CASE id \in {0, 9}
    <3>1. {"DISP_RESET_N", "DISP_EN"} \subseteq Pins \ {"5V"}  BY DEF Pins, LatchedPins
    <3>. QED  BY <1>3, <2>1, <3>1, QuietDisplay DEF hwapi_set_gpio
  <2>2. CASE id \in {1, 2, 3, 4, 5}
    <3>1. PICK b \in ExtBits \ {"5V"} : hwapi_set_gpio(id, high) = <<e(b, high)>>
      BY <1>3, <2>2 DEF hwapi_set_gpio, e
    <3>2. Quiet(<<e(b, high)>>)  BY <1>1, QuietLiterals
    <3>. QED  BY <3>1, <3>2
  <2>3. CASE id = 7
    <3>1. PICK p \in Pins \ {"5V"} : usb_host_5v_set(high) = <<"pin", p, high>>
      BY Operands, NamesOK DEF usb_host_5v_set
    <3>2. hwapi_set_gpio(id, high) = <<usb_host_5v_set(high)>>  BY <2>3 DEF hwapi_set_gpio
    <3>3. usb_host_5v_set(high) \in Operations /\ ~Touches(usb_host_5v_set(high))
      BY <3>1, QuietOps
    <3>4. Quiet(<<usb_host_5v_set(high)>>)  BY Zenon, <3>3, QuietLiterals
    <3>. QED  BY <3>2, <3>4
  <2>. QED  BY <2>1, <2>2, <2>3 DEF GpioIds
<1>7. CASE c \in {<<"1w">>, <<"soc-susp">>, <<"soc-psus">>}
  BY <1>4, <1>7 DEF Program
<1>8. CASE c \in {<<"usb-sc">>, <<"usb-host">>, <<"usb-edl">>}
  BY <1>5, <1>8 DEF Program
<1>9. ASSUME NEW id \in GpioIds, NEW high \in BOOLEAN, c = <<"set-gpio", id, high>>
      PROVE  ok(Program(c))
  <2>1. Program(c) = hwapi_set_gpio(id, high)  BY <1>9 DEF Program
  <2>. QED  BY <1>6, <2>1
<1>. QED  BY <1>7, <1>8, <1>9 DEF Commands, PowerCommands

-----------------------------------------------------------------------------
(* Where the operations stand. On motherboard 1.0 the pins show at the     *)
(* rails when the latch is raised after the last change of the 5 V pin.    *)
LatchOn == gpio_put(Latch, TRUE)

NoFive(s) == \A op \in Range(s) : op[2] # "5V"
NoMagic(s) == \A op \in Range(s) : op[2] # "boot_magic"

Latches(s) == \E i \in 1..Len(s) :
  s[i] = LatchOn /\ \A j \in 1..Len(s) : s[j][2] = "5V" => j < i

(* The magic is set before the rail is switched.                           *)
MagicFirst(s) == \A i, j \in 1..Len(s) :
  s[i][2] = "boot_magic" /\ s[j][2] = "5V" => i < j

LEMMA Standing ==
  ASSUME NEW s \in Seq(Operations)
  PROVE  /\ \A i \in 1..Len(s) : s[i] \in Range(s)
         /\ \A op \in Range(s) : \E i \in 1..Len(s) : s[i] = op
<1>1. Range(s) = {s[i] : i \in 1..Len(s)}  BY RangeEquality
<1>. QED  BY <1>1

LEMMA LatchesJoined ==
  ASSUME NEW s \in Seq(Operations), NEW t \in Seq(Operations)
  PROVE  /\ LatchOn \in Range(t) /\ NoFive(t) => Latches(s \o t)
         /\ Latches(s) /\ NoFive(t) => Latches(s \o t)
         /\ NoFive(s) /\ Latches(t) => Latches(s \o t)
<1>. DEFINE u == s \o t
<1>1. /\ Len(s) \in Nat /\ Len(t) \in Nat /\ Len(u) = Len(s) + Len(t)
      /\ \A i \in 1..Len(s) : u[i] = s[i]
      /\ \A i \in 1..Len(t) : u[Len(s) + i] = t[i]
  BY Joined
<1>. HIDE DEF u
<1>2. \A j \in 1..Len(u) : \/ j \in 1..Len(s) /\ u[j] = s[j]
                           \/ \E k \in 1..Len(t) : j = Len(s) + k /\ u[j] = t[k]
  <2>. TAKE j \in 1..Len(u)
  <2>1. CASE j <= Len(s)  BY <1>1, <2>1
  <2>2. CASE j > Len(s)
    <3>1. j - Len(s) \in 1..Len(t) /\ j = Len(s) + (j - Len(s))  BY <1>1, <2>2
    <3>. QED  BY <1>1, <3>1
  <2>. QED  BY <1>1, <2>1, <2>2
<1>3. ASSUME LatchOn \in Range(t), NoFive(t) PROVE Latches(u)
  <2>1. PICK i \in 1..Len(t) : t[i] = LatchOn  BY <1>3, Standing
  <2>2. Len(s) + i \in 1..Len(u) /\ u[Len(s) + i] = LatchOn  BY <1>1, <2>1
  <2>3. ASSUME NEW j \in 1..Len(u), u[j][2] = "5V" PROVE j < Len(s) + i
    <3>1. \A k \in 1..Len(t) : t[k][2] # "5V"  BY <1>3, Standing DEF NoFive
    <3>2. j \in 1..Len(s)  BY <1>2, <2>3, <3>1
    <3>. QED  BY <1>1, <3>2
  <2>. QED  BY <2>2, <2>3 DEF Latches
<1>4. ASSUME Latches(s), NoFive(t) PROVE Latches(u)
  <2>1. PICK i \in 1..Len(s) : s[i] = LatchOn /\ \A j \in 1..Len(s) : s[j][2] = "5V" => j < i
    BY <1>4 DEF Latches
  <2>2. i \in 1..Len(u) /\ u[i] = LatchOn  BY <1>1, <2>1
  <2>3. ASSUME NEW j \in 1..Len(u), u[j][2] = "5V" PROVE j < i
    <3>1. \A k \in 1..Len(t) : t[k][2] # "5V"  BY <1>4, Standing DEF NoFive
    <3>2. j \in 1..Len(s) /\ u[j] = s[j]  BY <1>2, <2>3, <3>1
    <3>. QED  BY <2>1, <2>3, <3>2
  <2>. QED  BY <2>2, <2>3 DEF Latches
<1>5. ASSUME NoFive(s), Latches(t) PROVE Latches(u)
  <2>1. PICK i \in 1..Len(t) : t[i] = LatchOn /\ \A j \in 1..Len(t) : t[j][2] = "5V" => j < i
    BY <1>5 DEF Latches
  <2>2. Len(s) + i \in 1..Len(u) /\ u[Len(s) + i] = LatchOn  BY <1>1, <2>1
  <2>3. ASSUME NEW j \in 1..Len(u), u[j][2] = "5V" PROVE j < Len(s) + i
    <3>1. \A k \in 1..Len(s) : s[k][2] # "5V"  BY <1>5, Standing DEF NoFive
    <3>2. PICK k \in 1..Len(t) : j = Len(s) + k /\ u[j] = t[k]  BY <1>2, <2>3, <3>1
    <3>3. k < i  BY <2>1, <2>3, <3>2
    <3>. QED  BY <1>1, <3>2, <3>3
  <2>. QED  BY <2>2, <2>3 DEF Latches
<1>. QED  BY <1>3, <1>4, <1>5 DEF u

LEMMA LatchesTail ==
  ASSUME NEW s \in Seq(Operations), s # <<>>, Latches(s)
  PROVE  Latches(Tail(s)) \/ (Head(s) = LatchOn /\ NoFive(s))
<1>. DEFINE u == Tail(s)
<1>1. /\ Head(s) = s[1] /\ Len(s) \in Nat /\ Len(s) >= 1 /\ Len(u) = Len(s) - 1
      /\ \A i \in 1..Len(u) : u[i] = s[i + 1]
  BY Begun
<1>. HIDE DEF u
<1>2. PICK i \in 1..Len(s) : s[i] = LatchOn /\ \A j \in 1..Len(s) : s[j][2] = "5V" => j < i
  BY DEF Latches
<1>3. CASE i = 1
  <2>1. \A j \in 1..Len(s) : s[j][2] # "5V"  BY <1>1, <1>2, <1>3
  <2>2. NoFive(s)  BY <2>1, Standing DEF NoFive
  <2>. QED  BY <1>1, <1>2, <1>3, <2>2
<1>4. CASE i # 1
  <2>1. i - 1 \in 1..Len(u) /\ u[i - 1] = LatchOn
    <3>1. i - 1 \in 1..Len(u) /\ (i - 1) + 1 = i  BY <1>1, <1>4
    <3>. QED  BY <1>1, <1>2, <3>1
  <2>2. ASSUME NEW j \in 1..Len(u), u[j][2] = "5V" PROVE j < i - 1
    <3>1. j + 1 \in 1..Len(s) /\ s[j + 1][2] = "5V"  BY <1>1, <2>2
    <3>2. j + 1 < i  BY <1>2, <3>1
    <3>. QED  BY <3>2
  <2>. QED  BY <2>1, <2>2 DEF Latches, u
<1>. QED  BY <1>3, <1>4

LEMMA MagicJoined ==
  ASSUME NEW s \in Seq(Operations), NEW t \in Seq(Operations)
  PROVE  /\ NoFive(s) => MagicFirst(s)
         /\ MagicFirst(s) /\ NoMagic(t) => MagicFirst(s \o t)
         /\ NoFive(s) /\ MagicFirst(t) => MagicFirst(s \o t)
<1>. DEFINE u == s \o t
<1>1. /\ Len(s) \in Nat /\ Len(t) \in Nat /\ Len(u) = Len(s) + Len(t)
      /\ \A i \in 1..Len(s) : u[i] = s[i]
      /\ \A i \in 1..Len(t) : u[Len(s) + i] = t[i]
  BY Joined
<1>. HIDE DEF u
<1>2. \A j \in 1..Len(u) : \/ j \in 1..Len(s) /\ u[j] = s[j]
                           \/ \E k \in 1..Len(t) : j = Len(s) + k /\ u[j] = t[k]
  <2>. TAKE j \in 1..Len(u)
  <2>1. CASE j <= Len(s)  BY <1>1, <2>1
  <2>2. CASE j > Len(s)
    <3>1. j - Len(s) \in 1..Len(t) /\ j = Len(s) + (j - Len(s))  BY <1>1, <2>2
    <3>. QED  BY <1>1, <3>1
  <2>. QED  BY <1>1, <2>1, <2>2
<1>3. NoFive(s) => MagicFirst(s)  BY Standing DEF NoFive, MagicFirst
<1>4. ASSUME MagicFirst(s), NoMagic(t),
             NEW i \in 1..Len(u), NEW j \in 1..Len(u), u[i][2] = "boot_magic", u[j][2] = "5V"
      PROVE  i < j
  <2>1. \A k \in 1..Len(t) : t[k][2] # "boot_magic"  BY <1>4, Standing DEF NoMagic
  <2>2. i \in 1..Len(s) /\ u[i] = s[i]  BY <1>2, <1>4, <2>1
  <2>3. CASE j \in 1..Len(s) /\ u[j] = s[j]  BY <1>4, <2>2, <2>3 DEF MagicFirst
  <2>4. CASE \E k \in 1..Len(t) : j = Len(s) + k  BY <1>1, <2>2, <2>4
  <2>. QED  BY <1>2, <2>3, <2>4
<1>5. ASSUME NoFive(s), MagicFirst(t),
             NEW i \in 1..Len(u), NEW j \in 1..Len(u), u[i][2] = "boot_magic", u[j][2] = "5V"
      PROVE  i < j
  <2>1. \A k \in 1..Len(s) : s[k][2] # "5V"  BY <1>5, Standing DEF NoFive
  <2>2. PICK k \in 1..Len(t) : j = Len(s) + k /\ u[j] = t[k]  BY <1>2, <1>5, <2>1
  <2>3. CASE i \in 1..Len(s)  BY <1>1, <2>2, <2>3
  <2>4. ASSUME NEW l \in 1..Len(t), i = Len(s) + l, u[i] = t[l] PROVE i < j
    <3>1. l < k  BY <1>5, <2>2, <2>4 DEF MagicFirst
    <3>. QED  BY <1>1, <2>2, <2>4, <3>1
  <2>. QED  BY <1>2, <2>3, <2>4
<1>. QED  BY <1>3, <1>4, <1>5 DEF MagicFirst, u

LEMMA MagicTail ==
  ASSUME NEW s \in Seq(Operations), s # <<>>, MagicFirst(s)
  PROVE  MagicFirst(Tail(s)) /\ (Head(s)[2] = "5V" => NoMagic(s))
<1>. DEFINE u == Tail(s)
<1>1. /\ Head(s) = s[1] /\ Len(s) \in Nat /\ Len(s) >= 1 /\ Len(u) = Len(s) - 1
      /\ \A i \in 1..Len(u) : u[i] = s[i + 1]
  BY Begun
<1>. HIDE DEF u
<1>2. ASSUME NEW i \in 1..Len(u), NEW j \in 1..Len(u), u[i][2] = "boot_magic", u[j][2] = "5V"
      PROVE  i < j
  <2>1. i + 1 \in 1..Len(s) /\ j + 1 \in 1..Len(s) /\ u[i] = s[i + 1] /\ u[j] = s[j + 1]  BY <1>1
  <2>2. i + 1 < j + 1  BY <1>2, <2>1 DEF MagicFirst
  <2>. QED  BY <2>2
<1>3. ASSUME Head(s)[2] = "5V", NEW i \in 1..Len(s) PROVE s[i][2] # "boot_magic"
  <2>1. 1 \in 1..Len(s) /\ ~(i < 1)  BY <1>1
  <2>. QED  BY <1>1, <1>3, <2>1 DEF MagicFirst
<1>. QED  BY <1>2, <1>3, Standing DEF MagicFirst, NoMagic, u

-----------------------------------------------------------------------------
(* Power on and off, and the boot: each switches both flags and the rail,  *)
(* and none of them the other way.                                         *)
Pure(s, v) == \A op \in Range(s) : Touches(op) => op[2] \in Targets /\ op[3] = v

FiveOp(v) == IF board = 1 THEN gpio_put("5V", v) ELSE <<"ext", "5V", v>>

Full(s, v) ==
  /\ Pure(s, v)
  /\ {Flag("som_is_powered", v), Flag("boot_magic", v), FiveOp(v)} \subseteq Range(s)
  /\ board = 1 => Latches(s)

(* What pieces do, whose names end on the board they are for.              *)
Piece(s, v) == s \in Seq(Operations) /\ Pure(s, v)

LEMMA PiecesJoined ==
  ASSUME NEW s, NEW t, NEW v, Piece(s, v), Piece(t, v)
  PROVE  /\ Piece(s \o t, v) /\ Range(s \o t) = Range(s) \cup Range(t)
         /\ MagicFirst(s) /\ NoMagic(t) => MagicFirst(s \o t)
         /\ NoFive(s) /\ MagicFirst(t) => MagicFirst(s \o t)
         /\ NoFive(s) => MagicFirst(s)
         /\ s # <<>> => s \o t # <<>> /\ Head(s \o t) = Head(s)
         /\ LatchOn \in Range(t) /\ NoFive(t) => Latches(s \o t)
         /\ Latches(s) /\ NoFive(t) => Latches(s \o t)
         /\ NoFive(s) /\ Latches(t) => Latches(s \o t)
<1>1. s \in Seq(Operations) /\ t \in Seq(Operations)  BY DEF Piece
<1>2. s \o t \in Seq(Operations) /\ Range(s \o t) = Range(s) \cup Range(t)  BY <1>1, Joined
<1>3. Piece(s \o t, v)  BY <1>2 DEF Piece, Pure
<1>4. s # <<>> => s \o t # <<>> /\ Head(s \o t) = Head(s)  BY <1>1, Joined
<1>. QED  BY Zenon, <1>1, <1>2, <1>3, <1>4, MagicJoined, LatchesJoined

LEMMA QuietPieces ==
  ASSUME NEW s, NEW v, Quiet(s)
  PROVE  Piece(s, v) /\ NoFive(s) /\ NoMagic(s)
BY DEF Quiet, Piece, Pure, NoFive, NoMagic, Touches, Targets

LEMMA LiteralPieces ==
  ASSUME NEW v, NEW a \in Operations, NEW b \in Operations, NEW c \in Operations, NEW d \in Operations,
         Touches(a) => a[2] \in Targets /\ a[3] = v, Touches(b) => b[2] \in Targets /\ b[3] = v,
         Touches(c) => c[2] \in Targets /\ c[3] = v, Touches(d) => d[2] \in Targets /\ d[3] = v
  PROVE  Piece(<<a>>, v) /\ Piece(<<a, b>>, v) /\ Piece(<<a, b, c>>, v) /\ Piece(<<a, b, c, d>>, v)
BY OneOf, TwoOf, ThreeOf, FourOf DEF Piece, Pure

LEMMA OnPieces ==
  /\ Piece(RailsOn, TRUE) /\ NoMagic(RailsOn) /\ <<"ext", "5V", TRUE>> \in Range(RailsOn)
  /\ Quiet(PeripheralsOn)
  /\ Piece(PinsOn, TRUE) /\ NoMagic(PinsOn) /\ gpio_put("5V", TRUE) \in Range(PinsOn)
<1>1. Piece(RailsOn, TRUE) /\ NoMagic(RailsOn) /\ <<"ext", "5V", TRUE>> \in Range(RailsOn)
  BY PiecesOfOn DEF Prog, Piece, Pure, NoMagic, Touches, Targets, gpio_ext_enable, gpio_ext_disable
<1>2. Quiet(PeripheralsOn)
  BY PiecesOfOn DEF Prog, Quiet, Touches, Targets, gpio_ext_enable, gpio_put
<1>3. Piece(PinsOn, TRUE) /\ NoMagic(PinsOn) /\ gpio_put("5V", TRUE) \in Range(PinsOn)
  BY PiecesOfOn DEF Prog, Piece, Pure, NoMagic, Touches, Targets, gpio_put
<1>. QED  BY <1>1, <1>2, <1>3

LEMMA OffPieces ==
  /\ Piece(RailsOff, FALSE) /\ <<"ext", "5V", FALSE>> \in Range(RailsOff)
  /\ Quiet(PeripheralsOff)
  /\ Piece(PinsOff, FALSE) /\ gpio_put("5V", FALSE) \in Range(PinsOff)
<1>1. Piece(RailsOff, FALSE) /\ <<"ext", "5V", FALSE>> \in Range(RailsOff)
  BY PiecesOfOff DEF Prog, Piece, Pure, Touches, Targets, gpio_ext_disable
<1>2. Quiet(PeripheralsOff)
  BY PiecesOfOff DEF Prog, Quiet, Touches, Targets, gpio_ext_disable, gpio_put
<1>3. Piece(PinsOff, FALSE) /\ gpio_put("5V", FALSE) \in Range(PinsOff)
  BY PiecesOfOff DEF Prog, Piece, Pure, Touches, Targets, gpio_put
<1>. QED  BY <1>1, <1>2, <1>3

LEMMA SomeOps ==
  /\ \A f \in Flags, v \in BOOLEAN : /\ Flag(f, v) \in Operations
                                     /\ Flag(f, v)[2] = f /\ Flag(f, v)[3] = v
  /\ \A p \in Pins \ {"5V"}, v \in BOOLEAN : /\ gpio_put(p, v) \in Operations
                                             /\ gpio_put(p, v)[2] = p
                                             /\ ~Touches(gpio_put(p, v))
BY Operands, QuietOps DEF Flag, gpio_put

LEMMA On20 ==
  LET s == turn_som_power_on_v20 IN
    /\ Piece(s, TRUE) /\ s # <<>> /\ MagicFirst(s)
    /\ {Flag("som_is_powered", TRUE), Flag("boot_magic", TRUE), <<"ext", "5V", TRUE>>} \subseteq Range(s)
<1>. DEFINE magic == Flag("boot_magic", TRUE)  loader == gpio_put("usb_loader", TRUE)
            som == Flag("som_is_powered", TRUE)
            A == <<magic, loader>>  D == <<som>>  E == set_usb_mode(1, 1)
<1>1. /\ magic \in Operations /\ magic[2] = "boot_magic" /\ magic[3] = TRUE
      /\ som \in Operations /\ som[2] = "som_is_powered" /\ som[3] = TRUE
      /\ loader \in Operations /\ loader[2] = "usb_loader" /\ ~Touches(loader)
  BY SomeOps, NamesOK DEF Flags
<1>. HIDE DEF magic, loader, som
<1>2. Piece(A, TRUE) /\ Range(A) = {magic, loader} /\ A # <<>>
  <2>1. Piece(A, TRUE)  BY <1>1, LiteralPieces DEF Targets
  <2>2. Range(A) = {magic, loader} /\ A # <<>>  BY <1>1, TwoOf
  <2>. QED  BY <2>1, <2>2
<1>3. Piece(D, TRUE) /\ Range(D) = {som}
  BY <1>1, LiteralPieces, OneOf DEF Targets
<1>4. NoFive(A) /\ NoMagic(D)  BY <1>1, <1>2, <1>3 DEF NoFive, NoMagic
<1>5. Piece(E, TRUE) /\ NoMagic(E)  BY QuietUsb, QuietPieces DEF Garbage
<1>6. Piece(PeripheralsOn, TRUE) /\ NoMagic(PeripheralsOn)  BY OnPieces, QuietPieces
<1>7. turn_som_power_on_v20 = (((A \o RailsOn) \o PeripheralsOn) \o D) \o E
  BY Zenon DEF turn_som_power_on_v20, magic, loader, som
<1>. HIDE DEF A, D, E
<1>8. /\ Piece(A \o RailsOn, TRUE) /\ MagicFirst(A \o RailsOn) /\ A \o RailsOn # <<>>
      /\ Range(A \o RailsOn) = Range(A) \cup Range(RailsOn)
  BY <1>2, <1>4, OnPieces, PiecesJoined
<1>9. LET s == (A \o RailsOn) \o PeripheralsOn IN
        /\ Piece(s, TRUE) /\ MagicFirst(s) /\ s # <<>>
        /\ Range(s) = Range(A \o RailsOn) \cup Range(PeripheralsOn)
  BY <1>6, <1>8, PiecesJoined
<1>10. LET s == ((A \o RailsOn) \o PeripheralsOn) \o D IN
        /\ Piece(s, TRUE) /\ MagicFirst(s) /\ s # <<>>
        /\ Range(s) = Range((A \o RailsOn) \o PeripheralsOn) \cup Range(D)
  BY <1>3, <1>4, <1>9, PiecesJoined
<1>11. LET s == (((A \o RailsOn) \o PeripheralsOn) \o D) \o E IN
        /\ Piece(s, TRUE) /\ MagicFirst(s) /\ s # <<>>
        /\ Range(s) = Range(((A \o RailsOn) \o PeripheralsOn) \o D) \cup Range(E)
  BY <1>5, <1>10, PiecesJoined
<1>. QED  BY <1>2, <1>3, <1>7, <1>8, <1>9, <1>10, <1>11, OnPieces DEF som, magic

LEMMA On10 ==
  ASSUME ~(mb_version >= 2)
  PROVE  LET s == turn_som_power_on IN
           /\ Piece(s, TRUE) /\ s # <<>> /\ MagicFirst(s) /\ Latches(s)
           /\ {Flag("som_is_powered", TRUE), Flag("boot_magic", TRUE), gpio_put("5V", TRUE)}
                \subseteq Range(s)
<1>. DEFINE magic == Flag("boot_magic", TRUE)  som == Flag("som_is_powered", TRUE)
            off == gpio_put(Latch, FALSE)  pl == <<"pulse", "resets", TRUE>>
            A == <<off, magic>>  C == <<LatchOn, pl, off, som>>
<1>1. /\ magic \in Operations /\ magic[2] = "boot_magic" /\ magic[3] = TRUE
      /\ som \in Operations /\ som[2] = "som_is_powered" /\ som[3] = TRUE
      /\ off \in Operations /\ off[2] = "usb2_5v" /\ ~Touches(off)
      /\ LatchOn \in Operations /\ LatchOn[2] = "usb2_5v" /\ ~Touches(LatchOn)
  BY SomeOps, NamesOK DEF Flags, LatchOn
<1>2. pl \in Operations /\ pl[2] = "resets" /\ ~Touches(pl)  BY QuietOps
<1>3. turn_som_power_on = (A \o PinsOn) \o C
  BY Zenon DEF turn_som_power_on, magic, off, som, pl, LatchOn
<1>. HIDE DEF magic, som, off, pl
<1>4. Piece(A, TRUE) /\ Range(A) = {off, magic} /\ A # <<>>
  BY <1>1, LiteralPieces, TwoOf DEF Targets
<1>5. Piece(C, TRUE) /\ Range(C) = {LatchOn, pl, off, som}
  <2>1. Range(C) = {LatchOn, pl, off, som} /\ C \in Seq(Operations)
    BY <1>1, <1>2, FourOf
  <2>2. Pure(C, TRUE)  BY <1>1, <1>2, <2>1 DEF Pure, Targets
  <2>. QED  BY <2>1, <2>2 DEF Piece
<1>6. NoFive(A) /\ NoFive(C) /\ NoMagic(C)
  BY <1>1, <1>2, <1>4, <1>5 DEF NoFive, NoMagic
<1>. HIDE DEF A, C
<1>7. /\ Piece(A \o PinsOn, TRUE) /\ MagicFirst(A \o PinsOn) /\ A \o PinsOn # <<>>
      /\ Range(A \o PinsOn) = Range(A) \cup Range(PinsOn)
  BY <1>4, <1>6, OnPieces, PiecesJoined
<1>8. LET s == (A \o PinsOn) \o C IN
        /\ Piece(s, TRUE) /\ MagicFirst(s) /\ s # <<>> /\ Latches(s)
        /\ Range(s) = Range(A \o PinsOn) \cup Range(C)
  BY <1>5, <1>6, <1>7, PiecesJoined
<1>. QED  BY <1>3, <1>4, <1>5, <1>7, <1>8, OnPieces DEF som, magic

LEMMA Off20 ==
  LET s == turn_som_power_off_v20 IN
    /\ Piece(s, FALSE) /\ s # <<>> /\ Head(s) = Flag("som_is_powered", FALSE)
    /\ {Flag("som_is_powered", FALSE), Flag("boot_magic", FALSE), <<"ext", "5V", FALSE>>}
         \subseteq Range(s)
<1>. DEFINE som == Flag("som_is_powered", FALSE)  magic == Flag("boot_magic", FALSE)
            loader == gpio_put("usb_loader", FALSE)  disp == gpio_put("DISP_EN", FALSE)
            A == <<som, magic>>  D == <<loader, disp>>  E == set_usb_mode(1, 0)
<1>1. /\ magic \in Operations /\ magic[2] = "boot_magic" /\ magic[3] = FALSE
      /\ som \in Operations /\ som[2] = "som_is_powered" /\ som[3] = FALSE
      /\ loader \in Operations /\ ~Touches(loader) /\ disp \in Operations /\ ~Touches(disp)
  BY SomeOps, NamesOK DEF Flags
<1>. HIDE DEF magic, som, loader, disp
<1>2. Piece(A, FALSE) /\ Range(A) = {som, magic} /\ A # <<>> /\ Head(A) = som
  <2>1. Piece(A, FALSE)  BY <1>1, LiteralPieces DEF Targets
  <2>2. Range(A) = {som, magic}  BY <1>1, TwoOf
  <2>3. A # <<>> /\ Head(A) = som  OBVIOUS
  <2>. QED  BY <2>1, <2>2, <2>3
<1>3. Piece(D, FALSE)
  BY <1>1, LiteralPieces
<1>4. Piece(E, FALSE)  BY QuietUsb, QuietPieces DEF Garbage
<1>5. Piece(PeripheralsOff, FALSE)  BY OffPieces, QuietPieces
<1>6. turn_som_power_off_v20 = (((A \o PeripheralsOff) \o RailsOff) \o D) \o E
  BY Zenon DEF turn_som_power_off_v20, magic, loader, som, disp
<1>. HIDE DEF A, D, E
<1>7. LET s == A \o PeripheralsOff IN
        Piece(s, FALSE) /\ s # <<>> /\ Head(s) = som /\ Range(A) \subseteq Range(s)
  BY <1>2, <1>5, PiecesJoined
<1>8. LET s == (A \o PeripheralsOff) \o RailsOff IN
        /\ Piece(s, FALSE) /\ s # <<>> /\ Head(s) = som
        /\ Range(A) \subseteq Range(s) /\ Range(RailsOff) \subseteq Range(s)
  BY <1>7, OffPieces, PiecesJoined
<1>9. LET s == ((A \o PeripheralsOff) \o RailsOff) \o D IN
        /\ Piece(s, FALSE) /\ s # <<>> /\ Head(s) = som
        /\ Range(A) \subseteq Range(s) /\ Range(RailsOff) \subseteq Range(s)
  BY <1>3, <1>8, PiecesJoined
<1>10. LET s == (((A \o PeripheralsOff) \o RailsOff) \o D) \o E IN
        /\ Piece(s, FALSE) /\ s # <<>> /\ Head(s) = som
        /\ Range(A) \subseteq Range(s) /\ Range(RailsOff) \subseteq Range(s)
  BY <1>4, <1>9, PiecesJoined
<1>. QED  BY <1>2, <1>6, <1>10, OffPieces DEF som, magic

LEMMA Off10 ==
  ASSUME ~(mb_version >= 2)
  PROVE  LET s == turn_som_power_off IN
           /\ Piece(s, FALSE) /\ s # <<>> /\ Head(s) = Flag("som_is_powered", FALSE) /\ Latches(s)
           /\ {Flag("som_is_powered", FALSE), Flag("boot_magic", FALSE), gpio_put("5V", FALSE)}
                \subseteq Range(s)
<1>. DEFINE som == Flag("som_is_powered", FALSE)  magic == Flag("boot_magic", FALSE)
            off == gpio_put(Latch, FALSE)
            A == <<som, magic>>  C == <<LatchOn, off>>
<1>1. /\ magic \in Operations /\ magic[2] = "boot_magic" /\ magic[3] = FALSE
      /\ som \in Operations /\ som[2] = "som_is_powered" /\ som[3] = FALSE
      /\ off \in Operations /\ off[2] = "usb2_5v" /\ ~Touches(off)
      /\ LatchOn \in Operations /\ LatchOn[2] = "usb2_5v" /\ ~Touches(LatchOn)
  BY SomeOps, NamesOK DEF Flags, LatchOn
<1>2. turn_som_power_off = (A \o PinsOff) \o C
  BY Zenon DEF turn_som_power_off, som, magic, off, LatchOn
<1>. HIDE DEF magic, som, off
<1>3. Piece(A, FALSE) /\ Range(A) = {som, magic} /\ A # <<>> /\ Head(A) = som
  <2>1. Piece(A, FALSE)  BY <1>1, LiteralPieces DEF Targets
  <2>2. Range(A) = {som, magic}  BY <1>1, TwoOf
  <2>3. A # <<>> /\ Head(A) = som  OBVIOUS
  <2>. QED  BY <2>1, <2>2, <2>3
<1>4. Piece(C, FALSE) /\ Range(C) = {LatchOn, off}
  BY <1>1, LiteralPieces, TwoOf
<1>5. NoFive(C)  BY <1>1, <1>4 DEF NoFive
<1>. HIDE DEF A, C
<1>. DEFINE u == A \o PinsOff
<1>6. /\ Piece(u, FALSE) /\ Range(u) = Range(A) \cup Range(PinsOff)
      /\ u # <<>> /\ Head(u) = som
  BY <1>3, OffPieces, PiecesJoined
<1>. HIDE DEF u
<1>7. /\ Piece(u \o C, FALSE) /\ Range(u \o C) = Range(u) \cup Range(C)
      /\ u \o C # <<>> /\ Head(u \o C) = som
  BY <1>4, <1>6, PiecesJoined
<1>8. Latches(u \o C)  BY <1>4, <1>5, <1>6, PiecesJoined
<1>. QED  BY <1>2, <1>3, <1>6, <1>7, <1>8, OffPieces DEF som, magic, u

LEMMA TurnOn ==
  LET s == turn_som_power_on IN
    /\ Piece(s, TRUE) /\ s # <<>> /\ MagicFirst(s)
    /\ board \in 1..2 /\ mb_version = board => Full(s, TRUE)
<1>1. CASE mb_version >= 2
  <2>1. turn_som_power_on = turn_som_power_on_v20  BY Zenon, <1>1 DEF turn_som_power_on
  <2>2. board \in 1..2 /\ mb_version = board => board = 2  BY <1>1
  <2>3. board = 2 => FiveOp(TRUE) = <<"ext", "5V", TRUE>>  BY DEF FiveOp
  <2>4. ASSUME board = 2 PROVE Full(turn_som_power_on, TRUE)
    <3>1. ~(board = 1)  BY <2>4
    <3>2. Pure(turn_som_power_on, TRUE)  BY <2>1, On20 DEF Piece
    <3>3. {Flag("som_is_powered", TRUE), Flag("boot_magic", TRUE), FiveOp(TRUE)}
            \subseteq Range(turn_som_power_on)
      BY <2>1, <2>3, <2>4, On20
    <3>. QED  BY Zenon, <3>1, <3>2, <3>3 DEF Full
  <2>. QED  BY <2>1, <2>2, <2>4, On20
<1>2. CASE ~(mb_version >= 2)
  <2>1. board \in 1..2 /\ mb_version = board => board = 1  BY <1>2
  <2>. QED  BY <1>2, <2>1, On10 DEF Full, FiveOp, Piece
<1>. QED  BY <1>1, <1>2

LEMMA TurnOff ==
  LET s == turn_som_power_off IN
    /\ Piece(s, FALSE) /\ s # <<>> /\ Head(s) = Flag("som_is_powered", FALSE)
    /\ board \in 1..2 /\ mb_version = board => Full(s, FALSE)
<1>1. CASE mb_version >= 2
  <2>1. turn_som_power_off = turn_som_power_off_v20  BY Zenon, <1>1 DEF turn_som_power_off
  <2>2. board \in 1..2 /\ mb_version = board => board = 2  BY <1>1
  <2>3. board = 2 => FiveOp(FALSE) = <<"ext", "5V", FALSE>>  BY DEF FiveOp
  <2>4. ASSUME board = 2 PROVE Full(turn_som_power_off, FALSE)
    <3>1. ~(board = 1)  BY <2>4
    <3>2. Pure(turn_som_power_off, FALSE)  BY <2>1, Off20 DEF Piece
    <3>3. {Flag("som_is_powered", FALSE), Flag("boot_magic", FALSE), FiveOp(FALSE)}
            \subseteq Range(turn_som_power_off)
      BY <2>1, <2>3, <2>4, Off20
    <3>. QED  BY Zenon, <3>1, <3>2, <3>3 DEF Full
  <2>. QED  BY <2>1, <2>2, <2>4, Off20
<1>2. CASE ~(mb_version >= 2)
  <2>1. board \in 1..2 /\ mb_version = board => board = 1  BY <1>2
  <2>. QED  BY <1>2, <2>1, Off10 DEF Full, FiveOp, Piece
<1>. QED  BY <1>1, <1>2

(* More around it that is quiet takes nothing away.                        *)
LEMMA FullJoined ==
  ASSUME NEW s, NEW t, NEW v, Piece(s, v), Piece(t, v),
         \/ NoFive(s) /\ Full(t, v)
         \/ NoFive(t) /\ Full(s, v)
  PROVE  Full(s \o t, v) /\ Piece(s \o t, v) /\ s \o t # <<>>
<1>1. Piece(s \o t, v) /\ Range(s \o t) = Range(s) \cup Range(t)  BY PiecesJoined
<1>2. s # <<>> \/ t # <<>>
  <2>1. Range(<<>>) = {}  BY DEF Range
  <2>. QED  BY <2>1 DEF Full
<1>3. s \o t # <<>>  BY <1>2, Joined DEF Piece
<1>4. board = 1 => Latches(s \o t)  BY PiecesJoined DEF Full
<1>. QED  BY <1>1, <1>3, <1>4 DEF Full, Piece

(* Only the last operation of the boot lets the SOM be heard.              *)
Listen == Flag("irq", TRUE)

SetupBefore(warm) ==
  ((IF mb_version >= 2 THEN <<<<"setup", "uswitch", warm>>>> ELSE <<>>)
   \o (IF warm THEN <<Flag("som_is_powered", TRUE)>> \o turn_som_power_on
               ELSE turn_som_power_off))
  \o <<<<"usb_default", "port2", TRUE>>, <<"usb_default", "port2", TRUE>>>>

LEMMA SetupPrograms ==
  ASSUME NEW warm \in BOOLEAN
  PROVE  /\ Piece(SetupBefore(warm), warm) /\ Setup(warm) = SetupBefore(warm) \o <<Listen>>
         /\ board \in 1..2 /\ mb_version = board => Full(SetupBefore(warm), warm)
<1>. DEFINE us == <<"setup", "uswitch", warm>>  ud == <<"usb_default", "port2", TRUE>>
            A == IF mb_version >= 2 THEN <<us>> ELSE <<>>
            som == Flag("som_is_powered", TRUE)
            B == IF warm THEN <<som>> \o turn_som_power_on ELSE turn_som_power_off
            C == <<ud, ud>>
            D == <<ud, ud, Listen>>
<1>1. us \in Operations /\ ~Touches(us) /\ ud \in Operations /\ ~Touches(ud)
  BY QuietOps
<1>2. som \in Operations /\ som[3] = TRUE /\ som[2] = "som_is_powered"  BY SomeOps DEF Flags
<1>3. Setup(warm) = (A \o B) \o D  BY Zenon DEF Setup, Listen
<1>13. Listen \in Operations  BY SomeOps DEF Flags, Listen
<1>. HIDE DEF us, ud, som
<1>4. Quiet(A) /\ Quiet(C)  BY <1>1, QuietLiterals
<1>5. Piece(A, warm) /\ NoFive(A) /\ Piece(C, warm) /\ NoFive(C)  BY <1>4, QuietPieces
<1>6. /\ Piece(B, warm)
      /\ board \in 1..2 /\ mb_version = board => Full(B, warm)
  <2>1. CASE warm
    <3>1. Piece(<<som>>, TRUE) /\ NoFive(<<som>>) /\ <<som>> # <<>>
      <4>1. Piece(<<som>>, TRUE) /\ Range(<<som>>) = {som}
        BY <1>2, LiteralPieces, OneOf DEF Targets
      <4>. QED  BY <1>2, <4>1 DEF NoFive
    <3>2. B = <<som>> \o turn_som_power_on /\ warm = TRUE  BY <2>1
    <3>. HIDE DEF B
    <3>3. Piece(B, TRUE)  BY <3>1, <3>2, TurnOn, PiecesJoined
    <3>4. board \in 1..2 /\ mb_version = board => Full(B, TRUE)
      <4>1. ASSUME Full(turn_som_power_on, TRUE) PROVE Full(B, TRUE)
        <5>1. Piece(turn_som_power_on, TRUE)  BY TurnOn
        <5>. QED  BY Zenon, <3>1, <3>2, <4>1, <5>1, FullJoined
      <4>. QED  BY <4>1, TurnOn
    <3>. QED  BY <3>2, <3>3, <3>4
  <2>2. CASE ~warm
    <3>1. B = turn_som_power_off /\ warm = FALSE  BY <2>2
    <3>. QED  BY <3>1, TurnOff
  <2>. QED  BY <2>1, <2>2
<1>7. D = C \o <<Listen>>  OBVIOUS
<1>. HIDE DEF A, B, C, D
<1>8. /\ Piece(A \o B, warm)
      /\ board \in 1..2 /\ mb_version = board => Full(A \o B, warm)
  <2>1. ASSUME Full(B, warm) PROVE Full(A \o B, warm)
    BY Zenon, <1>5, <1>6, <2>1, FullJoined
  <2>2. Piece(A \o B, warm)  BY <1>5, <1>6, PiecesJoined
  <2>. QED  BY <1>6, <2>1, <2>2
<1>. DEFINE u == (A \o B) \o C
<1>9. Piece(u, warm)  BY <1>5, <1>8, PiecesJoined
<1>10. board \in 1..2 /\ mb_version = board => Full(u, warm)
  BY <1>5, <1>8, FullJoined
<1>11. (A \o B) \o D = u \o <<Listen>>
  <2>1. A \o B \in Seq(Operations) /\ C \in Seq(Operations)  BY <1>5, <1>8 DEF Piece
  <2>2. <<Listen>> \in Seq(Operations)  BY <1>13, OneOf
  <2>. QED  BY <1>7, <2>1, <2>2, ConcatAssociative
<1>. HIDE DEF u
<1>12. Setup(warm) = u \o <<Listen>>  BY <1>3, <1>11
<1>14. u = SetupBefore(warm)  BY Zenon DEF u, A, B, C, us, ud, som, SetupBefore
<1>. QED  BY <1>9, <1>10, <1>12, <1>14

LEMMA SetupTyped ==
  ASSUME NEW warm \in BOOLEAN
  PROVE  Setup(warm) \in Seq(Operations) /\ Setup(warm) # <<>>
<1>. DEFINE u == SetupBefore(warm)
<1>1. Piece(u, warm) /\ Setup(warm) = u \o <<Listen>>  BY SetupPrograms
<1>. HIDE DEF u
<1>2. Listen \in Operations  BY SomeOps DEF Flags, Listen
<1>3. <<Listen>> \in Seq(Operations) /\ <<Listen>> # <<>>  BY <1>2, OneOf
<1>. QED  BY <1>1, <1>3, Joined DEF Piece

LEMMA Programs ==
  ASSUME NEW c \in Commands
  PROVE  Program(c) \in Seq(Operations) /\ Program(c) # <<>>
<1>1. CASE c = <<"0p">>
  <2>1. Program(c) = turn_som_power_off  BY <1>1 DEF Program
  <2>. QED  BY <2>1, TurnOff DEF Piece
<1>2. CASE c = <<"1p">>
  <2>1. Program(c) = turn_som_power_on  BY <1>2 DEF Program
  <2>. QED  BY <2>1, TurnOn DEF Piece
<1>3. CASE c \notin PowerCommands  BY <1>3, QuietPrograms DEF Quiet
<1>. QED  BY <1>1, <1>2, <1>3 DEF PowerCommands

-----------------------------------------------------------------------------
(* Types. An operation is one of a known kind on something that kind has,  *)
(* and a held value is one of the expander's that it was read from.        *)
Bits(x) == IF x = "ext" THEN ExtBits ELSE UswitchBits

ProgramsTyped ==
  /\ main \in Seq(Operations) /\ isr \in Seq(Operations)
  /\ cmd \in Commands \cup {<<"none">>, <<"boot">>}
  /\ spi_cmd \in Commands \cup {<<"none">>, More}
  /\ phase \in {"none", "loaded", "stored"}
  /\ held \subseteq ExtBits \cup UswitchBits
  /\ phase # "none" => main # <<>> /\ Expander(Head(main)) /\ held \subseteq Bits(Head(main)[1])

FlagsTyped ==
  /\ board \in 1..2 /\ mb_version \in 0..board
  /\ irq \in BOOLEAN /\ som_is_powered \in BOOLEAN /\ boot_magic \in BOOLEAN
  /\ disturbed \in BOOLEAN /\ torn \in BOOLEAN

OutputsTyped ==
  /\ shadow \in [ext : SUBSET ExtBits, uswitch : SUBSET UswitchBits]
  /\ chip \in [ext : SUBSET ExtBits, uswitch : SUBSET UswitchBits]
  /\ lost \in [ext : 0..MaxLost, uswitch : 0..MaxLost]
  /\ pins \subseteq Pins /\ latched \subseteq LatchedPins
  /\ byhand \subseteq ExtBits \cup Pins

SomTyped == ProgramsTyped /\ FlagsTyped /\ OutputsTyped

LEMMA RestOK ==
  ASSUME NEW s \in Seq(Operations), s # <<>>, NEW t \in Rest(s)
  PROVE  /\ t \in Seq(Operations)
         /\ \/ t = Tail(s)
            \/ \E pre : Quiet(pre) /\ t = pre \o Tail(s)
            \/ /\ Head(s)[1] = "version" /\ Head(s)[3] \in BOOLEAN
               /\ t = Setup(Head(s)[3])
<1>1. Tail(s) \in Seq(Operations) /\ Head(s) \in Operations  BY Begun
<1>2. CASE t = Tail(s)  BY <1>1, <1>2
<1>3. CASE t = pulse \o Tail(s)
  <2>1. t \in Seq(Operations)  BY <1>1, <1>3, QuietPulse, Joined DEF Quiet
  <2>. QED  BY <1>3, <2>1, QuietPulse
<1>4. CASE \E mode \in Garbage : t = set_usb_mode(1, mode) \o Tail(s)
  <2>1. PICK mode \in Garbage : t = set_usb_mode(1, mode) \o Tail(s)  BY <1>4
  <2>2. Quiet(set_usb_mode(1, mode))  BY QuietUsb
  <2>3. t \in Seq(Operations)  BY <1>1, <2>1, <2>2, Joined DEF Quiet
  <2>. QED  BY <2>1, <2>2, <2>3
<1>5. CASE Head(s)[1] = "version" /\ t = Setup(Head(s)[3])
  <2>1. Head(s)[3] \in BOOLEAN  BY <1>1, <1>5 DEF Operations
  <2>2. t \in Seq(Operations)  BY <1>5, <2>1, SetupTyped
  <2>. QED  BY <1>5, <2>1, <2>2
<1>6. \/ t = Tail(s) \/ t = pulse \o Tail(s)
      \/ \E mode \in Garbage : t = set_usb_mode(1, mode) \o Tail(s)
      \/ Head(s)[1] = "version" /\ t = Setup(Head(s)[3])
  BY DEF Rest
<1>. QED  BY <1>2, <1>3, <1>4, <1>5, <1>6

LEMMA Written ==
  ASSUME OutputsTyped, FlagsTyped, NEW x \in {"ext", "uswitch"}, NEW byte \in SUBSET Bits(x),
         write_byte(x, byte)
  PROVE  /\ chip' \in [ext : SUBSET ExtBits, uswitch : SUBSET UswitchBits]
         /\ lost' \in [ext : 0..MaxLost, uswitch : 0..MaxLost]
<1>1. CASE x = "ext"
  <2>1. byte \in SUBSET ExtBits  BY <1>1 DEF Bits
  <2>2. lost["ext"] < MaxLost => lost["ext"] + 1 \in 0..MaxLost
    BY SomPowerAssumption DEF OutputsTyped
  <2>3. 0 \in 0..MaxLost  BY SomPowerAssumption
  <2>. QED  BY <1>1, <2>1, <2>2, <2>3 DEF write_byte, OutputsTyped
<1>2. CASE x = "uswitch"
  <2>1. byte \in SUBSET UswitchBits  BY <1>2 DEF Bits
  <2>2. lost["uswitch"] < MaxLost => lost["uswitch"] + 1 \in 0..MaxLost
    BY SomPowerAssumption DEF OutputsTyped
  <2>3. 0 \in 0..MaxLost  BY SomPowerAssumption
  <2>. QED  BY <1>2, <2>1, <2>2, <2>3 DEF write_byte, OutputsTyped
<1>. QED  BY <1>1, <1>2

LEMMA ShadowTyped ==
  ASSUME OutputsTyped, NEW x \in {"ext", "uswitch"}, NEW byte \in SUBSET Bits(x)
  PROVE  /\ [shadow EXCEPT ![x] = byte] \in [ext : SUBSET ExtBits, uswitch : SUBSET UswitchBits]
         /\ [shadow EXCEPT ![x] = byte][x] = byte
         /\ shadow[x] \in SUBSET Bits(x)
<1>1. CASE x = "ext"  BY <1>1 DEF Bits, OutputsTyped
<1>2. CASE x = "uswitch"  BY <1>2 DEF Bits, OutputsTyped
<1>. QED  BY <1>1, <1>2

LEMMA ByHandTyped ==
  ASSUME OutputsTyped, NEW op \in Operations, Expander(op) \/ op[1] = "pin", NEW c, Recorded(op, c)
  PROVE  byhand' \subseteq ExtBits \cup Pins
<1>1. op[1] # "uswitch" => op[2] \in ExtBits \cup Pins
  BY DEF Operations, Expander
<1>. QED  BY <1>1 DEF Recorded, ByHand, OutputsTyped

LEMMA DoTyped ==
  ASSUME FlagsTyped, OutputsTyped, NEW op \in Operations, NEW c, Do(op, c)
  PROVE  /\ OutputsTyped' /\ (board' = board => mb_version' \in 0..board')
         /\ irq' \in BOOLEAN /\ som_is_powered' \in BOOLEAN /\ boot_magic' \in BOOLEAN
<1>1. CASE op[1] = "pin"
  <2>1. /\ SetPin(op[2], op[3]) /\ Recorded(op, c)
        /\ UNCHANGED <<irq, som_is_powered, boot_magic, mb_version, shadow, chip, lost>>
    BY <1>1 DEF Do, Expander, Flag, flags, expanders
  <2>2. op[2] \in Pins /\ op[3] \in BOOLEAN  BY <1>1 DEF Operations
  <2>3. pins' \subseteq Pins /\ latched' \subseteq LatchedPins
    BY <2>1, <2>2 DEF SetPin, With, OutputsTyped
  <2>4. byhand' \subseteq ExtBits \cup Pins  BY <1>1, <2>1, ByHandTyped
  <2>. QED  BY <2>1, <2>3, <2>4 DEF FlagsTyped, OutputsTyped
<1>2. CASE op[1] \in {"flag", "pulse", "usb_default", "version"}
  <2>1. /\ op[3] \in BOOLEAN  BY <1>2 DEF Operations
  <2>2. /\ UNCHANGED <<mb_version, shadow, chip, lost, pins, latched, byhand>>
        /\ irq' \in {irq, op[3]} /\ som_is_powered' \in {som_is_powered, op[3]}
        /\ boot_magic' \in {boot_magic, op[3]}
    BY <1>2 DEF Do, Flag, outputs, expanders, flags
  <2>. QED  BY <2>1, <2>2 DEF FlagsTyped, OutputsTyped
<1>3. CASE op[1] = "setup" /\ op[2] = "ext"
  <2>1. /\ shadow' = [shadow EXCEPT !["ext"] = IF op[3] THEN ExtBits \ {"USWITCH_OFF"} ELSE {}]
        /\ write_byte("ext", shadow'["ext"]) /\ mb_version' \in 1..board
        /\ UNCHANGED <<som_is_powered, boot_magic, irq, pins, latched, byhand>>
    BY <1>3 DEF Do, Flag, outputs
  <2>. DEFINE byte == IF op[3] THEN ExtBits \ {"USWITCH_OFF"} ELSE {}
  <2>2. byte \in SUBSET Bits("ext")  BY DEF Bits
  <2>3. /\ shadow' \in [ext : SUBSET ExtBits, uswitch : SUBSET UswitchBits]
        /\ shadow'["ext"] = byte
    BY <2>1, <2>2, ShadowTyped
  <2>4. /\ chip' \in [ext : SUBSET ExtBits, uswitch : SUBSET UswitchBits]
        /\ lost' \in [ext : 0..MaxLost, uswitch : 0..MaxLost]
    BY <2>1, <2>2, <2>3, Written
  <2>. QED  BY <2>1, <2>3, <2>4 DEF FlagsTyped, OutputsTyped
<1>4. CASE op[1] = "setup" /\ op[2] = "uswitch"
  <2>1. /\ shadow' = [shadow EXCEPT !["uswitch"] = IF op[3] THEN shadow["uswitch"] ELSE UswitchBits]
        /\ write_byte("uswitch", shadow'["uswitch"])
        /\ UNCHANGED <<som_is_powered, boot_magic, irq, mb_version, pins, latched, byhand>>
    BY <1>4 DEF Do, Flag, outputs, flags
  <2>. DEFINE byte == IF op[3] THEN shadow["uswitch"] ELSE UswitchBits
  <2>2. byte \in SUBSET Bits("uswitch")  BY DEF Bits, OutputsTyped
  <2>3. /\ shadow' \in [ext : SUBSET ExtBits, uswitch : SUBSET UswitchBits]
        /\ shadow'["uswitch"] = byte
    BY <2>1, <2>2, ShadowTyped
  <2>4. /\ chip' \in [ext : SUBSET ExtBits, uswitch : SUBSET UswitchBits]
        /\ lost' \in [ext : 0..MaxLost, uswitch : 0..MaxLost]
    BY <2>1, <2>2, <2>3, Written
  <2>. QED  BY <2>1, <2>3, <2>4 DEF FlagsTyped, OutputsTyped
<1>5. CASE Expander(op)
  BY <1>5 DEF Do, Expander, Flag
<1>6. \/ op[1] \in {"pin", "flag", "pulse", "usb_default", "version", "ext", "uswitch"}
      \/ op[1] = "setup" /\ op[2] \in {"ext", "uswitch"}
  BY DEF Operations
<1>. QED  BY <1>1, <1>2, <1>3, <1>4, <1>5, <1>6 DEF Expander

LEMMA Boots ==
  ASSUME NEW w \in BOOLEAN
  PROVE  /\ Boot(w) \in Seq(Operations) /\ Boot(w) # <<>>
         /\ Head(Boot(w)) = <<"setup", "ext", w>>
         /\ Tail(Boot(w)) = <<<<"version", "board", w>>>>
<1>. DEFINE a == <<"setup", "ext", w>>  b == <<"version", "board", w>>
<1>1. a \in Operations /\ b \in Operations  BY Operands
<1>2. Boot(w) = <<a, b>>  BY Zenon DEF Boot
<1>. HIDE DEF a, b
<1>3. <<a, b>> \in Seq(Operations)  BY <1>1, TwoOf
<1>4. <<a, b>> # <<>> /\ Head(<<a, b>>) = a /\ Tail(<<a, b>>) = <<b>>  OBVIOUS
<1>. QED  BY Zenon, <1>2, <1>3, <1>4 DEF a, b

LEMMA Restarted ==
  ASSUME NEW w \in BOOLEAN, Restart(w)
  PROVE  /\ main' = Boot(w) /\ main' \in Seq(Operations) /\ main' # <<>>
         /\ cmd' = <<"boot">> /\ isr' = <<>> /\ isr' \in Seq(Operations)
         /\ spi_cmd' = <<"none">> /\ phase' = "none" /\ held' = {}
         /\ irq' = FALSE /\ som_is_powered' = FALSE /\ mb_version' = 0
         /\ shadow' = [ext |-> {}, uswitch |-> {}] /\ pins' = {} /\ disturbed' = FALSE
         /\ byhand' = {} /\ board' = board /\ torn' = torn
BY Boots DEF Restart

LEMMA NothingLost ==
  /\ [ext |-> {}, uswitch |-> {}] \in [ext : SUBSET ExtBits, uswitch : SUBSET UswitchBits]
  /\ [ext |-> 0, uswitch |-> 0] \in [ext : 0..MaxLost, uswitch : 0..MaxLost]
BY SomPowerAssumption

LEMMA RestartTyped ==
  ASSUME SomTyped, NEW w \in BOOLEAN, Restart(w), boot_magic' \in BOOLEAN,
         chip' \in [ext : SUBSET ExtBits, uswitch : SUBSET UswitchBits],
         lost' \in [ext : 0..MaxLost, uswitch : 0..MaxLost], latched' \subseteq LatchedPins
  PROVE  SomTyped'
<1>1. ProgramsTyped'  BY Restarted DEF ProgramsTyped
<1>2. FlagsTyped'
  <2>1. board' \in 1..2 /\ mb_version' \in 0..board'
    <3>1. board' = board /\ mb_version' = 0  BY Zenon, Restarted
    <3>2. board \in 1..2  BY DEF SomTyped, FlagsTyped
    <3>. QED  BY ONLY <3>1, <3>2
  <2>. QED  BY Zenon, <2>1, Restarted DEF SomTyped, FlagsTyped
<1>3. OutputsTyped'
  <2>1. shadow' \in [ext : SUBSET ExtBits, uswitch : SUBSET UswitchBits]
    BY Zenon, Restarted, NothingLost
  <2>. QED  BY <2>1, Restarted DEF OutputsTyped
<1>. QED  BY <1>1, <1>2, <1>3 DEF SomTyped

LEMMA InitTyped == Init => SomTyped
<1>. SUFFICES ASSUME Init PROVE SomTyped  OBVIOUS
<1>1. ProgramsTyped
  <2>1. main \in Seq(Operations)  BY Boots DEF Init
  <2>2. isr \in Seq(Operations)  BY DEF Init
  <2>3. held \subseteq ExtBits \cup UswitchBits  BY DEF Init
  <2>. QED  BY Zenon, <2>1, <2>2, <2>3 DEF Init, ProgramsTyped
<1>2. FlagsTyped
  <2>1. board \in 1..2 /\ mb_version \in 0..board  BY DEF Init
  <2>. QED  BY Zenon, <2>1 DEF Init, FlagsTyped
<1>3. OutputsTyped  BY NothingLost DEF Init, OutputsTyped
<1>. QED  BY <1>1, <1>2, <1>3 DEF SomTyped

(* The types of the main program and its command after it has moved.       *)
LEMMA MainMovesTyped ==
  ASSUME SomTyped, main # <<>>, MainMoves
  PROVE  /\ main' \in Seq(Operations) /\ isr' \in Seq(Operations)
         /\ cmd' \in Commands \cup {<<"none">>, <<"boot">>}
         /\ spi_cmd' \in Commands \cup {<<"none">>, More}
         /\ disturbed' \in BOOLEAN /\ torn' \in BOOLEAN /\ board' = board
<1>1. main' \in Seq(Operations)
  BY RestOK DEF MainMoves, SomTyped, ProgramsTyped
<1>2. disturbed' \in BOOLEAN /\ torn' \in BOOLEAN
  BY DEF MainMoves, SomTyped, FlagsTyped
<1>. QED  BY <1>1, <1>2 DEF MainMoves, isr_vars, SomTyped, ProgramsTyped

LEMMA MainDoesTyped == ASSUME SomTyped, MainDoes PROVE SomTyped'
<1>1. /\ main # <<>> /\ ~Expander(Head(main)) /\ Do(Head(main), cmd) /\ MainMoves
      /\ phase' = phase /\ held' = held
  BY DEF MainDoes, Handling, Busy
<1>2. Head(main) \in Operations  BY <1>1, Begun DEF SomTyped, ProgramsTyped
<1>3. phase = "none"  BY <1>1 DEF SomTyped, ProgramsTyped
<1>4. /\ OutputsTyped' /\ (board' = board => mb_version' \in 0..board')
      /\ irq' \in BOOLEAN /\ som_is_powered' \in BOOLEAN /\ boot_magic' \in BOOLEAN
  BY <1>1, <1>2, DoTyped DEF SomTyped
<1>5. /\ main' \in Seq(Operations) /\ isr' \in Seq(Operations)
      /\ cmd' \in Commands \cup {<<"none">>, <<"boot">>}
      /\ spi_cmd' \in Commands \cup {<<"none">>, More}
      /\ disturbed' \in BOOLEAN /\ torn' \in BOOLEAN /\ board' = board
  BY <1>1, MainMovesTyped
<1>6. ProgramsTyped'  BY <1>1, <1>3, <1>5 DEF SomTyped, ProgramsTyped
<1>7. FlagsTyped'  BY <1>4, <1>5 DEF SomTyped, FlagsTyped
<1>. QED  BY <1>4, <1>6, <1>7 DEF SomTyped

LEMMA ExpanderOps ==
  ASSUME NEW op \in Operations, Expander(op)
  PROVE  /\ op[1] \in {"ext", "uswitch"} /\ op[2] \in Bits(op[1]) /\ op[3] \in BOOLEAN
         /\ op = <<op[1], op[2], op[3]>>
BY DEF Operations, Expander, Bits

LEMMA LoadShadowTyped == ASSUME SomTyped, LoadShadow PROVE SomTyped'
<1>1. /\ main # <<>> /\ Expander(Head(main)) /\ phase' = "loaded" /\ held' = shadow[Head(main)[1]]
      /\ UNCHANGED <<board, main, cmd, isr_vars, flags, expanders, outputs, history>>
  BY DEF LoadShadow, Handling, Busy
<1>2. Head(main)[1] \in {"ext", "uswitch"}
  BY <1>1 DEF Expander
<1>3. held' \in SUBSET Bits(Head(main)[1])  BY <1>1, <1>2, ShadowTyped DEF SomTyped
<1>4. held' \subseteq ExtBits \cup UswitchBits  BY <1>3 DEF Bits
<1>5. ProgramsTyped'  BY <1>1, <1>3, <1>4 DEF SomTyped, ProgramsTyped, isr_vars
<1>6. FlagsTyped'  BY <1>1 DEF SomTyped, FlagsTyped, flags, history
<1>7. OutputsTyped'  BY <1>1 DEF SomTyped, OutputsTyped, expanders, outputs, history
<1>. QED  BY <1>5, <1>6, <1>7 DEF SomTyped

LEMMA StoreShadowTyped == ASSUME SomTyped, StoreShadow PROVE SomTyped'
<1>1. /\ phase = "loaded" /\ phase' = "stored"
      /\ held' = With(held, Head(main)[2], Head(main)[3])
      /\ shadow' = [shadow EXCEPT ![Head(main)[1]] = held']
      /\ UNCHANGED <<board, main, cmd, isr_vars, flags, chip, lost, outputs, history>>
  BY DEF StoreShadow
<1>2. main # <<>> /\ Expander(Head(main)) /\ held \subseteq Bits(Head(main)[1])
  BY <1>1 DEF SomTyped, ProgramsTyped
<1>3. Head(main) \in Operations  BY <1>2, Begun DEF SomTyped, ProgramsTyped
<1>4. Head(main)[1] \in {"ext", "uswitch"} /\ Head(main)[2] \in Bits(Head(main)[1])
  BY <1>2, <1>3, ExpanderOps
<1>5. held' \in SUBSET Bits(Head(main)[1])  BY <1>1, <1>2, <1>4 DEF With
<1>6. held' \subseteq ExtBits \cup UswitchBits  BY <1>5 DEF Bits
<1>7. ProgramsTyped'  BY <1>1, <1>2, <1>5, <1>6 DEF SomTyped, ProgramsTyped, isr_vars
<1>8. FlagsTyped'  BY <1>1 DEF SomTyped, FlagsTyped, flags, history
<1>9. OutputsTyped'
  <2>1. shadow' \in [ext : SUBSET ExtBits, uswitch : SUBSET UswitchBits]
    <3>1. PICK byte \in SUBSET Bits(Head(main)[1]) : byte = held'  BY <1>5
    <3>2. shadow' = [shadow EXCEPT ![Head(main)[1]] = byte]  BY <1>1, <3>1
    <3>. QED  BY <1>4, <3>2, ShadowTyped DEF SomTyped
  <2>. QED  BY <1>1, <2>1 DEF SomTyped, OutputsTyped, outputs, history
<1>. QED  BY <1>7, <1>8, <1>9 DEF SomTyped

LEMMA WriteChipTyped == ASSUME SomTyped, WriteChip PROVE SomTyped'
<1>1. /\ phase = "stored" /\ phase' = "none" /\ held' = {}
      /\ write_byte(Head(main)[1], held) /\ Recorded(Head(main), cmd) /\ MainMoves
      /\ UNCHANGED <<flags, shadow, outputs>>
  BY DEF WriteChip
<1>2. main # <<>> /\ Expander(Head(main)) /\ held \subseteq Bits(Head(main)[1])
  BY <1>1 DEF SomTyped, ProgramsTyped
<1>3. Head(main) \in Operations  BY <1>2, Begun DEF SomTyped, ProgramsTyped
<1>4. Head(main)[1] \in {"ext", "uswitch"}  BY <1>2, <1>3, ExpanderOps
<1>5. /\ chip' \in [ext : SUBSET ExtBits, uswitch : SUBSET UswitchBits]
      /\ lost' \in [ext : 0..MaxLost, uswitch : 0..MaxLost]
  BY <1>1, <1>2, <1>4, Written DEF SomTyped
<1>6. byhand' \subseteq ExtBits \cup Pins  BY <1>1, <1>2, <1>3, ByHandTyped DEF SomTyped
<1>7. /\ main' \in Seq(Operations) /\ isr' \in Seq(Operations)
      /\ cmd' \in Commands \cup {<<"none">>, <<"boot">>}
      /\ spi_cmd' \in Commands \cup {<<"none">>, More}
      /\ disturbed' \in BOOLEAN /\ torn' \in BOOLEAN /\ board' = board
  BY <1>1, <1>2, MainMovesTyped
<1>8. ProgramsTyped'  BY <1>1, <1>7 DEF ProgramsTyped
<1>9. FlagsTyped'  BY <1>1, <1>7 DEF SomTyped, FlagsTyped, flags
<1>10. OutputsTyped'  BY <1>1, <1>5, <1>6 DEF SomTyped, OutputsTyped, outputs
<1>. QED  BY <1>8, <1>9, <1>10 DEF SomTyped

LEMMA LoopCommandTyped == ASSUME SomTyped, LoopCommand PROVE SomTyped'
<1>1. /\ main = <<>> /\ cmd' \in Commands
      /\ UNCHANGED <<board, isr_vars, phase, held, flags, expanders, outputs, history>>
  BY SomPowerAssumption DEF LoopCommand, Handling, Busy
<1>2. main' \in Seq(Operations)
  <2>1. main' = Program(cmd')  BY DEF LoopCommand
  <2>2. PICK c \in Commands : c = cmd'  BY <1>1
  <2>3. Program(c) \in Seq(Operations)  BY Programs
  <2>. QED  BY <2>1, <2>2, <2>3
<1>3. phase = "none"  BY <1>1 DEF SomTyped, ProgramsTyped
<1>4. ProgramsTyped'  BY <1>1, <1>2, <1>3 DEF SomTyped, ProgramsTyped, isr_vars
<1>5. FlagsTyped'  BY <1>1 DEF SomTyped, FlagsTyped, flags, history
<1>6. OutputsTyped'  BY <1>1 DEF SomTyped, OutputsTyped, expanders, outputs, history
<1>. QED  BY <1>4, <1>5, <1>6 DEF SomTyped

LEMMA SpiCommandTyped == ASSUME SomTyped, SpiCommand PROVE SomTyped'
<1>1. /\ spi_cmd' \in Commands /\ isr' = Program(spi_cmd')
      /\ disturbed' = (disturbed \/ Disturbs(spi_cmd'))
      /\ torn' = (torn \/ Disturbs(spi_cmd'))
      /\ UNCHANGED <<board, main_vars, flags, expanders, outputs, byhand>>
  BY SomPowerAssumption DEF SpiCommand
<1>2. isr' \in Seq(Operations)
  <2>1. PICK c \in Commands : c = spi_cmd'  BY <1>1
  <2>2. Program(c) \in Seq(Operations)  BY Programs
  <2>. QED  BY <1>1, <2>1, <2>2
<1>3. ProgramsTyped'  BY <1>1, <1>2 DEF SomTyped, ProgramsTyped, main_vars
<1>4. disturbed' \in BOOLEAN /\ torn' \in BOOLEAN
  BY <1>1
<1>5. FlagsTyped'  BY <1>1, <1>4 DEF SomTyped, FlagsTyped, flags
<1>6. OutputsTyped'  BY <1>1 DEF SomTyped, OutputsTyped, expanders, outputs
<1>. QED  BY <1>3, <1>5, <1>6 DEF SomTyped

(* One operation of the interrupt handler, which it carries out in a step. *)
ExpanderDo(op, c) ==
  /\ Expander(op)
  /\ shadow' = [shadow EXCEPT ![op[1]] = With(@, op[2], op[3])]
  /\ write_byte(op[1], shadow'[op[1]])
  /\ Recorded(op, c)
  /\ UNCHANGED <<flags, outputs>>

LEMMA ExpanderDoTyped ==
  ASSUME FlagsTyped, OutputsTyped, NEW op \in Operations, NEW c, ExpanderDo(op, c)
  PROVE  OutputsTyped' /\ shadow' = [shadow EXCEPT ![op[1]] = With(shadow[op[1]], op[2], op[3])]
         /\ shadow'[op[1]] = With(shadow[op[1]], op[2], op[3])
<1>1. /\ op[1] \in {"ext", "uswitch"} /\ op[2] \in Bits(op[1]) /\ op[3] \in BOOLEAN
  BY ExpanderOps DEF ExpanderDo
<1>. DEFINE byte == With(shadow[op[1]], op[2], op[3])
<1>2. byte \in SUBSET Bits(op[1])
  <2>1. shadow[op[1]] \in SUBSET Bits(op[1])  BY <1>1, ShadowTyped
  <2>. QED  BY <1>1, <2>1 DEF With
<1>3. shadow' = [shadow EXCEPT ![op[1]] = byte]  BY DEF ExpanderDo
<1>. HIDE DEF byte
<1>4. /\ shadow' \in [ext : SUBSET ExtBits, uswitch : SUBSET UswitchBits]
      /\ shadow'[op[1]] = byte
  BY <1>1, <1>2, <1>3, ShadowTyped
<1>5. /\ chip' \in [ext : SUBSET ExtBits, uswitch : SUBSET UswitchBits]
      /\ lost' \in [ext : 0..MaxLost, uswitch : 0..MaxLost]
  BY <1>1, <1>2, <1>4, Written DEF ExpanderDo
<1>6. byhand' \subseteq ExtBits \cup Pins  BY ByHandTyped DEF ExpanderDo
<1>7. OutputsTyped'  BY <1>4, <1>5, <1>6 DEF OutputsTyped, ExpanderDo, outputs
<1>. QED  BY <1>3, <1>4, <1>7 DEF byte

LEMMA SpiSteps ==
  ASSUME SpiDoes
  PROVE  /\ isr # <<>>
         /\ \/ ~Expander(Head(isr)) /\ Do(Head(isr), spi_cmd)
            \/ ExpanderDo(Head(isr), spi_cmd)
         /\ isr' \in Rest(isr)
         /\ (isr' = <<>> => spi_cmd' \in {<<"none">>, More}) /\ (isr' # <<>> => spi_cmd' = spi_cmd)
         /\ torn' = IF isr' = <<>> /\ spi_cmd \in PowerCommands THEN disturbed ELSE torn
         /\ UNCHANGED <<board, main_vars, disturbed>>
BY DEF SpiDoes, ExpanderDo, Busy

LEMMA SpiDoesTyped == ASSUME SomTyped, SpiDoes PROVE SomTyped'
<1>1. Head(isr) \in Operations  BY SpiSteps, Begun DEF SomTyped, ProgramsTyped
<1>2. isr' \in Seq(Operations)  BY SpiSteps, RestOK DEF SomTyped, ProgramsTyped
<1>3. ProgramsTyped'  BY SpiSteps, <1>2 DEF SomTyped, ProgramsTyped, main_vars
<1>4. /\ OutputsTyped' /\ mb_version' \in 0..board'
      /\ irq' \in BOOLEAN /\ som_is_powered' \in BOOLEAN /\ boot_magic' \in BOOLEAN
  <2>1. CASE Do(Head(isr), spi_cmd)  BY <1>1, <2>1, SpiSteps, DoTyped DEF SomTyped
  <2>2. CASE ExpanderDo(Head(isr), spi_cmd)
    <3>1. OutputsTyped'  BY <1>1, <2>2, ExpanderDoTyped DEF SomTyped
    <3>. QED  BY <2>2, <3>1, SpiSteps DEF ExpanderDo, flags, SomTyped, FlagsTyped
  <2>. QED  BY <2>1, <2>2, SpiSteps
<1>5. torn' \in BOOLEAN /\ disturbed' \in BOOLEAN /\ board' \in 1..2
  BY SpiSteps DEF SomTyped, FlagsTyped
<1>6. FlagsTyped'  BY <1>4, <1>5 DEF FlagsTyped
<1>. QED  BY <1>3, <1>4, <1>6 DEF SomTyped

LEMMA TypedStep == ASSUME SomTyped, [Next]_vars PROVE SomTyped'
<1>1. CASE Reset
  <2>1. boot_magic \in BOOLEAN /\ Restart(boot_magic)
        /\ UNCHANGED <<boot_magic, chip, lost, latched>>
    BY <1>1 DEF Reset, SomTyped, FlagsTyped
  <2>2. PICK w \in BOOLEAN : w = boot_magic  BY <2>1
  <2>3. Restart(w)  BY <2>1, <2>2
  <2>. QED  BY <2>1, <2>3, RestartTyped DEF SomTyped, OutputsTyped
<1>2. CASE PowerLoss
  <2>1. /\ Restart(FALSE) /\ boot_magic' = FALSE
        /\ chip' = [ext |-> {}, uswitch |-> {}] /\ lost' = [ext |-> 0, uswitch |-> 0]
        /\ latched' = {}
    BY <1>2 DEF PowerLoss
  <2>2. /\ chip' \in [ext : SUBSET ExtBits, uswitch : SUBSET UswitchBits]
        /\ lost' \in [ext : 0..MaxLost, uswitch : 0..MaxLost]
    BY <2>1, NothingLost
  <2>. QED  BY <2>1, <2>2, RestartTyped
<1>3. CASE UNCHANGED vars
  <2>1. UNCHANGED <<board, mb_version, main, cmd, isr, spi_cmd, phase, held, irq,
                    som_is_powered, boot_magic, shadow, chip, pins, latched, lost, disturbed,
                    torn, byhand>>
    BY <1>3 DEF vars, main_vars, isr_vars, flags, expanders, outputs, history
  <2>. QED  BY <2>1 DEF SomTyped, ProgramsTyped, FlagsTyped, OutputsTyped
<1>. QED
  BY Zenon, <1>1, <1>2, <1>3, MainDoesTyped, LoadShadowTyped, StoreShadowTyped, WriteChipTyped,
     LoopCommandTyped, SpiCommandTyped, SpiDoesTyped DEF Next

LEMMA TypedImplies == SomTyped => SomPowerTypeOK
<1>. SUFFICES ASSUME SomTyped PROVE SomPowerTypeOK  OBVIOUS
<1>1. \A op \in Operations : op[1] \in Ops /\ op[3] \in BOOLEAN  BY DEF Operations, Ops
<1>2. \A i \in DOMAIN main : main[i] \in Operations  BY DEF SomTyped, ProgramsTyped
<1>3. \A i \in DOMAIN isr : isr[i] \in Operations  BY DEF SomTyped, ProgramsTyped
<1>4. /\ \A i \in DOMAIN main : main[i][1] \in Ops /\ main[i][3] \in BOOLEAN
      /\ \A i \in DOMAIN isr : isr[i][1] \in Ops /\ isr[i][3] \in BOOLEAN
  BY <1>1, <1>2, <1>3
<1>5. phase # "none" => Busy(main) /\ Expander(Head(main))
  BY DEF SomTyped, ProgramsTyped, Busy
<1>6. {irq, som_is_powered, boot_magic, disturbed, torn} \subseteq BOOLEAN
  BY DEF SomTyped, FlagsTyped
<1>. QED  BY Zenon, <1>4, <1>5, <1>6
          DEF SomPowerTypeOK, SomTyped, ProgramsTyped, FlagsTyped, OutputsTyped

(* Whatever commands come from both sides and whichever writes fail, the   *)
(* program's state keeps its type: an operation is always one on something *)
(* that its kind has, and a held value belongs to the expander that the    *)
(* operation in progress writes. (gpio_ext_enable, turn_som_power_on)      *)
THEOREM SomPowerTyped == Spec => []SomPowerTypeOK
<1>1. Init => SomTyped  BY InitTyped
<1>2. SomTyped /\ [Next]_vars => SomTyped'  BY TypedStep
<1>3. SomTyped => SomPowerTypeOK  BY TypedImplies
<1>. QED  BY <1>1, <1>2, <1>3, PTL DEF Spec

-----------------------------------------------------------------------------
(* On the way to power on or off. Five is what the 5 V rail and, on        *)
(* motherboard 2.0, the shadow that its next write is made from say;       *)
(* Toward(s, v) that the operations in s still to come, and none of them   *)
(* undoing it, turn whatever does not yet say v to v.                      *)
Five(v) ==
  IF board = 1 THEN ("5V" \in pins <=> v) /\ ("5V" \in latched <=> v)
               ELSE ("5V" \in shadow.ext <=> v) /\ (lost.ext = 0 => ("5V" \in chip.ext <=> v))

Shows(v) == som_is_powered = v /\ boot_magic = v /\ Five(v)

Mild(s, v) == \A op \in Range(s) :
  op[2] \in Targets \cup {"ext", "board"} => op[2] \in Targets /\ op[3] = v

Toward(s, v) ==
  /\ Mild(s, v)
  /\ som_is_powered = v \/ Flag("som_is_powered", v) \in Range(s)
  /\ boot_magic = v \/ Flag("boot_magic", v) \in Range(s)
  /\ board = 1 => /\ ("5V" \in pins <=> v) \/ FiveOp(v) \in Range(s)
                  /\ Five(v) \/ Latches(s)
  /\ board = 2 => Five(v) \/ FiveOp(v) \in Range(s)

(* The rail is up, or the next write to the expander puts it up.           *)
Up == IF board = 1 THEN "5V" \in pins \cup latched
                   ELSE "5V" \in shadow.ext \/ (lost.ext = 0 /\ "5V" \in chip.ext)

(* What an operation may do while it is carried out, and what it has done  *)
(* when it is complete.                                                    *)
Sways(op) ==
  /\ board' = board
  /\ som_is_powered' = IF op[2] = "som_is_powered" THEN op[3] ELSE som_is_powered
  /\ boot_magic' = IF op[2] = "boot_magic" THEN op[3] ELSE boot_magic
  /\ board = 1 =>
       /\ \/ "5V" \in pins' <=> "5V" \in pins
          \/ op[2] = "5V" /\ ("5V" \in pins' <=> op[3])
       /\ \/ "5V" \in latched' <=> "5V" \in latched
          \/ "5V" \in latched' <=> "5V" \in pins'
  /\ board = 2 =>
       /\ \/ "5V" \in shadow'.ext <=> "5V" \in shadow.ext
          \/ op[2] = "5V" /\ ("5V" \in shadow'.ext <=> op[3])
       /\ \/ (lost'.ext = 0 <=> lost.ext = 0) /\ ("5V" \in chip'.ext <=> "5V" \in chip.ext)
          \/ lost'.ext = 0 => ("5V" \in chip'.ext <=> "5V" \in shadow'.ext)

Effect(op) ==
  /\ Sways(op)
  /\ board = 1 =>
       /\ op = gpio_put("5V", op[3]) => ("5V" \in pins' <=> op[3])
       /\ op = LatchOn => ("5V" \in latched' <=> "5V" \in pins')
  /\ board = 2 =>
       (op = <<"ext", "5V", op[3]>> =>
          /\ "5V" \in shadow'.ext <=> op[3]
          /\ lost'.ext = 0 => ("5V" \in chip'.ext <=> "5V" \in shadow'.ext))

LEMMA FiveHolds ==
  ASSUME board \in 1..2, NEW op, NEW v \in BOOLEAN, Sways(op), op[2] = "5V" => op[3] = v, Five(v)
  PROVE  Five(v)'
<1>1. CASE board = 1  BY <1>1 DEF Sways, Five
<1>2. CASE board = 2  BY <1>2 DEF Sways, Five
<1>. QED  BY <1>1, <1>2

LEMMA ShowsHolds ==
  ASSUME board \in 1..2, NEW op, NEW v \in BOOLEAN, Sways(op), op[2] \in Targets => op[3] = v,
         Shows(v)
  PROVE  Shows(v)'
<1>1. Five(v)'  BY FiveHolds DEF Shows, Targets
<1>2. som_is_powered' = v /\ boot_magic' = v  BY DEF Sways, Shows, Targets
<1>. QED  BY <1>1, <1>2 DEF Shows

LEMMA TowardHolds ==
  ASSUME board \in 1..2, NEW op, NEW v \in BOOLEAN, Sways(op), op[2] \in Targets => op[3] = v,
         NEW s, Toward(s, v)
  PROVE  Toward(s, v)'
<1>1. Mild(s, v)' /\ board' = board  BY DEF Sways, Toward, Mild
<1>2. /\ som_is_powered' = v \/ Flag("som_is_powered", v) \in Range(s)
      /\ boot_magic' = v \/ Flag("boot_magic", v) \in Range(s)
  BY DEF Sways, Toward, Targets
<1>3. Five(v) => Five(v)'  BY FiveHolds DEF Targets
<1>4. FiveOp(v)' = FiveOp(v)  BY <1>1 DEF FiveOp
<1>5. ASSUME board = 1, ("5V" \in pins <=> v) PROVE "5V" \in pins' <=> v
  BY <1>5 DEF Sways, Targets
<1>6. board = 1 => /\ ("5V" \in pins' <=> v) \/ FiveOp(v) \in Range(s)
                   /\ Five(v)' \/ Latches(s)
  BY <1>3, <1>5 DEF Toward
<1>7. board = 2 => Five(v)' \/ FiveOp(v) \in Range(s)
  BY <1>3 DEF Toward
<1>. QED  BY Zenon, <1>1, <1>2, <1>4, <1>6, <1>7 DEF Toward

LEMMA MildParts ==
  ASSUME NEW s \in Seq(Operations), s # <<>>, NEW v, Mild(s, v)
  PROVE  /\ Mild(Tail(s), v) /\ Head(s) \in Operations
         /\ Head(s)[2] \in Targets => Head(s)[3] = v
         /\ Head(s)[2] \notin {"ext", "board"}
<1>1. Range(s) = {Head(s)} \cup Range(Tail(s)) /\ Head(s) \in Operations  BY Begun
<1>2. Mild(Tail(s), v)  BY <1>1 DEF Mild
<1>3. Head(s) \in Range(s)  BY <1>1
<1>4. /\ Head(s)[2] \in Targets => Head(s)[3] = v
      /\ Head(s)[2] \notin {"ext", "board"}
  BY <1>3 DEF Mild, Targets
<1>. QED  BY <1>1, <1>2, <1>4

LEMMA TowardTail ==
  ASSUME board \in 1..2, NEW s \in Seq(Operations), s # <<>>, NEW v \in BOOLEAN, Toward(s, v),
         Effect(Head(s))
  PROVE  Toward(Tail(s), v)'
<1>. DEFINE op == Head(s)  u == Tail(s)
<1>1. Range(s) = {op} \cup Range(u) /\ op \in Operations  BY Begun
<1>2. Mild(s, v)  BY DEF Toward
<1>3. Mild(u, v) /\ (op[2] \in Targets => op[3] = v)  BY <1>2, MildParts
<1>4. Toward(s, v)'  BY <1>3, TowardHolds DEF Effect
<1>5. Latches(s) => Latches(u) \/ (op = LatchOn /\ NoFive(s))  BY LatchesTail
<1>6. Sways(op) /\ board' = board  BY DEF Effect, Sways
<1>. HIDE DEF op, u
<1>7. som_is_powered' = v \/ Flag("som_is_powered", v) \in Range(u)
  <2>1. CASE op = Flag("som_is_powered", v)  BY <1>6, <2>1 DEF Sways, Flag
  <2>2. CASE op # Flag("som_is_powered", v)  BY <1>1, <1>4, <2>2 DEF Toward
  <2>. QED  BY <2>1, <2>2
<1>8. boot_magic' = v \/ Flag("boot_magic", v) \in Range(u)
  <2>1. CASE op = Flag("boot_magic", v)  BY <1>6, <2>1 DEF Sways, Flag
  <2>2. CASE op # Flag("boot_magic", v)  BY <1>1, <1>4, <2>2 DEF Toward
  <2>. QED  BY <2>1, <2>2
<1>9. ASSUME board = 1
      PROVE  /\ ("5V" \in pins' <=> v) \/ FiveOp(v) \in Range(u)
             /\ Five(v)' \/ Latches(u)
  <2>1. FiveOp(v) = gpio_put("5V", v) /\ FiveOp(v)' = FiveOp(v)  BY <1>6, <1>9 DEF FiveOp
  <2>2. op = FiveOp(v) => ("5V" \in pins' <=> v)
    <3>1. op = FiveOp(v) => op = gpio_put("5V", op[3]) /\ op[3] = v  BY <2>1 DEF gpio_put
    <3>. QED  BY <1>9, <3>1 DEF Effect, op
  <2>3. ("5V" \in pins' <=> v) \/ FiveOp(v) \in Range(s)
    BY Zenon, <1>4, <1>6, <1>9, <2>1 DEF Toward
  <2>4. ("5V" \in pins' <=> v) \/ FiveOp(v) \in Range(u)  BY <1>1, <2>2, <2>3
  <2>5. Five(v)' \/ Latches(s)  BY Zenon, <1>4, <1>6, <1>9 DEF Toward
  <2>6. ASSUME op = LatchOn, NoFive(s) PROVE Five(v)'
    <3>1. FiveOp(v) \notin Range(s)
      <4>1. FiveOp(v)[2] = "5V"  BY <2>1 DEF gpio_put
      <4>. QED  BY <2>6, <4>1 DEF NoFive
    <3>2. "5V" \in pins' <=> v  BY <2>3, <3>1
    <3>3. "5V" \in latched' <=> "5V" \in pins'  BY <1>9, <2>6 DEF Effect, op
    <3>. QED  BY <1>6, <1>9, <3>2, <3>3 DEF Five
  <2>. QED  BY <1>5, <2>4, <2>5, <2>6
<1>10. ASSUME board = 2 PROVE Five(v)' \/ FiveOp(v) \in Range(u)
  <2>1. FiveOp(v) = <<"ext", "5V", v>> /\ FiveOp(v)' = FiveOp(v)  BY <1>6, <1>10 DEF FiveOp
  <2>2. Five(v)' \/ FiveOp(v) \in Range(s)  BY Zenon, <1>4, <1>6, <1>10, <2>1 DEF Toward
  <2>3. ASSUME op = FiveOp(v) PROVE Five(v)'
    <3>1. op = <<"ext", "5V", op[3]>> /\ op[3] = v  BY <2>1, <2>3
    <3>2. /\ "5V" \in shadow'.ext <=> v
          /\ lost'.ext = 0 => ("5V" \in chip'.ext <=> v)
      BY <1>10, <3>1 DEF Effect, op
    <3>. QED  BY <1>6, <1>10, <3>2 DEF Five
  <2>. QED  BY <1>1, <2>2, <2>3
<1>11. FiveOp(v)' = FiveOp(v) /\ (Mild(u, v) => Mild(u, v)')  BY <1>6 DEF FiveOp, Mild
<1>. QED  BY Zenon, <1>3, <1>6, <1>7, <1>8, <1>9, <1>10, <1>11 DEF Toward, u

LEMMA FullToward ==
  ASSUME board \in 1..2, NEW s, NEW v, Full(s, v)
  PROVE  Toward(s, v)
<1>1. Mild(s, v)  BY DEF Full, Pure, Mild, Touches
<1>. QED  BY <1>1 DEF Full, Toward

LEMMA UpHolds ==
  ASSUME board \in 1..2, NEW op, Sways(op), Up'
  PROVE  Up \/ (op[2] = "5V" /\ op[3])
<1>1. CASE board = 1  BY <1>1 DEF Sways, Up
<1>2. CASE board = 2  BY <1>2 DEF Sways, Up
<1>. QED  BY <1>1, <1>2

-----------------------------------------------------------------------------
(* What the steps of the model do, in these terms.                         *)
FlagsSway(op) ==
  /\ som_is_powered' = IF op[2] = "som_is_powered" THEN op[3] ELSE som_is_powered
  /\ boot_magic' = IF op[2] = "boot_magic" THEN op[3] ELSE boot_magic

LEMMA FlagOps ==
  ASSUME NEW op \in Operations
  PROVE  /\ op[2] = "som_is_powered" <=> op = Flag("som_is_powered", op[3])
         /\ op[2] = "boot_magic" <=> op = Flag("boot_magic", op[3])
         /\ op[2] = "ext" => op[1] = "setup"
         /\ op[1] = "pin" => op = gpio_put(op[2], op[3]) /\ op[2] \in Pins
         /\ op[1] = "ext" => op = <<"ext", op[2], op[3]>>
         /\ op[1] = "setup" => op[2] \in {"ext", "uswitch"}
         /\ op[3] \in BOOLEAN
BY DEF Operations, Flag, gpio_put, Flags, ExtBits, UswitchBits, Pins, LatchedPins

LEMMA PinOps ==
  ASSUME NEW op, op[1] # "pin"
  PROVE  op # LatchOn /\ op # gpio_put("5V", op[3])
<1>1. \A p, v : gpio_put(p, v)[1] = "pin"  BY DEF gpio_put
<1>. QED  BY <1>1 DEF LatchOn

LEMMA DoEffect ==
  ASSUME OutputsTyped, board \in 1..2, board' = board, NEW op \in Operations, op[2] # "ext",
         NEW c, Do(op, c), ~Expander(op)
  PROVE  Effect(op) /\ mb_version' = mb_version
<1>1. CASE op[1] = "pin"
  <2>1. /\ SetPin(op[2], op[3])
        /\ UNCHANGED <<irq, som_is_powered, boot_magic, mb_version, shadow, chip, lost>>
    BY <1>1 DEF Do, Flag, flags, expanders
  <2>2. op = gpio_put(op[2], op[3]) /\ op[2] \in Pins /\ op[3] \in BOOLEAN
    BY <1>1, FlagOps
  <2>3. /\ pins' = With(pins, op[2], op[3])
        /\ latched' = IF board = 1 /\ Latch \in pins' THEN pins' \cap LatchedPins ELSE latched
    BY <2>1 DEF SetPin
  <2>4. op[2] \notin {"som_is_powered", "boot_magic"}
    BY <2>2 DEF Pins, LatchedPins
  <2>5. /\ op[2] # "5V" => ("5V" \in pins' <=> "5V" \in pins)
        /\ op[2] = "5V" => ("5V" \in pins' <=> op[3])
    BY <2>2, <2>3 DEF With
  <2>6. \/ "5V" \in latched' <=> "5V" \in latched
        \/ "5V" \in latched' <=> "5V" \in pins'
    BY <2>3 DEF LatchedPins
  <2>7. op = LatchOn /\ board = 1 => ("5V" \in latched' <=> "5V" \in pins')
    BY <2>3 DEF LatchedPins, LatchOn, gpio_put, With, Latch
  <2>8. op = gpio_put("5V", op[3]) => op[2] = "5V"  BY DEF gpio_put
  <2>9. Sways(op)  BY <2>1, <2>4, <2>5, <2>6 DEF Sways
  <2>10. op # <<"ext", "5V", op[3]>>  BY <1>1
  <2>. QED  BY <2>1, <2>5, <2>7, <2>8, <2>9, <2>10 DEF Effect
<1>2. CASE op[1] = "flag"
  <2>1. UNCHANGED <<mb_version, shadow, chip, lost, pins, latched>>
    BY <1>2 DEF Do, Flag, outputs, expanders
  <2>2. /\ som_is_powered' = IF op[2] = "som_is_powered" THEN op[3] ELSE som_is_powered
        /\ boot_magic' = IF op[2] = "boot_magic" THEN op[3] ELSE boot_magic
    BY <1>2 DEF Do, Flag
  <2>3. op # <<"ext", "5V", op[3]>> /\ op # LatchOn /\ op # gpio_put("5V", op[3])
    BY <1>2, PinOps
  <2>. QED  BY <2>1, <2>2, <2>3 DEF Effect, Sways
<1>3. CASE op[1] \in {"pulse", "usb_default", "version"}
  <2>1. UNCHANGED <<som_is_powered, boot_magic, mb_version, shadow, chip, lost, pins, latched>>
    BY <1>3 DEF Do, Flag, outputs, expanders, flags
  <2>2. op[2] \notin {"som_is_powered", "boot_magic"}
    BY <1>3, FlagOps DEF Flag
  <2>3. op # <<"ext", "5V", op[3]>> /\ op # LatchOn /\ op # gpio_put("5V", op[3])
    BY <1>3, PinOps
  <2>. QED  BY <2>1, <2>2, <2>3 DEF Effect, Sways
<1>4. CASE op[1] = "setup"
  <2>0. op[2] = "uswitch"  BY <1>4, FlagOps
  <2>1. /\ shadow' = [shadow EXCEPT !["uswitch"] = IF op[3] THEN shadow["uswitch"] ELSE UswitchBits]
        /\ write_byte("uswitch", shadow'["uswitch"])
        /\ UNCHANGED <<som_is_powered, boot_magic, irq, mb_version, pins, latched>>
    BY <1>4, <2>0 DEF Do, Flag, outputs, flags
  <2>2. shadow'.ext = shadow.ext  BY <2>1 DEF OutputsTyped
  <2>3. chip'.ext = chip.ext /\ lost'.ext = lost.ext  BY <2>1 DEF OutputsTyped, write_byte
  <2>4. op # <<"ext", "5V", op[3]>> /\ op # LatchOn /\ op # gpio_put("5V", op[3])
    BY <1>4, PinOps
  <2>. QED  BY <2>0, <2>1, <2>2, <2>3, <2>4 DEF Effect, Sways
<1>5. op[1] \in {"pin", "flag", "pulse", "usb_default", "version", "setup"}
  BY DEF Operations, Expander
<1>. QED  BY <1>1, <1>2, <1>3, <1>4, <1>5

LEMMA WriteEffect ==
  ASSUME OutputsTyped, board \in 1..2, board' = board, NEW op \in Operations, Expander(op),
         UNCHANGED <<som_is_powered, boot_magic, pins, latched>>,
         \/ shadow' = [shadow EXCEPT ![op[1]] = With(shadow[op[1]], op[2], op[3])]
         \/ shadow' = shadow /\ (op[2] \in shadow[op[1]] <=> op[3]),
         write_byte(op[1], shadow'[op[1]])
  PROVE  Effect(op)
<1>1. /\ op[1] \in {"ext", "uswitch"} /\ op[2] \in Bits(op[1]) /\ op[3] \in BOOLEAN
      /\ op = <<op[1], op[2], op[3]>>
  BY ExpanderOps
<1>2. op # LatchOn /\ op # gpio_put("5V", op[3])  BY <1>1, PinOps
<1>3. op[2] \notin {"som_is_powered", "boot_magic"}
  BY <1>1 DEF Bits, ExtBits, UswitchBits
<1>4. FlagsSway(op)  BY <1>3 DEF FlagsSway
<1>5. CASE op[1] = "ext"
  <2>1. /\ op[2] # "5V" => ("5V" \in shadow'.ext <=> "5V" \in shadow.ext)
        /\ op[2] = "5V" => ("5V" \in shadow'.ext <=> op[3])
    BY <1>1, <1>5 DEF With, OutputsTyped
  <2>2. board = 2 => (lost'.ext = 0 => ("5V" \in chip'.ext <=> "5V" \in shadow'.ext))
    <3>1. lost["ext"] \in Nat  BY SomPowerAssumption DEF OutputsTyped
    <3>2. CASE lost'["ext"] = 0 /\ board = 2
      <4>1. chip' = [chip EXCEPT !["ext"] = shadow'["ext"]]
        BY <1>5, <3>1, <3>2 DEF write_byte, OutputsTyped
      <4>2. chip'["ext"] = shadow'["ext"]  BY <4>1 DEF OutputsTyped
      <4>. QED  BY <4>2
    <3>. QED  BY <3>2
  <2>. QED  BY <1>2, <1>4, <1>5, <2>1, <2>2 DEF Effect, Sways, FlagsSway
<1>6. CASE op[1] = "uswitch"
  <2>1. shadow'.ext = shadow.ext  BY <1>6 DEF OutputsTyped
  <2>2. chip'.ext = chip.ext /\ lost'.ext = lost.ext  BY <1>6 DEF OutputsTyped, write_byte
  <2>3. op # <<"ext", "5V", op[3]>>  BY <1>6
  <2>. QED  BY <1>2, <1>4, <2>1, <2>2, <2>3 DEF Effect, Sways, FlagsSway
<1>. QED  BY <1>1, <1>5, <1>6

-----------------------------------------------------------------------------
(* What a program in progress still consists of, by the command it is for. *)
Version(w) == <<<<"version", "board", w>>>>

Switching == PowerCommands \cup {<<"boot">>}

NoIrq(s) == \A op \in Range(s) : op[2] # "irq"

IrqLast(s) == \A i \in 1..Len(s) : s[i][2] = "irq" => i = Len(s)

Kind(s, c) ==
  /\ c \notin Switching => Quiet(s)
  /\ c = <<"0p">> => Piece(s, FALSE)
  /\ c = <<"1p">> => Piece(s, TRUE) /\ MagicFirst(s)
  /\ c = <<"boot">> => \/ IrqLast(s) /\ \E v \in BOOLEAN : Mild(s, v)
                       \/ \E w \in BOOLEAN : s = Boot(w) \/ s = Version(w)

LEMMA CommandsDiffer ==
  /\ <<"0p">> # <<"1p">> /\ <<"0p">> # <<"boot">> /\ <<"1p">> # <<"boot">>
  /\ <<"none">> \notin Switching /\ <<"boot">> \notin Commands /\ <<"none">> \notin Commands
  /\ PowerCommands \subseteq Switching
  /\ More \notin Switching /\ More \notin Commands /\ More \notin PowerCommands
  /\ <<"none">> # <<"0p">> /\ <<"none">> # <<"1p">>
  /\ More # <<"none">> /\ More # <<"0p">> /\ More # <<"1p">> /\ More # <<"boot">>
BY DEF Switching, PowerCommands, Commands, More

LEMMA IrqJoined ==
  ASSUME NEW s \in Seq(Operations), NEW t \in Seq(Operations), NoIrq(s), IrqLast(t)
  PROVE  IrqLast(s \o t)
<1>. DEFINE u == s \o t
<1>1. /\ Len(s) \in Nat /\ Len(t) \in Nat /\ Len(u) = Len(s) + Len(t)
      /\ \A i \in 1..Len(s) : u[i] = s[i]
      /\ \A i \in 1..Len(t) : u[Len(s) + i] = t[i]
  BY Joined
<1>. HIDE DEF u
<1>2. ASSUME NEW i \in 1..Len(u), u[i][2] = "irq" PROVE i = Len(u)
  <2>1. CASE i <= Len(s)
    <3>1. i \in 1..Len(s) /\ s[i][2] = "irq"  BY <1>1, <1>2, <2>1
    <3>. QED  BY <3>1, Standing DEF NoIrq
  <2>2. CASE i > Len(s)
    <3>1. i - Len(s) \in 1..Len(t) /\ i = Len(s) + (i - Len(s))  BY <1>1, <2>2
    <3>2. t[i - Len(s)][2] = "irq"  BY <1>1, <1>2, <3>1
    <3>3. i - Len(s) = Len(t)  BY <3>1, <3>2 DEF IrqLast
    <3>. QED  BY <1>1, <3>3
  <2>. QED  BY <1>1, <2>1, <2>2
<1>. QED  BY <1>2 DEF IrqLast, u

LEMMA IrqTail ==
  ASSUME NEW s \in Seq(Operations), s # <<>>, IrqLast(s)
  PROVE  IrqLast(Tail(s)) /\ (Head(s)[2] = "irq" => Tail(s) = <<>>)
<1>. DEFINE u == Tail(s)
<1>1. /\ Head(s) = s[1] /\ Len(s) \in Nat /\ Len(s) >= 1 /\ Len(u) = Len(s) - 1
      /\ u \in Seq(Operations) /\ \A i \in 1..Len(u) : u[i] = s[i + 1]
  BY Begun
<1>. HIDE DEF u
<1>2. ASSUME NEW i \in 1..Len(u), u[i][2] = "irq" PROVE i = Len(u)
  <2>1. i + 1 \in 1..Len(s) /\ s[i + 1][2] = "irq"  BY <1>1, <1>2
  <2>2. i + 1 = Len(s)  BY <2>1 DEF IrqLast
  <2>. QED  BY <1>1, <2>2
<1>3. ASSUME Head(s)[2] = "irq" PROVE u = <<>>
  <2>1. 1 \in 1..Len(s)  BY <1>1
  <2>2. 1 = Len(s)  BY <1>1, <1>3, <2>1 DEF IrqLast
  <2>3. Len(u) = 0  BY <1>1, <2>2
  <2>. QED  BY <1>1, <2>3, EmptySeq
<1>. QED  BY <1>2, <1>3 DEF IrqLast, u

LEMMA MildJoined ==
  ASSUME NEW s \in Seq(Operations), NEW t \in Seq(Operations), NEW v, Quiet(s), Mild(t, v)
  PROVE  Mild(s \o t, v) /\ NoIrq(s)
<1>1. Range(s \o t) = Range(s) \cup Range(t)  BY Joined
<1>2. NoIrq(s)  BY DEF Quiet, Touches, NoIrq
<1>. QED  BY <1>1, <1>2 DEF Mild, Quiet, Touches, Targets

(* What is left to do when the set-up of the GPIOs is over.                *)
LEMMA SetupKind ==
  ASSUME NEW w \in BOOLEAN
  PROVE  /\ Kind(Setup(w), <<"boot">>)
         /\ board \in 1..2 /\ mb_version = board => Toward(Setup(w), w)
<1>. DEFINE u == SetupBefore(w)
<1>1. /\ Piece(u, w) /\ Setup(w) = u \o <<Listen>>
      /\ board \in 1..2 /\ mb_version = board => Full(u, w)
  BY SetupPrograms
<1>. HIDE DEF u
<1>2. Listen \in Operations /\ Listen[2] = "irq"  BY SomeOps DEF Flags, Listen
<1>. DEFINE t == <<Listen>>
<1>3. t \in Seq(Operations) /\ Range(t) = {Listen} /\ Len(t) = 1  BY <1>2, OneOf
<1>. HIDE DEF t
<1>4. u \in Seq(Operations) /\ Range(u \o t) = Range(u) \cup {Listen}
  BY <1>1, <1>3, Joined DEF Piece
<1>5. NoIrq(u)  BY <1>1 DEF Piece, Pure, Touches, Targets, NoIrq
<1>6. IrqLast(t)  BY <1>3 DEF IrqLast
<1>7. IrqLast(u \o t)  BY <1>3, <1>4, <1>5, <1>6, IrqJoined
<1>8. Mild(u \o t, w)  BY <1>1, <1>2, <1>4 DEF Mild, Piece, Pure, Touches, Targets
<1>9. NoFive(t)  BY <1>2, <1>3 DEF NoFive
<1>10. Setup(w) = u \o t  BY <1>1 DEF t
<1>11. ASSUME board \in 1..2, Full(u, w) PROVE Toward(u \o t, w)
  <2>1. Toward(u, w)  BY <1>11, FullToward
  <2>2. Latches(u) => Latches(u \o t)  BY <1>3, <1>4, <1>9, LatchesJoined
  <2>. QED  BY <1>4, <1>8, <2>1, <2>2 DEF Toward
<1>12. Kind(Setup(w), <<"boot">>)
  BY <1>7, <1>8, <1>10, CommandsDiffer DEF Kind, Switching
<1>. QED  BY <1>1, <1>10, <1>11, <1>12

LEMMA QuietTail ==
  ASSUME NEW s, s # <<>>, Quiet(s)
  PROVE  /\ Quiet(Tail(s)) /\ Head(s) \in Operations
         /\ Head(s)[2] \notin Targets \cup {"ext", "board", "irq"}
<1>1. s \in Seq(Operations)  BY DEF Quiet
<1>2. /\ Range(s) = {Head(s)} \cup Range(Tail(s)) /\ Tail(s) \in Seq(Operations)
      /\ Head(s) \in Operations
  BY <1>1, Begun
<1>3. Quiet(Tail(s))  BY <1>2 DEF Quiet
<1>4. ~Touches(Head(s))  BY <1>2 DEF Quiet
<1>. QED  BY <1>2, <1>3, <1>4 DEF Touches

LEMMA PieceTail ==
  ASSUME NEW s, s # <<>>, NEW v, Piece(s, v)
  PROVE  /\ Piece(Tail(s), v) /\ Head(s) \in Operations
         /\ Head(s)[2] \in Targets => Head(s)[3] = v
         /\ Head(s)[2] \notin {"ext", "board", "irq"}
<1>1. s \in Seq(Operations)  BY DEF Piece
<1>2. /\ Range(s) = {Head(s)} \cup Range(Tail(s)) /\ Tail(s) \in Seq(Operations)
      /\ Head(s) \in Operations
  BY <1>1, Begun
<1>3. Piece(Tail(s), v)  BY <1>2 DEF Piece, Pure
<1>4. Touches(Head(s)) => Head(s)[2] \in Targets /\ Head(s)[3] = v  BY <1>2 DEF Piece, Pure
<1>. QED  BY <1>2, <1>3, <1>4 DEF Touches, Targets

LEMMA KindRest ==
  ASSUME NEW s \in Seq(Operations), s # <<>>, NEW c, Kind(s, c), NEW t \in Rest(s)
  PROVE  Kind(t, c)
<1>1. Head(s) \in Operations /\ Tail(s) \in Seq(Operations)  BY Begun
<1>2. Head(s)[1] = "version" => Head(s)[2] = "board"  BY <1>1 DEF Operations
<1>3. CASE c \notin Switching
  <2>1. Quiet(s)  BY <1>3 DEF Kind
  <2>2. Quiet(Tail(s)) /\ Head(s)[2] # "board"  BY <2>1, QuietTail
  <2>3. t = Tail(s) \/ \E pre : Quiet(pre) /\ t = pre \o Tail(s)  BY <1>2, <2>2, RestOK
  <2>4. Quiet(t)  BY <2>2, <2>3, QuietJoined
  <2>. QED  BY <1>3, <2>4 DEF Kind, Switching, PowerCommands
<1>4. CASE c \in PowerCommands
  <2>1. PICK v \in BOOLEAN : Piece(s, v) /\ (c = <<"0p">> => v = FALSE)
                             /\ (c = <<"1p">> => v = TRUE /\ MagicFirst(s))
    BY Zenon, <1>4, CommandsDiffer DEF Kind, PowerCommands
  <2>2. Piece(Tail(s), v) /\ Head(s)[2] # "board"  BY <2>1, PieceTail
  <2>3. t = Tail(s) \/ \E pre : Quiet(pre) /\ t = pre \o Tail(s)  BY <1>2, <2>2, RestOK
  <2>4. MagicFirst(s) => MagicFirst(Tail(s))  BY MagicTail
  <2>5. Piece(t, v) /\ (MagicFirst(s) => MagicFirst(t))
    <3>1. CASE t = Tail(s)  BY <2>2, <2>4, <3>1
    <3>2. CASE \E pre : Quiet(pre) /\ t = pre \o Tail(s)
      <4>1. PICK pre : Quiet(pre) /\ t = pre \o Tail(s)  BY <3>2
      <4>2. Piece(pre, v) /\ NoFive(pre)  BY <4>1, QuietPieces
      <4>. QED  BY Zenon, <2>2, <2>4, <4>1, <4>2, PiecesJoined
    <3>. QED  BY <2>3, <3>1, <3>2
  <2>6. c \in Switching /\ c # <<"boot">>  BY <1>4, CommandsDiffer DEF PowerCommands
  <2>. QED  BY Zenon, <2>1, <2>5, <2>6 DEF Kind
<1>5. CASE c = <<"boot">>
  <2>1. CASE IrqLast(s) /\ \E v \in BOOLEAN : Mild(s, v)
    <3>1. PICK v \in BOOLEAN : Mild(s, v)  BY <2>1
    <3>2. Mild(Tail(s), v) /\ Head(s)[2] \notin {"ext", "board"}  BY <3>1, MildParts
    <3>3. IrqLast(Tail(s))  BY <2>1, IrqTail
    <3>4. t = Tail(s) \/ \E pre : Quiet(pre) /\ t = pre \o Tail(s)  BY <1>2, <3>2, RestOK
    <3>5. Mild(t, v) /\ IrqLast(t)
      <4>1. CASE t = Tail(s)  BY <3>2, <3>3, <4>1
      <4>2. CASE \E pre : Quiet(pre) /\ t = pre \o Tail(s)
        <5>1. PICK pre : Quiet(pre) /\ t = pre \o Tail(s)  BY <4>2
        <5>2. pre \in Seq(Operations)  BY <5>1 DEF Quiet
        <5>3. Mild(t, v) /\ NoIrq(pre)  BY <1>1, <3>2, <5>1, <5>2, MildJoined
        <5>4. IrqLast(t)  BY <1>1, <3>3, <5>1, <5>2, <5>3, IrqJoined
        <5>. QED  BY <5>3, <5>4
      <4>. QED  BY <3>4, <4>1, <4>2
    <3>. QED  BY <1>5, <3>5, CommandsDiffer DEF Kind, Switching
  <2>2. ASSUME NEW w \in BOOLEAN, s = Boot(w) PROVE Kind(t, c)
    <3>1. Head(s) = <<"setup", "ext", w>> /\ Tail(s) = Version(w)  BY <2>2, Boots DEF Version
    <3>2. t = Tail(s)  BY <3>1 DEF Rest
    <3>. QED  BY <1>5, <3>1, <3>2, CommandsDiffer DEF Kind, Switching
  <2>3. ASSUME NEW w \in BOOLEAN, s = Version(w) PROVE Kind(t, c)
    <3>1. Head(s) = <<"version", "board", w>>  BY <2>3 DEF Version
    <3>2. t = Setup(w)  BY <3>1 DEF Rest
    <3>. QED  BY <1>5, <3>2, SetupKind
  <2>. QED  BY <1>5, <2>1, <2>2, <2>3 DEF Kind
<1>. QED  BY <1>3, <1>4, <1>5 DEF Switching

LEMMA KindProgram ==
  ASSUME NEW c \in Commands
  PROVE  /\ Kind(Program(c), c) /\ Program(c) # <<>>
         /\ c = <<"0p">> => Head(Program(c)) = Flag("som_is_powered", FALSE)
         /\ board \in 1..2 /\ mb_version = board =>
              /\ c = <<"0p">> => Full(Program(c), FALSE)
              /\ c = <<"1p">> => Full(Program(c), TRUE)
<1>1. CASE c = <<"0p">>
  <2>1. Program(c) = turn_som_power_off  BY <1>1 DEF Program
  <2>. QED  BY Zenon, <1>1, <2>1, TurnOff, CommandsDiffer DEF Kind, Switching, PowerCommands
<1>2. CASE c = <<"1p">>
  <2>1. Program(c) = turn_som_power_on  BY <1>2 DEF Program
  <2>. QED  BY Zenon, <1>2, <2>1, TurnOn, CommandsDiffer DEF Kind, Switching, PowerCommands
<1>3. CASE c \notin PowerCommands
  BY <1>3, QuietPrograms, CommandsDiffer DEF Kind, PowerCommands
<1>. QED  BY <1>1, <1>2, <1>3 DEF PowerCommands

LEMMA KindDone == Kind(<<>>, <<"none">>) /\ Kind(<<>>, More)
<1>1. Quiet(<<>>)  BY QuietLiterals DEF Quiet, Range
<1>2. <<"none">> # <<"boot">>  BY CommandsDiffer DEF Switching
<1>. QED  BY <1>1, <1>2, CommandsDiffer DEF Kind

-----------------------------------------------------------------------------
(* The inductive invariant. Without the last conjunct it says who may be   *)
(* in the middle of what: a program has what is left of its command, a     *)
(* value held across a step is the shadow's unless the main program was    *)
(* interrupted there (disturbed), the boot is heard by nobody, and power   *)
(* off is deaf to the SOM from its first operation.                        *)
Kinds == Kind(main, cmd) /\ Kind(isr, spi_cmd)

HeldOK ==
  /\ phase # "none" /\ ~disturbed => isr = <<>> /\ held = shadow[Head(main)[1]]
  /\ phase = "stored" => (Head(main)[2] \in held <=> Head(main)[3])

Alone ==
  /\ cmd = <<"boot">> => isr = <<>> /\ spi_cmd = <<"none">> /\ ~irq /\ ~disturbed
  /\ cmd \in Switching => main # <<>>
  /\ spi_cmd \in PowerCommands => isr # <<>>
  /\ isr = <<>> => spi_cmd \in {<<"none">>, More}
  /\ disturbed => torn
  /\ cmd = <<"1p">> /\ spi_cmd = <<"0p">> => disturbed

Deaf == ~som_is_powered /\ isr = <<>> /\ spi_cmd # More

OffFirst == cmd = <<"0p">> => Deaf \/ Head(main) = Flag("som_is_powered", FALSE)

(* With the board taken for what it is: a power command or a boot is on    *)
(* its way to on or off, whoever else is at work; otherwise flag, magic    *)
(* and rail agree; and the rail is never up without the magic, but when    *)
(* something is switching off.                                             *)
MainAims ==
  /\ cmd = <<"1p">> /\ ~disturbed => Toward(main, TRUE)
  /\ cmd = <<"0p">> /\ ~disturbed => Toward(main, FALSE)
  /\ cmd = <<"boot">> => \/ \E v \in BOOLEAN : Toward(main, v)
                         \/ \E w \in BOOLEAN : main = Version(w)

OffWhole == cmd = <<"0p">> => Deaf \/ Full(main, FALSE)

SpiAims ==
  /\ spi_cmd = <<"1p">> => Toward(isr, TRUE)
  /\ spi_cmd = <<"0p">> => Toward(isr, FALSE)

Agree == ~torn /\ cmd \notin Switching /\ spi_cmd \notin PowerCommands => Shows(TRUE) \/ Shows(FALSE)

NotOrphan == ~torn /\ cmd \notin {<<"0p">>, <<"boot">>} /\ spi_cmd # <<"0p">> => (Up => boot_magic)

Known == MainAims /\ OffWhole /\ SpiAims /\ Agree /\ NotOrphan

SomSafe == Kinds /\ HeldOK /\ Alone /\ OffFirst /\ (mb_version = board => Known)

SomInv == SomTyped /\ SomSafe

-----------------------------------------------------------------------------
(* One operation of a program, seen from the others.                       *)
LEMMA TowardRest ==
  ASSUME board \in 1..2, NEW s \in Seq(Operations), s # <<>>, NEW v \in BOOLEAN, Toward(s, v),
         Effect(Head(s)), NEW t \in Rest(s)
  PROVE  Toward(t, v)'
<1>1. Head(s) \in Operations /\ Tail(s) \in Seq(Operations)  BY Begun
<1>2. Head(s)[1] = "version" => Head(s)[2] = "board"  BY <1>1 DEF Operations
<1>3. Mild(s, v)  BY DEF Toward
<1>4. Head(s)[2] # "board"  BY <1>3, MildParts
<1>5. Toward(Tail(s), v)'  BY TowardTail
<1>6. board' \in 1..2  BY DEF Effect, Sways
<1>7. t = Tail(s) \/ \E pre : Quiet(pre) /\ t = pre \o Tail(s)  BY <1>2, <1>4, RestOK
<1>. DEFINE u == Tail(s)
<1>. HIDE DEF u
<1>8. ASSUME NEW pre, Quiet(pre), t = pre \o u PROVE Toward(t, v)'
  <2>1. pre \in Seq(Operations) /\ NoFive(pre)  BY <1>8, QuietPieces DEF Quiet
  <2>2. u \in Seq(Operations)  BY <1>1 DEF u
  <2>3. Range(t) = Range(pre) \cup Range(u)  BY <1>8, <2>1, <2>2, Joined
  <2>4. Latches(u) => Latches(t)  BY <1>8, <2>1, <2>2, LatchesJoined
  <2>5. Toward(u, v)'  BY <1>5 DEF u
  <2>6. Mild(u, v) => Mild(t, v)  BY <1>8, <2>3 DEF Mild, Quiet, Touches, Targets
  <2>7. Range(u) \subseteq Range(t)  BY <2>3
  <2>8. \A x : x \in Range(u) => x \in Range(t)  BY <2>7
  <2>. QED  BY Zenon, <2>4, <2>5, <2>6, <2>8 DEF Toward
<1>. QED  BY <1>5, <1>7, <1>8 DEF u

LEMMA TowardEnd ==
  ASSUME board' \in 1..2, NEW v \in BOOLEAN, Toward(<<>>, v)'
  PROVE  Shows(v)'
<1>1. Range(<<>>) = {} /\ ~Latches(<<>>)  BY DEF Range, Latches
<1>2. Five(v)'
  <2>1. CASE board' = 1  BY <1>1, <2>1 DEF Toward
  <2>2. CASE board' = 2  BY <1>1, <2>2 DEF Toward
  <2>. QED  BY <2>1, <2>2
<1>. QED  BY <1>1, <1>2 DEF Toward, Shows

LEMMA ShowsUp ==
  ASSUME NEW v \in BOOLEAN, Shows(v)', Up'
  PROVE  boot_magic'
BY DEF Shows, Five, Up

(* The state that Toward and Shows are about.                              *)
Same == UNCHANGED <<board, som_is_powered, boot_magic, shadow, chip, lost, pins, latched>>

LEMMA SameHolds ==
  ASSUME Same, NEW s, NEW v
  PROVE  /\ Toward(s, v) => Toward(s, v)'
         /\ Full(s, v) => Full(s, v)'
         /\ Shows(v) => Shows(v)'
         /\ Up' => Up
<1>1. Five(v)' = Five(v) /\ FiveOp(v)' = FiveOp(v)  BY DEF Same, Five, FiveOp
<1>2. Up' => Up  BY DEF Same, Up
<1>3. Toward(s, v) => Toward(s, v)'  BY Zenon, <1>1 DEF Toward, Same
<1>4. Full(s, v) => Full(s, v)'  BY Zenon, <1>1 DEF Full, Same
<1>5. Shows(v) => Shows(v)'  BY Zenon, <1>1 DEF Shows, Same
<1>. QED  BY Zenon, <1>2, <1>3, <1>4, <1>5

LEMMA Renamed ==
  ASSUME NEW t, NEW v
  PROVE  /\ main' = t /\ Toward(t, v)' => Toward(main, v)'
         /\ isr' = t /\ Toward(t, v)' => Toward(isr, v)'
         /\ main' = t /\ Full(t, v)' => Full(main, v)'
BY Zenon DEF Toward, Full

LEMMA FullHolds ==
  ASSUME board' = board, NEW s, NEW v, Full(s, v)
  PROVE  Full(s, v)'
BY Zenon DEF Full, FiveOp

LEMMA FullTowardNext ==
  ASSUME board' \in 1..2, NEW s, NEW v, Full(s, v)'
  PROVE  Toward(s, v)'
<1>1. Mild(s, v)  BY DEF Full, Pure, Mild, Touches
<1>. QED  BY <1>1 DEF Full, Toward

(* A quiet operation disturbs nobody.                                      *)
LEMMA QuietHolds ==
  ASSUME board \in 1..2, NEW op, Sways(op), op[2] \notin Targets
  PROVE  /\ \A v \in BOOLEAN : \A s : Toward(s, v) => Toward(s, v)'
         /\ \A v \in BOOLEAN : Shows(v) => Shows(v)'
         /\ (Up' => Up) /\ boot_magic' = boot_magic /\ som_is_powered' = som_is_powered
<1>1. ASSUME NEW v \in BOOLEAN, NEW s, Toward(s, v) PROVE Toward(s, v)'
  BY <1>1, TowardHolds
<1>2. ASSUME NEW v \in BOOLEAN, Shows(v) PROVE Shows(v)'
  BY <1>2, ShowsHolds
<1>3. op[2] # "5V" /\ op[2] # "som_is_powered" /\ op[2] # "boot_magic"  BY DEF Targets
<1>4. Up' => Up  BY <1>3, UpHolds
<1>5. boot_magic' = boot_magic /\ som_is_powered' = som_is_powered  BY <1>3 DEF Sways
<1>. QED  BY Zenon, <1>1, <1>2, <1>4, <1>5

(* Switching on, the rail does not come before the magic.                  *)
LEMMA MagicLeads ==
  ASSUME board \in 1..2, NEW s \in Seq(Operations), s # <<>>, Toward(s, TRUE), MagicFirst(s),
         Sways(Head(s)), Up => boot_magic, Up', boot_magic \in BOOLEAN
  PROVE  boot_magic'
<1>. DEFINE op == Head(s)
<1>1. Mild(s, TRUE) /\ (boot_magic = TRUE \/ Flag("boot_magic", TRUE) \in Range(s))
  BY DEF Toward
<1>2. op[2] \in Targets => op[3] = TRUE  BY <1>1, MildParts
<1>3. Up \/ op[2] = "5V"  BY UpHolds
<1>4. op[2] = "5V" => NoMagic(s)  BY MagicTail
<1>. HIDE DEF op
<1>5. boot_magic = TRUE
  <2>1. CASE op[2] = "5V"
    <3>1. NoMagic(s)  BY <1>4, <2>1
    <3>2. Flag("boot_magic", TRUE)[2] = "boot_magic"  BY DEF Flag
    <3>3. Flag("boot_magic", TRUE) \notin Range(s)  BY <3>1, <3>2 DEF NoMagic
    <3>. QED  BY <1>1, <3>3
  <2>2. CASE Up  BY <2>2
  <2>. QED  BY <1>3, <2>1, <2>2
<1>6. boot_magic' = IF op[2] = "boot_magic" THEN op[3] ELSE boot_magic  BY DEF Sways, op
<1>. QED  BY <1>2, <1>5, <1>6 DEF Targets

LEMMA KindHead ==
  ASSUME NEW s \in Seq(Operations), s # <<>>, NEW c, Kind(s, c)
  PROVE  /\ Head(s)[2] = "ext" => c = <<"boot">> /\ \E w \in BOOLEAN : s = Boot(w)
         /\ Head(s)[2] = "board" => c = <<"boot">> /\ \E w \in BOOLEAN : s = Version(w)
         /\ Head(s)[2] = "irq" => c = <<"boot">> /\ Tail(s) = <<>> /\ Rest(s) = {Tail(s)}
         /\ c \notin Switching => Head(s)[2] \notin Targets
<1>1. Head(s) \in Operations  BY Begun
<1>2. CASE c \notin Switching
  <2>1. Quiet(s)  BY <1>2 DEF Kind
  <2>. QED  BY <1>2, <2>1, QuietTail
<1>3. CASE c \in PowerCommands
  <2>1. PICK v \in BOOLEAN : Piece(s, v)
    BY Zenon, <1>3, CommandsDiffer DEF Kind, PowerCommands
  <2>. QED  BY <1>3, <2>1, PieceTail DEF Switching
<1>4. CASE c = <<"boot">>
  <2>1. ASSUME IrqLast(s), NEW v \in BOOLEAN, Mild(s, v)
        PROVE  /\ Head(s)[2] \notin {"ext", "board"}
               /\ Head(s)[2] = "irq" => Tail(s) = <<>> /\ Rest(s) = {Tail(s)}
    <3>1. Head(s)[2] \notin {"ext", "board"}  BY <2>1, MildParts
    <3>2. Head(s)[2] = "irq" => Tail(s) = <<>>  BY <2>1, IrqTail
    <3>3. Head(s)[2] = "irq" => Head(s)[1] = "flag"
      BY <1>1 DEF Operations, ExtBits, UswitchBits, Pins, LatchedPins
    <3>4. Head(s)[2] = "irq" => Rest(s) = {Tail(s)}  BY <3>3 DEF Rest
    <3>. QED  BY <3>1, <3>2, <3>4
  <2>2. ASSUME NEW w \in BOOLEAN, s = Boot(w) PROVE Head(s)[2] = "ext"
    BY <2>2, Boots
  <2>3. ASSUME NEW w \in BOOLEAN, s = Version(w) PROVE Head(s)[2] = "board"
    BY <2>3 DEF Version
  <2>4. \/ IrqLast(s) /\ \E v \in BOOLEAN : Mild(s, v)
        \/ \E w \in BOOLEAN : s = Boot(w) \/ s = Version(w)
    BY <1>4 DEF Kind
  <2>5. c \in Switching  BY <1>4 DEF Switching
  <2>. QED  BY <1>4, <2>1, <2>2, <2>3, <2>4, <2>5
<1>. QED  BY <1>2, <1>3, <1>4 DEF Switching

-----------------------------------------------------------------------------
(* The steps of the main program.                                          *)
LEMMA MainMovesSafe ==
  ASSUME SomTyped, Kinds, Alone, isr = <<>>, spi_cmd # More, main # <<>>, MainMoves,
         irq' = irq \/ Head(main)[2] = "irq"
  PROVE  Kinds' /\ Alone'
<1>1. main \in Seq(Operations) /\ Kind(main, cmd) /\ Kind(isr, spi_cmd)
  BY DEF SomTyped, ProgramsTyped, Kinds
<1>2. /\ main' \in Rest(main) /\ isr' = isr /\ spi_cmd' = spi_cmd
      /\ cmd' = IF main' = <<>> THEN <<"none">> ELSE cmd
      /\ torn' = IF main' = <<>> /\ cmd \in Switching THEN disturbed ELSE torn
      /\ disturbed' = (disturbed /\ main' # <<>>)
  BY DEF MainMoves, isr_vars, Switching
<1>3. Kind(main', cmd)
  <2>1. PICK s, c, t : s = main /\ c = cmd /\ t = main'  OBVIOUS
  <2>. QED  BY <1>1, <1>2, <2>1, KindRest
<1>4. Kind(main', cmd')  BY <1>2, <1>3, KindDone
<1>5. Kinds'  BY <1>1, <1>2, <1>4 DEF Kinds
<1>6. spi_cmd = <<"none">> /\ spi_cmd \notin PowerCommands /\ spi_cmd # <<"0p">>
  BY CommandsDiffer DEF Alone, Switching, PowerCommands
<1>7. ASSUME cmd' = <<"boot">> PROVE ~irq' /\ ~disturbed'
  <2>1. cmd = <<"boot">> /\ main' # <<>>  BY <1>2, <1>7
  <2>2. ~irq /\ ~disturbed  BY <2>1 DEF Alone
  <2>3. Head(main)[2] # "irq"
    <3>1. PICK s, c, t : s = main /\ c = cmd /\ t = main'  OBVIOUS
    <3>2. Head(s)[2] = "irq" => t = <<>>  BY <1>1, <1>2, <3>1, KindHead
    <3>. QED  BY <2>1, <3>1, <3>2
  <2>4. irq' = irq  BY <2>3
  <2>5. disturbed' = (disturbed /\ main' # <<>>)  BY <1>2
  <2>. QED  BY Zenon, <2>2, <2>4, <2>5
<1>8. cmd' \in Switching => main' # <<>>  BY <1>2, CommandsDiffer
<1>9. disturbed' => torn'  BY <1>2 DEF Alone
<1>. QED  BY <1>2, <1>5, <1>6, <1>7, <1>8, <1>9 DEF Alone

LEMMA DeafStays ==
  ASSUME SomTyped, Kinds, OffFirst, isr = <<>>, spi_cmd # More, main # <<>>, MainMoves,
         FlagsSway(Head(main)) \/ (UNCHANGED som_is_powered /\ Expander(Head(main)))
  PROVE  cmd' = <<"0p">> => Deaf'
<1>. SUFFICES ASSUME cmd' = <<"0p">> PROVE Deaf'  OBVIOUS
<1>0. Flag("som_is_powered", FALSE)[1] = "flag" /\ Flag("som_is_powered", FALSE)[2] = "som_is_powered"
  BY DEF Flag
<1>1. cmd = <<"0p">> /\ isr' = <<>> /\ spi_cmd' # More
  BY CommandsDiffer DEF MainMoves, isr_vars
<1>2. Piece(main, FALSE)  BY <1>1 DEF Kinds, Kind
<1>3. Head(main)[2] \in Targets => Head(main)[3] = FALSE  BY <1>2, PieceTail
<1>4. ~som_is_powered \/ Head(main) = Flag("som_is_powered", FALSE)
  BY <1>1 DEF OffFirst, Deaf
<1>5. CASE FlagsSway(Head(main))
  <2>1. Head(main)[2] = "som_is_powered" => Head(main)[3] = FALSE  BY <1>3 DEF Targets
  <2>2. som_is_powered' = IF Head(main)[2] = "som_is_powered" THEN Head(main)[3] ELSE som_is_powered
    BY <1>5 DEF FlagsSway
  <2>3. CASE Head(main)[2] = "som_is_powered"
    <3>1. som_is_powered' = FALSE  BY Zenon, <2>1, <2>2, <2>3
    <3>. QED  BY <1>1, <3>1 DEF Deaf
  <2>4. CASE Head(main)[2] # "som_is_powered"
    <3>1. Head(main) # Flag("som_is_powered", FALSE)  BY <1>0, <2>4
    <3>2. som_is_powered' = som_is_powered  BY Zenon, <2>2, <2>4
    <3>. QED  BY <1>1, <1>4, <3>1, <3>2 DEF Deaf
  <2>. QED  BY <2>3, <2>4
<1>6. CASE UNCHANGED som_is_powered /\ Expander(Head(main))
  <2>1. Head(main) # Flag("som_is_powered", FALSE)  BY <1>0, <1>6 DEF Expander
  <2>. QED  BY <1>1, <1>4, <1>6, <2>1 DEF Deaf
<1>. QED  BY <1>5, <1>6

(* The main program, undisturbed, completes an operation.                  *)
LEMMA MainMovesKnown ==
  ASSUME SomTyped, Kinds, Alone, OffFirst, mb_version = board, Known, isr = <<>>, spi_cmd # More, main # <<>>,
         MainMoves, Effect(Head(main)), ~disturbed
  PROVE  Known'
<1>. DEFINE op == Head(main)
<1>1. /\ main \in Seq(Operations) /\ Kind(main, cmd) /\ op \in Operations /\ board \in 1..2
      /\ boot_magic \in BOOLEAN
  BY Begun DEF SomTyped, ProgramsTyped, FlagsTyped, Kinds
<1>2. /\ main' \in Rest(main) /\ isr' = isr /\ spi_cmd' = spi_cmd
      /\ cmd' = IF main' = <<>> THEN <<"none">> ELSE cmd
      /\ torn' = IF main' = <<>> /\ cmd \in Switching THEN disturbed ELSE torn
      /\ disturbed' = (disturbed /\ main' # <<>>)
  BY DEF MainMoves, isr_vars, Switching
<1>3. Sways(op) /\ board' = board /\ FlagsSway(op)  BY DEF Effect, Sways, FlagsSway
<1>4. spi_cmd = <<"none">> /\ spi_cmd \notin PowerCommands /\ spi_cmd # <<"0p">> /\ spi_cmd # <<"1p">>
  BY CommandsDiffer DEF Alone, Switching, PowerCommands
<1>5. PICK s, c, t : s = main /\ c = cmd /\ t = main'  OBVIOUS
<1>6. /\ s \in Seq(Operations) /\ s # <<>> /\ Kind(s, c) /\ t \in Rest(s) /\ Effect(Head(s))
      /\ Sways(Head(s))
  BY <1>1, <1>2, <1>3, <1>5
<1>7. ASSUME NEW v \in BOOLEAN, Toward(main, v)
      PROVE  Toward(main, v)' /\ (main' = <<>> => Shows(v)')
  <2>1. Toward(s, v)  BY Zenon, <1>5, <1>7
  <2>2. Toward(t, v)'  BY <1>1, <1>6, <2>1, TowardRest
  <2>3. Toward(main, v)'  BY <1>5, <2>2, Renamed
  <2>4. t = <<>> => Shows(v)'  BY <1>1, <1>3, <2>2, TowardEnd
  <2>. QED  BY <1>5, <2>3, <2>4
<1>8. ASSUME NEW w \in BOOLEAN, main = Version(w) PROVE Toward(main, w)' /\ main' # <<>>
  <2>1. Head(s) = <<"version", "board", w>>  BY <1>5, <1>8 DEF Version
  <2>2. t = Setup(w)  BY <1>6, <2>1 DEF Rest
  <2>3. Toward(t, w)  BY <1>1, <2>2, SetupKind
  <2>4. Head(s)[2] \notin Targets  BY <2>1 DEF Targets
  <2>5. Toward(t, w)'  BY <1>1, <1>6, <2>3, <2>4, QuietHolds
  <2>6. t # <<>>  BY <2>2, SetupTyped
  <2>. QED  BY <1>5, <2>5, <2>6, Renamed
<1>9. /\ cmd = <<"1p">> => Toward(main, TRUE)
      /\ cmd = <<"0p">> => Toward(main, FALSE)
      /\ cmd = <<"boot">> => \/ \E v \in BOOLEAN : Toward(main, v)
                             \/ \E w \in BOOLEAN : main = Version(w)
  BY DEF Known, MainAims
<1>10. MainAims'
  <2>1. /\ cmd' = <<"1p">> => Toward(main, TRUE)'
        /\ cmd' = <<"0p">> => Toward(main, FALSE)'
        /\ cmd' = <<"boot">> => \E v \in BOOLEAN : Toward(main, v)'
    <3>1. cmd' \in Switching => cmd = cmd'  BY <1>2, CommandsDiffer
    <3>2. cmd' \in {<<"1p">>, <<"0p">>, <<"boot">>} => cmd' \in Switching
      BY DEF Switching, PowerCommands
    <3>3. cmd' = <<"1p">> => Toward(main, TRUE)'  BY <1>7, <1>9, <3>1, <3>2
    <3>4. cmd' = <<"0p">> => Toward(main, FALSE)'  BY <1>7, <1>9, <3>1, <3>2
    <3>5. cmd' = <<"boot">> => \E v \in BOOLEAN : Toward(main, v)'
      BY Zenon, <1>7, <1>8, <1>9, <3>1, <3>2
    <3>. QED  BY <3>3, <3>4, <3>5
  <2>. QED  BY Zenon, <2>1 DEF MainAims
<1>11. OffWhole'  BY <1>3, DeafStays DEF OffWhole
<1>12. SpiAims'  BY <1>2, <1>4 DEF SpiAims
<1>13. ASSUME cmd \in Switching, main' = <<>> PROVE Shows(TRUE)' \/ Shows(FALSE)'
  <2>1. \E v \in BOOLEAN : Toward(main, v)
    BY Zenon, <1>8, <1>9, <1>13 DEF Switching, PowerCommands
  <2>2. \E v \in BOOLEAN : Shows(v)'  BY <1>7, <1>13, <2>1
  <2>. QED  BY Zenon, <2>2
<1>14. ASSUME cmd \notin Switching
       PROVE  /\ Shows(TRUE) => Shows(TRUE)'
              /\ Shows(FALSE) => Shows(FALSE)'
              /\ (Up' => Up) /\ boot_magic' = boot_magic
  <2>1. Head(s)[2] \notin Targets  BY <1>5, <1>6, <1>14, KindHead
  <2>. QED  BY <1>1, <1>6, <2>1, QuietHolds
<1>15. Agree'
  <2>1. CASE cmd \in Switching  BY <1>2, <1>13, <2>1 DEF Agree
  <2>2. CASE cmd \notin Switching
    BY <1>2, <1>4, <1>14, <2>2 DEF Agree, Known
  <2>. QED  BY <2>1, <2>2
<1>16. NotOrphan'
  <2>. SUFFICES ASSUME ~torn', cmd' \notin {<<"0p">>, <<"boot">>}, Up' PROVE boot_magic'
    BY DEF NotOrphan
  <2>1. CASE cmd \in Switching /\ main' = <<>>  BY <1>13, <2>1, ShowsUp
  <2>2. CASE cmd \notin Switching
    <3>1. ~torn /\ cmd \notin {<<"0p">>, <<"boot">>}
      BY <1>2, <2>2 DEF Switching, PowerCommands
    <3>. QED  BY <1>4, <1>14, <2>2, <3>1 DEF Known, NotOrphan
  <2>3. CASE cmd \in Switching /\ main' # <<>>
    <3>1. cmd = <<"1p">> /\ ~torn  BY <1>2, <2>3 DEF Switching, PowerCommands
    <3>2. Toward(s, TRUE) /\ MagicFirst(s)
      BY Zenon, <1>1, <1>5, <1>9, <3>1 DEF Kind
    <3>3. Up => boot_magic
      BY <1>4, <3>1, CommandsDiffer DEF Known, NotOrphan
    <3>. QED  BY <1>1, <1>6, <3>2, <3>3, MagicLeads
  <2>. QED  BY <2>1, <2>2, <2>3
<1>. QED  BY <1>10, <1>11, <1>12, <1>15, <1>16 DEF Known

LEMMA DoIrq ==
  ASSUME NEW op \in Operations, NEW c, Do(op, c)
  PROVE  irq' = irq \/ op[2] = "irq"
<1>1. CASE op[1] = "flag" /\ op[2] # "irq"
  <2>1. op # Flag("irq", op[3])  BY <1>1 DEF Flag
  <2>. QED  BY <1>1, <2>1 DEF Do, flags
<1>2. CASE op[1] # "flag"
  <2>1. op # Flag("irq", op[3])  BY <1>2 DEF Flag
  <2>. QED  BY <1>2, <2>1 DEF Do, flags
<1>. QED  BY <1>1, <1>2

LEMMA MainDoesSafe == ASSUME SomInv, MainDoes PROVE SomSafe'
<1>. DEFINE op == Head(main)
<1>1. /\ isr = <<>> /\ spi_cmd # More /\ main # <<>> /\ ~Expander(op) /\ Do(op, cmd) /\ MainMoves
      /\ phase' = phase /\ held' = held
  BY DEF MainDoes, Handling, Busy
<1>2. /\ SomTyped /\ Kinds /\ HeldOK /\ Alone /\ OffFirst /\ (mb_version = board => Known)
      /\ OutputsTyped /\ board \in 1..2
      /\ main \in Seq(Operations) /\ op \in Operations /\ Kind(main, cmd) /\ board' = board
  BY <1>1, Begun DEF SomInv, SomSafe, SomTyped, ProgramsTyped, FlagsTyped, Kinds, MainMoves
<1>3. phase = "none"  BY <1>1 DEF SomInv, SomTyped, ProgramsTyped
<1>4. irq' = irq \/ op[2] = "irq"  BY <1>1, <1>2, DoIrq
<1>5. Kinds' /\ Alone'  BY <1>1, <1>2, <1>4, MainMovesSafe
<1>6. HeldOK'  BY <1>1, <1>3 DEF HeldOK
<1>7. CASE op[2] # "ext"
  <2>1. Effect(op) /\ mb_version' = mb_version  BY <1>1, <1>2, <1>7, DoEffect
  <2>2. FlagsSway(op)  BY <2>1 DEF Effect, Sways, FlagsSway
  <2>3. cmd' = <<"0p">> => Deaf'  BY <1>1, <1>2, <2>2, DeafStays
  <2>4. OffFirst'  BY <2>3 DEF OffFirst
  <2>5. ASSUME mb_version' = board', ~disturbed PROVE Known'
    BY <1>1, <1>2, <2>1, <2>5, MainMovesKnown
  <2>6. ASSUME disturbed PROVE Known'
    <3>1. /\ cmd' = IF main' = <<>> THEN <<"none">> ELSE cmd
          /\ torn' = IF main' = <<>> /\ cmd \in Switching THEN disturbed ELSE torn
          /\ disturbed' = (disturbed /\ main' # <<>>)
          /\ isr' = isr /\ spi_cmd' = spi_cmd
      BY <1>1 DEF MainMoves, isr_vars, Switching
    <3>2. torn  BY <1>2, <2>6 DEF Alone
    <3>3. torn'  BY <2>6, <3>1, <3>2
    <3>4. cmd' \in Switching => disturbed'  BY <2>6, <3>1, CommandsDiffer
    <3>5. cmd' # <<"boot">>  BY <1>2, <2>6, <3>1 DEF Alone
    <3>6. spi_cmd' = <<"none">>  BY <1>1, <1>2, <3>1 DEF Alone
    <3>7. MainAims'  BY <3>4, <3>5 DEF MainAims, Switching, PowerCommands
    <3>8. SpiAims'  BY <3>6 DEF SpiAims
    <3>9. OffWhole'  BY <2>3 DEF OffWhole
    <3>. QED  BY <3>3, <3>7, <3>8, <3>9 DEF Known, Agree, NotOrphan
  <2>. QED  BY <1>5, <1>6, <2>4, <2>5, <2>6 DEF SomSafe
<1>8. CASE op[2] = "ext"
  <2>1. PICK s, c, t : s = main /\ c = cmd /\ t = main'  OBVIOUS
  <2>2. c = <<"boot">> /\ \E w \in BOOLEAN : s = Boot(w)
    BY <1>1, <1>2, <1>8, <2>1, KindHead
  <2>3. PICK w \in BOOLEAN : s = Boot(w)  BY <2>2
  <2>4. Head(s) = <<"setup", "ext", w>> /\ Tail(s) = Version(w)  BY <2>3, Boots DEF Version
  <2>5. t = Version(w)
    <3>1. t \in Rest(s)  BY <1>1, <2>1 DEF MainMoves
    <3>2. Head(s)[1] = "setup"  BY <2>4
    <3>3. t = Tail(s)  BY ONLY <3>1, <3>2 DEF Rest
    <3>. QED  BY <2>4, <3>3
  <2>6. Version(w) # <<>>  BY DEF Version
  <2>7. cmd' = <<"boot">>  BY <1>1, <2>1, <2>2, <2>5, <2>6 DEF MainMoves
  <2>8. isr' = <<>> /\ spi_cmd' = <<"none">>
    BY <1>1, <1>2, <2>1, <2>2 DEF Alone, MainMoves, isr_vars
  <2>9. MainAims'  BY <2>1, <2>5, <2>7 DEF MainAims
  <2>10. SpiAims'  BY <2>8 DEF SpiAims
  <2>. QED  BY <1>5, <1>6, <2>7, <2>9, <2>10, CommandsDiffer
            DEF SomSafe, Known, OffFirst, OffWhole, Agree, NotOrphan, Switching
<1>. QED  BY <1>7, <1>8

LEMMA LoadShadowSafe == ASSUME SomInv, LoadShadow PROVE SomSafe'
<1>1. /\ isr = <<>> /\ spi_cmd # More /\ main # <<>> /\ Expander(Head(main)) /\ phase' = "loaded"
      /\ held' = shadow[Head(main)[1]]
      /\ UNCHANGED <<board, main, cmd, isr, spi_cmd, irq, som_is_powered, boot_magic, mb_version,
                     shadow, chip, lost, pins, latched, disturbed, torn>>
  BY DEF LoadShadow, Handling, Busy, isr_vars, flags, expanders, outputs, history
<1>2. Kinds /\ HeldOK /\ Alone /\ OffFirst /\ (mb_version = board => Known)
  BY DEF SomInv, SomSafe
<1>3. Kinds'  BY <1>1, <1>2 DEF Kinds
<1>4. HeldOK'  BY <1>1 DEF HeldOK
<1>5. Alone'  BY <1>1, <1>2 DEF Alone
<1>6. OffFirst'  BY <1>1, <1>2 DEF OffFirst, Deaf
<1>7. (mb_version = board => Known)'
  BY Zenon, <1>1, <1>2
     DEF Known, MainAims, OffWhole, SpiAims, Agree, NotOrphan, Toward, Full, Shows, Five, FiveOp,
         Up, Deaf
<1>. QED  BY <1>3, <1>4, <1>5, <1>6, <1>7 DEF SomSafe

LEMMA StoreShadowSafe == ASSUME SomInv, StoreShadow PROVE SomSafe'
<1>. DEFINE op == Head(main)
<1>1. /\ isr = <<>> /\ spi_cmd # More /\ phase = "loaded" /\ phase' = "stored"
      /\ held' = With(held, op[2], op[3])
      /\ shadow' = [shadow EXCEPT ![op[1]] = held']
      /\ UNCHANGED <<board, main, cmd, isr, spi_cmd, irq, som_is_powered, boot_magic, mb_version,
                     chip, lost, pins, latched, disturbed, torn>>
  BY DEF StoreShadow, Handling, Busy, isr_vars, flags, outputs, history
<1>2. /\ Kinds /\ HeldOK /\ Alone /\ OffFirst /\ (mb_version = board => Known)
      /\ SomTyped /\ OutputsTyped /\ board \in 1..2 /\ boot_magic \in BOOLEAN
  BY DEF SomInv, SomSafe, SomTyped, FlagsTyped
<1>3. main \in Seq(Operations) /\ main # <<>> /\ Expander(op) /\ op \in Operations
      /\ Kind(main, cmd)
  BY <1>1, <1>2, Begun DEF SomTyped, ProgramsTyped, Kinds
<1>4. /\ op[1] \in {"ext", "uswitch"} /\ op[2] \in Bits(op[1]) /\ op[3] \in BOOLEAN
  BY <1>3, ExpanderOps
<1>5. shadow'[op[1]] = held'  BY <1>1, <1>4 DEF OutputsTyped, SomInv, SomTyped
<1>6. HeldOK'
  <2>1. op[2] \in held' <=> op[3]  BY <1>1, <1>4 DEF With
  <2>2. ~disturbed' => isr' = <<>> /\ held' = shadow'[op[1]]  BY <1>1, <1>5
  <2>3. main' = main  BY <1>1
  <2>. QED  BY <2>1, <2>2, <2>3 DEF HeldOK
<1>7. Kinds'  BY <1>1, <1>2 DEF Kinds
<1>8. Alone'  BY <1>1, <1>2 DEF Alone
<1>9. OffFirst'  BY <1>1, <1>2 DEF OffFirst, Deaf
<1>10. ASSUME disturbed, Known PROVE Known'
  <2>1. torn' /\ disturbed' /\ cmd' # <<"boot">>  BY <1>1, <1>2, <1>10 DEF Alone
  <2>2. spi_cmd' = <<"none">>  BY <1>1, <1>2 DEF Alone
  <2>3. OffWhole'  BY Zenon, <1>1, <1>10 DEF Known, OffWhole, Deaf, Full, FiveOp
  <2>. QED  BY <2>1, <2>2, <2>3 DEF Known, MainAims, SpiAims, Agree, NotOrphan
<1>11. ASSUME ~disturbed, Known PROVE Known'
  <2>1. held = shadow[op[1]]  BY <1>1, <1>2, <1>11 DEF HeldOK
  <2>2. Sways(op)
    <3>1. op[2] \notin {"som_is_powered", "boot_magic"}
      BY <1>4 DEF Bits, ExtBits, UswitchBits
    <3>2. \/ "5V" \in shadow'.ext <=> "5V" \in shadow.ext
          \/ op[2] = "5V" /\ ("5V" \in shadow'.ext <=> op[3])
      BY <1>1, <1>2, <1>4, <2>1 DEF OutputsTyped, With
    <3>. QED  BY <1>1, <3>1, <3>2 DEF Sways
  <2>3. PICK s, c : s = main /\ c = cmd  OBVIOUS
  <2>4. /\ s \in Seq(Operations) /\ s # <<>> /\ Kind(s, c) /\ Sways(Head(s)) /\ main' = s
        /\ cmd' = cmd
    BY <1>1, <1>3, <2>2, <2>3
  <2>5. spi_cmd = <<"none">> /\ spi_cmd' = spi_cmd /\ spi_cmd # <<"0p">> /\ spi_cmd # <<"1p">>
        /\ spi_cmd \notin PowerCommands
    BY <1>1, <1>2, CommandsDiffer DEF Alone, PowerCommands
  <2>6. ASSUME NEW v \in BOOLEAN, Toward(main, v) PROVE Toward(main, v)'
    <3>1. Toward(s, v) /\ Mild(s, v)  BY Zenon, <2>3, <2>6 DEF Toward
    <3>2. Head(s)[2] \in Targets => Head(s)[3] = v  BY <2>4, <3>1, MildParts
    <3>3. Toward(s, v)'  BY <1>2, <2>4, <3>1, <3>2, TowardHolds
    <3>. QED  BY <2>4, <3>3, Renamed
  <2>7. MainAims'
    <3>1. ~(\E w \in BOOLEAN : main = Version(w))
      <4>1. ASSUME NEW w \in BOOLEAN, main = Version(w) PROVE FALSE
        <5>1. op[1] = "version"  BY <4>1 DEF Version
        <5>. QED  BY <1>4, <5>1
      <4>. QED  BY <4>1
    <3>2. cmd' = <<"1p">> => Toward(main, TRUE)'
      BY <1>11, <2>4, <2>6 DEF Known, MainAims
    <3>3. cmd' = <<"0p">> => Toward(main, FALSE)'
      BY <1>11, <2>4, <2>6 DEF Known, MainAims
    <3>4. cmd' = <<"boot">> => \E v \in BOOLEAN : Toward(main, v)'
      BY Zenon, <1>11, <2>4, <2>6, <3>1 DEF Known, MainAims
    <3>. QED  BY Zenon, <3>2, <3>3, <3>4 DEF MainAims
  <2>8. OffWhole'  BY Zenon, <1>1, <1>11 DEF Known, OffWhole, Deaf, Full, FiveOp
  <2>9. SpiAims'  BY <2>5 DEF SpiAims
  <2>10. ASSUME cmd \notin Switching
         PROVE  /\ Shows(TRUE) => Shows(TRUE)'
                /\ Shows(FALSE) => Shows(FALSE)'
                /\ (Up' => Up) /\ boot_magic' = boot_magic
    <3>1. Head(s)[2] \notin Targets  BY <2>3, <2>4, <2>10, KindHead
    <3>. QED  BY <1>2, <2>4, <3>1, QuietHolds
  <2>11. Agree'  BY <1>1, <1>11, <2>4, <2>5, <2>10 DEF Agree, Known
  <2>12. NotOrphan'
    <3>. SUFFICES ASSUME ~torn', cmd' \notin {<<"0p">>, <<"boot">>}, Up' PROVE boot_magic'
      BY DEF NotOrphan
    <3>1. ~torn /\ cmd \notin {<<"0p">>, <<"boot">>} /\ (Up => boot_magic)
      BY <1>1, <1>11, <2>5 DEF Known, NotOrphan
    <3>2. CASE cmd \notin Switching  BY <2>10, <3>1, <3>2
    <3>3. CASE cmd = <<"1p">>
      <4>1. Toward(s, TRUE) /\ MagicFirst(s)
        BY Zenon, <1>3, <1>11, <2>3, <3>3 DEF Known, MainAims, Kind
      <4>. QED  BY <1>2, <2>4, <3>1, <4>1, MagicLeads
    <3>. QED  BY <3>1, <3>2, <3>3 DEF Switching, PowerCommands
  <2>. QED  BY <2>7, <2>8, <2>9, <2>11, <2>12 DEF Known
<1>12. (mb_version = board => Known)'  BY <1>1, <1>2, <1>10, <1>11
<1>. QED  BY <1>6, <1>7, <1>8, <1>9, <1>12 DEF SomSafe

LEMMA WriteChipSafe == ASSUME SomInv, WriteChip PROVE SomSafe'
<1>. DEFINE op == Head(main)
<1>1. /\ isr = <<>> /\ spi_cmd # More /\ phase = "stored" /\ phase' = "none" /\ held' = {}
      /\ write_byte(op[1], held) /\ MainMoves
      /\ UNCHANGED <<irq, som_is_powered, boot_magic, mb_version, shadow, pins, latched>>
  BY DEF WriteChip, Handling, Busy, flags, outputs
<1>2. /\ SomTyped /\ Kinds /\ HeldOK /\ Alone /\ OffFirst /\ (mb_version = board => Known)
      /\ OutputsTyped /\ board \in 1..2 /\ board' = board
  BY <1>1 DEF SomInv, SomSafe, SomTyped, FlagsTyped, MainMoves
<1>3. main \in Seq(Operations) /\ main # <<>> /\ Expander(op) /\ op \in Operations
  BY <1>1, <1>2, Begun DEF SomTyped, ProgramsTyped
<1>4. Kinds' /\ Alone'  BY <1>1, <1>2, <1>3, MainMovesSafe
<1>5. HeldOK'  BY <1>1 DEF HeldOK
<1>6. cmd' = <<"0p">> => Deaf'  BY <1>1, <1>2, <1>3, DeafStays
<1>7. OffFirst' /\ OffWhole'  BY <1>6 DEF OffFirst, OffWhole
<1>8. ASSUME ~disturbed, Known, mb_version = board PROVE Known'
  <2>1. held = shadow[op[1]] /\ (op[2] \in held <=> op[3])  BY <1>1, <1>2, <1>8 DEF HeldOK
  <2>2. write_byte(op[1], shadow'[op[1]])  BY <1>1, <2>1
  <2>3. Effect(op)  BY <1>1, <1>2, <1>3, <2>1, <2>2, WriteEffect
  <2>. QED  BY <1>1, <1>2, <1>3, <1>8, <2>3, MainMovesKnown
<1>9. ASSUME disturbed PROVE Known'
  <2>1. /\ cmd' = IF main' = <<>> THEN <<"none">> ELSE cmd
        /\ torn' = IF main' = <<>> /\ cmd \in Switching THEN disturbed ELSE torn
        /\ disturbed' = (disturbed /\ main' # <<>>)
        /\ isr' = isr /\ spi_cmd' = spi_cmd
    BY <1>1 DEF MainMoves, isr_vars, Switching
  <2>2. torn'  BY <1>2, <1>9, <2>1 DEF Alone
  <2>3. cmd' \in Switching => disturbed'  BY <1>9, <2>1, CommandsDiffer
  <2>4. cmd' # <<"boot">>  BY <1>2, <1>9, <2>1 DEF Alone
  <2>5. spi_cmd' = <<"none">>  BY <1>1, <1>2, <2>1 DEF Alone
  <2>6. MainAims'  BY <2>3, <2>4 DEF MainAims, Switching, PowerCommands
  <2>7. SpiAims'  BY <2>5 DEF SpiAims
  <2>. QED  BY <1>7, <2>2, <2>6, <2>7 DEF Known, Agree, NotOrphan
<1>10. (mb_version = board => Known)'  BY <1>1, <1>2, <1>8, <1>9
<1>. QED  BY <1>4, <1>5, <1>7, <1>10 DEF SomSafe

LEMMA LoopCommandSafe == ASSUME SomInv, LoopCommand PROVE SomSafe'
<1>1. /\ isr = <<>> /\ spi_cmd # More /\ main = <<>> /\ cmd' \in Commands /\ main' = Program(cmd')
      /\ UNCHANGED <<board, isr, spi_cmd, phase, held, irq, som_is_powered, boot_magic, mb_version,
                     shadow, chip, lost, pins, latched, disturbed, torn>>
  BY SomPowerAssumption
     DEF LoopCommand, Handling, Busy, isr_vars, flags, expanders, outputs, history
<1>2. /\ SomTyped /\ Kinds /\ HeldOK /\ Alone /\ OffFirst /\ (mb_version = board => Known)
      /\ board \in 1..2 /\ board' \in 1..2
  BY <1>1 DEF SomInv, SomSafe, SomTyped, FlagsTyped
<1>3. PICK c, t : c \in Commands /\ c = cmd' /\ t = Program(c)  BY <1>1
<1>4. /\ Kind(t, c) /\ t # <<>>
      /\ c = <<"0p">> => Head(t) = Flag("som_is_powered", FALSE)
      /\ mb_version = board =>
           (c = <<"0p">> => Full(t, FALSE)) /\ (c = <<"1p">> => Full(t, TRUE))
  BY <1>2, <1>3, KindProgram
<1>5. main' = t /\ cmd' = c  BY <1>1, <1>3
<1>6. cmd \notin Switching /\ spi_cmd = <<"none">> /\ spi_cmd # <<"0p">> /\ spi_cmd # <<"1p">>
      /\ spi_cmd \notin PowerCommands /\ cmd \notin {<<"0p">>, <<"boot">>}
  BY <1>1, <1>2, CommandsDiffer DEF Alone, Switching, PowerCommands
<1>7. Kinds'  BY <1>1, <1>2, <1>4, <1>5 DEF Kinds
<1>8. phase = "none"  BY <1>1, <1>2 DEF SomTyped, ProgramsTyped
<1>9. HeldOK'  BY <1>1, <1>8 DEF HeldOK
<1>10. Alone'
  <2>1. cmd' # <<"boot">>  BY <1>1, CommandsDiffer
  <2>2. (disturbed => torn) /\ (disturbed' => torn')  BY <1>1, <1>2 DEF Alone
  <2>. QED  BY <1>1, <1>4, <1>5, <1>6, <2>1, <2>2 DEF Alone
<1>11. OffFirst'  BY <1>4, <1>5 DEF OffFirst
<1>12. ASSUME mb_version = board, Known PROVE Known'
  <2>1. Same  BY <1>1 DEF Same
  <2>2. /\ c = <<"0p">> => Full(main, FALSE)' /\ Toward(main, FALSE)'
        /\ c = <<"1p">> => Toward(main, TRUE)'
    <3>1. ASSUME NEW v, Full(t, v) PROVE Full(main, v)' /\ Toward(main, v)'
      <4>1. Full(t, v)'  BY <2>1, <3>1, SameHolds
      <4>2. Toward(t, v)'  BY <1>2, <4>1, FullTowardNext
      <4>. QED  BY <1>5, <4>1, <4>2, Renamed
    <3>. QED  BY <1>4, <1>12, <3>1
  <2>3. MainAims'
    <3>1. cmd' # <<"boot">>  BY <1>1, CommandsDiffer
    <3>. QED  BY <1>5, <2>2, <3>1 DEF MainAims
  <2>4. OffWhole'  BY <1>5, <2>2 DEF OffWhole
  <2>5. SpiAims'  BY <1>1, <1>6 DEF SpiAims
  <2>6. Agree'
    <3>1. ~torn' => Shows(TRUE) \/ Shows(FALSE)  BY <1>1, <1>6, <1>12 DEF Known, Agree
    <3>. QED  BY <2>1, <3>1, SameHolds DEF Agree
  <2>7. NotOrphan'
    <3>1. ~torn' => (Up => boot_magic)  BY <1>1, <1>6, <1>12 DEF Known, NotOrphan
    <3>2. Up' => Up  BY <2>1, SameHolds
    <3>. QED  BY <1>1, <3>1, <3>2 DEF NotOrphan
  <2>. QED  BY <2>3, <2>4, <2>5, <2>6, <2>7 DEF Known
<1>13. (mb_version = board => Known)'  BY <1>1, <1>2, <1>12
<1>. QED  BY <1>7, <1>9, <1>10, <1>11, <1>13 DEF SomSafe

-----------------------------------------------------------------------------
(* The steps of the interrupt handler.                                     *)
LEMMA SpiCommandSafe == ASSUME SomInv, SpiCommand PROVE SomSafe'
<1>1. /\ spi_cmd = More \/ (irq /\ som_is_powered)
      /\ isr = <<>> /\ spi_cmd' \in Commands /\ isr' = Program(spi_cmd')
      /\ disturbed' = (disturbed \/ Disturbs(spi_cmd'))
      /\ torn' = (torn \/ Disturbs(spi_cmd'))
      /\ UNCHANGED <<board, main, cmd, phase, held, irq, som_is_powered, boot_magic, mb_version,
                     shadow, chip, lost, pins, latched>>
  BY SomPowerAssumption
     DEF SpiCommand, Busy, main_vars, flags, expanders, outputs
<1>2. /\ SomTyped /\ Kinds /\ HeldOK /\ Alone /\ OffFirst /\ (mb_version = board => Known)
      /\ board \in 1..2 /\ board' \in 1..2
  BY <1>1 DEF SomInv, SomSafe, SomTyped, FlagsTyped
<1>3. PICK c, t : c \in Commands /\ c = spi_cmd' /\ t = Program(c)  BY <1>1
<1>4. /\ Kind(t, c) /\ t # <<>>
      /\ mb_version = board =>
           (c = <<"0p">> => Full(t, FALSE)) /\ (c = <<"1p">> => Full(t, TRUE))
  BY <1>2, <1>3, KindProgram
<1>5. isr' = t /\ spi_cmd' = c /\ cmd' = cmd /\ main' = main  BY <1>1, <1>3
<1>6. /\ spi_cmd # <<"0p">> /\ spi_cmd \notin PowerCommands
      /\ cmd # <<"boot">>
  BY <1>1, <1>2, CommandsDiffer DEF Alone, PowerCommands
<1>7. Kinds'  BY <1>2, <1>4, <1>5 DEF Kinds
<1>8. /\ disturbed' <=> (disturbed \/ Disturbs(c))
      /\ torn' <=> (torn \/ Disturbs(c))
  BY <1>1, <1>3
<1>9. HeldOK'
  <2>1. phase' # "none" => disturbed'  BY <1>1, <1>8 DEF Disturbs
  <2>. QED  BY Zenon, <1>1, <1>2, <2>1 DEF HeldOK
<1>10. Alone'
  <2>1. disturbed' => torn'  BY <1>2, <1>8 DEF Alone
  <2>2. cmd = <<"1p">> /\ c = <<"0p">> => disturbed'  BY <1>8 DEF Disturbs
  <2>3. cmd \in Switching => main # <<>>  BY <1>2 DEF Alone
  <2>. QED  BY <1>4, <1>5, <1>6, <2>1, <2>2, <2>3 DEF Alone
<1>11. OffFirst' /\ (cmd = <<"0p">> => ~Deaf)
  BY <1>1, <1>2 DEF OffFirst, Deaf
<1>12. ASSUME mb_version = board, Known PROVE Known'
  <2>1. Same  BY <1>1 DEF Same
  <2>2. /\ c = <<"0p">> => Toward(isr, FALSE)'
        /\ c = <<"1p">> => Toward(isr, TRUE)'
    <3>1. ASSUME NEW v, Full(t, v) PROVE Toward(isr, v)'
      <4>1. Full(t, v)'  BY <2>1, <3>1, SameHolds
      <4>2. Toward(t, v)'  BY <1>2, <4>1, FullTowardNext
      <4>. QED  BY <1>5, <4>2, Renamed
    <3>. QED  BY <1>4, <1>12, <3>1
  <2>3. SpiAims'  BY <1>5, <2>2 DEF SpiAims
  <2>4. PICK s : s = main  OBVIOUS
  <2>5. ASSUME NEW v, Toward(main, v) PROVE Toward(main, v)'
    <3>1. Toward(s, v)  BY Zenon, <2>4, <2>5
    <3>2. Toward(s, v)'  BY <2>1, <3>1, SameHolds
    <3>. QED  BY <1>5, <2>4, <3>2, Renamed
  <2>6. MainAims'
    BY <1>5, <1>6, <1>8, <1>12, <2>5 DEF Known, MainAims
  <2>7. OffWhole'
    <3>1. ASSUME cmd = <<"0p">> PROVE Full(main, FALSE)'
      <4>1. Full(s, FALSE)  BY Zenon, <1>11, <1>12, <2>4, <3>1 DEF Known, OffWhole
      <4>2. Full(s, FALSE)'  BY <2>1, <4>1, SameHolds
      <4>. QED  BY <1>5, <2>4, <4>2, Renamed
    <3>. QED  BY <1>5, <3>1 DEF OffWhole
  <2>8. ~torn' => ~torn  BY <1>8
  <2>9. Agree'
    <3>1. ~torn /\ cmd \notin Switching => Shows(TRUE) \/ Shows(FALSE)
      BY <1>6, <1>12 DEF Known, Agree
    <3>. QED  BY <1>5, <2>1, <2>8, <3>1, SameHolds DEF Agree
  <2>10. NotOrphan'
    <3>1. ~torn /\ cmd \notin {<<"0p">>, <<"boot">>} => (Up => boot_magic)
      BY <1>6, <1>12 DEF Known, NotOrphan
    <3>2. Up' => Up  BY <2>1, SameHolds
    <3>. QED  BY <1>1, <1>5, <2>8, <3>1, <3>2 DEF NotOrphan
  <2>. QED  BY <2>3, <2>6, <2>7, <2>9, <2>10 DEF Known
<1>13. (mb_version = board => Known)'  BY <1>1, <1>2, <1>12
<1>. QED  BY <1>7, <1>9, <1>10, <1>11, <1>13 DEF SomSafe

LEMMA SpiDoesSafe == ASSUME SomInv, SpiDoes PROVE SomSafe'
<1>. DEFINE op == Head(isr)
<1>1. /\ isr # <<>>
      /\ \/ ~Expander(op) /\ Do(op, spi_cmd)
         \/ ExpanderDo(op, spi_cmd)
      /\ isr' \in Rest(isr)
      /\ (isr' = <<>> => spi_cmd' \in {<<"none">>, More}) /\ (isr' # <<>> => spi_cmd' = spi_cmd)
      /\ torn' = IF isr' = <<>> /\ spi_cmd \in PowerCommands THEN disturbed ELSE torn
      /\ UNCHANGED <<board, main, cmd, phase, held, disturbed>>
  BY SpiSteps DEF main_vars
<1>2. /\ SomTyped /\ Kinds /\ HeldOK /\ Alone /\ OffFirst /\ (mb_version = board => Known)
      /\ OutputsTyped /\ FlagsTyped /\ board \in 1..2 /\ board' \in 1..2 /\ boot_magic \in BOOLEAN
      /\ isr \in Seq(Operations) /\ op \in Operations /\ Kind(isr, spi_cmd)
      /\ spi_cmd \in Commands \cup {<<"none">>, More}
  BY <1>1, Begun DEF SomInv, SomSafe, SomTyped, FlagsTyped, ProgramsTyped, Kinds
<1>3. cmd # <<"boot">> /\ spi_cmd # <<"boot">>
  BY <1>1, <1>2, CommandsDiffer DEF Alone
<1>4. PICK s, c, t : s = isr /\ c = spi_cmd /\ t = isr'  OBVIOUS
<1>5. /\ s \in Seq(Operations) /\ s # <<>> /\ Kind(s, c) /\ t \in Rest(s)
  BY <1>1, <1>2, <1>4
<1>6. Head(s)[2] # "ext" /\ (c \notin Switching => Head(s)[2] \notin Targets)
  BY <1>3, <1>4, <1>5, KindHead
<1>7. Effect(op) /\ mb_version' = mb_version
  <2>1. CASE ~Expander(op) /\ Do(op, spi_cmd)
    BY <1>1, <1>2, <1>4, <1>6, <2>1, DoEffect
  <2>2. CASE ExpanderDo(op, spi_cmd)
    <3>1. /\ Expander(op)
          /\ shadow' = [shadow EXCEPT ![op[1]] = With(shadow[op[1]], op[2], op[3])]
          /\ write_byte(op[1], shadow'[op[1]])
          /\ UNCHANGED <<som_is_powered, boot_magic, mb_version, pins, latched>>
      BY <2>2 DEF ExpanderDo, flags, outputs
    <3>. QED  BY <1>1, <1>2, <3>1, WriteEffect
  <2>. QED  BY <1>1, <2>1, <2>2
<1>8. Sways(Head(s)) /\ Effect(Head(s))  BY <1>4, <1>7 DEF Effect
<1>9. Kinds'
  <2>1. Kind(t, c)  BY <1>5, KindRest
  <2>. QED  BY <1>1, <1>2, <1>4, <2>1, KindDone DEF Kinds
<1>10. HeldOK'
  <2>1. phase' # "none" => disturbed'  BY <1>1, <1>2 DEF HeldOK
  <2>. QED  BY Zenon, <1>1, <1>2, <2>1 DEF HeldOK
<1>11. Alone'
  <2>1. disturbed' => torn'
    BY <1>1, <1>2 DEF Alone
  <2>2. spi_cmd' \in PowerCommands => isr' # <<>>
    BY <1>1, CommandsDiffer DEF PowerCommands
  <2>3. isr' = <<>> => spi_cmd' \in {<<"none">>, More}  BY <1>1
  <2>4. cmd' = <<"1p">> /\ spi_cmd' = <<"0p">> => disturbed'
    BY <1>1, <1>2, CommandsDiffer DEF Alone
  <2>5. cmd' \in Switching => main' # <<>>  BY <1>1, <1>2 DEF Alone
  <2>6. cmd' # <<"boot">>  BY <1>1, <1>3
  <2>. QED  BY Zenon, <2>1, <2>2, <2>3, <2>4, <2>5, <2>6 DEF Alone
<1>12. OffFirst' /\ (cmd = <<"0p">> => ~Deaf)
  BY <1>1, <1>2 DEF OffFirst, Deaf
<1>13. ASSUME mb_version = board, Known PROVE Known'
  <2>1. /\ c = <<"1p">> => Toward(s, TRUE)
        /\ c = <<"0p">> => Toward(s, FALSE)
    BY Zenon, <1>4, <1>13 DEF Known, SpiAims
  <2>2. ASSUME NEW v \in BOOLEAN, Toward(s, v)
        PROVE  /\ Toward(isr, v)'
               /\ isr' = <<>> => Shows(v)'
               /\ Head(s)[2] \in Targets => Head(s)[3] = v
    <3>1. Toward(t, v)'  BY <1>2, <1>5, <1>8, <2>2, TowardRest
    <3>2. Toward(isr, v)'  BY <1>4, <3>1, Renamed
    <3>3. t = <<>> => Shows(v)'  BY <1>2, <3>1, TowardEnd
    <3>4. Head(s)[2] \in Targets => Head(s)[3] = v  BY <1>5, <2>2, MildParts DEF Toward
    <3>. QED  BY <1>4, <3>2, <3>3, <3>4
  <2>3. SpiAims'
    <3>1. spi_cmd' = <<"1p">> => Toward(isr, TRUE)'
      BY <1>1, <1>4, <2>1, <2>2, CommandsDiffer
    <3>2. spi_cmd' = <<"0p">> => Toward(isr, FALSE)'
      BY <1>1, <1>4, <2>1, <2>2, CommandsDiffer
    <3>. QED  BY <3>1, <3>2 DEF SpiAims
  <2>4. PICK m : m = main  OBVIOUS
  <2>5. ASSUME cmd = <<"1p">>, ~disturbed PROVE Toward(main, TRUE)'
    <3>1. Toward(m, TRUE)  BY Zenon, <1>13, <2>4, <2>5 DEF Known, MainAims
    <3>2. c # <<"0p">>  BY <1>2, <1>4, <2>5 DEF Alone
    <3>3. Head(s)[2] \in Targets => Head(s)[3] = TRUE
      <4>1. CASE c = <<"1p">>  BY <2>1, <2>2, <4>1
      <4>2. CASE c # <<"1p">>
        BY <1>3, <1>4, <1>6, <3>2, <4>2 DEF Switching, PowerCommands
      <4>. QED  BY <4>1, <4>2
    <3>4. Toward(m, TRUE)'  BY <1>2, <1>8, <3>1, <3>3, TowardHolds
    <3>. QED  BY <1>1, <2>4, <3>4, Renamed
  <2>6. ASSUME cmd = <<"0p">> PROVE Full(main, FALSE)' /\ Toward(main, FALSE)'
    <3>1. Full(m, FALSE)  BY Zenon, <1>12, <1>13, <2>4, <2>6 DEF Known, OffWhole
    <3>2. Full(m, FALSE)'  BY <1>1, <3>1, FullHolds
    <3>3. Toward(m, FALSE)'  BY <1>2, <3>2, FullTowardNext
    <3>. QED  BY <1>1, <2>4, <3>2, <3>3, Renamed
  <2>7. MainAims'  BY <1>1, <1>3, <2>5, <2>6 DEF MainAims
  <2>8. OffWhole'  BY <1>1, <2>6 DEF OffWhole
  <2>9. ASSUME c \notin PowerCommands
        PROVE  /\ Shows(TRUE) => Shows(TRUE)'
               /\ Shows(FALSE) => Shows(FALSE)'
               /\ (Up' => Up) /\ boot_magic' = boot_magic /\ torn' = torn
    <3>1. Head(s)[2] \notin Targets  BY <1>3, <1>4, <1>6, <2>9 DEF Switching
    <3>2. torn' = torn  BY <1>1, <1>4, <2>9
    <3>. QED  BY <1>2, <1>8, <3>1, <3>2, QuietHolds
  <2>10. ASSUME c \in PowerCommands, isr' = <<>> PROVE Shows(TRUE)' \/ Shows(FALSE)'
    BY <2>1, <2>2, <2>10 DEF PowerCommands
  <2>11. Agree'
    <3>. SUFFICES ASSUME ~torn', cmd' \notin Switching, spi_cmd' \notin PowerCommands
                  PROVE  Shows(TRUE)' \/ Shows(FALSE)'
      BY DEF Agree
    <3>1. CASE c \in PowerCommands
      <4>1. isr' = <<>>  BY <1>1, <1>4, <3>1
      <4>. QED  BY <2>10, <3>1, <4>1
    <3>2. CASE c \notin PowerCommands
      <4>1. Shows(TRUE) \/ Shows(FALSE)  BY <1>1, <1>4, <1>13, <2>9, <3>2 DEF Known, Agree
      <4>. QED  BY <2>9, <3>2, <4>1
    <3>. QED  BY <3>1, <3>2
  <2>12. NotOrphan'
    <3>. SUFFICES ASSUME ~torn', cmd' \notin {<<"0p">>, <<"boot">>}, spi_cmd' # <<"0p">>, Up'
                  PROVE  boot_magic'
      BY DEF NotOrphan
    <3>1. CASE c \in PowerCommands /\ isr' = <<>>  BY <2>10, <3>1, ShowsUp
    <3>2. CASE c \notin PowerCommands
      <4>1. ~torn /\ cmd \notin {<<"0p">>, <<"boot">>} /\ spi_cmd # <<"0p">>
        BY <1>1, <1>4, <2>9, <3>2 DEF PowerCommands
      <4>2. Up => boot_magic  BY <1>13, <4>1 DEF Known, NotOrphan
      <4>. QED  BY <2>9, <3>2, <4>2
    <3>3. CASE c \in PowerCommands /\ isr' # <<>>
      <4>1. c = <<"1p">> /\ spi_cmd # <<"0p">>  BY <1>1, <1>4, <3>3 DEF PowerCommands
      <4>2. ~torn /\ cmd \notin {<<"0p">>, <<"boot">>}  BY <1>1, <3>3
      <4>3. Up => boot_magic  BY <1>13, <4>1, <4>2 DEF Known, NotOrphan
      <4>4. Toward(s, TRUE) /\ MagicFirst(s)  BY <1>5, <2>1, <4>1 DEF Kind
      <4>. QED  BY <1>2, <1>5, <1>8, <4>3, <4>4, MagicLeads
    <3>. QED  BY <3>1, <3>2, <3>3
  <2>. QED  BY <2>3, <2>7, <2>8, <2>11, <2>12 DEF Known
<1>14. (mb_version = board => Known)'  BY <1>1, <1>2, <1>7, <1>13
<1>. QED  BY <1>9, <1>10, <1>11, <1>12, <1>14 DEF SomSafe

-----------------------------------------------------------------------------
LEMMA RestartSafe ==
  ASSUME SomInv, NEW w \in BOOLEAN, Restart(w)
  PROVE  SomSafe'
<1>1. /\ main' = Boot(w) /\ main' # <<>> /\ cmd' = <<"boot">> /\ isr' = <<>>
      /\ spi_cmd' = <<"none">> /\ phase' = "none" /\ ~irq' /\ ~disturbed'
      /\ mb_version' = 0 /\ board' = board
  BY Zenon, Restarted
<1>2. Kind(main', cmd')
  BY Zenon, <1>1, CommandsDiffer DEF Kind, Switching
<1>3. Kinds'  BY Zenon, <1>1, <1>2, KindDone DEF Kinds
<1>4. HeldOK'  BY <1>1 DEF HeldOK
<1>5. Alone'
  BY Zenon, <1>1, CommandsDiffer DEF Alone
<1>6. OffFirst'  BY <1>1, CommandsDiffer DEF OffFirst
<1>7. mb_version' # board'
  <2>1. board \in 1..2  BY DEF SomInv, SomTyped, FlagsTyped
  <2>. QED  BY <1>1, <2>1
<1>. QED  BY <1>3, <1>4, <1>5, <1>6, <1>7 DEF SomSafe

LEMMA InitSafe == Init => SomSafe
<1>. SUFFICES ASSUME Init PROVE SomSafe  OBVIOUS
<1>1. /\ main = Boot(FALSE) /\ cmd = <<"boot">> /\ isr = <<>>
      /\ spi_cmd = <<"none">> /\ phase = "none" /\ ~irq /\ ~disturbed
      /\ mb_version = 0 /\ board \in 1..2
  BY Zenon DEF Init
<1>2. main # <<>>  BY <1>1, Boots
<1>3. Kind(main, cmd)
  BY Zenon, <1>1, CommandsDiffer DEF Kind, Switching
<1>4. Kinds  BY Zenon, <1>1, <1>3, KindDone DEF Kinds
<1>5. HeldOK  BY <1>1 DEF HeldOK
<1>6. Alone
  BY Zenon, <1>1, <1>2, CommandsDiffer DEF Alone
<1>7. OffFirst  BY <1>1, CommandsDiffer DEF OffFirst
<1>8. mb_version # board  BY <1>1
<1>. QED  BY <1>4, <1>5, <1>6, <1>7, <1>8 DEF SomSafe

LEMMA SafeStep == ASSUME SomInv, [Next]_vars PROVE SomSafe'
<1>1. CASE Reset
  <2>1. boot_magic \in BOOLEAN /\ Restart(boot_magic)
    BY <1>1 DEF Reset, SomInv, SomTyped, FlagsTyped
  <2>2. PICK w \in BOOLEAN : w = boot_magic  BY <2>1
  <2>3. Restart(w)  BY <2>1, <2>2
  <2>. QED  BY <2>3, RestartSafe
<1>2. CASE PowerLoss
  <2>1. Restart(FALSE)  BY <1>2 DEF PowerLoss
  <2>. QED  BY <2>1, RestartSafe
<1>3. CASE UNCHANGED vars
  <2>1. UNCHANGED <<board, mb_version, main, cmd, isr, spi_cmd, phase, held, irq,
                    som_is_powered, boot_magic, shadow, chip, pins, latched, lost, disturbed,
                    torn, byhand>>
    BY <1>3 DEF vars, main_vars, isr_vars, flags, expanders, outputs, history
  <2>2. Kinds /\ HeldOK /\ Alone /\ OffFirst /\ (mb_version = board => Known)
    BY DEF SomInv, SomSafe
  <2>3. Kinds' /\ HeldOK' /\ Alone' /\ OffFirst'
    BY <2>1, <2>2 DEF Kinds, HeldOK, Alone, OffFirst, Deaf
  <2>4. (mb_version = board => Known)'
    BY Zenon, <2>1, <2>2
       DEF Known, MainAims, OffWhole, SpiAims, Agree, NotOrphan, Toward, Full, Shows, Five, FiveOp,
           Up, Deaf
  <2>. QED  BY <2>3, <2>4 DEF SomSafe
<1>. QED
  BY Zenon, <1>1, <1>2, <1>3, MainDoesSafe, LoadShadowSafe, StoreShadowSafe, WriteChipSafe,
     LoopCommandSafe, SpiCommandSafe, SpiDoesSafe DEF Next

LEMMA SafeImplies == SomInv => FlagsAgree /\ NoOrphanRails
<1>. SUFFICES ASSUME SomInv PROVE FlagsAgree /\ NoOrphanRails  OBVIOUS
<1>1. Alone /\ (mb_version = board => Known) /\ board \in 1..2
  BY DEF SomInv, SomSafe, SomTyped, FlagsTyped
<1>2. FlagsAgree
  <2>. SUFFICES ASSUME main = <<>>, isr = <<>>, mb_version = board, lost.ext = 0, ~torn
                PROVE  PowerAgrees
    BY DEF FlagsAgree, Idle, Busy, RailsFollow
  <2>1. cmd \notin Switching /\ spi_cmd \notin PowerCommands  BY <1>1 DEF Alone
  <2>2. Shows(TRUE) \/ Shows(FALSE)  BY <1>1, <2>1 DEF Known, Agree
  <2>3. CASE board = 1  BY <2>2, <2>3 DEF Shows, Five, PowerAgrees, Rails
  <2>4. CASE board = 2  BY <2>2, <2>4 DEF Shows, Five, PowerAgrees, Rails
  <2>. QED  BY <1>1, <2>3, <2>4
<1>3. NoOrphanRails
  <2>. SUFFICES ASSUME ~torn, mb_version = board, lost.ext = 0, "5V" \in Rails
                PROVE  boot_magic \/ SwitchingOff
    BY DEF NoOrphanRails, RailsFollow
  <2>1. CASE cmd \notin {<<"0p">>, <<"boot">>} /\ spi_cmd # <<"0p">>
    <3>1. Up  BY <1>1 DEF Up, Rails
    <3>. QED  BY <1>1, <2>1, <3>1 DEF Known, NotOrphan
  <2>2. CASE cmd = <<"0p">>
    <3>1. main # <<>>  BY <1>1, <2>2 DEF Alone, Switching, PowerCommands
    <3>. QED  BY <2>2, <3>1 DEF SwitchingOff, Busy
  <2>3. CASE spi_cmd = <<"0p">>
    <3>1. isr # <<>>  BY <1>1, <2>3 DEF Alone, PowerCommands
    <3>. QED  BY <2>3, <3>1 DEF SwitchingOff, Busy
  <2>. QED  BY <2>1, <2>2, <2>3 DEF SwitchingOff
<1>. QED  BY <1>2, <1>3

(* At every point of every program the operations left in it lead back to  *)
(* agreeing flags and rails, whatever preempts it and wherever a reset     *)
(* comes. (turn_som_power_on, turn_som_power_off, their _v20, setup)       *)
THEOREM SomSwitchedSafely == Spec => []SomInv
<1>1. Init => SomInv  BY InitTyped, InitSafe DEF SomInv
<1>2. SomInv /\ [Next]_vars => SomInv'
  BY TypedStep, SafeStep DEF SomInv
<1>. QED  BY <1>1, <1>2, PTL DEF Spec

(* Between commands the flag in RAM, the boot magic and the 5 V rail say   *)
(* the same, after resets at any point and any failed writes, as long as   *)
(* the last write got through and nobody was interrupted where it matters. *)
(* (turn_som_power_on, turn_som_power_off)                                 *)
THEOREM PowerFlagsAgree == Spec => []FlagsAgree
<1>1. SomInv => FlagsAgree  BY SafeImplies
<1>. QED  BY <1>1, SomSwitchedSafely, PTL

(* A controller that is reset at any point with the SOM's rail up comes    *)
(* back knowing it, unless it was switching the SOM off. (set_boot_magic)  *)
THEOREM RailsNeverOrphaned == Spec => []NoOrphanRails
<1>1. SomInv => NoOrphanRails  BY SafeImplies
<1>. QED  BY <1>1, SomSwitchedSafely, PTL

-----------------------------------------------------------------------------
(* A warm boot. Its program switches nothing off but USWITCH_OFF, the      *)
(* latch and the ports' supply; what resets the display is skipped         *)
(* because the SOM is known to be on before it; and on motherboard 1.0 the *)
(* latch is raised after all of its pins.                                  *)

Pulse == <<"pulse", "resets", TRUE>>
SomOn == Flag("som_is_powered", TRUE)
Keep == ExtBits \ {"USWITCH_OFF"}

Keeps(op) ==
  /\ op[1] = "ext" => (op[3] = TRUE <=> op[2] # "USWITCH_OFF")
  /\ op[1] = "pin" => op[3] = TRUE \/ op[2] \in {Latch, "usb1_5v"}
  /\ op[1] \in {"flag", "setup", "pulse"} => op[3] = TRUE
  /\ op[2] \notin {"ext", "board"}

WarmPiece(s) == s \in Seq(Operations) /\ \A op \in Range(s) : Keeps(op)

(* Whenever a comes, b has come before it.                                 *)
Before(s, a, b) == \A i \in 1..Len(s) : s[i] = a => \E j \in 1..Len(s) : j < i /\ s[j] = b

LEMMA BeforeJoined ==
  ASSUME NEW s \in Seq(Operations), NEW t \in Seq(Operations), NEW a, NEW b
  PROVE  /\ a \notin Range(s) /\ b \in Range(s) => Before(s \o t, a, b)
         /\ a \notin Range(s) /\ Before(t, a, b) => Before(s \o t, a, b)
         /\ a \notin Range(t) /\ Before(s, a, b) => Before(s \o t, a, b)
         /\ a \notin Range(s) => Before(s, a, b)
<1>. DEFINE u == s \o t
<1>1. /\ Len(s) \in Nat /\ Len(t) \in Nat /\ Len(u) = Len(s) + Len(t)
      /\ \A i \in 1..Len(s) : u[i] = s[i]
      /\ \A i \in 1..Len(t) : u[Len(s) + i] = t[i]
  BY Joined
<1>. HIDE DEF u
<1>2. \A j \in 1..Len(u) : \/ j \in 1..Len(s) /\ u[j] = s[j]
                           \/ \E k \in 1..Len(t) : j = Len(s) + k /\ u[j] = t[k]
  <2>. TAKE j \in 1..Len(u)
  <2>1. CASE j <= Len(s)  BY <1>1, <2>1
  <2>2. CASE j > Len(s)
    <3>1. j - Len(s) \in 1..Len(t) /\ j = Len(s) + (j - Len(s))  BY <1>1, <2>2
    <3>. QED  BY <1>1, <3>1
  <2>. QED  BY <1>1, <2>1, <2>2
<1>3. ASSUME a \notin Range(s), NEW i \in 1..Len(u), u[i] = a
      PROVE  \E k \in 1..Len(t) : i = Len(s) + k /\ t[k] = a
  <2>1. \A k \in 1..Len(s) : s[k] # a  BY <1>3, Standing
  <2>. QED  BY <1>2, <1>3, <2>1
<1>4. ASSUME a \notin Range(s), b \in Range(s), NEW i \in 1..Len(u), u[i] = a
      PROVE  \E j \in 1..Len(u) : j < i /\ u[j] = b
  <2>1. PICK k \in 1..Len(t) : i = Len(s) + k  BY <1>3, <1>4
  <2>2. PICK j \in 1..Len(s) : s[j] = b  BY <1>4, Standing
  <2>3. j \in 1..Len(u) /\ j < i /\ u[j] = b  BY <1>1, <2>1, <2>2
  <2>. QED  BY <2>3
<1>5. ASSUME a \notin Range(s), Before(t, a, b), NEW i \in 1..Len(u), u[i] = a
      PROVE  \E j \in 1..Len(u) : j < i /\ u[j] = b
  <2>1. PICK k \in 1..Len(t) : i = Len(s) + k /\ t[k] = a  BY <1>3, <1>5
  <2>2. PICK l \in 1..Len(t) : l < k /\ t[l] = b  BY <1>5, <2>1 DEF Before
  <2>3. Len(s) + l \in 1..Len(u) /\ Len(s) + l < i /\ u[Len(s) + l] = b  BY <1>1, <2>1, <2>2
  <2>. QED  BY <2>3
<1>6. ASSUME a \notin Range(t), Before(s, a, b), NEW i \in 1..Len(u), u[i] = a
      PROVE  \E j \in 1..Len(u) : j < i /\ u[j] = b
  <2>1. \A k \in 1..Len(t) : t[k] # a  BY <1>6, Standing
  <2>2. i \in 1..Len(s) /\ s[i] = a  BY <1>2, <1>6, <2>1
  <2>3. PICK j \in 1..Len(s) : j < i /\ s[j] = b  BY <1>6, <2>2 DEF Before
  <2>4. j \in 1..Len(u) /\ u[j] = b  BY <1>1, <2>3
  <2>. QED  BY <2>3, <2>4
<1>7. a \notin Range(s) => Before(s, a, b)  BY Standing DEF Before
<1>. QED  BY <1>4, <1>5, <1>6, <1>7 DEF Before, u

LEMMA BeforeTail ==
  ASSUME NEW s \in Seq(Operations), s # <<>>, NEW a, NEW b, Before(s, a, b)
  PROVE  Head(s) # a /\ (Head(s) # b => Before(Tail(s), a, b))
<1>. DEFINE u == Tail(s)
<1>1. /\ Head(s) = s[1] /\ Len(s) \in Nat /\ Len(s) >= 1 /\ Len(u) = Len(s) - 1
      /\ \A i \in 1..Len(u) : u[i] = s[i + 1]
  BY Begun
<1>. HIDE DEF u
<1>2. Head(s) # a
  <2>1. 1 \in 1..Len(s) /\ \A j \in 1..Len(s) : ~(j < 1)  BY <1>1
  <2>. QED  BY <1>1, <2>1 DEF Before
<1>3. ASSUME Head(s) # b, NEW i \in 1..Len(u), u[i] = a
      PROVE  \E j \in 1..Len(u) : j < i /\ u[j] = b
  <2>1. i + 1 \in 1..Len(s) /\ s[i + 1] = a  BY <1>1, <1>3
  <2>2. PICK j \in 1..Len(s) : j < i + 1 /\ s[j] = b  BY <2>1 DEF Before
  <2>3. j # 1  BY <1>1, <1>3, <2>2
  <2>4. j - 1 \in 1..Len(u) /\ j - 1 < i /\ (j - 1) + 1 = j  BY <1>1, <2>2, <2>3
  <2>5. u[j - 1] = b  BY <1>1, <2>2, <2>4
  <2>. QED  BY <2>4, <2>5
<1>. QED  BY <1>2, <1>3 DEF Before, u

LEMMA WarmJoined ==
  ASSUME NEW s, NEW t, WarmPiece(s), WarmPiece(t)
  PROVE  WarmPiece(s \o t)
BY Joined DEF WarmPiece

LEMMA WarmLiterals ==
  ASSUME NEW a \in Operations, NEW b \in Operations, NEW c \in Operations, NEW d \in Operations,
         Keeps(a), Keeps(b), Keeps(c), Keeps(d)
  PROVE  /\ WarmPiece(<<>>) /\ WarmPiece(<<a>>) /\ WarmPiece(<<a, b>>) /\ WarmPiece(<<a, b, c>>)
         /\ WarmPiece(<<a, b, c, d>>)
<1>1. WarmPiece(<<>>)  BY DEF WarmPiece, Range
<1>. QED  BY <1>1, OneOf, TwoOf, ThreeOf, FourOf DEF WarmPiece

LEMMA KeepingOps ==
  /\ \A b \in UswitchBits, high \in BOOLEAN : Keeps(uswitch(b, high))
  /\ \A p \in Pins : Keeps(gpio_put(p, TRUE))
  /\ Keeps(gpio_put(Latch, FALSE)) /\ Keeps(gpio_put("usb1_5v", FALSE))
  /\ \A f \in Flags : Keeps(Flag(f, TRUE))
  /\ Keeps(<<"setup", "uswitch", TRUE>>) /\ Keeps(Pulse) /\ Keeps(<<"usb_default", "port2", TRUE>>)
  /\ \A b \in ExtBits \ {"USWITCH_OFF"} : Keeps(gpio_ext_enable(b))
  /\ Keeps(gpio_ext_disable("USWITCH_OFF"))
BY DEF Keeps, uswitch, gpio_put, Flag, Pulse, gpio_ext_enable, gpio_ext_disable, UswitchBits, Pins,
       LatchedPins, Flags, ExtBits, Latch

LEMMA FourWarm ==
  ASSUME NEW a \in Operations, NEW b \in Operations, NEW c \in Operations, NEW d \in Operations,
         Keeps(a), Keeps(b), Keeps(c), Keeps(d), NEW x, x \notin {a, b, c, d}
  PROVE  WarmPiece(<<a, b, c, d>>) /\ x \notin Range(<<a, b, c, d>>)
<1>1. WarmPiece(<<a, b, c, d>>)  BY WarmLiterals
<1>2. Range(<<a, b, c, d>>) = {a, b, c, d}  BY FourOf
<1>. QED  BY <1>1, <1>2

(* The operations of a mode are none of x, if its single ones are not.     *)
LEMMA WarmUsbBut ==
  ASSUME NEW mode \in Garbage, NEW x, x[1] # "uswitch",
         x # usb_host_5v_set(FALSE), x # usb_host_5v_set(TRUE)
  PROVE  WarmPiece(set_usb_mode(1, mode)) /\ x \notin Range(set_usb_mode(1, mode))
<1>. DEFINE h0 == usb_host_5v_set(FALSE)  h1 == usb_host_5v_set(TRUE)
            fine(op) == op \in Operations /\ Keeps(op) /\ op # x
            P(t) == WarmPiece(t) /\ x \notin Range(t)
<1>1. fine(h0) /\ fine(h1)
  <2>1. ASSUME NEW high \in BOOLEAN, NEW p \in {"usb1_5v", "usb2_5v"}
        PROVE  gpio_put(p, high) \in Operations /\ Keeps(gpio_put(p, high))
    <3>1. gpio_put(p, high) \in Operations  BY Operands, NamesOK
    <3>2. Keeps(gpio_put(p, high))  BY NamesOK DEF Keeps, gpio_put
    <3>. QED  BY <3>1, <3>2
  <2>2. \E p \in {"usb1_5v", "usb2_5v"} : h0 = gpio_put(p, FALSE)
    BY DEF usb_host_5v_set
  <2>3. \E p \in {"usb1_5v", "usb2_5v"} : h1 = gpio_put(p, TRUE)
    BY DEF usb_host_5v_set
  <2>4. h0 # x /\ h1 # x  OBVIOUS
  <2>. HIDE DEF h0, h1
  <2>. QED  BY <2>1, <2>2, <2>3, <2>4
<1>2. ASSUME NEW b \in {"1", "2", "3"}, NEW high \in BOOLEAN PROVE fine(uswitch(b, high))
  <2>1. uswitch(b, high) \in Operations /\ Keeps(uswitch(b, high))
    BY Operands, NamesOK, KeepingOps
  <2>2. uswitch(b, high)[1] = "uswitch"  BY DEF uswitch
  <2>. QED  BY <2>1, <2>2
<1>. DEFINE u1 == uswitch("1", TRUE)  u2 == uswitch("2", TRUE)  u3 == uswitch("3", TRUE)
            v1 == uswitch("1", FALSE)  v2 == uswitch("2", FALSE)  v3 == uswitch("3", FALSE)
<1>3. fine(u1) /\ fine(u2) /\ fine(u3) /\ fine(v1) /\ fine(v2) /\ fine(v3)  BY <1>2
<1>. HIDE DEF h0, h1, u1, u2, u3, v1, v2, v3
<1>4. P(<<h0, u1, u2, u3>>)  BY <1>1, <1>3, FourWarm
<1>5. P(<<v1, v2, v3, h1>>)  BY <1>1, <1>3, FourWarm
<1>6. P(<<h0, u1, v2, u3>>)  BY <1>1, <1>3, FourWarm
<1>7. P(<<>>)
  <2>1. Range(<<>>) = {}  BY DEF Range
  <2>. QED  BY <2>1 DEF WarmPiece
<1>. HIDE DEF P
<1>8. P(set_usb_mode(1, mode))
  <2>1. P(set_usb_mode(1, 0))  BY <1>4 DEF set_usb_mode, h0, u1, u2, u3
  <2>2. P(set_usb_mode(1, 1))  BY <1>5 DEF set_usb_mode, h1, v1, v2, v3
  <2>3. P(set_usb_mode(1, 2))  BY <1>6 DEF set_usb_mode, h0, u1, v2, u3
  <2>4. P(set_usb_mode(1, 3))  BY <1>7 DEF set_usb_mode
  <2>. QED  BY <2>1, <2>2, <2>3, <2>4 DEF Garbage
<1>. QED  BY <1>8 DEF P

LEMMA WarmUsb ==
  ASSUME NEW mode \in Garbage
  PROVE  /\ WarmPiece(set_usb_mode(1, mode)) /\ Pulse \notin Range(set_usb_mode(1, mode))
         /\ mb_version < 2 => LatchOn \notin Range(set_usb_mode(1, mode))
<1>1. Pulse[1] = "pulse" /\ LatchOn[1] = "pin" /\ LatchOn[2] = "usb2_5v"
  BY NamesOK DEF Pulse, LatchOn, gpio_put
<1>2. ASSUME NEW high \in BOOLEAN
      PROVE  /\ usb_host_5v_set(high)[1] = "pin"
             /\ mb_version < 2 => usb_host_5v_set(high)[2] = "usb1_5v"
  BY DEF usb_host_5v_set, gpio_put
<1>3. WarmPiece(set_usb_mode(1, mode)) /\ Pulse \notin Range(set_usb_mode(1, mode))
  BY <1>1, <1>2, WarmUsbBut
<1>4. mb_version < 2 => LatchOn \notin Range(set_usb_mode(1, mode))
  BY <1>1, <1>2, WarmUsbBut
<1>. QED  BY <1>3, <1>4

LEMMA OpsDiffer ==
  /\ Pulse \in Operations /\ SomOn \in Operations /\ LatchOn \in Operations
  /\ Pulse # SomOn /\ LatchOn # SomOn /\ Listen \in Operations
  /\ Listen # Pulse /\ Listen # LatchOn
BY Operands, NamesOK DEF Pulse, SomOn, LatchOn, Listen, Flag, gpio_put, Flags

LEMMA WarmOn20 == WarmPiece(turn_som_power_on_v20)
<1>. DEFINE magic == Flag("boot_magic", TRUE)  loader == gpio_put("usb_loader", TRUE)
            A == <<magic, loader>>  D == <<SomOn>>  E == set_usb_mode(1, 1)
<1>1. magic \in Operations /\ Keeps(magic) /\ loader \in Operations /\ Keeps(loader)
      /\ SomOn \in Operations /\ Keeps(SomOn)
  BY Operands, NamesOK, KeepingOps DEF SomOn, Flags
<1>2. turn_som_power_on_v20 = (((A \o RailsOn) \o PeripheralsOn) \o D) \o E
  BY Zenon DEF turn_som_power_on_v20, magic, loader, SomOn
<1>. HIDE DEF magic, loader
<1>3. WarmPiece(A) /\ WarmPiece(D)  BY <1>1, WarmLiterals
<1>4. WarmPiece(E)  BY WarmUsb DEF Garbage
<1>5. WarmPiece(RailsOn)
  <2>1. {"5V", "3V3", "HUB_PWR", "PCIE_PWR"} \subseteq ExtBits \ {"USWITCH_OFF"}  BY DEF ExtBits
  <2>. QED  BY <2>1, PiecesOfOn, KeepingOps DEF Prog, WarmPiece
<1>6. WarmPiece(PeripheralsOn)
  <2>1. {"DISP_RESET_N", "DISP_BL_PWR", "DISP_1EN_2BL"} \subseteq ExtBits \ {"USWITCH_OFF"}  BY DEF ExtBits
  <2>. QED  BY <2>1, NamesOK, PiecesOfOn, KeepingOps DEF Prog, WarmPiece, Pulse
<1>. HIDE DEF A, D, E
<1>7. WarmPiece(A \o RailsOn)  BY <1>3, <1>5, WarmJoined
<1>8. WarmPiece((A \o RailsOn) \o PeripheralsOn)  BY <1>6, <1>7, WarmJoined
<1>9. WarmPiece(((A \o RailsOn) \o PeripheralsOn) \o D)  BY <1>3, <1>8, WarmJoined
<1>10. WarmPiece((((A \o RailsOn) \o PeripheralsOn) \o D) \o E)  BY <1>4, <1>9, WarmJoined
<1>. QED  BY <1>2, <1>10

LEMMA WarmOn10 ==
  ASSUME ~(mb_version >= 2)
  PROVE  /\ WarmPiece(turn_som_power_on)
         /\ \A p \in LatchedPins : Before(turn_som_power_on, LatchOn, gpio_put(p, TRUE))
<1>. DEFINE magic == Flag("boot_magic", TRUE)  off == gpio_put(Latch, FALSE)
            A == <<off, magic>>  C == <<LatchOn, Pulse, off, SomOn>>
<1>1. /\ magic \in Operations /\ Keeps(magic) /\ off \in Operations /\ Keeps(off)
      /\ LatchOn \in Operations /\ Keeps(LatchOn) /\ Pulse \in Operations /\ Keeps(Pulse)
      /\ SomOn \in Operations /\ Keeps(SomOn) /\ magic # LatchOn /\ off # LatchOn
  <2>1. magic # LatchOn /\ off # LatchOn  BY DEF magic, off, LatchOn, Flag, gpio_put
  <2>. QED  BY <2>1, Operands, NamesOK, KeepingOps, OpsDiffer DEF SomOn, Flags, LatchOn
<1>2. turn_som_power_on = (A \o PinsOn) \o C
  BY Zenon DEF turn_som_power_on, magic, off, LatchOn, SomOn, Pulse
<1>. HIDE DEF magic, off
<1>3. WarmPiece(A) /\ WarmPiece(C) /\ Range(A) = {off, magic}
  BY <1>1, WarmLiterals, TwoOf
<1>4. LatchOn \notin Range(A)  BY <1>1, <1>3
<1>5. /\ WarmPiece(PinsOn) /\ LatchOn \notin Range(PinsOn)
      /\ \A p \in LatchedPins : gpio_put(p, TRUE) \in Range(PinsOn)
  <2>1. WarmPiece(PinsOn)  BY NamesOK, PiecesOfOn, KeepingOps DEF Prog, WarmPiece
  <2>2. LatchOn \notin Range(PinsOn)
    BY NamesOK, PiecesOfOn DEF Prog, LatchOn, gpio_put
  <2>3. \A p \in LatchedPins : gpio_put(p, TRUE) \in Range(PinsOn)
    BY PiecesOfOn DEF Prog, LatchedPins
  <2>. QED  BY <2>1, <2>2, <2>3
<1>. HIDE DEF A, C
<1>6. /\ WarmPiece(A \o PinsOn) /\ LatchOn \notin Range(A \o PinsOn)
      /\ \A p \in LatchedPins : gpio_put(p, TRUE) \in Range(A \o PinsOn)
  <2>1. Range(A \o PinsOn) = Range(A) \cup Range(PinsOn)  BY <1>3, <1>5, Joined DEF WarmPiece
  <2>. QED  BY <1>3, <1>4, <1>5, <2>1, WarmJoined
<1>7. WarmPiece((A \o PinsOn) \o C)  BY <1>3, <1>6, WarmJoined
<1>8. ASSUME NEW p \in LatchedPins PROVE Before((A \o PinsOn) \o C, LatchOn, gpio_put(p, TRUE))
  BY <1>3, <1>6, BeforeJoined DEF WarmPiece
<1>. QED  BY <1>2, <1>7, <1>8

LEMMA WarmOn ==
  ASSUME mb_version \in 0..2
  PROVE  /\ WarmPiece(turn_som_power_on)
         /\ mb_version < 2 =>
              \A p \in LatchedPins : Before(turn_som_power_on, LatchOn, gpio_put(p, TRUE))
<1>1. CASE mb_version >= 2
  <2>1. turn_som_power_on = turn_som_power_on_v20  BY Zenon, <1>1 DEF turn_som_power_on
  <2>2. ~(mb_version < 2)  BY <1>1
  <2>. QED  BY <2>1, <2>2, WarmOn20
<1>2. CASE ~(mb_version >= 2)  BY <1>2, WarmOn10
<1>. QED  BY <1>1, <1>2

(* What a warm boot does after the board is known.                         *)
LEMMA WarmSetup ==
  ASSUME mb_version \in 0..2
  PROVE  /\ WarmPiece(Setup(TRUE)) /\ Before(Setup(TRUE), Pulse, SomOn)
         /\ mb_version < 2 =>
              \A p \in LatchedPins : Before(Setup(TRUE), LatchOn, gpio_put(p, TRUE))
<1>. DEFINE us == <<"setup", "uswitch", TRUE>>  ud == <<"usb_default", "port2", TRUE>>
            A == IF mb_version >= 2 THEN <<us>> ELSE <<>>
            S == <<SomOn>>  T == turn_som_power_on  D == <<ud, ud, Listen>>
<1>1. /\ us \in Operations /\ Keeps(us) /\ us # Pulse /\ us # LatchOn
      /\ ud \in Operations /\ Keeps(ud) /\ ud # Pulse /\ ud # LatchOn
  BY Operands, KeepingOps DEF Pulse, LatchOn, gpio_put
<1>2. SomOn \in Operations /\ Keeps(SomOn) /\ Listen \in Operations /\ Keeps(Listen)
  BY OpsDiffer, KeepingOps DEF SomOn, Flags, Listen
<1>3. Setup(TRUE) = (A \o (S \o T)) \o D
  <2>. DEFINE B == IF TRUE THEN S \o T ELSE turn_som_power_off
  <2>1. Setup(TRUE) = (A \o B) \o D  BY Zenon DEF Setup, Listen, SomOn
  <2>2. B = S \o T  OBVIOUS
  <2>. QED  BY Zenon, <2>1, <2>2
<1>. HIDE DEF us, ud, T
<1>4. WarmPiece(A) /\ Pulse \notin Range(A) /\ LatchOn \notin Range(A)
  <2>1. Range(<<us>>) = {us} /\ Range(<<>>) = {}  BY <1>1, OneOf DEF Range
  <2>2. WarmPiece(<<us>>) /\ WarmPiece(<<>>)  BY <1>1, WarmLiterals
  <2>3. A = <<us>> \/ A = <<>>  OBVIOUS
  <2>. QED  BY <1>1, <2>1, <2>2, <2>3
<1>5. WarmPiece(S) /\ Range(S) = {SomOn}  BY <1>2, WarmLiterals, OneOf
<1>6. WarmPiece(D) /\ Pulse \notin Range(D) /\ LatchOn \notin Range(D)
  <2>1. Range(<<ud, ud, Listen>>) = {ud, ud, Listen}  BY ONLY <1>1, <1>2, ThreeOf
  <2>2. WarmPiece(<<ud, ud, Listen>>)  BY <1>1, <1>2, WarmLiterals
  <2>. QED  BY <1>1, <2>1, <2>2, OpsDiffer
<1>7. WarmPiece(T) /\ (mb_version < 2 => \A p \in LatchedPins : Before(T, LatchOn, gpio_put(p, TRUE)))
  BY WarmOn DEF T
<1>. HIDE DEF A, S, D
<1>. DEFINE B == S \o T  AB == A \o B
<1>8. WarmPiece(B) /\ Before(B, Pulse, SomOn)
      /\ (mb_version < 2 => \A p \in LatchedPins : Before(B, LatchOn, gpio_put(p, TRUE)))
  <2>1. WarmPiece(B)  BY <1>5, <1>7, WarmJoined
  <2>2. S \in Seq(Operations) /\ T \in Seq(Operations)  BY <1>5, <1>7 DEF WarmPiece
  <2>3. Pulse \notin Range(S) /\ LatchOn \notin Range(S)  BY <1>5, OpsDiffer
  <2>4. Before(B, Pulse, SomOn)  BY <1>5, <2>2, <2>3, BeforeJoined
  <2>5. \A p \in LatchedPins : Before(T, LatchOn, gpio_put(p, TRUE)) => Before(B, LatchOn, gpio_put(p, TRUE))
    BY <2>2, <2>3, BeforeJoined
  <2>. QED  BY <1>7, <2>1, <2>4, <2>5
<1>. HIDE DEF B
<1>9. WarmPiece(AB) /\ Before(AB, Pulse, SomOn)
      /\ (mb_version < 2 => \A p \in LatchedPins : Before(AB, LatchOn, gpio_put(p, TRUE)))
  <2>1. WarmPiece(AB)  BY <1>4, <1>8, WarmJoined
  <2>2. A \in Seq(Operations) /\ B \in Seq(Operations)  BY <1>4, <1>8 DEF WarmPiece
  <2>3. Before(AB, Pulse, SomOn)  BY <1>4, <1>8, <2>2, BeforeJoined
  <2>4. \A p \in LatchedPins : Before(B, LatchOn, gpio_put(p, TRUE)) => Before(AB, LatchOn, gpio_put(p, TRUE))
    BY <1>4, <2>2, BeforeJoined
  <2>. QED  BY <1>8, <2>1, <2>3, <2>4
<1>. HIDE DEF AB
<1>10. WarmPiece(AB \o D) /\ Before(AB \o D, Pulse, SomOn)
      /\ (mb_version < 2 => \A p \in LatchedPins : Before(AB \o D, LatchOn, gpio_put(p, TRUE)))
  <2>1. WarmPiece(AB \o D)  BY <1>6, <1>9, WarmJoined
  <2>2. AB \in Seq(Operations) /\ D \in Seq(Operations)  BY <1>6, <1>9 DEF WarmPiece
  <2>3. Before(AB \o D, Pulse, SomOn)  BY <1>6, <1>9, <2>2, BeforeJoined
  <2>4. \A p \in LatchedPins : Before(AB, LatchOn, gpio_put(p, TRUE)) => Before(AB \o D, LatchOn, gpio_put(p, TRUE))
    BY <1>6, <2>2, BeforeJoined
  <2>. QED  BY <1>9, <2>1, <2>3, <2>4
<1>11. Setup(TRUE) = AB \o D  BY <1>3 DEF AB, B
<1>. QED  BY <1>10, <1>11

(* A cold boot never sets the magic.                                       *)
Cold(s) == s \in Seq(Operations) /\ \A op \in Range(s) :
             /\ op[2] = "boot_magic" => op[3] = FALSE
             /\ op[2] \notin {"ext", "board"}

LEMMA ColdSetup == Cold(Setup(FALSE))
<1>1. Piece(SetupBefore(FALSE), FALSE) /\ Setup(FALSE) = SetupBefore(FALSE) \o <<Listen>>
  BY Zenon, SetupPrograms
<1>2. Listen \in Operations /\ Listen[2] = "irq"  BY OpsDiffer DEF Listen, Flag
<1>3. <<Listen>> \in Seq(Operations) /\ Range(<<Listen>>) = {Listen}  BY <1>2, OneOf
<1>. DEFINE u == SetupBefore(FALSE)
<1>. HIDE DEF u
<1>4. Piece(u, FALSE) /\ Setup(FALSE) = u \o <<Listen>>  BY <1>1 DEF u
<1>. DEFINE t == <<Listen>>
<1>. HIDE DEF t
<1>5. /\ Setup(FALSE) \in Seq(Operations) /\ Range(Setup(FALSE)) = Range(u) \cup {Listen}
  <2>1. u \in Seq(Operations) /\ t \in Seq(Operations) /\ Range(t) = {Listen}
    BY <1>3, <1>4 DEF Piece, t
  <2>2. u \o t \in Seq(Operations) /\ Range(u \o t) = Range(u) \cup {Listen}
    BY <2>1, Joined
  <2>. QED  BY <1>4, <2>2 DEF t
<1>. QED  BY <1>2, <1>4, <1>5 DEF Cold, Piece, Pure, Touches, Targets

(* A warm boot has come as far as s.                                       *)
Warm(s) ==
  /\ WarmPiece(s)
  /\ som_is_powered \/ Before(s, Pulse, SomOn)
  /\ board = 1 => \A p \in LatchedPins : p \in pins \/ Before(s, LatchOn, gpio_put(p, TRUE))

AllLatched == board = 1 /\ Latch \in pins => LatchedPins \subseteq pins

Booting ==
  cmd = <<"boot">> =>
    \/ main = Boot(boot_magic) /\ pins = {}
    \/ main = Version(boot_magic) /\ pins = {} /\ (boot_magic => Keep \subseteq shadow.ext)
    \/ ~boot_magic /\ Cold(main)
    \/ boot_magic /\ Warm(main) /\ Keep \subseteq shadow.ext /\ AllLatched

RailsKept == Rails \ {"USWITCH_OFF"} \subseteq Rails'

LEMMA PulseOp ==
  ASSUME NEW op \in Operations, op[1] = "pulse", op[3] = TRUE
  PROVE  op = Pulse
<1>1. PICK high \in BOOLEAN : op = <<"pulse", "resets", high>>  BY DEF Operations
<1>2. high = TRUE  BY <1>1
<1>. QED  BY Zenon, <1>1, <1>2 DEF Pulse

LEMMA LatchOp ==
  ASSUME NEW op \in Operations, op[1] = "pin", op[2] = Latch, op[3] = TRUE
  PROVE  op = LatchOn
<1>1. PICK p \in Pins, high \in BOOLEAN : op = <<"pin", p, high>>  BY DEF Operations
<1>2. high = TRUE /\ p = Latch  BY <1>1
<1>. QED  BY Zenon, <1>1, <1>2 DEF LatchOn, gpio_put

(* The next operation of a warm boot, and what is left after it.           *)
LEMMA WarmNext ==
  ASSUME FlagsTyped, NEW s, s # <<>>, Warm(s), NEW t \in Rest(s)
  PROVE  /\ Head(s) \in Operations /\ Keeps(Head(s)) /\ WarmPiece(t)
         /\ som_is_powered \/ Head(s) = SomOn \/ Before(t, Pulse, SomOn)
         /\ board = 1 => \A p \in LatchedPins :
              p \in pins \/ Head(s) = gpio_put(p, TRUE) \/ Before(t, LatchOn, gpio_put(p, TRUE))
         /\ board = 1 /\ Head(s) = LatchOn => LatchedPins \subseteq pins
<1>. DEFINE h == Head(s)  u == Tail(s)
<1>1. s \in Seq(Operations) /\ \A op \in Range(s) : Keeps(op)  BY DEF Warm, WarmPiece
<1>2. h \in Operations /\ u \in Seq(Operations) /\ Range(s) = {h} \cup Range(u)  BY <1>1, Begun
<1>3. Keeps(h) /\ WarmPiece(u)  BY <1>1, <1>2 DEF WarmPiece
<1>4. ASSUME NEW a, NEW b, Before(s, a, b) PROVE h # a /\ (h = b \/ Before(u, a, b))
  BY <1>1, <1>4, BeforeTail
<1>5. h = Pulse => som_is_powered
  BY <1>4 DEF Warm
<1>6. board = 1 => \A p \in LatchedPins :
        /\ h = LatchOn => p \in pins
        /\ p \in pins \/ h = gpio_put(p, TRUE) \/ Before(u, LatchOn, gpio_put(p, TRUE))
  BY <1>4 DEF Warm
<1>7. som_is_powered \/ h = SomOn \/ Before(u, Pulse, SomOn)
  BY <1>4 DEF Warm
<1>8. \/ t = u
      \/ \E mode \in Garbage : t = set_usb_mode(1, mode) \o u
  <2>1. h[1] = "pulse" => h[2] = "resets" /\ h[3] \in BOOLEAN  BY <1>2 DEF Operations
  <2>2. h[1] # "version"  BY <1>2, <1>3 DEF Operations, Keeps
  <2>3. h[1] = "pulse" => h[3] = TRUE  BY <1>3, <2>1 DEF Keeps
  <2>4. h[1] = "pulse" => som_is_powered  BY <1>2, <1>5, <2>1, <2>3, PulseOp
  <2>5. \/ h[1] = "pulse" /\ ~som_is_powered
        \/ h[1] = "version"
        \/ \E mode \in Garbage : t = set_usb_mode(1, mode) \o u
        \/ t = u
    BY DEF Rest
  <2>. QED  BY <2>2, <2>4, <2>5
<1>. HIDE DEF h, u
<1>9. CASE t = u
  BY <1>2, <1>3, <1>6, <1>7, <1>9 DEF h
<1>10. ASSUME NEW mode \in Garbage, t = set_usb_mode(1, mode) \o u
       PROVE  /\ WarmPiece(t) /\ (Before(u, Pulse, SomOn) => Before(t, Pulse, SomOn))
              /\ board = 1 => \A b : Before(u, LatchOn, b) => Before(t, LatchOn, b)
  <2>. DEFINE v == set_usb_mode(1, mode)
  <2>1. WarmPiece(v) /\ Pulse \notin Range(v) /\ (mb_version < 2 => LatchOn \notin Range(v))
    BY WarmUsb
  <2>2. board = 1 => mb_version < 2  BY DEF FlagsTyped
  <2>. HIDE DEF v
  <2>3. v \in Seq(Operations)  BY <2>1 DEF WarmPiece
  <2>4. t = v \o u  BY <1>10 DEF v
  <2>5. WarmPiece(v \o u)  BY <1>3, <2>1, WarmJoined
  <2>6. Before(u, Pulse, SomOn) => Before(v \o u, Pulse, SomOn)  BY <1>2, <2>1, <2>3, BeforeJoined
  <2>7. board = 1 => \A b : Before(u, LatchOn, b) => Before(v \o u, LatchOn, b)
    BY <1>2, <2>1, <2>2, <2>3, BeforeJoined
  <2>. QED  BY <2>4, <2>5, <2>6, <2>7
<1>11. CASE t # u
  <2>1. /\ WarmPiece(t) /\ (Before(u, Pulse, SomOn) => Before(t, Pulse, SomOn))
        /\ board = 1 => \A b : Before(u, LatchOn, b) => Before(t, LatchOn, b)
    BY <1>8, <1>10, <1>11
  <2>. QED  BY <1>2, <1>3, <1>6, <1>7, <2>1 DEF h
<1>. QED  BY <1>9, <1>11

LEMMA KeptPin ==
  ASSUME NEW op, Keeps(op), op[1] = "pin"
  PROVE  op[3] = TRUE \/ op[2] \in {"usb2_5v", "usb1_5v"}
BY DEF Keeps, Latch

LEMMA WarmDo ==
  ASSUME FlagsTyped, OutputsTyped, NEW op \in Operations, NEW c, Do(op, c), Keeps(op), board' = board,
         Keep \subseteq shadow.ext, AllLatched, board = 1 /\ op = LatchOn => LatchedPins \subseteq pins
  PROVE  /\ Keep \subseteq shadow'.ext /\ AllLatched'
         /\ som_is_powered \/ op = SomOn => som_is_powered'
         /\ \A p \in LatchedPins : p \in pins \/ op = gpio_put(p, TRUE) => p \in pins'
         /\ boot_magic => boot_magic'
         /\ RailsKept
<1>0. board \in 1..2 /\ latched \subseteq LatchedPins  BY DEF FlagsTyped, OutputsTyped
<1>00. SomOn[1] = "flag" /\ SomOn[2] = "som_is_powered" /\ SomOn[3] = TRUE
       /\ \A p \in LatchedPins : /\ gpio_put(p, TRUE)[1] = "pin" /\ gpio_put(p, TRUE)[2] = p
                                  /\ gpio_put(p, TRUE)[3] = TRUE
       /\ Latch = "usb2_5v" /\ Latch \notin LatchedPins
       /\ "usb1_5v" \notin LatchedPins
  BY DEF SomOn, Flag, gpio_put, Latch, LatchedPins
<1>1. CASE op[1] = "pin"
  <2>1. /\ SetPin(op[2], op[3])
        /\ UNCHANGED <<som_is_powered, boot_magic, shadow, chip>>
    BY <1>1 DEF Do, Expander, Flag, flags, expanders
  <2>2. op[2] \in Pins /\ op[3] \in BOOLEAN  BY <1>1 DEF Operations
  <2>3. /\ pins' = IF op[3] = TRUE THEN pins \cup {op[2]} ELSE pins \ {op[2]}
        /\ latched' = IF board = 1 /\ Latch \in pins' THEN pins' \cap LatchedPins ELSE latched
    BY <2>1 DEF SetPin, With
  <2>4. op[3] = TRUE \/ op[2] \in {"usb2_5v", "usb1_5v"}  BY <1>1, KeptPin
  <2>5. \A q \in LatchedPins : q \in pins \/ op = gpio_put(q, TRUE) => q \in pins'
    <3>. TAKE q \in LatchedPins
    <3>1. op = gpio_put(q, TRUE) => op[2] = q /\ op[3] = TRUE  BY <1>00
    <3>2. q # "usb2_5v" /\ q # "usb1_5v"  BY <1>00
    <3>. QED  BY <2>2, <2>3, <2>4, <3>1, <3>2
  <2>6. AllLatched'
    <3>. SUFFICES ASSUME board = 1, Latch \in pins' PROVE LatchedPins \subseteq pins'
      BY DEF AllLatched
    <3>1. CASE op[2] = Latch /\ op[3] = TRUE
      <4>1. op = LatchOn  BY <1>1, <2>2, <3>1, LatchOp
      <4>. QED  BY <2>5, <4>1
    <3>2. CASE ~(op[2] = Latch /\ op[3] = TRUE)
      <4>1. Latch \in pins  BY <2>2, <2>3, <3>2
      <4>. QED  BY <2>5, <4>1 DEF AllLatched
    <3>. QED  BY <3>1, <3>2
  <2>7. RailsKept
    <3>1. board = 1 => latched \subseteq latched'
      BY <1>0, <2>3, <2>6 DEF AllLatched
    <3>2. chip' = chip  BY <2>1
    <3>. QED  BY <3>1, <3>2 DEF RailsKept, Rails
  <2>. QED  BY <1>1, <1>00, <2>1, <2>5, <2>6, <2>7
<1>2. CASE op[1] \in {"flag", "pulse", "usb_default", "version"}
  <2>1. /\ UNCHANGED <<shadow, chip, pins, latched>>
        /\ \/ UNCHANGED <<som_is_powered, boot_magic>> /\ op # SomOn
           \/ op[1] = "flag" /\ som_is_powered' = op[3] /\ boot_magic' = boot_magic
           \/ op[1] = "flag" /\ boot_magic' = op[3] /\ som_is_powered' = som_is_powered /\ op # SomOn
    BY <1>2, <1>00 DEF Do, Flag, outputs, expanders, flags
  <2>2. op[1] = "flag" => op[3] = TRUE  BY DEF Keeps
  <2>3. op[3] \in BOOLEAN  BY <1>2 DEF Operations
  <2>4. som_is_powered \/ op = SomOn => som_is_powered'  BY <1>00, <2>1, <2>2, <2>3
  <2>5. boot_magic => boot_magic'  BY <2>1, <2>2, <2>3
  <2>6. RailsKept /\ AllLatched'  BY <2>1 DEF RailsKept, Rails, AllLatched
  <2>7. \A p \in LatchedPins : p \in pins \/ op = gpio_put(p, TRUE) => p \in pins'
    BY <1>2, <1>00, <2>1
  <2>. QED  BY <2>1, <2>4, <2>5, <2>6, <2>7
<1>3. CASE op[1] = "setup"
  <2>1. op[2] = "uswitch"  BY <1>3 DEF Operations, Keeps
  <2>2. /\ shadow' = [shadow EXCEPT !["uswitch"] = IF op[3] THEN shadow["uswitch"] ELSE UswitchBits]
        /\ write_byte("uswitch", shadow'["uswitch"])
        /\ UNCHANGED <<som_is_powered, boot_magic, pins, latched>>
    BY <1>3, <2>1 DEF Do, Flag, outputs, flags
  <2>3. shadow'.ext = shadow.ext  BY <2>2 DEF OutputsTyped
  <2>4. chip'.ext = chip.ext  BY <2>2 DEF write_byte, OutputsTyped
  <2>5. RailsKept /\ AllLatched'  BY <2>2, <2>4 DEF RailsKept, Rails, AllLatched
  <2>. QED  BY <1>3, <1>00, <2>2, <2>3, <2>5
<1>4. CASE Expander(op)
  BY <1>4 DEF Do, Expander, Flag
<1>5. op[1] \in {"pin", "flag", "pulse", "usb_default", "version", "ext", "uswitch", "setup"}
  BY DEF Operations
<1>. QED  BY <1>1, <1>2, <1>3, <1>4, <1>5 DEF Expander

(* What a step of the main program leaves is a boot's only if it was, and  *)
(* is not at its end.                                                      *)
LEMMA StillBooting ==
  ASSUME MainMoves
  PROVE  /\ main' \in Rest(main) /\ board' = board
         /\ cmd' = <<"boot">> => cmd = <<"boot">> /\ main' # <<>>
<1>1. /\ main' \in Rest(main) /\ board' = board
      /\ cmd' = IF main' = <<>> THEN <<"none">> ELSE cmd
  BY DEF MainMoves
<1>2. <<"none">> # <<"boot">>  BY CommandsDiffer DEF Switching
<1>. QED  BY <1>1, <1>2

LEMMA ColdRest ==
  ASSUME NEW s, s # <<>>, Cold(s), NEW t \in Rest(s)
  PROVE  /\ Cold(t) /\ Head(s) \in Operations /\ Head(s)[2] \notin {"ext", "board"}
         /\ Head(s)[2] = "boot_magic" => Head(s)[3] = FALSE
<1>1. s \in Seq(Operations)  BY DEF Cold
<1>2. Head(s) \in Operations /\ Tail(s) \in Seq(Operations) /\ Range(s) = {Head(s)} \cup Range(Tail(s))
  BY <1>1, Begun
<1>3. /\ Head(s)[2] \notin {"ext", "board"}
      /\ Head(s)[2] = "boot_magic" => Head(s)[3] = FALSE
  BY <1>2 DEF Cold
<1>4. Cold(Tail(s))  BY <1>2 DEF Cold
<1>5. Head(s)[1] # "version"  BY <1>2, <1>3 DEF Operations
<1>6. ASSUME NEW pre, Quiet(pre), t = pre \o Tail(s) PROVE Cold(t)
  <2>1. pre \in Seq(Operations)  BY <1>6 DEF Quiet
  <2>2. t \in Seq(Operations) /\ Range(t) = Range(pre) \cup Range(Tail(s))
    <3>1. PICK u \in Seq(Operations) : u = Tail(s)  BY <1>2
    <3>2. pre \o u \in Seq(Operations) /\ Range(pre \o u) = Range(pre) \cup Range(u)
      BY ONLY <2>1, <3>1, Joined
    <3>. QED  BY <1>6, <3>1, <3>2
  <2>3. ASSUME NEW op \in Range(pre) PROVE op[2] # "boot_magic" /\ op[2] \notin {"ext", "board"}
    <3>1. ~Touches(op)  BY <1>6 DEF Quiet
    <3>. QED  BY ONLY <3>1 DEF Touches, Targets
  <2>. QED  BY <1>4, <2>2, <2>3 DEF Cold
<1>7. \/ t = Tail(s)
      \/ \E pre : Quiet(pre) /\ t = pre \o Tail(s)
  BY <1>1, <1>5, RestOK
<1>. QED  BY <1>2, <1>3, <1>4, <1>6, <1>7

LEMMA ColdDo ==
  ASSUME NEW op \in Operations, NEW c, Do(op, c), ~boot_magic, op[2] = "boot_magic" => op[3] = FALSE
  PROVE  ~boot_magic'
<1>1. CASE op[1] = "flag"
  <2>1. op = Flag("boot_magic", op[3]) => op[2] = "boot_magic"  BY DEF Flag
  <2>. QED  BY <1>1, <2>1 DEF Do, Expander
<1>2. CASE op[1] # "flag"
  <2>1. op # Flag("boot_magic", op[3]) /\ op # Flag("som_is_powered", op[3])
    BY <1>2 DEF Flag
  <2>. QED  BY <1>2, <2>1 DEF Do, Flag, flags, Expander
<1>. QED  BY <1>1, <1>2

LEMMA WarmNow ==
  ASSUME NEW t, main' = t, WarmPiece(t), som_is_powered' \/ Before(t, Pulse, SomOn),
         board' = 1 => \A p \in LatchedPins : p \in pins' \/ Before(t, LatchOn, gpio_put(p, TRUE))
  PROVE  Warm(main)'
<1>1. Warm(t)'  BY DEF Warm
<1>. QED  BY <1>1 DEF Warm

LEMMA ColdNow == ASSUME NEW t, main' = t, Cold(t) PROVE Cold(main)'
OBVIOUS

Kept == cmd = <<"boot">> /\ boot_magic /\ boot_magic' => RailsKept

LEMMA BootMainDoes == ASSUME SomInv, Booting, MainDoes PROVE Booting' /\ Kept
<1>1. /\ main # <<>> /\ Do(Head(main), cmd) /\ MainMoves
  BY DEF MainDoes, Handling, Busy
<1>2. /\ main' \in Rest(main) /\ board' = board
      /\ cmd' = <<"boot">> => cmd = <<"boot">> /\ main' # <<>>
  BY <1>1, StillBooting
<1>3. PICK s, t, c : s = main /\ t = main' /\ c = cmd  OBVIOUS
<1>. DEFINE op == Head(s)
<1>4. /\ FlagsTyped /\ OutputsTyped /\ boot_magic \in BOOLEAN
      /\ s # <<>> /\ t \in Rest(s) /\ Do(op, c)
  BY <1>1, <1>2, <1>3 DEF SomInv, SomTyped, FlagsTyped
<1>5. ASSUME cmd # <<"boot">> PROVE Booting' /\ Kept
  BY <1>2, <1>5 DEF Booting, Kept
<1>6. ASSUME main = Boot(boot_magic), pins = {} PROVE Booting' /\ Kept
  <2>1. PICK w \in BOOLEAN : w = boot_magic  BY <1>4
  <2>2. s = Boot(w)  BY <1>3, <1>6, <2>1
  <2>3. op = <<"setup", "ext", w>> /\ Tail(s) = Version(w)  BY <2>2, Boots DEF Version
  <2>4. op[1] = "setup" /\ op[2] = "ext" /\ op[3] = w  BY <2>3
  <2>. HIDE DEF op
  <2>5. t = Version(w)
    <3>1. t \in {Tail(s)}  BY ONLY <1>4, <2>4 DEF Rest, op
    <3>. QED  BY <2>3, <3>1
  <2>6. /\ shadow' = [shadow EXCEPT !["ext"] = IF op[3] THEN ExtBits \ {"USWITCH_OFF"} ELSE {}]
        /\ write_byte("ext", shadow'["ext"])
        /\ UNCHANGED <<boot_magic, pins, latched>>
    BY <1>4, <2>4 DEF Do, Expander, Flag, outputs
  <2>7. w => shadow'.ext = Keep  BY <1>4, <2>4, <2>6 DEF OutputsTyped, Keep
  <2>8. Booting'
    <3>1. main' = Version(boot_magic') /\ pins' = {} /\ (boot_magic' => Keep \subseteq shadow'.ext)
      BY <1>3, <1>6, <2>1, <2>5, <2>6, <2>7
    <3>. QED  BY <3>1 DEF Booting
  <2>9. w => chip'.ext = Keep \/ chip'.ext = chip.ext
    BY <1>4, <2>6, <2>7 DEF write_byte, OutputsTyped
  <2>10. Kept
    BY <1>2, <1>4, <2>1, <2>6, <2>9 DEF Kept, RailsKept, Rails, Keep, OutputsTyped
  <2>. QED  BY <2>8, <2>10
<1>7. ASSUME cmd = <<"boot">>, main = Version(boot_magic), pins = {},
             boot_magic => Keep \subseteq shadow.ext
      PROVE  Booting' /\ Kept
  <2>1. PICK w \in BOOLEAN : w = boot_magic  BY <1>4
  <2>2. s = Version(w)  BY <1>3, <1>7, <2>1
  <2>3. op = <<"version", "board", w>>  BY <2>2 DEF Version
  <2>4. op[1] = "version" /\ op[3] = w  BY <2>3
  <2>. HIDE DEF op
  <2>5. t = Setup(w)
    <3>1. t \in {Setup(op[3])}  BY ONLY <1>4, <2>4 DEF Rest, op
    <3>. QED  BY <2>4, <3>1
  <2>6. UNCHANGED <<som_is_powered, boot_magic, mb_version, shadow, chip, pins, latched>>
    BY <1>4, <2>4 DEF Do, Expander, Flag, outputs, flags, expanders
  <2>7. Kept  BY <1>2, <2>6 DEF Kept, RailsKept, Rails
  <2>8. CASE w = TRUE
    <3>1. mb_version \in 0..2 /\ (board = 1 => mb_version < 2)  BY <1>4 DEF FlagsTyped
    <3>2. t = Setup(TRUE)  BY <2>5, <2>8
    <3>3. /\ WarmPiece(t) /\ Before(t, Pulse, SomOn)
          /\ board = 1 => \A p \in LatchedPins : Before(t, LatchOn, gpio_put(p, TRUE))
      BY <3>1, <3>2, WarmSetup
    <3>4. Warm(main)'  BY <1>2, <1>3, <3>3, WarmNow
    <3>5. AllLatched'  BY <1>7, <2>6 DEF AllLatched
    <3>6. boot_magic'  BY <2>1, <2>6, <2>8
    <3>7. (Keep \subseteq shadow.ext)'  BY <1>7, <2>1, <2>6, <2>8
    <3>. QED  BY <2>7, <3>4, <3>5, <3>6, <3>7 DEF Booting
  <2>9. CASE w = FALSE
    <3>1. Cold(t)  BY <2>5, <2>9, ColdSetup
    <3>2. Cold(main)'  BY <1>3, <3>1, ColdNow
    <3>3. ~boot_magic'  BY <2>1, <2>6, <2>9
    <3>. QED  BY <2>7, <3>2, <3>3 DEF Booting
  <2>. QED  BY <2>8, <2>9
<1>8. ASSUME ~boot_magic, Cold(main) PROVE Booting' /\ Kept
  <2>1. Cold(s)  BY <1>3, <1>8
  <2>2. /\ Cold(t) /\ op \in Operations
        /\ op[2] = "boot_magic" => op[3] = FALSE
    BY <1>4, <2>1, ColdRest
  <2>. HIDE DEF op
  <2>3. ~boot_magic'  BY <1>4, <1>8, <2>2, ColdDo DEF op
  <2>4. Cold(main)'  BY <1>3, <2>2, ColdNow
  <2>. QED  BY <1>8, <2>3, <2>4 DEF Booting, Kept
<1>9. ASSUME boot_magic, Warm(main), Keep \subseteq shadow.ext, AllLatched
      PROVE  Booting' /\ Kept
  <2>1. Warm(s)  BY <1>3, <1>9
  <2>2. /\ op \in Operations /\ Keeps(op) /\ WarmPiece(t)
        /\ som_is_powered \/ op = SomOn \/ Before(t, Pulse, SomOn)
        /\ board = 1 => \A p \in LatchedPins :
             p \in pins \/ op = gpio_put(p, TRUE) \/ Before(t, LatchOn, gpio_put(p, TRUE))
        /\ board = 1 /\ op = LatchOn => LatchedPins \subseteq pins
    BY <1>4, <2>1, WarmNext
  <2>. HIDE DEF op
  <2>3. /\ Keep \subseteq shadow'.ext /\ AllLatched'
        /\ som_is_powered \/ op = SomOn => som_is_powered'
        /\ \A p \in LatchedPins : p \in pins \/ op = gpio_put(p, TRUE) => p \in pins'
        /\ boot_magic => boot_magic'
        /\ RailsKept
    BY <1>2, <1>4, <1>9, <2>2, WarmDo DEF op
  <2>4. Warm(main)'  BY <1>2, <1>3, <2>2, <2>3, WarmNow
  <2>. QED  BY <1>9, <2>3, <2>4 DEF Booting, Kept
<1>. QED  BY <1>5, <1>6, <1>7, <1>8, <1>9 DEF Booting

LEMMA BootSame ==
  ASSUME Booting,
         UNCHANGED <<board, cmd, main, som_is_powered, boot_magic, shadow, chip, pins, latched>>
  PROVE  Booting' /\ Kept
<1>1. PICK s : s = main  OBVIOUS
<1>2. main' = s  BY <1>1
<1>3. Warm(main) => Warm(main)'  BY DEF Warm
<1>4. Cold(main) => Cold(main)'  OBVIOUS
<1>5. AllLatched => AllLatched'  BY DEF AllLatched
<1>6. Booting'  BY <1>3, <1>4, <1>5 DEF Booting
<1>. QED  BY <1>6 DEF Kept, RailsKept, Rails

(* While the main program has an expander's bits in hand it is neither at  *)
(* the set-up of the expander nor at finding out the board.                *)
LEMMA BootInHand ==
  ASSUME SomInv, Booting, cmd = <<"boot">>, phase # "none"
  PROVE  /\ ~disturbed /\ held \subseteq Bits(Head(main)[1])
         /\ main # <<>> /\ Head(main) \in Operations /\ Expander(Head(main))
         /\ \/ ~boot_magic /\ Cold(main)
            \/ boot_magic /\ Warm(main) /\ Keep \subseteq shadow.ext /\ AllLatched
<1>1. /\ main \in Seq(Operations) /\ main # <<>> /\ Expander(Head(main))
      /\ held \subseteq Bits(Head(main)[1]) /\ boot_magic \in BOOLEAN
  BY DEF SomInv, SomTyped, ProgramsTyped, FlagsTyped
<1>2. Head(main) \in Operations  BY <1>1, Begun
<1>3. ~disturbed  BY DEF SomInv, SomSafe, Alone
<1>4. PICK w \in BOOLEAN : w = boot_magic  BY <1>1
<1>5. main # Boot(boot_magic)
  <2>1. Head(Boot(w))[1] = "setup"  BY Boots
  <2>. QED  BY <1>1, <1>4, <2>1 DEF Expander
<1>6. main # Version(boot_magic)
  <2>1. Head(Version(w))[1] = "version"  BY DEF Version
  <2>. QED  BY <1>1, <1>4, <2>1 DEF Expander
<1>. QED  BY <1>1, <1>2, <1>3, <1>5, <1>6 DEF Booting

LEMMA WarmHead ==
  ASSUME NEW s, s # <<>>, Warm(s)
  PROVE  Keeps(Head(s))
BY Begun DEF Warm, WarmPiece

LEMMA BootStoreShadow == ASSUME SomInv, Booting, StoreShadow PROVE Booting' /\ Kept
<1>. DEFINE op == Head(main)
<1>1. /\ phase = "loaded"
      /\ held' = With(held, op[2], op[3])
      /\ shadow' = [shadow EXCEPT ![op[1]] = held']
      /\ UNCHANGED <<board, main, cmd, som_is_powered, boot_magic, chip, pins, latched>>
  BY DEF StoreShadow, flags, outputs
<1>2. Kept  BY <1>1 DEF Kept, RailsKept, Rails
<1>3. CASE cmd # <<"boot">>  BY <1>1, <1>2, <1>3 DEF Booting
<1>4. CASE cmd = <<"boot">>
  <2>1. /\ ~disturbed /\ main # <<>> /\ op \in Operations /\ Expander(op)
        /\ \/ ~boot_magic /\ Cold(main)
           \/ boot_magic /\ Warm(main) /\ Keep \subseteq shadow.ext /\ AllLatched
    BY <1>1, <1>4, BootInHand
  <2>2. held = shadow[op[1]] /\ OutputsTyped
    BY <1>1, <2>1 DEF SomInv, SomSafe, SomTyped, HeldOK
  <2>3. op[1] \in {"ext", "uswitch"} /\ op[3] \in BOOLEAN  BY <2>1, ExpanderOps
  <2>4. CASE ~boot_magic /\ Cold(main)
    <3>1. Cold(main)'  BY <1>1, <2>4
    <3>. QED  BY <1>1, <1>2, <2>4, <3>1 DEF Booting
  <2>5. CASE boot_magic /\ Warm(main) /\ Keep \subseteq shadow.ext /\ AllLatched
    <3>1. Keeps(op)  BY <2>1, <2>5, WarmHead
    <3>2. Keep \subseteq shadow'.ext
      <4>1. CASE op[1] = "ext"
        <5>1. op[3] = TRUE \/ op[2] = "USWITCH_OFF"  BY <2>3, <3>1, <4>1 DEF Keeps
        <5>2. held = shadow.ext /\ shadow'.ext = held'  BY <1>1, <2>2, <4>1 DEF OutputsTyped
        <5>. QED  BY <1>1, <2>5, <5>1, <5>2 DEF With, Keep
      <4>2. CASE op[1] = "uswitch"  BY <1>1, <2>2, <2>5, <4>2 DEF OutputsTyped
      <4>. QED  BY <2>3, <4>1, <4>2
    <3>3. Warm(main)'  BY <1>1, <2>5 DEF Warm
    <3>4. AllLatched'  BY <1>1, <2>5 DEF AllLatched
    <3>. QED  BY <1>1, <1>2, <2>5, <3>2, <3>3, <3>4 DEF Booting
  <2>. QED  BY <2>1, <2>4, <2>5
<1>. QED  BY <1>3, <1>4

LEMMA BootWriteChip == ASSUME SomInv, Booting, WriteChip PROVE Booting' /\ Kept
<1>1. /\ phase = "stored" /\ write_byte(Head(main)[1], held) /\ MainMoves
      /\ UNCHANGED <<som_is_powered, boot_magic, shadow, pins, latched>>
  BY DEF WriteChip, flags, outputs
<1>2. /\ main' \in Rest(main) /\ board' = board
      /\ cmd' = <<"boot">> => cmd = <<"boot">> /\ main' # <<>>
  BY <1>1, StillBooting
<1>3. CASE cmd # <<"boot">>  BY <1>2, <1>3 DEF Booting, Kept
<1>4. CASE cmd = <<"boot">>
  <2>1. PICK s, t : s = main /\ t = main'  OBVIOUS
  <2>. DEFINE op == Head(s)
  <2>2. /\ ~disturbed /\ s # <<>> /\ op \in Operations /\ Expander(op) /\ t \in Rest(s)
        /\ \/ ~boot_magic /\ Cold(s)
           \/ boot_magic /\ Warm(s) /\ Keep \subseteq shadow.ext /\ AllLatched
    BY <1>1, <1>2, <1>4, <2>1, BootInHand
  <2>3. held = shadow[op[1]] /\ OutputsTyped /\ FlagsTyped
    BY <1>1, <2>1, <2>2 DEF SomInv, SomSafe, SomTyped, HeldOK
  <2>4. op[1] \in {"ext", "uswitch"}  BY <2>2, ExpanderOps
  <2>5. write_byte(op[1], held)  BY <1>1, <2>1
  <2>6. CASE ~boot_magic /\ Cold(s)
    <3>1. Cold(t)  BY <2>2, <2>6, ColdRest
    <3>2. Cold(main)'  BY <2>1, <3>1, ColdNow
    <3>. QED  BY <1>1, <2>6, <3>2 DEF Booting, Kept
  <2>7. CASE boot_magic /\ Warm(s) /\ Keep \subseteq shadow.ext /\ AllLatched
    <3>1. /\ WarmPiece(t) /\ (som_is_powered \/ op = SomOn \/ Before(t, Pulse, SomOn))
          /\ board = 1 => \A p \in LatchedPins :
               p \in pins \/ op = gpio_put(p, TRUE) \/ Before(t, LatchOn, gpio_put(p, TRUE))
      BY <2>2, <2>3, <2>7, WarmNext
    <3>2. op # SomOn /\ \A p \in LatchedPins : op # gpio_put(p, TRUE)
      <4>1. SomOn[1] = "flag" /\ \A p \in LatchedPins : gpio_put(p, TRUE)[1] = "pin"
        BY DEF SomOn, Flag, gpio_put
      <4>. QED  BY <2>4, <4>1
    <3>. HIDE DEF op
    <3>3. Warm(main)'  BY <1>1, <1>2, <2>1, <3>1, <3>2, WarmNow
    <3>4. AllLatched'  BY <1>1, <1>2, <2>7 DEF AllLatched
    <3>5. RailsKept
      <4>1. chip'.ext = chip.ext \/ chip'.ext = shadow.ext
        <5>1. CASE op[1] = "ext"
          BY <2>3, <2>5, <5>1 DEF write_byte, OutputsTyped
        <5>2. CASE op[1] = "uswitch"
          BY <2>3, <2>5, <5>2 DEF write_byte, OutputsTyped
        <5>. QED  BY <2>4, <5>1, <5>2
      <4>. QED  BY <1>1, <1>2, <2>3, <2>7, <4>1 DEF RailsKept, Rails, Keep, OutputsTyped
    <3>. QED  BY <1>1, <2>7, <3>3, <3>4, <3>5 DEF Booting, Kept
  <2>. QED  BY <2>2, <2>6, <2>7
<1>. QED  BY <1>3, <1>4

LEMMA BootRestart ==
  ASSUME NEW w \in BOOLEAN, Restart(w), boot_magic' = w
  PROVE  Booting'
BY Restarted DEF Booting

LEMMA BootStep == ASSUME SomInv, Booting, [Next]_vars PROVE Booting' /\ Kept
<1>1. CASE MainDoes  BY <1>1, BootMainDoes
<1>2. CASE StoreShadow  BY <1>2, BootStoreShadow
<1>3. CASE WriteChip  BY <1>3, BootWriteChip
<1>4. CASE LoadShadow \/ UNCHANGED vars
  BY <1>4, BootSame
     DEF LoadShadow, vars, main_vars, flags, expanders, outputs
<1>5. CASE LoopCommand
  <2>1. main = <<>> /\ cmd' \in LoopCommands  BY <1>5 DEF LoopCommand, Handling, Busy
  <2>2. cmd' # <<"boot">>  BY <2>1, SomPowerAssumption, CommandsDiffer
  <2>3. cmd # <<"boot">>  BY <2>1 DEF SomInv, SomSafe, Alone, Switching
  <2>. QED  BY <2>2, <2>3 DEF Booting, Kept
<1>6. CASE SpiCommand \/ SpiDoes
  <2>1. irq \/ isr # <<>> \/ spi_cmd = More  BY <1>6 DEF SpiCommand, SpiDoes, Busy
  <2>2. cmd # <<"boot">>  BY <2>1, CommandsDiffer DEF SomInv, SomSafe, Alone
  <2>3. cmd' = cmd  BY <1>6 DEF SpiCommand, SpiDoes, main_vars
  <2>. QED  BY <2>2, <2>3 DEF Booting, Kept
<1>7. CASE Reset
  <2>1. PICK w \in BOOLEAN : w = boot_magic  BY DEF SomInv, SomTyped, FlagsTyped
  <2>2. Restart(w) /\ boot_magic' = w /\ chip' = chip /\ latched' = latched
    BY <1>7, <2>1 DEF Reset
  <2>3. board' = board  BY <2>2, Restarted
  <2>4. Booting'  BY <2>2, BootRestart
  <2>. QED  BY <2>2, <2>3, <2>4 DEF Kept, RailsKept, Rails
<1>8. CASE PowerLoss
  <2>1. Restart(FALSE) /\ boot_magic' = FALSE  BY <1>8 DEF PowerLoss
  <2>2. Booting'  BY <2>1, BootRestart
  <2>. QED  BY <2>1, <2>2 DEF Kept
<1>. QED  BY Zenon, <1>1, <1>2, <1>3, <1>4, <1>5, <1>6, <1>7, <1>8 DEF Next

(* A warm boot drops no rail and leaves the display out of reset, on both  *)
(* motherboards, whatever writes fail, also if it takes the board for the  *)
(* other one. (main: "unless this is a warm reboot of sysctl")             *)
THEOREM WarmBootKeeps == Spec => WarmBootKeepsRails
<1>1. Init => Booting  BY DEF Init, Booting
<1>2. SomInv /\ Booting /\ [Next]_vars => Booting'  BY BootStep
<1>3. SomInv /\ Booting /\ [Next]_vars
        => [cmd = <<"boot">> /\ boot_magic /\ boot_magic' => Rails \ {"USWITCH_OFF"} \subseteq Rails']_vars
  BY BootStep DEF Kept, RailsKept
<1>. QED  BY <1>1, <1>2, <1>3, SomSwitchedSafely, PTL DEF Spec, WarmBootKeepsRails

-----------------------------------------------------------------------------
(* The rails of a SOM that is off. Switching off, and a cold boot, lower   *)
(* every rail: on motherboard 2.0 each bit of the expander is written low, *)
(* on motherboard 1.0 each pin goes low before the latch is raised.        *)
RailOff(r) ==
  IF board = 1 THEN r \notin pins \cup latched
               ELSE r \notin shadow.ext /\ (lost.ext = 0 => r \notin chip.ext)

Lowers(op) ==
  /\ op[1] \notin {"pulse", "version"} /\ op[2] \notin {"ext", "board"}
  /\ op[1] = "ext" \/ (op[1] = "pin" /\ op[2] \in LatchedPins) => op[3] = FALSE

Sinks(s) == s \in Seq(Operations) /\ \A op \in Range(s) : Lowers(op)

(* Whatever the rails are, s lowers them all.                              *)
Sweeps(s) ==
  /\ Sinks(s)
  /\ board = 2 => \A r \in ExtBits : gpio_ext_disable(r) \in Range(s)
  /\ board = 1 => /\ LatchOn \in Range(s)
                  /\ \A r \in LatchedPins : Before(s, LatchOn, gpio_put(r, FALSE))

(* What s does not lower is low.                                           *)
Sweeping(s) ==
  /\ Sinks(s)
  /\ board = 2 => \A r \in ExtBits : RailOff(r) \/ gpio_ext_disable(r) \in Range(s)
  /\ board = 1 => \A r \in LatchedPins :
       /\ r \notin pins \/ Before(s, LatchOn, gpio_put(r, FALSE))
       /\ RailOff(r) \/ LatchOn \in Range(s)

LEMMA SweepsSweeping ==
  ASSUME NEW s, Sweeps(s)
  PROVE  Sweeping(s)
BY DEF Sweeps, Sweeping

LEMMA SinksJoined ==
  ASSUME NEW s, NEW t, Sinks(s), Sinks(t)
  PROVE  Sinks(s \o t) /\ Range(s \o t) = Range(s) \cup Range(t)
BY Joined DEF Sinks

LEMMA SinkLiterals ==
  ASSUME NEW a \in Operations, NEW b \in Operations, NEW c \in Operations, NEW d \in Operations,
         Lowers(a), Lowers(b), Lowers(c), Lowers(d)
  PROVE  /\ Sinks(<<>>) /\ Sinks(<<a>>) /\ Sinks(<<a, b>>) /\ Sinks(<<a, b, c>>)
         /\ Sinks(<<a, b, c, d>>)
<1>1. Sinks(<<>>)  BY DEF Sinks, Range
<1>. QED  BY <1>1, OneOf, TwoOf, ThreeOf, FourOf DEF Sinks

LEMMA LoweringOps ==
  /\ \A b \in ExtBits : Lowers(gpio_ext_disable(b))
  /\ \A p \in Pins : Lowers(gpio_put(p, FALSE))
  /\ \A p \in Pins \ LatchedPins, v \in BOOLEAN : Lowers(gpio_put(p, v))
  /\ \A b \in UswitchBits, v \in BOOLEAN : Lowers(uswitch(b, v))
  /\ \A f \in Flags, v \in BOOLEAN : Lowers(Flag(f, v))
  /\ Lowers(<<"setup", "uswitch", FALSE>>) /\ Lowers(<<"usb_default", "port2", TRUE>>)
BY DEF Lowers, gpio_ext_disable, gpio_put, uswitch, Flag, ExtBits, Pins, LatchedPins, UswitchBits, Flags

(* Setting a port's mode: its switches and its supply.                     *)
PortOp(op) ==
  \/ op[1] = "uswitch"
  \/ op[1] = "pin" /\ op[2] = IF mb_version < 2 THEN "usb1_5v" ELSE "usb2_5v"

PortOps(s) == s \in Seq(Operations) /\ \A op \in Range(s) : PortOp(op)

LEMMA PortOpsJoined ==
  ASSUME NEW s, NEW t, PortOps(s), PortOps(t)
  PROVE  PortOps(s \o t)
BY Joined DEF PortOps

LEMMA FourPortOps ==
  ASSUME NEW a \in Operations, NEW b \in Operations, NEW c \in Operations, NEW d \in Operations,
         PortOp(a), PortOp(b), PortOp(c), PortOp(d)
  PROVE  PortOps(<<>>) /\ PortOps(<<a>>) /\ PortOps(<<a, b, c, d>>)
<1>1. PortOps(<<>>)  BY DEF PortOps, Range
<1>. QED  BY <1>1, OneOf, FourOf DEF PortOps

LEMMA UsbOps ==
  ASSUME NEW port \in {0, 1}, NEW mode \in Garbage
  PROVE  PortOps(set_usb_mode(port, mode))
<1>. DEFINE h0 == usb_host_5v_set(FALSE)  h1 == usb_host_5v_set(TRUE)
            u1 == uswitch("1", TRUE)  u2 == uswitch("2", TRUE)  u3 == uswitch("3", TRUE)
            u4 == uswitch("4", TRUE)
            v1 == uswitch("1", FALSE)  v2 == uswitch("2", FALSE)  v3 == uswitch("3", FALSE)
            v4 == uswitch("4", FALSE)
            fine(op) == op \in Operations /\ PortOp(op)
<1>1. fine(h0) /\ fine(h1)
  <2>1. ASSUME NEW high \in BOOLEAN PROVE fine(usb_host_5v_set(high))
    <3>1. usb_host_5v_set(high)
            = gpio_put(IF mb_version < 2 THEN "usb1_5v" ELSE "usb2_5v", high)
      BY DEF usb_host_5v_set
    <3>2. usb_host_5v_set(high) \in Operations  BY <3>1, Operands, NamesOK
    <3>3. \A p : gpio_put(p, high)[1] = "pin" /\ gpio_put(p, high)[2] = p  BY DEF gpio_put
    <3>. QED  BY <3>1, <3>2, <3>3 DEF PortOp
  <2>. QED  BY <2>1
<1>2. ASSUME NEW b \in {"1", "2", "3", "4"}, NEW high \in BOOLEAN PROVE fine(uswitch(b, high))
  <2>1. uswitch(b, high)[1] = "uswitch"  BY DEF uswitch
  <2>. QED  BY <2>1, Operands, NamesOK DEF PortOp
<1>3. /\ fine(u1) /\ fine(u2) /\ fine(u3) /\ fine(u4)
      /\ fine(v1) /\ fine(v2) /\ fine(v3) /\ fine(v4)
  BY <1>2
<1>. HIDE DEF h0, h1, u1, u2, u3, u4, v1, v2, v3, v4
<1>4. PortOps(<<h0, u1, u2, u3>>)  BY <1>1, <1>3, FourPortOps
<1>5. PortOps(<<v1, v2, v3, h1>>)  BY <1>1, <1>3, FourPortOps
<1>6. PortOps(<<h0, u1, v2, u3>>)  BY <1>1, <1>3, FourPortOps
<1>7. PortOps(<<u4>>)  BY <1>3, FourPortOps
<1>8. PortOps(<<v4>>)  BY <1>3, FourPortOps
<1>9. PortOps(<<>>)  BY DEF PortOps, Range
<1>. QED  BY <1>4, <1>5, <1>6, <1>7, <1>8, <1>9
     DEF set_usb_mode, h0, h1, u1, u2, u3, u4, v1, v2, v3, v4, Garbage

LEMMA PortSinks ==
  ASSUME NEW s, PortOps(s)
  PROVE  Sinks(s) /\ (mb_version < 2 => LatchOn \notin Range(s))
<1>1. ASSUME NEW op \in Operations, PortOp(op) PROVE Lowers(op) /\ (mb_version < 2 => op # LatchOn)
  <2>1. op[1] = "uswitch" \/ (op[1] = "pin" /\ op[2] \in {"usb1_5v", "usb2_5v"})
    BY <1>1 DEF PortOp
  <2>2. op[1] = "pin" /\ mb_version < 2 => op[2] = "usb1_5v"  BY <1>1 DEF PortOp
  <2>3. op[1] = "uswitch" => op[2] \in UswitchBits  BY ExpanderOps DEF Expander, Bits
  <2>4. Lowers(op)  BY <2>1, <2>3 DEF Lowers, LatchedPins, UswitchBits
  <2>5. LatchOn[1] = "pin" /\ LatchOn[2] = "usb2_5v"  BY DEF LatchOn, gpio_put, Latch
  <2>. QED  BY <2>1, <2>2, <2>4, <2>5
<1>2. \A op \in Range(s) : op \in Operations
  BY Standing DEF PortOps
<1>. QED  BY <1>1, <1>2 DEF PortOps, Sinks

(* The literals of the programs that switch off are exactly what is to go  *)
(* low.                                                                    *)
LEMMA OffLowers ==
  /\ Sinks(RailsOff) /\ Sinks(PeripheralsOff) /\ Sinks(PinsOff)
  /\ \A r \in ExtBits : gpio_ext_disable(r) \in Range(PeripheralsOff) \cup Range(RailsOff)
  /\ \A r \in LatchedPins : gpio_put(r, FALSE) \in Range(PinsOff)
  /\ LatchOn \notin Range(PinsOff)
<1>1. /\ RailsOff \in Seq(Operations)
      /\ Range(RailsOff) = {gpio_ext_disable("5V"), gpio_ext_disable("3V3"), gpio_ext_disable("HUB_PWR"),
                            gpio_ext_disable("PCIE_PWR"), gpio_ext_disable("USWITCH_OFF")}
  BY PiecesOfOff DEF Prog
<1>2. /\ PeripheralsOff \in Seq(Operations)
      /\ Range(PeripheralsOff) =
          {gpio_put("modem", FALSE), gpio_put("modem_reset_n", FALSE),
           gpio_ext_disable("DISP_RESET_N"), gpio_ext_disable("DISP_BL_PWR"),
           gpio_ext_disable("DISP_1EN_2BL")}
  BY PiecesOfOff DEF Prog
<1>3. /\ PinsOff \in Seq(Operations)
      /\ Range(PinsOff) =
          {gpio_put("DISP_RESET_N", FALSE), gpio_put("DISP_EN", FALSE),
           gpio_put("modem_reset_n", FALSE), gpio_put("modem", FALSE),
           gpio_put("5V", FALSE), gpio_put("3V3", FALSE), gpio_put("1V1", FALSE)}
  BY PiecesOfOff DEF Prog
<1>4. Sinks(RailsOff)  BY <1>1, LoweringOps, NamesOK DEF Sinks
<1>5. Sinks(PeripheralsOff)  BY <1>2, LoweringOps, NamesOK DEF Sinks
<1>6. Sinks(PinsOff)  BY <1>3, LoweringOps, NamesOK DEF Sinks
<1>7. \A r \in ExtBits : gpio_ext_disable(r) \in Range(PeripheralsOff) \cup Range(RailsOff)
  BY <1>1, <1>2 DEF ExtBits
<1>8. \A r \in LatchedPins : gpio_put(r, FALSE) \in Range(PinsOff)
  BY <1>3 DEF LatchedPins
<1>9. LatchOn \notin Range(PinsOff)
  <2>1. LatchOn[3] = TRUE /\ \A p : gpio_put(p, FALSE)[3] = FALSE  BY DEF LatchOn, gpio_put
  <2>. QED  BY <1>3, <2>1
<1>. QED  BY <1>4, <1>5, <1>6, <1>7, <1>8, <1>9

LEMMA SweepsOff20 ==
  /\ Sinks(turn_som_power_off_v20)
  /\ \A r \in ExtBits : gpio_ext_disable(r) \in Range(turn_som_power_off_v20)
<1>. DEFINE som == Flag("som_is_powered", FALSE)  magic == Flag("boot_magic", FALSE)
            loader == gpio_put("usb_loader", FALSE)  disp == gpio_put("DISP_EN", FALSE)
            A == <<som, magic>>  D == <<loader, disp>>  E == set_usb_mode(1, 0)
<1>1. /\ som \in Operations /\ magic \in Operations /\ loader \in Operations /\ disp \in Operations
      /\ Lowers(som) /\ Lowers(magic) /\ Lowers(loader) /\ Lowers(disp)
  BY Operands, NamesOK, LoweringOps DEF Flags
<1>2. turn_som_power_off_v20 = (((A \o PeripheralsOff) \o RailsOff) \o D) \o E
  BY Zenon DEF turn_som_power_off_v20, magic, loader, som, disp
<1>. HIDE DEF magic, som, loader, disp
<1>3. Sinks(A) /\ Sinks(D)  BY <1>1, SinkLiterals
<1>4. Sinks(E)  BY UsbOps, PortSinks DEF Garbage
<1>. HIDE DEF A, D, E
<1>. DEFINE u == A \o PeripheralsOff  v == u \o RailsOff  w == v \o D
<1>5. Sinks(u) /\ Range(PeripheralsOff) \subseteq Range(u)  BY <1>3, OffLowers, SinksJoined
<1>. HIDE DEF u
<1>6. Sinks(v) /\ Range(PeripheralsOff) \cup Range(RailsOff) \subseteq Range(v)
  BY <1>5, OffLowers, SinksJoined
<1>. HIDE DEF v
<1>7. Sinks(w) /\ Range(v) \subseteq Range(w)  BY <1>3, <1>6, SinksJoined
<1>. HIDE DEF w
<1>8. Sinks(w \o E) /\ Range(w) \subseteq Range(w \o E)  BY <1>4, <1>7, SinksJoined
<1>9. turn_som_power_off_v20 = w \o E  BY <1>2 DEF u, v, w
<1>. QED  BY <1>6, <1>7, <1>8, <1>9, OffLowers

LEMMA SweepsOff10 ==
  ASSUME ~(mb_version >= 2)
  PROVE  /\ Sinks(turn_som_power_off) /\ LatchOn \in Range(turn_som_power_off)
         /\ \A r \in LatchedPins : Before(turn_som_power_off, LatchOn, gpio_put(r, FALSE))
<1>. DEFINE som == Flag("som_is_powered", FALSE)  magic == Flag("boot_magic", FALSE)
            off == gpio_put(Latch, FALSE)
            A == <<som, magic>>  C == <<LatchOn, off>>  u == A \o PinsOff
<1>1. /\ som \in Operations /\ magic \in Operations /\ off \in Operations /\ LatchOn \in Operations
      /\ Lowers(som) /\ Lowers(magic) /\ Lowers(off) /\ Lowers(LatchOn)
  BY Operands, NamesOK, LoweringOps DEF Flags, LatchOn, Pins, LatchedPins
<1>2. LatchOn # som /\ LatchOn # magic
  <2>1. LatchOn[1] = "pin" /\ som[1] = "flag" /\ magic[1] = "flag"
    BY DEF LatchOn, gpio_put, Flag
  <2>. QED  BY <2>1
<1>3. turn_som_power_off = (A \o PinsOff) \o C
  BY Zenon DEF turn_som_power_off, som, magic, off, LatchOn
<1>. HIDE DEF magic, som, off
<1>4. Sinks(A) /\ Range(A) = {som, magic}  BY <1>1, SinkLiterals, TwoOf
<1>5. Sinks(C) /\ Range(C) = {LatchOn, off}  BY <1>1, SinkLiterals, TwoOf
<1>. HIDE DEF A, C
<1>6. Sinks(u) /\ Range(u) = Range(A) \cup Range(PinsOff)  BY <1>4, OffLowers, SinksJoined
<1>. HIDE DEF u
<1>7. LatchOn \notin Range(u) /\ \A r \in LatchedPins : gpio_put(r, FALSE) \in Range(u)
  BY <1>2, <1>4, <1>6, OffLowers
<1>8. Sinks(u \o C) /\ LatchOn \in Range(u \o C)  BY <1>5, <1>6, SinksJoined
<1>9. \A r \in LatchedPins : Before(u \o C, LatchOn, gpio_put(r, FALSE))
  BY <1>5, <1>6, <1>7, BeforeJoined DEF Sinks
<1>10. turn_som_power_off = u \o C  BY <1>3 DEF u
<1>. QED  BY <1>8, <1>9, <1>10

LEMMA SweepsOff ==
  ASSUME board \in 1..2, mb_version = board
  PROVE  Sweeps(turn_som_power_off)
<1>1. CASE board = 2
  <2>1. mb_version >= 2 /\ board # 1  BY <1>1
  <2>2. turn_som_power_off = turn_som_power_off_v20  BY Zenon, <2>1 DEF turn_som_power_off
  <2>. QED  BY <1>1, <2>1, <2>2, SweepsOff20 DEF Sweeps
<1>2. CASE board = 1
  <2>1. ~(mb_version >= 2) /\ board # 2  BY <1>2
  <2>. QED  BY <2>1, SweepsOff10 DEF Sweeps
<1>. QED  BY <1>1, <1>2

(* The cold boot as well.                                                  *)
LEMMA SweepsSetup ==
  ASSUME board \in 1..2, mb_version = board
  PROVE  Sweeps(Setup(FALSE))
<1>. DEFINE us == <<"setup", "uswitch", FALSE>>  ud == <<"usb_default", "port2", TRUE>>
            A == IF mb_version >= 2 THEN <<us>> ELSE <<>>
            T == turn_som_power_off  D == <<ud, ud, Listen>>  u == A \o T
<1>1. /\ us \in Operations /\ ud \in Operations /\ Listen \in Operations
      /\ Lowers(us) /\ Lowers(ud) /\ Lowers(Listen)
  BY Operands, LoweringOps DEF Listen, Flags
<1>2. us # LatchOn /\ ud # LatchOn /\ Listen # LatchOn
  BY OpsDiffer DEF LatchOn, gpio_put
<1>3. Setup(FALSE) = (A \o T) \o D
  <2>. DEFINE B == IF FALSE THEN <<Flag("som_is_powered", TRUE)>> \o turn_som_power_on ELSE T
  <2>1. Setup(FALSE) = (A \o B) \o D  BY Zenon DEF Setup, Listen
  <2>2. B = T  OBVIOUS
  <2>. QED  BY Zenon, <2>1, <2>2
<1>. HIDE DEF us, ud
<1>4. Sinks(A) /\ LatchOn \notin Range(A)
  <2>1. Range(<<us>>) = {us} /\ Range(<<>>) = {}  BY <1>1, OneOf DEF Range
  <2>2. Sinks(<<us>>) /\ Sinks(<<>>)  BY <1>1, SinkLiterals
  <2>3. A = <<us>> \/ A = <<>>  OBVIOUS
  <2>. QED  BY <1>2, <2>1, <2>2, <2>3
<1>5. Sinks(D) /\ LatchOn \notin Range(D)
  <2>1. Range(<<ud, ud, Listen>>) = {ud, ud, Listen}  BY ONLY <1>1, ThreeOf
  <2>2. Sinks(<<ud, ud, Listen>>)  BY <1>1, SinkLiterals
  <2>. QED  BY <1>2, <2>1, <2>2
<1>6. Sweeps(T)  BY SweepsOff
<1>. HIDE DEF A, T, D
<1>7. /\ A \in Seq(Operations) /\ T \in Seq(Operations) /\ D \in Seq(Operations) /\ Sinks(T)
  BY <1>4, <1>5, <1>6 DEF Sinks, Sweeps
<1>8. Sinks(u) /\ Range(T) \subseteq Range(u) /\ u \in Seq(Operations)
  BY <1>4, <1>7, SinksJoined DEF Sinks
<1>9. Sinks(u \o D) /\ Range(T) \subseteq Range(u \o D)
  BY <1>5, <1>8, SinksJoined
<1>10. \A x : Before(T, LatchOn, x) => Before(u, LatchOn, x)
  BY <1>4, <1>7, BeforeJoined
<1>. HIDE DEF u
<1>11. \A x : Before(u, LatchOn, x) => Before(u \o D, LatchOn, x)
  BY <1>5, <1>7, <1>8, BeforeJoined
<1>12. Sweeps(u \o D)  BY <1>6, <1>9, <1>10, <1>11 DEF Sweeps
<1>. QED  BY <1>3, <1>12 DEF u

-----------------------------------------------------------------------------
(* What an operation has done to pins and rails when it is complete.       *)
Moved(op) ==
  /\ board' = board
  /\ board = 1 =>
       /\ pins' = IF op[1] = "pin" THEN With(pins, op[2], op[3]) ELSE pins
       /\ latched' = latched \/ latched' = pins' \cap LatchedPins
       /\ op = LatchOn => latched' = pins' \cap LatchedPins
  /\ board = 2 =>
       /\ shadow'.ext = IF op[1] = "ext" THEN With(shadow.ext, op[2], op[3]) ELSE shadow.ext
       /\ op[1] # "ext" => chip'.ext = chip.ext /\ lost'.ext = lost.ext
       /\ op[1] = "ext" /\ lost'.ext = 0 => chip'.ext = shadow'.ext

LEMMA DoMoved ==
  ASSUME OutputsTyped, board \in 1..2, board' = board, NEW op \in Operations, op[2] # "ext",
         NEW c, Do(op, c), ~Expander(op)
  PROVE  Moved(op)
<1>1. CASE op[1] = "pin"
  <2>1. SetPin(op[2], op[3]) /\ UNCHANGED <<shadow, chip, lost>>
    BY <1>1 DEF Do, Flag, flags, expanders
  <2>2. op = gpio_put(op[2], op[3])  BY <1>1, FlagOps
  <2>3. /\ pins' = With(pins, op[2], op[3])
        /\ latched' = IF board = 1 /\ Latch \in pins' THEN pins' \cap LatchedPins ELSE latched
    BY <2>1 DEF SetPin
  <2>4. op = LatchOn => op[2] = Latch /\ op[3] = TRUE  BY DEF LatchOn, gpio_put
  <2>5. op = LatchOn => Latch \in pins'  BY <2>3, <2>4 DEF With
  <2>. QED  BY <1>1, <2>1, <2>3, <2>5 DEF Moved
<1>2. CASE op[1] \in {"flag", "pulse", "usb_default", "version"}
  <2>1. UNCHANGED <<shadow, chip, lost, pins, latched>>
    BY <1>2 DEF Do, Flag, outputs, expanders, flags
  <2>2. op # LatchOn  BY <1>2, PinOps
  <2>. QED  BY <1>2, <2>1, <2>2 DEF Moved
<1>3. CASE op[1] = "setup"
  <2>0. op[2] = "uswitch"  BY <1>3, FlagOps
  <2>1. /\ shadow' = [shadow EXCEPT !["uswitch"] = IF op[3] THEN shadow["uswitch"] ELSE UswitchBits]
        /\ write_byte("uswitch", shadow'["uswitch"])
        /\ UNCHANGED <<pins, latched>>
    BY <1>3, <2>0 DEF Do, Flag, outputs, flags
  <2>2. shadow'.ext = shadow.ext  BY <2>1 DEF OutputsTyped
  <2>3. chip'.ext = chip.ext /\ lost'.ext = lost.ext  BY <2>1 DEF OutputsTyped, write_byte
  <2>4. op # LatchOn  BY <1>3, PinOps
  <2>. QED  BY <1>3, <2>1, <2>2, <2>3, <2>4 DEF Moved
<1>. QED  BY <1>1, <1>2, <1>3 DEF Operations, Expander

LEMMA WriteMoved ==
  ASSUME OutputsTyped, board \in 1..2, board' = board, NEW op \in Operations, Expander(op),
         UNCHANGED <<pins, latched>>,
         \/ shadow' = [shadow EXCEPT ![op[1]] = With(shadow[op[1]], op[2], op[3])]
         \/ shadow' = shadow /\ (op[2] \in shadow[op[1]] <=> op[3]),
         write_byte(op[1], shadow'[op[1]])
  PROVE  Moved(op)
<1>1. op[1] \in {"ext", "uswitch"} /\ op[3] \in BOOLEAN  BY ExpanderOps
<1>2. op # LatchOn  BY <1>1, PinOps
<1>3. CASE op[1] = "ext"
  <2>1. shadow'.ext = With(shadow.ext, op[2], op[3])
    BY <1>1, <1>3 DEF With, OutputsTyped
  <2>2. board = 2 /\ lost'.ext = 0 => chip'.ext = shadow'.ext
    <3>1. lost["ext"] \in Nat  BY SomPowerAssumption DEF OutputsTyped
    <3>2. CASE lost'["ext"] = 0 /\ board = 2
      <4>1. chip' = [chip EXCEPT !["ext"] = shadow'["ext"]]
        BY <1>3, <3>1, <3>2 DEF write_byte, OutputsTyped
      <4>. QED  BY <4>1 DEF OutputsTyped
    <3>. QED  BY <3>2
  <2>. QED  BY <1>2, <1>3, <2>1, <2>2 DEF Moved
<1>4. CASE op[1] = "uswitch"
  <2>1. shadow'.ext = shadow.ext  BY <1>4 DEF OutputsTyped
  <2>2. chip'.ext = chip.ext /\ lost'.ext = lost.ext  BY <1>4 DEF OutputsTyped, write_byte
  <2>. QED  BY <1>2, <1>4, <2>1, <2>2 DEF Moved
<1>. QED  BY <1>1, <1>3, <1>4

LEMMA DisableParts ==
  /\ \A r : /\ gpio_ext_disable(r)[1] = "ext" /\ gpio_ext_disable(r)[2] = r
            /\ gpio_ext_disable(r)[3] = FALSE
  /\ \A p : gpio_put(p, FALSE)[1] = "pin" /\ gpio_put(p, FALSE)[2] = p /\ gpio_put(p, FALSE)[3] = FALSE
  /\ LatchOn[1] = "pin" /\ LatchOn[2] = Latch /\ LatchOn[3] = TRUE
BY DEF gpio_ext_disable, gpio_put, LatchOn

LEMMA SweepingTail ==
  ASSUME board \in 1..2, NEW s \in Seq(Operations), s # <<>>, Sweeping(s), Moved(Head(s))
  PROVE  Sweeping(Tail(s))'
<1>. DEFINE op == Head(s)  u == Tail(s)
<1>1. u \in Seq(Operations) /\ op \in Operations /\ Range(s) = {op} \cup Range(u)  BY Begun
<1>2. Lowers(op) /\ Sinks(u)  BY <1>1 DEF Sweeping, Sinks
<1>3. \A a, b : Before(s, a, b) => op # a /\ (op # b => Before(u, a, b))  BY BeforeTail
<1>4. Moved(op) /\ board' = board  BY DEF Moved
<1>. HIDE DEF op, u
<1>5. ASSUME board = 2, NEW r \in ExtBits PROVE RailOff(r)' \/ gpio_ext_disable(r) \in Range(u)
  <2>1. RailOff(r) => RailOff(r)'
    BY <1>2, <1>4, <1>5 DEF Moved, RailOff, Lowers, With
  <2>2. op = gpio_ext_disable(r) => RailOff(r)'
    BY <1>4, <1>5, DisableParts DEF Moved, RailOff, With
  <2>. QED  BY <1>1, <1>5, <2>1, <2>2 DEF Sweeping
<1>6. ASSUME board = 1, NEW r \in LatchedPins
      PROVE  /\ r \notin pins' \/ Before(u, LatchOn, gpio_put(r, FALSE))
             /\ RailOff(r)' \/ LatchOn \in Range(u)
  <2>1. r \notin pins => r \notin pins'  BY <1>2, <1>4, <1>6 DEF Moved, Lowers, With
  <2>2. op = gpio_put(r, FALSE) => r \notin pins'
    <3>. HAVE op = gpio_put(r, FALSE)
    <3>1. op[1] = "pin" /\ op[2] = r /\ op[3] = FALSE  BY DisableParts
    <3>. QED  BY <1>4, <1>6, <3>1 DEF Moved, With
  <2>3. RailOff(r) => RailOff(r)'  BY <1>4, <1>6, <2>1 DEF Moved, RailOff
  <2>4. op = LatchOn => RailOff(r)'
    <3>. HAVE op = LatchOn
    <3>1. r \notin pins  BY <1>3, <1>6 DEF Sweeping
    <3>. QED  BY <1>4, <1>6, <2>1, <3>1 DEF Moved, RailOff
  <2>. QED  BY <1>1, <1>3, <1>6, <2>1, <2>2, <2>3, <2>4 DEF Sweeping
<1>7. (board = 2 => \A r \in ExtBits : RailOff(r) \/ gpio_ext_disable(r) \in Range(u))'
  BY <1>4, <1>5
<1>8. (board = 1 => \A r \in LatchedPins :
        /\ r \notin pins \/ Before(u, LatchOn, gpio_put(r, FALSE))
        /\ RailOff(r) \/ LatchOn \in Range(u))'
  BY <1>4, <1>6
<1>9. Sweeping(u)'  BY <1>2, <1>7, <1>8 DEF Sweeping
<1>. QED  BY <1>9 DEF u

LEMMA SweepingMore ==
  ASSUME NEW pre, NEW t, Sinks(pre), board' = 1 => LatchOn \notin Range(pre), Sweeping(t)'
  PROVE  Sweeping(pre \o t)'
<1>. DEFINE u == pre \o t
<1>1. Sinks(t) /\ pre \in Seq(Operations) /\ t \in Seq(Operations)  BY DEF Sweeping, Sinks
<1>2. Sinks(u) /\ Range(u) = Range(pre) \cup Range(t)  BY <1>1, SinksJoined
<1>3. ASSUME board' = 1 PROVE \A b : Before(t, LatchOn, b) => Before(u, LatchOn, b)
  BY <1>1, <1>3, BeforeJoined
<1>. HIDE DEF u
<1>4. (board = 2 => \A r \in ExtBits : RailOff(r) \/ gpio_ext_disable(r) \in Range(u))'
  BY <1>2 DEF Sweeping
<1>5. (board = 1 => \A r \in LatchedPins :
        /\ r \notin pins \/ Before(u, LatchOn, gpio_put(r, FALSE))
        /\ RailOff(r) \/ LatchOn \in Range(u))'
  BY <1>2, <1>3 DEF Sweeping
<1>6. Sweeping(u)'  BY <1>2, <1>4, <1>5 DEF Sweeping
<1>. QED  BY <1>6 DEF u

LEMMA SweepingRest ==
  ASSUME board \in 1..2, mb_version = board, NEW s \in Seq(Operations), s # <<>>, Sweeping(s),
         Moved(Head(s)), NEW t \in Rest(s)
  PROVE  Sweeping(t)'
<1>1. Sweeping(Tail(s))'  BY SweepingTail
<1>2. Head(s)[1] \notin {"pulse", "version"}
  BY Begun DEF Sweeping, Sinks, Lowers
<1>3. CASE t = Tail(s)  BY <1>1, <1>3
<1>4. ASSUME NEW mode \in Garbage, t = set_usb_mode(1, mode) \o Tail(s) PROVE Sweeping(t)'
  <2>1. PICK pre : pre = set_usb_mode(1, mode)  OBVIOUS
  <2>2. Sinks(pre) /\ (mb_version < 2 => LatchOn \notin Range(pre))
    BY <2>1, UsbOps, PortSinks
  <2>3. board' = 1 => LatchOn \notin Range(pre)  BY <2>2 DEF Moved
  <2>4. PICK u : u = Tail(s)  OBVIOUS
  <2>5. Sweeping(u)' /\ t = pre \o u  BY <1>1, <1>4, <2>1, <2>4
  <2>. QED  BY <2>2, <2>3, <2>5, SweepingMore
<1>5. t = Tail(s) \/ \E mode \in Garbage : t = set_usb_mode(1, mode) \o Tail(s)
  BY <1>2 DEF Rest
<1>. QED  BY <1>3, <1>4, <1>5

-----------------------------------------------------------------------------
(* What other commands do to rails. On motherboard 1.0 they reach only the *)
(* display's lines: a line they lower is latched at once, and the one that *)
(* wakes the SOM is raised again.                                          *)
Lines == {"DISP_RESET_N", "DISP_EN"}
Wake == gpio_ext_enable("DISP_RESET_N")

After(s, a, b) == \A i \in 1..Len(s) : s[i] = a => \E j \in 1..Len(s) : i < j /\ s[j] = b

HandOp(op) ==
  \/ op[1] \in {"ext", "uswitch"}
  \/ op[1] = "pin" /\ op[2] \in {"usb1_5v", "usb2_5v"} \cup (IF board = 1 THEN Lines ELSE {})

Followed(s) ==
  /\ \A p \in Lines : After(s, gpio_put(p, FALSE), LatchOn)
  /\ After(s, gpio_ext_disable("DISP_RESET_N"), Wake)

Handy(s) ==
  /\ s \in Seq(Operations) /\ \A op \in Range(s) : HandOp(op)
  /\ board = 1 => Followed(s)

LEMMA AfterAbsent ==
  ASSUME NEW s \in Seq(Operations), NEW a, a \notin Range(s), NEW b
  PROVE  After(s, a, b)
BY Standing DEF After

LEMMA AfterTail ==
  ASSUME NEW s \in Seq(Operations), s # <<>>, NEW a, NEW b, After(s, a, b)
  PROVE  After(Tail(s), a, b) /\ (Head(s) = a => b \in Range(Tail(s)))
<1>. DEFINE u == Tail(s)
<1>1. /\ u \in Seq(Operations) /\ Head(s) = s[1] /\ Len(s) \in Nat /\ Len(s) >= 1
      /\ Len(u) = Len(s) - 1 /\ \A i \in 1..Len(u) : u[i] = s[i + 1]
  BY Begun
<1>. HIDE DEF u
<1>2. \A i \in 1..Len(u) : i + 1 \in 1..Len(s)  BY <1>1
<1>3. \A j \in 1..Len(s) : j > 1 => j - 1 \in 1..Len(u) /\ u[j - 1] = s[j]
  <2>. TAKE j \in 1..Len(s)
  <2>. HAVE j > 1
  <2>1. j - 1 \in 1..Len(u) /\ (j - 1) + 1 = j  BY <1>1
  <2>. QED  BY <1>1, <2>1
<1>4. ASSUME NEW i \in 1..Len(u), u[i] = a PROVE \E j \in 1..Len(u) : i < j /\ u[j] = b
  <2>1. s[i + 1] = a /\ i + 1 \in 1..Len(s)  BY <1>1, <1>2, <1>4
  <2>2. PICK j \in 1..Len(s) : i + 1 < j /\ s[j] = b  BY <2>1 DEF After
  <2>3. j > 1 /\ i < j - 1  BY <1>1, <2>2
  <2>. QED  BY <1>3, <2>2, <2>3
<1>5. ASSUME Head(s) = a PROVE b \in Range(u)
  <2>1. 1 \in 1..Len(s) /\ s[1] = a  BY <1>1, <1>5
  <2>2. PICK j \in 1..Len(s) : 1 < j /\ s[j] = b  BY <2>1 DEF After
  <2>3. u[j - 1] = b /\ j - 1 \in 1..Len(u)  BY <1>3, <2>2
  <2>. QED  BY <1>1, <2>3, Standing
<1>. QED  BY <1>4, <1>5 DEF After, u

LEMMA HandyTail ==
  ASSUME NEW s, s # <<>>, Handy(s)
  PROVE  Handy(Tail(s)) /\ HandOp(Head(s)) /\ Head(s) \in Operations
<1>1. s \in Seq(Operations)  BY DEF Handy
<1>2. /\ Tail(s) \in Seq(Operations) /\ Head(s) \in Operations
      /\ Range(s) = {Head(s)} \cup Range(Tail(s))
  BY <1>1, Begun
<1>3. Followed(s) => Followed(Tail(s))  BY <1>1, AfterTail DEF Followed
<1>. QED  BY <1>2, <1>3 DEF Handy

LEMMA AfterJoined ==
  ASSUME NEW s \in Seq(Operations), NEW t \in Seq(Operations), NEW a, NEW b,
         After(s, a, b), After(t, a, b)
  PROVE  After(s \o t, a, b)
<1>. DEFINE u == s \o t
<1>1. /\ Len(s) \in Nat /\ Len(t) \in Nat /\ Len(u) = Len(s) + Len(t)
      /\ \A i \in 1..Len(s) : u[i] = s[i]
      /\ \A i \in 1..Len(t) : u[Len(s) + i] = t[i]
  BY Joined
<1>. HIDE DEF u
<1>2. ASSUME NEW i \in 1..Len(u), u[i] = a PROVE \E j \in 1..Len(u) : i < j /\ u[j] = b
  <2>1. CASE i <= Len(s)
    <3>1. i \in 1..Len(s) /\ s[i] = a  BY <1>1, <1>2, <2>1
    <3>2. PICK j \in 1..Len(s) : i < j /\ s[j] = b  BY <3>1 DEF After
    <3>3. j \in 1..Len(u) /\ u[j] = b  BY <1>1, <3>2
    <3>. QED  BY <3>2, <3>3
  <2>2. CASE i > Len(s)
    <3>1. i - Len(s) \in 1..Len(t) /\ Len(s) + (i - Len(s)) = i  BY <1>1, <2>2
    <3>2. t[i - Len(s)] = a  BY <1>1, <1>2, <3>1
    <3>3. PICK j \in 1..Len(t) : i - Len(s) < j /\ t[j] = b  BY <3>1, <3>2 DEF After
    <3>4. Len(s) + j \in 1..Len(u) /\ i < Len(s) + j  BY <1>1, <3>1, <3>3
    <3>. QED  BY <1>1, <3>3, <3>4
  <2>. QED  BY <1>1, <2>1, <2>2
<1>. QED  BY <1>2 DEF After, u

LEMMA HandyJoined ==
  ASSUME NEW s, NEW t, Handy(s), Handy(t)
  PROVE  Handy(s \o t)
<1>1. s \in Seq(Operations) /\ t \in Seq(Operations)  BY DEF Handy
<1>2. s \o t \in Seq(Operations) /\ Range(s \o t) = Range(s) \cup Range(t)  BY <1>1, Joined
<1>3. Followed(s) /\ Followed(t) => Followed(s \o t)  BY <1>1, AfterJoined DEF Followed
<1>. QED  BY <1>2, <1>3 DEF Handy

LEMMA JoinedTail ==
  ASSUME NEW s \in Seq(Operations), NEW t \in Seq(Operations), s # <<>>
  PROVE  Tail(s \o t) = Tail(s) \o t
<1>1. PICK v \in Seq(Operations) : v = Tail(s)  BY Begun
<1>2. /\ Len(s) \in Nat /\ Len(s) >= 1 /\ Len(v) = Len(s) - 1
      /\ \A i \in 1..Len(v) : v[i] = s[i + 1]
  BY <1>1, Begun
<1>3. PICK u \in Seq(Operations) : u = s \o t  BY Joined
<1>4. u # <<>>  BY <1>3, Joined
<1>5. /\ Len(t) \in Nat /\ Len(u) = Len(s) + Len(t)
      /\ \A i \in 1..Len(s) : u[i] = s[i]
  BY <1>3, Joined
<1>6. \A i \in 1..Len(t) : u[Len(s) + i] = t[i]  BY <1>3, Joined
<1>7. PICK w \in Seq(Operations) : w = v \o t  BY Joined
<1>8. Len(w) = Len(v) + Len(t) /\ \A i \in 1..Len(v) : w[i] = v[i]  BY <1>7, Joined
<1>9. \A i \in 1..Len(t) : w[Len(v) + i] = t[i]  BY <1>7, Joined
<1>10. PICK x \in Seq(Operations) : x = Tail(u)  BY <1>4, Begun
<1>11. Len(x) = Len(u) - 1 /\ \A i \in 1..Len(x) : x[i] = u[i + 1]  BY <1>4, <1>10, Begun
<1>12. ASSUME NEW i \in 1..Len(w) PROVE u[i + 1] = w[i]
  <2>1. CASE i <= Len(v)
    <3>1. i \in 1..Len(v) /\ i + 1 \in 1..Len(s)  BY ONLY <1>2, <2>1, i \in 1..Len(w)
    <3>. QED  BY <1>2, <1>5, <1>8, <3>1
  <2>2. CASE i > Len(v)
    <3>1. PICK j \in 1..Len(t) : Len(v) + j = i /\ Len(s) + j = i + 1
      <4>1. i - Len(v) \in 1..Len(t)
        BY ONLY <1>2, <1>5, <1>8, <2>2, i \in 1..Len(w)
      <4>2. Len(v) + (i - Len(v)) = i /\ Len(s) + (i - Len(v)) = i + 1
        BY ONLY <1>2, i \in 1..Len(w)
      <4>. QED  BY ONLY <4>1, <4>2
    <3>2. u[i + 1] = t[j]  BY <1>6, <3>1
    <3>3. w[i] = t[j]  BY <1>9, <3>1
    <3>. QED  BY <3>2, <3>3
  <2>. QED  BY ONLY <1>2, <2>1, <2>2, i \in 1..Len(w)
<1>13. Len(x) = Len(w)  BY ONLY <1>2, <1>5, <1>8, <1>11
<1>14. \A i \in 1..Len(x) : x[i] = w[i]  BY <1>11, <1>12, <1>13
<1>15. x = w  BY <1>13, <1>14, SeqEqual
<1>. QED  BY <1>1, <1>3, <1>7, <1>10, <1>15

LEMMA HandyPlain ==
  ASSUME NEW s \in Seq(Operations),
         \A op \in Range(s) :
           \/ op[1] = "uswitch"
           \/ op[1] = "pin" /\ op[2] \in {"usb1_5v", "usb2_5v"}
           \/ op[1] = "ext" /\ (op[2] = "DISP_RESET_N" => op[3] = TRUE)
  PROVE  Handy(s)
<1>1. \A op \in Range(s) : HandOp(op)  BY DEF HandOp
<1>2. \A p \in Lines : gpio_put(p, FALSE) \notin Range(s)  BY DisableParts DEF Lines
<1>3. gpio_ext_disable("DISP_RESET_N") \notin Range(s)  BY DisableParts
<1>. QED  BY <1>1, <1>2, <1>3, AfterAbsent DEF Handy, Followed

LEMMA HandyPort ==
  ASSUME NEW s, PortOps(s)
  PROVE  Handy(s)
BY HandyPlain DEF PortOps, PortOp

LEMMA HandyDisplay ==
  ASSUME board \in 1..2, mb_version = board, NEW bit \in ExtBits, NEW pin \in Lines,
         NEW high \in BOOLEAN, bit = "DISP_RESET_N" => pin = "DISP_RESET_N"
  PROVE  Handy(Display(bit, pin, high))
<1>1. CASE board = 2
  <2>. DEFINE e == <<"ext", bit, high>>
  <2>1. e \in Operations /\ e[1] = "ext"  BY Operands
  <2>2. Display(bit, pin, high) = <<e>>
    <3>1. ~(mb_version < 2)  BY <1>1
    <3>. QED  BY Zenon, <3>1 DEF Display
  <2>. HIDE DEF e
  <2>3. <<e>> \in Seq(Operations) /\ Range(<<e>>) = {e}  BY <2>1, OneOf
  <2>. QED  BY <1>1, <2>1, <2>2, <2>3 DEF Handy, HandOp
<1>2. CASE board = 1
  <2>. DEFINE a == gpio_put(pin, high)  z == gpio_put(Latch, FALSE)
  <2>1. /\ a \in Operations /\ LatchOn \in Operations /\ z \in Operations
        /\ a[1] = "pin" /\ a[2] = pin /\ z[1] = "pin" /\ z[2] = "usb2_5v"
        /\ LatchOn[1] = "pin" /\ LatchOn[2] = "usb2_5v"
    BY Operands, NamesOK DEF Lines, LatchOn, gpio_put, Latch
  <2>2. Display(bit, pin, high) = <<a, LatchOn, z>>
    <3>1. mb_version < 2  BY <1>2
    <3>. QED  BY Zenon, <3>1 DEF Display, LatchOn
  <2>. HIDE DEF a, z
  <2>3. <<a, LatchOn, z>> \in Seq(Operations) /\ Range(<<a, LatchOn, z>>) = {a, LatchOn, z}
    BY ONLY <2>1, ThreeOf
  <2>4. \A op \in {a, LatchOn, z} : HandOp(op)  BY <1>2, <2>1 DEF HandOp
  <2>5. ASSUME NEW p \in Lines PROVE After(<<a, LatchOn, z>>, gpio_put(p, FALSE), LatchOn)
    <3>1. PICK x : x = gpio_put(p, FALSE)  OBVIOUS
    <3>2. x # LatchOn /\ x # z
      <4>1. x[2] \in Lines  BY <3>1, DisableParts
      <4>. QED  BY <2>1, <4>1 DEF Lines
    <3>3. After(<<a, LatchOn, z>>, x, LatchOn)  BY <3>2 DEF After
    <3>. QED  BY <3>1, <3>3
  <2>6. gpio_ext_disable("DISP_RESET_N") \notin {a, LatchOn, z}
    BY <2>1, DisableParts
  <2>7. After(<<a, LatchOn, z>>, gpio_ext_disable("DISP_RESET_N"), Wake)
    BY <2>3, <2>6, AfterAbsent
  <2>8. Followed(<<a, LatchOn, z>>)  BY <2>5, <2>7 DEF Followed
  <2>. QED  BY <2>2, <2>3, <2>4, <2>8 DEF Handy
<1>. QED  BY <1>1, <1>2

LEMMA HandyWake ==
  ASSUME board \in 1..2
  PROVE  Handy(som_wake)
<1>. DEFINE a == gpio_ext_disable("DISP_RESET_N")
<1>1. /\ a \in Operations /\ Wake \in Operations /\ a[1] = "ext" /\ a[3] = FALSE
      /\ Wake[1] = "ext" /\ Wake[3] = TRUE
  BY Operands, NamesOK DEF Wake, gpio_ext_enable, gpio_ext_disable
<1>2. som_wake = <<a, Wake>>  BY Zenon DEF som_wake, Wake
<1>. HIDE DEF a
<1>3. <<a, Wake>> \in Seq(Operations) /\ Range(<<a, Wake>>) = {a, Wake}  BY ONLY <1>1, TwoOf
<1>4. a # Wake  BY <1>1
<1>5. After(<<a, Wake>>, a, Wake)  BY <1>4 DEF After
<1>6. \A p \in Lines : gpio_put(p, FALSE) \notin {a, Wake}  BY <1>1, DisableParts
<1>7. Followed(<<a, Wake>>)  BY <1>3, <1>5, <1>6, AfterAbsent DEF Followed, a
<1>. QED  BY <1>1, <1>2, <1>3, <1>7 DEF Handy, HandOp

LEMMA HandySuspend == Handy(hwapi_soc_pre_suspend) /\ Handy(hwapi_soc_post_suspend)
<1>. DEFINE ok(op) == op \in Operations /\ op[1] = "ext" /\ (op[2] = "DISP_RESET_N" => op[3] = TRUE)
<1>1. \A b \in {"3V3", "HUB_PWR", "DISP_BL_PWR"} : ok(gpio_ext_disable(b)) /\ ok(gpio_ext_enable(b))
  BY Operands, NamesOK DEF gpio_ext_enable, gpio_ext_disable
<1>. HIDE DEF ok
<1>2. ASSUME NEW a, NEW b, NEW c, ok(a), ok(b), ok(c) PROVE Handy(<<a, b, c>>)
  <2>1. <<a, b, c>> \in Seq(Operations) /\ Range(<<a, b, c>>) = {a, b, c}
    <3>1. a \in Operations /\ b \in Operations /\ c \in Operations  BY <1>2 DEF ok
    <3>. QED  BY ONLY <3>1, ThreeOf
  <2>. QED  BY <1>2, <2>1, HandyPlain DEF ok
<1>. QED  BY <1>1, <1>2 DEF hwapi_soc_pre_suspend, hwapi_soc_post_suspend

(* All commands but power off and on.                                      *)
LEMMA HandyPrograms ==
  ASSUME board \in 1..2, mb_version = board, NEW c \in Commands \ PowerCommands
  PROVE  Handy(Program(c))
<1>1. CASE c = <<"1w">>  BY <1>1, HandyWake DEF Program
<1>2. CASE c \in {<<"soc-susp">>, <<"soc-psus">>}  BY <1>2, HandySuspend DEF Program
<1>3. CASE c \in {<<"usb-sc">>, <<"usb-host">>, <<"usb-edl">>}
  <2>1. /\ PortOps(set_usb_mode(0, 0)) /\ PortOps(set_usb_mode(1, 0)) /\ PortOps(set_usb_mode(0, 1))
        /\ PortOps(set_usb_mode(1, 1)) /\ PortOps(set_usb_mode(1, 2))
    BY UsbOps DEF Garbage
  <2>2. /\ Handy(set_usb_mode(0, 0) \o set_usb_mode(1, 0))
        /\ Handy(set_usb_mode(0, 1) \o set_usb_mode(1, 1))
        /\ Handy(set_usb_mode(0, 0) \o set_usb_mode(1, 2))
    BY <2>1, PortOpsJoined, HandyPort
  <2>. QED  BY <1>3, <2>2 DEF Program
<1>4. ASSUME NEW id \in GpioIds, NEW high \in BOOLEAN, c = <<"set-gpio", id, high>>
      PROVE  Handy(Program(c))
  <2>1. Program(c) = hwapi_set_gpio(id, high)  BY <1>4 DEF Program
  <2>2. CASE id \in {0, 9}
    <3>1. /\ Handy(Display("DISP_RESET_N", "DISP_RESET_N", high))
          /\ Handy(Display("DISP_1EN_2BL", "DISP_EN", high))
      BY HandyDisplay, NamesOK DEF Lines
    <3>. QED  BY <2>1, <2>2, <3>1 DEF hwapi_set_gpio
  <2>3. CASE id \in {1, 2, 3, 4, 5}
    <3>. DEFINE e(b) == <<"ext", b, high>>
    <3>1. ASSUME NEW b \in ExtBits \ {"DISP_RESET_N"} PROVE Handy(<<e(b)>>)
      <4>1. e(b) \in Operations /\ e(b)[1] = "ext" /\ e(b)[2] = b  BY Operands
      <4>. HIDE DEF e
      <4>2. <<e(b)>> \in Seq(Operations) /\ Range(<<e(b)>>) = {e(b)}  BY <4>1, OneOf
      <4>. QED  BY <4>1, <4>2, HandyPlain
    <3>2. {"HUB_PWR", "PCIE_PWR", "3V3", "USWITCH_OFF", "DISP_BL_PWR"} \subseteq ExtBits \ {"DISP_RESET_N"}
      BY DEF ExtBits
    <3>3. \E b \in {"HUB_PWR", "PCIE_PWR", "3V3", "USWITCH_OFF", "DISP_BL_PWR"} :
            hwapi_set_gpio(id, high) = <<e(b)>>
      BY <2>3 DEF hwapi_set_gpio
    <3>. HIDE DEF e
    <3>. QED  BY <2>1, <3>1, <3>2, <3>3
  <2>4. CASE id = 7
    <3>1. hwapi_set_gpio(id, high) = <<usb_host_5v_set(high)>>  BY <2>4 DEF hwapi_set_gpio
    <3>2. PICK h : h = usb_host_5v_set(high)  OBVIOUS
    <3>3. h \in Operations /\ h[1] = "pin" /\ h[2] \in {"usb1_5v", "usb2_5v"}
      BY <3>2, Operands, NamesOK DEF usb_host_5v_set, gpio_put
    <3>4. <<h>> \in Seq(Operations) /\ Range(<<h>>) = {h}  BY <3>3, OneOf
    <3>5. Handy(<<h>>)  BY <3>3, <3>4, HandyPlain
    <3>. QED  BY <2>1, <3>1, <3>2, <3>5
  <2>. QED  BY <2>2, <2>3, <2>4 DEF GpioIds
<1>. QED  BY <1>1, <1>2, <1>3, <1>4 DEF Commands, PowerCommands

-----------------------------------------------------------------------------
(* Between power commands the rails of a SOM that is off are low, but for  *)
(* what has been switched on by hand, is being switched on (its shadow is  *)
(* stored), or is to be latched low or raised to wake the SOM by the rest  *)
(* of a command: the main program's, or that of one which the SOM has sent *)
(* along with the one that switched it off, followed by the main program's.*)
Rising(s, r) == phase = "stored" /\ Head(s)[1] = "ext" /\ Head(s)[2] = r /\ Head(s)[3] = TRUE

LowExt(s) == \A r \in ExtBits :
  /\ r \in shadow.ext => r \in byhand \/ Rising(s, r)
  /\ lost.ext = 0 /\ r \in chip.ext => r \in byhand

LowPins(s) ==
  /\ \A r \in LatchedPins \ Lines : r \notin pins \cup latched
  /\ \A r \in Lines :
       \/ r \in byhand
       \/ r = "DISP_RESET_N" /\ Wake \in Range(s)
       \/ r \notin pins /\ (r \notin latched \/ LatchOn \in Range(s))

Low(s) == (board = 2 => LowExt(s)) /\ (board = 1 => LowPins(s))

OffAims ==
  /\ cmd = <<"0p">> => (Deaf \/ Sweeps(main)) /\ (~disturbed => Sweeping(main))
  /\ cmd = <<"boot">> => \/ Toward(main, TRUE) \/ Sweeping(main)
                         \/ \E w \in BOOLEAN : main = Version(w)
  /\ spi_cmd = <<"0p">> => Sweeping(isr)

HandAims ==
  /\ cmd \notin Switching => Handy(main)
  /\ isr # <<>> /\ spi_cmd \notin Switching => Handy(isr)

OffLow ==
  ~torn /\ cmd \notin Switching /\ spi_cmd \notin PowerCommands /\ ~som_is_powered
    => IF isr = <<>> THEN Low(main) ELSE Low(isr \o main)

OffKnown == OffAims /\ HandAims /\ OffLow

OffInv == mb_version = board => OffKnown

LEMMA SweptLow ==
  ASSUME board' \in 1..2, Sweeping(<<>>)', NEW s
  PROVE  Low(s)'
<1>1. Range(<<>>) = {}  BY DEF Range
<1>2. board' = 2 => \A r \in ExtBits : RailOff(r)'  BY <1>1 DEF Sweeping
<1>3. board' = 1 => \A r \in LatchedPins : RailOff(r)'  BY <1>1 DEF Sweeping
<1>4. Lines \subseteq LatchedPins  BY DEF Lines, LatchedPins
<1>. QED  BY <1>2, <1>3, <1>4 DEF Low, LowExt, LowPins, RailOff

LEMMA RecordedParts ==
  ASSUME NEW op \in Operations, NEW c, c \notin Switching, Recorded(op, c), HandOp(op)
  PROVE  /\ \A x : x # op[2] => (x \in byhand' <=> x \in byhand)
         /\ op[1] # "uswitch" /\ op[3] = TRUE => op[2] \in byhand'
<1>1. op[3] \in BOOLEAN  BY FlagOps
<1>2. ByHand(op, c) <=> op[1] # "uswitch" /\ op[3] = TRUE
  BY <1>1 DEF ByHand, Switching
<1>. QED  BY <1>2 DEF Recorded

(* They are not less low for what else there is still to do.               *)
LEMMA LowMore ==
  ASSUME NEW s, NEW t, Low(s), Range(s) \subseteq Range(t), phase = "none",
         UNCHANGED <<board, phase, shadow, chip, lost, pins, latched, byhand>>
  PROVE  Low(t)'
BY DEF Low, LowExt, LowPins, Rising

(* A command's next operation keeps them so.                               *)
LEMMA LowStep ==
  ASSUME OutputsTyped, board \in 1..2, NEW s, s # <<>>, Handy(s), Low(s), Moved(Head(s)),
         NEW c, c \notin Switching, Recorded(Head(s), c), phase' = "none"
  PROVE  Low(Tail(s))'
<1>. DEFINE op == Head(s)  u == Tail(s)
<1>1. /\ s \in Seq(Operations) /\ op \in Operations /\ HandOp(op) /\ board' = board
      /\ Range(s) = {op} \cup Range(u) /\ op[3] \in BOOLEAN
  BY HandyTail, Begun, FlagOps DEF Handy, Moved
<1>2. /\ \A x : x # op[2] => (x \in byhand' <=> x \in byhand)
      /\ op[1] # "uswitch" /\ op[3] = TRUE => op[2] \in byhand'
  BY <1>1, RecordedParts
<1>3. Moved(op)  OBVIOUS
<1>4. board = 1 => Followed(s)  BY DEF Handy
<1>5. \A a, b : After(s, a, b) => (op = a => b \in Range(u))  BY <1>1, AfterTail
<1>6. \A r : Rising(s, r) => op[1] = "ext" /\ op[2] = r  BY DEF Rising
<1>7. (board = 2 => LowExt(s)) /\ (board = 1 => LowPins(s))  BY DEF Low
<1>. HIDE DEF op, u
<1>8. ASSUME board = 2, NEW r \in ExtBits
      PROVE  (r \in shadow'.ext => r \in byhand') /\ (lost'.ext = 0 /\ r \in chip'.ext => r \in byhand')
  <2>1. /\ r \in shadow.ext => r \in byhand \/ Rising(s, r)
        /\ lost.ext = 0 /\ r \in chip.ext => r \in byhand
    BY <1>7, <1>8 DEF LowExt
  <2>2. CASE op[1] = "ext"
    <3>1. shadow'.ext = With(shadow.ext, op[2], op[3])  BY <1>3, <1>8, <2>2 DEF Moved
    <3>2. r \in shadow'.ext => r \in byhand'
      <4>1. CASE r = op[2]
        <5>1. r \in shadow'.ext => op[3] = TRUE  BY <1>1, <3>1, <4>1 DEF With
        <5>. QED  BY <1>2, <2>2, <4>1, <5>1
      <4>2. CASE r # op[2]
        <5>1. r \in shadow'.ext => r \in shadow.ext  BY <3>1, <4>2 DEF With
        <5>. QED  BY <1>2, <1>6, <2>1, <4>2, <5>1
      <4>. QED  BY <4>1, <4>2
    <3>3. lost'.ext = 0 => chip'.ext = shadow'.ext  BY <1>3, <1>8, <2>2 DEF Moved
    <3>. QED  BY <3>2, <3>3
  <2>3. CASE op[1] # "ext"
    <3>1. shadow'.ext = shadow.ext /\ chip'.ext = chip.ext /\ lost'.ext = lost.ext
      BY <1>3, <1>8, <2>3 DEF Moved
    <3>2. op[2] \notin ExtBits
      <4>1. CASE op[1] = "pin"
        BY <1>1, <1>8, <4>1 DEF HandOp, ExtBits
      <4>2. CASE op[1] = "uswitch"
        BY <1>1, <4>2, ExpanderOps DEF Expander, Bits, ExtBits, UswitchBits
      <4>. QED  BY <1>1, <2>3, <4>1, <4>2 DEF HandOp
    <3>3. r # op[2]  BY <3>2
    <3>. QED  BY <1>2, <1>6, <2>1, <2>3, <3>1, <3>3
  <2>. QED  BY <2>2, <2>3
<1>9. ASSUME board = 1 PROVE LowPins(u)'
  <2>1. /\ pins' = IF op[1] = "pin" THEN With(pins, op[2], op[3]) ELSE pins
        /\ latched' = latched \/ latched' = pins' \cap LatchedPins
        /\ op = LatchOn => latched' = pins' \cap LatchedPins
    BY <1>3, <1>9 DEF Moved
  <2>2. op[1] = "pin" => op[2] \in {"usb1_5v", "usb2_5v"} \cup Lines
    BY <1>1, <1>9 DEF HandOp
  <2>3. \A r : r # op[2] => (r \in pins' <=> r \in pins)  BY <2>1 DEF With
  <2>4. ASSUME NEW r \in LatchedPins \ Lines PROVE r \notin pins' \cup latched'
    <3>1. r \notin pins \cup latched  BY <1>7, <1>9 DEF LowPins
    <3>2. op[1] = "pin" => r # op[2]  BY <2>2 DEF LatchedPins
    <3>3. r \notin pins'  BY <2>1, <2>3, <3>1, <3>2
    <3>. QED  BY <2>1, <3>1, <3>3
  <2>5. ASSUME NEW r \in Lines
        PROVE  \/ r \in byhand'
               \/ r = "DISP_RESET_N" /\ Wake \in Range(u)
               \/ r \notin pins' /\ (r \notin latched' \/ LatchOn \in Range(u))
    <3>1. \/ r \in byhand
          \/ r = "DISP_RESET_N" /\ Wake \in Range(s)
          \/ r \notin pins /\ (r \notin latched \/ LatchOn \in Range(s))
      BY <1>7, <1>9 DEF LowPins
    <3>2. CASE op[2] = r /\ op[3] = TRUE
      <4>1. op[1] # "uswitch"
        BY <1>1, <3>2, ExpanderOps DEF Expander, Bits, UswitchBits, Lines
      <4>. QED  BY <1>2, <3>2, <4>1
    <3>3. CASE op[2] = r /\ op[3] = FALSE /\ op[1] = "pin"
      <4>1. op = gpio_put(r, FALSE)  BY Zenon, <1>1, <3>3, FlagOps
      <4>2. LatchOn \in Range(u)  BY <1>4, <1>5, <1>9, <4>1 DEF Followed
      <4>3. r \notin pins'  BY <2>1, <3>3 DEF With
      <4>. QED  BY <4>2, <4>3
    <3>4. CASE op[2] = r /\ op[3] = FALSE /\ op[1] # "pin"
      <4>1. op[1] = "ext"
        BY <1>1, <3>4, ExpanderOps DEF HandOp, Expander, Bits, UswitchBits, Lines
      <4>2. r = "DISP_RESET_N"
        BY <1>1, <3>4, <4>1, ExpanderOps DEF Expander, Bits, ExtBits, Lines
      <4>3. op = <<"ext", op[2], op[3]>>  BY <1>1, <4>1, FlagOps
      <4>4. op = gpio_ext_disable("DISP_RESET_N")
        BY Zenon, <3>4, <4>2, <4>3 DEF gpio_ext_disable
      <4>. QED  BY <1>4, <1>5, <1>9, <4>2, <4>4 DEF Followed
    <3>5. CASE op[2] # r
      <4>1. r \in byhand => r \in byhand'  BY <1>2, <3>5
      <4>2. r = "DISP_RESET_N" /\ Wake \in Range(s) => Wake \in Range(u)
        <5>1. Wake[2] = "DISP_RESET_N"  BY DEF Wake, gpio_ext_enable
        <5>. QED  BY <1>1, <3>5, <5>1
      <4>3. r \notin pins => r \notin pins'  BY <2>3, <3>5
      <4>4. r \notin pins /\ (r \notin latched \/ LatchOn \in Range(s))
              => r \notin latched' \/ LatchOn \in Range(u)
        BY <1>1, <2>1, <4>3
      <4>. QED  BY <3>1, <4>1, <4>2, <4>3, <4>4
    <3>. QED  BY <1>1, <3>2, <3>3, <3>4, <3>5
  <2>. QED  BY <2>4, <2>5 DEF LowPins
<1>10. Low(u)'  BY <1>1, <1>8, <1>9 DEF Low, LowExt
<1>. QED  BY <1>10 DEF u

-----------------------------------------------------------------------------
(* The steps of the main program.                                          *)
LEMMA OffNext ==
  ASSUME NEW t
  PROVE  /\ main' = t /\ Sweeping(t)' => Sweeping(main)'
         /\ isr' = t /\ Sweeping(t)' => Sweeping(isr)'
         /\ main' = t /\ Sweeps(t)' => Sweeps(main)'
         /\ main' = t /\ Low(t)' => Low(main)'
         /\ main' = t /\ Handy(t)' => Handy(main)'
         /\ isr' = t /\ Handy(t)' => Handy(isr)'
<1>1. /\ main' = t /\ Sweeping(t)' => Sweeping(main)'
      /\ isr' = t /\ Sweeping(t)' => Sweeping(isr)'
  BY DEF Sweeping, RailOff
<1>2. main' = t /\ Sweeps(t)' => Sweeps(main)'  BY DEF Sweeps
<1>3. main' = t /\ Low(t)' => Low(main)'  BY DEF Low, LowExt, LowPins, Rising
<1>4. /\ main' = t /\ Handy(t)' => Handy(main)'
      /\ isr' = t /\ Handy(t)' => Handy(isr)'
  BY DEF Handy, HandOp
<1>. QED  BY <1>1, <1>2, <1>3, <1>4

LEMMA JoinedLow ==
  ASSUME NEW s, NEW t, isr' = s, main' = t, Low(s \o t)'
  PROVE  Low(isr \o main)'
BY DEF Low, LowExt, LowPins, Rising

LEMMA OffStays ==
  ASSUME board' = board, NEW t
  PROVE  /\ Sweeps(t) => Sweeps(t)' /\ Sweeping(t)'
         /\ Handy(t) => Handy(t)'
         /\ Handy(<<>>)'
<1>1. Sweeps(t) => Sweeps(t)'  BY DEF Sweeps
<1>2. Sweeps(t)' => Sweeping(t)'  BY DEF Sweeps, Sweeping
<1>3. Handy(t) => Handy(t)'  BY DEF Handy, HandOp
<1>4. Handy(<<>>)'
  <2>1. <<>> \in Seq(Operations) /\ Range(<<>>) = {}  BY DEF Range
  <2>2. \A a, b : After(<<>>, a, b)  BY <2>1, AfterAbsent
  <2>3. Followed(<<>>)  BY <2>2 DEF Followed
  <2>. QED  BY <2>1, <2>3 DEF Handy
<1>. QED  BY <1>1, <1>2, <1>3, <1>4

LEMMA HandyRest ==
  ASSUME NEW s, s # <<>>, Handy(s), NEW t \in Rest(s)
  PROVE  t = Tail(s) /\ Handy(t)
<1>1. HandOp(Head(s)) /\ Handy(Tail(s))  BY HandyTail
<1>2. Head(s)[1] \notin {"pulse", "version", "usb_default"}  BY <1>1 DEF HandOp
<1>3. t = Tail(s)  BY ONLY <1>2, t \in Rest(s) DEF Rest
<1>. QED  BY <1>1, <1>3

LEMMA MainMovesHand ==
  ASSUME SomInv, OffKnown, isr = <<>>, spi_cmd # More, main # <<>>, MainMoves,
         FlagsSway(Head(main)) \/ (UNCHANGED som_is_powered /\ Expander(Head(main)))
  PROVE  /\ (cmd' = <<"0p">> => Deaf') /\ HandAims' /\ spi_cmd' = <<"none">>
         /\ cmd \notin Switching => main' = Tail(main)
<1>1. SomTyped /\ Kinds /\ OffFirst /\ Alone  BY DEF SomInv, SomSafe
<1>2. cmd' = <<"0p">> => Deaf'  BY <1>1, DeafStays
<1>3. PICK s, c, t : s = main /\ c = cmd /\ t = main'  OBVIOUS
<1>4. t \in Rest(s) /\ s # <<>> /\ board' = board  BY <1>3 DEF MainMoves
<1>5. ASSUME c \notin Switching PROVE t = Tail(s) /\ Handy(t)
  <2>1. Handy(s)  BY <1>3, <1>5 DEF OffKnown, HandAims
  <2>. QED  BY <1>4, <2>1, HandyRest
<1>6. ASSUME c \in Switching, cmd' \notin Switching PROVE t = <<>>
  BY <1>3, <1>6 DEF MainMoves
<1>7. c \in Switching \/ c \notin Switching  OBVIOUS
<1>8. cmd' \notin Switching => Handy(t)'
  BY <1>4, <1>5, <1>6, <1>7, OffStays
<1>9. HandAims'
  <2>1. isr' = <<>>  BY DEF MainMoves, isr_vars
  <2>. QED  BY <1>3, <1>8, <2>1, OffNext DEF HandAims
<1>10. spi_cmd' = <<"none">>  BY <1>1 DEF Alone, MainMoves, isr_vars
<1>. QED  BY <1>2, <1>3, <1>5, <1>9, <1>10

LEMMA MainMovesTorn ==
  ASSUME SomInv, OffKnown, isr = <<>>, spi_cmd # More, main # <<>>, MainMoves, disturbed,
         FlagsSway(Head(main)) \/ (UNCHANGED som_is_powered /\ Expander(Head(main)))
  PROVE  OffKnown'
<1>1. /\ cmd' = <<"0p">> => Deaf'
      /\ HandAims' /\ spi_cmd' = <<"none">>
  BY MainMovesHand
<1>2. Alone  BY DEF SomInv, SomSafe
<1>3. /\ cmd' = IF main' = <<>> THEN <<"none">> ELSE cmd
      /\ torn' = IF main' = <<>> /\ cmd \in Switching THEN disturbed ELSE torn
      /\ disturbed' = (disturbed /\ main' # <<>>)
  BY DEF MainMoves, Switching
<1>4. torn'  BY <1>2, <1>3 DEF Alone
<1>5. cmd' \in Switching => disturbed'  BY <1>3, CommandsDiffer
<1>6. cmd' # <<"boot">>  BY <1>2, <1>3, CommandsDiffer DEF Alone, Switching
<1>7. OffAims'
  BY <1>1, <1>5, <1>6, CommandsDiffer DEF OffAims, Switching, PowerCommands
<1>. QED  BY <1>1, <1>4, <1>7 DEF OffKnown, OffLow

(* Undisturbed, it completes an operation.                                 *)
LEMMA MainMovesOff ==
  ASSUME SomInv, mb_version = board, OffKnown, isr = <<>>, spi_cmd # More, main # <<>>, MainMoves, ~disturbed,
         Moved(Head(main)), Effect(Head(main)), phase' = "none",
         cmd \notin Switching => Recorded(Head(main), cmd)
  PROVE  OffKnown'
<1>1. /\ SomTyped /\ Kinds /\ OffFirst /\ Alone /\ OutputsTyped /\ board \in 1..2
      /\ main \in Seq(Operations) /\ Kind(main, cmd) /\ Known
  BY DEF SomInv, SomSafe, SomTyped, FlagsTyped, ProgramsTyped, Kinds
<1>2. /\ main' \in Rest(main) /\ board' = board /\ isr' = isr
      /\ cmd' = IF main' = <<>> THEN <<"none">> ELSE cmd
      /\ torn' = IF main' = <<>> /\ cmd \in Switching THEN disturbed ELSE torn
      /\ disturbed' = (disturbed /\ main' # <<>>)
  BY DEF MainMoves, Switching, isr_vars
<1>3. Sways(Head(main)) /\ FlagsSway(Head(main))  BY DEF Effect, Sways, FlagsSway
<1>4. /\ cmd' = <<"0p">> => Deaf'
      /\ HandAims' /\ spi_cmd' = <<"none">>
      /\ cmd \notin Switching => main' = Tail(main)
  BY <1>3, MainMovesHand
<1>5. PICK s, c, t : s = main /\ c = cmd /\ t = main'  OBVIOUS
<1>6. /\ s \in Seq(Operations) /\ s # <<>> /\ Kind(s, c) /\ t \in Rest(s) /\ Effect(Head(s))
      /\ Sways(Head(s)) /\ Moved(Head(s)) /\ main' = t
      /\ (c \notin Switching => t = Tail(s) /\ Recorded(Head(s), c))
  BY <1>1, <1>2, <1>3, <1>4, <1>5
<1>7. ASSUME Sweeping(s) PROVE Sweeping(t)'  BY <1>1, <1>6, <1>7, SweepingRest
<1>8. c = <<"0p">> => Sweeping(s)  BY <1>5 DEF OffKnown, OffAims
<1>9. c = <<"boot">> => Toward(s, TRUE) \/ Sweeping(s) \/ \E w \in BOOLEAN : s = Version(w)
  BY Zenon, <1>5 DEF OffKnown, OffAims
<1>10. ASSUME NEW w \in BOOLEAN, s = Version(w)
       PROVE  t # <<>> /\ (Toward(t, TRUE)' \/ Sweeping(t)')
  <2>1. Head(s) = <<"version", "board", w>>  BY <1>10 DEF Version
  <2>2. t = Setup(w)  BY <1>6, <2>1 DEF Rest
  <2>3. t # <<>>  BY <2>2, SetupTyped
  <2>4. CASE w = TRUE
    <3>1. Toward(t, TRUE)  BY <1>1, <2>2, <2>4, SetupKind
    <3>2. Head(s)[2] \notin Targets  BY <2>1 DEF Targets
    <3>. QED  BY <1>1, <1>6, <2>3, <3>1, <3>2, QuietHolds
  <2>5. CASE w = FALSE
    <3>1. Sweeps(t)  BY Zenon, <1>1, <2>2, <2>5, SweepsSetup
    <3>. QED  BY <1>2, <2>3, <3>1, OffStays
  <2>. QED  BY <2>4, <2>5
<1>11. Toward(s, TRUE) => Toward(t, TRUE)'  BY <1>1, <1>6, TowardRest
<1>12. c = <<"boot">> => Toward(t, TRUE)' \/ Sweeping(t)'  BY <1>7, <1>9, <1>10, <1>11
<1>13. OffAims'
  <2>1. cmd' \in Switching => cmd' = c  BY <1>2, <1>5, CommandsDiffer
  <2>2. cmd' = <<"0p">> => Sweeping(main)'
    BY <1>6, <1>7, <1>8, <2>1, OffNext DEF Switching, PowerCommands
  <2>3. cmd' = <<"boot">> => Toward(main, TRUE)' \/ Sweeping(main)'
    BY <1>6, <1>12, <2>1, OffNext, Renamed DEF Switching
  <2>. QED  BY <1>4, <2>2, <2>3, CommandsDiffer DEF OffAims, PowerCommands
<1>14. ASSUME ~torn', cmd' \notin Switching, ~som_is_powered' PROVE Low(main)'
  <2>1. CASE c \notin Switching
    <3>1. Head(s)[2] \notin Targets  BY <1>6, <2>1, KindHead
    <3>2. som_is_powered' = som_is_powered  BY <1>6, <3>1 DEF Sways, Targets
    <3>3. spi_cmd \notin PowerCommands  BY <1>1, CommandsDiffer DEF Alone, Switching
    <3>4. Low(s) /\ Handy(s)
      BY <1>2, <1>5, <1>14, <2>1, <3>2, <3>3 DEF OffKnown, OffLow, HandAims
    <3>5. Low(Tail(s))'  BY <1>1, <1>6, <2>1, <3>4, LowStep
    <3>. QED  BY <1>6, <2>1, <3>5, OffNext
  <2>2. CASE c \in Switching
    <3>1. t = <<>>  BY <1>2, <1>5, <1>14, <2>2
    <3>2. ~Toward(t, TRUE)'
      <4>. SUFFICES ASSUME Toward(t, TRUE)' PROVE FALSE  OBVIOUS
      <4>1. Shows(TRUE)'  BY <1>1, <1>2, <3>1, TowardEnd
      <4>. QED  BY <1>14, <4>1 DEF Shows
    <3>3. c = <<"1p">> => Toward(s, TRUE)
      BY Zenon, <1>1, <1>5 DEF Known, MainAims
    <3>4. Sweeping(t)'
      BY <1>7, <1>8, <1>11, <1>12, <2>2, <3>2, <3>3 DEF Switching, PowerCommands
    <3>5. Low(t)'  BY <1>1, <1>2, <3>1, <3>4, SweptLow
    <3>. QED  BY <1>6, <3>5, OffNext
  <2>. QED  BY <2>1, <2>2
<1>15. OffLow'
  <2>1. isr' = <<>>  BY <1>2
  <2>. QED  BY <1>14, <2>1 DEF OffLow
<1>. QED  BY <1>4, <1>13, <1>15 DEF OffKnown

LEMMA MainDoesOff == ASSUME SomInv, OffInv, MainDoes PROVE OffInv'
<1>. DEFINE op == Head(main)
<1>1. /\ isr = <<>> /\ spi_cmd # More /\ main # <<>> /\ ~Expander(op) /\ Do(op, cmd) /\ MainMoves
      /\ phase' = phase /\ isr' = <<>>
  BY DEF MainDoes, Handling, Busy, MainMoves, isr_vars
<1>2. /\ SomTyped /\ Kinds /\ OffFirst /\ Alone /\ OutputsTyped /\ board \in 1..2
      /\ main \in Seq(Operations) /\ op \in Operations /\ Kind(main, cmd) /\ board' = board
      /\ (mb_version = board => OffKnown)
  BY <1>1, Begun DEF SomInv, SomSafe, SomTyped, ProgramsTyped, FlagsTyped, Kinds, MainMoves, OffInv
<1>3. phase' = "none"  BY <1>1 DEF SomInv, SomTyped, ProgramsTyped
<1>4. ASSUME op[2] # "ext", mb_version' = board' PROVE OffKnown'
  <2>1. Effect(op) /\ mb_version' = mb_version /\ Moved(op)
    BY <1>1, <1>2, <1>4, DoEffect, DoMoved
  <2>2. OffKnown /\ mb_version = board  BY <1>2, <1>4, <2>1
  <2>3. FlagsSway(op)  BY <2>1 DEF Effect, Sways, FlagsSway
  <2>4. ASSUME cmd \notin Switching PROVE Recorded(op, cmd)
    <3>1. HandOp(op)  BY <1>1, <2>2, <2>4, HandyTail DEF OffKnown, HandAims
    <3>2. op[1] = "pin"  BY <1>1, <3>1 DEF HandOp, Expander
    <3>3. \A f \in {"som_is_powered", "boot_magic", "irq"} : op # Flag(f, op[3])
      BY <3>2 DEF Flag
    <3>. QED  BY <1>1, <3>2, <3>3 DEF Do
  <2>5. CASE disturbed  BY <1>1, <2>2, <2>3, <2>5, MainMovesTorn
  <2>6. CASE ~disturbed  BY <1>1, <1>3, <2>1, <2>2, <2>4, <2>6, MainMovesOff
  <2>. QED  BY <2>5, <2>6
<1>5. CASE op[2] = "ext"
  <2>1. PICK s, c, t : s = main /\ c = cmd /\ t = main'  OBVIOUS
  <2>2. c = <<"boot">> /\ \E w \in BOOLEAN : s = Boot(w)
    BY <1>1, <1>2, <1>5, <2>1, KindHead
  <2>3. PICK w \in BOOLEAN : s = Boot(w)  BY <2>2
  <2>4. Head(s) = <<"setup", "ext", w>> /\ Tail(s) = Version(w)  BY <2>3, Boots DEF Version
  <2>5. t = Version(w)
    <3>1. t \in Rest(s)  BY <1>1, <2>1 DEF MainMoves
    <3>2. Head(s)[1] = "setup"  BY <2>4
    <3>3. t = Tail(s)  BY ONLY <3>1, <3>2 DEF Rest
    <3>. QED  BY <2>4, <3>3
  <2>6. Version(w) # <<>>  BY DEF Version
  <2>7. cmd' = <<"boot">>  BY <1>1, <2>1, <2>2, <2>5, <2>6 DEF MainMoves
  <2>8. isr' = <<>> /\ spi_cmd' = <<"none">>
    BY <1>1, <1>2, <2>1, <2>2 DEF Alone, MainMoves, isr_vars
  <2>9. OffAims'  BY <2>1, <2>5, <2>7, <2>8, CommandsDiffer DEF OffAims, PowerCommands
  <2>10. HandAims' /\ OffLow'  BY <2>7, <2>8 DEF HandAims, OffLow, Switching
  <2>. QED  BY <2>9, <2>10 DEF OffInv, OffKnown
<1>. QED  BY <1>4, <1>5 DEF OffInv

(* What all of this is about, when nothing of it changes.                  *)
LEMMA OffSame ==
  ASSUME OffInv, phase # "none" => phase' = phase,
         UNCHANGED <<board, main, cmd, isr, spi_cmd, som_is_powered, boot_magic, mb_version,
                     shadow, chip, lost, pins, latched, disturbed, torn, byhand>>
  PROVE  OffInv'
<1>1. /\ phase # "none" => phase' = phase
      /\ UNCHANGED <<board, main, cmd, isr, spi_cmd, som_is_powered, boot_magic, mb_version,
                     shadow, chip, lost, pins, latched, disturbed, torn, byhand>>
  OBVIOUS
<1>2. ASSUME NEW t, NEW x
      PROVE  /\ Sweeps(t) => Sweeps(t)'
             /\ Sweeping(t) => Sweeping(t)'
             /\ Low(t) => Low(t)'
             /\ Handy(t) => Handy(t)'
             /\ Toward(t, x) => Toward(t, x)'
  <2>1. Sweeping(t) => Sweeping(t)'  BY <1>1 DEF Sweeping, RailOff
  <2>2. Low(t) => Low(t)'  BY <1>1 DEF Low, LowExt, LowPins, Rising
  <2>3. Toward(t, x) => Toward(t, x)'  BY <1>1, SameHolds DEF Same
  <2>. QED  BY <1>1, <2>1, <2>2, <2>3, OffStays
<1>3. PICK m, i, j : m = main /\ i = isr /\ j = isr \o main  OBVIOUS
<1>4. ASSUME OffKnown PROVE OffKnown'
  <2>1. /\ Sweeps(m) => Sweeps(main)'
        /\ Sweeping(m) => Sweeping(main)'
        /\ Sweeping(i) => Sweeping(isr)'
        /\ Low(m) => Low(main)'
        /\ Handy(m) => Handy(main)'
        /\ Toward(m, TRUE) => Toward(main, TRUE)'
    BY <1>1, <1>2, <1>3, OffNext, Renamed
  <2>2. OffAims'
    <3>1. cmd = <<"0p">> => (Deaf \/ Sweeps(m)) /\ (~disturbed => Sweeping(m))
      BY <1>3, <1>4 DEF OffKnown, OffAims
    <3>2. cmd = <<"boot">> => Toward(m, TRUE) \/ Sweeping(m) \/ \E w \in BOOLEAN : m = Version(w)
      BY Zenon, <1>3, <1>4 DEF OffKnown, OffAims
    <3>3. spi_cmd = <<"0p">> => Sweeping(i)  BY <1>3, <1>4 DEF OffKnown, OffAims
    <3>4. Deaf => Deaf'  BY <1>1 DEF Deaf
    <3>5. cmd' = <<"0p">> => (Deaf' \/ Sweeps(main)') /\ (~disturbed' => Sweeping(main)')
      BY <1>1, <2>1, <3>1, <3>4
    <3>6. cmd' = <<"boot">> => \/ Toward(main, TRUE)' \/ Sweeping(main)'
                             \/ \E w \in BOOLEAN : main' = Version(w)
      BY Zenon, <1>1, <1>3, <2>1, <3>2
    <3>7. spi_cmd' = <<"0p">> => Sweeping(isr)'  BY <1>1, <2>1, <3>3
    <3>. QED  BY Zenon, <3>5, <3>6, <3>7 DEF OffAims
  <2>3. HandAims'
    <3>1. Handy(i) => Handy(isr)'  BY <1>1, <1>2, <1>3, OffNext
    <3>. QED  BY <1>1, <1>3, <1>4, <2>1, <3>1 DEF OffKnown, HandAims
  <2>4. OffLow'
    <3>1. Low(j) => Low(i \o m)'  BY <1>2, <1>3
    <3>2. Low(i \o m)' => Low(isr \o main)'  BY <1>1, <1>3, JoinedLow
    <3>3. ~torn /\ cmd \notin Switching /\ spi_cmd \notin PowerCommands /\ ~som_is_powered
            => IF i = <<>> THEN Low(m) ELSE Low(j)
      BY <1>3, <1>4 DEF OffKnown, OffLow
    <3>. QED  BY <1>1, <1>3, <2>1, <3>1, <3>2, <3>3 DEF OffLow
  <2>. QED  BY <2>2, <2>3, <2>4 DEF OffKnown
<1>. QED  BY <1>1, <1>4 DEF OffInv

LEMMA LoadShadowOff == ASSUME OffInv, LoadShadow PROVE OffInv'
<1>1. /\ phase = "none"
      /\ UNCHANGED <<board, main, cmd, isr, spi_cmd, som_is_powered, boot_magic, mb_version,
                     shadow, chip, lost, pins, latched, disturbed, torn, byhand>>
  BY DEF LoadShadow, isr_vars, flags, expanders, outputs, history
<1>. QED  BY <1>1, OffSame

LEMMA StoreShadowOff == ASSUME SomInv, OffInv, StoreShadow PROVE OffInv'
<1>. DEFINE op == Head(main)
<1>1. /\ isr = <<>> /\ spi_cmd # More /\ phase = "loaded" /\ phase' = "stored"
      /\ held' = With(held, op[2], op[3])
      /\ shadow' = [shadow EXCEPT ![op[1]] = held']
      /\ UNCHANGED <<board, main, cmd, isr, spi_cmd, irq, som_is_powered, boot_magic, mb_version,
                     chip, lost, pins, latched, disturbed, torn, byhand>>
  BY DEF StoreShadow, Handling, Busy, isr_vars, flags, outputs, history
<1>2. /\ HeldOK /\ Alone /\ Kinds /\ SomTyped /\ OutputsTyped /\ board \in 1..2
      /\ (mb_version = board => OffKnown)
  BY DEF SomInv, SomSafe, SomTyped, FlagsTyped, OffInv
<1>3. main \in Seq(Operations) /\ main # <<>> /\ Expander(op) /\ op \in Operations
      /\ Kind(main, cmd)
  BY <1>1, <1>2, Begun DEF SomTyped, ProgramsTyped, Kinds
<1>4. /\ op[1] \in {"ext", "uswitch"} /\ op[2] \in Bits(op[1]) /\ op[3] \in BOOLEAN
  BY <1>3, ExpanderOps
<1>5. ASSUME ~disturbed
      PROVE  shadow'.ext = IF op[1] = "ext" THEN With(shadow.ext, op[2], op[3]) ELSE shadow.ext
  <2>1. held = shadow[op[1]]  BY <1>1, <1>2, <1>5 DEF HeldOK
  <2>. QED  BY <1>1, <1>2, <1>4, <2>1 DEF OutputsTyped
<1>6. PICK s, c : s = main /\ c = cmd  OBVIOUS
<1>7. /\ s \in Seq(Operations) /\ s # <<>> /\ Kind(s, c) /\ main' = s /\ cmd' = c
  BY <1>1, <1>3, <1>6
<1>8. ASSUME ~disturbed, Sweeping(s) PROVE Sweeping(main)'
  <2>1. Lowers(op)  BY <1>3, <1>6, <1>8, Begun DEF Sweeping, Sinks
  <2>2. shadow'.ext \subseteq shadow.ext
    <3>1. op[1] = "ext" => op[3] = FALSE  BY <2>1 DEF Lowers
    <3>. QED  BY <1>5, <1>8, <3>1 DEF With
  <2>3. \A r : RailOff(r) => RailOff(r)'  BY <1>1, <2>2 DEF RailOff
  <2>4. Sweeping(s)'  BY <1>1, <1>8, <2>3 DEF Sweeping
  <2>. QED  BY <1>7, <2>4, OffNext
<1>9. ASSUME ~disturbed, Toward(s, TRUE) PROVE Toward(main, TRUE)'
  <2>1. Sways(op)
    <3>1. op[2] \notin {"som_is_powered", "boot_magic"}
      BY <1>4 DEF Bits, ExtBits, UswitchBits
    <3>2. \/ "5V" \in shadow'.ext <=> "5V" \in shadow.ext
          \/ op[2] = "5V" /\ ("5V" \in shadow'.ext <=> op[3])
      BY <1>4, <1>5, <1>9 DEF With
    <3>. QED  BY <1>1, <3>1, <3>2 DEF Sways
  <2>2. Mild(s, TRUE)  BY <1>9 DEF Toward
  <2>3. Head(s)[2] \in Targets => Head(s)[3] = TRUE  BY <1>7, <2>2, MildParts
  <2>4. Sways(Head(s))  BY <1>6, <2>1
  <2>5. Toward(s, TRUE)'  BY <1>2, <1>9, <2>3, <2>4, TowardHolds
  <2>. QED  BY <1>7, <2>5, Renamed
<1>10. ASSUME ~disturbed, Low(s) PROVE Low(main)'
  <2>1. ASSUME board = 2, NEW r \in ExtBits
        PROVE  /\ r \in shadow'.ext => r \in byhand' \/ Rising(s, r)'
               /\ lost'.ext = 0 /\ r \in chip'.ext => r \in byhand'
    <3>1. /\ r \in shadow.ext => r \in byhand
          /\ lost.ext = 0 /\ r \in chip.ext => r \in byhand
      BY <1>1, <1>10, <2>1 DEF Low, LowExt, Rising
    <3>2. r \in shadow'.ext => r \in shadow.ext \/ (op[1] = "ext" /\ op[2] = r /\ op[3] = TRUE)
      BY <1>4, <1>5, <1>10 DEF With
    <3>3. op[1] = "ext" /\ op[2] = r /\ op[3] = TRUE => Rising(s, r)'
      BY <1>1, <1>6 DEF Rising
    <3>. QED  BY <1>1, <3>1, <3>2, <3>3
  <2>2. board = 1 => LowPins(s)'  BY <1>1, <1>10 DEF Low, LowPins
  <2>3. (board = 2 => LowExt(s))'  BY <1>1, <2>1 DEF LowExt
  <2>4. Low(s)'  BY <1>1, <2>2, <2>3 DEF Low
  <2>. QED  BY <1>7, <2>4, OffNext
<1>11. spi_cmd = <<"none">> /\ spi_cmd' = spi_cmd /\ spi_cmd # <<"0p">> /\ spi_cmd \notin PowerCommands
  BY <1>1, <1>2, CommandsDiffer DEF Alone, PowerCommands
<1>12. ASSUME OffKnown PROVE OffKnown'
  <2>1. Sweeps(s) => Sweeps(main)'  BY <1>1, <1>7, OffStays, OffNext
  <2>2. Handy(s) => Handy(main)'  BY <1>1, <1>7, OffStays, OffNext
  <2>3. OffAims'
    <3>1. c = <<"0p">> => (Deaf \/ Sweeps(s)) /\ (~disturbed => Sweeping(s))
      BY <1>6, <1>12 DEF OffKnown, OffAims
    <3>2. c = <<"boot">> => Toward(s, TRUE) \/ Sweeping(s) \/ \E w \in BOOLEAN : s = Version(w)
      BY Zenon, <1>6, <1>12 DEF OffKnown, OffAims
    <3>3. c = <<"boot">> => ~disturbed  BY <1>2, <1>6 DEF Alone
    <3>4. Deaf => Deaf'  BY <1>1 DEF Deaf
    <3>. QED  BY <1>1, <1>7, <1>8, <1>9, <1>11, <2>1, <3>1, <3>2, <3>3, <3>4 DEF OffAims
  <2>4. HandAims'  BY <1>1, <1>6, <1>7, <1>12, <2>2 DEF OffKnown, HandAims
  <2>5. OffLow'
    <3>1. ~torn => ~disturbed  BY <1>2 DEF Alone
    <3>. QED  BY <1>1, <1>6, <1>10, <1>12, <3>1 DEF OffKnown, OffLow
  <2>. QED  BY <2>3, <2>4, <2>5 DEF OffKnown
<1>. QED  BY <1>1, <1>2, <1>12 DEF OffInv

LEMMA WriteChipOff == ASSUME SomInv, OffInv, WriteChip PROVE OffInv'
<1>. DEFINE op == Head(main)
<1>1. /\ isr = <<>> /\ spi_cmd # More /\ phase = "stored" /\ phase' = "none" /\ write_byte(op[1], held)
      /\ Recorded(op, cmd) /\ MainMoves /\ isr' = <<>>
      /\ UNCHANGED <<som_is_powered, boot_magic, mb_version, shadow, pins, latched>>
  BY DEF WriteChip, Handling, Busy, flags, outputs, MainMoves, isr_vars
<1>2. /\ SomTyped /\ HeldOK /\ OutputsTyped /\ board \in 1..2 /\ board' = board
      /\ (mb_version = board => OffKnown)
  BY <1>1 DEF SomInv, SomSafe, SomTyped, FlagsTyped, MainMoves, OffInv
<1>3. main \in Seq(Operations) /\ main # <<>> /\ Expander(op) /\ op \in Operations
  BY <1>1, <1>2, Begun DEF SomTyped, ProgramsTyped
<1>4. ASSUME ~disturbed, OffKnown, mb_version = board PROVE OffKnown'
  <2>1. held = shadow[op[1]] /\ (op[2] \in held <=> op[3])  BY <1>1, <1>2, <1>4 DEF HeldOK
  <2>2. write_byte(op[1], shadow'[op[1]])  BY <1>1, <2>1
  <2>3. Effect(op)  BY <1>1, <1>2, <1>3, <2>1, <2>2, WriteEffect
  <2>4. Moved(op)  BY <1>1, <1>2, <1>3, <2>1, <2>2, WriteMoved
  <2>. QED  BY <1>1, <1>3, <1>4, <2>3, <2>4, MainMovesOff
<1>5. ASSUME disturbed, OffKnown PROVE OffKnown'
  BY <1>1, <1>3, <1>5, MainMovesTorn
<1>. QED  BY <1>1, <1>2, <1>4, <1>5 DEF OffInv

LEMMA LoopCommandOff == ASSUME SomInv, OffInv, LoopCommand PROVE OffInv'
<1>1. /\ isr = <<>> /\ spi_cmd # More /\ main = <<>> /\ cmd' \in Commands /\ main' = Program(cmd')
      /\ UNCHANGED <<board, isr, spi_cmd, phase, som_is_powered, mb_version,
                     shadow, chip, lost, pins, latched, torn, byhand>>
  BY SomPowerAssumption
     DEF LoopCommand, Handling, Busy, isr_vars, flags, expanders, outputs, history
<1>2. Alone /\ board \in 1..2 /\ (mb_version = board => OffKnown)
  BY DEF SomInv, SomSafe, SomTyped, FlagsTyped, OffInv
<1>3. PICK c, t : c \in Commands /\ c = cmd' /\ t = Program(c)  BY <1>1
<1>4. main' = t /\ cmd' = c  BY <1>1, <1>3
<1>5. cmd \notin Switching /\ spi_cmd = <<"none">> /\ spi_cmd # <<"0p">>
      /\ spi_cmd \notin PowerCommands
  BY <1>1, <1>2, CommandsDiffer DEF Alone, Switching, PowerCommands
<1>6. ASSUME mb_version = board, OffKnown PROVE OffKnown'
  <2>1. ASSUME c = <<"0p">> PROVE Sweeps(main)' /\ Sweeping(main)'
    <3>1. t = turn_som_power_off  BY <1>3, <2>1 DEF Program
    <3>2. Sweeps(t)  BY <1>2, <1>6, <3>1, SweepsOff
    <3>. QED  BY <1>1, <1>4, <3>2, OffStays, OffNext
  <2>2. c # <<"boot">>  BY <1>3, CommandsDiffer
  <2>3. OffAims'  BY <1>1, <1>4, <1>5, <2>1, <2>2 DEF OffAims
  <2>4. ASSUME c \notin Switching PROVE Handy(main)'
    <3>1. c \in Commands \ PowerCommands  BY <1>3, <2>4 DEF Switching
    <3>2. Handy(t)  BY <1>2, <1>3, <1>6, <3>1, HandyPrograms
    <3>. QED  BY <1>1, <1>4, <3>2, OffStays, OffNext
  <2>5. HandAims'  BY <1>1, <1>4, <2>4 DEF HandAims
  <2>6. ASSUME ~torn, ~som_is_powered PROVE Low(main)'
    <3>1. PICK e : e = <<>>  OBVIOUS
    <3>2. e = main /\ Range(e) = {}  BY <1>1, <3>1 DEF Range
    <3>3. Low(e)  BY <1>1, <1>5, <1>6, <2>6, <3>2 DEF OffKnown, OffLow
    <3>4. phase = "none"  BY <1>1 DEF SomInv, SomTyped, ProgramsTyped
    <3>5. Low(t)'  BY <1>1, <3>2, <3>3, <3>4 DEF Low, LowExt, LowPins, Rising
    <3>. QED  BY <1>4, <3>5, OffNext
  <2>7. OffLow'  BY <1>1, <2>6 DEF OffLow
  <2>. QED  BY <2>3, <2>5, <2>7 DEF OffKnown
<1>. QED  BY <1>1, <1>2, <1>6 DEF OffInv

-----------------------------------------------------------------------------
(* The steps of the interrupt handler. While it has work to do power off   *)
(* in the main program has not begun.                                      *)
LEMMA SpiCommandOff == ASSUME SomInv, OffInv, SpiCommand PROVE OffInv'
<1>1. /\ spi_cmd = More \/ (irq /\ som_is_powered)
      /\ isr = <<>> /\ spi_cmd' \in Commands /\ isr' = Program(spi_cmd')
      /\ torn' = (torn \/ Disturbs(spi_cmd'))
      /\ UNCHANGED <<board, main, cmd, phase, som_is_powered, mb_version,
                     shadow, chip, lost, pins, latched, byhand>>
  BY SomPowerAssumption
     DEF SpiCommand, Busy, main_vars, flags, expanders, outputs
<1>2. Alone /\ board \in 1..2 /\ (mb_version = board => OffKnown) /\ main \in Seq(Operations)
  BY DEF SomInv, SomSafe, SomTyped, FlagsTyped, ProgramsTyped, OffInv
<1>3. PICK c, t, m : c \in Commands /\ c = spi_cmd' /\ t = Program(c) /\ m = main  BY <1>1
<1>4. isr' = t /\ spi_cmd' = c /\ main' = m /\ cmd' = cmd  BY <1>1, <1>3
<1>5. cmd # <<"boot">> /\ spi_cmd \notin PowerCommands
  BY <1>1, <1>2, CommandsDiffer DEF Alone
<1>6. ASSUME mb_version = board, OffKnown PROVE OffKnown'
  <2>1. ASSUME cmd = <<"0p">> PROVE Sweeps(main)' /\ Sweeping(main)'
    <3>1. ~Deaf  BY <1>1 DEF Deaf
    <3>2. Sweeps(m)  BY <1>3, <1>6, <2>1, <3>1 DEF OffKnown, OffAims
    <3>. QED  BY <1>1, <1>4, <3>2, OffStays, OffNext
  <2>2. ASSUME c = <<"0p">> PROVE Sweeping(isr)'
    <3>1. t = turn_som_power_off  BY <1>3, <2>2 DEF Program
    <3>2. Sweeps(t)  BY <1>2, <1>6, <3>1, SweepsOff
    <3>. QED  BY <1>1, <1>4, <3>2, OffStays, OffNext
  <2>3. OffAims'  BY <1>4, <1>5, <2>1, <2>2 DEF OffAims
  <2>4. cmd \notin Switching => Handy(m)  BY <1>3, <1>6 DEF OffKnown, HandAims
  <2>5. ASSUME c \notin Switching PROVE Handy(t)
    <3>1. c \in Commands \ PowerCommands  BY <1>3, <2>5 DEF Switching
    <3>. QED  BY <1>2, <1>3, <1>6, <3>1, HandyPrograms
  <2>6. HandAims'
    <3>1. Handy(m) => Handy(main)'  BY <1>1, <1>4, OffStays, OffNext
    <3>2. Handy(t) => Handy(isr)'  BY <1>1, <1>4, OffStays, OffNext
    <3>. QED  BY <1>4, <2>4, <2>5, <3>1, <3>2 DEF HandAims
  <2>7. ASSUME ~torn', cmd \notin Switching, c \notin PowerCommands, ~som_is_powered
        PROVE  Low(isr \o main)'
    <3>1. ~torn /\ phase = "none"  BY <1>1, <1>3, <2>7 DEF Disturbs
    <3>2. Low(m)  BY <1>1, <1>3, <1>5, <1>6, <2>7, <3>1 DEF OffKnown, OffLow
    <3>3. m \in Seq(Operations) /\ t \in Seq(Operations)
      BY <1>2, <1>3, Programs
    <3>4. Range(m) \subseteq Range(t \o m)  BY <3>3, Joined
    <3>5. Low(t \o m)'  BY <1>1, <3>1, <3>2, <3>4, LowMore
    <3>. QED  BY <1>4, <3>5, JoinedLow
  <2>8. isr' # <<>>  BY <1>1, <1>3, <1>4, KindProgram
  <2>9. OffLow'  BY <1>1, <1>4, <2>7, <2>8 DEF OffLow
  <2>. QED  BY <2>3, <2>6, <2>9 DEF OffKnown
<1>. QED  BY <1>1, <1>2, <1>6 DEF OffInv

LEMMA SpiDoesOff == ASSUME SomInv, OffInv, SpiDoes PROVE OffInv'
<1>. DEFINE op == Head(isr)
<1>1. /\ isr # <<>>
      /\ \/ ~Expander(op) /\ Do(op, spi_cmd)
         \/ ExpanderDo(op, spi_cmd)
      /\ isr' \in Rest(isr)
      /\ (isr' = <<>> => spi_cmd' \in {<<"none">>, More}) /\ (isr' # <<>> => spi_cmd' = spi_cmd)
      /\ torn' = IF isr' = <<>> /\ spi_cmd \in PowerCommands THEN disturbed ELSE torn
      /\ UNCHANGED <<board, main, cmd, phase>>
  BY SpiSteps DEF main_vars
<1>2. /\ Alone /\ HeldOK /\ OutputsTyped /\ board \in 1..2 /\ board' \in 1..2
      /\ mb_version = board => OffKnown /\ Known
      /\ main \in Seq(Operations)
      /\ isr \in Seq(Operations) /\ op \in Operations /\ Kind(isr, spi_cmd)
      /\ spi_cmd \in Commands \cup {<<"none">>, More}
  BY <1>1, Begun DEF SomInv, SomSafe, SomTyped, FlagsTyped, ProgramsTyped, Kinds, OffInv
<1>3. cmd # <<"boot">> /\ spi_cmd # <<"boot">>
  BY <1>1, <1>2, CommandsDiffer DEF Alone
<1>4. PICK s, c, t, m : s = isr /\ c = spi_cmd /\ t = isr' /\ m = main  OBVIOUS
<1>5. /\ s \in Seq(Operations) /\ s # <<>> /\ Kind(s, c) /\ t \in Rest(s) /\ main' = m
  BY <1>1, <1>2, <1>4
<1>6. Head(s)[2] # "ext" /\ (c \notin Switching => Head(s)[2] \notin Targets)
  BY <1>3, <1>4, <1>5, KindHead
<1>7. Effect(op) /\ mb_version' = mb_version /\ Moved(op)
  <2>1. CASE ~Expander(op) /\ Do(op, spi_cmd)
    BY <1>1, <1>2, <1>4, <1>6, <2>1, DoEffect, DoMoved
  <2>2. CASE ExpanderDo(op, spi_cmd)
    <3>1. /\ Expander(op)
          /\ shadow' = [shadow EXCEPT ![op[1]] = With(shadow[op[1]], op[2], op[3])]
          /\ write_byte(op[1], shadow'[op[1]])
          /\ UNCHANGED <<som_is_powered, boot_magic, mb_version, pins, latched>>
      BY <2>2 DEF ExpanderDo, flags, outputs
    <3>. QED  BY <1>1, <1>2, <3>1, WriteEffect, WriteMoved
  <2>. QED  BY <1>1, <2>1, <2>2
<1>8. Sways(Head(s)) /\ Moved(Head(s))  BY <1>4, <1>7 DEF Effect
<1>9. ASSUME c \notin PowerCommands, HandOp(op) PROVE Recorded(op, c)
  <2>1. CASE ~Expander(op) /\ Do(op, spi_cmd)
    <3>1. op[1] = "pin"  BY <1>9, <2>1 DEF HandOp, Expander
    <3>2. \A f \in {"som_is_powered", "boot_magic", "irq"} : op # Flag(f, op[3])
      BY <3>1 DEF Flag
    <3>. QED  BY <1>4, <2>1, <3>1, <3>2 DEF Do
  <2>2. CASE ExpanderDo(op, spi_cmd)  BY <1>4, <2>2 DEF ExpanderDo
  <2>. QED  BY <1>1, <2>1, <2>2
<1>10. ASSUME mb_version = board, OffKnown, Known PROVE OffKnown'
  <2>1. ASSUME c = <<"0p">> PROVE Sweeping(t)'
    <3>1. Sweeping(s)  BY <1>4, <1>10, <2>1 DEF OffKnown, OffAims
    <3>. QED  BY <1>2, <1>5, <1>8, <1>10, <3>1, SweepingRest
  <2>2. spi_cmd' = <<"0p">> => Sweeping(isr)'
    BY <1>1, <1>4, <2>1, OffNext, CommandsDiffer
  <2>3. ASSUME cmd = <<"0p">> PROVE Sweeps(main)' /\ Sweeping(main)'
    <3>1. ~Deaf  BY <1>1 DEF Deaf
    <3>2. Sweeps(m)  BY <1>4, <1>10, <2>3, <3>1 DEF OffKnown, OffAims
    <3>. QED  BY <1>1, <1>5, <3>2, OffStays, OffNext
  <2>4. OffAims'  BY <1>1, <1>3, <2>2, <2>3 DEF OffAims
  <2>5. cmd \notin Switching => Handy(m)  BY <1>4, <1>10 DEF OffKnown, HandAims
  <2>6. c \notin Switching => Handy(s)  BY <1>1, <1>4, <1>10 DEF OffKnown, HandAims
  <2>7. c \notin Switching => t = Tail(s) /\ Handy(t) /\ HandOp(op)
    BY <1>4, <1>5, <2>6, HandyRest, HandyTail
  <2>8. HandAims'
    <3>1. Handy(m) => Handy(main)'  BY <1>1, <1>5, OffStays, OffNext
    <3>2. Handy(t) => Handy(isr)'  BY <1>1, <1>4, OffStays, OffNext
    <3>. QED  BY <1>1, <1>4, <2>5, <2>7, <3>1, <3>2 DEF HandAims
  <2>9. ASSUME ~torn', cmd \notin Switching, spi_cmd' \notin PowerCommands, ~som_is_powered'
        PROVE  IF t = <<>> THEN Low(m)' ELSE Low(t \o m)'
    <3>1. CASE c = <<"0p">>
      <4>1. t = <<>>  BY <1>1, <1>4, <2>9, <3>1 DEF PowerCommands
      <4>2. Low(m)'  BY <1>1, <1>2, <2>1, <3>1, <4>1, SweptLow
      <4>. QED  BY <4>1, <4>2
    <3>2. CASE c = <<"1p">>
      <4>1. t = <<>>  BY <1>1, <1>4, <2>9, <3>2 DEF PowerCommands
      <4>2. Toward(s, TRUE)  BY Zenon, <1>4, <1>10, <3>2 DEF Known, SpiAims
      <4>3. Effect(Head(s))  BY <1>4, <1>7
      <4>4. Toward(t, TRUE)'  BY <1>2, <1>5, <4>2, <4>3, TowardRest
      <4>5. Shows(TRUE)'  BY <1>2, <4>1, <4>4, TowardEnd
      <4>. QED  BY <2>9, <4>5 DEF Shows
    <3>3. CASE c \notin PowerCommands
      <4>1. c \notin Switching  BY <1>3, <1>4, <3>3 DEF Switching
      <4>2. ~torn  BY <1>1, <1>4, <2>9, <3>3
      <4>3. phase = "none" /\ phase' = "none"  BY <1>1, <1>2, <4>2 DEF Alone, HeldOK
      <4>4. som_is_powered' = som_is_powered  BY <1>6, <1>8, <4>1 DEF Sways, Targets
      <4>5. PICK x : x = s \o m  OBVIOUS
      <4>6. Low(x)
        BY <1>1, <1>4, <1>10, <2>9, <3>3, <4>2, <4>4, <4>5 DEF OffKnown, OffLow
      <4>7. Handy(x)  BY <2>5, <2>6, <2>9, <4>1, <4>5, HandyJoined
      <4>8. x # <<>> /\ Head(x) = Head(s) /\ Tail(x) = t \o m
        <5>1. m \in Seq(Operations) /\ t = Tail(s)  BY <1>2, <1>4, <2>7, <4>1
        <5>2. x # <<>> /\ Head(x) = Head(s)  BY <1>5, <4>5, <5>1, Joined
        <5>3. Tail(s \o m) = Tail(s) \o m  BY <1>5, <5>1, JoinedTail
        <5>. QED  BY <4>5, <5>1, <5>2, <5>3
      <4>9. Recorded(Head(x), c) /\ Moved(Head(x))
        BY <1>4, <1>8, <1>9, <2>7, <3>3, <4>1, <4>8
      <4>10. Low(Tail(x))'  BY <1>2, <4>1, <4>3, <4>6, <4>7, <4>8, <4>9, LowStep
      <4>11. Low(t \o m)'  BY <4>8, <4>10
      <4>12. t = <<>> => t \o m = m  BY <1>2, <1>4
      <4>. QED  BY <4>11, <4>12
    <3>. QED  BY <3>1, <3>2, <3>3 DEF PowerCommands
  <2>10. OffLow'
    <3>1. Low(m)' => Low(main)'  BY <1>5, OffNext
    <3>2. Low(t \o m)' => Low(isr \o main)'  BY <1>4, <1>5, JoinedLow
    <3>. QED  BY <1>1, <1>4, <2>9, <3>1, <3>2 DEF OffLow
  <2>. QED  BY <2>4, <2>8, <2>10 DEF OffKnown
<1>. QED  BY <1>1, <1>2, <1>7, <1>10 DEF OffInv

-----------------------------------------------------------------------------
LEMMA OffRestart ==
  ASSUME SomInv, NEW w \in BOOLEAN, Restart(w)
  PROVE  OffInv'
<1>1. isr' = <<>> /\ mb_version' = 0 /\ board' = board  BY Zenon, Restarted
<1>2. board \in 1..2  BY DEF SomInv, SomTyped, FlagsTyped
<1>. QED  BY <1>1, <1>2 DEF OffInv

LEMMA OffStep == ASSUME SomInv, OffInv, [Next]_vars PROVE OffInv'
<1>1. CASE Reset
  <2>1. boot_magic \in BOOLEAN /\ Restart(boot_magic)
    BY <1>1 DEF Reset, SomInv, SomTyped, FlagsTyped
  <2>2. PICK w \in BOOLEAN : w = boot_magic  BY <2>1
  <2>3. Restart(w)  BY <2>1, <2>2
  <2>. QED  BY <2>3, OffRestart
<1>2. CASE PowerLoss
  <2>1. Restart(FALSE)  BY <1>2 DEF PowerLoss
  <2>. QED  BY <2>1, OffRestart
<1>3. CASE UNCHANGED vars
  <2>1. UNCHANGED <<board, main, cmd, isr, spi_cmd, phase, som_is_powered, boot_magic, mb_version,
                    shadow, chip, lost, pins, latched, disturbed, torn, byhand>>
    BY <1>3 DEF vars, main_vars, isr_vars, flags, expanders, outputs, history
  <2>. QED  BY <2>1, OffSame
<1>. QED
  BY Zenon, <1>1, <1>2, <1>3, MainDoesOff, LoadShadowOff, StoreShadowOff, WriteChipOff,
     LoopCommandOff, SpiCommandOff, SpiDoesOff DEF Next

LEMMA OffImplies == ASSUME SomInv, OffInv PROVE OffIsOff
<1>. SUFFICES ASSUME main = <<>>, isr = <<>>, mb_version = board, lost.ext = 0, ~torn,
                     ~som_is_powered
              PROVE  Rails \subseteq byhand
  BY DEF OffIsOff, Idle, Busy, RailsFollow
<1>1. Alone /\ board \in 1..2 /\ OffKnown /\ OutputsTyped
  BY DEF SomInv, SomSafe, SomTyped, FlagsTyped, OffInv
<1>2. cmd \notin Switching /\ spi_cmd \notin PowerCommands  BY <1>1 DEF Alone
<1>3. Low(main) /\ Range(main) = {}  BY <1>1, <1>2 DEF OffKnown, OffLow, Range
<1>4. CASE board = 1
  BY <1>1, <1>3, <1>4 DEF Low, LowPins, Rails, OutputsTyped
<1>5. CASE board = 2
  BY <1>1, <1>3, <1>5 DEF Low, LowExt, Rails, OutputsTyped
<1>. QED  BY <1>1, <1>4, <1>5

(* The rails of a SOM that is off are off, but for what a later command    *)
(* has switched on by hand: after a power off, a cold boot and any         *)
(* commands, resets at any point and any failed writes, as long as the     *)
(* last one got through and nobody was interrupted where it matters.       *)
(* (turn_som_power_off, hwapi_set_gpio, som_wake)                          *)
THEOREM OffRailsAreOff == Spec => []OffIsOff
<1>1. Init => OffInv  BY DEF Init, OffInv
<1>2. ASSUME SomInv, OffInv, [Next]_vars PROVE OffInv'  BY OffStep, <1>2
<1>3. ASSUME SomInv, OffInv PROVE OffIsOff  BY OffImplies, <1>3
<1>. QED  BY <1>1, <1>2, <1>3, SomSwitchedSafely, PTL DEF Spec

-----------------------------------------------------------------------------
(* Port 2 of motherboard 2.0: its supply, and the switches that are open   *)
(* when it is wired as a host's.                                           *)
Switches == {"1", "2", "3"}
SupplyOn == gpio_put("usb2_5v", TRUE)
SupplyOff == gpio_put("usb2_5v", FALSE)

Supplied == "usb2_5v" \in pins \ byhand
Opened == {k \in Switches : k \notin shadow.uswitch /\ (lost.uswitch = 0 => k \notin chip.uswitch)}
HostOnly == Supplied => Opened = Switches

Closes(op) ==
  \/ op[1] = "uswitch" /\ op[2] \in Switches /\ op[3] = TRUE
  \/ op[1] = "setup" /\ op[2] = "uswitch" /\ op[3] = FALSE

Port == {op \in Operations : op[1] = "uswitch" \/ op[2] = "usb2_5v"}
Still == {op \in Operations : op \notin Port /\ op[1] \notin {"setup", "version"}}
Calm == {op \in Still : op[1] # "usb_default"}
Default == {op \in Operations : op[1] = "usb_default"}

(* What s, of command c, does to the port from where up is whether it is   *)
(* supplied and open the switches that are open: it does not both supply   *)
(* and close, closes nothing before it has cut a supply, and, if it is the *)
(* kind of command that counts, supplies nothing before all switches are   *)
(* open; power on opens them all and power off cuts the supply.            *)
Wiring(s, c, up, open) ==
  /\ SupplyOn \in Range(s) => \A op \in Range(s) : ~Closes(op)
  /\ up => \A op \in Range(s) : Closes(op) => Before(s, op, SupplyOff)
  /\ c \in Switching => \A k \in Switches \ open : Before(s, SupplyOn, uswitch(k, FALSE))
  /\ c = <<"1p">> => /\ \A op \in Range(s) : ~Closes(op)
                     /\ \A k \in Switches \ open : uswitch(k, FALSE) \in Range(s)
  /\ c = <<"0p">> => SupplyOn \notin Range(s) /\ (up => SupplyOff \in Range(s))

(* After an element of A come only elements of B.                          *)
Follow(s, A, B) == \A i, j \in 1..Len(s) : i < j /\ s[i] \in A => s[j] \in B

(* The same from wherever the port is, and nothing else once it has begun. *)
Whole(s, c) == Wiring(s, c, TRUE, {}) /\ Follow(s, Port, Port)

LEMMA PortParts ==
  /\ SupplyOn \in Port /\ SupplyOff \in Port /\ SupplyOn # SupplyOff
  /\ SupplyOn = LatchOn /\ SupplyOn[1] = "pin" /\ SupplyOff[1] = "pin"
  /\ SupplyOn[2] = "usb2_5v" /\ SupplyOff[2] = "usb2_5v"
  /\ SupplyOn[3] = TRUE /\ SupplyOff[3] = FALSE
  /\ ~Closes(SupplyOn) /\ ~Closes(SupplyOff)
  /\ \A k \in UswitchBits, v \in BOOLEAN :
       /\ uswitch(k, v) \in Port /\ uswitch(k, v)[1] = "uswitch" /\ uswitch(k, v)[2] = k
       /\ uswitch(k, v)[3] = v
  /\ \A k \in UswitchBits : ~Closes(uswitch(k, FALSE))
  /\ Switches \subseteq UswitchBits
<1>1. /\ SupplyOn[1] = "pin" /\ SupplyOff[1] = "pin"
      /\ SupplyOn[2] = "usb2_5v" /\ SupplyOff[2] = "usb2_5v"
      /\ SupplyOn[3] = TRUE /\ SupplyOff[3] = FALSE
  BY DEF SupplyOn, SupplyOff, gpio_put
<1>2. SupplyOn \in Operations /\ SupplyOff \in Operations /\ SupplyOn = LatchOn
  BY Operands, NamesOK DEF SupplyOn, SupplyOff, LatchOn, Latch
<1>3. SupplyOn \in Port /\ SupplyOff \in Port  BY <1>1, <1>2 DEF Port
<1>4. ASSUME NEW k \in UswitchBits, NEW v \in BOOLEAN
      PROVE  /\ uswitch(k, v) \in Operations /\ uswitch(k, v)[1] = "uswitch" /\ uswitch(k, v)[2] = k
             /\ uswitch(k, v)[3] = v
  BY Operands DEF uswitch
<1>5. \A k \in UswitchBits, v \in BOOLEAN : uswitch(k, v) \in Port  BY <1>4 DEF Port
<1>6. \A k \in UswitchBits : ~Closes(uswitch(k, FALSE))  BY <1>4 DEF Closes
<1>7. ~Closes(SupplyOn) /\ ~Closes(SupplyOff)  BY <1>1 DEF Closes
<1>8. Switches \subseteq UswitchBits  BY DEF Switches, UswitchBits
<1>. QED  BY <1>1, <1>2, <1>3, <1>4, <1>5, <1>6, <1>7, <1>8

LEMMA StillApart ==
  ASSUME NEW op \in Still
  PROVE  /\ op \in Operations /\ ~Closes(op) /\ op # SupplyOn /\ op # SupplyOff
         /\ \A k \in Switches : op # uswitch(k, FALSE)
<1>1. op \in Operations /\ op \notin Port /\ op[1] \notin {"setup", "version"}  BY DEF Still
<1>2. op[1] # "uswitch"  BY <1>1 DEF Port
<1>3. ~Closes(op)  BY <1>1, <1>2 DEF Closes
<1>. QED  BY <1>1, <1>3, PortParts

LEMMA FollowTail ==
  ASSUME NEW s \in Seq(Operations), s # <<>>, NEW A, NEW B, Follow(s, A, B)
  PROVE  Follow(Tail(s), A, B) /\ (Head(s) \in A => Range(Tail(s)) \subseteq B)
<1>. DEFINE u == Tail(s)
<1>1. /\ Head(s) = s[1] /\ Len(s) \in Nat /\ Len(s) >= 1 /\ Len(u) = Len(s) - 1
      /\ u \in Seq(Operations) /\ \A i \in 1..Len(u) : u[i] = s[i + 1]
  BY Begun
<1>. HIDE DEF u
<1>2. \A i \in 1..Len(u) : i + 1 \in 1..Len(s)  BY <1>1
<1>3. ASSUME NEW i \in 1..Len(u), NEW j \in 1..Len(u), i < j, u[i] \in A PROVE u[j] \in B
  <2>1. i + 1 \in 1..Len(s) /\ j + 1 \in 1..Len(s) /\ i + 1 < j + 1  BY <1>1, <1>2, <1>3
  <2>2. s[i + 1] \in A  BY <1>1, <1>3
  <2>3. s[j + 1] \in B  BY <2>1, <2>2 DEF Follow
  <2>. QED  BY <1>1, <2>3
<1>4. ASSUME Head(s) \in A, NEW x \in Range(u) PROVE x \in B
  <2>1. PICK j \in 1..Len(u) : u[j] = x  BY <1>1, <1>4, Standing
  <2>2. 1 \in 1..Len(s) /\ j + 1 \in 1..Len(s) /\ 1 < j + 1  BY <1>1, <1>2
  <2>3. s[j + 1] \in B  BY <1>1, <1>4, <2>2 DEF Follow
  <2>. QED  BY <1>1, <2>1, <2>3
<1>. QED  BY <1>3, <1>4 DEF Follow, u

LEMMA FollowJoined ==
  ASSUME NEW s \in Seq(Operations), NEW t \in Seq(Operations), NEW A, NEW B,
         \/ Range(s) \cap A = {} /\ Follow(t, A, B)
         \/ Range(t) \subseteq B /\ Follow(s, A, B)
  PROVE  Follow(s \o t, A, B)
<1>. DEFINE u == s \o t
<1>1. /\ Len(s) \in Nat /\ Len(t) \in Nat /\ Len(u) = Len(s) + Len(t)
      /\ \A i \in 1..Len(s) : u[i] = s[i]
      /\ \A i \in 1..Len(t) : u[Len(s) + i] = t[i]
  BY Joined
<1>. HIDE DEF u
<1>2. ASSUME NEW i \in 1..Len(u), i > Len(s)
      PROVE  i - Len(s) \in 1..Len(t) /\ u[i] = t[i - Len(s)]
  <2>1. i - Len(s) \in 1..Len(t) /\ i = Len(s) + (i - Len(s))  BY <1>1, <1>2
  <2>. QED  BY <1>1, <2>1
<1>3. ASSUME NEW i \in 1..Len(u), i <= Len(s)
      PROVE  i \in 1..Len(s) /\ u[i] = s[i]
  <2>1. i \in 1..Len(s)  BY <1>1, <1>3
  <2>. QED  BY <1>1, <2>1
<1>4. ASSUME NEW i \in 1..Len(u), NEW j \in 1..Len(u), i < j, u[i] \in A PROVE u[j] \in B
  <2>1. CASE j <= Len(s)
    <3>1. i <= Len(s)  BY <1>1, <1>4, <2>1
    <3>2. s[i] \in A /\ i \in 1..Len(s) /\ j \in 1..Len(s)  BY <1>3, <1>4, <2>1, <3>1
    <3>3. s[i] \in Range(s)  BY <3>2, Standing
    <3>4. s[j] \in B  BY <1>4, <3>2, <3>3 DEF Follow
    <3>. QED  BY <1>3, <2>1, <3>4
  <2>2. CASE j > Len(s) /\ i > Len(s)
    <3>1. /\ i - Len(s) \in 1..Len(t) /\ j - Len(s) \in 1..Len(t) /\ i - Len(s) < j - Len(s)
          /\ t[i - Len(s)] \in A /\ u[j] = t[j - Len(s)]
      BY <1>1, <1>2, <1>4, <2>2
    <3>2. t[j - Len(s)] \in Range(t)  BY <3>1, Standing
    <3>. QED  BY <3>1, <3>2 DEF Follow
  <2>3. CASE j > Len(s) /\ i <= Len(s)
    <3>1. s[i] \in A /\ i \in 1..Len(s)  BY <1>3, <1>4, <2>3
    <3>2. s[i] \in Range(s)  BY <3>1, Standing
    <3>3. j - Len(s) \in 1..Len(t) /\ u[j] = t[j - Len(s)]  BY <1>2, <2>3
    <3>4. t[j - Len(s)] \in Range(t)  BY <3>3, Standing
    <3>. QED  BY <3>1, <3>2, <3>3, <3>4
  <2>. QED  BY <1>1, <2>1, <2>2, <2>3
<1>. QED  BY <1>4 DEF Follow, u

LEMMA FollowAbsent ==
  ASSUME NEW s \in Seq(Operations), NEW A, NEW B, Range(s) \cap A = {} \/ Range(s) \subseteq B
  PROVE  Follow(s, A, B)
BY Standing DEF Follow

LEMMA WiringWeaker ==
  ASSUME NEW s, NEW c, NEW up, NEW open, Wiring(s, c, up, open), NEW more, NEW on,
         on => up, open \subseteq more
  PROVE  Wiring(s, c, on, more)
BY DEF Wiring

(* Nothing that neither supplies nor closes matters before it ...          *)
LEMMA WiringJoined ==
  ASSUME NEW s \in Seq(Operations), \A op \in Range(s) : ~Closes(op) /\ op # SupplyOn,
         NEW t \in Seq(Operations), NEW c, NEW up, NEW open, Wiring(t, c, up, open)
  PROVE  Wiring(s \o t, c, up, open)
<1>. DEFINE u == s \o t
<1>1. Range(u) = Range(s) \cup Range(t)  BY Joined
<1>2. \A a, b : a \notin Range(s) /\ Before(t, a, b) => Before(u, a, b)  BY BeforeJoined
<1>4. SupplyOn \notin Range(s) /\ \A op \in Range(s) : ~Closes(op)
  OBVIOUS
<1>. HIDE DEF u
<1>5. SupplyOn \in Range(u) => \A op \in Range(u) : ~Closes(op)
  BY <1>1, <1>4 DEF Wiring
<1>6. up => \A op \in Range(u) : Closes(op) => Before(u, op, SupplyOff)
  BY <1>1, <1>2, <1>4 DEF Wiring
<1>7. c \in Switching => \A k \in Switches \ open : Before(u, SupplyOn, uswitch(k, FALSE))
  BY <1>2, <1>4 DEF Wiring
<1>8. c = <<"1p">> => /\ \A op \in Range(u) : ~Closes(op)
                      /\ \A k \in Switches \ open : uswitch(k, FALSE) \in Range(u)
  BY <1>1, <1>4 DEF Wiring
<1>9. c = <<"0p">> => SupplyOn \notin Range(u) /\ (up => SupplyOff \in Range(u))
  BY <1>1, <1>4 DEF Wiring
<1>10. Wiring(u, c, up, open)  BY <1>5, <1>6, <1>7, <1>8, <1>9 DEF Wiring
<1>. QED  BY <1>10 DEF u

(* ... and nothing that is not about the port after it.                    *)
LEMMA WiringThen ==
  ASSUME NEW s \in Seq(Operations), NEW t \in Seq(Operations), Range(t) \subseteq Still,
         NEW c, NEW up, NEW open, Wiring(s, c, up, open)
  PROVE  Wiring(s \o t, c, up, open)
<1>. DEFINE u == s \o t
<1>1. Range(u) = Range(s) \cup Range(t)  BY Joined
<1>2. \A a, b : a \notin Range(t) /\ Before(s, a, b) => Before(u, a, b)  BY BeforeJoined
<1>3. \A op \in Range(t) : op \in Still  OBVIOUS
<1>4. SupplyOn \notin Range(t) /\ SupplyOff \notin Range(t) /\ \A op \in Range(t) : ~Closes(op)
  BY <1>3, StillApart
<1>. HIDE DEF u
<1>5. SupplyOn \in Range(u) => \A op \in Range(u) : ~Closes(op)
  BY <1>1, <1>4 DEF Wiring
<1>6. up => \A op \in Range(u) : Closes(op) => Before(u, op, SupplyOff)
  BY <1>1, <1>2, <1>4 DEF Wiring
<1>7. c \in Switching => \A k \in Switches \ open : Before(u, SupplyOn, uswitch(k, FALSE))
  BY <1>2, <1>4 DEF Wiring
<1>8. c = <<"1p">> => /\ \A op \in Range(u) : ~Closes(op)
                      /\ \A k \in Switches \ open : uswitch(k, FALSE) \in Range(u)
  BY <1>1, <1>4 DEF Wiring
<1>9. c = <<"0p">> => SupplyOn \notin Range(u) /\ (up => SupplyOff \in Range(u))
  BY <1>1, <1>4 DEF Wiring
<1>10. Wiring(u, c, up, open)  BY <1>5, <1>6, <1>7, <1>8, <1>9 DEF Wiring
<1>. QED  BY <1>10 DEF u

LEMMA WiringStill ==
  ASSUME NEW s \in Seq(Operations), Range(s) \subseteq Still, NEW c, c \notin PowerCommands,
         NEW up, NEW open
  PROVE  Wiring(s, c, up, open)
<1>1. \A op \in Range(s) : op \in Still  OBVIOUS
<1>2. SupplyOn \notin Range(s) /\ \A op \in Range(s) : ~Closes(op)
  BY <1>1, StillApart
<1>3. \A b : Before(s, SupplyOn, b)
  <2>1. <<>> \in Seq(Operations)  OBVIOUS
  <2>. QED  BY <1>2, <2>1, BeforeJoined
<1>4. c # <<"1p">> /\ c # <<"0p">>  BY DEF PowerCommands
<1>. QED  BY <1>2, <1>3, <1>4 DEF Wiring

LEMMA WholeJoined ==
  ASSUME NEW s \in Seq(Operations), Range(s) \subseteq Still, NEW t \in Seq(Operations), NEW c,
         Whole(t, c)
  PROVE  Whole(s \o t, c)
<1>1. Range(s) \cap Port = {}  BY DEF Still
<1>2. Follow(s \o t, Port, Port)  BY <1>1, FollowJoined DEF Whole
<1>3. \A op \in Range(s) : ~Closes(op) /\ op # SupplyOn  BY StillApart
<1>4. Wiring(s \o t, c, TRUE, {})  BY <1>3, WiringJoined DEF Whole
<1>. QED  BY <1>2, <1>4 DEF Whole

LEMMA WholeWiring ==
  ASSUME NEW s, NEW c, Whole(s, c), NEW up, NEW open
  PROVE  Wiring(s, c, up, open)
<1>1. Wiring(s, c, TRUE, {}) /\ {} \subseteq open  BY DEF Whole
<1>2. PICK on : on = TRUE  OBVIOUS
<1>3. Wiring(s, c, on, {}) /\ (up => on)  BY <1>1, <1>2
<1>. QED  BY ONLY <1>1, <1>3, WiringWeaker

(* One operation further: up is true if it was or has been switched on,    *)
(* and open is what was and has not been closed, and what has been opened. *)
LEMMA WiringTail ==
  ASSUME NEW s \in Seq(Operations), s # <<>>, NEW c, NEW up, NEW open, Wiring(s, c, up, open),
         NEW on, NEW more, on => up \/ Head(s) = SupplyOn, Head(s) = SupplyOff => ~on,
         \A k \in Switches \cap open : k \in more \/ Closes(Head(s)),
         \A k \in Switches : Head(s) = uswitch(k, FALSE) => k \in more
  PROVE  Wiring(Tail(s), c, on, more)
<1>. DEFINE op == Head(s)  u == Tail(s)
<1>1. Range(s) = {op} \cup Range(u) /\ u \in Seq(Operations)  BY Begun
<1>2. \A a, b : Before(s, a, b) => op # a /\ (op # b => Before(u, a, b))  BY BeforeTail
<1>3. SupplyOn \notin Range(u) => \A b : Before(u, SupplyOn, b)
  <2>1. <<>> \in Seq(Operations)  OBVIOUS
  <2>. QED  BY <1>1, <2>1, BeforeJoined
<1>4. /\ on => up \/ op = SupplyOn
      /\ op = SupplyOff => ~on
      /\ \A k \in Switches \cap open : k \in more \/ Closes(op)
      /\ \A k \in Switches : op = uswitch(k, FALSE) => k \in more
  OBVIOUS
<1>. HIDE DEF op, u
<1>5. SupplyOn \in Range(u) => \A x \in Range(u) : ~Closes(x)  BY <1>1 DEF Wiring
<1>6. ASSUME on, NEW x \in Range(u), Closes(x) PROVE Before(u, x, SupplyOff)
  <2>1. SupplyOn \notin Range(s)  BY <1>1, <1>6 DEF Wiring
  <2>2. up /\ op # SupplyOff  BY <1>1, <1>4, <1>6, <2>1
  <2>3. Before(s, x, SupplyOff)  BY <1>1, <1>6, <2>2 DEF Wiring
  <2>. QED  BY <1>2, <2>2, <2>3
<1>7. ASSUME c \in Switching, NEW k \in Switches \ more PROVE Before(u, SupplyOn, uswitch(k, FALSE))
  <2>1. CASE Closes(op)
    <3>1. SupplyOn \notin Range(u)  BY <1>1, <2>1 DEF Wiring
    <3>. QED  BY <1>3, <3>1
  <2>2. CASE ~Closes(op)
    <3>1. k \notin open /\ op # uswitch(k, FALSE)  BY <1>4, <1>7, <2>2
    <3>2. Before(s, SupplyOn, uswitch(k, FALSE))  BY <1>7, <3>1 DEF Wiring
    <3>. QED  BY <1>2, <3>1, <3>2
  <2>. QED  BY <2>1, <2>2
<1>8. ASSUME c = <<"1p">>
      PROVE  /\ \A x \in Range(u) : ~Closes(x)
             /\ \A k \in Switches \ more : uswitch(k, FALSE) \in Range(u)
  <2>1. ~Closes(op) /\ \A x \in Range(u) : ~Closes(x)  BY <1>1, <1>8 DEF Wiring
  <2>2. ASSUME NEW k \in Switches \ more PROVE uswitch(k, FALSE) \in Range(u)
    <3>1. k \notin open /\ op # uswitch(k, FALSE)  BY <1>4, <2>1, <2>2
    <3>2. uswitch(k, FALSE) \in Range(s)  BY <1>8, <2>2, <3>1 DEF Wiring
    <3>. QED  BY <1>1, <3>1, <3>2
  <2>. QED  BY <2>1, <2>2
<1>9. ASSUME c = <<"0p">> PROVE SupplyOn \notin Range(u) /\ (on => SupplyOff \in Range(u))
  <2>1. SupplyOn \notin Range(s)  BY <1>9 DEF Wiring
  <2>2. on => up /\ op # SupplyOff  BY <1>1, <1>4, <2>1
  <2>3. up => SupplyOff \in Range(s)  BY <1>9 DEF Wiring
  <2>. QED  BY <1>1, <2>1, <2>2, <2>3
<1>10. Wiring(u, c, on, more)  BY <1>5, <1>6, <1>7, <1>8, <1>9 DEF Wiring
<1>. QED  BY <1>10 DEF u

(* Within an operation.                                                    *)
LEMMA WiringHere ==
  ASSUME NEW s \in Seq(Operations), s # <<>>, NEW c, NEW up, NEW open, Wiring(s, c, up, open),
         NEW on, NEW more, on => up,
         \A k \in Switches \cap open : k \in more \/ Closes(Head(s))
  PROVE  Wiring(s, c, on, more)
<1>. DEFINE op == Head(s)
<1>1. op \in Range(s)  BY Begun
<1>2. SupplyOn \notin Range(s) => \A b : Before(s, SupplyOn, b)
  <2>1. <<>> \in Seq(Operations)  OBVIOUS
  <2>. QED  BY <2>1, BeforeJoined
<1>3. CASE Closes(op)
  <2>1. SupplyOn \notin Range(s)  BY <1>1, <1>3 DEF Wiring
  <2>2. c # <<"1p">>  BY <1>1, <1>3 DEF Wiring
  <2>. QED  BY <1>2, <2>1, <2>2 DEF Wiring
<1>4. CASE ~Closes(op)  BY <1>4 DEF Wiring
<1>. QED  BY <1>3, <1>4

(* A mode of the port.                                                     *)
LEMMA FirstOfFour ==
  ASSUME NEW a, NEW b, NEW c, NEW d, NEW x, x # a
  PROVE  Before(<<a, b, c, d>>, x, a)
<1>. DEFINE s == <<a, b, c, d>>
<1>1. Len(s) = 4 /\ s[1] = a  OBVIOUS
<1>. HIDE DEF s
<1>2. ASSUME NEW i \in 1..Len(s), s[i] = x PROVE \E j \in 1..Len(s) : j < i /\ s[j] = a
  <2>1. 1 \in 1..Len(s) /\ i # 1  BY <1>1, <1>2
  <2>. QED  BY <1>1, <1>2, <2>1
<1>. QED  BY <1>2 DEF Before, s

LEMMA LastOfFour ==
  ASSUME NEW a, NEW b, NEW c, NEW d, d \notin {a, b, c}, NEW x \in {a, b, c}
  PROVE  Before(<<a, b, c, d>>, d, x)
<1>. DEFINE s == <<a, b, c, d>>
<1>1. Len(s) = 4 /\ s[1] = a /\ s[2] = b /\ s[3] = c /\ s[4] = d  OBVIOUS
<1>. HIDE DEF s
<1>2. ASSUME NEW i \in 1..Len(s), s[i] = d PROVE \E j \in 1..Len(s) : j < i /\ s[j] = x
  <2>1. i = 4  BY <1>1, <1>2
  <2>2. 1 \in 1..Len(s) /\ 2 \in 1..Len(s) /\ 3 \in 1..Len(s)  BY <1>1
  <2>. QED  BY <1>1, <2>1, <2>2
<1>. QED  BY <1>2 DEF Before, s

LEMMA PortModes ==
  ASSUME mb_version = 2, NEW mode \in Garbage, NEW c, c = <<"1p">> => mode = 1,
         c = <<"0p">> => mode = 0
  PROVE  /\ set_usb_mode(1, mode) \in Seq(Operations)
         /\ Range(set_usb_mode(1, mode)) \subseteq Port
         /\ Wiring(set_usb_mode(1, mode), c, TRUE, {})
<1>. DEFINE on == SupplyOn  off == SupplyOff
            u1 == uswitch("1", TRUE)  u2 == uswitch("2", TRUE)  u3 == uswitch("3", TRUE)
            v1 == uswitch("1", FALSE)  v2 == uswitch("2", FALSE)  v3 == uswitch("3", FALSE)
<1>0. <<"0p">> # <<"1p">>  OBVIOUS
<1>1. usb_host_5v_set(FALSE) = off /\ usb_host_5v_set(TRUE) = on
  <2>1. ~(mb_version < 2)  OBVIOUS
  <2>. QED  BY Zenon, <2>1 DEF usb_host_5v_set, SupplyOn, SupplyOff
<1>2. /\ on \in Port /\ off \in Port /\ u1 \in Port /\ u2 \in Port /\ u3 \in Port
      /\ v1 \in Port /\ v2 \in Port /\ v3 \in Port
      /\ on # off /\ on \notin {u1, u2, u3, v1, v2, v3} /\ off \notin {u1, u2, u3, v1, v2, v3}
      /\ ~Closes(on) /\ ~Closes(off) /\ ~Closes(v1) /\ ~Closes(v2) /\ ~Closes(v3)
      /\ \A k \in Switches : uswitch(k, FALSE) \in {v1, v2, v3}
  <2>1. {"1", "2", "3"} \subseteq UswitchBits  BY DEF UswitchBits
  <2>2. on[1] = "pin" /\ off[1] = "pin"  BY PortParts
  <2>3. /\ u1 \in Port /\ u2 \in Port /\ u3 \in Port
        /\ v1 \in Port /\ v2 \in Port /\ v3 \in Port
        /\ u1[1] = "uswitch" /\ u2[1] = "uswitch" /\ u3[1] = "uswitch"
        /\ v1[1] = "uswitch" /\ v2[1] = "uswitch" /\ v3[1] = "uswitch"
    BY <2>1, PortParts
  <2>4. ~Closes(v1) /\ ~Closes(v2) /\ ~Closes(v3)  BY <2>1, PortParts
  <2>5. on \in Port /\ off \in Port /\ on # off /\ ~Closes(on) /\ ~Closes(off)  BY PortParts
  <2>6. \A k \in Switches : uswitch(k, FALSE) \in {v1, v2, v3}  BY DEF Switches
  <2>. HIDE DEF on, off, u1, u2, u3, v1, v2, v3
  <2>7. on \notin {u1, u2, u3, v1, v2, v3} /\ off \notin {u1, u2, u3, v1, v2, v3}
    BY <2>2, <2>3
  <2>. QED  BY <2>3, <2>4, <2>5, <2>6, <2>7
<1>3. Port \subseteq Operations  BY DEF Port
<1>4. SupplyOn = on /\ SupplyOff = off  OBVIOUS
<1>5. /\ set_usb_mode(1, 0) = <<off, u1, u2, u3>>
      /\ set_usb_mode(1, 1) = <<v1, v2, v3, on>>
      /\ set_usb_mode(1, 2) = <<off, u1, v2, u3>>
      /\ set_usb_mode(1, 3) = <<>>
  <2>. DEFINE h0 == usb_host_5v_set(FALSE)  h1 == usb_host_5v_set(TRUE)
  <2>1. h0 = off /\ h1 = on  BY <1>1
  <2>. HIDE DEF on, off, h0, h1, u1, u2, u3, v1, v2, v3
  <2>. DEFINE A0 == <<h0, u1, u2, u3>>  A1 == <<v1, v2, v3, h1>>  A2 == <<h0, u1, v2, u3>>
              is(m, p) == \/ m = 0 /\ p = A0
                          \/ m = 1 /\ p = A1
                          \/ m = 2 /\ p = A2
                          \/ m = 3 /\ p = <<>>
  <2>2. is(0, <<h0, u1, u2, u3>>) /\ is(1, <<v1, v2, v3, h1>>)
        /\ is(2, <<h0, u1, v2, u3>>) /\ is(3, <<>>)
    OBVIOUS
  <2>. HIDE DEF is
  <2>3. \A m \in Garbage : is(m, set_usb_mode(1, m))
    BY <2>2 DEF set_usb_mode, h0, h1, u1, u2, u3, v1, v2, v3, Garbage
  <2>4. /\ set_usb_mode(1, 0) = A0 /\ set_usb_mode(1, 1) = A1
        /\ set_usb_mode(1, 2) = A2 /\ set_usb_mode(1, 3) = <<>>
    <3>. HIDE DEF A0, A1, A2
    <3>. QED  BY <2>3 DEF is, Garbage
  <2>. QED  BY <2>1, <2>4
<1>. HIDE DEF on, off, u1, u2, u3, v1, v2, v3
<1>6. ASSUME NEW a \in {u1}, NEW b \in {u2, v2}, NEW d \in {u3}, c # <<"1p">>
      PROVE  /\ <<off, a, b, d>> \in Seq(Operations) /\ Range(<<off, a, b, d>>) \subseteq Port
             /\ Wiring(<<off, a, b, d>>, c, TRUE, {})
  <2>. DEFINE s == <<off, a, b, d>>
  <2>1. a \in Port /\ b \in Port /\ d \in Port /\ on \notin {off, a, b, d}  BY <1>2
  <2>2. s \in Seq(Operations) /\ Range(s) = {off, a, b, d}
    <3>1. off \in Operations /\ a \in Operations /\ b \in Operations /\ d \in Operations
      BY <1>2, <1>3, <2>1
    <3>. QED  BY ONLY <3>1, FourOf
  <2>3. \A x : x # off => Before(s, x, off)  BY FirstOfFour
  <2>. HIDE DEF s
  <2>4. on \notin Range(s) /\ off \in Range(s) /\ Range(s) \subseteq Port  BY <1>2, <2>1, <2>2
  <2>5. \A x : Before(s, on, x)
    <3>1. <<>> \in Seq(Operations)  OBVIOUS
    <3>. QED  BY <2>2, <2>4, <3>1, BeforeJoined
  <2>6. \A op \in Range(s) : Closes(op) => Before(s, op, off)  BY <1>2, <2>3
  <2>7. Wiring(s, c, TRUE, {})  BY <1>4, <1>6, <2>4, <2>5, <2>6 DEF Wiring
  <2>. QED  BY <2>2, <2>4, <2>7 DEF s
<1>7. CASE mode \in {0, 2}
  <2>1. c # <<"1p">>  BY <1>7
  <2>2. set_usb_mode(1, mode) \in {<<off, u1, u2, u3>>, <<off, u1, v2, u3>>}  BY <1>5, <1>7
  <2>3. /\ <<off, u1, u2, u3>> \in Seq(Operations) /\ Range(<<off, u1, u2, u3>>) \subseteq Port
        /\ Wiring(<<off, u1, u2, u3>>, c, TRUE, {})
    BY <1>6, <2>1
  <2>4. /\ <<off, u1, v2, u3>> \in Seq(Operations) /\ Range(<<off, u1, v2, u3>>) \subseteq Port
        /\ Wiring(<<off, u1, v2, u3>>, c, TRUE, {})
    BY <1>6, <2>1
  <2>. QED  BY <2>2, <2>3, <2>4
<1>8. CASE mode = 1
  <2>. DEFINE s == <<v1, v2, v3, on>>
  <2>1. c # <<"0p">>  BY <1>8
  <2>2. s \in Seq(Operations) /\ Range(s) = {v1, v2, v3, on}
    <3>1. v1 \in Operations /\ v2 \in Operations /\ v3 \in Operations /\ on \in Operations
      BY <1>2, <1>3
    <3>. QED  BY ONLY <3>1, FourOf
  <2>3. \A x \in {v1, v2, v3} : Before(s, on, x)  BY <1>2, LastOfFour
  <2>4. set_usb_mode(1, mode) = s  BY <1>5, <1>8
  <2>. HIDE DEF s
  <2>5. \A op \in Range(s) : ~Closes(op)  BY <1>2, <2>2
  <2>6. \A k \in Switches : Before(s, on, uswitch(k, FALSE)) /\ uswitch(k, FALSE) \in Range(s)
    BY <1>2, <2>2, <2>3
  <2>7. Wiring(s, c, TRUE, {})  BY <1>4, <2>1, <2>5, <2>6 DEF Wiring
  <2>8. Range(s) \subseteq Port  BY <1>2, <2>2
  <2>. QED  BY <2>2, <2>4, <2>7, <2>8
<1>9. CASE mode = 3
  <2>1. PICK s : s = <<>>  OBVIOUS
  <2>2. s \in Seq(Operations) /\ Range(s) = {} /\ set_usb_mode(1, mode) = s
    BY <1>5, <1>9, <2>1 DEF Range
  <2>3. c \notin PowerCommands  BY <1>9 DEF PowerCommands
  <2>4. Wiring(s, c, TRUE, {})  BY <2>2, <2>3, WiringStill
  <2>. QED  BY <2>2, <2>4
<1>. QED  BY <1>7, <1>8, <1>9 DEF Garbage

-----------------------------------------------------------------------------
(* What an operation of command c has done to the port when it is complete. *)
Wired(op, c) ==
  /\ Supplied' => Supplied \/ (op = SupplyOn /\ c \in Switching)
  /\ op = SupplyOff => ~Supplied'
  /\ \A k \in Opened : k \in Opened' \/ Closes(op)
  /\ \A k \in Switches : op = uswitch(k, FALSE) => k \in Opened'

LEMMA OpenedSame ==
  ASSUME shadow'.uswitch = shadow.uswitch, chip'.uswitch = chip.uswitch, lost'.uswitch = lost.uswitch
  PROVE  Opened' = Opened
BY DEF Opened

(* A write to the switches leaves open what their shadow says.             *)
LEMMA OpenedWritten ==
  ASSUME OutputsTyped, board = 2, shadow'["uswitch"] \in SUBSET UswitchBits,
         write_byte("uswitch", shadow'["uswitch"])
  PROVE  Opened' = Switches \ shadow'["uswitch"]
<1>1. lost["uswitch"] \in Nat  BY SomPowerAssumption DEF OutputsTyped
<1>2. lost'["uswitch"] = 0 => chip'["uswitch"] = shadow'["uswitch"]
  BY <1>1 DEF write_byte, OutputsTyped
<1>. QED  BY <1>2 DEF Opened

LEMMA DoWired ==
  ASSUME OutputsTyped, board = 2, NEW op \in Operations, op[2] # "ext",
         NEW c, Do(op, c), ~Expander(op)
  PROVE  Wired(op, c)
<1>1. CASE op[1] = "pin"
  <2>1. SetPin(op[2], op[3]) /\ Recorded(op, c) /\ UNCHANGED <<shadow, chip, lost>>
    BY <1>1 DEF Do, Flag, flags, expanders
  <2>2. op = gpio_put(op[2], op[3]) /\ op[3] \in BOOLEAN  BY <1>1, FlagOps
  <2>3. pins' = With(pins, op[2], op[3])  BY <2>1 DEF SetPin
  <2>4. Opened' = Opened  BY <2>1, OpenedSame
  <2>5. \A k \in Switches : op # uswitch(k, FALSE)  BY <1>1, PortParts
  <2>6. CASE op[2] # "usb2_5v"
    <3>1. Supplied' <=> Supplied  BY <2>1, <2>3, <2>6 DEF Supplied, With, Recorded
    <3>2. op # SupplyOff  BY <2>6, PortParts
    <3>. QED  BY <2>4, <2>5, <3>1, <3>2 DEF Wired
  <2>7. CASE op[2] = "usb2_5v" /\ op[3] = FALSE
    <3>1. ~Supplied'  BY <2>3, <2>7 DEF Supplied, With
    <3>. QED  BY <2>4, <2>5, <3>1 DEF Wired
  <2>8. CASE op[2] = "usb2_5v" /\ op[3] = TRUE
    <3>1. op = SupplyOn  BY <2>2, <2>8 DEF SupplyOn
    <3>2. op # SupplyOff  BY <2>8, PortParts
    <3>3. c \notin Switching => ByHand(op, c)  BY <1>1, <2>8 DEF ByHand, Switching
    <3>4. c \notin Switching => ~Supplied'  BY <2>1, <2>8, <3>3 DEF Recorded, Supplied
    <3>. QED  BY <2>4, <2>5, <3>1, <3>2, <3>4 DEF Wired
  <2>. QED  BY <2>2, <2>6, <2>7, <2>8
<1>2. CASE op[1] \in {"flag", "pulse", "usb_default", "version"}
  <2>1. UNCHANGED <<shadow, chip, lost, pins, byhand>>
    BY <1>2 DEF Do, Flag, outputs, expanders, flags
  <2>2. Opened' = Opened /\ Supplied' = Supplied  BY <2>1, OpenedSame DEF Supplied
  <2>3. op # SupplyOff /\ \A k \in Switches : op # uswitch(k, FALSE)  BY <1>2, PortParts
  <2>. QED  BY <2>2, <2>3 DEF Wired
<1>3. CASE op[1] = "setup"
  <2>0. op[2] = "uswitch" /\ op[3] \in BOOLEAN  BY <1>3, FlagOps
  <2>1. /\ shadow' = [shadow EXCEPT !["uswitch"] = IF op[3] THEN shadow["uswitch"] ELSE UswitchBits]
        /\ write_byte("uswitch", shadow'["uswitch"])
        /\ UNCHANGED <<pins, byhand>>
    BY <1>3, <2>0 DEF Do, Flag, outputs, flags
  <2>2. /\ shadow'["uswitch"] \in SUBSET UswitchBits
        /\ op[3] = TRUE => shadow'["uswitch"] = shadow["uswitch"]
    BY <2>1 DEF OutputsTyped
  <2>3. Opened' = Switches \ shadow'["uswitch"]  BY <2>1, <2>2, OpenedWritten
  <2>4. op[3] = TRUE => Opened \subseteq Opened'  BY <2>2, <2>3 DEF Opened
  <2>5. op[3] = FALSE => Closes(op)  BY <1>3, <2>0 DEF Closes
  <2>6. Supplied' = Supplied  BY <2>1 DEF Supplied
  <2>7. op # SupplyOff /\ \A k \in Switches : op # uswitch(k, FALSE)  BY <1>3, PortParts
  <2>. QED  BY <2>0, <2>4, <2>5, <2>6, <2>7 DEF Wired
<1>. QED  BY <1>1, <1>2, <1>3 DEF Operations, Expander

LEMMA WriteWired ==
  ASSUME OutputsTyped, board = 2, NEW op \in Operations, Expander(op), NEW c, Recorded(op, c),
         pins' = pins,
         \/ shadow' = [shadow EXCEPT ![op[1]] = With(shadow[op[1]], op[2], op[3])]
         \/ shadow' = shadow /\ (op[2] \in shadow[op[1]] <=> op[3]),
         write_byte(op[1], shadow'[op[1]])
  PROVE  Wired(op, c)
<1>1. op[1] \in {"ext", "uswitch"} /\ op[3] \in BOOLEAN /\ op[2] \in Bits(op[1])
  BY ExpanderOps
<1>2. op[2] # "usb2_5v"  BY <1>1 DEF Bits, ExtBits, UswitchBits
<1>3. Supplied' <=> Supplied  BY <1>2 DEF Supplied, Recorded
<1>4. op # SupplyOff  BY <1>1, PortParts
<1>5. CASE op[1] = "ext"
  <2>1. shadow'.uswitch = shadow.uswitch /\ chip'.uswitch = chip.uswitch /\ lost'.uswitch = lost.uswitch
    BY <1>5 DEF OutputsTyped, write_byte
  <2>2. Opened' = Opened  BY <2>1, OpenedSame
  <2>3. \A k \in Switches : op # uswitch(k, FALSE)  BY <1>5, PortParts
  <2>. QED  BY <1>3, <1>4, <2>2, <2>3 DEF Wired
<1>6. CASE op[1] = "uswitch"
  <2>1. op[2] \in UswitchBits  BY <1>1, <1>6 DEF Bits
  <2>2. shadow'["uswitch"] = With(shadow["uswitch"], op[2], op[3])
    BY <1>1, <1>6 DEF With, OutputsTyped
  <2>3. shadow'["uswitch"] \in SUBSET UswitchBits  BY <2>1, <2>2 DEF With, OutputsTyped
  <2>4. Opened' = Switches \ shadow'["uswitch"]  BY <1>6, <2>3, OpenedWritten
  <2>5. ASSUME NEW k \in Opened PROVE k \in Opened' \/ Closes(op)
    <3>1. k \in Switches /\ k \notin shadow["uswitch"]  BY DEF Opened
    <3>2. op[3] = FALSE \/ k # op[2] => k \notin shadow'["uswitch"]  BY <2>2, <3>1 DEF With
    <3>3. op[3] = TRUE /\ k = op[2] => Closes(op)  BY <1>6, <3>1 DEF Closes
    <3>. QED  BY <1>1, <2>4, <3>1, <3>2, <3>3
  <2>6. ASSUME NEW k \in Switches, op = uswitch(k, FALSE) PROVE k \in Opened'
    <3>1. op[2] = k /\ op[3] = FALSE  BY <2>6, PortParts
    <3>2. k \notin shadow'["uswitch"]  BY <2>2, <3>1 DEF With
    <3>. QED  BY <2>4, <3>2
  <2>. QED  BY <1>3, <1>4, <2>5, <2>6 DEF Wired
<1>. QED  BY <1>1, <1>5, <1>6

(* The first operation left of a program.                                  *)
LEMMA WiredTail ==
  ASSUME NEW s \in Seq(Operations), s # <<>>, NEW c, Wiring(s, c, Supplied, Opened),
         Wired(Head(s), c)
  PROVE  Wiring(Tail(s), c, Supplied', Opened')
<1>1. /\ Supplied' => Supplied \/ Head(s) = SupplyOn
      /\ Head(s) = SupplyOff => ~Supplied'
      /\ \A k \in Switches \cap Opened : k \in Opened' \/ Closes(Head(s))
      /\ \A k \in Switches : Head(s) = uswitch(k, FALSE) => k \in Opened'
  BY DEF Wired
<1>2. PICK up, open, on, more : up = Supplied /\ open = Opened /\ on = Supplied' /\ more = Opened'
  OBVIOUS
<1>3. Wiring(s, c, up, open)  BY <1>2
<1>4. /\ on => up \/ Head(s) = SupplyOn
      /\ Head(s) = SupplyOff => ~on
      /\ \A k \in Switches \cap open : k \in more \/ Closes(Head(s))
      /\ \A k \in Switches : Head(s) = uswitch(k, FALSE) => k \in more
  BY <1>1, <1>2
<1>5. Wiring(Tail(s), c, on, more)  BY <1>3, <1>4, WiringTail
<1>. QED  BY <1>2, <1>5

LEMMA HostHolds ==
  ASSUME NEW s \in Seq(Operations), s # <<>>, NEW c, Wiring(s, c, Supplied, Opened),
         Wired(Head(s), c), HostOnly
  PROVE  HostOnly'
<1>. DEFINE op == Head(s)
<1>1. op \in Range(s) /\ \A b : ~Before(s, op, b)  BY Begun, BeforeTail
<1>2. Opened \subseteq Switches /\ Opened' \subseteq Switches  BY DEF Opened
<1>3. ASSUME Supplied' PROVE Opened' = Switches
  <2>1. CASE Supplied
    <3>1. Opened = Switches  BY <2>1 DEF HostOnly
    <3>2. ~Closes(op)  BY <1>1, <2>1 DEF Wiring
    <3>. QED  BY <1>2, <3>1, <3>2 DEF Wired
  <2>2. CASE op = SupplyOn /\ c \in Switching
    <3>1. Opened = Switches  BY <1>1, <1>2, <2>2 DEF Wiring
    <3>2. ~Closes(op)  BY <2>2, PortParts
    <3>. QED  BY <1>2, <3>1, <3>2 DEF Wired
  <2>. QED  BY <1>3, <2>1, <2>2 DEF Wired
<1>. QED  BY <1>3 DEF HostOnly

(* Power on or off that has come to its end.                               *)
LEMMA HostDone ==
  ASSUME NEW c \in PowerCommands, Wiring(<<>>, c, Supplied', Opened')
  PROVE  HostOnly'
<1>1. PICK e : e = <<>>  OBVIOUS
<1>2. Range(e) = {} /\ Wiring(e, c, Supplied', Opened')  BY <1>1 DEF Range
<1>3. Opened' \subseteq Switches  BY DEF Opened
<1>4. c = <<"1p">> => Opened' = Switches  BY <1>2, <1>3 DEF Wiring
<1>5. c = <<"0p">> => ~Supplied'  BY <1>2 DEF Wiring
<1>. QED  BY <1>4, <1>5 DEF HostOnly, PowerCommands

LEMMA WiringDone ==
  ASSUME NEW c, c \notin PowerCommands, NEW up, NEW open
  PROVE  Wiring(<<>>, c, up, open)
<1>1. PICK e : e = <<>>  OBVIOUS
<1>2. e \in Seq(Operations) /\ Range(e) \subseteq Still  BY <1>1 DEF Range
<1>3. Wiring(e, c, up, open)  BY <1>2, WiringStill
<1>. QED  BY <1>1, <1>3

-----------------------------------------------------------------------------
(* The programs: whatever is not about the port comes first.               *)
CalmPiece(s) == s \in Seq(Operations) /\ Range(s) \subseteq Calm

Tame(s) == \A op \in Range(s) : op[1] \notin {"usb_default", "version", "setup"}

LEMMA CalmOps ==
  /\ \A b \in ExtBits, v \in BOOLEAN : <<"ext", b, v>> \in Calm
  /\ \A b \in ExtBits : gpio_ext_enable(b) \in Calm /\ gpio_ext_disable(b) \in Calm
  /\ \A p \in Pins \ {"usb2_5v"}, v \in BOOLEAN : gpio_put(p, v) \in Calm
  /\ \A f \in Flags, v \in BOOLEAN : Flag(f, v) \in Calm
  /\ <<"pulse", "resets", TRUE>> \in Calm
<1>1. ASSUME NEW b \in ExtBits, NEW v \in BOOLEAN PROVE <<"ext", b, v>> \in Calm
  <2>1. <<"ext", b, v>> \in Operations /\ b # "usb2_5v"  BY Operands DEF ExtBits
  <2>. QED  BY <2>1 DEF Calm, Still, Port
<1>2. ASSUME NEW p \in Pins \ {"usb2_5v"}, NEW v \in BOOLEAN PROVE gpio_put(p, v) \in Calm
  <2>1. gpio_put(p, v) \in Operations /\ gpio_put(p, v) = <<"pin", p, v>>  BY Operands
  <2>. QED  BY <2>1 DEF Calm, Still, Port
<1>3. ASSUME NEW f \in Flags, NEW v \in BOOLEAN PROVE Flag(f, v) \in Calm
  <2>1. Flag(f, v) \in Operations /\ Flag(f, v) = <<"flag", f, v>> /\ f # "usb2_5v"
    BY Operands DEF Flags
  <2>. QED  BY <2>1 DEF Calm, Still, Port
<1>4. <<"pulse", "resets", TRUE>> \in Calm
  <2>1. <<"pulse", "resets", TRUE>> \in Operations  BY Operands
  <2>. QED  BY <2>1 DEF Calm, Still, Port
<1>5. ASSUME NEW b \in ExtBits PROVE gpio_ext_enable(b) \in Calm /\ gpio_ext_disable(b) \in Calm
  BY <1>1, Operands
<1>. QED  BY <1>1, <1>2, <1>3, <1>4, <1>5

LEMMA CalmLiterals ==
  ASSUME NEW a \in Calm, NEW b \in Calm, NEW c \in Calm, NEW d \in Calm
  PROVE  /\ CalmPiece(<<>>) /\ CalmPiece(<<a>>) /\ CalmPiece(<<a, b>>) /\ CalmPiece(<<a, b, c>>)
         /\ CalmPiece(<<a, b, c, d>>)
<1>1. CalmPiece(<<>>)  BY DEF CalmPiece, Range
<1>2. a \in Operations /\ b \in Operations /\ c \in Operations /\ d \in Operations
  BY DEF Calm, Still
<1>. QED  BY <1>1, <1>2, OneOf, TwoOf, ThreeOf, FourOf DEF CalmPiece

LEMMA CalmJoined ==
  ASSUME NEW s, NEW t, CalmPiece(s), CalmPiece(t)
  PROVE  CalmPiece(s \o t)
BY Joined DEF CalmPiece

LEMMA CalmParts ==
  ASSUME NEW s, CalmPiece(s)
  PROVE  /\ s \in Seq(Operations) /\ Range(s) \subseteq Still /\ Tame(s)
         /\ Range(s) \cap Default = {} /\ Range(s) \cap Port = {}
         /\ \A op \in Range(s) : op[1] # "uswitch"
<1>1. \A op \in Calm : /\ op \in Still /\ op \notin Default /\ op \notin Port /\ op[1] # "uswitch"
                       /\ op[1] \notin {"usb_default", "version", "setup"}
  BY DEF Calm, Still, Default, Port
<1>. QED  BY <1>1 DEF CalmPiece, Tame

LEMMA PortTame ==
  ASSUME NEW op \in Port
  PROVE  op \in Operations /\ op[1] \in {"uswitch", "pin"} /\ op \notin Default
<1>1. op \in Operations /\ (op[1] = "uswitch" \/ op[2] = "usb2_5v")  BY DEF Port
<1>2. op[2] = "usb2_5v" => op[1] = "pin"
  BY <1>1 DEF Operations, ExtBits, UswitchBits, Flags
<1>. QED  BY <1>1, <1>2 DEF Default

LEMMA CalmPulse == mb_version = 2 => CalmPiece(pulse)
<1>. SUFFICES ASSUME mb_version = 2 PROVE CalmPiece(pulse)  OBVIOUS
<1>. DEFINE a(high) == IF mb_version < 2 THEN gpio_put("DISP_RESET_N", high)
                                         ELSE <<"ext", "DISP_RESET_N", high>>
            a0 == a(FALSE)  a1 == a(TRUE)
            m0 == gpio_put("modem_reset_n", FALSE)  m1 == gpio_put("modem_reset_n", TRUE)
<1>1. \A high \in BOOLEAN : a(high) = <<"ext", "DISP_RESET_N", high>>  OBVIOUS
<1>2. a0 \in Calm /\ a1 \in Calm /\ m0 \in Calm /\ m1 \in Calm
  <2>1. "DISP_RESET_N" \in ExtBits /\ "modem_reset_n" \in Pins \ {"usb2_5v"}  BY NamesOK
  <2>2. m0 \in Calm /\ m1 \in Calm  BY <2>1, CalmOps
  <2>3. a0 = <<"ext", "DISP_RESET_N", FALSE>> /\ a1 = <<"ext", "DISP_RESET_N", TRUE>>  BY <1>1
  <2>. QED  BY <2>1, <2>2, <2>3, CalmOps
<1>3. pulse = <<a0, m0, a1, m1>>  BY Zenon DEF pulse
<1>. HIDE DEF a0, a1, m0, m1
<1>. QED  BY <1>2, <1>3, CalmLiterals

(* Modes of the port as programs of a command that may set them.           *)
LEMMA ModesWhole ==
  ASSUME mb_version = 2, NEW mode \in Garbage, NEW c, c = <<"1p">> => mode = 1,
         c = <<"0p">> => mode = 0
  PROVE  Whole(set_usb_mode(1, mode), c)
<1>1. /\ mb_version = 2 /\ mode \in Garbage
      /\ (c = <<"1p">> => mode = 1) /\ (c = <<"0p">> => mode = 0)
  OBVIOUS
<1>2. /\ set_usb_mode(1, mode) \in Seq(Operations)
      /\ Range(set_usb_mode(1, mode)) \subseteq Port
      /\ Wiring(set_usb_mode(1, mode), c, TRUE, {})
  BY ONLY <1>1, PortModes
<1>3. Follow(set_usb_mode(1, mode), Port, Port)  BY <1>2, FollowAbsent
<1>. QED  BY <1>2, <1>3 DEF Whole

LEMMA On20Whole ==
  ASSUME mb_version = 2, NEW c \in {<<"1p">>, <<"boot">>}
  PROVE  LET s == turn_som_power_on IN
           s \in Seq(Operations) /\ Range(s) \subseteq Calm \cup Port /\ Whole(s, c)
<1>. DEFINE magic == Flag("boot_magic", TRUE)  loader == gpio_put("usb_loader", TRUE)
            som == Flag("som_is_powered", TRUE)
            A == <<magic, loader>>  D == <<som>>  E == set_usb_mode(1, 1)
            u == A \o RailsOn  v == u \o PeripheralsOn  w == v \o D
<1>1. magic \in Calm /\ loader \in Calm /\ som \in Calm
  <2>1. "boot_magic" \in Flags /\ "som_is_powered" \in Flags /\ "usb_loader" \in Pins \ {"usb2_5v"}
    BY NamesOK DEF Flags
  <2>. QED  BY <2>1, CalmOps
<1>2. turn_som_power_on = w \o E
  <2>1. turn_som_power_on = turn_som_power_on_v20  BY DEF turn_som_power_on
  <2>2. turn_som_power_on_v20 = w \o E  BY Zenon DEF turn_som_power_on_v20, magic, loader, som
  <2>. QED  BY <2>1, <2>2
<1>. HIDE DEF magic, loader, som
<1>3. CalmPiece(A) /\ CalmPiece(D)  BY <1>1, CalmLiterals
<1>4. CalmPiece(RailsOn)
  BY NamesOK, PiecesOfOn, CalmOps DEF Prog, CalmPiece
<1>5. CalmPiece(PeripheralsOn)
  <2>1. {"modem", "modem_reset_n", "DISP_EN"} \subseteq Pins \ {"usb2_5v"}  BY NamesOK
  <2>. QED  BY <2>1, NamesOK, PiecesOfOn, CalmOps DEF Prog, CalmPiece
<1>6. E \in Seq(Operations) /\ Range(E) \subseteq Port /\ Whole(E, c)
  <2>1. PICK mode : mode = 1  OBVIOUS
  <2>2. mode \in Garbage /\ (c = <<"1p">> => mode = 1) /\ (c = <<"0p">> => mode = 0)
    BY <2>1, CommandsDiffer DEF Garbage
  <2>3. /\ set_usb_mode(1, mode) \in Seq(Operations) /\ Range(set_usb_mode(1, mode)) \subseteq Port
        /\ Whole(set_usb_mode(1, mode), c)
    BY <2>2, PortModes, ModesWhole
  <2>. QED  BY <2>1, <2>3
<1>. HIDE DEF A, D, E
<1>7. CalmPiece(u)  BY <1>3, <1>4, CalmJoined
<1>. HIDE DEF u
<1>8. CalmPiece(v)  BY <1>5, <1>7, CalmJoined
<1>. HIDE DEF v
<1>9. CalmPiece(w)  BY <1>3, <1>8, CalmJoined
<1>. HIDE DEF w
<1>10. Whole(w \o E, c)  BY <1>6, <1>9, CalmParts, WholeJoined
<1>11. w \o E \in Seq(Operations) /\ Range(w \o E) \subseteq Calm \cup Port
  BY <1>6, <1>9, Joined DEF CalmPiece
<1>. QED  BY <1>2, <1>10, <1>11

LEMMA Off20Whole ==
  ASSUME mb_version = 2, NEW c \in {<<"0p">>, <<"boot">>}
  PROVE  LET s == turn_som_power_off IN
           s \in Seq(Operations) /\ Range(s) \subseteq Calm \cup Port /\ Whole(s, c)
<1>. DEFINE magic == Flag("boot_magic", FALSE)  som == Flag("som_is_powered", FALSE)
            loader == gpio_put("usb_loader", FALSE)  disp == gpio_put("DISP_EN", FALSE)
            A == <<som, magic>>  D == <<loader, disp>>  E == set_usb_mode(1, 0)
            u == A \o PeripheralsOff  v == u \o RailsOff  w == v \o D
<1>1. magic \in Calm /\ som \in Calm /\ loader \in Calm /\ disp \in Calm
  <2>1. "boot_magic" \in Flags /\ "som_is_powered" \in Flags
        /\ {"usb_loader", "DISP_EN"} \subseteq Pins \ {"usb2_5v"}
    BY NamesOK DEF Flags
  <2>. QED  BY <2>1, CalmOps
<1>2. turn_som_power_off = w \o E
  <2>1. turn_som_power_off = turn_som_power_off_v20  BY DEF turn_som_power_off
  <2>2. turn_som_power_off_v20 = w \o E
    BY Zenon DEF turn_som_power_off_v20, magic, loader, som, disp
  <2>. QED  BY <2>1, <2>2
<1>. HIDE DEF magic, loader, som, disp
<1>3. CalmPiece(A) /\ CalmPiece(D)  BY <1>1, CalmLiterals
<1>4. CalmPiece(RailsOff)
  BY NamesOK, PiecesOfOff, CalmOps DEF Prog, CalmPiece
<1>5. CalmPiece(PeripheralsOff)
  <2>1. {"modem", "modem_reset_n"} \subseteq Pins \ {"usb2_5v"}  BY NamesOK
  <2>. QED  BY <2>1, NamesOK, PiecesOfOff, CalmOps DEF Prog, CalmPiece
<1>6. E \in Seq(Operations) /\ Range(E) \subseteq Port /\ Whole(E, c)
  <2>1. PICK mode : mode = 0  OBVIOUS
  <2>2. mode \in Garbage /\ (c = <<"1p">> => mode = 1) /\ (c = <<"0p">> => mode = 0)
    BY <2>1, CommandsDiffer DEF Garbage
  <2>3. /\ set_usb_mode(1, mode) \in Seq(Operations) /\ Range(set_usb_mode(1, mode)) \subseteq Port
        /\ Whole(set_usb_mode(1, mode), c)
    BY <2>2, PortModes, ModesWhole
  <2>. QED  BY <2>1, <2>3
<1>. HIDE DEF A, D, E
<1>7. CalmPiece(u)  BY <1>3, <1>5, CalmJoined
<1>. HIDE DEF u
<1>8. CalmPiece(v)  BY <1>4, <1>7, CalmJoined
<1>. HIDE DEF v
<1>9. CalmPiece(w)  BY <1>3, <1>8, CalmJoined
<1>. HIDE DEF w
<1>10. Whole(w \o E, c)  BY <1>6, <1>9, CalmParts, WholeJoined
<1>11. w \o E \in Seq(Operations) /\ Range(w \o E) \subseteq Calm \cup Port
  BY <1>6, <1>9, Joined DEF CalmPiece
<1>. QED  BY <1>2, <1>10, <1>11

LEMMA CalmWhole ==
  ASSUME NEW s, CalmPiece(s), NEW c, c \notin PowerCommands
  PROVE  Whole(s, c) /\ Tame(s) /\ \A op \in Range(s) : op[1] # "uswitch"
<1>1. PICK up, open : up = TRUE /\ open = {}  OBVIOUS
<1>2. Wiring(s, c, up, open)  BY CalmParts, WiringStill
<1>3. Follow(s, Port, Port)  BY CalmParts, FollowAbsent
<1>4. Whole(s, c)  BY <1>1, <1>2, <1>3 DEF Whole
<1>. QED  BY <1>4, CalmParts

(* A USB command sets port 1, one switch, first.                           *)
LEMMA UsbWhole ==
  ASSUME mb_version = 2, NEW m \in {0, 1}, NEW mode \in Garbage, NEW c, c \notin PowerCommands
  PROVE  LET s == set_usb_mode(0, m) \o set_usb_mode(1, mode) IN Whole(s, c) /\ Tame(s)
<1>. DEFINE u0 == uswitch("4", FALSE)  u1 == uswitch("4", TRUE)
            A == set_usb_mode(0, m)  E == set_usb_mode(1, mode)
<1>1. /\ u0 \in Port /\ ~Closes(u0) /\ u0 # SupplyOn
      /\ u1 \in Port /\ ~Closes(u1) /\ u1 # SupplyOn
  <2>1. "4" \in UswitchBits /\ "4" \notin Switches  BY DEF UswitchBits, Switches
  <2>2. /\ u0 \in Port /\ u0[1] = "uswitch" /\ u0[2] = "4"
        /\ u1 \in Port /\ u1[1] = "uswitch" /\ u1[2] = "4"
    BY <2>1, PortParts
  <2>. HIDE DEF u0, u1
  <2>3. ~Closes(u0) /\ ~Closes(u1)  BY <2>1, <2>2 DEF Closes
  <2>. QED  BY <2>2, <2>3, PortParts
<1>2. \E x \in {u0, u1} : A = <<x>>
  <2>. HIDE DEF u0, u1
  <2>. DEFINE is(p) == \E x \in {u0, u1} : p = <<x>>
  <2>1. is(<<u0>>) /\ is(<<u1>>)  OBVIOUS
  <2>. HIDE DEF is
  <2>2. is(A)  BY <2>1 DEF set_usb_mode, u0, u1
  <2>. QED  BY <2>2 DEF is
<1>. HIDE DEF u0, u1, A
<1>3. PICK x \in {u0, u1} : A = <<x>>  BY <1>2
<1>4. x \in Port /\ ~Closes(x) /\ x # SupplyOn /\ x \in Operations  BY <1>1, PortTame
<1>5. /\ A \in Seq(Operations) /\ Range(A) \subseteq Port
      /\ \A op \in Range(A) : ~Closes(op) /\ op # SupplyOn
  <2>1. <<x>> \in Seq(Operations) /\ Range(<<x>>) = {x}  BY ONLY <1>4, OneOf
  <2>. QED  BY <1>3, <1>4, <2>1
<1>6. c # <<"1p">> /\ c # <<"0p">>  BY DEF PowerCommands
<1>7. E \in Seq(Operations) /\ Range(E) \subseteq Port /\ Wiring(E, c, TRUE, {})
  BY <1>6, PortModes
<1>. HIDE DEF E
<1>8. A \o E \in Seq(Operations) /\ Range(A \o E) \subseteq Port  BY <1>5, <1>7, Joined
<1>9. Wiring(A \o E, c, TRUE, {})  BY <1>5, <1>7, WiringJoined
<1>10. Follow(A \o E, Port, Port)  BY <1>8, FollowAbsent
<1>11. Tame(A \o E)  BY <1>8, PortTame DEF Tame
<1>12. Whole(A \o E, c)  BY <1>9, <1>10 DEF Whole
<1>. QED  BY <1>11, <1>12 DEF A, E

LEMMA GpioWhole ==
  ASSUME mb_version = 2, NEW id \in GpioIds, NEW high \in BOOLEAN, NEW c, c \notin Switching
  PROVE  LET s == hwapi_set_gpio(id, high) IN
           Whole(s, c) /\ Tame(s) /\ \A op \in Range(s) : op[1] # "uswitch"
<1>. DEFINE ok(s) == Whole(s, c) /\ Tame(s) /\ \A op \in Range(s) : op[1] # "uswitch"
            e(b) == <<"ext", b, high>>  t == hwapi_set_gpio(id, high)
<1>0. c \notin PowerCommands /\ c # <<"1p">> /\ c # <<"0p">>  BY DEF Switching, PowerCommands
<1>1. ASSUME NEW b \in ExtBits PROVE ok(<<e(b)>>)
  <2>1. e(b) \in Calm  BY CalmOps
  <2>. HIDE DEF e
  <2>2. CalmPiece(<<e(b)>>)  BY <2>1, CalmLiterals
  <2>. QED  BY <1>0, <2>2, CalmWhole
<1>2. CASE id = 7
  <2>. DEFINE x == usb_host_5v_set(high)
  <2>1. x = gpio_put("usb2_5v", high)
    <3>1. ~(mb_version < 2)  OBVIOUS
    <3>. QED  BY Zenon, <3>1 DEF usb_host_5v_set
  <2>2. x \in Operations /\ x[1] = "pin" /\ x[2] = "usb2_5v"
    BY <2>1, Operands, NamesOK
  <2>3. t = <<x>>  BY <1>2 DEF hwapi_set_gpio
  <2>. HIDE DEF x, t
  <2>4. PICK s : s = <<x>>  OBVIOUS
  <2>5. s \in Seq(Operations) /\ Range(s) = {x}  BY ONLY <2>2, <2>4, OneOf
  <2>6. x \in Port /\ ~Closes(x)  BY <2>2 DEF Port, Closes
  <2>7. Follow(s, Port, Port)  BY <2>5, <2>6, FollowAbsent
  <2>8. Wiring(s, c, TRUE, {})  BY <1>0, <2>5, <2>6 DEF Wiring
  <2>9. Tame(s) /\ \A op \in Range(s) : op[1] # "uswitch"  BY <2>2, <2>5 DEF Tame
  <2>10. Whole(s, c)  BY <2>7, <2>8 DEF Whole
  <2>11. t = s  BY <2>3, <2>4
  <2>12. Whole(t, c) /\ Tame(t) /\ \A op \in Range(t) : op[1] # "uswitch"
    BY ONLY <2>9, <2>10, <2>11
  <2>. QED  BY <2>12 DEF t
<1>3. CASE id # 7
  <2>1. {"DISP_RESET_N", "HUB_PWR", "PCIE_PWR", "3V3", "USWITCH_OFF", "DISP_BL_PWR", "DISP_1EN_2BL"}
          \subseteq ExtBits
    BY NamesOK
  <2>2. /\ Display("DISP_RESET_N", "DISP_RESET_N", high) = <<e("DISP_RESET_N")>>
        /\ Display("DISP_1EN_2BL", "DISP_EN", high) = <<e("DISP_1EN_2BL")>>
    <3>1. ~(mb_version < 2)  OBVIOUS
    <3>. QED  BY Zenon, <3>1 DEF Display
  <2>3. \E b \in ExtBits : t = <<e(b)>>
    <3>1. CASE id = 0  BY <2>1, <2>2, <3>1 DEF hwapi_set_gpio
    <3>2. CASE id = 9  BY <2>1, <2>2, <3>2 DEF hwapi_set_gpio
    <3>3. CASE id \in {1, 2, 3, 4, 5}  BY <2>1, <3>3 DEF hwapi_set_gpio
    <3>. QED  BY <1>3, <3>1, <3>2, <3>3 DEF GpioIds
  <2>. HIDE DEF t, e
  <2>4. PICK b \in ExtBits : t = <<e(b)>>  BY <2>3
  <2>5. Whole(t, c) /\ Tame(t) /\ \A op \in Range(t) : op[1] # "uswitch"  BY <1>1, <2>4
  <2>. QED  BY <2>5 DEF t
<1>. QED  BY <1>2, <1>3

LEMMA ProgramWhole ==
  ASSUME mb_version = 2, NEW c \in Commands
  PROVE  LET s == Program(c) IN
           /\ Whole(s, c) /\ Tame(s)
           /\ c \notin UsbCommands => \A op \in Range(s) : op[1] # "uswitch"
<1>. DEFINE s == Program(c)  mild(t) == \A op \in Range(t) : op[1] # "uswitch"
<1>1. \A t : Range(t) \subseteq Calm \cup Port => Tame(t)
  <2>1. \A op \in Calm \cup Port : op[1] \notin {"usb_default", "version", "setup"}
    BY PortTame DEF Calm, Still
  <2>. QED  BY <2>1 DEF Tame
<1>2. CASE c = <<"0p">>
  <2>1. s = turn_som_power_off  BY <1>2 DEF Program
  <2>2. Range(s) \subseteq Calm \cup Port /\ Whole(s, c)  BY <1>2, <2>1, Off20Whole
  <2>. QED  BY <1>1, <1>2, <2>2 DEF UsbCommands, PowerCommands
<1>3. CASE c = <<"1p">>
  <2>1. s = turn_som_power_on  BY <1>3 DEF Program
  <2>2. Range(s) \subseteq Calm \cup Port /\ Whole(s, c)  BY <1>3, <2>1, On20Whole
  <2>. QED  BY <1>1, <1>3, <2>2 DEF UsbCommands, PowerCommands
<1>4. CASE c \in {<<"1w">>, <<"soc-susp">>, <<"soc-psus">>}
  <2>1. c \notin PowerCommands  BY <1>4 DEF PowerCommands
  <2>2. {"DISP_RESET_N", "HUB_PWR", "3V3", "DISP_BL_PWR"} \subseteq ExtBits  BY NamesOK
  <2>3. /\ CalmPiece(som_wake) /\ CalmPiece(hwapi_soc_pre_suspend)
        /\ CalmPiece(hwapi_soc_post_suspend)
    BY <2>2, CalmOps, CalmLiterals DEF som_wake, hwapi_soc_pre_suspend, hwapi_soc_post_suspend
  <2>4. s \in {som_wake, hwapi_soc_pre_suspend, hwapi_soc_post_suspend}  BY <1>4 DEF Program
  <2>5. CalmPiece(s)  BY <2>3, <2>4
  <2>. HIDE DEF s
  <2>6. Whole(s, c) /\ Tame(s) /\ mild(s)  BY <2>1, <2>5, CalmWhole
  <2>. QED  BY <2>6 DEF s
<1>5. CASE c \in {<<"usb-sc">>, <<"usb-host">>, <<"usb-edl">>}
  <2>1. c \notin PowerCommands /\ c \in UsbCommands  BY <1>5 DEF PowerCommands, UsbCommands
  <2>2. \E m \in {0, 1}, mode \in Garbage : s = set_usb_mode(0, m) \o set_usb_mode(1, mode)
    <3>1. {0, 1, 2} \subseteq Garbage  BY DEF Garbage
    <3>2. \/ s = set_usb_mode(0, 0) \o set_usb_mode(1, 0)
          \/ s = set_usb_mode(0, 1) \o set_usb_mode(1, 1)
          \/ s = set_usb_mode(0, 0) \o set_usb_mode(1, 2)
      BY <1>5 DEF Program
    <3>. HIDE DEF s
    <3>. QED  BY Zenon, <3>1, <3>2
  <2>. HIDE DEF s
  <2>3. PICK m \in {0, 1}, mode \in Garbage : s = set_usb_mode(0, m) \o set_usb_mode(1, mode)
    BY <2>2
  <2>4. Whole(s, c) /\ Tame(s)  BY <2>1, <2>3, UsbWhole
  <2>. QED  BY <2>1, <2>4 DEF s
<1>6. ASSUME NEW id \in GpioIds, NEW high \in BOOLEAN, c = <<"set-gpio", id, high>>
      PROVE  Whole(s, c) /\ Tame(s) /\ mild(s)
  <2>1. s = hwapi_set_gpio(id, high)  BY <1>6 DEF Program
  <2>2. c \notin Switching  BY <1>6 DEF Switching, PowerCommands
  <2>. HIDE DEF s
  <2>. QED  BY <2>1, <2>2, GpioWhole
<1>. QED  BY <1>2, <1>3, <1>4, <1>5, <1>6 DEF Commands, PowerCommands

(* The boot after the board is known, which finds the supply off.          *)
LEMMA SetupWired ==
  ASSUME mb_version = 2, NEW w \in BOOLEAN, NEW open
  PROVE  Wiring(Setup(w), <<"boot">>, FALSE, open) /\ Follow(Setup(w), Default, Still)
<1>. DEFINE us == <<"setup", "uswitch", w>>  ud == <<"usb_default", "port2", TRUE>>
            A == <<us>>  S == <<SomOn>>  T == IF w THEN turn_som_power_on ELSE turn_som_power_off
            B == IF w THEN S \o T ELSE T  D == <<ud, ud, Listen>>  u == A \o B
            off == FALSE  boot == <<"boot">>
<1>1. us \in Operations /\ us # SupplyOn /\ us \notin Default /\ (w = TRUE => ~Closes(us))
  <2>1. us \in Operations /\ us[1] = "setup" /\ us[3] = w  BY Operands
  <2>. HIDE DEF us
  <2>. QED  BY <2>1, PortParts DEF Default, Closes
<1>2. ud \in Still /\ Listen \in Still /\ SomOn \in Calm
  <2>1. ud \in Operations  BY Operands
  <2>2. ud \in Still  BY <2>1 DEF Still, Port
  <2>3. Listen \in Calm /\ SomOn \in Calm  BY CalmOps DEF Listen, SomOn, Flags
  <2>. QED  BY <2>2, <2>3 DEF Calm
<1>3. Setup(w) = u \o D
  <2>. DEFINE A0 == IF mb_version >= 2 THEN A ELSE <<>>
              B0 == IF w THEN S \o turn_som_power_on ELSE turn_som_power_off
  <2>1. Setup(w) = (A0 \o B0) \o D  BY Zenon DEF Setup, Listen, SomOn
  <2>2. A0 = A  OBVIOUS
  <2>3. B0 = B  OBVIOUS
  <2>. QED  BY Zenon, <2>1, <2>2, <2>3
<1>4. /\ A \in Seq(Operations) /\ Range(A) = {us}
      /\ D \in Seq(Operations) /\ Range(D) \subseteq Still
  <2>. HIDE DEF us, ud
  <2>1. us \in Operations /\ ud \in Operations /\ Listen \in Operations  BY <1>1, <1>2 DEF Still
  <2>2. A \in Seq(Operations) /\ Range(A) = {us}  BY ONLY <2>1, OneOf
  <2>3. D \in Seq(Operations) /\ Range(D) = {ud, ud, Listen}  BY ONLY <2>1, ThreeOf
  <2>. QED  BY <1>2, <2>2, <2>3
<1>5. CalmPiece(S)
  <2>. QED  BY <1>2, CalmLiterals
<1>6. /\ T \in Seq(Operations) /\ Range(T) \subseteq Calm \cup Port /\ Whole(T, boot)
      /\ w = FALSE => SupplyOn \notin Range(T)
  <2>1. CASE w = TRUE
    <3>1. T = turn_som_power_on  BY <2>1
    <3>2. /\ turn_som_power_on \in Seq(Operations) /\ Range(turn_som_power_on) \subseteq Calm \cup Port
          /\ Whole(turn_som_power_on, <<"boot">>)
      BY On20Whole
    <3>. QED  BY <2>1, <3>1, <3>2
  <2>2. CASE w = FALSE
    <3>1. T = turn_som_power_off  BY <2>2
    <3>2. /\ turn_som_power_off \in Seq(Operations) /\ Range(turn_som_power_off) \subseteq Calm \cup Port
          /\ Whole(turn_som_power_off, <<"boot">>) /\ Whole(turn_som_power_off, <<"0p">>)
      BY Off20Whole
    <3>3. SupplyOn \notin Range(turn_som_power_off)  BY <3>2 DEF Whole, Wiring
    <3>. QED  BY <2>2, <3>1, <3>2, <3>3
  <2>. QED  BY <2>1, <2>2
<1>. HIDE DEF us, ud, A, S, T, D
<1>7. /\ B \in Seq(Operations) /\ Range(B) \subseteq Calm \cup Port /\ Whole(B, boot)
      /\ w = FALSE => SupplyOn \notin Range(B)
  <2>1. CASE w = TRUE
    <3>1. B = S \o T  BY <2>1
    <3>2. S \o T \in Seq(Operations) /\ Range(S \o T) \subseteq Calm \cup Port
      BY <1>5, <1>6, Joined DEF CalmPiece
    <3>3. Whole(S \o T, boot)  BY <1>5, <1>6, CalmParts, WholeJoined
    <3>. QED  BY <2>1, <3>1, <3>2, <3>3
  <2>2. CASE w = FALSE
    <3>1. B = T  BY <2>2
    <3>. QED  BY <1>6, <3>1
  <2>. QED  BY <2>1, <2>2
<1>. HIDE DEF B
<1>8. u \in Seq(Operations) /\ Range(u) = {us} \cup Range(B)
  BY <1>4, <1>7, Joined
<1>9. Wiring(u, boot, off, open)
  <2>1. CASE w = TRUE
    <3>1. Wiring(B, boot, off, open)  BY <1>7, WholeWiring
    <3>2. \A op \in Range(A) : ~Closes(op) /\ op # SupplyOn  BY <1>1, <1>4, <2>1
    <3>. QED  BY <1>4, <1>7, <3>1, <3>2, WiringJoined
  <2>2. CASE w = FALSE
    <3>1. SupplyOn \notin Range(u)  BY <1>1, <1>7, <1>8, <2>2
    <3>2. \A b : Before(u, SupplyOn, b)
      <4>1. <<>> \in Seq(Operations)  OBVIOUS
      <4>. QED  BY <1>8, <3>1, <4>1, BeforeJoined
    <3>3. boot # <<"1p">> /\ boot # <<"0p">>  BY CommandsDiffer
    <3>. QED  BY <3>1, <3>2, <3>3 DEF Wiring
  <2>. QED  BY <2>1, <2>2
<1>10. Range(u) \cap Default = {}
  BY <1>1, <1>7, <1>8, PortTame DEF Calm, Default
<1>11. Follow(D, Default, Still)  BY <1>4, FollowAbsent
<1>. HIDE DEF u
<1>12. Follow(u \o D, Default, Still)  BY <1>4, <1>8, <1>10, <1>11, FollowJoined
<1>13. Wiring(u \o D, boot, off, open)  BY <1>4, <1>8, <1>9, WiringThen
<1>. QED  BY <1>3, <1>12, <1>13

-----------------------------------------------------------------------------
(* The next operation of a program, and what is left after it.             *)
LEMMA RestCases ==
  ASSUME NEW s \in Seq(Operations), s # <<>>, NEW t \in Rest(s)
  PROVE  \/ t = Tail(s) /\ Head(s)[1] \notin {"version", "usb_default"}
         \/ Head(s)[1] = "pulse" /\ t = pulse \o Tail(s)
         \/ Head(s)[1] = "version" /\ Head(s)[3] \in BOOLEAN /\ t = Setup(Head(s)[3])
         \/ /\ Head(s)[1] = "usb_default"
            /\ \E mode \in Garbage : t = set_usb_mode(1, mode) \o Tail(s)
<1>1. Head(s)[3] \in BOOLEAN  BY Begun, FlagOps
<1>. QED  BY Zenon, <1>1 DEF Rest

LEMMA TameRest ==
  ASSUME mb_version = 2, NEW s \in Seq(Operations), s # <<>>, Tame(s), NEW t \in Rest(s)
  PROVE  /\ t \in Seq(Operations) /\ Tame(t) /\ Tame(Tail(s))
         /\ t = Tail(s) \/ (t = pulse \o Tail(s) /\ Head(s)[1] = "pulse")
         /\ t = <<>> => Tail(s) = <<>>
         /\ (\A op \in Range(s) : op[1] # "uswitch") => \A op \in Range(t) : op[1] # "uswitch"
<1>1. Range(s) = {Head(s)} \cup Range(Tail(s)) /\ Tail(s) \in Seq(Operations)  BY Begun
<1>2. Tame(Tail(s)) /\ Head(s)[1] \notin {"version", "usb_default"}  BY <1>1 DEF Tame
<1>3. t = Tail(s) \/ (t = pulse \o Tail(s) /\ Head(s)[1] = "pulse")  BY <1>2, RestCases
<1>4. CASE t = Tail(s)  BY <1>1, <1>2, <1>3, <1>4
<1>5. CASE t = pulse \o Tail(s)
  <2>1. /\ pulse \in Seq(Operations) /\ Tame(pulse) /\ \A op \in Range(pulse) : op[1] # "uswitch"
    BY CalmPulse, CalmParts
  <2>2. t \in Seq(Operations) /\ Range(t) = Range(pulse) \cup Range(Tail(s))
    <3>1. PICK p, r : p = pulse /\ r = Tail(s)  OBVIOUS
    <3>2. p \in Seq(Operations) /\ r \in Seq(Operations) /\ t = p \o r  BY <1>1, <1>5, <2>1, <3>1
    <3>3. p \o r \in Seq(Operations) /\ Range(p \o r) = Range(p) \cup Range(r)
      BY ONLY <3>2, Joined
    <3>. QED  BY <3>1, <3>2, <3>3
  <2>3. t = <<>> => Tail(s) = <<>>
    <3>1. PICK p, r : p = pulse /\ r = Tail(s)  OBVIOUS
    <3>2. p \in Seq(Operations) /\ r \in Seq(Operations) /\ t = p \o r  BY <1>1, <1>5, <2>1, <3>1
    <3>3. r # <<>> => p \o r # <<>>  BY ONLY <3>2, Joined
    <3>. QED  BY <3>1, <3>2, <3>3
  <2>. QED  BY <1>1, <1>2, <1>3, <2>1, <2>2, <2>3 DEF Tame
<1>. QED  BY <1>3, <1>4, <1>5

LEMMA WholeRest ==
  ASSUME mb_version = 2, NEW s \in Seq(Operations), s # <<>>, Tame(s), NEW c,
         Whole(s, c) \/ Range(s) \subseteq Port, NEW t \in Rest(s)
  PROVE  Whole(t, c) \/ Range(t) \subseteq Port
<1>1. Range(s) = {Head(s)} \cup Range(Tail(s)) /\ Tail(s) \in Seq(Operations)  BY Begun
<1>2. t = Tail(s) \/ (t = pulse \o Tail(s) /\ Head(s)[1] = "pulse")  BY TameRest
<1>3. CASE Head(s) \in Port
  <2>1. t = Tail(s)  BY <1>2, <1>3, PortTame
  <2>2. Whole(s, c) => Range(Tail(s)) \subseteq Port  BY <1>3, FollowTail DEF Whole
  <2>. QED  BY <1>1, <2>1, <2>2
<1>4. CASE Head(s) \notin Port
  <2>1. PICK up, open : up = TRUE /\ open = {}  OBVIOUS
  <2>2. Wiring(s, c, up, open) /\ Follow(s, Port, Port)  BY <1>1, <1>4, <2>1 DEF Whole
  <2>3. /\ up => up \/ Head(s) = SupplyOn
        /\ Head(s) = SupplyOff => ~up
        /\ \A k \in Switches \cap open : k \in open \/ Closes(Head(s))
        /\ \A k \in Switches : Head(s) = uswitch(k, FALSE) => k \in open
    BY <1>4, PortParts
  <2>4. Wiring(Tail(s), c, up, open)  BY <2>2, <2>3, WiringTail
  <2>5. Follow(Tail(s), Port, Port)  BY <2>2, FollowTail
  <2>6. Whole(Tail(s), c)  BY <2>1, <2>4, <2>5 DEF Whole
  <2>7. pulse \in Seq(Operations) /\ Range(pulse) \subseteq Still  BY CalmPulse, CalmParts
  <2>. QED  BY <1>1, <1>2, <2>6, <2>7, WholeJoined
<1>. QED  BY <1>3, <1>4

(* In a boot.                                                              *)
LEMMA DefaultRest ==
  ASSUME mb_version = 2, NEW s \in Seq(Operations), s # <<>>, Follow(s, Default, Still),
         NEW t \in Rest(s)
  PROVE  Follow(t, Default, Still)
<1>1. /\ Tail(s) \in Seq(Operations) /\ Follow(Tail(s), Default, Still)
  BY Begun, FollowTail
<1>2. CASE t = pulse \o Tail(s)
  <2>1. pulse \in Seq(Operations) /\ Range(pulse) \cap Default = {}  BY CalmPulse, CalmParts
  <2>. QED  BY <1>1, <1>2, <2>1, FollowJoined
<1>3. CASE Head(s)[3] \in BOOLEAN /\ t = Setup(Head(s)[3])
  BY <1>3, SetupWired
<1>4. ASSUME NEW mode \in Garbage, t = set_usb_mode(1, mode) \o Tail(s)
      PROVE  Follow(t, Default, Still)
  <2>1. PICK c : c = <<"none">>  OBVIOUS
  <2>2. c # <<"1p">> /\ c # <<"0p">>  BY <2>1
  <2>3. set_usb_mode(1, mode) \in Seq(Operations) /\ Range(set_usb_mode(1, mode)) \subseteq Port
    BY <2>2, PortModes
  <2>4. Range(set_usb_mode(1, mode)) \cap Default = {}  BY <2>3, PortTame
  <2>. QED  BY <1>1, <1>4, <2>3, <2>4, FollowJoined
<1>. QED  BY Zenon, <1>1, <1>2, <1>3, <1>4, RestCases

LEMMA WiredRest ==
  ASSUME mb_version = 2, NEW s \in Seq(Operations), s # <<>>, NEW c,
         Wiring(s, c, Supplied, Opened), Wired(Head(s), c),
         Tame(s) \/ (c = <<"boot">> /\ Follow(s, Default, Still)),
         Head(s)[1] = "version" => ~Supplied', NEW t \in Rest(s)
  PROVE  Wiring(t, c, Supplied', Opened')
<1>1. /\ Tail(s) \in Seq(Operations) /\ Head(s) \in Operations /\ Head(s) \in Range(s)
      /\ Wiring(Tail(s), c, Supplied', Opened')
  BY Begun, WiredTail
<1>2. PICK on, more, h : on = Supplied' /\ more = Opened' /\ h = Head(s)  OBVIOUS
<1>3. Wiring(Tail(s), c, on, more)  BY <1>1, <1>2
<1>4. ASSUME t = pulse \o Tail(s) PROVE Wiring(t, c, on, more)
  <2>1. pulse \in Seq(Operations) /\ Range(pulse) \subseteq Still  BY CalmPulse, CalmParts
  <2>2. \A op \in Range(pulse) : ~Closes(op) /\ op # SupplyOn  BY <2>1, StillApart
  <2>. QED  BY <1>1, <1>3, <1>4, <2>1, <2>2, WiringJoined
<1>5. ASSUME h[1] = "version", h[3] \in BOOLEAN, t = Setup(h[3]) PROVE Wiring(t, c, on, more)
  <2>1. ~on  BY <1>2, <1>5
  <2>2. c = <<"boot">>  BY <1>1, <1>2, <1>5 DEF Tame
  <2>3. PICK off : off = FALSE  OBVIOUS
  <2>4. Wiring(t, c, off, more)  BY <1>5, <2>2, <2>3, SetupWired
  <2>. QED  BY <2>1, <2>4, WiringWeaker
<1>6. ASSUME h[1] = "usb_default", NEW mode \in Garbage, t = set_usb_mode(1, mode) \o Tail(s)
      PROVE  Wiring(t, c, on, more)
  <2>1. c = <<"boot">> /\ Follow(s, Default, Still)  BY <1>1, <1>2, <1>6 DEF Tame
  <2>2. h \in Default  BY <1>1, <1>2, <1>6 DEF Default
  <2>3. Range(Tail(s)) \subseteq Still  BY <1>2, <2>1, <2>2, FollowTail
  <2>4. c # <<"1p">> /\ c # <<"0p">>  BY <2>1, CommandsDiffer
  <2>5. PICK up, open : up = TRUE /\ open = {}  OBVIOUS
  <2>6. set_usb_mode(1, mode) \in Seq(Operations) /\ Wiring(set_usb_mode(1, mode), c, up, open)
    BY <2>4, <2>5, PortModes
  <2>7. Wiring(t, c, up, open)  BY <1>1, <1>6, <2>3, <2>6, WiringThen
  <2>8. (on => up) /\ open \subseteq more  BY <2>5
  <2>. QED  BY <2>7, <2>8, WiringWeaker
<1>7. \/ t = Tail(s)
      \/ t = pulse \o Tail(s)
      \/ h[1] = "version" /\ h[3] \in BOOLEAN /\ t = Setup(h[3])
      \/ h[1] = "usb_default" /\ \E mode \in Garbage : t = set_usb_mode(1, mode) \o Tail(s)
  BY <1>2, RestCases
<1>8. Wiring(t, c, on, more)  BY Zenon, <1>3, <1>4, <1>5, <1>6, <1>7
<1>. QED  BY <1>2, <1>8

-----------------------------------------------------------------------------
(* On motherboard 2.0, taken for what it is: undisturbed, what is left of  *)
(* the main program fits the port as it is. The SOM's commands always do,  *)
(* and those that change the port's use come, but for a disturbance, when  *)
(* the main program has not begun to or is done with it.                   *)
MainWired ==
  /\ ~disturbed => Wiring(main, cmd, Supplied, Opened)
  /\ cmd # <<"boot">> => Tame(main) /\ (Whole(main, cmd) \/ Range(main) \subseteq Port)
  /\ cmd = <<"boot">> => Follow(main, Default, Still)

SpiWired ==
  /\ Wiring(isr, spi_cmd, Supplied, Opened) /\ Tame(isr)
  /\ isr # <<>> /\ spi_cmd \in UsbCommands /\ ~disturbed => ~InUsbMode
  /\ spi_cmd \notin UsbCommands => \A op \in Range(isr) : op[1] # "uswitch"

SupplyKnown ==
  /\ MainWired /\ SpiWired
  /\ ~torn \/ cmd = <<"boot">> => HostOnly

SupplyInv == board = 2 /\ mb_version = 2 => SupplyKnown

LEMMA NothingWired ==
  ASSUME NEW c, c \notin PowerCommands
  PROVE  /\ \A up : \A open : Wiring(<<>>, c, up, open)
         /\ Tame(<<>>) /\ Range(<<>>) = {} /\ Follow(<<>>, Default, Still)
<1>1. Range(<<>>) = {}  BY DEF Range
<1>2. Tame(<<>>)  BY <1>1 DEF Tame
<1>3. <<>> \in Seq(Operations)  OBVIOUS
<1>4. Follow(<<>>, Default, Still)  BY <1>1, <1>3, FollowAbsent
<1>5. ASSUME NEW up, NEW open PROVE Wiring(<<>>, c, up, open)  BY WiringDone
<1>. QED  BY <1>1, <1>2, <1>4, <1>5

(* No interrupt is being handled.                                          *)
LEMMA SpiNothing ==
  ASSUME isr' = <<>>, spi_cmd' \in {<<"none">>, More}
  PROVE  SpiWired'
<1>1. PICK c : c = spi_cmd' /\ c \notin PowerCommands
  BY CommandsDiffer DEF PowerCommands
<1>2. Wiring(<<>>, c, Supplied', Opened') /\ Tame(<<>>) /\ Range(<<>>) = {}
  BY <1>1, NothingWired
<1>. QED  BY <1>1, <1>2 DEF SpiWired

LEMMA MainMovesWired ==
  ASSUME SomInv, mb_version = 2, SupplyKnown, isr = <<>>, spi_cmd # More, main # <<>>, MainMoves,
         ~disturbed => Wired(Head(main), cmd), Head(main)[1] = "version" => ~Supplied'
  PROVE  SupplyKnown'
<1>1. PICK s, c, t : s = main /\ c = cmd /\ t = main'  OBVIOUS
<1>2. /\ s \in Seq(Operations) /\ s # <<>> /\ t \in Rest(s) /\ Alone /\ isr' = <<>>
      /\ spi_cmd' = <<"none">> /\ c \in Commands \cup {<<"none">>, <<"boot">>}
      /\ torn' = IF t = <<>> /\ c \in Switching THEN disturbed ELSE torn
      /\ cmd' = IF t = <<>> THEN <<"none">> ELSE c
      /\ disturbed' = (disturbed /\ t # <<>>) /\ disturbed \in BOOLEAN
  BY <1>1 DEF SomInv, SomSafe, SomTyped, ProgramsTyped, FlagsTyped, MainMoves, isr_vars, Alone,
     Switching
<1>3. c # <<"boot">> =>
        /\ Tame(t) /\ (Whole(t, c) \/ Range(t) \subseteq Port)
        /\ t = <<>> => Tail(s) = <<>>
  BY <1>1, <1>2, TameRest, WholeRest DEF SupplyKnown, MainWired
<1>4. c = <<"boot">> => Follow(t, Default, Still)
  BY <1>1, <1>2, DefaultRest DEF SupplyKnown, MainWired
<1>5. ASSUME ~disturbed
      PROVE  /\ Wiring(s, c, Supplied, Opened) /\ Wired(Head(s), c)
             /\ Wiring(t, c, Supplied', Opened')
  <2>1. Wiring(s, c, Supplied, Opened)  BY <1>1, <1>5 DEF SupplyKnown, MainWired
  <2>2. Wired(Head(s), c)  BY <1>1, <1>5
  <2>3. Tame(s) \/ (c = <<"boot">> /\ Follow(s, Default, Still))
    BY <1>1 DEF SupplyKnown, MainWired
  <2>4. Head(s)[1] = "version" => ~Supplied'  BY <1>1
  <2>. QED  BY <1>2, <2>1, <2>2, <2>3, <2>4, WiredRest
<1>6. SpiWired'  BY <1>2, SpiNothing
<1>7. MainWired'
  <2>1. CASE t = <<>>
    <3>1. cmd' = <<"none">> /\ main' = <<>>  BY <1>1, <1>2, <2>1
    <3>2. <<"none">> \notin PowerCommands /\ <<"none">> # <<"boot">>  BY CommandsDiffer
    <3>3. Wiring(<<>>, <<"none">>, Supplied', Opened') /\ Tame(<<>>) /\ Range(<<>>) = {}
      BY <3>2, NothingWired
    <3>. QED  BY <3>1, <3>2, <3>3 DEF MainWired
  <2>2. CASE t # <<>>
    <3>1. cmd' = c /\ main' = t /\ disturbed' = disturbed  BY <1>1, <1>2, <2>2
    <3>. QED  BY <1>3, <1>4, <1>5, <3>1 DEF MainWired
  <2>. QED  BY <2>1, <2>2
<1>8. ASSUME ~torn' \/ cmd' = <<"boot">> PROVE HostOnly'
  <2>1. ~disturbed
    <3>1. disturbed => torn /\ c # <<"boot">>  BY <1>1, <1>2 DEF Alone
    <3>. QED  BY <1>2, <1>8, <3>1, CommandsDiffer
  <2>2. CASE ~torn \/ c = <<"boot">>
    <3>1. HostOnly  BY <1>1, <2>2 DEF SupplyKnown
    <3>. QED  BY <1>2, <1>5, <2>1, <3>1, HostHolds
  <2>3. CASE torn /\ c # <<"boot">>
    <3>1. t = <<>> /\ c \in PowerCommands  BY <1>2, <1>8, <2>3, CommandsDiffer DEF Switching
    <3>2. Wiring(<<>>, c, Supplied', Opened')  BY <1>5, <2>1, <3>1
    <3>. QED  BY <3>1, <3>2, HostDone
  <2>. QED  BY <1>2, <2>2, <2>3
<1>. QED  BY <1>6, <1>7, <1>8 DEF SupplyKnown

LEMMA MainDoesWired == ASSUME SomInv, Booting, SupplyInv, MainDoes PROVE SupplyInv'
<1>. SUFFICES ASSUME board' = 2, mb_version' = 2 PROVE SupplyKnown'  BY DEF SupplyInv
<1>. DEFINE op == Head(main)
<1>1. /\ isr = <<>> /\ spi_cmd # More /\ main # <<>> /\ ~Expander(op) /\ Do(op, cmd) /\ MainMoves
      /\ phase' = phase /\ isr' = <<>> /\ board = 2 /\ spi_cmd' = spi_cmd
  BY DEF MainDoes, Handling, Busy, MainMoves, isr_vars
<1>2. /\ SomTyped /\ Alone /\ OutputsTyped
      /\ main \in Seq(Operations) /\ op \in Operations /\ Kind(main, cmd)
      /\ spi_cmd = <<"none">>
  BY <1>1, Begun DEF SomInv, SomSafe, SomTyped, ProgramsTyped, Kinds, Alone
<1>3. PICK s, c, t : s = main /\ c = cmd /\ t = main'  OBVIOUS
<1>4. /\ s \in Seq(Operations) /\ s # <<>> /\ Kind(s, c) /\ t \in Rest(s) /\ Head(s) = op
  BY <1>1, <1>2, <1>3 DEF MainMoves
<1>5. CASE op[2] # "ext"
  <2>1. mb_version = 2  BY <1>1, <1>2, <1>5, DoEffect
  <2>2. SupplyKnown  BY <1>1, <2>1 DEF SupplyInv
  <2>3. Wired(op, cmd)  BY <1>1, <1>2, <1>5, DoWired
  <2>4. ASSUME op[1] = "version" PROVE ~Supplied'
    <3>1. op[2] = "board"  BY <1>2, <2>4 DEF Operations
    <3>2. c = <<"boot">> /\ \E w \in BOOLEAN : s = Version(w)  BY <1>4, <3>1, KindHead
    <3>3. op \in Range(main)  BY <1>1, <1>2, Begun
    <3>4. ~Cold(main) /\ ~Warm(main)
      BY <3>1, <3>3 DEF Cold, Warm, WarmPiece, Keeps
    <3>5. pins = {}  BY <1>3, <3>2, <3>4 DEF Booting
    <3>6. ~Supplied  BY <3>5 DEF Supplied
    <3>7. op # SupplyOn  BY <2>4, PortParts
    <3>. QED  BY <2>3, <3>6, <3>7 DEF Wired
  <2>. QED  BY <1>1, <2>1, <2>2, <2>3, <2>4, MainMovesWired
<1>6. CASE op[2] = "ext"
  <2>1. c = <<"boot">> /\ \E w \in BOOLEAN : s = Boot(w)  BY <1>4, <1>6, KindHead
  <2>2. PICK w \in BOOLEAN : s = Boot(w)  BY <2>1
  <2>3. Head(s) = <<"setup", "ext", w>> /\ Tail(s) = Version(w)  BY <2>2, Boots DEF Version
  <2>4. t = Version(w) /\ t # <<>>
    <3>1. Head(s)[1] = "setup"  BY <2>3
    <3>2. t = Tail(s)  BY ONLY <1>4, <3>1 DEF Rest
    <3>3. Version(w) # <<>>  BY DEF Version
    <3>. QED  BY <2>3, <3>2, <3>3
  <2>5. main' = t /\ cmd' = <<"boot">>  BY <1>1, <1>3, <2>1, <2>4 DEF MainMoves
  <2>6. ~Supplied'
    <3>1. op \in Range(main)  BY <1>1, <1>2, Begun
    <3>2. ~Cold(main) /\ ~Warm(main)  BY <1>6, <3>1 DEF Cold, Warm, WarmPiece, Keeps
    <3>3. pins = {}  BY <1>3, <2>1, <3>2 DEF Booting
    <3>4. op[1] = "setup"  BY <1>4, <2>3
    <3>5. pins' = pins  BY <1>1, <3>4 DEF Do, Flag, outputs
    <3>. QED  BY <3>3, <3>5 DEF Supplied
  <2>7. SpiWired'  BY <1>1, <1>2, SpiNothing
  <2>8. /\ t \in Seq(Operations) /\ SupplyOn \notin Range(t) /\ \A x \in Range(t) : ~Closes(x)
        /\ Range(t) \cap Default = {}
    <3>. DEFINE v == <<"version", "board", w>>
    <3>1. v \in Operations /\ v[1] = "version"  BY Operands
    <3>2. t = <<v>>  BY <2>4 DEF Version
    <3>. HIDE DEF v
    <3>3. t \in Seq(Operations) /\ Range(t) = {v}  BY ONLY <3>1, <3>2, OneOf
    <3>4. v # SupplyOn /\ ~Closes(v) /\ v \notin Default  BY <3>1, PortParts DEF Closes, Default
    <3>. QED  BY <3>3, <3>4
  <2>9. Wiring(t, <<"boot">>, Supplied', Opened')
    <3>1. \A b : Before(t, SupplyOn, b)  BY <2>8, Standing DEF Before
    <3>. QED  BY <2>8, <3>1, CommandsDiffer DEF Wiring
  <2>10. Follow(t, Default, Still)  BY <2>8, FollowAbsent
  <2>11. MainWired'  BY <2>5, <2>9, <2>10 DEF MainWired
  <2>12. HostOnly'  BY <2>6 DEF HostOnly
  <2>. QED  BY <2>7, <2>11, <2>12 DEF SupplyKnown
<1>. QED  BY <1>5, <1>6

(* When nothing changes that all of this is about.                         *)
LEMMA SupplySame ==
  ASSUME SupplyInv,
         UNCHANGED <<board, main, cmd, isr, spi_cmd, mb_version, shadow, chip, lost, pins,
                     disturbed, torn, byhand>>
  PROVE  SupplyInv'
<1>1. Opened' = Opened /\ Supplied' = Supplied  BY DEF Opened, Supplied
<1>2. HostOnly' <=> HostOnly  BY <1>1 DEF HostOnly
<1>3. InUsbMode' <=> InUsbMode  BY DEF InUsbMode, Busy
<1>4. MainWired => MainWired'  BY <1>1 DEF MainWired
<1>5. SpiWired => SpiWired'  BY <1>1, <1>3 DEF SpiWired
<1>. QED  BY <1>2, <1>4, <1>5 DEF SupplyInv, SupplyKnown

LEMMA LoadShadowWired == ASSUME SupplyInv, LoadShadow PROVE SupplyInv'
<1>1. UNCHANGED <<board, main, cmd, isr, spi_cmd, mb_version, shadow, chip, lost, pins,
                  disturbed, torn, byhand>>
  BY DEF LoadShadow, isr_vars, flags, expanders, outputs, history
<1>. QED  BY <1>1, SupplySame

LEMMA StoreShadowWired == ASSUME SomInv, SupplyInv, StoreShadow PROVE SupplyInv'
<1>. SUFFICES ASSUME board' = 2, mb_version' = 2 PROVE SupplyKnown'  BY DEF SupplyInv
<1>. DEFINE op == Head(main)
<1>1. /\ isr = <<>> /\ spi_cmd # More /\ phase = "loaded"
      /\ held' = With(held, op[2], op[3])
      /\ shadow' = [shadow EXCEPT ![op[1]] = held']
      /\ UNCHANGED <<board, main, cmd, isr, spi_cmd, mb_version, chip, lost, pins,
                     disturbed, torn, byhand>>
  BY DEF StoreShadow, Handling, Busy, isr_vars, flags, outputs, history
<1>2. /\ HeldOK /\ Alone /\ SomTyped /\ OutputsTyped /\ SupplyKnown
      /\ spi_cmd = <<"none">> /\ spi_cmd' = <<"none">> /\ isr' = <<>>
  BY <1>1 DEF SomInv, SomSafe, SomTyped, SupplyInv, Alone
<1>3. main \in Seq(Operations) /\ main # <<>> /\ Expander(op) /\ op \in Operations
      /\ op \in Range(main)
  BY <1>1, <1>2, Begun DEF SomTyped, ProgramsTyped
<1>4. op[1] \in {"ext", "uswitch"} /\ op[2] \in Bits(op[1]) /\ op[3] \in BOOLEAN
  BY <1>3, ExpanderOps
<1>5. Supplied' = Supplied  BY <1>1 DEF Supplied
<1>6. ASSUME ~disturbed, NEW k \in Opened PROVE k \in Opened' \/ Closes(op)
  <2>1. held = shadow[op[1]]  BY <1>1, <1>2, <1>6 DEF HeldOK
  <2>2. CASE op[1] = "ext"
    <3>1. shadow'.uswitch = shadow.uswitch  BY <1>1, <1>2, <2>2 DEF OutputsTyped
    <3>2. Opened' = Opened  BY <1>1, <3>1, OpenedSame
    <3>. QED  BY <1>6, <3>2
  <2>3. CASE op[1] = "uswitch"
    <3>1. shadow'.uswitch = With(shadow.uswitch, op[2], op[3])
      BY <1>1, <1>2, <2>1, <2>3 DEF OutputsTyped
    <3>2. k \in Switches /\ k \notin shadow.uswitch /\ (lost.uswitch = 0 => k \notin chip.uswitch)
      BY <1>6 DEF Opened
    <3>3. op[3] = FALSE \/ k # op[2] => k \notin shadow'.uswitch  BY <3>1, <3>2 DEF With
    <3>4. op[3] = TRUE /\ k = op[2] => Closes(op)  BY <2>3, <3>2 DEF Closes
    <3>. QED  BY <1>1, <1>4, <3>2, <3>3, <3>4 DEF Opened
  <2>. QED  BY <1>4, <2>2, <2>3
<1>7. PICK s, c : s = main /\ c = cmd  OBVIOUS
<1>8. ASSUME ~disturbed PROVE Wiring(s, c, Supplied', Opened')
  <2>1. PICK up, open, on, more : up = Supplied /\ open = Opened /\ on = Supplied' /\ more = Opened'
    OBVIOUS
  <2>2. Wiring(s, c, up, open)  BY <1>2, <1>7, <1>8, <2>1 DEF SupplyKnown, MainWired
  <2>3. s \in Seq(Operations) /\ s # <<>> /\ (on => up)
        /\ \A k \in Switches \cap open : k \in more \/ Closes(Head(s))
    BY <1>3, <1>5, <1>6, <1>7, <1>8, <2>1
  <2>4. Wiring(s, c, on, more)  BY <2>2, <2>3, WiringHere
  <2>. QED  BY <2>1, <2>4
<1>9. MainWired'
  <2>1. main' = s /\ cmd' = c /\ disturbed' = disturbed  BY <1>1, <1>7
  <2>. QED  BY <1>2, <1>7, <1>8, <2>1 DEF SupplyKnown, MainWired
<1>10. SpiWired'  BY <1>2, SpiNothing
<1>11. ASSUME ~torn' \/ cmd' = <<"boot">> PROVE HostOnly'
  <2>1. ~disturbed /\ HostOnly  BY <1>1, <1>2, <1>11 DEF Alone, SupplyKnown
  <2>2. ASSUME Supplied' PROVE Opened' = Switches
    <3>1. Opened = Switches  BY <1>5, <2>1, <2>2 DEF HostOnly
    <3>2. ~Before(main, op, SupplyOff)  BY <1>3, BeforeTail
    <3>3. ~Closes(op)  BY <1>2, <1>3, <1>5, <2>1, <2>2, <3>2 DEF SupplyKnown, MainWired, Wiring
    <3>4. Opened' \subseteq Switches  BY DEF Opened
    <3>. QED  BY <1>6, <2>1, <3>1, <3>3, <3>4
  <2>. QED  BY <2>2 DEF HostOnly
<1>. QED  BY <1>9, <1>10, <1>11 DEF SupplyKnown

LEMMA WriteChipWired == ASSUME SomInv, SupplyInv, WriteChip PROVE SupplyInv'
<1>. SUFFICES ASSUME board' = 2, mb_version' = 2 PROVE SupplyKnown'  BY DEF SupplyInv
<1>. DEFINE op == Head(main)
<1>1. /\ isr = <<>> /\ spi_cmd # More /\ phase = "stored" /\ write_byte(op[1], held)
      /\ Recorded(op, cmd) /\ MainMoves
      /\ UNCHANGED <<board, mb_version, shadow, pins>>
  BY DEF WriteChip, Handling, Busy, flags, outputs, MainMoves
<1>2. SomTyped /\ HeldOK /\ OutputsTyped /\ SupplyKnown
  BY <1>1 DEF SomInv, SomSafe, SomTyped, SupplyInv
<1>3. main \in Seq(Operations) /\ main # <<>> /\ Expander(op) /\ op \in Operations
  BY <1>1, <1>2, Begun DEF SomTyped, ProgramsTyped
<1>4. ASSUME ~disturbed PROVE Wired(op, cmd)
  <2>1. held = shadow[op[1]] /\ (op[2] \in held <=> op[3])  BY <1>1, <1>2, <1>4 DEF HeldOK
  <2>2. write_byte(op[1], shadow'[op[1]])  BY <1>1, <2>1
  <2>. QED  BY <1>1, <1>2, <1>3, <2>1, <2>2, WriteWired
<1>5. op[1] # "version"  BY <1>3, ExpanderOps
<1>. QED  BY <1>1, <1>2, <1>3, <1>4, <1>5, MainMovesWired

LEMMA LoopCommandWired == ASSUME SomInv, SupplyInv, LoopCommand PROVE SupplyInv'
<1>. SUFFICES ASSUME board' = 2, mb_version' = 2 PROVE SupplyKnown'  BY DEF SupplyInv
<1>1. /\ isr = <<>> /\ spi_cmd # More /\ main = <<>> /\ cmd' \in Commands /\ main' = Program(cmd')
      /\ UNCHANGED <<board, isr, spi_cmd, mb_version, shadow, chip, lost, pins,
                     disturbed, torn, byhand>>
  BY SomPowerAssumption
     DEF LoopCommand, Handling, Busy, isr_vars, flags, expanders, outputs, history
<1>2. Alone /\ SupplyKnown /\ isr' = <<>> /\ spi_cmd' = <<"none">>
  BY <1>1 DEF SomInv, SomSafe, SupplyInv, Alone
<1>3. PICK c, t : c \in Commands /\ c = cmd' /\ t = Program(c)  BY <1>1
<1>4. main' = t /\ cmd' = c /\ c # <<"boot">>  BY <1>1, <1>3, CommandsDiffer
<1>5. Whole(t, c) /\ Tame(t)  BY <1>1, <1>3, ProgramWhole
<1>6. Wiring(t, c, Supplied', Opened')  BY <1>5, WholeWiring
<1>7. MainWired'  BY <1>4, <1>5, <1>6 DEF MainWired
<1>8. SpiWired'  BY <1>2, SpiNothing
<1>9. Opened' = Opened /\ Supplied' = Supplied  BY <1>1 DEF Opened, Supplied
<1>10. ~torn' => HostOnly'  BY <1>1, <1>2, <1>9 DEF SupplyKnown, HostOnly
<1>. QED  BY <1>4, <1>7, <1>8, <1>10 DEF SupplyKnown

LEMMA SpiCommandWired == ASSUME SomInv, SupplyInv, SpiCommand PROVE SupplyInv'
<1>. SUFFICES ASSUME board' = 2, mb_version' = 2 PROVE SupplyKnown'  BY DEF SupplyInv
<1>1. /\ spi_cmd = More \/ irq
      /\ isr = <<>> /\ spi_cmd' \in Commands /\ isr' = Program(spi_cmd')
      /\ disturbed' = (disturbed \/ Disturbs(spi_cmd')) /\ torn' = (torn \/ Disturbs(spi_cmd'))
      /\ UNCHANGED <<board, main, cmd, mb_version, shadow, chip, lost, pins, byhand>>
  BY SomPowerAssumption
     DEF SpiCommand, Busy, main_vars, flags, expanders, outputs
<1>2. Alone /\ SupplyKnown /\ cmd # <<"boot">> /\ cmd' # <<"boot">>
  BY <1>1, CommandsDiffer DEF SomInv, SomSafe, SupplyInv, Alone
<1>3. PICK c, t : c \in Commands /\ c = spi_cmd' /\ t = Program(c)  BY <1>1
<1>4. isr' = t /\ spi_cmd' = c  BY <1>1, <1>3
<1>5. Whole(t, c) /\ Tame(t) /\ (c \notin UsbCommands => \A op \in Range(t) : op[1] # "uswitch")
  BY <1>1, <1>3, ProgramWhole
<1>6. Wiring(t, c, Supplied', Opened')  BY <1>5, WholeWiring
<1>7. Opened' = Opened /\ Supplied' = Supplied  BY <1>1 DEF Opened, Supplied
<1>8. c \in UsbCommands /\ ~disturbed' => ~InUsbMode'
  <2>1. InUsbMode' <=> InUsbMode  BY <1>1 DEF InUsbMode, Busy
  <2>. QED  BY <1>1, <1>4, <2>1 DEF Disturbs
<1>9. SpiWired'  BY <1>4, <1>5, <1>6, <1>8 DEF SpiWired
<1>10. MainWired'
  <2>1. ~disturbed' => ~disturbed  BY <1>1
  <2>. QED  BY <1>1, <1>2, <1>7, <2>1 DEF SupplyKnown, MainWired
<1>11. ~torn' => HostOnly'  BY <1>1, <1>2, <1>7 DEF SupplyKnown, HostOnly
<1>. QED  BY <1>2, <1>9, <1>10, <1>11 DEF SupplyKnown

LEMMA SpiDoesWired == ASSUME SomInv, SupplyInv, SpiDoes PROVE SupplyInv'
<1>. SUFFICES ASSUME board' = 2, mb_version' = 2 PROVE SupplyKnown'  BY DEF SupplyInv
<1>. DEFINE op == Head(isr)
<1>1. /\ isr # <<>>
      /\ \/ ~Expander(op) /\ Do(op, spi_cmd)
         \/ ExpanderDo(op, spi_cmd)
      /\ isr' \in Rest(isr)
      /\ (isr' = <<>> => spi_cmd' \in {<<"none">>, More}) /\ (isr' # <<>> => spi_cmd' = spi_cmd)
      /\ torn' = IF isr' = <<>> /\ spi_cmd \in PowerCommands THEN disturbed ELSE torn
      /\ UNCHANGED <<board, main, cmd, phase, disturbed>> /\ board = 2
  BY SpiSteps DEF main_vars
<1>2. /\ Alone /\ SomTyped /\ OutputsTyped
      /\ isr \in Seq(Operations) /\ op \in Operations /\ Kind(isr, spi_cmd)
      /\ main \in Seq(Operations) /\ spi_cmd \in Commands \cup {<<"none">>, More}
  BY <1>1, Begun DEF SomInv, SomSafe, SomTyped, ProgramsTyped, Kinds
<1>3. cmd # <<"boot">> /\ spi_cmd # <<"boot">>
  BY <1>1, <1>2, CommandsDiffer DEF Alone
<1>4. PICK s, c, t, m : s = isr /\ c = spi_cmd /\ t = isr' /\ m = main  OBVIOUS
<1>5. /\ s \in Seq(Operations) /\ s # <<>> /\ Kind(s, c) /\ t \in Rest(s) /\ Head(s) = op
  BY <1>1, <1>2, <1>4
<1>6. op[2] # "ext"  BY <1>3, <1>4, <1>5, KindHead
<1>7. mb_version = 2 /\ Wired(op, spi_cmd)
  <2>1. CASE ~Expander(op) /\ Do(op, spi_cmd)
    BY <1>1, <1>2, <1>6, <2>1, DoEffect, DoWired
  <2>2. CASE ExpanderDo(op, spi_cmd)
    <3>1. /\ Expander(op) /\ Recorded(op, spi_cmd)
          /\ shadow' = [shadow EXCEPT ![op[1]] = With(shadow[op[1]], op[2], op[3])]
          /\ write_byte(op[1], shadow'[op[1]])
          /\ UNCHANGED <<mb_version, pins>>
      BY <2>2 DEF ExpanderDo, flags, outputs
    <3>. QED  BY <1>1, <1>2, <3>1, WriteWired
  <2>. QED  BY <1>1, <2>1, <2>2
<1>8. SupplyKnown /\ Wiring(s, c, Supplied, Opened) /\ Tame(s) /\ Wired(Head(s), c)
  BY <1>1, <1>4, <1>5, <1>7 DEF SupplyInv, SupplyKnown, SpiWired
<1>9. /\ Tame(t) /\ (t = <<>> => Tail(s) = <<>>)
      /\ (\A x \in Range(s) : x[1] # "uswitch") => \A x \in Range(t) : x[1] # "uswitch"
  BY <1>5, <1>7, <1>8, TameRest
<1>10. op \in Range(s)  BY <1>5, Begun
<1>11. Wiring(t, c, Supplied', Opened')
  <2>1. Head(s)[1] # "version"  BY <1>5, <1>8, <1>10 DEF Tame
  <2>. QED  BY <1>5, <1>7, <1>8, <2>1, WiredRest
<1>12. InUsbMode' <=> InUsbMode  BY <1>1 DEF InUsbMode, Busy
<1>13. SpiWired'
  <2>1. CASE t = <<>>
    <3>1. isr' = <<>> /\ spi_cmd' \in {<<"none">>, More}  BY <1>1, <1>4, <2>1
    <3>. QED  BY <3>1, SpiNothing
  <2>2. CASE t # <<>>
    <3>1. isr' = t /\ spi_cmd' = c /\ disturbed' = disturbed  BY <1>1, <1>4, <2>2
    <3>2. c \in UsbCommands /\ ~disturbed => ~InUsbMode
      BY <1>1, <1>4, <1>8 DEF SupplyKnown, SpiWired
    <3>3. c \notin UsbCommands => \A x \in Range(t) : x[1] # "uswitch"
      BY <1>4, <1>8, <1>9 DEF SupplyKnown, SpiWired
    <3>. QED  BY <1>9, <1>11, <1>12, <3>1, <3>2, <3>3 DEF SpiWired
  <2>. QED  BY <2>1, <2>2
<1>14. ASSUME ~disturbed PROVE Wiring(m, cmd, Supplied', Opened')
  <2>1. CASE c \in UsbCommands
    <3>1. ~InUsbMode  BY <1>1, <1>4, <1>8, <1>14, <2>1 DEF SupplyKnown, SpiWired
    <3>2. CASE main = <<>>
      <4>1. cmd \notin PowerCommands  BY <1>2, <3>2 DEF Alone, Switching
      <4>. QED  BY <1>4, <3>2, <4>1, NothingWired
    <3>3. CASE main # <<>>
      <4>1. Head(main) \in Range(main)  BY <1>2, <3>3, Begun
      <4>2. Head(main) \notin Port  BY <3>1, <3>3 DEF InUsbMode, Busy, Port
      <4>3. Whole(m, cmd)  BY <1>3, <1>4, <1>8, <4>1, <4>2 DEF SupplyKnown, MainWired
      <4>. QED  BY <4>3, WholeWiring
    <3>. QED  BY <3>2, <3>3
  <2>2. CASE c \notin UsbCommands
    <3>1. op[1] # "uswitch"  BY <1>4, <1>8, <1>10, <2>2 DEF SupplyKnown, SpiWired
    <3>2. op[1] # "setup"  BY <1>8, <1>10 DEF Tame
    <3>3. ~Closes(op)  BY <3>1, <3>2 DEF Closes
    <3>4. c \notin Switching  BY <1>3, <1>4, <2>2 DEF Switching, UsbCommands
    <3>5. PICK up, open, on, more : up = Supplied /\ open = Opened /\ on = Supplied' /\ more = Opened'
      OBVIOUS
    <3>6. Wiring(m, cmd, up, open)  BY <1>4, <1>8, <1>14, <3>5 DEF SupplyKnown, MainWired
    <3>7. (on => up) /\ open \subseteq more  BY <1>4, <1>7, <3>3, <3>4, <3>5 DEF Wired
    <3>8. Wiring(m, cmd, on, more)  BY <3>6, <3>7, WiringWeaker
    <3>. QED  BY <3>5, <3>8
  <2>. QED  BY <2>1, <2>2
<1>15. MainWired'
  <2>1. main' = m /\ cmd' = cmd /\ disturbed' = disturbed  BY <1>1, <1>4
  <2>. QED  BY <1>3, <1>4, <1>8, <1>14, <2>1 DEF SupplyKnown, MainWired
<1>16. ASSUME ~torn' PROVE HostOnly'
  <2>1. CASE ~torn
    <3>1. HostOnly  BY <1>8, <2>1 DEF SupplyKnown
    <3>. QED  BY <1>5, <1>8, <3>1, HostHolds
  <2>2. CASE t = <<>> /\ c \in PowerCommands
    <3>1. Wiring(<<>>, c, Supplied', Opened')  BY <1>11, <2>2
    <3>. QED  BY <2>2, <3>1, HostDone
  <2>. QED  BY <1>1, <1>4, <1>16, <2>1, <2>2
<1>. QED  BY <1>1, <1>3, <1>13, <1>15, <1>16 DEF SupplyKnown

-----------------------------------------------------------------------------
LEMMA SupplyStep == ASSUME SomInv, Booting, SupplyInv, [Next]_vars PROVE SupplyInv'
<1>1. ASSUME NEW w \in BOOLEAN, Restart(w) PROVE SupplyInv'
  <2>1. mb_version' = 0  BY Zenon, <1>1, Restarted
  <2>. QED  BY <2>1 DEF SupplyInv
<1>2. CASE Reset
  <2>1. boot_magic \in BOOLEAN /\ Restart(boot_magic)
    BY <1>2 DEF Reset, SomInv, SomTyped, FlagsTyped
  <2>2. PICK w \in BOOLEAN : w = boot_magic  BY <2>1
  <2>3. Restart(w)  BY <2>1, <2>2
  <2>. QED  BY <1>1, <2>3
<1>3. CASE PowerLoss
  <2>1. Restart(FALSE)  BY <1>3 DEF PowerLoss
  <2>. QED  BY <1>1, <2>1
<1>4. CASE UNCHANGED vars
  <2>1. UNCHANGED <<board, main, cmd, isr, spi_cmd, mb_version, shadow, chip, lost, pins,
                    disturbed, torn, byhand>>
    BY <1>4 DEF vars, main_vars, isr_vars, flags, expanders, outputs, history
  <2>. QED  BY <2>1, SupplySame
<1>. QED
  BY Zenon, <1>2, <1>3, <1>4, MainDoesWired, LoadShadowWired, StoreShadowWired, WriteChipWired,
     LoopCommandWired, SpiCommandWired, SpiDoesWired DEF Next

LEMMA SupplyImplies == ASSUME SomInv, SupplyInv PROVE SupplyIsHost
<1>. SUFFICES ASSUME board = 2, mb_version = 2, ~torn, lost.uswitch = 0, "usb2_5v" \in pins \ byhand
              PROVE  chip.uswitch \cap {"1", "2", "3"} = {}
  BY DEF SupplyIsHost
<1>1. Opened = Switches  BY DEF SupplyInv, SupplyKnown, HostOnly, Supplied
<1>. QED  BY <1>1 DEF Opened, Switches

(* Port 2 of motherboard 2.0 is supplied with 5 V only while its switches  *)
(* connect it as a host's, whatever commands set its mode, from the main   *)
(* loop and from the SOM, whichever writes fail and wherever a reset       *)
(* comes, unless it is supplied by hand, the last write to the switches    *)
(* did not get through or somebody was interrupted where it matters.       *)
(* (set_usb_mode, turn_som_power_on_v20, setup)                            *)
THEOREM SupplyOnlyAsHost == Spec => []SupplyIsHost
<1>1. Init => Booting /\ SupplyInv
  <2>1. Init => Booting  BY DEF Init, Booting
  <2>2. Init => SupplyInv  BY DEF Init, SupplyInv
  <2>. QED  BY <2>1, <2>2
<1>2. SomInv /\ Booting /\ SupplyInv /\ [Next]_vars => Booting' /\ SupplyInv'
  BY BootStep, SupplyStep
<1>3. SomInv /\ SupplyInv => SupplyIsHost  BY SupplyImplies
<1>. QED  BY <1>1, <1>2, <1>3, SomSwitchedSafely, PTL DEF Spec
=============================================================================
