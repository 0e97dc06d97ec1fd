-------------------------- MODULE InterruptsProofs --------------------------
(***************************************************************************)
(* Safety of the main loop against the interrupts, for any commands of the *)
(* SOM and any bound on the rounds of output: the types, the alarm of the  *)
(* USB worker, the bus during masked transfers, and the messages.          *)
(***************************************************************************)
EXTENDS Interrupts, SequenceTheorems, TLAPS

-----------------------------------------------------------------------------
(* Sequences: what \o makes of two of them.                                *)

LEMMA Joined ==
  ASSUME NEW S, NEW s \in Seq(S), NEW t \in Seq(S), NEW u \in Seq(S),
         Len(u) = Len(s) + Len(t),
         \A i \in 1..Len(s) : u[i] = s[i],
         \A i \in 1..Len(t) : u[Len(s) + i] = t[i]
  PROVE  s \o t = u
  <1>1. Len(s) \in Nat /\ Len(t) \in Nat
    OBVIOUS
  <1>2. /\ s \o t \in Seq(S)
        /\ Len(s \o t) = Len(s) + Len(t)
        /\ \A i \in 1..Len(s) + Len(t) : (s \o t)[i] = IF i <= Len(s) THEN s[i] ELSE t[i - Len(s)]
    BY ONLY ConcatProperties, s \in Seq(S), t \in Seq(S)
  <1>3. ASSUME NEW i \in 1..Len(u) PROVE (s \o t)[i] = u[i]
    <2>1. CASE i <= Len(s)
      BY <1>1, <1>2, <2>1
    <2>2. CASE i > Len(s)
      <3>1. i - Len(s) \in 1..Len(t) /\ Len(s) + (i - Len(s)) = i
        BY <1>1, <2>2
      <3>2. u[i] = t[i - Len(s)]
        BY ONLY <3>1, \A j \in 1..Len(t) : u[Len(s) + j] = t[j]
      <3> QED
        BY ONLY <1>1, <1>2, <2>2, <3>2, Len(u) = Len(s) + Len(t), i \in 1..Len(u)
    <2> QED
      BY <1>1, <2>1, <2>2
  <1> QED
    BY ONLY <1>2, <1>3, SeqEqual, u \in Seq(S), Len(u) = Len(s) + Len(t)

LEMMA TwoAndThree ==
  ASSUME NEW a, NEW b, NEW c, NEW d, NEW e
  PROVE  <<a, b>> \o <<c, d, e>> = <<a, b, c, d, e>>
  <1> DEFINE S == {a, b, c, d, e}
             s == <<a, b>>
             t == <<c, d, e>>
             u == <<a, b, c, d, e>>
  <1>1. s \in Seq(S) /\ t \in Seq(S) /\ u \in Seq(S)
    OBVIOUS
  <1> HIDE DEF S
  <1>2. Len(s) = 2 /\ Len(t) = 3 /\ Len(u) = 5
    OBVIOUS
  <1>3. \A i \in 1..2 : u[i] = s[i]
    <2> SUFFICES ASSUME NEW i \in 1..2 PROVE u[i] = s[i]
      OBVIOUS
    <2>1. CASE i = 1
      BY ONLY <2>1
    <2>2. CASE i = 2
      BY ONLY <2>2
    <2>3. i = 1 \/ i = 2
      OBVIOUS
    <2> QED
      BY <2>1, <2>2, <2>3
  <1>4. \A i \in 1..3 : u[2 + i] = t[i]
    <2> SUFFICES ASSUME NEW i \in 1..3 PROVE u[2 + i] = t[i]
      OBVIOUS
    <2>1. CASE i = 1
      BY ONLY <2>1
    <2>2. CASE i = 2
      BY ONLY <2>2
    <2>3. CASE i = 3
      BY ONLY <2>3
    <2>4. i = 1 \/ i = 2 \/ i = 3
      OBVIOUS
    <2> QED
      BY <2>1, <2>2, <2>3, <2>4
  <1> HIDE DEF s, t, u
  <1>5. /\ Len(u) = Len(s) + Len(t)
        /\ \A i \in 1..Len(s) : u[i] = s[i]
        /\ \A i \in 1..Len(t) : u[Len(s) + i] = t[i]
    BY <1>2, <1>3, <1>4
  <1>6. s \o t = u
    BY ONLY <1>1, <1>5, Joined
  <1> QED
    BY <1>6 DEF s, t, u

LEMMA ThreeAndThree ==
  ASSUME NEW a, NEW b, NEW c, NEW d, NEW e, NEW f
  PROVE  <<a, b, c>> \o <<d, e, f>> = <<a, b, c, d, e, f>>
  <1> DEFINE S == {a, b, c, d, e, f}
             s == <<a, b, c>>
             t == <<d, e, f>>
             u == <<a, b, c, d, e, f>>
  <1>1. s \in Seq(S) /\ t \in Seq(S) /\ u \in Seq(S)
    OBVIOUS
  <1> HIDE DEF S
  <1>2. Len(s) = 3 /\ Len(t) = 3 /\ Len(u) = 6
    OBVIOUS
  <1>3. \A i \in 1..3 : u[i] = s[i]
    <2> SUFFICES ASSUME NEW i \in 1..3 PROVE u[i] = s[i]
      OBVIOUS
    <2>1. CASE i = 1
      BY ONLY <2>1
    <2>2. CASE i = 2
      BY ONLY <2>2
    <2>3. CASE i = 3
      BY ONLY <2>3
    <2>4. i = 1 \/ i = 2 \/ i = 3
      OBVIOUS
    <2> QED
      BY <2>1, <2>2, <2>3, <2>4
  <1>4. \A i \in 1..3 : u[3 + i] = t[i]
    <2> SUFFICES ASSUME NEW i \in 1..3 PROVE u[3 + i] = t[i]
      OBVIOUS
    <2>1. CASE i = 1
      BY ONLY <2>1
    <2>2. CASE i = 2
      BY ONLY <2>2
    <2>3. CASE i = 3
      BY ONLY <2>3
    <2>4. i = 1 \/ i = 2 \/ i = 3
      OBVIOUS
    <2> QED
      BY <2>1, <2>2, <2>3, <2>4
  <1> HIDE DEF s, t, u
  <1>5. /\ Len(u) = Len(s) + Len(t)
        /\ \A i \in 1..Len(s) : u[i] = s[i]
        /\ \A i \in 1..Len(t) : u[Len(s) + i] = t[i]
    BY <1>2, <1>3, <1>4
  <1>6. s \o t = u
    BY ONLY <1>1, <1>5, Joined
  <1> QED
    BY <1>6 DEF s, t, u

-----------------------------------------------------------------------------
(* What the functions are made of: one call that is no part of a message,  *)
(* or the few sequences of calls, or what is left of them. Transfers have  *)
(* a chip, and mask the interrupt unless it is the charger.                *)

Bound(c) ==
  c.do \in {"write", "read"} => c.dev \in Devices /\ (c.masked \/ c.dev = "mps")

Single(c) ==
  /\ c.part \notin Parts /\ c.do # "hdr"
  /\ Bound(c)

Singles == {c \in Calls : Single(c)}

Functions == {<<c>> : c \in Singles} \cup {fusb_read_message, send_message, send_vdm}

FromSop  == <<Part("sop"), Part("body"), Part("eop")>>
FromBody == <<Part("body"), Part("eop")>>
FromEop  == <<Part("eop")>>
Filled   == <<Other("print"), Part("sop"), Part("body"), Part("eop")>>
FromObj  == <<Other("obj"), Part("sop"), Part("body"), Part("eop")>>
VdmObj   == <<Other("obj"), Other("print"), Part("sop"), Part("body"), Part("eop")>>

Rests == Functions \cup {<<>>, VdmObj, FromObj, Filled, FromSop, FromBody, FromEop}

SendsIn(s) == s # <<>> /\ s[Len(s)].part = "eop" /\ Head(s).do # "hdr"

(* What the FIFO holds when s is to be called and all has gone well.       *)
Due(s) ==
  IF s # <<>> /\ Head(s).part = "body" THEN [holds |-> "sop", from |-> "main"]
  ELSE IF s # <<>> /\ Head(s).part = "eop" THEN [holds |-> "body", from |-> "main"]
  ELSE Empty

LEMMA SinglesAre ==
  \A c \in Singles :
    /\ c.part \notin Parts /\ c.do # "hdr" /\ c \in Calls
    /\ Bound(c)
  <1>1. \A c \in Singles : c \in Calls /\ Single(c)
    BY Zenon DEF Singles
  <1> QED
    BY ONLY <1>1, Zenon DEF Single

LEMMA SendingIn == Sending <=> SendsIn(now)
  BY DEF Sending, SendsIn

LEMMA CallsMade ==
  /\ \A d \in Devices : Write(d) \in Singles /\ Read(d) \in Singles
  /\ Call("write", "mps", FALSE, "none") \in Singles
  /\ Call("read", "mps", FALSE, "none") \in Singles
  /\ Part("flush") \in Singles /\ Other("print") \in Singles /\ Other("getchar") \in Singles
  /\ Other("hdr") \in Calls /\ Other("obj") \in Calls
  /\ Part("sop") \in Calls /\ Part("body") \in Calls /\ Part("eop") \in Calls
  BY DEF Devices, Write, Read, Part, Other, Call, Bound, Single, Singles, Calls, Parts

LEMMA Made ==
  /\ send_message = <<Other("hdr"), Other("obj"), Part("sop"), Part("body"), Part("eop")>>
  /\ send_vdm = <<Other("hdr"), Other("obj"), Other("print"), Part("sop"), Part("body"), Part("eop")>>
  <1>1. send_message = <<Other("hdr"), Other("obj"), Part("sop"), Part("body"), Part("eop")>>
    BY TwoAndThree, Zenon DEF send_message, fusb_send_message
  <1>2. send_vdm = <<Other("hdr"), Other("obj"), Other("print"), Part("sop"), Part("body"), Part("eop")>>
    <2> DEFINE hdr == Other("hdr") obj == Other("obj") print == Other("print")
               sop == Part("sop") body == Part("body") eop == Part("eop")
    <2> HIDE DEF hdr, obj, print, sop, body, eop
    <2>1. <<hdr, obj, print>> \o <<sop, body, eop>> = <<hdr, obj, print, sop, body, eop>>
      BY ONLY ThreeAndThree, SMTT(60)
    <2>2. send_vdm = <<hdr, obj, print>> \o <<sop, body, eop>>
      BY Zenon DEF send_vdm, fusb_send_message, hdr, obj, print, sop, body, eop
    <2>3. send_vdm = <<hdr, obj, print, sop, body, eop>>
      BY <2>1, <2>2, Zenon
    <2> QED
      BY <2>3, Zenon DEF hdr, obj, print, sop, body, eop
  <1> QED
    BY <1>1, <1>2

LEMMA RestsTyped == Rests \subseteq Seq(Calls)
  <1> USE CallsMade, Made
  <1> HIDE DEF Rests
  <1>1. \A c \in Singles : <<c>> \in Seq(Calls)
    BY DEF Singles
  <1>2. fusb_read_message \in Seq(Calls)
    BY DEF fusb_read_message, Singles, Devices
  <1>3. send_message \in Seq(Calls) /\ send_vdm \in Seq(Calls)
    BY DEF Singles
  <1>4. FromSop \in Seq(Calls) /\ FromBody \in Seq(Calls) /\ FromEop \in Seq(Calls)
    BY DEF FromSop, FromBody, FromEop
  <1>5. /\ Filled \in Seq(Calls) /\ FromObj \in Seq(Calls) /\ VdmObj \in Seq(Calls)
        /\ <<>> \in Seq(Calls)
    BY DEF Filled, FromObj, VdmObj, Singles
  <1> QED
    BY ONLY <1>1, <1>2, <1>3, <1>4, <1>5 DEF Rests, Functions

(* After a call comes a rest again, and the FIFO is due to hold what the   *)
(* call has put there.                                                     *)
TailOK(s) ==
  /\ Tail(s) \in Rests
  /\ Head(s).part = "sop" => Due(Tail(s)) = [holds |-> "sop", from |-> "main"]
  /\ Head(s).part = "body" => Due(Tail(s)) = [holds |-> "body", from |-> "main"]
  /\ Head(s).part \notin {"sop", "body"} => Due(Tail(s)) = Empty
  /\ Head(s).part \in Parts => SendsIn(s)
  /\ SendsIn(Tail(s)) => SendsIn(s) \/ Head(s).do = "hdr"
  /\ Head(s).do \in {"read", "print", "getchar", "hdr", "obj"} => Head(s).part \notin Parts
  /\ Bound(Head(s))
  /\ Head(s).part \in {"eop", "flush"} => Tail(s) = <<>>
  /\ Head(s) \in Calls

LEMMA RestsShrink ==
  ASSUME NEW s \in Rests, s # <<>>
  PROVE  TailOK(s)
  <1> DEFINE hdr == Other("hdr") obj == Other("obj") print == Other("print")
             read == Read("fusb")
             sop == Part("sop") body == Part("body") eop == Part("eop")
  <1>0. /\ sop.part = "sop" /\ body.part = "body" /\ eop.part = "eop"
        /\ sop.do = "write" /\ body.do = "write" /\ eop.do = "write"
        /\ hdr.part = "none" /\ obj.part = "none" /\ print.part = "none" /\ read.part = "none"
        /\ hdr.do = "hdr" /\ obj.do = "obj" /\ print.do = "print" /\ read.do = "read"
        /\ read \in Singles
        /\ hdr \in Calls /\ obj \in Calls /\ print \in Calls /\ read \in Calls
        /\ sop \in Calls /\ body \in Calls /\ eop \in Calls
        /\ \A c \in {hdr, obj, print, sop, body, eop, read} : Bound(c)
    BY CallsMade DEF Other, Part, Read, Call, Devices, Singles, Bound
  <1>1. CASE s \in {<<c>> : c \in Singles}
    <2>1. PICK c \in Singles : s = <<c>>
      BY <1>1
    <2>2. Tail(s) = <<>> /\ Head(s) = c
      BY <2>1
    <2>3. /\ c.part \notin Parts /\ c.do # "hdr" /\ c \in Calls
          /\ Bound(c)
      BY SinglesAre
    <2>4. Due(<<>>) = Empty /\ ~SendsIn(<<>>) /\ <<>> \in Rests
      BY DEF Due, SendsIn, Rests
    <2> QED
      BY <2>2, <2>3, <2>4 DEF TailOK, Parts
  <1> HIDE DEF hdr, obj, print, read, sop, body, eop
  <1>2. CASE s = <<read, read>>
    <2>1. Tail(s) = <<read>> /\ Head(s) = read
      BY <1>2
    <2>2. <<read>> \in Rests /\ Due(<<read>>) = Empty /\ ~SendsIn(<<read>>)
      BY <1>0 DEF Due, SendsIn, Rests, Functions
    <2> QED
      BY <1>0, <2>1, <2>2 DEF TailOK, Parts
  <1>3. CASE s = <<hdr, obj, sop, body, eop>>
    <2>1. Tail(s) = <<obj, sop, body, eop>> /\ Head(s) = hdr
      BY <1>3
    <2>2. <<obj, sop, body, eop>> \in Rests /\ Due(<<obj, sop, body, eop>>) = Empty
      BY <1>0 DEF Due, Rests, FromObj, obj, sop, body, eop
    <2> QED
      BY <1>0, <2>1, <2>2 DEF TailOK, Parts
  <1>4. CASE s = <<hdr, obj, print, sop, body, eop>>
    <2>1. Tail(s) = <<obj, print, sop, body, eop>> /\ Head(s) = hdr
      BY <1>4
    <2>2. <<obj, print, sop, body, eop>> \in Rests /\ Due(<<obj, print, sop, body, eop>>) = Empty
      BY <1>0 DEF Due, Rests, VdmObj, obj, print, sop, body, eop
    <2> QED
      BY <1>0, <2>1, <2>2 DEF TailOK, Parts
  <1>4a. CASE s = <<obj, sop, body, eop>>
    <2>1. Tail(s) = <<sop, body, eop>> /\ Head(s) = obj /\ SendsIn(s)
      BY <1>0, <1>4a DEF SendsIn
    <2>2. <<sop, body, eop>> \in Rests /\ Due(<<sop, body, eop>>) = Empty
      BY <1>0 DEF Due, Rests, FromSop, sop, body, eop
    <2> QED
      BY <1>0, <2>1, <2>2 DEF TailOK, Parts
  <1>4b. CASE s = <<obj, print, sop, body, eop>>
    <2>1. Tail(s) = <<print, sop, body, eop>> /\ Head(s) = obj /\ SendsIn(s)
      BY <1>0, <1>4b DEF SendsIn
    <2>2. <<print, sop, body, eop>> \in Rests /\ Due(<<print, sop, body, eop>>) = Empty
      BY <1>0 DEF Due, Rests, Filled, print, sop, body, eop
    <2> QED
      BY <1>0, <2>1, <2>2 DEF TailOK, Parts
  <1>5. CASE s = <<print, sop, body, eop>>
    <2>1. Tail(s) = <<sop, body, eop>> /\ Head(s) = print /\ SendsIn(s)
      BY <1>0, <1>5 DEF SendsIn
    <2>2. <<sop, body, eop>> \in Rests /\ Due(<<sop, body, eop>>) = Empty
      BY <1>0 DEF Due, Rests, FromSop, sop, body, eop
    <2> QED
      BY <1>0, <2>1, <2>2 DEF TailOK, Parts
  <1>6. CASE s = <<sop, body, eop>>
    <2>1. Tail(s) = <<body, eop>> /\ Head(s) = sop /\ SendsIn(s)
      BY <1>0, <1>6 DEF SendsIn
    <2>2. <<body, eop>> \in Rests /\ Due(<<body, eop>>) = [holds |-> "sop", from |-> "main"]
      BY <1>0 DEF Due, Rests, FromBody, body, eop
    <2> QED
      BY <1>0, <2>1, <2>2 DEF TailOK, Parts
  <1>7. CASE s = <<body, eop>>
    <2>1. Tail(s) = <<eop>> /\ Head(s) = body /\ SendsIn(s)
      BY <1>0, <1>7 DEF SendsIn
    <2>2. <<eop>> \in Rests /\ Due(<<eop>>) = [holds |-> "body", from |-> "main"]
      BY <1>0 DEF Due, Rests, FromEop, eop
    <2> QED
      BY <1>0, <2>1, <2>2 DEF TailOK, Parts
  <1>8. CASE s = <<eop>>
    <2>1. Tail(s) = <<>> /\ Head(s) = eop /\ SendsIn(s)
      BY <1>0, <1>8 DEF SendsIn
    <2>2. <<>> \in Rests /\ Due(<<>>) = Empty /\ ~SendsIn(<<>>)
      BY <1>0 DEF Due, Rests, SendsIn
    <2> QED
      BY <1>0, <2>1, <2>2 DEF TailOK, Parts
  <1>9. \/ s \in {<<c>> : c \in Singles} \/ s = <<read, read>>
        \/ s = <<hdr, obj, sop, body, eop>> \/ s = <<hdr, obj, print, sop, body, eop>>
        \/ s = <<obj, sop, body, eop>> \/ s = <<obj, print, sop, body, eop>>
        \/ s = <<print, sop, body, eop>> \/ s = <<sop, body, eop>>
        \/ s = <<body, eop>> \/ s = <<eop>>
    <2>1. \/ s \in {<<c>> : c \in Singles} \/ s = fusb_read_message
          \/ s = send_message \/ s = send_vdm \/ s = FromObj \/ s = VdmObj \/ s = Filled
          \/ s = FromSop \/ s = FromBody \/ s = FromEop
      BY Zenon DEF Rests, Functions
    <2> QED
      BY <2>1, Made, Zenon DEF fusb_read_message, FromObj, VdmObj, Filled, FromSop, FromBody,
                               FromEop, hdr, obj, print, read, sop, body, eop
  <1> QED
    BY <1>1, <1>2, <1>3, <1>4, <1>4a, <1>4b, <1>5, <1>6, <1>7, <1>8, <1>9

-----------------------------------------------------------------------------
(* The loop calls functions.                                               *)

LEMMA Known ==
  /\ fusb_write_byte \in Functions /\ fusb_flush \in Functions /\ fusb_read_buf \in Functions
  /\ max_write_word \in Functions /\ max_read_word \in Functions
  /\ pca9557_write_byte \in Functions /\ pca9536_write_byte \in Functions
  /\ tmuxhs4446_write \in Functions
  /\ mps_write_byte \in Functions /\ mps_write_buf \in Functions
  /\ mps_read_buf \in Functions /\ mps_read_word \in Functions
  /\ printf \in Functions /\ getchar \in Functions
  /\ fusb_read_message \in Functions /\ send_message \in Functions /\ send_vdm \in Functions
  <1>1. /\ Write("fusb") \in Singles /\ Read("fusb") \in Singles /\ Part("flush") \in Singles
        /\ Write("max") \in Singles /\ Read("max") \in Singles
        /\ Write("pca9557") \in Singles /\ Write("pca9536") \in Singles /\ Write("tmux") \in Singles
        /\ Call("write", "mps", FALSE, "none") \in Singles /\ Read("mps") \in Singles
        /\ Call("read", "mps", FALSE, "none") \in Singles
        /\ Other("print") \in Singles /\ Other("getchar") \in Singles
    BY CallsMade DEF Devices
  <1> QED
    BY <1>1, Zenon DEF Functions, fusb_write_byte, fusb_flush, fusb_read_buf, max_write_word, max_read_word,
      pca9557_write_byte, pca9536_write_byte, tmuxhs4446_write, mps_write_byte, mps_write_buf,
      mps_read_buf, mps_read_word, printf, getchar

LEMMA PartsOfLoop ==
  /\ handle_commands \subseteq Seq(Functions)
  /\ pd_tick_first \subseteq Seq(Functions)
  /\ pd_tick \subseteq Seq(Functions)
  /\ charger_tick \subseteq Seq(Functions)
  /\ gauge_and_dump \subseteq Seq(Functions)
  <1> USE Known
  <1> HIDE DEF Functions
  <1>1. handle_commands \subseteq Seq(Functions)
    BY DEF handle_commands
  <1>2. charger_tick \subseteq Seq(Functions)
    BY DEF charger_tick
  <1>3. gauge_and_dump \subseteq Seq(Functions)
    BY DEF gauge_and_dump
  <1>4. pd_set_fusb_switches \in Seq(Functions) /\ set_charge \in Seq(Functions)
    BY DEF pd_set_fusb_switches, set_charge
  <1>5. pd_comm_pd \cup {<<>>} \subseteq Seq(Functions)
    <2>1. <<fusb_read_buf, fusb_read_message>> \o set_charge \in Seq(Functions)
      BY <1>4, <<fusb_read_buf, fusb_read_message>> \in Seq(Functions), ConcatProperties
    <2>2. /\ <<fusb_read_buf, fusb_flush>> \in Seq(Functions)
          /\ <<fusb_read_buf, fusb_read_message>> \in Seq(Functions)
          /\ <<fusb_read_buf, fusb_read_message, printf, send_message>> \in Seq(Functions)
          /\ <<fusb_read_buf, fusb_read_message, send_vdm>> \in Seq(Functions)
          /\ <<>> \in Seq(Functions)
      OBVIOUS
    <2> QED
      BY <2>1, <2>2, Zenon DEF pd_comm_pd
  <1>6. pd_tick_first \subseteq Seq(Functions)
    <2>1. \A c \in pd_comm_pd \cup {<<>>} : pd_set_fusb_switches \o c \in Seq(Functions)
      BY ONLY <1>4, <1>5, ConcatProperties
    <2> QED
      BY <2>1, Zenon DEF pd_tick_first
  <1>7. pd_tick \subseteq Seq(Functions)
    <2>1. <<printf>> \in Seq(Functions) /\ <<fusb_write_byte, fusb_flush>> \in Seq(Functions)
      OBVIOUS
    <2>2. <<printf>> \o set_charge \in Seq(Functions)
      BY ONLY <1>4, <2>1, ConcatProperties
    <2>3. <<printf>> \o set_charge \o <<fusb_write_byte, fusb_flush>> \in Seq(Functions)
      BY ONLY <2>1, <2>2, ConcatProperties
    <2>4. <<fusb_read_buf, fusb_write_byte>> \in Seq(Functions)
      OBVIOUS
    <2>5. <<fusb_read_buf, fusb_write_byte>> \o pd_set_fusb_switches \in Seq(Functions)
      BY ONLY <1>4, <2>4, ConcatProperties
    <2>6. <<fusb_read_buf>> \in Seq(Functions) /\ <<fusb_read_buf, send_message>> \in Seq(Functions)
      OBVIOUS
    <2> QED
      BY <2>1, <2>3, <2>5, <2>6, Zenon DEF pd_tick
  <1> QED
    BY <1>1, <1>2, <1>3, <1>6, <1>7

LEMMA WorkTyped ==
  ASSUME NEW p \in Turns
  PROVE  Work[p] \subseteq Seq(Functions) /\ After[p] \in Turns
  <1>1. After[p] \in Turns
    BY DEF After, Turns
  <1>2. Work[p] \in {handle_commands, pd_tick_first, pd_tick, charger_tick, gauge_and_dump}
    BY DEF Work, Turns
  <1> QED
    BY <1>1, <1>2, PartsOfLoop

LEMMA FunctionsBegin ==
  ASSUME NEW f \in Functions
  PROVE  f \in Rests /\ Due(f) = Empty /\ ~SendsIn(f)
  <1>1. f \in Rests
    BY DEF Rests
  <1>2. CASE f \in {<<c>> : c \in Singles}
    <2>1. PICK c \in Singles : f = <<c>>
      BY <1>2
    <2>2. c.part \notin Parts
      BY SinglesAre
    <2> QED
      BY <1>1, <2>1, <2>2 DEF Due, SendsIn, Parts
  <1>3. CASE f = fusb_read_message
    BY <1>1, <1>3 DEF fusb_read_message, Read, Call, Due, SendsIn
  <1>4. CASE f \in {send_message, send_vdm}
    <2>1. f # <<>> /\ Head(f) = Other("hdr")
      BY <1>4, Made
    <2> QED
      BY <1>1, <2>1 DEF Due, SendsIn, Other, Call
  <1> QED
    BY <1>2, <1>3, <1>4 DEF Functions

-----------------------------------------------------------------------------
(* The invariant, part by part.                                            *)

LoopInv ==
  /\ turn \in Turns /\ todo \in Seq(Functions) /\ now \in Rests
  /\ stage \in {"none", "select", "data"}
  /\ Moving => Transfers
  /\ stage = "select" => Head(now).do = "read"

(* A masked transfer has the SPI interrupt off, and its chip addressed;    *)
(* the handler may have addressed another one in the midst of the others.  *)
Astray ==
  \/ tar = "pca9557" /\ "rail" \in SpiCommands
  \/ tar = "fusb" /\ "message" \in SpiCommands

BusInv ==
  /\ irq \in BOOLEAN /\ edge \in BOOLEAN /\ tar \in Devices
  /\ Moving /\ Head(now).masked => irq = FALSE
  /\ Moving => tar = Head(now).dev \/ (~Head(now).masked /\ Astray)

(* Without a mark on it, the FIFO holds what the program has put there.    *)
PdInv ==
  /\ fifo \in [holds : {"empty", "sop", "body", "junk"}, from : {"main", "spi", "none"}]
  /\ tx \in {"main", "spi", "mixed"}
  /\ air \in {"none", "whole", "excused"} /\ spoiled \in BOOLEAN
  /\ ~spoiled => fifo = Due(now) /\ (SendsIn(now) => tx = "main")

UsbInv ==
  /\ mutex \in {"none", "main"} /\ left \in 0..MaxChunks
  /\ mutex = "main" => now # <<>> /\ Head(now).do \in {"print", "getchar"}
  /\ work \in BOOLEAN /\ worker \in BOOLEAN

AlarmInv == one_shot_timer_pending \in BOOLEAN /\ alarms \in Nat /\ OneTimer

IInv == LoopInv /\ BusInv /\ PdInv /\ UsbInv /\ AlarmInv

LEMMA InvIsEnough == IInv => InterruptsTypeOK /\ OnlyChargerStrays /\ MessagesWhole /\ OneTimer
  <1> SUFFICES ASSUME IInv PROVE InterruptsTypeOK /\ OnlyChargerStrays /\ MessagesWhole /\ OneTimer
    OBVIOUS
  <1>1. todo \in Seq(Seq(Calls)) /\ now \in Seq(Calls)
    <2>1. Functions \subseteq Rests
      BY DEF Rests
    <2>2. Functions \subseteq Seq(Calls)
      BY <2>1, RestsTyped
    <2> QED
      BY <2>2, RestsTyped, SeqMonotonic DEF IInv, LoopInv
  <1>2. InterruptsTypeOK
    BY <1>1, Zenon DEF InterruptsTypeOK, IInv, LoopInv, BusInv, PdInv, UsbInv, AlarmInv
  <1>3. OnlyChargerStrays
    <2> SUFFICES ASSUME Moving, tar # Head(now).dev
                 PROVE  Head(now).dev = "mps" /\ ~Head(now).masked /\ Astray
      BY DEF OnlyChargerStrays, Astray
    <2>1. ~Head(now).masked /\ Astray
      BY DEF IInv, BusInv
    <2>2. now # <<>> /\ Head(now).do \in {"write", "read"} /\ now \in Rests
      BY DEF IInv, LoopInv, Transfers
    <2>3. Bound(Head(now))
      BY <2>2, RestsShrink DEF TailOK
    <2> QED
      BY <2>1, <2>2, <2>3 DEF Bound
  <1>3a. OneTimer
    BY DEF IInv, AlarmInv
  <1>4. MessagesWhole
    BY DEF MessagesWhole, IInv, PdInv
  <1> QED
    BY <1>2, <1>3, <1>3a, <1>4

LEMMA InvInit == Init => IInv
  <1> SUFFICES ASSUME Init PROVE IInv
    OBVIOUS
  <1>1. LoopInv
    BY DEF Init, LoopInv, Turns, Rests, Moving
  <1>2. BusInv
    BY DEF Init, BusInv, Devices, Moving
  <1>3. PdInv
    BY DEF Init, PdInv, Empty, Due, SendsIn
  <1>4. UsbInv
    <2>1. left \in 0..MaxChunks
      BY MaxChunksAssumption DEF Init
    <2> QED
      BY <2>1, Zenon DEF Init, UsbInv
  <1>5. AlarmInv
    BY DEF Init, AlarmInv, OneTimer
  <1> QED
    BY <1>1, <1>2, <1>3, <1>4, <1>5 DEF IInv

-----------------------------------------------------------------------------
(* What a step does not touch.                                             *)

LEMMA LoopKept == LoopInv /\ UNCHANGED loopVars => LoopInv'
  BY DEF LoopInv, loopVars, Moving, Transfers

LEMMA BusKept == BusInv /\ UNCHANGED <<now, stage, busVars, edge>> => BusInv'
  BY DEF BusInv, busVars, Moving, Astray

LEMMA BusAtRest == BusInv /\ UNCHANGED <<busVars, edge>> /\ stage' = "none" => BusInv'
  BY DEF BusInv, busVars, Moving, Astray

LEMMA PdKept ==
  PdInv /\ UNCHANGED pdVars /\ Due(now') = Due(now) /\ (SendsIn(now') => SendsIn(now)) => PdInv'
  BY DEF PdInv, pdVars

LEMMA UsbKept == UsbInv /\ UNCHANGED <<now, mutex, left, work, worker>> => UsbInv'
  BY DEF UsbInv

LEMMA UsbFree == UsbInv /\ mutex = "none" /\ UNCHANGED <<mutex, left, work, worker>> => UsbInv'
  BY DEF UsbInv

LEMMA AlarmKept == AlarmInv /\ UNCHANGED <<one_shot_timer_pending, alarms>> => AlarmInv'
  BY DEF AlarmInv, OneTimer

LEMMA NothingDue == Due(<<>>) = Empty /\ ~SendsIn(<<>>) /\ <<>> \in Rests
  BY DEF Due, SendsIn, Rests

-----------------------------------------------------------------------------
(* The main program.                                                       *)

LEMMA loopStep == IInv /\ loop => IInv'
  <1> SUFFICES ASSUME IInv, loop PROVE IInv'
    OBVIOUS
  <1> USE DEF IInv, loop, usbVars
  <1>1. LoopInv'
    <2>1. todo' \in Seq(Functions) /\ turn' \in Turns
      BY WorkTyped DEF LoopInv
    <2> QED
      BY <2>1 DEF LoopInv, Moving, Transfers
  <1>2. BusInv'
    BY BusKept
  <1>3. PdInv'
    BY PdKept
  <1>4. UsbInv' /\ AlarmInv'
    BY UsbKept, AlarmKept
  <1> QED
    BY <1>1, <1>2, <1>3, <1>4

LEMMA FetchStep == IInv /\ Fetch => IInv'
  <1> SUFFICES ASSUME IInv, Fetch PROVE IInv'
    OBVIOUS
  <1> USE DEF IInv, Fetch, usbVars
  <1>1. Head(todo) \in Functions /\ Tail(todo) \in Seq(Functions)
    BY HeadTailProperties DEF LoopInv
  <1>2. now' \in Rests /\ Due(now') = Empty /\ ~SendsIn(now')
    BY <1>1, FunctionsBegin
  <1>3. stage = "none" /\ mutex = "none"
    BY DEF LoopInv, UsbInv, Moving, Transfers
  <1>4. LoopInv'
    BY <1>1, <1>2, <1>3 DEF LoopInv, Moving
  <1>5. BusInv'
    BY <1>3, BusAtRest
  <1>6. PdInv'
    BY <1>2, NothingDue, PdKept
  <1>7. UsbInv' /\ AlarmInv'
    BY <1>3, UsbFree, AlarmKept
  <1> QED
    BY <1>4, <1>5, <1>6, <1>7

(* What is known of the first call that is left.                           *)
LEMMA HeadNow == IInv /\ now # <<>> => TailOK(now)
  BY RestsShrink DEF IInv, LoopInv

LEMMA BeginStep == IInv /\ Begin => IInv'
  <1> SUFFICES ASSUME IInv, Begin PROVE IInv'
    OBVIOUS
  <1> USE DEF IInv, Begin, usbVars
  <1>1. now # <<>> /\ Head(now).dev \in Devices /\ now' = now
    BY HeadNow DEF Transfers, TailOK, Bound
  <1>2. LoopInv'
    <2>1. stage' \in {"select", "data"} /\ (stage' = "select" => Head(now).do = "read")
      BY Zenon
    <2> QED
      BY <1>1, <2>1 DEF LoopInv, Moving, Transfers
  <1>3. BusInv'
    <2>1. Head(now).masked => irq' = FALSE
      BY DEF Mask
    <2>2. irq' \in BOOLEAN
      BY Zenon DEF Mask, BusInv
    <2> QED
      BY <1>1, <2>1, <2>2, Zenon DEF BusInv
  <1>4. PdInv'
    BY <1>1, PdKept
  <1>5. UsbInv' /\ AlarmInv'
    BY <1>1, UsbKept, AlarmKept
  <1> QED
    BY <1>2, <1>3, <1>4, <1>5

LEMMA SelectedStep == IInv /\ Selected => IInv'
  <1> SUFFICES ASSUME IInv, Selected PROVE IInv'
    OBVIOUS
  <1> USE DEF IInv, Selected, usbVars
  <1>1. /\ Transfers /\ now # <<>> /\ Head(now).do = "read" /\ mutex = "none"
        /\ Head(now).dev \in Devices /\ Due(now) = Empty
    <2>1. Transfers /\ now # <<>> /\ Head(now).do = "read"
      BY DEF LoopInv, Moving, Transfers
    <2>2. mutex = "none"
      BY <2>1 DEF UsbInv
    <2>3. Head(now).dev \in Devices /\ Due(now) = Empty
      BY <2>1, HeadNow DEF TailOK, Bound, Due, Parts
    <2> QED
      BY <2>1, <2>2, <2>3
  <1>2. CASE stage' = "data" /\ tar' = Head(now).dev /\ UNCHANGED now
    <2>1. LoopInv'
      BY <1>1, <1>2 DEF LoopInv, Moving, Transfers
    <2>2. BusInv'
      BY <1>1, <1>2 DEF BusInv, Moving
    <2>3. PdInv' /\ UsbInv' /\ AlarmInv'
      BY <1>2, PdKept, UsbKept, AlarmKept
    <2> QED
      BY <2>1, <2>2, <2>3
  <1>3. CASE stage' = "none" /\ now' = <<>> /\ UNCHANGED tar
    <2>1. LoopInv'
      BY <1>3, NothingDue DEF LoopInv, Moving
    <2>2. BusInv'
      BY <1>3, BusAtRest DEF busVars
    <2>3. PdInv'
      BY <1>1, <1>3, NothingDue, PdKept
    <2>4. UsbInv' /\ AlarmInv'
      BY <1>1, UsbFree, AlarmKept
    <2> QED
      BY <2>1, <2>2, <2>3, <2>4
  <1> QED
    BY <1>2, <1>3

(* What a transfer does to a message: it goes on as due, or has a mark.    *)
Fifos == [holds : {"empty", "sop", "body", "junk"}, from : {"main", "spi", "none"}]

LEMMA PutTyped ==
  ASSUME NEW f \in Fifos, NEW from \in {"main", "spi"}, NEW filled,
         NEW part \in {"sop", "body", "eop", "flush"}
  PROVE  Put(f, from, filled, part) \in Fifos
  BY DEF Put, Fifos, Empty, Junk

(* The end of a message finds the rest of it in the FIFO, or a mark.       *)
LEMMA DueOnAir ==
  ASSUME PdInv, now # <<>>, Head(now).part = "eop"
  PROVE  Transmitted(fifo, spoiled) \in {"none", "whole", "excused"}
  <1>1. spoiled \/ fifo.holds = "body"
    BY DEF PdInv, Due
  <1> QED
    BY <1>1 DEF Transmitted, PdInv

LEMMA PutPartStep ==
  ASSUME IInv, NEW ok \in BOOLEAN, PutPart(ok), Transfers,
         (ok /\ now' = Tail(now)) \/ ((~ok \/ Head(now).do = "read") /\ now' = <<>>)
  PROVE  PdInv' /\ now' \in Rests
  <1> DEFINE part == Head(now).part
  <1>1. TailOK(now) /\ PdInv /\ now # <<>> /\ Head(now).do \in {"write", "read"}
    BY HeadNow DEF IInv, Transfers
  <1>2. now' \in Rests
    BY <1>1, NothingDue DEF TailOK
  <1>3. fifo \in Fifos /\ part \in {"none", "sop", "body", "eop", "flush"}
    BY <1>1 DEF PdInv, Fifos, TailOK, Calls, Parts
  <1>4. CASE part = "none"
    <2>1. Due(now) = Empty /\ Due(now') = Empty /\ (SendsIn(now') => SendsIn(now))
      BY <1>1, <1>4, NothingDue DEF TailOK, Due
    <2> QED
      BY <1>1, <1>2, <1>4, <2>1, PdKept DEF PutPart
  <1>5. CASE part # "none" /\ ~ok
    <2>1. now' = <<>> /\ Due(now') = Empty /\ ~SendsIn(now')
      BY <1>5, NothingDue
    <2>2. tx' = tx /\ spoiled' = (fifo' # Empty)
      BY <1>5 DEF PutPart
    <2>3. spoiled' \in BOOLEAN
      BY <2>2, Zenon
    <2>4. fifo' \in Fifos
      <3>1. Put(fifo, "main", tx, part) \in Fifos
        BY <1>3, <1>5, PutTyped
      <3>2. Junk \in Fifos
        BY DEF Junk, Fifos
      <3> QED
        BY <1>3, <1>5, <3>1, <3>2 DEF PutPart
    <2>5. air' \in {"none", "whole", "excused"}
      <3>1. CASE air' = air
        BY <1>1, <3>1 DEF PdInv
      <3>2. CASE part = "eop" /\ air' = Transmitted(fifo, spoiled)
        BY <1>1, <3>2, DueOnAir
      <3> QED
        BY <1>5, <3>1, <3>2 DEF PutPart
    <2> QED
      BY <1>1, <1>2, <2>1, <2>2, <2>3, <2>4, <2>5 DEF PdInv, Fifos
  <1>6. CASE part \in {"sop", "body"} /\ ok
    <2>1. /\ fifo' = Put(fifo, "main", tx, part) /\ air' = air /\ tx' = tx /\ spoiled' = spoiled
          /\ fifo' \in Fifos
      BY <1>3, <1>6, PutTyped DEF PutPart
    <2>2. now' = Tail(now) /\ SendsIn(now)
      BY <1>1, <1>6 DEF TailOK, Parts
    <2>3. ~spoiled => fifo' = Due(now')
      <3>1. CASE part = "sop"
        BY <1>1, <2>1, <2>2, <3>1 DEF PdInv, TailOK, Due, Put
      <3>2. CASE part = "body"
        BY <1>1, <2>1, <2>2, <3>2 DEF PdInv, TailOK, Due, Put
      <3> QED
        BY <1>6, <3>1, <3>2
    <2> QED
      BY <1>1, <1>2, <2>1, <2>2, <2>3 DEF PdInv, Fifos
  <1>7. CASE part \in {"eop", "flush"} /\ ok
    <2>1. now' = <<>>
      BY <1>1, <1>7 DEF TailOK
    <2>2. fifo' = Empty /\ tx' = tx /\ spoiled' = FALSE
      BY <1>7 DEF PutPart, Put
    <2>3. air' \in {"none", "whole", "excused"}
      <3>1. CASE part = "flush"
        BY <1>1, <1>7, <3>1 DEF PutPart, PdInv
      <3>2. CASE part = "eop"
        <4>1. air' = Transmitted(fifo, spoiled)
          BY <1>7, <3>2 DEF PutPart
        <4> QED
          BY <1>1, <3>2, <4>1, DueOnAir
      <3> QED
        BY <1>7, <3>1, <3>2
    <2>4. spoiled' \in BOOLEAN
      BY <2>2, Zenon
    <2> QED
      BY <1>1, <1>2, <2>1, <2>2, <2>3, <2>4, NothingDue DEF PdInv, Empty
  <1> QED
    BY <1>3, <1>4, <1>5, <1>6, <1>7

LEMMA TransferredStep == IInv /\ Transferred => IInv'
  <1> SUFFICES ASSUME IInv, Transferred PROVE IInv'
    OBVIOUS
  <1> USE DEF IInv, Transferred, usbVars
  <1>1. Transfers /\ now # <<>> /\ mutex = "none"
    BY DEF LoopInv, Moving, Transfers, UsbInv
  <1>2. PICK ok \in BOOLEAN :
          /\ Unmask(Head(now), ok) /\ PutPart(ok)
          /\ (ok /\ now' = Tail(now)) \/ ((~ok \/ Head(now).do = "read") /\ now' = <<>>)
    OBVIOUS
  <1>3. PdInv' /\ now' \in Rests
    BY <1>1, <1>2, PutPartStep
  <1>4. LoopInv'
    BY <1>3 DEF LoopInv, Moving
  <1>5. BusInv'
    <2>1. irq' \in BOOLEAN
      BY <1>2, Zenon DEF Unmask, BusInv
    <2> QED
      BY <2>1 DEF BusInv, Moving
  <1>6. UsbInv' /\ AlarmInv'
    BY <1>1, UsbFree, AlarmKept
  <1> QED
    BY <1>3, <1>4, <1>5, <1>6

LEMMA FillTxStep == IInv /\ FillTx => IInv'
  <1> SUFFICES ASSUME IInv, FillTx PROVE IInv'
    OBVIOUS
  <1> USE DEF IInv, FillTx, usbVars
  <1>1. TailOK(now) /\ now # <<>> /\ stage = "none" /\ mutex = "none"
    BY HeadNow DEF LoopInv, Moving, Transfers, UsbInv
  <1>2. LoopInv'
    BY <1>1 DEF LoopInv, Moving, TailOK
  <1>3. BusInv'
    BY <1>1, BusAtRest
  <1>4. PdInv'
    <2>1. Due(now) = Empty /\ Due(now') = Empty
      BY <1>1 DEF TailOK, Due, Parts
    <2>2. tx' \in {"main", "mixed"} /\ fifo' = fifo /\ air' = air /\ spoiled' = spoiled
      OBVIOUS
    <2>3. ~spoiled /\ SendsIn(now') => tx' = "main"
      BY <1>1 DEF TailOK, PdInv
    <2> QED
      BY <2>1, <2>2, <2>3 DEF PdInv
  <1>5. UsbInv' /\ AlarmInv'
    BY <1>1, UsbFree, AlarmKept
  <1> QED
    BY <1>2, <1>3, <1>4, <1>5

(* The end of a print or a read of the serial port is no step of a message. *)
LEMMA Returns ==
  ASSUME IInv, now # <<>>, Head(now).do \in {"print", "getchar"}, now' = Tail(now),
         UNCHANGED <<turn, todo, stage, busVars, edge, pdVars>>
  PROVE  LoopInv' /\ BusInv' /\ PdInv'
  <1> USE DEF IInv
  <1>1. TailOK(now) /\ stage = "none"
    BY HeadNow DEF LoopInv, Moving, Transfers
  <1>2. LoopInv'
    BY <1>1 DEF LoopInv, Moving, TailOK
  <1>3. BusInv'
    BY <1>1, BusAtRest
  <1>4. PdInv'
    <2>1. Due(now) = Empty /\ Due(now') = Empty /\ (SendsIn(now') => SendsIn(now))
      BY <1>1 DEF TailOK, Due, Parts
    <2> QED
      BY <2>1, PdKept
  <1> QED
    BY <1>2, <1>3, <1>4

LEMMA OutStep == IInv /\ stdio_usb_out_chars => IInv'
  <1> SUFFICES ASSUME IInv, stdio_usb_out_chars PROVE IInv'
    OBVIOUS
  <1> USE DEF IInv, stdio_usb_out_chars, loopVars
  <1>1. LoopInv' /\ BusInv' /\ PdInv' /\ AlarmInv'
    BY LoopKept, BusKept, PdKept, AlarmKept
  <1>2. UsbInv'
    BY DEF UsbInv
  <1> QED
    BY <1>1, <1>2

LEMMA WriteChunkStep == IInv /\ WriteChunk => IInv'
  <1> SUFFICES ASSUME IInv, WriteChunk PROVE IInv'
    OBVIOUS
  <1> USE DEF IInv, WriteChunk, loopVars
  <1>1. LoopInv' /\ BusInv' /\ PdInv' /\ AlarmInv'
    BY LoopKept, BusKept, PdKept, AlarmKept
  <1>2. UsbInv'
    <2>1. left' \in 0..MaxChunks
      BY MaxChunksAssumption DEF UsbInv
    <2>2. work' \in BOOLEAN
      BY Zenon
    <2> QED
      BY <2>1, <2>2, Zenon DEF UsbInv
  <1> QED
    BY <1>1, <1>2

LEMMA InStep == IInv /\ stdio_usb_in_chars => IInv'
  <1> SUFFICES ASSUME IInv, stdio_usb_in_chars PROVE IInv'
    OBVIOUS
  <1> USE DEF IInv, stdio_usb_in_chars
  <1>1. AlarmInv'
    BY AlarmKept
  <1>2. CASE now' = Tail(now) /\ UNCHANGED mutex
    BY <1>1, <1>2, Returns, UsbFree
  <1>3. CASE mutex' = "main" /\ UNCHANGED now
    <2>1. LoopInv' /\ BusInv' /\ PdInv'
      BY <1>3, LoopKept, BusKept, PdKept DEF loopVars
    <2>2. UsbInv'
      BY <1>3 DEF UsbInv
    <2> QED
      BY <1>1, <2>1, <2>2
  <1> QED
    BY <1>2, <1>3

LEMMA DoneStep == IInv /\ Done => IInv'
  <1> SUFFICES ASSUME IInv, Done PROVE IInv'
    OBVIOUS
  <1> USE DEF IInv, Done
  <1>1. LoopInv' /\ BusInv' /\ PdInv' /\ AlarmInv'
    BY Returns, AlarmKept DEF UsbInv
  <1>2. UsbInv'
    <2>1. work' \in BOOLEAN
      BY Zenon DEF UsbInv
    <2> QED
      BY <2>1 DEF UsbInv, mutex_exit
  <1> QED
    BY <1>1, <1>2

-----------------------------------------------------------------------------
(* The interrupts.                                                         *)

LEMMA SomSelectsStep == IInv /\ SomSelects => IInv'
  <1> SUFFICES ASSUME IInv, SomSelects PROVE IInv'
    OBVIOUS
  <1> USE DEF IInv, SomSelects, usbVars, loopVars
  <1>1. LoopInv' /\ PdInv' /\ UsbInv' /\ AlarmInv'
    BY LoopKept, PdKept, UsbKept, AlarmKept
  <1>2. BusInv'
    <2>1. edge' \in BOOLEAN
      BY Zenon
    <2> QED
      BY <2>1 DEF BusInv, busVars, Moving, Astray
  <1> QED
    BY <1>1, <1>2

(* The handler's message is whole if the program has none in the FIFO.     *)
LEMMA SpiSendsStep ==
  ASSUME IInv, NEW n \in 0..3, SpiSends(n), UNCHANGED now
  PROVE  PdInv'
  <1> DEFINE begun == Put(fifo, "spi", "spi", "sop")
             filled == Put(begun, "spi", "spi", "body")
  <1>1. PdInv /\ fifo \in Fifos
    BY DEF IInv, PdInv, Fifos
  <1>2. begun \in Fifos /\ filled \in Fifos /\ Empty \in Fifos
    <2>1. begun \in Fifos
      BY <1>1, PutTyped
    <2> QED
      BY <2>1, PutTyped DEF Fifos, Empty
  <1>3. fifo' \in {fifo, begun, filled, Empty} /\ tx' = "spi" /\ spoiled' = (Sending \/ fifo' # Empty)
    BY DEF SpiSends
  <1>4. air' \in {"none", "whole", "excused"}
    <2>1. CASE n # 3
      BY <1>1, <2>1 DEF SpiSends, PdInv
    <2>2. CASE n = 3
      <3>1. air' = Transmitted(filled, spoiled \/ Sending)
        BY <2>2 DEF SpiSends
      <3>2. ~spoiled /\ ~Sending => filled.holds = "body"
        <4> SUFFICES ASSUME ~spoiled, ~Sending PROVE filled.holds = "body"
          OBVIOUS
        <4>1. Due(now) = Empty
          BY SendingIn, HeadNow DEF TailOK, Due, Parts
        <4>2. fifo = Empty
          BY <1>1, <4>1 DEF PdInv
        <4> QED
          BY <4>2 DEF Put
      <3> QED
        BY <3>1, <3>2 DEF Transmitted
    <2> QED
      BY <2>1, <2>2
  <1>5. ~spoiled' => fifo' = Due(now') /\ ~SendsIn(now')
    <2> SUFFICES ASSUME ~spoiled' PROVE fifo' = Due(now') /\ ~SendsIn(now')
      OBVIOUS
    <2>1. ~Sending /\ fifo' = Empty
      BY <1>3
    <2>2. Due(now) = Empty /\ ~SendsIn(now)
      BY <2>1, SendingIn, HeadNow DEF TailOK, Due, Parts
    <2> QED
      BY <2>1, <2>2
  <1>6. spoiled' \in BOOLEAN
    BY <1>3, Zenon
  <1>7. fifo' \in Fifos
    BY <1>1, <1>2, <1>3
  <1> QED
    BY <1>3, <1>4, <1>5, <1>6, <1>7 DEF PdInv, Fifos

LEMMA SpiStep == IInv /\ spi_commands_task => IInv'
  <1> SUFFICES ASSUME IInv, spi_commands_task PROVE IInv'
    OBVIOUS
  <1> USE DEF IInv, spi_commands_task, loopVars
  <1>1. LoopInv' /\ AlarmInv'
    BY LoopKept, AlarmKept
  <1>2. tar' \in Devices
    BY DEF BusInv, Devices
  <1>3. BusInv'
    <2>1. edge' \in BOOLEAN
      BY Zenon
    <2>2. Moving' => ~Head(now').masked /\ (tar' = Head(now').dev \/ Astray')
      <3> SUFFICES ASSUME Moving'
                   PROVE  ~Head(now').masked /\ (tar' = Head(now').dev \/ Astray')
        OBVIOUS
      <3>1. Moving /\ now' = now /\ ~Head(now).masked
        BY DEF BusInv, Moving
      <3>2. tar' = tar \/ Astray'
        BY DEF Astray
      <3> QED
        BY <3>1, <3>2 DEF BusInv, Astray
    <2> QED
      BY <1>2, <2>1, <2>2 DEF BusInv
  <1>4. PdInv'
    <2>1. CASE UNCHANGED pdVars
      BY <2>1, PdKept
    <2>2. CASE \E n \in 0..3 : SpiSends(n)
      BY <2>2, SpiSendsStep
    <2> QED
      BY <2>1, <2>2
  <1>5. UsbInv'
    <2>1. work' \in BOOLEAN
      BY Zenon DEF UsbInv
    <2> QED
      BY <2>1 DEF UsbInv
  <1> QED
    BY <1>1, <1>3, <1>4, <1>5

LEMMA UsbIrqStep == IInv /\ usb_irq => IInv'
  <1> SUFFICES ASSUME IInv, usb_irq PROVE IInv'
    OBVIOUS
  <1> USE DEF IInv, usb_irq, loopVars
  <1>1. LoopInv' /\ BusInv' /\ PdInv' /\ AlarmInv'
    BY LoopKept, BusKept, PdKept, AlarmKept
  <1>2. UsbInv'
    <2>1. work' \in BOOLEAN /\ worker' \in BOOLEAN
      BY Zenon
    <2> QED
      BY <2>1 DEF UsbInv
  <1> QED
    BY <1>1, <1>2

LEMMA WorkerStep == IInv /\ low_priority_worker_irq => IInv'
  <1> SUFFICES ASSUME IInv, low_priority_worker_irq PROVE IInv'
    OBVIOUS
  <1> USE DEF IInv, low_priority_worker_irq, loopVars
  <1>1. LoopInv' /\ BusInv' /\ PdInv'
    BY LoopKept, BusKept, PdKept
  <1>2. AlarmInv'
    <2>1. CASE UNCHANGED <<one_shot_timer_pending, alarms>>
      BY <2>1, AlarmKept
    <2>2. CASE one_shot_timer_pending' = TRUE /\ AddAlarm
      <3>1. one_shot_timer_pending' \in BOOLEAN
        BY <2>2, Zenon
      <3>2. alarms' = 1
        BY <2>2 DEF AddAlarm, AlarmInv, OneTimer
      <3> QED
        BY <2>2, <3>1, <3>2 DEF AlarmInv, OneTimer
    <2> QED
      BY <2>1, <2>2
  <1>3. UsbInv'
    <2>1. work' \in BOOLEAN /\ worker' \in BOOLEAN
      BY Zenon DEF UsbInv
    <2> QED
      BY <2>1 DEF UsbInv
  <1> QED
    BY <1>1, <1>2, <1>3

LEMMA TimerStep == IInv /\ timer_task => IInv'
  <1> SUFFICES ASSUME IInv, timer_task PROVE IInv'
    OBVIOUS
  <1> USE DEF IInv, timer_task, loopVars
  <1>1. LoopInv' /\ BusInv' /\ PdInv'
    BY LoopKept, BusKept, PdKept
  <1>2. AlarmInv'
    <2>1. alarms' = 0
      BY DEF AlarmInv, OneTimer
    <2>2. one_shot_timer_pending' \in BOOLEAN /\ ~one_shot_timer_pending'
      BY Zenon DEF ClearPending
    <2> QED
      BY <2>1, <2>2 DEF AlarmInv, OneTimer
  <1>3. UsbInv'
    <2>1. worker' \in BOOLEAN
      BY Zenon
    <2> QED
      BY <2>1 DEF UsbInv
  <1> QED
    BY <1>1, <1>2, <1>3

-----------------------------------------------------------------------------
(* The theorems.                                                           *)

LEMMA InvStep == IInv /\ [Next]_vars => IInv'
  <1> SUFFICES ASSUME IInv, [Next]_vars PROVE IInv'
    OBVIOUS
  <1>1. CASE UNCHANGED vars
    <2> USE <1>1 DEF IInv, vars, usbVars
    <2>1. LoopInv' /\ BusInv' /\ PdInv' /\ UsbInv' /\ AlarmInv'
      BY LoopKept, BusKept, PdKept, UsbKept, AlarmKept DEF loopVars
    <2> QED
      BY <2>1
  <1>2. CASE Main
    BY <1>2, loopStep, FetchStep, BeginStep, SelectedStep, TransferredStep, FillTxStep,
       OutStep, WriteChunkStep, InStep, DoneStep, Zenon DEF Main
  <1>3. CASE SomSelects \/ spi_commands_task
    BY <1>3, SomSelectsStep, SpiStep, Zenon
  <1>4. CASE usb_irq \/ low_priority_worker_irq \/ timer_task
    BY <1>4, UsbIrqStep, WorkerStep, TimerStep, Zenon
  <1> QED
    BY <1>1, <1>2, <1>3, <1>4, Zenon DEF Next

(* The main program and the handlers keep the inductive invariant: what is *)
(* in the FIFO, on the bus and in the mutex fits the call that is next.    *)
THEOREM InvHolds == Spec => []IInv
  BY InvInit, InvStep, PTL DEF Spec

(* Every variable stays in its type, whatever the SOM asks for and however *)
(* long the output: the mutex is held only in a print or a read of the     *)
(* serial port, and a transfer has a driver that is in it.                 *)
THEOREM InterruptsTypesHold == Spec => []InterruptsTypeOK
  BY InvHolds, InvIsEnough, PTL

(* No bytes go to another chip than theirs but the charger's: every other  *)
(* driver masks the SPI interrupt (sysctl_disable_irqs) and has the bus    *)
(* controller on its own chip until its transfer ends.                     *)
THEOREM BusIsSafe == Spec => []OnlyChargerStrays
  BY InvHolds, InvIsEnough, PTL

(* No mangled message is transmitted (fusb_send_message) unless a transfer *)
(* had failed or the SPI handler had sent one in its midst.                *)
THEOREM MessagesAreWhole == Spec => []MessagesWhole
  BY InvHolds, InvIsEnough, PTL

(* low_priority_worker_irq and timer_task: there is never more than one    *)
(* alarm, and one whenever the flag says so.                               *)
THEOREM OneTimerIsEnough == Spec => []OneTimer
  BY InvHolds, InvIsEnough, PTL
=============================================================================
