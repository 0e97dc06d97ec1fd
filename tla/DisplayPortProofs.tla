------------------------- MODULE DisplayPortProofs -------------------------
(***************************************************************************)
(* Safety of the DisplayPort alternate mode, for any bound on the messages *)
(* on their way: the types, and what the hot plug line tells the SOM.      *)
(***************************************************************************)
EXTENDS DisplayPort, SequenceTheorems, TLAPS

-----------------------------------------------------------------------------
(* What is on its way in one direction: reports of the partner's HPD, and  *)
(* the one message that the negotiation waits for. t is that message, kind *)
(* the kind of all others.                                                 *)

Carries(m) == m.cmd = "ATTENTION" \/ (m.kind = "ACK" /\ m.cmd = "STATUS")

NoneCarries(s) == \A k \in 1..Len(s) : ~Carries(s[k])

(* The last report says d.                                                 *)
Reports(s, d) == \A k \in 1..Len(s) :
  Carries(s[k]) /\ (\A l \in 1..Len(s) : l > k => ~Carries(s[l])) => s[k].hpd = d

Attn(m, kind) == m.cmd = "ATTENTION" /\ m.kind = kind

OnlyAttn(s, kind) == \A k \in 1..Len(s) : Attn(s[k], kind)

HasOne(s, t, kind) == \E j \in 1..Len(s) :
  s[j] = t /\ \A k \in 1..Len(s) : k # j => Attn(s[k], kind)

LEMMA Taken ==
  ASSUME NEW s \in Seq(Message), s # <<>>
  PROVE  /\ Head(s) = s[1] /\ Head(s) \in Message /\ Tail(s) \in Seq(Message)
         /\ Len(s) \in Nat /\ Len(s) >= 1 /\ Len(Tail(s)) = Len(s) - 1
         /\ \A j \in 1..Len(Tail(s)) : Tail(s)[j] = s[j + 1]
BY EmptySeq, HeadTailProperties

LEMMA Added ==
  ASSUME NEW s \in Seq(Message), NEW m \in Message
  PROVE  /\ Append(s, m) \in Seq(Message) /\ Append(s, m) # <<>>
         /\ Len(s) \in Nat /\ Len(Append(s, m)) = Len(s) + 1
         /\ \A j \in 1..Len(s) : Append(s, m)[j] = s[j]
         /\ Append(s, m)[Len(s) + 1] = m
BY AppendProperties

(* The next one taken from a queue.                                        *)
LEMMA TailOfAll ==
  ASSUME NEW s \in Seq(Message), s # <<>>, NEW P, NEW kind
  PROVE  /\ OnlyAttn(s, kind) => Attn(Head(s), kind) /\ OnlyAttn(Tail(s), kind)
         /\ NoneCarries(s) => ~Carries(Head(s)) /\ NoneCarries(Tail(s))
<1>. DEFINE u == Tail(s)
<1>1. /\ Head(s) = s[1] /\ Len(s) \in Nat /\ Len(s) >= 1 /\ Len(u) = Len(s) - 1
      /\ \A j \in 1..Len(u) : u[j] = s[j + 1]
  BY Taken
<1>. HIDE DEF u
<1>2. \A j \in 1..Len(u) : j + 1 \in 1..Len(s)  BY <1>1
<1>3. 1 \in 1..Len(s)  BY <1>1
<1>. QED  BY <1>1, <1>2, <1>3 DEF OnlyAttn, NoneCarries, u

LEMMA TailOfOne ==
  ASSUME NEW s \in Seq(Message), s # <<>>, NEW t, NEW kind, HasOne(s, t, kind)
  PROVE  \/ Head(s) = t /\ OnlyAttn(Tail(s), kind)
         \/ Attn(Head(s), kind) /\ HasOne(Tail(s), t, kind)
<1>. DEFINE u == Tail(s)
<1>1. /\ Head(s) = s[1] /\ Len(s) \in Nat /\ Len(s) >= 1 /\ Len(u) = Len(s) - 1
      /\ \A j \in 1..Len(u) : u[j] = s[j + 1]
  BY Taken
<1>2. PICK j \in 1..Len(s) : s[j] = t /\ \A k \in 1..Len(s) : k # j => Attn(s[k], kind)
  BY DEF HasOne
<1>. HIDE DEF u
<1>3. CASE j = 1
  <2>1. ASSUME NEW k \in 1..Len(u) PROVE Attn(u[k], kind)
    <3>1. k + 1 \in 1..Len(s) /\ k + 1 # j  BY <1>1, <1>3
    <3>. QED  BY <1>1, <1>2, <3>1
  <2>. QED  BY <1>1, <1>2, <1>3, <2>1 DEF OnlyAttn, u
<1>4. CASE j # 1
  <2>1. 1 \in 1..Len(s) /\ j - 1 \in 1..Len(u) /\ (j - 1) + 1 = j  BY <1>1, <1>2, <1>4
  <2>2. Attn(Head(s), kind) /\ u[j - 1] = t  BY <1>1, <1>2, <1>4, <2>1
  <2>3. ASSUME NEW k \in 1..Len(u), k # j - 1 PROVE Attn(u[k], kind)
    <3>1. k + 1 \in 1..Len(s) /\ k + 1 # j  BY <1>1, <1>2, <2>3
    <3>. QED  BY <1>1, <1>2, <3>1
  <2>. QED  BY <2>1, <2>2, <2>3 DEF HasOne, u
<1>. QED  BY <1>3, <1>4

LEMMA TailOfReports ==
  ASSUME NEW s \in Seq(Message), s # <<>>, NEW d, Reports(s, d)
  PROVE  /\ Reports(Tail(s), d)
         /\ Carries(Head(s)) /\ NoneCarries(Tail(s)) => Head(s).hpd = d
         /\ ~Carries(Head(s)) /\ NoneCarries(Tail(s)) => NoneCarries(s)
<1>. DEFINE u == Tail(s)
<1>1. /\ Head(s) = s[1] /\ Len(s) \in Nat /\ Len(s) >= 1 /\ Len(u) = Len(s) - 1
      /\ \A j \in 1..Len(u) : u[j] = s[j + 1]
  BY Taken
<1>. HIDE DEF u
<1>2. ASSUME NEW k \in 1..Len(u), Carries(u[k]), \A l \in 1..Len(u) : l > k => ~Carries(u[l])
      PROVE  u[k].hpd = d
  <2>1. k + 1 \in 1..Len(s) /\ u[k] = s[k + 1]  BY <1>1
  <2>2. ASSUME NEW l \in 1..Len(s), l > k + 1 PROVE ~Carries(s[l])
    <3>1. l - 1 \in 1..Len(u) /\ l - 1 > k /\ (l - 1) + 1 = l  BY <1>1, <2>2
    <3>. QED  BY <1>1, <1>2, <3>1
  <2>. QED  BY <1>2, <2>1, <2>2 DEF Reports
<1>3. ASSUME NoneCarries(u), NEW l \in 1..Len(s), l > 1 PROVE ~Carries(s[l])
  <2>1. l - 1 \in 1..Len(u) /\ (l - 1) + 1 = l  BY <1>1, <1>3
  <2>. QED  BY <1>1, <1>3, <2>1 DEF NoneCarries
<1>4. ASSUME Carries(Head(s)), NoneCarries(u) PROVE Head(s).hpd = d
  <2>1. 1 \in 1..Len(s)  BY <1>1
  <2>. QED  BY <1>1, <1>3, <1>4, <2>1 DEF Reports
<1>5. ASSUME ~Carries(Head(s)), NoneCarries(u) PROVE NoneCarries(s)
  <2>1. \A l \in 1..Len(s) : l = 1 \/ l > 1  BY <1>1
  <2>. QED  BY <1>1, <1>3, <1>5, <2>1 DEF NoneCarries
<1>. QED  BY <1>2, <1>4, <1>5 DEF Reports, u

(* One more put into it.                                                   *)
LEMMA AppendToAll ==
  ASSUME NEW s \in Seq(Message), NEW m \in Message, NEW kind
  PROVE  /\ OnlyAttn(s, kind) /\ Attn(m, kind) => OnlyAttn(Append(s, m), kind)
         /\ OnlyAttn(s, kind) => HasOne(Append(s, m), m, kind)
         /\ NoneCarries(s) /\ ~Carries(m) => NoneCarries(Append(s, m))
         /\ NoneCarries(Append(s, m)) => NoneCarries(s) /\ ~Carries(m)
         /\ \A t : HasOne(s, t, kind) /\ Attn(m, kind) => HasOne(Append(s, m), t, kind)
<1>. DEFINE u == Append(s, m)
<1>1. /\ Len(s) \in Nat /\ Len(u) = Len(s) + 1
      /\ \A j \in 1..Len(s) : u[j] = s[j]
      /\ u[Len(s) + 1] = m
  BY Added
<1>. HIDE DEF u
<1>2. \A j \in 1..Len(u) : j \in 1..Len(s) \/ j = Len(s) + 1  BY <1>1
<1>3. \A j \in 1..Len(s) : j \in 1..Len(u) /\ j # Len(s) + 1  BY <1>1
<1>4. Len(s) + 1 \in 1..Len(u)  BY <1>1
<1>5. OnlyAttn(s, kind) /\ Attn(m, kind) => OnlyAttn(u, kind)
  BY <1>1, <1>2 DEF OnlyAttn
<1>6. OnlyAttn(s, kind) => HasOne(u, m, kind)
  BY <1>1, <1>2, <1>4 DEF OnlyAttn, HasOne
<1>7. NoneCarries(s) /\ ~Carries(m) <=> NoneCarries(u)
  BY <1>1, <1>2, <1>3, <1>4 DEF NoneCarries
<1>8. ASSUME NEW t, HasOne(s, t, kind), Attn(m, kind) PROVE HasOne(u, t, kind)
  <2>1. PICK j \in 1..Len(s) : s[j] = t /\ \A k \in 1..Len(s) : k # j => Attn(s[k], kind)
    BY <1>8 DEF HasOne
  <2>2. j \in 1..Len(u) /\ u[j] = t  BY <1>1, <1>3, <2>1
  <2>3. \A k \in 1..Len(u) : k # j => Attn(u[k], kind)  BY <1>1, <1>2, <1>8, <2>1
  <2>. QED  BY <2>2, <2>3 DEF HasOne
<1>. QED  BY <1>5, <1>6, <1>7, <1>8 DEF u

LEMMA AppendToReports ==
  ASSUME NEW s \in Seq(Message), NEW m \in Message, NEW d
  PROVE  /\ Carries(m) /\ m.hpd = d => Reports(Append(s, m), d)
         /\ ~Carries(m) /\ Reports(s, d) => Reports(Append(s, m), d)
<1>. DEFINE u == Append(s, m)
<1>1. /\ Len(s) \in Nat /\ Len(u) = Len(s) + 1
      /\ \A j \in 1..Len(s) : u[j] = s[j]
      /\ u[Len(s) + 1] = m
  BY Added
<1>. HIDE DEF u
<1>2. \A j \in 1..Len(u) : j \in 1..Len(s) \/ j = Len(s) + 1  BY <1>1
<1>3. \A j \in 1..Len(s) : j \in 1..Len(u) /\ j < Len(s) + 1  BY <1>1
<1>4. Len(s) + 1 \in 1..Len(u)  BY <1>1
<1>5. ASSUME NEW k \in 1..Len(u), Carries(u[k]), \A l \in 1..Len(u) : l > k => ~Carries(u[l])
      PROVE  /\ Carries(m) /\ m.hpd = d => u[k].hpd = d
             /\ ~Carries(m) /\ Reports(s, d) => u[k].hpd = d
  <2>1. CASE k = Len(s) + 1  BY <1>1, <1>5, <2>1
  <2>2. CASE k \in 1..Len(s)
    <3>1. ~Carries(m)
      <4>1. Len(s) + 1 > k  BY <1>1, <2>2
      <4>. QED  BY <1>1, <1>4, <1>5, <4>1
    <3>2. Carries(s[k]) /\ \A l \in 1..Len(s) : l > k => ~Carries(s[l])
      BY <1>1, <1>3, <1>5, <2>2
    <3>. QED  BY <1>1, <2>2, <3>1, <3>2 DEF Reports
  <2>. QED  BY <1>2, <2>1, <2>2
<1>. QED  BY <1>5 DEF Reports, u

LEMMA Nothing ==
  /\ <<>> \in Seq(Message)
  /\ \A kind : OnlyAttn(<<>>, kind)
  /\ \A t, kind : ~HasOne(<<>>, t, kind)
  /\ NoneCarries(<<>>) /\ \A d : Reports(<<>>, d)
BY DEF OnlyAttn, HasOne, NoneCarries, Reports

LEMMA Ranges ==
  ASSUME NEW s \in Seq(Message)
  PROVE  /\ s # <<>> => Head(s) \in Range(s) /\ Range(Tail(s)) \subseteq Range(s)
         /\ \A m \in Message : Range(Append(s, m)) = Range(s) \cup {m}
<1>1. ASSUME s # <<>> PROVE Head(s) \in Range(s) /\ Range(Tail(s)) \subseteq Range(s)
  <2>. DEFINE u == Tail(s)
  <2>1. /\ Head(s) = s[1] /\ Len(s) \in Nat /\ Len(s) >= 1 /\ Len(u) = Len(s) - 1
        /\ \A j \in 1..Len(u) : u[j] = s[j + 1]
        /\ u \in Seq(Message)
    BY <1>1, Taken
  <2>. HIDE DEF u
  <2>2. \A j \in 1..Len(u) : j + 1 \in 1..Len(s)  BY <2>1
  <2>3. 1 \in 1..Len(s)  BY <2>1
  <2>4. Range(s) = {s[j] : j \in 1..Len(s)} /\ Range(u) = {u[j] : j \in 1..Len(u)}
    BY <2>1, RangeEquality
  <2>. QED  BY <2>1, <2>2, <2>3, <2>4 DEF u
<1>2. ASSUME NEW m \in Message PROVE Range(Append(s, m)) = Range(s) \cup {m}
  <2>. DEFINE u == Append(s, m)
  <2>1. /\ Len(s) \in Nat /\ Len(u) = Len(s) + 1 /\ u \in Seq(Message)
        /\ \A j \in 1..Len(s) : u[j] = s[j]
        /\ u[Len(s) + 1] = m
    BY Added
  <2>. HIDE DEF u
  <2>2. \A j \in 1..Len(u) : j \in 1..Len(s) \/ j = Len(s) + 1  BY <2>1
  <2>3. \A j \in 1..Len(s) : j \in 1..Len(u)  BY <2>1
  <2>4. Len(s) + 1 \in 1..Len(u)  BY <2>1
  <2>5. Range(s) = {s[j] : j \in 1..Len(s)} /\ Range(u) = {u[j] : j \in 1..Len(u)}
    BY <2>1, RangeEquality
  <2>. QED  BY <2>1, <2>2, <2>3, <2>4, <2>5 DEF u
<1>. QED  BY <1>1, <1>2

-----------------------------------------------------------------------------
(* The invariant. Which messages there are in which role: a partner that   *)
(* is the host asks and reports nothing, and the port speaks of the mode   *)
(* only as the host.                                                       *)
RolesOK ==
  /\ ~attached => ~dfp /\ toUs = <<>> /\ toPeer = <<>>
  /\ ready => dfp
  /\ alt_mode_requested => dfp
  /\ ~dfp => /\ \A m \in Range(toUs) : m.kind = "REQ" /\ ~m.hpd
             /\ \A m \in Range(toPeer) : m.kind # "REQ"
  /\ ~alt_mode_requested => mode = "out" /\ ~hpd
  /\ dfp /\ ~alt_mode_requested => toUs = <<>> /\ toPeer = <<>>
  /\ \A m \in Range(toPeer) : m.kind = "REQ" /\ m.cmd = "CONFIGURE" => m.pins # {}

(* The one message of the negotiation is a request or its answer,          *)
Asked(c) ==
  /\ \E t \in Message : /\ t.kind = "REQ" /\ t.cmd = c /\ (c = "CONFIGURE" => t.pins = {pins})
                        /\ HasOne(toPeer, t, "ACK")
  /\ OnlyAttn(toUs, "REQ")

Answered(c) ==
  /\ \E t \in Message : t.kind = "ACK" /\ t.cmd = c /\ HasOne(toUs, t, "REQ")
  /\ OnlyAttn(toPeer, "ACK")

(* until there is none any more.                                           *)
Through == OnlyAttn(toUs, "REQ") /\ OnlyAttn(toPeer, "ACK")

Known == NoneCarries(toUs) => hpd = display

Stage ==
  \/ mode = "out" /\ \E c \in {"SVIDS", "MODES", "ENTER"} : Asked(c)
  \/ mode = "out" /\ \E c \in {"SVIDS", "MODES"} : Answered(c)
  \/ mode = "entered" /\ (Answered("ENTER") \/ Asked("STATUS") \/ Answered("STATUS"))
  \/ mode = "entered" /\ Asked("CONFIGURE") /\ Known
  \/ mode = "configured" /\ configured = pins /\ Known /\ (Answered("CONFIGURE") \/ Through)

Negotiation ==
  /\ Stage
  /\ mode = "out" => NoneCarries(toUs)
  /\ Reports(toUs, display)

DisplayInv ==
  /\ DisplayTypeOK
  /\ RolesOK
  /\ trouble = {} /\ alt_mode_requested => Negotiation

LEMMA InitDisplay == Init => DisplayInv
<1>. SUFFICES ASSUME Init PROVE DisplayInv  OBVIOUS
<1>1. DisplayTypeOK
  <2>1. <<>> \in Seq(Message) /\ Len(<<>>) + Len(<<>>) <= MaxWire  BY MaxWireAssumption
  <2>2. {attached, dfp, ready, alt_mode_requested, hpd, display} \subseteq BOOLEAN
    BY Zenon DEF Init
  <2>. QED  BY <2>1, <2>2 DEF Init, DisplayTypeOK
<1>2. RolesOK  BY DEF Init, RolesOK, Range
<1>. QED  BY <1>1, <1>2 DEF Init, DisplayInv

-----------------------------------------------------------------------------
(* The session.                                                            *)

LEMMA SetupKeeps ==
  ASSUME DisplayInv, Setup
  PROVE  DisplayInv'
<1>1. DisplayTypeOK'
  <2>1. <<>> \in Seq(Message) /\ Len(<<>>) + Len(<<>>) <= MaxWire  BY MaxWireAssumption
  <2>2. {attached, dfp, ready, alt_mode_requested, hpd, display}' \subseteq BOOLEAN
    BY Zenon DEF Setup, DisplayInv, DisplayTypeOK
  <2>. QED  BY <2>1, <2>2 DEF Setup, DisplayInv, DisplayTypeOK
<1>2. RolesOK'  BY DEF Setup, RolesOK, Range
<1>. QED  BY <1>1, <1>2 DEF Setup, DisplayInv

LEMMA AttachKeeps ==
  ASSUME DisplayInv, Attach
  PROVE  DisplayInv'
<1>1. DisplayTypeOK'  BY DEF Attach, DisplayInv, DisplayTypeOK
<1>2. RolesOK'  BY DEF Attach, DisplayInv, RolesOK
<1>3. ~alt_mode_requested'  BY DEF Attach, DisplayInv, RolesOK
<1>. QED  BY <1>1, <1>2, <1>3 DEF DisplayInv

LEMMA NegotiationStays ==
  ASSUME Negotiation, UNCHANGED <<toPeer, toUs, mode, configured, pins, hpd, display>>
  PROVE  Negotiation'
BY DEF Negotiation, Stage, Asked, Answered, Through, Known, NoneCarries, Reports, OnlyAttn, HasOne

LEMMA PowerReadyKeeps ==
  ASSUME DisplayInv, PowerReady
  PROVE  DisplayInv'
<1>1. /\ dfp /\ ready' = TRUE
      /\ UNCHANGED <<attached, dfp, alt_mode_requested, pins, hpd, mode, configured, offers,
                     display, toPeer, toUs, trouble>>
  BY DEF PowerReady, peerVars
<1>2. DisplayTypeOK'  BY <1>1 DEF DisplayInv, DisplayTypeOK
<1>3. RolesOK'  BY <1>1 DEF DisplayInv, RolesOK
<1>4. Negotiation => Negotiation'  BY <1>1, NegotiationStays
<1>. QED  BY <1>1, <1>2, <1>3, <1>4 DEF DisplayInv

LEMMA Begins ==
  ASSUME DisplayInv, attached', dfp', alt_mode_requested', ~alt_mode_requested,
         toPeer = <<>>, toUs = <<>>, toPeer' = Append(toPeer, Req("SVIDS")),
         UNCHANGED <<attached, pins, hpd, mode, configured, offers, display, toUs, trouble>>,
         ready' \in BOOLEAN, dfp' \in BOOLEAN, alt_mode_requested' \in BOOLEAN
  PROVE  DisplayInv'
<1>. DEFINE m == Req("SVIDS")
<1>1. m \in Message /\ m.kind = "REQ" /\ m.cmd = "SVIDS"
  BY DEF Req, Msg, Message, Kinds, Requests
<1>. HIDE DEF m
<1>2. toPeer' = Append(<<>>, m)  BY DEF m
<1>3. toPeer' \in Seq(Message) /\ Len(toPeer') = 1 /\ Len(toUs) = 0
  BY <1>1, <1>2, Added, Nothing
<1>4. DisplayTypeOK'
  <2>1. Len(toPeer') + Len(toUs') <= MaxWire  BY <1>3, MaxWireAssumption
  <2>2. {attached, dfp, ready, alt_mode_requested, hpd, display}' \subseteq BOOLEAN
    BY DEF DisplayInv, DisplayTypeOK
  <2>. QED  BY <1>3, <2>1, <2>2 DEF DisplayInv, DisplayTypeOK
<1>5. RolesOK'
  <2>1. Range(toPeer') = {m}
    <3>1. Range(toPeer') = Range(<<>>) \cup {m}  BY <1>1, <1>2, Ranges, Nothing
    <3>. QED  BY <3>1 DEF Range
  <2>. QED  BY <1>1, <2>1 DEF RolesOK
<1>6. mode = "out"  BY DEF DisplayInv, RolesOK
<1>7. HasOne(toPeer', m, "ACK")  BY <1>1, <1>2, AppendToAll, Nothing
<1>8. Asked("SVIDS")'
  BY <1>1, <1>7, Nothing DEF Asked
<1>9. Negotiation'  BY <1>6, <1>8, Nothing DEF Negotiation, Stage
<1>. QED  BY <1>4, <1>5, <1>9 DEF DisplayInv

LEMMA TriggerKeeps ==
  ASSUME DisplayInv, Trigger \/ SwappedToDfp
  PROVE  DisplayInv'
<1>1. CASE Trigger
  <2>1. /\ dfp /\ attached /\ ~alt_mode_requested /\ toPeer = <<>> /\ toUs = <<>>
        /\ UNCHANGED <<attached, dfp, ready, pins, hpd, mode, configured, offers, display, toUs, trouble>>
        /\ alt_mode_requested' = TRUE /\ toPeer' = Append(toPeer, Req("SVIDS"))
    BY <1>1 DEF Trigger, Send, DisplayInv, RolesOK, peerVars
  <2>2. ready' \in BOOLEAN /\ dfp' \in BOOLEAN  BY <2>1 DEF DisplayInv, DisplayTypeOK
  <2>. QED  BY <2>1, <2>2, Begins
<1>2. CASE SwappedToDfp
  <2>1. /\ attached /\ ~alt_mode_requested /\ toPeer = <<>> /\ toUs = <<>>
        /\ UNCHANGED <<attached, ready, pins, hpd, mode, configured, offers, display, toUs, trouble>>
        /\ dfp' = TRUE /\ alt_mode_requested' = TRUE /\ toPeer' = Append(toPeer, Req("SVIDS"))
    BY <1>2 DEF SwappedToDfp, Send, DisplayInv, RolesOK, peerVars
  <2>2. ready' \in BOOLEAN  BY <2>1 DEF DisplayInv, DisplayTypeOK
  <2>. QED  BY <2>1, <2>2, Begins
<1>. QED  BY <1>1, <1>2
-----------------------------------------------------------------------------
(* A message is handled.                                                   *)

(* An answer is the one that the negotiation waits for.                    *)
LEMMA AckTaken ==
  ASSUME DisplayTypeOK, Negotiation, toUs # <<>>, In.kind # "REQ"
  PROVE  /\ In.kind = "ACK" /\ OnlyAttn(Tail(toUs), "REQ") /\ OnlyAttn(toPeer, "ACK")
         /\ \/ mode = "out" /\ In.cmd \in {"SVIDS", "MODES"}
            \/ mode = "entered" /\ In.cmd \in {"ENTER", "STATUS"}
            \/ mode = "configured" /\ configured = pins /\ Known /\ In.cmd = "CONFIGURE"
<1>1. toUs \in Seq(Message)  BY DEF DisplayTypeOK
<1>2. ~OnlyAttn(toUs, "REQ")
  BY <1>1, TailOfAll DEF In, Attn
<1>3. ASSUME NEW c, Answered(c)
      PROVE  In.kind = "ACK" /\ In.cmd = c /\ OnlyAttn(Tail(toUs), "REQ") /\ OnlyAttn(toPeer, "ACK")
  <2>1. PICK t \in Message : t.kind = "ACK" /\ t.cmd = c /\ HasOne(toUs, t, "REQ")
    BY <1>3 DEF Answered
  <2>2. \/ Head(toUs) = t /\ OnlyAttn(Tail(toUs), "REQ")
        \/ Attn(Head(toUs), "REQ")
    BY <1>1, <2>1, TailOfOne
  <2>. QED  BY <1>3, <2>1, <2>2 DEF In, Attn, Answered
<1>4. \A c : ~Asked(c)  BY <1>2 DEF Asked
<1>5. ~Through  BY <1>2 DEF Through
<1>6. Stage  BY DEF Negotiation
<1>7. CASE mode = "out" /\ \E c \in {"SVIDS", "MODES"} : Answered(c)
  BY <1>3, <1>7
<1>8. CASE mode = "entered" /\ (Answered("ENTER") \/ Answered("STATUS"))
  BY <1>3, <1>8
<1>9. CASE mode = "configured" /\ configured = pins /\ Known /\ Answered("CONFIGURE")
  BY <1>3, <1>9
<1>. QED  BY Zenon, <1>4, <1>5, <1>6, <1>7, <1>8, <1>9 DEF Stage

(* A request is a report, and taking it moves nothing else.                *)
LEMMA RequestIsReport ==
  ASSUME DisplayTypeOK, Negotiation, toUs # <<>>, In.kind = "REQ"
  PROVE  In.cmd = "ATTENTION"
<1>1. toUs \in Seq(Message)  BY DEF DisplayTypeOK
<1>2. OnlyAttn(toUs, "REQ") => In.cmd = "ATTENTION"  BY <1>1, TailOfAll DEF In, Attn
<1>3. ASSUME NEW c, Answered(c) PROVE In.cmd = "ATTENTION"
  <2>1. PICK t \in Message : t.kind = "ACK" /\ t.cmd = c /\ HasOne(toUs, t, "REQ")
    BY <1>3 DEF Answered
  <2>2. Head(toUs) = t \/ Attn(Head(toUs), "REQ")  BY <1>1, <2>1, TailOfOne
  <2>. QED  BY <2>1, <2>2 DEF In, Attn
<1>4. \A c : Asked(c) => OnlyAttn(toUs, "REQ")  BY DEF Asked
<1>5. Through => OnlyAttn(toUs, "REQ")  BY DEF Through
<1>. QED  BY Zenon, <1>2, <1>3, <1>4, <1>5 DEF Negotiation, Stage

LEMMA ReportTaken ==
  ASSUME DisplayTypeOK, Negotiation, toUs # <<>>, In.kind = "REQ", NEW m \in Message, Attn(m, "ACK"),
         toUs' = Tail(toUs), toPeer' = Append(toPeer, m), hpd' = In.hpd,
         UNCHANGED <<mode, configured, pins, display>>
  PROVE  In.cmd = "ATTENTION" /\ Negotiation'
<1>1. toUs \in Seq(Message) /\ toPeer \in Seq(Message)  BY DEF DisplayTypeOK
<1>2. ASSUME NEW c, Asked(c) PROVE In.cmd = "ATTENTION" /\ Asked(c)'
  <2>1. PICK t \in Message : /\ t.kind = "REQ" /\ t.cmd = c /\ (c = "CONFIGURE" => t.pins = {pins})
                             /\ HasOne(toPeer, t, "ACK")
    BY <1>2 DEF Asked
  <2>2. HasOne(toPeer', t, "ACK")  BY <1>1, <2>1, AppendToAll
  <2>3. Attn(In, "REQ") /\ OnlyAttn(toUs', "REQ")  BY <1>1, <1>2, TailOfAll DEF Asked, In
  <2>. QED  BY <2>1, <2>2, <2>3 DEF Asked, Attn
<1>3. ASSUME NEW c, Answered(c) PROVE In.cmd = "ATTENTION" /\ Answered(c)'
  <2>1. PICK t \in Message : t.kind = "ACK" /\ t.cmd = c /\ HasOne(toUs, t, "REQ")
    BY <1>3 DEF Answered
  <2>2. \/ Head(toUs) = t
        \/ Attn(Head(toUs), "REQ") /\ HasOne(toUs', t, "REQ")
    BY <1>1, <2>1, TailOfOne
  <2>3. Attn(In, "REQ") /\ HasOne(toUs', t, "REQ")  BY <2>1, <2>2 DEF In
  <2>4. OnlyAttn(toPeer', "ACK")  BY <1>1, <1>3, AppendToAll DEF Answered
  <2>. QED  BY <2>1, <2>3, <2>4 DEF Answered, Attn
<1>4. ASSUME Through PROVE In.cmd = "ATTENTION" /\ Through'
  BY <1>1, <1>4, TailOfAll, AppendToAll DEF Through, In, Attn
<1>5. In.cmd = "ATTENTION"
  BY Zenon, <1>2, <1>3, <1>4 DEF Negotiation, Stage
<1>6. Carries(In)  BY <1>5 DEF Carries
<1>7. Reports(toUs', display') /\ Known'
  BY <1>1, <1>6, TailOfReports DEF Negotiation, Known, In
<1>8. mode # "out"  BY <1>1, <1>6, TailOfAll DEF Negotiation, In
<1>9. Stage'
  <2>1. CASE mode = "entered" /\ (Answered("ENTER") \/ Asked("STATUS") \/ Answered("STATUS"))
    BY Zenon, <2>1, <1>2, <1>3 DEF Stage
  <2>2. CASE mode = "entered" /\ Asked("CONFIGURE")
    BY Zenon, <2>2, <1>2, <1>7 DEF Stage
  <2>3. CASE mode = "configured" /\ configured = pins /\ (Answered("CONFIGURE") \/ Through)
    BY Zenon, <2>3, <1>3, <1>4, <1>7 DEF Stage
  <2>. QED  BY Zenon, <1>8, <2>1, <2>2, <2>3 DEF Negotiation, Stage
<1>. QED  BY <1>5, <1>7, <1>8, <1>9 DEF Negotiation

(* What a reply is, in any step that takes one message and may send one.   *)
LEMMA HandledOK ==
  ASSUME DisplayInv, Take, alt_mode_requested' \in BOOLEAN, hpd' \in BOOLEAN,
         pins' \in {"D", "E"}, UNCHANGED sessionKept,
         \/ toPeer' = toPeer
         \/ \E m \in Message : toPeer' = Append(toPeer, m)
  PROVE  DisplayTypeOK'
<1>1. /\ attached /\ toUs # <<>> /\ toUs' = Tail(toUs)
      /\ UNCHANGED <<attached, dfp, ready, mode, configured, offers, display, trouble>>
  BY DEF Take, sessionKept, peerVars
<1>2. toUs \in Seq(Message) /\ toPeer \in Seq(Message) /\ Len(toPeer) + Len(toUs) <= MaxWire
  BY DEF DisplayInv, DisplayTypeOK
<1>3. toUs' \in Seq(Message) /\ Len(toUs) \in Nat /\ Len(toUs') = Len(toUs) - 1
  BY <1>1, <1>2, Taken
<1>4. /\ toPeer' \in Seq(Message) /\ Len(toPeer) \in Nat /\ Len(toPeer') \in Nat
      /\ Len(toPeer') <= Len(toPeer) + 1
  <2>1. CASE toPeer' = toPeer  BY <2>1, <1>2
  <2>2. ASSUME NEW m \in Message, toPeer' = Append(toPeer, m)
        PROVE  /\ toPeer' \in Seq(Message) /\ Len(toPeer) \in Nat /\ Len(toPeer') \in Nat
               /\ Len(toPeer') <= Len(toPeer) + 1
    BY <2>2, <1>2, Added
  <2>. QED  BY <2>1, <2>2
<1>5. Len(toPeer') + Len(toUs') <= MaxWire
  BY ONLY <1>2, <1>3, <1>4, MaxWireAssumption
<1>6. {attached, dfp, ready, alt_mode_requested, hpd, display}' \subseteq BOOLEAN
  BY <1>1 DEF DisplayInv, DisplayTypeOK
<1>. QED  BY <1>1, <1>3, <1>4, <1>5, <1>6 DEF DisplayInv, DisplayTypeOK

LEMMA HandledRoles ==
  ASSUME DisplayInv, Take, dfp, alt_mode_requested', UNCHANGED sessionKept,
         \/ toPeer' = toPeer
         \/ \E m \in Message : /\ toPeer' = Append(toPeer, m)
                               /\ m.kind = "REQ" /\ m.cmd = "CONFIGURE" => m.pins # {}
  PROVE  RolesOK'
<1>1. /\ attached /\ UNCHANGED <<attached, dfp, ready>>
  BY DEF Take, sessionKept
<1>2. \A x \in Range(toPeer') : x.kind = "REQ" /\ x.cmd = "CONFIGURE" => x.pins # {}
  <2>1. CASE toPeer' = toPeer  BY <2>1 DEF DisplayInv, RolesOK
  <2>2. ASSUME NEW m \in Message, toPeer' = Append(toPeer, m),
               m.kind = "REQ" /\ m.cmd = "CONFIGURE" => m.pins # {}
        PROVE  \A x \in Range(toPeer') : x.kind = "REQ" /\ x.cmd = "CONFIGURE" => x.pins # {}
    <3>1. Range(toPeer') = Range(toPeer) \cup {m}  BY <2>2, Ranges DEF DisplayInv, DisplayTypeOK
    <3>. QED  BY <2>2, <3>1 DEF DisplayInv, RolesOK
  <2>. QED  BY <2>1, <2>2
<1>. QED  BY <1>1, <1>2 DEF RolesOK

(* The steps of the negotiation, each on the answer to the one before.     *)
LEMMA AnswerKeeps ==
  ASSUME DisplayInv,
         DiscoveredSvids \/ DiscoveredModes \/ EnteredMode \/ StatusUpdated \/ NothingToDo
  PROVE  DisplayInv'
<1>1. /\ Take /\ attached /\ toUs # <<>> /\ toUs' = Tail(toUs) /\ UNCHANGED sessionKept
      /\ In.kind # "REQ"
  BY DEF Take, IsAck, DiscoveredSvids, DiscoveredModes, EnteredMode, StatusUpdated, NothingToDo
<1>2. UNCHANGED <<attached, dfp, ready, mode, configured, offers, display, trouble>>
  BY <1>1 DEF sessionKept, peerVars
<1>3. toUs \in Seq(Message) /\ toPeer \in Seq(Message) /\ In \in Message /\ In \in Range(toUs)
  BY <1>1, Taken, Ranges DEF DisplayInv, DisplayTypeOK, In
<1>4. dfp /\ alt_mode_requested
  BY <1>1, <1>3 DEF DisplayInv, RolesOK
<1>5. pins \in {"D", "E"}  BY <1>1 DEF DisplayInv, DisplayTypeOK
<1>6. alt_mode_requested' /\ alt_mode_requested' \in BOOLEAN
  <2>1. alt_mode_requested' = TRUE \/ alt_mode_requested' = alt_mode_requested
    BY DEF DiscoveredSvids, DiscoveredModes, EnteredMode, StatusUpdated, NothingToDo
  <2>. QED  BY Zenon, <1>4, <2>1 DEF DisplayInv, DisplayTypeOK
(* What each of them sends.                                                *)
<1>7. PICK m \in Message :
        \/ /\ In.cmd = "SVIDS" /\ m.cmd = "MODES" /\ m.kind = "REQ" /\ toPeer' = Append(toPeer, m)
           /\ pins' = pins /\ hpd' = hpd
        \/ /\ In.cmd = "MODES" /\ m.cmd = "ENTER" /\ m.kind = "REQ" /\ toPeer' = Append(toPeer, m)
           /\ pins' \in {"D", "E"} /\ hpd' = hpd
        \/ /\ In.cmd = "ENTER" /\ m.cmd = "STATUS" /\ m.kind = "REQ" /\ toPeer' = Append(toPeer, m)
           /\ pins' = pins /\ hpd' = hpd
        \/ /\ In.cmd = "STATUS" /\ m.cmd = "CONFIGURE" /\ m.kind = "REQ" /\ m.pins = {pins}
           /\ toPeer' = Append(toPeer, m) /\ pins' = pins /\ hpd' \in BOOLEAN
           /\ In.kind = "ACK" => hpd' = In.hpd
        \/ /\ In.kind = "ACK" => In.cmd \in {"CONFIGURE", "ATTENTION"}
           /\ toPeer' = toPeer /\ pins' = pins /\ hpd' = hpd
  <2>1. /\ Req("MODES") \in Message /\ Req("MODES").cmd = "MODES" /\ Req("MODES").kind = "REQ"
        /\ Req("ENTER") \in Message /\ Req("ENTER").cmd = "ENTER" /\ Req("ENTER").kind = "REQ"
        /\ Req("STATUS") \in Message /\ Req("STATUS").cmd = "STATUS" /\ Req("STATUS").kind = "REQ"
    BY DEF Req, Msg, Message, Kinds, Requests
  <2>. DEFINE c == Msg("REQ", "CONFIGURE", {pins}, FALSE)
  <2>2. c \in Message /\ c.cmd = "CONFIGURE" /\ c.kind = "REQ" /\ c.pins = {pins}
    BY <1>5 DEF Msg, Message, Kinds, Requests, Assignments
  <2>. HIDE DEF c
  <2>3. CASE DiscoveredSvids  BY <2>1, <2>3 DEF DiscoveredSvids, Send
  <2>4. CASE DiscoveredModes
    <3>1. pins' \in {"D", "E"}  BY <2>4 DEF DiscoveredModes
    <3>. QED  BY <2>1, <2>4, <3>1 DEF DiscoveredModes, Send
  <2>5. CASE EnteredMode  BY <2>1, <2>5 DEF EnteredMode, Send
  <2>6. CASE StatusUpdated
    <3>1. PICK obj1 \in Obj1(In) : hpd' = obj1.hpd  BY <2>6 DEF StatusUpdated
    <3>2. In.kind = "ACK" => obj1.hpd = In.hpd  BY <3>1 DEF Obj1
    <3>3. obj1.hpd \in BOOLEAN  BY <1>3, <3>1 DEF Obj1, Message
    <3>. QED  BY <2>2, <2>6, <3>1, <3>2, <3>3 DEF StatusUpdated, Send, c
  <2>7. CASE NothingToDo
    <3>1. In.kind = "ACK" => In.cmd \in {"CONFIGURE", "ATTENTION"}  BY <2>7 DEF NothingToDo
    <3>. QED  BY <1>3, <2>7, <3>1 DEF NothingToDo
  <2>. QED  BY <2>3, <2>4, <2>5, <2>6, <2>7
<1>8. DisplayTypeOK'
  <2>1. hpd' \in BOOLEAN  BY Zenon, <1>7 DEF DisplayInv, DisplayTypeOK
  <2>2. pins' \in {"D", "E"}  BY <1>5, <1>7
  <2>3. toPeer' = toPeer \/ toPeer' = Append(toPeer, m)  BY <1>7
  <2>. QED  BY <1>1, <1>6, <2>1, <2>2, <2>3, HandledOK
<1>9. RolesOK'
  <2>1. m.kind = "REQ" /\ m.cmd = "CONFIGURE" /\ toPeer' # toPeer => m.pins # {}  BY <1>7
  <2>2. toPeer' = toPeer \/ toPeer' = Append(toPeer, m)  BY <1>7
  <2>. QED  BY <1>1, <1>4, <1>6, <2>1, <2>2, HandledRoles
<1>10. ASSUME trouble = {} PROVE Negotiation'
  <2>1. Negotiation  BY <1>4, <1>10 DEF DisplayInv
  <2>2. /\ In.kind = "ACK" /\ OnlyAttn(toUs', "REQ") /\ OnlyAttn(toPeer, "ACK")
        /\ \/ mode = "out" /\ In.cmd \in {"SVIDS", "MODES"}
           \/ mode = "entered" /\ In.cmd \in {"ENTER", "STATUS"}
           \/ mode = "configured" /\ configured = pins /\ Known /\ In.cmd = "CONFIGURE"
    BY <1>1, <2>1, AckTaken DEF DisplayInv
  <2>3. HasOne(toPeer, m, "ACK")' \/ toPeer' = toPeer
    BY <1>3, <1>7, <2>2, AppendToAll
  <2>4. /\ Reports(toUs, display)'
        /\ Carries(In) /\ NoneCarries(toUs)' => In.hpd = display
        /\ ~Carries(In) /\ NoneCarries(toUs)' => NoneCarries(toUs)
    BY <1>1, <1>2, <1>3, <2>1, TailOfReports DEF Negotiation, In
  <2>5. mode' = "out" => NoneCarries(toUs)'
    BY <1>1, <1>2, <1>3, <2>1, TailOfAll DEF Negotiation
  <2>6. CASE In.cmd \in {"SVIDS", "MODES", "ENTER"}
    <3>1. /\ m.kind = "REQ" /\ m.cmd \in {"MODES", "ENTER", "STATUS"} /\ HasOne(toPeer, m, "ACK")'
          /\ m.cmd = "STATUS" <=> In.cmd = "ENTER"
      BY <1>3, <1>7, <2>2, <2>6, AppendToAll
    <3>2. Asked(m.cmd)'  BY <2>2, <3>1 DEF Asked
    <3>3. Stage'
      <4>1. CASE In.cmd = "ENTER"
        BY <1>2, <2>2, <3>1, <3>2, <4>1 DEF Stage
      <4>2. CASE In.cmd # "ENTER"
        BY <1>2, <2>2, <2>6, <3>1, <3>2, <4>2 DEF Stage
      <4>. QED  BY <4>1, <4>2
    <3>. QED  BY <2>4, <2>5, <3>3 DEF Negotiation
  <2>7. CASE In.cmd = "STATUS"
    <3>1. /\ m.kind = "REQ" /\ m.cmd = "CONFIGURE" /\ m.pins = {pins} /\ HasOne(toPeer, m, "ACK")'
          /\ pins' = pins /\ hpd' = In.hpd
      BY <1>3, <1>7, <2>2, <2>7, AppendToAll
    <3>2. Asked("CONFIGURE")'  BY <2>2, <3>1 DEF Asked
    <3>3. Known'  BY <1>2, <2>2, <2>4, <2>7, <3>1 DEF Known, Carries
    <3>. QED  BY <1>2, <2>2, <2>4, <2>5, <2>7, <3>2, <3>3 DEF Negotiation, Stage
  <2>8. CASE In.cmd = "CONFIGURE"
    <3>1. toPeer' = toPeer /\ pins' = pins /\ hpd' = hpd  BY <1>7, <2>8
    <3>2. ~Carries(In)  BY <2>8 DEF Carries
    <3>3. Known'  BY <1>2, <2>2, <2>4, <2>8, <3>1, <3>2 DEF Known
    <3>4. Through'  BY <2>2, <3>1 DEF Through
    <3>. QED  BY <1>2, <2>2, <2>4, <2>5, <2>8, <3>1, <3>3, <3>4 DEF Negotiation, Stage
  <2>. QED  BY <2>2, <2>6, <2>7, <2>8
<1>. QED  BY <1>2, <1>8, <1>9, <1>10 DEF DisplayInv

LEMMA AnswerRequestKeeps ==
  ASSUME DisplayInv, AnswerRequest
  PROVE  DisplayInv'
<1>. DEFINE m == IF In.cmd \in {"MODES", "CONFIGURE"}
                 THEN Msg("ACK", In.cmd, {pins}, FALSE) ELSE Ack(In.cmd)
<1>1. /\ Take /\ attached /\ toUs # <<>> /\ toUs' = Tail(toUs) /\ UNCHANGED sessionKept
      /\ In.kind = "REQ" /\ toPeer' = Append(toPeer, m) /\ hpd' = HpdOf(In)
      /\ alt_mode_requested' = alt_mode_requested /\ pins' = pins
  BY DEF AnswerRequest, Take, Send
<1>2. UNCHANGED <<attached, dfp, ready, mode, configured, offers, display, trouble>>
  BY <1>1 DEF sessionKept, peerVars
<1>3. toUs \in Seq(Message) /\ toPeer \in Seq(Message) /\ In \in Message /\ In \in Range(toUs)
  BY <1>1, Taken, Ranges DEF DisplayInv, DisplayTypeOK, In
<1>4. pins \in {"D", "E"}  BY <1>1 DEF DisplayInv, DisplayTypeOK
<1>5. m \in Message /\ m.kind = "ACK" /\ m.cmd = In.cmd
  BY <1>3, <1>4 DEF Message, Kinds, Requests, Assignments, Msg, Ack
<1>. HIDE DEF m
<1>6. DisplayTypeOK'
  <2>1. hpd' \in BOOLEAN
    BY <1>1, <1>3 DEF HpdOf, Message, DisplayInv, DisplayTypeOK
  <2>2. alt_mode_requested' \in BOOLEAN  BY <1>1 DEF DisplayInv, DisplayTypeOK
  <2>. QED  BY <1>1, <1>4, <1>5, <2>1, <2>2, HandledOK
<1>7. CASE ~dfp
  <2>1. ~alt_mode_requested /\ ~hpd /\ mode = "out" /\ ~In.hpd
    BY <1>3, <1>7 DEF DisplayInv, RolesOK
  <2>2. ~hpd'  BY <1>1, <2>1 DEF HpdOf
  <2>3. Range(toUs') \subseteq Range(toUs) /\ Range(toPeer') = Range(toPeer) \cup {m}
    BY <1>1, <1>3, <1>5, Ranges
  <2>4. RolesOK'
    BY <1>1, <1>2, <1>5, <1>7, <2>1, <2>2, <2>3 DEF DisplayInv, RolesOK
  <2>. QED  BY <1>1, <1>6, <2>1, <2>4 DEF DisplayInv
<1>8. CASE dfp
  <2>1. alt_mode_requested  BY <1>1, <1>8 DEF DisplayInv, RolesOK
  <2>2. RolesOK'  BY <1>1, <1>5, <1>8, <2>1, HandledRoles
  <2>3. ASSUME trouble = {} PROVE Negotiation'
    <3>1. Negotiation  BY <2>1, <2>3 DEF DisplayInv
    <3>2. In.cmd = "ATTENTION"  BY <1>1, <3>1, RequestIsReport DEF DisplayInv
    <3>3. hpd' = In.hpd /\ Attn(m, "ACK")  BY <1>1, <1>5, <3>2 DEF HpdOf, Attn
    <3>. QED  BY <1>1, <1>2, <1>5, <3>1, <3>3, ReportTaken DEF DisplayInv
  <2>. QED  BY <1>2, <1>6, <2>2, <2>3 DEF DisplayInv
<1>. QED  BY <1>7, <1>8

-----------------------------------------------------------------------------
(* The partner.                                                            *)

LEMMA Alternate ==
  ASSUME DisplayInv, toPeer # <<>>, Got.kind = "REQ"
  PROVE  /\ attached /\ dfp /\ alt_mode_requested
         /\ toPeer \in Seq(Message) /\ toUs \in Seq(Message)
         /\ Got \in Message /\ Got \in Range(toPeer)
<1>1. toPeer \in Seq(Message) /\ toUs \in Seq(Message)  BY DEF DisplayInv, DisplayTypeOK
<1>2. Got \in Message /\ Got \in Range(toPeer)  BY <1>1, Taken, Ranges DEF Got
<1>. QED  BY <1>1, <1>2 DEF DisplayInv, RolesOK

(* Whatever the partner replies to a request is one message for another.   *)
LEMMA Replied ==
  ASSUME DisplayInv, PeerTakes, Got.kind = "REQ", UNCHANGED peerKept,
         NEW m \in Message, toUs' = Append(toUs, m),
         mode' \in {"out", "entered", "configured"}, configured' \in Assignments \cup {"none"},
         trouble' \subseteq {"lost", "refused", "busy"}
  PROVE  DisplayTypeOK' /\ RolesOK'
<1>1. /\ toPeer # <<>> /\ toPeer' = Tail(toPeer)
      /\ UNCHANGED <<attached, dfp, ready, alt_mode_requested, pins, hpd, offers, display>>
  BY DEF PeerTakes, peerKept, ourVars
<1>2. /\ attached /\ dfp /\ alt_mode_requested
      /\ toPeer \in Seq(Message) /\ toUs \in Seq(Message) /\ Len(toPeer) + Len(toUs) <= MaxWire
  BY <1>1, Alternate DEF DisplayInv, DisplayTypeOK
<1>3. /\ toPeer' \in Seq(Message) /\ Len(toPeer) \in Nat /\ Len(toPeer') = Len(toPeer) - 1
      /\ Range(toPeer') \subseteq Range(toPeer)
  BY <1>1, <1>2, Taken, Ranges
<1>4. toUs' \in Seq(Message) /\ Len(toUs) \in Nat /\ Len(toUs') = Len(toUs) + 1
  BY <1>2, Added
<1>5. Len(toPeer') + Len(toUs') <= MaxWire
  BY ONLY <1>2, <1>3, <1>4, MaxWireAssumption
<1>6. {attached, dfp, ready, alt_mode_requested, hpd, display}' \subseteq BOOLEAN
  BY <1>1 DEF DisplayInv, DisplayTypeOK
<1>7. DisplayTypeOK'
  BY <1>1, <1>3, <1>4, <1>5, <1>6 DEF DisplayInv, DisplayTypeOK
<1>. QED  BY <1>1, <1>2, <1>3, <1>7 DEF DisplayInv, RolesOK

LEMMA AskTaken ==
  ASSUME DisplayTypeOK, Negotiation, toPeer # <<>>, Got.kind = "REQ"
  PROVE  /\ OnlyAttn(toUs, "REQ") /\ OnlyAttn(Tail(toPeer), "ACK")
         /\ \/ mode = "out" /\ Got.cmd \in {"SVIDS", "MODES", "ENTER"}
            \/ mode = "entered" /\ Got.cmd = "STATUS"
            \/ mode = "entered" /\ Got.cmd = "CONFIGURE" /\ Got.pins = {pins} /\ Known
<1>1. toPeer \in Seq(Message)  BY DEF DisplayTypeOK
<1>2. ~OnlyAttn(toPeer, "ACK")
  BY <1>1, TailOfAll DEF Got, Attn
<1>3. ASSUME NEW c, Asked(c)
      PROVE  /\ Got.cmd = c /\ (c = "CONFIGURE" => Got.pins = {pins})
             /\ OnlyAttn(toUs, "REQ") /\ OnlyAttn(Tail(toPeer), "ACK")
  <2>1. PICK t \in Message : /\ t.kind = "REQ" /\ t.cmd = c /\ (c = "CONFIGURE" => t.pins = {pins})
                             /\ HasOne(toPeer, t, "ACK")
    BY <1>3 DEF Asked
  <2>2. \/ Head(toPeer) = t /\ OnlyAttn(Tail(toPeer), "ACK")
        \/ Attn(Head(toPeer), "ACK")
    BY <1>1, <2>1, TailOfOne
  <2>. QED  BY <1>3, <2>1, <2>2 DEF Got, Attn, Asked
<1>4. \A c : ~Answered(c)  BY <1>2 DEF Answered
<1>5. ~Through  BY <1>2 DEF Through
<1>6. CASE mode = "out" /\ \E c \in {"SVIDS", "MODES", "ENTER"} : Asked(c)
  BY <1>3, <1>6
<1>7. CASE mode = "entered" /\ Asked("STATUS")
  BY <1>3, <1>7
<1>8. CASE mode = "entered" /\ Asked("CONFIGURE") /\ Known
  BY <1>3, <1>8
<1>. QED  BY Zenon, <1>4, <1>5, <1>6, <1>7, <1>8 DEF Negotiation, Stage

LEMMA PeerAnswersKeeps ==
  ASSUME DisplayInv, PeerAnswers
  PROVE  DisplayInv'
<1>. DEFINE m == CASE Got.cmd = "MODES"  -> Msg("ACK", "MODES", offers, FALSE)
                   [] Got.cmd = "STATUS" -> Msg("ACK", "STATUS", {}, display)
                   [] OTHER              -> Ack(Got.cmd)
<1>1. /\ PeerTakes /\ toPeer # <<>> /\ toPeer' = Tail(toPeer) /\ Got.kind = "REQ"
      /\ toUs' = Append(toUs, m) /\ UNCHANGED peerKept /\ trouble' = trouble
      /\ UNCHANGED <<attached, dfp, ready, alt_mode_requested, pins, hpd, offers, display>>
  BY DEF PeerAnswers, PeerTakes, Reply, peerKept, ourVars
<1>2. /\ attached /\ dfp /\ alt_mode_requested
      /\ toPeer \in Seq(Message) /\ toUs \in Seq(Message)
      /\ Got \in Message /\ Got \in Range(toPeer)
  BY <1>1, Alternate
<1>3. /\ m \in Message /\ m.kind = "ACK" /\ m.cmd = Got.cmd
      /\ Got.cmd = "STATUS" => m.hpd = display
  BY <1>2 DEF DisplayInv, DisplayTypeOK, Message, Kinds, Requests, Msg, Ack
<1>. HIDE DEF m
<1>4. /\ Got.cmd = "ENTER" /\ mode = "out" => mode' = "entered"
      /\ Got.cmd = "CONFIGURE" => mode' = "configured"
      /\ Got.cmd \notin {"ENTER", "CONFIGURE"} => mode' = mode
      /\ mode' \in {"out", "entered", "configured"}
  BY DEF PeerAnswers, DisplayInv, DisplayTypeOK
<1>5. /\ Got.cmd # "CONFIGURE" => configured' = configured
      /\ Got.cmd = "CONFIGURE" => configured' \in Got.pins
  <2>1. Got.cmd = "CONFIGURE" => Got.pins # {}  BY <1>1, <1>2 DEF DisplayInv, RolesOK
  <2>. QED  BY <2>1 DEF PeerAnswers
<1>6. configured' \in Assignments \cup {"none"}
  BY <1>2, <1>5 DEF Message, DisplayInv, DisplayTypeOK
<1>7. DisplayTypeOK' /\ RolesOK'
  BY <1>1, <1>3, <1>4, <1>6, Replied DEF DisplayInv, DisplayTypeOK
<1>8. ASSUME trouble = {} PROVE Negotiation'
  <2>1. Negotiation  BY <1>2, <1>8 DEF DisplayInv
  <2>2. /\ OnlyAttn(toUs, "REQ") /\ OnlyAttn(toPeer', "ACK")
        /\ \/ mode = "out" /\ Got.cmd \in {"SVIDS", "MODES", "ENTER"}
           \/ mode = "entered" /\ Got.cmd = "STATUS"
           \/ mode = "entered" /\ Got.cmd = "CONFIGURE" /\ Got.pins = {pins} /\ Known
    BY <1>1, <2>1, AskTaken DEF DisplayInv
  <2>3. HasOne(toUs', m, "REQ")  BY <1>1, <1>2, <1>3, <2>2, AppendToAll
  <2>4. ASSUME NEW c, c = Got.cmd PROVE Answered(c)'
    <3>1. \E t \in Message : t.kind = "ACK" /\ t.cmd = c /\ HasOne(toUs', t, "REQ")
      BY <1>3, <2>3, <2>4
    <3>. QED  BY <2>2, <3>1 DEF Answered
  <2>5. Reports(toUs, display)'
    <3>1. Carries(m) => m.hpd = display  BY <1>3, <2>2 DEF Carries
    <3>. QED  BY <1>1, <1>2, <1>3, <2>1, <3>1, AppendToReports DEF Negotiation
  <2>6. mode' = "out" => NoneCarries(toUs')
    <3>1. mode' = "out" => mode = "out" /\ Got.cmd \in {"SVIDS", "MODES"}  BY <1>4, <2>2
    <3>2. Got.cmd \in {"SVIDS", "MODES"} => ~Carries(m)  BY <1>3 DEF Carries
    <3>. QED  BY <1>1, <1>2, <1>3, <2>1, <3>1, <3>2, AppendToAll DEF Negotiation
  <2>7. Known => Known'
    BY <1>1, <1>2, <1>3, AppendToAll DEF Known
  <2>8. Stage'
    <3>1. CASE mode = "out" /\ Got.cmd \in {"SVIDS", "MODES"}
      BY <1>4, <2>4, <3>1 DEF Stage
    <3>2. CASE mode = "out" /\ Got.cmd = "ENTER"
      BY <1>4, <2>4, <3>2 DEF Stage
    <3>3. CASE mode = "entered" /\ Got.cmd = "STATUS"
      BY <1>4, <2>4, <3>3 DEF Stage
    <3>4. CASE mode = "entered" /\ Got.cmd = "CONFIGURE" /\ Got.pins = {pins} /\ Known
      <4>1. configured' = pins'  BY <1>1, <1>5, <3>4
      <4>. QED  BY <1>4, <2>4, <2>7, <3>4, <4>1 DEF Stage
    <3>. QED  BY <2>2, <3>1, <3>2, <3>3, <3>4
  <2>. QED  BY <2>5, <2>6, <2>8 DEF Negotiation
<1>. QED  BY <1>1, <1>7, <1>8 DEF DisplayInv

LEMMA PeerDeclinesKeeps ==
  ASSUME DisplayInv, PeerRefuses \/ PeerBusy
  PROVE  DisplayInv'
<1>1. PICK m : /\ PeerTakes /\ Got.kind = "REQ" /\ toUs' = Append(toUs, m) /\ UNCHANGED peerKept
               /\ (m = Msg("NAK", Got.cmd, {}, FALSE) \/ m = Msg("BUSY", Got.cmd, {}, FALSE))
               /\ trouble' \in {trouble \cup {"refused"}, trouble \cup {"busy"}}
               /\ UNCHANGED <<mode, configured>>
  BY DEF PeerRefuses, PeerBusy, Reply
<1>2. Got \in Message  BY <1>1, Alternate DEF PeerTakes
<1>3. m \in Message  <2>1. Got.cmd \in Requests  BY <1>2 DEF Message
  <2>2. \A kind \in Kinds : [kind |-> kind, cmd |-> Got.cmd, pins |-> {}, hpd |-> FALSE] \in Message
    BY <2>1 DEF Message
  <2>. QED  BY <1>1, <2>2 DEF Kinds, Msg
<1>4. trouble' \subseteq {"lost", "refused", "busy"} /\ trouble' # {}
  BY <1>1 DEF DisplayInv, DisplayTypeOK
<1>5. DisplayTypeOK' /\ RolesOK'
  BY <1>1, <1>3, <1>4, Replied DEF DisplayInv, DisplayTypeOK
<1>. QED  BY <1>4, <1>5 DEF DisplayInv

(* A stage lasts as long as its messages do.                               *)
LEMMA StageLasts ==
  ASSUME Stage, UNCHANGED <<mode, configured, pins>>,
         \A c : Asked(c) => Asked(c)', \A c : Answered(c) => Answered(c)',
         Through => Through', Known => Known'
  PROVE  Stage'
<1>1. ASSUME NEW S, \E c \in S : Asked(c) PROVE \E c \in S : Asked(c)'  BY <1>1
<1>2. ASSUME NEW S, \E c \in S : Answered(c) PROVE \E c \in S : Answered(c)'  BY <1>2
<1>3. CASE mode = "out" /\ \E c \in {"SVIDS", "MODES", "ENTER"} : Asked(c)
  BY Zenon, <1>1, <1>3 DEF Stage
<1>4. CASE mode = "out" /\ \E c \in {"SVIDS", "MODES"} : Answered(c)
  BY Zenon, <1>2, <1>4 DEF Stage
<1>5. CASE mode = "entered" /\ (Answered("ENTER") \/ Asked("STATUS") \/ Answered("STATUS"))
  BY Zenon, <1>5 DEF Stage
<1>6. CASE mode = "entered" /\ Asked("CONFIGURE") /\ Known
  BY Zenon, <1>6 DEF Stage
<1>7. CASE mode = "configured" /\ configured = pins /\ Known /\ (Answered("CONFIGURE") \/ Through)
  BY Zenon, <1>7 DEF Stage
<1>. QED  BY Zenon, <1>3, <1>4, <1>5, <1>6, <1>7 DEF Stage

(* One message less, to whichever side.                                    *)
LEMMA OneLess ==
  ASSUME DisplayInv, UNCHANGED <<ourVars, peerVars>>, trouble' \subseteq {"lost", "refused", "busy"},
         \/ toPeer # <<>> /\ toPeer' = Tail(toPeer) /\ toUs' = toUs
         \/ toUs # <<>> /\ toUs' = Tail(toUs) /\ toPeer' = toPeer
  PROVE  DisplayTypeOK' /\ RolesOK'
<1>1. UNCHANGED <<attached, dfp, ready, alt_mode_requested, pins, hpd, mode, configured, offers,
                  display>>
  BY DEF ourVars, peerVars
<1>2. toPeer \in Seq(Message) /\ toUs \in Seq(Message) /\ Len(toPeer) + Len(toUs) <= MaxWire
  BY DEF DisplayInv, DisplayTypeOK
<1>3. /\ toPeer' \in Seq(Message) /\ toUs' \in Seq(Message)
      /\ Range(toPeer') \subseteq Range(toPeer) /\ Range(toUs') \subseteq Range(toUs)
      /\ Len(toPeer') + Len(toUs') <= MaxWire
      /\ toPeer # <<>> \/ toUs # <<>>
  <2>1. CASE toPeer # <<>> /\ toPeer' = Tail(toPeer) /\ toUs' = toUs
    <3>1. /\ toPeer' \in Seq(Message) /\ Range(toPeer') \subseteq Range(toPeer)
          /\ Len(toPeer) \in Nat /\ Len(toUs) \in Nat /\ Len(toPeer') = Len(toPeer) - 1
      BY <1>2, <2>1, Taken, Ranges
    <3>2. Len(toPeer') + Len(toUs') <= MaxWire
      <4>1. Len(toUs') = Len(toUs)  BY <2>1
      <4>. QED  BY ONLY <1>2, <3>1, <4>1, MaxWireAssumption
    <3>. QED  BY <1>2, <2>1, <3>1, <3>2
  <2>2. CASE toUs # <<>> /\ toUs' = Tail(toUs) /\ toPeer' = toPeer
    <3>1. /\ toUs' \in Seq(Message) /\ Range(toUs') \subseteq Range(toUs)
          /\ Len(toUs) \in Nat /\ Len(toPeer) \in Nat /\ Len(toUs') = Len(toUs) - 1
      BY <1>2, <2>2, Taken, Ranges
    <3>2. Len(toPeer') + Len(toUs') <= MaxWire
      <4>1. Len(toPeer') = Len(toPeer)  BY <2>2
      <4>. QED  BY ONLY <1>2, <3>1, <4>1, MaxWireAssumption
    <3>. QED  BY <1>2, <2>2, <3>1, <3>2
  <2>. QED  BY <2>1, <2>2
<1>4. attached /\ (dfp => alt_mode_requested)
  BY <1>3 DEF DisplayInv, RolesOK
<1>5. DisplayTypeOK'  BY <1>1, <1>3 DEF DisplayInv, DisplayTypeOK
<1>6. RolesOK'  BY <1>1, <1>3, <1>4 DEF DisplayInv, RolesOK
<1>. QED  BY <1>5, <1>6

LEMMA PeerIgnoresKeeps ==
  ASSUME DisplayInv, PeerIgnores
  PROVE  DisplayInv'
<1>1. /\ toPeer # <<>> /\ toPeer' = Tail(toPeer) /\ Got.kind # "REQ" /\ toUs' = toUs
      /\ UNCHANGED <<ourVars, peerVars, trouble>>
      /\ UNCHANGED <<alt_mode_requested, pins, hpd, mode, configured, display, trouble>>
  BY DEF PeerIgnores, PeerTakes, peerKept, ourVars, peerVars
<1>2. DisplayTypeOK' /\ RolesOK'
  BY <1>1, OneLess DEF DisplayInv, DisplayTypeOK
<1>3. ASSUME Negotiation PROVE Negotiation'
  <2>1. toPeer \in Seq(Message)  BY DEF DisplayInv, DisplayTypeOK
  <2>2. ASSUME NEW c, Asked(c) PROVE Asked(c)'
    <3>1. PICK t \in Message : /\ t.kind = "REQ" /\ t.cmd = c /\ (c = "CONFIGURE" => t.pins = {pins})
                               /\ HasOne(toPeer, t, "ACK")
      BY <2>2 DEF Asked
    <3>2. HasOne(toPeer', t, "ACK")  BY <1>1, <2>1, <3>1, TailOfOne DEF Got
    <3>. QED  BY <1>1, <2>2, <3>1, <3>2 DEF Asked
  <2>3. OnlyAttn(toPeer, "ACK") => OnlyAttn(toPeer', "ACK")  BY <1>1, <2>1, TailOfAll
  <2>4. ASSUME NEW c, Answered(c) PROVE Answered(c)'
    BY <1>1, <2>3, <2>4 DEF Answered
  <2>5. Through => Through'  BY <1>1, <2>3 DEF Through
  <2>6. Known => Known'  BY <1>1 DEF Known
  <2>7. Stage'  BY <1>1, <1>3, <2>2, <2>4, <2>5, <2>6, StageLasts DEF Negotiation
  <2>. QED  BY <1>1, <1>3, <2>7 DEF Negotiation
<1>. QED  BY <1>1, <1>2, <1>3 DEF DisplayInv

LEMMA LoseKeeps ==
  ASSUME DisplayInv, Lose
  PROVE  DisplayInv'
<1>1. trouble' # {} /\ trouble' \subseteq {"lost", "refused", "busy"}
  BY DEF Lose, DisplayInv, DisplayTypeOK
<1>2. DisplayTypeOK' /\ RolesOK'  BY <1>1, OneLess DEF Lose
<1>. QED  BY <1>1, <1>2 DEF DisplayInv

LEMMA HpdChangesKeeps ==
  ASSUME DisplayInv, HpdChanges
  PROVE  DisplayInv'
<1>. DEFINE m == Msg("REQ", "ATTENTION", {}, ~display)
<1>1. /\ attached /\ Len(toUs) + Len(toPeer) < MaxWire /\ display' = ~display /\ toPeer' = toPeer
      /\ UNCHANGED <<attached, dfp, ready, alt_mode_requested, pins, hpd, mode, configured, offers,
                     trouble>>
      /\ IF dfp /\ mode # "out" THEN toUs' = Append(toUs, m) ELSE toUs' = toUs
  BY DEF HpdChanges, Reply, ourVars
<1>2. /\ toPeer \in Seq(Message) /\ toUs \in Seq(Message) /\ display \in BOOLEAN /\ display' \in BOOLEAN
      /\ Len(toPeer) \in Nat /\ Len(toUs) \in Nat
  BY <1>1, LenProperties DEF DisplayInv, DisplayTypeOK
<1>3. m \in Message /\ m.kind = "REQ" /\ m.cmd = "ATTENTION" /\ m.hpd = ~display
  BY <1>2 DEF Msg, Message, Kinds, Requests
<1>. HIDE DEF m
<1>4. Attn(m, "REQ") /\ Carries(m)  BY <1>3 DEF Attn, Carries
<1>5. toUs' \in Seq(Message) /\ Len(toUs') \in Nat /\ Len(toUs') <= Len(toUs) + 1
  <2>1. CASE dfp /\ mode # "out"  BY <1>1, <1>2, <1>3, <2>1, Added
  <2>2. CASE ~(dfp /\ mode # "out")  BY <1>1, <1>2, <2>2
  <2>. QED  BY <2>1, <2>2
<1>6. DisplayTypeOK'
  <2>1. Len(toPeer') + Len(toUs') <= MaxWire
    <3>1. Len(toPeer') = Len(toPeer) /\ Len(toUs) + Len(toPeer) < MaxWire  BY <1>1
    <3>. QED  BY ONLY <1>2, <1>5, <3>1, MaxWireAssumption
  <2>2. {attached, dfp, ready, alt_mode_requested, hpd, display}' \subseteq BOOLEAN
    BY <1>1, <1>2 DEF DisplayInv, DisplayTypeOK
  <2>. QED  BY <1>1, <1>2, <1>5, <2>1, <2>2 DEF DisplayInv, DisplayTypeOK
<1>7. CASE ~dfp \/ mode = "out"
  <2>1. toUs' = toUs  BY <1>1, <1>7
  <2>2. RolesOK'  BY <1>1, <2>1 DEF DisplayInv, RolesOK
  <2>3. ASSUME Negotiation, dfp PROVE Negotiation'
    <3>1. mode = "out" /\ NoneCarries(toUs)  BY <1>7, <2>3 DEF Negotiation
    <3>2. Reports(toUs', display')  BY <2>1, <3>1 DEF NoneCarries, Reports
    <3>3. \A c : Asked(c) => Asked(c)'  BY <1>1, <2>1 DEF Asked
    <3>4. \A c : Answered(c) => Answered(c)'  BY <1>1, <2>1 DEF Answered
    <3>5. Stage'  BY Zenon, <1>1, <2>3, <3>1, <3>3, <3>4 DEF Negotiation, Stage
    <3>. QED  BY <1>1, <2>1, <3>1, <3>2, <3>5 DEF Negotiation
  <2>4. alt_mode_requested => dfp  BY DEF DisplayInv, RolesOK
  <2>. QED  BY <1>1, <1>6, <2>2, <2>3, <2>4 DEF DisplayInv
<1>8. CASE dfp /\ mode # "out"
  <2>1. alt_mode_requested /\ toUs' = Append(toUs, m)
    BY <1>1, <1>8 DEF DisplayInv, RolesOK
  <2>2. RolesOK'  BY <1>1, <1>8, <2>1 DEF DisplayInv, RolesOK
  <2>3. ASSUME Negotiation PROVE Negotiation'
    <3>1. OnlyAttn(toUs, "REQ") => OnlyAttn(toUs', "REQ")
      BY <1>2, <1>3, <1>4, <2>1, AppendToAll
    <3>2. ~NoneCarries(toUs')  BY <1>2, <1>3, <1>4, <2>1, AppendToAll
    <3>3. Reports(toUs', display')  BY <1>1, <1>2, <1>3, <1>4, <2>1, AppendToReports
    <3>4. ASSUME NEW c, Asked(c) PROVE Asked(c)'  BY <1>1, <3>1, <3>4 DEF Asked
    <3>5. ASSUME NEW c, Answered(c) PROVE Answered(c)'
      <4>1. PICK t \in Message : t.kind = "ACK" /\ t.cmd = c /\ HasOne(toUs, t, "REQ")
        BY <3>5 DEF Answered
      <4>2. HasOne(toUs', t, "REQ")  BY <1>2, <1>3, <1>4, <2>1, <4>1, AppendToAll
      <4>. QED  BY <1>1, <3>5, <4>1, <4>2 DEF Answered
    <3>6. Through => Through'  BY <1>1, <3>1 DEF Through
    <3>7. Known'  BY <3>2 DEF Known
    <3>8. Stage'  BY <1>1, <2>3, <3>4, <3>5, <3>6, <3>7, StageLasts DEF Negotiation
    <3>. QED  BY <1>1, <1>8, <3>3, <3>8 DEF Negotiation
  <2>. QED  BY <1>1, <1>6, <2>2, <2>3 DEF DisplayInv
<1>. QED  BY <1>7, <1>8

LEMMA PeerAsksKeeps ==
  ASSUME DisplayInv, PeerAsks
  PROVE  DisplayInv'
<1>1. PICK cmd \in Requests \ {"ATTENTION"} : toUs' = Append(toUs, Req(cmd))
  BY DEF PeerAsks, Reply
<1>. DEFINE m == Req(cmd)
<1>2. m \in Message /\ m.kind = "REQ" /\ ~m.hpd
  BY <1>1 DEF Req, Msg, Message, Kinds, Requests
<1>3. toUs' = Append(<<>>, m)  BY <1>1 DEF PeerAsks
<1>. HIDE DEF m
<1>4. /\ attached /\ ~dfp /\ toPeer = <<>> /\ toPeer' = <<>>
      /\ UNCHANGED <<attached, dfp, ready, alt_mode_requested, pins, hpd, mode, configured, offers,
                     display, trouble>>
  BY DEF PeerAsks, ourVars, peerVars
<1>5. /\ toUs' \in Seq(Message) /\ Len(toUs') = 1 /\ Len(toPeer') = 0 /\ toPeer' \in Seq(Message)
  BY <1>2, <1>3, <1>4, Added, Nothing
<1>6. Range(toUs') = {m}
  <2>1. Range(toUs') = Range(<<>>) \cup {m}  BY <1>2, <1>3, Ranges, Nothing
  <2>. QED  BY <2>1 DEF Range
<1>7. DisplayTypeOK'
  <2>1. Len(toPeer') + Len(toUs') <= MaxWire  BY <1>5, MaxWireAssumption
  <2>. QED  BY <1>4, <1>5, <2>1 DEF DisplayInv, DisplayTypeOK
<1>8. RolesOK'  BY <1>2, <1>4, <1>6 DEF DisplayInv, RolesOK
<1>9. ~alt_mode_requested'  BY <1>4 DEF DisplayInv, RolesOK
<1>. QED  BY <1>7, <1>8, <1>9 DEF DisplayInv

LEMMA StepKeeps == DisplayInv /\ [Next]_vars => DisplayInv'
<1>. SUFFICES ASSUME DisplayInv, [Next]_vars PROVE DisplayInv'  OBVIOUS
<1>1. CASE Setup  BY <1>1, SetupKeeps
<1>2. CASE Attach  BY <1>2, AttachKeeps
<1>3. CASE PowerReady  BY <1>3, PowerReadyKeeps
<1>4. CASE Trigger \/ SwappedToDfp  BY <1>4, TriggerKeeps
<1>5. CASE Handle  BY <1>5, AnswerKeeps, AnswerRequestKeeps DEF Handle
<1>6. CASE Peer
  BY <1>6, PeerAnswersKeeps, PeerDeclinesKeeps, PeerIgnoresKeeps DEF Peer
<1>7. CASE HpdChanges  BY <1>7, HpdChangesKeeps
<1>8. CASE PeerAsks  BY <1>8, PeerAsksKeeps
<1>9. CASE Lose  BY <1>9, LoseKeeps
<1>10. CASE UNCHANGED vars
  <2>1. UNCHANGED <<attached, dfp, ready, alt_mode_requested, pins, hpd, mode, configured, offers,
                    display, toPeer, toUs, trouble>>
    BY <1>10 DEF vars, ourVars, peerVars
  <2>2. DisplayTypeOK'  BY <2>1 DEF DisplayInv, DisplayTypeOK
  <2>3. RolesOK'  BY <2>1 DEF DisplayInv, RolesOK
  <2>4. Negotiation => Negotiation'  BY <2>1, NegotiationStays
  <2>. QED  BY <2>1, <2>2, <2>3, <2>4 DEF DisplayInv
<1>. QED  BY Zenon, <1>1, <1>2, <1>3, <1>4, <1>5, <1>6, <1>7, <1>8, <1>9, <1>10 DEF Next

-----------------------------------------------------------------------------
(* In every state the messages on their way are those of one stage of the  *)
(* negotiation, with the reports that overtook it, whatever order the      *)
(* partner's reports and its answers come in. (pd_handle_vdm_response,     *)
(* pd_handle_vdm_request)                                                  *)
THEOREM DisplaySafe == Spec => []DisplayInv
BY InitDisplay, StepKeeps, PTL DEF Spec

(* The variables of the alternate mode are well typed, and no answer makes *)
(* more messages than there were: the bound on the wire holds although     *)
(* only the partner's own reports check it. (pd_handle_vdm_response)       *)
THEOREM DisplayTyped == Spec => []DisplayTypeOK
<1>1. DisplayInv => DisplayTypeOK  BY DEF DisplayInv
<1>. QED  BY <1>1, DisplaySafe, PTL

(* When nothing is on its way and nothing was lost or refused in this      *)
(* session, the hot plug line shows the SOM a display exactly when one is  *)
(* there, on, and configured with the pins we drive. (PIN_V20_DP_HPD)      *)
THEOREM PictureOnlyWhenThere == Spec => []HpdMeansPicture
<1>1. DisplayInv => HpdMeansPicture
  <2>. SUFFICES ASSUME DisplayInv, toPeer = <<>>, toUs = <<>>, trouble = {}
                PROVE  hpd <=> attached /\ mode = "configured" /\ configured = pins /\ display
    BY DEF HpdMeansPicture, Settled
  <2>1. CASE ~alt_mode_requested  BY <2>1 DEF DisplayInv, RolesOK
  <2>2. CASE alt_mode_requested
    <3>1. \A c : ~Asked(c) /\ ~Answered(c)  BY Nothing DEF Asked, Answered
    <3>2. mode = "configured" /\ configured = pins /\ Known
      BY Zenon, <2>2, <3>1 DEF DisplayInv, Negotiation, Stage
    <3>3. hpd = display  BY <3>2, Nothing DEF Known
    <3>4. attached  BY <2>2 DEF DisplayInv, RolesOK
    <3>. QED  BY <3>2, <3>3, <3>4
  <2>. QED  BY <2>1, <2>2
<1>. QED  BY <1>1, DisplaySafe, PTL
=============================================================================
