--------------------------- MODULE KbdMenuProofs ---------------------------
(***************************************************************************)
(* The keyboard's keys stay where they were pressed for, whatever keys     *)
(* there are, however many are held, and whatever the main loop makes of   *)
(* the menu between two scans. The scan is a loop over the keys, so the    *)
(* proof is an induction over it (Good, ScanKeeps) within each step.       *)
(***************************************************************************)
EXTENDS KbdMenu, WellFoundedInduction, TLAPS

-----------------------------------------------------------------------------
(* Induction, with a set for the predicate.                                *)

Below == OpToRel(<, Nat)

LEMMA SetInduction ==
  ASSUME NEW T, 0 \in T, \A n \in Nat : n \in T => n + 1 \in T
  PROVE  Nat \subseteq T
<1>. DEFINE U == Nat \ T
<1>. SUFFICES ASSUME U # {} PROVE FALSE  OBVIOUS
<1>1. PICK x \in U : \A y \in U : <<y, x>> \notin Below
  BY NatLessThanWellFounded, WFMin DEF Below
<1>2. x - 1 \in Nat /\ x - 1 < x /\ (x - 1) + 1 = x
  OBVIOUS
<1>3. <<x - 1, x>> \in Below  BY <1>1, <1>2 DEF Below, OpToRel
<1>. QED  BY <1>1, <1>2, <1>3

-----------------------------------------------------------------------------
(* The scan's function exists: Scans(f, n, ...) says that f is that of     *)
(* process_keyboard for the first n keys.                                  *)

Begin(last) ==
  [menu |-> menu_state, buffer |-> buffer_menu_key, last |-> last,
   hyper |-> hyper_key, age |-> IF age < LongAgo THEN age + 1 ELSE age, codes |-> {}]
ScanNext(S, i, held) == {ScanKey(s, Positions[i], held) : s \in S}
Scans(f, n, last, held) ==
  f = [i \in 0..n |-> IF i = 0 THEN {Begin(last)} ELSE ScanNext(f[i - 1], i, held)]

LEMMA ScansDefined ==
  ASSUME NEW last, NEW held, NEW N \in Nat
  PROVE  \E f : Scans(f, N, last, held)
<1>. DEFINE T == {n \in Nat : \E f : Scans(f, n, last, held)}
<1>1. 0 \in T
  <2>1. Scans([i \in 0..0 |-> {Begin(last)}], 0, last, held)  BY DEF Scans
  <2>. QED  BY <2>1
<1>2. ASSUME NEW n \in Nat, n \in T PROVE n + 1 \in T
  <2>1. PICK f : Scans(f, n, last, held)  BY <1>2
  <2>. DEFINE g == [i \in 0..(n + 1) |-> IF i \in 0..n THEN f[i] ELSE ScanNext(f[n], n + 1, held)]
              h == [i \in 0..(n + 1) |-> IF i = 0 THEN {Begin(last)} ELSE ScanNext(g[i - 1], i, held)]
  <2>2. \A i \in 0..n : f[i] = IF i = 0 THEN {Begin(last)} ELSE ScanNext(f[i - 1], i, held)
    BY <2>1 DEF Scans
  <2>3. ASSUME NEW i \in 0..(n + 1) PROVE g[i] = h[i]
    <3>1. CASE i \in 0..n
      <4>1. i # 0 => i - 1 \in 0..n /\ i - 1 \in 0..(n + 1)  BY <3>1
      <4>2. g[i] = f[i] /\ (i # 0 => g[i - 1] = f[i - 1])  BY <3>1, <4>1
      <4>. QED  BY <3>1, <4>2, <2>2
    <3>2. CASE i = n + 1
      <4>1. n \in 0..n /\ n \in 0..(n + 1) /\ i \notin 0..n /\ i - 1 = n /\ i # 0  BY <3>2
      <4>2. g[i] = ScanNext(f[n], n + 1, held) /\ g[n] = f[n]  BY <4>1
      <4>. QED  BY <3>2, <4>1, <4>2
    <3>. QED  BY <3>1, <3>2
  <2>4. g = h
    <3>. DEFINE G(i) == IF i \in 0..n THEN f[i] ELSE ScanNext(f[n], n + 1, held)
                H(i) == IF i = 0 THEN {Begin(last)} ELSE ScanNext(g[i - 1], i, held)
    <3>1. \A i \in 0..(n + 1) : G(i) = H(i)  BY <2>3
    <3>. HIDE DEF G, H
    <3>2. [i \in 0..(n + 1) |-> G(i)] = [i \in 0..(n + 1) |-> H(i)]  BY <3>1
    <3>. QED  BY <3>2 DEF G, H
  <2>5. Scans(g, n + 1, last, held)  BY <2>4 DEF Scans
  <2>. HIDE DEF g
  <2>6. \E k : Scans(k, n + 1, last, held)  BY <2>5
  <2>. QED  BY <2>6
<1>. HIDE DEF T
<1>3. N \in T  BY <1>1, <1>2, SetInduction
<1>. QED  BY <1>3 DEF T

LEMMA ScanResults ==
  ASSUME NEW last, NEW held, Len(Positions) \in Nat
  PROVE  \E f : /\ Scans(f, Len(Positions), last, held)
                /\ process_keyboard(last, held) = {LetGo(s, held) : s \in f[Len(Positions)]}
<1>. DEFINE f == CHOOSE h : Scans(h, Len(Positions), last, held)
<1>1. Scans(f, Len(Positions), last, held)  BY ScansDefined
<1>2. process_keyboard(last, held) = {LetGo(s, held) : s \in f[Len(Positions)]}
  BY DEF process_keyboard, Scans, ScanNext, Begin
<1>. HIDE DEF f
<1>. QED  BY <1>1, <1>2

-----------------------------------------------------------------------------
(* Keys and their codes.                                                   *)

Codes == KeyCodes \ {"COMPOSE"}

LEMMA KeysAreKnown ==
  /\ Len(Positions) \in Nat /\ Keys \subseteq DOMAIN matrix
  /\ \A i \in 1..Len(Positions) : Positions[i] \in Keys
  /\ \A p \in Keys : \E i \in 1..Len(Positions) : Positions[i] = p
<1>1. /\ Positions \in Seq(DOMAIN matrix) /\ Len(Positions) \in Nat
      /\ DOMAIN Positions = 1..Len(Positions)
  BY PositionsAssumption
<1>2. \A i \in 1..Len(Positions) : Positions[i] \in DOMAIN matrix  BY <1>1
<1>. QED  BY <1>1, <1>2 DEF Keys, Range

LEMMA CodesOf ==
  ASSUME NEW p \in DOMAIN matrix
  PROVE  /\ matrix[p] \in KeyCodes /\ matrix_fn[p] \in KeyCodes
         /\ matrix[p] = "COMPOSE" <=> p = "HYPER"
         /\ matrix_fn[p] = "COMPOSE" <=> p = "HYPER"
         /\ matrix[p] = "ENTER" <=> p = "ENTER"
         /\ matrix_fn[p] = "ENTER" <=> p = "ENTER"
         /\ matrix[p] = None <=> p = "TB"
         /\ matrix_fn[p] = None <=> p = "TB"
         /\ matrix[p] = "1" <=> p = "1"
         /\ matrix_fn[p] # "1"
<1>1. DOMAIN matrix_fn = DOMAIN matrix  BY DEF matrix_fn
<1>2. p \in {"ESC", "HYPER", "1", "C", "TB", "B", "0", "DOWN", "ENTER"}  BY DEF matrix
<1>3. matrix[p] = (CASE p = "HYPER" -> "COMPOSE" [] p = "TB" -> None [] OTHER -> p)
  BY <1>2 DEF matrix
<1>4. matrix_fn[p] = (CASE p = "ESC" -> "GRAVE" [] p = "1" -> "F1" [] p = "0" -> "F10"
                        [] p = "DOWN" -> "PAGEDOWN" [] OTHER -> matrix[p])
  BY DEF matrix_fn
<1>5. matrix[p] \in KeyCodes /\ matrix_fn[p] \in KeyCodes  BY <1>1 DEF KeyCodes, Range
<1>. QED  BY <1>2, <1>3, <1>4, <1>5 DEF None

LEMMA SomeCodes == {None, "1", "ENTER"} \subseteq Codes
<1>1. DOMAIN matrix = {"ESC", "HYPER", "1", "C", "TB", "B", "0", "DOWN", "ENTER"}  BY DEF matrix
<1>2. matrix["TB"] = None /\ matrix["1"] = "1" /\ matrix["ENTER"] = "ENTER"  BY DEF matrix
<1>3. {None, "1", "ENTER"} \subseteq KeyCodes  BY <1>1, <1>2 DEF KeyCodes, Range
<1>. QED  BY <1>3 DEF Codes, None

-----------------------------------------------------------------------------
(* What holds of the scan after its first i keys: held are the keys held,  *)
(* last what it began with for the key the menu has seen last.             *)

ScanStates(held) ==
  [menu : MenuStates, buffer : Codes, last : Codes, hyper : BOOLEAN,
   age : 0..LongAgo, codes : SUBSET held]

Aged == IF age < LongAgo THEN age + 1 ELSE age
Scanned(i, p) == \E j \in 1..i : Positions[j] = p
Opens(s) == s.menu = "ENTER" /\ menu_state # "ENTER"
Chord(held) == {"HYPER", "ENTER"} \subseteq held

(* The scan may begin to open the menu, no more.                           *)
Mode(s) ==
  /\ s.menu \in {menu_state, "ENTER"}
  /\ menu_state = "ACTIVE" => s.menu = "ACTIVE"
  /\ menu_state = "RAW" => s.menu = "RAW" \/ s.last # None

Reports(s, last) ==
  s.codes # {} => menu_state \notin {"ACTIVE", "RAW"} /\ last = None /\ "HYPER" \notin s.codes

HyperKnown(i, s, held) ==
  Scanned(i, "HYPER") \/ "HYPER" \notin Keys => (s.hyper <=> "HYPER" \in held)

(* A key that the menu sees is remembered.                                 *)
Remembers(i, s, last, held) ==
  /\ last # None /\ ~("TB" \in held /\ menu_state = "ACTIVE") => s.last # None
  /\ menu_state = "ACTIVE" /\ "TB" \notin held =>
       \A p \in held \ {"HYPER"} :
         Scanned(i, p) /\ ~(p = "ENTER" /\ "HYPER" \in held) => s.last # None

(* How long Hyper and Enter are held.                                      *)
Ages(i, s, last, held) ==
  /\ "ENTER" \notin held /\ (age = LongAgo \/ Scanned(i, "ENTER")) => s.age = LongAgo
  /\ age = LongAgo /\ (menu_state = "ACTIVE" \/ last # None) => s.age = LongAgo
  /\ Chord(held) => s.age = IF Opens(s) THEN 0 ELSE Aged
  /\ Chord(held) /\ "1" \notin held /\ s.buffer = "1" /\ buffer_menu_key # "1"
       => s.age = LongAgo /\ (s.last # None \/ menu_state = "ACTIVE")

(* The console sees the keys held, unless they are the menu's chord.       *)
Heard(i, s, last, held) ==
  menu_state = "RAW" /\ s.menu = "RAW" /\ "TB" \notin held =>
    \A p \in held \ {"HYPER"} :
      Scanned(i, p) /\ (p = "ENTER" => age = LongAgo /\ last # None) => s.buffer # None

Good(i, s, last, held) ==
  /\ s \in ScanStates(held)
  /\ Mode(s) /\ Reports(s, last) /\ HyperKnown(i, s, held)
  /\ Remembers(i, s, last, held) /\ Ages(i, s, last, held) /\ Heard(i, s, last, held)

LEMMA GoodBegin ==
  ASSUME KbdTypeOK, hyper_key <=> "HYPER" \in down, NEW last \in Codes, NEW held \in SUBSET Keys
  PROVE  Good(0, Begin(last), last, held)
<1>1. ~\E j \in 1..0 : TRUE  OBVIOUS
<1>2. \A p : ~Scanned(0, p)  BY <1>1 DEF Scanned
<1>3. LongAgo \in Nat /\ LongAgo >= 2 /\ age \in 0..LongAgo /\ Aged \in 0..LongAgo
  BY BoundsAssumption DEF KbdTypeOK, LongAgo, Aged
<1>4. /\ menu_state \in MenuStates /\ buffer_menu_key \in Codes /\ hyper_key \in BOOLEAN
      /\ "HYPER" \notin Keys => ~hyper_key /\ "HYPER" \notin held
  BY DEF KbdTypeOK, Codes
<1>. DEFINE s == Begin(last)
<1>5. /\ s.menu = menu_state /\ s.buffer = buffer_menu_key /\ s.last = last /\ s.hyper = hyper_key
      /\ s.age = Aged /\ s.codes = {}
      /\ s = [menu |-> menu_state, buffer |-> buffer_menu_key, last |-> last,
              hyper |-> hyper_key, age |-> Aged, codes |-> {}]
  BY DEF Begin, Aged
<1>6. s \in ScanStates(held)  BY <1>3, <1>4, <1>5 DEF ScanStates
<1>. HIDE DEF s
<1>7. Mode(s) /\ Reports(s, last) /\ HyperKnown(0, s, held)
  BY <1>2, <1>4, <1>5 DEF Mode, Reports, HyperKnown
<1>8. Remembers(0, s, last, held) /\ Heard(0, s, last, held)
  BY <1>2, <1>5 DEF Remembers, Heard
<1>9. Ages(0, s, last, held)
  <2>1. age = LongAgo => Aged = LongAgo  BY <1>3 DEF Aged
  <2>2. ~Opens(s)  BY <1>5 DEF Opens
  <2>. QED  BY <1>2, <1>5, <2>1, <2>2 DEF Ages
<1>. QED  BY <1>6, <1>7, <1>8, <1>9 DEF Good, s

-----------------------------------------------------------------------------
(* One key of the scan.                                                    *)

Same(t, s) ==
  t.menu = s.menu /\ t.buffer = s.buffer /\ t.last = s.last /\ t.hyper = s.hyper
  /\ t.age = s.age /\ t.codes = s.codes

KeyOpens(p, s, t) ==
  /\ p = "ENTER" /\ s.hyper /\ s.last = None /\ s.menu \notin {"ACTIVE", "ENTER"}
  /\ t.menu = "ENTER" /\ t.last = "ENTER" /\ t.age = 0
  /\ t.buffer = s.buffer /\ t.hyper = s.hyper /\ t.codes = s.codes

KeyFires(p, s, t) ==
  /\ p = "ENTER" /\ s.hyper /\ s.age > LongPress
  /\ t.buffer = "1" /\ t.last = "1" /\ t.age = LongAgo
  /\ t.menu = s.menu /\ t.hyper = s.hyper /\ t.codes = s.codes

KeyWaits(p, s, t) == p = "ENTER" /\ s.hyper /\ s.age <= LongPress /\ Same(t, s)

KeyShifts(p, s, t) ==
  /\ p = "HYPER" /\ t.hyper
  /\ t.menu = s.menu /\ t.buffer = s.buffer /\ t.last = s.last /\ t.age = s.age
  /\ t.codes = s.codes

(* Any other key that is held.                                             *)
KeyCounts(p, s, t) ==
  /\ p # "HYPER" /\ ~(p = "ENTER" /\ s.hyper)
  /\ t.menu = s.menu /\ t.hyper = s.hyper /\ t.age = s.age
  /\ \E keycode \in Codes :
       /\ (keycode = None <=> p = "TB") /\ (keycode = "1" => p = "1")
       /\ \/ s.menu = "RAW" /\ t.buffer = keycode /\ t.last = s.last /\ t.codes = s.codes
          \/ /\ s.menu = "ACTIVE" /\ t.codes = s.codes /\ t.last = keycode
             /\ t.buffer = keycode \/ t.buffer = s.buffer
          \/ /\ s.menu \notin {"RAW", "ACTIVE"} /\ t.buffer = s.buffer /\ t.last = s.last
             /\ t.codes = s.codes \/ (s.last = None /\ t.codes = s.codes \cup {p})

KeyLetGo(p, s, t) ==
  /\ t.menu = s.menu /\ t.buffer = s.buffer /\ t.last = s.last /\ t.codes = s.codes
  /\ \/ p = "HYPER" /\ ~t.hyper /\ t.age = LongAgo
     \/ p = "ENTER" /\ t.hyper = s.hyper /\ t.age = LongAgo
     \/ p \notin {"HYPER", "ENTER"} /\ t.hyper = s.hyper /\ t.age = s.age

LEMMA KeyCases ==
  ASSUME NEW held \in SUBSET Keys, NEW s \in ScanStates(held), NEW p \in Keys, NEW t,
         t = ScanKey(s, p, held)
  PROVE  /\ t \in ScanStates(held)
         /\ \/ p \in held /\ (KeyOpens(p, s, t) \/ KeyFires(p, s, t) \/ KeyWaits(p, s, t))
            \/ p \in held /\ (KeyShifts(p, s, t) \/ KeyCounts(p, s, t))
            \/ p \notin held /\ KeyLetGo(p, s, t)
<1>. DEFINE keycode == IF s.hyper THEN matrix_fn[p] ELSE matrix[p]
<1>1. /\ keycode \in KeyCodes /\ (keycode = "COMPOSE" <=> p = "HYPER")
      /\ (keycode = "ENTER" <=> p = "ENTER") /\ (keycode = None <=> p = "TB")
      /\ (keycode = "1" => p = "1")
  BY KeysAreKnown, CodesOf
<1>2. t = CASE p \in held /\ keycode = "ENTER" /\ s.hyper -> HyperEnter(s)
            [] p \in held /\ keycode = "COMPOSE" -> [s EXCEPT !.hyper = TRUE]
            [] p \in held /\ keycode # "COMPOSE" /\ ~(keycode = "ENTER" /\ s.hyper) -> OtherKey(s, p, keycode)
            [] p \notin held /\ keycode = "COMPOSE" -> [s EXCEPT !.hyper = FALSE, !.age = LongAgo]
            [] p \notin held /\ keycode = "ENTER"   -> [s EXCEPT !.age = LongAgo]
            [] OTHER -> s
  BY DEF ScanKey
<1>. HIDE DEF keycode
<1>3. /\ LongAgo \in Nat /\ LongAgo = LongPress + 1 /\ LongPress \in Nat /\ LongPress >= 1
      /\ 0 \in 0..LongAgo /\ LongAgo \in 0..LongAgo
  BY BoundsAssumption DEF LongAgo
<1>4. /\ s = [menu |-> s.menu, buffer |-> s.buffer, last |-> s.last, hyper |-> s.hyper,
              age |-> s.age, codes |-> s.codes]
      /\ s.menu \in MenuStates /\ s.buffer \in Codes /\ s.last \in Codes /\ s.hyper \in BOOLEAN
      /\ s.age \in 0..LongAgo /\ s.codes \in SUBSET held
  BY DEF ScanStates
<1>5. CASE p \in held /\ keycode = "ENTER" /\ s.hyper
  <2>1. t = HyperEnter(s)  BY <1>2, <1>5
  <2>2. CASE s.last = None /\ s.menu \notin {"ACTIVE", "ENTER"}
    <3>1. t = [s EXCEPT !.menu = "ENTER", !.last = "ENTER", !.age = 0]
      BY <2>1, <2>2 DEF HyperEnter
    <3>2. t \in ScanStates(held)  BY <1>3, <1>4, <3>1, SomeCodes DEF ScanStates, MenuStates
    <3>3. KeyOpens(p, s, t)  BY <1>1, <1>4, <1>5, <2>2, <3>1 DEF KeyOpens
    <3>. QED  BY <1>5, <3>2, <3>3
  <2>3. CASE ~(s.last = None /\ s.menu \notin {"ACTIVE", "ENTER"}) /\ s.age > LongPress
    <3>1. t = [s EXCEPT !.buffer = "1", !.last = "1", !.age = LongAgo]
      BY <2>1, <2>3 DEF HyperEnter
    <3>2. t \in ScanStates(held)  BY <1>3, <1>4, <3>1, SomeCodes DEF ScanStates
    <3>3. KeyFires(p, s, t)  BY <1>1, <1>4, <1>5, <2>3, <3>1 DEF KeyFires
    <3>. QED  BY <1>5, <3>2, <3>3
  <2>4. CASE ~(s.last = None /\ s.menu \notin {"ACTIVE", "ENTER"}) /\ ~(s.age > LongPress)
    <3>1. t = s  BY <2>1, <2>4 DEF HyperEnter
    <3>2. s.age <= LongPress  BY <1>3, <1>4, <2>4
    <3>3. KeyWaits(p, s, t)  BY <1>1, <1>5, <3>1, <3>2 DEF KeyWaits, Same
    <3>. QED  BY <1>5, <3>1, <3>3
  <2>. QED  BY <2>2, <2>3, <2>4
<1>6. CASE p \in held /\ keycode = "COMPOSE"
  <2>1. t = [s EXCEPT !.hyper = TRUE]  BY <1>2, <1>6
  <2>2. t \in ScanStates(held)  BY <1>4, <2>1 DEF ScanStates
  <2>3. KeyShifts(p, s, t)  BY <1>1, <1>4, <1>6, <2>1 DEF KeyShifts
  <2>. QED  BY <1>6, <2>2, <2>3
<1>7. CASE p \in held /\ keycode # "COMPOSE" /\ ~(keycode = "ENTER" /\ s.hyper)
  <2>1. t = OtherKey(s, p, keycode)  BY <1>2, <1>7
  <2>2. keycode \in Codes  BY <1>1, <1>7 DEF Codes
  <2>3. CASE s.menu = "RAW"
    <3>1. t = [s EXCEPT !.buffer = keycode]  BY <2>1, <2>3 DEF OtherKey
    <3>2. t \in ScanStates(held)  BY <1>4, <2>2, <3>1 DEF ScanStates
    <3>3. KeyCounts(p, s, t)  BY <1>1, <1>4, <1>7, <2>2, <2>3, <3>1 DEF KeyCounts
    <3>. QED  BY <1>7, <3>2, <3>3
  <2>4. CASE s.menu = "ACTIVE"
    <3>1. t = IF s.last = keycode THEN s ELSE [s EXCEPT !.buffer = keycode, !.last = keycode]
      BY <2>1, <2>4 DEF OtherKey
    <3>2. t \in ScanStates(held)  BY <1>4, <2>2, <3>1 DEF ScanStates
    <3>3. KeyCounts(p, s, t)  BY <1>1, <1>4, <1>7, <2>2, <2>4, <3>1 DEF KeyCounts
    <3>. QED  BY <1>7, <3>2, <3>3
  <2>5. CASE s.menu \notin {"RAW", "ACTIVE"}
    <3>1. t = IF s.last = None /\ p # "TB" THEN [s EXCEPT !.codes = @ \cup {p}] ELSE s
      BY <2>1, <2>5 DEF OtherKey
    <3>2. t \in ScanStates(held)  BY <1>4, <1>7, <3>1 DEF ScanStates
    <3>3. KeyCounts(p, s, t)  BY <1>1, <1>4, <1>7, <2>2, <2>5, <3>1 DEF KeyCounts
    <3>. QED  BY <1>7, <3>2, <3>3
  <2>. QED  BY <2>3, <2>4, <2>5
<1>8. CASE p \notin held
  <2>1. t = IF keycode = "COMPOSE" THEN [s EXCEPT !.hyper = FALSE, !.age = LongAgo]
            ELSE IF keycode = "ENTER" THEN [s EXCEPT !.age = LongAgo] ELSE s
    BY <1>2, <1>8
  <2>2. t \in ScanStates(held)  BY <1>3, <1>4, <2>1 DEF ScanStates
  <2>3. KeyLetGo(p, s, t)  BY <1>1, <1>4, <2>1 DEF KeyLetGo
  <2>. QED  BY <1>8, <2>2, <2>3
<1>. QED  BY <1>5, <1>6, <1>7, <1>8

LEMMA ScanProceeds ==
  ASSUME NEW i \in 1..Len(Positions)
  PROVE  /\ \A q : Scanned(i, q) <=> Scanned(i - 1, q) \/ q = Positions[i]
         /\ Positions[i] = "ENTER" => Scanned(i - 1, "HYPER") \/ "HYPER" \notin Keys
<1>1. /\ Len(Positions) \in Nat /\ DOMAIN Positions = 1..Len(Positions)
      /\ \A j, k \in 1..Len(Positions) : Positions[j] = "HYPER" /\ Positions[k] = "ENTER" => j < k
  BY PositionsAssumption
<1>2. 1..i = (1..(i - 1)) \cup {i}  BY <1>1
<1>3. ASSUME Positions[i] = "ENTER", "HYPER" \in Keys PROVE Scanned(i - 1, "HYPER")
  <2>1. PICK j \in 1..Len(Positions) : Positions[j] = "HYPER"  BY <1>3, KeysAreKnown
  <2>2. j \in 1..(i - 1)  BY <1>1, <1>3, <2>1
  <2>. QED  BY <2>1, <2>2 DEF Scanned
<1>. QED  BY <1>2, <1>3 DEF Scanned

LEMMA ModeKept ==
  ASSUME NEW held \in SUBSET Keys, NEW s \in ScanStates(held), NEW p \in Keys, NEW t, NEW last,
         t = ScanKey(s, p, held), Mode(s), Reports(s, last),
         last # None /\ ~("TB" \in held /\ menu_state = "ACTIVE") => s.last # None
  PROVE  Mode(t) /\ Reports(t, last)
<1>1. CASE KeyOpens(p, s, t)
  <2>1. s.menu # "ACTIVE" /\ menu_state # "ACTIVE"  BY <1>1 DEF KeyOpens, Mode
  <2>2. t.menu = "ENTER" /\ t.last # None /\ t.codes = s.codes
    BY <1>1 DEF KeyOpens, None
  <2>. QED  BY <2>1, <2>2 DEF Mode, Reports
<1>2. CASE KeyFires(p, s, t)  BY <1>2 DEF KeyFires, Mode, Reports, None
<1>3. CASE KeyWaits(p, s, t)  BY <1>3 DEF KeyWaits, Same, Mode, Reports
<1>4. CASE KeyShifts(p, s, t)  BY <1>4 DEF KeyShifts, Mode, Reports
<1>5. CASE KeyCounts(p, s, t)
  <2>1. CASE s.menu = "RAW"  BY <1>5, <2>1 DEF KeyCounts, Mode, Reports
  <2>2. CASE s.menu = "ACTIVE"
    <3>1. menu_state = "ACTIVE" /\ t.menu = "ACTIVE" /\ t.codes = s.codes
      BY <1>5, <2>2 DEF KeyCounts, Mode
    <3>. QED  BY <3>1 DEF Mode, Reports
  <2>3. CASE s.menu \notin {"RAW", "ACTIVE"}
    <3>1. /\ menu_state # "ACTIVE" /\ t.last = s.last /\ t.menu = s.menu
          /\ menu_state = "RAW" => s.last # None
          /\ p # "HYPER" /\ (t.codes = s.codes \/ (s.last = None /\ t.codes = s.codes \cup {p}))
      BY <1>5, <2>3 DEF KeyCounts, Mode
    <3>2. t.codes # {} => s.codes # {} \/ s.last = None  BY <3>1
    <3>. QED  BY <3>1, <3>2 DEF Mode, Reports
  <2>. QED  BY <2>1, <2>2, <2>3
<1>6. CASE KeyLetGo(p, s, t)  BY <1>6 DEF KeyLetGo, Mode, Reports
<1>. QED  BY <1>1, <1>2, <1>3, <1>4, <1>5, <1>6, KeyCases

LEMMA HyperKnownKept ==
  ASSUME NEW held \in SUBSET Keys, NEW s \in ScanStates(held), NEW i \in 1..Len(Positions), NEW t,
         t = ScanKey(s, Positions[i], held), HyperKnown(i - 1, s, held)
  PROVE  HyperKnown(i, t, held)
<1>. DEFINE p == Positions[i]
<1>1. p \in Keys /\ \A q : Scanned(i, q) <=> Scanned(i - 1, q) \/ q = p
  BY KeysAreKnown, ScanProceeds
<1>2. p # "HYPER" => t.hyper = s.hyper
  BY <1>1, KeyCases DEF KeyOpens, KeyFires, KeyWaits, KeyShifts, KeyCounts, KeyLetGo, Same
<1>3. p = "HYPER" => (t.hyper <=> p \in held) /\ p \in Keys
  BY <1>1, KeyCases DEF KeyOpens, KeyFires, KeyWaits, KeyShifts, KeyCounts, KeyLetGo, Same
<1>. HIDE DEF p
<1>4. CASE p = "HYPER"  BY <1>3, <1>4 DEF HyperKnown
<1>5. CASE p # "HYPER"  BY <1>1, <1>2, <1>5 DEF HyperKnown
<1>. QED  BY <1>4, <1>5

LEMMA RemembersKept ==
  ASSUME NEW held \in SUBSET Keys, NEW s \in ScanStates(held), NEW i \in 1..Len(Positions), NEW t,
         NEW last, t = ScanKey(s, Positions[i], held),
         Mode(s), HyperKnown(i - 1, s, held), Remembers(i - 1, s, last, held)
  PROVE  Remembers(i, t, last, held)
<1>. DEFINE p == Positions[i]
<1>1. /\ p \in Keys /\ \A q : Scanned(i, q) <=> Scanned(i - 1, q) \/ q = p
      /\ p = "ENTER" => (s.hyper <=> "HYPER" \in held)
  BY KeysAreKnown, ScanProceeds DEF HyperKnown
<1>2. s.menu = "ACTIVE" <=> menu_state = "ACTIVE"  BY DEF Mode
<1>. HIDE DEF p
<1>3. \/ p \in held /\ (KeyOpens(p, s, t) \/ KeyFires(p, s, t) \/ KeyWaits(p, s, t))
      \/ p \in held /\ (KeyShifts(p, s, t) \/ KeyCounts(p, s, t))
      \/ p \notin held /\ KeyLetGo(p, s, t)
  BY <1>1, KeyCases DEF p
<1>4. t.last # s.last => t.last # None \/ (p = "TB" /\ p \in held /\ menu_state = "ACTIVE")
  <2>1. CASE KeyCounts(p, s, t)  BY <1>2, <1>3, <2>1 DEF KeyCounts, KeyLetGo
  <2>2. CASE ~KeyCounts(p, s, t)
    BY <1>3, <2>2 DEF KeyOpens, KeyFires, KeyWaits, KeyShifts, KeyLetGo, Same, None
  <2>. QED  BY <2>1, <2>2
<1>5. ASSUME menu_state = "ACTIVE", "TB" \notin held, p \in held \ {"HYPER"},
             ~(p = "ENTER" /\ "HYPER" \in held)
      PROVE  t.last # None
  <2>1. KeyCounts(p, s, t)
    BY <1>1, <1>3, <1>5 DEF KeyOpens, KeyFires, KeyWaits, KeyShifts
  <2>2. s.menu = "ACTIVE" /\ p # "TB"  BY <1>2, <1>5
  <2>. QED  BY <2>1, <2>2 DEF KeyCounts
<1>6. last # None /\ ~("TB" \in held /\ menu_state = "ACTIVE") => t.last # None
  BY <1>4 DEF Remembers
<1>7. ASSUME menu_state = "ACTIVE", "TB" \notin held, NEW q \in held \ {"HYPER"}, Scanned(i, q),
             ~(q = "ENTER" /\ "HYPER" \in held)
      PROVE  t.last # None
  <2>1. CASE q = p  BY <1>5, <1>7, <2>1
  <2>2. CASE q # p  BY <1>1, <1>4, <1>7, <2>2 DEF Remembers
  <2>. QED  BY <2>1, <2>2
<1>. QED  BY <1>6, <1>7 DEF Remembers

LEMMA AgesKept ==
  ASSUME NEW held \in SUBSET Keys, NEW s \in ScanStates(held), NEW i \in 1..Len(Positions), NEW t,
         NEW last, t = ScanKey(s, Positions[i], held),
         Mode(s), Remembers(i - 1, s, last, held), Ages(i - 1, s, last, held)
  PROVE  Ages(i, t, last, held)
<1>. DEFINE p == Positions[i]
<1>1. p \in Keys /\ \A q : Scanned(i, q) <=> Scanned(i - 1, q) \/ q = p
  BY KeysAreKnown, ScanProceeds
<1>2. /\ s.menu = "ACTIVE" <=> menu_state = "ACTIVE"
      /\ s.menu \in {menu_state, "ENTER"}
  BY DEF Mode
<1>. HIDE DEF p
<1>3. \/ p \in held /\ (KeyOpens(p, s, t) \/ KeyFires(p, s, t) \/ KeyWaits(p, s, t))
      \/ p \in held /\ (KeyShifts(p, s, t) \/ KeyCounts(p, s, t))
      \/ p \notin held /\ KeyLetGo(p, s, t)
  BY <1>1, KeyCases DEF p
<1>4. /\ LongAgo \in Nat /\ LongAgo = LongPress + 1 /\ LongPress \in Nat /\ LongPress >= 1
      /\ s.age \in 0..LongAgo
  BY BoundsAssumption DEF LongAgo, ScanStates
<1>5. ASSUME "ENTER" \notin held, age = LongAgo \/ Scanned(i, "ENTER") PROVE t.age = LongAgo
  <2>1. p = "ENTER" \/ s.age = LongAgo  BY <1>1, <1>5 DEF Ages
  <2>2. ~KeyOpens(p, s, t) \/ p \notin held  BY <1>5 DEF KeyOpens
  <2>. QED
    BY <1>3, <1>5, <2>1, <2>2
       DEF KeyOpens, KeyFires, KeyWaits, KeyShifts, KeyCounts, KeyLetGo, Same
<1>6. ASSUME age = LongAgo, menu_state = "ACTIVE" \/ last # None PROVE t.age = LongAgo
  <2>1. s.age = LongAgo  BY <1>6 DEF Ages
  <2>2. ~KeyOpens(p, s, t)  BY <1>2, <1>6 DEF KeyOpens, Remembers
  <2>. QED
    BY <1>3, <2>1, <2>2 DEF KeyFires, KeyWaits, KeyShifts, KeyCounts, KeyLetGo, Same
<1>7. ASSUME Chord(held) PROVE t.age = IF Opens(t) THEN 0 ELSE Aged
  <2>1. s.age = IF Opens(s) THEN 0 ELSE Aged  BY <1>7 DEF Ages
  <2>2. CASE KeyOpens(p, s, t)  BY <1>2, <2>2 DEF KeyOpens, Opens
  <2>3. CASE KeyFires(p, s, t)
    <3>1. s.age > LongPress /\ t.age = LongAgo /\ t.menu = s.menu  BY <2>3 DEF KeyFires
    <3>2. s.age = LongAgo /\ s.age # 0  BY <1>4, <3>1
    <3>3. ~Opens(s) /\ Aged = LongAgo  BY <2>1, <3>2
    <3>. QED  BY <3>1, <3>3 DEF Opens
  <2>4. CASE KeyWaits(p, s, t) \/ KeyShifts(p, s, t) \/ KeyCounts(p, s, t)
    BY <2>1, <2>4 DEF KeyWaits, KeyShifts, KeyCounts, Same, Opens
  <2>5. CASE p \notin held /\ KeyLetGo(p, s, t)
    BY <1>7, <2>1, <2>5 DEF KeyLetGo, Opens, Chord
  <2>. QED  BY <1>3, <2>2, <2>3, <2>4, <2>5
<1>8. ASSUME Chord(held), "1" \notin held, t.buffer = "1", buffer_menu_key # "1"
      PROVE  t.age = LongAgo /\ (t.last # None \/ menu_state = "ACTIVE")
  <2>1. s.buffer = "1" => s.age = LongAgo /\ (s.last # None \/ menu_state = "ACTIVE")
    BY <1>8 DEF Ages
  <2>2. CASE KeyOpens(p, s, t)  BY <1>2, <1>8, <2>1, <2>2 DEF KeyOpens
  <2>3. CASE KeyFires(p, s, t)  BY <2>3 DEF KeyFires, None
  <2>4. CASE KeyWaits(p, s, t) \/ KeyShifts(p, s, t)
    BY <1>8, <2>1, <2>4 DEF KeyWaits, KeyShifts, Same
  <2>5. CASE p \in held /\ KeyCounts(p, s, t)
    <3>1. p # "1"  BY <1>8, <2>5
    <3>2. t.buffer = s.buffer /\ t.age = s.age  BY <1>8, <2>5, <3>1 DEF KeyCounts
    <3>3. t.last = s.last \/ menu_state = "ACTIVE"  BY <1>2, <2>5 DEF KeyCounts
    <3>. QED  BY <1>8, <2>1, <3>2, <3>3
  <2>6. CASE KeyLetGo(p, s, t)  BY <1>8, <2>1, <2>6 DEF KeyLetGo
  <2>. QED  BY <1>3, <2>2, <2>3, <2>4, <2>5, <2>6
<1>. QED  BY <1>5, <1>6, <1>7, <1>8 DEF Ages

LEMMA HeardKept ==
  ASSUME NEW held \in SUBSET Keys, NEW s \in ScanStates(held), NEW i \in 1..Len(Positions), NEW t,
         NEW last, t = ScanKey(s, Positions[i], held),
         Mode(s), Ages(i - 1, s, last, held), Heard(i - 1, s, last, held)
  PROVE  Heard(i, t, last, held)
<1>. DEFINE p == Positions[i]
<1>1. p \in Keys /\ \A q : Scanned(i, q) <=> Scanned(i - 1, q) \/ q = p
  BY KeysAreKnown, ScanProceeds
<1>. HIDE DEF p
<1>2. \/ p \in held /\ (KeyOpens(p, s, t) \/ KeyFires(p, s, t) \/ KeyWaits(p, s, t))
      \/ p \in held /\ (KeyShifts(p, s, t) \/ KeyCounts(p, s, t))
      \/ p \notin held /\ KeyLetGo(p, s, t)
  BY <1>1, KeyCases DEF p
<1>3. LongAgo \in Nat /\ LongAgo = LongPress + 1 /\ LongPress \in Nat
  BY BoundsAssumption DEF LongAgo
<1>. SUFFICES ASSUME menu_state = "RAW", t.menu = "RAW", "TB" \notin held,
                     NEW q \in held \ {"HYPER"}, Scanned(i, q),
                     q = "ENTER" => age = LongAgo /\ last # None
              PROVE  t.buffer # None
  BY DEF Heard
<1>4. ~KeyOpens(p, s, t) /\ s.menu = "RAW"
  BY <1>2 DEF KeyOpens, KeyFires, KeyWaits, KeyShifts, KeyCounts, KeyLetGo, Same
<1>5. CASE q # p
  <2>1. s.buffer # None  BY <1>1, <1>4, <1>5 DEF Heard
  <2>2. p \in held => p # "TB"  OBVIOUS
  <2>. QED
    BY <1>2, <1>4, <2>1, <2>2 DEF KeyFires, KeyWaits, KeyShifts, KeyCounts, KeyLetGo, Same, None
<1>6. CASE q = p
  <2>1. p # "TB" /\ p # "HYPER" /\ p \in held  BY <1>6
  <2>2. ~KeyWaits(p, s, t)  BY <1>3, <1>6 DEF KeyWaits, Ages
  <2>. QED
    BY <1>2, <1>4, <2>1, <2>2 DEF KeyFires, KeyShifts, KeyCounts, None
<1>. QED  BY <1>5, <1>6

LEMMA ScanKeeps ==
  ASSUME NEW last, NEW held \in SUBSET Keys, NEW i \in 1..Len(Positions),
         NEW s, Good(i - 1, s, last, held)
  PROVE  Good(i, ScanKey(s, Positions[i], held), last, held)
<1>. DEFINE t == ScanKey(s, Positions[i], held)
<1>1. s \in ScanStates(held) /\ Positions[i] \in Keys  BY KeysAreKnown DEF Good
<1>2. t \in ScanStates(held)  BY <1>1, KeyCases
<1>. HIDE DEF t
<1>3. t = ScanKey(s, Positions[i], held)  BY DEF t
<1>4. Mode(t) /\ Reports(t, last)  BY <1>1, <1>3, ModeKept DEF Good, Remembers
<1>5. HyperKnown(i, t, held)  BY <1>1, <1>3, HyperKnownKept DEF Good
<1>6. Remembers(i, t, last, held)  BY <1>1, <1>3, RemembersKept DEF Good
<1>7. Ages(i, t, last, held)  BY <1>1, <1>3, AgesKept DEF Good
<1>8. Heard(i, t, last, held)  BY <1>1, <1>3, HeardKept DEF Good
<1>. QED  BY <1>2, <1>4, <1>5, <1>6, <1>7, <1>8 DEF Good, t

(* The whole scan.                                                         *)
LEMMA ScanEnds ==
  ASSUME KbdTypeOK, hyper_key <=> "HYPER" \in down, NEW last \in Codes, NEW held \in SUBSET Keys
  PROVE  \A s \in process_keyboard(last, held) :
           \E r : Good(Len(Positions), r, last, held) /\ s = LetGo(r, held)
<1>. DEFINE N == Len(Positions)
<1>1. N \in Nat  BY KeysAreKnown
<1>2. PICK f : /\ Scans(f, N, last, held)
               /\ process_keyboard(last, held) = {LetGo(s, held) : s \in f[N]}
  BY <1>1, ScanResults
<1>3. /\ f[0] = {Begin(last)}
      /\ \A i \in 1..N : f[i] = ScanNext(f[i - 1], i, held)
  <2>1. \A i \in 0..N : f[i] = IF i = 0 THEN {Begin(last)} ELSE ScanNext(f[i - 1], i, held)
    BY <1>2 DEF Scans
  <2>2. 0 \in 0..N /\ \A i \in 1..N : i \in 0..N /\ i # 0  BY <1>1
  <2>. QED  BY <2>1, <2>2
<1>. DEFINE T == {n \in Nat : n \in 0..N => \A s \in f[n] : Good(n, s, last, held)}
<1>4. 0 \in T
  <2>1. Good(0, Begin(last), last, held)  BY GoodBegin
  <2>. QED  BY <1>3, <2>1
<1>5. ASSUME NEW n \in Nat, n \in T PROVE n + 1 \in T
  <2>1. ASSUME n + 1 \in 0..N, NEW s \in f[n + 1] PROVE Good(n + 1, s, last, held)
    <3>1. n + 1 \in 1..N /\ n \in 0..N /\ (n + 1) - 1 = n  BY <1>1, <2>1
    <3>2. s \in ScanNext(f[n], n + 1, held)  BY <1>3, <2>1, <3>1
    <3>3. PICK r \in f[n] : s = ScanKey(r, Positions[n + 1], held)  BY <3>2 DEF ScanNext
    <3>4. Good(n, r, last, held)  BY <1>5, <3>1
    <3>. QED  BY <3>1, <3>3, <3>4, ScanKeeps
  <2>. QED  BY <2>1
<1>. HIDE DEF T
<1>6. N \in T  BY <1>1, <1>4, <1>5, SetInduction
<1>7. \A s \in f[N] : Good(N, s, last, held)  BY <1>1, <1>6 DEF T
<1>. QED  BY <1>2, <1>7

HyperDown == hyper_key <=> "HYPER" \in down

LEMMA ScanOutcome ==
  ASSUME KbdTypeOK, HyperDown, NEW last \in Codes, NEW held \in SUBSET Keys,
         NEW s \in process_keyboard(last, held)
  PROVE  /\ s \in ScanStates(held) /\ (s.hyper <=> "HYPER" \in held)
         /\ s.menu \in {menu_state, "ENTER"} /\ (menu_state = "ACTIVE" => s.menu = "ACTIVE")
         /\ Reports(s, last)
         /\ last # None /\ ~("TB" \in held /\ menu_state = "ACTIVE") /\ held # {} => s.last # None
         /\ menu_state = "ACTIVE" /\ "TB" \notin held =>
              \A p \in held \ {"HYPER"} : ~(p = "ENTER" /\ "HYPER" \in held) => s.last # None
         /\ "ENTER" \notin held /\ (age = LongAgo \/ "ENTER" \in Keys) => s.age = LongAgo
         /\ age = LongAgo /\ (menu_state = "ACTIVE" \/ last # None) => s.age = LongAgo
         /\ Chord(held) => s.age = IF Opens(s) THEN 0 ELSE Aged
         /\ Chord(held) /\ "1" \notin held /\ s.buffer = "1" /\ buffer_menu_key # "1"
              => s.age = LongAgo
         /\ menu_state = "RAW" /\ s.menu = "RAW" /\ "TB" \notin held =>
              \A p \in held \ {"HYPER"} :
                (p = "ENTER" => age = LongAgo /\ last # None) => s.buffer # None
<1>. DEFINE N == Len(Positions)
<1>1. PICK r : Good(N, r, last, held) /\ s = LetGo(r, held)  BY ScanEnds DEF HyperDown
<1>2. \A p \in Keys : Scanned(N, p)  BY KeysAreKnown DEF Scanned
<1>3. r \in ScanStates(held) /\ (r.hyper <=> "HYPER" \in held)
  BY <1>1, <1>2 DEF Good, HyperKnown
<1>4. s = IF held = {} THEN [r EXCEPT !.last = None, !.buffer = None] ELSE r
  BY <1>1, <1>3 DEF LetGo
<1>5. /\ s \in ScanStates(held) /\ s.menu = r.menu /\ s.hyper = r.hyper /\ s.age = r.age
      /\ s.codes = r.codes
      /\ held # {} => s.last = r.last /\ s.buffer = r.buffer
      /\ held = {} => s.buffer = None
  BY <1>3, <1>4, SomeCodes DEF ScanStates
<1>6. /\ Mode(r) /\ Reports(r, last) /\ Remembers(N, r, last, held) /\ Ages(N, r, last, held)
      /\ Heard(N, r, last, held)
  BY <1>1 DEF Good
<1>. HIDE DEF N
<1>7. s.menu \in {menu_state, "ENTER"} /\ (menu_state = "ACTIVE" => s.menu = "ACTIVE")
  BY <1>5, <1>6 DEF Mode
<1>8. Reports(s, last)  BY <1>5, <1>6 DEF Reports
<1>9. last # None /\ ~("TB" \in held /\ menu_state = "ACTIVE") /\ held # {} => s.last # None
  BY <1>5, <1>6 DEF Remembers
<1>10. menu_state = "ACTIVE" /\ "TB" \notin held =>
         \A p \in held \ {"HYPER"} : ~(p = "ENTER" /\ "HYPER" \in held) => s.last # None
  BY <1>2, <1>5, <1>6 DEF Remembers
<1>11. /\ "ENTER" \notin held /\ (age = LongAgo \/ "ENTER" \in Keys) => s.age = LongAgo
       /\ age = LongAgo /\ (menu_state = "ACTIVE" \/ last # None) => s.age = LongAgo
  BY <1>2, <1>5, <1>6 DEF Ages
<1>12. Chord(held) => s.age = IF Opens(s) THEN 0 ELSE Aged
  BY <1>5, <1>6 DEF Ages, Opens
<1>13. Chord(held) /\ "1" \notin held /\ s.buffer = "1" /\ buffer_menu_key # "1" => s.age = LongAgo
  BY <1>5, <1>6 DEF Ages, Chord
<1>14. menu_state = "RAW" /\ s.menu = "RAW" /\ "TB" \notin held =>
         \A p \in held \ {"HYPER"} :
           (p = "ENTER" => age = LongAgo /\ last # None) => s.buffer # None
  BY <1>2, <1>5, <1>6 DEF Heard
<1>. QED
  BY <1>3, <1>5, <1>7, <1>8, <1>9, <1>10, <1>11, <1>12, <1>13, <1>14

-----------------------------------------------------------------------------
(* The invariant. ForMenu are the keys that are held for the menu.         *)

ForMenu == {p \in Keys \ {"HYPER"} : seenIn[p] = "menu"}

(* What was pressed for the menu is kept from the host by last_menu_key.   *)
Remembered ==
  /\ \A p \in Keys : seenIn[p] = "up" <=> p \notin down
  /\ ForMenu # {} => last_menu_key # None

(* The time of Hyper and Enter is taken when they open the menu.           *)
Timed ==
  /\ "ENTER" \notin down => age = LongAgo
  /\ "ENTER" \in ForMenu => age = LongAgo
  /\ opener >= 0 => age = opener

(* The main loop serves the mode that it has found, or the menu is to open *)
(* again; the console is not left in the mode of the menu.                 *)
Served ==
  /\ at \in {"active", "active_result"} => menu_state = "ACTIVE"
  /\ at \in {"raw", "raw_result"} => menu_state \in {"RAW", "ENTER"}
  /\ menu_state = "ACTIVE" /\ current_menu_page = "CONSOLE" =>
       at = "active_result" /\ edit_state = "WAIT_KEYUP" /\ res = 2

(* A screen that is told of no key is called when no key of the menu's is  *)
(* held, and only such a call makes the console type.                      *)
KeysUp ==
  /\ ticked /\ menu_state = "RAW" /\ buffer_menu_key = None => ForMenu = {}
  /\ at = "raw" /\ key = None => ForMenu = {}
  /\ current_menu_page = "CONSOLE" /\ edit_state = "NORMAL" => ForMenu = {}

KbdInv ==
  /\ KbdTypeOK /\ HyperDown /\ Remembered /\ Timed /\ Served /\ KeysUp
  /\ MenuKeysStayInMenu

LEMMA KbdInvInit == Init => KbdInv
<1>. SUFFICES ASSUME Init PROVE KbdInv  OBVIOUS
<1>1. LongAgo \in 0..LongAgo /\ -1 \in -1..LongAgo  BY BoundsAssumption DEF LongAgo
<1>2. 0 \in 0..(Len(menu_items) - 1)
  <2>1. Len(menu_items) = 5  BY DEF menu_items
  <2>. QED  BY <2>1
<1>3. KbdTypeOK
  <2>1. /\ menu_state \in MenuStates /\ current_menu_page \in Pages
        /\ buffer_menu_key \in Codes /\ last_menu_key \in Codes /\ key \in Codes
    BY SomeCodes DEF Init, MenuStates, Pages, Codes
  <2>2. seenIn \in [Keys -> {"up", "menu", "console", "host", "forgotten"}]  BY DEF Init
  <2>3. /\ hyper_key \in BOOLEAN /\ soc_power_on \in BOOLEAN /\ ticked \in BOOLEAN
        /\ ticked => at = "sleep"
    BY DEF Init
  <2>4. /\ at \in {"sleep", "raw", "active", "raw_result", "active_result", "refresh", "hint"}
        /\ edit_state \in {"WAIT_KEYUP", "NORMAL"} /\ res \in 0..2
        /\ report \subseteq down /\ down \subseteq Keys
    BY DEF Init
  <2>5. age \in 0..LongAgo /\ opener \in -1..LongAgo  BY <1>1 DEF Init
  <2>6. current_menu_y \in 0..(Len(menu_items) - 1) BY <1>2 DEF Init
  <2>. QED  BY <2>1, <2>2, <2>3, <2>4, <2>5, <2>6 DEF KbdTypeOK, Codes
<1>4. \A p \in Keys : seenIn[p] = "up"  BY DEF Init
<1>5. ForMenu = {}  BY <1>4 DEF ForMenu
<1>. QED
  BY <1>3, <1>4, <1>5
     DEF Init, KbdInv, HyperDown, Remembered, Timed, Served, KeysUp, MenuKeysStayInMenu

LEMMA SeenTyped ==
  ASSUME NEW held \in SUBSET Keys,
         NEW before \in [Keys -> {"up", "menu", "console", "host", "forgotten"}]
  PROVE  /\ Seen(before, held) \in [Keys -> {"up", "menu", "console", "host", "forgotten"}]
         /\ \A p \in Keys : Seen(before, held)[p] = "up" <=> p \notin held
         /\ \A p \in Keys : Seen(before, held)[p] = "menu" =>
              /\ p \in held /\ ~("TB" \in held /\ menu_state \in {"ACTIVE", "RAW"})
              /\ \/ before[p] = "menu"
                 \/ /\ before[p] = "up" /\ menu_state = "ACTIVE"
                    /\ ~(p = "ENTER" /\ "HYPER" \in held)
<1>1. ASSUME NEW p \in Keys
      PROVE  /\ SeenBy(p, held) \in {"menu", "console", "host"}
             /\ SeenBy(p, held) = "menu" =>
                  menu_state = "ACTIVE" /\ ~(p = "ENTER" /\ "HYPER" \in held)
  BY DEF SeenBy
<1>2. ASSUME NEW p \in Keys
      PROVE  Seen(before, held)[p] =
               IF p \notin held THEN "up"
               ELSE IF Forgets(held) THEN "forgotten"
               ELSE IF before[p] = "up" THEN SeenBy(p, held) ELSE before[p]
  BY DEF Seen
<1>3. DOMAIN Seen(before, held) = Keys /\ Seen(before, held) = [p \in Keys |-> Seen(before, held)[p]]
  BY DEF Seen
<1>. QED  BY <1>1, <1>2, <1>3 DEF Forgets

-----------------------------------------------------------------------------
(* The interrupt.                                                          *)

LEMMA HidKeeps == ASSUME KbdInv, hid_task PROVE KbdInv'
<1>1. KbdTypeOK /\ HyperDown /\ Remembered /\ Timed /\ Served /\ KeysUp  BY DEF KbdInv
<1>2. PICK pwr0 \in PowerOffs, held \in Chords :
        /\ down' = held
        /\ current_menu_page' = IF pwr0 THEN "NONE" ELSE current_menu_page
        /\ current_menu_y' = IF pwr0 THEN 0 ELSE current_menu_y
        /\ soc_power_on' = (soc_power_on /\ ~pwr0)
        /\ seenIn' = Seen(IF pwr0 THEN Forgotten ELSE seenIn, held)
        /\ \E s \in process_keyboard(IF pwr0 THEN None ELSE last_menu_key, held) :
             /\ menu_state' = s.menu
             /\ buffer_menu_key' = s.buffer
             /\ last_menu_key' = s.last
             /\ hyper_key' = s.hyper
             /\ age' = s.age
             /\ report' = s.codes
             /\ opener' = IF ~Chord(held) THEN -1 ELSE IF Opens(s) THEN 0
                          ELSE IF opener \in 0..LongPress THEN opener + 1 ELSE opener
  BY DEF hid_task, Chord, Opens
<1>. DEFINE last == IF pwr0 THEN None ELSE last_menu_key
            before == IF pwr0 THEN Forgotten ELSE seenIn
<1>3. PICK s \in process_keyboard(last, held) :
        /\ menu_state' = s.menu /\ buffer_menu_key' = s.buffer /\ last_menu_key' = s.last
        /\ hyper_key' = s.hyper /\ age' = s.age /\ report' = s.codes
        /\ opener' = IF ~Chord(held) THEN -1 ELSE IF Opens(s) THEN 0
                     ELSE IF opener \in 0..LongPress THEN opener + 1 ELSE opener
  BY <1>2
<1>4. held \in SUBSET Keys /\ pwr0 \in BOOLEAN  BY BoundsAssumption DEF Chords
<1>5. last \in Codes  BY <1>1, <1>4, SomeCodes DEF KbdTypeOK, Codes
<1>6. /\ before \in [Keys -> {"up", "menu", "console", "host", "forgotten"}]
      /\ \A p \in Keys : before[p] = "up" <=> p \notin down
      /\ \A p \in Keys \ {"HYPER"} : before[p] = "menu" => p \in ForMenu /\ last # None
  <2>1. CASE pwr0
    <3>1. before = [p \in Keys |-> IF p \in down THEN "forgotten" ELSE "up"]  BY <2>1 DEF Forgotten
    <3>. QED  BY <3>1
  <2>2. CASE ~pwr0
    <3>1. before = seenIn /\ last = last_menu_key  BY <2>2
    <3>. QED  BY <1>1, <3>1 DEF KbdTypeOK, Remembered, ForMenu
  <2>. QED  BY <1>4, <2>1, <2>2
<1>7. /\ seenIn' = Seen(before, held) /\ down' = held
      /\ at' = at /\ key' = key /\ res' = res /\ edit_state' = edit_state
      /\ ticked' = (at = "sleep")
  BY <1>2 DEF hid_task
<1>. HIDE DEF last, before
<1>8. /\ s \in ScanStates(held) /\ (s.hyper <=> "HYPER" \in held)
      /\ s.menu \in {menu_state, "ENTER"} /\ (menu_state = "ACTIVE" => s.menu = "ACTIVE")
      /\ Reports(s, last)
      /\ last # None /\ ~("TB" \in held /\ menu_state = "ACTIVE") /\ held # {} => s.last # None
      /\ menu_state = "ACTIVE" /\ "TB" \notin held =>
           \A p \in held \ {"HYPER"} : ~(p = "ENTER" /\ "HYPER" \in held) => s.last # None
      /\ "ENTER" \notin held /\ (age = LongAgo \/ "ENTER" \in Keys) => s.age = LongAgo
      /\ age = LongAgo /\ (menu_state = "ACTIVE" \/ last # None) => s.age = LongAgo
      /\ Chord(held) => s.age = IF Opens(s) THEN 0 ELSE Aged
      /\ menu_state = "RAW" /\ s.menu = "RAW" /\ "TB" \notin held =>
           \A p \in held \ {"HYPER"} :
             (p = "ENTER" => age = LongAgo /\ last # None) => s.buffer # None
  BY <1>1, <1>3, <1>4, <1>5, ScanOutcome
<1>9. /\ seenIn' \in [Keys -> {"up", "menu", "console", "host", "forgotten"}]
      /\ \A p \in Keys : seenIn'[p] = "up" <=> p \notin held
      /\ \A p \in Keys : seenIn'[p] = "menu" =>
           /\ p \in held /\ ~("TB" \in held /\ menu_state \in {"ACTIVE", "RAW"})
           /\ \/ before[p] = "menu"
              \/ /\ before[p] = "up" /\ menu_state = "ACTIVE"
                 /\ ~(p = "ENTER" /\ "HYPER" \in held)
  BY <1>4, <1>6, <1>7, SeenTyped
<1>10. /\ s.menu \in MenuStates /\ s.buffer \in Codes /\ s.last \in Codes /\ s.hyper \in BOOLEAN
       /\ s.age \in 0..LongAgo /\ s.codes \subseteq held
  BY <1>8 DEF ScanStates
(* A key that the menu has seen before or sees now.                        *)
<1>11. ASSUME NEW p \in ForMenu'
       PROVE  /\ p \in held \ {"HYPER"} /\ p \in Keys /\ ~("TB" \in held /\ menu_state \in {"ACTIVE", "RAW"})
              /\ \/ p \in ForMenu /\ last # None /\ s.last # None
                 \/ /\ p \notin down /\ menu_state = "ACTIVE" /\ s.last # None
                    /\ ~(p = "ENTER" /\ "HYPER" \in held)
  <2>1. p \in Keys \ {"HYPER"} /\ seenIn'[p] = "menu"  BY <1>11 DEF ForMenu
  <2>. QED  BY <1>6, <1>8, <1>9, <2>1
<1>12. KbdTypeOK'
  <2>1. opener' \in -1..LongAgo
    <3>1. opener \in -1..LongAgo /\ LongAgo = LongPress + 1 /\ LongPress \in Nat
      BY <1>1, BoundsAssumption DEF KbdTypeOK, LongAgo
    <3>2. LongAgo' = LongAgo  BY DEF LongAgo
    <3>. QED  BY <1>3, <3>1, <3>2
  <2>2. /\ current_menu_page' \in Pages /\ current_menu_y' \in 0..(Len(menu_items) - 1)
    <3>1. Len(menu_items) = 5  BY DEF menu_items
    <3>. QED  BY <1>1, <1>2, <3>1 DEF KbdTypeOK, Pages
  <2>3. soc_power_on' \in BOOLEAN /\ ticked' \in BOOLEAN /\ (ticked' => at' = "sleep")
    BY <1>2, <1>7
  <2>4. /\ edit_state' \in {"WAIT_KEYUP", "NORMAL"} /\ key' \in Codes /\ res' \in 0..2
        /\ at' \in {"sleep", "raw", "active", "raw_result", "active_result", "refresh", "hint"}
    BY <1>1, <1>7 DEF KbdTypeOK, Codes
  <2>5. /\ menu_state' \in MenuStates /\ buffer_menu_key' \in Codes /\ last_menu_key' \in Codes
        /\ hyper_key' \in BOOLEAN /\ age' \in 0..LongAgo
        /\ report' \subseteq down' /\ down' \subseteq Keys
    BY <1>3, <1>4, <1>7, <1>10
  <2>. QED  BY <1>9, <2>1, <2>2, <2>3, <2>4, <2>5 DEF KbdTypeOK, Codes
<1>13. HyperDown'  BY <1>3, <1>7, <1>8 DEF HyperDown
<1>14. Remembered'  BY <1>3, <1>7, <1>9, <1>11 DEF Remembered
<1>15. Timed'
  <2>1. ASSUME "ENTER" \notin held PROVE s.age = LongAgo
    <3>1. age = LongAgo \/ "ENTER" \in Keys  BY <1>1 DEF Timed, KbdTypeOK
    <3>. QED  BY <1>8, <2>1, <3>1
  <2>2. ASSUME "ENTER" \in ForMenu' PROVE s.age = LongAgo
    <3>1. \/ "ENTER" \in ForMenu /\ last # None
          \/ "ENTER" \notin down /\ menu_state = "ACTIVE"
      BY <1>11, <2>2
    <3>2. age = LongAgo  BY <1>1, <3>1 DEF Timed
    <3>. QED  BY <1>8, <3>1, <3>2
  <2>3. ASSUME opener' >= 0 PROVE s.age = opener'
    <3>1. opener \in -1..LongAgo /\ LongAgo = LongPress + 1 /\ LongPress \in Nat
      BY <1>1, BoundsAssumption DEF KbdTypeOK, LongAgo
    <3>2. Chord(held)  BY <1>3, <2>3
    <3>3. CASE Opens(s)  BY <1>3, <1>8, <3>2, <3>3
    <3>4. CASE ~Opens(s)
      <4>1. opener' = IF opener \in 0..LongPress THEN opener + 1 ELSE opener  BY <1>3, <3>2, <3>4
      <4>2. s.age = Aged  BY <1>8, <3>2, <3>4
      <4>3. opener >= 0  BY <2>3, <3>1, <4>1
      <4>4. age = opener  BY <1>1, <4>3 DEF Timed
      <4>. QED  BY <3>1, <4>1, <4>2, <4>3, <4>4 DEF Aged
    <3>. QED  BY <3>3, <3>4
  <2>. QED  BY <1>3, <1>7, <2>1, <2>2, <2>3 DEF Timed, LongAgo
<1>16. current_menu_page' = "CONSOLE" => current_menu_page = "CONSOLE"  BY <1>2
<1>17. Served'  BY <1>1, <1>3, <1>7, <1>8, <1>16 DEF Served
<1>18. ASSUME menu_state # "ACTIVE", ForMenu = {} PROVE ForMenu' = {}  BY <1>11, <1>18
<1>19. KeysUp'
  <2>1. ASSUME menu_state' = "RAW", buffer_menu_key' = None PROVE ForMenu' = {}
    <3>. SUFFICES ASSUME NEW p \in ForMenu' PROVE FALSE  OBVIOUS
    <3>1. menu_state = "RAW" /\ s.menu = "RAW" /\ s.buffer = None  BY <1>3, <1>8, <2>1
    <3>2. p \in ForMenu /\ last # None /\ p \in held \ {"HYPER"} /\ "TB" \notin held
      BY <1>11, <3>1
    <3>3. p = "ENTER" => age = LongAgo  BY <1>1, <3>2 DEF Timed
    <3>. QED  BY <1>8, <3>1, <3>2, <3>3
  <2>2. ASSUME at = "raw", key = None PROVE ForMenu' = {}
    <3>1. menu_state # "ACTIVE" /\ ForMenu = {}  BY <1>1, <2>2 DEF Served, KeysUp
    <3>. QED  BY <1>18, <3>1
  <2>3. ASSUME current_menu_page' = "CONSOLE", edit_state' = "NORMAL" PROVE ForMenu' = {}
    <3>1. menu_state # "ACTIVE" /\ ForMenu = {}
      BY <1>1, <1>7, <1>16, <2>3 DEF Served, KeysUp
    <3>. QED  BY <1>18, <3>1
  <2>. QED  BY <1>7, <2>1, <2>2, <2>3 DEF KeysUp
<1>20. MenuKeysStayInMenu'
  <2>. SUFFICES ASSUME NEW p \in s.codes, seenIn'[p] = "menu" PROVE FALSE
    BY <1>3 DEF MenuKeysStayInMenu
  <2>1. menu_state \notin {"ACTIVE", "RAW"} /\ last = None /\ p # "HYPER"  BY <1>8 DEF Reports
  <2>2. p \in ForMenu'  BY <1>4, <1>10, <2>1 DEF ForMenu
  <2>. QED  BY <1>11, <2>1, <2>2
<1>. QED  BY <1>12, <1>13, <1>14, <1>15, <1>17, <1>19, <1>20 DEF KbdInv

-----------------------------------------------------------------------------
(* The main loop.                                                          *)

LoopTyped ==
  /\ menu_state \in MenuStates /\ buffer_menu_key \in Codes /\ last_menu_key \in Codes
  /\ current_menu_page \in Pages /\ current_menu_y \in 0..4
  /\ edit_state \in {"WAIT_KEYUP", "NORMAL"} /\ soc_power_on \in BOOLEAN
  /\ ticked \in BOOLEAN /\ (ticked => at = "sleep")
  /\ at \in {"sleep", "raw", "active", "raw_result", "active_result", "refresh", "hint"}
  /\ key \in Codes /\ res \in 0..2

(* The main loop leaves the keys to the interrupt, but for a power-off.    *)
KeysKept ==
  /\ UNCHANGED <<hyper_key, age, report, down, opener>>
  /\ \/ UNCHANGED <<last_menu_key, seenIn>>
     \/ last_menu_key' = None /\ seenIn' = Forgotten

LEMMA LoopKeeps ==
  ASSUME KbdInv, KeysKept, LoopTyped', Served', KeysUp'
  PROVE  KbdInv'
<1>1. KbdTypeOK /\ HyperDown /\ Remembered /\ Timed /\ MenuKeysStayInMenu  BY DEF KbdInv
<1>2. /\ hyper_key' \in BOOLEAN /\ age' \in 0..LongAgo
      /\ report' \subseteq down' /\ down' \subseteq Keys
      /\ opener' \in -1..LongAgo
  BY <1>1 DEF KbdTypeOK, KeysKept
<1>3. \/ last_menu_key' = last_menu_key /\ seenIn' = seenIn /\ ForMenu' = ForMenu
      \/ /\ seenIn' = Forgotten /\ ForMenu' = {}
         /\ \A p \in Keys : Forgotten[p] = IF p \in down THEN "forgotten" ELSE "up"
  <2>1. \A p \in Keys : Forgotten[p] = IF p \in down THEN "forgotten" ELSE "up"  BY DEF Forgotten
  <2>. QED  BY <2>1 DEF KeysKept, ForMenu
<1>4. seenIn' \in [Keys -> {"up", "menu", "console", "host", "forgotten"}]
  <2>1. Forgotten \in [Keys -> {"up", "menu", "console", "host", "forgotten"}]  BY DEF Forgotten
  <2>. QED  BY <1>1, <1>3, <2>1 DEF KbdTypeOK
<1>5. KbdTypeOK'
  <2>1. Len(menu_items) - 1 = 4
    <3>1. Len(menu_items) = 5  BY DEF menu_items
    <3>. QED  BY <3>1
  <2>. QED  BY <1>2, <1>4, <2>1 DEF KbdTypeOK, LoopTyped, Codes
<1>6. HyperDown'  BY <1>1 DEF HyperDown, KeysKept
<1>7. Remembered'  BY <1>1, <1>3 DEF Remembered, KeysKept
<1>8. Timed'  BY <1>1, <1>3 DEF Timed, KeysKept, LongAgo
<1>9. MenuKeysStayInMenu'
  <2>1. report \subseteq Keys  BY <1>1 DEF KbdTypeOK
  <2>. QED  BY <1>1, <1>3, <2>1 DEF MenuKeysStayInMenu, KeysKept
<1>. QED  BY <1>5, <1>6, <1>7, <1>8, <1>9 DEF KbdInv

LEMMA InvParts ==
  ASSUME KbdInv
  PROVE  LoopTyped /\ Served /\ KeysUp
<1>1. Len(menu_items) = 5  BY DEF menu_items
<1>. QED  BY <1>1 DEF KbdInv, KbdTypeOK, LoopTyped, Codes

LEMMA ServeKeeps ==
  ASSUME KbdInv, enter_menu_mode \/ exit_menu_mode \/ CallMenu \/ NothingToServe
  PROVE  KbdInv'
<1>1. LoopTyped /\ Served /\ KeysUp  BY InvParts
<1>2. KeysKept
  BY DEF enter_menu_mode, exit_menu_mode, CallMenu, NothingToServe, KeysKept, history, interruptVars
<1>3. ForMenu' = ForMenu
  BY DEF ForMenu, enter_menu_mode, exit_menu_mode, CallMenu, NothingToServe, history
<1>4. CASE enter_menu_mode
  <2>1. LoopTyped'
    <3>1. "NONE" \in Pages /\ 0 \in 0..4 /\ "ACTIVE" \in MenuStates  BY DEF Pages, MenuStates
    <3>. QED  BY <1>1, <1>4, <3>1 DEF enter_menu_mode, LoopTyped
  <2>2. Served' /\ KeysUp'  BY <1>1, <1>3, <1>4 DEF enter_menu_mode, Served, KeysUp
  <2>. QED  BY <1>2, <2>1, <2>2, LoopKeeps
<1>5. CASE exit_menu_mode
  <2>1. LoopTyped'  BY <1>1, <1>5 DEF exit_menu_mode, LoopTyped, MenuStates
  <2>2. Served' /\ KeysUp'  BY <1>1, <1>3, <1>5 DEF exit_menu_mode, Served, KeysUp
  <2>. QED  BY <1>2, <2>1, <2>2, LoopKeeps
<1>6. CASE CallMenu
  <2>1. LoopTyped'  BY <1>1, <1>6 DEF CallMenu, LoopTyped, interruptVars
  <2>2. Served'  BY <1>1, <1>6 DEF CallMenu, Served, Wakes, interruptVars
  <2>3. KeysUp'  BY <1>1, <1>3, <1>6 DEF CallMenu, KeysUp, Wakes, interruptVars
  <2>. QED  BY <1>2, <2>1, <2>2, <2>3, LoopKeeps
<1>7. CASE NothingToServe
  <2>1. LoopTyped'  BY <1>1, <1>7 DEF NothingToServe, LoopTyped, interruptVars
  <2>2. Served' /\ KeysUp'
    BY <1>1, <1>3, <1>7 DEF NothingToServe, Wakes, Served, KeysUp, interruptVars
  <2>. QED  BY <1>2, <2>1, <2>2, LoopKeeps
<1>. QED  BY <1>4, <1>5, <1>6, <1>7

(* What a key does on a page that is not the console.                      *)
LEMMA MenuKeyDoes ==
  ASSUME LoopTyped, NEW k, NEW page \in Pages, MenuKey(k, page)
  PROVE  /\ soc_power_on' \in BOOLEAN /\ res' \in 0..2
         /\ current_menu_page' \in Pages /\ current_menu_y' \in 0..4
         /\ \/ last_menu_key' = last_menu_key /\ seenIn' = seenIn
            \/ last_menu_key' = None /\ seenIn' = Forgotten
         /\ edit_state' = edit_state \/ edit_state' = "WAIT_KEYUP"
         /\ \/ current_menu_page' = page \/ current_menu_page' \in {"NONE", "LOGO", "BATTERY"}
            \/ current_menu_page' = "CONSOLE" /\ edit_state' = "WAIT_KEYUP" /\ res' = 2
<1>1. NextRow \in 0..4
  <2>1. Len(menu_items) = 5  BY DEF menu_items
  <2>. QED  BY <2>1 DEF LoopTyped, NextRow
<1>2. CASE k = "0"
  <2>1. /\ soc_power_on' = FALSE /\ last_menu_key' = None /\ seenIn' = Forgotten
        /\ current_menu_page' = "NONE" /\ current_menu_y' = 0 /\ res' = 0
        /\ edit_state' = edit_state
    BY <1>2 DEF MenuKey
  <2>2. soc_power_on' \in BOOLEAN  BY <2>1, Zenon
  <2>. QED  BY <2>1, <2>2 DEF Pages
<1>3. CASE k = "1"  BY <1>3 DEF MenuKey, LoopTyped, Pages
<1>4. CASE k = "B"  BY <1>4 DEF MenuKey, LoopTyped, Pages
<1>5. CASE k = "C"  BY <1>5 DEF MenuKey, LoopTyped, Pages, edit_setup
<1>6. CASE k = "DOWN"  BY <1>1, <1>6 DEF MenuKey, LoopTyped
<1>7. CASE k \notin {"0", "1", "B", "C", "DOWN"}  BY <1>7 DEF MenuKey, LoopTyped
<1>. QED  BY <1>2, <1>3, <1>4, <1>5, <1>6, <1>7

LEMMA InputKeeps == ASSUME KbdInv, input_menu_key PROVE KbdInv'
<1>1. LoopTyped /\ Served /\ KeysUp  BY InvParts
<1>2. /\ at \in {"raw", "active"} /\ at' \in {"raw_result", "active_result"}
      /\ at' = "active_result" <=> at = "active"
      /\ UNCHANGED <<menu_state, buffer_menu_key, hyper_key, age, key, ticked, report, down, opener>>
      /\ ~ticked
  BY <1>1 DEF input_menu_key, LoopTyped
<1>3. at = "active" => current_menu_page # "CONSOLE"  BY <1>1, <1>2 DEF Served
<1>4. CASE current_menu_page # "CONSOLE"
  <2>. DEFINE page == IF key = "ENTER" THEN "OTHER" ELSE current_menu_page
  <2>1. MenuKey(Pressed(key), page)  BY <1>4 DEF input_menu_key
  <2>2. page \in Pages /\ page # "CONSOLE"  BY <1>1, <1>4 DEF LoopTyped, Pages
  <2>. HIDE DEF page
  <2>3. /\ soc_power_on' \in BOOLEAN /\ res' \in 0..2
        /\ current_menu_page' \in Pages /\ current_menu_y' \in 0..4
        /\ \/ last_menu_key' = last_menu_key /\ seenIn' = seenIn
           \/ last_menu_key' = None /\ seenIn' = Forgotten
        /\ edit_state' = edit_state \/ edit_state' = "WAIT_KEYUP"
        /\ current_menu_page' = "CONSOLE" => edit_state' = "WAIT_KEYUP" /\ res' = 2
    BY <1>1, <2>1, <2>2, MenuKeyDoes
  <2>4. LoopTyped'  BY <1>1, <1>2, <2>3, SomeCodes DEF LoopTyped
  <2>5. Served'  BY <1>1, <1>2, <2>3 DEF Served
  <2>6. KeysUp'  BY <1>2, <2>3 DEF KeysUp
  <2>7. KeysKept  BY <1>2, <2>3 DEF KeysKept
  <2>. QED  BY <2>4, <2>5, <2>6, <2>7, LoopKeeps
<1>5. CASE current_menu_page = "CONSOLE"
  <2>1. at = "raw"  BY <1>2, <1>3, <1>5
  <2>2. /\ UNCHANGED <<soc_power_on, last_menu_key, current_menu_page, current_menu_y, seenIn>>
        /\ res' \in {0, 1}
        /\ \/ edit_state' = edit_state
           \/ edit_state' = "NORMAL" /\ key = None
    BY <1>5 DEF input_menu_key, edit_input_key
  <2>3. ForMenu' = ForMenu  BY <2>2 DEF ForMenu
  <2>4. LoopTyped'  BY <1>1, <1>2, <2>2 DEF LoopTyped
  <2>5. Served'  BY <1>1, <1>2, <2>1, <2>2 DEF Served
  <2>6. KeysUp'  BY <1>1, <1>2, <2>1, <2>2, <2>3 DEF KeysUp
  <2>7. KeysKept  BY <1>2, <2>2 DEF KeysKept
  <2>. QED  BY <2>4, <2>5, <2>6, <2>7, LoopKeeps
<1>. QED  BY <1>4, <1>5

LEMMA ResultKeeps == ASSUME KbdInv, UseResult PROVE KbdInv'
<1>1. LoopTyped /\ Served /\ KeysUp  BY InvParts
<1>2. ModeAfter = IF res = 0 THEN "EXIT"
                  ELSE IF res = 2 /\ at = "active_result" THEN "RAW" ELSE menu_state
  BY DEF ModeAfter
<1>3. LoopTyped'  BY <1>1, <1>2, SomeCodes DEF UseResult, LoopTyped, MenuStates
<1>4. ForMenu' = ForMenu  BY DEF UseResult, history, ForMenu
<1>5. Served'  BY <1>1, <1>2 DEF UseResult, Served
<1>6. KeysUp'  BY <1>1, <1>4 DEF UseResult, KeysUp, LoopTyped
<1>7. KeysKept  BY DEF UseResult, KeysKept, history
<1>. QED  BY <1>3, <1>5, <1>6, <1>7, LoopKeeps

LEMMA RefreshKeeps == ASSUME KbdInv, Refresh PROVE KbdInv'
<1>1. LoopTyped /\ Served /\ KeysUp  BY InvParts
<1>2. /\ at = "refresh" /\ at' \in {"sleep", "hint"} /\ ~ticked /\ ticked' = ticked
      /\ UNCHANGED <<interruptVars, edit_state, key, res, report, down, history>>
      /\ soc_power_on' \in BOOLEAN
      /\ current_menu_page' \in {current_menu_page, "NONE"}
      /\ current_menu_y' \in {current_menu_y, 0}
  BY <1>1 DEF Refresh, Sleep, LoopTyped
<1>3. LoopTyped'
  <2>1. current_menu_page' \in Pages  BY <1>1, <1>2 DEF LoopTyped, Pages
  <2>2. /\ UNCHANGED <<menu_state, buffer_menu_key, last_menu_key, edit_state, key, res>>
        /\ at' \in {"sleep", "hint"} /\ ~ticked'
    BY <1>2 DEF interruptVars
  <2>3. soc_power_on' \in BOOLEAN /\ ticked' = ticked  BY <1>2
  <2>4. current_menu_y' \in 0..4  BY <1>1, <1>2 DEF LoopTyped
  <2>. QED  BY <1>1, <2>1, <2>2, <2>3, <2>4 DEF LoopTyped
<1>4. ForMenu' = ForMenu  BY <1>2 DEF history, ForMenu
<1>5. Served'  BY <1>1, <1>2 DEF Served, interruptVars
<1>6. KeysUp'  BY <1>1, <1>2, <1>4 DEF KeysUp
<1>7. KeysKept  BY <1>2 DEF KeysKept, history, interruptVars
<1>. QED  BY <1>3, <1>5, <1>6, <1>7, LoopKeeps

LEMMA HintKeeps == ASSUME KbdInv, Hint PROVE KbdInv'
<1>1. LoopTyped /\ Served /\ KeysUp  BY InvParts
<1>2. /\ at = "hint" /\ at' = "sleep" /\ ~ticked /\ ticked' = ticked
      /\ UNCHANGED <<interruptVars, current_menu_y, soc_power_on, key, res, report, down, history>>
      /\ current_menu_page' \in {current_menu_page, "LOGO"} /\ edit_state' = edit_state
  BY <1>1 DEF Hint, Sleep, LoopTyped, edit_input_key, None
<1>3. LoopTyped'
  <2>1. current_menu_page' \in Pages  BY <1>1, <1>2 DEF LoopTyped, Pages
  <2>2. /\ UNCHANGED <<menu_state, buffer_menu_key, last_menu_key, current_menu_y, edit_state, key, res>>
        /\ at' \in {"sleep", "hint"} /\ ~ticked'
    BY <1>2 DEF interruptVars
  <2>3. soc_power_on' = soc_power_on /\ ticked' = ticked  BY <1>2
  <2>. QED  BY <1>1, <2>1, <2>2, <2>3 DEF LoopTyped
<1>4. ForMenu' = ForMenu  BY <1>2 DEF history, ForMenu
<1>5. Served'  BY <1>1, <1>2 DEF Served, interruptVars
<1>6. KeysUp'  BY <1>1, <1>2, <1>4 DEF KeysUp
<1>7. KeysKept  BY <1>2 DEF KeysKept, history, interruptVars
<1>. QED  BY <1>3, <1>5, <1>6, <1>7, LoopKeeps

-----------------------------------------------------------------------------
(* The theorems.                                                           *)

LEMMA KbdInvKept == ASSUME KbdInv, [Next]_vars PROVE KbdInv'
<1>1. CASE hid_task  BY <1>1, HidKeeps
<1>2. CASE enter_menu_mode \/ exit_menu_mode \/ CallMenu \/ NothingToServe
  BY <1>2, ServeKeeps
<1>3. CASE input_menu_key  BY <1>3, InputKeeps
<1>4. CASE UseResult  BY <1>4, ResultKeeps
<1>5. CASE Refresh  BY <1>5, RefreshKeeps
<1>6. CASE Hint  BY <1>6, HintKeeps
<1>7. CASE UNCHANGED vars
  <2>1. LoopTyped /\ Served /\ KeysUp  BY InvParts
  <2>2. ForMenu' = ForMenu  BY <1>7 DEF vars, history, ForMenu
  <2>3. LoopTyped'  BY <1>7, <2>1 DEF vars, interruptVars, mainVars, LoopTyped
  <2>4. Served'  BY <1>7, <2>1 DEF vars, interruptVars, mainVars, Served
  <2>5. KeysUp'  BY <1>7, <2>1, <2>2 DEF vars, interruptVars, mainVars, KeysUp
  <2>6. KeysKept  BY <1>7 DEF vars, interruptVars, history, KeysKept
  <2>. QED  BY <2>3, <2>4, <2>5, <2>6, LoopKeeps
<1>. QED  BY <1>1, <1>2, <1>3, <1>4, <1>5, <1>6, <1>7 DEF Next, MainLoop

(* The keyboard's invariant: the scan and the menu agree on which keys are *)
(* the menu's. (main.c, hid_task and service_menu)                         *)
THEOREM KbdSafe == Spec => []KbdInv
<1>. QED  BY KbdInvInit, KbdInvKept, PTL DEF Spec

(* The keyboard's variables have their types; in particular the cursor of  *)
(* the menu stays in it. (menu.c, input_menu_key)                          *)
THEOREM KbdTyped == Spec => []KbdTypeOK
<1>1. KbdInv => KbdTypeOK  BY DEF KbdInv
<1>. QED  BY KbdSafe, <1>1, PTL

(* A key that was pressed for the menu does not reach the host while it is *)
(* held, even if the menu ends meanwhile: last_menu_key is remembered      *)
(* until all keys are up. (main.c, process_keyboard)                       *)
THEOREM MenuKeysStay == Spec => []MenuKeysStayInMenu
<1>1. KbdInv => MenuKeysStayInMenu  BY DEF KbdInv
<1>. QED  BY KbdSafe, <1>1, PTL

(* The console types nothing that was pressed for the menu before it: it   *)
(* waits to be called with no key. (edit.c, edit_input_key)                *)
THEOREM ConsoleTypesOwnKeys == Spec => []ConsoleTypesItsOwnKeys
<1>1. ASSUME KbdInv PROVE ConsoleTypesItsOwnKeys
  <2>. SUFFICES ASSUME current_menu_page = "CONSOLE", edit_state = "NORMAL",
                       NEW p \in Keys, seenIn[p] = "menu"
                PROVE  matrix[p] # key
    BY DEF ConsoleTypesItsOwnKeys
  <2>1. ForMenu = {} /\ key \in Codes  BY <1>1, InvParts DEF KeysUp, LoopTyped
  <2>2. p = "HYPER"  BY <2>1 DEF ForMenu
  <2>3. matrix[p] = "COMPOSE"  BY <2>2, KeysAreKnown, CodesOf
  <2>. QED  BY <2>1, <2>3 DEF Codes
<1>. QED  BY KbdSafe, <1>1, PTL

(* Hyper + Enter that opens the menu is a press of 1, which turns the SOM  *)
(* on, only after it is held for longer than LongPress.                    *)
(* (main.c, hyper_enter_long_press_start_ms)                               *)
THEOREM OpeningIsNotPowerOn == Spec => OpeningPressIsLong
<1>1. ASSUME KbdInv, [Next]_vars, buffer_menu_key' = "1", buffer_menu_key # "1", opener' >= 0,
             "1" \notin down'
      PROVE  opener' > LongPress
  <2>1. hid_task
    <3>1. MainLoop => buffer_menu_key' \in {buffer_menu_key, None}
      BY DEF MainLoop, enter_menu_mode, exit_menu_mode, CallMenu, NothingToServe, input_menu_key,
             UseResult, Refresh, Hint, interruptVars
    <3>. QED  BY <1>1, <3>1 DEF Next, vars, interruptVars, None
  <2>2. KbdInv'  BY <1>1, <2>1, HidKeeps
  <2>3. KbdTypeOK /\ HyperDown  BY <1>1 DEF KbdInv
  <2>4. PICK pwr0 \in PowerOffs, held \in Chords :
          /\ down' = held
          /\ \E s \in process_keyboard(IF pwr0 THEN None ELSE last_menu_key, held) :
               /\ buffer_menu_key' = s.buffer /\ age' = s.age
               /\ ~Chord(held) => opener' = -1
    BY <2>1 DEF hid_task, Chord
  <2>. DEFINE last == IF pwr0 THEN None ELSE last_menu_key
  <2>5. last \in Codes /\ held \in SUBSET Keys
    BY <2>3, SomeCodes DEF KbdTypeOK, Codes, Chords
  <2>6. PICK s \in process_keyboard(last, held) :
          buffer_menu_key' = s.buffer /\ age' = s.age /\ (~Chord(held) => opener' = -1)
    BY <2>4
  <2>7. Chord(held)  BY <1>1, <2>6
  <2>. HIDE DEF last
  <2>8. s.age = LongAgo  BY <1>1, <2>3, <2>4, <2>5, <2>6, <2>7, ScanOutcome
  <2>9. opener' = age'  BY <1>1, <2>2 DEF KbdInv, Timed
  <2>. QED  BY <2>6, <2>8, <2>9, BoundsAssumption DEF LongAgo
<1>2. KbdInv /\ [Next]_vars =>
        [buffer_menu_key' = "1" /\ buffer_menu_key # "1" /\ opener' >= 0 /\ "1" \notin down'
         => opener' > LongPress]_vars
  BY <1>1
<1>. QED  BY KbdSafe, <1>2, PTL DEF Spec, OpeningPressIsLong
=============================================================================
