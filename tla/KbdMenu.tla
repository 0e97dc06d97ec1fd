------------------------------ MODULE KbdMenu ------------------------------
(***************************************************************************)
(* The keyboard's menu on the OLED (main.c, menu.c, edit.c): the timer     *)
(* interrupt hid_task, every 5 ms, scans the keys and hands them either to *)
(* the USB host or, one at a time, to the menu; the main loop, after every *)
(* 10 ms of sleep, serves the menu, which may take longer than many scans. *)
(* They share menu_state, buffer_menu_key and last_menu_key, unprotected.  *)
(*                                                                         *)
(* A key is down once it is debounced; the keys that are held change from  *)
(* one scan to the next. At most MaxDown keys are held, so the limit of    *)
(* six scancodes in a report is not reached.                               *)
(***************************************************************************)
EXTENDS Integers, Sequences, FiniteSets, SequencesExt

CONSTANTS
  Positions,    \* the keys that are used, in the order they are scanned
  MaxDown,      \* bound on the keys held at a time
  LongPress,    \* 200: the ticks of 5 ms in 1000 ms
  PowerOffs     \* whether the host may send the report PWR0: a subset of BOOLEAN

None == "none"    \* keycode 0: also that of the trackball's buttons
Keys == Range(Positions)

(* matrix and matrix_fn                                                    *)
matrix == [p \in {"ESC", "HYPER", "1", "C", "TB", "B", "0", "DOWN", "ENTER"} |->
             CASE p = "HYPER" -> "COMPOSE" [] p = "TB" -> None [] OTHER -> p]
matrix_fn == [p \in DOMAIN matrix |->
                CASE p = "ESC" -> "GRAVE" [] p = "1" -> "F1" [] p = "0" -> "F10"
                  [] p = "DOWN" -> "PAGEDOWN" [] OTHER -> matrix[p]]
KeyCodes == Range(matrix) \cup Range(matrix_fn)

(* Hyper is in the first column and Enter in the last (matrix.h).          *)
ASSUME PositionsAssumption ==
  /\ Positions \in Seq(DOMAIN matrix) /\ IsInjective(Positions)
  /\ \A i, j \in DOMAIN Positions : Positions[i] = "HYPER" /\ Positions[j] = "ENTER" => i < j
ASSUME BoundsAssumption ==
  MaxDown \in Nat /\ LongPress \in Nat \ {0} /\ PowerOffs \subseteq BOOLEAN

VARIABLES
  menu_state, buffer_menu_key, last_menu_key,
  hyper_key,          \* also whether active_matrix is matrix_fn
  age,                \* ticks since hyper_enter_long_press_start_ms
  current_menu_page, current_menu_y,
  edit_state,
  soc_power_on,
  at,                 \* what the main loop does next
  key, res,           \* argument and result of its call of input_menu_key
  ticked,             \* there was an interrupt since it began to sleep
  report,             \* the keys in the last report to the host
  down,               \* the keys that were held at the last scan (external)
  seenIn,             \* (history) for each key, what its press was first seen by
  opener              \* (history) ticks Hyper and Enter are held for, if that
                      \* opened the menu

interruptVars == <<menu_state, buffer_menu_key, last_menu_key, hyper_key, age>>
mainVars == <<current_menu_page, current_menu_y, edit_state, soc_power_on, at, key, res>>
history == <<seenIn, opener>>
vars == <<interruptVars, mainVars, ticked, report, down, history>>

MenuStates == {"INACTIVE", "ACTIVE", "RAW", "ENTER", "EXIT"}
Pages == {"NONE", "OTHER", "BATTERY", "LOGO", "CONSOLE"}

(* hyper_enter_long_press_start_ms = 0 is long ago.                        *)
LongAgo == LongPress + 1

-----------------------------------------------------------------------------
(* hid_task.                                                               *)

(* Mutant: the time is not taken when the menu opens. *)
HyperEnterTimeless(s) ==
  IF s.last = None /\ s.menu \notin {"ACTIVE", "ENTER"}
  THEN [s EXCEPT !.menu = "ENTER", !.last = "ENTER"]
  ELSE IF s.age > LongPress THEN [s EXCEPT !.buffer = "1", !.last = "1", !.age = LongAgo] ELSE s

(* Hyper + Enter opens the menu, unless a key is to be let go first; when  *)
(* held, it is a press of 1.                                               *)
HyperEnter(s) ==
  IF s.last = None /\ s.menu \notin {"ACTIVE", "ENTER"}
  THEN [s EXCEPT !.menu = "ENTER", !.last = "ENTER", !.age = 0]
  ELSE IF s.age > LongPress THEN [s EXCEPT !.buffer = "1", !.last = "1", !.age = LongAgo] ELSE s

(* Mutant: the key is not remembered. *)
OtherKeyForgotten(s, p, keycode) ==
  CASE s.menu = "RAW"    -> [s EXCEPT !.buffer = keycode]
    [] s.menu = "ACTIVE" -> IF s.last = keycode THEN s ELSE [s EXCEPT !.buffer = keycode]
    [] OTHER             -> IF s.last = None /\ p # "TB" THEN [s EXCEPT !.codes = @ \cup {p}] ELSE s

OtherKey(s, p, keycode) ==
  CASE s.menu = "RAW"    -> [s EXCEPT !.buffer = keycode]
    [] s.menu = "ACTIVE" -> IF s.last = keycode THEN s
                            ELSE [s EXCEPT !.buffer = keycode, !.last = keycode]
    [] OTHER             -> IF s.last = None /\ p # "TB" THEN [s EXCEPT !.codes = @ \cup {p}] ELSE s

ScanKey(s, p, held) ==
  LET keycode == IF s.hyper THEN matrix_fn[p] ELSE matrix[p] IN
  CASE p \in held /\ keycode = "ENTER" /\ s.hyper -> HyperEnter(s)
    [] p \in held /\ keycode = "COMPOSE" -> [s EXCEPT !.hyper = TRUE]
    [] p \in held /\ keycode # "COMPOSE" /\ ~(keycode = "ENTER" /\ s.hyper) -> OtherKey(s, p, keycode)
    [] p \notin held /\ keycode = "COMPOSE" -> [s EXCEPT !.hyper = FALSE, !.age = LongAgo]
    [] p \notin held /\ keycode = "ENTER"   -> [s EXCEPT !.age = LongAgo]
    [] OTHER -> s

(* When no key is held, the menu takes new ones.                           *)
LetGo(s, held) ==
  IF held = {} /\ ~s.hyper THEN [s EXCEPT !.last = None, !.buffer = None] ELSE s

(* The scan, key by key: the set of its outcomes, of which there is one.   *)
process_keyboard(last, held) ==
  LET scanned[i \in 0..Len(Positions)] ==
        IF i = 0
        THEN {[menu |-> menu_state, buffer |-> buffer_menu_key, last |-> last,
               hyper |-> hyper_key, age |-> IF age < LongAgo THEN age + 1 ELSE age,
               codes |-> {}]}
        ELSE {ScanKey(s, Positions[i], held) : s \in scanned[i - 1]}
  IN {LetGo(s, held) : s \in scanned[Len(Positions)]}

(* Hyper + Enter is not a key for the menu, and an open menu ignores it.   *)
SeenBy(p, held) ==
  CASE menu_state = "RAW" -> "console"
    [] menu_state = "ACTIVE" /\ ~(p = "ENTER" /\ "HYPER" \in held) -> "menu"
    [] OTHER -> "host"

(* A button of the trackball makes the menu forget which key it has seen.  *)
Forgets(held) == "TB" \in held /\ menu_state \in {"ACTIVE", "RAW"}

Seen(before, held) ==
  [p \in Keys |-> CASE p \notin held -> "up"
                    [] p \in held /\ Forgets(held) -> "forgotten"
                    [] p \in held /\ ~Forgets(held) /\ before[p] = "up" -> SeenBy(p, held)
                    [] OTHER -> before[p]]

(* reset_keyboard_state                                                    *)
Forgotten == [p \in Keys |-> IF p \in down THEN "forgotten" ELSE "up"]

Chords == {d \in SUBSET Keys : Cardinality(d) <= MaxDown}

(* PWR0, a power-off by the host, is handled before the keys are scanned.  *)
hid_task ==
  /\ UNCHANGED <<edit_state, at, key, res>>
  /\ ticked' = (at = "sleep")
  /\ \E pwr0 \in PowerOffs, held \in Chords :
       /\ down' = held
       /\ current_menu_page' = IF pwr0 THEN "NONE" ELSE current_menu_page
       /\ current_menu_y' = IF pwr0 THEN 0 ELSE current_menu_y
       /\ soc_power_on' = (soc_power_on /\ ~pwr0)
       /\ seenIn' = Seen(IF pwr0 THEN Forgotten ELSE seenIn, held)
       /\ \E s \in process_keyboard(IF pwr0 THEN None ELSE last_menu_key, held) :
            /\ menu_state' = s.menu
            /\ buffer_menu_key' = s.buffer
            /\ last_menu_key' = s.last
            /\ hyper_key' = s.hyper
            /\ age' = s.age
            /\ report' = s.codes
            /\ opener' =
                 LET chord == {"HYPER", "ENTER"} \subseteq held
                     opens == s.menu = "ENTER" /\ menu_state # "ENTER"
                 IN CASE ~chord -> -1
                      [] chord /\ opens -> 0
                      [] chord /\ ~opens -> IF opener \in 0..LongPress THEN opener + 1 ELSE opener

-----------------------------------------------------------------------------
(* The main loop: service_menu, then sometimes a refresh and the hint.     *)

Wakes == at = "sleep" /\ ticked

(* sleep_ms(10) lasts for two ticks of the timer.                          *)
Sleep == at' = "sleep" /\ UNCHANGED ticked

enter_menu_mode ==
  /\ Wakes /\ menu_state = "ENTER"
  /\ menu_state' = "ACTIVE"
  /\ current_menu_page' = "NONE" /\ current_menu_y' = 0
  /\ ticked' = FALSE
  /\ at' = "refresh"
  /\ UNCHANGED <<buffer_menu_key, last_menu_key, hyper_key, age, edit_state, soc_power_on,
                 key, res, report, down, history>>

exit_menu_mode ==
  /\ Wakes /\ menu_state = "EXIT"
  /\ menu_state' = "INACTIVE"
  /\ ticked' = FALSE
  /\ at' = "refresh"
  /\ UNCHANGED <<buffer_menu_key, last_menu_key, hyper_key, age, current_menu_page, current_menu_y, edit_state,
                 soc_power_on, key, res, report, down, history>>

(* A raw screen is called with no key, too.                                *)
CallMenu ==
  /\ Wakes
  /\ menu_state = "RAW" \/ (menu_state = "ACTIVE" /\ buffer_menu_key # None)
  /\ key' = buffer_menu_key
  /\ ticked' = FALSE
  /\ at' = IF menu_state = "RAW" THEN "raw" ELSE "active"
  /\ UNCHANGED <<interruptVars, current_menu_page, current_menu_y, edit_state, soc_power_on, res,
                 report, down, history>>

NothingToServe ==
  /\ Wakes
  /\ menu_state = "INACTIVE" \/ (menu_state = "ACTIVE" /\ buffer_menu_key = None)
  /\ ticked' = FALSE
  /\ at' = "refresh"
  /\ UNCHANGED <<interruptVars, current_menu_page, current_menu_y, edit_state, soc_power_on, key, res,
                 report, down, history>>

(* edit_input_key: nothing is typed before all keys are up.                *)
edit_input_key(k) ==
  edit_state' = IF edit_state = "WAIT_KEYUP" /\ k = None THEN "NORMAL" ELSE edit_state

(* Mutant: the console takes keys at once. *)
edit_setup_eager == edit_state' = "NORMAL"

edit_setup == edit_state' = "WAIT_KEYUP"

(* Menu rows: of those that only end the menu, one.                        *)
menu_items == <<"ESC", "1", "0", "B", "C">>
Pressed(k) == IF k = "ENTER" THEN menu_items[current_menu_y + 1] ELSE k

(* Mutant: the last row is not the last. *)
NextRowUnlimited == IF current_menu_y < Len(menu_items) THEN current_menu_y + 1 ELSE current_menu_y

NextRow == IF current_menu_y + 1 < Len(menu_items) THEN current_menu_y + 1 ELSE current_menu_y

(* What a key, or Enter on its row, does on a page that handles no keys.   *)
MenuKey(k, page) ==
  \/ /\ k = "0"
     /\ soc_power_on' = FALSE /\ last_menu_key' = None
     /\ current_menu_page' = "NONE" /\ current_menu_y' = 0
     /\ res' = 0
     /\ seenIn' = Forgotten
     /\ UNCHANGED edit_state
  \/ /\ k = "1"
     /\ soc_power_on' = TRUE /\ current_menu_page' = "LOGO"
     /\ res' = 0
     /\ UNCHANGED <<edit_state, last_menu_key, current_menu_y, seenIn>>
  \/ /\ k = "B"
     /\ soc_power_on' \in BOOLEAN /\ current_menu_page' = "BATTERY"
     /\ res' = 0
     /\ UNCHANGED <<edit_state, last_menu_key, current_menu_y, seenIn>>
  \/ /\ k = "C"
     /\ edit_setup /\ current_menu_page' = "CONSOLE"
     /\ res' = 2
     /\ UNCHANGED <<soc_power_on, last_menu_key, current_menu_y, seenIn>>
  \/ /\ k = "DOWN"
     /\ current_menu_y' = NextRow
     /\ res' = 1 /\ current_menu_page' = page
     /\ UNCHANGED <<edit_state, soc_power_on, last_menu_key, seenIn>>
  \/ /\ k \notin {"0", "1", "B", "C", "DOWN"}
     /\ res' = IF k = "F1" THEN 1 ELSE 0
     /\ current_menu_page' = page
     /\ UNCHANGED <<edit_state, soc_power_on, last_menu_key, current_menu_y, seenIn>>

(* Mutant: the console first waits for the keys to go up. *)
LeavesConsoleTyping == key = "ESC" /\ edit_state = "NORMAL"

LeavesConsole == key = "ESC"

input_menu_key ==
  /\ at \in {"raw", "active"}
  /\ at' = IF at = "raw" THEN "raw_result" ELSE "active_result"
  /\ \/ /\ current_menu_page # "CONSOLE"
        /\ MenuKey(Pressed(key), IF key = "ENTER" THEN "OTHER" ELSE current_menu_page)
     \/ /\ current_menu_page = "CONSOLE" /\ LeavesConsole
        /\ res' = 0
        /\ UNCHANGED <<edit_state, soc_power_on, last_menu_key, current_menu_page,
                       current_menu_y, seenIn>>
     \/ /\ current_menu_page = "CONSOLE" /\ ~LeavesConsole
        /\ edit_input_key(key)
        /\ res' = 1
        /\ UNCHANGED <<soc_power_on, last_menu_key, current_menu_page, current_menu_y, seenIn>>
  /\ UNCHANGED <<menu_state, buffer_menu_key, hyper_key, age, key, ticked, report, down, opener>>

ModeAfter ==
  CASE res = 0 -> "EXIT"
    [] res = 2 /\ at = "active_result" -> "RAW"
    [] OTHER -> menu_state

(* The result decides the mode, whatever the interrupt made of it since.   *)
UseResult ==
  /\ at \in {"raw_result", "active_result"}
  /\ menu_state' = ModeAfter
  /\ buffer_menu_key' = IF at = "active_result" THEN None ELSE buffer_menu_key
  /\ key' = None /\ res' = 0
  /\ at' = "refresh"
  /\ UNCHANGED <<last_menu_key, hyper_key, age, current_menu_page, current_menu_y, edit_state, soc_power_on,
                 ticked, report, down, history>>

(* refresh_menu_page, in one of 50 cycles: a battery page asks for the     *)
(* power state again, a logo disappears after a while.                     *)
Refresh ==
  /\ at = "refresh"
  /\ \/ Sleep /\ UNCHANGED <<current_menu_page, current_menu_y, soc_power_on>>
     \/ /\ current_menu_page = "BATTERY" /\ soc_power_on' \in BOOLEAN
        /\ at' = "hint" /\ UNCHANGED <<current_menu_page, current_menu_y, ticked>>
     \/ /\ current_menu_page = "LOGO"
        /\ current_menu_page' = "NONE" /\ current_menu_y' = 0
        /\ at' = "hint" /\ UNCHANGED <<soc_power_on, ticked>>
     \/ /\ current_menu_page # "BATTERY"
        /\ at' = "hint" /\ UNCHANGED <<current_menu_page, current_menu_y, soc_power_on, ticked>>
  /\ UNCHANGED <<interruptVars, edit_state, key, res, report, down, history>>

(* While the SOM is off, typing shows how to turn it on (KEY_H). A console *)
(* that was left with Escape is still the current page and gets the key.   *)
Hint ==
  /\ at = "hint"
  /\ IF ~soc_power_on /\ report # {} /\ menu_state \notin {"ACTIVE", "RAW"}
        /\ ~hyper_key /\ last_menu_key = None
     THEN IF current_menu_page = "CONSOLE"
          THEN edit_input_key("H") /\ UNCHANGED current_menu_page
          ELSE current_menu_page' = "LOGO" /\ UNCHANGED edit_state
     ELSE UNCHANGED <<current_menu_page, edit_state>>
  /\ Sleep
  /\ UNCHANGED <<interruptVars, current_menu_y, soc_power_on, key, res, report, down, history>>

MainLoop ==
  \/ enter_menu_mode \/ exit_menu_mode \/ CallMenu \/ NothingToServe
  \/ input_menu_key \/ UseResult \/ Refresh \/ Hint

-----------------------------------------------------------------------------
Init ==
  /\ menu_state = "INACTIVE" /\ buffer_menu_key = None /\ last_menu_key = None
  /\ hyper_key = FALSE /\ age = LongAgo
  /\ current_menu_page = "NONE" /\ current_menu_y = 0 /\ edit_state = "WAIT_KEYUP"
  /\ soc_power_on \in BOOLEAN
  /\ at = "sleep" /\ key = None /\ res = 0 /\ ticked = FALSE
  /\ report = {} /\ down = {}
  /\ seenIn = [p \in Keys |-> "up"] /\ opener = -1

Next == hid_task \/ MainLoop

(* The timer goes on (hid_task is always enabled), and the main loop:      *)
(* nothing in it waits for ever.                                           *)
Spec == Init /\ [][Next]_vars
FairSpec == Spec /\ []<><<hid_task>>_vars /\ WF_vars(MainLoop)

-----------------------------------------------------------------------------
KbdTypeOK ==
  /\ menu_state \in MenuStates
  /\ buffer_menu_key \in KeyCodes \ {"COMPOSE"} /\ last_menu_key \in KeyCodes \ {"COMPOSE"}
  /\ hyper_key \in BOOLEAN
  /\ age \in 0..LongAgo
  /\ current_menu_page \in Pages /\ current_menu_y \in 0..(Len(menu_items) - 1)
  /\ edit_state \in {"WAIT_KEYUP", "NORMAL"}
  /\ soc_power_on \in BOOLEAN /\ ticked \in BOOLEAN /\ (ticked => at = "sleep")
  /\ at \in {"sleep", "raw", "active", "raw_result", "active_result", "refresh", "hint"}
  /\ key \in KeyCodes \ {"COMPOSE"} /\ res \in 0..2
  /\ report \subseteq down /\ down \subseteq Keys
  /\ seenIn \in [Keys -> {"up", "menu", "console", "host", "forgotten"}]
  /\ opener \in -1..LongAgo

(* A key that was pressed for the menu is not reported to the host while   *)
(* it is held, however the menu ends meanwhile, unless a power-off resets  *)
(* the keyboard or the trackball's buttons are used. (last_menu_key)       *)
MenuKeysStayInMenu == \A p \in report : seenIn[p] # "menu"

(* The console types no key that was pressed before it was opened ("wait   *)
(* for initial key up event (coming from menu)").                          *)
ConsoleTypesItsOwnKeys ==
  at = "raw" /\ current_menu_page = "CONSOLE" /\ edit_state = "NORMAL" =>
    \A p \in Keys : seenIn[p] = "menu" => matrix[p] # key

(* The Hyper + Enter that opens the menu turns the SOM on only when it is  *)
(* held for long.                                                          *)
OpeningPressIsLong ==
  [][buffer_menu_key' = "1" /\ buffer_menu_key # "1" /\ opener' >= 0 /\ "1" \notin down'
       => opener' > LongPress]_vars

(* Who holds Escape gets out of the console, whatever keys came before and *)
(* whatever the scan made of the mode meanwhile. (edit.c, input_menu_key)  *)
EscapeLeavesConsole ==
  <>[](down = {"ESC"}) => <>[](menu_state # "RAW")
=============================================================================
