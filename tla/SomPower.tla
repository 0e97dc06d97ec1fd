------------------------------ MODULE SomPower ------------------------------
(***************************************************************************)
(* Switching the system on module (SOM) on and off (sysctl.c, ext_gpio.c,  *)
(* hwapi_pocket.c): the flag som_is_powered in RAM, the boot magic in the  *)
(* watchdog's scratch registers, which outlives a reset of the controller, *)
(* and the rails. On motherboard 2.0 these are behind the PCA9557 port     *)
(* expander and the USB switches behind the PCA9536; on motherboard 1.0    *)
(* there are no expanders, and a latch holds the pins of the rails. The    *)
(* code takes a board for a 2.0 if the expander answers in the set-up.     *)
(*                                                                         *)
(* Commands come from the main loop (keyboard UART, USB) and from the SOM  *)
(* itself, in the SPI interrupt handler, which is deaf while the SOM is    *)
(* off and otherwise preempts the main loop anywhere but within an I2C     *)
(* transfer. Both run the same programs, sequences of elementary           *)
(* operations; a reset may come between any two of them. Any write to an   *)
(* expander may fail.                                                      *)
(***************************************************************************)
EXTENDS Integers, Sequences

CONSTANTS
  LoopCommands,   \* commands given to the main loop
  SpiCommands,    \* commands the SOM gives
  MaxLost         \* bound on the writes to an expander that fail in a row

ExtBits == {"5V", "3V3", "HUB_PWR", "PCIE_PWR", "USWITCH_OFF",
            "DISP_RESET_N", "DISP_BL_PWR", "DISP_1EN_2BL"}
UswitchBits == {"1", "2", "3", "4"}
LatchedPins == {"1V1", "3V3", "5V", "DISP_RESET_N", "DISP_EN"}
Pins == LatchedPins \cup {"usb_loader", "modem", "modem_reset_n", "usb1_5v", "usb2_5v"}
Latch == "usb2_5v"          \* the same pin is PIN_PWREN_LATCH on motherboard 1.0
GpioIds == {0, 1, 2, 3, 4, 5, 7, 9}
Commands ==
  {<<"0p">>, <<"1p">>, <<"1w">>, <<"soc-susp">>, <<"soc-psus">>,
   <<"usb-sc">>, <<"usb-host">>, <<"usb-edl">>}
  \cup {<<"set-gpio", id, high>> : id \in GpioIds, high \in BOOLEAN}
PowerCommands == {<<"0p">>, <<"1p">>}
UsbCommands == PowerCommands \cup {<<"usb-sc">>, <<"usb-host">>, <<"usb-edl">>}

ASSUME SomPowerAssumption ==
  LoopCommands \subseteq Commands /\ SpiCommands \subseteq Commands /\ MaxLost \in Nat

VARIABLES
  board,         \* the motherboard: 1 or 2
  mb_version,    \* what the code takes it for; 0: it does not know yet
  main, cmd,     \* what the main program still has to do, and for which command
  isr, spi_cmd,  \* the same of the interrupt handler
  phase, held,   \* how far the main program is with the shadow of an expander,
                 \* and the value it holds in a register
  irq,           \* the SPI interrupt is enabled
  som_is_powered,
  boot_magic,
  shadow,        \* gpio_ext_state and gpio_ext_uswitch_state: the bits set
  chip,          \* the output registers of the expanders
  pins,          \* the pins of the controller that are high
  latched,       \* motherboard 1.0: those that the latch holds high
  lost,          \* (history) how many writes to each expander failed in a row
  disturbed,     \* (history) the main program was interrupted where it matters
  torn,          \* (history) a disturbed program has left its mark
  byhand         \* (history) what other commands than power off and on have switched on

main_vars == <<main, cmd, phase, held>>
isr_vars == <<isr, spi_cmd>>
flags == <<irq, som_is_powered, boot_magic, mb_version>>
expanders == <<shadow, chip, lost>>
outputs == <<pins, latched>>
history == <<disturbed, torn, byhand>>
vars == <<board, main_vars, isr_vars, flags, expanders, outputs, history>>

-----------------------------------------------------------------------------
(* Programs. An operation is <<what kind of thing, which one, its value>>. *)

gpio_ext_enable(b)  == <<"ext", b, TRUE>>
gpio_ext_disable(b) == <<"ext", b, FALSE>>
gpio_put(p, high)   == <<"pin", p, high>>
Flag(f, value)      == <<"flag", f, value>>

(* Mutant: the wrong expander. *)
uswitch_ext(b, high) == <<"ext", b, high>>

uswitch(b, high) == <<"uswitch", b, high>>

(* Port 2's supply; motherboard 1.0 has one for port 1 only.               *)
usb_host_5v_set(high) == gpio_put(IF mb_version < 2 THEN "usb1_5v" ELSE "usb2_5v", high)

(* Mutant: the port is supplied before it is connected as a host. *)
SupplyFirst(port, mode) ==
  CASE port = 1 /\ mode = 1 -> <<usb_host_5v_set(TRUE), uswitch("1", FALSE),
                                 uswitch("2", FALSE), uswitch("3", FALSE)>>
    [] port = 1 /\ mode = 0 -> <<usb_host_5v_set(FALSE), uswitch("1", TRUE),
                                 uswitch("2", TRUE), uswitch("3", TRUE)>>
    [] OTHER                -> <<>>

(* A mode that none of the cases names leaves everything as it is.         *)
set_usb_mode(port, mode) ==
  CASE port = 1 /\ mode = 0 -> <<usb_host_5v_set(FALSE), uswitch("1", TRUE),
                                 uswitch("2", TRUE), uswitch("3", TRUE)>>
    [] port = 1 /\ mode = 1 -> <<uswitch("1", FALSE), uswitch("2", FALSE),
                                 uswitch("3", FALSE), usb_host_5v_set(TRUE)>>
    [] port = 1 /\ mode = 2 -> <<usb_host_5v_set(FALSE), uswitch("1", TRUE),
                                 uswitch("2", FALSE), uswitch("3", TRUE)>>
    [] port = 0 /\ mode = 0 -> <<uswitch("4", TRUE)>>
    [] port = 0 /\ mode = 1 -> <<uswitch("4", FALSE)>>
    [] OTHER                -> <<>>

RailsOn ==
  <<gpio_ext_enable("5V"), gpio_ext_enable("3V3"),
    gpio_ext_enable("HUB_PWR"), gpio_ext_enable("PCIE_PWR"),
    gpio_ext_disable("USWITCH_OFF")>>

PeripheralsOn ==
  <<gpio_put("modem", TRUE), gpio_put("modem_reset_n", TRUE), gpio_put("DISP_EN", TRUE),
    gpio_ext_enable("DISP_RESET_N"), gpio_ext_enable("DISP_BL_PWR"),
    gpio_ext_enable("DISP_1EN_2BL"), <<"pulse", "resets", TRUE>>>>

(* Resets display and modem, unless the SOM is on already.                 *)
pulse ==
  LET disp_reset_n(high) == IF mb_version < 2 THEN gpio_put("DISP_RESET_N", high)
                                              ELSE <<"ext", "DISP_RESET_N", high>>
  IN <<disp_reset_n(FALSE), gpio_put("modem_reset_n", FALSE),
       disp_reset_n(TRUE), gpio_put("modem_reset_n", TRUE)>>

(* Mutant: the magic comes last. *)
TurnOnMagicLast ==
  <<gpio_put("usb_loader", TRUE)>> \o RailsOn \o PeripheralsOn
  \o <<Flag("som_is_powered", TRUE)>> \o set_usb_mode(1, 1) \o <<Flag("boot_magic", TRUE)>>

turn_som_power_on_v20 ==
  <<Flag("boot_magic", TRUE), gpio_put("usb_loader", TRUE)>> \o RailsOn \o PeripheralsOn
  \o <<Flag("som_is_powered", TRUE)>> \o set_usb_mode(1, 1)

PinsOn ==
  <<gpio_put("1V1", TRUE), gpio_put("3V3", TRUE), gpio_put("5V", TRUE),
    gpio_put("modem_reset_n", TRUE), gpio_put("modem", TRUE),
    gpio_put("DISP_RESET_N", TRUE), gpio_put("DISP_EN", TRUE)>>

turn_som_power_on ==
  IF mb_version >= 2 THEN turn_som_power_on_v20 ELSE
  <<gpio_put(Latch, FALSE), Flag("boot_magic", TRUE)>> \o PinsOn
  \o <<gpio_put(Latch, TRUE), <<"pulse", "resets", TRUE>>, gpio_put(Latch, FALSE),
       Flag("som_is_powered", TRUE)>>

PeripheralsOff ==
  <<gpio_put("modem", FALSE), gpio_put("modem_reset_n", FALSE),
    gpio_ext_disable("DISP_RESET_N"), gpio_ext_disable("DISP_BL_PWR"),
    gpio_ext_disable("DISP_1EN_2BL")>>

(* Mutant: one rail is forgotten. *)
RailsOffButPcie ==
  <<gpio_ext_disable("5V"), gpio_ext_disable("3V3"), gpio_ext_disable("HUB_PWR"),
    gpio_ext_disable("USWITCH_OFF")>>

RailsOff ==
  <<gpio_ext_disable("5V"), gpio_ext_disable("3V3"),
    gpio_ext_disable("HUB_PWR"), gpio_ext_disable("PCIE_PWR"),
    gpio_ext_disable("USWITCH_OFF")>>

(* Mutant: the SOM is heard until it is off. *)
TurnOffFlagLast ==
  <<Flag("boot_magic", FALSE)>> \o PeripheralsOff \o RailsOff
  \o <<gpio_put("usb_loader", FALSE), gpio_put("DISP_EN", FALSE)>>
  \o set_usb_mode(1, 0) \o <<Flag("som_is_powered", FALSE)>>

(* With its first operation it is deaf to the SOM.                         *)
turn_som_power_off_v20 ==
  <<Flag("som_is_powered", FALSE), Flag("boot_magic", FALSE)>> \o PeripheralsOff \o RailsOff
  \o <<gpio_put("usb_loader", FALSE), gpio_put("DISP_EN", FALSE)>>
  \o set_usb_mode(1, 0)

PinsOff ==
  <<gpio_put("DISP_RESET_N", FALSE), gpio_put("DISP_EN", FALSE),
    gpio_put("modem_reset_n", FALSE), gpio_put("modem", FALSE),
    gpio_put("5V", FALSE), gpio_put("3V3", FALSE), gpio_put("1V1", FALSE)>>

turn_som_power_off ==
  IF mb_version >= 2 THEN turn_som_power_off_v20 ELSE
  <<Flag("som_is_powered", FALSE), Flag("boot_magic", FALSE)>> \o PinsOff
  \o <<gpio_put(Latch, TRUE), gpio_put(Latch, FALSE)>>

(* The display's lines are behind the latch on motherboard 1.0.            *)
Display(bit, pin, high) ==
  IF mb_version < 2 THEN <<gpio_put(pin, high), gpio_put(Latch, TRUE), gpio_put(Latch, FALSE)>>
                    ELSE <<<<"ext", bit, high>>>>

hwapi_set_gpio(id, high) ==
  CASE id = 0 -> Display("DISP_RESET_N", "DISP_RESET_N", high)
    [] id = 1 -> <<<<"ext", "HUB_PWR", high>>>>
    [] id = 2 -> <<<<"ext", "PCIE_PWR", high>>>>
    [] id = 3 -> <<<<"ext", "3V3", high>>>>
    [] id = 4 -> <<<<"ext", "USWITCH_OFF", high>>>>
    [] id = 5 -> <<<<"ext", "DISP_BL_PWR", high>>>>
    [] id = 7 -> <<usb_host_5v_set(high)>>
    [] id = 9 -> Display("DISP_1EN_2BL", "DISP_EN", high)

som_wake == <<gpio_ext_disable("DISP_RESET_N"), gpio_ext_enable("DISP_RESET_N")>>

hwapi_soc_pre_suspend ==
  <<gpio_ext_disable("HUB_PWR"), gpio_ext_disable("3V3"), gpio_ext_disable("DISP_BL_PWR")>>

hwapi_soc_post_suspend ==
  <<gpio_ext_enable("3V3"), gpio_ext_enable("HUB_PWR"), gpio_ext_enable("DISP_BL_PWR")>>

Program(c) ==
  CASE c = <<"0p">>       -> turn_som_power_off
    [] c = <<"1p">>       -> turn_som_power_on
    [] c = <<"1w">>       -> som_wake
    [] c = <<"soc-susp">> -> hwapi_soc_pre_suspend
    [] c = <<"soc-psus">> -> hwapi_soc_post_suspend
    [] c = <<"usb-sc">>   -> set_usb_mode(0, 0) \o set_usb_mode(1, 0)
    [] c = <<"usb-host">> -> set_usb_mode(0, 1) \o set_usb_mode(1, 1)
    [] c = <<"usb-edl">>  -> set_usb_mode(0, 0) \o set_usb_mode(1, 2)
    [] OTHER              -> hwapi_set_gpio(c[2], c[3])

(* Mutant: a warm boot takes the SOM for off. *)
SetupUnaware(warm) ==
  (IF mb_version >= 2 THEN <<<<"setup", "uswitch", warm>>>> ELSE <<>>)
  \o (IF warm THEN turn_som_power_on ELSE turn_som_power_off)
  \o <<<<"usb_default", "port2", TRUE>>, <<"usb_default", "port2", TRUE>>, Flag("irq", TRUE)>>

(* main() from setup to the loop. A warm boot finds the magic and keeps    *)
(* the SOM on. The two calls of hwapi_set_usb_mode at the end lack its     *)
(* first argument, so port is the caller's mode and mode what is on the    *)
(* stack.                                                                  *)
Setup(warm) ==
  (IF mb_version >= 2 THEN <<<<"setup", "uswitch", warm>>>> ELSE <<>>)
  \o (IF warm THEN <<Flag("som_is_powered", TRUE)>> \o turn_som_power_on
              ELSE turn_som_power_off)
  \o <<<<"usb_default", "port2", TRUE>>, <<"usb_default", "port2", TRUE>>, Flag("irq", TRUE)>>

(* setup_gpios finds out which board it is; what it does then depends.     *)
Boot(warm) == <<<<"setup", "ext", warm>>, <<"version", "board", warm>>>>

Garbage == {0, 1, 2, 3}     \* 3 is none of the modes

-----------------------------------------------------------------------------
(* Operations.                                                             *)

With(bits, b, high) == IF high THEN bits \cup {b} ELSE bits \ {b}

Expander(op) == op[1] \in {"ext", "uswitch"}

(* A write fails, if only to change nothing, or on motherboard 1.0, where  *)
(* there is nobody to take it.                                             *)
write_byte(x, byte) ==
  \/ /\ board = 2
     /\ chip' = [chip EXCEPT ![x] = byte] /\ lost' = [lost EXCEPT ![x] = 0]
  \/ /\ board = 2 /\ chip[x] # byte /\ lost[x] < MaxLost
     /\ UNCHANGED chip /\ lost' = [lost EXCEPT ![x] = @ + 1]
  \/ board = 1 /\ UNCHANGED <<chip, lost>>

(* The latch lets its pins through while it is high.                       *)
SetPin(p, high) ==
  /\ pins' = With(pins, p, high)
  /\ latched' = IF board = 1 /\ Latch \in pins' THEN pins' \cap LatchedPins ELSE latched

ByHand(op, c) == op[1] # "uswitch" /\ op[3] /\ c \notin PowerCommands \cup {<<"boot">>}

Recorded(op, c) == byhand' = IF ByHand(op, c) THEN byhand \cup {op[2]} ELSE byhand \ {op[2]}

(* Everything but a change of one bit of an expander takes one step. The   *)
(* board is taken for a 2.0 if the last of the two writes succeeds.        *)
Do(op, c) ==
  \/ /\ op[1] = "pin"
     /\ SetPin(op[2], op[3]) /\ Recorded(op, c)
     /\ UNCHANGED <<flags, expanders>>
  \/ /\ op = Flag("som_is_powered", op[3])
     /\ som_is_powered' = op[3]
     /\ UNCHANGED <<boot_magic, irq, mb_version, outputs, expanders, byhand>>
  \/ /\ op = Flag("boot_magic", op[3])
     /\ boot_magic' = op[3]
     /\ UNCHANGED <<som_is_powered, irq, mb_version, outputs, expanders, byhand>>
  \/ /\ op = Flag("irq", op[3])
     /\ irq' = op[3]
     /\ UNCHANGED <<som_is_powered, boot_magic, mb_version, outputs, expanders, byhand>>
  \/ /\ op[1] \in {"pulse", "usb_default", "version"}
     /\ UNCHANGED <<flags, outputs, expanders, byhand>>
  \/ /\ op[1] = "setup" /\ op[2] = "ext"
     /\ shadow' = [shadow EXCEPT !.ext = IF op[3] THEN ExtBits \ {"USWITCH_OFF"} ELSE {}]
     /\ write_byte("ext", shadow'.ext)
     /\ mb_version' \in 1..board
     /\ UNCHANGED <<som_is_powered, boot_magic, irq, outputs, byhand>>
  \/ /\ op[1] = "setup" /\ op[2] = "uswitch"
     /\ shadow' = [shadow EXCEPT !.uswitch = IF op[3] THEN @ ELSE UswitchBits]
     /\ write_byte("uswitch", shadow'.uswitch)
     /\ UNCHANGED <<flags, outputs, byhand>>

(* What may be left of a program after its first operation.                *)
Rest(prog) ==
  CASE Head(prog)[1] = "pulse" /\ ~som_is_powered -> {pulse \o Tail(prog)}
    [] Head(prog)[1] = "version" -> {Setup(Head(prog)[3])}
    [] Head(prog)[1] = "usb_default" -> {set_usb_mode(1, mode) \o Tail(prog) : mode \in Garbage}
    [] OTHER -> {Tail(prog)}

-----------------------------------------------------------------------------
(* The main program, when no interrupt is being handled. A power command   *)
(* that ends undisturbed sets everything right again.                      *)

Busy(prog) == prog # <<>>

(* The interrupt handler carries out a command, or is about to take the    *)
(* next one that the SOM has sent with it.                                 *)
More == <<"more">>
Handling == Busy(isr) \/ spi_cmd = More

MainMoves ==
  /\ main' \in Rest(main)
  /\ torn' = IF main' = <<>> /\ cmd \in PowerCommands \cup {<<"boot">>} THEN disturbed ELSE torn
  /\ cmd' = IF main' = <<>> THEN <<"none">> ELSE cmd
  /\ disturbed' = (disturbed /\ main' # <<>>)
  /\ UNCHANGED <<board, isr_vars>>

MainDoes ==
  /\ ~Handling /\ Busy(main) /\ ~Expander(Head(main))
  /\ Do(Head(main), cmd)
  /\ MainMoves
  /\ UNCHANGED <<phase, held>>

(* state |= bit, state &= ~bit: read, modify and write back, then write it *)
(* to the chip, whether it takes it or not.                                *)
LoadShadow ==
  /\ ~Handling /\ Busy(main) /\ Expander(Head(main)) /\ phase = "none"
  /\ phase' = "loaded"
  /\ held' = shadow[Head(main)[1]]
  /\ UNCHANGED <<board, main, cmd, isr_vars, flags, expanders, outputs, history>>

StoreShadow ==
  /\ ~Handling /\ phase = "loaded"
  /\ phase' = "stored"
  /\ held' = With(held, Head(main)[2], Head(main)[3])
  /\ shadow' = [shadow EXCEPT ![Head(main)[1]] = held']
  /\ UNCHANGED <<board, main, cmd, isr_vars, flags, chip, lost, outputs, history>>

WriteChip ==
  /\ ~Handling /\ phase = "stored"
  /\ phase' = "none"
  /\ held' = {}
  /\ write_byte(Head(main)[1], held)
  /\ Recorded(Head(main), cmd)
  /\ MainMoves
  /\ UNCHANGED <<flags, shadow, outputs>>

LoopCommand ==
  /\ ~Handling /\ ~Busy(main)
  /\ cmd' \in LoopCommands
  /\ main' = Program(cmd')
  /\ UNCHANGED <<board, isr_vars, phase, held, flags, expanders, outputs, history>>

-----------------------------------------------------------------------------
(* The SPI interrupt handler. It disturbs the main program if that holds   *)
(* the value of an expander, if it switches off what the main program is   *)
(* switching on, or if both change the use of port 2. It looks whether the *)
(* SOM is powered once, before it reads all that the SOM has sent.         *)

InUsbMode == Busy(main) /\ (Head(main)[1] = "uswitch" \/ Head(main)[2] = "usb2_5v")

Disturbs(c) ==
  \/ phase # "none"
  \/ c = <<"0p">> /\ cmd = <<"1p">>
  \/ c \in UsbCommands /\ InUsbMode

SpiCommand ==
  /\ ~Busy(isr)
  /\ spi_cmd = More \/ (irq /\ som_is_powered)
  /\ spi_cmd' \in SpiCommands
  /\ isr' = Program(spi_cmd')
  /\ disturbed' = (disturbed \/ Disturbs(spi_cmd'))
  /\ torn' = (torn \/ Disturbs(spi_cmd'))
  /\ UNCHANGED <<board, main_vars, flags, expanders, outputs, byhand>>

SpiDoes ==
  /\ Busy(isr)
  /\ LET op == Head(isr) IN
       \/ ~Expander(op) /\ Do(op, spi_cmd)
       \/ /\ Expander(op)
          /\ shadow' = [shadow EXCEPT ![op[1]] = With(@, op[2], op[3])]
          /\ write_byte(op[1], shadow'[op[1]])
          /\ Recorded(op, spi_cmd)
          /\ UNCHANGED <<flags, outputs>>
  /\ isr' \in Rest(isr)
  /\ spi_cmd' \in IF isr' = <<>> THEN {<<"none">>, More} ELSE {spi_cmd}
  /\ torn' = IF isr' = <<>> /\ spi_cmd \in PowerCommands THEN disturbed ELSE torn
  /\ UNCHANGED <<board, main_vars, disturbed>>

-----------------------------------------------------------------------------
(* Resets. RAM and pins are lost; the latch and the expanders keep their   *)
(* outputs and the watchdog its scratch registers, unless all power is     *)
(* lost.                                                                   *)

Restart(warm) ==
  /\ main' = Boot(warm)
  /\ cmd' = <<"boot">> /\ isr' = <<>> /\ spi_cmd' = <<"none">>
  /\ phase' = "none" /\ held' = {}
  /\ irq' = FALSE
  /\ som_is_powered' = FALSE /\ mb_version' = 0
  /\ shadow' = [ext |-> {}, uswitch |-> {}]
  /\ pins' = {}
  /\ disturbed' = FALSE
  /\ byhand' = {}
  /\ UNCHANGED <<board, torn>>

(* The watchdog, a fault, a firmware update                                *)
Reset == Restart(boot_magic) /\ UNCHANGED <<boot_magic, chip, lost, latched>>

PowerLoss ==
  /\ Restart(FALSE)
  /\ boot_magic' = FALSE
  /\ chip' = [ext |-> {}, uswitch |-> {}] /\ lost' = [ext |-> 0, uswitch |-> 0]
  /\ latched' = {}

Init ==
  /\ board \in 1..2 /\ mb_version = 0
  /\ main = Boot(FALSE)
  /\ cmd = <<"boot">> /\ isr = <<>> /\ spi_cmd = <<"none">>
  /\ phase = "none" /\ held = {}
  /\ irq = FALSE
  /\ som_is_powered = FALSE /\ boot_magic = FALSE
  /\ shadow = [ext |-> {}, uswitch |-> {}] /\ chip = shadow
  /\ lost = [ext |-> 0, uswitch |-> 0]
  /\ pins = {} /\ latched = {}
  /\ disturbed = FALSE /\ torn = FALSE /\ byhand = {}

Next ==
  \/ MainDoes \/ LoadShadow \/ StoreShadow \/ WriteChip \/ LoopCommand
  \/ SpiCommand \/ SpiDoes
  \/ Reset \/ PowerLoss

Spec == Init /\ [][Next]_vars

-----------------------------------------------------------------------------
Ops == {"ext", "uswitch", "pin", "flag", "pulse", "setup", "version", "usb_default"}

SomPowerTypeOK ==
  /\ board \in 1..2 /\ mb_version \in 0..board
  /\ \A i \in DOMAIN main : main[i][1] \in Ops /\ main[i][3] \in BOOLEAN
  /\ \A i \in DOMAIN isr : isr[i][1] \in Ops /\ isr[i][3] \in BOOLEAN
  /\ cmd \in Commands \cup {<<"none">>, <<"boot">>}
  /\ spi_cmd \in Commands \cup {<<"none">>, More}
  /\ phase \in {"none", "loaded", "stored"} /\ held \subseteq ExtBits \cup UswitchBits
  /\ phase # "none" => Busy(main) /\ Expander(Head(main))
  /\ {irq, som_is_powered, boot_magic, disturbed, torn} \subseteq BOOLEAN
  /\ shadow \in [ext : SUBSET ExtBits, uswitch : SUBSET UswitchBits]
  /\ chip \in [ext : SUBSET ExtBits, uswitch : SUBSET UswitchBits]
  /\ lost \in [ext : 0..MaxLost, uswitch : 0..MaxLost]
  /\ pins \subseteq Pins /\ latched \subseteq LatchedPins
  /\ byhand \subseteq ExtBits \cup Pins

(***************************************************************************)
(* Properties. They hold through resets at any point, on both boards. What *)
(* is said of flags and rails also holds through all interleavings but     *)
(* those of Disturbs, and whatever writes fail, as long as the last one    *)
(* did not and the board was taken for what it is. From an interleaving    *)
(* (torn) the next power command that is let finish recovers, from a lost  *)
(* write (lost) the next write, from the wrong board the next boot.        *)
(***************************************************************************)

Idle == ~Busy(main) /\ ~Busy(isr)
Rails == IF board = 1 THEN latched ELSE chip.ext
RailsFollow == mb_version = board /\ lost.ext = 0

(* Between commands, the flag in RAM, the magic that decides the next boot *)
(* and the 5 V rail say the same.                                          *)
PowerAgrees == som_is_powered = boot_magic /\ (som_is_powered <=> "5V" \in Rails)

FlagsAgree == Idle /\ RailsFollow /\ ~torn => PowerAgrees

(* The rails of a SOM that is off are off, but for what another command    *)
(* has switched on since. (turn_som_power_off)                             *)
OffIsOff == Idle /\ RailsFollow /\ ~torn /\ ~som_is_powered => Rails \subseteq byhand

SwitchingOff ==
  \/ Busy(main) /\ cmd = <<"0p">>
  \/ Busy(isr) /\ spi_cmd = <<"0p">>
  \/ cmd = <<"boot">>       \* a cold one

(* Whenever the controller is reset with the SOM running, it comes back    *)
(* knowing that: the magic is there before the rails are and goes only     *)
(* when they are to go. (set_boot_magic)                                   *)
NoOrphanRails ==
  ~torn /\ RailsFollow /\ "5V" \in Rails => boot_magic \/ SwitchingOff

(* Port 2 is supplied with 5 V only while it is wired as a host's: a mode  *)
(* switches the supply off first and on last, and every write to the       *)
(* expander carries the switches whose own write failed. (set_usb_mode)    *)
SupplyIsHost ==
  board = 2 /\ mb_version = 2 /\ ~torn /\ lost.uswitch = 0 /\ "usb2_5v" \in pins \ byhand
    => chip.uswitch \cap {"1", "2", "3"} = {}

(* A warm boot drops no rail and does not reset the display ("unless this  *)
(* is a warm reboot of sysctl"), also if it mistakes the board.            *)
WarmBootKeepsRails ==
  [][cmd = <<"boot">> /\ boot_magic /\ boot_magic' => Rails \ {"USWITCH_OFF"} \subseteq Rails']_vars

(***************************************************************************)
(* What the comments promise and the code does not keep.                   *)
(***************************************************************************)

(* turn_som_power_off "can be called from a timer interrupt in the spi     *)
(* command handler": also then flag, magic and rail agree in the end.      *)
InterruptedPowerAgrees == Idle /\ RailsFollow => PowerAgrees
=============================================================================
