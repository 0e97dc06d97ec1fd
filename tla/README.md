# Pocket Reform firmware: verification project

TLA+ models of the firmware of the MNT Pocket Reform: the system controller
(`src/pocket-reform-sysctl-fw`, "sysctl"), the keyboard controller
(`src/pocket-reform-keyboard-fw`) and the code they share
(`src/pocket-reform-shared-fw`). TLC checks the models on small instances;
TLAPS proves, for every value of the constants, the safety properties of the
policy engine with any partner and with a compliant one, of the charger, of
the DisplayPort mode, of the interrupts, of the keyboard's menu and of its link to
the system controller, the central ones of the SOM's switching, that the engine
implements an abstract port, how a sink chooses among a source's offers, and what
bounds the command line.

    tlc -workers 2 -config pd_unruly.cfg MCPdPolicy     # any run of the table below
    tlapm PdPolicyProofs.tla                            # the proofs

## 1. The system

Two RP2040 microcontrollers. Each runs one endless main loop and a few
interrupt handlers; there is no operating system and nothing is persisted
except outputs of chips on the I2C bus and the watchdog's scratch registers.

| component | source | state | operations | talks to |
|---|---|---|---|---|
| USB PD policy engine | `sysctl/src/pd_com.c`, `pd.c`, `inc/pd_com.h` | `pd_state`, tick counter `t`, roles, handshake flags, requested current | `pd_tick` once per loop iteration (about 1 ms), message handlers, `pd_send_reset` and others by command | FUSB302 over I2C, charger, 5 V switch, SOM power flag |
| Charger and fuel gauge | `sysctl.c`, `mp2650.c`, `max17320.c` | copies of the MP2650's registers (charge enabled, reset bit, input limit), emergency flag, LED | `charger_init`, `charger_tick`, `gauge_tick`, enable and disable | I2C chips; enabled by the policy engine; disabled by `set-gpio 6` |
| SOM power and USB switches | `sysctl.c`, `ext_gpio.c`, `hwapi_pocket.c` | `som_is_powered`, boot magic in the watchdog scratch, two port expanders and their shadows in RAM, pins | power on and off, wake, suspend, set-gpio, USB modes, boot | commands; expanders over I2C |
| Command entry | `uart_com.c`, `spi_com.c`, `sysctl.c` | the transport of the current command | UART and USB from the main loop; SPI in its interrupt handler | CLI |
| CLI | `cli.c`, `inc/cli.h` | a character automaton per transport, variables | `cli_char`, evaluation of `( name args )` | every hwapi function |
| FUSB302 driver, I2C bus | `fusb302b.c`, `sysctl.c`, `ext_gpio.c`, `mp2650.c`, `max17320.c` | SPI interrupt mask | transfers with interrupts off and a timeout | chips |
| DisplayPort alternate mode | `pd_com.c` (`pd_handle_vdm_*`), `altmode.c` | `alt_mode_requested`, `alt_mode_pin_assignment`, the pin HPD | discovery, entry, status, configuration, HPD signalling, answers to a host's requests | policy engine; the partner; the SOM's display controller |
| USB line editor | `sysctl.c:1006` ff. | line and cursor | keys | CLI |
| Key-value store | `kvstore.c` | table in RAM | get, set | nothing: its callers are commented out |
| USB stdio | `shared-fw/reform_stdio_usb.c`, `reset_interface.c` | mutex, pending worker | write, read, timer and worker interrupts | TinyUSB |
| Keyboard: link to sysctl | `pocket-hid/src/remote.c` | receive buffer, voltages, gauge | power, wake and status commands, reply with timeout | sysctl CLI over UART |
| Keyboard: matrix, menu, HID | `main.c`, `menu.c`, `edit.c`, `matrix.c` | matrix, layers, menu mode, reports | scan, debounce, long press, menu keys, console | OLED, USB host, link |
| Keyboard: LEDs and OLED | `leds.c`, `oled.c`, `gfx.c` | colours, brightness, frame buffer | rendering | - |

`src/pocket-reform-sysctl-fw` also has a README and `README-SC-CLI.md`, which
state what commands should do. Host tools, demos, schematics, layouts and
mechanical parts make up the rest of the repository.

### How the parts interact

* The main loop of sysctl runs, in order: commands of the UART and USB,
  `pd_tick`, `charger_tick`, `gauge_tick`, LEDs. Everything it calls returns;
  I2C transfers have a timeout.
* The SPI interrupt handler runs the commands of the SOM **inside the
  handler**, so a power-off, a `pdreset` or a USB mode may come between any two
  statements of the main loop that are not inside an I2C transfer (most drivers
  disable that interrupt; three functions for the charger do not). It ignores the SOM while `som_is_powered` is false.
* `pd_tick` reads `pd_state`, talks to the FUSB302 for a while and then writes
  `pd_state`; `pd_send_reset` writes it from the handler.
* `som_is_powered` decides whether the port may become a source, whether a data
  role swap is accepted, whether the SOM is listened to, and, through the boot
  magic, whether a reset of sysctl keeps the SOM running.
* The keyboard sends commands as text and waits 110 ms for each answer.

### What is hard here

Preemption of the main loop by commands of the SOM; a read-modify-write of an
expander's shadow; handshakes with a port partner that may send anything in any
order, lose messages, go away or be replaced between two looks; several
timeouts on one counter `t` that each branch may or may not reset; resets of the
controller in the middle of a power sequence while the SOM keeps running;
states that can be left only by a timeout. `PROJECT.json` lists each hazard at
its line with the properties that cover it, or the reason none does; where a
property covers a part of a hazard only, its note says which.

### What makes each component correct

* Policy engine: a session starts from defaults; role, state and 5 V switch
  agree; it never charges from its own 5 V; both ends agree on contract and data
  roles; handshakes end; an unplugged port goes quiet.
* Charger: it charges only when a contract or an empty battery allows it, draws
  no more than was granted, and does what the firmware decided although its
  registers, their copies and failing transfers come apart; of a source's offers
  the best one is requested.
* DisplayPort: the SOM sees a hot plug exactly when a display is there and
  configured; a display that can come up does.
* SOM power: flag, magic and rails agree between commands; off means off; a warm
  boot drops nothing; a reset never leaves a running SOM behind unknown; port 2
  is supplied only while it is wired as a host's.
* CLI: one command per closing parenthesis, no write outside its buffers,
  recovery after an error, no mixing of the SPI and UART evaluations.
* I2C bus: a transfer has the bus to itself, messages reach the FUSB302 whole,
  and the SOM is heard again after every transfer, failed ones too.
* USB stdio: nobody waits for ever for the mutex, and no event of the host is
  left undone because the mutex was taken.
* Keyboard link: answers belong to the command asked; lost answers time out.
* Keyboard menu: the console can be left, a key pressed in the menu is not sent
  to the host, a key pressed before the console opened is not typed into it.

## 2. Modules

| module | models | kind |
|---|---|---|
| `PdPolicy` | `pd_tick`, `pd_comm_pd`, message handlers, charger enable and disable, commands that share state with them | detailed, any partner |
| `PdSession` | `PdPolicy` with a partner that keeps to USB PD, a wire that loses messages, plugging and replacing | composition; refines `PdPolicy` |
| `UsbPort` | what the USB-C port promises: look, attach, swap, grant, close | abstract |
| `PdPort` | `PdPolicy` implements `UsbPort` (`PortSpec`) | refinement mapping |
| `MCPdPolicy` | messages and commands for TLC; extends `PdPort` | MC |
| `PdPolicyProofs`, `PdSessionProofs` | theorems | proofs |
| `PickPdo` | `pick_pdo` and the request made of its result, with `pdvolt` from the interrupt | algorithm, one step per object |
| `Charger` | the MP2650's registers and their copies, every function that writes them, failing transfers; extends `PickPdo` | detailed; refines `PickPdo` |
| `MCCharger` | five sources for TLC | MC |
| `ChargerProofs` | theorems | proofs |
| `DisplayPort` | the alternate mode's negotiation and HPD, with an external partner | detailed |
| `DisplayPortProofs` | theorems | proofs |
| `SomPower` | power on and off, wake, suspend, USB modes, boot, SPI handler against main loop, resets, failing expander writes, on both motherboards | detailed |
| `MCSomPower` | commands for TLC | MC |
| `SomPowerProofs` | theorems | proofs |
| `KbdMenu` | the keyboard's scan in the timer interrupt, what it reports, the menu and its console in the main loop | detailed |
| `MCKbdMenu` | keys for TLC | MC |
| `KbdMenuProofs` | theorems | proofs |
| `Cli` | `cli_char`: characters, words, lists, errors, the call | detailed |
| `KbdLink` | the keyboard's commands and their answers over the UART; extends `Cli` | composition; refines `Cli` |
| `MCKbdLink` | an alphabet, four commands and noise for TLC | MC |
| `KbdLinkProofs` | theorems about `Cli` and `KbdLink` | proofs |
| `Interrupts` | the SPI interrupt, the USB worker and its alarm against the main loop: I2C transfers and their masking, the transmit FIFO, the mutex of the serial port | detailed |
| `MCInterrupts` | the SOM's commands for TLC | MC |
| `InterruptsProofs` | theorems | proofs |

### PdPolicy

One iteration of the main loop is up to four steps, told apart by `pc`:
`"comm"` (`pd_comm_pd`), then a step named after the state the branch is taken
for, `"roles"` (the second half of the `PD_STATE_UNATTACHED` branch, which
reads `pd_state` again to choose the roles) and `"charger"`. Between them, and
only there, a command of the SOM may run, as long as the SOM is on; a command of
the UART runs at `"comm"`.

| code | model |
|---|---|
| `pd_comm_pd` | `Receive(m)`, `ReceiveNothing`, `Flush`, `SkipComm` |
| `pd_handle_msg_from_power_source`, `..._sink` | operators of the same names, a disjunct per message type |
| `PD_STATE_SETUP` | `SetupEmergency`, `SetupSucceeds`, `SetupFails` over `ResetDefaults` |
| `PD_STATE_UNATTACHED` | `ToggleDone`, `ToggleOther`, `Toggling`, then `AssignRoles` |
| `PD_STATE_UNATTACHED_SNK` | `VbusArrives`, `VbusAwaited` |
| `PD_STATE_ATTACHED_SNK` | `VbusLost`, `HandshakeTimedOut`, `SinkSendsSoftReset`, `SinkStays` |
| `PD_STATE_UNATTACHED_SRC` | `SinkFound`, `SinkAwaited` |
| `PD_STATE_ATTACHED_SRC` | `SourceStartsOver`, `SourceStays` |
| `charger_tick`, `gauge_tick` | `charger_tick` (the emergency decision) |
| `pdreset`, `pdcap`, `pdvdm`, `pdsink`, `set-gpio 6`, power commands | `PdResetCommand`, `SendCommand`, `ForceSinkCommand`, `Port5vCommand`, `SetRailCommand` |

A message is its sender's power role and data role, its type and the current
`pick_pdo` would choose of it. `tx` holds what the last step sent. A read of the
FUSB302 that fails makes the code take the same path as "nothing there", so
most branches have a disjunct that sees nothing whatever is plugged in.

`UsbPort` is what the rest of the system relies on: phases `closed`, `looking`,
`sink`, `source`, and whether the charger is on. `PdPort` maps `pd_state` alone to
the phase, whatever step the main loop is in, and states the refinement as
`PortSpec`. One thing had to go into the abstract port to make it true: `Resume`.
A `pdreset` that comes inside a branch closes the port, and the branch may
overwrite `pd_state` afterwards; with `Resets` FALSE and the command allowed,
TLC shows the overwritten reset at once.

`PdSession` adds the partner: where it is in the negotiation (`ps`), its data
role, our messages it has not acknowledged (`inflight`), its last offer, and
`upset`, what has gone wrong in this session: properties that the code keeps only
on a reliable wire name it, and so say exactly what they need.

### PickPdo and Charger

`PickPdo` looks at one object a step (`TakePdo`, `SkipPdo`), because `pdvolt` may
change `max_voltage_requested` in the middle of the loop (`MaxVoltage`; `steady`
is history). `Request` clamps the current. Voltages are in V, as the code rounds
them.

`Charger` keeps the registers of the MP2650 (`chip`) next to the firmware's copies
(`ram`). Functions are sequences of statements (`charger_init`,
`charger_enable_charge` and so on), `todo` those left; one statement or transfer is a
step, and each transfer may fail (`WriteFails`, `ReadFails`): no caller looks at a
result. `Iterate` is one iteration of the main loop: what `pd_tick` makes of the
charger, `charger_tick`, and now and then the reading of the status. `SetGpio6`
comes between any two statements, also inside the update of `config0`; then the
main loop stores the old `chg_en` again, or writes the byte it had fetched
(`StaleWrite`). `ChipWatchdog` resets the MP2650 when a write of `config0` was lost.
`upset` (history) says which registers and copies may disagree, or that the command came
inside an iteration, so the properties name their exceptions.

### DisplayPort

There is no state machine in the code: each answer of the partner triggers the
next request. `Setup` is what `PD_STATE_SETUP` does to it, `Trigger` and
`SwappedToDfp` begin the discovery, `DiscoveredSvids`, `DiscoveredModes`,
`EnteredMode`, `StatusUpdated` continue it, `AnswerRequest` is
`pd_handle_vdm_request`. A BUSY has the bit by which the code tells an ACK; its second
object is what the buffer held before (`Obj1`), any value. The partner keeps to the
protocol, refuses what it cannot fulfil, may be busy and may change its HPD at any
time; messages are lost in both directions. `trouble` (history) says what of that
happened in this session.

### SomPower

Commands are **programs**: sequences of elementary operations (one pin, one
flag, one expander bit, the initialisation of an expander), in the order of the
statements in the code. The main loop executes an expander bit in three steps
(`LoadShadow`, `StoreShadow`, `WriteChip`: the read and the write of
`gpio_ext_state |= bit`, then the I2C transfer), everything else in one
(`MainDoes`). The SPI handler (`SpiCommand`, `SpiDoes`) runs to completion: the
main loop does not move while it is busy (`Handling`). It looks once whether the SOM
is powered and then carries out all that the SOM has sent (`spi_com.c:48`): after a
command there may be another one (`More`), also after the SOM's own power-off. The code
reads at most 31 bytes at a time; the model bounds the commands by nothing. `Reset` and `PowerLoss` may come
anywhere, in the middle of a handler too; the expanders' outputs, the latch and
the scratch registers survive a reset and not a loss of power.

`board` is the motherboard, `mb_version` what the code takes it for: a 2.0 is
recognised by an answer of the expander at boot (`Boot`, `Setup`), so one that does not
answer passes for a 1.0 and the other pins are switched; pin 29 is the supply of
port 2 on one board and the latch of the rails on the other. Each write to an
expander may fail (`write_byte`); the code does not notice, and its shadow goes on.
`lost` counts the failures in a row of each expander: since every write carries
the whole byte, one write that succeeds repairs all that failed before it.

Three more history variables serve the properties only: `disturbed` and `torn`
record that one of the interleavings of `Disturbs`, below, has happened, `byhand`
which rails another command than power on and off has switched on.

### KbdMenu

`hid_task` is one step: the keys held at this scan (any set of at most
`MaxDown`), the host's power-off report if there is one, then
`process_keyboard` key by key, as in the two loops of the code, each key seeing
what the one before did to `hyper_key` and `last_menu_key`. The main loop is
cut where the interrupt may come between a read and its use: sleep, the choice
in `service_menu` (`CallMenu`, `enter_menu_mode`, `exit_menu_mode`), the call of
`input_menu_key`, the use of its result (`UseResult`), `refresh_menu_page` and
the hint. A call may last for any number of scans: it waits for sysctl and
plays animations. At least one scan passes in `sleep_ms(10)` (`ticked`).

`seenIn` and `opener` are history: what each held key's press was seen by, and
for how long the chord that opened the menu is held.

### Cli and KbdLink

`Cli` has one action per case of `cli_char`; `cli_char(c)` is their disjunction.
A word is a name, the beginning of a name, any other word or a number: what a
word is worth beyond that is left out. `cli_out` is what the last character put
out and `ran` (history) what it called; `ResetByCaller` is what the callers do in
between.

`KbdLink` puts a UART on either side. sysctl: `loop` begins a batch,
`handle_uart_commands` reads one character of at most `MaxBatch`, `EndOfBatch`
resets the parser once more if the last thing put out was an error. Keyboard:
`Call` begins a function, `uart_puts` sends a character, `remote_on_uart_rx` is
the receive interrupt, `Answered` and `TimedOut` end the wait and begin the next
command of the function or end it. Of the commands only `s` and `c` answer with
a text that has an end; the power commands put out nothing, so each waits for
its whole timeout, and `soc_power_on` is set without a confirmation (`Believes`).
An error's text has no end and stays in the buffer for what comes next.
`PowerOffReport` is the host's power-off in the keyboard's USB callback: it may come
inside the wait of another function, empties the buffer that function collects its
answer in, and sends its own command (`Report`).

Each character and each piece of an answer carries whether it belongs to the
command that is waited for (`mine`, history). `late`, `upset` and `doubt` (history)
say what went wrong, so that the properties name their exceptions.

### Interrupts

What `loop()` calls is a sequence of **functions**, a function a sequence of
**calls**: a transfer that masks the SPI interrupt or does not, the filling of
the message buffer `tx`, a print, a read of the serial port. `Work` lists, for
each part of the loop, the sequences its branches make; which branch is taken
is left open. `todo` are the functions to come, `now` the calls left of the one
that runs. A write is two steps (`Begin`, `Transferred`), a read three, with
`Selected` between them. A failed transfer ends the function, as the returns in
`fusb302b.c` do, and may leave some of its bytes in the FIFO; a failed register select of
`fusb_read_buf` returns with the interrupt masked.

| code | model |
|---|---|
| `sysctl_disable_irqs`, `sysctl_enable_irqs` | `Mask`, `Unmask` |
| `fusb_send_message`, `_prime`, `_prime_prime` | `fusb_send_message`, part by part (`PutPart`); `tx` is filled before in two stores (`FillTx`), in `send_vdm` before a print |
| `handle_spi_commands` | `spi_commands_task`: nothing, a rail, or a message of its own of which 0 to 3 parts get through |
| `stdio_usb_out_chars`, `stdio_usb_in_chars` | actions of these names, `WriteChunk`, `Done` |
| `low_priority_worker_irq`, `timer_task`, `usb_irq` | actions of these names |

All interrupts have the same priority, so a handler is one step and the main
loop runs when none is due (`Runs`). The controller keeps the address of the
last transfer (`tar`): a handler that uses the bus leaves another one there. `spoiled`
is history: what is in the FIFO has been cut by a failure or by the
handler's own message.

## 3. Runs

| run | module | question | distinct states |
|---|---|---|---|
| `pd_unruly` | `MCPdPolicy` | any message at any time, `pdreset` anywhere: bounds, no supplying sink, soft reset before the timeout | 7.2 M |
| `pd_commands` | `MCPdPolicy` | all commands at every preemption point: fresh sessions, role and state agree, the abstract port is implemented | 1.1 M |
| `pd_session` | `PdSession` | a compliant partner on a lossy wire: contract, data roles, no backfeed, PS_RDY answers a request | 4.1 M |
| `pd_liveness` | `PdSession` | handshakes end, an unplugged port goes quiet | 0.2 M |
| `charger` | `MCCharger` | sources, failing transfers, resets of the MP2650, commands inside any update: the choice, when it charges, how much it draws | 0.5 M |
| `display_port` | `DisplayPort` | refusals, BUSY, lost messages, displays that come and go: HPD and picture agree, the display comes up | 21 K |
| `som_power` | `MCSomPower` | commands of both sides interleaved on both boards, resets anywhere, writes that fail: flags, magic and rails | 11.0 M |
| `som_interrupted` | `MCSomPower` | **violated**: a power-off from the handler during a power-on | - |
| `kbd_menu` | `MCKbdMenu` | two keys, scans and power-offs at any moment: keys stay where they were pressed for, Escape leaves the console | 0.4 M |
| `kbd_link` | `MCKbdLink` | whose answer is it, is the power what the keyboard thinks | 7.4 M |
| `kbd_twice` | `MCKbdLink` | **violated**: sending power-on twice is enough | - |
| `interrupts` | `MCInterrupts` | interrupts at any point of transfers, messages and prints: bus, messages, nothing unheard | 0.5 M |

### What the properties say

* `FreshSession`: whenever the port looks for a partner nothing of the previous
  session is left (charging, roles, handshake, receiver) except
  `requested_current`, which the code keeps.
* `RoleMatchesState`, `SinkStopsSourcing`: state, role and 5 V switch move
  together through both power role swaps and every timeout. After a swap from
  source to sink the engine may take its own 5 V for its partner's; it stops
  supplying in the same iteration.
* `SoftResetFirst`: the reason the code gives for the soft reset (some chargers
  ignore a hard reset without one) needs `SoftResetAfter < HandshakeTimeout` and
  that no step skips the window between; shown for interleaved resets and swaps.
* `PortSpec`: every behaviour of the engine is one of the abstract port: no
  session begins with charging left on, none turns charging on before it is
  attached, none goes from one partner to the next without closing.
* `PsReadyAnswersRequest`: any GoodCRC advances the source's handshake, whatever it
  acknowledges; on a wire that loses nothing PS_RDY still follows an accepted
  request. (`SourceHandshake`, that it never has two answers outstanding, is proved.)
* `ContractAgreed`, `DataRolesDiffer`, `NoBackfeed`: relate the engine to the
  partner. The exceptions are in the formulas: data roles need a session without a
  lost message, `NoBackfeed` one without a power role swap and without a partner
  that was replaced unnoticed. With TLC's `DetachPeriod`, a multiple of every other
  period, no replacement breaks `NoBackfeed`; the proof, which is for any period, showed
  that this is due to the numbers, so the formula names the exception.
* `PartnerGoneQuiet`, `SinkHandshakeEnds`, `SourceHandshakeEnds`: leads-to
  properties under the fairness below.
* `PickIsBest`: what the comment over the selection promises, made precise. The
  leeway of 100 mW is given at each step up in voltage, so leeways add up, to
  at most 100 mW for each object looked at; below 9 V power does not count. Of the best object
  it says something only for voltages that ascend, as USB PD demands.
* `OnlyWhenAllowed`, `DrawsNoMoreThanGranted`, `ChipFollows`: three relations
  between session, copies and chip. They hold with these exceptions, which are in the
  formulas: the write of `config0` was lost (the next tick repeats it); a write of
  the limits was lost (nothing repeats it before the next contract or session, so the
  chip may draw up to the older limit meanwhile); `set-gpio 6` came inside an
  iteration; and `reg_rst`: if the reading after the reset in `charger_init` fails, the
  reset bit stays set in the copy for good, every tick writes it and resets the MP2650
  again, and the MP2650 then charges by its defaults whatever is decided.
* `HpdMeansPicture`: at rest the SOM sees a hot plug if and only if the display is
  there and configured with our assignment. Assignment E is used even if the
  partner does not offer it; it then refuses, and HPD may be left set: that is the
  exception `refused`.
* `DisplayComesUp`: nothing is asked twice in a session (`alt_mode_requested`), so
  one lost, refused or busy answer ends it. The property says that only these do.
* `FlagsAgree`, `OffIsOff`, `NoOrphanRails`, `SupplyIsHost`, `WarmBootKeepsRails`:
  see SomPower. They hold except after three interleavings (`torn`): a command of
  the SOM between the read and the write of an expander's shadow by the main loop,
  whose change is then lost; a power-off of the SOM inside a power-on of the main
  loop; and commands of both that change the use of port 2. The run shows that
  these are the only ones, and that the next power command left alone recovers.
  From a failed write it is the next write that recovers (`lost`), from a mistaken
  board the next boot (`RailsFollow`). `SupplyIsHost` holds through the undefined
  modes at boot, too.

* `MenuKeysStayInMenu`: `last_menu_key` alone keeps a key from the host after
  the menu has ended. It holds for keys that the open menu saw being pressed;
  the formula's history excepts what the code excepts: a power-off resets the
  keyboard, the trackball's buttons share keycode 0 with "no key", and an open
  menu does not record Hyper + Enter. Keys pressed in the console are not
  covered: raw mode does not set `last_menu_key`, so the Escape that leaves the
  console is reported to the host.
* `ConsoleTypesItsOwnKeys`: the wait for all keys to be up, with a buffer that
  the interrupt writes and the main loop reads later.
* `OpeningPressIsLong`: the press of Hyper + Enter that opens the menu turns the
  computer on only after the whole time.
* `EscapeLeavesConsole`: mode (interrupt and main loop) and page (main loop)
  agree, so Escape always finds the console.

* `AnswerIsMine`: nothing tells an answer from another, only the order of
  events. It holds as long as no earlier answer can still come (`late`): then the
  buffer holds the answer asked for and nothing else. A line of the console is
  excepted, because an error and an answer may both come of it.
* `BeliefMatches`: `soc_power_on` agrees with `som_is_powered` at rest, although
  nothing confirms it, as long as the commands were in time, the SOM did not
  switch itself off and nothing was left in sysctl's parser; for power-on, which
  is sent twice, as long as no parenthesis was open. The power-off from the USB
  callback keeps that, with two exceptions the run brought up: inside a power-on
  whose second `1p` is under way, `soc_power_on` is set again afterwards; and inside the
  wait for a status whose answer says "on", the stale answer sets it.

* `OnlyChargerStrays`: the bytes of a transfer go to the chip they are meant for,
  unless the transfer is the charger's: of the drivers it alone does not mask the
  interrupt (below), and then they may go to the chip that the handler has just addressed.
* `MessagesWhole`: one buffer, filled in two stores, and one FIFO, written in three
  transfers, between which the handler may write both. A mangled message is transmitted only if a
  transfer had failed or the handler had sent its own message in the midst; and
  that spoils no more than the messages concerned and the next, because the end
  of a message or a flush empties the FIFO.
* `SomHeard`: `fusb_read_buf` returns with the interrupt masked when its register
  select fails. It is heard again because every round of the loop has a transfer
  of another driver that unmasks it even when it fails (the switches of
  `pd_set_fusb_switches`, in setup as well).
* `NoLostWork`: the purpose of the alarm in `low_priority_worker_irq`. (`OneTimer`,
  its comment that it neither creates several alarms nor misses creating one, is
  proved.)

### Findings

* `som_interrupted` (`sysctl.c:611`, comment at `sysctl.c:716`): on both boards
  power-on sets the magic first and the flag last; the keyboard sends `1p` twice, so a power-on
  of a running SOM is usual, and the SOM's own `0p` may come inside it. What
  remains of the power-on then switches rails on again and sets
  `som_is_powered`, with the magic cleared.
* `kbd_twice` (`remote.c:220`, comment at `remote.c:217`): the power-on command is
  sent twice because of left-overs. After a left-over `(` twice is not enough: a
  newline does not end a list in parentheses, so the first `1p` becomes a word of
  it and the second an error (a number with a letter in it). The SOM stays off and
  the keyboard takes it for on.

Disagreements that reading the code shows, without a run of their own:

* `mp2650.c:69`, comment at `inc/sysctl.h:146`: three functions for the charger do
  not mask the SPI interrupt, and one of them runs in every round of the loop, so a
  command of the SOM may use the bus for another chip in the midst of it.
* `main.c:435`, comment at `main.c:436`: the start time of a long press is 0 unless
  that press opened the menu, and 0 is long ago. A second Hyper + Enter in the open
  menu is `KEY_1`, power on, at once.
* `sysctl.c:927`, comment at `sysctl.c:602`: a warm boot drives the modem's power and
  reset pins low before the sequence that spares it.

### Bounds

* Timers. The code's 30, 500, 1000, 10, 1000, 10000, 2000, 8000 and 10000 ticks
  become 1 to 6; the order that matters (settle before timeout, soft reset before
  handshake timeout, capabilities repeated more often than a detach is looked for)
  is kept, and the periods divide one another as the real ones do where a
  tick may serve two. `t` wraps from `TMax` to `TMax - TWrap + 1`, above all
  timeouts and congruent for all periods, so no state of the branches is lost.
* `MaxAttempts` is 0 for TLC (one flush counted, the next one ends the session)
  and any natural number in the proofs; the code's is 4.
* Currents: 0 (below the clamp), 50 and 400 (above it), in 10 mA.
* Messages: every type from each role, those that are only refused included; data roles
  other than the usual one where a handler reads them.
* Commands of `som_power`: both power commands from both sides, a USB mode from the
  main loop, and the SOM's resume, which switches rails on by hand.
* `MaxLost` is 1: a write carries the whole byte, so a second failure in a row leaves
  the chip as the first one did, only later; and each of the two expanders may
  have one at the same time.
* `charger`: the five sources are one with nothing that suits, one with a PPS and
  a voltage above the limit, the loaded charger of the code's comment, one where two
  leeways add up, and one out of order. `pdvolt` is given 20 (nothing changes) and
  24 (to be refused); lower limits are covered by the proofs. `ResetLimit` is 60 (3 A):
  it and the default limit of 500 mA are above what any of the sources grants.
* `display_port`: the partner does not change its HPD while `MaxWire` = 3 messages
  are on their way: a request, an answer and an ATTENTION between them.
* Keys of `kbd_menu`: Escape, Hyper, Down, Enter; Down and Enter reach every
  row of the menu, of which the model keeps one of each kind. Two keys held at a
  time; a long press is 2 scans for the code's 200.
* Link: words of 2 characters and lists of 2 words for the code's 8 and 5, batches
  of 2 characters for 32, so that a command spans batches; 5 characters (a power-off
  report and what it comes upon) and 2 answers on their way, 1 character of noise
  waiting to be read. The noise is one
  character for each thing it may leave behind: an open list, a word, a number, a
  list, an error, an empty command. The parser may collect any number of them.
* `interrupts`: output is at most two rounds of `stdio_usb_out_chars`; one is
  enough for an interrupt at each of its points, two for one between them. A
  message of the handler may stop after any part.
* No bound on the number of sessions, resets, commands or messages.

### Fairness

Weak fairness of the main loop: nothing in it blocks, transfers time out.
Strong fairness of `SetupSucceeds` and `VbusLost`: both need an I2C transfer to
succeed, which they attempt in every iteration; it is assumed that a transfer
attempted for ever succeeds some time. No fairness of the partner, of commands or
of the wire.

`charger`: weak fairness of the main loop's statements, and strong fairness of a
successful write of `config0`, which every tick attempts. No fairness of contracts,
commands, reads, or writes of the limits.

`display_port`: weak fairness of the main loop (`Trigger`, `Handle`) and of the partner's
answering in some way (`Peer`): each message is taken. A busy or lost message counts
as taken, so nothing is assumed of success.

`kbd_menu`: the timer interrupt comes again and again, and weak fairness of the
main loop; no call of `input_menu_key` waits for ever (`remote_try_command` gives
up after 110 ms).

`interrupts`: the handlers are weakly fair, as interrupts are. The SOM and the
host may interrupt again and again, but there are times again and again when
nothing is due, and the main loop goes on then. The alarm finds the mutex free
some time: a print ends, and the loop does other things for much longer than it
prints, so an alarm that always comes in a print would have to keep in step with
it. No fairness of what transfers return.

## 4. Proofs

`PdPolicyProofs` proves, for any set of messages and commands and any timers
that satisfy `TimerAssumption`:

* `TypeCorrect`: `Spec => []TypeOK`; `t`, the flush count, the requested
  current and the charger's limit stay in bounds. `TypeOK` is inductive.
* `RolesCorrect`: `RoleMatchesState` is not inductive, because a branch is
  dispatched for the state found at the end of `pd_comm_pd` and a command may
  move `pd_state` before it runs. `RolesInv` adds `StepMatchesState`: while a
  branch is pending, `pd_state` is the state it was dispatched for or SETUP, and
  the power role is that of the branch.
* `SourceHandshakeCorrect`: `SourceHandshake` is inductive relative to `TypeOK`;
  `FreshSessionCorrect`, `SinkStopsSourcingCorrect`: these are inductive
  relative to `TypeOK` and `RolesInv`, which exclude that a branch of an earlier
  state still runs in the new one.
* `PortRefined`: `Spec => PortSpec`, the refinement of `UsbPort`. A step of the engine
  is a step of the port under the mapping because `FreshSession` and `RolesInv` hold
  before it: the first gives that charging is off when the port begins to look, the second
  which phase the pending branch belongs to, and with it which steps are a `Resume`;
  `ResetByCommand` says that only the command can make one.
* `SoftResetFirstCorrect`, under `HandshakeTimeout > SoftResetAfter` (stated in
  the theorem; 10000 and 8000 in the code): `SoftResetInv` says that no sink
  that does not charge gets more than one tick past `SoftResetAfter` without its
  soft reset, counting the branch that is pending.

`PdSessionProofs` proves that `PdSession` implements `PdPolicy`
(`SessionImplementsPolicy`: every step of the session is a step of the engine
with any partner, or leaves it unchanged) and so inherits its invariants
(`SessionSafe`). The properties that relate the two ends need the partner in the
invariant. `SessionInv` (`SessionAgrees`) says, by the state the engine is in or whose
branch is pending, where a compliant partner can be: as long as no power role was
swapped and no partner replaced (`Orderly`), a sink has a source opposite it and the
reverse (`AsSink`, `AsSource`); in a session without a lost message, what the partner acknowledges
next is the answer the engine's flags speak of (`SwapAnswered`,
`RequestAnswered`), which is why taking any GoodCRC for it is right; what is granted
is what was offered last (`LastOffer`); and the charger is not on while the role is that of a
source (`NoSupplyCharges`: the switch alone is not inductive, it follows the role an
iteration later). Receiving is on as long as a session lasts (`Hears`) and all of
this is back to defaults when one begins (`Begins`). From it: `ContractIsAgreed`,
`DataRolesAgree`, `NeverBackfeeds`, `PsReadyIsAnswer`. `ContractIsAgreed` is stated without
`set-gpio 6` (`NotByHand`), which turns charging off by hand under a contract.

`ChargerProofs` proves `PickLimits` and `PickBest` of `PickPdo` for lists of any objects
and any arguments of `pdvolt`, from `PickInv`: types, the limits, and `BestSoFar`,
which says of the objects before the next one what `PickIsBest` says of all. The step
is arithmetic over three objects (the new one, the one picked, and any other). `Charger`
implements `PickPdo` (`ChargerPicks`), so this holds with failing transfers and
interrupts (`ChargerPicksWell`). `ChargerInv` (`ChargerSafe`) is about what is still
to be done: `ChargesOnlyWhenAllowed` and `DrawsWithinContract` hold only between two
iterations, so the invariant says of every point between two statements that the
statements left (`todo`) will make them true: without a contract what is left stops
charging (`Stopped`), with one the limit is set before it is written and written
before it is read back (`Limited`), each up to the transfers that have failed.

`DisplayPortProofs` proves `PictureOnlyWhenThere` from `DisplayInv`. In an undisturbed session the
two queues together are one stage of the negotiation (`Stage`): one question or
its answer, among any number of reports of HPD, which may overtake nothing; and the
last report on its way, or the port's copy if there is none, is the display's HPD
(`Reports`, `Known`). A session with trouble needs only the types and the roles
(`RolesOK`), because the property excepts it. The lemmas are about one message taken
from or put into such a queue.

`SomPowerProofs` proves all that `som_power` checks, on both boards, for any
commands and any number of failed writes. Commands are programs, so the invariant
(`SomInv`) says of what is left of one where it leads: `Toward(main, TRUE)` and
`Toward(main, FALSE)` hold of every rest of a power-on and a power-off (shown once for each
program), and each operation keeps them. `Kinds` and `HeldOK` say which programs can be under way
on both levels and that a value held between the read and the write of a shadow is
still the shadow's unless the handler came in between. `OffFirst` is why a
power-off needs no history: its first operation makes sysctl deaf to the SOM, so no
command of the SOM comes inside it. `NotOrphan` speaks of the rail that is up **or
will be after the next write** (`Up`), because a failed write hides what the
shadow already says. `WarmBootKeeps` proves the action property `WarmBootKeepsRails` from
that invariant and `Booting`: what a warm boot still has to do switches off nothing
that counts (`Keeps`), the flag is set before the peripherals' reset pulse, which
therefore stays away, and on motherboard 1.0 each pin behind the latch is high before
the latch opens (`Before`).

`OffRailsAreOff` (`OffIsOff`) needs `OffInv` next to `SomInv`. What is left of a power-off is
`Sweeping`: every rail that it no longer lowers is low, and on motherboard 1.0 every pin is
lowered before the latch opens. `Sweeps` is the same of a whole program, shown once each
for power off and for a cold boot. Other commands may raise a rail, but only by hand, and then
what is left of them is `Handy`: on motherboard 1.0 they reach only the lines of the display,
a line that they lower is latched at once, and the one that wakes the SOM is raised again. `Low` says
what holds all the while the flag says off: a rail is low, raised by hand,
or a reset line that the program under way will release (`Wake`), and on motherboard 1.0
a pin may have been lowered and not yet latched.

`SupplyOnlyAsHost` (`SupplyIsHost`) needs `SupplyInv`. The property alone is not inductive: whether
a mode may be set depends on what its rest still does. `Wiring(s, c, up, open)` says that the rest
`s` of command `c` fits a port that is supplied or not (`up`) and whose switches `open` are open:
it closes none before it has cut the supply and supplies none before all are
open. `Whole` says it from any port, and that a program does nothing else once it has begun
with the port. So what is left of the main program fits whatever a USB command of the
SOM makes of the port: undisturbed, such a command comes only before the main program has begun
with the port or when it is done with it (`SpiWired`). `Opened` counts a switch as open only if the shadow says so
and, unless the last write failed, the expander too, for the next write to the
expander, of whatever bit, carries the shadow out. A boot begins with an unsupplied port, which `Booting` says.

`KbdMenuProofs` proves all three invariants of `kbd_menu` (`MenuKeysStay`,
`ConsoleTypesOwnKeys`, `KbdTyped`) and the action property `OpeningPressIsLong`
(`OpeningIsNotPowerOn`), for any keys and any number held. A step of
the interrupt is a loop over the keys, so there is an induction within the step:
`Good` says what holds after the first i keys, `ScanKeeps` that one key more keeps it.
`KbdInv` adds to the properties what they rest on: `Remembered` (with a menu key
held, `last_menu_key` is set, which every key's end looks at), `Timed` (what
`age` measures), `Served` (the mode the main loop has read is still the mode, or the
menu is about to open again), `KeysUp` (a screen is told of no key only when no
key of the menu's is held). The positions of the matrix are assumed to be distinct
and Hyper to be scanned before Enter, which is the order of `matrix.h`
(`PositionsAssumption`).

`KbdLinkProofs` proves `CliTypesHold`: no character in any order, with resets
anywhere, makes the parser store a word outside its list (`cli_list[5]`), grow a
length beyond its limit or nest deeper than it may. The code checks for room when
a word begins and stores it when it ends; the invariant needed is that in every
state but `LIST` there is room. Of the link it proves `LinkTypesHold`
(`LinkTypeOK`, one lemma per action) and `LinkImplementsCli`: the UART's end of the
link does nothing to the parser that `Cli` does not allow.

`AnswersBelong` (`AnswerIsMine`) and `BeliefIsRight` (`BeliefMatches`) follow from one
inductive invariant, `LinkAlwaysHolds`. It has two parts beside the types.
`Talk` holds while a command of the menu is waited for and no answer can be late:
what is on the wire and still to be sent is whole commands (`WireOf`), the characters of
the current one are the last of them (`MineOf`), and a question is the first on the
wire, sent when nothing had been received (`AskedOf`). As long as the current command is
not reached, and after an answer has come, the parser puts out nothing that
could be taken for one (`Harmless`) and, once an answer has come, is in step with the
commands (`InStep`); an answer with an end is the only one, and in one of three
stages: on the wire, its text received, or complete (`AnswerStage`).
`Belief` follows the power: `Leads(d)` says that the SOM's power is d, or will be when
everything on its way has been read. Without doubt that is what the keyboard
believes (`Trusting`); during a power command that nothing came before it holds of what
the command is for (`Sound`, `Unanswered`), and what answers `c` is the power (`Asked`).
What the parser makes of a command's characters is stated once, whatever it was in
before (`PlainChar`, `NewlineChar`, `CleanStep`, `HarmlessIsSilent`); `SecondTry` is the reason
why the power command is sent twice: a newline leaves the parser in step, unless noise
has left it inside a parenthesis (the run `kbd_twice`). Both theorems
rest on `LinkAssumption`, of which they need that only `s` and `c` answer with a
text, as in the table of commands (`hwapi_pocket.c:413`).

`InterruptsProofs` proves the three invariants of the run `interrupts` and
`OneTimer` (`BusIsSafe`, `MessagesAreWhole`, `InterruptsTypesHold`, `OneTimerIsEnough`) from
one inductive invariant, `IInv`. `now` is always what is left of a known function
(`Rests`, `RestsShrink`); without a mark, the FIFO holds what is due before the
call that is next (`Due`), and `tx` is the main program's from its filling to the
end of the message; a masked transfer has the interrupt off and its chip
addressed, so a handler cannot come. There is one lemma per action.

Assumed: the named assumptions of the modules; in the theorems of
`PdSessionProofs` also `Message \subseteq Messages`, which says that the constant
`Messages` of `PdPolicy` leaves out nothing a compliant partner may send (`PdSession`'s own
next-state relation does not mention it); in `ContractIsAgreed` also `NotByHand`.

On induction: the library's induction theorems take an operator as a parameter, which
the provers cannot instantiate. `SetInduction` of `KbdMenuProofs` takes a set
instead; it serves where a function is defined by recursion over an interval of
numbers.

Model-checked only: what must eventually happen (`ChipFollows`, `PartnerGoneQuiet`, the
ends of handshakes, `DisplayComesUp`, `EscapeLeavesConsole`, `NoLostWork`, `SomHeard`):
liveness is out of the prover's reach. Every invariant and every action property of the passing
runs is a theorem.

## 5. Limits of the models

PdPolicy: preemption is at step boundaries and, in UNATTACHED, between the two
halves; a reset may be overwritten by the branch (`pd_com.c:206` against the
assignments in the branches), which the model does. Not modelled: the contents of
messages, VCONN and CC pins, message ids, the UART switch; in other modules: the
choice of a PDO (PickPdo), the registers behind `charger_enable_charge` (Charger),
the alternate mode and HPD (DisplayPort), the shared `tx` buffer and the
three-part write of the transmit FIFO (Interrupts).
Motherboard 2.0, without `FACTORY_MODE`. The FUSB302 reports a GoodCRC or a loss
by the next iteration; a source is not unplugged and replaced faster than a tick.

Charger: of the registers only `chg_en`, `reg_rst` and the first input limit; the
second (register 0x0F) is written after it with the same value. config3 (psys), OTG,
ADC readings and the fault output are left out. The session is reduced to what it
makes of the charger: looking or attached, asked, granted. The gauge decides freely
whether the battery is empty. The MP2650's own behaviour (what it comes up with,
that it charges after a reset, its watchdog) is taken from how the code uses it.

DisplayPort: motherboard 2.0 (a 1.0 refuses all VDMs). The multiplexer's orientation,
discovery of the identity, EXIT_MODE and messages to the cable are left out. A
partner of the other data role is host or device for the whole session but for the one swap
the code asks for. The hard reset at the end of a session makes the partner leave all modes.

SomPower: the handler is atomic towards the main loop; on motherboard 1.0 with the
second display `set_display_backlight` also opens the latch of the rails, and leaves it
open while the backlight is dimmed (`sysctl.c:126`), which is left out: it doubles the
states and sets none of the pins behind the latch; the PWM of the backlight, LEDs,
powersave, the direction registers of the expanders and the set-up of the SPI client are
left out; `set-gpio 6` belongs to PdPolicy. At every boot the modem pins are
low until the power-on sequence, warm or not.

KbdMenu: keys are debounced; shift, the wheel, the mouse and consumer reports,
the limit of six keys, the console's line and the rows that only show something
are left out, as are the rows that restart the keyboard or its USB. A power-off
by the host takes one step, although it waits for sysctl in the interrupt
(which a comment at `main.c:355` forbids). `service_menu` reads
`buffer_menu_key` once: it is a static variable that is not volatile, with nothing
between the two reads (`main.c:320`), so an optimising build loads it once.

Cli, KbdLink: one context; the SPI and USB transports, `set`, values of numbers, the
output buffer's limit and characters beyond the syntax and letters are left out.
The UARTs' FIFOs do not overflow. Noise comes while the keyboard's function is
not waiting, to sysctl only; the answers are not corrupted. The power-off from the USB
callback takes one step, its three characters together; what sysctl puts out for it
is nothing. The SOM switches itself off between two characters.

Interrupts: the branches of `pd_tick` and of the commands are chosen freely, and of
several like transfers in a row there is one. What bytes do that go to another
chip is not followed, nor what a received message contains. The handler's print is
left out: while the main loop prints, the handler waits for the mutex until
`PICO_STDIO_DEADLOCK_TIMEOUT_MS` and then loses its text, which takes longer than the
4 ms of `spi_com.c:45`. The deadlines of output and the
periodic timer of the configuration without a shared USB interrupt are left out.

Boot: `main` calls `hwapi_set_usb_mode` through a prototype with two parameters
(`inc/hwapi_pocket.h:7`), the definition has three (`hwapi_pocket.c:233`). The
missing argument is a nondeterministic value in `SomPower` (`Garbage`); whatever mode
the ports get, `SupplyIsHost` holds.

Not modelled at all: see the components of status `not_modelled`; rendering,
fonts, USB descriptors, register conversions of the gauge, host tools and
hardware design hold no control worth a model.

## 6. Plan

1. Done: `PdPolicy`, `PdSession`, `UsbPort` and the refinement, their proofs;
   `PickPdo`, `Charger`, the proofs of the choice; `DisplayPort`; `SomPower` on both
   boards with failing writes; `KbdMenu`; `Cli` and `KbdLink`, their first proofs;
   `Interrupts` and its proofs.
2. Done: proofs of all invariants of `PdPolicy`, `PdSession`, `Charger`, `DisplayPort`,
   `Interrupts`, `KbdMenu`, `KbdLink` and `SomPower`, and of the latter's
   action property `WarmBootKeepsRails`.
3. The USB line editor; the SPI and USB contexts of the CLI next to the UART's, with
   `set`; numbers of the CLI against a reference definition.
