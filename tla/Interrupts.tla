----------------------------- MODULE Interrupts -----------------------------
(***************************************************************************)
(* The interrupts of the system controller against its main loop, and the  *)
(* two things they share: the I2C controller (fusb302b.c, mp2650.c,        *)
(* max17320.c, ext_gpio.c, altmode.c) and the mutex of the USB serial port *)
(* (reform_stdio_usb.c).                                                   *)
(*                                                                         *)
(* All interrupts have one priority: a handler is one step, and the main   *)
(* program waits while one is due. The SPI handler can be masked, and most *)
(* drivers do so for a transfer; the worker of the USB stack cannot.       *)
(***************************************************************************)
EXTENDS Integers, Sequences

CONSTANTS
  SpiCommands,   \* what the SOM may ask for, of "nothing", "rail", "message"
  MaxChunks      \* bound on the rounds of out_chars, until all is written or
                 \* the host has taken nothing for too long

ASSUME SpiCommandsAssumption == SpiCommands \subseteq {"nothing", "rail", "message"}
ASSUME MaxChunksAssumption == MaxChunks \in Nat \ {0}

VARIABLES
  turn,      \* the part of loop() that comes next
  todo,      \* the functions it still has to call
  now,       \* the rest of the one it is in, call by call
  stage,     \* how far it is with the first of these calls
  irq,       \* IO_IRQ_BANK0, the SPI interrupt, is enabled
  edge,      \* it is pending
  tar,       \* the chip the I2C controller addresses (external)
  fifo,      \* what is in the FUSB302's transmit FIFO (external)
  tx,        \* who has filled the message buffer tx, or that both have
  air,       \* how the last message was transmitted (external)
  spoiled,   \* (history) a failed transfer or the SPI handler has left its mark
             \* on the message that is, or comes next, in the FIFO
  mutex,     \* who holds stdio_usb_mutex
  left,      \* rounds of out_chars that are left
  work,      \* the host has sent something that tud_task has not seen
  worker,    \* low_priority_worker_irq is pending
  one_shot_timer_pending,
  alarms     \* alarms that will call timer_task

loopVars == <<turn, todo, now, stage>>
busVars  == <<irq, tar>>
pdVars   == <<fifo, tx, air, spoiled>>
usbVars  == <<mutex, left, work, worker, one_shot_timer_pending, alarms>>
vars     == <<loopVars, busVars, edge, pdVars, usbVars>>

-----------------------------------------------------------------------------
(* Calls: one transfer, with the interrupt masked or not, or another step. *)

Devices == {"fusb", "mps", "max", "pca9557", "pca9536", "tmux"}
Parts == {"sop", "body", "eop"}

Call(do, dev, masked, part) == [do |-> do, dev |-> dev, masked |-> masked, part |-> part]
Calls == [do : {"write", "read", "hdr", "obj", "print", "getchar"}, dev : Devices \cup {"none"},
          masked : BOOLEAN, part : Parts \cup {"flush", "none"}]

Write(dev)  == Call("write", dev, TRUE, "none")
Read(dev)   == Call("read", dev, TRUE, "none")
Part(p)     == Call("write", "fusb", TRUE, p)
Other(do)   == Call(do, "none", FALSE, "none")

fusb_write_byte    == <<Write("fusb")>>
fusb_flush         == <<Part("flush")>>      \* CONTROL0 with TX_FLUSH
fusb_read_buf      == <<Read("fusb")>>
max_write_word     == <<Write("max")>>
max_read_word      == <<Read("max")>>
pca9557_write_byte == <<Write("pca9557")>>
pca9536_write_byte == <<Write("pca9536")>>
tmuxhs4446_write   == <<Write("tmux")>>

(* Of the functions for the charger, these do not mask the interrupt.      *)
mps_write_byte == <<Call("write", "mps", FALSE, "none")>>
mps_write_buf  == <<Call("write", "mps", FALSE, "none")>>
mps_read_buf   == <<Call("read", "mps", FALSE, "none")>>
mps_read_word  == <<Read("mps")>>

(* A failure ends the function. An empty FIFO has no message to read.      *)
fusb_read_message == <<Read("fusb"), Read("fusb")>>

(* Mutant: the end comes before the message. *)
SendEopFirst == <<Part("sop"), Part("eop"), Part("body")>>

fusb_send_message == <<Part("sop"), Part("body"), Part("eop")>>

(* tx is filled, store by store, of which there are two here, then goes    *)
(* out. send_vdm prints what is in it before that.                         *)
send_message == <<Other("hdr"), Other("obj")>> \o fusb_send_message
send_vdm     == <<Other("hdr"), Other("obj"), Other("print")>> \o fusb_send_message

printf  == <<Other("print")>>
getchar == <<Other("getchar")>>

-----------------------------------------------------------------------------
(* What the parts of loop() call. Of several like calls in a row there is  *)
(* one.                                                                    *)

handle_commands ==
  {<<getchar>>, <<getchar, printf>>, <<getchar, pca9557_write_byte>>,
   <<getchar, printf, send_message>>, <<getchar, send_vdm>>}

pd_set_fusb_switches == <<fusb_write_byte, pca9536_write_byte, tmuxhs4446_write>>

set_charge == <<mps_write_buf, mps_read_buf, mps_write_byte>>

pd_comm_pd ==
  {<<fusb_read_buf, fusb_flush>>,
   <<fusb_read_buf, fusb_read_message>>,
   <<fusb_read_buf, fusb_read_message, printf, send_message>>,
   <<fusb_read_buf, fusb_read_message, send_vdm>>,
   <<fusb_read_buf, fusb_read_message>> \o set_charge}

(* pd_tick up to the branch of the state. It skips pd_comm_pd in setup,    *)
(* where the switches are set by the branch itself.                        *)
pd_tick_first == {pd_set_fusb_switches \o c : c \in pd_comm_pd \cup {<<>>}}

(* Setup, which may also follow a pd_comm_pd that has given up, unattached *)
(* with a partner found, and the branches that read a status and may send  *)
(* a message.                                                              *)
pd_tick ==
  {<<printf>>, <<printf>> \o set_charge \o <<fusb_write_byte, fusb_flush>>,
   <<fusb_read_buf, fusb_write_byte>> \o pd_set_fusb_switches,
   <<fusb_read_buf>>, <<fusb_read_buf, send_message>>}

charger_tick == {<<mps_write_byte>>}

(* Every 100 rounds; a gauge that does not answer is asked no more.        *)
gauge_and_dump ==
  {<<>>, <<max_read_word, mps_read_buf>>,
   <<max_read_word, max_write_word, max_read_word, mps_read_buf, mps_read_word>>}

Turns == {"commands", "pd_first", "pd", "charger", "gauge"}
Work == [commands |-> handle_commands, pd_first |-> pd_tick_first, pd |-> pd_tick,
         charger |-> charger_tick, gauge |-> gauge_and_dump]
After == [commands |-> "pd_first", pd_first |-> "pd", pd |-> "charger",
          charger |-> "gauge", gauge |-> "commands"]

-----------------------------------------------------------------------------
(* The main program runs when no interrupt is due.                         *)

Runs == ~(edge /\ irq) /\ ~worker

Fetch ==
  /\ Runs /\ now = <<>> /\ todo # <<>>
  /\ now' = Head(todo) /\ todo' = Tail(todo)
  /\ UNCHANGED <<turn, stage, busVars, edge, pdVars, usbVars>>

loop ==
  /\ Runs /\ now = <<>> /\ todo = <<>>
  /\ todo' \in Work[turn]
  /\ turn' = After[turn]
  /\ UNCHANGED <<now, stage, busVars, edge, pdVars, usbVars>>

Transfers == now # <<>> /\ Head(now).do \in {"write", "read"}
Moving == stage \in {"select", "data"}

(* Mutant: nothing is masked. *)
MaskNothing(call) == irq' = irq

(* sysctl_disable_irqs                                                     *)
Mask(call) == irq' = IF call.masked THEN FALSE ELSE irq

(* Mutant: a failure returns early, as in fusb_read_buf. *)
UnmaskUnlessFailed(call, ok) == irq' = IF call.masked /\ ok THEN TRUE ELSE irq

(* sysctl_enable_irqs                                                      *)
Unmask(call, ok) == irq' = IF call.masked THEN TRUE ELSE irq

Begin ==
  /\ Runs /\ Transfers /\ stage = "none"
  /\ Mask(Head(now))
  /\ tar' = Head(now).dev
  /\ stage' = IF Head(now).do = "read" THEN "select" ELSE "data"
  /\ UNCHANGED <<turn, todo, now, edge, pdVars, usbVars>>

(* The register is selected, or the chip does not answer, which only the   *)
(* drivers but fusb_read_buf ignore; that returns with the interrupt off.  *)
Selected ==
  /\ Runs /\ stage = "select"
  /\ \/ stage' = "data" /\ tar' = Head(now).dev /\ UNCHANGED now
     \/ /\ Head(now).dev = "fusb"
        /\ stage' = "none" /\ now' = <<>>
        /\ UNCHANGED tar
  /\ UNCHANGED <<turn, todo, irq, edge, pdVars, usbVars>>

-----------------------------------------------------------------------------
(* The transmit FIFO: a message in order, or junk. The end of a message    *)
(* transmits what is there.                                                *)

Empty == [holds |-> "empty", from |-> "none"]
Junk  == [holds |-> "junk", from |-> "none"]

Put(f, from, filled, part) ==
  CASE part = "sop"  -> IF f = Empty THEN [holds |-> "sop", from |-> from] ELSE Junk
    [] part = "body" -> IF f = [holds |-> "sop", from |-> from] /\ filled = from
                        THEN [holds |-> "body", from |-> from] ELSE Junk
    [] part \in {"eop", "flush"} -> Empty

Transmitted(f, excuse) ==
  CASE f.holds = "body" -> "whole"
    [] f.holds # "body" /\ excuse -> "excused"
    [] OTHER -> "broken"

(* A part that fails, of which all, some or no bytes have arrived, ends    *)
(* the message, but what is in the FIFO stays, until the next message has  *)
(* ended or the FIFO is flushed.                                           *)
PutPart(ok) ==
  LET part == Head(now).part IN
  IF part = "none"
  THEN UNCHANGED pdVars
  ELSE /\ UNCHANGED tx
       /\ \/ /\ fifo' = Put(fifo, "main", tx, part)
             /\ air' = IF part = "eop" THEN Transmitted(fifo, spoiled) ELSE air
          \/ /\ ~ok /\ UNCHANGED air
             /\ fifo' = fifo \/ (part # "flush" /\ fifo' = Junk)
       /\ spoiled' = IF ok /\ part \in {"sop", "body"} THEN spoiled ELSE fifo' # Empty

(* The rest of the transfer. A function of several transfers ends with one *)
(* that fails, and may end with one that reads.                            *)
Transferred ==
  /\ Runs /\ stage = "data"
  /\ \E ok \in BOOLEAN :
       /\ Unmask(Head(now), ok)
       /\ PutPart(ok)
       /\ \/ ok /\ now' = Tail(now)
          \/ (~ok \/ Head(now).do = "read") /\ now' = <<>>
  /\ stage' = "none"
  /\ UNCHANGED <<turn, todo, tar, edge, usbVars>>

(* What the handler has filled since the first store is not all written    *)
(* over by the second.                                                     *)
FillTx ==
  /\ Runs /\ now # <<>> /\ Head(now).do \in {"hdr", "obj"}
  /\ tx' = IF Head(now).do = "hdr" \/ tx = "main" THEN "main" ELSE "mixed"
  /\ now' = Tail(now)
  /\ UNCHANGED <<turn, todo, stage, busVars, edge, fifo, air, spoiled, usbVars>>

-----------------------------------------------------------------------------
(* The USB serial port. No other context keeps the mutex for longer than   *)
(* a step, so the main program does not wait for it.                       *)

(* The host may not listen: then nothing is written.                       *)
stdio_usb_out_chars ==
  /\ Runs /\ now # <<>> /\ Head(now).do = "print" /\ mutex = "none"
  /\ mutex' = "main"
  /\ left' \in 0..MaxChunks
  /\ UNCHANGED <<loopVars, busVars, edge, pdVars, work, worker, one_shot_timer_pending, alarms>>

(* tud_cdc_write, tud_task, tud_cdc_write_flush                            *)
WriteChunk ==
  /\ Runs /\ mutex = "main" /\ left > 0
  /\ left' = left - 1
  /\ work' = FALSE
  /\ UNCHANGED <<loopVars, busVars, edge, pdVars, mutex, worker, one_shot_timer_pending, alarms>>

(* Characters are read, or, if there are none any more, tud_task is run.   *)
stdio_usb_in_chars ==
  /\ Runs /\ now # <<>> /\ Head(now).do = "getchar" /\ mutex = "none"
  /\ \/ /\ now' = Tail(now)
        /\ UNCHANGED mutex
     \/ mutex' = "main" /\ UNCHANGED now
  /\ UNCHANGED <<turn, todo, stage, busVars, edge, pdVars, left, work, worker,
                 one_shot_timer_pending, alarms>>

(* Mutant: a return without mutex_exit. *)
ReturnLocked == UNCHANGED mutex

mutex_exit == mutex' = "none"

Done ==
  /\ Runs /\ mutex = "main" /\ left = 0
  /\ mutex_exit
  /\ work' \in IF Head(now).do = "getchar" THEN {work, FALSE} ELSE {work}
  /\ now' = Tail(now)
  /\ UNCHANGED <<turn, todo, stage, busVars, edge, pdVars, left, worker,
                 one_shot_timer_pending, alarms>>

Main ==
  \/ loop \/ Fetch \/ Begin \/ Selected \/ Transferred \/ FillTx
  \/ stdio_usb_out_chars \/ WriteChunk \/ stdio_usb_in_chars \/ Done

-----------------------------------------------------------------------------
(* The SPI interrupt. What it prints is lost if the main program is just   *)
(* printing: it waits for the mutex until PICO_STDIO_DEADLOCK_TIMEOUT_MS   *)
(* is over.                                                                *)

SomSelects ==
  /\ edge' = TRUE
  /\ UNCHANGED <<loopVars, busVars, pdVars, usbVars>>

(* The main program fills tx, and the end of its message is to come.       *)
Sending == now # <<>> /\ now[Len(now)].part = "eop" /\ Head(now).do # "hdr"

(* A message of the handler's, of which n parts get through.               *)
SpiSends(n) ==
  LET begun  == Put(fifo, "spi", "spi", "sop")
      filled == Put(begun, "spi", "spi", "body")
  IN
  /\ tx' = "spi"
  /\ fifo' = CASE n = 0 -> fifo [] n = 1 -> begun [] n = 2 -> filled [] n = 3 -> Empty
  /\ air' = IF n = 3 THEN Transmitted(filled, spoiled \/ Sending) ELSE air
  /\ spoiled' = (Sending \/ fifo' # Empty)

spi_commands_task ==
  /\ edge /\ irq
  /\ edge' = FALSE
  /\ \E c \in SpiCommands :
       \/ c = "nothing" /\ UNCHANGED <<tar, pdVars>>
       \/ c = "rail" /\ tar' = "pca9557" /\ UNCHANGED pdVars
       \/ c = "message" /\ tar' = "fusb" /\ \E n \in 0..3 : SpiSends(n)
  /\ work' \in IF mutex = "none" THEN {work, FALSE} ELSE {work}
  /\ UNCHANGED <<loopVars, irq, mutex, left, worker, one_shot_timer_pending, alarms>>

-----------------------------------------------------------------------------
(* The USB interrupt and the alarm.                                        *)

usb_irq ==
  /\ work' = TRUE /\ worker' = TRUE
  /\ UNCHANGED <<loopVars, busVars, edge, pdVars, mutex, left, one_shot_timer_pending, alarms>>

AddAlarm == alarms' = IF one_shot_timer_pending THEN alarms ELSE alarms + 1

low_priority_worker_irq ==
  /\ worker /\ worker' = FALSE
  /\ \/ /\ mutex = "none"
        /\ work' = FALSE
        /\ UNCHANGED <<one_shot_timer_pending, alarms>>
     \/ /\ mutex # "none"
        /\ one_shot_timer_pending' = TRUE
        /\ AddAlarm
        /\ UNCHANGED work
  /\ UNCHANGED <<loopVars, busVars, edge, pdVars, mutex, left>>

(* Mutant: the flag is not cleared. *)
TimerStaysPending == UNCHANGED one_shot_timer_pending

ClearPending == one_shot_timer_pending' = FALSE

timer_task ==
  /\ alarms > 0
  /\ alarms' = alarms - 1
  /\ ClearPending
  /\ worker' = TRUE
  /\ UNCHANGED <<loopVars, busVars, edge, pdVars, mutex, left, work>>

-----------------------------------------------------------------------------
Init ==
  /\ turn = "commands" /\ todo = <<>> /\ now = <<>> /\ stage = "none"
  /\ irq = TRUE /\ edge = FALSE /\ tar = "fusb"
  /\ fifo = Empty /\ tx = "main" /\ air = "none" /\ spoiled = FALSE
  /\ mutex = "none" /\ left = 0 /\ work = FALSE /\ worker = FALSE
  /\ one_shot_timer_pending = FALSE /\ alarms = 0

Next ==
  \/ Main
  \/ SomSelects \/ spi_commands_task
  \/ usb_irq \/ low_priority_worker_irq \/ timer_task

Spec == Init /\ [][Next]_vars

(* A handler that is due runs. The SOM and the host interrupt again and    *)
(* again, but leave times when nothing is due, and the main program goes   *)
(* on then. The alarm is not so in step with the loop that it always finds *)
(* the mutex taken.                                                        *)
Fairness ==
  /\ []<>Runs
  /\ SF_vars(Main)
  /\ WF_vars(spi_commands_task) /\ WF_vars(low_priority_worker_irq)
  /\ SF_vars(timer_task /\ mutex = "none")

FairSpec == Spec /\ Fairness

-----------------------------------------------------------------------------
InterruptsTypeOK ==
  /\ turn \in Turns
  /\ todo \in Seq(Seq(Calls)) /\ now \in Seq(Calls)
  /\ stage \in {"none", "select", "data"}
  /\ Moving => Transfers
  /\ irq \in BOOLEAN /\ edge \in BOOLEAN
  /\ tar \in Devices
  /\ fifo \in [holds : {"empty", "sop", "body", "junk"}, from : {"main", "spi", "none"}]
  /\ tx \in {"main", "spi", "mixed"}
  /\ air \in {"none", "whole", "excused", "broken"} /\ spoiled \in BOOLEAN
  /\ mutex \in {"none", "main"} /\ left \in 0..MaxChunks
  /\ (mutex = "main" => now # <<>> /\ Head(now).do \in {"print", "getchar"})
  /\ work \in BOOLEAN /\ worker \in BOOLEAN
  /\ one_shot_timer_pending \in BOOLEAN /\ alarms \in Nat

(***************************************************************************)
(* Properties.                                                             *)
(***************************************************************************)

(* In a transfer the bus controller addresses the chip of its driver. Only *)
(* the bytes of the charger's drivers, the three that do not mask the      *)
(* interrupt, can go to another one, and then to one that a command of the *)
(* SOM's has addressed.                                                    *)
OnlyChargerStrays ==
  Moving /\ tar # Head(now).dev =>
    /\ Head(now).dev = "mps" /\ ~Head(now).masked
    /\ \/ tar = "pca9557" /\ "rail" \in SpiCommands
       \/ tar = "fusb" /\ "message" \in SpiCommands

(* What is transmitted is a message of one sender, in order. If a transfer *)
(* fails or the SPI handler sends a message in the midst of another, that  *)
(* spoils no more than the messages concerned and the one after them.      *)
MessagesWhole == air # "broken"

(* "make sure we don't either create multiple one shot timers, or miss     *)
(* creating one": the flag says whether there is an alarm.                 *)
OneTimer == alarms = IF one_shot_timer_pending THEN 1 ELSE 0

(* The SOM is heard, however often chips fail to answer and drivers return *)
(* with the interrupt off: another driver turns it on again.               *)
SomHeard == edge ~> ~edge

(* What the host sends is seen to, whoever holds the mutex when it comes.  *)
NoLostWork == work ~> ~work
=============================================================================
