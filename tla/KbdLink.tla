------------------------------ MODULE KbdLink ------------------------------
(***************************************************************************)
(* The keyboard's remote control (remote.c) and the system controller's    *)
(* command line (uart_com.c, cli.c) at the two ends of a UART. The         *)
(* keyboard sends a command and waits 110 ms for an answer, which its      *)
(* receive interrupt collects; sysctl reads what has arrived once per      *)
(* iteration of its main loop.                                             *)
(*                                                                         *)
(* An answer is two pieces, its text and the \r\n at its end; only the     *)
(* texts of s and c have an end. Of the texts, the power digit of c and    *)
(* whether it answers the command that is waited for are kept.             *)
(***************************************************************************)
EXTENDS Cli

CONSTANTS
  Lines,        \* what the user types into the console, sent without \r
  Noise,        \* the characters that may be left over on the wire
  MaxNoise,     \* bound on the characters that wait to be read when noise comes
  MaxRx,        \* bound on the characters that wait to be read
  MaxTx,        \* bound on the pieces of answers on their way
  MaxBatch      \* 32: uart_max

On == <<"1", "p">>
Off == <<"0", "p">>
Status == <<"s">>
Voltages == <<"c">>

ASSUME LinkAssumption ==
  /\ {On, Off, Status, Voltages} \subseteq Names \cap Seq(Letters \cup Digits)
  /\ Answers[On] = Void /\ Answers[Off] = Void
  /\ \A n \in Names : Answers[n] = "str" <=> n \in {Status, Voltages}
  /\ Lines \subseteq Seq(Chars) \ {<<>>} /\ Noise \subseteq Chars
  /\ MaxRx \in Nat /\ MaxTx \in Nat /\ MaxNoise \in 0..MaxRx /\ MaxBatch \in Nat \ {0}

VARIABLES
  (* the system controller *)
  uart_rx,            \* characters to be read, each with: is it of the current command
  sc,                 \* "loop", or "handle": in handle_uart_commands
  uart_max, cli_err,
  som_is_powered,
  (* the keyboard *)
  uart_tx,            \* pieces of answers on their way to it
  todo,               \* the commands its function has still to try
  sending,            \* the characters of the current one that are not sent yet
  kb,                 \* "idle", "send" or "wait"
  response,           \* the text in the buffer
  uart_rx_i,          \* 0 if the next text begins the buffer, otherwise 1
  uart_response_complete,
  soc_power_on,
  called,             \* the function that was called last
  (* history *)
  late,               \* an answer to an earlier command may still come
  upset,              \* what may keep the command that was called last from its effect:
                      \* "nothing", "paren" (an open parenthesis) or "much"
  doubt               \* whether soc_power_on is what sysctl said or was told

sysctlVars == <<cliVars, sc, uart_max, cli_err, som_is_powered>>
remoteVars == <<todo, sending, kb, soc_power_on, called>>
collected == <<response, uart_rx_i, uart_response_complete>>
history == <<late, upset, doubt>>
vars == <<sysctlVars, uart_rx, uart_tx, remoteVars, collected, history>>

Console == <<"console">>
RemoteFunctions == {On, Off, Status, Voltages, Console}
Commands == Seq(Chars) \ {<<>>}
Texts == {"nothing", "P0", "P1", "garbled"}
Received == [char : Chars, mine : BOOLEAN]
Sent == [part : {"text", "end"}, says : Texts, mine : BOOLEAN]

Empty == [says |-> "nothing", mine |-> FALSE]
Garbled == [says |-> "garbled", mine |-> FALSE]

Overtaken(queue) == [i \in DOMAIN queue |-> [queue[i] EXCEPT !.mine = FALSE]]

(* sysctl has done with everything it was sent.                            *)
Settled == uart_rx = <<>> /\ uart_tx = <<>> /\ sc = "loop"

-----------------------------------------------------------------------------
(* The system controller.                                                  *)

loop ==
  /\ sc = "loop"
  /\ sc' = "handle" /\ uart_max' = MaxBatch /\ cli_err' = FALSE
  /\ UNCHANGED <<cliVars, som_is_powered, uart_rx, uart_tx, remoteVars, collected, history>>

(* The pieces that a character of the current command, or not, puts out.   *)
Pieces(mine) ==
  LET text == [part |-> "text", mine |-> mine,
               says |-> CASE ran' = Voltages -> IF som_is_powered THEN "P1" ELSE "P0"
                          [] OTHER -> "nothing"]
  IN CASE cli_out' = Void  -> <<>>
       [] cli_out' = "str" -> <<text, [part |-> "end", mine |-> mine, says |-> "nothing"]>>
       [] OTHER            -> <<text>>

handle_uart_commands ==
  /\ sc = "handle" /\ uart_rx # <<>> /\ uart_max > 0 /\ Len(uart_tx) < MaxTx
  /\ cli_char(Head(uart_rx).char)
  /\ uart_tx' = uart_tx \o Pieces(Head(uart_rx).mine)
  /\ cli_err' = (cli_out' \in Codes \/ (cli_out' = Void /\ cli_err))
  /\ som_is_powered' = CASE ran' = On -> TRUE [] ran' = Off -> FALSE [] OTHER -> som_is_powered
  /\ uart_rx' = Tail(uart_rx) /\ uart_max' = uart_max - 1
  /\ UNCHANGED <<sc, remoteVars, collected, history>>

(* An error resets the context once more, whatever came after it.          *)
EndOfBatch ==
  /\ sc = "handle" /\ (uart_rx = <<>> \/ uart_max = 0)
  /\ sc' = "loop"
  /\ Quiet
  /\ \/ cli_err /\ cli_reset
     \/ ~cli_err /\ UNCHANGED parserVars
  /\ uart_max' = 0 /\ cli_err' = FALSE
  /\ UNCHANGED <<som_is_powered, uart_rx, uart_tx, remoteVars, collected, history>>

(* The SOM switches itself off.                                            *)
SomOff ==
  /\ som_is_powered
  /\ som_is_powered' = FALSE
  /\ doubt' = TRUE /\ upset' = "much"
  /\ UNCHANGED <<cliVars, sc, uart_max, cli_err, uart_rx, uart_tx, remoteVars, collected, late>>

-----------------------------------------------------------------------------
(* The keyboard.                                                           *)

(* Mutant: what the last command left is not cleared. *)
remote_try_command_dirty(cmd) ==
  /\ kb' = "send" /\ sending' = cmd
  /\ uart_rx' = Overtaken(uart_rx) /\ uart_tx' = Overtaken(uart_tx)
  /\ response' = Empty /\ UNCHANGED <<uart_rx_i, uart_response_complete>>

remote_try_command(cmd) ==
  /\ kb' = "send" /\ sending' = cmd
  /\ uart_rx' = Overtaken(uart_rx) /\ uart_tx' = Overtaken(uart_tx)
  /\ response' = Empty /\ uart_rx_i' = 0 /\ uart_response_complete' = FALSE

(* Mutant: the command is sent once. *)
remote_turn_on_som_once == <<Append(On, NL)>>

remote_turn_on_som == <<Append(On, NL), Append(On, NL)>>

(* Called by the menu or the console. A command needs a parser in which    *)
(* nothing was left, the power-on only one without an open parenthesis.    *)
(* The carriage return at the end of a command is a newline to sysctl; the *)
(* lines of the console have none.                                         *)
Call(f, tries) ==
  /\ kb = "idle"
  /\ called' = f
  /\ late' = ~Settled
  /\ upset' = CASE f = On /\ Settled -> IF cli_paren = 0 THEN "nothing" ELSE "paren"
                [] f \in {Off, Status, Voltages} /\ Settled /\ AtStart -> "nothing"
                [] OTHER -> "much"
  /\ remote_try_command(Head(tries)) /\ todo' = Tail(tries)
  /\ UNCHANGED <<sysctlVars, soc_power_on, doubt>>

(* The UART is slower than the main loop of sysctl.                        *)
uart_puts ==
  /\ kb = "send" /\ Len(uart_rx) < MaxRx
  /\ uart_rx' = Append(uart_rx, [char |-> Head(sending), mine |-> TRUE])
  /\ sending' = Tail(sending)
  /\ kb' = IF Len(sending) = 1 THEN "wait" ELSE "send"
  /\ UNCHANGED <<sysctlVars, uart_tx, todo, soc_power_on, called, collected, history>>

(* The receive interrupt; the newline of the end begins the buffer again.  *)
remote_on_uart_rx ==
  /\ uart_tx # <<>>
  /\ uart_tx' = Tail(uart_tx)
  /\ \/ /\ Head(uart_tx).part = "text"
        /\ response' = IF uart_rx_i = 0
                       THEN [says |-> Head(uart_tx).says, mine |-> Head(uart_tx).mine]
                       ELSE Garbled
        /\ uart_rx_i' = 1
        /\ UNCHANGED uart_response_complete
     \/ /\ Head(uart_tx).part = "end"
        /\ uart_rx_i' = 0 /\ uart_response_complete' = TRUE
        /\ UNCHANGED response
  /\ UNCHANGED <<sysctlVars, uart_rx, remoteVars, history>>

(* remote_turn_on_som, remote_turn_off_som and remote_get_voltages: what   *)
(* the keyboard then believes. Other texts than that of c may have any     *)
(* digit, or none, where that of the power is.                             *)
Believes(ok) ==
  CASE called = On  -> soc_power_on' = TRUE
    [] called = Off -> soc_power_on' = FALSE
    [] called = Voltages /\ ok ->
         IF response.says \in {"P0", "P1"} THEN soc_power_on' = (response.says = "P1")
                                          ELSE soc_power_on' \in BOOLEAN
    [] OTHER -> UNCHANGED soc_power_on

Doubts(ok) ==
  CASE called \in {On, Off} \/ (called = Voltages /\ ok) -> doubt' = (late' \/ upset # "nothing")
    [] called = Console -> doubt' = TRUE
    [] OTHER -> UNCHANGED doubt

Tried(ok) ==
  /\ \/ /\ todo # <<>>
        /\ remote_try_command(Head(todo)) /\ todo' = Tail(todo)
        /\ UNCHANGED <<soc_power_on, doubt>>
     \/ /\ todo = <<>>
        /\ kb' = "idle"
        /\ Believes(ok) /\ Doubts(ok)
        /\ UNCHANGED <<todo, sending, uart_rx, uart_tx, collected>>
  /\ UNCHANGED <<sysctlVars, called, upset>>

Answered == kb = "wait" /\ uart_response_complete /\ UNCHANGED late /\ Tried(TRUE)

TimedOut == kb = "wait" /\ ~uart_response_complete /\ late' = (late \/ ~Settled) /\ Tried(FALSE)

(* The host's power-off comes in a report that the timer interrupt handles *)
(* (hid_task, tud_hid_set_report_cb): remote_turn_off_som runs inside of   *)
(* whatever the main loop does, to its end, which is a timeout since 0p    *)
(* has no answer. It clears the buffer and sends its characters between    *)
(* those of a command that is being sent.                                  *)
Report == [i \in 1..3 |-> [char |-> Append(Off, NL)[i], mine |-> FALSE]]

(* What it interrupts ends without another idea of the power than off: it  *)
(* leaves it alone, sets it to off, or has still to send the power-on.     *)
OffRemains == kb = "wait" /\ (called \in {Status, Off} \/ (called = On /\ todo # <<>>))

PowerOffReport ==
  /\ Len(uart_rx) + Len(Report) <= MaxRx
  /\ uart_rx' = uart_rx \o Report
  /\ response' = Empty /\ uart_rx_i' = 0 /\ uart_response_complete' = FALSE
  /\ soc_power_on' = FALSE
  /\ \/ /\ kb = "idle"
        /\ called' = Off /\ late' = ~Settled
        /\ upset' = IF Settled /\ AtStart THEN "nothing" ELSE "much"
     \/ /\ kb # "idle"
        /\ late' = (late \/ kb = "send" \/ response # Empty)
        /\ upset' = IF OffRemains THEN upset ELSE "much"
        /\ UNCHANGED called
  /\ doubt' = (late' \/ upset' # "nothing")
  /\ UNCHANGED <<sysctlVars, uart_tx, todo, sending, kb>>

-----------------------------------------------------------------------------
(* The wire (external): left-overs of another time.                        *)
NoiseComes ==
  /\ kb = "idle" /\ Len(uart_rx) < MaxNoise
  /\ \E c \in Noise : uart_rx' = Append(uart_rx, [char |-> c, mine |-> FALSE])
  /\ doubt' = TRUE /\ upset' = "much"
  /\ UNCHANGED <<sysctlVars, uart_tx, remoteVars, collected, late>>

Init ==
  /\ CliInit
  /\ uart_rx = <<>> /\ sc = "loop" /\ uart_max = 0 /\ cli_err = FALSE
  /\ som_is_powered \in BOOLEAN
  /\ uart_tx = <<>> /\ todo = <<>> /\ sending = <<>> /\ kb = "idle"
  /\ response = Empty /\ uart_rx_i = 0 /\ uart_response_complete = FALSE
  /\ soc_power_on = FALSE
  /\ called = Nothing /\ late = FALSE /\ upset = "much" /\ doubt = TRUE

Next ==
  \/ loop \/ handle_uart_commands \/ EndOfBatch \/ SomOff
  \/ \E f \in {Off, Status, Voltages} : Call(f, <<Append(f, NL)>>)
  \/ Call(On, remote_turn_on_som)
  \/ \E line \in Lines : Call(Console, <<line>>)
  \/ uart_puts \/ remote_on_uart_rx \/ Answered \/ TimedOut \/ PowerOffReport
  \/ NoiseComes

Spec == Init /\ [][Next]_vars

-----------------------------------------------------------------------------
LinkTypeOK ==
  /\ CliTypeOK
  /\ sc \in {"loop", "handle"} /\ uart_max \in 0..MaxBatch /\ cli_err \in BOOLEAN
  /\ uart_rx \in Seq(Received) /\ Len(uart_rx) <= MaxRx
  /\ uart_tx \in Seq(Sent) /\ Len(uart_tx) <= MaxTx + 1
  /\ kb \in {"idle", "send", "wait"} /\ (kb = "send" <=> sending # <<>>)
  /\ sending \in Seq(Chars) /\ todo \in Seq(Commands) /\ Len(todo) <= 1
  /\ called \in RemoteFunctions \cup {Nothing}
  /\ response \in [says : Texts, mine : BOOLEAN] /\ uart_rx_i \in 0..1
  /\ uart_response_complete \in BOOLEAN
  /\ som_is_powered \in BOOLEAN /\ soc_power_on \in BOOLEAN
  /\ late \in BOOLEAN /\ doubt \in BOOLEAN /\ upset \in {"nothing", "paren", "much"}

(* A complete answer to a command of the menu is the one to the command    *)
(* that is waited for, and nothing else is in the buffer, unless an answer *)
(* came too late for an earlier command. A line of the console is left     *)
(* out: an error and an answer may come of it. (remote_try_command)        *)
AnswerIsMine ==
  kb = "wait" /\ uart_response_complete /\ ~late /\ called # Console => response.mine

(* When the link is at rest, the keyboard's idea of the power is right,    *)
(* unless it rests on a late answer, a parser with left-overs in it, or    *)
(* the SOM has switched itself off. (soc_power_on, som_is_powered)         *)
BeliefMatches == kb = "idle" /\ Settled /\ ~doubt => soc_power_on = som_is_powered

(***************************************************************************)
(* What a comment promises and the code does not keep.                     *)
(***************************************************************************)

(* "there might be some noise / leftovers in sysctl's uart [...] so send   *)
(* the command twice": whatever sysctl had read before, the SOM is on when *)
(* power-on has been sent twice, in time.                                  *)
TwiceIsEnough ==
  kb = "idle" /\ Settled /\ called = On /\ ~late /\ upset # "much" => som_is_powered
=============================================================================
