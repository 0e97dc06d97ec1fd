--------------------------- MODULE KbdLinkProofs ---------------------------
(***************************************************************************)
(* The link between the keyboard and the system controller stays in its    *)
(* types, for any commands, console lines, noise and bounds; what it does  *)
(* to the system controller's parser is what Cli lets happen to it; an     *)
(* answer waited for belongs to the command it is taken for; and at rest   *)
(* the keyboard knows whether the SOM is powered.                          *)
(***************************************************************************)
EXTENDS KbdLink, SequenceTheorems, TLAPS

-----------------------------------------------------------------------------
(* The parser of the command line stays in its types, whatever characters  *)
(* come and whenever its caller resets it.                                 *)

(* A word that grows is the beginning of a name or any other word.         *)
LEMMA ExtendedIsWord == \A word, c : Extended(word, c) \in Words
  BY DEF Extended, Words

LEMMA NumbersAreWords == Nothing \in Words /\ Number \in Words
  BY DEF Words

LEMMA LimitsAreNumbers ==
  /\ MaxWordLen \in Nat /\ MaxWordLen >= 1
  /\ MaxListWords \in Nat /\ MaxListWords >= 1
  /\ MaxParen \in Nat
  BY LimitsAssumption

(* What a step does to the parser, and what it may put out. *)
ParserOK ==
  /\ cli_state \in {"LIST", "WORD", "NUMBER", "HEX"}
  /\ cli_word \in Words
  /\ cli_word_len \in 0..(2 * MaxWordLen)
  /\ cli_paren \in 0..MaxParen
  /\ cli_list \in Seq(Words) /\ Len(cli_list) <= MaxListWords
  /\ cli_state # "LIST" => Len(cli_list) < MaxListWords
OutputOK ==
  /\ cli_out \in Codes \cup {"u64", "str", Void}
  /\ ran \in Names \cup {Nothing}

LEMMA TypeOKParts == CliTypeOK <=> ParserOK /\ OutputOK
  BY DEF CliTypeOK, ParserOK, OutputOK

LEMMA ResetOK == cli_reset => ParserOK'
  <1> SUFFICES ASSUME cli_reset PROVE ParserOK'
    OBVIOUS
  <1>1. cli_list' \in Seq(Words) /\ Len(cli_list') = 0
    BY DEF cli_reset
  <1> QED
    BY <1>1, NumbersAreWords, LimitsAreNumbers DEF cli_reset, ParserOK

LEMMA QuietOK == Quiet => OutputOK'
  BY DEF Quiet, OutputOK

LEMMA ErrorOK == \A code \in Codes : cli_error(code) => ParserOK' /\ OutputOK'
  BY ResetOK DEF cli_error, OutputOK

LEMMA EvalOK == \A list : cli_eval(list) => OutputOK'
  <1> SUFFICES ASSUME NEW list, cli_eval(list) PROVE OutputOK'
    OBVIOUS
  <1>1. CASE list = <<>> /\ Quiet
    BY <1>1, QuietOK
  <1>2. CASE list[1] \in Names /\ ran' = list[1] /\ cli_out' = Answers[list[1]]
    <2>1. Answers[list[1]] \in {"u64", "str", Void}
      BY <1>2, NamesAssumption
    <2> QED
      BY <1>2, <2>1 DEF OutputOK
  <1>3. CASE cli_out' = "undf" /\ ran' = Nothing
    BY <1>3 DEF OutputOK, Codes
  <1> QED
    BY <1>1, <1>2, <1>3 DEF cli_eval

LEMMA KeptOK == ParserOK /\ UNCHANGED parserVars => ParserOK'
  BY DEF ParserOK, parserVars

(* Every character keeps the types: one step per action of cli_char. *)
LEMMA CharKeepsTypes ==
  ASSUME ParserOK, NEW c, cli_char(c)
  PROVE  ParserOK' /\ OutputOK'
  <1> USE LimitsAreNumbers
  <1>1. CASE Blank(c)
    BY <1>1, KeptOK, QuietOK DEF Blank
  <1>2. CASE EndOfList(c)
    BY <1>2, EvalOK, ResetOK DEF EndOfList
  <1>3. CASE TooManyWords(c)
    BY <1>3, ErrorOK DEF TooManyWords, Codes
  <1>4. CASE BeginWord(c)
    <2>1. Len(cli_list) < MaxListWords
      BY <1>4 DEF BeginWord, Full, ParserOK
    <2>2. ParserOK'
      BY <1>4, <2>1, ExtendedIsWord DEF BeginWord, ParserOK
    <2> QED
      BY <1>4, <2>2, QuietOK DEF BeginWord
  <1>5. CASE BeginNumber(c)
    <2>1. Len(cli_list) < MaxListWords
      BY <1>5 DEF BeginNumber, Full, ParserOK
    <2>2. ParserOK'
      BY <1>5, <2>1, NumbersAreWords DEF BeginNumber, ParserOK
    <2> QED
      BY <1>5, <2>2, QuietOK DEF BeginNumber
  <1>6. CASE OpenList(c)
    <2>1. CASE cli_paren + 1 <= MaxParen /\ cli_paren' = cli_paren + 1 /\ cli_list' = <<>>
               /\ Quiet /\ UNCHANGED <<cli_state, cli_word, cli_word_len>>
      <3>1. cli_list' \in Seq(Words) /\ Len(cli_list') = 0
        BY <2>1
      <3>2. ParserOK'
        BY <2>1, <3>1 DEF ParserOK
      <3> QED
        BY <2>1, <3>2, QuietOK
    <2>2. CASE cli_error("maxp")
      BY <2>2, ErrorOK DEF Codes
    <2> QED
      BY <1>6, <2>1, <2>2 DEF OpenList
  <1>7. CASE NotCallable(c)
    BY <1>7, ErrorOK DEF NotCallable, Codes
  <1>8. CASE BeginHex(c)
    <2>1. Len(cli_list) < MaxListWords
      BY <1>8 DEF BeginHex, Full, ParserOK
    <2>2. ParserOK'
      BY <1>8, <2>1, NumbersAreWords DEF BeginHex, ParserOK
    <2> QED
      BY <1>8, <2>2, QuietOK DEF BeginHex
  <1>9. CASE Ignored(c)
    BY <1>9, KeptOK, QuietOK DEF Ignored
  <1>10. CASE EndOfWord(c)
    <2>1. CASE cli_eval(Append(cli_list, cli_word)) /\ cli_reset
      BY <2>1, EvalOK, ResetOK
    <2>2. CASE cli_state # "LIST" /\ cli_state' = "LIST" /\ cli_list' = Append(cli_list, cli_word)
               /\ Quiet /\ UNCHANGED <<cli_word, cli_word_len, cli_paren>>
      <3>1. cli_list' \in Seq(Words) /\ Len(cli_list') = Len(cli_list) + 1
        BY <2>2 DEF ParserOK
      <3>2. Len(cli_list) < MaxListWords /\ Len(cli_list) \in Nat
        BY <2>2 DEF ParserOK
      <3>3. ParserOK'
        BY <2>2, <3>1, <3>2 DEF ParserOK
      <3> QED
        BY <2>2, <3>3, QuietOK
    <2> QED
      BY <1>10, <2>1, <2>2 DEF EndOfWord
  <1>11. CASE WordGrows(c)
    <2>1. CASE cli_word_len + 1 <= MaxWordLen /\ cli_word' = Extended(cli_word, c)
               /\ cli_word_len' = cli_word_len + 1
               /\ Quiet /\ UNCHANGED <<cli_state, cli_paren, cli_list>>
      <3>1. ParserOK'
        BY <2>1, ExtendedIsWord DEF ParserOK
      <3> QED
        BY <2>1, <3>1, QuietOK
    <2>2. CASE cli_error("wlen")
      BY <2>2, ErrorOK DEF Codes
    <2> QED
      BY <1>11, <2>1, <2>2 DEF WordGrows
  <1>12. CASE NumberGrows(c)
    BY <1>12, KeptOK, QuietOK, ErrorOK DEF NumberGrows, Codes
  <1>13. CASE HexGrows(c)
    <2>1. CASE cli_word_len + 1 <= 2 * MaxWordLen /\ cli_word_len' = cli_word_len + 1
               /\ Quiet /\ UNCHANGED <<cli_state, cli_word, cli_paren, cli_list>>
      <3>1. ParserOK'
        BY <2>1 DEF ParserOK
      <3> QED
        BY <2>1, <3>1, QuietOK
    <2>2. CASE cli_error("wlen") \/ cli_error("stxh")
      BY <2>2, ErrorOK DEF Codes
    <2> QED
      BY <1>13, <2>1, <2>2 DEF HexGrows
  <1> QED
    BY <1>1, <1>2, <1>3, <1>4, <1>5, <1>6, <1>7, <1>8, <1>9, <1>10, <1>11, <1>12, <1>13
    DEF cli_char

LEMMA CliInitHasTypes == CliInit => CliTypeOK
  <1> SUFFICES ASSUME CliInit PROVE ParserOK /\ OutputOK
    BY TypeOKParts
  <1>1. cli_list \in Seq(Words) /\ Len(cli_list) = 0
    BY DEF CliInit
  <1> QED
    BY <1>1, NumbersAreWords, LimitsAreNumbers DEF CliInit, ParserOK, OutputOK

(* No character, in any order and from either transport, lets the parser   *)
(* store a word beyond its list of five or a length beyond its limit.      *)
(* (cli_char, cli_list)                                                    *)
THEOREM CliTypesHold == CliSpec => []CliTypeOK
  <1>1. CliInit => CliTypeOK
    BY CliInitHasTypes
  <1>2. CliTypeOK /\ [CliNext]_cliVars => CliTypeOK'
    <2> SUFFICES ASSUME ParserOK, OutputOK, [CliNext]_cliVars PROVE (ParserOK /\ OutputOK)'
      BY TypeOKParts DEF CliTypeOK, ParserOK, OutputOK
    <2>1. CASE ResetByCaller
      BY <2>1, ResetOK, KeptOK, QuietOK DEF ResetByCaller
    <2>2. CASE \E c \in Chars : cli_char(c)
      BY <2>2, CharKeepsTypes
    <2>3. CASE UNCHANGED cliVars
      BY <2>3, KeptOK DEF cliVars, OutputOK
    <2> QED
      BY <2>1, <2>2, <2>3 DEF CliNext
  <1> QED
    BY <1>1, <1>2, PTL DEF CliSpec

-----------------------------------------------------------------------------
(* The invariant, part by part.                                            *)

LoopOK == sc \in {"loop", "handle"} /\ uart_max \in 0..MaxBatch /\ cli_err \in BOOLEAN
RxOK == uart_rx \in Seq(Received) /\ Len(uart_rx) <= MaxRx
TxOK == uart_tx \in Seq(Sent) /\ Len(uart_tx) <= MaxTx + 1
TryOK ==
  /\ kb \in {"idle", "send", "wait"} /\ (kb = "send" <=> sending # <<>>)
  /\ sending \in Seq(Chars) /\ todo \in Seq(Commands) /\ Len(todo) <= 1
CalledOK == called \in RemoteFunctions \cup {Nothing}
CollectedOK ==
  /\ response \in [says : Texts, mine : BOOLEAN] /\ uart_rx_i \in 0..1
  /\ uart_response_complete \in BOOLEAN
PowerOK == som_is_powered \in BOOLEAN /\ soc_power_on \in BOOLEAN
HistoryOK == late \in BOOLEAN /\ doubt \in BOOLEAN /\ upset \in {"nothing", "paren", "much"}

LinkInv ==
  /\ CliTypeOK /\ LoopOK /\ RxOK /\ TxOK /\ TryOK
  /\ CalledOK /\ CollectedOK /\ PowerOK /\ HistoryOK

LEMMA LinkParts == LinkTypeOK <=> LinkInv
  BY Zenon DEF LinkInv, LinkTypeOK, LoopOK, RxOK, TxOK, TryOK, CalledOK, CollectedOK, PowerOK, HistoryOK

-----------------------------------------------------------------------------
(* The operators.                                                          *)

LEMMA OvertakenRx ==
  ASSUME NEW q \in Seq(Received)
  PROVE  Overtaken(q) \in Seq(Received) /\ Len(Overtaken(q)) = Len(q)
  <1>1. Overtaken(q) \in [1..Len(q) -> Received]
    <2>1. DOMAIN q = 1..Len(q)
      BY LenProperties
    <2>2. \A r \in Received : [r EXCEPT !.mine = FALSE] \in Received
      BY DEF Received
    <2>3. \A i \in DOMAIN q : q[i] \in Received
      BY <2>1, ElementOfSeq
    <2> QED
      BY <2>1, <2>2, <2>3 DEF Overtaken
  <1>2. Overtaken(q) \in Seq(Received)
    BY <1>1, SeqDef, Len(q) \in Nat
  <1>3. DOMAIN Overtaken(q) = 1..Len(q)
    BY <1>1
  <1> QED
    BY <1>2, <1>3, LenProperties

LEMMA OvertakenTx ==
  ASSUME NEW q \in Seq(Sent)
  PROVE  Overtaken(q) \in Seq(Sent) /\ Len(Overtaken(q)) = Len(q)
  <1>1. Overtaken(q) \in [1..Len(q) -> Sent]
    <2>1. DOMAIN q = 1..Len(q)
      BY LenProperties
    <2>2. \A r \in Sent : [r EXCEPT !.mine = FALSE] \in Sent
      BY DEF Sent
    <2>3. \A i \in DOMAIN q : q[i] \in Sent
      BY <2>1, ElementOfSeq
    <2> QED
      BY <2>1, <2>2, <2>3 DEF Overtaken
  <1>2. Overtaken(q) \in Seq(Sent)
    BY <1>1, SeqDef, Len(q) \in Nat
  <1>3. DOMAIN Overtaken(q) = 1..Len(q)
    BY <1>1
  <1> QED
    BY <1>2, <1>3, LenProperties

(* A function tries one or two commands, none of them empty. *)
LEMMA NamesAreCommands == \A n \in Names : Append(n, NL) \in Commands
  <1> SUFFICES ASSUME NEW n \in Names PROVE Append(n, NL) \in Commands
    OBVIOUS
  <1>1. NL \in Chars
    BY DEF Chars, Syntax
  <1>2. n \in Seq(Chars)
    <2>1. n \in Seq(Letters \cup Digits \cup Others)
      BY NamesAssumption
    <2>2. Letters \cup Digits \cup Others \subseteq Chars
      BY DEF Chars
    <2> QED
      BY ONLY <2>1, <2>2, SeqMonotonic
  <1> QED
    BY ONLY <1>1, <1>2, AppendProperties DEF Commands

(* What a character puts on the wire. *)
LEMMA PiecesOK ==
  ASSUME NEW mine \in BOOLEAN
  PROVE  Pieces(mine) \in Seq(Sent) /\ Len(Pieces(mine)) <= 2
  <1> DEFINE text == [part |-> "text", mine |-> mine,
                      says |-> CASE ran' = Voltages -> IF som_is_powered THEN "P1" ELSE "P0"
                                 [] OTHER -> "nothing"]
             end == [part |-> "end", mine |-> mine, says |-> "nothing"]
  <1>1. text \in Sent
    <2>1. (CASE ran' = Voltages -> IF som_is_powered THEN "P1" ELSE "P0"
             [] OTHER -> "nothing") \in Texts
      BY DEF Texts
    <2> QED
      BY <2>1 DEF Sent
  <1>2. end \in Sent
    BY DEF Sent, Texts
  <1> HIDE DEF text, end
  <1>3. Pieces(mine) \in {<<>>, <<text, end>>, <<text>>}
    BY DEF Pieces, text, end, Void
  <1>4. <<>> \in Seq(Sent) /\ <<text, end>> \in Seq(Sent) /\ <<text>> \in Seq(Sent)
    BY <1>1, <1>2
  <1>5. Len(<<>>) = 0 /\ Len(<<text, end>>) = 2 /\ Len(<<text>>) = 1
    OBVIOUS
  <1>6. CASE Pieces(mine) = <<>>
    BY <1>4, <1>5, <1>6
  <1>7. CASE Pieces(mine) = <<text, end>>
    BY <1>4, <1>5, <1>7
  <1>8. CASE Pieces(mine) = <<text>>
    BY <1>4, <1>5, <1>8
  <1> QED
    BY <1>3, <1>6, <1>7, <1>8

-----------------------------------------------------------------------------
(* The steps.                                                              *)

(* A command that is sent finds the wires typed, and clears the buffer. *)
LEMMA TryCommandKeepsTypes ==
  ASSUME RxOK, TxOK, NEW cmd \in Commands, remote_try_command(cmd),
         todo' \in Seq(Commands), Len(todo') <= 1
  PROVE  RxOK' /\ TxOK' /\ TryOK' /\ CollectedOK'
  <1>1. RxOK' /\ TxOK'
    BY OvertakenRx, OvertakenTx DEF remote_try_command, RxOK, TxOK
  <1>2. TryOK'
    BY DEF remote_try_command, TryOK, Commands
  <1>3. CollectedOK'
    <2>1. uart_response_complete' \in BOOLEAN
      BY Zenon DEF remote_try_command
    <2>2. Empty \in [says : Texts, mine : BOOLEAN]
      BY DEF Empty, Texts
    <2> QED
      BY <2>1, <2>2 DEF remote_try_command, CollectedOK
  <1> QED
    BY <1>1, <1>2, <1>3

(* What a step leaves alone keeps its type. *)
LEMMA Untouched ==
  /\ CliTypeOK /\ UNCHANGED cliVars => CliTypeOK'
  /\ LoopOK /\ UNCHANGED <<sc, uart_max, cli_err>> => LoopOK'
  /\ RxOK /\ UNCHANGED uart_rx => RxOK'
  /\ TxOK /\ UNCHANGED uart_tx => TxOK'
  /\ TryOK /\ UNCHANGED <<todo, sending, kb>> => TryOK'
  /\ CalledOK /\ UNCHANGED called => CalledOK'
  /\ CollectedOK /\ UNCHANGED collected => CollectedOK'
  /\ PowerOK /\ UNCHANGED <<som_is_powered, soc_power_on>> => PowerOK'
  /\ HistoryOK /\ UNCHANGED history => HistoryOK'
  <1>1. CliTypeOK /\ UNCHANGED cliVars => CliTypeOK'
    BY DEF CliTypeOK, cliVars, parserVars
  <1>2. LoopOK /\ UNCHANGED <<sc, uart_max, cli_err>> => LoopOK'
    BY DEF LoopOK
  <1>3. RxOK /\ UNCHANGED uart_rx => RxOK'
    BY DEF RxOK
  <1>4. TxOK /\ UNCHANGED uart_tx => TxOK'
    BY DEF TxOK
  <1>5. TryOK /\ UNCHANGED <<todo, sending, kb>> => TryOK'
    BY DEF TryOK
  <1>6. CalledOK /\ UNCHANGED called => CalledOK'
    BY DEF CalledOK
  <1>7. CollectedOK /\ UNCHANGED collected => CollectedOK'
    BY DEF CollectedOK, collected
  <1>8. PowerOK /\ UNCHANGED <<som_is_powered, soc_power_on>> => PowerOK'
    BY DEF PowerOK
  <1>9. HistoryOK /\ UNCHANGED history => HistoryOK'
    BY DEF HistoryOK, history
  <1> QED
    BY <1>1, <1>2, <1>3, <1>4, <1>5, <1>6, <1>7, <1>8, <1>9

LEMMA LinkBounds == MaxRx \in Nat /\ MaxTx \in Nat /\ MaxNoise \in 0..MaxRx /\ MaxBatch \in Nat \ {0}
  BY LinkAssumption

LEMMA LoopKeepsTypes == LinkInv /\ loop => LinkInv'
  <1> SUFFICES ASSUME LinkInv, loop PROVE LinkInv'
    OBVIOUS
  <1>1. LoopOK'
    <2>1. cli_err' \in BOOLEAN
      BY Zenon DEF loop
    <2> QED
      BY <2>1, LinkBounds DEF loop, LoopOK
  <1> QED
    BY <1>1, Untouched DEF loop, LinkInv, remoteVars

LEMMA HandleKeepsTypes == LinkInv /\ handle_uart_commands => LinkInv'
  <1> SUFFICES ASSUME LinkInv, handle_uart_commands PROVE LinkInv'
    OBVIOUS
  <1>1. CliTypeOK'
    BY CharKeepsTypes DEF LinkInv, handle_uart_commands, CliTypeOK, ParserOK, OutputOK
  <1>2. Head(uart_rx) \in Received /\ Tail(uart_rx) \in Seq(Received)
        /\ Len(Tail(uart_rx)) = Len(uart_rx) - 1
    BY HeadTailProperties DEF LinkInv, handle_uart_commands, RxOK
  <1>3. RxOK'
    BY <1>2, LinkBounds DEF LinkInv, handle_uart_commands, RxOK
  <1>4. TxOK'
    <2>1. Head(uart_rx).mine \in BOOLEAN
      BY <1>2 DEF Received
    <2>2. Pieces(Head(uart_rx).mine) \in Seq(Sent) /\ Len(Pieces(Head(uart_rx).mine)) <= 2
      BY <2>1, PiecesOK
    <2> QED
      BY <2>2, ConcatProperties, LinkBounds DEF LinkInv, handle_uart_commands, TxOK
  <1>5. LoopOK'
    <2>1. cli_err' \in BOOLEAN
      BY Zenon DEF handle_uart_commands
    <2>2. sc' \in {"loop", "handle"} /\ uart_max' \in 0..MaxBatch
      BY LinkBounds DEF LinkInv, handle_uart_commands, LoopOK
    <2> QED
      BY <2>1, <2>2 DEF LoopOK
  <1>6. PowerOK'
    <2>1. som_is_powered' \in BOOLEAN
      BY DEF LinkInv, handle_uart_commands, PowerOK
    <2> QED
      BY <2>1 DEF LinkInv, handle_uart_commands, PowerOK, remoteVars
  <1> QED
    BY <1>1, <1>3, <1>4, <1>5, <1>6, Untouched DEF handle_uart_commands, LinkInv, remoteVars

LEMMA EndOfBatchKeepsTypes == LinkInv /\ EndOfBatch => LinkInv'
  <1> SUFFICES ASSUME LinkInv, EndOfBatch PROVE LinkInv'
    OBVIOUS
  <1>1. CliTypeOK'
    <2>1. ParserOK' /\ OutputOK'
      BY ResetOK, KeptOK, QuietOK DEF LinkInv, EndOfBatch, CliTypeOK, ParserOK
    <2> QED
      BY <2>1 DEF CliTypeOK, ParserOK, OutputOK
  <1>2. LoopOK'
    <2>1. cli_err' \in BOOLEAN
      BY Zenon DEF EndOfBatch
    <2> QED
      BY <2>1, LinkBounds DEF EndOfBatch, LoopOK
  <1> QED
    BY <1>1, <1>2, Untouched DEF EndOfBatch, LinkInv, remoteVars

LEMMA SomOffKeepsTypes == LinkInv /\ SomOff => LinkInv'
  <1> SUFFICES ASSUME LinkInv, SomOff PROVE LinkInv'
    OBVIOUS
  <1>1. PowerOK' /\ HistoryOK'
    BY DEF LinkInv, SomOff, PowerOK, HistoryOK, remoteVars
  <1> QED
    BY <1>1, Untouched DEF SomOff, LinkInv, remoteVars

LEMMA CallKeepsTypes ==
  ASSUME LinkInv, NEW f \in RemoteFunctions, NEW tries \in Seq(Commands),
         Len(tries) \in 1..2, Call(f, tries)
  PROVE  LinkInv'
  <1>1. tries # <<>>
    OBVIOUS
  <1>2. Head(tries) \in Commands /\ Tail(tries) \in Seq(Commands) /\ Len(Tail(tries)) <= 1
    <2>1. Head(tries) \in Commands /\ Tail(tries) \in Seq(Commands)
          /\ Len(Tail(tries)) = Len(tries) - 1
      BY ONLY <1>1, tries \in Seq(Commands), HeadTailProperties
    <2> QED
      BY <2>1
  <1>3. RxOK' /\ TxOK' /\ TryOK' /\ CollectedOK'
    BY <1>2, TryCommandKeepsTypes DEF LinkInv, Call
  <1>4. CalledOK'
    BY DEF Call, CalledOK
  <1>5. HistoryOK'
    <2>1. late' \in BOOLEAN
      BY DEF Call
    <2>2. upset' \in {"nothing", "paren", "much"}
      BY DEF Call
    <2> QED
      BY <2>1, <2>2 DEF LinkInv, Call, HistoryOK
  <1> QED
    BY <1>3, <1>4, <1>5, Untouched DEF LinkInv, Call, sysctlVars, PowerOK

LEMMA PutsKeepsTypes == LinkInv /\ uart_puts => LinkInv'
  <1> SUFFICES ASSUME LinkInv, uart_puts PROVE LinkInv'
    OBVIOUS
  <1>1. Head(sending) \in Chars /\ Tail(sending) \in Seq(Chars)
        /\ Len(Tail(sending)) = Len(sending) - 1
    BY HeadTailProperties DEF LinkInv, uart_puts, TryOK
  <1>2. RxOK'
    <2>1. [char |-> Head(sending), mine |-> TRUE] \in Received
      BY <1>1 DEF Received
    <2> QED
      BY <2>1, AppendProperties, LinkBounds DEF LinkInv, uart_puts, RxOK
  <1>3. TryOK'
    <2>1. sending \in Seq(Chars) /\ Len(sending) \in Nat
      BY DEF LinkInv, TryOK
    <2>2. Tail(sending) # <<>> <=> Len(sending) # 1
      <3>1. Tail(sending) = <<>> => Len(Tail(sending)) = 0
        <4>1. Len(<<>>) = 0
          OBVIOUS
        <4> QED
          BY <4>1, Zenon
      <3>2. Tail(sending) # <<>> => Len(Tail(sending)) # 0
        BY <1>1
      <3> QED
        BY <1>1, <2>1, <3>1, <3>2
    <2> QED
      BY <1>1, <2>2 DEF LinkInv, uart_puts, TryOK
  <1> QED
    BY <1>2, <1>3, Untouched DEF LinkInv, uart_puts, sysctlVars

LEMMA ReceiveKeepsTypes == LinkInv /\ remote_on_uart_rx => LinkInv'
  <1> SUFFICES ASSUME LinkInv, remote_on_uart_rx PROVE LinkInv'
    OBVIOUS
  <1>1. Head(uart_tx) \in Sent /\ Tail(uart_tx) \in Seq(Sent)
        /\ Len(Tail(uart_tx)) = Len(uart_tx) - 1
    BY HeadTailProperties DEF LinkInv, remote_on_uart_rx, TxOK
  <1>2. TxOK'
    BY <1>1, LinkBounds DEF LinkInv, remote_on_uart_rx, TxOK
  <1>3. CollectedOK'
    <2>1. [says |-> Head(uart_tx).says, mine |-> Head(uart_tx).mine] \in [says : Texts, mine : BOOLEAN]
      BY <1>1 DEF Sent
    <2>2. Garbled \in [says : Texts, mine : BOOLEAN]
      BY DEF Garbled, Texts
    <2>3. uart_response_complete' \in BOOLEAN
      BY Zenon DEF LinkInv, remote_on_uart_rx, CollectedOK
    <2> QED
      BY <2>1, <2>2, <2>3 DEF LinkInv, remote_on_uart_rx, CollectedOK
  <1> QED
    BY <1>2, <1>3, Untouched DEF LinkInv, remote_on_uart_rx, sysctlVars, remoteVars

(* What the keyboard does with the end of a command. *)
LEMMA TriedKeepsTypes ==
  ASSUME LinkInv, NEW ok \in BOOLEAN, kb = "wait", late' \in BOOLEAN, Tried(ok)
  PROVE  LinkInv'
  <1>1. CASE todo # <<>> /\ remote_try_command(Head(todo)) /\ todo' = Tail(todo)
             /\ UNCHANGED <<soc_power_on, doubt>>
    <2>1. Head(todo) \in Commands /\ Tail(todo) \in Seq(Commands)
          /\ Len(Tail(todo)) = Len(todo) - 1
      BY <1>1, HeadTailProperties DEF LinkInv, TryOK
    <2>2. Len(Tail(todo)) <= 1
      BY <2>1 DEF LinkInv, TryOK
    <2>3. RxOK' /\ TxOK' /\ TryOK' /\ CollectedOK'
      BY <1>1, <2>1, <2>2, TryCommandKeepsTypes DEF LinkInv
    <2>4. HistoryOK' /\ PowerOK' /\ CalledOK'
      BY <1>1 DEF LinkInv, Tried, HistoryOK, PowerOK, CalledOK, sysctlVars
    <2> QED
      BY <2>3, <2>4, Untouched DEF LinkInv, Tried, sysctlVars
  <1>2. CASE todo = <<>> /\ kb' = "idle" /\ Believes(ok) /\ Doubts(ok)
             /\ UNCHANGED <<todo, sending, uart_rx, uart_tx, collected>>
    <2>1. soc_power_on' \in BOOLEAN
      BY <1>2 DEF Believes, LinkInv, PowerOK
    <2>2. doubt' \in BOOLEAN
      BY <1>2 DEF Doubts, LinkInv, HistoryOK
    <2>3. PowerOK' /\ HistoryOK' /\ CalledOK'
      BY <2>1, <2>2 DEF LinkInv, Tried, PowerOK, HistoryOK, CalledOK, sysctlVars
    <2>4. TryOK'
      BY <1>2 DEF LinkInv, TryOK
    <2> QED
      BY <1>2, <2>3, <2>4, Untouched DEF LinkInv, Tried, sysctlVars
  <1> QED
    BY <1>1, <1>2 DEF Tried

LEMMA ReportOK == Report \in Seq(Received) /\ Len(Report) = 3
  <1>1. NL \in Chars /\ Off \in Names
    BY LinkAssumption DEF Chars, Syntax
  <1>2. Append(Off, NL) \in Seq(Chars)
    BY NamesAreCommands, <1>1 DEF Commands
  <1>3. Len(Append(Off, NL)) = 3
    BY DEF Off
  <1>4. \A i \in 1..3 : Append(Off, NL)[i] \in Chars
    BY <1>2, <1>3, ElementOfSeq
  <1>5. Report \in [1..3 -> Received]
    BY <1>4 DEF Report, Received
  <1>6. Report \in Seq(Received)
    BY <1>5, SeqDef
  <1>7. DOMAIN Report = 1..3
    BY <1>5
  <1> QED
    BY <1>6, <1>7, LenProperties

LEMMA PowerOffKeepsTypes == LinkInv /\ PowerOffReport => LinkInv'
  <1> SUFFICES ASSUME LinkInv, PowerOffReport PROVE LinkInv'
    OBVIOUS
  <1>1. RxOK'
    <2>1. uart_rx' = uart_rx \o Report /\ Len(uart_rx) + Len(Report) <= MaxRx
      BY DEF PowerOffReport
    <2>2. uart_rx \in Seq(Received)
      BY DEF LinkInv, RxOK
    <2>3. uart_rx' \in Seq(Received) /\ Len(uart_rx') = Len(uart_rx) + Len(Report)
      BY <2>1, <2>2, ReportOK, ConcatProperties
    <2> QED
      BY <2>1, <2>3 DEF RxOK
  <1>2. CollectedOK'
    <2>1. uart_response_complete' \in BOOLEAN
      BY Zenon DEF PowerOffReport
    <2>2. Empty \in [says : Texts, mine : BOOLEAN]
      BY DEF Empty, Texts
    <2> QED
      BY <2>1, <2>2 DEF PowerOffReport, CollectedOK
  <1>3. PowerOK'
    <2>1. soc_power_on' \in BOOLEAN
      BY Zenon DEF PowerOffReport
    <2> QED
      BY <2>1 DEF LinkInv, PowerOffReport, PowerOK, sysctlVars
  <1>4. CalledOK'
    BY DEF LinkInv, PowerOffReport, CalledOK, RemoteFunctions
  <1>5. HistoryOK'
    <2>1. late' \in BOOLEAN
      BY Zenon DEF LinkInv, PowerOffReport, HistoryOK
    <2>2. upset' \in {"nothing", "paren", "much"}
      BY DEF LinkInv, PowerOffReport, HistoryOK
    <2>3. doubt' \in BOOLEAN
      BY Zenon DEF PowerOffReport
    <2> QED
      BY <2>1, <2>2, <2>3 DEF HistoryOK
  <1> QED
    BY <1>1, <1>2, <1>3, <1>4, <1>5, Untouched DEF LinkInv, PowerOffReport, sysctlVars

LEMMA NoiseKeepsTypes == LinkInv /\ NoiseComes => LinkInv'
  <1> SUFFICES ASSUME LinkInv, NoiseComes PROVE LinkInv'
    OBVIOUS
  <1>1. RxOK'
    <2>1. PICK c \in Noise : uart_rx' = Append(uart_rx, [char |-> c, mine |-> FALSE])
      BY DEF NoiseComes
    <2>2. [char |-> c, mine |-> FALSE] \in Received
      BY LinkAssumption DEF Received
    <2> QED
      BY <2>1, <2>2, AppendProperties, LinkBounds DEF LinkInv, NoiseComes, RxOK
  <1>2. HistoryOK'
    <2>1. doubt' \in BOOLEAN /\ late' \in BOOLEAN
      BY Zenon DEF LinkInv, NoiseComes, HistoryOK
    <2> QED
      BY <2>1 DEF NoiseComes, HistoryOK
  <1> QED
    BY <1>1, <1>2, Untouched DEF LinkInv, NoiseComes, sysctlVars, remoteVars

-----------------------------------------------------------------------------
(* The theorems.                                                           *)

LEMMA InitHasTypes == Init => LinkInv
  <1> SUFFICES ASSUME Init PROVE LinkInv
    OBVIOUS
  <1>1. CliTypeOK
    BY CliInitHasTypes DEF Init
  <1>2. LoopOK
    <2>1. cli_err \in BOOLEAN
      BY Zenon DEF Init
    <2> QED
      BY <2>1, LinkBounds DEF Init, LoopOK
  <1>3. RxOK /\ TxOK
    BY EmptySeq, LinkBounds DEF Init, RxOK, TxOK
  <1>4. TryOK
    BY EmptySeq DEF Init, TryOK
  <1>5. CalledOK
    BY DEF Init, CalledOK
  <1>6. CollectedOK
    <2>1. uart_response_complete \in BOOLEAN
      BY Zenon DEF Init
    <2>2. Empty \in [says : Texts, mine : BOOLEAN]
      BY DEF Empty, Texts
    <2> QED
      BY <2>1, <2>2 DEF Init, CollectedOK
  <1>7. PowerOK
    BY Zenon DEF Init, PowerOK
  <1>8. HistoryOK
    <2>1. late \in BOOLEAN /\ doubt \in BOOLEAN
      BY Zenon DEF Init
    <2> QED
      BY <2>1 DEF Init, HistoryOK
  <1> QED
    BY <1>1, <1>2, <1>3, <1>4, <1>5, <1>6, <1>7, <1>8 DEF LinkInv

LEMMA StepKeepsTypes == LinkInv /\ [Next]_vars => LinkInv'
  <1> SUFFICES ASSUME LinkInv, [Next]_vars PROVE LinkInv'
    OBVIOUS
  <1>1. CASE loop
    BY <1>1, LoopKeepsTypes
  <1>2. CASE handle_uart_commands
    BY <1>2, HandleKeepsTypes
  <1>3. CASE EndOfBatch
    BY <1>3, EndOfBatchKeepsTypes
  <1>4. CASE SomOff
    BY <1>4, SomOffKeepsTypes
  <1>5. CASE \E f \in {Off, Status, Voltages} : Call(f, <<Append(f, NL)>>)
    <2>1. PICK f \in {Off, Status, Voltages} : Call(f, <<Append(f, NL)>>)
      BY <1>5
    <2>2. Append(f, NL) \in Commands
      BY NamesAreCommands, LinkAssumption
    <2> DEFINE tries == <<Append(f, NL)>>
    <2>3. tries \in Seq(Commands) /\ Len(tries) \in 1..2
      BY <2>2
    <2>4. f \in RemoteFunctions
      BY DEF RemoteFunctions
    <2> QED
      BY <2>1, <2>3, <2>4, CallKeepsTypes
  <1>6. CASE Call(On, remote_turn_on_som)
    <2>1. Append(On, NL) \in Commands
      BY NamesAreCommands, LinkAssumption
    <2>2. remote_turn_on_som \in Seq(Commands) /\ Len(remote_turn_on_som) \in 1..2
      BY <2>1 DEF remote_turn_on_som
    <2>3. On \in RemoteFunctions
      BY DEF RemoteFunctions
    <2> QED
      BY <1>6, <2>2, <2>3, CallKeepsTypes
  <1>7. CASE \E line \in Lines : Call(Console, <<line>>)
    <2>1. PICK line \in Lines : Call(Console, <<line>>)
      BY <1>7
    <2>2. line \in Commands
      BY LinkAssumption DEF Commands
    <2> DEFINE tries == <<line>>
    <2>3. tries \in Seq(Commands) /\ Len(tries) \in 1..2
      BY <2>2
    <2>4. Console \in RemoteFunctions
      BY DEF RemoteFunctions
    <2> QED
      BY <2>1, <2>3, <2>4, CallKeepsTypes
  <1>8. CASE uart_puts
    BY <1>8, PutsKeepsTypes
  <1>9. CASE remote_on_uart_rx
    BY <1>9, ReceiveKeepsTypes
  <1>10. CASE Answered
    <2>1. late' \in BOOLEAN
      BY <1>10 DEF Answered, LinkInv, HistoryOK
    <2> QED
      BY <1>10, <2>1, TriedKeepsTypes DEF Answered
  <1>11. CASE TimedOut
    <2>1. late' \in BOOLEAN
      BY <1>11, Zenon DEF TimedOut
    <2> QED
      BY <1>11, <2>1, TriedKeepsTypes DEF TimedOut
  <1>12. CASE NoiseComes
    BY <1>12, NoiseKeepsTypes
  <1>13. CASE UNCHANGED vars
    BY <1>13, Untouched DEF LinkInv, vars, sysctlVars, remoteVars
  <1>14. CASE PowerOffReport
    BY <1>14, PowerOffKeepsTypes
  <1> QED
    BY <1>1, <1>2, <1>3, <1>4, <1>5, <1>6, <1>7, <1>8, <1>9, <1>10, <1>11, <1>12, <1>13, <1>14
    DEF Next

(* Whatever is typed, left over on the wire, lost or late, both ends of    *)
(* the link stay in their types and no queue outgrows its bound.           *)
(* (handle_uart_commands, remote_try_command)                              *)
THEOREM LinkTypesHold == Spec => []LinkTypeOK
  <1>1. Init => LinkInv
    BY InitHasTypes
  <1>2. LinkInv /\ [Next]_vars => LinkInv'
    BY StepKeepsTypes
  <1>3. LinkInv => LinkTypeOK
    BY LinkParts
  <1> QED
    BY <1>1, <1>2, <1>3, PTL DEF Spec

(* The system controller's end of the link implements Cli: every step is a *)
(* character of Chars for the parser, a reset by its caller, or no step of *)
(* the parser at all. So what holds of Cli holds here. (uart_cli_ctx)      *)
THEOREM LinkImplementsCli == Spec => CliSpec
  <1>1. Init => CliInit
    BY DEF Init
  <1>2. LinkInv /\ [Next]_vars => [CliNext]_cliVars
    <2> SUFFICES ASSUME LinkInv, [Next]_vars PROVE CliNext \/ UNCHANGED cliVars
      OBVIOUS
    <2>1. CASE handle_uart_commands
      <3>1. Head(uart_rx) \in Received
        BY <2>1, HeadTailProperties DEF LinkInv, handle_uart_commands, RxOK
      <3>2. Head(uart_rx).char \in Chars
        BY <3>1 DEF Received
      <3>3. cli_char(Head(uart_rx).char)
        BY <2>1 DEF handle_uart_commands
      <3> QED
        BY <3>2, <3>3 DEF CliNext
    <2>2. CASE EndOfBatch
      BY <2>2 DEF EndOfBatch, CliNext, ResetByCaller
    <2>3. CASE loop \/ SomOff
      BY <2>3 DEF loop, SomOff
    <2>4. CASE uart_puts \/ remote_on_uart_rx \/ NoiseComes \/ PowerOffReport
      BY <2>4 DEF uart_puts, remote_on_uart_rx, NoiseComes, PowerOffReport, sysctlVars
    <2>5. CASE Answered \/ TimedOut
      BY <2>5 DEF Answered, TimedOut, Tried, sysctlVars
    <2>6. CASE \E f, tries : Call(f, tries)
      BY <2>6 DEF Call, sysctlVars
    <2>7. CASE UNCHANGED vars
      BY <2>7 DEF vars, sysctlVars
    <2> QED
      BY <2>1, <2>2, <2>3, <2>4, <2>5, <2>6, <2>7 DEF Next
  <1>3. Init => LinkInv
    BY InitHasTypes
  <1>4. LinkInv /\ [Next]_vars => LinkInv'
    BY StepKeepsTypes
  <1> QED
    BY <1>1, <1>2, <1>3, <1>4, PTL DEF Spec, CliSpec

-----------------------------------------------------------------------------
(* The characters of the keyboard's own commands.                          *)

LEMMA ElementOf ==
  ASSUME NEW S, NEW s \in Seq(S), NEW i \in 1..Len(s)
  PROVE  s[i] \in S
OBVIOUS

LEMMA CommandShapes ==
  /\ Len(On) = 2 /\ On[1] = "1" /\ On[2] = "p"
  /\ Len(Off) = 2 /\ Off[1] = "0" /\ Off[2] = "p"
  /\ Len(Status) = 1 /\ Status[1] = "s"
  /\ Len(Voltages) = 1 /\ Voltages[1] = "c"
BY DEF On, Off, Status, Voltages

LEMMA CommandChars ==
  /\ {"0", "1", "p", "s", "c"} \subseteq Letters \cup Digits
  /\ \A c \in Letters \cup Digits : c \notin Syntax
  /\ MaxWordLen >= 2
<1>. DEFINE S == Letters \cup Digits
<1>1. /\ On \in Seq(S) /\ Off \in Seq(S) /\ Status \in Seq(S) /\ Voltages \in Seq(S)
      /\ Len(Off) \in 1..MaxWordLen
  BY LinkAssumption, NamesAssumption
<1>2. \A c \in S : c \notin Syntax
  BY CharsAssumption
<1>. HIDE DEF S
<1>3. On[1] \in S /\ On[2] \in S /\ Off[1] \in S /\ Status[1] \in S /\ Voltages[1] \in S
  <2>1. 1 \in 1..Len(On) /\ 2 \in 1..Len(On) /\ 1 \in 1..Len(Off)
        /\ 1 \in 1..Len(Status) /\ 1 \in 1..Len(Voltages)
    BY CommandShapes
  <2>. QED  BY ONLY <1>1, <2>1, ElementOf
<1>4. "1" \in S /\ "p" \in S /\ "0" \in S /\ "s" \in S /\ "c" \in S
  BY ONLY <1>3, CommandShapes
<1>5. MaxWordLen >= 2  BY <1>1, CommandShapes, LimitsAreNumbers
<1>. QED  BY <1>2, <1>4, <1>5 DEF S

LEMMA PrefixOf ==
  ASSUME NEW n \in Names, NEW k \in 1..Len(n)
  PROVE  SubSeq(n, 1, k) \in Prefixes
<1>1. n \in Seq(Letters \cup Digits \cup Others) /\ Len(n) \in 1..MaxWordLen  BY NamesAssumption
<1>2. k \in 1..MaxWordLen /\ k <= Len(n)  BY <1>1, LimitsAreNumbers
<1>. DEFINE m == <<n, k>>
<1>3. m \in Names \X (1..MaxWordLen) /\ m[2] <= Len(m[1]) /\ SubSeq(m[1], 1, m[2]) = SubSeq(n, 1, k)
  BY <1>2
<1>. HIDE DEF m
<1>. QED  BY <1>3 DEF Prefixes

LEMMA OneItem ==
  ASSUME NEW S, NEW t \in Seq(S), Len(t) = 1
  PROVE  t = <<t[1]>>
<1>1. t[1] \in S  OBVIOUS
<1>. DEFINE u == <<t[1]>>
<1>2. u \in Seq(S) /\ Len(u) = 1 /\ u[1] = t[1]  BY <1>1
<1>. HIDE DEF u
<1>3. \A i \in 1..Len(t) : t[i] = u[i]  BY <1>2
<1>4. Len(t) = Len(u)  BY <1>2
<1>5. t = u  BY ONLY <1>2, <1>3, <1>4, t \in Seq(S), SeqEqual
<1>. QED  BY <1>5 DEF u

LEMMA TwoItems ==
  ASSUME NEW S, NEW t \in Seq(S), Len(t) = 2
  PROVE  t = <<t[1], t[2]>>
<1>1. t[1] \in S /\ t[2] \in S  OBVIOUS
<1>. DEFINE u == <<t[1], t[2]>>
<1>2. u \in Seq(S) /\ Len(u) = 2 /\ u[1] = t[1] /\ u[2] = t[2]  BY <1>1
<1>. HIDE DEF u
<1>3. \A i \in 1..Len(t) : t[i] = u[i]
  <2>1. 1..Len(t) = {1, 2}  OBVIOUS
  <2>. QED  BY <1>2, <2>1
<1>4. Len(t) = Len(u)  BY <1>2
<1>5. t = u  BY ONLY <1>2, <1>3, <1>4, t \in Seq(S), SeqEqual
<1>. QED  BY <1>5 DEF u

LEMMA Appended ==
  ASSUME NEW S, NEW q \in Seq(S), NEW x \in S
  PROVE  /\ Append(q, x) \in Seq(S) /\ Len(q) \in Nat /\ Len(Append(q, x)) = Len(q) + 1
         /\ \A i \in 1..Len(q) : Append(q, x)[i] = q[i]
         /\ Append(q, x)[Len(q) + 1] = x
BY AppendProperties

LEMMA ShortSequences ==
  ASSUME NEW a, NEW b
  PROVE  /\ SubSeq(<<a>>, 1, 1) = <<a>> /\ SubSeq(<<a, b>>, 1, 1) = <<a>>
         /\ SubSeq(<<a, b>>, 1, 2) = <<a, b>>
         /\ Append(<<>>, a) = <<a>> /\ Append(<<a>>, b) = <<a, b>>
<1>. DEFINE S == {a, b}
            s == <<a>>
            t == <<a, b>>
<1>1. /\ s \in Seq(S) /\ Len(s) = 1 /\ s[1] = a
      /\ t \in Seq(S) /\ Len(t) = 2 /\ t[1] = a /\ t[2] = b /\ b \in S /\ a \in S
  OBVIOUS
<1>5. Append(<<>>, a) = <<a>>  OBVIOUS
<1>. HIDE DEF s, t, S
<1>2. SubSeq(s, 1, 1) = s /\ SubSeq(t, 1, 2) = t
  BY <1>1, SubSeqFull
<1>3. SubSeq(t, 1, 1) = <<a>>
  <2>1. \A i \in 1..1 : t[i] \in S  BY <1>1
  <2>2. /\ SubSeq(t, 1, 1) \in Seq(S) /\ Len(SubSeq(t, 1, 1)) = 1
        /\ SubSeq(t, 1, 1)[1] = a
    BY <1>1, <2>1, SubSeqProperties
  <2>. QED  BY <2>2, OneItem
<1>4. Append(s, b) = <<a, b>>
  <2>1. /\ Append(s, b) \in Seq(S) /\ Len(Append(s, b)) = 2
        /\ Append(s, b)[1] = a /\ Append(s, b)[2] = b
    <3>1. ASSUME NEW T, NEW q \in Seq(T), NEW x \in T, Len(q) = 1
          PROVE  /\ Append(q, x) \in Seq(T) /\ Len(Append(q, x)) = 2
                 /\ Append(q, x)[1] = q[1] /\ Append(q, x)[2] = x
      <4>. DEFINE n == Len(q)
      <4>1. 1 \in 1..n /\ n + 1 = 2 /\ n = 1  BY <3>1
      <4>2. Append(q, x) \in Seq(T)  BY <3>1, Appended
      <4>3. Len(Append(q, x)) = n + 1  BY <3>1, Appended
      <4>4. \A i \in 1..n : Append(q, x)[i] = q[i]  BY <3>1, Appended
      <4>5. Append(q, x)[n + 1] = x  BY <3>1, Appended
      <4>. HIDE DEF n
      <4>. QED  BY <4>1, <4>2, <4>3, <4>4, <4>5
    <3>. QED  BY <1>1, <3>1
  <2>. QED  BY <2>1, TwoItems
<1>. QED  BY <1>2, <1>3, <1>4, <1>5 DEF s, t

LEMMA GrowingCommands ==
  /\ Extended(Nothing, "0") = <<"0">> /\ Extended(Nothing, "1") = <<"1">>
  /\ Extended(Nothing, "s") = Status /\ Extended(Nothing, "c") = Voltages
  /\ Extended(<<"0">>, "p") = Off /\ Extended(<<"1">>, "p") = On
<1>1. {On, Off, Status, Voltages} \subseteq Names  BY LinkAssumption
<1>2. /\ SubSeq(Off, 1, 1) = <<"0">> /\ SubSeq(Off, 1, 2) = Off
      /\ SubSeq(On, 1, 1) = <<"1">> /\ SubSeq(On, 1, 2) = On
      /\ SubSeq(Status, 1, 1) = Status /\ SubSeq(Voltages, 1, 1) = Voltages
  BY ShortSequences DEF On, Off, Status, Voltages
<1>3. /\ 1 \in 1..Len(Off) /\ 2 \in 1..Len(Off) /\ 1 \in 1..Len(On) /\ 2 \in 1..Len(On)
      /\ 1 \in 1..Len(Status) /\ 1 \in 1..Len(Voltages)
  BY CommandShapes
<1>4. \A n \in Names : \A k \in 1..Len(n) : SubSeq(n, 1, k) \in Prefixes
  BY PrefixOf
<1>. HIDE DEF Prefixes
<1>5. {<<"0">>, <<"1">>, On, Off, Status, Voltages} \subseteq Prefixes
  <2>1. SubSeq(Off, 1, 1) \in Prefixes /\ SubSeq(Off, 1, 2) \in Prefixes
    BY ONLY <1>1, <1>3, <1>4
  <2>2. SubSeq(On, 1, 1) \in Prefixes /\ SubSeq(On, 1, 2) \in Prefixes
    BY ONLY <1>1, <1>3, <1>4
  <2>3. SubSeq(Status, 1, 1) \in Prefixes /\ SubSeq(Voltages, 1, 1) \in Prefixes
    BY ONLY <1>1, <1>3, <1>4
  <2>. QED  BY ONLY <1>2, <2>1, <2>2, <2>3
<1>6. /\ Append(Nothing, "0") = <<"0">> /\ Append(Nothing, "1") = <<"1">>
      /\ Append(Nothing, "s") = Status /\ Append(Nothing, "c") = Voltages
      /\ Append(<<"0">>, "p") = Off /\ Append(<<"1">>, "p") = On
  BY ShortSequences DEF Nothing, On, Off, Status, Voltages
<1>. QED  BY ONLY <1>5, <1>6 DEF Extended

(* A word is a sequence, and one that has grown by p is no question.       *)
LEMMA WordsAreSequences ==
  ASSUME NEW word \in Words
  PROVE  word \in Seq(Chars \cup {"other", "number"})
<1>. DEFINE S == Chars \cup {"other", "number"}
<1>1. ASSUME NEW q \in Prefixes PROVE q \in Seq(S)
  <2>1. PICK n \in Names, k \in 1..MaxWordLen : k <= Len(n) /\ q = SubSeq(n, 1, k)
    BY DEF Prefixes
  <2>2. n \in Seq(Letters \cup Digits \cup Others)  BY NamesAssumption
  <2>3. Letters \cup Digits \cup Others \subseteq S  BY DEF Chars
  <2>4. k \in Int /\ \A i \in 1..k : i \in 1..Len(n)  BY <2>1, <2>2, LimitsAreNumbers
  <2>5. \A i \in 1..Len(n) : n[i] \in S  BY <2>2, <2>3
  <2>6. \A i \in 1..k : n[i] \in S  BY ONLY <2>4, <2>5
  <2>. HIDE DEF S
  <2>7. SubSeq(n, 1, k) \in Seq(S)  BY <2>4, <2>6, SubSeqProperties
  <2>. QED  BY <2>1, <2>7
<1>2. Nothing \in Seq(S) /\ Other \in Seq(S) /\ Number \in Seq(S)
  BY DEF Nothing, Other, Number
<1>. QED  BY <1>1, <1>2 DEF Words

LEMMA NoQuestion ==
  ASSUME NEW word \in Words
  PROVE  Extended(word, "p") \notin {Status, Voltages}
<1>. DEFINE S == Chars \cup {"other", "number"}
            w == Append(word, "p")
<1>1. word \in Seq(S) /\ "p" \in S
  BY WordsAreSequences, CommandChars DEF Chars
<1>. HIDE DEF S
<1>2. Len(word) \in Nat /\ Len(w) = Len(word) + 1 /\ w[Len(word) + 1] = "p"
  BY <1>1, AppendProperties
<1>. HIDE DEF w
<1>3. w \notin {Status, Voltages}
  <2>. SUFFICES ASSUME w \in {Status, Voltages} PROVE FALSE  OBVIOUS
  <2>1. Len(w) = 1 /\ w[1] # "p"  BY CommandShapes
  <2>2. Len(word) + 1 = 1  BY <1>2, <2>1
  <2>. QED  BY <1>2, <2>1, <2>2
<1>4. Other \notin {Status, Voltages}
  <2>1. Other[1] = "other"  BY DEF Other
  <2>. QED  BY <2>1, CommandShapes
<1>. QED  BY <1>3, <1>4 DEF Extended, w

-----------------------------------------------------------------------------
(* What the parser makes of the characters of the keyboard's commands,     *)
(* whatever it is in.                                                      *)

(* A number is not a name. *)
NumbersKept == cli_state \in {"NUMBER", "HEX"} => cli_word = Number

Fails == cli_out' \in Codes /\ ran' = Nothing /\ cli_reset

Advances(c) ==
  \/ /\ cli_state = "LIST"
     /\ cli_state' = "WORD" /\ cli_word' = Extended(Nothing, c) /\ cli_word_len' = 1
  \/ /\ cli_state = "LIST" /\ cli_list # <<>>
     /\ cli_state' = "NUMBER" /\ cli_word' = Number
  \/ cli_state = "WORD" /\ cli_state' = "WORD" /\ cli_word' = Extended(cli_word, c)
  \/ cli_state \in {"NUMBER", "HEX"} /\ UNCHANGED <<cli_state, cli_word>>

LEMMA PlainChar ==
  ASSUME NEW c \in Letters \cup Digits, cli_char(c)
  PROVE  Fails \/ (Quiet /\ UNCHANGED <<cli_paren, cli_list>> /\ Advances(c))
<1>1. c # " " /\ c # ")" /\ c # "(" /\ c # "#" /\ c # NL /\ c \notin Others
  BY Zenon, CommandChars, CharsAssumption DEF Syntax
<1>2. ~Blank(c) /\ ~EndOfList(c) /\ ~OpenList(c) /\ ~BeginHex(c) /\ ~EndOfWord(c)
  BY Zenon, <1>1 DEF Blank, EndOfList, Terminates, OpenList, BeginHex, EndOfWord
<1>3. ~NotCallable(c) /\ ~Ignored(c)
  BY Zenon, <1>1 DEF NotCallable, Ignored
<1>4. CASE TooManyWords(c)
  BY Zenon, <1>4 DEF TooManyWords, cli_error, Fails, Codes
<1>5. CASE BeginWord(c)
  BY Zenon, <1>5 DEF BeginWord, Begins, Advances
<1>6. CASE BeginNumber(c)
  BY Zenon, <1>6 DEF BeginNumber, Begins, Advances
<1>7. CASE WordGrows(c)
  BY Zenon, <1>7 DEF WordGrows, cli_error, Fails, Codes, Advances
<1>8. CASE NumberGrows(c)
  BY Zenon, <1>8 DEF NumberGrows, cli_error, Fails, Codes, Advances, parserVars
<1>9. CASE HexGrows(c)
  BY Zenon, <1>9 DEF HexGrows, cli_error, Fails, Codes, Advances
<1>. QED
  BY Zenon, <1>2, <1>3, <1>4, <1>5, <1>6, <1>7, <1>8, <1>9 DEF cli_char

(* A newline ends a list, or in parentheses a word.                        *)
LEMMA NewlineChar ==
  ASSUME cli_char(NL)
  PROVE  \/ /\ cli_paren = 0 /\ cli_reset
            /\ \/ cli_state = "LIST" /\ cli_eval(cli_list)
               \/ cli_state # "LIST" /\ cli_eval(Append(cli_list, cli_word))
         \/ /\ cli_paren # 0
            /\ \/ Fails
               \/ cli_state = "LIST" /\ Quiet /\ UNCHANGED parserVars
               \/ cli_state # "LIST" /\ Quiet /\ cli_state' = "LIST" /\ UNCHANGED cli_paren
<1>1. NL # " " /\ NL # ")" /\ NL # "(" /\ NL # "#" /\ NL \notin Letters \cup Digits
  <2>1. NL \notin Letters \cup Digits  BY Zenon, CommandChars DEF Syntax
  <2>2. NL # " " /\ NL # ")" /\ NL # "(" /\ NL # "#"  BY DEF NL
  <2>. QED  BY Zenon, <2>1, <2>2
<1>2. ~Blank(NL) /\ ~OpenList(NL) /\ ~BeginHex(NL) /\ ~BeginWord(NL) /\ ~BeginNumber(NL)
      /\ ~WordGrows(NL) /\ ~NumberGrows(NL) /\ ~HexGrows(NL)
  BY Zenon, <1>1 DEF Blank, OpenList, BeginHex, BeginWord, BeginNumber, WordGrows, NumberGrows, HexGrows
<1>3. CASE EndOfList(NL)
  BY Zenon, <1>1, <1>3 DEF EndOfList, Terminates
<1>4. CASE TooManyWords(NL)
  BY Zenon, <1>4 DEF TooManyWords, Begins, Terminates, cli_error, Fails, Codes
<1>5. CASE NotCallable(NL)
  BY Zenon, <1>5 DEF NotCallable, Begins, Terminates, cli_error, Fails, Codes
<1>6. CASE Ignored(NL)
  BY Zenon, <1>6 DEF Ignored, Begins, Terminates
<1>7. CASE EndOfWord(NL)
  BY Zenon, <1>1, <1>7 DEF EndOfWord, Terminates
<1>. QED
  BY Zenon, <1>2, <1>3, <1>4, <1>5, <1>6, <1>7 DEF cli_char

LEMMA NumbersStay ==
  ASSUME NumbersKept, NEW c, cli_char(c)
  PROVE  NumbersKept'
<1>1. cli_reset => NumbersKept'  BY DEF cli_reset, NumbersKept
<1>2. CASE UNCHANGED <<cli_state, cli_word>>
  BY <1>2 DEF NumbersKept
<1>3. CASE EndOfList(c) \/ TooManyWords(c) \/ NotCallable(c)
  BY Zenon, <1>1, <1>3 DEF EndOfList, TooManyWords, NotCallable, cli_error
<1>4. CASE BeginWord(c) \/ BeginNumber(c) \/ BeginHex(c)
  <2>1. cli_state' = "WORD" \/ cli_word' = Number
    BY Zenon, <1>4 DEF BeginWord, BeginNumber, BeginHex
  <2>. QED  BY <2>1 DEF NumbersKept
<1>5. CASE EndOfWord(c)
  <2>1. cli_reset \/ cli_state' = "LIST"
    BY Zenon, <1>5 DEF EndOfWord
  <2>. QED  BY <1>1, <2>1 DEF NumbersKept
<1>6. CASE WordGrows(c)
  <2>1. cli_reset \/ (cli_state' = cli_state /\ cli_state = "WORD")
    BY Zenon, <1>6 DEF WordGrows, cli_error
  <2>. QED  BY <1>1, <2>1 DEF NumbersKept
<1>. HIDE DEF NumbersKept
<1>7. CASE Blank(c) \/ OpenList(c) \/ Ignored(c) \/ NumberGrows(c) \/ HexGrows(c)
  BY Zenon, <1>1, <1>2, <1>7
     DEF Blank, OpenList, Ignored, NumberGrows, HexGrows, cli_error, parserVars
<1>. QED
  BY Zenon, <1>3, <1>4, <1>5, <1>6, <1>7 DEF cli_char

(* What an answer with an end comes of.                                    *)
LEMMA Answer ==
  ASSUME NEW list, cli_eval(list), cli_out' = "str"
  PROVE  list # <<>> /\ list[1] \in {Status, Voltages} /\ ran' = list[1]
<1>1. "str" # "undf" /\ "str" # Void  BY DEF Void
<1>2. list # <<>> /\ list[1] \in Names /\ ran' = list[1] /\ Answers[list[1]] = "str"
  BY Zenon, <1>1 DEF cli_eval, Quiet
<1>. QED  BY <1>2, LinkAssumption

LEMMA AnswerComes ==
  ASSUME NEW c \in Letters \cup Digits \cup {NL}, cli_char(c), cli_out' = "str"
  PROVE  /\ c = NL /\ cli_paren = 0 /\ cli_reset /\ ran' \in {Status, Voltages}
         /\ cli_state = "LIST" => cli_list # <<>>
         /\ cli_state # "LIST" => Append(cli_list, cli_word)[1] \in {Status, Voltages}
<1>1. ~Quiet /\ ~Fails
  BY DEF Quiet, Fails, Codes, Void
<1>2. c = NL
  BY Zenon, PlainChar, <1>1
<1>3. /\ cli_paren = 0 /\ cli_reset
      /\ \/ cli_state = "LIST" /\ cli_eval(cli_list)
         \/ cli_state # "LIST" /\ cli_eval(Append(cli_list, cli_word))
  BY Zenon, NewlineChar, <1>1, <1>2
<1>4. CASE cli_state = "LIST" /\ cli_eval(cli_list)
  BY Zenon, <1>2, <1>3, <1>4, Answer
<1>5. CASE cli_state # "LIST" /\ cli_eval(Append(cli_list, cli_word))
  <2>1. Append(cli_list, cli_word)[1] \in {Status, Voltages} /\ ran' = Append(cli_list, cli_word)[1]
    BY Zenon, <1>5, Answer
  <2>. QED  BY Zenon, <1>2, <1>3, <1>5, <2>1
<1>. QED  BY Zenon, <1>3, <1>4, <1>5

-----------------------------------------------------------------------------
(* A parser in step with the keyboard's commands, u being the next of      *)
(* their characters; and one that, whatever is in it, makes no question of *)
(* a command that is none.                                                 *)

Starts == {"0", "1", "s", "c"}

Follows(a, b) ==
  \/ a \in {"0", "1"} /\ b = "p"
  \/ a \in {"p", "s", "c"} /\ b = NL
  \/ a = NL /\ b \in Starts

CleanFor(u) ==
  /\ cli_paren = 0 /\ cli_list = <<>>
  /\ u \in Starts => cli_state = "LIST"
  /\ u = "p" => cli_state = "WORD" /\ cli_word \in {<<"0">>, <<"1">>} /\ cli_word_len = 1
  /\ u = NL => cli_state = "WORD" /\ cli_word \in {On, Off, Status, Voltages}

HarmlessFor(u) ==
  /\ cli_paren # 0 \/ cli_list = <<>>
  /\ u = NL /\ cli_state # "LIST" => cli_paren # 0 \/ cli_word \notin {Status, Voltages}
  /\ u \in Starts => cli_state = "LIST"

LEMMA ResetIsHarmless == \A u : cli_reset => HarmlessFor(u)'
BY DEF cli_reset, HarmlessFor

LEMMA NewlineIsHarmless ==
  ASSUME cli_char(NL), NEW u, Follows(NL, u)
  PROVE  HarmlessFor(u)'
<1>1. u # NL  BY DEF Follows, Starts, NL
<1>2. cli_state' = "LIST" /\ (cli_paren' # 0 \/ cli_list' = <<>>)
  <2>1. cli_reset => cli_state' = "LIST" /\ cli_list' = <<>>  BY DEF cli_reset
  <2>. QED  BY Zenon, <2>1, NewlineChar DEF Fails, parserVars
<1>. QED  BY <1>1, <1>2 DEF HarmlessFor

LEMMA PlainIsHarmless ==
  ASSUME cli_word \in Words, NumbersKept, NEW c \in {"0", "1", "p"}, HarmlessFor(c), cli_char(c),
         NEW u, Follows(c, u)
  PROVE  HarmlessFor(u)'
<1>1. c \in Letters \cup Digits  BY CommandChars
<1>2. CASE Fails
  BY Zenon, <1>2, ResetIsHarmless DEF Fails
<1>3. CASE UNCHANGED <<cli_paren, cli_list>> /\ Advances(c)
  <2>1. u \notin Starts /\ (u = NL => c = "p")
    BY DEF Follows, Starts, NL
  <2>2. ASSUME c = "p", cli_state' # "LIST" PROVE cli_word' \notin {Status, Voltages}
    <3>1. Extended(Nothing, "p") \notin {Status, Voltages}
          /\ Extended(cli_word, "p") \notin {Status, Voltages}
      BY NumbersAreWords, NoQuestion
    <3>2. Number \notin {Status, Voltages}
      <4>1. Number[1] = "number"  BY DEF Number
      <4>. QED  BY <4>1, CommandShapes
    <3>. QED  BY <1>3, <2>2, <3>1, <3>2 DEF Advances, NumbersKept
  <2>. QED  BY <1>3, <2>1, <2>2 DEF HarmlessFor
<1>. QED  BY Zenon, <1>1, <1>2, <1>3, PlainChar

(* No answer comes of it.                                                  *)
LEMMA HarmlessIsSilent ==
  ASSUME NEW c \in Letters \cup Digits \cup {NL}, HarmlessFor(c), cli_char(c), cli_word \in Words
  PROVE  cli_out' # "str"
<1>. SUFFICES ASSUME cli_out' = "str" PROVE FALSE  OBVIOUS
<1>1. c = NL /\ cli_paren = 0
      /\ (cli_state = "LIST" => cli_list # <<>>)
      /\ (cli_state # "LIST" => Append(cli_list, cli_word)[1] \in {Status, Voltages})
  BY AnswerComes
<1>2. cli_list = <<>> /\ cli_state # "LIST" /\ cli_word \notin {Status, Voltages}
  BY <1>1 DEF HarmlessFor
<1>3. Append(<<>>, cli_word) = <<cli_word>>  BY ShortSequences
<1>4. <<cli_word>>[1] = cli_word  OBVIOUS
<1>. QED  BY <1>1, <1>2, <1>3, <1>4

(* A parser in step takes the next character without an error, and calls   *)
(* the command when its newline comes.                                     *)
LEMMA CleanBegins ==
  ASSUME NEW c \in Starts, CleanFor(c), cli_char(c)
  PROVE  /\ Quiet /\ cli_paren' = 0 /\ cli_list' = <<>>
         /\ cli_state' = "WORD" /\ cli_word' = Extended(Nothing, c) /\ cli_word_len' = 1
<1>1. c \in Letters \cup Digits  BY CommandChars DEF Starts
<1>2. cli_state = "LIST" /\ cli_list = <<>> /\ cli_paren = 0  BY DEF CleanFor
<1>3. ~Full  BY <1>2, LimitsAreNumbers DEF Full
<1>4. ~NotCallable(c)
  BY Zenon, <1>1 DEF NotCallable
<1>5. c # " " /\ c # ")" /\ c # "(" /\ c # NL
  BY Zenon, <1>1, CommandChars DEF Syntax
<1>6. BeginWord(c)
  BY Zenon, <1>2, <1>3, <1>4, <1>5
     DEF cli_char, Blank, EndOfList, Terminates, TooManyWords, BeginNumber, OpenList, BeginHex,
         Ignored, EndOfWord, WordGrows, NumberGrows, HexGrows
<1>. QED  BY Zenon, <1>2, <1>6 DEF BeginWord

LEMMA CleanGrows ==
  ASSUME CleanFor("p"), cli_char("p")
  PROVE  /\ Quiet /\ cli_paren' = 0 /\ cli_list' = <<>>
         /\ cli_state' = "WORD" /\ cli_word \in {<<"0">>, <<"1">>} /\ cli_word' = Extended(cli_word, "p")
<1>. DEFINE c == "p"
<1>1. c \in Letters \cup Digits  BY CommandChars
<1>2. /\ cli_state = "WORD" /\ cli_word \in {<<"0">>, <<"1">>} /\ cli_word_len = 1
      /\ cli_list = <<>> /\ cli_paren = 0
  BY DEF CleanFor
<1>3. cli_word_len + 1 <= MaxWordLen /\ ~(cli_word_len + 1 > MaxWordLen)
  BY <1>2, CommandChars, LimitsAreNumbers
<1>4. c # " " /\ c # ")" /\ c # NL
  BY Zenon, <1>1, CommandChars DEF Syntax
<1>5. cli_char(c)  OBVIOUS
<1>. HIDE DEF c
<1>6. cli_state # "LIST" /\ cli_state # "NUMBER" /\ cli_state # "HEX"  BY <1>2
<1>7. WordGrows(c)
  BY Zenon, <1>4, <1>5, <1>6
     DEF cli_char, Blank, EndOfList, TooManyWords, BeginWord, BeginNumber, OpenList, NotCallable, BeginHex,
         Ignored, Begins, EndOfWord, NumberGrows, HexGrows
<1>8. Quiet /\ UNCHANGED <<cli_state, cli_paren, cli_list>> /\ cli_word' = Extended(cli_word, c)
  BY Zenon, <1>3, <1>7 DEF WordGrows
<1>. QED  BY Zenon, <1>2, <1>8 DEF c

LEMMA CleanCalls ==
  ASSUME CleanFor(NL), cli_char(NL)
  PROVE  /\ cli_reset
         /\ cli_word \in {On, Off, Status, Voltages} /\ ran' = cli_word
         /\ cli_out' = Answers[cli_word] /\ cli_out' \notin Codes
<1>1. /\ cli_state = "WORD" /\ cli_word \in {On, Off, Status, Voltages}
      /\ cli_list = <<>> /\ cli_paren = 0
  BY DEF CleanFor
<1>2. cli_state # "LIST"  BY <1>1
<1>3. cli_reset /\ cli_eval(Append(cli_list, cli_word))
  BY Zenon, <1>1, <1>2, NewlineChar
<1>4. Append(cli_list, cli_word) = <<cli_word>>  BY <1>1, ShortSequences
<1>5. <<cli_word>> # <<>> /\ <<cli_word>>[1] = cli_word  OBVIOUS
<1>6. cli_word \in Names  BY <1>1, LinkAssumption
<1>7. ran' = cli_word /\ cli_out' = Answers[cli_word]
  BY Zenon, <1>3, <1>4, <1>5, <1>6 DEF cli_eval
<1>8. Answers[cli_word] \notin Codes
  <2>1. Answers[cli_word] \in {"u64", "str", Void}  BY <1>6, NamesAssumption
  <2>. QED  BY <2>1 DEF Codes, Void
<1>. QED  BY <1>1, <1>3, <1>7, <1>8

LEMMA CleanStep ==
  ASSUME NEW c, CleanFor(c), cli_char(c), NEW u, Follows(c, u)
  PROVE  /\ CleanFor(u)'
         /\ cli_out' \notin Codes
         /\ c # NL => Quiet
<1>. USE DEF NL
<1>1. CASE c \in Starts
  <2>1. /\ Quiet /\ cli_paren' = 0 /\ cli_list' = <<>>
        /\ cli_state' = "WORD" /\ cli_word' = Extended(Nothing, c) /\ cli_word_len' = 1
    BY <1>1, CleanBegins
  <2>2. u \notin Starts /\ (u = "p" => c \in {"0", "1"}) /\ (u = NL => c \in {"s", "c"})
    BY <1>1 DEF Follows, Starts
  <2>3. /\ c \in {"0", "1"} => cli_word' \in {<<"0">>, <<"1">>}
        /\ c \in {"s", "c"} => cli_word' \in {On, Off, Status, Voltages}
    BY <2>1, GrowingCommands
  <2>4. CleanFor(u)'  BY <2>1, <2>2, <2>3 DEF CleanFor
  <2>. QED  BY <2>1, <2>4 DEF Quiet, Codes, Void
<1>2. CASE c = "p"
  <2>1. /\ Quiet /\ cli_paren' = 0 /\ cli_list' = <<>>
        /\ cli_state' = "WORD" /\ cli_word \in {<<"0">>, <<"1">>} /\ cli_word' = Extended(cli_word, "p")
    BY <1>2, CleanGrows
  <2>2. u \notin Starts /\ u # "p"  BY <1>2 DEF Follows, Starts
  <2>3. cli_word' \in {On, Off, Status, Voltages}  BY <2>1, GrowingCommands
  <2>4. CleanFor(u)'  BY <2>1, <2>2, <2>3 DEF CleanFor
  <2>. QED  BY <2>1, <2>4 DEF Quiet, Codes, Void
<1>3. CASE c = NL
  <2>1. u \in Starts /\ u # NL /\ u # "p"  BY <1>3 DEF Follows, Starts
  <2>2. cli_reset /\ cli_out' \notin Codes  BY <1>3, CleanCalls
  <2>. QED  BY <1>3, <2>1, <2>2 DEF CleanFor, cli_reset
<1>. QED  BY <1>1, <1>2, <1>3 DEF Follows, Starts

-----------------------------------------------------------------------------
(* What is on its way to sysctl: rx has arrived, snd is still to be sent.  *)
(* The commands of the menu follow each other whole.                       *)

Rests == {<<>>, <<NL>>, <<"p", NL>>, <<"s", NL>>, <<"c", NL>>, <<"0", "p", NL>>, <<"1", "p", NL>>}

NextOf(snd) == IF snd = <<>> THEN "0" ELSE snd[1]

Coming(rx, snd, i) == IF i \in 1..Len(rx) THEN rx[i].char ELSE NextOf(snd)

WireOf(rx, snd) == snd \in Rests /\ \A i \in 1..Len(rx) : Follows(rx[i].char, Coming(rx, snd, i + 1))

(* The characters of a command belong to the same one, and those of the    *)
(* current one are the last.                                               *)
MineOf(rx, snd) ==
  /\ \A i \in 1..Len(rx) : i + 1 \in 1..Len(rx) /\ rx[i].char # NL => (rx[i].mine <=> rx[i + 1].mine)
  /\ \A i \in 1..Len(rx) : rx[i].mine /\ rx[i].char = NL =>
       snd = <<>> /\ \A j \in 1..Len(rx) : j > i => ~rx[j].mine
  /\ rx # <<>> /\ snd # <<>> /\ rx[Len(rx)].char # NL => rx[Len(rx)].mine

Left(rx, snd) == snd # <<>> \/ \E i \in 1..Len(rx) : rx[i].mine

(* A question is the first thing on the wire, and nothing came before it.  *)
AskedOf(rx, snd, fresh) ==
  /\ \A i \in 1..Len(rx) : rx[i].char \in {"s", "c"} => i = 1 /\ rx[1].mine /\ fresh
  /\ snd # <<>> /\ snd[1] \in {"s", "c"} => rx = <<>> /\ fresh

Free(rx, snd, C) == (\A i \in 1..Len(rx) : rx[i].char \notin C) /\ ~(snd # <<>> /\ snd[1] \in C)

(* The last digit on its way is d.                                         *)
Comes(rx, snd, d) ==
  \/ snd # <<>> /\ snd[1] = d
  \/ /\ ~(snd # <<>> /\ snd[1] \in {"0", "1"})
     /\ \E i \in 1..Len(rx) : rx[i].char = d /\ \A j \in 1..Len(rx) : j > i => rx[j].char \notin {"0", "1"}

LEMMA TailsOfTuples ==
  ASSUME NEW a, NEW b, NEW c
  PROVE  /\ Head(<<a, b>>) = a /\ Tail(<<a, b>>) = <<b>> /\ <<a, b>>[1] = a
         /\ Head(<<a, b, c>>) = a /\ Tail(<<a, b, c>>) = <<b, c>> /\ <<a, b, c>>[1] = a
<1>. DEFINE S == {a, b, c}
            s == <<a, b>>
            t == <<a, b, c>>
<1>1. /\ s \in Seq(S) /\ Len(s) = 2 /\ s[1] = a /\ s[2] = b /\ s # <<>>
      /\ t \in Seq(S) /\ Len(t) = 3 /\ t[1] = a /\ t[2] = b /\ t[3] = c /\ t # <<>>
  OBVIOUS
<1>2. Head(s) = a /\ Head(t) = a  OBVIOUS
<1>. HIDE DEF S, s, t
<1>3. Tail(s) = <<b>>
  <2>1. Tail(s) \in Seq(S) /\ Len(Tail(s)) = Len(s) - 1 /\ \A i \in 1..Len(Tail(s)) : Tail(s)[i] = s[i + 1]
    BY <1>1, HeadTailProperties
  <2>2. 1 \in 1..Len(Tail(s)) /\ Len(Tail(s)) = 1 /\ 1 + 1 = 2  BY <1>1, <2>1
  <2>3. Tail(s)[1] = b  BY <1>1, <2>1, <2>2
  <2>. QED  BY <2>1, <2>2, <2>3, OneItem
<1>4. Tail(t) = <<b, c>>
  <2>1. Tail(t) \in Seq(S) /\ Len(Tail(t)) = Len(t) - 1 /\ \A i \in 1..Len(Tail(t)) : Tail(t)[i] = t[i + 1]
    BY <1>1, HeadTailProperties
  <2>2. 1 \in 1..Len(Tail(t)) /\ 2 \in 1..Len(Tail(t)) /\ Len(Tail(t)) = 2 /\ 1 + 1 = 2 /\ 2 + 1 = 3
    BY <1>1, <2>1
  <2>3. Tail(t)[1] = b /\ Tail(t)[2] = c  BY <1>1, <2>1, <2>2
  <2>. QED  BY <2>1, <2>2, <2>3, TwoItems
<1>. QED  BY <1>1, <1>2, <1>3, <1>4 DEF s, t

LEMMA RestsShrink ==
  ASSUME NEW snd \in Rests, snd # <<>>
  PROVE  /\ Tail(snd) \in Rests /\ Head(snd) = snd[1]
         /\ Follows(Head(snd), NextOf(Tail(snd)))
         /\ Head(snd) = NL <=> Tail(snd) = <<>>
         /\ Tail(snd) # <<>> => Tail(snd)[1] \notin Starts
<1>. USE DEF NL
<1>1. CASE snd = <<NL>>
  BY <1>1 DEF Rests, Follows, NextOf, Starts
<1>2. ASSUME NEW a \in {"p", "s", "c"}, snd = <<a, NL>>
      PROVE  /\ Tail(snd) = <<NL>> /\ Head(snd) = a /\ snd[1] = a
  BY <1>2, TailsOfTuples
<1>3. ASSUME NEW a \in {"0", "1"}, snd = <<a, "p", NL>>
      PROVE  /\ Tail(snd) = <<"p", NL>> /\ Head(snd) = a /\ snd[1] = a
  BY <1>3, TailsOfTuples
<1>4. CASE \E a \in {"p", "s", "c"} : snd = <<a, NL>>
  <2>1. Tail(snd) = <<NL>> /\ Head(snd) \in {"p", "s", "c"} /\ Head(snd) = snd[1]
    BY <1>2, <1>4
  <2>2. <<NL>>[1] = NL  OBVIOUS
  <2>. QED  BY <2>1, <2>2 DEF Rests, Follows, NextOf, Starts
<1>5. CASE \E a \in {"0", "1"} : snd = <<a, "p", NL>>
  <2>1. Tail(snd) = <<"p", NL>> /\ Head(snd) \in {"0", "1"} /\ Head(snd) = snd[1]
    BY <1>3, <1>5
  <2>2. <<"p", NL>>[1] = "p" /\ <<"p", NL>> # <<>>  OBVIOUS
  <2>. QED  BY <2>1, <2>2 DEF Rests, Follows, NextOf, Starts
<1>. QED  BY <1>1, <1>4, <1>5 DEF Rests

LEMMA Took ==
  ASSUME NEW rx \in Seq(Received), rx # <<>>
  PROVE  /\ Head(rx) = rx[1] /\ rx[1] \in Received
         /\ Tail(rx) \in Seq(Received) /\ Len(rx) \in Nat /\ Len(rx) >= 1
         /\ Len(Tail(rx)) = Len(rx) - 1
         /\ \A i \in 1..Len(Tail(rx)) : Tail(rx)[i] = rx[i + 1]
BY EmptySeq, HeadTailProperties

LEMMA TakeKeepsWire ==
  ASSUME NEW rx \in Seq(Received), rx # <<>>, NEW snd, WireOf(rx, snd)
  PROVE  WireOf(Tail(rx), snd) /\ Follows(rx[1].char, Coming(Tail(rx), snd, 1))
<1>. DEFINE t == Tail(rx)
<1>1. /\ Len(rx) \in Nat /\ Len(rx) >= 1 /\ Len(t) = Len(rx) - 1
      /\ \A i \in 1..Len(t) : t[i] = rx[i + 1]
  BY Took
<1>. HIDE DEF t
<1>2. ASSUME NEW i \in 1..(Len(t) + 1) PROVE Coming(t, snd, i) = Coming(rx, snd, i + 1)
  BY <1>1 DEF Coming
<1>3. Follows(rx[1].char, Coming(t, snd, 1))
  <2>1. 1 \in 1..Len(rx) /\ 1 \in 1..(Len(t) + 1)  BY <1>1
  <2>. QED  BY <1>2, <2>1 DEF WireOf
<1>4. ASSUME NEW i \in 1..Len(t) PROVE Follows(t[i].char, Coming(t, snd, i + 1))
  <2>1. i + 1 \in 1..Len(rx) /\ i + 1 \in 1..(Len(t) + 1)  BY <1>1
  <2>2. Follows(rx[i + 1].char, Coming(rx, snd, (i + 1) + 1))  BY <2>1 DEF WireOf
  <2>. QED  BY <1>1, <1>2, <2>1, <2>2
<1>. QED  BY <1>3, <1>4 DEF WireOf, t

LEMMA TakeKeepsOwners ==
  ASSUME NEW rx \in Seq(Received), rx # <<>>, NEW snd, NEW fresh, NEW fresher, NEW C
  PROVE  /\ MineOf(rx, snd) => MineOf(Tail(rx), snd)
         /\ AskedOf(rx, snd, fresh) => AskedOf(Tail(rx), snd, fresher)
         /\ Left(Tail(rx), snd) => Left(rx, snd)
         /\ Free(rx, snd, C) => Free(Tail(rx), snd, C)
         /\ MineOf(rx, snd) /\ rx[1].char # NL /\ Tail(rx) # <<>> => (Tail(rx)[1].mine <=> rx[1].mine)
         /\ MineOf(rx, snd) /\ rx[1].char = NL /\ rx[1].mine => ~Left(Tail(rx), snd)
<1>. DEFINE t == Tail(rx)
<1>1. /\ Len(rx) \in Nat /\ Len(rx) >= 1 /\ Len(t) = Len(rx) - 1
      /\ \A i \in 1..Len(t) : t[i] = rx[i + 1]
      /\ t \in Seq(Received)
  BY Took
<1>2. t = <<>> <=> Len(t) = 0  BY <1>1, EmptySeq
<1>. HIDE DEF t
<1>3. \A i \in 1..Len(t) : i + 1 \in 1..Len(rx) /\ i + 1 > 1  BY <1>1
<1>4. 1 \in 1..Len(rx) /\ Len(rx) \in 1..Len(rx)  BY <1>1
<1>5. ASSUME MineOf(rx, snd) PROVE MineOf(t, snd)
  <2>1. ASSUME NEW i \in 1..Len(t), i + 1 \in 1..Len(t), t[i].char # NL
        PROVE  t[i].mine <=> t[i + 1].mine
    <3>1. i + 1 \in 1..Len(rx) /\ (i + 1) + 1 \in 1..Len(rx)  BY <1>3, <2>1
    <3>. QED  BY <1>1, <1>5, <2>1, <3>1 DEF MineOf
  <2>2. ASSUME NEW i \in 1..Len(t), t[i].mine, t[i].char = NL
        PROVE  snd = <<>> /\ \A j \in 1..Len(t) : j > i => ~t[j].mine
    <3>1. snd = <<>> /\ \A j \in 1..Len(rx) : j > i + 1 => ~rx[j].mine
      BY <1>1, <1>3, <1>5, <2>2 DEF MineOf
    <3>2. ASSUME NEW j \in 1..Len(t), j > i PROVE ~t[j].mine
      <4>1. j + 1 \in 1..Len(rx) /\ j + 1 > i + 1  BY <1>3, <3>2
      <4>. QED  BY <1>1, <3>1, <4>1
    <3>. QED  BY <3>1, <3>2
  <2>3. ASSUME t # <<>>, snd # <<>>, t[Len(t)].char # NL PROVE t[Len(t)].mine
    <3>1. Len(t) \in 1..Len(t) /\ Len(t) + 1 = Len(rx)  BY <1>1, <1>2, <2>3
    <3>2. t[Len(t)] = rx[Len(rx)]  BY <1>1, <3>1
    <3>. QED  BY <1>5, <2>3, <3>2 DEF MineOf
  <2>. QED  BY <2>1, <2>2, <2>3 DEF MineOf
<1>6. ASSUME AskedOf(rx, snd, fresh) PROVE AskedOf(t, snd, fresher)
  <2>1. ASSUME NEW i \in 1..Len(t) PROVE t[i].char \notin {"s", "c"}
    <3>1. i + 1 \in 1..Len(rx) /\ i + 1 # 1  BY <1>3
    <3>. QED  BY <1>1, <1>6, <3>1 DEF AskedOf
  <2>. QED  BY <1>6, <2>1 DEF AskedOf
<1>7. Left(t, snd) => Left(rx, snd)
  BY <1>1, <1>3 DEF Left
<1>8. Free(rx, snd, C) => Free(t, snd, C)
  BY <1>1, <1>3 DEF Free
<1>9. ASSUME MineOf(rx, snd), rx[1].char # NL, t # <<>> PROVE t[1].mine <=> rx[1].mine
  <2>1. 1 \in 1..Len(t) /\ 1 + 1 \in 1..Len(rx)  BY <1>1, <1>2, <1>9
  <2>. QED  BY <1>1, <1>4, <1>9, <2>1 DEF MineOf
<1>10. ASSUME MineOf(rx, snd), rx[1].char = NL, rx[1].mine PROVE ~Left(t, snd)
  <2>1. snd = <<>> /\ \A j \in 1..Len(rx) : j > 1 => ~rx[j].mine
    BY <1>4, <1>10 DEF MineOf
  <2>. QED  BY <1>1, <1>3, <2>1 DEF Left
<1>. QED  BY <1>5, <1>6, <1>7, <1>8, <1>9, <1>10 DEF t

LEMMA PutKeepsWire ==
  ASSUME NEW rx \in Seq(Received), NEW snd, snd # <<>>, WireOf(rx, snd),
         NEW x \in Received, x.char = Head(snd), x.mine
  PROVE  /\ WireOf(Append(rx, x), Tail(snd))
         /\ Coming(Append(rx, x), Tail(snd), 1) = Coming(rx, snd, 1)
         /\ Append(rx, x) # <<>>
         /\ rx # <<>> => Append(rx, x)[1] = rx[1]
         /\ rx = <<>> => Append(rx, x)[1].mine
<1>. DEFINE p == Append(rx, x)
            z == Tail(snd)
            n == Len(rx)
<1>1. /\ p \in Seq(Received) /\ n \in Nat /\ Len(p) = n + 1
      /\ \A i \in 1..n : p[i] = rx[i]
      /\ p[n + 1] = x
  BY Appended
<1>2. z \in Rests /\ Head(snd) = snd[1] /\ Follows(Head(snd), NextOf(z))
  BY RestsShrink DEF WireOf
<1>3. p # <<>>  BY <1>1, EmptySeq
<1>4. rx = <<>> <=> n = 0  BY EmptySeq
<1>. HIDE DEF p, z, n
<1>5. ASSUME NEW i \in 1..(n + 1) PROVE Coming(p, z, i) = Coming(rx, snd, i)
  <2>1. CASE i \in 1..n
    BY <1>1, <2>1 DEF Coming, n
  <2>2. CASE i = n + 1
    <3>1. i \notin 1..n /\ i \in 1..Len(p)  BY <1>1, <2>2
    <3>. QED  BY <1>1, <1>2, <2>2, <3>1 DEF Coming, NextOf, n
  <2>. QED  BY <1>1, <2>1, <2>2
<1>6. ASSUME NEW i \in 1..Len(p) PROVE Follows(p[i].char, Coming(p, z, i + 1))
  <2>1. CASE i \in 1..n
    <3>1. i + 1 \in 1..(n + 1)  BY <1>1, <2>1
    <3>2. Follows(rx[i].char, Coming(rx, snd, i + 1))  BY <2>1 DEF WireOf, n
    <3>. QED  BY <1>1, <1>5, <2>1, <3>1, <3>2
  <2>2. CASE i = n + 1
    <3>1. i + 1 \notin 1..Len(p)  BY <1>1, <2>2
    <3>. QED  BY <1>1, <1>2, <2>2, <3>1 DEF Coming
  <2>. QED  BY <1>1, <2>1, <2>2
<1>7. WireOf(p, z)  BY <1>2, <1>6 DEF WireOf
<1>8. Coming(p, z, 1) = Coming(rx, snd, 1)
  <2>1. 1 \in 1..(n + 1)  BY <1>1
  <2>. QED  BY <1>5, <2>1
<1>9. (rx # <<>> => p[1] = rx[1]) /\ (rx = <<>> => p[1].mine)
  <2>1. rx # <<>> => 1 \in 1..n  BY <1>1, <1>4
  <2>2. rx = <<>> => n + 1 = 1  BY <1>4
  <2>. QED  BY <1>1, <2>1, <2>2
<1>. QED  BY <1>3, <1>7, <1>8, <1>9 DEF p, z

LEMMA PutKeepsOwners ==
  ASSUME NEW rx \in Seq(Received), NEW snd, snd # <<>>, WireOf(rx, snd),
         NEW x \in Received, x.char = Head(snd), x.mine,
         NEW fresh, NEW C \in SUBSET Starts, NEW d \in {"0", "1"}
  PROVE  /\ MineOf(rx, snd) => MineOf(Append(rx, x), Tail(snd))
         /\ AskedOf(rx, snd, fresh) => AskedOf(Append(rx, x), Tail(snd), fresh)
         /\ Free(rx, snd, C) => Free(Append(rx, x), Tail(snd), C)
         /\ Comes(rx, snd, d) => Comes(Append(rx, x), Tail(snd), d)
<1>. DEFINE p == Append(rx, x)
            z == Tail(snd)
            n == Len(rx)
<1>1. /\ p \in Seq(Received) /\ n \in Nat /\ Len(p) = n + 1
      /\ \A i \in 1..n : p[i] = rx[i]
      /\ p[n + 1] = x
  BY Appended
<1>2. /\ Head(snd) = snd[1] /\ (Head(snd) = NL <=> z = <<>>)
      /\ z # <<>> => z[1] \notin Starts
  BY RestsShrink DEF WireOf
<1>3. p # <<>>  BY <1>1, EmptySeq
<1>4. rx = <<>> <=> n = 0  BY EmptySeq
<1>. HIDE DEF p, z
<1>5. \A i \in 1..Len(p) : i \in 1..n \/ i = n + 1  BY <1>1
<1>6. ASSUME MineOf(rx, snd) PROVE MineOf(p, z)
  <2>1. ASSUME NEW i \in 1..Len(p), i + 1 \in 1..Len(p), p[i].char # NL
        PROVE  p[i].mine <=> p[i + 1].mine
    <3>1. CASE i + 1 \in 1..n
      <4>1. i \in 1..n  BY <1>1, <2>1, <3>1
      <4>. QED  BY <1>1, <1>6, <2>1, <3>1, <4>1 DEF MineOf
    <3>2. CASE i + 1 = n + 1
      <4>1. i = n /\ rx # <<>> /\ i \in 1..n  BY <1>1, <1>4, <2>1, <3>2
      <4>2. rx[n].mine  BY <1>1, <1>6, <2>1, <4>1 DEF MineOf
      <4>3. p[n].mine /\ p[n + 1].mine  BY <1>1, <4>1, <4>2
      <4>. QED  BY <4>1, <4>3
    <3>. QED  BY <1>5, <2>1, <3>1, <3>2
  <2>2. ASSUME NEW i \in 1..Len(p), p[i].mine, p[i].char = NL
        PROVE  z = <<>> /\ \A j \in 1..Len(p) : j > i => ~p[j].mine
    <3>1. CASE i \in 1..n
      BY <1>1, <1>6, <2>2, <3>1 DEF MineOf
    <3>2. CASE i = n + 1
      <4>1. z = <<>>  BY <1>1, <1>2, <2>2, <3>2
      <4>2. \A j \in 1..Len(p) : ~(j > i)  BY <1>1, <3>2
      <4>. QED  BY <4>1, <4>2
    <3>. QED  BY <1>5, <3>1, <3>2
  <2>3. p[Len(p)].mine  BY <1>1
  <2>. QED  BY <2>1, <2>2, <2>3 DEF MineOf
<1>7. ASSUME AskedOf(rx, snd, fresh) PROVE AskedOf(p, z, fresh)
  <2>1. ASSUME NEW i \in 1..Len(p), p[i].char \in {"s", "c"} PROVE i = 1 /\ p[1].mine /\ fresh
    <3>1. CASE i \in 1..n
      <4>1. i = 1 /\ rx[1].mine /\ fresh  BY <1>1, <1>7, <2>1, <3>1 DEF AskedOf
      <4>. QED  BY <1>1, <3>1, <4>1
    <3>2. CASE i = n + 1
      <4>1. rx = <<>> /\ fresh  BY <1>1, <1>2, <1>7, <2>1, <3>2 DEF AskedOf
      <4>2. n + 1 = 1  BY <1>4, <4>1
      <4>. QED  BY <1>1, <3>2, <4>1, <4>2
    <3>. QED  BY <1>5, <3>1, <3>2
  <2>2. z # <<>> => z[1] \notin {"s", "c"}  BY <1>2 DEF Starts
  <2>. QED  BY <2>1, <2>2 DEF AskedOf
<1>8. ASSUME Free(rx, snd, C) PROVE Free(p, z, C)
  <2>1. \A i \in 1..Len(p) : p[i].char \notin C  BY <1>1, <1>2, <1>5, <1>8 DEF Free
  <2>. QED  BY <1>2, <2>1 DEF Free
<1>9. ASSUME Comes(rx, snd, d) PROVE Comes(p, z, d)
  <2>0. ~(z # <<>> /\ z[1] \in {"0", "1"})  BY <1>2 DEF Starts
  <2>1. CASE snd[1] = d
    <3>1. n + 1 \in 1..Len(p) /\ p[n + 1].char = d
          /\ \A j \in 1..Len(p) : j > n + 1 => p[j].char \notin {"0", "1"}
      BY <1>1, <1>2, <2>1
    <3>. QED  BY <2>0, <3>1 DEF Comes
  <2>2. CASE snd[1] # d
    <3>1. snd[1] \notin {"0", "1"}  BY <1>9, <2>2 DEF Comes
    <3>2. PICK i \in 1..n : rx[i].char = d /\ \A j \in 1..n : j > i => rx[j].char \notin {"0", "1"}
      BY <1>9, <2>2 DEF Comes
    <3>3. i \in 1..Len(p) /\ p[i].char = d  BY <1>1, <3>2
    <3>4. ASSUME NEW j \in 1..Len(p), j > i PROVE p[j].char \notin {"0", "1"}
      BY <1>1, <1>2, <1>5, <3>1, <3>2, <3>4
    <3>. QED  BY <2>0, <3>3, <3>4 DEF Comes
  <2>. QED  BY <2>1, <2>2
<1>. QED  BY <1>6, <1>7, <1>8, <1>9 DEF p, z

(* The commands that the menu sends. *)
Tries == {<<"0", "p", NL>>, <<"1", "p", NL>>, <<"s", NL>>, <<"c", NL>>}

LEMMA TriesAre ==
  /\ Append(Off, NL) = <<"0", "p", NL>> /\ Append(On, NL) = <<"1", "p", NL>>
  /\ Append(Status, NL) = <<"s", NL>> /\ Append(Voltages, NL) = <<"c", NL>>
<1>1. ASSUME NEW a, NEW b, NEW c PROVE Append(<<a, b>>, c) = <<a, b, c>>
  <2>. DEFINE S == {a, b, c}
              q == <<a, b>>
              u == <<a, b, c>>
  <2>1. /\ q \in Seq(S) /\ c \in S /\ Len(q) = 2 /\ q[1] = a /\ q[2] = b
        /\ u \in Seq(S) /\ Len(u) = 3 /\ u[1] = a /\ u[2] = b /\ u[3] = c
    OBVIOUS
  <2>. HIDE DEF S, q, u
  <2>. DEFINE w == Append(q, c)
  <2>2. w \in Seq(S) /\ Len(w) = Len(q) + 1 /\ w[Len(q) + 1] = c
        /\ \A i \in 1..Len(q) : w[i] = q[i]
    <3>1. w \in Seq(S)  BY <2>1, Appended
    <3>2. Len(w) = Len(q) + 1  BY <2>1, Appended
    <3>3. w[Len(q) + 1] = c  BY <2>1, Appended
    <3>4. \A i \in 1..Len(q) : w[i] = q[i]
      <4>. HIDE DEF w
      <4>1. ASSUME NEW T, NEW x \in Seq(T), NEW y \in T, NEW i \in 1..Len(x)
            PROVE  Append(x, y)[i] = x[i]
        BY Appended
      <4>. QED  BY <2>1, <4>1 DEF w
    <3>. HIDE DEF w
    <3>. QED  BY <3>1, <3>2, <3>3, <3>4
  <2>. HIDE DEF w
  <2>3. Len(w) = Len(u) /\ \A i \in 1..Len(w) : w[i] = u[i]
    <3>1. Len(w) = 3 /\ w[3] = c /\ w[1] = a /\ w[2] = b  BY <2>1, <2>2
    <3>2. \A i \in 1..3 : i = 1 \/ i = 2 \/ i = 3  OBVIOUS
    <3>. QED  BY <2>1, <3>1, <3>2
  <2>4. w = u  BY <2>1, <2>2, <2>3, SeqEqual
  <2>. QED  BY <2>4 DEF w, q, u
<1>. QED  BY <1>1, ShortSequences DEF Off, On, Status, Voltages

LEMMA TriesBegin ==
  ASSUME NEW cmd \in Tries
  PROVE  /\ cmd \in Rests /\ cmd # <<>> /\ cmd[1] \in Starts
         /\ NextOf(cmd) = cmd[1]
BY TailsOfTuples DEF Tries, Rests, Starts, NextOf

LEMMA Overtook ==
  ASSUME NEW rx \in Seq(Received)
  PROVE  /\ Overtaken(rx) \in Seq(Received) /\ Len(Overtaken(rx)) = Len(rx) /\ Len(rx) \in Nat
         /\ \A i \in 1..Len(rx) : Overtaken(rx)[i].char = rx[i].char /\ ~Overtaken(rx)[i].mine
         /\ Overtaken(rx) = <<>> <=> rx = <<>>
<1>1. /\ Overtaken(rx) \in Seq(Received) /\ Len(Overtaken(rx)) = Len(rx) /\ Len(rx) \in Nat
  BY OvertakenRx
<1>2. ASSUME NEW i \in 1..Len(rx) PROVE Overtaken(rx)[i].char = rx[i].char /\ ~Overtaken(rx)[i].mine
  <2>1. i \in DOMAIN rx /\ rx[i] \in Received  OBVIOUS
  <2>2. Overtaken(rx)[i] = [rx[i] EXCEPT !.mine = FALSE]  BY <2>1 DEF Overtaken
  <2>. QED  BY <2>1, <2>2 DEF Received
<1>3. Overtaken(rx) = <<>> <=> rx = <<>>  BY <1>1, EmptySeq
<1>. QED  BY <1>1, <1>2, <1>3

LEMMA OvertakeKeeps ==
  ASSUME NEW rx \in Seq(Received), WireOf(rx, <<>>), NEW cmd \in Tries,
         NEW C \in SUBSET Starts, NEW d \in {"0", "1"}
  PROVE  /\ WireOf(Overtaken(rx), cmd)
         /\ \/ Coming(Overtaken(rx), cmd, 1) = Coming(rx, <<>>, 1)
            \/ Coming(Overtaken(rx), cmd, 1) \in Starts /\ Coming(rx, <<>>, 1) \in Starts
         /\ MineOf(Overtaken(rx), cmd)
         /\ Free(rx, <<>>, C) /\ cmd[1] \notin C => Free(Overtaken(rx), cmd, C)
         /\ Comes(rx, <<>>, d) /\ cmd[1] \notin {"0", "1"} => Comes(Overtaken(rx), cmd, d)
         /\ rx # <<>> => ~Overtaken(rx)[1].mine
<1>. DEFINE o == Overtaken(rx)
            n == Len(rx)
<1>1. /\ o \in Seq(Received) /\ Len(o) = n /\ n \in Nat
      /\ \A i \in 1..n : o[i].char = rx[i].char /\ ~o[i].mine
      /\ o = <<>> <=> rx = <<>>
      /\ rx = <<>> <=> n = 0
  BY Overtook, EmptySeq
<1>2. cmd \in Rests /\ cmd # <<>> /\ cmd[1] \in Starts /\ NextOf(cmd) = cmd[1]
  BY TriesBegin
<1>3. NextOf(<<>>) = "0"  BY DEF NextOf
<1>. HIDE DEF o
<1>4. ASSUME NEW i \in 1..(n + 1)
      PROVE  \/ Coming(o, cmd, i) = Coming(rx, <<>>, i)
             \/ Coming(o, cmd, i) \in Starts /\ Coming(rx, <<>>, i) = "0"
  <2>1. CASE i \in 1..n  BY <1>1, <2>1 DEF Coming
  <2>2. CASE i \notin 1..n  BY <1>1, <1>2, <1>3, <2>2 DEF Coming
  <2>. QED  BY <2>1, <2>2
<1>5. ASSUME NEW i \in 1..n PROVE Follows(o[i].char, Coming(o, cmd, i + 1))
  <2>1. i + 1 \in 1..(n + 1)  BY <1>1
  <2>2. Follows(o[i].char, Coming(rx, <<>>, i + 1))  BY <1>1 DEF WireOf
  <2>3. \A a, b : Follows(a, "0") /\ b \in Starts => Follows(a, b)  BY DEF Follows, Starts, NL
  <2>. QED  BY <1>4, <2>1, <2>2, <2>3
<1>6. WireOf(o, cmd)  BY <1>1, <1>2, <1>5 DEF WireOf
<1>7. \/ Coming(o, cmd, 1) = Coming(rx, <<>>, 1)
      \/ Coming(o, cmd, 1) \in Starts /\ Coming(rx, <<>>, 1) \in Starts
  <2>1. 1 \in 1..(n + 1)  BY <1>1
  <2>. QED  BY <1>4, <2>1 DEF Starts
<1>8. MineOf(o, cmd)
  <2>1. ASSUME o # <<>> PROVE o[n].char = NL
    <3>1. n \in 1..n /\ n + 1 \notin 1..n  BY <1>1, <2>1
    <3>2. Follows(rx[n].char, "0")  BY <1>3, <3>1 DEF WireOf, Coming
    <3>. QED  BY <1>1, <3>1, <3>2 DEF Follows, NL
  <2>. QED  BY <1>1, <2>1 DEF MineOf
<1>9. Free(rx, <<>>, C) /\ cmd[1] \notin C => Free(o, cmd, C)
  BY <1>1 DEF Free
<1>10. Comes(rx, <<>>, d) /\ cmd[1] \notin {"0", "1"} => Comes(o, cmd, d)
  BY <1>1 DEF Comes
<1>11. rx # <<>> => ~o[1].mine
  <2>1. rx # <<>> => 1 \in 1..n  BY <1>1
  <2>. QED  BY <1>1, <2>1
<1>. QED  BY <1>6, <1>7, <1>8, <1>9, <1>10, <1>11 DEF o

LEMMA ReportIs ==
  /\ Report \in Seq(Received) /\ Len(Report) = 3
  /\ Report[1].char = "0" /\ Report[2].char = "p" /\ Report[3].char = NL
  /\ ~Report[1].mine /\ ~Report[2].mine /\ ~Report[3].mine
<1>1. Append(Off, NL) = <<"0", "p", NL>>  BY TriesAre
<1>2. <<"0", "p", NL>>[1] = "0" /\ <<"0", "p", NL>>[2] = "p" /\ <<"0", "p", NL>>[3] = NL
  OBVIOUS
<1>3. 1 \in 1..3 /\ 2 \in 1..3 /\ 3 \in 1..3  OBVIOUS
<1>4. \A i \in 1..3 : Report[i].char = Append(Off, NL)[i] /\ ~Report[i].mine
  BY DEF Report
<1>. QED  BY <1>1, <1>2, <1>3, <1>4, ReportOK

LEMMA ReportKeeps ==
  ASSUME NEW rx \in Seq(Received), WireOf(rx, <<>>), NEW fresh, NEW fresher, fresh => fresher
  PROVE  /\ WireOf(rx \o Report, <<>>)
         /\ Coming(rx \o Report, <<>>, 1) = Coming(rx, <<>>, 1)
         /\ rx \o Report # <<>>
         /\ rx # <<>> => (rx \o Report)[1] = rx[1]
         /\ rx = <<>> => ~(rx \o Report)[1].mine
         /\ MineOf(rx, <<>>) => MineOf(rx \o Report, <<>>)
         /\ AskedOf(rx, <<>>, fresh) => AskedOf(rx \o Report, <<>>, fresher)
         /\ Left(rx \o Report, <<>>) => Left(rx, <<>>)
         /\ Free(rx, <<>>, {"s", "c"}) => Free(rx \o Report, <<>>, {"s", "c"})
         /\ Comes(rx \o Report, <<>>, "0")
<1>. DEFINE r == rx \o Report
            n == Len(rx)
<1>1. /\ r \in Seq(Received) /\ n \in Nat /\ Len(r) = n + 3
      /\ \A i \in 1..n : r[i] = rx[i]
      /\ \A i \in 1..(n + 3) : i > n => r[i] = Report[i - n]
      /\ rx = <<>> <=> n = 0
  <2>1. Report \in Seq(Received) /\ Len(Report) = 3  BY ReportIs
  <2>2. /\ r \in Seq(Received) /\ Len(r) = Len(rx) + Len(Report)
        /\ \A i \in 1..Len(rx) + Len(Report) :
             r[i] = IF i <= Len(rx) THEN rx[i] ELSE Report[i - Len(rx)]
    BY <2>1, ConcatProperties
  <2>3. n \in Nat /\ (rx = <<>> <=> n = 0)  BY EmptySeq
  <2>. HIDE DEF r
  <2>. QED  BY <2>1, <2>2, <2>3
<1>2. /\ r[n + 1].char = "0" /\ r[n + 2].char = "p" /\ r[n + 3].char = NL
      /\ ~r[n + 1].mine /\ ~r[n + 2].mine /\ ~r[n + 3].mine
  <2>1. /\ n + 1 \in 1..(n + 3) /\ n + 1 > n /\ (n + 1) - n = 1
        /\ n + 2 \in 1..(n + 3) /\ n + 2 > n /\ (n + 2) - n = 2
        /\ n + 3 \in 1..(n + 3) /\ n + 3 > n /\ (n + 3) - n = 3
    BY <1>1
  <2>2. r[n + 1] = Report[1] /\ r[n + 2] = Report[2] /\ r[n + 3] = Report[3]  BY <1>1, <2>1
  <2>. QED  BY <2>2, ReportIs
<1>3. r # <<>>  BY <1>1, EmptySeq
<1>. HIDE DEF r
<1>4. \A i \in 1..Len(r) : i \in 1..n \/ i = n + 1 \/ i = n + 2 \/ i = n + 3  BY <1>1
<1>5. NextOf(<<>>) = "0"  BY DEF NextOf
<1>6. ASSUME NEW i \in 1..(n + 1) PROVE Coming(r, <<>>, i) = Coming(rx, <<>>, i)
  <2>1. CASE i \in 1..n
    <3>1. i \in 1..Len(r)  BY <1>1, <2>1
    <3>. QED  BY <1>1, <2>1, <3>1 DEF Coming
  <2>2. CASE i = n + 1
    <3>1. i \in 1..Len(r) /\ i \notin 1..n  BY <1>1, <2>2
    <3>. QED  BY <1>2, <1>5, <2>2, <3>1 DEF Coming
  <2>. QED  BY <1>1, <2>1, <2>2
<1>7. ASSUME NEW i \in 1..Len(r) PROVE Follows(r[i].char, Coming(r, <<>>, i + 1))
  <2>1. CASE i \in 1..n
    <3>1. i + 1 \in 1..(n + 1)  BY <1>1, <2>1
    <3>2. Follows(rx[i].char, Coming(rx, <<>>, i + 1))  BY <2>1 DEF WireOf
    <3>. QED  BY <1>1, <1>6, <2>1, <3>1, <3>2
  <2>2. CASE i = n + 1
    <3>1. i + 1 \in 1..Len(r) /\ i + 1 = n + 2  BY <1>1, <2>2
    <3>. QED  BY <1>2, <2>2, <3>1 DEF Coming, Follows
  <2>3. CASE i = n + 2
    <3>1. i + 1 \in 1..Len(r) /\ i + 1 = n + 3  BY <1>1, <2>3
    <3>. QED  BY <1>2, <2>3, <3>1 DEF Coming, Follows
  <2>4. CASE i = n + 3
    <3>1. i + 1 \notin 1..Len(r)  BY <1>1, <2>4
    <3>. QED  BY <1>2, <1>5, <2>4, <3>1 DEF Coming, Follows, Starts
  <2>. QED  BY <1>4, <2>1, <2>2, <2>3, <2>4
<1>8. WireOf(r, <<>>)  BY <1>7 DEF WireOf, Rests
<1>9. Coming(r, <<>>, 1) = Coming(rx, <<>>, 1)
  <2>1. 1 \in 1..(n + 1)  BY <1>1
  <2>. QED  BY <1>6, <2>1
<1>10. (rx # <<>> => r[1] = rx[1]) /\ (rx = <<>> => ~r[1].mine)
  <2>1. rx # <<>> => 1 \in 1..n  BY <1>1
  <2>2. rx = <<>> => n + 1 = 1  BY <1>1
  <2>. QED  BY <1>1, <1>2, <2>1, <2>2
<1>11. ASSUME MineOf(rx, <<>>) PROVE MineOf(r, <<>>)
  <2>1. ASSUME NEW i \in 1..Len(r), i + 1 \in 1..Len(r), r[i].char # NL
        PROVE  r[i].mine <=> r[i + 1].mine
    <3>1. CASE i \in 1..n
      <4>1. i + 1 \in 1..n
        <5>. SUFFICES ASSUME i + 1 \notin 1..n PROVE FALSE  OBVIOUS
        <5>1. Follows(rx[i].char, "0")  BY <1>5, <3>1 DEF WireOf, Coming
        <5>. QED  BY <1>1, <2>1, <3>1, <5>1 DEF Follows, NL
      <4>. QED  BY <1>1, <1>11, <2>1, <3>1, <4>1 DEF MineOf
    <3>2. CASE i = n + 1
      <4>1. i + 1 = n + 2  BY <1>1, <3>2
      <4>. QED  BY <1>2, <3>2, <4>1
    <3>3. CASE i = n + 2
      <4>1. i + 1 = n + 3  BY <1>1, <3>3
      <4>. QED  BY <1>2, <3>3, <4>1
    <3>4. i # n + 3  BY <1>1, <2>1
    <3>. QED  BY <1>4, <3>1, <3>2, <3>3, <3>4
  <2>2. ASSUME NEW i \in 1..Len(r), r[i].mine, r[i].char = NL, NEW j \in 1..Len(r), j > i
        PROVE  ~r[j].mine
    <3>1. i \in 1..n /\ rx[i].mine /\ rx[i].char = NL  BY <1>1, <1>2, <1>4, <2>2
    <3>2. j \in 1..n => ~r[j].mine  BY <1>1, <1>11, <2>2, <3>1 DEF MineOf
    <3>. QED  BY <1>2, <1>4, <3>2
  <2>. QED  BY <2>1, <2>2 DEF MineOf
<1>12. ASSUME AskedOf(rx, <<>>, fresh) PROVE AskedOf(r, <<>>, fresher)
  <2>1. ASSUME NEW i \in 1..Len(r), r[i].char \in {"s", "c"} PROVE i = 1 /\ r[1].mine /\ fresher
    <3>1. i \in 1..n /\ rx[i].char \in {"s", "c"}  BY <1>1, <1>2, <1>4, <2>1 DEF NL
    <3>2. i = 1 /\ rx[1].mine /\ fresh  BY <1>12, <3>1 DEF AskedOf
    <3>. QED  BY <1>1, <3>1, <3>2
  <2>. QED  BY <2>1 DEF AskedOf
<1>13. Left(r, <<>>) => Left(rx, <<>>)
  BY <1>1, <1>2, <1>4 DEF Left
<1>14. Free(rx, <<>>, {"s", "c"}) => Free(r, <<>>, {"s", "c"})
  BY <1>1, <1>2, <1>4 DEF Free, NL
<1>15. Comes(r, <<>>, "0")
  <2>1. n + 1 \in 1..Len(r)  BY <1>1
  <2>2. \A j \in 1..Len(r) : j > n + 1 => r[j].char \notin {"0", "1"}
    <3>. TAKE j \in 1..Len(r)
    <3>. HAVE j > n + 1
    <3>1. j = n + 2 \/ j = n + 3  BY <1>1, <1>4
    <3>. QED  BY <1>2, <3>1 DEF NL
  <2>. QED  BY <1>2, <2>1, <2>2 DEF Comes
<1>. QED  BY <1>3, <1>8, <1>9, <1>10, <1>11, <1>12, <1>13, <1>14, <1>15 DEF r

-----------------------------------------------------------------------------
(* The invariant: while a command of the menu is waited for and no earlier *)
(* answer can come any more, only one answer can.                          *)

Upcoming == Coming(uart_rx, sending, 1)

Clean == ~cli_err /\ CleanFor(Upcoming)

Fresh == uart_tx = <<>> /\ response = Empty /\ uart_rx_i = 0 /\ ~uart_response_complete

Talking == kb # "idle" /\ ~late /\ called # Console

(* The answer with an end is on its way or there.                          *)
Ended == uart_response_complete \/ \E i \in 1..Len(uart_tx) : uart_tx[i].part = "end"

(* What is read next was sent before the command that is waited for.       *)
Behind == uart_rx # <<>> /\ ~uart_rx[1].mine

(* Only the current command, after nothing, can have an answer.            *)
Harmless == (uart_rx = <<>> /\ sending = <<>>) \/ Behind \/ ~Fresh => HarmlessFor(Upcoming)

(* Until the current command is read, and after its answer, sysctl's       *)
(* parser is in step.                                                      *)
InStep == Ended \/ (Behind /\ Left(uart_rx, sending)) => Clean

AnswerStage ==
  \/ uart_response_complete /\ uart_tx = <<>> /\ response.mine /\ uart_rx_i = 0
  \/ /\ ~uart_response_complete /\ response.mine /\ uart_rx_i = 1
     /\ Len(uart_tx) = 1 /\ uart_tx[1].part = "end"
  \/ /\ ~uart_response_complete /\ response = Empty /\ uart_rx_i = 0
     /\ Len(uart_tx) = 2 /\ uart_tx[1].part = "text" /\ uart_tx[1].mine /\ uart_tx[2].part = "end"

OneAnswer == Ended => ~Left(uart_rx, sending) /\ AnswerStage

Talk ==
  /\ WireOf(uart_rx, sending) /\ MineOf(uart_rx, sending) /\ AskedOf(uart_rx, sending, Fresh)
  /\ Harmless /\ InStep /\ OneAnswer

Base ==
  /\ sc = "loop" => ~cli_err
  /\ NumbersKept
  /\ todo # <<>> => todo = <<Append(On, NL)>> /\ called = On /\ kb # "idle"
  /\ kb # "idle" => called # Nothing

Power == IF som_is_powered THEN "P1" ELSE "P0"

LEMMA PiecesAre ==
  ASSUME NEW q \in Seq(Sent), NEW mine \in BOOLEAN
  PROVE  /\ cli_out' = Void => q \o Pieces(mine) = q
         /\ cli_out' # Void => q \o Pieces(mine) # <<>>
         /\ cli_out' # "str" => \A i \in 1..Len(q \o Pieces(mine)) :
              (q \o Pieces(mine))[i].part = "end" => i \in 1..Len(q) /\ q[i].part = "end"
         /\ cli_out' = "str" /\ q = <<>> =>
              /\ Len(q \o Pieces(mine)) = 2
              /\ (q \o Pieces(mine))[1].part = "text" /\ (q \o Pieces(mine))[1].mine = mine
              /\ (q \o Pieces(mine))[2].part = "end"
              /\ ran' = Voltages => (q \o Pieces(mine))[1].says = Power
<1>. DEFINE text == [part |-> "text", mine |-> mine,
                     says |-> CASE ran' = Voltages -> IF som_is_powered THEN "P1" ELSE "P0"
                                [] OTHER -> "nothing"]
            end == [part |-> "end", mine |-> mine, says |-> "nothing"]
            p == Pieces(mine)
            r == q \o p
<1>1. /\ cli_out' = Void => p = <<>>
      /\ cli_out' = "str" => p = <<text, end>>
      /\ cli_out' # Void /\ cli_out' # "str" => p = <<text>>
  BY DEF Pieces, text, end, Void
<1>2. /\ text.part = "text" /\ text.mine = mine /\ end.part = "end"
      /\ ran' = Voltages => text.says = Power
  BY DEF Power
<1>3. p \in Seq(Sent)  BY PiecesOK
<1>. HIDE DEF text, end, p
<1>4. /\ r \in Seq(Sent) /\ Len(q) \in Nat /\ Len(p) \in Nat /\ Len(r) = Len(q) + Len(p)
      /\ \A i \in 1..Len(q) + Len(p) : r[i] = IF i <= Len(q) THEN q[i] ELSE p[i - Len(q)]
  BY <1>3, ConcatProperties
<1>5. ASSUME cli_out' = Void PROVE r = q
  BY <1>1, <1>3, <1>5
<1>6. ASSUME cli_out' # Void PROVE r # <<>>
  <2>0. Len(<<text, end>>) = 2 /\ Len(<<text>>) = 1  OBVIOUS
  <2>1. Len(p) # 0
    <3>1. p = <<text, end>> \/ p = <<text>>  BY Zenon, <1>1, <1>6
    <3>2. CASE p = <<text, end>>  BY <2>0, <3>2
    <3>3. CASE p = <<text>>  BY <2>0, <3>3
    <3>. QED  BY <3>1, <3>2, <3>3
  <2>. HIDE DEF r
  <2>2. Len(r) # 0  BY <1>4, <2>1
  <2>. QED  BY <2>2
<1>7. ASSUME cli_out' # "str", NEW i \in 1..Len(r), r[i].part = "end"
      PROVE  i \in 1..Len(q) /\ q[i].part = "end"
  <2>. HIDE DEF r
  <2>1. Len(p) = 0 \/ (Len(p) = 1 /\ p[1].part = "text")  BY <1>1, <1>2, <1>7
  <2>. QED  BY <1>4, <1>7, <2>1
<1>8. ASSUME cli_out' = "str", q = <<>>
      PROVE  /\ Len(r) = 2 /\ r[1].part = "text" /\ r[1].mine = mine /\ r[2].part = "end"
             /\ ran' = Voltages => r[1].says = Power
  <2>1. Len(q) = 0  BY <1>8
  <2>2. Len(p) = 2 /\ p[1] = text /\ p[2] = end  BY <1>1, <1>8
  <2>. HIDE DEF r
  <2>3. Len(r) = 2 /\ r[1] = p[1] /\ r[2] = p[2]  BY <1>4, <2>1, <2>2
  <2>. QED  BY <1>2, <2>2, <2>3
<1>. QED  BY <1>5, <1>6, <1>7, <1>8 DEF p

(* sysctl reads the next character.                                        *)
LEMMA ReadFacts ==
  ASSUME LinkInv, handle_uart_commands
  PROVE  /\ uart_rx \in Seq(Received) /\ uart_tx \in Seq(Sent) /\ uart_rx # <<>> /\ uart_rx[1] \in Received
         /\ cli_char(uart_rx[1].char) /\ ParserOK /\ OutputOK'
         /\ uart_rx' = Tail(uart_rx) /\ uart_tx' = uart_tx \o Pieces(uart_rx[1].mine)
         /\ cli_err' = (cli_out' \in Codes \/ (cli_out' = Void /\ cli_err))
         /\ UNCHANGED <<todo, sending, kb, called, response, uart_rx_i, uart_response_complete, late, upset, doubt>>
<1>1. /\ uart_rx # <<>> /\ cli_char(Head(uart_rx).char)
      /\ uart_rx' = Tail(uart_rx) /\ uart_tx' = uart_tx \o Pieces(Head(uart_rx).mine)
      /\ cli_err' = (cli_out' \in Codes \/ (cli_out' = Void /\ cli_err))
      /\ UNCHANGED <<todo, sending, kb, called, response, uart_rx_i, uart_response_complete, late, upset, doubt>>
  BY Zenon DEF handle_uart_commands, remoteVars, collected, history
<1>2. uart_rx \in Seq(Received) /\ uart_tx \in Seq(Sent) /\ ParserOK
  BY DEF LinkInv, RxOK, TxOK, CliTypeOK, ParserOK
<1>3. Head(uart_rx) = uart_rx[1] /\ uart_rx[1] \in Received
  BY <1>1, <1>2, Took
<1>4. OutputOK'  BY <1>1, <1>2, CharKeepsTypes
<1>. QED  BY Zenon, <1>1, <1>2, <1>3, <1>4

LEMMA FollowsChars ==
  ASSUME NEW c, NEW u, Follows(c, u)
  PROVE  /\ c \in Letters \cup Digits \cup {NL}
         /\ c # NL => c \in Letters \cup Digits /\ c \in {"0", "1", "p", "s", "c"}
         /\ c = NL <=> u \in Starts
BY CommandChars DEF Follows, Starts, NL

LEMMA UpcomingNext ==
  ASSUME NEW u, u = Upcoming'
  PROVE  /\ HarmlessFor(u)' <=> HarmlessFor(Upcoming)'
         /\ CleanFor(u)' <=> CleanFor(Upcoming)'
BY DEF HarmlessFor, CleanFor

LEMMA ReadKeepsTalk ==
  ASSUME LinkInv, Base, Talk, handle_uart_commands
  PROVE  Talk'
<1>1. /\ uart_rx \in Seq(Received) /\ uart_tx \in Seq(Sent) /\ uart_rx # <<>> /\ uart_rx[1] \in Received
      /\ cli_char(uart_rx[1].char) /\ ParserOK /\ OutputOK'
      /\ uart_rx' = Tail(uart_rx) /\ uart_tx' = uart_tx \o Pieces(uart_rx[1].mine)
      /\ cli_err' = (cli_out' \in Codes \/ (cli_out' = Void /\ cli_err))
      /\ UNCHANGED <<sending, response, uart_rx_i, uart_response_complete>>
  BY Zenon, ReadFacts
<1>. DEFINE c == uart_rx[1].char
            mine == uart_rx[1].mine
<1>2. PICK u : u = Upcoming'  OBVIOUS
<1>3. mine \in BOOLEAN  BY <1>1 DEF Received
<1>4. Upcoming = c
  <2>1. 1 \in 1..Len(uart_rx)  BY <1>1, EmptySeq
  <2>. QED  BY <2>1 DEF Upcoming, Coming
<1>5. WireOf(uart_rx, sending)' /\ Follows(c, u)
  <2>1. WireOf(uart_rx, sending)  BY DEF Talk
  <2>2. WireOf(Tail(uart_rx), sending) /\ Follows(c, Coming(Tail(uart_rx), sending, 1))
    BY <1>1, <2>1, TakeKeepsWire
  <2>. QED  BY <1>1, <1>2, <2>2 DEF Upcoming
<1>6. /\ MineOf(uart_rx, sending)' /\ AskedOf(uart_rx, sending, Fresh)'
      /\ Left(uart_rx, sending)' => Left(uart_rx, sending)
      /\ c # NL /\ uart_rx' # <<>> => (uart_rx'[1].mine <=> mine)
      /\ c = NL /\ mine => ~Left(uart_rx, sending)'
  <2>1. MineOf(uart_rx, sending) /\ AskedOf(uart_rx, sending, Fresh)  BY DEF Talk
  <2>. DEFINE t == Tail(uart_rx)
  <2>2. /\ MineOf(t, sending) /\ AskedOf(t, sending, Fresh')
        /\ Left(t, sending) => Left(uart_rx, sending)
        /\ c # NL /\ t # <<>> => (t[1].mine <=> mine)
        /\ c = NL /\ mine => ~Left(t, sending)
    BY <1>1, <2>1, TakeKeepsOwners
  <2>. QED  BY <1>1, <2>2
<1>7. c \in Letters \cup Digits \cup {NL} /\ (c # NL => c \in Letters \cup Digits /\ c \in {"0", "1", "p", "s", "c"})
      /\ (c = NL <=> u \in Starts)
  BY <1>5, FollowsChars
<1>8. HarmlessFor(c) => cli_out' # "str"
  BY <1>1, <1>7, HarmlessIsSilent DEF ParserOK
<1>9. /\ cli_out' = Void => uart_tx' = uart_tx
      /\ cli_out' # Void => uart_tx' # <<>>
      /\ cli_out' # "str" /\ Ended' => Ended
  <2>1. /\ cli_out' = Void => uart_tx' = uart_tx
        /\ cli_out' # Void => uart_tx' # <<>>
        /\ cli_out' # "str" => \A i \in 1..Len(uart_tx') :
              uart_tx'[i].part = "end" => i \in 1..Len(uart_tx) /\ uart_tx[i].part = "end"
    BY <1>1, <1>3, PiecesAre
  <2>. QED  BY <1>1, <2>1 DEF Ended
<1>10. Harmless'
  <2>. SUFFICES ASSUME ((uart_rx = <<>> /\ sending = <<>>) \/ Behind \/ ~Fresh)' PROVE HarmlessFor(u)'
    BY <1>2, UpcomingNext DEF Harmless
  <2>1. CASE c = NL
    BY <1>1, <1>5, <2>1, NewlineIsHarmless
  <2>2. CASE c # NL /\ Fails
    BY Zenon, <2>2, ResetIsHarmless DEF Fails
  <2>3. CASE c # NL /\ Quiet
    <3>1. uart_tx' = uart_tx  BY <1>9, <2>3 DEF Quiet
    <3>2. ~(uart_rx = <<>> /\ sending = <<>>)'
      <4>1. (uart_rx = <<>> /\ sending = <<>>)' => u = "0"
        <5>1. (uart_rx = <<>>)' => 1 \notin 1..Len(uart_rx')  OBVIOUS
        <5>. QED  BY <1>2, <5>1 DEF Upcoming, Coming, NextOf
      <4>. QED  BY <1>7, <2>3, <4>1 DEF Starts
    <3>3. Behind \/ ~Fresh
      <4>1. Behind' => Behind  BY <1>1, <1>6, <2>3 DEF Behind
      <4>2. Fresh => Fresh'  BY <1>1, <3>1 DEF Fresh
      <4>. QED  BY <3>2, <4>1, <4>2
    <3>4. HarmlessFor(c)  BY <1>4, <3>3 DEF Talk, Harmless
    <3>5. c \in {"0", "1", "p"}
      <4>. SUFFICES ASSUME c \in {"s", "c"} PROVE FALSE  BY <1>7, <2>3
      <4>1. 1 \in 1..Len(uart_rx)  BY <1>1, EmptySeq
      <4>2. mine /\ Fresh  BY <4>1 DEF Talk, AskedOf
      <4>. QED  BY <3>3, <4>2 DEF Behind
    <3>. QED  BY <1>1, <1>5, <3>4, <3>5, PlainIsHarmless DEF Base, ParserOK
  <2>. QED  BY Zenon, <1>1, <1>7, <2>1, <2>2, <2>3, PlainChar
<1>11. ~(Ended \/ (Behind /\ Left(uart_rx, sending))) => ~(Behind /\ Left(uart_rx, sending))'
  <2>1. Behind' /\ Left(uart_rx, sending)' => ~mine
    BY <1>6 DEF Behind
  <2>. QED  BY <1>1, <1>6, <2>1 DEF Behind
<1>12. InStep'
  <2>. SUFFICES ASSUME (Ended \/ (Behind /\ Left(uart_rx, sending)))' PROVE ~cli_err' /\ CleanFor(u)'
    BY <1>2, UpcomingNext DEF InStep, Clean
  <2>1. CASE Ended \/ (Behind /\ Left(uart_rx, sending))
    <3>1. ~cli_err /\ CleanFor(c)  BY <1>4, <2>1 DEF Talk, InStep, Clean
    <3>2. CleanFor(u)' /\ cli_out' \notin Codes  BY <1>1, <1>5, <3>1, CleanStep
    <3>. QED  BY <1>1, <3>1, <3>2
  <2>2. CASE ~(Ended \/ (Behind /\ Left(uart_rx, sending)))
    <3>1. cli_out' = "str"  BY <1>9, <1>11, <2>2
    <3>2. c = NL /\ cli_reset  BY <1>1, <1>7, <3>1, AnswerComes
    <3>3. CleanFor(u)'  BY <1>7, <3>2 DEF cli_reset, CleanFor, Starts, NL
    <3>. QED  BY <1>1, <3>1, <3>3 DEF Codes, Void
  <2>. QED  BY <2>1, <2>2
<1>13. OneAnswer'
  <2>. SUFFICES ASSUME Ended' PROVE (~Left(uart_rx, sending))' /\ AnswerStage'
    BY DEF OneAnswer
  <2>1. CASE Ended
    <3>1. ~cli_err /\ CleanFor(c) /\ ~Left(uart_rx, sending) /\ AnswerStage
      BY <1>4, <2>1 DEF Talk, InStep, Clean, OneAnswer
    <3>2. ~Fresh  BY <2>1 DEF Ended, Fresh
    <3>3. cli_out' # "str"  BY <1>4, <1>8, <3>2 DEF Talk, Harmless
    <3>4. cli_out' = Void
      <4>1. CASE c # NL
        BY <1>1, <1>5, <3>1, <4>1, CleanStep DEF Quiet
      <4>2. CASE c = NL
        <5>1. cli_word \in {On, Off, Status, Voltages} /\ cli_out' = Answers[cli_word]
          BY <1>1, <3>1, <4>2, CleanCalls
        <5>. QED  BY <3>3, <5>1, LinkAssumption
      <4>. QED  BY <4>1, <4>2
    <3>5. AnswerStage'  BY <1>1, <1>9, <3>1, <3>4 DEF AnswerStage
    <3>. QED  BY <1>6, <3>1, <3>5
  <2>2. CASE ~Ended
    <3>1. cli_out' = "str"  BY <1>9, <2>2
    <3>2. ~HarmlessFor(c)  BY <1>8, <3>1
    <3>3. mine /\ Fresh  BY <1>1, <1>4, <3>2 DEF Talk, Harmless, Behind
    <3>4. c = NL  BY <1>1, <1>7, <3>1, AnswerComes
    <3>5. /\ Len(uart_tx') = 2 /\ uart_tx'[1].part = "text" /\ uart_tx'[1].mine = mine
          /\ uart_tx'[2].part = "end"
      <4>1. uart_tx = <<>>  BY <3>3 DEF Fresh
      <4>. QED  BY <1>1, <1>3, <3>1, <4>1, PiecesAre
    <3>6. response' = Empty /\ uart_rx_i' = 0 /\ ~uart_response_complete'
      BY <1>1, <3>3 DEF Fresh
    <3>. QED  BY <1>6, <3>3, <3>4, <3>5, <3>6 DEF AnswerStage
  <2>. QED  BY <2>1, <2>2
<1>. QED  BY <1>5, <1>6, <1>10, <1>12, <1>13 DEF Talk

-----------------------------------------------------------------------------
(* The steps that read and send nothing leave the talk as it is, and a     *)
(* reset after an error finds a parser that is out of step.                *)

LEMMA SameUpcoming ==
  ASSUME UNCHANGED parserVars, NEW a, NEW b, a = b \/ (a \in Starts /\ b \in Starts)
  PROVE  /\ HarmlessFor(a) => HarmlessFor(b)'
         /\ CleanFor(a) => CleanFor(b)'
<1>. USE DEF parserVars
<1>1. "p" \notin Starts /\ NL \notin Starts  BY DEF Starts, NL
<1>2. HarmlessFor(a) => HarmlessFor(b)'  BY <1>1 DEF HarmlessFor
<1>3. CleanFor(a) => CleanFor(b)'  BY <1>1 DEF CleanFor
<1>. QED  BY <1>2, <1>3

LEMMA KeepsUpcoming ==
  ASSUME UNCHANGED parserVars, Upcoming' = Upcoming, cli_err' => cli_err
  PROVE  /\ HarmlessFor(Upcoming) => HarmlessFor(Upcoming)'
         /\ Clean => Clean'
<1>1. PICK u : u = Upcoming'  OBVIOUS
<1>2. /\ HarmlessFor(Upcoming) => HarmlessFor(u)'
      /\ CleanFor(Upcoming) => CleanFor(u)'
  BY <1>1, SameUpcoming
<1>3. /\ HarmlessFor(u)' <=> HarmlessFor(Upcoming)'
      /\ CleanFor(u)' <=> CleanFor(Upcoming)'
  BY <1>1, UpcomingNext
<1>. QED  BY Zenon, <1>2, <1>3 DEF Clean

LEMMA IdleKeepsTalk ==
  ASSUME Talk, UNCHANGED <<uart_rx, sending, uart_tx, response, uart_rx_i, uart_response_complete>>,
         UNCHANGED parserVars \/ (cli_err /\ cli_reset), cli_err' => cli_err
  PROVE  Talk'
<1>1. /\ WireOf(uart_rx, sending)' /\ MineOf(uart_rx, sending)'
      /\ (Left(uart_rx, sending)' <=> Left(uart_rx, sending))
      /\ (Fresh' <=> Fresh) /\ (Ended' <=> Ended) /\ (Behind' <=> Behind) /\ (AnswerStage' <=> AnswerStage)
      /\ Upcoming' = Upcoming
  BY DEF Talk, Fresh, Ended, Behind, AnswerStage, Upcoming
<1>2. AskedOf(uart_rx, sending, Fresh)'
  BY <1>1 DEF Talk, AskedOf
<1>3. OneAnswer'  BY Zenon, <1>1 DEF Talk, OneAnswer
<1>4. CASE UNCHANGED parserVars
  <2>1. /\ HarmlessFor(Upcoming) => HarmlessFor(Upcoming)'
        /\ Clean => Clean'
    BY <1>1, <1>4, KeepsUpcoming
  <2>2. Harmless'  BY <1>1, <2>1 DEF Talk, Harmless
  <2>3. InStep'  BY Zenon, <1>1, <2>1 DEF Talk, InStep
  <2>. QED  BY Zenon, <1>1, <1>2, <1>3, <2>2, <2>3 DEF Talk
<1>5. CASE cli_err /\ cli_reset
  <2>1. PICK u : u = Upcoming'  OBVIOUS
  <2>2. HarmlessFor(u)'  BY <1>5, ResetIsHarmless
  <2>3. Harmless'  BY <2>1, <2>2, UpcomingNext DEF Harmless
  <2>4. InStep'  BY Zenon, <1>1, <1>5 DEF Talk, InStep, Clean
  <2>. QED  BY Zenon, <1>1, <1>2, <1>3, <2>3, <2>4 DEF Talk
<1>. QED  BY <1>4, <1>5

(* A command that is sent when everything was at rest.                     *)
LEMMA FreshStart ==
  ASSUME uart_rx' = <<>>, sending' \in Tries, Fresh'
  PROVE  Talk'
<1>1. sending' \in Rests /\ sending' # <<>>  BY TriesBegin
<1>2. WireOf(uart_rx, sending)'  BY <1>1 DEF WireOf
<1>3. MineOf(uart_rx, sending)'  BY DEF MineOf
<1>4. AskedOf(uart_rx, sending, Fresh)'  BY DEF AskedOf
<1>5. ~Ended' /\ ~Behind'  BY DEF Fresh, Ended, Behind
<1>6. Harmless' /\ InStep' /\ OneAnswer'
  <2>1. Harmless'  BY <1>1, <1>5 DEF Harmless
  <2>2. InStep' /\ OneAnswer'  BY Zenon, <1>5 DEF InStep, OneAnswer
  <2>. QED  BY <2>1, <2>2
<1>. QED  BY Zenon, <1>2, <1>3, <1>4, <1>6 DEF Talk

LEMMA NothingOvertaken == Overtaken(<<>>) = <<>>
BY EmptySeq, Overtook

(* The commands of remote.c. *)
LEMMA MenuTries ==
  /\ \A f \in {Off, Status, Voltages} : Head(<<Append(f, NL)>>) = Append(f, NL) /\ Append(f, NL) \in Tries
                                        /\ Tail(<<Append(f, NL)>>) = <<>>
  /\ Head(remote_turn_on_som) = Append(On, NL) /\ Append(On, NL) \in Tries
  /\ Tail(remote_turn_on_som) = <<Append(On, NL)>>
<1>1. {Append(Off, NL), Append(On, NL), Append(Status, NL), Append(Voltages, NL)} \subseteq Tries
  BY TriesAre DEF Tries
<1>2. ASSUME NEW a PROVE Head(<<a>>) = a /\ Tail(<<a>>) = <<>>
  <2>. DEFINE t == Tail(<<a>>)
  <2>1. t \in Seq({a}) /\ Len(t) = 0  OBVIOUS
  <2>. HIDE DEF t
  <2>2. t = <<>>  BY <2>1, EmptySeq
  <2>. QED  BY <2>2 DEF t
<1>3. ASSUME NEW a, NEW b PROVE Head(<<a, b>>) = a /\ Tail(<<a, b>>) = <<b>>
  BY TailsOfTuples
<1>. QED  BY <1>1, <1>2, <1>3 DEF remote_turn_on_som

(* The receive interrupt takes the next piece of an answer.                *)
LEMMA TookPiece ==
  ASSUME NEW q \in Seq(Sent), q # <<>>
  PROVE  /\ Head(q) = q[1] /\ q[1] \in Sent
         /\ Tail(q) \in Seq(Sent) /\ Len(q) \in Nat /\ Len(q) >= 1
         /\ Len(Tail(q)) = Len(q) - 1
         /\ \A i \in 1..Len(Tail(q)) : Tail(q)[i] = q[i + 1]
BY EmptySeq, HeadTailProperties

-----------------------------------------------------------------------------
(* What holds whatever is sent: Base.                                      *)

LEMMA StepKeepsBase == LinkInv /\ Base /\ [Next]_vars => Base'
<1>. SUFFICES ASSUME LinkInv, Base, [Next]_vars PROVE Base'
  OBVIOUS
<1>0. /\ UNCHANGED <<sc, cli_err>> => (sc = "loop" => ~cli_err)'
      /\ UNCHANGED parserVars => NumbersKept'
      /\ UNCHANGED <<todo, called, kb>> => (todo # <<>> => todo = <<Append(On, NL)>> /\ called = On /\ kb # "idle")'
      /\ UNCHANGED <<kb, called>> => (kb # "idle" => called # Nothing)'
  BY DEF Base, NumbersKept, parserVars
<1>1. CASE loop
  <2>1. (sc = "loop" => ~cli_err)'  BY <1>1 DEF loop
  <2>. QED  BY Zenon, <1>0, <1>1, <2>1 DEF loop, Base, remoteVars, cliVars
<1>2. CASE handle_uart_commands
  <2>1. (sc = "loop" => ~cli_err)'  BY <1>2 DEF handle_uart_commands
  <2>2. NumbersKept'  BY Zenon, <1>2, NumbersStay DEF handle_uart_commands, Base
  <2>. QED  BY Zenon, <1>0, <1>2, <2>1, <2>2 DEF handle_uart_commands, Base, remoteVars
<1>3. CASE EndOfBatch
  <2>1. (sc = "loop" => ~cli_err)'  BY <1>3 DEF EndOfBatch
  <2>2. NumbersKept'
    <3>1. cli_reset => NumbersKept'  BY DEF cli_reset, NumbersKept
    <3>. QED  BY Zenon, <1>0, <1>3, <3>1 DEF EndOfBatch
  <2>. QED  BY Zenon, <1>0, <1>3, <2>1, <2>2 DEF EndOfBatch, Base, remoteVars
<1>4. CASE SomOff
  BY Zenon, <1>0, <1>4 DEF SomOff, Base, remoteVars, cliVars
<1>5. ASSUME NEW f \in {Off, Status, Voltages}, Call(f, <<Append(f, NL)>>) PROVE Base'
  <2>1. UNCHANGED sysctlVars /\ todo' = <<>> /\ called' = f
    BY Zenon, <1>5, MenuTries DEF Call
  <2>2. f # Nothing
    <3>1. Len(f) > 0  BY CommandShapes
    <3>. QED  BY <3>1 DEF Nothing
  <2>. QED  BY <1>0, <2>1, <2>2 DEF Base, sysctlVars, cliVars
<1>6. CASE Call(On, remote_turn_on_som)
  <2>1. UNCHANGED sysctlVars /\ todo' = <<Append(On, NL)>> /\ called' = On /\ kb' = "send"
    BY Zenon, <1>6, MenuTries DEF Call, remote_try_command
  <2>2. On # Nothing
    BY CommandShapes DEF Nothing
  <2>. QED  BY <1>0, <2>1, <2>2 DEF Base, sysctlVars, cliVars
<1>7. ASSUME NEW line \in Lines, Call(Console, <<line>>) PROVE Base'
  <2>1. Tail(<<line>>) = <<>>
    <3>. DEFINE t == Tail(<<line>>)
    <3>1. t \in Seq({line}) /\ Len(t) = 0  OBVIOUS
    <3>. HIDE DEF t
    <3>2. t = <<>>  BY <3>1, EmptySeq
    <3>. QED  BY <3>2 DEF t
  <2>2. UNCHANGED sysctlVars /\ todo' = <<>> /\ called' = Console
    BY Zenon, <1>7, <2>1 DEF Call
  <2>3. Console # Nothing
    BY DEF Nothing, Console
  <2>. QED  BY <1>0, <2>2, <2>3 DEF Base, sysctlVars, cliVars
<1>8. CASE uart_puts
  <2>1. UNCHANGED <<sysctlVars, todo, called>> /\ kb = "send"  BY Zenon, <1>8 DEF uart_puts
  <2>2. kb # "idle" /\ kb' # "idle"  BY <1>8, <2>1 DEF uart_puts
  <2>. QED  BY <1>0, <2>1, <2>2 DEF Base, sysctlVars, cliVars
<1>9. CASE remote_on_uart_rx
  BY Zenon, <1>0, <1>9 DEF remote_on_uart_rx, Base, sysctlVars, remoteVars, cliVars
<1>10. ASSUME NEW ok, kb = "wait", Tried(ok) PROVE Base'
  <2>1. UNCHANGED <<sysctlVars, called>>
        /\ ((todo # <<>> /\ todo' = Tail(todo)) \/ (todo = <<>> /\ todo' = todo))
    BY Zenon, <1>10 DEF Tried
  <2>2. todo' = <<>>
    <3>. DEFINE t == Tail(<<Append(On, NL)>>)
    <3>1. t = <<>>
      <4>. DEFINE a == Append(On, NL)
      <4>1. t = Tail(<<a>>) OBVIOUS
      <4>. HIDE DEF a, t
      <4>. DEFINE v == Tail(<<a>>)
      <4>2. v \in Seq({a}) /\ Len(v) = 0  OBVIOUS
      <4>. HIDE DEF v
      <4>3. v = <<>>  BY <4>2, EmptySeq
      <4>. QED  BY <4>1, <4>3 DEF v
    <3>. HIDE DEF t
    <3>2. todo # <<>> => todo = <<Append(On, NL)>>  BY DEF Base
    <3>. QED  BY Zenon, <2>1, <3>1, <3>2 DEF t
  <2>. QED  BY <1>0, <1>10, <2>1, <2>2 DEF Base, sysctlVars, cliVars
<1>11. CASE Answered
  BY <1>10, <1>11 DEF Answered
<1>12. CASE TimedOut
  BY <1>10, <1>12 DEF TimedOut
<1>13. CASE PowerOffReport
  <2>1. UNCHANGED <<sysctlVars, todo, kb>> /\ ((kb = "idle" /\ called' = Off) \/ called' = called)
    BY Zenon, <1>13 DEF PowerOffReport
  <2>2. (kb # "idle" => called # Nothing)'
    <3>1. Off # Nothing  BY CommandShapes DEF Nothing
    <3>. QED  BY <2>1, <3>1 DEF Base
  <2>3. (todo # <<>> => todo = <<Append(On, NL)>> /\ called = On /\ kb # "idle")'
    <3>1. todo # <<>> => kb # "idle"
      BY DEF Base
    <3>. QED  BY <2>1, <3>1 DEF Base
  <2>. QED  BY Zenon, <1>0, <2>1, <2>2, <2>3 DEF Base, sysctlVars, cliVars
<1>14. CASE NoiseComes
  BY Zenon, <1>0, <1>14 DEF NoiseComes, Base, sysctlVars, remoteVars, cliVars
<1>15. CASE UNCHANGED vars
  BY Zenon, <1>0, <1>15 DEF vars, Base, sysctlVars, remoteVars, cliVars
<1>. QED
  BY Zenon, <1>1, <1>2, <1>3, <1>4, <1>5, <1>6, <1>7, <1>8, <1>9, <1>11, <1>12, <1>13, <1>14, <1>15 DEF Next

-----------------------------------------------------------------------------
(* The steps of a talk, one lemma each.                                    *)

LEMMA PutsKeepsTalk ==
  ASSUME LinkInv, Talk, uart_puts
  PROVE  Talk'
<1>. DEFINE x == [char |-> Head(sending), mine |-> TRUE]
<1>1. /\ uart_rx' = Append(uart_rx, x) /\ sending' = Tail(sending) /\ kb = "send"
      /\ UNCHANGED <<sysctlVars, uart_tx, collected>>
  BY Zenon DEF uart_puts
<1>2. uart_rx \in Seq(Received) /\ sending # <<>> /\ sending \in Seq(Chars)
  BY <1>1 DEF LinkInv, RxOK, TryOK
<1>3. x \in Received /\ x.char = Head(sending) /\ x.mine
  <2>1. Head(sending) \in Chars  BY <1>2
  <2>. QED  BY <2>1 DEF Received
<1>. HIDE DEF x
<1>4. WireOf(uart_rx, sending) /\ MineOf(uart_rx, sending) /\ AskedOf(uart_rx, sending, Fresh)
  BY DEF Talk
<1>5. /\ UNCHANGED parserVars /\ cli_err' = cli_err
      /\ (Fresh' <=> Fresh) /\ (Ended' <=> Ended)
  BY <1>1 DEF sysctlVars, cliVars, collected, Fresh, Ended
<1>6. /\ WireOf(uart_rx', sending') /\ Coming(uart_rx', sending', 1) = Coming(uart_rx, sending, 1)
      /\ uart_rx' # <<>> /\ (uart_rx # <<>> => uart_rx'[1] = uart_rx[1])
      /\ (uart_rx = <<>> => uart_rx'[1].mine)
  BY <1>1, <1>2, <1>3, <1>4, PutKeepsWire
<1>7. MineOf(uart_rx', sending') /\ AskedOf(uart_rx', sending', Fresh)
  <2>1. {} \in SUBSET Starts /\ "0" \in {"0", "1"}  OBVIOUS
  <2>. QED  BY <1>1, <1>2, <1>3, <1>4, <2>1, PutKeepsOwners
<1>8. Upcoming' = Upcoming  BY <1>6 DEF Upcoming
<1>9. /\ HarmlessFor(Upcoming) => HarmlessFor(Upcoming)'
      /\ Clean => Clean'
  BY <1>5, <1>8, KeepsUpcoming
<1>10. Behind' => Behind  BY <1>6 DEF Behind
<1>11. Left(uart_rx, sending)  BY <1>2 DEF Left
<1>12. ~Ended  BY Zenon, <1>11 DEF Talk, OneAnswer
<1>13. Harmless'  BY Zenon, <1>5, <1>6, <1>9, <1>10 DEF Talk, Harmless
<1>14. InStep'  BY Zenon, <1>5, <1>9, <1>10, <1>11, <1>12 DEF Talk, InStep
<1>15. OneAnswer'  BY Zenon, <1>5, <1>12 DEF OneAnswer
<1>16. AskedOf(uart_rx, sending, Fresh)'  BY <1>5, <1>7 DEF AskedOf
<1>. QED  BY <1>6, <1>7, <1>13, <1>14, <1>15, <1>16 DEF Talk

LEMMA ReceiveKeepsTalk ==
  ASSUME LinkInv, Talk, remote_on_uart_rx
  PROVE  Talk'
<1>1. /\ uart_tx # <<>> /\ uart_tx' = Tail(uart_tx)
      /\ UNCHANGED <<sysctlVars, uart_rx, sending>>
      /\ uart_response_complete' => uart_response_complete \/ Head(uart_tx).part = "end"
  <2>1. /\ uart_tx # <<>> /\ uart_tx' = Tail(uart_tx)
        /\ UNCHANGED <<sysctlVars, uart_rx, sending>>
    BY Zenon DEF remote_on_uart_rx, remoteVars
  <2>2. UNCHANGED uart_response_complete \/ Head(uart_tx).part = "end"
    BY Zenon DEF remote_on_uart_rx
  <2>3. uart_response_complete' => uart_response_complete \/ Head(uart_tx).part = "end"
    BY ONLY <2>2
  <2>. QED  BY Zenon, <2>1, <2>3
<1>2. /\ uart_tx \in Seq(Sent) /\ Head(uart_tx) = uart_tx[1] /\ uart_tx[1] \in Sent
      /\ Len(uart_tx) \in Nat /\ Len(uart_tx) >= 1
      /\ Len(uart_tx') = Len(uart_tx) - 1 /\ uart_tx' \in Seq(Sent)
      /\ \A i \in 1..Len(uart_tx') : uart_tx'[i] = uart_tx[i + 1]
  <2>1. uart_tx \in Seq(Sent)  BY DEF LinkInv, TxOK
  <2>. QED  BY <1>1, <2>1, TookPiece
<1>3. ~Fresh  BY <1>1 DEF Fresh
<1>4. /\ WireOf(uart_rx, sending)' /\ MineOf(uart_rx, sending)'
      /\ (Behind' <=> Behind) /\ (Left(uart_rx, sending)' <=> Left(uart_rx, sending))
      /\ Upcoming' = Upcoming /\ UNCHANGED parserVars /\ cli_err' = cli_err
  BY <1>1 DEF Talk, Behind, Upcoming, sysctlVars, cliVars
<1>5. AskedOf(uart_rx, sending, Fresh)'
  <2>1. AskedOf(uart_rx, sending, Fresh)  BY DEF Talk
  <2>. QED  BY <1>1, <1>3, <2>1 DEF AskedOf
<1>6. /\ HarmlessFor(Upcoming) => HarmlessFor(Upcoming)'
      /\ Clean => Clean'
  BY <1>4, KeepsUpcoming
<1>7. Harmless'  BY Zenon, <1>3, <1>6 DEF Talk, Harmless
<1>8. Ended' => Ended
  <2>1. ASSUME uart_response_complete' PROVE Ended
    <3>1. 1 \in 1..Len(uart_tx)  BY <1>2
    <3>. QED  BY <1>1, <1>2, <2>1, <3>1 DEF Ended
  <2>2. ASSUME NEW i \in 1..Len(uart_tx'), uart_tx'[i].part = "end" PROVE Ended
    <3>1. i + 1 \in 1..Len(uart_tx)  BY <1>2
    <3>. QED  BY <1>2, <2>2, <3>1 DEF Ended
  <2>. QED  BY <2>1, <2>2 DEF Ended
<1>9. InStep'  BY Zenon, <1>4, <1>6, <1>8 DEF Talk, InStep
<1>10. ASSUME Ended' PROVE AnswerStage'
  <2>0. AnswerStage  BY Zenon, <1>8, <1>10 DEF Talk, OneAnswer
  <2>1. CASE /\ ~uart_response_complete /\ response.mine /\ uart_rx_i = 1
             /\ Len(uart_tx) = 1 /\ uart_tx[1].part = "end"
    <3>1. uart_rx_i' = 0 /\ uart_response_complete' /\ response' = response
      BY <1>2, <2>1 DEF remote_on_uart_rx
    <3>2. uart_tx' = <<>>  BY <1>2, <2>1, EmptySeq
    <3>. QED  BY <2>1, <3>1, <3>2 DEF AnswerStage
  <2>2. CASE /\ ~uart_response_complete /\ response = Empty /\ uart_rx_i = 0
             /\ Len(uart_tx) = 2 /\ uart_tx[1].part = "text" /\ uart_tx[1].mine /\ uart_tx[2].part = "end"
    <3>1. uart_rx_i' = 1 /\ ~uart_response_complete' /\ response' = [says |-> uart_tx[1].says, mine |-> uart_tx[1].mine]
      BY <1>2, <2>2 DEF remote_on_uart_rx
    <3>2. response'.mine  BY <2>2, <3>1
    <3>3. Len(uart_tx') = 1 /\ uart_tx'[1] = uart_tx[2]
      <4>1. Len(uart_tx') = 1 /\ 1 \in 1..Len(uart_tx') /\ 1 + 1 = 2  BY <1>2, <2>2
      <4>2. uart_tx'[1] = uart_tx[1 + 1]  BY <1>2, <4>1
      <4>. QED  BY <4>1, <4>2
    <3>. QED  BY <2>2, <3>1, <3>2, <3>3 DEF AnswerStage
  <2>. QED  BY <1>1, <2>0, <2>1, <2>2 DEF AnswerStage
<1>11. OneAnswer'  BY Zenon, <1>4, <1>8, <1>10 DEF Talk, OneAnswer
<1>. QED  BY Zenon, <1>4, <1>5, <1>7, <1>9, <1>11 DEF Talk

(* The second power-on of remote_turn_on_som, after an answer: that came   *)
(* for what was on the wire before, and the parser is in step after it.    *)
LEMMA SecondTry ==
  ASSUME LinkInv, Base, Talk, Answered, todo # <<>>
  PROVE  /\ Talk' /\ Clean' /\ Fresh' /\ sending' = <<"1", "p", NL>>
         /\ Free(uart_rx, sending, {"s", "c"})'
         /\ cli_state' = "WORD" => cli_word' \notin {Status, Voltages}
<1>. DEFINE cmd == <<"1", "p", NL>>
<1>1. todo = <<Append(On, NL)>> /\ Head(todo) = cmd /\ cmd \in Tries
  <2>1. todo = <<Append(On, NL)>>  BY DEF Base
  <2>2. Append(On, NL) = cmd  BY TriesAre
  <2>. QED  BY <2>1, <2>2 DEF Tries
<1>2. /\ kb = "wait" /\ uart_response_complete
      /\ sending' = cmd /\ uart_rx' = Overtaken(uart_rx) /\ uart_tx' = Overtaken(uart_tx)
      /\ response' = Empty /\ uart_rx_i' = 0 /\ uart_response_complete' = FALSE
      /\ UNCHANGED sysctlVars
  <2>1. Tried(TRUE) /\ kb = "wait" /\ uart_response_complete  BY Zenon DEF Answered
  <2>2. remote_try_command(Head(todo)) /\ UNCHANGED sysctlVars  BY Zenon, <2>1 DEF Tried
  <2>. QED  BY Zenon, <1>1, <2>1, <2>2 DEF remote_try_command
<1>3. sending = <<>>  BY <1>2 DEF LinkInv, TryOK
<1>4. Ended  BY <1>2 DEF Ended
<1>5. Clean /\ AnswerStage
  BY Zenon, <1>4 DEF Talk, InStep, OneAnswer
<1>6. uart_tx = <<>>  BY <1>2, <1>5 DEF AnswerStage
<1>7. Fresh'  BY <1>2, <1>6, NothingOvertaken DEF Fresh
<1>8. HarmlessFor(Upcoming)
  <2>1. ~Fresh  BY <1>2 DEF Fresh
  <2>. QED  BY Zenon, <2>1 DEF Talk, Harmless
<1>9. WireOf(uart_rx, <<>>) /\ MineOf(uart_rx, <<>>) /\ Free(uart_rx, <<>>, {"s", "c"})
  <2>1. WireOf(uart_rx, <<>>) /\ MineOf(uart_rx, <<>>) /\ AskedOf(uart_rx, <<>>, Fresh)
    BY <1>3 DEF Talk
  <2>2. ~Fresh  BY <1>2 DEF Fresh
  <2>. QED  BY <2>1, <2>2 DEF AskedOf, Free
<1>10. uart_rx \in Seq(Received)  BY DEF LinkInv, RxOK
<1>11. /\ WireOf(uart_rx', cmd)
       /\ \/ Coming(uart_rx', cmd, 1) = Coming(uart_rx, <<>>, 1)
          \/ Coming(uart_rx', cmd, 1) \in Starts /\ Coming(uart_rx, <<>>, 1) \in Starts
       /\ MineOf(uart_rx', cmd)
       /\ Free(uart_rx', cmd, {"s", "c"})
  <2>1. {"s", "c"} \in SUBSET Starts /\ "0" \in {"0", "1"}  BY DEF Starts
  <2>2. cmd[1] \notin {"s", "c"}  BY TailsOfTuples
  <2>. HIDE DEF cmd
  <2>. QED  BY <1>1, <1>2, <1>9, <1>10, <2>1, <2>2, OvertakeKeeps
<1>. HIDE DEF cmd
<1>12. AskedOf(uart_rx, sending, Fresh)'
  BY <1>2, <1>11 DEF AskedOf, Free
<1>13. PICK u : u = Upcoming'  OBVIOUS
<1>14. HarmlessFor(Upcoming)' /\ Clean'
  <2>1. UNCHANGED parserVars /\ cli_err' = cli_err  BY <1>2 DEF sysctlVars, cliVars
  <2>2. u = Upcoming \/ (u \in Starts /\ Upcoming \in Starts)
    BY <1>2, <1>3, <1>11, <1>13 DEF Upcoming
  <2>3. HarmlessFor(u)' /\ (CleanFor(Upcoming) => CleanFor(u)')
    BY <1>8, <2>1, <2>2, SameUpcoming
  <2>. QED  BY <1>5, <1>13, <2>1, <2>3, UpcomingNext DEF Clean
<1>15. ~Ended'  BY <1>7 DEF Ended, Fresh
<1>16. Harmless' /\ InStep' /\ OneAnswer'
  BY Zenon, <1>14, <1>15 DEF Harmless, InStep, OneAnswer
<1>17. cli_state' = "WORD" => cli_word' \notin {Status, Voltages}
  <2>1. Upcoming \in Starts \cup {"p", NL}
    <3>1. CASE 1 \in 1..Len(uart_rx)
      <4>1. Follows(uart_rx[1].char, Coming(uart_rx, <<>>, 1 + 1))  BY <1>9, <3>1 DEF WireOf
      <4>. QED  BY <3>1, <4>1 DEF Upcoming, Coming, Follows, Starts
    <3>2. CASE 1 \notin 1..Len(uart_rx)
      BY <1>3, <3>2 DEF Upcoming, Coming, NextOf, Starts
    <3>. QED  BY <3>1, <3>2
  <2>2. \A d \in {"0", "1"} : <<d>> \notin {Status, Voltages}
    <3>1. ASSUME NEW d PROVE <<d>>[1] = d  OBVIOUS
    <3>. QED  BY <3>1, CommandShapes
  <2>3. cli_state = "WORD" => cli_word \notin {Status, Voltages}
    BY <1>5, <1>8, <2>1, <2>2 DEF Clean, CleanFor, HarmlessFor
  <2>. QED  BY <1>2, <2>3 DEF sysctlVars, cliVars, parserVars
<1>18. sending' = <<"1", "p", NL>>  BY <1>2 DEF cmd
<1>19. Free(uart_rx, sending, {"s", "c"})'  BY <1>2, <1>11
<1>20. Talk'  BY <1>2, <1>11, <1>12, <1>16 DEF Talk
<1>. QED  BY Zenon, <1>7, <1>14, <1>17, <1>18, <1>19, <1>20

LEMMA PowerOffKeepsTalk ==
  ASSUME LinkInv, Talk, PowerOffReport, kb # "idle", ~late'
  PROVE  Talk'
<1>1. /\ ~late /\ kb # "send" /\ response = Empty
      /\ uart_rx' = uart_rx \o Report /\ sending' = sending
      /\ response' = Empty /\ uart_rx_i' = 0 /\ uart_response_complete' = FALSE
      /\ UNCHANGED <<sysctlVars, uart_tx>>
  BY Zenon DEF PowerOffReport
<1>2. sending = <<>>  BY <1>1 DEF LinkInv, TryOK
<1>3. uart_rx \in Seq(Received)  BY DEF LinkInv, RxOK
<1>4. WireOf(uart_rx, <<>>) /\ MineOf(uart_rx, <<>>) /\ AskedOf(uart_rx, <<>>, Fresh)
  BY <1>2 DEF Talk
<1>5. Fresh => Fresh'  BY <1>1 DEF Fresh
<1>6. Ended' => Ended /\ ~uart_response_complete /\ ~response.mine
  <2>1. Ended' => Ended  BY <1>1 DEF Ended
  <2>2. ~Empty.mine  BY DEF Empty
  <2>3. Ended => AnswerStage  BY Zenon DEF Talk, OneAnswer
  <2>. QED  BY <1>1, <2>1, <2>2, <2>3 DEF AnswerStage
<1>7. /\ WireOf(uart_rx', <<>>)
      /\ Coming(uart_rx', <<>>, 1) = Coming(uart_rx, <<>>, 1)
      /\ uart_rx' # <<>>
      /\ uart_rx # <<>> => uart_rx'[1] = uart_rx[1]
      /\ MineOf(uart_rx', <<>>)
      /\ AskedOf(uart_rx', <<>>, Fresh')
      /\ Left(uart_rx', <<>>) => Left(uart_rx, <<>>)
  BY <1>1, <1>3, <1>4, <1>5, ReportKeeps
<1>8. Upcoming' = Upcoming  BY <1>1, <1>2, <1>7 DEF Upcoming
<1>9. UNCHANGED parserVars /\ cli_err' = cli_err  BY <1>1 DEF sysctlVars, cliVars
<1>10. /\ HarmlessFor(Upcoming) => HarmlessFor(Upcoming)'
       /\ Clean => Clean'
  BY <1>8, <1>9, KeepsUpcoming
<1>11. Behind' => Behind \/ (uart_rx = <<>> /\ sending = <<>>)
  BY <1>2, <1>7 DEF Behind
<1>12. Harmless'  BY Zenon, <1>5, <1>7, <1>10, <1>11 DEF Talk, Harmless
<1>13. Left(uart_rx, sending)' => Left(uart_rx, sending)  BY <1>1, <1>2, <1>7
<1>14. InStep'
  <2>1. Left(uart_rx, sending) => ~(uart_rx = <<>> /\ sending = <<>>)
    <3>1. uart_rx = <<>> => ~\E i \in 1..Len(uart_rx) : TRUE  OBVIOUS
    <3>. QED  BY <3>1 DEF Left
  <2>. QED  BY Zenon, <1>6, <1>10, <1>11, <1>13, <2>1 DEF Talk, InStep
<1>15. OneAnswer'
  <2>. SUFFICES ASSUME Ended' PROVE ~Left(uart_rx, sending)' /\ AnswerStage'
    BY DEF OneAnswer
  <2>1. ~Left(uart_rx, sending) /\ AnswerStage  BY Zenon, <1>6 DEF Talk, OneAnswer
  <2>. QED  BY <1>1, <1>6, <1>13, <2>1 DEF AnswerStage
<1>16. WireOf(uart_rx, sending)' /\ MineOf(uart_rx, sending)' /\ AskedOf(uart_rx, sending, Fresh)'
  BY <1>1, <1>2, <1>7
<1>. QED  BY Zenon, <1>12, <1>14, <1>15, <1>16 DEF Talk

(* A command that is called or tried again with nothing on its way.        *)
LEMMA SentAtRest ==
  ASSUME Settled, NEW cmd \in Tries, remote_try_command(cmd)
  PROVE  Talk'
<1>1. /\ sending' = cmd /\ uart_rx' = Overtaken(uart_rx) /\ uart_tx' = Overtaken(uart_tx)
      /\ response' = Empty /\ uart_rx_i' = 0 /\ uart_response_complete' = FALSE
  BY Zenon DEF remote_try_command
<1>2. uart_rx' = <<>> /\ uart_tx' = <<>>  BY <1>1, NothingOvertaken DEF Settled
<1>3. Fresh'  BY <1>1, <1>2 DEF Fresh
<1>. QED  BY <1>1, <1>2, <1>3, FreshStart

LEMMA StepKeepsTalk ==
  ASSUME LinkInv, Base, Talking => Talk, [Next]_vars, Talking'
  PROVE  Talk'
<1>0. /\ UNCHANGED <<remoteVars, late>> => Talk
      /\ kb' # "idle" /\ ~late' /\ called' # Console
  BY DEF Talking, remoteVars
<1>1. CASE loop
  BY Zenon, <1>0, <1>1, IdleKeepsTalk DEF loop, remoteVars, collected, history, cliVars
<1>2. CASE handle_uart_commands
  BY Zenon, <1>0, <1>2, ReadKeepsTalk DEF handle_uart_commands, remoteVars, history
<1>3. CASE EndOfBatch
  BY Zenon, <1>0, <1>3, IdleKeepsTalk DEF EndOfBatch, remoteVars, collected, history
<1>4. CASE SomOff
  BY Zenon, <1>0, <1>4, IdleKeepsTalk DEF SomOff, remoteVars, collected, history, cliVars
<1>5. ASSUME NEW f, NEW tries, Call(f, tries), Head(tries) \in Tries PROVE Talk'
  <2>1. late' = ~Settled /\ remote_try_command(Head(tries))  BY Zenon, <1>5 DEF Call
  <2>2. Settled  BY Zenon, <1>0, <2>1
  <2>. QED  BY <1>5, <2>1, <2>2, SentAtRest
<1>6. CASE \E line \in Lines : Call(Console, <<line>>)
  BY Zenon, <1>0, <1>6 DEF Call
<1>7. CASE uart_puts
  <2>1. kb = "send" /\ UNCHANGED <<called, history>>  BY Zenon, <1>7 DEF uart_puts
  <2>2. Talk  BY <1>0, <2>1 DEF Talking, history
  <2>. QED  BY <1>7, <2>2, PutsKeepsTalk
<1>8. CASE remote_on_uart_rx
  BY Zenon, <1>0, <1>8, ReceiveKeepsTalk DEF remote_on_uart_rx, history
<1>9. CASE Answered
  <2>1. Tried(TRUE) /\ kb = "wait" /\ late' = late  BY Zenon, <1>9 DEF Answered
  <2>2. todo # <<>> /\ called' = called  BY Zenon, <1>0, <2>1 DEF Tried
  <2>3. Talk  BY <1>0, <2>1, <2>2 DEF Talking
  <2>. QED  BY <1>9, <2>2, <2>3, SecondTry
<1>10. CASE TimedOut
  <2>1. Tried(FALSE) /\ late' = (late \/ ~Settled)  BY Zenon, <1>10 DEF TimedOut
  <2>2. Settled  BY Zenon, <1>0, <2>1
  <2>3. todo # <<>> /\ remote_try_command(Head(todo))  BY Zenon, <1>0, <2>1 DEF Tried
  <2>4. Head(todo) \in Tries
    <3>1. todo = <<Append(On, NL)>>  BY <2>3 DEF Base
    <3>2. Append(On, NL) \in Tries  BY MenuTries
    <3>. QED  BY <3>1, <3>2
  <2>. QED  BY <2>2, <2>3, <2>4, SentAtRest
<1>11. CASE PowerOffReport
  <2>1. kb # "idle" /\ called' = called /\ late' = (late \/ kb = "send" \/ response # Empty)
    BY Zenon, <1>0, <1>11 DEF PowerOffReport
  <2>2. Talk  BY <1>0, <2>1 DEF Talking
  <2>. QED  BY <1>0, <1>11, <2>1, <2>2, PowerOffKeepsTalk
<1>12. CASE NoiseComes
  BY Zenon, <1>0, <1>12 DEF NoiseComes, remoteVars
<1>13. CASE UNCHANGED vars
  BY Zenon, <1>0, <1>13, IdleKeepsTalk DEF vars, sysctlVars, cliVars, remoteVars, collected, history
<1>14. CASE \E f \in {Off, Status, Voltages} : Call(f, <<Append(f, NL)>>)
  <2>1. PICK f \in {Off, Status, Voltages} : Call(f, <<Append(f, NL)>>)  BY Zenon, <1>14
  <2>2. Head(<<Append(f, NL)>>) \in Tries  BY MenuTries
  <2>. QED  BY Zenon, <1>5, <2>1, <2>2
<1>15. CASE Call(On, remote_turn_on_som)
  <2>1. Head(remote_turn_on_som) \in Tries  BY MenuTries
  <2>. QED  BY Zenon, <1>5, <1>15, <2>1
<1>. QED
  BY Zenon, <1>1, <1>2, <1>3, <1>4, <1>6, <1>7, <1>8, <1>9, <1>10, <1>11, <1>12, <1>13, <1>14, <1>15
     DEF Next

-----------------------------------------------------------------------------
(* The keyboard's idea of the power. It can be trusted when it is in no    *)
(* doubt and no command is under way that changes it; a command is sound   *)
(* when nothing came before it that could keep it from its effect.         *)

Trusting == ~doubt /\ (kb = "idle" \/ called \in {Status, Voltages})

Sound ==
  /\ kb # "idle" /\ ~late /\ upset = "nothing"
  /\ called \in {Off, Status, Voltages} \/ (called = On /\ todo = <<>>)

(* The power is, or when all is read will be, what d says.                 *)
Leads(d) ==
  \/ /\ som_is_powered = (d = "1") /\ Free(uart_rx, sending, {"0", "1"})
     /\ cli_state = "WORD" => cli_word \in {Status, Voltages}
  \/ /\ Free(uart_rx, sending, {"0", "1"})
     /\ cli_state = "WORD" /\ cli_word \in {<<d>>, <<d, "p">>}
  \/ Comes(uart_rx, sending, d)

LeadsToBelief == IF soc_power_on THEN Leads("1") ELSE Leads("0")

(* Nothing answers a command that switches the power.                      *)
Unanswered ==
  /\ Fresh /\ Free(uart_rx, sending, {"s", "c"})
  /\ cli_state = "WORD" => cli_word \notin {Status, Voltages}

(* What answers c is the power.                                            *)
TruePower ==
  /\ \A i \in 1..Len(uart_tx) : uart_tx[i].part = "text" => uart_tx[i].says = Power
  /\ response # Empty => response.says = Power

Asked ==
  /\ Free(uart_rx, sending, {"0", "1", "s"})
  /\ cli_state = "WORD" => cli_word = Voltages
  /\ Fresh \/ Ended
  /\ TruePower

Effect ==
  /\ called = Off => Leads("0")
  /\ called = On => Leads("1")
  /\ called \in {On, Off} => Unanswered
  /\ called = Voltages => Asked

Belief ==
  /\ Trusting => WireOf(uart_rx, sending) /\ Clean /\ LeadsToBelief
  /\ Sound => Clean /\ Effect
  /\ kb # "idle" /\ ~late /\ called = On /\ upset = "nothing" => cli_paren = 0

LEMMA CommandsDiffer ==
  /\ Off # On /\ Status # On /\ Voltages # On /\ Nothing # On
  /\ Status # Off /\ Voltages # Off /\ Nothing # Off /\ Status # Voltages
  /\ Nothing # Status /\ Nothing # Voltages
  /\ Console \notin {On, Off, Status, Voltages}
  /\ \A d \in {"0", "1"} : <<d>> \notin {On, Off, Status, Voltages}
  /\ On = <<"1", "p">> /\ Off = <<"0", "p">>
<1>1. Len(Nothing) = 0 /\ Len(Console) = 1 /\ Console[1] = "console"
  BY DEF Nothing, Console
<1>2. ASSUME NEW d PROVE Len(<<d>>) = 1 /\ <<d>>[1] = d
  OBVIOUS
<1>3. Off # On /\ Status # On /\ Voltages # On /\ Nothing # On
  BY <1>1, CommandShapes
<1>4. Status # Off /\ Voltages # Off /\ Nothing # Off /\ Status # Voltages
  BY <1>1, CommandShapes
<1>5. Nothing # Status /\ Nothing # Voltages /\ Console \notin {On, Off, Status, Voltages}
  BY <1>1, CommandShapes
<1>6. \A d \in {"0", "1"} : <<d>> \notin {On, Off, Status, Voltages}
  BY <1>2, CommandShapes
<1>7. On = <<"1", "p">> /\ Off = <<"0", "p">>  BY DEF On, Off
<1>. QED  BY <1>3, <1>4, <1>5, <1>6, <1>7

(* The last digit on its way is read, or still comes.                      *)
LEMMA TakeKeepsComing ==
  ASSUME NEW rx \in Seq(Received), rx # <<>>, NEW snd, NEW d \in {"0", "1"}, Comes(rx, snd, d)
  PROVE  \/ Comes(Tail(rx), snd, d)
         \/ rx[1].char = d /\ Free(Tail(rx), snd, {"0", "1"})
<1>. DEFINE t == Tail(rx)
<1>1. /\ Len(rx) \in Nat /\ Len(rx) >= 1 /\ Len(t) = Len(rx) - 1
      /\ \A i \in 1..Len(t) : t[i] = rx[i + 1]
  BY Took
<1>. HIDE DEF t
<1>2. CASE snd # <<>> /\ snd[1] = d
  BY <1>2 DEF Comes
<1>3. ASSUME ~(snd # <<>> /\ snd[1] \in {"0", "1"}), NEW i \in 1..Len(rx), rx[i].char = d,
             \A j \in 1..Len(rx) : j > i => rx[j].char \notin {"0", "1"}
      PROVE  \/ Comes(t, snd, d)
             \/ rx[1].char = d /\ Free(t, snd, {"0", "1"})
  <2>1. CASE i = 1
    <3>1. \A j \in 1..Len(t) : j + 1 \in 1..Len(rx) /\ j + 1 > i  BY <1>1, <2>1
    <3>2. \A j \in 1..Len(t) : t[j].char \notin {"0", "1"}  BY <1>1, <1>3, <3>1
    <3>. QED  BY <1>3, <2>1, <3>2 DEF Free
  <2>2. CASE i # 1
    <3>1. i - 1 \in 1..Len(t) /\ (i - 1) + 1 = i  BY <1>1, <2>2
    <3>2. t[i - 1].char = d  BY <1>1, <1>3, <3>1
    <3>3. \A j \in 1..Len(t) : j > i - 1 => t[j].char \notin {"0", "1"}
      <4>1. \A j \in 1..Len(t) : j > i - 1 => j + 1 \in 1..Len(rx) /\ j + 1 > i  BY <1>1
      <4>. QED  BY <1>1, <1>3, <4>1
    <3>. QED  BY <1>3, <3>1, <3>2, <3>3 DEF Comes
  <2>. QED  BY <2>1, <2>2
<1>. QED  BY <1>2, <1>3 DEF Comes, t

(* What a parser in step makes of the next character.                      *)
Begun(c) ==
  /\ c \in Starts /\ cli_state = "LIST"
  /\ Quiet /\ cli_state' = "WORD" /\ cli_word' = Extended(Nothing, c)
Grown(c) ==
  /\ c = "p" /\ cli_state = "WORD" /\ cli_word \in {<<"0">>, <<"1">>}
  /\ Quiet /\ cli_state' = "WORD" /\ cli_word' = Extended(cli_word, c)
Done(c) ==
  /\ c = NL /\ cli_state = "WORD" /\ cli_word \in {On, Off, Status, Voltages}
  /\ cli_state' = "LIST" /\ ran' = cli_word /\ cli_out' = Answers[cli_word]

LEMMA ReadInStep ==
  ASSUME LinkInv, WireOf(uart_rx, sending), Clean, handle_uart_commands
  PROVE  /\ WireOf(uart_rx, sending)' /\ Clean'
         /\ Begun(uart_rx[1].char) \/ Grown(uart_rx[1].char) \/ Done(uart_rx[1].char)
<1>1. /\ uart_rx \in Seq(Received) /\ uart_rx # <<>>
      /\ cli_char(uart_rx[1].char)
      /\ uart_rx' = Tail(uart_rx) /\ sending' = sending
      /\ cli_err' = (cli_out' \in Codes \/ (cli_out' = Void /\ cli_err))
  BY Zenon, ReadFacts
<1>. DEFINE c == uart_rx[1].char
<1>2. Upcoming = c
  <2>1. 1 \in 1..Len(uart_rx)  BY <1>1, EmptySeq
  <2>. QED  BY <2>1 DEF Upcoming, Coming
<1>3. PICK u : u = Upcoming'  OBVIOUS
<1>4. WireOf(uart_rx, sending)' /\ Follows(c, u)
  <2>1. WireOf(Tail(uart_rx), sending) /\ Follows(c, Coming(Tail(uart_rx), sending, 1))
    BY <1>1, TakeKeepsWire
  <2>. QED  BY <1>1, <1>3, <2>1 DEF Upcoming
<1>5. CleanFor(c) /\ ~cli_err  BY <1>2 DEF Clean
<1>6. CleanFor(u)' /\ cli_out' \notin Codes  BY <1>1, <1>4, <1>5, CleanStep
<1>7. Clean'  BY <1>1, <1>3, <1>5, <1>6, UpcomingNext DEF Clean
<1>8. c \in Starts \/ c = "p" \/ c = NL  BY <1>4 DEF Follows, Starts
<1>9. CASE c \in Starts
  <2>1. Quiet /\ cli_state' = "WORD" /\ cli_word' = Extended(Nothing, c)  BY <1>1, <1>5, <1>9, CleanBegins
  <2>. QED  BY <1>4, <1>5, <1>7, <1>9, <2>1 DEF Begun, CleanFor
<1>10. CASE c = "p"
  <2>1. Quiet /\ cli_state' = "WORD" /\ cli_word \in {<<"0">>, <<"1">>} /\ cli_word' = Extended(cli_word, "p")
    BY <1>1, <1>5, <1>10, CleanGrows
  <2>2. cli_state = "WORD"  BY <1>5, <1>10 DEF CleanFor
  <2>. QED  BY <1>4, <1>7, <1>10, <2>1, <2>2 DEF Grown
<1>11. CASE c = NL
  <2>1. cli_reset /\ cli_word \in {On, Off, Status, Voltages} /\ ran' = cli_word /\ cli_out' = Answers[cli_word]
    BY <1>1, <1>5, <1>11, CleanCalls
  <2>2. cli_state = "WORD"  BY <1>5, <1>11 DEF CleanFor
  <2>. QED  BY <1>4, <1>7, <1>11, <2>1, <2>2 DEF Done, cli_reset
<1>. QED  BY <1>8, <1>9, <1>10, <1>11

LEMMA ReadKeepsLeads ==
  ASSUME LinkInv, WireOf(uart_rx, sending), Clean, handle_uart_commands,
         NEW d \in {"0", "1"}, Leads(d)
  PROVE  Leads(d)'
<1>1. /\ uart_rx \in Seq(Received) /\ uart_rx # <<>>
      /\ uart_rx' = Tail(uart_rx) /\ sending' = sending
  BY Zenon, ReadFacts
<1>2. som_is_powered' = CASE ran' = On -> TRUE [] ran' = Off -> FALSE [] OTHER -> som_is_powered
  BY DEF handle_uart_commands
<1>. DEFINE c == uart_rx[1].char
<1>3. Begun(c) \/ Grown(c) \/ Done(c)  BY ReadInStep
<1>4. 1 \in 1..Len(uart_rx)  BY <1>1, EmptySeq
<1>5. Free(uart_rx, sending, {"0", "1"}) => Free(uart_rx, sending, {"0", "1"})' /\ c \notin {"0", "1"}
  <2>1. Free(uart_rx, sending, {"0", "1"}) => Free(Tail(uart_rx), sending, {"0", "1"})
    BY <1>1, TakeKeepsOwners
  <2>. QED  BY <1>1, <1>4, <2>1 DEF Free
<1>6. Quiet => som_is_powered' = som_is_powered
  BY <1>2, CommandsDiffer DEF Quiet
<1>7. CASE Comes(uart_rx, sending, d)
  <2>1. \/ Comes(uart_rx, sending, d)'
        \/ c = d /\ Free(uart_rx, sending, {"0", "1"})'
    <3>1. \/ Comes(Tail(uart_rx), sending, d)
          \/ c = d /\ Free(Tail(uart_rx), sending, {"0", "1"})
      BY <1>1, <1>7, TakeKeepsComing
    <3>. QED  BY <1>1, <3>1
  <2>2. ASSUME c = d, Free(uart_rx, sending, {"0", "1"})' PROVE Leads(d)'
    <3>1. Begun(d)  BY <1>3, <2>2 DEF Grown, Done, NL
    <3>2. Extended(Nothing, d) = <<d>>  BY GrowingCommands
    <3>. QED  BY <2>2, <3>1, <3>2 DEF Begun, Leads
  <2>. QED  BY <2>1, <2>2 DEF Leads
<1>8. CASE /\ som_is_powered = (d = "1") /\ Free(uart_rx, sending, {"0", "1"})
           /\ cli_state = "WORD" => cli_word \in {Status, Voltages}
  <2>1. CASE Begun(c)
    <3>1. cli_word' \in {Status, Voltages}  BY <1>5, <1>8, <2>1, GrowingCommands DEF Begun, Starts
    <3>. QED  BY <1>5, <1>6, <1>8, <2>1, <3>1 DEF Begun, Leads
  <2>2. CASE Grown(c)
    BY <1>8, <2>2, CommandsDiffer DEF Grown
  <2>3. CASE Done(c)
    <3>1. som_is_powered' = som_is_powered  BY <1>2, <1>8, <2>3, CommandsDiffer DEF Done
    <3>. QED  BY <1>5, <1>8, <2>3, <3>1 DEF Done, Leads
  <2>. QED  BY <1>3, <2>1, <2>2, <2>3
<1>9. CASE /\ Free(uart_rx, sending, {"0", "1"})
           /\ cli_state = "WORD" /\ cli_word \in {<<d>>, <<d, "p">>}
  <2>1. CASE Begun(c)
    BY <1>9, <2>1 DEF Begun
  <2>2. CASE Grown(c)
    <3>1. cli_word = <<d>>
      <4>1. cli_word # <<d, "p">>
        BY <2>2, CommandsDiffer DEF Grown
      <4>. QED  BY <1>9, <4>1
    <3>2. cli_word' = <<d, "p">>
      BY <2>2, <3>1, GrowingCommands, CommandsDiffer DEF Grown
    <3>. QED  BY <1>5, <1>9, <2>2, <3>2 DEF Grown, Leads
  <2>3. CASE Done(c)
    <3>1. cli_word = <<d, "p">>
      BY <1>9, <2>3, CommandsDiffer DEF Done
    <3>2. som_is_powered' = (d = "1")
      BY <1>2, <2>3, <3>1, CommandsDiffer DEF Done
    <3>. QED  BY <1>5, <1>9, <2>3, <3>2 DEF Done, Leads
  <2>. QED  BY <1>3, <2>1, <2>2, <2>3
<1>. QED  BY <1>7, <1>8, <1>9 DEF Leads

LEMMA ReadKeepsUnanswered ==
  ASSUME LinkInv, WireOf(uart_rx, sending), Clean, handle_uart_commands, Unanswered
  PROVE  Unanswered'
<1>1. /\ uart_rx \in Seq(Received) /\ uart_rx # <<>> /\ uart_rx[1] \in Received /\ uart_tx \in Seq(Sent)
      /\ uart_rx' = Tail(uart_rx) /\ uart_tx' = uart_tx \o Pieces(uart_rx[1].mine)
      /\ UNCHANGED <<sending, response, uart_rx_i, uart_response_complete>>
  BY Zenon, ReadFacts
<1>. DEFINE c == uart_rx[1].char
<1>2. Begun(c) \/ Grown(c) \/ Done(c)  BY ReadInStep
<1>3. Free(uart_rx, sending, {"s", "c"})' /\ c \notin {"s", "c"}
  <2>1. Free(uart_rx, sending, {"s", "c"})  BY DEF Unanswered
  <2>2. Free(Tail(uart_rx), sending, {"s", "c"})  BY <1>1, <2>1, TakeKeepsOwners
  <2>3. 1 \in 1..Len(uart_rx)  BY <1>1, EmptySeq
  <2>. QED  BY <1>1, <2>1, <2>2, <2>3 DEF Free
<1>4. cli_out' = Void
  <2>1. CASE Done(c)
    <3>1. cli_word \in {On, Off}  BY <2>1 DEF Done, Unanswered
    <3>. QED  BY <2>1, <3>1, LinkAssumption DEF Done
  <2>. QED  BY <1>2, <2>1 DEF Begun, Grown, Quiet
<1>5. uart_tx' = uart_tx
  <2>1. uart_rx[1].mine \in BOOLEAN  BY <1>1 DEF Received
  <2>. QED  BY <1>1, <1>4, <2>1, PiecesAre
<1>6. Fresh'  BY <1>1, <1>5 DEF Unanswered, Fresh
<1>7. (cli_state = "WORD" => cli_word \notin {Status, Voltages})'
  <2>1. CASE Begun(c)
    <3>1. c \in {"0", "1"}  BY <1>3, <2>1 DEF Begun, Starts
    <3>2. cli_word' = <<c>>  BY <2>1, <3>1, GrowingCommands DEF Begun
    <3>. QED  BY <3>1, <3>2, CommandsDiffer
  <2>2. CASE Grown(c)
    <3>1. cli_word' \in {On, Off}  BY <2>2, GrowingCommands DEF Grown
    <3>. QED  BY <3>1, CommandsDiffer
  <2>3. CASE Done(c)  BY <2>3 DEF Done
  <2>. QED  BY <1>2, <2>1, <2>2, <2>3
<1>. QED  BY <1>3, <1>6, <1>7 DEF Unanswered

LEMMA ReadKeepsAsked ==
  ASSUME LinkInv, Talk, Clean, handle_uart_commands, Asked
  PROVE  Asked'
<1>1. /\ uart_rx \in Seq(Received) /\ uart_rx # <<>> /\ uart_rx[1] \in Received /\ uart_tx \in Seq(Sent)
      /\ cli_char(uart_rx[1].char) /\ ParserOK
      /\ uart_rx' = Tail(uart_rx) /\ uart_tx' = uart_tx \o Pieces(uart_rx[1].mine)
      /\ UNCHANGED <<sending, response, uart_rx_i, uart_response_complete>>
  BY Zenon, ReadFacts
<1>. DEFINE c == uart_rx[1].char
<1>2. Begun(c) \/ Grown(c) \/ Done(c)  BY ReadInStep DEF Talk
<1>3. som_is_powered' = CASE ran' = On -> TRUE [] ran' = Off -> FALSE [] OTHER -> som_is_powered
  BY DEF handle_uart_commands
<1>4. Free(uart_rx, sending, {"0", "1", "s"})' /\ c \notin {"0", "1", "s"}
  <2>1. Free(uart_rx, sending, {"0", "1", "s"})  BY DEF Asked
  <2>2. Free(Tail(uart_rx), sending, {"0", "1", "s"})  BY <1>1, <2>1, TakeKeepsOwners
  <2>3. 1 \in 1..Len(uart_rx)  BY <1>1, EmptySeq
  <2>. QED  BY <1>1, <2>1, <2>2, <2>3 DEF Free
<1>5. uart_rx[1].mine \in BOOLEAN  BY <1>1 DEF Received
<1>6. ~Grown(c)
  BY CommandsDiffer DEF Grown, Asked
<1>7. CASE Begun(c)
  <2>1. c = "c" /\ cli_word' = Voltages  BY <1>4, <1>7, GrowingCommands DEF Begun, Starts
  <2>2. som_is_powered' = som_is_powered /\ cli_out' = Void
    BY <1>3, <1>7, CommandsDiffer DEF Begun, Quiet
  <2>3. uart_tx' = uart_tx  BY <1>1, <1>5, <2>2, PiecesAre
  <2>4. (Fresh \/ Ended)' /\ TruePower'
    BY <1>1, <2>2, <2>3 DEF Asked, Fresh, Ended, TruePower, Power
  <2>. QED  BY <1>4, <2>1, <2>4 DEF Asked
<1>8. CASE Done(c)
  <2>1. cli_word = Voltages /\ c = NL /\ cli_state' = "LIST" /\ ran' = Voltages /\ cli_out' = "str"
    <3>1. cli_word = Voltages /\ c = NL /\ cli_state' = "LIST" /\ ran' = Voltages /\ cli_out' = Answers[Voltages]
      BY <1>8 DEF Done, Asked
    <3>. QED  BY <3>1, LinkAssumption
  <2>2. som_is_powered' = som_is_powered  BY <1>3, <2>1, CommandsDiffer
  <2>3. Upcoming = c
    <3>1. 1 \in 1..Len(uart_rx)  BY <1>1, EmptySeq
    <3>. QED  BY <3>1 DEF Upcoming, Coming
  <2>4. Fresh
    <3>. SUFFICES ASSUME ~Fresh PROVE FALSE  OBVIOUS
    <3>1. HarmlessFor(c)  BY Zenon, <2>3 DEF Talk, Harmless
    <3>2. c \in Letters \cup Digits \cup {NL}  BY <2>1
    <3>3. cli_out' # "str"  BY <1>1, <3>1, <3>2, HarmlessIsSilent DEF ParserOK
    <3>. QED  BY <2>1, <3>3
  <2>5. uart_tx = <<>>  BY <2>4 DEF Fresh
  <2>6. /\ Len(uart_tx') = 2 /\ uart_tx'[1].part = "text" /\ uart_tx'[2].part = "end"
        /\ uart_tx'[1].says = Power
    <3>. DEFINE q == uart_tx \o Pieces(uart_rx[1].mine)
    <3>1. cli_out' = "str" /\ uart_tx = <<>> =>
            /\ Len(q) = 2 /\ q[1].part = "text" /\ q[2].part = "end"
            /\ ran' = Voltages => q[1].says = Power
      BY <1>1, <1>5, PiecesAre DEF q
    <3>. HIDE DEF q
    <3>2. uart_tx' = q  BY <1>1 DEF q
    <3>. QED  BY <2>1, <2>5, <3>1, <3>2
  <2>7. Ended'
    <3>1. 2 \in 1..Len(uart_tx')  BY <2>6
    <3>. QED  BY <2>6, <3>1 DEF Ended
  <2>8. TruePower'
    <3>1. \A i \in 1..Len(uart_tx') : i = 1 \/ i = 2  BY <2>6
    <3>2. Power' = Power  BY <2>2 DEF Power
    <3>3. \A i \in 1..Len(uart_tx') : uart_tx'[i].part = "text" => uart_tx'[i].says = Power'
      BY <2>6, <3>1, <3>2
    <3>4. response' = Empty  BY <1>1, <2>4 DEF Fresh
    <3>. QED  BY <3>3, <3>4 DEF TruePower
  <2>. QED  BY <1>4, <2>1, <2>7, <2>8 DEF Asked
<1>. QED  BY <1>2, <1>6, <1>7, <1>8

-----------------------------------------------------------------------------
(* The steps of the belief, one lemma each.                                *)

LEMMA InDoubt ==
  ASSUME doubt', upset' # "nothing"
  PROVE  Belief'
BY DEF Belief, Trusting, Sound

LEMMA KeepsLeads ==
  ASSUME UNCHANGED <<som_is_powered, cli_state, cli_word>>, NEW d \in {"0", "1"},
         Free(uart_rx, sending, {"0", "1"}) => Free(uart_rx, sending, {"0", "1"})',
         Comes(uart_rx, sending, d) => Comes(uart_rx, sending, d)',
         Leads(d)
  PROVE  Leads(d)'
BY DEF Leads

LEMMA SoundTalks == Sound => Talking
BY CommandsDiffer DEF Sound, Talking

LEMMA IdleKeepsBelief ==
  ASSUME Belief, UNCHANGED <<uart_rx, sending, uart_tx, response, uart_rx_i, uart_response_complete,
                             som_is_powered, todo, kb, soc_power_on, called, late, upset, doubt>>,
         UNCHANGED parserVars \/ (cli_err /\ cli_reset), cli_err' => cli_err
  PROVE  Belief'
<1>1. (Trusting' <=> Trusting) /\ (Sound' <=> Sound) /\ Upcoming' = Upcoming
  BY DEF Trusting, Sound, Upcoming
<1>2. CASE UNCHANGED parserVars
  <2>1. Clean => Clean'  BY <1>1, <1>2, KeepsUpcoming
  <2>2. LeadsToBelief => LeadsToBelief'
    BY <1>2 DEF LeadsToBelief, Leads, parserVars
  <2>3. Effect => Effect'
    BY <1>2 DEF Effect, Leads, Unanswered, Asked, Fresh, Ended, TruePower, Power, parserVars
  <2>4. WireOf(uart_rx, sending)' <=> WireOf(uart_rx, sending)  OBVIOUS
  <2>. QED  BY <1>1, <1>2, <2>1, <2>2, <2>3, <2>4 DEF Belief, parserVars
<1>3. CASE cli_err /\ cli_reset
  <2>1. ~Trusting' /\ ~Sound'  BY Zenon, <1>1, <1>3 DEF Belief, Clean
  <2>2. cli_paren' = 0  BY <1>3 DEF cli_reset
  <2>. QED  BY <2>1, <2>2 DEF Belief
<1>. QED  BY <1>2, <1>3

LEMMA ReadKeepsBelief ==
  ASSUME LinkInv, Base, Talking => Talk, Belief, handle_uart_commands
  PROVE  Belief'
<1>1. /\ uart_rx # <<>> /\ uart_rx[1] \in Received /\ cli_char(uart_rx[1].char) /\ ParserOK
      /\ UNCHANGED <<todo, kb, soc_power_on, called, late, upset, doubt>>
  <2>1. UNCHANGED soc_power_on  BY Zenon DEF handle_uart_commands, remoteVars
  <2>. QED  BY Zenon, <2>1, ReadFacts
<1>2. (Trusting' <=> Trusting) /\ (Sound' <=> Sound)
  BY <1>1 DEF Trusting, Sound
<1>3. Trusting => WireOf(uart_rx, sending)' /\ Clean' /\ LeadsToBelief'
  <2>. SUFFICES ASSUME Trusting PROVE WireOf(uart_rx, sending)' /\ Clean' /\ LeadsToBelief'
    OBVIOUS
  <2>1. WireOf(uart_rx, sending) /\ Clean /\ LeadsToBelief  BY DEF Belief
  <2>2. WireOf(uart_rx, sending)' /\ Clean'  BY <2>1, ReadInStep
  <2>3. \A d \in {"0", "1"} : Leads(d) => Leads(d)'  BY <2>1, ReadKeepsLeads
  <2>. QED  BY <1>1, <2>1, <2>2, <2>3 DEF LeadsToBelief
<1>4. Sound => Clean' /\ Effect'
  <2>. SUFFICES ASSUME Sound PROVE Clean' /\ Effect'
    OBVIOUS
  <2>1. Talk /\ Clean /\ Effect  BY SoundTalks DEF Belief
  <2>2. WireOf(uart_rx, sending)  BY <2>1 DEF Talk
  <2>3. Clean'  BY <2>1, <2>2, ReadInStep
  <2>4. \A d \in {"0", "1"} : Leads(d) => Leads(d)'  BY <2>1, <2>2, ReadKeepsLeads
  <2>5. Unanswered => Unanswered'  BY <2>1, <2>2, ReadKeepsUnanswered
  <2>6. Asked => Asked'  BY <2>1, ReadKeepsAsked
  <2>. QED  BY <1>1, <2>1, <2>3, <2>4, <2>5, <2>6 DEF Effect
<1>5. (kb # "idle" /\ ~late /\ called = On /\ upset = "nothing" => cli_paren = 0)'
  <2>. SUFFICES ASSUME kb # "idle", ~late, called = On, upset = "nothing" PROVE cli_paren' = 0
    BY <1>1
  <2>1. cli_paren = 0  BY DEF Belief
  <2>2. WireOf(uart_rx, sending)  BY CommandsDiffer DEF Talking, Talk
  <2>3. uart_rx[1].char \in Letters \cup Digits \cup {NL}
    <3>1. uart_rx \in Seq(Received)  BY Zenon, ReadFacts
    <3>2. Follows(uart_rx[1].char, Coming(Tail(uart_rx), sending, 1))
      BY <1>1, <2>2, <3>1, TakeKeepsWire
    <3>. QED  BY <3>2, FollowsChars
  <2>4. cli_reset => cli_paren' = 0  BY DEF cli_reset
  <2>5. CASE uart_rx[1].char = NL
    BY <1>1, <2>1, <2>4, <2>5, NewlineChar
  <2>6. CASE uart_rx[1].char \in Letters \cup Digits
    BY <1>1, <2>1, <2>4, <2>6, PlainChar DEF Fails
  <2>. QED  BY <2>3, <2>5, <2>6
<1>. QED  BY <1>2, <1>3, <1>4, <1>5 DEF Belief

LEMMA PutsKeepsBelief ==
  ASSUME LinkInv, Talking => Talk, Belief, uart_puts
  PROVE  Belief'
<1>. DEFINE x == [char |-> Head(sending), mine |-> TRUE]
<1>1. /\ uart_rx' = Append(uart_rx, x) /\ sending' = Tail(sending) /\ kb = "send"
      /\ kb' = (IF Len(sending) = 1 THEN "wait" ELSE "send")
      /\ UNCHANGED <<sysctlVars, uart_tx, todo, soc_power_on, called, collected, history>>
  BY Zenon DEF uart_puts
<1>2. uart_rx \in Seq(Received) /\ sending # <<>> /\ sending \in Seq(Chars)
  BY <1>1 DEF LinkInv, RxOK, TryOK
<1>3. x \in Received /\ x.char = Head(sending) /\ x.mine
  <2>1. Head(sending) \in Chars  BY <1>2
  <2>. QED  BY <2>1 DEF Received
<1>. HIDE DEF x
<1>4. /\ UNCHANGED parserVars /\ cli_err' = cli_err /\ som_is_powered' = som_is_powered
      /\ UNCHANGED <<uart_tx, response, uart_rx_i, uart_response_complete, late, upset, doubt>>
      /\ (Fresh' <=> Fresh) /\ (Ended' <=> Ended) /\ (TruePower' <=> TruePower)
  BY <1>1 DEF sysctlVars, cliVars, collected, history, Fresh, Ended, TruePower, Power
<1>5. kb' # "idle" /\ kb # "idle"  BY <1>1
<1>6. (Trusting' => Trusting) /\ (Sound' => Sound)
  BY <1>1, <1>4, <1>5 DEF Trusting, Sound
<1>7. ASSUME WireOf(uart_rx, sending)
      PROVE  /\ WireOf(uart_rx, sending)'
             /\ Clean => Clean'
             /\ \A d \in {"0", "1"} : Leads(d) => Leads(d)'
             /\ \A C \in SUBSET Starts : Free(uart_rx, sending, C) => Free(uart_rx, sending, C)'
  <2>1. WireOf(uart_rx', sending') /\ Coming(uart_rx', sending', 1) = Coming(uart_rx, sending, 1)
    BY <1>1, <1>2, <1>3, <1>7, PutKeepsWire
  <2>2. Upcoming' = Upcoming  BY <2>1 DEF Upcoming
  <2>3. Clean => Clean'  BY <1>4, <2>2, KeepsUpcoming
  <2>4. \A C \in SUBSET Starts, d \in {"0", "1"} :
           /\ Free(uart_rx, sending, C) => Free(uart_rx, sending, C)'
           /\ Comes(uart_rx, sending, d) => Comes(uart_rx, sending, d)'
    <3>. SUFFICES ASSUME NEW C \in SUBSET Starts, NEW d \in {"0", "1"}
                  PROVE  /\ Free(uart_rx, sending, C) => Free(uart_rx', sending', C)
                         /\ Comes(uart_rx, sending, d) => Comes(uart_rx', sending', d)
      OBVIOUS
    <3>. QED  BY <1>1, <1>2, <1>3, <1>7, PutKeepsOwners
  <2>5. {"0", "1"} \in SUBSET Starts  BY DEF Starts
  <2>6. \A d \in {"0", "1"} : Leads(d) => Leads(d)'
    BY <1>4, <2>4, <2>5, KeepsLeads DEF parserVars
  <2>. QED  BY <2>1, <2>3, <2>4, <2>6
<1>8. Trusting => WireOf(uart_rx, sending)' /\ Clean' /\ LeadsToBelief'
  BY <1>1, <1>7 DEF Belief, LeadsToBelief
<1>9. Sound => Clean' /\ Effect'
  <2>. SUFFICES ASSUME Sound PROVE Clean' /\ Effect'
    OBVIOUS
  <2>1. WireOf(uart_rx, sending) /\ Clean /\ Effect  BY SoundTalks DEF Belief, Talk
  <2>2. {"s", "c"} \in SUBSET Starts /\ {"0", "1", "s"} \in SUBSET Starts  BY DEF Starts
  <2>3. Unanswered => Unanswered'
    BY <1>4, <1>7, <2>1, <2>2 DEF Unanswered, parserVars
  <2>4. Asked => Asked'
    BY <1>4, <1>7, <2>1, <2>2 DEF Asked, parserVars
  <2>. QED  BY <1>1, <1>7, <2>1, <2>3, <2>4 DEF Effect
<1>10. (kb # "idle" /\ ~late /\ called = On /\ upset = "nothing" => cli_paren = 0)'
  BY <1>1, <1>4, <1>5 DEF Belief, parserVars
<1>. QED  BY <1>6, <1>8, <1>9, <1>10 DEF Belief

LEMMA ReceiveKeepsBelief ==
  ASSUME LinkInv, Talking => Talk, Belief, remote_on_uart_rx
  PROVE  Belief'
<1>1. /\ uart_tx # <<>> /\ uart_tx' = Tail(uart_tx)
      /\ UNCHANGED <<sysctlVars, uart_rx, remoteVars, history>>
  BY Zenon DEF remote_on_uart_rx
<1>2. /\ UNCHANGED <<parserVars, cli_err, som_is_powered, uart_rx, sending, kb, todo, soc_power_on,
                     called, late, upset, doubt>>
      /\ UNCHANGED <<cli_state, cli_word, cli_paren>>
  BY Zenon, <1>1 DEF sysctlVars, cliVars, parserVars, remoteVars, history
<1>3. (Trusting' <=> Trusting) /\ (Sound' <=> Sound) /\ Upcoming' = Upcoming
  BY <1>2 DEF Trusting, Sound, Upcoming
<1>4. Clean => Clean'  BY <1>2, <1>3, KeepsUpcoming
<1>5. (LeadsToBelief' <=> LeadsToBelief) /\ \A d \in {"0", "1"} : Leads(d)' <=> Leads(d)
  BY <1>2 DEF LeadsToBelief, Leads
<1>6. ~Fresh  BY <1>1 DEF Fresh
<1>7. ASSUME Talk, Asked PROVE Asked'
  <2>1. Ended /\ AnswerStage  BY <1>6, <1>7 DEF Asked, Talk, OneAnswer
  <2>2. /\ uart_tx \in Seq(Sent) /\ Head(uart_tx) = uart_tx[1]
        /\ Len(uart_tx) \in Nat /\ Len(uart_tx) >= 1
        /\ Len(uart_tx') = Len(uart_tx) - 1 /\ uart_tx' \in Seq(Sent)
        /\ \A i \in 1..Len(uart_tx') : uart_tx'[i] = uart_tx[i + 1]
    <3>1. uart_tx \in Seq(Sent)  BY DEF LinkInv, TxOK
    <3>. QED  BY <1>1, <3>1, TookPiece
  <2>3. Power' = Power  BY <1>2 DEF Power
  <2>4. \A i \in 1..Len(uart_tx') : uart_tx'[i].part = "text" => uart_tx'[i].says = Power'
    <3>1. \A i \in 1..Len(uart_tx') : i + 1 \in 1..Len(uart_tx)  BY <2>2
    <3>. QED  BY <1>7, <2>2, <2>3, <3>1 DEF Asked, TruePower
  <2>5. CASE /\ ~uart_response_complete /\ response.mine /\ uart_rx_i = 1
             /\ Len(uart_tx) = 1 /\ uart_tx[1].part = "end"
    <3>1. uart_response_complete' /\ response' = response
      BY <2>2, <2>5 DEF remote_on_uart_rx
    <3>2. TruePower'  BY <1>7, <2>3, <2>4, <3>1 DEF Asked, TruePower
    <3>3. Ended'  BY <3>1 DEF Ended
    <3>. QED  BY <1>2, <1>7, <3>2, <3>3 DEF Asked
  <2>6. CASE /\ ~uart_response_complete /\ response = Empty /\ uart_rx_i = 0
             /\ Len(uart_tx) = 2 /\ uart_tx[1].part = "text" /\ uart_tx[1].mine /\ uart_tx[2].part = "end"
    <3>1. response' = [says |-> uart_tx[1].says, mine |-> uart_tx[1].mine]
      BY <2>2, <2>6 DEF remote_on_uart_rx
    <3>2. response'.says = Power'
      <4>1. 1 \in 1..Len(uart_tx)  BY <2>2
      <4>2. uart_tx[1].says = Power  BY <1>7, <2>6, <4>1 DEF Asked, TruePower
      <4>. QED  BY <2>3, <3>1, <4>2
    <3>3. TruePower'  BY <2>4, <3>2 DEF TruePower
    <3>4. Ended'
      <4>1. 1 \in 1..Len(uart_tx') /\ 1 + 1 = 2  BY <2>2, <2>6
      <4>2. uart_tx'[1] = uart_tx[1 + 1]  BY <2>2, <4>1
      <4>3. uart_tx'[1].part = "end"  BY <2>6, <4>1, <4>2
      <4>. QED  BY <4>1, <4>3 DEF Ended
    <3>. QED  BY <1>2, <1>7, <3>3, <3>4 DEF Asked
  <2>. QED  BY <1>1, <2>1, <2>5, <2>6 DEF AnswerStage
<1>8. Sound => Clean' /\ Effect'
  <2>. SUFFICES ASSUME Sound PROVE Clean' /\ Effect'
    OBVIOUS
  <2>1. Talk /\ Clean /\ Effect  BY SoundTalks DEF Belief
  <2>2. ~Unanswered  BY <1>6 DEF Unanswered
  <2>. QED  BY <1>2, <1>4, <1>5, <1>7, <2>1, <2>2 DEF Effect
<1>. QED  BY <1>2, <1>3, <1>4, <1>5, <1>8 DEF Belief

(* What is called or tried again with nothing on its way begins alone.     *)
LEMMA AloneOnTheWire ==
  ASSUME Settled, Base, NEW cmd \in Tries, remote_try_command(cmd), UNCHANGED sysctlVars
  PROVE  /\ uart_rx' = <<>> /\ uart_tx' = <<>> /\ sending' = cmd /\ kb' = "send" /\ Fresh'
         /\ Upcoming' = cmd[1] /\ cmd[1] \in Starts
         /\ ~cli_err'
         /\ \A C : cmd[1] \notin C => Free(uart_rx, sending, C)'
         /\ Comes(uart_rx, sending, cmd[1])'
         /\ UNCHANGED parserVars
<1>1. /\ sending' = cmd /\ kb' = "send" /\ uart_rx' = Overtaken(uart_rx) /\ uart_tx' = Overtaken(uart_tx)
      /\ response' = Empty /\ uart_rx_i' = 0 /\ uart_response_complete' = FALSE
  BY Zenon DEF remote_try_command
<1>2. uart_rx' = <<>> /\ uart_tx' = <<>>  BY <1>1, NothingOvertaken DEF Settled
<1>3. Fresh'  BY <1>1, <1>2 DEF Fresh
<1>4. cmd # <<>> /\ cmd[1] \in Starts /\ NextOf(cmd) = cmd[1]  BY TriesBegin
<1>5. Upcoming' = cmd[1]
  <2>1. 1 \notin 1..Len(uart_rx')  BY <1>2
  <2>. QED  BY <1>1, <1>4, <2>1 DEF Upcoming, Coming
<1>6. ~cli_err' /\ UNCHANGED parserVars  BY DEF Settled, Base, sysctlVars, cliVars
<1>7. \A C : cmd[1] \notin C => Free(uart_rx, sending, C)'
  BY <1>1, <1>2 DEF Free
<1>8. Comes(uart_rx, sending, cmd[1])'
  BY <1>1, <1>4 DEF Comes
<1>. QED  BY <1>1, <1>2, <1>3, <1>4, <1>5, <1>6, <1>7, <1>8

LEMMA FirstChars ==
  /\ Append(Off, NL)[1] = "0" /\ Append(On, NL)[1] = "1"
  /\ Append(Status, NL)[1] = "s" /\ Append(Voltages, NL)[1] = "c"
BY TriesAre, TailsOfTuples

LEMMA CallKeepsBelief ==
  ASSUME LinkInv, Base, Belief, NEW f \in {On, Off, Status, Voltages}, NEW tries, Call(f, tries),
         Head(tries) = Append(f, NL), f = On => Tail(tries) # <<>>
  PROVE  Belief'
<1>. DEFINE cmd == Append(f, NL)
<1>1. /\ kb = "idle" /\ called' = f /\ late' = ~Settled
      /\ remote_try_command(cmd) /\ todo' = Tail(tries)
      /\ UNCHANGED <<sysctlVars, soc_power_on, doubt>>
      /\ upset' = CASE f = On /\ Settled -> IF cli_paren = 0 THEN "nothing" ELSE "paren"
                    [] f \in {Off, Status, Voltages} /\ Settled /\ AtStart -> "nothing"
                    [] OTHER -> "much"
  BY Zenon DEF Call
<1>2. cmd \in Tries /\ cmd[1] \in {"0", "1", "s", "c"}
  BY TriesAre, FirstChars DEF Tries
<1>3. kb' = "send" /\ sending' = cmd /\ uart_rx' = Overtaken(uart_rx)
  BY Zenon, <1>1 DEF remote_try_command
<1>4. /\ UNCHANGED parserVars /\ cli_err' = cli_err /\ som_is_powered' = som_is_powered
      /\ cli_state' = cli_state /\ cli_word' = cli_word /\ cli_paren' = cli_paren
  BY Zenon, <1>1 DEF sysctlVars, cliVars, parserVars
<1>. HIDE DEF cmd
<1>5. ASSUME Trusting' PROVE WireOf(uart_rx, sending)' /\ Clean' /\ LeadsToBelief'
  <2>1. Trusting /\ f \in {Status, Voltages}
    BY <1>1, <1>3, <1>5 DEF Trusting
  <2>2. WireOf(uart_rx, sending) /\ Clean /\ LeadsToBelief  BY <2>1 DEF Belief
  <2>3. sending = <<>> /\ uart_rx \in Seq(Received)  BY <1>1 DEF LinkInv, TryOK, RxOK
  <2>4. cmd[1] \notin {"0", "1"}  BY <2>1, FirstChars DEF cmd
  <2>5. ASSUME NEW d \in {"0", "1"}
        PROVE  /\ WireOf(uart_rx', cmd)
               /\ \/ Coming(uart_rx', cmd, 1) = Coming(uart_rx, <<>>, 1)
                  \/ Coming(uart_rx', cmd, 1) \in Starts /\ Coming(uart_rx, <<>>, 1) \in Starts
               /\ Free(uart_rx, <<>>, {"0", "1"}) => Free(uart_rx', cmd, {"0", "1"})
               /\ Comes(uart_rx, <<>>, d) => Comes(uart_rx', cmd, d)
    <3>1. {"0", "1"} \in SUBSET Starts  BY DEF Starts
    <3>. QED  BY <1>2, <1>3, <2>2, <2>3, <2>4, <3>1, OvertakeKeeps
  <2>6. "0" \in {"0", "1"}  OBVIOUS
  <2>7. Clean'
    <3>1. PICK u : u = Upcoming'  OBVIOUS
    <3>2. u = Upcoming \/ (u \in Starts /\ Upcoming \in Starts)
      BY <1>3, <2>3, <2>5, <2>6, <3>1 DEF Upcoming
    <3>3. CleanFor(Upcoming) => CleanFor(u)'  BY <1>4, <3>2, SameUpcoming
    <3>. QED  BY <1>4, <2>2, <3>1, <3>3, UpcomingNext DEF Clean
  <2>8. \A d \in {"0", "1"} : Leads(d) => Leads(d)'
    <3>. SUFFICES ASSUME NEW d \in {"0", "1"}, Leads(d) PROVE Leads(d)'
      OBVIOUS
    <3>1. /\ Free(uart_rx, sending, {"0", "1"}) => Free(uart_rx, sending, {"0", "1"})'
          /\ Comes(uart_rx, sending, d) => Comes(uart_rx, sending, d)'
      BY <1>3, <2>3, <2>5
    <3>. QED  BY <1>4, <3>1, KeepsLeads
  <2>9. WireOf(uart_rx, sending)'  BY <1>3, <2>5, <2>6
  <2>. QED  BY <1>1, <2>2, <2>7, <2>8, <2>9 DEF LeadsToBelief
<1>6. ASSUME Sound' PROVE Clean' /\ Effect'
  <2>1. ~late' /\ upset' = "nothing" /\ f # On
    BY <1>1, <1>6, CommandsDiffer DEF Sound
  <2>2. Settled /\ AtStart  BY <1>1, <2>1
  <2>3. /\ uart_rx' = <<>> /\ uart_tx' = <<>> /\ Fresh'
        /\ Upcoming' = cmd[1] /\ cmd[1] \in Starts
        /\ ~cli_err'
        /\ \A C : cmd[1] \notin C => Free(uart_rx, sending, C)'
        /\ Comes(uart_rx, sending, cmd[1])'
    BY <1>1, <1>2, <2>2, AloneOnTheWire
  <2>4. cli_state' = "LIST" /\ cli_paren' = 0 /\ cli_list' = <<>>
    BY <1>4, <2>2 DEF AtStart, parserVars
  <2>5. Clean'
    <3>1. Upcoming' # "p" /\ Upcoming' # NL  BY <2>3 DEF Starts, NL
    <3>. QED  BY <2>3, <2>4, <3>1 DEF Clean, CleanFor
  <2>6. f = Off => Leads("0")' /\ Unanswered'
    <3>. SUFFICES ASSUME f = Off PROVE Leads("0")' /\ Unanswered'
      OBVIOUS
    <3>1. cmd[1] = "0"  BY FirstChars DEF cmd
    <3>2. Comes(uart_rx, sending, "0")' /\ Free(uart_rx, sending, {"s", "c"})'
      BY <2>3, <3>1
    <3>. QED  BY <2>3, <2>4, <3>2 DEF Leads, Unanswered
  <2>7. f = Voltages => Asked'
    <3>. SUFFICES ASSUME f = Voltages PROVE Asked'
      OBVIOUS
    <3>1. cmd[1] = "c"  BY FirstChars DEF cmd
    <3>2. Free(uart_rx, sending, {"0", "1", "s"})'
      BY <2>3, <3>1
    <3>3. TruePower'  BY <2>3 DEF TruePower, Fresh
    <3>. QED  BY <2>3, <2>4, <3>2, <3>3 DEF Asked
  <2>. QED  BY <1>1, <2>1, <2>5, <2>6, <2>7, CommandsDiffer DEF Effect
<1>7. (kb # "idle" /\ ~late /\ called = On /\ upset = "nothing" => cli_paren = 0)'
  <2>. SUFFICES ASSUME ~late', f = On, upset' = "nothing" PROVE cli_paren = 0
    BY <1>1, <1>4
  <2>1. f = On /\ Settled  BY <1>1
  <2>2. upset' = IF cli_paren = 0 THEN "nothing" ELSE "paren"  BY <1>1, <2>1, CommandsDiffer
  <2>. QED  BY <2>2
<1>. QED  BY <1>5, <1>6, <1>7 DEF Belief

LEMMA ConsoleKeepsBelief ==
  ASSUME NEW line, Call(Console, <<line>>)
  PROVE  Belief'
<1>1. called' = Console /\ kb' = "send"
  BY Zenon DEF Call, remote_try_command
<1>2. ~Trusting' /\ ~Sound' /\ called' # On
  BY <1>1, CommandsDiffer DEF Trusting, Sound
<1>. QED  BY <1>2 DEF Belief

(* The second power-on of remote_turn_on_som.                              *)
LEMMA RetryKeepsBelief ==
  ASSUME LinkInv, Base, Talking => Talk, Belief, todo # <<>>, Answered \/ TimedOut
  PROVE  Belief'
<1>. DEFINE cmd == Append(On, NL)
<1>1. kb = "wait" /\ (~late' => ~late)
  <2>1. kb = "wait" /\ (UNCHANGED late \/ late' = (late \/ ~Settled))
    BY Zenon DEF Answered, TimedOut
  <2>2. late \in BOOLEAN  BY DEF LinkInv, HistoryOK
  <2>. QED  BY <2>1, <2>2
<1>2. /\ remote_try_command(Head(todo)) /\ todo' = Tail(todo)
      /\ UNCHANGED <<soc_power_on, doubt, sysctlVars, called, upset>>
  BY Zenon DEF Answered, TimedOut, Tried
<1>3. todo = <<cmd>> /\ called = On /\ Head(todo) = cmd /\ cmd \in Tries
  <2>1. todo = <<cmd>> /\ called = On  BY DEF Base
  <2>2. cmd \in Tries  BY MenuTries
  <2>. HIDE DEF cmd
  <2>. QED  BY <2>1, <2>2
<1>4. kb' = "send"  BY Zenon, <1>2 DEF remote_try_command
<1>5. /\ UNCHANGED parserVars /\ cli_err' = cli_err
      /\ cli_state' = cli_state /\ cli_word' = cli_word /\ cli_paren' = cli_paren /\ cli_list' = cli_list
  BY Zenon, <1>2 DEF sysctlVars, cliVars, parserVars
<1>6. ~Trusting'
  BY <1>2, <1>3, <1>4, CommandsDiffer DEF Trusting
<1>7. (kb # "idle" /\ ~late /\ called = On /\ upset = "nothing" => cli_paren = 0)'
  BY <1>1, <1>2, <1>5 DEF Belief
<1>8. ASSUME Sound' PROVE Clean' /\ Effect'
  <2>1. ~late /\ ~late' /\ upset = "nothing"  BY <1>1, <1>2, <1>8 DEF Sound
  <2>2. Talk /\ cli_paren = 0
    BY <1>1, <1>3, <2>1, CommandsDiffer DEF Talking, Belief
  <2>3. SUFFICES Clean' /\ Unanswered' /\ Comes(uart_rx, sending, "1")'
    BY <1>2, <1>3, CommandsDiffer DEF Effect, Leads
  <2>4. CASE Answered
    <3>1. /\ Clean' /\ Fresh' /\ sending' = <<"1", "p", NL>> /\ Free(uart_rx, sending, {"s", "c"})'
          /\ cli_state' = "WORD" => cli_word' \notin {Status, Voltages}
      BY Zenon, <2>2, <2>4, SecondTry
    <3>2. sending' # <<>> /\ sending'[1] = "1"  BY <3>1, TailsOfTuples
    <3>. QED  BY <3>1, <3>2 DEF Unanswered, Comes
  <2>5. CASE TimedOut
    <3>1. Settled  BY Zenon, <2>1, <2>5 DEF TimedOut
    <3>2. /\ Fresh' /\ Upcoming' = cmd[1] /\ cmd[1] \in Starts /\ ~cli_err'
          /\ \A C : cmd[1] \notin C => Free(uart_rx, sending, C)'
          /\ Comes(uart_rx, sending, cmd[1])'
      BY <1>2, <1>3, <3>1, AloneOnTheWire
    <3>3. cmd[1] = "1"  BY FirstChars
    <3>. HIDE DEF cmd
    <3>4. HarmlessFor(Upcoming) /\ Upcoming = "0"
      <4>1. uart_rx = <<>> /\ sending = <<>>  BY <1>1, <3>1 DEF Settled, LinkInv, TryOK
      <4>2. 1 \notin 1..Len(uart_rx)  BY <4>1
      <4>. QED  BY <2>2, <4>1, <4>2 DEF Talk, Harmless, Upcoming, Coming, NextOf
    <3>5. cli_state = "LIST" /\ cli_list = <<>>
      BY <2>2, <3>4 DEF HarmlessFor, Starts
    <3>6. Clean'
      <4>1. Upcoming' = "1"  BY <3>2, <3>3
      <4>. QED  BY <1>5, <2>2, <3>2, <3>5, <4>1 DEF Clean, CleanFor, NL
    <3>. QED  BY <1>5, <3>2, <3>3, <3>5, <3>6 DEF Unanswered
  <2>. QED  BY <2>4, <2>5
<1>. QED  BY <1>6, <1>7, <1>8 DEF Belief

(* The function ends, and the keyboard has its idea.                       *)
LEMMA EndKeepsBelief ==
  ASSUME LinkInv, Base, Talking => Talk, Belief, todo = <<>>, NEW ok \in BOOLEAN, kb = "wait",
         ok => uart_response_complete, late => late', Tried(ok)
  PROVE  Belief'
<1>1. /\ kb' = "idle" /\ Believes(ok) /\ Doubts(ok)
      /\ UNCHANGED <<todo, sending, uart_rx, uart_tx, collected, sysctlVars, called, upset>>
  BY Zenon DEF Tried
<1>2. /\ UNCHANGED parserVars /\ cli_err' = cli_err /\ som_is_powered' = som_is_powered
      /\ cli_state' = cli_state /\ cli_word' = cli_word
      /\ uart_rx' = uart_rx /\ sending' = sending /\ called' = called
  BY Zenon, <1>1 DEF sysctlVars, cliVars, parserVars
<1>3. Upcoming' = Upcoming  BY <1>2 DEF Upcoming
<1>4. Clean => Clean'  BY <1>2, <1>3, KeepsUpcoming
<1>5. \A d \in {"0", "1"} : Leads(d) => Leads(d)'
  BY <1>2 DEF Leads
<1>6. ASSUME Sound PROVE WireOf(uart_rx, sending)' /\ Clean' /\ Effect
  BY <1>2, <1>4, <1>6, SoundTalks DEF Belief, Talk
<1>7. SUFFICES ASSUME ~doubt' PROVE WireOf(uart_rx, sending)' /\ Clean' /\ LeadsToBelief'
  BY <1>1 DEF Belief, Trusting, Sound
<1>8. called # Nothing /\ called \in RemoteFunctions
  <2>1. called \in RemoteFunctions \cup {Nothing} /\ called # Nothing
    BY DEF LinkInv, CalledOK, Base
  <2>. QED  BY <2>1
<1>9. CASE called \in {On, Off}
  <2>1. doubt' = (late' \/ upset # "nothing")  BY <1>1, <1>9, CommandsDiffer DEF Doubts
  <2>2. Sound  BY <1>7, <1>9, <2>1 DEF Sound
  <2>3. called = On => soc_power_on' = TRUE  BY <1>1, CommandsDiffer DEF Believes
  <2>4. called = Off => soc_power_on' = FALSE  BY <1>1, CommandsDiffer DEF Believes
  <2>5. called = On => Leads("1")'  BY <1>5, <1>6, <2>2 DEF Effect
  <2>6. called = Off => Leads("0")'  BY <1>5, <1>6, <2>2 DEF Effect
  <2>. QED  BY <1>6, <1>9, <2>2, <2>3, <2>4, <2>5, <2>6 DEF LeadsToBelief
<1>10. CASE called = Voltages /\ ok
  <2>1. doubt' = (late' \/ upset # "nothing")  BY <1>1, <1>10, CommandsDiffer DEF Doubts
  <2>2. Sound  BY <1>7, <1>10, <2>1 DEF Sound
  <2>3. Talk  BY <2>2, SoundTalks
  <2>4. Asked  BY <1>6, <1>10, <2>2 DEF Effect
  <2>5. response.says = Power
    <3>1. Ended  BY <1>10 DEF Ended
    <3>2. AnswerStage /\ uart_response_complete  BY <1>10, <2>3, <3>1 DEF Talk, OneAnswer
    <3>3. response.mine  BY <3>2 DEF AnswerStage
    <3>4. response # Empty  BY <3>3 DEF Empty
    <3>. QED  BY <2>4, <3>4 DEF Asked, TruePower
  <2>6. response.says \in {"P0", "P1"} /\ (response.says = "P1" <=> som_is_powered)
    BY <2>5 DEF Power
  <2>7. soc_power_on' = (response.says = "P1")
    BY <1>1, <1>10, <2>6, CommandsDiffer DEF Believes
  <2>8. soc_power_on' \in BOOLEAN /\ (soc_power_on' <=> som_is_powered)  BY <2>6, <2>7
  <2>9. som_is_powered \in BOOLEAN  BY DEF LinkInv, PowerOK
  <2>10. Free(uart_rx, sending, {"0", "1"}) /\ (cli_state = "WORD" => cli_word \in {Status, Voltages})
    BY <2>4 DEF Asked, Free
  <2>11. \A d \in {"0", "1"} : som_is_powered = (d = "1") => Leads(d)'
    BY <1>2, <2>10 DEF Leads
  <2>12. CASE som_is_powered
    <3>1. Leads("1")'  BY <2>9, <2>11, <2>12
    <3>. QED  BY <1>6, <2>2, <2>8, <2>12, <3>1 DEF LeadsToBelief
  <2>13. CASE ~som_is_powered
    <3>1. Leads("0")'  BY <2>9, <2>11, <2>13
    <3>. QED  BY <1>6, <2>2, <2>8, <2>13, <3>1 DEF LeadsToBelief
  <2>. QED  BY <2>12, <2>13
<1>11. CASE called = Console
  BY <1>1, <1>7, <1>11, CommandsDiffer DEF Doubts
<1>12. CASE called \in {Status, Voltages} /\ ~(called = Voltages /\ ok)
  <2>1. doubt' = doubt  BY Zenon, <1>1, <1>12, CommandsDiffer DEF Doubts
  <2>2. soc_power_on' = soc_power_on  BY Zenon, <1>1, <1>12, CommandsDiffer DEF Believes
  <2>3. Trusting  BY <1>7, <1>12, <2>1 DEF Trusting
  <2>4. WireOf(uart_rx, sending) /\ Clean /\ LeadsToBelief  BY <2>3 DEF Belief
  <2>. QED  BY <1>2, <1>4, <1>5, <2>2, <2>4 DEF LeadsToBelief
<1>. QED  BY <1>8, <1>9, <1>10, <1>11, <1>12 DEF RemoteFunctions

(* The host's power-off, which is read after all that is on its way.       *)
LEMMA PowerOffKeepsBelief ==
  ASSUME LinkInv, Base, Talking => Talk, Belief, PowerOffReport
  PROVE  Belief'
<1>1. /\ uart_rx' = uart_rx \o Report
      /\ response' = Empty /\ uart_rx_i' = 0 /\ uart_response_complete' = FALSE
      /\ soc_power_on' = FALSE
      /\ \/ /\ kb = "idle"
            /\ called' = Off /\ late' = ~Settled
            /\ upset' = IF Settled /\ AtStart THEN "nothing" ELSE "much"
         \/ /\ kb # "idle"
            /\ late' = (late \/ kb = "send" \/ response # Empty)
            /\ upset' = IF OffRemains THEN upset ELSE "much"
            /\ UNCHANGED called
      /\ doubt' = (late' \/ upset' # "nothing")
      /\ UNCHANGED <<sysctlVars, uart_tx, todo, sending, kb>>
  BY Zenon DEF PowerOffReport
<1>2. /\ UNCHANGED parserVars /\ cli_err' = cli_err /\ som_is_powered' = som_is_powered
      /\ cli_state' = cli_state /\ cli_word' = cli_word /\ cli_paren' = cli_paren
      /\ uart_tx' = uart_tx /\ todo' = todo /\ sending' = sending /\ kb' = kb
  BY Zenon, <1>1 DEF sysctlVars, cliVars, parserVars
<1>3. uart_rx \in Seq(Received) /\ (kb # "send" => sending = <<>>)
  BY DEF LinkInv, RxOK, TryOK
<1>4. ASSUME WireOf(uart_rx, <<>>), sending = <<>>
      PROVE  /\ WireOf(uart_rx, sending)' /\ Upcoming' = Upcoming /\ Leads("0")'
             /\ Free(uart_rx, <<>>, {"s", "c"}) => Free(uart_rx, sending, {"s", "c"})'
  <2>1. /\ WireOf(uart_rx', <<>>)
        /\ Coming(uart_rx', <<>>, 1) = Coming(uart_rx, <<>>, 1)
        /\ Free(uart_rx, <<>>, {"s", "c"}) => Free(uart_rx', <<>>, {"s", "c"})
        /\ Comes(uart_rx', <<>>, "0")
    BY <1>1, <1>3, <1>4, ReportKeeps
  <2>. QED  BY <1>2, <1>4, <2>1 DEF Upcoming, Leads
<1>5. CASE kb = "idle"
  <2>1. ~Sound' /\ kb' = "idle"  BY <1>2, <1>5 DEF Sound
  <2>2. ASSUME ~doubt' PROVE WireOf(uart_rx, sending)' /\ Clean' /\ LeadsToBelief'
    <3>1. Settled /\ AtStart  BY <1>1, <1>5, <2>2
    <3>2. uart_rx = <<>> /\ sending = <<>> /\ ~cli_err
      BY <1>3, <1>5, <3>1 DEF Settled, Base
    <3>3. WireOf(uart_rx, <<>>)  BY <3>2 DEF WireOf, Rests
    <3>4. WireOf(uart_rx, sending)' /\ Upcoming' = Upcoming /\ Leads("0")'  BY <1>4, <3>2, <3>3
    <3>5. Clean
      <4>1. Upcoming = "0"
        <5>1. 1 \notin 1..Len(uart_rx)  BY <3>2
        <5>. QED  BY <3>2, <5>1 DEF Upcoming, Coming, NextOf
      <4>2. cli_state = "LIST" /\ cli_paren = 0 /\ cli_list = <<>>  BY <3>1 DEF AtStart
      <4>. QED  BY <3>2, <4>1, <4>2 DEF Clean, CleanFor, NL
    <3>6. Clean'  BY <1>2, <3>4, <3>5, KeepsUpcoming
    <3>. QED  BY <1>1, <3>4, <3>6 DEF LeadsToBelief
  <2>. QED  BY <2>1, <2>2 DEF Belief, Trusting
<1>6. ASSUME kb # "idle", ~late', upset' = "nothing"
      PROVE  /\ kb = "wait" /\ ~late /\ upset = "nothing" /\ response = Empty /\ called' = called
             /\ called \in {Status, Off} \/ (called = On /\ todo # <<>>)
  <2>1. late' = (late \/ kb = "send" \/ response # Empty) /\ called' = called
    BY <1>1, <1>6
  <2>2. OffRemains /\ upset = "nothing"  BY <1>1, <1>6
  <2>. QED  BY <1>6, <2>1, <2>2 DEF OffRemains
<1>7. ASSUME kb # "idle", ~late', upset' = "nothing", called \in {Status, Off}
      PROVE  /\ WireOf(uart_rx, sending)' /\ Clean' /\ Leads("0")'
             /\ called = Off => Unanswered'
  <2>1. Sound  BY <1>6, <1>7 DEF Sound
  <2>2. Talk /\ Clean /\ Effect  BY <2>1, SoundTalks DEF Belief
  <2>3. sending = <<>>  BY <1>3, <1>6, <1>7
  <2>4. WireOf(uart_rx, <<>>)  BY <2>2, <2>3 DEF Talk
  <2>5. /\ WireOf(uart_rx, sending)' /\ Upcoming' = Upcoming /\ Leads("0")'
        /\ Free(uart_rx, <<>>, {"s", "c"}) => Free(uart_rx, sending, {"s", "c"})'
    BY <1>4, <2>3, <2>4
  <2>6. Clean'  BY <1>2, <2>2, <2>5, KeepsUpcoming
  <2>7. called = Off => Unanswered'
    BY <1>1, <1>2, <2>2, <2>3, <2>5 DEF Effect, Unanswered, Fresh
  <2>. QED  BY <2>5, <2>6, <2>7
<1>8. CASE kb # "idle"
  <2>1. Trusting' => WireOf(uart_rx, sending)' /\ Clean' /\ LeadsToBelief'
    <3>. SUFFICES ASSUME Trusting' PROVE WireOf(uart_rx, sending)' /\ Clean' /\ LeadsToBelief'
      OBVIOUS
    <3>1. ~late' /\ upset' = "nothing" /\ called' \in {Status, Voltages}
      BY <1>1, <1>2, <1>8 DEF Trusting
    <3>2. called \in {Status, Off}  BY <1>6, <1>8, <3>1, CommandsDiffer
    <3>. QED  BY <1>1, <1>7, <1>8, <3>1, <3>2 DEF LeadsToBelief
  <2>2. Sound' => Clean' /\ Effect'
    <3>. SUFFICES ASSUME Sound' PROVE Clean' /\ Effect'
      OBVIOUS
    <3>1. ~late' /\ upset' = "nothing" /\ (called' = On => todo' = <<>>)
      BY CommandsDiffer DEF Sound
    <3>2. called \in {Status, Off} /\ called' = called  BY <1>2, <1>6, <1>8, <3>1
    <3>3. Clean' /\ Leads("0")' /\ (called = Off => Unanswered')
      BY <1>7, <1>8, <3>1, <3>2
    <3>. QED  BY <3>2, <3>3, CommandsDiffer DEF Effect
  <2>3. (kb # "idle" /\ ~late /\ called = On /\ upset = "nothing" => cli_paren = 0)'
    BY <1>2, <1>6, <1>8 DEF Belief
  <2>. QED  BY <2>1, <2>2, <2>3 DEF Belief
<1>. QED  BY <1>5, <1>8

LEMMA StepKeepsBelief ==
  ASSUME LinkInv, Base, Talking => Talk, Belief, [Next]_vars
  PROVE  Belief'
<1>1. CASE loop
  BY Zenon, <1>1, IdleKeepsBelief DEF loop, remoteVars, collected, history, cliVars
<1>2. CASE handle_uart_commands
  BY <1>2, ReadKeepsBelief
<1>3. CASE EndOfBatch
  BY Zenon, <1>3, IdleKeepsBelief DEF EndOfBatch, remoteVars, collected, history
<1>4. CASE SomOff
  <2>1. doubt' = TRUE /\ upset' = "much"  BY Zenon, <1>4 DEF SomOff
  <2>. QED  BY <2>1, InDoubt
<1>5. CASE \E f \in {Off, Status, Voltages} : Call(f, <<Append(f, NL)>>)
  <2>1. PICK f \in {Off, Status, Voltages} : Call(f, <<Append(f, NL)>>)  BY Zenon, <1>5
  <2>2. Head(<<Append(f, NL)>>) = Append(f, NL) /\ f # On  BY MenuTries, CommandsDiffer
  <2>3. f \in {On, Off, Status, Voltages}  OBVIOUS
  <2>. QED  BY Zenon, <2>1, <2>2, <2>3, CallKeepsBelief
<1>6. CASE Call(On, remote_turn_on_som)
  <2>1. Head(remote_turn_on_som) = Append(On, NL)  BY MenuTries
  <2>2. Tail(remote_turn_on_som) # <<>>
    <3>1. Tail(remote_turn_on_som) = <<Append(On, NL)>>  BY MenuTries
    <3>. HIDE DEF remote_turn_on_som
    <3>2. <<Append(On, NL)>> # <<>>  OBVIOUS
    <3>. QED  BY <3>1, <3>2
  <2>3. On \in {On, Off, Status, Voltages}  OBVIOUS
  <2>. QED  BY Zenon, <1>6, <2>1, <2>2, <2>3, CallKeepsBelief
<1>7. CASE \E line \in Lines : Call(Console, <<line>>)
  BY Zenon, <1>7, ConsoleKeepsBelief
<1>8. CASE uart_puts
  BY <1>8, PutsKeepsBelief
<1>9. CASE remote_on_uart_rx
  BY <1>9, ReceiveKeepsBelief
<1>10. CASE Answered
  <2>1. kb = "wait" /\ uart_response_complete /\ late' = late /\ Tried(TRUE)  BY Zenon, <1>10 DEF Answered
  <2>2. CASE todo # <<>>  BY Zenon, <1>10, <2>2, RetryKeepsBelief
  <2>3. CASE todo = <<>>
    <3>1. (late => late') /\ TRUE \in BOOLEAN  BY <2>1
    <3>. QED  BY Zenon, <2>1, <2>3, <3>1, EndKeepsBelief
  <2>. QED  BY Zenon, <2>2, <2>3
<1>11. CASE TimedOut
  <2>1. kb = "wait" /\ late' = (late \/ ~Settled) /\ Tried(FALSE)  BY Zenon, <1>11 DEF TimedOut
  <2>2. CASE todo # <<>>  BY Zenon, <1>11, <2>2, RetryKeepsBelief
  <2>3. CASE todo = <<>>
    <3>1. (late => late') /\ FALSE \in BOOLEAN  BY <2>1
    <3>. QED  BY Zenon, <2>1, <2>3, <3>1, EndKeepsBelief
  <2>. QED  BY Zenon, <2>2, <2>3
<1>12. CASE PowerOffReport
  BY <1>12, PowerOffKeepsBelief
<1>13. CASE NoiseComes
  <2>1. doubt' = TRUE /\ upset' = "much"  BY Zenon, <1>13 DEF NoiseComes
  <2>. QED  BY <2>1, InDoubt
<1>14. CASE UNCHANGED vars
  BY Zenon, <1>14, IdleKeepsBelief DEF vars, sysctlVars, cliVars, remoteVars, collected, history
<1>. QED
  BY Zenon, <1>1, <1>2, <1>3, <1>4, <1>5, <1>6, <1>7, <1>8, <1>9, <1>10, <1>11, <1>12, <1>13, <1>14
     DEF Next

-----------------------------------------------------------------------------
(* What the link promises.                                                 *)

LinkHolds == LinkInv /\ Base /\ (Talking => Talk) /\ Belief

LEMMA InitHolds == Init => LinkHolds
<1>. SUFFICES ASSUME Init PROVE LinkHolds
  OBVIOUS
<1>1. LinkInv  BY InitHasTypes
<1>2. /\ kb = "idle" /\ todo = <<>> /\ cli_err = FALSE /\ doubt = TRUE /\ cli_state = "LIST"
  BY Zenon DEF Init, CliInit
<1>3. Base  BY <1>2 DEF Base, NumbersKept
<1>4. ~Talking /\ ~Trusting /\ ~Sound  BY <1>2 DEF Talking, Trusting, Sound
<1>5. Belief  BY <1>2, <1>4 DEF Belief
<1>. QED  BY <1>1, <1>3, <1>4, <1>5 DEF LinkHolds

LEMMA StepHolds == LinkHolds /\ [Next]_vars => LinkHolds'
<1>. SUFFICES ASSUME LinkHolds, [Next]_vars PROVE LinkHolds'
  OBVIOUS
<1>1. LinkInv /\ Base /\ (Talking => Talk) /\ Belief  BY DEF LinkHolds
<1>2. LinkInv'  BY <1>1, StepKeepsTypes
<1>3. Base'  BY <1>1, StepKeepsBase
<1>4. Talking' => Talk'  BY <1>1, StepKeepsTalk
<1>5. Belief'  BY <1>1, StepKeepsBelief
<1>. QED  BY <1>2, <1>3, <1>4, <1>5 DEF LinkHolds

(* In every reachable state both ends are in their types; while a menu     *)
(* command is waited for, with no late answer possible, what is on the     *)
(* wire, in the parser and in the keyboard's buffer fits it (Talk); and    *)
(* what is still on its way leads to the power the keyboard believes in    *)
(* (Belief).                                                               *)
THEOREM LinkAlwaysHolds == Spec => []LinkHolds
  BY InitHolds, StepHolds, PTL DEF Spec

(* When remote_try_command sees a complete response, and no answer of an   *)
(* earlier command can be late, the response is the answer to the command  *)
(* it has sent: remote_get_status and remote_get_voltages never show one   *)
(* for the other. For any noise before the call and any power-off report.  *)
THEOREM AnswersBelong == Spec => []AnswerIsMine
<1>1. LinkHolds => AnswerIsMine
  <2>. SUFFICES ASSUME LinkHolds, kb = "wait", uart_response_complete, ~late, called # Console
                PROVE  response.mine
    BY DEF AnswerIsMine
  <2>1. Talk  BY DEF LinkHolds, Talking
  <2>2. Ended  BY DEF Ended
  <2>3. AnswerStage  BY <2>1, <2>2 DEF Talk, OneAnswer
  <2>. QED  BY <2>3 DEF AnswerStage
<1>. QED  BY <1>1, LinkAlwaysHolds, PTL

(* At rest, with nothing on its way and no reason for doubt, soc_power_on  *)
(* of the keyboard is the SOM's power in the system controller, although   *)
(* the power commands are never confirmed and are sent twice to get past   *)
(* whatever noise has left in the parser.                                  *)
THEOREM BeliefIsRight == Spec => []BeliefMatches
<1>1. LinkHolds => BeliefMatches
  <2>. SUFFICES ASSUME LinkHolds, kb = "idle", Settled, ~doubt
                PROVE  soc_power_on = som_is_powered
    BY DEF BeliefMatches
  <2>1. Clean /\ LeadsToBelief  BY DEF LinkHolds, Belief, Trusting
  <2>2. uart_rx = <<>> /\ sending = <<>>  BY DEF LinkHolds, Settled, LinkInv, TryOK
  <2>3. cli_state = "LIST"
    <3>1. 1 \notin 1..Len(uart_rx)  BY <2>2
    <3>2. Upcoming = "0"  BY <2>2, <3>1 DEF Upcoming, Coming, NextOf
    <3>. QED  BY <2>1, <3>2 DEF Clean, CleanFor, Starts
  <2>4. \A d \in {"0", "1"} : Leads(d) => som_is_powered = (d = "1")
    BY <2>2, <2>3 DEF Leads, Comes
  <2>5. soc_power_on \in BOOLEAN /\ som_is_powered \in BOOLEAN  BY DEF LinkHolds, LinkInv, PowerOK
  <2>. QED  BY <2>1, <2>4, <2>5 DEF LeadsToBelief
<1>. QED  BY <1>1, LinkAlwaysHolds, PTL
=============================================================================
