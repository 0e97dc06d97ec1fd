-------------------------------- MODULE Cli --------------------------------
(***************************************************************************)
(* The command line of the system controller (cli.c): characters become    *)
(* words, words a list, and the end of the list calls the function its     *)
(* first word names. One context, as each of the two transports has one.   *)
(*                                                                         *)
(* A word is told apart as far as it may become a name; values of numbers  *)
(* are left out. What cli_char puts into the output buffer is cli_out; the *)
(* callers empty it after every character that left something there.       *)
(***************************************************************************)
EXTENDS Integers, Sequences

CONSTANTS
  Letters, Digits, HexLetters,  \* HexLetters: a to f
  Others,            \* the characters the syntax does not use; names may, after the first
  Names,             \* cli_vars: the words that are defined, as sequences of characters
  Answers,           \* for each, what its call puts out: "u64", "str" or, if void, nothing
  MaxWordLen,        \* 8: CLI_MAX_WORD_LEN
  MaxListWords,      \* 5: CLI_MAX_LIST_WORDS
  MaxParen           \* 1: CLI_MAX_PAREN

NL == "NL"
Syntax == {" ", "(", ")", "#", NL}
Chars == Letters \cup Digits \cup Others \cup Syntax

(* Words: nothing, a name or the beginning of one, any other, a number.    *)
Nothing == <<>>
Other == <<"other">>
Number == <<"number">>
Prefixes == {SubSeq(n[1], 1, n[2]) : n \in {m \in Names \X (1..MaxWordLen) : m[2] <= Len(m[1])}}
Words == Prefixes \cup {Nothing, Other, Number}

Void == "void"
Codes == {"maxp", "wlen", "stxc", "stxn", "stxh", "undf"}

ASSUME CharsAssumption ==
  /\ HexLetters \subseteq Letters
  /\ Letters \cap Digits = {} /\ Letters \cap Others = {} /\ Digits \cap Others = {}
  /\ (Letters \cup Digits \cup Others) \cap Syntax = {}
ASSUME NamesAssumption ==
  /\ \A n \in Names : /\ n \in Seq(Letters \cup Digits \cup Others) /\ Len(n) \in 1..MaxWordLen
                     /\ n[1] \in Letters \cup Digits
  /\ Answers \in [Names -> {"u64", "str", Void}]
ASSUME LimitsAssumption ==
  MaxWordLen \in Nat \ {0} /\ MaxListWords \in Nat \ {0} /\ MaxParen \in Nat

VARIABLES
  cli_state, cli_word, cli_word_len, cli_paren,
  cli_list,          \* the words before cli_word_idx
  cli_out,           \* what the last character put out: an answer, an error, Void
  ran                \* (history) the word that the last character called, or Nothing

parserVars == <<cli_state, cli_word, cli_word_len, cli_paren, cli_list>>
cliVars == <<parserVars, cli_out, ran>>

-----------------------------------------------------------------------------
cli_reset ==
  /\ cli_state' = "LIST"
  /\ cli_word' = Nothing /\ cli_word_len' = 0
  /\ cli_paren' = 0
  /\ cli_list' = <<>>

Quiet == cli_out' = Void /\ ran' = Nothing

cli_error(code) == cli_out' = code /\ ran' = Nothing /\ cli_reset

(* What is not a function is put out itself, so both are calls here.       *)
cli_eval(list) ==
  \/ list = <<>> /\ Quiet
  \/ /\ list # <<>> /\ list[1] \in Names
     /\ ran' = list[1] /\ cli_out' = Answers[list[1]]
  \/ /\ list # <<>> /\ list[1] \notin Names
     /\ cli_out' = "undf" /\ ran' = Nothing

(* The end of a list; in parentheses a newline is none.                    *)
Terminates(c) == c = ")" \/ (c = NL /\ cli_paren = 0)

Extended(word, c) == IF Append(word, c) \in Prefixes THEN Append(word, c) ELSE Other

-----------------------------------------------------------------------------
(* CLI_ST_LIST                                                             *)

Blank(c) ==
  /\ cli_state = "LIST" /\ c = " "
  /\ Quiet /\ UNCHANGED parserVars

EndOfList(c) ==
  /\ cli_state = "LIST" /\ Terminates(c)
  /\ cli_eval(cli_list) /\ cli_reset

(* Mutant: one word too many. *)
FullLater == Len(cli_list) > MaxListWords

Full == Len(cli_list) >= MaxListWords

Begins(c) == cli_state = "LIST" /\ c # " " /\ ~Terminates(c)

TooManyWords(c) == Begins(c) /\ Full /\ cli_error("wlen")

(* The first word may begin with a digit (the old protocol).               *)
BeginWord(c) ==
  /\ Begins(c) /\ ~Full
  /\ c \in Letters \/ (c \in Digits /\ cli_list = <<>>)
  /\ cli_state' = "WORD" /\ cli_word' = Extended(Nothing, c) /\ cli_word_len' = 1
  /\ Quiet /\ UNCHANGED <<cli_paren, cli_list>>

BeginNumber(c) ==
  /\ Begins(c) /\ ~Full /\ c \in Digits /\ cli_list # <<>>
  /\ cli_state' = "NUMBER" /\ cli_word' = Number
  /\ Quiet /\ UNCHANGED <<cli_word_len, cli_paren, cli_list>>

(* A parenthesis, wherever it comes, begins the list again.                *)
OpenList(c) ==
  /\ Begins(c) /\ ~Full /\ c = "("
  /\ \/ /\ cli_paren + 1 <= MaxParen
        /\ cli_paren' = cli_paren + 1 /\ cli_list' = <<>>
        /\ Quiet /\ UNCHANGED <<cli_state, cli_word, cli_word_len>>
     \/ cli_paren + 1 > MaxParen /\ cli_error("maxp")

NotCallable(c) ==
  /\ Begins(c) /\ ~Full /\ cli_list = <<>> /\ c \notin Letters \cup Digits \cup {"("}
  /\ cli_error("stxc")

(* The length of the word before is kept.                                  *)
BeginHex(c) ==
  /\ Begins(c) /\ ~Full /\ cli_list # <<>> /\ c = "#"
  /\ cli_state' = "HEX" /\ cli_word' = Number
  /\ Quiet /\ UNCHANGED <<cli_word_len, cli_paren, cli_list>>

Ignored(c) ==
  /\ Begins(c) /\ ~Full /\ cli_list # <<>> /\ c \in Others \cup {NL}
  /\ Quiet /\ UNCHANGED parserVars

-----------------------------------------------------------------------------
(* CLI_ST_WORD, CLI_ST_NUMBER, CLI_ST_HEX                                  *)

EndOfWord(c) ==
  /\ cli_state # "LIST" /\ c \in {" ", ")", NL}
  /\ \/ Terminates(c) /\ cli_eval(Append(cli_list, cli_word)) /\ cli_reset
     \/ /\ ~Terminates(c)
        /\ cli_state' = "LIST" /\ cli_list' = Append(cli_list, cli_word)
        /\ Quiet /\ UNCHANGED <<cli_word, cli_word_len, cli_paren>>

(* Any character can be part of a word.                                    *)
WordGrows(c) ==
  /\ cli_state = "WORD" /\ c \notin {" ", ")", NL}
  /\ \/ /\ cli_word_len + 1 <= MaxWordLen
        /\ cli_word' = Extended(cli_word, c) /\ cli_word_len' = cli_word_len + 1
        /\ Quiet /\ UNCHANGED <<cli_state, cli_paren, cli_list>>
     \/ cli_word_len + 1 > MaxWordLen /\ cli_error("wlen")

NumberGrows(c) ==
  /\ cli_state = "NUMBER" /\ c \notin {" ", ")", NL}
  /\ \/ c \in Digits /\ Quiet /\ UNCHANGED parserVars
     \/ c \notin Digits /\ cli_error("stxn")

HexGrows(c) ==
  /\ cli_state = "HEX" /\ c \notin {" ", ")", NL}
  /\ \/ /\ c \in Digits \cup HexLetters /\ cli_word_len + 1 <= 2 * MaxWordLen
        /\ cli_word_len' = cli_word_len + 1
        /\ Quiet /\ UNCHANGED <<cli_state, cli_word, cli_paren, cli_list>>
     \/ c \in Digits \cup HexLetters /\ cli_word_len + 1 > 2 * MaxWordLen /\ cli_error("wlen")
     \/ c \notin Digits \cup HexLetters /\ cli_error("stxh")

cli_char(c) ==
  \/ Blank(c) \/ EndOfList(c) \/ TooManyWords(c) \/ BeginWord(c) \/ BeginNumber(c)
  \/ OpenList(c) \/ NotCallable(c) \/ BeginHex(c) \/ Ignored(c)
  \/ EndOfWord(c) \/ WordGrows(c) \/ NumberGrows(c) \/ HexGrows(c)

(* The caller empties the output, and resets a context that had an error.  *)
ResetByCaller == Quiet /\ (cli_reset \/ UNCHANGED parserVars)

CliInit ==
  /\ cli_state = "LIST" /\ cli_word = Nothing /\ cli_word_len = 0
  /\ cli_paren = 0 /\ cli_list = <<>> /\ cli_out = Void /\ ran = Nothing

CliNext == ResetByCaller \/ \E c \in Chars : cli_char(c)

CliSpec == CliInit /\ [][CliNext]_cliVars

-----------------------------------------------------------------------------
(* No word is stored beyond the end of the list (cli_list[5]), and no      *)
(* length or depth leaves its limit whatever characters come.              *)
CliTypeOK ==
  /\ cli_state \in {"LIST", "WORD", "NUMBER", "HEX"}
  /\ cli_word \in Words
  /\ cli_word_len \in 0..(2 * MaxWordLen)
  /\ cli_paren \in 0..MaxParen
  /\ cli_list \in Seq(Words) /\ Len(cli_list) <= MaxListWords
  /\ cli_state # "LIST" => Len(cli_list) < MaxListWords
  /\ cli_out \in Codes \cup {"u64", "str", Void}
  /\ ran \in Names \cup {Nothing}

(* The parser is as it was at the start.                                   *)
AtStart ==
  /\ cli_state = "LIST" /\ cli_word = Nothing /\ cli_word_len = 0
  /\ cli_paren = 0 /\ cli_list = <<>>
=============================================================================
