----------------------------- MODULE MCKbdLink -----------------------------
EXTENDS KbdLink

SomeLetters == {"c", "p", "s"}
SomeHexLetters == {"c"}
SomeDigits == {"0", "1"}
SomeOthers == {"?"}

SomeNames == {On, Off, Status, Voltages}
SomeAnswers == [n \in SomeNames |-> IF n \in {On, Off} THEN Void ELSE "str"]

(* A command in parentheses, the only console line that ends without \r.  *)
SomeLines == {<<"(", "c", " ", ")">>}

(* What leaves an open list, a word, a number, a list or an error behind.  *)
SomeNoise == {"(", "0", " ", "#", "?", NL}
=============================================================================
