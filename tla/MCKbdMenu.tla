----------------------------- MODULE MCKbdMenu -----------------------------
EXTENDS KbdMenu

(* Escape, Hyper, and the keys that choose and do a row, also the console's. *)
SomeKeys == <<"ESC", "HYPER", "DOWN", "ENTER">>
=============================================================================
