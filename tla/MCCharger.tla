----------------------------- MODULE MCCharger -----------------------------
(* A handful of sources. *)
EXTENDS Charger

Pd(v, c) == [voltage |-> v, current |-> c]

Sources ==
  { << Pd(5, 9) >>,                               \* nothing suits
    << Pd(5, 20), Pd(0, 0), Pd(24, 40) >>,        \* weak; PPS; too high
    << Pd(5, 300), Pd(9, 20), Pd(18, 10) >>,      \* the loaded charger
    << Pd(9, 20), Pd(10, 17), Pd(16, 10) >>,      \* one leeway after another
    << Pd(20, 10), Pd(9, 20), Pd(15, 20) >> }     \* out of order
=============================================================================
