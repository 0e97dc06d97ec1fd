----------------------------- MODULE MCSomPower -----------------------------
EXTENDS SomPower

(* Power from both sides, and two commands that share outputs with it: a   *)
(* mode of the USB ports, and a resume, with which the SOM switches rails  *)
(* on by hand.                                                             *)
SomeLoopCommands == {<<"0p">>, <<"1p">>, <<"usb-edl">>}
SomeSpiCommands == {<<"0p">>, <<"1p">>, <<"soc-psus">>}

OnOff == {<<"0p">>, <<"1p">>}
=============================================================================
