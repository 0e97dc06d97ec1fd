---------------------------- MODULE MCInterrupts ----------------------------
EXTENDS Interrupts

AllCommands == {"nothing", "rail", "message"}
=============================================================================
