---------------------------- MODULE MCCodexTurns ----------------------------
(***************************************************************************)
(* Three calls on three workers, of which one stays free of streams.       *)
(***************************************************************************)
EXTENDS CodexTurns

CONSTANTS t1, t2, t3

Turns   == {t1, t2, t3}
Clients == 1..3
==============================================================================
