------------------------------ MODULE MCTtyUse ------------------------------
(***************************************************************************)
(* TtyUse with a bound on how many characters are printed.  The last key   *)
(* makes a character of eight bits.                                        *)
(***************************************************************************)
EXTENDS TtyUse

MaxPut == 3             \* how many characters the program prints

TypedKeys == <<65, 66, 200>>

Bounded == Next /\ Len(put') <= MaxPut

MCSpec == /\ UseInit /\ [][Bounded]_vars
          /\ WF_ttyvars(WriterStep) /\ WF_ttyvars(ReaderStep)
=============================================================================
