---------------------------- MODULE MCDbcTarget -----------------------------
(***************************************************************************)
(* Targets of twelve digits in base 4 for TLC.  The genesis target has the *)
(* shape of 0x1f00ffff: one leading zero digit in its mantissa, and the    *)
(* greatest exponent but one.                                              *)
(***************************************************************************)
EXTENDS DbcTarget

MCGenesisTarget == [exponent |-> 11, mantissa |-> 15]
=============================================================================
