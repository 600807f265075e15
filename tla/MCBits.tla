------------------------------- MODULE MCBits -------------------------------
(***************************************************************************)
(* The values the instances give the constants And and Or of HackWord.     *)
(***************************************************************************)
LOCAL INSTANCE Bitwise

MCAnd(x, y) == x & y
MCOr(x, y)  == x | y
=============================================================================
