------------------------- MODULE MCCommandDelivery -------------------------
(***************************************************************************)
(* CommandDelivery for TLC.  Messages are interchangeable: the hub takes    *)
(* any unused one, and no property tells them apart.                        *)
(***************************************************************************)
EXTENDS CommandDelivery, TLC

Symmetry == Permutations(Message)
===========================================================================
