---------------------------- MODULE MCRegDevice ----------------------------
(***************************************************************************)
(* RegDevice for TLC: three words, positions up to one beyond those that an  *)
(* unsigned long tells apart (at 4 the range begins again) and one mapping   *)
(* more than programs that take turns need.                                  *)
(***************************************************************************)
EXTENDS RegDevice

Seeks == {-1, 0, 1, 4}
=============================================================================
