----------------------------- MODULE MCXfifoDma -----------------------------
(***************************************************************************)
(* XfifoDma for TLC: two or three clients, and a buffer for each and one    *)
(* more, so that running out of buffers is a choice and not a consequence.  *)
(***************************************************************************)
EXTENDS XfifoDma, TLC

Interchangeable == Permutations(Clients) \cup Permutations(Buffers)
=============================================================================
