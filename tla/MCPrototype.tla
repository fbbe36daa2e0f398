---------------------------- MODULE MCPrototype -----------------------------
(***************************************************************************)
(* An instance of Prototype for TLC: one zone of two slots, one of them    *)
(* taken, and a zone of one slot to be added.                              *)
(***************************************************************************)
EXTENDS Prototype

OneZone == << 2 >>

OneTaken == { << 1, 2 >> }

=============================================================================
