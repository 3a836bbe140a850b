------------------------------ MODULE MCFooFile ------------------------------
(* FooFile for TLC: two root writers, one reader, two payloads, a page of    *)
(* two bytes.  Writers and payloads are interchangeable, and all properties  *)
(* are invariants or action properties, so the symmetry is sound.            *)
EXTENDS FooFile, TLC

Symmetry == Permutations(Writer) \cup Permutations(Value)
=============================================================================
