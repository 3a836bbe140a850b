------------------------------ MODULE MCMyMounts ------------------------------
(* MyMounts for TLC: a root, one mount that covers it and is skipped, and two  *)
(* others.  The lines differ in length so that one fits the first buffer only  *)
(* after a doubling, two share a buffer and a third overflows it.              *)
EXTENDS MyMounts

MCLineLen == [m \in Mount |-> IF m \in {1, 4} THEN 2 ELSE 1]
=============================================================================
