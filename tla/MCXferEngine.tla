---------------------------- MODULE MCXferEngine ----------------------------
EXTENDS XferEngine, TLC

(* Requests and processors are interchangeable.                            *)
Symm == Permutations(Request) \cup Permutations(Cpu)
=============================================================================
