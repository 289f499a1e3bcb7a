----------------------------- MODULE MCGpioIrq -----------------------------
(* Processors, callers and pins are interchangeable, for TLC.              *)
EXTENDS GpioIrq, TLC

Symmetry == Permutations(Cpu) \cup Permutations(Caller) \cup Permutations(Pin)
=============================================================================
