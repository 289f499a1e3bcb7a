----------------------------- MODULE IrpContract -----------------------------
(***************************************************************************)
(* What the I/O manager is promised about the IRPs it hands to a driver: a *)
(* part of the driver owns the IRP, it may park the IRP in a queue, one    *)
(* part takes it out again, and an owner completes it, once.               *)
(***************************************************************************)
CONSTANT Irp

VARIABLE state

State == {"free", "owned", "parked", "completed"}

Init == state = [r \in Irp |-> "free"]

Move(r, from, to) == state[r] = from /\ state' = [state EXCEPT ![r] = to]

Receive(r) == Move(r, "free", "owned")
Park(r) == Move(r, "owned", "parked")
Take(r) == Move(r, "parked", "owned")
Complete(r) == Move(r, "owned", "completed")

Next == \E r \in Irp : Receive(r) \/ Park(r) \/ Take(r) \/ Complete(r)

Spec == Init /\ [][Next]_state
=============================================================================
