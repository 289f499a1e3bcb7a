----------------------------- MODULE QosFairness -----------------------------
(***************************************************************************)
(* The scheduler of QosQueues on its own, driven by any sequence of        *)
(* inserts, QoS picks and drains, with a history variable that counts how  *)
(* often a waiting class was passed over.  It states what "QoS fairness    *)
(* (strict priority with burst limits)" amounts to in the code.            *)
(***************************************************************************)
EXTENDS QosQueues

VARIABLE bypass       \* picks of other classes since a class was served or empty

vars == <<queue, burst, bypass>>

Init == QInit /\ bypass = [c \in Class |-> 0]

(* A class that waits while another is served is passed over once more.    *)
BypassAfter(c) ==
    [d \in Class |-> IF d = c \/ ~Waiting(d) THEN 0 ELSE bypass[d] + 1]

Insert(r, c) ==
    /\ r \notin QueuedRequests
    /\ QueueInsert(r, c)
    /\ UNCHANGED bypass

Serve(c, r) ==
    /\ Pick(c, r)
    /\ bypass' = BypassAfter(c)

Drain(c, r) ==
    /\ DrainOne(c, r)
    /\ bypass' = [d \in Class |-> 0]

Next ==
    \E c \in Class, r \in Request : Insert(r, c) \/ Serve(c, r) \/ Drain(c, r)

Spec == Init /\ [][Next]_vars
-----------------------------------------------------------------------------
TypeOK == QTypeOK /\ bypass \in [Class -> Nat]

(* At most one class is in the middle of a burst: a pick ends the bursts   *)
(* of the two classes it does not serve.                                   *)
OneBurst == \A c, d \in Class : burst[c] > 0 /\ burst[d] > 0 => c = d

(* The QoS pick finds a request whenever one is queued, so a DPC run never *)
(* returns empty-handed from a non-empty set of queues                     *)
(* (I2cCtrl_QueueDpcRoutine, "if (req == NULL) return").                   *)
WorkConserving == (\E c \in Class : Waiting(c)) => \E c \in Class : Picked(c)

(* Whatever the limits, a pick comes back empty-handed only when two       *)
(* classes wait and one of them has a limit of zero: a class that waits    *)
(* alone is served however much it had, and of two that wait one has its   *)
(* burst unused.  The code as it stands leaves all its limits zero.        *)
IdleNeedsZeroLimit ==
    (\E c \in Class : Waiting(c)) /\ ~(\E c \in Class : Picked(c)) =>
        \E c, d \in Class : c # d /\ Waiting(c) /\ Waiting(d) /\ BurstMax[c] = 0

(* A waiting High request is passed over at most once, a waiting Normal    *)
(* one at most BurstHighMax + 1 times, whatever else arrives.  (There is   *)
(* no such bound for Low.)                                                 *)
BypassBound ==
    /\ bypass["High"] <= 1
    /\ bypass["Normal"] <= BurstHighMax + 1
=============================================================================
