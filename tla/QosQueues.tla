------------------------------ MODULE QosQueues ------------------------------
(***************************************************************************)
(* The three priority queues of the SMBus request scheduler and the burst  *)
(* counters that arbitrate between them: I2cCtrl_QueueInsert and the two   *)
(* ways I2cCtrl_QueueDpcRoutine takes a request out of them (the QoS pick  *)
(* of a running device, the drain of a stopping one).  Every operation     *)
(* runs under QueueLock, so each is one atomic action here; what happens   *)
(* to a request after it left its queue is the business of XferEngine.     *)
(***************************************************************************)
EXTENDS Naturals, Sequences

CONSTANTS
    Request,          \* the SMBUS_REQUEST objects
    BurstHighMax,     \* consecutive picks of one class while others wait
    BurstNormalMax,
    BurstLowMax,
    UlongSize         \* number of values of the ULONG burst counters

Class == {"High", "Normal", "Low"}

Rank == [High |-> 0, Normal |-> 1, Low |-> 2]

BurstMax == [High |-> BurstHighMax, Normal |-> BurstNormalMax, Low |-> BurstLowMax]

ASSUME BurstAssumption ==
    /\ UlongSize \in Nat
    /\ BurstHighMax \in Nat /\ BurstHighMax < UlongSize
    /\ BurstNormalMax \in Nat /\ BurstNormalMax < UlongSize
    /\ BurstLowMax \in Nat /\ BurstLowMax < UlongSize

VARIABLES
    queue,            \* HighQueue, NormalQueue and LowQueue, heads first
    burst             \* BurstHigh, BurstNormal and BurstLow

qvars == <<queue, burst>>

QTypeOK ==
    /\ queue \in [Class -> Seq(Request)]
    /\ burst \in [Class -> 0 .. UlongSize - 1]

QInit ==
    /\ queue = [c \in Class |-> <<>>]
    /\ burst = [c \in Class |-> 0]
-----------------------------------------------------------------------------
Waiting(c) == queue[c] # <<>>

OthersEmpty(c) == \A d \in Class \ {c} : queue[d] = <<>>

(* Mutants of Eligible: a class alone must respect its burst too; the burst*)
(* does not count.                                                         *)
EligibleNeverAlone(c) == Waiting(c) /\ burst[c] < BurstMax[c]
EligibleUnlimited(c) == Waiting(c)

(* A class may be picked while its burst lasts, or when it is alone.       *)
Eligible(c) == Waiting(c) /\ (burst[c] < BurstMax[c] \/ OthersEmpty(c))

(* The pick tries High, then Normal, then Low.                             *)
Picked(c) == Eligible(c) /\ \A d \in Class : Rank[d] < Rank[c] => ~Eligible(d)

UlongInc(n) == IF n + 1 = UlongSize THEN 0 ELSE n + 1

(* The burst counter of the class served grows, the others start again.    *)
BurstsAfter(c) == [d \in Class |-> IF d = c THEN UlongInc(burst[c]) ELSE 0]

RemoveHead(c) == queue' = [queue EXCEPT ![c] = Tail(@)]

QueueInsert(r, c) ==
    /\ queue' = [queue EXCEPT ![c] = Append(@, r)]
    /\ UNCHANGED burst

(* The QoS pick takes r from class c.                                      *)
Pick(c, r) ==
    /\ Picked(c)
    /\ r = Head(queue[c])
    /\ RemoveHead(c)
    /\ burst' = BurstsAfter(c)

(* A stopping or stopped device takes requests in strict priority order    *)
(* and leaves the burst counters alone.                                    *)
DrainOne(c, r) ==
    /\ Waiting(c)
    /\ \A d \in Class : Rank[d] < Rank[c] => ~Waiting(d)
    /\ r = Head(queue[c])
    /\ RemoveHead(c)
    /\ UNCHANGED burst

QueuedRequests == UNION {{queue[c][i] : i \in DOMAIN queue[c]} : c \in Class}
=============================================================================
