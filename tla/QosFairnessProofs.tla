-------------------------- MODULE QosFairnessProofs --------------------------
(***************************************************************************)
(* Proofs about the request scheduler, for any number of requests and any  *)
(* counter width.  When a pick fails is shown for every set of limits; how *)
(* long a class waits for those where a class of limit zero, which the     *)
(* scheduler never picks beside another, ranks above none that has one.    *)
(* The limits of the code, which are all zero, are such a set.             *)
(***************************************************************************)
EXTENDS QosFairness, TLAPS

(* No class of limit zero ranks above one whose limit lets it be picked    *)
(* while others wait: else the lower one passes the higher over for ever.  *)
ZeroLimitsLast ==
    /\ BurstHighMax = 0 => BurstNormalMax = 0 /\ BurstLowMax = 0
    /\ BurstNormalMax = 0 => BurstLowMax = 0

(* What a pick preserves so that waiting stays bounded: passing a class    *)
(* over resets its burst, so it is passed over again only after using it.  *)
BypassHistory ==
    /\ bypass["High"] > 0 => burst["High"] = 0
    /\ burst["Normal"] > 0 => bypass["Normal"] = 0
    /\ bypass["Normal"] <= burst["High"] + 1

IInv == TypeOK /\ OneBurst /\ BypassHistory /\ BypassBound
-----------------------------------------------------------------------------
LEMMA BurstMaxType == BurstMax \in [Class -> Nat]
  BY BurstAssumption DEF BurstMax, Class

(* The burst counters after a pick of c stay ULONGs, only that of c can be *)
(* non-zero, and below its limit it simply counts.                         *)
LEMMA BurstsAfterPick ==
  ASSUME QTypeOK, NEW c \in Class
  PROVE  /\ BurstsAfter(c) \in [Class -> 0 .. UlongSize - 1]
         /\ \A d \in Class : d # c => BurstsAfter(c)[d] = 0
         /\ burst[c] < BurstMax[c] => BurstsAfter(c)[c] = burst[c] + 1
<1>1. UlongSize \in Nat /\ UlongSize > 0 /\ burst[c] \in 0 .. UlongSize - 1
  BY BurstAssumption DEF QTypeOK
<1>2. UlongInc(burst[c]) \in 0 .. UlongSize - 1
  BY <1>1 DEF UlongInc
<1>3. BurstMax[c] \in Nat /\ BurstMax[c] < UlongSize
  BY BurstAssumption DEF BurstMax, Class
<1>4. burst[c] < BurstMax[c] => UlongInc(burst[c]) = burst[c] + 1
  BY <1>1, <1>3 DEF UlongInc
<1> QED BY <1>1, <1>2, <1>4 DEF BurstsAfter

(* Whatever is removed from or appended to a queue, it stays a sequence of *)
(* requests.                                                               *)
LEMMA QueueTypes ==
  ASSUME QTypeOK, NEW c \in Class
  PROVE  /\ \A r \in Request : QueueInsert(r, c) => QTypeOK'
         /\ \A r \in Request : Pick(c, r) => QTypeOK'
         /\ \A r \in Request : DrainOne(c, r) => QTypeOK'
<1>1. queue[c] \in Seq(Request)
  BY DEF QTypeOK
<1>2. \A r \in Request : Append(queue[c], r) \in Seq(Request)
  BY <1>1
<1>3. Waiting(c) => Tail(queue[c]) \in Seq(Request)
  BY <1>1 DEF Waiting
<1>4. \A r \in Request : QueueInsert(r, c) => QTypeOK'
  BY <1>2 DEF QTypeOK, QueueInsert
<1>5. \A r \in Request : Pick(c, r) => QTypeOK'
  <2> SUFFICES ASSUME NEW r \in Request, Pick(c, r) PROVE QTypeOK'
    OBVIOUS
  <2>1. burst' \in [Class -> 0 .. UlongSize - 1]
    BY BurstsAfterPick DEF Pick
  <2>2. queue' \in [Class -> Seq(Request)]
    BY <1>3 DEF Pick, Picked, Eligible, RemoveHead, QTypeOK
  <2> QED BY <2>1, <2>2 DEF QTypeOK
<1>6. \A r \in Request : DrainOne(c, r) => QTypeOK'
  BY <1>3 DEF DrainOne, RemoveHead, QTypeOK
<1> QED BY <1>4, <1>5, <1>6
-----------------------------------------------------------------------------
LEMMA InitIInv == Init => IInv
<1> SUFFICES ASSUME Init PROVE IInv
  OBVIOUS
<1>1. UlongSize > 0 /\ UlongSize \in Nat /\ BurstHighMax \in Nat
  BY BurstAssumption
<1>2. queue \in [Class -> Seq(Request)]
  BY DEF Init, QInit
<1>3. TypeOK
  BY <1>1, <1>2 DEF Init, QInit, TypeOK, QTypeOK
<1>4. OneBurst
  BY DEF Init, QInit, OneBurst
<1>5. BypassHistory /\ BypassBound
  BY <1>1 DEF Init, QInit, BypassHistory, BypassBound, Class
<1> QED BY <1>3, <1>4, <1>5 DEF IInv

LEMMA InsertIInv ==
  ASSUME IInv, NEW c \in Class, NEW r \in Request, Insert(r, c)
  PROVE  IInv'
<1>1. TypeOK'
  BY QueueTypes DEF IInv, TypeOK, Insert
<1>2. UNCHANGED <<burst, bypass>>
  BY DEF Insert, QueueInsert
<1> QED BY <1>1, <1>2 DEF IInv, OneBurst, BypassHistory, BypassBound

LEMMA DrainIInv ==
  ASSUME IInv, NEW c \in Class, NEW r \in Request, Drain(c, r)
  PROVE  IInv'
<1>1. bypass' = [d \in Class |-> 0] /\ UNCHANGED burst
  BY DEF Drain, DrainOne
<1>2. TypeOK'
  BY <1>1, QueueTypes DEF IInv, TypeOK, Drain
<1>3. OneBurst'
  BY <1>1 DEF IInv, OneBurst
<1>4. burst["High"] \in Nat /\ BurstHighMax \in Nat
  BY BurstAssumption DEF IInv, TypeOK, QTypeOK, Class
<1>5. BypassHistory' /\ BypassBound'
  BY <1>1, <1>4 DEF BypassHistory, BypassBound, Class
<1> QED BY <1>2, <1>3, <1>5 DEF IInv

(* A class that waits while another is picked has used up its burst, or    *)
(* ranks below the class picked, whose own burst then was not used up.     *)
LEMMA PassedOver ==
  ASSUME QTypeOK, NEW c \in Class, NEW d \in Class, Picked(c), Waiting(d), c # d
  PROVE  /\ burst[c] < BurstMax[c]
         /\ Rank[d] < Rank[c] => burst[d] >= BurstMax[d]
<1>1. burst[d] \in Nat /\ BurstMax[d] \in Nat
  BY BurstMaxType, BurstAssumption DEF QTypeOK
<1>2. ~OthersEmpty(c)
  BY DEF OthersEmpty, Waiting
<1> QED BY <1>1, <1>2 DEF Picked, Eligible

LEMMA ServeIInv ==
  ASSUME ZeroLimitsLast, IInv, NEW c \in Class, NEW r \in Request, Serve(c, r)
  PROVE  IInv'
<1> DEFINE b == burst
           p == bypass
<1>1. QTypeOK /\ Picked(c) /\ burst' = BurstsAfter(c) /\ bypass' = BypassAfter(c)
  BY DEF Serve, Pick, IInv, TypeOK
<1>2. \A d \in Class : b[d] \in Nat /\ p[d] \in Nat /\ BurstMax[d] \in Nat
  BY BurstMaxType, BurstAssumption DEF IInv, TypeOK, QTypeOK, BurstMax, Class
<1>3. /\ bypass' \in [Class -> Nat]
      /\ \A d \in Class : bypass'[d] = IF d = c \/ ~Waiting(d) THEN 0 ELSE p[d] + 1
  BY <1>1, <1>2 DEF BypassAfter
<1>4. /\ burst' \in [Class -> 0 .. UlongSize - 1]
      /\ \A d \in Class : d # c => burst'[d] = 0
      /\ b[c] < BurstMax[c] => burst'[c] = b[c] + 1
  BY <1>1, BurstsAfterPick
<1>5. \A d \in Class : burst'[d] \in Nat
  BY <1>4, BurstAssumption
<1>6. TypeOK'
  BY <1>1, <1>3, QueueTypes DEF TypeOK, Serve
<1>7. OneBurst'
  BY <1>4, <1>5 DEF OneBurst
<1>8. /\ bypass'["High"] > 0 => burst'["High"] = 0
      /\ bypass'["High"] <= 1
  <2>1. CASE c = "High" \/ ~Waiting("High")
    BY <2>1, <1>3, <1>5 DEF Class
  <2>2. CASE c # "High" /\ Waiting("High")
    <3>1. b["High"] >= BurstMax["High"]
      BY <1>1, <2>2, PassedOver DEF Class, Rank
    <3>l. BurstMax["High"] # 0
      <4>1. b[c] < BurstMax[c]
        BY <1>1, <2>2, PassedOver DEF Class
      <4>2. BurstMax[c] # 0 /\ c \in {"Normal", "Low"}
        BY <4>1, <1>2, <2>2 DEF Class
      <4> QED BY <4>2 DEF ZeroLimitsLast, BurstMax
    <3>2. b["High"] > 0 /\ p["High"] \in Nat
      BY <3>1, <3>l, <1>2 DEF Class
    <3>3. p["High"] = 0
      BY <3>2 DEF IInv, BypassHistory
    <3> QED BY <3>3, <2>2, <1>3, <1>4 DEF Class
  <2> QED BY <2>1, <2>2
<1>9. /\ burst'["Normal"] > 0 => bypass'["Normal"] = 0
      /\ bypass'["Normal"] <= burst'["High"] + 1
      /\ bypass'["Normal"] <= BurstHighMax + 1
  <2>1. CASE c = "Normal" \/ ~Waiting("Normal")
    BY <2>1, <1>3, <1>5, BurstAssumption DEF Class
  <2>2. CASE c = "High" /\ Waiting("Normal")
    <3>1. b["High"] < BurstHighMax
      BY <1>1, <2>2, PassedOver DEF Class, BurstMax
    <3>2. burst'["High"] = b["High"] + 1 /\ burst'["Normal"] = 0
      BY <3>1, <2>2, <1>4 DEF BurstMax, Class
    <3>3. p["Normal"] <= b["High"] + 1
      BY DEF IInv, BypassHistory
    <3>4. bypass'["Normal"] = p["Normal"] + 1
      BY <2>2, <1>3 DEF Class
    <3> QED BY <3>1, <3>2, <3>3, <3>4, <1>2, BurstAssumption DEF Class
  <2>3. CASE c = "Low" /\ Waiting("Normal")
    <3>1. b["Normal"] >= BurstMax["Normal"]
      BY <1>1, <2>3, PassedOver DEF Class, Rank
    <3>l. BurstMax["Normal"] # 0
      <4>1. b["Low"] < BurstMax["Low"]
        BY <1>1, <2>3, PassedOver DEF Class
      <4>2. BurstMax["Low"] # 0
        BY <4>1, <1>2 DEF Class
      <4> QED BY <4>2 DEF ZeroLimitsLast, BurstMax
    <3>2. p["Normal"] = 0
      BY <3>1, <3>l, <1>2 DEF IInv, BypassHistory, Class
    <3> QED BY <3>2, <2>3, <1>3, <1>4, BurstAssumption DEF Class
  <2> QED BY <2>1, <2>2, <2>3 DEF Class
<1> QED BY <1>6, <1>7, <1>8, <1>9 DEF IInv, BypassHistory, BypassBound
-----------------------------------------------------------------------------
(* A waiting High request is passed over at most once and a waiting Normal *)
(* one at most BurstHighMax + 1 times, whatever the load and for every set *)
(* of limits where none of zero ranks above one that is not, the zeros of  *)
(* the code among them (the burst rule of I2cCtrl_QueueDpcRoutine).        *)
THEOREM BoundedBypass ==
  ASSUME ZeroLimitsLast
  PROVE  Spec => [](TypeOK /\ OneBurst /\ BypassBound)
<1>1. Init => IInv
  BY InitIInv
<1>2. IInv /\ [Next]_vars => IInv'
  <2> SUFFICES ASSUME IInv, [Next]_vars PROVE IInv'
    OBVIOUS
  <2>1. CASE Next
    BY <2>1, InsertIInv, ServeIInv, DrainIInv DEF Next
  <2>2. CASE UNCHANGED vars
    BY <2>2 DEF vars, IInv, TypeOK, QTypeOK, OneBurst, BypassHistory, BypassBound
  <2> QED BY <2>1, <2>2
<1>3. IInv => TypeOK /\ OneBurst /\ BypassBound
  BY DEF IInv
<1> QED BY <1>1, <1>2, <1>3, PTL DEF Spec

(* The types and the single burst need no assumption about the limits.     *)
BurstInv == TypeOK /\ OneBurst

LEMMA BurstInvNext == BurstInv /\ [Next]_vars => BurstInv'
<1> SUFFICES ASSUME TypeOK, OneBurst, [Next]_vars PROVE BurstInv'
  BY DEF BurstInv
<1>1. ASSUME NEW c \in Class, NEW r \in Request, Insert(r, c) PROVE BurstInv'
  BY <1>1, QueueTypes DEF TypeOK, OneBurst, Insert, QueueInsert, BurstInv
<1>2. ASSUME NEW c \in Class, NEW r \in Request, Drain(c, r) PROVE BurstInv'
  BY <1>2, QueueTypes DEF TypeOK, OneBurst, Drain, DrainOne, BurstInv
<1>3. ASSUME NEW c \in Class, NEW r \in Request, Serve(c, r) PROVE BurstInv'
  <2>1. QTypeOK /\ burst' = BurstsAfter(c) /\ bypass' = BypassAfter(c)
    BY <1>3 DEF Serve, Pick, TypeOK
  <2>2. bypass' \in [Class -> Nat]
    BY <2>1 DEF BypassAfter, TypeOK
  <2>3. /\ burst' \in [Class -> 0 .. UlongSize - 1]
        /\ \A d \in Class : d # c => burst'[d] = 0
    BY <2>1, BurstsAfterPick
  <2>4. OneBurst'
    BY <2>3 DEF OneBurst
  <2> QED BY <1>3, <2>1, <2>2, <2>4, QueueTypes DEF TypeOK, Serve, BurstInv
<1>4. CASE UNCHANGED vars
  BY <1>4 DEF vars, TypeOK, QTypeOK, OneBurst, BurstInv
<1> QED BY <1>1, <1>2, <1>3, <1>4 DEF Next

(* Of two classes that wait one has its burst unused, and is picked unless *)
(* its limit is zero; a class alone needs none.                            *)
LEMMA OneBurstConserves ==
  ASSUME BurstInv
  PROVE  IdleNeedsZeroLimit
<1> SUFFICES ASSUME NEW c \in Class, Waiting(c), ~(\E d \in Class : Picked(d))
             PROVE  \E e, d \in Class : e # d /\ Waiting(e) /\ Waiting(d) /\ BurstMax[e] = 0
  BY DEF IdleNeedsZeroLimit
<1>1. \A d \in Class : BurstMax[d] \in Nat /\ burst[d] \in Nat
  BY BurstMaxType, BurstAssumption DEF BurstInv, TypeOK, QTypeOK
<1>2. \A d \in Class : ~Eligible(d)
  BY DEF Picked, Class, Rank
<1>3. PICK d \in Class : d # c /\ Waiting(d)
  BY <1>2 DEF Eligible, OthersEmpty, Waiting
<1>4. burst[c] >= BurstMax[c] /\ burst[d] >= BurstMax[d]
  BY <1>1, <1>2, <1>3 DEF Eligible
<1>5. burst[c] = 0 \/ burst[d] = 0
  BY <1>1, <1>3 DEF BurstInv, OneBurst
<1>6. BurstMax[c] = 0 \/ BurstMax[d] = 0
  BY <1>1, <1>4, <1>5
<1> QED BY <1>3, <1>6

(* A QoS pick leaves empty-handed, with requests queued, only when two     *)
(* classes wait of which one has a limit of zero, for every set of limits. *)
THEOREM NeverIdle == Spec => []IdleNeedsZeroLimit
<1>1. Init => BurstInv
  BY InitIInv DEF IInv, BurstInv
<1> QED BY <1>1, BurstInvNext, OneBurstConserves, PTL DEF Spec

(* So it never does where every limit is above zero, which the code does   *)
(* not see to.                                                             *)
COROLLARY PositiveLimitsConserve ==
  ASSUME BurstHighMax > 0, BurstNormalMax > 0, BurstLowMax > 0
  PROVE  Spec => []WorkConserving
<1>1. \A c \in Class : BurstMax[c] # 0
  BY DEF Class, BurstMax
<1>2. IdleNeedsZeroLimit => WorkConserving
  BY <1>1 DEF IdleNeedsZeroLimit, WorkConserving
<1> QED BY <1>2, NeverIdle, PTL
=============================================================================
