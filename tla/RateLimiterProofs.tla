--------------------------- MODULE RateLimiterProofs ---------------------------
(***************************************************************************)
(* The rate limiter keeps its types, bounds what a client is served, and   *)
(* implements the token bucket that forgets nothing, for any number of     *)
(* clients, any clock and any numbers that satisfy LimitsAssumption.       *)
(***************************************************************************)
EXTENDS RateLimiter, Integers, TLAPS

-----------------------------------------------------------------------------
(* Arithmetic.                                                             *)
LEMMA Distribute ==
  ASSUME NEW a \in Int, NEW b \in Int, NEW r \in Int
  PROVE  (a - b) * r = a * r - b * r /\ (a + b) * r = a * r + b * r
OBVIOUS

LEMMA Monotone ==
  ASSUME NEW a \in Nat, NEW b \in Nat, a <= b, NEW r \in Nat
  PROVE  a * r \in Nat /\ b * r \in Nat /\ a * r <= b * r
<1>1. (b - a) * r \in Nat /\ a * r \in Nat
  OBVIOUS
<1> QED
  BY <1>1, Distribute

(* A bucket is refilled to no more than the burst, by what the time made.  *)
LEMMA RefilledRange ==
  ASSUME TypeOK, NEW c \in Clients
  PROVE  /\ Refilled(c) \in 0..Burst
         /\ buckets[c] # NoBucket =>
              /\ buckets[c] \in Bucket
              /\ (now - buckets[c].last) * Rate \in Nat
              /\ Refilled(c) <= buckets[c].tokens + (now - buckets[c].last) * Rate
<1>1. CASE buckets[c] = NoBucket
  BY <1>1, LimitsAssumption DEF Refilled
<1>2. CASE buckets[c] # NoBucket
  <2>1. buckets[c] \in Bucket /\ now - buckets[c].last \in Nat
    BY <1>2 DEF TypeOK, Bucket
  <2>2. (now - buckets[c].last) * Rate \in Nat
    BY <2>1, Monotone, LimitsAssumption
  <2> QED
    BY <1>2, <2>1, <2>2, LimitsAssumption DEF Refilled, AtMostBurst, Bucket
<1> QED
  BY <1>1, <1>2

(* What a request leaves in its bucket.                                    *)
Kept(c) == IF Refilled(c) >= Cost THEN Refilled(c) - Cost ELSE Refilled(c)

LEMMA RequestDoes ==
  ASSUME TypeOK, NEW c \in Clients, Request(c)
  PROVE  /\ Kept(c) \in 0..Burst
         /\ buckets' = [buckets EXCEPT ![c] = [tokens |-> Kept(c), last |-> now]]
         /\ answer' = <<c, Refilled(c) >= Cost>>
         /\ served' = [served EXCEPT ![c] = IF Refilled(c) >= Cost THEN @ + 1 ELSE @]
         /\ now' = now
<1>1. Refilled(c) \in 0..Burst
  BY RefilledRange
<1>2. Refilled(c) - (IF Refilled(c) >= Cost THEN Cost ELSE 0) = Kept(c) /\ Kept(c) \in 0..Burst
  BY <1>1, LimitsAssumption DEF Kept
<1> QED
  BY <1>2 DEF Request

-----------------------------------------------------------------------------
(* Types.                                                                  *)
LEMMA InitTyped == Init => TypeOK
<1> SUFFICES ASSUME Init PROVE TypeOK
  OBVIOUS
<1>1. answer \in Clients \X BOOLEAN
  BY DEF Init
<1>2. now \in Nat /\ served \in [Clients -> Nat]
  BY DEF Init
<1>3. /\ buckets \in [Clients -> Bucket \cup {NoBucket}]
      /\ \A c \in Clients : buckets[c] # NoBucket => buckets[c].last <= now
  BY DEF Init
<1> QED
  BY <1>1, <1>2, <1>3 DEF TypeOK

LEMMA NextTyped == TypeOK /\ [Next]_vars => TypeOK'
<1> SUFFICES ASSUME TypeOK, [Next]_vars PROVE TypeOK'
  OBVIOUS
<1>1. CASE Tick
  BY <1>1 DEF Tick, TypeOK, Bucket
<1>2. CASE Purge
  BY <1>2 DEF Purge, TypeOK
<1>3. ASSUME NEW c \in Clients, Request(c) PROVE TypeOK'
  <2>1. /\ Kept(c) \in 0..Burst /\ now' = now
        /\ buckets' = [buckets EXCEPT ![c] = [tokens |-> Kept(c), last |-> now]]
        /\ answer' = <<c, Refilled(c) >= Cost>>
        /\ served' = [served EXCEPT ![c] = IF Refilled(c) >= Cost THEN @ + 1 ELSE @]
    BY <1>3, RequestDoes
  <2>2. /\ buckets' \in [Clients -> Bucket \cup {NoBucket}]
        /\ \A d \in Clients : buckets'[d] # NoBucket => buckets'[d].last <= now'
    BY <2>1 DEF TypeOK, Bucket
  <2>3. served' \in [Clients -> Nat] /\ now' \in Nat
    BY <2>1 DEF TypeOK
  <2>4. answer' \in Clients \X BOOLEAN
    <3>1. (Refilled(c) >= Cost) \in BOOLEAN
      BY RefilledRange, LimitsAssumption
    <3>2. <<c, Refilled(c) >= Cost>> \in Clients \X BOOLEAN
      BY <3>1, Zenon
    <3> QED
      BY <2>1, <3>2, Zenon
  <2> QED
    BY <2>2, <2>3, <2>4 DEF TypeOK
<1>4. CASE UNCHANGED vars
  BY <1>4 DEF vars, TypeOK
<1> QED
  BY <1>1, <1>2, <1>3, <1>4 DEF Next

(* Every bucket holds between nothing and the burst, and none was last     *)
(* used in the future (middleware.go:163-186).                             *)
THEOREM BucketsTyped == Spec => []TypeOK
BY InitTyped, NextTyped, PTL DEF Spec

-----------------------------------------------------------------------------
(* The bound: what a client has been served and what its bucket holds are  *)
(* covered by the burst and the time up to the last request.               *)
Covered(c) ==
  IF buckets[c] = NoBucket
  THEN served[c] * Cost <= now * Rate
  ELSE served[c] * Cost + buckets[c].tokens <= Burst + buckets[c].last * Rate

RateInv == TypeOK /\ \A c \in Clients : Covered(c)

(* A covered client is covered after a refill too.                         *)
LEMMA RefillCovered ==
  ASSUME RateInv, NEW c \in Clients
  PROVE  /\ served[c] * Cost \in Nat /\ now * Rate \in Nat
         /\ served[c] * Cost + Refilled(c) <= Burst + now * Rate
<1>1. /\ served[c] * Cost \in Nat /\ now * Rate \in Nat
      /\ Refilled(c) \in 0..Burst
  BY RefilledRange, LimitsAssumption, Monotone DEF RateInv, TypeOK
<1>2. CASE buckets[c] = NoBucket
  BY <1>1, <1>2, LimitsAssumption DEF RateInv, Covered, Refilled
<1>3. CASE buckets[c] # NoBucket
  <2> DEFINE t == buckets[c].tokens
             l == buckets[c].last
  <2>1. t \in Nat /\ l \in Nat /\ Refilled(c) <= t + (now - l) * Rate
    BY <1>3, RefilledRange, LimitsAssumption DEF RateInv, Bucket
  <2>2. l * Rate \in Nat /\ (now - l) * Rate = now * Rate - l * Rate
    BY <2>1, Distribute, Monotone, LimitsAssumption DEF RateInv, TypeOK
  <2>3. served[c] * Cost + t <= Burst + l * Rate
    BY <1>3 DEF RateInv, Covered
  <2> HIDE DEF t, l
  <2> QED
    BY <1>1, <2>1, <2>2, <2>3, LimitsAssumption
<1> QED
  BY <1>1, <1>2, <1>3

LEMMA InitCovered == Init => RateInv
<1> SUFFICES ASSUME Init PROVE \A c \in Clients : Covered(c)
  BY InitTyped DEF RateInv
<1> QED
  BY LimitsAssumption DEF Init, Covered

LEMMA NextCovered == RateInv /\ [Next]_vars => RateInv'
<1> SUFFICES ASSUME RateInv, [Next]_vars, NEW d \in Clients PROVE Covered(d)'
  BY NextTyped DEF RateInv
<1>0. TypeOK /\ Covered(d) /\ LimitsAssumption
  BY LimitsAssumption DEF RateInv
<1>1. CASE Tick
  <2>1. now * Rate <= (now + 1) * Rate /\ now * Rate \in Nat /\ (now + 1) * Rate \in Nat
    BY <1>0, Monotone, now \in Nat /\ now <= now + 1 DEF TypeOK, LimitsAssumption
  <2>2. served[d] * Cost \in Nat
    BY <1>0, Monotone DEF TypeOK, LimitsAssumption
  <2> QED
    BY <1>0, <1>1, <2>1, <2>2 DEF Tick, Covered
<1>2. CASE Purge
  <2>1. CASE Idle(d)
    <3>1. buckets'[d] = NoBucket /\ UNCHANGED <<now, served>>
      BY <1>2, <2>1, <1>0 DEF Purge, TypeOK
    <3>2. buckets[d] \in Bucket /\ buckets[d] # NoBucket /\ now - buckets[d].last > IdleLimit
      BY <1>0, <2>1 DEF Idle, TypeOK
    <3> DEFINE l == buckets[d].last
    <3>3. l \in Nat /\ now \in Nat /\ l + IdleLimit <= now /\ l + IdleLimit \in Nat
      BY <1>0, <3>2 DEF TypeOK, LimitsAssumption, Bucket
    <3>4. (l + IdleLimit) * Rate <= now * Rate /\ now * Rate \in Nat
      BY <1>0, <3>3, Monotone DEF LimitsAssumption
    <3>5. (l + IdleLimit) * Rate = l * Rate + IdleLimit * Rate /\ l * Rate \in Nat
          /\ IdleLimit * Rate \in Nat
      BY <1>0, <3>3, Distribute, Monotone DEF LimitsAssumption
    <3>6. served[d] * Cost + buckets[d].tokens <= Burst + l * Rate /\ buckets[d].tokens \in Nat
      BY <1>0, <3>2 DEF Covered, Bucket, LimitsAssumption
    <3>7. served[d] * Cost \in Nat /\ Burst <= IdleLimit * Rate /\ Burst \in Nat
      BY <1>0, Monotone DEF TypeOK, LimitsAssumption
    <3> HIDE DEF l
    <3>8. served[d] * Cost <= now * Rate
      BY <3>4, <3>5, <3>6, <3>7
    <3> QED
      BY <3>1, <3>8 DEF Covered
  <2>2. CASE ~Idle(d)
    BY <1>0, <1>2, <2>2 DEF Purge, Covered, TypeOK
  <2> QED
    BY <2>1, <2>2
<1>3. ASSUME NEW c \in Clients, Request(c) PROVE Covered(d)'
  <2>1. /\ Kept(c) \in 0..Burst /\ now' = now
        /\ buckets' = [buckets EXCEPT ![c] = [tokens |-> Kept(c), last |-> now]]
        /\ served' = [served EXCEPT ![c] = IF Refilled(c) >= Cost THEN @ + 1 ELSE @]
    BY <1>0, <1>3, RequestDoes
  <2>2. CASE d # c
    BY <1>0, <2>1, <2>2 DEF Covered, TypeOK
  <2>3. CASE d = c
    <3>1. /\ buckets'[c] = [tokens |-> Kept(c), last |-> now] /\ buckets'[c] # NoBucket
          /\ served'[c] = IF Refilled(c) >= Cost THEN served[c] + 1 ELSE served[c]
      BY <1>0, <2>1 DEF TypeOK, LimitsAssumption
    <3>2. /\ served[c] * Cost \in Nat /\ now * Rate \in Nat
          /\ served[c] * Cost + Refilled(c) <= Burst + now * Rate
          /\ Refilled(c) \in 0..Burst
      BY <1>0, RefillCovered, RefilledRange
    <3>3. (served[c] + 1) * Cost = served[c] * Cost + Cost
      BY <1>0, Distribute, 1 * Cost = Cost DEF TypeOK, LimitsAssumption
    <3>4. served'[c] * Cost + Kept(c) <= Burst + now * Rate
      BY <1>0, <3>1, <3>2, <3>3 DEF Kept, LimitsAssumption
    <3> QED
      BY <2>1, <2>3, <3>1, <3>4 DEF Covered
  <2> QED
    BY <2>2, <2>3
<1>4. CASE UNCHANGED vars
  BY <1>0, <1>4 DEF vars, Covered
<1> QED
  BY <1>1, <1>2, <1>3, <1>4 DEF Next

(* No client is ever served more than burst and rate allow: what a purge   *)
(* forgets was full anyway (middleware.go:179-186).                        *)
THEOREM NoClientOverRate == Spec => []NeverOverRate
<1>1. RateInv => NeverOverRate
  <2> SUFFICES ASSUME RateInv, NEW c \in Clients PROVE served[c] * Cost <= Burst + now * Rate
    BY DEF NeverOverRate
  <2>1. /\ served[c] * Cost \in Nat /\ now * Rate \in Nat /\ Refilled(c) \in 0..Burst
        /\ served[c] * Cost + Refilled(c) <= Burst + now * Rate
    BY RefillCovered, RefilledRange DEF RateInv
  <2> QED
    BY <2>1, LimitsAssumption
<1> QED
  BY <1>1, InitCovered, NextCovered, PTL DEF Spec

-----------------------------------------------------------------------------
(* The refinement: refilling at the next request only, and dropping idle   *)
(* buckets, is the same as refilling every second and dropping none.       *)
LEMMA SecondAtATime ==
  ASSUME NEW t \in Nat, NEW made \in Nat
  PROVE  AtMostBurst(t + (made + Rate)) = AtMostBurst(AtMostBurst(t + made) + Rate)
BY LimitsAssumption DEF AtMostBurst

LEMMA TickGrows ==
  ASSUME TypeOK, Tick, NEW c \in Clients
  PROVE  Refilled(c)' = AtMostBurst(Refilled(c) + Rate)
<1>1. now' = now + 1 /\ buckets' = buckets
  BY DEF Tick
<1>2. CASE buckets[c] = NoBucket
  BY <1>1, <1>2, LimitsAssumption DEF Refilled, AtMostBurst
<1>3. CASE buckets[c] # NoBucket
  <2> DEFINE t == buckets[c].tokens
             l == buckets[c].last
  <2>1. t \in Nat /\ l \in Nat /\ now \in Nat /\ (now - l) * Rate \in Nat
    BY <1>3, RefilledRange DEF TypeOK, Bucket
  <2>2. ((now + 1) - l) * Rate = (now - l) * Rate + Rate
    <3>1. now - l \in Int /\ (now + 1) - l = (now - l) + 1 /\ 1 * Rate = Rate
      BY <2>1, LimitsAssumption
    <3> HIDE DEF l
    <3> QED
      BY <3>1, Distribute, LimitsAssumption
  <2>3. Refilled(c)' = AtMostBurst(t + ((now + 1) - l) * Rate)
    BY <1>1, <1>3 DEF Refilled
  <2>4. Refilled(c) = AtMostBurst(t + (now - l) * Rate)
    BY <1>3 DEF Refilled
  <2> HIDE DEF t, l
  <2> QED
    BY <2>1, <2>2, <2>3, <2>4, SecondAtATime
<1> QED
  BY <1>2, <1>3

(* A bucket that a purge drops would be full by now.                       *)
LEMMA PurgeKeepsCredit ==
  ASSUME TypeOK, Purge, NEW c \in Clients
  PROVE  Refilled(c)' = Refilled(c)
<1>1. now' = now /\ buckets'[c] = IF Idle(c) THEN NoBucket ELSE buckets[c]
  BY DEF Purge
<1>2. CASE ~Idle(c)
  BY <1>1, <1>2 DEF Refilled
<1>3. CASE Idle(c)
  <2>1. buckets[c] # NoBucket /\ now - buckets[c].last > IdleLimit
    BY <1>3 DEF Idle
  <2> DEFINE t == buckets[c].tokens
             idle == now - buckets[c].last
  <2>2. t \in Nat /\ idle \in Nat /\ idle * Rate \in Nat /\ IdleLimit <= idle
    BY <2>1, RefilledRange, LimitsAssumption DEF TypeOK, Bucket
  <2>3. Refilled(c) = AtMostBurst(t + idle * Rate)
    BY <2>1 DEF Refilled
  <2>4. Refilled(c)' = Burst
    BY <1>1, <1>3 DEF Refilled
  <2> HIDE DEF t, idle
  <2>5. Burst <= idle * Rate
    <3>1. IdleLimit * Rate <= idle * Rate /\ IdleLimit * Rate \in Nat
      BY <2>2, Monotone, LimitsAssumption
    <3> QED
      BY <2>2, <3>1, LimitsAssumption
  <2> QED
    BY <2>2, <2>3, <2>4, <2>5, LimitsAssumption DEF AtMostBurst
<1> QED
  BY <1>2, <1>3

LEMMA RequestPays ==
  ASSUME TypeOK, NEW c \in Clients, Request(c), NEW d \in Clients
  PROVE  Refilled(d)' = IF d = c THEN Kept(c) ELSE Refilled(d)
<1>1. /\ Kept(c) \in 0..Burst /\ now' = now
      /\ buckets' = [buckets EXCEPT ![c] = [tokens |-> Kept(c), last |-> now]]
  BY RequestDoes
<1>2. CASE d # c
  BY <1>1, <1>2 DEF Refilled, TypeOK
<1>3. CASE d = c
  <2>1. /\ buckets'[d] = [tokens |-> Kept(c), last |-> now] /\ buckets'[d] # NoBucket
        /\ now \in Nat
    BY <1>1, <1>3, LimitsAssumption DEF TypeOK
  <2>2. (now - now) * Rate = 0
    BY <2>1, LimitsAssumption
  <2>3. Refilled(d)' = AtMostBurst(Kept(c) + (now - now) * Rate)
    BY <1>1, <2>1 DEF Refilled
  <2> QED
    BY <1>1, <1>3, <2>2, <2>3, LimitsAssumption DEF AtMostBurst
<1> QED
  BY <1>2, <1>3

Credit == [c \in Clients |-> Refilled(c)]

LEMMA StepsImplement == TypeOK /\ [Next]_vars => [Promise!Next]_(Promise!bucketVars)
<1> SUFFICES ASSUME TypeOK, [Next]_vars PROVE [Promise!Next]_(Promise!bucketVars)
  OBVIOUS
<1> USE DEF Credit
<1>1. CASE Tick
  <2>1. Credit' = [c \in Clients |-> AtMostBurst(Credit[c] + Rate)]
    BY <1>1, TickGrows
  <2> QED
    BY <1>1, <2>1 DEF Tick, Promise!Next, Promise!Grow, Promise!AtMostBurst,
                       AtMostBurst
<1>2. CASE Purge
  <2>1. Credit' = Credit
    BY <1>2, PurgeKeepsCredit
  <2> QED
    BY <1>2, <2>1 DEF Purge, Promise!bucketVars
<1>3. ASSUME NEW c \in Clients, Request(c) PROVE [Promise!Next]_(Promise!bucketVars)
  <2>1. Credit' = [Credit EXCEPT ![c] = Kept(c)]
    BY <1>3, RequestPays
  <2>2. Credit' = [Credit EXCEPT ![c] = IF Credit[c] >= Cost THEN @ - Cost ELSE @]
    BY <2>1 DEF Kept
  <2>3. answer' = <<c, Credit[c] >= Cost>>
    BY <1>3, RequestDoes
  <2>4. Promise!Ask(c)
    BY <2>2, <2>3 DEF Promise!Ask
  <2> QED
    BY <2>4 DEF Promise!Next
<1>4. CASE UNCHANGED vars
  BY <1>4 DEF vars, Promise!bucketVars, Refilled
<1> QED
  BY <1>1, <1>2, <1>3, <1>4 DEF Next

(* No purge, refusal or pause changes who is served: the limiter is a      *)
(* bucket that is refilled every second and never dropped                  *)
(* (middleware.go:163-186).                                                *)
THEOREM LimiterIsTokenBucket == Spec => ImplementsBucket
<1>1. Init => Promise!Init
  <2> SUFFICES ASSUME Init PROVE Promise!Init
    OBVIOUS
  <2>1. Credit = [c \in Clients |-> Burst]
    BY DEF Init, Refilled, Credit
  <2>2. answer \in Clients \X BOOLEAN
    BY InitTyped DEF TypeOK
  <2> QED
    BY <2>1, <2>2 DEF Promise!Init, Credit
<1> QED
  BY <1>1, InitTyped, NextTyped, StepsImplement, PTL DEF Spec, ImplementsBucket, Promise!Spec
=============================================================================
