------------------------------ MODULE RateLimiter ------------------------------
(***************************************************************************)
(* The rate limiter (pkg/middleware/middleware.go): one bucket per client  *)
(* address, made at the first request, refilled at each request from the   *)
(* time since the last one, and dropped by a purge when idle.  A request   *)
(* and a purge hold the mutex throughout, so each is one action.           *)
(***************************************************************************)
EXTENDS LimiterState

CONSTANT MaxNow      (* bound: the clock of an instance stops here          *)

vars == <<now, buckets, answer, served>>

Bucket == [tokens : 0..Burst, last : Nat]

TypeOK ==
  /\ now \in Nat
  /\ buckets \in [Clients -> Bucket \cup {NoBucket}]
  /\ \A c \in Clients : buckets[c] # NoBucket => buckets[c].last <= now
  /\ answer \in Clients \X BOOLEAN
  /\ served \in [Clients -> Nat]

Init ==
  /\ now = 0
  /\ buckets = [c \in Clients |-> NoBucket]
  /\ answer \in Clients \X {FALSE}
  /\ served = [c \in Clients |-> 0]

-----------------------------------------------------------------------------
(* Mutant: a refused request does not move last, so its seconds count      *)
(* again although the tokens they made are already in the bucket.          *)
RequestKeepsTime(c) ==
  LET allowed == Refilled(c) >= Cost
      last == IF allowed \/ buckets[c] = NoBucket THEN now ELSE buckets[c].last
  IN
  /\ buckets' = [buckets EXCEPT ![c] =
       [tokens |-> Refilled(c) - (IF allowed THEN Cost ELSE 0), last |-> last]]
  /\ answer' = <<c, allowed>>
  /\ served' = [served EXCEPT ![c] = IF allowed THEN @ + 1 ELSE @]
  /\ UNCHANGED now

Request(c) ==
  LET allowed == Refilled(c) >= Cost IN
  /\ buckets' = [buckets EXCEPT ![c] =
       [tokens |-> Refilled(c) - (IF allowed THEN Cost ELSE 0), last |-> now]]
  /\ answer' = <<c, allowed>>
  /\ served' = [served EXCEPT ![c] = IF allowed THEN @ + 1 ELSE @]
  /\ UNCHANGED now

(* Mutant: idle for half the limit is enough.                              *)
IdleTooSoon(c) == buckets[c] # NoBucket /\ 2 * (now - buckets[c].last) > IdleLimit

Idle(c) == buckets[c] # NoBucket /\ now - buckets[c].last > IdleLimit

(* Every minute in the code, at any time here.                             *)
Purge ==
  /\ buckets' = [c \in Clients |-> IF Idle(c) THEN NoBucket ELSE buckets[c]]
  /\ UNCHANGED <<now, answer, served>>

Tick == now < MaxNow /\ now' = now + 1 /\ UNCHANGED <<buckets, answer, served>>

Next == Tick \/ Purge \/ \E c \in Clients : Request(c)

Spec == Init /\ [][Next]_vars
=============================================================================
