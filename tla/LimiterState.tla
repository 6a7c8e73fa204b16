----------------------------- MODULE LimiterState -----------------------------
(***************************************************************************)
(* The state of the rate limiter (pkg/middleware/middleware.go:137-147)    *)
(* and what is promised of it.                                             *)
(***************************************************************************)
EXTENDS Limits

CONSTANT Clients     (* addresses, as realIP reads them                     *)

VARIABLES now,       (* seconds since the start                             *)
          buckets,   (* globalRL.buckets                                    *)
          answer,    (* the last client to ask, and whether it was served   *)
          served     (* history: requests of a client served so far         *)

(* A new bucket is full and refilled at once, after no time.               *)
Refilled(c) ==
  IF buckets[c] = NoBucket THEN Burst
  ELSE AtMostBurst(buckets[c].tokens + (now - buckets[c].last) * Rate)

-----------------------------------------------------------------------------
(* A bucket refilled at its next request, or dropped and made anew, holds  *)
(* what one that is refilled every second and never dropped would hold     *)
(* (middleware.go:163-166 and 179-186): no purge, refusal or pause changes *)
(* who is served.                                                          *)
Promise == INSTANCE TokenBucket WITH credit <- [c \in Clients |-> Refilled(c)]

ImplementsBucket == Promise!Spec

(* No client is ever served more than the burst and the rate allow, over   *)
(* any stretch from the start, whatever was purged in between.             *)
NeverOverRate == \A c \in Clients : served[c] * Cost <= Burst + now * Rate
=============================================================================
