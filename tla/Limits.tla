-------------------------------- MODULE Limits --------------------------------
(***************************************************************************)
(* The numbers of the rate limiter (middleware.go:150-163), in units of a  *)
(* sixtieth of a request: with p requests a minute a bucket holds 60 p,    *)
(* gains p a second, and a request costs 60.                               *)
(***************************************************************************)
EXTENDS Naturals

CONSTANTS Burst,      (* what a full bucket holds                           *)
          Rate,       (* what it gains in a second                          *)
          Cost,       (* what a request takes                               *)
          IdleLimit,  (* seconds without a request before a purge drops it  *)
          NoBucket    (* what a client without a bucket has                 *)

(* 300 p >= 60 p: a bucket that is dropped would be full by then.          *)
ASSUME LimitsAssumption ==
  /\ Burst \in Nat /\ Rate \in Nat /\ Cost \in Nat /\ IdleLimit \in Nat
  /\ IdleLimit * Rate >= Burst
  /\ NoBucket \notin [tokens : 0..Burst, last : Nat]

AtMostBurst(tokens) == IF tokens < Burst THEN tokens ELSE Burst

=============================================================================
