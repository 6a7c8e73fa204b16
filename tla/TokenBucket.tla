------------------------------ MODULE TokenBucket ------------------------------
(***************************************************************************)
(* What a rate limiter promises: every client has a credit that grows with *)
(* time up to a maximum, and is served exactly when the credit covers the  *)
(* request.  Nothing is ever forgotten.                                    *)
(***************************************************************************)
EXTENDS Limits

CONSTANT Clients

VARIABLES credit, answer

bucketVars == <<credit, answer>>

Init == credit = [c \in Clients |-> Burst] /\ answer \in Clients \X BOOLEAN

Grow ==
  /\ credit' = [c \in Clients |-> AtMostBurst(credit[c] + Rate)]
  /\ UNCHANGED answer

Ask(c) ==
  LET served == credit[c] >= Cost IN
  /\ credit' = [credit EXCEPT ![c] = IF served THEN @ - Cost ELSE @]
  /\ answer' = <<c, served>>

Next == Grow \/ \E c \in Clients : Ask(c)

Spec == Init /\ [][Next]_bucketVars
=============================================================================
