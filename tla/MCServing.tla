------------------------------ MODULE MCServing -------------------------------
(***************************************************************************)
(* Instances for TLC of the parts that work while the server serves and    *)
(* share no state with each other: the peers (Nodes), the rate limiter,    *)
(* the live feed, the one connection of the database, a snapshot of the    *)
(* machine and the lists of the dashboard.  A behaviour is one of one      *)
(* part, the others resting in one initial state, where none of them has a *)
(* fair action to take.                                                    *)
(***************************************************************************)
EXTENDS Nodes, LimiterState, PoolState, FiniteSets

CONSTANTS
  MaxNow,                                                   (* RateLimiter   *)
  Conns, NoConn, Hijackable, MaxAttempts, MaxFaults,        (* LiveFeed      *)
  MaxRows,                                                  (* Pool          *)
  Others, Width, MaxMoves,                                  (* Snapshot      *)
  Fetches, Nothing, MaxChanges, MaxErrors                   (* Polling       *)

(* No counter goes round within a snapshot, which takes 100 ms.            *)
ASSUME ServingAssumption ==
  /\ MaxAttempts \in Nat /\ MaxFaults \in Nat
  /\ Nobody \notin Handlers /\ MaxRows \in Nat
  /\ IsFiniteSet(Others) /\ Width \in Nat /\ MaxMoves \in Nat /\ MaxMoves < Width

VARIABLES
  part,                                                     (* which moves   *)
  feed, valid, conn, up, fails, faults,
  counter, pc, job, wg, stored, errors, sample, usage, moves, backwards,
  data, shown, fetch, life, interval, errs

Limiter == INSTANCE RateLimiter
Feed == INSTANCE LiveFeed
Connection == INSTANCE Pool
Reading == INSTANCE Snapshot
Lists == INSTANCE Polling

limiterVars == <<now, buckets, answer, served>>
feedVars == <<feed, valid, conn, up, fails, faults>>
connectionVars == <<owner, at>>
readingVars == <<counter, pc, job, wg, stored, errors, sample, usage, moves, backwards>>
listsVars == <<data, shown, fetch, life, interval, errs>>

AllInit ==
  /\ part \in {"peers", "limiter", "feed", "connection", "reading", "lists"}
  /\ Init /\ Limiter!Init /\ Feed!Init /\ Connection!Init /\ Reading!Init /\ Lists!Init
  /\ part # "limiter" => answer[1] = CHOOSE c \in Clients : TRUE
  /\ part # "reading" => counter = [f \in Reading!Fields |-> 0]

AllNext ==
  /\ UNCHANGED part
  /\ IF part = "peers" THEN Next ELSE UNCHANGED vars
  /\ IF part = "limiter" THEN Limiter!Next ELSE UNCHANGED limiterVars
  /\ IF part = "feed" THEN Feed!Next ELSE UNCHANGED feedVars
  /\ IF part = "connection" THEN Connection!Next ELSE UNCHANGED connectionVars
  /\ IF part = "reading" THEN Reading!Next ELSE UNCHANGED readingVars
  /\ IF part = "lists" THEN Lists!Next ELSE UNCHANGED listsVars

allVars == <<part, vars, limiterVars, feedVars, connectionVars, readingVars, listsVars>>

AllSpec ==
  /\ AllInit /\ [][AllNext]_allVars
  /\ Fairness /\ Feed!Fairness /\ Connection!Fairness /\ Lists!Fairness

-----------------------------------------------------------------------------
(* The properties of the other parts, which are stated and explained in     *)
(* their modules, under names that a .cfg can give.                        *)
FeedTypeOK == Feed!TypeOK
QuietOnceDestroyed == Feed!QuietOnceDestroyed
GivesUpLate == Feed!GivesUpLate
ServerLetsGo == Feed!ServerLetsGo
Recovers == Feed!Recovers
SnapshotWhole == Reading!SnapshotWhole
UsageIsDifference == Reading!UsageIsDifference
CatchesUp == Lists!CatchesUp
=============================================================================
