--------------------------------- MODULE Pool ----------------------------------
(***************************************************************************)
(* The one database connection (internal/db/db.go:24, SetMaxOpenConns(1)), *)
(* which every statement of every handler takes and gives back: Exec and   *)
(* QueryRow when they return, the rows of a list handler when the last one *)
(* has been read.  A statement that finds it taken waits without a limit.  *)
(***************************************************************************)
EXTENDS Naturals, PoolState

CONSTANT MaxRows   (* bound: rows of a list                                  *)

vars == <<owner, at>>

Resting == [pc |-> "idle", list |-> FALSE, left |-> 0]

Init == owner = Nobody /\ at = [h \in Handlers |-> Resting]

-----------------------------------------------------------------------------
Go(h, pc) == at' = [at EXCEPT ![h].pc = pc]

Begin(h) ==
  /\ at[h].pc = "idle"
  /\ \E list \in BOOLEAN : at' = [at EXCEPT ![h].pc = "waits", ![h].list = list]
  /\ UNCHANGED owner

Acquire(h) ==
  /\ at[h].pc = "waits" /\ owner = Nobody
  /\ owner' = h
  /\ IF at[h].list
     THEN \E n \in 0..MaxRows : at' = [at EXCEPT ![h].pc = "rows", ![h].left = n]
     ELSE Go(h, "statement")

(* The statement ends; the handler runs another one, replies or panics.    *)
Release(h) ==
  /\ at[h].pc = "statement"
  /\ owner' = Nobody
  /\ Go(h, "waits") \/ Go(h, "replies") \/ at' = [at EXCEPT ![h] = Resting]

(* Mutant: a handler looks something up for each row.                      *)
LookUpPerRow(h) ==
  /\ at[h].pc = "rows" /\ at[h].left > 0
  /\ at' = [at EXCEPT ![h].left = @ - 1, ![h].pc = "waits", ![h].list = FALSE]
  /\ UNCHANGED owner

(* rows.Next() and Scan; a row that cannot be scanned is skipped.          *)
NextRow(h) ==
  /\ at[h].pc = "rows" /\ at[h].left > 0
  /\ at' = [at EXCEPT ![h].left = @ - 1]
  /\ UNCHANGED owner

(* Mutant: the loop is left early, and the deferred Close comes after the  *)
(* reply.                                                                  *)
CloseDeferred(h) ==
  /\ at[h].pc = "rows" /\ at[h].left = 0
  /\ Go(h, "replies")
  /\ UNCHANGED owner

(* rows.Next() returns false and closes the rows, before the reply; the    *)
(* deferred Close does nothing more.                                       *)
LastRow(h) ==
  /\ at[h].pc = "rows" /\ at[h].left = 0
  /\ owner' = Nobody
  /\ Go(h, "replies")

(* The reply is written to a client that may take its time to read it.     *)
Replied(h) ==
  /\ at[h].pc = "replies"
  /\ at' = [at EXCEPT ![h] = Resting]
  /\ owner' = IF owner = h THEN Nobody ELSE owner

Next ==
  \E h \in Handlers :
    Begin(h) \/ Acquire(h) \/ Release(h) \/ NextRow(h) \/ LastRow(h) \/ Replied(h)

(* Statements end; a waiting handler is not passed over for ever.  No      *)
(* client has to read its reply.                                           *)
Fairness ==
  \A h \in Handlers :
    SF_vars(Acquire(h)) /\ WF_vars(Release(h)) /\ WF_vars(NextRow(h)) /\ WF_vars(LastRow(h))

Spec == Init /\ [][Next]_vars /\ Fairness
=============================================================================
