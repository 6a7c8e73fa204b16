------------------------------- MODULE PoolState --------------------------------
(***************************************************************************)
(* Who has the one database connection and who waits for it, and what is   *)
(* promised of that.                                                       *)
(***************************************************************************)
CONSTANTS
  Handlers,    (* requests served at the same time                           *)
  Nobody       (* the connection is free                                     *)

VARIABLES
  owner,       (* who has the connection                                     *)
  at           (* what each handler does, and the rows left to read          *)

(* No handler waits for the connection that it has itself: with one        *)
(* connection that would stop the server (security.go:254-290).            *)
NoSelfWait == owner # Nobody => at[owner].pc # "waits"

(* Every statement gets the connection, though no client reads its reply.  *)
StatementsRun == \A h \in Handlers : at[h].pc = "waits" ~> at[h].pc # "waits"
=============================================================================
