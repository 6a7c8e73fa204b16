------------------------------ MODULE MCStorage -------------------------------
(***************************************************************************)
(* Instances for TLC of the parts that keep something in files or in the   *)
(* browser's storage: the start of the program, the identity of this node  *)
(* and the session of the dashboard.  They share none of it, so that a     *)
(* behaviour is one of one part, the others resting in their initial       *)
(* state, where none of them has a fair action to take.                    *)
(***************************************************************************)
EXTENDS MCStartup

CONSTANTS
  Askers, Values, Absent, MaxStops,                         (* NodeIdentity  *)
  Requests, Tokens, HasClaims                               (* ClientSession *)

(* What is absent or empty is no key, and no token is None.                *)
ASSUME StorageAssumption ==
  Absent \notin Values /\ Absent # Empty /\ None \notin Tokens

VARIABLES
  part,                                                     (* which moves   *)
  disk, ask, used, told, raced, lost, stops,
  store, req, holds, spent, stale, out, mishap

Identity == INSTANCE NodeIdentity WITH failed <- lost
Session == INSTANCE ClientSession

identityVars == <<disk, ask, used, told, raced, lost, stops>>
sessionVars == <<store, req, holds, spent, stale, out, mishap>>

AllInit ==
  /\ part \in {"startup", "identity", "session"}
  /\ Init /\ Identity!Init /\ Session!Init

AllNext ==
  /\ UNCHANGED part
  /\ IF part = "startup" THEN Next ELSE UNCHANGED vars
  /\ IF part = "identity" THEN Identity!Next ELSE UNCHANGED identityVars
  /\ IF part = "session" THEN Session!Next ELSE UNCHANGED sessionVars

allVars == <<part, vars, identityVars, sessionVars>>

AllSpec == AllInit /\ [][AllNext]_allVars /\ Fairness

-----------------------------------------------------------------------------
(* The properties of the parts, which are stated and explained in their     *)
(* modules, under names that a .cfg can give.                              *)
OneIdentity == Identity!OneIdentity
KeyBehindIdentity == Identity!KeyBehindIdentity
NothingLost == Session!NothingLost
LogoutIsFinal == Session!LogoutIsFinal
NoBlindRetry == Session!NoBlindRetry
=============================================================================
