------------------------------ MODULE TokenChain ------------------------------
(***************************************************************************)
(* What the session table promises about refresh tokens, whatever the      *)
(* interleaving of the requests that read and write it: a session holds    *)
(* one token at a time, a token belongs to one session for ever, and a     *)
(* token that has been replaced, revoked or never stored is dead.          *)
(***************************************************************************)
CONSTANTS Tokens,   (* refresh tokens, fresh random values                  *)
          None      (* no token; not one of Tokens                          *)

VARIABLES holds,    (* session -> the token it accepts; a session is named  *)
                    (* by the first token it held                           *)
          spent     (* tokens handed out that no session accepts any more   *)

chainVars == <<holds, spent>>

Accepted == {holds[s] : s \in Tokens} \ {None}

(* A random value that no session has or has ever had.                     *)
Fresh(t) == t \notin spent /\ t \notin Accepted

Init == holds = [s \in Tokens |-> None] /\ spent = {}

Open(t) ==
  /\ Fresh(t)
  /\ holds[t] = None
  /\ holds' = [holds EXCEPT ![t] = t]
  /\ UNCHANGED spent

Renew(s, t) ==
  /\ holds[s] # None
  /\ Fresh(t)
  /\ holds' = [holds EXCEPT ![s] = t]
  /\ spent' = spent \cup {holds[s]}

(* One statement may close several sessions: a user's, on a delete.        *)
Close(S) ==
  /\ \A s \in S : holds[s] # None
  /\ holds' = [s \in Tokens |-> IF s \in S THEN None ELSE holds[s]]
  /\ spent' = spent \cup {holds[s] : s \in S}

(* A token made for a session that is gone by the time it is to be stored. *)
Waste(t) == Fresh(t) /\ spent' = spent \cup {t} /\ UNCHANGED holds

Next ==
  \/ \E t \in Tokens : Open(t) \/ Waste(t)
  \/ \E s, t \in Tokens : Renew(s, t)
  \/ \E S \in SUBSET Tokens : Close(S)

Spec == Init /\ [][Next]_chainVars

-----------------------------------------------------------------------------
(* No token opens two sessions, and no session accepts a dead token.       *)
OneSessionPerToken ==
  /\ \A s, t \in Tokens : holds[s] = holds[t] /\ holds[s] # None => s = t
  /\ Accepted \cap spent = {}
=============================================================================
