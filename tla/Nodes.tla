-------------------------------- MODULE Nodes ---------------------------------
(***************************************************************************)
(* Communication nodes (api/handlers/communication.go): the registry of    *)
(* peers, what was decided about each, and pings, which ask a peer and     *)
(* write the answer up to five seconds after the row was read.             *)
(*                                                                         *)
(* A worker is a request, an action one SQL statement or the end of the    *)
(* HTTP request to the peer.  Audit rows, which nothing below reads, are   *)
(* left out; the statements that write them are not.                       *)
(***************************************************************************)
EXTENDS Naturals

CONSTANTS
  Ids,              (* AUTOINCREMENT ids of rows, never reused               *)
  Keys,             (* fingerprints of the peers' public keys                *)
  Workers,          (* requests served at the same time                      *)
  None,             (* an absent row, nil                                    *)
  RouterKey,        (* the context key requireRole stores the claims under   *)
  HandlerKey        (* the context key claimsFromCtx reads                   *)

Verdicts == {"online", "offline"}

NodeRow == [key : Keys, trusted : BOOLEAN, status : Verdicts \cup {"unknown"}]
Request == [pc : {"idle", "panicked", "audit", "ping_get", "ping_update"},
            id : Ids \cup {None}, verdict : Verdicts \cup {None}]

ASSUME NodeAssumption == None \notin NodeRow /\ None \notin Verdicts /\ None \notin Ids

Idle == [pc |-> "idle", id |-> None, verdict |-> None]

VARIABLES
  nodes,    (* the table communication_nodes                                 *)
  born,     (* its AUTOINCREMENT sequence: the ids given so far              *)
  req,      (* the request each worker is serving                            *)
  vetted,   (* history: the ids whose last decision was to trust them        *)
  answers   (* history: <<id, verdict>> of the pings of the record so far    *)

vars == <<nodes, born, req, vetted, answers>>

TypeOK ==
  /\ nodes \in [Ids -> NodeRow \cup {None}] /\ born \subseteq Ids
  /\ req \in [Workers -> Request]
  /\ vetted \subseteq Ids /\ answers \subseteq Ids \X Verdicts

Init ==
  /\ nodes = [n \in Ids |-> None] /\ born = {}
  /\ req = [w \in Workers |-> Idle]
  /\ vetted = {} /\ answers = {}

-----------------------------------------------------------------------------
(* AddNode uses the claims as a parameter of its INSERT, the others after  *)
(* their UPDATE or DELETE; reading nil claims panics.                      *)

HasClaims == HandlerKey = RouterKey

Free(w) == req[w].pc \in {"idle", "panicked"}
Serve(w, r) == req' = [req EXCEPT ![w] = r]
Conclude(w) ==
  Serve(w, [Idle EXCEPT !.pc = IF HasClaims THEN "audit" ELSE "panicked"])

(* UPDATE ... WHERE id = n: no row, no effect.                             *)
UpdateRow(n, row) == nodes' = IF nodes[n] = None THEN nodes ELSE [nodes EXCEPT ![n] = row]

(* Answered before a statement that writes: a malformed body, an empty     *)
(* field, a ping of a row that is not there; and the reads.                *)
Refuse(w) == Free(w) /\ UNCHANGED vars

(* Mutant: a primary key without AUTOINCREMENT.                            *)
IdsNotInUse == {n \in Ids : nodes[n] = None}

UnusedIds == Ids \ born

(* UNIQUE, whatever has been decided about the record that has the key.    *)
Registered(key) == \E n \in Ids : nodes[n] # None /\ nodes[n].key = key

AddNode(w, key) ==
  /\ Free(w)
  /\ IF HasClaims /\ ~Registered(key)
     THEN \E n \in UnusedIds :
            /\ nodes' = [nodes EXCEPT ![n] =
                 [key |-> key, trusted |-> FALSE, status |-> "unknown"]]
            /\ born' = born \cup {n}
            /\ answers' = answers \ ({n} \X Verdicts)
     ELSE UNCHANGED <<nodes, born, answers>>
  /\ IF HasClaims /\ Registered(key) THEN Serve(w, Idle) ELSE Conclude(w)
  /\ UNCHANGED vetted

(* A decision names an id from a list the administrator was once shown.    *)
TrustNode(w, n) ==
  /\ Free(w)
  /\ UpdateRow(n, [nodes[n] EXCEPT !.trusted = TRUE])
  /\ vetted' = vetted \cup {n}
  /\ Conclude(w)
  /\ UNCHANGED <<born, answers>>

RevokeNode(w, n) ==
  /\ Free(w)
  /\ UpdateRow(n, [nodes[n] EXCEPT !.trusted = FALSE, !.status = "unknown"])
  /\ vetted' = vetted \ {n}
  /\ Conclude(w)
  /\ UNCHANGED <<born, answers>>

DeleteNode(w, n) ==
  /\ Free(w)
  /\ nodes' = [nodes EXCEPT ![n] = None]
  /\ Conclude(w)
  /\ UNCHANGED <<born, vetted, answers>>

Audit(w) ==
  /\ req[w].pc = "audit" /\ Serve(w, Idle)
  /\ UNCHANGED <<nodes, born, vetted, answers>>

-----------------------------------------------------------------------------
(* Ping: SELECT, GET /api/health, UPDATE.  It needs no claims.             *)

PingSelect(w, n) ==
  /\ Free(w) /\ nodes[n] # None
  /\ Serve(w, [pc |-> "ping_get", id |-> n, verdict |-> None])
  /\ UNCHANGED <<nodes, born, vetted, answers>>

PingGot(w, verdict) ==
  /\ req[w].pc = "ping_get"
  /\ Serve(w, [req[w] EXCEPT !.pc = "ping_update", !.verdict = verdict])
  /\ answers' = answers \cup {<<req[w].id, verdict>>}
  /\ UNCHANGED <<nodes, born, vetted>>

(* The peer answers, with a 5xx or otherwise, or refuses; it need not.     *)
PeerAnswers(w) == \E verdict \in Verdicts : PingGot(w, verdict)

(* Mutant: a client whose time limit covers the connection only.           *)
PingConnectTimeout(w) == req[w].verdict # None /\ PingGot(w, "offline")

(* Mutant: the status is left without a value when the request fails.      *)
PingTimeoutUnset(w) == PingGot(w, None)

PingTimeout(w) == PingGot(w, "offline")

(* Mutant: a row that is not there is written anew.                        *)
PingUpsert(w) ==
  LET n == req[w].id
      row == IF nodes[n] = None
             THEN [key |-> CHOOSE k \in Keys : TRUE, trusted |-> FALSE, status |-> "unknown"]
             ELSE nodes[n]
  IN /\ req[w].pc = "ping_update"
     /\ nodes' = [nodes EXCEPT ![n] = [row EXCEPT !.status = req[w].verdict]]
     /\ Serve(w, Idle)
     /\ UNCHANGED <<born, vetted, answers>>

PingUpdate(w) ==
  LET n == req[w].id
  IN /\ req[w].pc = "ping_update"
     /\ UpdateRow(n, [nodes[n] EXCEPT !.status = req[w].verdict])
     /\ Serve(w, Idle)
     /\ UNCHANGED <<born, vetted, answers>>

(* The server stops, with its requests, and starts again.                  *)
Restart ==
  /\ req' = [w \in Workers |-> Idle]
  /\ UNCHANGED <<nodes, born, vetted, answers>>

Receive(w) ==
  \/ Refuse(w)
  \/ \E k \in Keys : AddNode(w, k)
  \/ \E n \in born : TrustNode(w, n) \/ RevokeNode(w, n) \/ DeleteNode(w, n) \/ PingSelect(w, n)

Next ==
  \/ \E w \in Workers :
       Receive(w) \/ Audit(w) \/ PeerAnswers(w) \/ PingTimeout(w) \/ PingUpdate(w)
  \/ Restart

(* Requests are scheduled and clocks run; peers need not answer.           *)
Fairness ==
  \A w \in Workers :
    WF_vars(Audit(w)) /\ WF_vars(PingTimeout(w)) /\ WF_vars(PingUpdate(w))

Spec == Init /\ [][Next]_vars /\ Fairness

-----------------------------------------------------------------------------
(* A peer is trusted exactly if trusting it was the last decision about    *)
(* that record: nothing a ping writes late, no deletion and no new         *)
(* registration of its key moves trust (communication.go:217, 228, 238,    *)
(* 285).                                                                   *)
TrustIsLastDecision ==
  \A n \in Ids : nodes[n] # None => (nodes[n].trusted <=> n \in vetted)

(* The status shown for a peer is one that a ping of this very record      *)
(* found: a ping that outlives the record it asked about never marks       *)
(* another (db.go:208, communication.go:285).                              *)
StatusWasAnswered ==
  \A n \in Ids : nodes[n] # None /\ nodes[n].status # "unknown" =>
    <<n, nodes[n].status>> \in answers

(* Whatever the peer does, a ping comes to its UPDATE or the server stops  *)
(* (communication.go:265, transport.go:16).                                *)
PingsEnd == \A w \in Workers : req[w].pc = "ping_get" ~> Free(w)
=============================================================================
