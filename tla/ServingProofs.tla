---------------------------- MODULE ServingProofs -----------------------------
(***************************************************************************)
(* The invariants of the parts that work while the server serves, each of  *)
(* its own specification: the peers, for any number of peers, requests and *)
(* pings in flight; the database connection, for any number of handlers    *)
(* and rows; the live feed, for any number of connections, attempts and    *)
(* faults; a snapshot, for any number of parts and any width of counter.   *)
(***************************************************************************)
EXTENDS MCServing, FiniteSetTheorems, TLAPS

-----------------------------------------------------------------------------
(* The peers.                                                              *)

(* A ping has the id of a record that was there, and writes what a ping of *)
(* that record found.                                                      *)
PingsSound ==
  \A w \in Workers :
    /\ req[w].pc \in {"ping_get", "ping_update"} => req[w].id \in born
    /\ req[w].pc = "ping_update" =>
         req[w].verdict \in Verdicts /\ <<req[w].id, req[w].verdict>> \in answers

(* An id that was never given has no row and no decision.                  *)
RowsBorn == vetted \subseteq born /\ \A n \in Ids : nodes[n] # None => n \in born

PeerInv == TypeOK /\ PingsSound /\ RowsBorn /\ TrustIsLastDecision /\ StatusWasAnswered

LEMMA InitPeers == Init => PeerInv
BY NodeAssumption
   DEF Init, PeerInv, TypeOK, PingsSound, RowsBorn, TrustIsLastDecision, StatusWasAnswered,
       Idle, Request

(* A request that ends, or goes on to its audit row, is no ping.           *)
LEMMA ConcludeServes ==
  ASSUME NEW w \in Workers, Conclude(w) \/ Serve(w, Idle), TypeOK
  PROVE  /\ req' \in [Workers -> Request]
         /\ req'[w].pc \notin {"ping_get", "ping_update"}
         /\ \A v \in Workers \ {w} : req'[v] = req[v]
<1>1. /\ Idle \in Request
      /\ \A step \in {"audit", "panicked"} : [Idle EXCEPT !.pc = step] \in Request
  BY DEF Idle, Request
<1> QED
  BY <1>1 DEF Conclude, Serve, TypeOK, Idle

LEMMA AddKeeps ==
  ASSUME PeerInv, NEW w \in Workers, NEW key \in Keys, AddNode(w, key)
  PROVE  PeerInv'
<1> USE DEF PeerInv
<1>1. /\ req' \in [Workers -> Request]
      /\ req'[w].pc \notin {"ping_get", "ping_update"}
      /\ \A v \in Workers \ {w} : req'[v] = req[v]
  BY ConcludeServes DEF AddNode
<1>2. vetted' = vetted
  BY DEF AddNode
<1>3. CASE ~(HasClaims /\ ~Registered(key))
  <2>1. UNCHANGED <<nodes, born, answers>>
    BY <1>3 DEF AddNode
  <2> QED
    BY <1>1, <1>2, <2>1
       DEF TypeOK, PingsSound, RowsBorn, TrustIsLastDecision, StatusWasAnswered
<1>4. CASE HasClaims /\ ~Registered(key)
  <2>1. PICK n \in UnusedIds :
          /\ nodes' = [nodes EXCEPT ![n] =
               [key |-> key, trusted |-> FALSE, status |-> "unknown"]]
          /\ born' = born \cup {n}
          /\ answers' = answers \ ({n} \X Verdicts)
    BY <1>4 DEF AddNode
  <2>2. n \in Ids /\ n \notin born /\ n \notin vetted
    BY DEF UnusedIds, RowsBorn
  <2>3. /\ nodes' \in [Ids -> NodeRow \cup {None}]
        /\ ~nodes'[n].trusted /\ nodes'[n].status = "unknown"
        /\ \A m \in Ids \ {n} : nodes'[m] = nodes[m]
    BY <2>1, <2>2 DEF TypeOK, NodeRow
  <2>4. \A m \in Ids \ {n}, v \in Verdicts : <<m, v>> \in answers => <<m, v>> \in answers'
    BY <2>1
  <2>5. TypeOK'
    BY <1>1, <1>2, <2>1, <2>2, <2>3 DEF TypeOK
  <2>6. PingsSound'
    <3> SUFFICES ASSUME NEW v \in Workers, req'[v].pc \in {"ping_get", "ping_update"}
                 PROVE  /\ req'[v].id \in born'
                        /\ req'[v].pc = "ping_update" =>
                             /\ req'[v].verdict \in Verdicts
                             /\ <<req'[v].id, req'[v].verdict>> \in answers'
      BY DEF PingsSound
    <3>1. req'[v] = req[v]
      BY <1>1
    <3>2. req[v].id \in Ids \ {n}
      BY <2>2, <3>1 DEF PingsSound, TypeOK
    <3> QED
      BY <2>1, <2>4, <3>1, <3>2 DEF PingsSound
  <2>7. RowsBorn'
    BY <1>2, <2>1, <2>3 DEF RowsBorn
  <2>8. TrustIsLastDecision'
    BY <1>2, <2>2, <2>3 DEF TrustIsLastDecision
  <2>9. StatusWasAnswered'
    <3> SUFFICES ASSUME NEW m \in Ids, nodes'[m] # None, nodes'[m].status # "unknown"
                 PROVE  <<m, nodes'[m].status>> \in answers'
      BY DEF StatusWasAnswered
    <3>1. m # n /\ nodes'[m] = nodes[m] /\ nodes[m].status \in Verdicts
      BY <2>3 DEF TypeOK, NodeRow
    <3> QED
      BY <2>4, <3>1 DEF StatusWasAnswered
  <2> QED
    BY <2>5, <2>6, <2>7, <2>8, <2>9
<1> QED
  BY <1>3, <1>4

LEMMA DecisionKeeps ==
  ASSUME PeerInv, NEW w \in Workers, NEW n \in born,
         TrustNode(w, n) \/ RevokeNode(w, n) \/ DeleteNode(w, n)
  PROVE  PeerInv'
<1> USE DEF PeerInv
<1>1. /\ req' \in [Workers -> Request]
      /\ req'[w].pc \notin {"ping_get", "ping_update"}
      /\ \A v \in Workers \ {w} : req'[v] = req[v]
      /\ UNCHANGED <<born, answers>>
  BY ConcludeServes DEF TrustNode, RevokeNode, DeleteNode
<1>2. n \in Ids
  BY DEF TypeOK
<1>3. PingsSound'
  BY <1>1 DEF PingsSound
<1>4. CASE TrustNode(w, n)
  <2>1. nodes[n] # None => [nodes[n] EXCEPT !.trusted = TRUE] \in NodeRow
    BY <1>2 DEF TypeOK, NodeRow
  <2>2. /\ nodes' \in [Ids -> NodeRow \cup {None}]
        /\ vetted' = vetted \cup {n}
        /\ \A m \in Ids : nodes'[m] # None =>
             /\ nodes[m] # None /\ nodes'[m].status = nodes[m].status
             /\ nodes'[m].trusted = (nodes[m].trusted \/ m = n)
    BY <1>2, <1>4, <2>1 DEF TrustNode, UpdateRow, TypeOK, NodeRow
  <2> QED
    BY <1>1, <1>2, <1>3, <2>2
       DEF TypeOK, RowsBorn, TrustIsLastDecision, StatusWasAnswered
<1>5. CASE RevokeNode(w, n)
  <2>1. nodes[n] # None => [nodes[n] EXCEPT !.trusted = FALSE, !.status = "unknown"] \in NodeRow
    BY <1>2 DEF TypeOK, NodeRow
  <2>2. /\ nodes' \in [Ids -> NodeRow \cup {None}]
        /\ vetted' = vetted \ {n}
        /\ \A m \in Ids : nodes'[m] # None =>
             /\ nodes[m] # None /\ nodes'[m].status \in {nodes[m].status, "unknown"}
             /\ nodes'[m].trusted = (nodes[m].trusted /\ m # n)
    BY <1>2, <1>5, <2>1 DEF RevokeNode, UpdateRow, TypeOK, NodeRow
  <2> QED
    BY <1>1, <1>2, <1>3, <2>2
       DEF TypeOK, RowsBorn, TrustIsLastDecision, StatusWasAnswered
<1>6. CASE DeleteNode(w, n)
  <2>1. /\ nodes' \in [Ids -> NodeRow \cup {None}] /\ vetted' = vetted
        /\ \A m \in Ids : nodes'[m] # None => nodes'[m] = nodes[m]
    BY <1>2, <1>6 DEF DeleteNode, TypeOK
  <2> QED
    BY <1>1, <1>2, <1>3, <2>1
       DEF TypeOK, RowsBorn, TrustIsLastDecision, StatusWasAnswered
<1> QED
  BY <1>4, <1>5, <1>6

LEMMA AuditKeeps ==
  ASSUME PeerInv, NEW w \in Workers, Audit(w)
  PROVE  PeerInv'
<1> USE DEF PeerInv
<1>1. /\ req' \in [Workers -> Request]
      /\ req'[w].pc \notin {"ping_get", "ping_update"}
      /\ \A v \in Workers \ {w} : req'[v] = req[v]
      /\ UNCHANGED <<nodes, born, vetted, answers>>
  BY ConcludeServes DEF Audit
<1> QED
  BY <1>1 DEF TypeOK, PingsSound, RowsBorn, TrustIsLastDecision, StatusWasAnswered

LEMMA PingKeeps ==
  ASSUME PeerInv, NEW w \in Workers,
         \/ \E n \in born : PingSelect(w, n)
         \/ \E verdict \in Verdicts : PingGot(w, verdict)
  PROVE  PeerInv'
<1> USE DEF PeerInv
<1>1. UNCHANGED <<nodes, born, vetted>>
  BY DEF PingSelect, PingGot
<1>2. CASE \E n \in born : PingSelect(w, n)
  <2>1. PICK n \in born : Serve(w, [pc |-> "ping_get", id |-> n, verdict |-> None])
                          /\ answers' = answers
    BY <1>2 DEF PingSelect
  <2>2. [pc |-> "ping_get", id |-> n, verdict |-> None] \in Request
    BY DEF Request, TypeOK
  <2>3. req' \in [Workers -> Request] /\ PingsSound'
    BY <1>1, <2>1, <2>2 DEF Serve, TypeOK, PingsSound
  <2> QED
    BY <1>1, <2>1, <2>3 DEF TypeOK, RowsBorn, TrustIsLastDecision, StatusWasAnswered
<1>3. CASE \E verdict \in Verdicts : PingGot(w, verdict)
  <2>1. PICK verdict \in Verdicts :
          /\ req[w].pc = "ping_get"
          /\ Serve(w, [req[w] EXCEPT !.pc = "ping_update", !.verdict = verdict])
          /\ answers' = answers \cup {<<req[w].id, verdict>>}
    BY <1>3 DEF PingGot
  <2>2. /\ req[w] \in Request /\ req[w].id \in born /\ req[w].id \in Ids
        /\ [req[w] EXCEPT !.pc = "ping_update", !.verdict = verdict] \in Request
    BY <2>1 DEF TypeOK, PingsSound, Request
  <2>3. /\ req' \in [Workers -> Request]
        /\ req'[w].id = req[w].id /\ req'[w].verdict = verdict
        /\ \A v \in Workers \ {w} : req'[v] = req[v]
    BY <2>1, <2>2 DEF Serve, TypeOK, Request
  <2>4. PingsSound'
    BY <1>1, <2>1, <2>2, <2>3 DEF PingsSound
  <2>5. StatusWasAnswered' /\ answers' \subseteq Ids \X Verdicts
    BY <1>1, <2>1, <2>2 DEF StatusWasAnswered, TypeOK
  <2> QED
    BY <1>1, <2>3, <2>4, <2>5 DEF TypeOK, RowsBorn, TrustIsLastDecision
<1> QED
  BY <1>2, <1>3

(* The late write: it touches no other column, and no row that was not     *)
(* asked about.                                                            *)
LEMMA PingUpdateKeeps ==
  ASSUME PeerInv, NEW w \in Workers, PingUpdate(w)
  PROVE  PeerInv'
<1> USE DEF PeerInv
<1> DEFINE n == req[w].id
<1>1. /\ n \in Ids /\ n \in born /\ req[w].verdict \in Verdicts
      /\ <<n, req[w].verdict>> \in answers
      /\ UpdateRow(n, [nodes[n] EXCEPT !.status = req[w].verdict])
      /\ UNCHANGED <<born, vetted, answers>>
  BY DEF PingUpdate, PingsSound, TypeOK
<1>2. /\ req' \in [Workers -> Request]
      /\ req'[w].pc \notin {"ping_get", "ping_update"}
      /\ \A v \in Workers \ {w} : req'[v] = req[v]
  BY ConcludeServes DEF PingUpdate
<1>3. nodes[n] # None => [nodes[n] EXCEPT !.status = req[w].verdict] \in NodeRow
  BY <1>1 DEF TypeOK, NodeRow
<1>4. /\ nodes' \in [Ids -> NodeRow \cup {None}]
      /\ \A m \in Ids \ {n} : nodes'[m] = nodes[m]
      /\ nodes'[n] # None => /\ nodes[n] # None /\ nodes'[n].trusted = nodes[n].trusted
                             /\ nodes'[n].status = req[w].verdict
  BY <1>1, <1>3 DEF UpdateRow, TypeOK, NodeRow
<1>5. TypeOK' /\ PingsSound' /\ RowsBorn'
  BY <1>1, <1>2, <1>4 DEF TypeOK, PingsSound, RowsBorn
<1>6. TrustIsLastDecision'
  BY <1>1, <1>4 DEF TrustIsLastDecision
<1>7. StatusWasAnswered'
  BY <1>1, <1>4 DEF StatusWasAnswered
<1> QED
  BY <1>5, <1>6, <1>7

LEMMA RestartKeeps ==
  ASSUME PeerInv, Restart
  PROVE  PeerInv'
<1>1. Idle \in Request /\ \A w \in Workers : req'[w] = Idle
  BY DEF Restart, Idle, Request
<1> QED
  BY <1>1 DEF Restart, PeerInv, TypeOK, PingsSound, RowsBorn, TrustIsLastDecision,
              StatusWasAnswered, Idle

LEMMA NextKeeps == PeerInv /\ [Next]_vars => PeerInv'
<1> SUFFICES ASSUME PeerInv, [Next]_vars
             PROVE  PeerInv'
  OBVIOUS
<1>1. CASE UNCHANGED vars
  BY <1>1 DEF vars, PeerInv, TypeOK, PingsSound, RowsBorn, TrustIsLastDecision,
              StatusWasAnswered
<1>2. ASSUME NEW w \in Workers, Receive(w)
      PROVE  PeerInv'
  <2>1. CASE Refuse(w)
    BY <1>1, <2>1 DEF Refuse
  <2>2. CASE \E k \in Keys : AddNode(w, k)
    BY <2>2, AddKeeps
  <2>3. CASE \E n \in born : TrustNode(w, n) \/ RevokeNode(w, n) \/ DeleteNode(w, n)
    BY <2>3, DecisionKeeps
  <2>4. CASE \E n \in born : PingSelect(w, n)
    BY <2>4, PingKeeps
  <2> QED
    BY <1>2, <2>1, <2>2, <2>3, <2>4 DEF Receive
<1>3. ASSUME NEW w \in Workers, Audit(w) \/ PeerAnswers(w) \/ PingTimeout(w) \/ PingUpdate(w)
      PROVE  PeerInv'
  BY <1>3, AuditKeeps, PingKeeps, PingUpdateKeeps DEF PeerAnswers, PingTimeout, Verdicts
<1>4. CASE Restart
  BY <1>4, RestartKeeps
<1> QED
  BY <1>1, <1>2, <1>3, <1>4 DEF Next

(* Trust in a peer is what an administrator last decided about its record, *)
(* with pings of it in flight, deletions and registrations of the same key *)
(* (communication.go:217, 228, 238, 285).                                  *)
THEOREM TrustIsDecided == Spec => []TrustIsLastDecision
<1>1. Spec => []PeerInv
  BY InitPeers, NextKeeps, PTL DEF Spec
<1>2. PeerInv => TrustIsLastDecision
  BY DEF PeerInv
<1> QED
  BY <1>1, <1>2, PTL

(* A peer is shown online or offline only if a ping of its own record      *)
(* found it so (db.go:208, communication.go:285).                          *)
THEOREM StatusIsOwn == Spec => []StatusWasAnswered
<1>1. Spec => []PeerInv
  BY InitPeers, NextKeeps, PTL DEF Spec
<1>2. PeerInv => StatusWasAnswered
  BY DEF PeerInv
<1> QED
  BY <1>1, <1>2, PTL

(* The registry and every request in flight keep their types, whatever    *)
(* pings write late (communication.go:246-295).                            *)
THEOREM PeersTyped == Spec => []TypeOK
<1>1. Spec => []PeerInv
  BY InitPeers, NextKeeps, PTL DEF Spec
<1>2. PeerInv => TypeOK
  BY DEF PeerInv
<1> QED
  BY <1>1, <1>2, PTL
-----------------------------------------------------------------------------
(* The database connection.                                                *)

(* Whoever uses the connection has it, and whoever has it uses it.         *)
Uses(h) == at[h].pc \in {"statement", "rows"}

AtType == at \in [Handlers -> [pc : {"idle", "waits", "statement", "rows", "replies"},
                               list : BOOLEAN, left : Nat]]

OwnerUses ==
  /\ owner \in Handlers \cup {Nobody}
  /\ \A h \in Handlers : Uses(h) <=> owner = h

PoolInv == AtType /\ OwnerUses

LEMMA PoolInit == Connection!Init => PoolInv
BY ServingAssumption DEF Connection!Init, PoolInv, AtType, OwnerUses, Uses, Connection!Resting

LEMMA PoolNext == PoolInv /\ [Connection!Next]_(Connection!vars) => PoolInv'
<1> SUFFICES ASSUME PoolInv, [Connection!Next]_(Connection!vars) PROVE PoolInv'
  OBVIOUS
<1> USE ServingAssumption DEF PoolInv, AtType, OwnerUses, Uses
<1>1. ASSUME NEW h \in Handlers, Connection!Begin(h) PROVE PoolInv'
  <2>1. PICK list \in BOOLEAN : at' = [at EXCEPT ![h].pc = "waits", ![h].list = list]
    BY <1>1 DEF Connection!Begin
  <2>2. at' = [at EXCEPT ![h] = [at[h] EXCEPT !.pc = "waits", !.list = list]]
    BY <2>1
  <2> QED
    BY <1>1, <2>2 DEF Connection!Begin
<1>2. ASSUME NEW h \in Handlers, Connection!Acquire(h) PROVE PoolInv'
  <2>1. CASE at[h].list
    BY <1>2, <2>1 DEF Connection!Acquire
  <2>2. CASE ~at[h].list
    BY <1>2, <2>2 DEF Connection!Acquire, Connection!Go
  <2> QED
    BY <2>1, <2>2
<1>3. ASSUME NEW h \in Handlers, Connection!Release(h) PROVE PoolInv'
  <2>1. PICK row \in [pc : {"idle", "waits", "replies"}, list : BOOLEAN, left : Nat] :
          at' = [at EXCEPT ![h] = row]
    BY <1>3 DEF Connection!Release, Connection!Go, Connection!Resting
  <2> QED
    BY <1>3, <2>1 DEF Connection!Release
<1>4. ASSUME NEW h \in Handlers, Connection!NextRow(h) PROVE PoolInv'
  BY <1>4 DEF Connection!NextRow
<1>5. ASSUME NEW h \in Handlers, Connection!LastRow(h) PROVE PoolInv'
  BY <1>5 DEF Connection!LastRow, Connection!Go
<1>6. ASSUME NEW h \in Handlers, Connection!Replied(h) PROVE PoolInv'
  BY <1>6 DEF Connection!Replied, Connection!Resting
<1>7. CASE UNCHANGED Connection!vars
  BY <1>7 DEF Connection!vars
<1> QED
  BY <1>1, <1>2, <1>3, <1>4, <1>5, <1>6, <1>7 DEF Connection!Next

(* No handler ever waits for the connection that it has itself: a handler  *)
(* of a list reads all rows before its next statement (security.go:254).   *)
THEOREM NoHandlerWaitsForItself ==
  Connection!Spec => []NoSelfWait
<1>1. Connection!Init => PoolInv
  BY PoolInit
<1>2. PoolInv /\ [Connection!Next]_(Connection!vars) => PoolInv'
  BY PoolNext
<1>3. PoolInv => NoSelfWait
  BY ServingAssumption DEF PoolInv, OwnerUses, Uses, NoSelfWait
<1> QED
  BY <1>1, <1>2, <1>3, PTL DEF Connection!Spec
-----------------------------------------------------------------------------
(* The live feed.                                                          *)

(* The server thinks of at most one connection that its client is there:   *)
(* the one the feed has, asked for or served.                              *)
PeerIsFeed ==
  \A c \in Conns : conn[c].peer =>
    /\ feed.at = c
    /\ feed.socket \in (IF conn[c].asked THEN {"connecting"} ELSE {"accepted", "open"})

(* A timer runs only when there is no socket; a new feed has neither.      *)
TimerAlone ==
  /\ feed.timer => feed.life = "mounted" /\ feed.socket = "none"
  /\ feed.life = "new" => feed.socket = "none"

(* An attempt is counted only when one has failed.                         *)
AttemptsFailed == feed.attempts <= fails

FeedInv ==
  /\ FeedTypeOK /\ PeerIsFeed /\ TimerAlone /\ AttemptsFailed
  /\ QuietOnceDestroyed /\ GivesUpLate

LEMMA FeedStarts == Feed!Init => FeedInv
BY ServingAssumption
   DEF Feed!Init, FeedInv, FeedTypeOK, Feed!TypeOK, Feed!Sockets, Feed!Free, PeerIsFeed, TimerAlone,
       AttemptsFailed, QuietOnceDestroyed, Feed!QuietOnceDestroyed, GivesUpLate,
       Feed!GivesUpLate, Feed!Idles

(* What the feed and a connection are.                                     *)
FeedRow == [life : {"new", "mounted", "destroyed"}, socket : Feed!Sockets,
            at : Conns \cup {NoConn}, timer : BOOLEAN, attempts : 0..MaxAttempts]
ConnRow == [asked : BOOLEAN, loop : BOOLEAN, reader : BOOLEAN, done : BOOLEAN, peer : BOOLEAN]

(* A feed that dials has no socket, so that the server has no client of it;*)
(* afterwards it has the connection it asked for, or is told of a failure. *)
LEMMA DialKeeps ==
  ASSUME FeedInv, feed.socket = "none", NEW f \in FeedRow, f.life = "mounted", ~f.timer,
         f.attempts = feed.attempts, Feed!Dial(f), UNCHANGED <<valid, up, fails, faults>>
  PROVE  FeedInv'
<1> USE DEF FeedInv, FeedTypeOK, Feed!TypeOK
<1>1. \A c \in Conns : ~conn[c].peer
  BY DEF PeerIsFeed
<1>2. /\ feed' \in FeedRow /\ feed'.life = "mounted" /\ ~feed'.timer
      /\ feed'.attempts = feed.attempts /\ feed'.socket \in {"connecting", "closing"}
      /\ conn' \in [Conns -> ConnRow]
      /\ \A c \in Conns : conn'[c].peer =>
           conn'[c].asked /\ feed'.at = c /\ feed'.socket = "connecting"
  <2>1. CASE up
    <3>1. PICK c \in Conns :
            /\ conn' = [conn EXCEPT ![c].asked = TRUE, ![c].peer = TRUE]
            /\ feed' = [f EXCEPT !.socket = "connecting", !.at = c]
      BY <2>1 DEF Feed!Dial
    <3>2. conn' = [conn EXCEPT ![c] = [conn[c] EXCEPT !.asked = TRUE, !.peer = TRUE]]
      BY <3>1
    <3> QED
      BY <1>1, <3>1, <3>2 DEF FeedRow, ConnRow, Feed!Sockets
  <2>2. CASE ~up
    BY <1>1, <2>2 DEF Feed!Dial, FeedRow, ConnRow, Feed!Sockets
  <2> QED
    BY <2>1, <2>2
<1> QED
  BY <1>2 DEF FeedRow, ConnRow, PeerIsFeed, TimerAlone, AttemptsFailed, QuietOnceDestroyed,
              Feed!QuietOnceDestroyed, GivesUpLate, Feed!GivesUpLate, Feed!Idles

LEMMA MountKeeps ==
  ASSUME FeedInv, Feed!Mount
  PROVE  FeedInv'
<1> DEFINE f == [feed EXCEPT !.life = "mounted"]
<1>1. f \in FeedRow /\ f.life = "mounted" /\ ~f.timer /\ f.attempts = feed.attempts
  BY DEF FeedInv, FeedTypeOK, Feed!TypeOK, FeedRow, TimerAlone, Feed!Mount
<1>2. feed.socket = "none"
  BY DEF FeedInv, TimerAlone, Feed!Mount
<1> QED
  BY <1>1, <1>2, DialKeeps DEF Feed!Mount

LEMMA ReconnectKeeps ==
  ASSUME FeedInv, Feed!Reconnect
  PROVE  FeedInv'
<1> DEFINE f == [feed EXCEPT !.timer = FALSE]
<1>1. /\ f \in FeedRow /\ f.life = "mounted" /\ ~f.timer /\ f.attempts = feed.attempts
      /\ feed.life = "mounted" /\ feed.socket = "none"
  BY DEF FeedInv, FeedTypeOK, Feed!TypeOK, FeedRow, TimerAlone, Feed!Reconnect
<1> QED
  BY <1>1, DialKeeps DEF Feed!Reconnect

(* The events of the socket.                                               *)
LEMMA OnOpenKeeps ==
  ASSUME FeedInv, Feed!OnOpen
  PROVE  FeedInv'
<1> USE DEF FeedInv, FeedTypeOK, Feed!TypeOK
<1>1. /\ feed.socket = "accepted" /\ fails' = 0 /\ UNCHANGED <<valid, conn, up, faults>>
      /\ feed' = [feed EXCEPT !.socket = "open", !.attempts = 0]
  BY DEF Feed!OnOpen
<1>2. 0 \in 0..MaxAttempts /\ 0 \in 0..(MaxAttempts + 1)
  BY ServingAssumption
<1>3. /\ feed' \in FeedRow /\ feed'.life = feed.life /\ feed'.at = feed.at
      /\ feed'.timer = feed.timer /\ feed'.attempts = 0 /\ feed'.socket = "open"
  BY <1>1, <1>2 DEF FeedRow, Feed!Sockets
<1>4. feed.life # "destroyed" /\ ~feed.timer
  BY <1>1 DEF QuietOnceDestroyed, Feed!QuietOnceDestroyed, TimerAlone
<1>5. PeerIsFeed'
  BY <1>1, <1>3 DEF PeerIsFeed
<1> QED
  BY <1>1, <1>2, <1>3, <1>4, <1>5
     DEF FeedRow, TimerAlone, AttemptsFailed, QuietOnceDestroyed, Feed!QuietOnceDestroyed,
         GivesUpLate, Feed!GivesUpLate, Feed!Idles

(* An attempt is counted where a failure is; a mounted feed that sets no   *)
(* timer has made the last one.                                            *)
LEMMA OnCloseKeeps ==
  ASSUME FeedInv, Feed!OnClose
  PROVE  FeedInv'
<1> USE DEF FeedInv, FeedTypeOK, Feed!TypeOK
<1>1. /\ feed'.life = feed.life /\ feed'.socket = "none" /\ feed'.at = NoConn
      /\ feed'.timer = Feed!Reconnects
      /\ feed'.attempts = IF Feed!Reconnects THEN feed.attempts + 1 ELSE feed.attempts
      /\ fails' = IF fails > MaxAttempts THEN fails ELSE fails + 1
      /\ UNCHANGED <<valid, conn, up, faults>>
  BY DEF Feed!OnClose
<1>2. feed' \in FeedRow /\ fails' \in 0..(MaxAttempts + 1)
  <2>1. Feed!Reconnects \in BOOLEAN /\ fails' \in 0..(MaxAttempts + 1)
    BY <1>1, ServingAssumption DEF Feed!Reconnects
  <2>2. feed.attempts \in 0..MaxAttempts
        /\ (Feed!Reconnects => feed.attempts + 1 \in 0..MaxAttempts)
    BY ServingAssumption DEF Feed!Reconnects
  <2>3. "none" \in Feed!Sockets
    BY DEF Feed!Sockets
  <2> QED
    BY <2>1, <2>2, <2>3 DEF Feed!OnClose, FeedRow
<1>3. \A c \in Conns : ~conn[c].peer
  BY DEF PeerIsFeed, Feed!OnClose
<1>4. AttemptsFailed' /\ (feed.attempts >= MaxAttempts => fails' > MaxAttempts)
  BY <1>1, ServingAssumption DEF AttemptsFailed
<1>5. feed.life # "new"
  BY DEF TimerAlone, Feed!OnClose
<1>6. feed'.timer => feed'.life = "mounted"
  BY <1>1, <1>5 DEF Feed!Reconnects
<1>7. feed'.life = "mounted" /\ ~feed'.timer => fails' > MaxAttempts
  <2>1. feed.attempts \in Nat
    BY ServingAssumption
  <2>2. feed'.life = "mounted" /\ ~feed'.timer => ~(feed.attempts < MaxAttempts)
    BY <1>1 DEF Feed!Reconnects
  <2> QED
    BY <1>4, <2>1, <2>2, ServingAssumption
<1> QED
  BY <1>1, <1>2, <1>3, <1>4, <1>6, <1>7
     DEF FeedRow, PeerIsFeed, TimerAlone, QuietOnceDestroyed, Feed!QuietOnceDestroyed,
         GivesUpLate, Feed!GivesUpLate, Feed!Idles

(* The client of the feed's connection is gone, by close(), by a cut or    *)
(* with the server; a close event is to come.                              *)
LEMMA HangUpKeeps ==
  ASSUME FeedInv, Feed!Destroy \/ Feed!Cut \/ Feed!ServerStops
  PROVE  FeedInv'
<1> USE DEF FeedInv, FeedTypeOK, Feed!TypeOK
<1>1. /\ feed' \in FeedRow /\ feed'.life # "new" /\ feed'.attempts = feed.attempts
      /\ feed'.timer => feed.timer /\ feed'.life = "mounted"
      /\ feed'.life = "mounted" => feed.life = "mounted" /\ feed'.timer = feed.timer
      /\ feed'.socket \in {"none", "closing"}
      /\ feed'.socket = "none" <=> feed.socket = "none"
  <2>1. CASE Feed!Destroy
    <3>1. /\ feed.life = "mounted"
          /\ feed' = [feed EXCEPT !.life = "destroyed", !.timer = FALSE,
               !.socket = IF feed.socket \in {"connecting", "accepted", "open"}
                          THEN "closing" ELSE feed.socket]
      BY <2>1 DEF Feed!Destroy
    <3> QED
      BY <3>1 DEF FeedRow, Feed!Sockets
  <2>2. CASE Feed!Cut
    BY <2>2 DEF Feed!Cut, Feed!Hanging, FeedRow, Feed!Sockets, TimerAlone
  <2>3. CASE Feed!ServerStops
    BY <2>3 DEF Feed!ServerStops, Feed!Hanging, FeedRow, Feed!Sockets, TimerAlone
  <2> QED
    BY <2>1, <2>2, <2>3
<1>3. UNCHANGED <<valid, fails>> /\ up' \in BOOLEAN /\ faults' \in 0..MaxFaults
  <2>1. faults < MaxFaults => faults + 1 \in 0..MaxFaults
    BY ServingAssumption
  <2>2. CASE Feed!Destroy
    BY <2>2 DEF Feed!Destroy
  <2>3. CASE Feed!Cut
    BY <2>1, <2>3 DEF Feed!Cut
  <2>4. CASE Feed!ServerStops
    BY <2>1, <2>4 DEF Feed!ServerStops
  <2> QED
    BY <2>2, <2>3, <2>4
<1>2. conn' \in [Conns -> ConnRow] /\ \A c \in Conns : ~conn'[c].peer
  <2>1. CASE Feed!ServerStops
    BY <2>1 DEF Feed!ServerStops, Feed!Free, ConnRow
  <2>2. CASE Feed!Destroy \/ Feed!Cut
    <3>1. CASE UNCHANGED conn /\ ~Feed!Hanging
      BY <3>1 DEF PeerIsFeed, Feed!Hanging, ConnRow
    <3>2. CASE conn' = [conn EXCEPT ![feed.at].peer = FALSE]
      <4>1. \A c \in Conns :
              conn'[c] = IF c = feed.at THEN [conn[c] EXCEPT !.peer = FALSE] ELSE conn[c]
        BY <3>2
      <4>2. conn' \in [Conns -> ConnRow]
        <5>1. \A c \in Conns : conn[c] \in ConnRow /\ [conn[c] EXCEPT !.peer = FALSE] \in ConnRow
          BY DEF ConnRow
        <5>2. conn' = [c \in Conns |-> conn'[c]]
          BY <3>2
        <5>3. \A c \in Conns : conn'[c] \in ConnRow
          BY <4>1, <5>1
        <5> QED
          BY <5>2, <5>3
      <4>3. \A c \in Conns : conn'[c].peer => conn[c].peer /\ c # feed.at
        BY <4>1 DEF ConnRow
      <4> QED
        BY <4>2, <4>3 DEF PeerIsFeed
    <3> QED
      BY <2>2, <3>1, <3>2 DEF Feed!Destroy, Feed!Cut, Feed!Hanging
  <2> QED
    BY <2>1, <2>2
<1> QED
  BY <1>1, <1>2, <1>3
     DEF FeedRow, ConnRow, PeerIsFeed, TimerAlone, AttemptsFailed, QuietOnceDestroyed,
         Feed!QuietOnceDestroyed, GivesUpLate, Feed!GivesUpLate, Feed!Idles

LEMMA HandshakeKeeps ==
  ASSUME FeedInv, NEW c \in Conns, Feed!Handshake(c)
  PROVE  FeedInv'
<1> USE DEF FeedInv, FeedTypeOK, Feed!TypeOK
<1>1. /\ UNCHANGED <<valid, up, fails, faults>>
      /\ feed' = IF conn[c].peer
                 THEN [feed EXCEPT !.socket = IF valid /\ Hijackable THEN "accepted" ELSE "closing"]
                 ELSE feed
      /\ conn[c].asked
  BY DEF Feed!Handshake
<1>2. PICK row \in ConnRow :
        /\ conn' = [conn EXCEPT ![c] = row] /\ ~row.asked
        /\ row.peer => conn[c].peer /\ valid /\ Hijackable
  <2>1. CASE valid /\ Hijackable
    <3> DEFINE k == [conn[c] EXCEPT !.asked = FALSE, !.loop = TRUE, !.reader = TRUE]
    <3>1. conn' = [conn EXCEPT ![c] = k]
      BY <2>1 DEF Feed!Handshake
    <3>2. k \in ConnRow /\ k.asked = FALSE /\ k.peer = conn[c].peer
      BY ZenonT(60) DEF ConnRow
    <3> HIDE DEF k
    <3> QED
      BY <2>1, <3>1, <3>2
  <2>2. CASE ~(valid /\ Hijackable)
    BY <2>2 DEF Feed!Handshake, Feed!Free, ConnRow
  <2> QED
    BY <2>1, <2>2
<1>3. conn[c].peer => feed.at = c /\ feed.socket = "connecting"
  BY <1>1 DEF PeerIsFeed
<1>4. /\ feed' \in FeedRow /\ feed'.life = feed.life /\ feed'.at = feed.at
      /\ feed'.timer = feed.timer /\ feed'.attempts = feed.attempts
      /\ feed' # feed => /\ feed.socket = "connecting" /\ conn[c].peer
                         /\ feed'.socket \in {"accepted", "closing"}
  BY <1>1, <1>3 DEF FeedRow, Feed!Sockets
<1>5. conn' \in [Conns -> ConnRow] /\ \A d \in Conns \ {c} : conn'[d] = conn[d]
  BY <1>2 DEF ConnRow
<1>6. PeerIsFeed'
  <2> SUFFICES ASSUME NEW d \in Conns, conn'[d].peer
               PROVE  /\ feed'.at = d
                      /\ feed'.socket \in (IF conn'[d].asked THEN {"connecting"} ELSE {"accepted", "open"})
    BY DEF PeerIsFeed
  <2>1. CASE d = c
    BY <1>1, <1>2, <1>3, <2>1
  <2>2. CASE d # c
    <3>1. conn[d].peer /\ conn'[d] = conn[d]
      BY <1>5, <2>2
    <3>2. ~conn[c].peer
      BY <2>2, <3>1 DEF PeerIsFeed
    <3> QED
      BY <1>1, <3>1, <3>2 DEF PeerIsFeed
  <2> QED
    BY <2>1, <2>2
<1>7. TimerAlone' /\ AttemptsFailed'
  BY <1>1, <1>4 DEF TimerAlone, AttemptsFailed
<1>8. QuietOnceDestroyed' /\ GivesUpLate'
  BY <1>1, <1>4
     DEF QuietOnceDestroyed, Feed!QuietOnceDestroyed, GivesUpLate, Feed!GivesUpLate, Feed!Idles
<1> QED
  BY <1>1, <1>4, <1>5, <1>6, <1>7, <1>8 DEF FeedRow, ConnRow

(* The goroutines of a connection leave the feed alone.                    *)
LEMMA GoroutineKeeps ==
  ASSUME FeedInv, NEW c \in Conns, Feed!WriteFails(c) \/ Feed!ReadFails(c) \/ Feed!SeesDone(c)
  PROVE  FeedInv'
<1> USE DEF FeedInv, FeedTypeOK, Feed!TypeOK
<1>1. UNCHANGED <<feed, valid, up, fails, faults>>
  BY DEF Feed!WriteFails, Feed!ReadFails, Feed!SeesDone
<1>2. PICK row \in ConnRow :
        /\ conn' = [conn EXCEPT ![c] = row]
        /\ row.peer => conn[c].peer /\ row.asked = conn[c].asked
  <2>1. PICK k \in ConnRow : Feed!Ended(c, k) /\ k.peer = conn[c].peer /\ k.asked = conn[c].asked
    <3>1. /\ [conn[c] EXCEPT !.loop = FALSE] \in ConnRow
          /\ [conn[c] EXCEPT !.reader = FALSE, !.done = TRUE] \in ConnRow
      BY ZenonT(60) DEF ConnRow
    <3> QED
      BY <3>1 DEF Feed!WriteFails, Feed!ReadFails, Feed!SeesDone, ConnRow
  <2>2. CASE k.loop \/ k.reader
    BY <2>1, <2>2 DEF Feed!Ended
  <2>3. CASE ~(k.loop \/ k.reader)
    <3>1. Feed!Free \in ConnRow /\ ~Feed!Free.peer
      BY DEF Feed!Free, ConnRow
    <3> QED
      BY <2>1, <2>3, <3>1 DEF Feed!Ended
  <2> QED
    BY <2>2, <2>3
<1>3. conn' \in [Conns -> ConnRow] /\ PeerIsFeed'
  BY <1>1, <1>2 DEF PeerIsFeed, ConnRow
<1> QED
  BY <1>1, <1>3 DEF ConnRow, TimerAlone, AttemptsFailed, QuietOnceDestroyed,
              Feed!QuietOnceDestroyed, GivesUpLate, Feed!GivesUpLate, Feed!Idles

LEMMA FeedNext == FeedInv /\ [Feed!Next]_(Feed!vars) => FeedInv'
<1> SUFFICES ASSUME FeedInv, [Feed!Next]_(Feed!vars)
             PROVE  FeedInv'
  OBVIOUS
<1>1. CASE Feed!TokenExpires \/ Feed!ServerStarts \/ UNCHANGED Feed!vars
  BY <1>1 DEF Feed!TokenExpires, Feed!ServerStarts, Feed!vars, FeedInv, FeedTypeOK, Feed!TypeOK,
              PeerIsFeed, TimerAlone, AttemptsFailed, QuietOnceDestroyed,
              Feed!QuietOnceDestroyed, GivesUpLate, Feed!GivesUpLate, Feed!Idles
<1> QED
  BY <1>1, MountKeeps, ReconnectKeeps, OnOpenKeeps, OnCloseKeeps, HangUpKeeps, HandshakeKeeps,
     GoroutineKeeps
     DEF Feed!Next

LEMMA FeedAlways == Feed!Spec => []FeedInv
BY FeedStarts, FeedNext, PTL DEF Feed!Spec

(* The feed and the server's side of its connections keep their types: the *)
(* attempts never pass their limit (websocket.ts:51).                      *)
THEOREM FeedTyped == Feed!Spec => []FeedTypeOK
<1>1. FeedInv => FeedTypeOK
  BY DEF FeedInv
<1> QED
  BY <1>1, FeedAlways, PTL

(* A feed that was destroyed sets no timer and opens nothing, whatever     *)
(* events and answers were still to come (websocket.ts:49-84).             *)
THEOREM DestroyedFeedIsQuiet == Feed!Spec => []QuietOnceDestroyed
<1>1. FeedInv => QuietOnceDestroyed
  BY DEF FeedInv
<1> QED
  BY <1>1, FeedAlways, PTL

(* A mounted feed gives up only after more failures in a row than it may   *)
(* make attempts (websocket.ts:31, 51), however stops and cuts fall.       *)
THEOREM FeedGivesUpLate == Feed!Spec => []GivesUpLate
<1>1. FeedInv => GivesUpLate
  BY DEF FeedInv
<1> QED
  BY <1>1, FeedAlways, PTL
-----------------------------------------------------------------------------
(* A snapshot of the machine.                                              *)

Words == 0..(Width - 1)

ReadingTyped ==
  /\ pc \in {"fork", "wait", "returned"}
  /\ job \in [Reading!Jobs -> {"none", "forked", "reading", "sampling", "sleeping", "read",
                               "broken", "stored", "failed", "done"}]
  /\ stored \subseteq Reading!Jobs /\ errors \subseteq Reading!Jobs
  /\ counter \in [Reading!Fields -> Words] /\ sample \in [Reading!Fields -> Words]
  /\ moves \in (0..MaxMoves) \X (0..MaxMoves) /\ moves[1] <= moves[2]
  /\ backwards \in BOOLEAN

(* The WaitGroup counts the goroutines that have not ended, those that     *)
(* have not begun included, and each stores its part before it ends.       *)
Pending == {j \in Reading!Jobs : job[j] # "done"}

Joined ==
  /\ pc = "fork" => wg = 0 /\ \A j \in Reading!Jobs : job[j] = "none"
  /\ pc # "fork" => wg = Cardinality(Pending)
  /\ pc = "returned" => Pending = {}
  /\ \A j \in Reading!Jobs : job[j] \in {"stored", "failed", "done"} => j \in stored

(* The share of the ticks counted that were not idle.                      *)
Share == IF moves[2] = 0 THEN <<0, 1>> ELSE <<moves[2] - moves[1], moves[2]>>

(* Between the readings the counters are the first one and what has been    *)
(* counted since, modulo their width.                                      *)
Counted ==
  /\ job["cpu"] # "reading"
  /\ job["cpu"] = "sleeping" /\ ~backwards =>
       /\ Reading!IdleOf(counter) = Reading!Plus(Reading!IdleOf(sample), moves[1])
       /\ Reading!TotalOf(counter) = Reading!Plus(Reading!TotalOf(sample), moves[2])
  /\ job["cpu"] \in {"read", "stored", "done"} /\ "cpu" \notin errors /\ ~backwards =>
       usage = Share

ReadingInv == ReadingTyped /\ Joined /\ Counted

(* Addition and subtraction modulo the width of the counters.              *)
LEMMA WidthPositive == Width \in Nat \ {0} /\ MaxMoves \in Nat /\ MaxMoves < Width
BY ServingAssumption

LEMMA PlusIs ==
  ASSUME NEW a \in Words, NEW d \in Words
  PROVE  /\ Reading!Plus(a, d) = IF a + d < Width THEN a + d ELSE a + d - Width
         /\ Reading!Plus(a, d) \in Words
<1>1. (a + d) % Width = IF a + d < Width THEN a + d ELSE a + d - Width
  BY WidthPositive, SMT DEF Words
<1> QED
  BY <1>1, WidthPositive DEF Words, Reading!Plus

LEMMA MinusIs ==
  ASSUME NEW a \in Words, NEW b \in Words
  PROVE  /\ Reading!Minus(a, b) = IF b <= a THEN a - b ELSE a - b + Width
         /\ Reading!Minus(a, b) \in Words
<1>1. (a - b) % Width = IF b <= a THEN a - b ELSE a - b + Width
  BY WidthPositive, SMT DEF Words
<1> QED
  BY <1>1, WidthPositive DEF Words, Reading!Minus

LEMMA PlusOne ==
  ASSUME NEW a \in Words, NEW b \in Words, 1 \in Words
  PROVE  /\ Reading!Plus(Reading!Plus(a, 1), b) = Reading!Plus(Reading!Plus(a, b), 1)
         /\ Reading!Plus(a, Reading!Plus(b, 1)) = Reading!Plus(Reading!Plus(a, b), 1)
<1>1. /\ Reading!Plus(a, 1) = (IF a + 1 < Width THEN a + 1 ELSE a + 1 - Width)
      /\ Reading!Plus(b, 1) = (IF b + 1 < Width THEN b + 1 ELSE b + 1 - Width)
      /\ Reading!Plus(a, b) = (IF a + b < Width THEN a + b ELSE a + b - Width)
      /\ Reading!Plus(a, 1) \in Words /\ Reading!Plus(b, 1) \in Words /\ Reading!Plus(a, b) \in Words
  BY PlusIs
<1>2. \A x, y \in Words :
        Reading!Plus(x, y) = IF x + y < Width THEN x + y ELSE x + y - Width
  BY PlusIs
<1> QED
  BY <1>1, <1>2, WidthPositive DEF Words

LEMMA PlusNext ==
  ASSUME NEW a \in Words, NEW d \in Words, d + 1 \in Words, 1 \in Words
  PROVE  Reading!Plus(Reading!Plus(a, d), 1) = Reading!Plus(a, d + 1)
<1> DEFINE x == Reading!Plus(a, d)
<1>1. x \in Words /\ x = IF a + d < Width THEN a + d ELSE a + d - Width
  BY PlusIs
<1>2. Reading!Plus(a, d + 1) = IF a + (d + 1) < Width THEN a + (d + 1) ELSE a + (d + 1) - Width
  BY PlusIs
<1> HIDE DEF x
<1>3. Reading!Plus(x, 1) = IF x + 1 < Width THEN x + 1 ELSE x + 1 - Width
  BY <1>1, PlusIs
<1>4. Reading!Plus(x, 1) = Reading!Plus(a, d + 1)
  BY <1>1, <1>2, <1>3, WidthPositive DEF Words
<1> QED
  BY <1>4 DEF x

(* What was added comes back as the difference, though the sum went round. *)
LEMMA MinusPlus ==
  ASSUME NEW a \in Words, NEW d \in Words
  PROVE  Reading!Minus(Reading!Plus(a, d), a) = d
<1> DEFINE x == Reading!Plus(a, d)
<1>1. x \in Words /\ x = IF a + d < Width THEN a + d ELSE a + d - Width
  BY PlusIs
<1> HIDE DEF x
<1>2. Reading!Minus(x, a) = IF a <= x THEN x - a ELSE x - a + Width
  BY <1>1, MinusIs
<1>3. Reading!Minus(x, a) = d
  BY <1>1, <1>2, WidthPositive DEF Words
<1> QED
  BY <1>3 DEF x

LEMMA SumsAreWords ==
  ASSUME NEW s \in [Reading!Fields -> Words]
  PROVE  /\ \A f \in Reading!Fields : s[f] \in Words
         /\ Reading!IdleOf(s) \in Words /\ Reading!TotalOf(s) \in Words
<1>1. s["busy"] \in Words /\ s["idle"] \in Words /\ s["iowait"] \in Words
  BY DEF Reading!Fields
<1>2. Reading!IdleOf(s) \in Words
  BY <1>1, PlusIs DEF Reading!IdleOf
<1> QED
  BY <1>1, <1>2, PlusIs DEF Reading!TotalOf

(* The goroutines.                                                         *)
LEMMA JobsFinite ==
  /\ IsFiniteSet(Reading!Jobs)
  /\ IsFiniteSet(Pending) /\ Cardinality(Pending) \in Nat
  /\ Cardinality(Pending) = 0 <=> Pending = {}
<1>1. IsFiniteSet(Reading!Jobs)
  BY ServingAssumption, FS_AddElement DEF Reading!Jobs
<1>2. IsFiniteSet(Pending)
  BY <1>1, FS_Subset DEF Pending
<1> QED
  BY <1>1, <1>2, FS_CardinalityType, FS_EmptySet

LEMMA ReadingStarts == Reading!Init => ReadingInv
<1> SUFFICES ASSUME Reading!Init
             PROVE  ReadingInv
  OBVIOUS
<1>1. 0 \in Words /\ Width - 1 \in Words /\ 0 \in 0..MaxMoves
  BY WidthPositive DEF Words
<1>2. counter \in [Reading!Fields -> Words] /\ sample = counter
  BY <1>1 DEF Reading!Init
<1>3. ReadingTyped
  <2>1. <<0, 0>> \in (0..MaxMoves) \X (0..MaxMoves) /\ <<0, 0>>[1] <= <<0, 0>>[2]
    BY <1>1
  <2> QED
    BY <1>2, <2>1 DEF Reading!Init, ReadingTyped
<1>4. Joined /\ Counted
  BY DEF Reading!Init, Joined, Counted, Reading!Jobs
<1> QED
  BY <1>3, <1>4 DEF ReadingInv

LEMMA ForkKeeps ==
  ASSUME ReadingInv, Reading!Fork
  PROVE  ReadingInv'
<1> USE DEF ReadingInv
<1>1. /\ pc = "fork" /\ pc' = "wait" /\ job' = [j \in Reading!Jobs |-> "forked"]
      /\ UNCHANGED <<counter, stored, errors, sample, usage, moves, backwards>>
  BY DEF Reading!Fork, Reading!cpuVars
<1>2. Pending' = Reading!Jobs
  BY <1>1 DEF Pending
<1>3. wg' = Cardinality(Pending')
  <2>1. Cardinality(Reading!Jobs) \in Nat
    BY JobsFinite, FS_CardinalityType
  <2>2. wg = 0 /\ wg' = wg + Reading!Added.fork
    BY DEF Reading!Fork, Joined
  <2>3. Reading!Added.fork = Cardinality(Reading!Jobs)
    BY DEF Reading!Added, Reading!Cardinality, Cardinality
  <2> QED
    BY <1>2, <2>1, <2>2, <2>3
<1>4. Joined'
  BY <1>1, <1>3 DEF Joined
<1> QED
  BY <1>1, <1>4 DEF ReadingTyped, Counted, Reading!Jobs

LEMMA StartKeeps ==
  ASSUME ReadingInv, NEW j \in Reading!Jobs, Reading!Start(j)
  PROVE  ReadingInv'
<1> USE DEF ReadingInv
<1>1. /\ job[j] = "forked"
      /\ job' = [job EXCEPT ![j] = IF j = "cpu" THEN "sampling" ELSE "reading"]
      /\ UNCHANGED <<counter, pc, stored, errors, sample, usage, moves, backwards>>
  BY DEF Reading!Start, Reading!cpuVars
<1>2. Pending' = Pending
  BY <1>1 DEF Pending, ReadingTyped
<1>3. pc # "fork"
  BY <1>1 DEF Joined
<1>4. wg' = wg
  BY <1>3, JobsFinite DEF Reading!Start, Reading!Added, Joined
<1>5. ReadingTyped'
  BY <1>1 DEF ReadingTyped
<1>6. Joined'
  BY <1>1, <1>2, <1>3, <1>4 DEF Joined, ReadingTyped
<1> QED
  BY <1>1, <1>5, <1>6 DEF Counted, Share, ReadingTyped, Reading!Jobs

LEMMA StoreKeeps ==
  ASSUME ReadingInv, NEW j \in Reading!Jobs, Reading!Store(j)
  PROVE  ReadingInv'
<1> USE DEF ReadingInv
<1>1. /\ job[j] \in {"reading", "read", "broken"} /\ stored' = stored \cup {j}
      /\ \/ job[j] # "broken" /\ job' = [job EXCEPT ![j] = "stored"]
         \/ job[j] # "read" /\ job' = [job EXCEPT ![j] = "failed"]
      /\ UNCHANGED <<counter, pc, wg, errors, sample, usage, moves, backwards>>
  BY DEF Reading!Store, Reading!cpuVars
<1>2. Pending' = Pending
  BY <1>1 DEF Pending, ReadingTyped
<1>3. ReadingTyped'
  BY <1>1 DEF ReadingTyped
<1>4. Joined'
  BY <1>1, <1>2 DEF Joined, ReadingTyped
<1> QED
  BY <1>1, <1>3, <1>4 DEF Counted, Share, ReadingTyped, Reading!Jobs

LEMMA FinishKeeps ==
  ASSUME ReadingInv, NEW j \in Reading!Jobs, Reading!Finish(j)
  PROVE  ReadingInv'
<1> USE DEF ReadingInv
<1>1. UNCHANGED <<counter, pc, stored, sample, usage, moves, backwards>>
  BY DEF Reading!Finish, Reading!cpuVars
<1>2. CASE job[j] = "failed" /\ errors' = errors \cup {j} /\ UNCHANGED wg
           /\ job' = [job EXCEPT ![j] = "stored"]
  <2>1. Pending' = Pending
    BY <1>2 DEF Pending, ReadingTyped
  <2>2. ReadingTyped'
    BY <1>1, <1>2 DEF ReadingTyped
  <2>3. Joined'
    BY <1>1, <1>2, <2>1 DEF Joined, ReadingTyped
  <2> QED
    BY <1>1, <1>2, <2>2, <2>3 DEF Counted, Share, ReadingTyped, Reading!Jobs
<1>3. CASE job[j] = "stored" /\ wg' = wg - 1 /\ UNCHANGED errors
           /\ job' = [job EXCEPT ![j] = "done"]
  <2>1. Pending' = Pending \ {j} /\ j \in Pending
    BY <1>3 DEF Pending, ReadingTyped
  <2>2. pc # "fork" /\ pc # "returned"
    BY <1>3, <2>1 DEF Joined
  <2>3. wg' = Cardinality(Pending')
    BY <1>3, <2>1, <2>2, JobsFinite, FS_RemoveElement DEF Joined
  <2>4. ReadingTyped'
    BY <1>1, <1>3 DEF ReadingTyped
  <2>5. Joined'
    BY <1>1, <1>3, <2>2, <2>3 DEF Joined, ReadingTyped
  <2> QED
    BY <1>1, <1>3, <2>4, <2>5 DEF Counted, Share, ReadingTyped, Reading!Jobs
<1> QED
  BY <1>2, <1>3 DEF Reading!Finish

LEMMA JoinKeeps ==
  ASSUME ReadingInv, Reading!Join
  PROVE  ReadingInv'
<1>1. /\ pc = "wait" /\ wg = 0 /\ pc' = "returned"
      /\ UNCHANGED <<counter, job, wg, stored, errors, sample, usage, moves, backwards>>
  BY DEF Reading!Join, Reading!cpuVars
<1>2. Pending' = Pending /\ Pending = {}
  BY <1>1, JobsFinite DEF Pending, ReadingInv, Joined
<1> QED
  BY <1>1, <1>2 DEF ReadingInv, ReadingTyped, Joined, Counted, Share

(* The readings.                                                           *)
LEMMA CpuIsJob == "cpu" \in Reading!Jobs
BY DEF Reading!Jobs

LEMMA FirstReadingKeeps ==
  ASSUME ReadingInv, Reading!FirstReading
  PROVE  ReadingInv'
<1> USE DEF ReadingInv
<1>1. /\ job["cpu"] = "sampling" /\ job' = [job EXCEPT !["cpu"] = "sleeping"]
      /\ sample' = counter /\ moves' = <<0, 0>> /\ backwards' = FALSE
      /\ UNCHANGED <<counter, pc, wg, stored, errors, usage>>
  BY DEF Reading!FirstReading
<1>2. Pending' = Pending
  BY <1>1, CpuIsJob DEF Pending, ReadingTyped
<1>3. 0 \in 0..MaxMoves /\ 0 \in Words
  BY WidthPositive DEF Words
<1>4. ReadingTyped'
  <2>1. <<0, 0>> \in (0..MaxMoves) \X (0..MaxMoves) /\ <<0, 0>>[1] <= <<0, 0>>[2]
    BY <1>3
  <2> QED
    BY <1>1, <2>1 DEF ReadingTyped
<1>5. Joined'
  BY <1>1, <1>2, CpuIsJob DEF Joined, ReadingTyped
<1>6. \A a \in Words : Reading!Plus(a, 0) = a
  BY <1>3, PlusIs, WidthPositive DEF Words
<1>7. Reading!IdleOf(counter) \in Words /\ Reading!TotalOf(counter) \in Words
  BY SumsAreWords DEF ReadingTyped
<1>8. /\ Reading!IdleOf(counter') = Reading!Plus(Reading!IdleOf(sample'), moves'[1])
      /\ Reading!TotalOf(counter') = Reading!Plus(Reading!TotalOf(sample'), moves'[2])
  BY <1>1, <1>6, <1>7
<1> QED
  BY <1>1, <1>4, <1>5, <1>8, CpuIsJob DEF Counted, ReadingTyped

LEMMA SecondReadingKeeps ==
  ASSUME ReadingInv, Reading!SecondReading
  PROVE  ReadingInv'
<1> USE DEF ReadingInv
<1>1. /\ job["cpu"] = "sleeping" /\ job' = [job EXCEPT !["cpu"] = "read"]
      /\ usage' = Reading!CpuPercent(sample, counter)
      /\ UNCHANGED <<counter, pc, wg, stored, errors, sample, moves, backwards>>
  BY DEF Reading!SecondReading
<1>2. Pending' = Pending
  BY <1>1, CpuIsJob DEF Pending, ReadingTyped
<1>3. ReadingTyped'
  BY <1>1 DEF ReadingTyped
<1>4. Joined'
  BY <1>1, <1>2, CpuIsJob DEF Joined, ReadingTyped
<1>5. ASSUME ~backwards PROVE usage' = Share'
  <2>1. moves[1] \in Words /\ moves[2] \in Words
    BY WidthPositive DEF ReadingTyped, Words
  <2>2. Reading!IdleOf(sample) \in Words /\ Reading!TotalOf(sample) \in Words
    BY SumsAreWords DEF ReadingTyped
  <2>3. /\ Reading!IdleOf(counter) = Reading!Plus(Reading!IdleOf(sample), moves[1])
        /\ Reading!TotalOf(counter) = Reading!Plus(Reading!TotalOf(sample), moves[2])
    BY <1>1, <1>5 DEF Counted
  <2>4. /\ Reading!Minus(Reading!IdleOf(counter), Reading!IdleOf(sample)) = moves[1]
        /\ Reading!Minus(Reading!TotalOf(counter), Reading!TotalOf(sample)) = moves[2]
    BY <2>1, <2>2, <2>3, MinusPlus
  <2> QED
    BY <1>1, <2>4 DEF Reading!CpuPercent, Share
<1> QED
  BY <1>1, <1>3, <1>4, <1>5, CpuIsJob DEF Counted, ReadingTyped

LEMMA ReadingFailsKeeps ==
  ASSUME ReadingInv, Reading!ReadingFails
  PROVE  ReadingInv'
<1> USE DEF ReadingInv
<1>1. /\ job["cpu"] \in {"sampling", "sleeping"} /\ job' = [job EXCEPT !["cpu"] = "broken"]
      /\ UNCHANGED <<counter, pc, wg, stored, errors, sample, usage, moves, backwards>>
  BY DEF Reading!ReadingFails, Reading!cpuVars
<1>2. Pending' = Pending
  BY <1>1, CpuIsJob DEF Pending, ReadingTyped
<1> QED
  BY <1>1, <1>2, CpuIsJob DEF Joined, Counted, ReadingTyped

(* One tick of a counter is one more of the sums it is part of.            *)
LEMMA MoveKeeps ==
  ASSUME ReadingInv, NEW f \in Reading!Fields, Reading!Move(f)
  PROVE  ReadingInv'
<1> USE DEF ReadingInv
<1>1. /\ job["cpu"] = "sleeping" /\ moves[2] < MaxMoves
      /\ UNCHANGED <<pc, job, wg, stored, errors, sample, usage>>
  BY DEF Reading!Move
<1>2. 1 \in Words /\ moves[1] \in Words /\ moves[2] \in Words
      /\ moves[1] + 1 \in Words /\ moves[2] + 1 \in Words
      /\ moves[1] + 1 \in 0..MaxMoves /\ moves[2] + 1 \in 0..MaxMoves
  BY <1>1, WidthPositive DEF ReadingTyped, Words
<1>3. Pending' = Pending
  BY <1>1 DEF Pending
<1>4. Joined'
  BY <1>1, <1>3 DEF Joined
<1>5. CASE /\ counter' = [counter EXCEPT ![f] = Reading!Plus(counter[f], 1)]
           /\ moves' = <<moves[1] + (IF f = "busy" THEN 0 ELSE 1), moves[2] + 1>>
           /\ UNCHANGED backwards
  <2>1. counter[f] \in Words /\ counter["busy"] \in Words /\ counter["idle"] \in Words
        /\ counter["iowait"] \in Words /\ Reading!IdleOf(counter) \in Words
    BY SumsAreWords DEF ReadingTyped, Reading!Fields
  <2>2. ReadingTyped'
    <3>1. counter' \in [Reading!Fields -> Words]
      BY <1>2, <1>5, <2>1, PlusIs DEF ReadingTyped
    <3>2. moves' \in (0..MaxMoves) \X (0..MaxMoves) /\ moves'[1] <= moves'[2]
      BY <1>2, <1>5, WidthPositive DEF ReadingTyped
    <3> QED
      BY <1>1, <1>5, <3>1, <3>2 DEF ReadingTyped
  <2>3. /\ f = "busy" => Reading!IdleOf(counter') = Reading!IdleOf(counter)
        /\ f # "busy" => Reading!IdleOf(counter') = Reading!Plus(Reading!IdleOf(counter), 1)
    <3>1. CASE f = "busy"
      BY <1>5, <3>1 DEF Reading!IdleOf, ReadingTyped, Reading!Fields
    <3>2. CASE f = "idle"
      BY <1>2, <1>5, <2>1, <3>2, PlusOne DEF Reading!IdleOf, ReadingTyped, Reading!Fields
    <3>3. CASE f = "iowait"
      BY <1>2, <1>5, <2>1, <3>3, PlusOne DEF Reading!IdleOf, ReadingTyped, Reading!Fields
    <3> QED
      BY <3>1, <3>2, <3>3 DEF Reading!Fields
  <2>4. Reading!TotalOf(counter') = Reading!Plus(Reading!TotalOf(counter), 1)
    <3>1. counter'["busy"] = IF f = "busy" THEN Reading!Plus(counter["busy"], 1) ELSE counter["busy"]
      BY <1>5 DEF ReadingTyped, Reading!Fields
    <3> QED
      BY <1>2, <2>1, <2>3, <3>1, PlusOne DEF Reading!TotalOf
  <2>5. ASSUME ~backwards
        PROVE  /\ Reading!IdleOf(counter') = Reading!Plus(Reading!IdleOf(sample), moves'[1])
               /\ Reading!TotalOf(counter') = Reading!Plus(Reading!TotalOf(sample), moves'[2])
    <3>1. Reading!IdleOf(sample) \in Words /\ Reading!TotalOf(sample) \in Words
      BY SumsAreWords DEF ReadingTyped
    <3>2. /\ Reading!IdleOf(counter) = Reading!Plus(Reading!IdleOf(sample), moves[1])
          /\ Reading!TotalOf(counter) = Reading!Plus(Reading!TotalOf(sample), moves[2])
      BY <1>1, <2>5 DEF Counted
    <3>3. /\ Reading!Plus(Reading!IdleOf(counter), 1) = Reading!Plus(Reading!IdleOf(sample), moves[1] + 1)
          /\ Reading!Plus(Reading!TotalOf(counter), 1) = Reading!Plus(Reading!TotalOf(sample), moves[2] + 1)
      BY <1>2, <3>1, <3>2, PlusNext
    <3>4. /\ moves'[2] = moves[2] + 1
          /\ moves'[1] = IF f = "busy" THEN moves[1] ELSE moves[1] + 1
      BY <1>2, <1>5 DEF Words
    <3> QED
      BY <2>3, <2>4, <3>2, <3>3, <3>4
  <2> QED
    BY <1>1, <1>4, <1>5, <2>2, <2>5 DEF Counted
<1>6. CASE /\ counter' = [counter EXCEPT ![f] = Reading!Minus(counter[f], 1)]
           /\ backwards' = TRUE /\ UNCHANGED moves
  <2>1. counter' \in [Reading!Fields -> Words]
    BY <1>2, <1>6, MinusIs DEF ReadingTyped
  <2> QED
    BY <1>1, <1>4, <1>6, <2>1 DEF ReadingTyped, Counted
<1> QED
  BY <1>5, <1>6 DEF Reading!Move

LEMMA ReadingNext == ReadingInv /\ [Reading!Next]_(Reading!vars) => ReadingInv'
<1> SUFFICES ASSUME ReadingInv, [Reading!Next]_(Reading!vars)
             PROVE  ReadingInv'
  OBVIOUS
<1>1. CASE UNCHANGED Reading!vars
  BY <1>1 DEF Reading!vars, ReadingInv, ReadingTyped, Joined, Pending, Counted, Share
<1> QED
  BY <1>1, ForkKeeps, StartKeeps, StoreKeeps, FinishKeeps, JoinKeeps, FirstReadingKeeps,
     SecondReadingKeeps, ReadingFailsKeeps, MoveKeeps
     DEF Reading!Next

LEMMA ReadingAlways == Reading!Spec => []ReadingInv
BY ReadingStarts, ReadingNext, PTL DEF Reading!Spec

(* A snapshot is returned only when every goroutine has stored its part    *)
(* and recorded its error, in whatever order they run (system.go:506-526). *)
THEOREM SnapshotsAreWhole == Reading!Spec => []SnapshotWhole
<1>1. ReadingInv => SnapshotWhole
  BY DEF ReadingInv, ReadingTyped, Joined, Pending, SnapshotWhole, Reading!SnapshotWhole
<1> QED
  BY <1>1, ReadingAlways, PTL

(* The usage is the share of the ticks between the readings that were not  *)
(* idle, though the counters go round at any width, and 0 when there were  *)
(* none, unless iowait went backwards (system.go:63-72).                   *)
THEOREM UsageIsWhatHappened == Reading!Spec => []UsageIsDifference
<1>1. ReadingInv => UsageIsDifference
  BY DEF ReadingInv, Counted, Share, UsageIsDifference, Reading!UsageIsDifference
<1> QED
  BY <1>1, ReadingAlways, PTL
-----------------------------------------------------------------------------
(* The parts side by side.                                                 *)

LEMMA PartsStart ==
  AllInit => Init /\ Limiter!Init /\ Feed!Init /\ Connection!Init /\ Reading!Init /\ Lists!Init
BY DEF AllInit

LEMMA PartsStep ==
  ASSUME [AllNext]_allVars
  PROVE  /\ [Next]_vars /\ [Limiter!Next]_(Limiter!vars) /\ [Feed!Next]_(Feed!vars)
         /\ [Connection!Next]_(Connection!vars) /\ [Reading!Next]_(Reading!vars)
         /\ [Lists!Next]_(Lists!vars)
<1>1. CASE AllNext
  BY <1>1 DEF AllNext, limiterVars, feedVars, connectionVars, readingVars, listsVars,
              Limiter!vars, Feed!vars, Connection!vars, Reading!vars, Lists!vars
<1>2. CASE UNCHANGED allVars
  BY <1>2 DEF allVars, limiterVars, feedVars, connectionVars, readingVars, listsVars,
              Limiter!vars, Feed!vars, Connection!vars, Reading!vars, Lists!vars
<1> QED
  BY <1>1, <1>2

(* In the instance that TLC explores each part behaves by its own          *)
(* specification, its fairness included, so that what is proved above of   *)
(* the peers, the limiter, the feed, the connection and the reading        *)
(* (communication.go:246, middleware.go:173, websocket.ts:49, db.go:23,    *)
(* system.go:506) holds there as well.                                     *)
THEOREM PartsAreThemselves ==
  AllSpec => Spec /\ Limiter!Spec /\ Feed!Spec /\ Connection!Spec /\ Reading!Spec /\ Lists!Spec
BY PartsStart, PartsStep, PTL
   DEF AllSpec, Spec, Limiter!Spec, Feed!Spec, Connection!Spec, Reading!Spec, Lists!Spec
=============================================================================
