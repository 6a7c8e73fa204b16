------------------------------- MODULE LiveFeed --------------------------------
(***************************************************************************)
(* The live feed: one FabrixeWS of a mounted page (frontend/src/lib/       *)
(* websocket.ts, hooks/useWebSocket.ts) and the handler that serves its    *)
(* connections (api/handlers/system.go:158-215), a loop that writes and a  *)
(* goroutine that reads, one pair for each connection accepted.            *)
(***************************************************************************)
EXTENDS Naturals

CONSTANTS
  Conns,        (* connections the server can have at once                   *)
  NoConn,       (* a feed without one                                        *)
  Hijackable,   (* whether the ResponseWriter handed to Upgrade has Hijack   *)
  MaxAttempts,  (* maxReconnectAttempts                                      *)
  MaxFaults     (* bound: stops of the server and cuts of a connection       *)

VARIABLES
  feed,     (* the FabrixeWS and its WebSocket                               *)
  valid,    (* the token it was created with has not expired                 *)
  conn,     (* the server's side of each connection                          *)
  up,       (* the server runs                                               *)
  fails,    (* history: closed connections since the last one that opened    *)
  faults    (* stops and cuts so far                                         *)

vars == <<feed, valid, conn, up, fails, faults>>

Sockets == {"none", "connecting", "accepted", "open", "closing"}
Free == [asked |-> FALSE, loop |-> FALSE, reader |-> FALSE, done |-> FALSE, peer |-> FALSE]

TypeOK ==
  /\ feed \in [life : {"new", "mounted", "destroyed"}, socket : Sockets, at : Conns \cup {NoConn},
               timer : BOOLEAN, attempts : 0..MaxAttempts]
  /\ conn \in [Conns -> [asked : BOOLEAN, loop : BOOLEAN, reader : BOOLEAN, done : BOOLEAN, peer : BOOLEAN]]
  /\ valid \in BOOLEAN /\ up \in BOOLEAN /\ fails \in 0..(MaxAttempts + 1) /\ faults \in 0..MaxFaults

Init ==
  /\ feed = [life |-> "new", socket |-> "none", at |-> NoConn, timer |-> FALSE, attempts |-> 0]
  /\ conn = [c \in Conns |-> Free]
  /\ valid = TRUE /\ up = TRUE /\ fails = 0 /\ faults = 0

-----------------------------------------------------------------------------
(* The page.                                                               *)

(* new WebSocket(url); while the server is down the attempt fails.         *)
Dial(f) ==
  IF up
  THEN \E c \in Conns :
         /\ conn[c] = Free
         /\ conn' = [conn EXCEPT ![c].asked = TRUE, ![c].peer = TRUE]
         /\ feed' = [f EXCEPT !.socket = "connecting", !.at = c]
  ELSE feed' = [f EXCEPT !.socket = "closing"] /\ UNCHANGED conn

Mount ==
  /\ feed.life = "new" /\ valid
  /\ Dial([feed EXCEPT !.life = "mounted"])
  /\ UNCHANGED <<valid, up, fails, faults>>

(* Mutant: the count of attempts is left as it was.                        *)
OnOpenKeepsCount ==
  /\ feed.socket = "accepted"
  /\ feed' = [feed EXCEPT !.socket = "open"]
  /\ fails' = 0
  /\ UNCHANGED <<valid, conn, up, faults>>

OnOpen ==
  /\ feed.socket = "accepted"
  /\ feed' = [feed EXCEPT !.socket = "open", !.attempts = 0]
  /\ fails' = 0
  /\ UNCHANGED <<valid, conn, up, faults>>

(* Mutant: scheduleReconnect does not count the attempts.                  *)
ReconnectsForever == feed.life # "destroyed"

(* Mutant: scheduleReconnect does not look at destroyed.                   *)
ReconnectsAlways == feed.attempts < MaxAttempts

Reconnects == feed.life # "destroyed" /\ feed.attempts < MaxAttempts

(* The close event, which comes after a failed attempt, a lost connection  *)
(* or close().                                                             *)
OnClose ==
  /\ feed.socket = "closing"
  /\ feed' = [feed EXCEPT !.socket = "none", !.at = NoConn, !.timer = Reconnects,
                          !.attempts = IF Reconnects THEN @ + 1 ELSE @]
  /\ fails' = IF fails > MaxAttempts THEN fails ELSE fails + 1
  /\ UNCHANGED <<valid, conn, up, faults>>

(* Mutant: the attempt is not made when the last one was refused.          *)
ReconnectOnce ==
  /\ feed.timer
  /\ IF feed.life = "destroyed" \/ fails > 1
     THEN feed' = [feed EXCEPT !.timer = FALSE] /\ UNCHANGED conn
     ELSE Dial([feed EXCEPT !.timer = FALSE])
  /\ UNCHANGED <<valid, up, fails, faults>>

(* connect() from the timer, with the token of the constructor.            *)
Reconnect ==
  /\ feed.timer
  /\ IF feed.life = "destroyed"
     THEN feed' = [feed EXCEPT !.timer = FALSE] /\ UNCHANGED conn
     ELSE Dial([feed EXCEPT !.timer = FALSE])
  /\ UNCHANGED <<valid, up, fails, faults>>

(* The page is left; the close event of the socket is still to come.       *)
Destroy ==
  /\ feed.life = "mounted"
  /\ LET live == feed.socket \in {"connecting", "accepted", "open"} IN
     /\ feed' = [feed EXCEPT !.life = "destroyed", !.timer = FALSE,
                             !.socket = IF live THEN "closing" ELSE @]
     /\ conn' = IF live THEN [conn EXCEPT ![feed.at].peer = FALSE] ELSE conn
  /\ UNCHANGED <<valid, up, fails, faults>>

-----------------------------------------------------------------------------
(* The server.                                                             *)

(* ValidateToken, then Upgrade, which needs a ResponseWriter with Hijack.  *)
Handshake(c) ==
  /\ conn[c].asked
  /\ IF valid /\ Hijackable
     THEN /\ conn' = [conn EXCEPT ![c].asked = FALSE, ![c].loop = TRUE, ![c].reader = TRUE]
          /\ feed' = IF conn[c].peer THEN [feed EXCEPT !.socket = "accepted"] ELSE feed
     ELSE /\ conn' = [conn EXCEPT ![c] = Free]
          /\ feed' = IF conn[c].peer THEN [feed EXCEPT !.socket = "closing"] ELSE feed
  /\ UNCHANGED <<valid, up, fails, faults>>

(* A goroutine that has ended; with both gone the connection is forgotten. *)
Ended(c, k) == conn' = [conn EXCEPT ![c] = IF k.loop \/ k.reader THEN k ELSE Free]

(* WriteJSON to a client that is gone returns an error, sooner or later;   *)
(* a tick whose snapshot failed writes nothing.                            *)
WriteFails(c) ==
  /\ conn[c].loop /\ ~conn[c].peer
  /\ Ended(c, [conn[c] EXCEPT !.loop = FALSE])
  /\ UNCHANGED <<feed, valid, up, fails, faults>>

(* Mutant: the reader leaves without closing the channel.                  *)
ReadFailsSilently(c) ==
  /\ conn[c].reader /\ (~conn[c].peer \/ ~conn[c].loop)
  /\ Ended(c, [conn[c] EXCEPT !.reader = FALSE])
  /\ UNCHANGED <<feed, valid, up, fails, faults>>

(* ReadMessage fails when the client is gone or the loop has closed.       *)
ReadFails(c) ==
  /\ conn[c].reader /\ (~conn[c].peer \/ ~conn[c].loop)
  /\ Ended(c, [conn[c] EXCEPT !.reader = FALSE, !.done = TRUE])
  /\ UNCHANGED <<feed, valid, up, fails, faults>>

SeesDone(c) ==
  /\ conn[c].loop /\ conn[c].done
  /\ Ended(c, [conn[c] EXCEPT !.loop = FALSE])
  /\ UNCHANGED <<feed, valid, up, fails, faults>>

-----------------------------------------------------------------------------
(* What may go wrong.                                                      *)
TokenExpires ==
  /\ feed.life = "mounted" /\ valid
  /\ valid' = FALSE
  /\ UNCHANGED <<feed, conn, up, fails, faults>>

Hanging == feed.socket \in {"connecting", "accepted", "open"}

(* The network drops the connection; both ends find out in their own time. *)
Cut ==
  /\ Hanging /\ faults < MaxFaults
  /\ feed' = [feed EXCEPT !.socket = "closing"]
  /\ conn' = [conn EXCEPT ![feed.at].peer = FALSE]
  /\ faults' = faults + 1
  /\ UNCHANGED <<valid, up, fails>>

ServerStops ==
  /\ up /\ feed.life # "new" /\ faults < MaxFaults
  /\ up' = FALSE
  /\ conn' = [c \in Conns |-> Free]
  /\ feed' = IF Hanging THEN [feed EXCEPT !.socket = "closing"] ELSE feed
  /\ faults' = faults + 1
  /\ UNCHANGED <<valid, fails>>

ServerStarts == ~up /\ up' = TRUE /\ UNCHANGED <<feed, valid, conn, fails, faults>>

Next ==
  \/ Mount \/ OnOpen \/ OnClose \/ Reconnect \/ Destroy
  \/ TokenExpires \/ Cut \/ ServerStops \/ ServerStarts
  \/ \E c \in Conns : Handshake(c) \/ WriteFails(c) \/ ReadFails(c) \/ SeesDone(c)

(* Events and timers of the page fire, a request is answered, a read on a  *)
(* dead connection fails (TCP keepalive), systemd starts the server again. *)
(* Nothing makes a write happen: the snapshot may fail at every tick.      *)
Fairness ==
  /\ WF_vars(OnOpen) /\ WF_vars(OnClose) /\ WF_vars(Reconnect) /\ WF_vars(ServerStarts)
  /\ \A c \in Conns : WF_vars(Handshake(c)) /\ WF_vars(ReadFails(c)) /\ WF_vars(SeesDone(c))

Spec == Init /\ [][Next]_vars /\ Fairness

-----------------------------------------------------------------------------
(* A feed that was destroyed stays quiet: whatever events were still to    *)
(* come, it sets no timer and opens nothing (websocket.ts:49-84).          *)
QuietOnceDestroyed == feed.life = "destroyed" => ~feed.timer /\ feed.socket \in {"none", "closing"}

(* A mounted feed gives up only when more attempts than allowed have       *)
(* failed in a row, since a connection last opened (websocket.ts:31, 51).  *)
Idles == feed.life = "mounted" /\ feed.socket = "none" /\ ~feed.timer
GivesUpLate == Idles => fails > MaxAttempts

(* Both goroutines of a connection whose client is gone end, though every  *)
(* snapshot fail (system.go:189-214).                                      *)
ServerLetsGo == \A c \in Conns : (conn[c] # Free /\ ~conn[c].peer) ~> (conn[c] = Free)

(* A mounted feed gets its connection back after stops and cuts, unless it *)
(* has given up or its token has expired (websocket.ts:44-55).             *)
Recovers ==
  feed.life = "mounted" ~>
    (feed.socket = "open" \/ feed.life = "destroyed" \/ ~valid \/ (Idles /\ fails > MaxAttempts))

(* The dashboard's charts are fed by the WebSocket (user-guide.md:34): a   *)
(* mounted page with a valid token is connected, unless it is left.        *)
FeedConnects == feed.life = "mounted" ~> (feed.socket = "open" \/ feed.life = "destroyed" \/ ~valid)
=============================================================================
