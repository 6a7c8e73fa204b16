--------------------------- MODULE AuthChainProofs ---------------------------
(* The session table of Auth implements TokenChain, and what TokenChain    *)
(* promises therefore holds of it: proved for every value of the constants.*)
EXTENDS AuthProofs

(* The invariant behind the refinement.  A token is made for one session   *)
(* and carries its user; a refresh in progress has read both together.     *)
ChainInv ==
  /\ \A s \in Tokens : sessions[s] # None =>
       /\ s \in Made /\ sessions[s].token \in Made
       /\ pairs[sessions[s].token].sid = s
       /\ pairs[sessions[s].token].user = sessions[s].user
  /\ \A w \in Workers : req[w].pc \in {"refresh_user", "refresh_rotate"} =>
       /\ req[w].token \in Made
       /\ pairs[req[w].token].sid = req[w].sid
       /\ pairs[req[w].token].user = req[w].user

holds == [s \in Tokens |-> IF sessions[s] = None THEN None ELSE sessions[s].token]
spent == {t \in Made : SessionsWith(t) = {}}

ChainStep == Chain!Next \/ UNCHANGED <<holds, spent>>

-----------------------------------------------------------------------------
(* Steps that close sessions, and steps that leave the table alone.        *)

LEMMA SessionOfToken ==
  ASSUME TypeInv, ChainInv, NEW s \in Tokens, NEW t, s \in SessionsWith(t)
  PROVE  t \in Made /\ s = pairs[t].sid
  BY DEF ChainInv, SessionsWith

(* TokenChain's actions, in terms of the mapping.                          *)
LEMMA CloseStep ==
  ASSUME NEW C, \A s \in C : holds[s] # None,
         holds' = [s \in Tokens |-> IF s \in C THEN None ELSE holds[s]],
         spent' = spent \cup {holds[s] : s \in C}
  PROVE  Chain!Close(C)
  BY DEF Chain!Close, holds, spent

LEMMA OpenStep ==
  ASSUME NEW t \in Tokens, t \notin Made, ChainInv, TypeInv,
         holds' = [holds EXCEPT ![t] = t], spent' = spent
  PROVE  Chain!Open(t)
  BY TableAssumption DEF Chain!Open, Chain!Fresh, Chain!Accepted, holds, spent, ChainInv, TypeInv, TypeOK

LEMMA RenewStep ==
  ASSUME NEW s \in Tokens, NEW t \in Tokens, t \notin Made, ChainInv, TypeInv,
         sessions[s] # None,
         holds' = [holds EXCEPT ![s] = t], spent' = spent \cup {holds[s]}
  PROVE  Chain!Renew(s, t)
  BY TableAssumption DEF Chain!Renew, Chain!Fresh, Chain!Accepted, holds, spent, ChainInv, TypeInv, TypeOK, SessionRow

LEMMA WasteStep ==
  ASSUME NEW t \in Tokens, t \notin Made, ChainInv, TypeInv,
         holds' = holds, spent' = spent \cup {t}
  PROVE  Chain!Waste(t)
  BY TableAssumption DEF Chain!Waste, Chain!Fresh, Chain!Accepted, holds, spent, ChainInv, TypeInv, TypeOK

LEMMA DeletesClose ==
  ASSUME TypeInv, ChainInv, NEW S, DeleteSessions(S), Made' = Made
  PROVE  ChainStep
  <1>0. PICK C \in SUBSET Tokens : C = {s \in S \cap Tokens : sessions[s] # None}
    OBVIOUS
  <1>1. \A s \in Tokens : sessions'[s] = IF s \in C THEN None ELSE sessions[s]
    BY <1>0 DEF DeleteSessions
  <1>2. \A s \in C : s \in Tokens /\ holds[s] # None /\ holds[s] = sessions[s].token
    BY <1>0, TableAssumption DEF holds, TypeInv, TypeOK, SessionRow
  <1>3. holds' = [s \in Tokens |-> IF s \in C THEN None ELSE holds[s]]
    BY <1>1 DEF holds
  <1>4. spent' = spent \cup {holds[s] : s \in C}
    <2>1. ASSUME NEW t \in Made
          PROVE  SessionsWith(t)' = {} <=> SessionsWith(t) = {} \/ \E s \in C : t = holds[s]
      <3>1. ASSUME NEW s \in C, t = holds[s] PROVE SessionsWith(t)' = {}
        <4>1. s \in SessionsWith(t)
          BY <1>0, <1>2, <3>1 DEF SessionsWith
        <4>2. \A v \in SessionsWith(t) : v = s
          BY <4>1, SessionOfToken DEF SessionsWith
        <4>3. \A v \in SessionsWith(t)' : v \in SessionsWith(t) /\ v \notin C
          BY <1>1 DEF SessionsWith
        <4> QED BY <4>2, <4>3
      <3>2. SessionsWith(t) = {} => SessionsWith(t)' = {}
        BY <1>1 DEF SessionsWith
      <3>3. ASSUME SessionsWith(t)' = {}, NEW s \in SessionsWith(t)
            PROVE  s \in C /\ t = holds[s]
        BY <1>0, <1>1, <3>3 DEF SessionsWith, holds
      <3> QED BY <3>1, <3>2, <3>3
    <2>2. \A s \in C : holds[s] \in Made
      BY <1>0, <1>2 DEF ChainInv
    <2>3. \A t : t \in spent' <=> t \in Made /\ SessionsWith(t)' = {}
      BY DEF spent
    <2>4. \A t : t \in spent <=> t \in Made /\ SessionsWith(t) = {}
      BY DEF spent
    <2>5. \A t : t \in spent' <=> t \in spent \cup {holds[s] : s \in C}
      BY <2>1, <2>2, <2>3, <2>4
    <2> QED BY <2>5
  <1>5. Chain!Close(C)
    BY <1>2, <1>3, <1>4, CloseStep
  <1> QED BY <1>5 DEF ChainStep, Chain!Next

LEMMA TableUntouched ==
  ASSUME UNCHANGED sessions, Made' = Made PROVE ChainStep
  BY DEF ChainStep, holds, spent, SessionsWith

-----------------------------------------------------------------------------
(* Steps that store a token.                                               *)

LEMMA InsertOpens ==
  ASSUME TypeInv, ChainInv, NEW w \in Workers, LoginInsert(w)
  PROVE  ChainStep
  <1>1. PICK t \in Unused :
          /\ pairs' = [pairs EXCEPT ![t] = NewPair(req[w].user, req[w].role, t, FALSE)]
          /\ InsertSession(t, req[w].user)
    BY DEF LoginInsert
  <1>2. t \in Tokens /\ t \notin Made /\ sessions[t] = None
    BY DEF Unused, ChainInv
  <1>3. NewPair(req[w].user, req[w].role, t, FALSE) # None
    <2>1. req[w].user \in UserIds /\ req[w] \in Request
      BY DEF LoginInsert, TypeInv, TypeOK, RequestsSound, Sound
    <2>2. NewPair(req[w].user, req[w].role, t, FALSE) \in Pair
      BY <1>2, <2>1, ConfigAssumption DEF NewPair, Pair, Request, TypeInv, TypeOK
    <2> QED BY <2>2, RowAssumption
  <1>4. Made' = Made \cup {t}
    BY <1>1, <1>2, <1>3 DEF Made, TypeInv, TypeOK
  <1>5. CASE Exists(req[w].user)
    <2> DEFINE row == [user |-> req[w].user, token |-> t, expires |-> now + RefreshTokenTTL]
    <2>1. sessions' = [sessions EXCEPT ![t] = row] /\ row # None /\ row.token = t
      <3>1. req[w].user \in UserIds /\ now + RefreshTokenTTL \in Nat
        BY ConfigAssumption DEF LoginInsert, TypeInv, TypeOK, RequestsSound, Sound
      <3>2. row \in SessionRow
        BY <1>2, <3>1 DEF SessionRow
      <3> QED BY <1>1, <1>5, <3>2, RowAssumption DEF InsertSession
    <2> HIDE DEF row
    <2>2. sessions'[t] = row /\ \A s \in Tokens : s # t => sessions'[s] = sessions[s]
      BY <1>2, <2>1 DEF TypeInv, TypeOK
    <2>3. holds' = [holds EXCEPT ![t] = t]
      <3>1. sessions'[t] # None /\ sessions'[t].token = t
        BY <2>1, <2>2
      <3> QED BY <1>2, <2>2, <3>1 DEF holds
    <2>4. t \in SessionsWith(t)'
      BY <1>2, <2>1, <2>2 DEF SessionsWith
    <2>5. \A v \in Made : SessionsWith(v)' = SessionsWith(v)
      BY <1>2, <2>1, <2>2 DEF SessionsWith
    <2>6. spent' = spent
      BY <1>4, <2>4, <2>5 DEF spent
    <2> QED BY <1>2, <2>3, <2>6, OpenStep DEF ChainStep, Chain!Next
  <1>6. CASE ~Exists(req[w].user)
    <2>1. sessions' = sessions
      BY <1>1, <1>6 DEF InsertSession
    <2>2. SessionsWith(t) = {}
      BY <1>2 DEF SessionsWith, ChainInv
    <2>3. holds' = holds /\ spent' = spent \cup {t}
      BY <1>4, <2>1, <2>2 DEF holds, spent, SessionsWith
    <2> QED BY <1>2, <2>3, WasteStep DEF ChainStep, Chain!Next
  <1> QED BY <1>5, <1>6

LEMMA RotateRenews ==
  ASSUME TypeInv, ChainInv, NEW w \in Workers, RefreshRotate(w)
  PROVE  ChainStep
  <1>0. PICK old \in Made : old = req[w].token
    BY DEF RefreshRotate, ChainInv
  <1>1. PICK t \in Unused :
          /\ pairs' = [pairs EXCEPT ![t] = NewPair(req[w].user, req[w].role, req[w].sid, TRUE)]
          /\ RotateSession(old, t)
    BY <1>0 DEF RefreshRotate
  <1>2. t \in Tokens /\ t \notin Made /\ SessionsWith(t) = {}
    BY DEF Unused, ChainInv, SessionsWith
  <1>3. NewPair(req[w].user, req[w].role, req[w].sid, TRUE) # None
    <2>1. req[w].user \in UserIds /\ req[w].sid \in Tokens /\ req[w] \in Request
      BY DEF RefreshRotate, TypeInv, TypeOK, RequestsSound, Sound
    <2>2. NewPair(req[w].user, req[w].role, req[w].sid, TRUE) \in Pair
      BY <2>1, ConfigAssumption DEF NewPair, Pair, Request, TypeInv, TypeOK
    <2> QED BY <2>2, RowAssumption
  <1>4. Made' = Made \cup {t}
    BY <1>1, <1>2, <1>3 DEF Made, TypeInv, TypeOK
  <1>5. CASE SessionsWith(old) = {}
    <2>1. sessions' = sessions
      BY <1>1, <1>5 DEF RotateSession, TypeInv, TypeOK
    <2>2. holds' = holds /\ spent' = spent \cup {t}
      BY <1>2, <1>4, <2>1 DEF holds, spent, SessionsWith
    <2> QED BY <1>2, <2>2, WasteStep DEF ChainStep, Chain!Next
  <1>6. ASSUME NEW s \in SessionsWith(old) PROVE ChainStep
    <2>1. s \in Tokens /\ sessions[s] # None /\ sessions[s].token = old /\ sessions[s] \in SessionRow
      BY DEF SessionsWith, TypeInv, TypeOK
    <2>2. \A v \in SessionsWith(old) : v = s
      BY <2>1, SessionOfToken DEF SessionsWith
    <2> DEFINE row == [sessions[s] EXCEPT !.token = t, !.expires = now + RefreshTokenTTL]
    <2>3. row # None /\ row.token = t
      <3>1. now + RefreshTokenTTL \in Nat
        BY ConfigAssumption DEF TypeInv, TypeOK
      <3>2. row \in SessionRow /\ row.token = t
        BY <1>2, <2>1, <3>1 DEF SessionRow
      <3> QED BY <3>2, RowAssumption
    <2>4. sessions'[s] = row /\ \A v \in Tokens : v # s => sessions'[v] = sessions[v]
      BY <1>1, <1>6, <2>1, <2>2 DEF RotateSession
    <2> HIDE DEF row
    <2>5. holds' = [holds EXCEPT ![s] = t] /\ holds[s] = old
      BY <2>1, <2>3, <2>4 DEF holds
    <2>6. s \in SessionsWith(t)'
      BY <2>1, <2>3, <2>4 DEF SessionsWith
    <2>7. SessionsWith(old)' = {}
      BY <1>2, <2>2, <2>3, <2>4 DEF SessionsWith
    <2>8. \A v \in Made : v # old => SessionsWith(v)' = SessionsWith(v)
      BY <1>2, <2>1, <2>3, <2>4 DEF SessionsWith
    <2>9. spent' = spent \cup {holds[s]}
      BY <1>4, <2>5, <2>6, <2>7, <2>8 DEF spent
    <2> QED BY <1>2, <2>1, <2>5, <2>9, RenewStep DEF ChainStep, Chain!Next
  <1> QED BY <1>5, <1>6

-----------------------------------------------------------------------------
(* What the other steps do to the table, the pairs and the requests.       *)

Refreshing == {"refresh_user", "refresh_rotate"}

NoNewRefresh == \A v \in Workers : req'[v].pc \in Refreshing =>
  /\ req[v].pc \in Refreshing
  /\ req'[v].token = req[v].token /\ req'[v].sid = req[v].sid /\ req'[v].user = req[v].user

PairsKept == \A t \in Made :
  t \in Made' /\ pairs'[t].sid = pairs[t].sid /\ pairs'[t].user = pairs[t].user

TableStep ==
  /\ UNCHANGED sessions \/ \E S \in SUBSET Tokens : DeleteSessions(S)
  /\ Made' = Made /\ PairsKept

LEMMA TableStepRefines == TypeInv /\ ChainInv /\ TableStep => ChainStep
  BY DeletesClose, TableUntouched DEF TableStep

LEMMA TableStepKeeps ==
  ASSUME TypeInv, ChainInv, TableStep, NoNewRefresh PROVE ChainInv'
  <1>1. \A s \in Tokens : sessions'[s] # None => sessions'[s] = sessions[s]
    BY DEF TableStep, DeleteSessions
  <1>2. ASSUME NEW s \in Tokens, sessions'[s] # None
        PROVE  /\ s \in Made' /\ sessions'[s].token \in Made'
               /\ pairs'[sessions'[s].token].sid = s
               /\ pairs'[sessions'[s].token].user = sessions'[s].user
    BY <1>1, <1>2 DEF ChainInv, TableStep, PairsKept
  <1>3. ASSUME NEW v \in Workers, req'[v].pc \in Refreshing
        PROVE  /\ req'[v].token \in Made'
               /\ pairs'[req'[v].token].sid = req'[v].sid
               /\ pairs'[req'[v].token].user = req'[v].user
    BY <1>3 DEF ChainInv, NoNewRefresh, TableStep, PairsKept, Refreshing
  <1> QED BY <1>2, <1>3 DEF ChainInv, Refreshing

LEMMA SamePairs == UNCHANGED pairs => Made' = Made /\ PairsKept
  BY DEF Made, PairsKept

LEMMA ReceiveTable ==
  ASSUME TypeInv, NEW w \in Workers, Receive(w) PROVE TableStep
  <1>1. \A t : SessionsWith(t) \subseteq Tokens /\ SessionsOf(t) \subseteq Tokens
    BY DEF SessionsWith, SessionsOf
  <1>2. UNCHANGED pairs
    BY DEF Receive, Refuse, vars, LoginSelect, Logout, RefreshSelect, RevokeSession,
      ChangePassword, CreateUser, UpdateUser, DeleteUser, UnlockUser,
      TrustDevice, RevokeDevice, DeleteDevice
  <1>3. UNCHANGED sessions \/ \E S \in SUBSET Tokens : DeleteSessions(S)
    <2>1. CASE UNCHANGED sessions
      BY <2>1
    <2>2. ASSUME NEW t \in Tokens, Logout(w, t) \/ RevokeSession(w, t)
          PROVE  \E S \in SUBSET Tokens : DeleteSessions(S)
      BY <1>1, <2>2 DEF Logout, RevokeSession
    <2>3. ASSUME NEW u \in UserIds, DeleteUser(w, u)
          PROVE  UNCHANGED sessions \/ \E S \in SUBSET Tokens : DeleteSessions(S)
      BY <1>1, <2>3 DEF DeleteUser, DeleteUserRow
    <2> QED BY <2>1, <2>2, <2>3 DEF Receive, Refuse, vars, LoginSelect, RefreshSelect,
          ChangePassword, CreateUser, UpdateUser, UnlockUser,
          TrustDevice, RevokeDevice, DeleteDevice
  <1> QED BY <1>2, <1>3, SamePairs DEF TableStep

LEMMA ContinueTable ==
  ASSUME TypeInv, NEW w \in Workers, Continue(w), ~LoginInsert(w), ~RefreshRotate(w)
  PROVE  TableStep
  <1>1. \A t : SessionsWith(t) \subseteq Tokens /\ SessionsOf(t) \subseteq Tokens
    BY DEF SessionsWith, SessionsOf
  <1>2. CASE Audit(w)
    <2> DEFINE t == req[w].token
    <2>1. UNCHANGED sessions
      BY <1>2 DEF Audit
    <2>2. CASE t = None
      BY <1>2, <2>1, <2>2, SamePairs DEF Audit, TableStep
    <2>3. CASE t # None
      <3>1. t \in Made /\ t \in Tokens /\ pairs[t] \in Pair
        BY <1>2, <2>3 DEF Audit, TypeInv, TypeOK, RequestsSound, Sound, Made
      <3>2. pairs' = [pairs EXCEPT ![t] = [pairs[t] EXCEPT !.sent = TRUE]]
        BY <1>2, <2>3, <3>1 DEF Audit, TypeInv, TypeOK
      <3>3. /\ [pairs[t] EXCEPT !.sent = TRUE] \in Pair
            /\ [pairs[t] EXCEPT !.sent = TRUE].sid = pairs[t].sid
            /\ [pairs[t] EXCEPT !.sent = TRUE].user = pairs[t].user
        BY <3>1 DEF Pair
      <3>4. /\ pairs'[t] # None /\ pairs'[t].sid = pairs[t].sid /\ pairs'[t].user = pairs[t].user
            /\ \A v \in Tokens : v # t => pairs'[v] = pairs[v]
        BY <3>1, <3>2, <3>3, RowAssumption DEF TypeInv, TypeOK
      <3> QED BY <2>1, <3>1, <3>4 DEF TableStep, Made, PairsKept
    <2> QED BY <2>2, <2>3
  <1>3. CASE RefreshExpired(w)
    BY <1>1, <1>3, SamePairs DEF RefreshExpired, TableStep
  <1>4. CASE PasswordSessions(w)
    BY <1>1, <1>4, SamePairs DEF PasswordSessions, TableStep
  <1>5. CASE \/ LoginFailed(w) \/ LoginReset(w) \/ TrackDevice(w) \/ RefreshUser(w)
             \/ PasswordUpdate(w) \/ UpdateStep(w)
    BY <1>5, SamePairs DEF TableStep, LoginFailed, LoginReset, TrackDevice, RefreshUser,
      PasswordUpdate, UpdateStep, UpdatePassword, UpdateRole, UpdateActive
  <1> QED BY <1>2, <1>3, <1>4, <1>5
        DEF Continue, LoginStep, RefreshStep, PasswordStep

LEMMA ServeNoRefresh ==
  ASSUME TypeInv, NEW w \in Workers, NEW r, Serve(w, r), r.pc \notin Refreshing
  PROVE  NoNewRefresh
  BY DEF Serve, NoNewRefresh, TypeInv, TypeOK

LEMMA ConcludeNoRefresh ==
  ASSUME TypeInv, NEW w \in Workers, NEW claims, NEW event, Conclude(w, claims, event)
  PROVE  NoNewRefresh
  <1> DEFINE r == IF claims = None
                  THEN [Idle EXCEPT !.pc = "panicked", !.event = event]
                  ELSE [Idle EXCEPT !.pc = "audit", !.who = claims, !.event = event]
  <1>1. Serve(w, r) /\ r.pc \notin Refreshing
    BY DEF Conclude, Idle, Refreshing
  <1> HIDE DEF r
  <1> QED BY <1>1, ServeNoRefresh

LEMMA ReceiveNoRefresh ==
  ASSUME TypeInv, NEW w \in Workers, Receive(w), \A t \in Tokens : ~RefreshSelect(w, t)
  PROVE  NoNewRefresh
  <1>1. CASE Refuse(w)
    BY <1>1 DEF Refuse, vars, NoNewRefresh
  <1>2. ASSUME NEW u \in UserIds, NEW p \in Passwords, NEW d \in Fingerprints,
               LoginSelect(w, u, p, d)
        PROVE  NoNewRefresh
    <2>1. PICK n, role :
            \/ Serve(w, [Idle EXCEPT !.pc = "audit", !.event = "auth.login_failed"])
            \/ Serve(w, [Idle EXCEPT !.pc = "login_failed", !.user = u, !.fails = n])
            \/ Serve(w, [Idle EXCEPT !.pc = "login_insert", !.user = u,
                                     !.role = role, !.device = d])
      BY <1>2 DEF LoginSelect
    <2> QED BY <2>1, ServeNoRefresh DEF Idle, Refreshing
  <1>3. ASSUME NEW t \in Tokens, Logout(w, t) \/ RevokeSession(w, t) PROVE NoNewRefresh
    BY <1>3, ServeNoRefresh, ConcludeNoRefresh
      DEF Logout, RevokeSession, Return, Idle, Refreshing
  <1>4. ASSUME NEW p \in Passwords, NEW q \in Passwords, ChangePassword(w, p, q)
        PROVE  NoNewRefresh
    <2>1. PICK u : \/ Serve(w, [Idle EXCEPT !.pc = "panicked"])
                   \/ Serve(w, [Idle EXCEPT !.pc = "password_update", !.user = u, !.pwd = q])
      BY <1>4 DEF ChangePassword
    <2> QED BY <2>1, ServeNoRefresh DEF Idle, Refreshing
  <1>5. ASSUME NEW u \in UserIds, NEW p \in Passwords \cup {None},
               NEW role \in Roles \cup {None}, NEW active \in BOOLEAN \cup {None},
               UpdateUser(w, u, p, role, active)
        PROVE  NoNewRefresh
    <2>1. PICK caller : Serve(w, [Idle EXCEPT !.pc = "update_password", !.user = u,
                   !.pwd = p, !.role = role, !.active = active, !.who = caller])
      BY <1>5 DEF UpdateUser
    <2> QED BY <2>1, ServeNoRefresh DEF Idle, Refreshing
  <1>6. ASSUME NEW u \in UserIds, DeleteUser(w, u) PROVE NoNewRefresh
    <2>1. PICK c, who : \/ Serve(w, [Idle EXCEPT !.pc = "panicked", !.user = u, !.who = who])
                       \/ Conclude(w, c, "security.user_deleted")
      BY <1>6 DEF DeleteUser
    <2> QED BY <2>1, ServeNoRefresh, ConcludeNoRefresh DEF Idle, Refreshing
  <1>7. ASSUME NEW u \in UserIds, NEW p \in Passwords, NEW role \in Roles,
               CreateUser(w, u, p, role) \/ UnlockUser(w, u)
        PROVE  NoNewRefresh
    BY <1>7, ConcludeNoRefresh DEF CreateUser, UnlockUser
  <1>8. ASSUME NEW u \in UserIds, UnlockUser(w, u) PROVE NoNewRefresh
    BY <1>8, ConcludeNoRefresh DEF UnlockUser
  <1>9. ASSUME NEW row \in listed,
               TrustDevice(w, row) \/ RevokeDevice(w, row) \/ DeleteDevice(w, row)
        PROVE  NoNewRefresh
    BY <1>9, ConcludeNoRefresh DEF TrustDevice, RevokeDevice, DeleteDevice
  <1> QED BY <1>1, <1>2, <1>3, <1>4, <1>5, <1>6, <1>7, <1>8, <1>9 DEF Receive

LEMMA ContinueNoRefresh ==
  ASSUME TypeInv, NEW w \in Workers, Continue(w) PROVE NoNewRefresh
  <1>1. req[w] \in Request
    BY DEF TypeInv, TypeOK
  <1>2. CASE RefreshUser(w)
    <2>1. PICK role : Serve(w, [req[w] EXCEPT !.pc = "refresh_rotate", !.role = role])
      BY <1>2 DEF RefreshUser
    <2> DEFINE r == [req[w] EXCEPT !.pc = "refresh_rotate", !.role = role]
    <2>2. r.token = req[w].token /\ r.sid = req[w].sid /\ r.user = req[w].user
      BY <1>1 DEF Request
    <2>3. req[w].pc \in Refreshing
      BY <1>2 DEF RefreshUser, Refreshing
    <2>4. req'[w] = r /\ \A v \in Workers : v # w => req'[v] = req[v]
      BY <2>1 DEF Serve, TypeInv, TypeOK
    <2> QED BY <2>2, <2>3, <2>4 DEF NoNewRefresh
  <1>3. CASE \/ LoginFailed(w) \/ TrackDevice(w) \/ RefreshExpired(w) \/ RefreshRotate(w) \/ Audit(w)
    <2>1. PICK who, t, e :
            \/ Return(w)
            \/ Serve(w, [Idle EXCEPT !.pc = "audit", !.who = who, !.event = e])
            \/ Serve(w, [Idle EXCEPT !.pc = "audit", !.who = who, !.token = t, !.event = e])
      BY <1>3 DEF LoginFailed, TrackDevice, RefreshExpired, RefreshRotate, Audit
    <2> QED BY <2>1, ServeNoRefresh DEF Return, Idle, Refreshing
  <1>4. CASE \/ LoginInsert(w) \/ LoginReset(w) \/ PasswordUpdate(w)
             \/ UpdatePassword(w) \/ UpdateRole(w)
    <2>1. PICK t :
            \/ Serve(w, [req[w] EXCEPT !.pc = "login_reset", !.role = None, !.token = t])
            \/ Serve(w, [req[w] EXCEPT !.pc = "login_device"])
            \/ Serve(w, [req[w] EXCEPT !.pc = "password_sessions", !.pwd = None])
            \/ Serve(w, [req[w] EXCEPT !.pc = "update_role", !.pwd = None])
            \/ Serve(w, [req[w] EXCEPT !.pc = "update_active", !.role = None])
      BY <1>4 DEF LoginInsert, LoginReset, PasswordUpdate, UpdatePassword, UpdateRole
    <2> QED BY <1>1, <2>1, ServeNoRefresh DEF Request, Refreshing
  <1>5. CASE PasswordSessions(w) \/ UpdateActive(w)
    BY <1>5, ConcludeNoRefresh DEF PasswordSessions, UpdateActive
  <1> QED BY <1>2, <1>3, <1>4, <1>5
        DEF Continue, LoginStep, RefreshStep, PasswordStep, UpdateStep

-----------------------------------------------------------------------------
(* The three steps that make a chain longer keep its invariant.            *)

LEMMA InsertKeeps ==
  ASSUME TypeInv, ChainInv, NEW w \in Workers, LoginInsert(w) PROVE ChainInv'
  <1>1. PICK t \in Unused :
          /\ pairs' = [pairs EXCEPT ![t] = NewPair(req[w].user, req[w].role, t, FALSE)]
          /\ InsertSession(t, req[w].user)
    BY DEF LoginInsert
  <1>2. t \in Tokens /\ t \notin Made
    BY DEF Unused
  <1>3. req[w].user \in UserIds /\ req[w] \in Request
    BY DEF LoginInsert, TypeInv, TypeOK, RequestsSound, Sound
  <1>4. NewPair(req[w].user, req[w].role, t, FALSE) \in Pair
    BY <1>2, <1>3, ConfigAssumption DEF NewPair, Pair, Request, TypeInv, TypeOK
  <1>5. /\ t \in Made' /\ pairs'[t].sid = t /\ pairs'[t].user = req[w].user
        /\ PairsKept
    BY <1>1, <1>2, <1>4, RowAssumption DEF Made, PairsKept, NewPair, TypeInv, TypeOK
  <1>6. ASSUME NEW s \in Tokens, sessions'[s] # None
        PROVE  \/ sessions'[s] = sessions[s]
               \/ s = t /\ sessions'[s].token = t /\ sessions'[s].user = req[w].user
    BY <1>1, <1>2 DEF InsertSession, TypeInv, TypeOK
  <1>7. NoNewRefresh
    BY ContinueNoRefresh DEF Continue, LoginStep
  <1>8. ASSUME NEW s \in Tokens, sessions'[s] # None
        PROVE  /\ s \in Made' /\ sessions'[s].token \in Made'
               /\ pairs'[sessions'[s].token].sid = s
               /\ pairs'[sessions'[s].token].user = sessions'[s].user
    BY <1>5, <1>6, <1>8 DEF ChainInv, PairsKept
  <1>9. ASSUME NEW v \in Workers, req'[v].pc \in Refreshing
        PROVE  /\ req'[v].token \in Made'
               /\ pairs'[req'[v].token].sid = req'[v].sid
               /\ pairs'[req'[v].token].user = req'[v].user
    BY <1>5, <1>7, <1>9 DEF ChainInv, NoNewRefresh, PairsKept, Refreshing
  <1> QED BY <1>8, <1>9 DEF ChainInv, Refreshing

LEMMA RotateKeeps ==
  ASSUME TypeInv, ChainInv, NEW w \in Workers, RefreshRotate(w) PROVE ChainInv'
  <1>0. PICK old \in Made :
          old = req[w].token /\ pairs[old].sid = req[w].sid /\ pairs[old].user = req[w].user
    BY DEF RefreshRotate, ChainInv
  <1>1. PICK t \in Unused :
          /\ pairs' = [pairs EXCEPT ![t] = NewPair(req[w].user, req[w].role, req[w].sid, TRUE)]
          /\ RotateSession(old, t)
    BY <1>0 DEF RefreshRotate
  <1>2. t \in Tokens /\ t \notin Made
    BY DEF Unused
  <1>3. req[w].user \in UserIds /\ req[w].sid \in Tokens /\ req[w] \in Request
    BY DEF RefreshRotate, TypeInv, TypeOK, RequestsSound, Sound
  <1>4. NewPair(req[w].user, req[w].role, req[w].sid, TRUE) \in Pair
    BY <1>3, ConfigAssumption DEF NewPair, Pair, Request, TypeInv, TypeOK
  <1>5. /\ t \in Made' /\ pairs'[t].sid = req[w].sid /\ pairs'[t].user = req[w].user
        /\ PairsKept
    BY <1>1, <1>2, <1>4, RowAssumption DEF Made, PairsKept, NewPair, TypeInv, TypeOK
  <1>6. ASSUME NEW s \in Tokens, sessions'[s] # None
        PROVE  /\ s \in Made' /\ sessions'[s].token \in Made'
               /\ pairs'[sessions'[s].token].sid = s
               /\ pairs'[sessions'[s].token].user = sessions'[s].user
    <2>1. CASE s \in SessionsWith(old)
      <3>1. sessions[s] # None /\ sessions[s].token = old /\ sessions[s] \in SessionRow
        BY <2>1 DEF SessionsWith, TypeInv, TypeOK
      <3>2. s \in Made /\ pairs[old].sid = s /\ pairs[old].user = sessions[s].user
        BY <3>1 DEF ChainInv
      <3>3. sessions'[s].token = t /\ sessions'[s].user = sessions[s].user
        BY <1>1, <2>1, <3>1 DEF RotateSession, SessionRow
      <3> QED BY <1>0, <1>5, <3>2, <3>3 DEF PairsKept
    <2>2. CASE s \notin SessionsWith(old)
      <3>1. sessions'[s] = sessions[s]
        BY <1>1, <2>2 DEF RotateSession
      <3> QED BY <1>5, <1>6, <3>1 DEF ChainInv, PairsKept
    <2> QED BY <2>1, <2>2
  <1>7. NoNewRefresh
    BY ContinueNoRefresh DEF Continue, RefreshStep
  <1>8. ASSUME NEW v \in Workers, req'[v].pc \in Refreshing
        PROVE  /\ req'[v].token \in Made'
               /\ pairs'[req'[v].token].sid = req'[v].sid
               /\ pairs'[req'[v].token].user = req'[v].user
    BY <1>5, <1>7, <1>8 DEF ChainInv, NoNewRefresh, PairsKept, Refreshing
  <1> QED BY <1>6, <1>8 DEF ChainInv, Refreshing

LEMMA SelectKeeps ==
  ASSUME TypeInv, ChainInv, NEW w \in Workers, NEW t \in Tokens, RefreshSelect(w, t)
  PROVE  ChainInv'
  <1>1. Made' = Made /\ PairsKept /\ UNCHANGED <<sessions, pairs>>
    BY SamePairs DEF RefreshSelect
  <1>2. PICK s, pc :
          /\ s \in SessionsWith(t)
          /\ Serve(w, [Idle EXCEPT !.pc = pc, !.user = sessions[s].user, !.token = t, !.sid = s])
    BY DEF RefreshSelect
  <1>3. t \in Made /\ pairs[t].sid = s /\ pairs[t].user = sessions[s].user
    BY <1>2 DEF SessionsWith, ChainInv
  <1>4. /\ req'[w].token = t /\ req'[w].sid = s /\ req'[w].user = sessions[s].user
        /\ \A v \in Workers : v # w => req'[v] = req[v]
    BY <1>2 DEF Serve, Idle, TypeInv, TypeOK
  <1> QED BY <1>1, <1>3, <1>4 DEF ChainInv

LEMMA NextChain ==
  ASSUME TypeInv, ChainInv, [Next]_vars PROVE ChainInv' /\ ChainStep
  <1>1. ASSUME NEW w \in Workers, Receive(w) PROVE ChainInv' /\ ChainStep
    <2>1. ChainStep
      BY <1>1, ReceiveTable, TableStepRefines
    <2>2. ChainInv'
      BY <1>1, ReceiveTable, ReceiveNoRefresh, TableStepKeeps, SelectKeeps
    <2> QED BY <2>1, <2>2
  <1>2. ASSUME NEW w \in Workers, Continue(w) PROVE ChainInv' /\ ChainStep
    <2>1. CASE LoginInsert(w)
      BY <2>1, InsertOpens, InsertKeeps
    <2>2. CASE RefreshRotate(w)
      BY <2>2, RotateRenews, RotateKeeps
    <2>3. CASE ~LoginInsert(w) /\ ~RefreshRotate(w)
      BY <1>2, <2>3, ContinueTable, ContinueNoRefresh, TableStepRefines, TableStepKeeps
    <2> QED BY <2>1, <2>2, <2>3
  <1>3. CASE Restart \/ Tick \/ UNCHANGED vars
    <2>1. TableStep
      BY <1>3, SamePairs DEF Restart, Tick, vars, TableStep
    <2>2. NoNewRefresh
      BY <1>3 DEF Restart, Tick, vars, NoNewRefresh, Idle, Refreshing
    <2> QED BY <2>1, <2>2, TableStepRefines, TableStepKeeps
  <1> QED BY <1>1, <1>2, <1>3 DEF Next

LEMMA InitChain == Init => ChainInv
  <1> SUFFICES ASSUME Init PROVE ChainInv
    OBVIOUS
  <1>1. \A s \in Tokens : sessions[s] = None
    BY DEF Init
  <1>2. \A w \in Workers : req[w].pc = "idle"
    BY DEF Init, Idle
  <1> QED BY <1>1, <1>2 DEF ChainInv

(* The session table, under every interleaving of all the statements that  *)
(* write it, implements TokenChain: no step revives a session or a token,  *)
(* or leaves a token with two sessions (auth.go:108, 149, 189, 206, 283,   *)
(* security.go:211, 404).                                                  *)
THEOREM SessionTableIsChains == Spec => SessionsAreChains
  <1>1. Init => TypeInv /\ ChainInv
    BY InitTyped, InitChain
  <1>2. Init => Chain!Init
    BY DEF Init, Chain!Init, SessionsWith, Made
  <1>3. TypeInv /\ ChainInv /\ [Next]_vars => TypeInv' /\ ChainInv'
    BY NextTyped, NextChain
  <1>4. TypeInv /\ ChainInv /\ [Next]_vars => [Chain!Next]_(Chain!chainVars)
    BY NextChain DEF ChainStep, Chain!chainVars, holds, spent
  <1> QED BY <1>1, <1>2, <1>3, <1>4, PTL DEF Spec, SessionsAreChains, Chain!Spec

(* A refresh never gives one account the tokens of another, and a token is *)
(* only ever accepted for the session it was made for (auth.go:175-206).   *)
THEOREM TokensKeepTheirOwner == Spec => []TokensKeepOwner
  <1>1. Init => TypeInv /\ ChainInv
    BY InitTyped, InitChain
  <1>2. TypeInv /\ ChainInv /\ [Next]_vars => TypeInv' /\ ChainInv'
    BY NextTyped, NextChain
  <1>3. ChainInv => TokensKeepOwner
    BY DEF ChainInv, TokensKeepOwner
  <1> QED BY <1>1, <1>2, <1>3, PTL DEF Spec

(* What TokenChain promises therefore holds of the session table: no two   *)
(* sessions accept one token, and none accepts a token that was replaced,  *)
(* revoked or never stored.                                                *)
THEOREM NoSharedToken == Spec => []Chain!OneSessionPerToken
  <1>1. Init => TypeInv /\ ChainInv
    BY InitTyped, InitChain
  <1>2. TypeInv /\ ChainInv /\ [Next]_vars => TypeInv' /\ ChainInv'
    BY NextTyped, NextChain
  <1>3. TypeInv /\ ChainInv => Chain!OneSessionPerToken
    <2> SUFFICES ASSUME TypeInv, ChainInv PROVE Chain!OneSessionPerToken
      OBVIOUS
    <2>1. ASSUME NEW s \in Tokens, NEW t \in Tokens, holds[s] = holds[t], holds[s] # None
          PROVE  s = t
      BY <2>1 DEF holds, ChainInv
    <2>2. ASSUME NEW t \in Chain!Accepted PROVE t \notin spent
      BY <2>2 DEF Chain!Accepted, holds, spent, SessionsWith
    <2> QED BY <2>1, <2>2 DEF Chain!OneSessionPerToken, Chain!Accepted, holds, spent
  <1> QED BY <1>1, <1>2, <1>3, PTL DEF Spec
=============================================================================
