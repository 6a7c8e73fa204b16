------------------------------ MODULE AuthProofs ------------------------------
(* What TLAPS proves of Auth, for every value of its constants.            *)
EXTENDS Auth, TLAPS

LEMMA IdleIsRequest == Idle \in Request
  BY DEF Idle, Request, Pcs

LEMMA ServeTyped ==
  ASSUME req \in [Workers -> Request], NEW w \in Workers, NEW r \in Request, Serve(w, r)
  PROVE  req' \in [Workers -> Request] /\ req'[w] = r /\ \A v \in Workers \ {w} : req'[v] = req[v]
  BY DEF Serve

LEMMA UpdateUserRowTyped ==
  ASSUME users \in [UserIds -> UserRow \cup {None}], NEW u \in UserIds,
         NEW row, Exists(u) => row \in UserRow, UpdateUserRow(u, row)
  PROVE  users' \in [UserIds -> UserRow \cup {None}]
  BY DEF UpdateUserRow, Exists

LEMMA CountedTyped ==
  ASSUME now \in Nat, NEW row \in UserRow, NEW n \in Nat
  PROVE  Counted(row, n) \in UserRow
  <1>1. CASE Locks(n)
    <2>1. now + LockoutMinutes \in Nat
      BY ConfigAssumption
    <2>2. Counted(row, n) = [row EXCEPT !.failed = n, !.locked = now + LockoutMinutes]
      BY <1>1 DEF Counted
    <2> QED BY <2>1, <2>2 DEF UserRow
  <1>2. CASE ~Locks(n)
    <2>1. Counted(row, n) = [row EXCEPT !.failed = n, !.locked = row.locked]
      BY <1>2 DEF Counted
    <2> QED BY <2>1 DEF UserRow
  <1> QED BY <1>1, <1>2

LEMMA ClearedTyped ==
  ASSUME NEW row \in UserRow PROVE Cleared(row) \in UserRow
  BY DEF Cleared, UserRow

LEMMA DeleteSessionsTyped ==
  ASSUME sessions \in [Tokens -> SessionRow \cup {None}], NEW S, DeleteSessions(S)
  PROVE  sessions' \in [Tokens -> SessionRow \cup {None}]
  BY DEF DeleteSessions

LEMMA CallersTyped ==
  ASSUME pairs \in [Tokens -> Pair \cup {None}], NEW role \in Roles,
         NEW caller \in Callers(role)
  PROVE  ClaimsFromCtx(caller) \in UserIds \cup {None}
  BY RowAssumption DEF Callers, ValidToken, Sent, Made, ClaimsFromCtx, Pair

LEMMA ConcludeTyped ==
  ASSUME req \in [Workers -> Request], NEW w \in Workers, NEW event \in Events,
         NEW claims \in UserIds \cup {None}, Conclude(w, claims, event)
  PROVE  /\ req' \in [Workers -> Request]
         /\ req'[w].pc \in {"audit", "panicked"} /\ req'[w].event = event
         /\ req'[w].token = None
         /\ \A v \in Workers \ {w} : req'[v] = req[v]
  <1> DEFINE r == IF claims = None
                  THEN [Idle EXCEPT !.pc = "panicked", !.event = event]
                  ELSE [Idle EXCEPT !.pc = "audit", !.who = claims, !.event = event]
  <1>1. r \in Request /\ r.pc \in {"audit", "panicked"} /\ r.event = event /\ r.token = None
    BY IdleIsRequest DEF Idle, Request, Pcs
  <1>2. Serve(w, r)
    BY DEF Conclude
  <1> HIDE DEF r
  <1> QED BY <1>1, <1>2, ServeTyped

LEMMA IdleIsSound == Sound(Idle, Made')
  BY DEF Sound, Idle

(* A worker turns to a sound request and no pair is unmade: all are sound. *)
LEMMA RequestStep ==
  ASSUME req \in [Workers -> Request], RequestsSound, NEW w \in Workers,
         NEW r \in Request, Serve(w, r), Sound(r, Made'), Made \subseteq Made'
  PROVE  req' \in [Workers -> Request] /\ RequestsSound'
  <1>1. \A v \in Workers : Sound(req'[v], Made')
    <2> TAKE v \in Workers
    <2>1. CASE v = w
      BY <2>1, ServeTyped
    <2>2. CASE v # w
      BY <2>2, ServeTyped DEF RequestsSound, Sound
    <2> QED BY <2>1, <2>2
  <1> QED BY <1>1, ServeTyped DEF RequestsSound

LEMMA ConcludeStep ==
  ASSUME req \in [Workers -> Request], RequestsSound, NEW w \in Workers,
         NEW event \in Events, NEW claims \in UserIds \cup {None},
         Conclude(w, claims, event), Made \subseteq Made'
  PROVE  req' \in [Workers -> Request] /\ RequestsSound'
  <1>1. ASSUME NEW v \in Workers PROVE Sound(req'[v], Made')
    <2>1. CASE v = w
      BY <2>1, ConcludeTyped DEF Sound
    <2>2. CASE v # w
      BY <2>2, ConcludeTyped DEF RequestsSound, Sound
    <2> QED BY <2>1, <2>2
  <1> QED BY <1>1, ConcludeTyped DEF RequestsSound

LEMMA ReturnStep ==
  ASSUME req \in [Workers -> Request], RequestsSound, NEW w \in Workers,
         Return(w), Made \subseteq Made'
  PROVE  req' \in [Workers -> Request] /\ RequestsSound'
  BY IdleIsRequest, IdleIsSound, RequestStep DEF Return

-----------------------------------------------------------------------------
(* Type correctness.                                                       *)

TypeInv == TypeOK /\ RequestsSound

LEMMA InitTyped == Init => TypeInv
  <1> SUFFICES ASSUME Init PROVE TypeInv
    OBVIOUS
  <1>1. TypeOK
    BY IdleIsRequest, TableAssumption DEF Init, TypeOK, UserRow, Roles
  <1>2. RequestsSound
    BY DEF Init, RequestsSound, Sound, Idle
  <1> QED BY <1>1, <1>2 DEF TypeInv

(* The steps of Login.                                                     *)
LEMMA LoginTyped ==
  ASSUME TypeInv, NEW w \in Workers
  PROVE  /\ \A u \in UserIds, p \in Passwords, d \in Fingerprints :
              LoginSelect(w, u, p, d) => TypeInv'
         /\ LoginStep(w) => TypeInv'
  <1> USE DEF TypeInv
  <1>1. ASSUME NEW u \in UserIds, NEW p \in Passwords, NEW d \in Fingerprints,
               LoginSelect(w, u, p, d)
        PROVE  TypeInv'
    <2>1. Made' = Made
      BY <1>1 DEF LoginSelect, Made
    <2>2. \E r \in Request : Serve(w, r) /\ Sound(r, Made')
      <3>1. CASE Serve(w, [Idle EXCEPT !.pc = "audit", !.event = "auth.login_failed"])
        <4> DEFINE r == [Idle EXCEPT !.pc = "audit", !.event = "auth.login_failed"]
        <4>1. r \in Request
          BY IdleIsRequest DEF Request, Pcs, Events
        <4>2. Sound(r, Made')
          BY DEF Idle, Sound, Events
        <4> QED BY <3>1, <4>1, <4>2
      <3>2. ASSUME Exists(u), Serve(w, [Idle EXCEPT !.pc = "login_failed", !.user = u,
                                                   !.fails = users[u].failed])
            PROVE  \E r \in Request : Serve(w, r) /\ Sound(r, Made')
        <4> DEFINE r == [Idle EXCEPT !.pc = "login_failed", !.user = u,
                                     !.fails = users[u].failed]
        <4>1. users[u].failed \in Nat
          BY <3>2 DEF TypeOK, Exists, UserRow
        <4>2. r \in Request
          BY <4>1, IdleIsRequest DEF Request, Pcs
        <4>3. Sound(r, Made')
          BY DEF Idle, Sound
        <4> QED BY <3>2, <4>2, <4>3
      <3>3. ASSUME Exists(u), Serve(w, [Idle EXCEPT !.pc = "login_insert", !.user = u,
                                            !.role = users[u].role, !.device = d])
            PROVE  \E r \in Request : Serve(w, r) /\ Sound(r, Made')
        <4> DEFINE r == [Idle EXCEPT !.pc = "login_insert", !.user = u,
                                     !.role = users[u].role, !.device = d]
        <4>1. users[u].role \in Roles
          BY <3>3 DEF TypeOK, Exists, UserRow
        <4>2. r \in Request
          BY <4>1, IdleIsRequest DEF Request, Pcs
        <4>3. Sound(r, Made')
          BY DEF Idle, Sound
        <4> QED BY <3>3, <4>2, <4>3
      <3> QED BY <1>1, <3>1, <3>2, <3>3 DEF LoginSelect
    <2> QED BY <1>1, <2>1, <2>2, RequestStep
          DEF LoginSelect, TypeOK, accountVars, historyVars, deviceVars
  <1>2. CASE LoginFailed(w)
    <2> DEFINE u == req[w].user
    <2>1. Made' = Made /\ u \in UserIds
      BY <1>2 DEF LoginFailed, Made, RequestsSound, Sound
    <2>2. req' \in [Workers -> Request] /\ RequestsSound'
      <3> DEFINE r == [Idle EXCEPT !.pc = "audit", !.who = u, !.event = "auth.login_failed"]
      <3>1. r \in Request
        BY <2>1, IdleIsRequest DEF Request, Idle, Pcs, Events
      <3>2. Sound(r, Made')
        BY <2>1 DEF Idle, Sound, Events
      <3> QED BY <1>2, <2>1, <3>1, <3>2, RequestStep DEF LoginFailed, TypeOK
    <2>3. users' \in [UserIds -> UserRow \cup {None}]
      <3>1. req[w].fails + 1 \in Nat
        BY DEF TypeOK, Request
      <3>2. Exists(u) => users[u] \in UserRow
        BY <2>1 DEF TypeOK, Exists
      <3>3. Exists(u) => Counted(users[u], req[w].fails + 1) \in UserRow
        BY <3>1, <3>2, CountedTyped DEF TypeOK
      <3> QED BY <1>2, <2>1, <3>3, UpdateUserRowTyped DEF LoginFailed, TypeOK
    <2>4. wrong' \in [UserIds -> Nat] /\ strikes' \in [UserIds -> Nat]
      BY <1>2, <2>1 DEF LoginFailed, TypeOK
    <2> QED BY <1>2, <2>1, <2>2, <2>3, <2>4 DEF LoginFailed, TypeOK, deviceVars
  <1>3. CASE LoginInsert(w)
    <2>1. PICK t \in Unused :
            /\ pairs' = [pairs EXCEPT ![t] = NewPair(req[w].user, req[w].role, t, FALSE)]
            /\ InsertSession(t, req[w].user)
            /\ Serve(w, [req[w] EXCEPT !.pc = "login_reset", !.role = None, !.token = t])
      BY <1>3 DEF LoginInsert
    <2>2. /\ req[w].user \in UserIds /\ req[w].device \in Fingerprints
          /\ t \in Tokens /\ req[w] \in Request
      BY <1>3 DEF LoginInsert, RequestsSound, Sound, Unused, TypeOK
    <2>3. NewPair(req[w].user, req[w].role, t, FALSE) \in Pair
      BY <2>2, ConfigAssumption DEF NewPair, Pair, Request, TypeOK
    <2>4. pairs' \in [Tokens -> Pair \cup {None}] /\ Made \subseteq Made' /\ t \in Made'
      BY <2>1, <2>2, <2>3, RowAssumption DEF Made, TypeOK
    <2>5. sessions' \in [Tokens -> SessionRow \cup {None}]
      BY <2>1, <2>2, ConfigAssumption DEF InsertSession, SessionRow, TypeOK
    <2>6. req' \in [Workers -> Request] /\ RequestsSound'
      <3> DEFINE r == [req[w] EXCEPT !.pc = "login_reset", !.role = None, !.token = t]
      <3>1. r \in Request
        BY <2>2 DEF Request, Pcs
      <3>2. Sound(r, Made')
        BY <2>2, <2>4 DEF Request, Pcs, Sound
      <3> QED BY <2>1, <2>4, <3>1, <3>2, RequestStep DEF TypeOK
    <2> QED BY <1>3, <2>4, <2>5, <2>6 DEF LoginInsert, TypeOK, accountVars, historyVars, deviceVars
  <1>4. CASE LoginReset(w)
    <2> DEFINE u == req[w].user
    <2>1. /\ Made' = Made /\ u \in UserIds /\ req[w].device \in Fingerprints
          /\ req[w].token \in Made /\ req[w] \in Request
      BY <1>4 DEF LoginReset, Made, RequestsSound, Sound, TypeOK
    <2>2. req' \in [Workers -> Request] /\ RequestsSound'
      <3> DEFINE r == [req[w] EXCEPT !.pc = "login_device"]
      <3>1. r \in Request
        BY <2>1 DEF Request, Pcs
      <3>2. Sound(r, Made')
        BY <2>1 DEF Request, Pcs, Sound
      <3> QED BY <1>4, <2>1, <3>1, <3>2, RequestStep DEF LoginReset, TypeOK
    <2>3. users' \in [UserIds -> UserRow \cup {None}]
      <3>1. Exists(u) => Cleared(users[u]) \in UserRow
        BY <2>1, ClearedTyped DEF TypeOK, Exists
      <3> QED BY <1>4, <2>1, <3>1, UpdateUserRowTyped DEF LoginReset, TypeOK
    <2> QED BY <1>4, <2>1, <2>2, <2>3 DEF LoginReset, TypeOK, deviceVars
  <1>5. CASE TrackDevice(w)
    <2>1. /\ Made' = Made /\ req[w].user \in UserIds /\ req[w].device \in Fingerprints
          /\ req[w].token \in Made /\ req[w] \in Request
      BY <1>5 DEF TrackDevice, Made, RequestsSound, Sound, TypeOK
    <2>2. req' \in [Workers -> Request] /\ RequestsSound'
      <3> DEFINE r == [Idle EXCEPT !.pc = "audit", !.who = req[w].user,
                                   !.token = req[w].token, !.event = "auth.login"]
      <3>1. r \in Request
        BY <2>1, IdleIsRequest, ZenonT(60) DEF Request, Idle, Pcs, Events, Made
      <3>2. Sound(r, Made')
        BY <2>1 DEF Idle, Sound, Events
      <3> QED BY <1>5, <2>1, <3>1, <3>2, RequestStep DEF TrackDevice, TypeOK
    <2>3. /\ devices' \in [Fingerprints -> DeviceRow \cup {None}]
          /\ listed' \subseteq Fingerprints \X DeviceIds
      <3>1. CASE UNCHANGED <<devices, listed>>
        BY <3>1 DEF TypeOK
      <3>2. ASSUME NEW i \in UnusedIds,
                   devices' = [devices EXCEPT ![req[w].device] = [id |-> i, trusted |-> FALSE]],
                   listed' = listed \cup {<<req[w].device, i>>}
            PROVE  /\ devices' \in [Fingerprints -> DeviceRow \cup {None}]
                   /\ listed' \subseteq Fingerprints \X DeviceIds
        <4>1. i \in DeviceIds /\ [id |-> i, trusted |-> FALSE] \in DeviceRow
          BY <3>2 DEF UnusedIds, DeviceRow
        <4> QED BY <2>1, <3>2, <4>1 DEF TypeOK
      <3> QED BY <1>5, <3>1, <3>2 DEF TrackDevice
    <2> QED BY <1>5, <2>1, <2>2, <2>3 DEF TrackDevice, TypeOK, accountVars, historyVars
  <1> QED BY <1>1, <1>2, <1>3, <1>4, <1>5 DEF LoginStep

(* Logout, refresh and the audit row that ends most handlers.              *)
LEMMA RefreshTyped ==
  ASSUME TypeInv, NEW w \in Workers
  PROVE  /\ \A t \in Tokens : Logout(w, t) \/ RefreshSelect(w, t) => TypeInv'
         /\ RefreshStep(w) \/ Audit(w) => TypeInv'
  <1> USE DEF TypeInv
  <1>1. ASSUME NEW t \in Tokens, Logout(w, t) PROVE TypeInv'
    <2>1. Made' = Made
      BY <1>1 DEF Logout, Made
    <2> QED BY <1>1, <2>1, ReturnStep, DeleteSessionsTyped
          DEF Logout, TypeOK, accountVars, historyVars, deviceVars
  <1>2. ASSUME NEW t \in Tokens, RefreshSelect(w, t) PROVE TypeInv'
    <2>1. Made' = Made /\ t \in Made
      BY <1>2 DEF RefreshSelect, Made, Sent
    <2>2. PICK s \in SessionsWith(t) : Serve(w, [Idle EXCEPT
            !.pc = IF now > sessions[s].expires THEN "refresh_expired" ELSE "refresh_user",
            !.user = sessions[s].user, !.token = t, !.sid = s])
      BY <1>2 DEF RefreshSelect
    <2>3. s \in Tokens /\ sessions[s].user \in UserIds
      BY DEF SessionsWith, TypeOK, SessionRow
    <2>4. ASSUME NEW pc \in {"refresh_expired", "refresh_user"},
                 Serve(w, [Idle EXCEPT !.pc = pc, !.user = sessions[s].user,
                                       !.token = t, !.sid = s])
          PROVE  req' \in [Workers -> Request] /\ RequestsSound'
      <3> DEFINE r == [Idle EXCEPT !.pc = pc, !.user = sessions[s].user,
                                   !.token = t, !.sid = s]
      <3>1. r \in Request
        BY <2>3, IdleIsRequest DEF Request, Pcs
      <3>2. Sound(r, Made')
        BY <2>1, <2>3 DEF Idle, Sound
      <3> QED BY <2>1, <2>4, <3>1, <3>2, RequestStep DEF TypeOK
    <2>5. req' \in [Workers -> Request] /\ RequestsSound'
      BY <2>2, <2>4
    <2> QED BY <1>2, <2>5 DEF RefreshSelect, TypeOK, accountVars, historyVars, deviceVars
  <1>3. CASE RefreshExpired(w)
    <2>1. Made' = Made
      BY <1>3 DEF RefreshExpired, Made
    <2> QED BY <1>3, <2>1, ReturnStep, DeleteSessionsTyped
          DEF RefreshExpired, TypeOK, accountVars, historyVars, deviceVars
  <1>4. CASE RefreshUser(w)
    <2>1. /\ Made' = Made /\ req[w].user \in UserIds /\ req[w].sid \in Tokens
          /\ req[w].token \in Made /\ req[w] \in Request
      BY <1>4 DEF RefreshUser, Made, RequestsSound, Sound, TypeOK
    <2>2. ASSUME NEW role \in Roles \cup {None},
                 Serve(w, [req[w] EXCEPT !.pc = "refresh_rotate", !.role = role])
          PROVE  req' \in [Workers -> Request] /\ RequestsSound'
      <3> DEFINE r == [req[w] EXCEPT !.pc = "refresh_rotate", !.role = role]
      <3>1. r \in Request
        BY <2>1 DEF Request, Pcs
      <3>2. Sound(r, Made')
        BY <2>1 DEF Request, Pcs, Sound
      <3> QED BY <2>1, <2>2, <3>1, <3>2, RequestStep DEF TypeOK
    <2>3. (IF Exists(req[w].user) THEN users[req[w].user].role ELSE None) \in Roles \cup {None}
      BY <2>1 DEF TypeOK, UserRow, Exists
    <2>4. req' \in [Workers -> Request] /\ RequestsSound'
      BY <1>4, <2>2, <2>3 DEF RefreshUser
    <2> QED BY <1>4, <2>4 DEF RefreshUser, TypeOK, accountVars, historyVars, deviceVars
  <1>5. CASE RefreshRotate(w)
    <2>1. PICK t \in Unused :
            /\ pairs' = [pairs EXCEPT ![t] = NewPair(req[w].user, req[w].role, req[w].sid, TRUE)]
            /\ RotateSession(req[w].token, t)
      BY <1>5 DEF RefreshRotate
    <2>2. /\ req[w].user \in UserIds /\ req[w].sid \in Tokens
          /\ t \in Tokens /\ req[w] \in Request
      BY <1>5 DEF RefreshRotate, RequestsSound, Sound, Unused, TypeOK
    <2>3. NewPair(req[w].user, req[w].role, req[w].sid, TRUE) \in Pair
      BY <2>2, ConfigAssumption DEF NewPair, Pair, Request, TypeOK
    <2>4. pairs' \in [Tokens -> Pair \cup {None}] /\ Made \subseteq Made'
      BY <2>1, <2>2, <2>3, RowAssumption DEF Made, TypeOK
    <2>5. sessions' \in [Tokens -> SessionRow \cup {None}]
      <3>1. ASSUME NEW s \in SessionsWith(req[w].token)
            PROVE  [sessions[s] EXCEPT !.token = t, !.expires = now + RefreshTokenTTL] \in SessionRow
        <4>1. now + RefreshTokenTTL \in Nat
          BY ConfigAssumption DEF TypeOK
        <4>2. sessions[s] \in SessionRow
          BY DEF SessionsWith, TypeOK
        <4> QED BY <2>2, <4>1, <4>2 DEF SessionRow
      <3> QED BY <2>1, <3>1 DEF RotateSession, TypeOK
    <2>6. req' \in [Workers -> Request] /\ RequestsSound'
      BY <1>5, <2>4, ReturnStep DEF RefreshRotate, TypeOK
    <2> QED BY <1>5, <2>4, <2>5, <2>6 DEF RefreshRotate, TypeOK, accountVars, historyVars, deviceVars
  <1>6. CASE Audit(w)
    <2>1. /\ req[w].event \in Events /\ req[w].who \in UserIds \cup {None}
          /\ req[w].token # None => req[w].token \in Made
      BY <1>6 DEF Audit, RequestsSound, Sound, TypeOK, Request
    <2>2. pairs' \in [Tokens -> Pair \cup {None}] /\ Made \subseteq Made'
      <3>1. CASE req[w].token = None
        BY <1>6, <3>1 DEF Audit, TypeOK, Made
      <3>2. CASE req[w].token # None
        <4>1. pairs[req[w].token] \in Pair /\ req[w].token \in Tokens
          BY <2>1, <3>2 DEF Made, TypeOK
        <4>2. [pairs[req[w].token] EXCEPT !.sent = TRUE] \in Pair
          BY <4>1 DEF Pair
        <4>3. pairs' = [pairs EXCEPT ![req[w].token] = [pairs[req[w].token] EXCEPT !.sent = TRUE]]
          BY <1>6, <3>2, <4>1 DEF Audit, TypeOK
        <4> QED BY <4>1, <4>2, <4>3, RowAssumption DEF TypeOK, Made
      <3> QED BY <3>1, <3>2
    <2>3. audit' \subseteq AuditRow
      BY <1>6, <2>1 DEF Audit, WriteAuditLog, AuditRow, TypeOK
    <2>4. req' \in [Workers -> Request] /\ RequestsSound'
      BY <1>6, <2>2, ReturnStep DEF Audit, TypeOK
    <2> QED BY <1>6, <2>2, <2>3, <2>4 DEF Audit, TypeOK, accountVars, historyVars, deviceVars
  <1> QED BY <1>1, <1>2, <1>3, <1>4, <1>5, <1>6 DEF RefreshStep

(* Changing one's password.                                                *)
LEMMA PasswordTyped ==
  ASSUME TypeInv, NEW w \in Workers
  PROVE  /\ \A p, q \in Passwords : ChangePassword(w, p, q) => TypeInv'
         /\ PasswordStep(w) => TypeInv'
  <1> USE DEF TypeInv
  <1>1. ASSUME NEW p \in Passwords, NEW q \in Passwords, ChangePassword(w, p, q)
        PROVE  TypeInv'
    <2>1. Made' = Made
      BY <1>1 DEF ChangePassword, Made
    <2>2. PICK caller \in Callers("viewer") :
            \/ Serve(w, [Idle EXCEPT !.pc = "panicked"])
            \/ /\ ClaimsFromCtx(caller) # None
               /\ Serve(w, [Idle EXCEPT !.pc = "password_update",
                                        !.user = ClaimsFromCtx(caller), !.pwd = q])
      BY <1>1 DEF ChangePassword
    <2>3. ClaimsFromCtx(caller) \in UserIds \cup {None}
      BY CallersTyped DEF TypeOK, Roles
    <2>4. \E r \in Request : Serve(w, r) /\ Sound(r, Made')
      <3>1. CASE Serve(w, [Idle EXCEPT !.pc = "panicked"])
        <4> DEFINE r == [Idle EXCEPT !.pc = "panicked"]
        <4>1. r \in Request
          BY IdleIsRequest DEF Request, Pcs
        <4>2. Sound(r, Made')
          BY DEF Idle, Sound
        <4> QED BY <3>1, <4>1, <4>2
      <3>2. ASSUME NEW u \in UserIds,
                   Serve(w, [Idle EXCEPT !.pc = "password_update", !.user = u, !.pwd = q])
            PROVE  \E r \in Request : Serve(w, r) /\ Sound(r, Made')
        <4> DEFINE r == [Idle EXCEPT !.pc = "password_update", !.user = u, !.pwd = q]
        <4>1. r \in Request
          BY IdleIsRequest DEF Request, Pcs
        <4>2. Sound(r, Made')
          BY DEF Idle, Sound
        <4> QED BY <3>2, <4>1, <4>2
      <3> QED BY <2>2, <2>3, <3>1, <3>2
    <2> QED BY <1>1, <2>1, <2>4, RequestStep
          DEF ChangePassword, TypeOK, accountVars, historyVars, deviceVars
  <1>2. CASE PasswordUpdate(w)
    <2> DEFINE u == req[w].user
    <2>1. /\ Made' = Made /\ u \in UserIds /\ req[w].pwd \in Passwords
          /\ req[w] \in Request
      BY <1>2 DEF PasswordUpdate, Made, RequestsSound, Sound, TypeOK
    <2>2. req' \in [Workers -> Request] /\ RequestsSound'
      <3> DEFINE r == [req[w] EXCEPT !.pc = "password_sessions", !.pwd = None]
      <3>1. r \in Request
        BY <2>1 DEF Request, Pcs
      <3>2. Sound(r, Made')
        BY <2>1 DEF Request, Pcs, Sound
      <3> QED BY <1>2, <2>1, <3>1, <3>2, RequestStep DEF PasswordUpdate, TypeOK
    <2>3. users' \in [UserIds -> UserRow \cup {None}]
      <3>1. Exists(u) => [users[u] EXCEPT !.pwd = req[w].pwd] \in UserRow
        BY <2>1 DEF TypeOK, Exists, UserRow
      <3> QED BY <1>2, <2>1, <3>1, UpdateUserRowTyped DEF PasswordUpdate, TypeOK
    <2> QED BY <1>2, <2>1, <2>2, <2>3 DEF PasswordUpdate, TypeOK, deviceVars, historyVars
  <1>3. CASE PasswordSessions(w)
    <2>1. Made' = Made /\ req[w].user \in UserIds
      BY <1>3 DEF PasswordSessions, Made, RequestsSound, Sound
    <2>2. "security.password_changed" \in Events
      BY DEF Events
    <2>3. req' \in [Workers -> Request] /\ RequestsSound'
      BY <1>3, <2>1, <2>2, ConcludeStep DEF PasswordSessions, TypeOK
    <2> QED BY <1>3, <2>1, <2>3, DeleteSessionsTyped
          DEF PasswordSessions, TypeOK, accountVars, historyVars, deviceVars
  <1> QED BY <1>1, <1>2, <1>3 DEF PasswordStep

(* The statements of UpdateUser.                                           *)
LEMMA UpdateTyped ==
  ASSUME TypeInv, NEW w \in Workers, UpdateStep(w)
  PROVE  TypeInv'
  <1> USE DEF TypeInv
  <1> DEFINE u == req[w].user
  <1>1. u \in UserIds /\ req[w] \in Request
    BY DEF UpdateStep, UpdatePassword, UpdateRole, UpdateActive, RequestsSound, Sound, TypeOK
  <1>2. CASE UpdatePassword(w)
    <2>1. Made' = Made
      BY <1>2 DEF UpdatePassword, Made
    <2>2. req' \in [Workers -> Request] /\ RequestsSound'
      <3> DEFINE r == [req[w] EXCEPT !.pc = "update_role", !.pwd = None]
      <3>1. r \in Request
        BY <1>1 DEF Request, Pcs
      <3>2. Sound(r, Made')
        BY <1>1 DEF Request, Pcs, Sound
      <3> QED BY <1>2, <2>1, <3>1, <3>2, RequestStep DEF UpdatePassword, TypeOK
    <2>3. users' \in [UserIds -> UserRow \cup {None}]
      <3>1. req[w].pwd # None /\ Exists(u)
              => [users[u] EXCEPT !.pwd = req[w].pwd] \in UserRow
        BY <1>1 DEF TypeOK, Exists, UserRow, Request
      <3> QED BY <1>1, <1>2, <3>1, UpdateUserRowTyped DEF UpdatePassword, TypeOK
    <2> QED BY <1>2, <2>2, <2>3 DEF UpdatePassword, TypeOK, deviceVars, historyVars
  <1>3. CASE UpdateRole(w)
    <2>1. Made' = Made
      BY <1>3 DEF UpdateRole, Made
    <2>2. req' \in [Workers -> Request] /\ RequestsSound'
      <3> DEFINE r == [req[w] EXCEPT !.pc = "update_active", !.role = None]
      <3>1. r \in Request
        BY <1>1 DEF Request, Pcs
      <3>2. Sound(r, Made')
        BY <1>1 DEF Request, Pcs, Sound
      <3> QED BY <1>3, <2>1, <3>1, <3>2, RequestStep DEF UpdateRole, TypeOK
    <2>3. users' \in [UserIds -> UserRow \cup {None}]
      <3>1. req[w].role # None /\ Exists(u)
              => [users[u] EXCEPT !.role = req[w].role] \in UserRow
        BY <1>1 DEF TypeOK, Exists, UserRow, Request
      <3> QED BY <1>1, <1>3, <3>1, UpdateUserRowTyped DEF UpdateRole, TypeOK
    <2> QED BY <1>3, <2>2, <2>3 DEF UpdateRole, TypeOK, deviceVars, historyVars
  <1>4. CASE UpdateActive(w)
    <2>1. Made' = Made /\ req[w].who \in UserIds \cup {None}
      BY <1>1, <1>4 DEF UpdateActive, Made, Request
    <2>2. "security.user_updated" \in Events
      BY DEF Events
    <2>3. req' \in [Workers -> Request] /\ RequestsSound'
      BY <1>4, <2>1, <2>2, ConcludeStep DEF UpdateActive, TypeOK
    <2>4. users' \in [UserIds -> UserRow \cup {None}]
      <3>1. req[w].active # None /\ Exists(u)
              => [users[u] EXCEPT !.active = req[w].active] \in UserRow
        BY <1>1 DEF TypeOK, Exists, UserRow, Request
      <3> QED BY <1>1, <1>4, <3>1, UpdateUserRowTyped DEF UpdateActive, TypeOK
    <2> QED BY <1>4, <2>3, <2>4 DEF UpdateActive, TypeOK, deviceVars, historyVars
  <1> QED BY <1>2, <1>3, <1>4 DEF UpdateStep

(* Account administration.                                                 *)
LEMMA AdministrationTyped ==
  ASSUME TypeInv, NEW w \in Workers
  PROVE  /\ \A u \in UserIds, p \in Passwords, role \in Roles :
              CreateUser(w, u, p, role) => TypeInv'
         /\ \A u \in UserIds, p \in Passwords \cup {None}, role \in Roles \cup {None},
              active \in BOOLEAN \cup {None} : UpdateUser(w, u, p, role, active) => TypeInv'
         /\ \A u \in UserIds : DeleteUser(w, u) \/ UnlockUser(w, u) => TypeInv'
         /\ \A s \in Tokens : RevokeSession(w, s) => TypeInv'
  <1> USE DEF TypeInv
  <1>1. \A caller \in Callers("administrator") : ClaimsFromCtx(caller) \in UserIds \cup {None}
    BY CallersTyped DEF TypeOK, Roles
  <1>2. ASSUME NEW u \in UserIds, NEW p \in Passwords, NEW role \in Roles,
               CreateUser(w, u, p, role)
        PROVE  TypeInv'
    <2>1. Made' = Made
      BY <1>2 DEF CreateUser, Made
    <2>2. req' \in [Workers -> Request] /\ RequestsSound'
      <3>1. PICK caller \in Callers("administrator") :
              Conclude(w, ClaimsFromCtx(caller), "security.user_created")
        BY <1>2 DEF CreateUser
      <3>2. "security.user_created" \in Events
        BY DEF Events
      <3> QED BY <1>1, <2>1, <3>1, <3>2, ConcludeStep DEF TypeOK
    <2>3. users' \in [UserIds -> UserRow \cup {None}]
      BY <1>2 DEF CreateUser, TypeOK, UserRow
    <2> QED BY <1>2, <2>2, <2>3 DEF CreateUser, TypeOK, deviceVars, historyVars
  <1>3. ASSUME NEW u \in UserIds, NEW p \in Passwords \cup {None},
               NEW role \in Roles \cup {None}, NEW active \in BOOLEAN \cup {None},
               UpdateUser(w, u, p, role, active)
        PROVE  TypeInv'
    <2>1. Made' = Made
      BY <1>3 DEF UpdateUser, Made
    <2>2. PICK caller \in Callers("administrator") :
            Serve(w, [Idle EXCEPT !.pc = "update_password", !.user = u, !.pwd = p,
                   !.role = role, !.active = active, !.who = ClaimsFromCtx(caller)])
      BY <1>3 DEF UpdateUser
    <2>3. req' \in [Workers -> Request] /\ RequestsSound'
      <3> DEFINE r == [Idle EXCEPT !.pc = "update_password", !.user = u, !.pwd = p,
                   !.role = role, !.active = active, !.who = ClaimsFromCtx(caller)]
      <3>1. r \in Request
        BY <1>1, IdleIsRequest, ZenonT(60) DEF Request, Pcs
      <3>2. Sound(r, Made')
        BY DEF Idle, Sound
      <3> QED BY <2>1, <2>2, <3>1, <3>2, RequestStep DEF TypeOK
    <2> QED BY <1>3, <2>3 DEF UpdateUser, TypeOK, accountVars, deviceVars, historyVars
  <1>4. ASSUME NEW u \in UserIds, DeleteUser(w, u) PROVE TypeInv'
    <2>1. Made' = Made
      BY <1>4 DEF DeleteUser, Made
    <2>2. PICK caller \in Callers("administrator") :
            \/ /\ Serve(w, [Idle EXCEPT !.pc = "panicked", !.user = u, !.who = caller])
               /\ UNCHANGED <<users, sessions>>
            \/ /\ DeleteUserRow(u)
               /\ Conclude(w, ClaimsFromCtx(caller), "security.user_deleted")
      BY <1>4 DEF DeleteUser
    <2>3. req' \in [Workers -> Request] /\ RequestsSound'
      <3>1. CASE Serve(w, [Idle EXCEPT !.pc = "panicked", !.user = u, !.who = caller])
        <4> DEFINE r == [Idle EXCEPT !.pc = "panicked", !.user = u, !.who = caller]
        <4>1. caller \in UserIds
          BY RowAssumption DEF Callers, ValidToken, Sent, Made, Pair, TypeOK
        <4>2. r \in Request
          BY <4>1, IdleIsRequest DEF Request, Pcs
        <4>3. Sound(r, Made')
          BY DEF Idle, Sound
        <4> QED BY <2>1, <3>1, <4>2, <4>3, RequestStep DEF TypeOK
      <3>2. CASE Conclude(w, ClaimsFromCtx(caller), "security.user_deleted")
        <4>1. "security.user_deleted" \in Events
          BY DEF Events
        <4> QED BY <1>1, <2>1, <3>2, <4>1, ConcludeStep DEF TypeOK
      <3> QED BY <2>2, <3>1, <3>2
    <2>4. /\ users' \in [UserIds -> UserRow \cup {None}]
          /\ sessions' \in [Tokens -> SessionRow \cup {None}]
      <3>1. CASE UNCHANGED <<users, sessions>>
        BY <3>1 DEF TypeOK
      <3>2. CASE users' = [users EXCEPT ![u] = None] /\ DeleteSessions(SessionsOf(u))
        BY <3>2, DeleteSessionsTyped DEF TypeOK
      <3> QED BY <2>2, <3>1, <3>2 DEF DeleteUserRow
    <2> QED BY <1>4, <2>3, <2>4 DEF DeleteUser, TypeOK, deviceVars, historyVars
  <1>5. ASSUME NEW u \in UserIds, UnlockUser(w, u) PROVE TypeInv'
    <2>1. Made' = Made
      BY <1>5 DEF UnlockUser, Made
    <2>2. req' \in [Workers -> Request] /\ RequestsSound'
      <3>1. PICK caller \in Callers("administrator") :
              Conclude(w, ClaimsFromCtx(caller), "security.user_unlocked")
        BY <1>5 DEF UnlockUser
      <3>2. "security.user_unlocked" \in Events
        BY DEF Events
      <3> QED BY <1>1, <2>1, <3>1, <3>2, ConcludeStep DEF TypeOK
    <2>3. users' \in [UserIds -> UserRow \cup {None}]
      <3>1. Exists(u) => Cleared(users[u]) \in UserRow
        BY ClearedTyped DEF TypeOK, Exists
      <3> QED BY <1>5, <3>1, UpdateUserRowTyped DEF UnlockUser, TypeOK
    <2> QED BY <1>5, <2>2, <2>3 DEF UnlockUser, TypeOK, deviceVars
  <1>6. ASSUME NEW s \in Tokens, RevokeSession(w, s) PROVE TypeInv'
    <2>1. Made' = Made
      BY <1>6 DEF RevokeSession, Made
    <2>2. req' \in [Workers -> Request] /\ RequestsSound'
      <3>1. PICK caller \in Callers("administrator") :
              Conclude(w, ClaimsFromCtx(caller), "security.session_revoked")
        BY <1>6 DEF RevokeSession
      <3>2. "security.session_revoked" \in Events
        BY DEF Events
      <3> QED BY <1>1, <2>1, <3>1, <3>2, ConcludeStep DEF TypeOK
    <2> QED BY <1>6, <2>2, DeleteSessionsTyped
          DEF RevokeSession, TypeOK, accountVars, historyVars, deviceVars
  <1> QED BY <1>2, <1>3, <1>4, <1>5, <1>6

(* Administration of devices.                                              *)
LEMMA DevicesTyped ==
  ASSUME TypeInv, NEW w \in Workers, NEW row \in listed,
         TrustDevice(w, row) \/ RevokeDevice(w, row) \/ DeleteDevice(w, row)
  PROVE  TypeInv'
  <1> USE DEF TypeInv
  <1>1. Made' = Made
    BY DEF TrustDevice, RevokeDevice, DeleteDevice, Made
  <1>2. PICK caller \in Callers("administrator") : \E event \in Events :
          Conclude(w, ClaimsFromCtx(caller), event)
    BY DEF TrustDevice, RevokeDevice, DeleteDevice, Events
  <1>3. ClaimsFromCtx(caller) \in UserIds \cup {None}
    BY CallersTyped DEF TypeOK, Roles
  <1>4. req' \in [Workers -> Request] /\ RequestsSound'
    BY <1>1, <1>2, <1>3, ConcludeStep DEF TypeOK
  <1>5. ASSUME NEW trusted \in BOOLEAN, SetTrust(row[2], trusted)
        PROVE  devices' \in [Fingerprints -> DeviceRow \cup {None}]
    <2>1. ASSUME NEW d \in Fingerprints, devices[d] # None
          PROVE  [devices[d] EXCEPT !.trusted = trusted] \in DeviceRow
      BY <2>1 DEF TypeOK, DeviceRow
    <2> QED BY <1>5, <2>1 DEF SetTrust, TypeOK
  <1>6. CASE TrustDevice(w, row)
    BY <1>4, <1>5, <1>6 DEF TrustDevice, TypeOK, accountVars, historyVars
  <1>7. CASE RevokeDevice(w, row)
    BY <1>4, <1>5, <1>7 DEF RevokeDevice, TypeOK, accountVars, historyVars
  <1>8. CASE DeleteDevice(w, row)
    <2>1. devices' \in [Fingerprints -> DeviceRow \cup {None}]
      BY <1>8 DEF DeleteDevice, TypeOK
    <2> QED BY <1>4, <1>8, <2>1 DEF DeleteDevice, TypeOK, accountVars, historyVars
  <1> QED BY <1>6, <1>7, <1>8

LEMMA StutterTyped ==
  ASSUME TypeInv, UNCHANGED vars PROVE TypeInv'
  BY DEF TypeInv, TypeOK, RequestsSound, Sound, Made, vars

(* Every request a worker takes in, and every statement it goes on to run. *)
LEMMA ReceiveTyped ==
  ASSUME TypeInv, NEW w \in Workers, Receive(w) PROVE TypeInv'
  <1>1. CASE Refuse(w)
    BY <1>1, StutterTyped DEF Refuse
  <1>2. CASE \E u \in UserIds, p \in Passwords, d \in Fingerprints : LoginSelect(w, u, p, d)
    BY <1>2, LoginTyped
  <1>3. CASE \E t \in Tokens : Logout(w, t) \/ RefreshSelect(w, t) \/ RevokeSession(w, t)
    BY <1>3, RefreshTyped, AdministrationTyped
  <1>4. CASE \E p, q \in Passwords : ChangePassword(w, p, q)
    BY <1>4, PasswordTyped
  <1>5. CASE \E u \in UserIds, p \in Passwords, r \in Roles : CreateUser(w, u, p, r)
    BY <1>5, AdministrationTyped
  <1>6. CASE \E u \in UserIds, p \in Passwords \cup {None}, r \in Roles \cup {None},
              a \in BOOLEAN \cup {None} : UpdateUser(w, u, p, r, a)
    BY <1>6, AdministrationTyped
  <1>7. CASE \E u \in UserIds : DeleteUser(w, u) \/ UnlockUser(w, u)
    BY <1>7, AdministrationTyped
  <1>8. CASE \E row \in listed :
          TrustDevice(w, row) \/ RevokeDevice(w, row) \/ DeleteDevice(w, row)
    BY <1>8, DevicesTyped
  <1> QED BY <1>1, <1>2, <1>3, <1>4, <1>5, <1>6, <1>7, <1>8 DEF Receive

LEMMA NextTyped == TypeInv /\ [Next]_vars => TypeInv'
  <1> SUFFICES ASSUME TypeInv, [Next]_vars PROVE TypeInv'
    OBVIOUS
  <1>1. ASSUME NEW w \in Workers, Receive(w) PROVE TypeInv'
    BY <1>1, ReceiveTyped
  <1>2. ASSUME NEW w \in Workers, Continue(w) PROVE TypeInv'
    BY <1>2, LoginTyped, RefreshTyped, PasswordTyped, UpdateTyped DEF Continue
  <1>3. CASE Restart
    <2>1. Made' = Made
      BY <1>3 DEF Restart, Made
    <2>2. RequestsSound' /\ req' \in [Workers -> Request]
      BY <1>3, IdleIsRequest, IdleIsSound DEF Restart, RequestsSound
    <2> QED BY <1>3, <2>2 DEF Restart, TypeInv, TypeOK, accountVars, historyVars, deviceVars
  <1>4. CASE Tick
    <2>1. now' \in Nat
      BY <1>4 DEF Tick, TypeInv, TypeOK
    <2>2. RequestsSound'
      BY <1>4 DEF Tick, TypeInv, RequestsSound, Sound, Made
    <2> QED BY <1>4, <2>1, <2>2 DEF Tick, TypeInv, TypeOK, accountVars, historyVars, deviceVars
  <1>5. CASE UNCHANGED vars
    BY <1>5, StutterTyped
  <1> QED BY <1>1, <1>2, <1>3, <1>4, <1>5 DEF Next

(* In every reachable state, and for any number of accounts, devices and   *)
(* concurrent requests, the tables hold well-formed rows and a request     *)
(* holds the values its next statement uses.                               *)
THEOREM TypeCorrect == Spec => [](TypeOK /\ RequestsSound)
  <1>1. Init => TypeInv
    BY InitTyped
  <1>2. TypeInv /\ [Next]_vars => TypeInv'
    BY NextTyped
  <1>3. TypeInv => TypeOK /\ RequestsSound
    BY DEF TypeInv
  <1> QED BY <1>1, <1>2, <1>3, PTL DEF Spec

-----------------------------------------------------------------------------
(* Referential integrity.                                                  *)

AccountsKept == \A u \in UserIds : Exists(u) => users'[u] # None

LEMMA UpdateUserRowKeeps ==
  ASSUME NEW u \in UserIds, NEW row, Exists(u) => row \in UserRow,
         users \in [UserIds -> UserRow \cup {None}], UpdateUserRow(u, row)
  PROVE  AccountsKept
  BY RowAssumption DEF UpdateUserRow, AccountsKept, Exists

(* The statements that write a row of users leave every account in place.  *)
LEMMA UpdatesKeepAccounts ==
  ASSUME TypeInv, NEW w \in Workers
  PROVE  /\ LoginStep(w) \/ PasswordStep(w) \/ UpdateStep(w) => AccountsKept
         /\ \A u \in UserIds : UnlockUser(w, u) => AccountsKept
         /\ \A u \in UserIds, p \in Passwords, r \in Roles :
              CreateUser(w, u, p, r) => AccountsKept
  <1> USE DEF TypeInv
  <1> DEFINE u == req[w].user
  <1>1. UNCHANGED users => AccountsKept
    BY DEF AccountsKept, Exists
  <1>2. ASSUME NEW v \in UserIds, Exists(v)
        PROVE  /\ users[v] \in UserRow /\ Cleared(users[v]) \in UserRow
               /\ \A n \in Nat : Counted(users[v], n) \in UserRow
               /\ \A p \in Passwords : [users[v] EXCEPT !.pwd = p] \in UserRow
               /\ \A r \in Roles : [users[v] EXCEPT !.role = r] \in UserRow
               /\ \A a \in BOOLEAN : [users[v] EXCEPT !.active = a] \in UserRow
    <2>1. users[v] \in UserRow
      BY <1>2 DEF TypeOK, Exists
    <2>2. Cleared(users[v]) \in UserRow /\ \A n \in Nat : Counted(users[v], n) \in UserRow
      BY <2>1, ClearedTyped, CountedTyped DEF TypeOK
    <2> QED BY <2>1, <2>2 DEF UserRow
  <1>3. ASSUME req[w].pc \notin {"idle", "panicked", "audit"}
        PROVE  u \in UserIds /\ req[w] \in Request
    BY <1>3 DEF RequestsSound, Sound, TypeOK
  <1>4. CASE LoginFailed(w)
    <2>1. u \in UserIds /\ req[w].fails + 1 \in Nat
      BY <1>3, <1>4 DEF LoginFailed, Request
    <2> QED BY <1>2, <1>4, <2>1, UpdateUserRowKeeps DEF LoginFailed, TypeOK
  <1>5. CASE LoginReset(w)
    BY <1>2, <1>3, <1>5, UpdateUserRowKeeps DEF LoginReset, TypeOK
  <1>6. CASE LoginInsert(w) \/ TrackDevice(w) \/ PasswordSessions(w)
    BY <1>1, <1>6 DEF LoginInsert, TrackDevice, PasswordSessions, accountVars
  <1>7. CASE PasswordUpdate(w)
    <2>1. u \in UserIds /\ req[w].pwd \in Passwords
      BY <1>3, <1>7 DEF PasswordUpdate, RequestsSound, Sound
    <2> QED BY <1>2, <1>7, <2>1, UpdateUserRowKeeps DEF PasswordUpdate, TypeOK
  <1>8. CASE UpdatePassword(w)
    <2>1. u \in UserIds /\ req[w].pwd \in Passwords \cup {None}
      BY <1>3, <1>8 DEF UpdatePassword, Request
    <2> QED BY <1>1, <1>2, <1>8, <2>1, UpdateUserRowKeeps DEF UpdatePassword, TypeOK
  <1>9. CASE UpdateRole(w)
    <2>1. u \in UserIds /\ req[w].role \in Roles \cup {None}
      BY <1>3, <1>9 DEF UpdateRole, Request
    <2> QED BY <1>1, <1>2, <1>9, <2>1, UpdateUserRowKeeps DEF UpdateRole, TypeOK
  <1>10. CASE UpdateActive(w)
    <2>1. u \in UserIds /\ req[w].active \in BOOLEAN \cup {None}
      BY <1>3, <1>10 DEF UpdateActive, Request
    <2> QED BY <1>1, <1>2, <1>10, <2>1, UpdateUserRowKeeps DEF UpdateActive, TypeOK
  <1>11. ASSUME NEW v \in UserIds, UnlockUser(w, v) PROVE AccountsKept
    BY <1>2, <1>11, UpdateUserRowKeeps DEF UnlockUser, TypeOK
  <1>12. ASSUME NEW v \in UserIds, NEW p \in Passwords, NEW r \in Roles,
                CreateUser(w, v, p, r)
         PROVE  AccountsKept
    <2>1. [active |-> TRUE, role |-> r, pwd |-> p, failed |-> 0, locked |-> 0] \in UserRow
      BY DEF UserRow
    <2> QED BY <1>12, <2>1, RowAssumption DEF CreateUser, AccountsKept, Exists, TypeOK
  <1> QED BY <1>4, <1>5, <1>6, <1>7, <1>8, <1>9, <1>10, <1>11, <1>12
        DEF LoginStep, PasswordStep, UpdateStep

LEMMA IntegrityStep ==
  ASSUME AccountsKept,
         TypeOK,
         \A s \in Tokens : sessions'[s] # None =>
            sessions'[s].user \in UserIds /\ Exists(sessions'[s].user),
         \A a \in audit' : a.user # None => a.user \in UserIds /\ Exists(a.user)
  PROVE  ReferentialIntegrity'
  BY DEF ReferentialIntegrity, AccountsKept, Exists

(* Statements that add neither a session nor an audit row.                 *)
LEMMA IntegrityKept ==
  ASSUME TypeOK, ReferentialIntegrity, AccountsKept, UNCHANGED audit,
         UNCHANGED sessions \/ \E S \in SUBSET Tokens : DeleteSessions(S)
  PROVE  ReferentialIntegrity'
  <1>1. \A s \in Tokens : sessions'[s] # None => sessions'[s] = sessions[s]
    BY DEF DeleteSessions
  <1>2. \A s \in Tokens : sessions[s] # None =>
          sessions[s].user \in UserIds /\ Exists(sessions[s].user)
    BY DEF ReferentialIntegrity, TypeOK, SessionRow
  <1>3. \A a \in audit' : a.user # None => a.user \in UserIds /\ Exists(a.user)
    BY DEF ReferentialIntegrity, TypeOK, AuditRow
  <1> QED BY <1>1, <1>2, <1>3, IntegrityStep

LEMMA InsertsIntegrity ==
  ASSUME TypeInv, ReferentialIntegrity, NEW w \in Workers,
         LoginInsert(w) \/ RefreshRotate(w) \/ Audit(w)
  PROVE  ReferentialIntegrity'
  <1> USE DEF TypeInv
  <1>1. AccountsKept
    BY DEF LoginInsert, RefreshRotate, Audit, accountVars, AccountsKept, Exists
  <1>2. \A s \in Tokens : sessions[s] # None =>
          sessions[s].user \in UserIds /\ Exists(sessions[s].user)
    BY DEF ReferentialIntegrity, TypeOK, SessionRow
  <1>3. \A a \in audit : a.user # None => a.user \in UserIds /\ Exists(a.user)
    BY DEF ReferentialIntegrity, TypeOK, AuditRow
  <1>4. CASE LoginInsert(w)
    <2>1. PICK t \in Unused : InsertSession(t, req[w].user)
      BY <1>4 DEF LoginInsert
    <2>2. req[w].user \in UserIds
      BY <1>4 DEF LoginInsert, RequestsSound, Sound
    <2>3. \A s \in Tokens : sessions'[s] # None =>
            sessions'[s].user \in UserIds /\ Exists(sessions'[s].user)
      BY <1>2, <2>1, <2>2 DEF InsertSession, TypeOK
    <2> QED BY <1>1, <1>3, <1>4, <2>3, IntegrityStep DEF LoginInsert
  <1>5. CASE RefreshRotate(w)
    <2>1. PICK t \in Unused : RotateSession(req[w].token, t)
      BY <1>5 DEF RefreshRotate
    <2>2. ASSUME NEW s \in Tokens, sessions'[s] # None
          PROVE  sessions[s] # None /\ sessions'[s].user = sessions[s].user
      <3>1. CASE s \in SessionsWith(req[w].token)
        <4>1. sessions[s] \in SessionRow /\ sessions[s] # None
          BY <3>1 DEF SessionsWith, TypeOK
        <4>2. sessions'[s] = [sessions[s] EXCEPT !.token = t,
                                                 !.expires = now + RefreshTokenTTL]
          BY <2>1, <3>1 DEF RotateSession
        <4> QED BY <4>1, <4>2 DEF SessionRow
      <3>2. CASE s \notin SessionsWith(req[w].token)
        BY <2>1, <2>2, <3>2 DEF RotateSession
      <3> QED BY <3>1, <3>2
    <2> QED BY <1>1, <1>2, <1>3, <1>5, <2>2, IntegrityStep DEF RefreshRotate
  <1>6. CASE Audit(w)
    <2>1. req[w].who \in UserIds \cup {None}
      BY DEF TypeOK, Request
    <2>2. \A a \in audit' : a.user # None => a.user \in UserIds /\ Exists(a.user)
      BY <1>3, <1>6, <2>1 DEF Audit, WriteAuditLog
    <2> QED BY <1>1, <1>2, <1>6, <2>2, IntegrityStep DEF Audit
  <1> QED BY <1>4, <1>5, <1>6

(* DELETE FROM users takes the sessions with it, and no row that an audit  *)
(* row refers to.                                                          *)
LEMMA DeleteUserIntegrity ==
  ASSUME TypeInv, ReferentialIntegrity, NEW w \in Workers, NEW u \in UserIds,
         DeleteUser(w, u)
  PROVE  ReferentialIntegrity'
  <1> USE DEF TypeInv
  <1>1. CASE UNCHANGED <<users, sessions>>
    <2>1. AccountsKept
      BY <1>1 DEF AccountsKept, Exists
    <2> QED BY <1>1, <2>1, IntegrityKept DEF DeleteUser
  <1>2. CASE /\ ~Referenced(u) /\ users' = [users EXCEPT ![u] = None]
             /\ DeleteSessions(SessionsOf(u))
    <2>1. \A v \in UserIds : v # u => users'[v] = users[v]
      BY <1>2 DEF TypeOK
    <2>2. ASSUME NEW s \in Tokens, sessions'[s] # None PROVE users'[sessions'[s].user] # None
      <3>1. s \notin SessionsOf(u) /\ sessions'[s] = sessions[s]
        BY <1>2, <2>2 DEF DeleteSessions
      <3>2. sessions[s] # None /\ sessions[s].user # u
        BY <2>2, <3>1 DEF SessionsOf
      <3>3. sessions[s].user \in UserIds /\ users[sessions[s].user] # None
        BY <3>2 DEF ReferentialIntegrity, TypeOK, SessionRow, Exists
      <3> QED BY <2>1, <3>1, <3>2, <3>3
    <2>3. ASSUME NEW a \in audit', a.user # None PROVE users'[a.user] # None
      <3>1. a \in audit /\ a.user # u
        BY <1>2 DEF DeleteUser, Referenced
      <3>2. a.user \in UserIds /\ users[a.user] # None
        BY <2>3, <3>1 DEF ReferentialIntegrity, TypeOK, AuditRow, Exists
      <3> QED BY <2>1, <3>1, <3>2
    <2> QED BY <2>2, <2>3 DEF ReferentialIntegrity, Exists
  <1> QED BY <1>1, <1>2 DEF DeleteUser, DeleteUserRow

LEMMA NextIntegrity ==
  TypeInv /\ ReferentialIntegrity /\ [Next]_vars => ReferentialIntegrity'
  <1> SUFFICES ASSUME TypeInv, ReferentialIntegrity, [Next]_vars
               PROVE  ReferentialIntegrity'
    OBVIOUS
  <1>0. /\ \A t : SessionsWith(t) \subseteq Tokens /\ SessionsOf(t) \subseteq Tokens
        /\ UNCHANGED users => AccountsKept
        /\ TypeOK
    BY DEF SessionsWith, SessionsOf, AccountsKept, Exists, TypeInv
  <1>1. ASSUME NEW w \in Workers, Receive(w) PROVE ReferentialIntegrity'
    <2>1. CASE Refuse(w)
      BY <1>0, <2>1, IntegrityKept DEF Refuse, vars
    <2>2. ASSUME NEW u \in UserIds, NEW p \in Passwords, NEW d \in Fingerprints,
                 LoginSelect(w, u, p, d)
          PROVE  ReferentialIntegrity'
      BY <1>0, <2>2, IntegrityKept DEF LoginSelect, accountVars
    <2>3. ASSUME NEW t \in Tokens, Logout(w, t) \/ RefreshSelect(w, t) \/ RevokeSession(w, t)
          PROVE  ReferentialIntegrity'
      BY <1>0, <2>3, IntegrityKept DEF Logout, RefreshSelect, RevokeSession, accountVars
    <2>4. ASSUME NEW p \in Passwords, NEW q \in Passwords, ChangePassword(w, p, q)
          PROVE  ReferentialIntegrity'
      BY <1>0, <2>4, IntegrityKept DEF ChangePassword, accountVars
    <2>5. ASSUME NEW u \in UserIds, NEW p \in Passwords, NEW r \in Roles,
                 CreateUser(w, u, p, r)
          PROVE  ReferentialIntegrity'
      BY <1>0, <2>5, UpdatesKeepAccounts, IntegrityKept DEF CreateUser
    <2>6. ASSUME NEW u \in UserIds, NEW p \in Passwords \cup {None},
                 NEW r \in Roles \cup {None}, NEW a \in BOOLEAN \cup {None},
                 UpdateUser(w, u, p, r, a)
          PROVE  ReferentialIntegrity'
      BY <1>0, <2>6, IntegrityKept DEF UpdateUser, accountVars
    <2>7. ASSUME NEW u \in UserIds, DeleteUser(w, u) PROVE ReferentialIntegrity'
      BY <2>7, DeleteUserIntegrity
    <2>8. ASSUME NEW u \in UserIds, UnlockUser(w, u) PROVE ReferentialIntegrity'
      BY <1>0, <2>8, UpdatesKeepAccounts, IntegrityKept DEF UnlockUser
    <2>9. ASSUME NEW row \in listed,
                 TrustDevice(w, row) \/ RevokeDevice(w, row) \/ DeleteDevice(w, row)
          PROVE  ReferentialIntegrity'
      BY <1>0, <2>9, IntegrityKept DEF TrustDevice, RevokeDevice, DeleteDevice, accountVars
    <2> QED BY <1>1, <2>1, <2>2, <2>3, <2>4, <2>5, <2>6, <2>7, <2>8, <2>9 DEF Receive
  <1>2. ASSUME NEW w \in Workers, Continue(w) PROVE ReferentialIntegrity'
    <2>1. CASE LoginInsert(w) \/ RefreshRotate(w) \/ Audit(w)
      BY <2>1, InsertsIntegrity
    <2>2. CASE LoginFailed(w) \/ LoginReset(w) \/ TrackDevice(w)
      BY <1>0, <2>2, UpdatesKeepAccounts, IntegrityKept
        DEF LoginStep, LoginFailed, LoginReset, TrackDevice
    <2>3. CASE RefreshExpired(w) \/ RefreshUser(w)
      BY <1>0, <2>3, IntegrityKept DEF RefreshExpired, RefreshUser, accountVars
    <2>4. CASE PasswordStep(w)
      BY <1>0, <2>4, UpdatesKeepAccounts, IntegrityKept
        DEF PasswordStep, PasswordUpdate, PasswordSessions
    <2>5. CASE UpdateStep(w)
      BY <1>0, <2>5, UpdatesKeepAccounts, IntegrityKept
        DEF UpdateStep, UpdatePassword, UpdateRole, UpdateActive
    <2> QED BY <1>2, <2>1, <2>2, <2>3, <2>4, <2>5 DEF Continue, LoginStep, RefreshStep
  <1>3. CASE Restart \/ Tick
    BY <1>0, <1>3, IntegrityKept DEF Restart, Tick, accountVars
  <1>4. CASE UNCHANGED vars
    BY <1>0, <1>4, IntegrityKept DEF vars
  <1> QED BY <1>1, <1>2, <1>3, <1>4 DEF Next

(* However deletions of accounts interleave with logins, refreshes and the *)
(* audit rows of requests that read the account before it went, no session *)
(* and no audit row is left without its account (db.go:133, 162).          *)
THEOREM IntegrityHolds == Spec => []ReferentialIntegrity
  <1>1. Init => TypeInv /\ ReferentialIntegrity
    BY InitTyped DEF Init, ReferentialIntegrity
  <1>2. TypeInv /\ ReferentialIntegrity /\ [Next]_vars
          => TypeInv' /\ ReferentialIntegrity'
    BY NextTyped, NextIntegrity
  <1> QED BY <1>1, <1>2, PTL DEF Spec

-----------------------------------------------------------------------------
(* Lockout.                                                                *)

(* The invariant behind NoLockWithoutWrongPasswords: neither the counter   *)
(* of an account nor the copy of it that an attempt in progress has read   *)
(* ever exceeds the wrong passwords there have been.                       *)
LockoutInv ==
  /\ \A u \in UserIds : Exists(u) =>
       /\ users[u].failed <= wrong[u]
       /\ users[u].locked # 0 => wrong[u] >= MaxLoginFails
  /\ \A w \in Workers : req[w].pc = "login_failed" => req[w].fails <= wrong[req[w].user]

(* A step that starts no attempt, and one that changes no counter except   *)
(* to reset it.                                                            *)
NoNewAttempt == \A v \in Workers : req'[v].pc = "login_failed" => req'[v] = req[v]

CountsKept(row, old) ==
  \/ row.failed = 0 /\ row.locked = 0
  \/ row.failed = old.failed /\ row.locked = old.locked

RowsKeepCounts ==
  \A u \in UserIds : users'[u] # None =>
    \/ users'[u].failed = 0 /\ users'[u].locked = 0
    \/ users[u] # None /\ CountsKept(users'[u], users[u])

LEMMA LockoutKept ==
  ASSUME TypeInv, LockoutInv, NoNewAttempt, RowsKeepCounts, wrong' = wrong
  PROVE  LockoutInv'
  <1>1. ASSUME NEW u \in UserIds, users'[u] # None
        PROVE  users'[u].failed <= wrong'[u] /\ (users'[u].locked # 0 => wrong'[u] >= MaxLoginFails)
    <2>1. wrong[u] \in Nat
      BY DEF TypeInv, TypeOK
    <2>2. CASE users'[u].failed = 0 /\ users'[u].locked = 0
      BY <2>1, <2>2
    <2>3. CASE users[u] # None /\ CountsKept(users'[u], users[u])
      BY <2>1, <2>3 DEF LockoutInv, Exists, CountsKept
    <2> QED BY <1>1, <2>2, <2>3 DEF RowsKeepCounts
  <1>2. ASSUME NEW v \in Workers, req'[v].pc = "login_failed"
        PROVE  req'[v].fails <= wrong'[req'[v].user]
    BY <1>2 DEF NoNewAttempt, LockoutInv
  <1> QED BY <1>1, <1>2 DEF LockoutInv, Exists

LEMMA ServeQuiet ==
  ASSUME TypeInv, NEW w \in Workers, NEW r, Serve(w, r), r.pc # "login_failed"
  PROVE  NoNewAttempt
  BY DEF Serve, NoNewAttempt, TypeInv, TypeOK

LEMMA ConcludeQuiet ==
  ASSUME TypeInv, NEW w \in Workers, NEW claims, NEW event, Conclude(w, claims, event)
  PROVE  NoNewAttempt
  <1> DEFINE r == IF claims = None
                  THEN [Idle EXCEPT !.pc = "panicked", !.event = event]
                  ELSE [Idle EXCEPT !.pc = "audit", !.who = claims, !.event = event]
  <1>1. Serve(w, r) /\ r.pc # "login_failed"
    BY DEF Conclude, Idle
  <1> HIDE DEF r
  <1> QED BY <1>1, ServeQuiet

LEMMA ReturnQuiet ==
  ASSUME TypeInv, NEW w \in Workers, Return(w) PROVE NoNewAttempt
  BY ServeQuiet DEF Return, Idle

LEMMA RowWriteKeepsCounts ==
  ASSUME TypeInv, NEW u \in UserIds, NEW row, UpdateUserRow(u, row),
         Exists(u) => CountsKept(row, users[u])
  PROVE  RowsKeepCounts
  BY DEF UpdateUserRow, RowsKeepCounts, CountsKept, Exists, TypeInv, TypeOK

(* Every step but the two of a failing login.                              *)
LEMMA QuietContinue ==
  ASSUME TypeInv, NEW w \in Workers, Continue(w), ~LoginFailed(w)
  PROVE  NoNewAttempt /\ RowsKeepCounts /\ wrong' = wrong
  <1> USE DEF TypeInv
  <1> DEFINE u == req[w].user
  <1>1. UNCHANGED users => RowsKeepCounts
    BY DEF RowsKeepCounts, CountsKept
  <1>2. req[w] \in Request
    BY DEF TypeOK
  <1>3. CASE LoginInsert(w)
    <2>1. PICK t : Serve(w, [req[w] EXCEPT !.pc = "login_reset", !.role = None, !.token = t])
      BY <1>3 DEF LoginInsert
    <2> DEFINE r == [req[w] EXCEPT !.pc = "login_reset", !.role = None, !.token = t]
    <2>2. r.pc # "login_failed"
      BY <1>2 DEF Request
    <2> QED BY <1>1, <1>3, <2>1, <2>2, ServeQuiet DEF LoginInsert, accountVars, historyVars
  <1>4. CASE LoginReset(w)
    <2> DEFINE r == [req[w] EXCEPT !.pc = "login_device"]
    <2>1. r.pc # "login_failed" /\ Serve(w, r)
      BY <1>2, <1>4 DEF Request, LoginReset
    <2>2. u \in UserIds
      BY <1>4 DEF LoginReset, RequestsSound, Sound
    <2>3. Exists(u) => CountsKept(Cleared(users[u]), users[u])
      BY <2>2 DEF Exists, TypeOK, UserRow, Cleared, CountsKept
    <2> QED BY <1>4, <2>1, <2>2, <2>3, ServeQuiet, RowWriteKeepsCounts DEF LoginReset
  <1>5. CASE TrackDevice(w)
    <2> DEFINE r == [Idle EXCEPT !.pc = "audit", !.who = req[w].user,
                                 !.token = req[w].token, !.event = "auth.login"]
    <2>1. r.pc # "login_failed" /\ Serve(w, r)
      BY <1>5 DEF TrackDevice, Idle
    <2> QED BY <1>1, <1>5, <2>1, ServeQuiet DEF TrackDevice, accountVars, historyVars
  <1>6. CASE RefreshExpired(w) \/ RefreshRotate(w) \/ Audit(w)
    BY <1>1, <1>6, ReturnQuiet
      DEF RefreshExpired, RefreshRotate, Audit, accountVars, historyVars
  <1>7. CASE RefreshUser(w)
    <2>1. PICK role : Serve(w, [req[w] EXCEPT !.pc = "refresh_rotate", !.role = role])
      BY <1>7 DEF RefreshUser
    <2> DEFINE r == [req[w] EXCEPT !.pc = "refresh_rotate", !.role = role]
    <2>2. r.pc # "login_failed"
      BY <1>2 DEF Request
    <2> QED BY <1>1, <1>7, <2>1, <2>2, ServeQuiet DEF RefreshUser, accountVars, historyVars
  <1>8. CASE PasswordUpdate(w)
    <2> DEFINE r == [req[w] EXCEPT !.pc = "password_sessions", !.pwd = None]
    <2>1. r.pc # "login_failed" /\ Serve(w, r)
      BY <1>2, <1>8 DEF Request, PasswordUpdate
    <2>2. u \in UserIds
      BY <1>8 DEF PasswordUpdate, RequestsSound, Sound
    <2>3. Exists(u) => CountsKept([users[u] EXCEPT !.pwd = req[w].pwd], users[u])
      BY <2>2 DEF Exists, TypeOK, UserRow, CountsKept
    <2> QED BY <1>8, <2>1, <2>2, <2>3, ServeQuiet, RowWriteKeepsCounts
          DEF PasswordUpdate, historyVars
  <1>9. CASE PasswordSessions(w)
    BY <1>1, <1>9, ConcludeQuiet DEF PasswordSessions, accountVars, historyVars
  <1>10. CASE UpdatePassword(w)
    <2> DEFINE r == [req[w] EXCEPT !.pc = "update_role", !.pwd = None]
    <2>1. r.pc # "login_failed" /\ Serve(w, r)
      BY <1>2, <1>10 DEF Request, UpdatePassword
    <2>2. u \in UserIds
      BY <1>10 DEF UpdatePassword, RequestsSound, Sound
    <2>3. Exists(u) => CountsKept([users[u] EXCEPT !.pwd = req[w].pwd], users[u])
      BY <2>2 DEF Exists, TypeOK, UserRow, CountsKept
    <2> QED BY <1>1, <1>10, <2>1, <2>2, <2>3, ServeQuiet, RowWriteKeepsCounts
          DEF UpdatePassword, historyVars
  <1>11. CASE UpdateRole(w)
    <2> DEFINE r == [req[w] EXCEPT !.pc = "update_active", !.role = None]
    <2>1. r.pc # "login_failed" /\ Serve(w, r)
      BY <1>2, <1>11 DEF Request, UpdateRole
    <2>2. u \in UserIds
      BY <1>11 DEF UpdateRole, RequestsSound, Sound
    <2>3. Exists(u) => CountsKept([users[u] EXCEPT !.role = req[w].role], users[u])
      BY <2>2 DEF Exists, TypeOK, UserRow, CountsKept
    <2> QED BY <1>1, <1>11, <2>1, <2>2, <2>3, ServeQuiet, RowWriteKeepsCounts
          DEF UpdateRole, historyVars
  <1>12. CASE UpdateActive(w)
    <2>1. u \in UserIds
      BY <1>12 DEF UpdateActive, RequestsSound, Sound
    <2>2. Exists(u) => CountsKept([users[u] EXCEPT !.active = req[w].active], users[u])
      BY <2>1 DEF Exists, TypeOK, UserRow, CountsKept
    <2> QED BY <1>1, <1>12, <2>1, <2>2, ConcludeQuiet, RowWriteKeepsCounts
          DEF UpdateActive, historyVars
  <1> QED BY <1>3, <1>4, <1>5, <1>6, <1>7, <1>8, <1>9, <1>10, <1>11, <1>12
        DEF Continue, LoginStep, RefreshStep, PasswordStep, UpdateStep

LEMMA QuietReceive ==
  ASSUME TypeInv, NEW w \in Workers, Receive(w),
         \A u \in UserIds, p \in Passwords, d \in Fingerprints : ~LoginSelect(w, u, p, d)
  PROVE  NoNewAttempt /\ RowsKeepCounts /\ wrong' = wrong
  <1> USE DEF TypeInv
  <1>1. UNCHANGED users => RowsKeepCounts
    BY DEF RowsKeepCounts, CountsKept
  <1>2. CASE Refuse(w)
    BY <1>1, <1>2 DEF Refuse, vars, NoNewAttempt
  <1>3. ASSUME NEW t \in Tokens, Logout(w, t) \/ RevokeSession(w, t)
        PROVE  NoNewAttempt /\ RowsKeepCounts /\ wrong' = wrong
    BY <1>1, <1>3, ReturnQuiet, ConcludeQuiet
      DEF Logout, RevokeSession, accountVars, historyVars
  <1>4. ASSUME NEW t \in Tokens, RefreshSelect(w, t)
        PROVE  NoNewAttempt /\ RowsKeepCounts /\ wrong' = wrong
    <2>0. PICK s : Serve(w, [Idle EXCEPT
            !.pc = IF now > sessions[s].expires THEN "refresh_expired" ELSE "refresh_user",
            !.user = sessions[s].user, !.token = t, !.sid = s])
      BY <1>4 DEF RefreshSelect
    <2>1. PICK pc \in {"refresh_expired", "refresh_user"} :
            Serve(w, [Idle EXCEPT !.pc = pc, !.user = sessions[s].user, !.token = t, !.sid = s])
      BY <2>0
    <2> DEFINE r == [Idle EXCEPT !.pc = pc, !.user = sessions[s].user, !.token = t, !.sid = s]
    <2>2. r.pc # "login_failed"
      BY DEF Idle
    <2> QED BY <1>1, <1>4, <2>1, <2>2, ServeQuiet DEF RefreshSelect, accountVars, historyVars
  <1>5. ASSUME NEW p \in Passwords, NEW q \in Passwords, ChangePassword(w, p, q)
        PROVE  NoNewAttempt /\ RowsKeepCounts /\ wrong' = wrong
    <2>1. PICK u : \/ Serve(w, [Idle EXCEPT !.pc = "panicked"])
                   \/ Serve(w, [Idle EXCEPT !.pc = "password_update", !.user = u, !.pwd = q])
      BY <1>5 DEF ChangePassword
    <2>2. NoNewAttempt
      BY <2>1, ServeQuiet DEF Idle
    <2> QED BY <1>1, <1>5, <2>2 DEF ChangePassword, accountVars, historyVars
  <1>6. ASSUME NEW u \in UserIds, NEW p \in Passwords, NEW role \in Roles,
               CreateUser(w, u, p, role)
        PROVE  NoNewAttempt /\ RowsKeepCounts /\ wrong' = wrong
    <2>1. RowsKeepCounts
      BY <1>6 DEF CreateUser, RowsKeepCounts, CountsKept, TypeOK
    <2> QED BY <1>6, <2>1, ConcludeQuiet DEF CreateUser, historyVars
  <1>7. ASSUME NEW u \in UserIds, NEW p \in Passwords \cup {None},
               NEW role \in Roles \cup {None}, NEW active \in BOOLEAN \cup {None},
               UpdateUser(w, u, p, role, active)
        PROVE  NoNewAttempt /\ RowsKeepCounts /\ wrong' = wrong
    <2>1. PICK caller : Serve(w, [Idle EXCEPT !.pc = "update_password", !.user = u,
                   !.pwd = p, !.role = role, !.active = active, !.who = caller])
      BY <1>7 DEF UpdateUser
    <2>2. NoNewAttempt
      BY <2>1, ServeQuiet DEF Idle
    <2> QED BY <1>1, <1>7, <2>2 DEF UpdateUser, accountVars, historyVars
  <1>8. ASSUME NEW u \in UserIds, DeleteUser(w, u)
        PROVE  NoNewAttempt /\ RowsKeepCounts /\ wrong' = wrong
    <2>1. PICK c, who : \/ Serve(w, [Idle EXCEPT !.pc = "panicked", !.user = u, !.who = who])
                       \/ Conclude(w, c, "security.user_deleted")
      BY <1>8 DEF DeleteUser
    <2>2. NoNewAttempt
      BY <2>1, ServeQuiet, ConcludeQuiet DEF Idle
    <2>3. UNCHANGED users \/ users' = [users EXCEPT ![u] = None]
      BY <1>8 DEF DeleteUser, DeleteUserRow
    <2>4. RowsKeepCounts
      BY <2>3 DEF RowsKeepCounts, CountsKept, TypeOK
    <2> QED BY <1>8, <2>2, <2>4 DEF DeleteUser, historyVars
  <1>9. ASSUME NEW u \in UserIds, UnlockUser(w, u)
        PROVE  NoNewAttempt /\ RowsKeepCounts /\ wrong' = wrong
    <2>1. Exists(u) => CountsKept(Cleared(users[u]), users[u])
      BY DEF Exists, TypeOK, UserRow, Cleared, CountsKept
    <2> QED BY <1>9, <2>1, ConcludeQuiet, RowWriteKeepsCounts DEF UnlockUser
  <1>10. ASSUME NEW row \in listed,
                TrustDevice(w, row) \/ RevokeDevice(w, row) \/ DeleteDevice(w, row)
         PROVE  NoNewAttempt /\ RowsKeepCounts /\ wrong' = wrong
    BY <1>1, <1>10, ConcludeQuiet
      DEF TrustDevice, RevokeDevice, DeleteDevice, accountVars, historyVars
  <1> QED BY <1>2, <1>3, <1>4, <1>5, <1>6, <1>7, <1>8, <1>9, <1>10 DEF Receive

(* The two steps of a failing login: the copy that is read is in bounds,   *)
(* and one more than it is written when there has been one more mistake.   *)
LEMMA FailingLogin ==
  ASSUME TypeInv, LockoutInv, NEW w \in Workers,
         \/ LoginFailed(w)
         \/ \E u \in UserIds, p \in Passwords, d \in Fingerprints : LoginSelect(w, u, p, d)
  PROVE  LockoutInv'
  <1> USE DEF TypeInv
  <1>1. ASSUME NEW u \in UserIds, NEW p \in Passwords, NEW d \in Fingerprints,
               LoginSelect(w, u, p, d)
        PROVE  LockoutInv'
    <2>1. RowsKeepCounts /\ wrong' = wrong
      BY <1>1 DEF LoginSelect, RowsKeepCounts, CountsKept, accountVars, historyVars
    <2>2. CASE /\ Exists(u)
               /\ Serve(w, [Idle EXCEPT !.pc = "login_failed", !.user = u,
                                        !.fails = users[u].failed])
      <3>1. /\ req'[w].fails = users[u].failed /\ req'[w].user = u
            /\ \A v \in Workers : v # w => req'[v] = req[v]
        BY <2>2 DEF Serve, Idle, TypeOK
      <3> QED BY <1>1, <2>1, <2>2, <3>1
            DEF LockoutInv, LoginSelect, Exists, accountVars
    <2>3. CASE Serve(w, [Idle EXCEPT !.pc = "audit", !.event = "auth.login_failed"])
      BY <2>1, <2>3, ServeQuiet, LockoutKept DEF Idle
    <2>4. CASE Serve(w, [Idle EXCEPT !.pc = "login_insert", !.user = u,
                                     !.role = users[u].role, !.device = d])
      BY <2>1, <2>4, ServeQuiet, LockoutKept DEF Idle
    <2> QED BY <1>1, <2>2, <2>3, <2>4 DEF LoginSelect
  <1>2. CASE LoginFailed(w)
    <2> DEFINE u == req[w].user
               n == req[w].fails + 1
    <2>1. /\ u \in UserIds /\ req[w].fails \in Nat /\ req[w].fails <= wrong[u]
          /\ \A v \in UserIds : wrong[v] \in Nat
      BY <1>2 DEF LoginFailed, RequestsSound, Sound, TypeOK, Request, LockoutInv
    <2>2. wrong'[u] = wrong[u] + 1 /\ \A v \in UserIds : v # u => wrong'[v] = wrong[v]
      BY <1>2, <2>1 DEF LoginFailed, TypeOK
    <2>3. ASSUME NEW v \in UserIds, users'[v] # None
          PROVE  users'[v].failed <= wrong'[v] /\ (users'[v].locked # 0 => wrong'[v] >= MaxLoginFails)
      <3>1. CASE v # u
        BY <1>2, <2>2, <2>3, <3>1 DEF LoginFailed, UpdateUserRow, LockoutInv, Exists, TypeOK
      <3>2. CASE v = u
        <4>1. users'[u] = Counted(users[u], n) /\ users[u] \in UserRow /\ Exists(u)
          BY <1>2, <2>1, <2>3, <3>2 DEF LoginFailed, UpdateUserRow, TypeOK, Exists
        <4>2. users'[u].failed = n
          BY <4>1 DEF Counted, UserRow
        <4>3. users'[u].locked # 0 => Locks(n) \/ users[u].locked # 0
          BY <4>1 DEF Counted, UserRow
        <4>4. users[u].locked # 0 => wrong[u] >= MaxLoginFails
          BY <2>1, <4>1 DEF LockoutInv
        <4>5. MaxLoginFails \in Nat
          BY ConfigAssumption
        <4> QED BY <2>1, <2>2, <3>2, <4>2, <4>3, <4>4, <4>5 DEF Locks
      <3> QED BY <3>1, <3>2
    <2>4. ASSUME NEW v \in Workers, req'[v].pc = "login_failed"
          PROVE  req'[v].fails <= wrong'[req'[v].user]
      <3>1. v # w
        BY <1>2, <2>4 DEF LoginFailed, Serve, Idle, TypeOK
      <3>2. req'[v] = req[v]
        BY <1>2, <3>1 DEF LoginFailed, Serve, TypeOK
      <3>3. req[v].user \in UserIds /\ req[v].fails <= wrong[req[v].user] /\ req[v].fails \in Nat
        BY <2>4, <3>2 DEF LockoutInv, RequestsSound, Sound, TypeOK, Request
      <3> QED BY <2>1, <2>2, <3>2, <3>3
    <2> QED BY <2>3, <2>4 DEF LockoutInv, Exists
  <1> QED BY <1>1, <1>2

LEMMA NextLockout == TypeInv /\ LockoutInv /\ [Next]_vars => LockoutInv'
  <1> SUFFICES ASSUME TypeInv, LockoutInv, [Next]_vars PROVE LockoutInv'
    OBVIOUS
  <1>1. ASSUME NEW w \in Workers, Receive(w) PROVE LockoutInv'
    BY <1>1, FailingLogin, QuietReceive, LockoutKept
  <1>2. ASSUME NEW w \in Workers, Continue(w) PROVE LockoutInv'
    BY <1>2, FailingLogin, QuietContinue, LockoutKept
  <1>3. CASE Restart \/ Tick \/ UNCHANGED vars
    <2>1. RowsKeepCounts /\ wrong' = wrong
      BY <1>3 DEF Restart, Tick, vars, RowsKeepCounts, CountsKept, accountVars, historyVars
    <2>2. NoNewAttempt
      BY <1>3 DEF Restart, Tick, vars, NoNewAttempt, Idle
    <2> QED BY <2>1, <2>2, LockoutKept
  <1> QED BY <1>1, <1>2, <1>3 DEF Next

(* No interleaving of logins, unlocks and restarts locks an account before *)
(* max_login_attempts wrong passwords have been given for it, although the *)
(* counter is read in one statement and written in another (auth.go:47,    *)
(* 82-90).                                                                 *)
THEOREM LocksAreEarned == Spec => []NoLockWithoutWrongPasswords
  <1>1. Init => TypeInv /\ LockoutInv
    <2> SUFFICES ASSUME Init PROVE LockoutInv
      BY InitTyped
    <2>1. \A u \in UserIds : Exists(u) => users[u].failed = 0 /\ users[u].locked = 0 /\ wrong[u] = 0
      BY DEF Init, Exists
    <2>2. \A w \in Workers : req[w].pc # "login_failed"
      BY DEF Init, Idle
    <2> QED BY <2>1, <2>2 DEF LockoutInv
  <1>2. TypeInv /\ LockoutInv /\ [Next]_vars => TypeInv' /\ LockoutInv'
    BY NextTyped, NextLockout
  <1>3. LockoutInv => NoLockWithoutWrongPasswords
    BY DEF LockoutInv, NoLockWithoutWrongPasswords
  <1> QED BY <1>1, <1>2, <1>3, PTL DEF Spec

-----------------------------------------------------------------------------
(* Devices.  A record that is there was listed, only listed records were   *)
(* decided about, and no two fingerprints were ever listed under one id.   *)
DeviceInv ==
  /\ \A d \in Fingerprints : devices[d] # None => <<d, devices[d].id>> \in listed
  /\ vetted \subseteq listed
  /\ \A row, other \in listed : row[2] = other[2] => row = other
  /\ TrustIsLastDecision

(* Everything but a new device and a decision leaves the records alone.    *)
LEMMA DevicesLeft ==
  ASSUME NEW w \in Workers
  PROVE  /\ Continue(w) => UNCHANGED deviceVars \/ TrackDevice(w)
         /\ Receive(w) =>
              \/ UNCHANGED deviceVars
              \/ \E row \in listed :
                   TrustDevice(w, row) \/ RevokeDevice(w, row) \/ DeleteDevice(w, row)
  <1>1. ASSUME Continue(w), ~TrackDevice(w) PROVE UNCHANGED deviceVars
    <2>1. CASE LoginStep(w)
      BY <1>1, <2>1 DEF LoginStep, LoginFailed, LoginInsert, LoginReset, deviceVars
    <2>2. CASE RefreshStep(w)
      BY <2>2 DEF RefreshStep, RefreshExpired, RefreshUser, RefreshRotate, deviceVars
    <2>3. CASE PasswordStep(w)
      BY <2>3 DEF PasswordStep, PasswordUpdate, PasswordSessions, deviceVars
    <2>4. CASE UpdateStep(w)
      BY <2>4 DEF UpdateStep, UpdatePassword, UpdateRole, UpdateActive, deviceVars
    <2>5. CASE Audit(w)
      BY <2>5 DEF Audit, deviceVars
    <2> QED BY <1>1, <2>1, <2>2, <2>3, <2>4, <2>5 DEF Continue
  <1>2. ASSUME Receive(w),
               ~ \E row \in listed :
                   TrustDevice(w, row) \/ RevokeDevice(w, row) \/ DeleteDevice(w, row)
        PROVE  UNCHANGED deviceVars
    BY <1>2 DEF Receive, Refuse, LoginSelect, Logout, RefreshSelect, RevokeSession, ChangePassword,
         CreateUser, UpdateUser, DeleteUser, UnlockUser, vars, deviceVars
  <1> QED BY <1>1, <1>2

(* A new record gets an id that was never listed, hence never decided on.  *)
LEMMA TrackedDevice ==
  ASSUME TypeInv, DeviceInv, NEW w \in Workers, TrackDevice(w)
  PROVE  DeviceInv'
  <1> DEFINE d == req[w].device
  <1>1. vetted' = vetted
    BY DEF TrackDevice
  <1>2. CASE UNCHANGED <<devices, listed>>
    BY <1>1, <1>2 DEF DeviceInv, TrustIsLastDecision
  <1>3. ASSUME NEW i \in UnusedIds, devices[d] = None,
               devices' = [devices EXCEPT ![d] = [id |-> i, trusted |-> FALSE]],
               listed' = listed \cup {<<d, i>>}
        PROVE  DeviceInv'
    <2>1. listed \subseteq Fingerprints \X DeviceIds
      BY DEF TypeInv, TypeOK
    <2>2. \A row \in listed : row[2] # i
      BY <2>1 DEF UnusedIds
    <2>3. \A row, other \in listed' : row[2] = other[2] => row = other
      BY <1>3, <2>2 DEF DeviceInv
    <2>4. \A e \in Fingerprints : e # d => devices'[e] = devices[e]
      BY <1>3 DEF TypeInv, TypeOK
    <2>5. d \in Fingerprints => devices'[d] = [id |-> i, trusted |-> FALSE]
      BY <1>3 DEF TypeInv, TypeOK
    <2>6. <<d, i>> \notin vetted
      BY <2>2 DEF DeviceInv
    <2>7. \A e \in Fingerprints : devices'[e] # None => <<e, devices'[e].id>> \in listed'
      BY <1>3, <2>4, <2>5 DEF DeviceInv
    <2>8. TrustIsLastDecision'
      BY <1>1, <2>4, <2>5, <2>6 DEF DeviceInv, TrustIsLastDecision
    <2> QED BY <1>1, <1>3, <2>3, <2>7, <2>8 DEF DeviceInv
  <1> QED BY <1>2, <1>3 DEF TrackDevice

(* A decision names an id, which is that of one record at most, and that   *)
(* of no record that has replaced it.                                      *)
LEMMA DecidedDevice ==
  ASSUME TypeInv, DeviceInv, NEW w \in Workers, NEW row \in listed,
         TrustDevice(w, row) \/ RevokeDevice(w, row) \/ DeleteDevice(w, row)
  PROVE  DeviceInv'
  <1>1. listed' = listed
    BY DEF TrustDevice, RevokeDevice, DeleteDevice
  <1>2. devices \in [Fingerprints -> DeviceRow \cup {None}]
    BY DEF TypeInv, TypeOK
  <1>3. ASSUME NEW d \in Fingerprints, devices[d] # None
        PROVE  devices[d].id = row[2] <=> <<d, devices[d].id>> = row
    <2> DEFINE other == <<d, devices[d].id>>
    <2>1. other \in listed /\ other[2] = devices[d].id
      BY <1>3 DEF DeviceInv
    <2>2. \A r, q \in listed : r[2] = q[2] => r = q
      BY DEF DeviceInv
    <2> HIDE DEF other
    <2>3. devices[d].id = row[2] <=> other = row
      BY <2>1, <2>2
    <2> QED BY <2>3 DEF other
  <1>4. ASSUME NEW trusted \in BOOLEAN, SetTrust(row[2], trusted), NEW d \in Fingerprints
        PROVE  /\ devices'[d] # None => devices[d] # None /\ devices'[d].id = devices[d].id
               /\ devices[d] # None =>
                    devices'[d].trusted = IF devices[d].id = row[2] THEN trusted ELSE devices[d].trusted
    <2>1. devices[d] # None => devices[d] \in DeviceRow
      BY <1>2
    <2> QED BY <1>4, <2>1 DEF SetTrust, DeviceRow
  <1>5. CASE TrustDevice(w, row)
    <2>1. SetTrust(row[2], TRUE) /\ vetted' = vetted \cup {row}
      BY <1>5 DEF TrustDevice
    <2> QED BY <1>1, <1>3, <1>4, <2>1, ZenonT(60) DEF DeviceInv, TrustIsLastDecision
  <1>6. CASE RevokeDevice(w, row)
    <2>1. SetTrust(row[2], FALSE) /\ vetted' = vetted \ {row}
      BY <1>6 DEF RevokeDevice
    <2> QED BY <1>1, <1>3, <1>4, <2>1 DEF DeviceInv, TrustIsLastDecision
  <1>7. CASE DeleteDevice(w, row)
    <2>1. vetted' = vetted /\ \A d \in Fingerprints : devices'[d] # None => devices'[d] = devices[d]
      BY <1>7 DEF DeleteDevice
    <2> QED BY <1>1, <2>1 DEF DeviceInv, TrustIsLastDecision
  <1> QED BY <1>5, <1>6, <1>7

LEMMA NextDevices == TypeInv /\ DeviceInv /\ [Next]_vars => DeviceInv'
  <1> SUFFICES ASSUME TypeInv, DeviceInv, [Next]_vars PROVE DeviceInv'
    OBVIOUS
  <1>1. CASE UNCHANGED deviceVars
    BY <1>1 DEF DeviceInv, TrustIsLastDecision, deviceVars
  <1>2. Restart \/ Tick \/ UNCHANGED vars => UNCHANGED deviceVars
    BY DEF Restart, Tick, vars, deviceVars
  <1> QED BY <1>1, <1>2, DevicesLeft, TrackedDevice, DecidedDevice DEF Next

(* However logins from a device overlap decisions about it, and however    *)
(* old the list is from which the administrator decides, a device is       *)
(* trusted exactly if that was the last decision on its record             *)
(* (auth.go:311, security.go:335).                                         *)
THEOREM DeviceTrustIsDecided == Spec => []TrustIsLastDecision
  <1>1. Init => TypeInv /\ DeviceInv
    BY InitTyped DEF Init, DeviceInv, TrustIsLastDecision
  <1>2. TypeInv /\ DeviceInv /\ [Next]_vars => TypeInv' /\ DeviceInv'
    BY NextTyped, NextDevices
  <1>3. DeviceInv => TrustIsLastDecision
    BY DEF DeviceInv
  <1> QED BY <1>1, <1>2, <1>3, PTL DEF Spec

-----------------------------------------------------------------------------
(* Counting.  The counter is read when an attempt begins and written when  *)
(* it has failed; this is the case in which it has not changed meanwhile.  *)
CountIsCurrent ==
  \A w \in Workers : req[w].pc = "login_failed" /\ Exists(req[w].user) =>
    users[req[w].user].failed = req[w].fails

(* Then the counter of an account is the number of wrong passwords since   *)
(* its last reset, and the account is locked once they are enough.         *)
CountInv ==
  /\ now >= 1
  /\ \A u \in UserIds : pardoned[u] + strikes[u] <= wrong[u]
  /\ \A u \in UserIds : Exists(u) =>
       /\ u \in born /\ users[u].failed = strikes[u]
       /\ users[u].locked # 0 => strikes[u] >= MaxLoginFails
       /\ strikes[u] >= MaxLoginFails /\ strikes[u] > 0 => users[u].locked # 0
  /\ \A u \in UserIds \ born : strikes[u] = 0
  /\ \A w \in Workers : req[w].pc = "login_failed" => req[w].user \in born

(* What a step does to the counters: nothing, reset one, begin a new one,  *)
(* or count one failure.                                                   *)
CountSame(u) ==
  users'[u] # None =>
    users[u] # None /\ users'[u].failed = users[u].failed /\ users'[u].locked = users[u].locked

CountZero(u) == users'[u] # None => users'[u].failed = 0 /\ users'[u].locked = 0

CountsLeft == (\A u \in UserIds : CountSame(u)) /\ UNCHANGED <<born, historyVars>>

CountReset(u) ==
  /\ CountZero(u) /\ (users'[u] # None => users[u] # None)
  /\ \A v \in UserIds \ {u} : CountSame(v)
  /\ UNCHANGED <<born, wrong>> /\ strikes' = [strikes EXCEPT ![u] = 0]
  /\ pardoned' = pardoned \/ pardoned' = [pardoned EXCEPT ![u] = wrong[u]]

CountBegun(u) ==
  /\ u \notin born /\ born' = born \cup {u} /\ CountZero(u)
  /\ \A v \in UserIds \ {u} : CountSame(v)
  /\ UNCHANGED historyVars

LEMMA RowWriteKeepsCount ==
  ASSUME TypeInv, NEW u \in UserIds, NEW row, UpdateUserRow(u, row),
         Exists(u) => row.failed = users[u].failed /\ row.locked = users[u].locked
  PROVE  \A v \in UserIds : CountSame(v)
  BY DEF UpdateUserRow, CountSame, Exists, TypeInv, TypeOK

LEMMA RowWriteResetsCount ==
  ASSUME TypeInv, NEW u \in UserIds, UpdateUserRow(u, Cleared(users[u]))
  PROVE  /\ CountZero(u) /\ (users'[u] # None => users[u] # None)
         /\ \A v \in UserIds \ {u} : CountSame(v)
  <1>1. Exists(u) => Cleared(users[u]).failed = 0 /\ Cleared(users[u]).locked = 0
    BY DEF Exists, TypeInv, TypeOK, UserRow, Cleared
  <1> QED BY <1>1 DEF UpdateUserRow, CountSame, CountZero, Exists, TypeInv, TypeOK

LEMMA ContinueLeavesCounts ==
  ASSUME TypeInv, NEW w \in Workers, Continue(w), ~LoginFailed(w), ~LoginReset(w)
  PROVE  CountsLeft
  <1> USE DEF TypeInv
  <1> DEFINE u == req[w].user
  <1>1. UNCHANGED accountVars => CountsLeft
    BY DEF CountsLeft, CountSame, accountVars
  <1>2. CASE \/ LoginInsert(w) \/ TrackDevice(w) \/ RefreshExpired(w) \/ RefreshUser(w)
             \/ RefreshRotate(w) \/ PasswordSessions(w) \/ Audit(w)
    BY <1>1, <1>2
      DEF LoginInsert, TrackDevice, RefreshExpired, RefreshUser, RefreshRotate,
          PasswordSessions, Audit
  <1>3. CASE PasswordUpdate(w) \/ UpdateStep(w)
    <2>1. u \in UserIds
      BY <1>3 DEF PasswordUpdate, UpdateStep, UpdatePassword, UpdateRole, UpdateActive,
           RequestsSound, Sound
    <2>2. ASSUME NEW row \in {[users[u] EXCEPT !.pwd = req[w].pwd],
                              [users[u] EXCEPT !.role = req[w].role],
                              [users[u] EXCEPT !.active = req[w].active]},
                 Exists(u)
          PROVE  row.failed = users[u].failed /\ row.locked = users[u].locked
      BY <2>1, <2>2 DEF Exists, TypeOK, UserRow
    <2>3. UNCHANGED <<born, historyVars>>
      BY <1>3 DEF PasswordUpdate, UpdateStep, UpdatePassword, UpdateRole, UpdateActive
    <2>4. CASE UNCHANGED users
      BY <2>3, <2>4 DEF CountsLeft, CountSame
    <2>5. CASE UpdateUserRow(u, [users[u] EXCEPT !.pwd = req[w].pwd])
      BY <2>1, <2>2, <2>3, <2>5, RowWriteKeepsCount DEF CountsLeft
    <2>6. CASE UpdateUserRow(u, [users[u] EXCEPT !.role = req[w].role])
      BY <2>1, <2>2, <2>3, <2>6, RowWriteKeepsCount DEF CountsLeft
    <2>7. CASE UpdateUserRow(u, [users[u] EXCEPT !.active = req[w].active])
      BY <2>1, <2>2, <2>3, <2>7, RowWriteKeepsCount DEF CountsLeft
    <2> QED BY <1>3, <2>4, <2>5, <2>6, <2>7
          DEF PasswordUpdate, UpdateStep, UpdatePassword, UpdateRole, UpdateActive
  <1> QED BY <1>2, <1>3 DEF Continue, LoginStep, RefreshStep, PasswordStep

LEMMA ContinueCounts ==
  ASSUME TypeInv, NEW w \in Workers, Continue(w), ~LoginFailed(w)
  PROVE  CountsLeft \/ \E u \in UserIds : CountReset(u)
  <1>1. CASE LoginReset(w)
    <2>1. req[w].user \in UserIds
      BY <1>1 DEF LoginReset, TypeInv, RequestsSound, Sound
    <2> QED BY <1>1, <2>1, RowWriteResetsCount DEF LoginReset, CountReset, TypeInv
  <1> QED BY <1>1, ContinueLeavesCounts

LEMMA ReceiveCounts ==
  ASSUME TypeInv, NEW w \in Workers, Receive(w)
  PROVE  CountsLeft \/ \E u \in UserIds : CountBegun(u) \/ (CountReset(u) /\ UnlockUser(w, u))
  <1> USE DEF TypeInv
  <1>1. UNCHANGED accountVars => CountsLeft
    BY DEF CountsLeft, CountSame, accountVars
  <1>2. CASE Refuse(w)
    BY <1>1, <1>2 DEF Refuse, vars, accountVars, historyVars
  <1>3. ASSUME NEW u \in UserIds, NEW p \in Passwords, NEW d \in Fingerprints,
               LoginSelect(w, u, p, d)
        PROVE  CountsLeft
    BY <1>1, <1>3 DEF LoginSelect
  <1>4. ASSUME NEW t \in Tokens, Logout(w, t) \/ RefreshSelect(w, t) \/ RevokeSession(w, t)
        PROVE  CountsLeft
    BY <1>1, <1>4 DEF Logout, RefreshSelect, RevokeSession
  <1>5. ASSUME NEW p \in Passwords, NEW q \in Passwords, ChangePassword(w, p, q)
        PROVE  CountsLeft
    BY <1>1, <1>5 DEF ChangePassword
  <1>6. ASSUME NEW u \in UserIds, NEW p \in Passwords, NEW role \in Roles,
               CreateUser(w, u, p, role)
        PROVE  CountBegun(u)
    BY <1>6 DEF CreateUser, CountBegun, CountZero, CountSame, TypeOK
  <1>7. ASSUME NEW u \in UserIds, NEW p \in Passwords \cup {None},
               NEW role \in Roles \cup {None}, NEW active \in BOOLEAN \cup {None},
               UpdateUser(w, u, p, role, active)
        PROVE  CountsLeft
    BY <1>1, <1>7 DEF UpdateUser
  <1>8. ASSUME NEW u \in UserIds, DeleteUser(w, u)
        PROVE  CountsLeft
    <2>1. UNCHANGED users \/ users' = [users EXCEPT ![u] = None]
      BY <1>8 DEF DeleteUser, DeleteUserRow
    <2>2. \A v \in UserIds : CountSame(v)
      BY <2>1 DEF CountSame, TypeOK
    <2> QED BY <1>8, <2>2 DEF DeleteUser, CountsLeft
  <1>9. ASSUME NEW u \in UserIds, UnlockUser(w, u)
        PROVE  CountReset(u)
    BY <1>9, RowWriteResetsCount DEF UnlockUser, CountReset
  <1>10. ASSUME NEW row \in listed,
                TrustDevice(w, row) \/ RevokeDevice(w, row) \/ DeleteDevice(w, row)
         PROVE  CountsLeft
    BY <1>1, <1>10 DEF TrustDevice, RevokeDevice, DeleteDevice
  <1> QED BY <1>2, <1>3, <1>4, <1>5, <1>6, <1>7, <1>8, <1>9, <1>10 DEF Receive

LEMMA CountSteps ==
  ASSUME TypeInv, [Next]_vars
  PROVE  \/ CountsLeft \/ \E u \in UserIds : CountReset(u) \/ CountBegun(u)
         \/ \E w \in Workers : LoginFailed(w)
  <1>1. CASE Restart \/ Tick \/ UNCHANGED vars
    BY <1>1 DEF Restart, Tick, vars, CountsLeft, CountSame, accountVars, historyVars
  <1> QED BY <1>1, ContinueCounts, ReceiveCounts DEF Next

(* An attempt begins on an account that is there.                          *)
LEMMA AttemptsBegin ==
  ASSUME TypeInv, [Next]_vars, NEW v \in Workers, req'[v].pc = "login_failed"
  PROVE  req'[v] = req[v] \/ (req'[v].user \in UserIds /\ Exists(req'[v].user))
  <1>1. ASSUME NEW w \in Workers, NEW u \in UserIds, NEW p \in Passwords, NEW d \in Fingerprints,
               LoginSelect(w, u, p, d)
        PROVE  req'[v] = req[v] \/ (req'[v].user = u /\ Exists(u))
    BY <1>1, ZenonT(60) DEF LoginSelect, Serve, Idle, TypeInv, TypeOK
  <1>2. ASSUME NEW w \in Workers, LoginFailed(w) PROVE req'[v] = req[v]
    BY <1>2 DEF LoginFailed, Serve, Idle, TypeInv, TypeOK
  <1>3. CASE Restart \/ Tick \/ UNCHANGED vars
    BY <1>3 DEF Restart, Tick, vars, Idle
  <1> QED BY <1>1, <1>2, <1>3, QuietContinue, QuietReceive DEF Next, NoNewAttempt

LEMMA ClockSteps ==
  ASSUME [Next]_vars
  PROVE  now' = now \/ now' = now + 1
  <1>1. CASE Restart \/ Tick \/ UNCHANGED vars
    BY <1>1 DEF Restart, Tick, vars
  <1>2. ASSUME NEW w \in Workers, Receive(w) PROVE now' = now
    BY <1>2 DEF Receive, Refuse, LoginSelect, Logout, RefreshSelect, RevokeSession, ChangePassword,
         CreateUser, UpdateUser, DeleteUser, UnlockUser, TrustDevice, RevokeDevice, DeleteDevice, vars
  <1>3. ASSUME NEW w \in Workers, Continue(w) PROVE now' = now
    BY <1>3 DEF Continue, LoginStep, LoginFailed, LoginInsert, LoginReset, TrackDevice,
         RefreshStep, RefreshExpired, RefreshUser, RefreshRotate, PasswordStep, PasswordUpdate,
         PasswordSessions, UpdateStep, UpdatePassword, UpdateRole, UpdateActive, Audit
  <1> QED BY <1>1, <1>2, <1>3 DEF Next

LEMMA CountsKeptWhole ==
  ASSUME TypeInv, CountInv,
         CountsLeft \/ \E u \in UserIds : CountReset(u) \/ CountBegun(u)
  PROVE  /\ \A u \in UserIds : pardoned'[u] + strikes'[u] <= wrong'[u]
         /\ \A u \in UserIds : users'[u] # None =>
              /\ u \in born' /\ users'[u].failed = strikes'[u]
              /\ users'[u].locked # 0 => strikes'[u] >= MaxLoginFails
              /\ strikes'[u] >= MaxLoginFails /\ strikes'[u] > 0 => users'[u].locked # 0
         /\ \A u \in UserIds \ born' : strikes'[u] = 0
         /\ born \subseteq born'
  <1>1. /\ wrong \in [UserIds -> Nat] /\ strikes \in [UserIds -> Nat]
        /\ pardoned \in [UserIds -> Nat]
    BY DEF TypeInv, TypeOK
  <1>2. CASE CountsLeft
    BY <1>1, <1>2 DEF CountsLeft, CountSame, CountInv, Exists, historyVars
  <1>3. ASSUME NEW u \in UserIds, CountReset(u)
        PROVE  /\ \A v \in UserIds : pardoned'[v] + strikes'[v] <= wrong'[v]
               /\ \A v \in UserIds : users'[v] # None =>
                    /\ v \in born' /\ users'[v].failed = strikes'[v]
                    /\ users'[v].locked # 0 => strikes'[v] >= MaxLoginFails
                    /\ strikes'[v] >= MaxLoginFails /\ strikes'[v] > 0 => users'[v].locked # 0
               /\ \A v \in UserIds \ born' : strikes'[v] = 0
    <2>1. /\ strikes'[u] = 0 /\ pardoned'[u] \in {pardoned[u], wrong[u]}
          /\ \A v \in UserIds \ {u} : strikes'[v] = strikes[v] /\ pardoned'[v] = pardoned[v]
          /\ wrong' = wrong /\ born' = born
      BY <1>1, <1>3 DEF CountReset
    <2>2. ASSUME NEW v \in UserIds PROVE pardoned'[v] + strikes'[v] <= wrong'[v]
      <3>1. pardoned[v] + strikes[v] <= wrong[v] /\ pardoned[v] \in Nat /\ strikes[v] \in Nat
            /\ wrong[v] \in Nat
        BY <1>1 DEF CountInv
      <3>2. CASE v = u
        BY <2>1, <3>1, <3>2
      <3>3. CASE v # u
        BY <2>1, <3>1, <3>3
      <3> QED BY <3>2, <3>3
    <2>3. ASSUME NEW v \in UserIds, users'[v] # None
          PROVE  /\ v \in born' /\ users'[v].failed = strikes'[v]
                 /\ users'[v].locked # 0 => strikes'[v] >= MaxLoginFails
                 /\ strikes'[v] >= MaxLoginFails /\ strikes'[v] > 0 => users'[v].locked # 0
      <3>1. CASE v = u
        BY <1>3, <2>1, <2>3, <3>1 DEF CountReset, CountZero, CountInv, Exists
      <3>2. CASE v # u
        BY <1>3, <2>1, <2>3, <3>2 DEF CountReset, CountSame, CountInv, Exists
      <3> QED BY <3>1, <3>2
    <2> QED BY <2>1, <2>2, <2>3 DEF CountInv
  <1>4. ASSUME NEW u \in UserIds, CountBegun(u)
        PROVE  /\ \A v \in UserIds : pardoned'[v] + strikes'[v] <= wrong'[v]
               /\ \A v \in UserIds : users'[v] # None =>
                    /\ v \in born' /\ users'[v].failed = strikes'[v]
                    /\ users'[v].locked # 0 => strikes'[v] >= MaxLoginFails
                    /\ strikes'[v] >= MaxLoginFails /\ strikes'[v] > 0 => users'[v].locked # 0
               /\ \A v \in UserIds \ born' : strikes'[v] = 0
    <2>1. /\ UNCHANGED <<wrong, strikes, pardoned>> /\ born' = born \cup {u} /\ strikes[u] = 0
      BY <1>4 DEF CountBegun, CountInv, historyVars
    <2>2. ASSUME NEW v \in UserIds, users'[v] # None
          PROVE  /\ v \in born' /\ users'[v].failed = strikes'[v]
                 /\ users'[v].locked # 0 => strikes'[v] >= MaxLoginFails
                 /\ strikes'[v] >= MaxLoginFails /\ strikes'[v] > 0 => users'[v].locked # 0
      <3>1. CASE v = u
        BY <1>4, <2>1, <2>2, <3>1 DEF CountBegun, CountZero
      <3>2. CASE v # u
        BY <1>4, <2>1, <2>2, <3>2 DEF CountBegun, CountSame, CountInv, Exists
      <3> QED BY <3>1, <3>2
    <2> QED BY <2>1, <2>2 DEF CountInv
  <1>5. born \subseteq born'
    BY DEF CountsLeft, CountReset, CountBegun
  <1> QED BY <1>2, <1>3, <1>4, <1>5 DEF CountsLeft

LEMMA FailureCounts ==
  ASSUME TypeInv, CountInv, CountIsCurrent, NEW w \in Workers, LoginFailed(w)
  PROVE  CountInv'
  <1> DEFINE u == req[w].user
             n == req[w].fails + 1
  <1>1. /\ u \in UserIds /\ u \in born /\ req[w].fails \in Nat
        /\ wrong \in [UserIds -> Nat] /\ strikes \in [UserIds -> Nat]
        /\ pardoned \in [UserIds -> Nat] /\ now \in Nat /\ LockoutMinutes \in Nat
        /\ MaxLoginFails \in Nat
    BY ConfigAssumption
      DEF LoginFailed, TypeInv, TypeOK, RequestsSound, Sound, CountInv, Request
  <1>2. /\ wrong'[u] = wrong[u] + 1 /\ strikes'[u] = strikes[u] + 1
        /\ \A v \in UserIds \ {u} : wrong'[v] = wrong[v] /\ strikes'[v] = strikes[v]
        /\ pardoned' = pardoned /\ born' = born /\ now' = now
    BY <1>1 DEF LoginFailed
  <1>3. ASSUME NEW v \in UserIds PROVE pardoned'[v] + strikes'[v] <= wrong'[v]
    <2>1. pardoned[v] + strikes[v] <= wrong[v] /\ pardoned[v] \in Nat /\ strikes[v] \in Nat
          /\ wrong[v] \in Nat
      BY <1>1 DEF CountInv
    <2> QED BY <1>2, <2>1
  <1>4. ASSUME NEW v \in UserIds, users'[v] # None
        PROVE  /\ v \in born' /\ users'[v].failed = strikes'[v]
               /\ users'[v].locked # 0 => strikes'[v] >= MaxLoginFails
               /\ strikes'[v] >= MaxLoginFails /\ strikes'[v] > 0 => users'[v].locked # 0
    <2>1. CASE v # u
      <3>1. users'[v] = users[v]
        BY <2>1 DEF LoginFailed, UpdateUserRow, TypeInv, TypeOK
      <3> QED BY <1>2, <1>4, <2>1, <3>1 DEF CountInv, Exists
    <2>2. CASE v = u
      <3>1. users'[u] = Counted(users[u], n) /\ users[u] \in UserRow /\ Exists(u)
        BY <1>1, <1>4, <2>2 DEF LoginFailed, UpdateUserRow, TypeInv, TypeOK, Exists
      <3>2. users[u].failed = req[w].fails /\ users[u].failed = strikes[u]
        BY <1>1, <3>1 DEF CountIsCurrent, CountInv, LoginFailed
      <3>3. /\ users'[u].failed = n
            /\ users'[u].locked = IF Locks(n) THEN now + LockoutMinutes ELSE users[u].locked
        BY <3>1 DEF Counted, UserRow
      <3>4. n = strikes'[u] /\ now + LockoutMinutes # 0 /\ strikes[u] \in Nat
        BY <1>1, <1>2, <3>2 DEF CountInv
      <3>5. users[u].locked # 0 => strikes[u] >= MaxLoginFails
        BY <1>1, <3>1 DEF CountInv
      <3> QED BY <1>1, <1>2, <2>2, <3>3, <3>4, <3>5 DEF Locks
    <2> QED BY <2>1, <2>2
  <1>5. ASSUME NEW v \in Workers, req'[v].pc = "login_failed" PROVE req'[v].user \in born'
    <2>1. req'[v] = req[v]
      BY <1>5 DEF LoginFailed, Serve, Idle, TypeInv, TypeOK
    <2> QED BY <1>2, <1>5, <2>1 DEF CountInv
  <1>6. \A v \in UserIds \ born' : strikes'[v] = 0
    BY <1>1, <1>2 DEF CountInv
  <1> QED BY <1>2, <1>3, <1>4, <1>5, <1>6 DEF CountInv, Exists

LEMMA CountStarts == Init => CountInv
  <1> SUFFICES ASSUME Init PROVE CountInv
    OBVIOUS
  <1>1. /\ now = 1 /\ born = {Admin}
        /\ \A u \in UserIds : wrong[u] = 0 /\ strikes[u] = 0 /\ pardoned[u] = 0
        /\ \A u \in UserIds : Exists(u) => u = Admin /\ users[u].failed = 0 /\ users[u].locked = 0
        /\ \A w \in Workers : req[w].pc = "idle"
    BY TableAssumption DEF Init, Exists, Idle
  <1> QED BY <1>1 DEF CountInv

LEMMA CountNext == TypeInv /\ CountInv /\ CountIsCurrent /\ [Next]_vars => CountInv'
  <1> SUFFICES ASSUME TypeInv, CountInv, CountIsCurrent, [Next]_vars PROVE CountInv'
    OBVIOUS
  <1>1. CASE \E w \in Workers : LoginFailed(w)
    BY <1>1, FailureCounts
  <1>2. CASE CountsLeft \/ \E u \in UserIds : CountReset(u) \/ CountBegun(u)
    <2>1. now' >= 1
      BY ClockSteps DEF CountInv, TypeInv, TypeOK
    <2>2. ASSUME NEW v \in Workers, req'[v].pc = "login_failed" PROVE req'[v].user \in born'
      BY <1>2, <2>2, AttemptsBegin, CountsKeptWhole DEF CountInv
    <2> QED BY <1>2, <2>1, <2>2, CountsKeptWhole DEF CountInv, Exists
  <1> QED BY <1>1, <1>2, CountSteps

LEMMA CountAlways == Spec /\ []CountIsCurrent => [](TypeInv /\ CountInv)
  <1>1. Init => TypeInv /\ CountInv
    BY InitTyped, CountStarts
  <1>2. (TypeInv /\ CountInv) /\ CountIsCurrent /\ [Next]_vars => (TypeInv /\ CountInv)'
    BY NextTyped, CountNext
  <1> QED BY <1>1, <1>2, PTL DEF Spec

(* A stale count is the only way past max_login_attempts: in every         *)
(* behaviour, of any number of requests at once, in which no failed login  *)
(* writes back a counter that has changed since it was read, an account is *)
(* locked after that many wrong passwords (auth.go:47, 82-90).             *)
THEOREM OnlyStaleCountsEscape ==
  ASSUME MaxLoginFails > 0
  PROVE  Spec /\ []CountIsCurrent => []LockoutAfterMax
  <1>1. TypeInv /\ CountInv => LockoutAfterMax
    BY ConfigAssumption DEF TypeInv, TypeOK, CountInv, LockoutAfterMax
  <1> QED BY <1>1, CountAlways, PTL

(* In the same behaviours an unlock is final: the account is not locked    *)
(* again before that many new wrong passwords (security.go:225).           *)
THEOREM OnlyStaleCountsRelock == Spec /\ []CountIsCurrent => []UnlockHolds
  <1>1. TypeInv /\ CountInv => UnlockHolds
    <2> SUFFICES ASSUME TypeInv, CountInv, NEW u \in UserIds, Exists(u), users[u].locked # 0
                 PROVE  wrong[u] - pardoned[u] >= MaxLoginFails
      BY DEF UnlockHolds
    <2>1. wrong[u] \in Nat /\ strikes[u] \in Nat /\ pardoned[u] \in Nat /\ MaxLoginFails \in Nat
      BY ConfigAssumption DEF TypeInv, TypeOK
    <2>2. pardoned[u] + strikes[u] <= wrong[u] /\ strikes[u] >= MaxLoginFails
      BY DEF CountInv
    <2> QED BY <2>1, <2>2
  <1> QED BY <1>1, CountAlways, PTL

-----------------------------------------------------------------------------
(* Stale reads.  What a handler has read, and holds in local variables     *)
(* while other requests run, is what the tables still say.                 *)
Current(r) ==
  /\ r.pc = "login_failed" => Exists(r.user) /\ users[r.user].failed = r.fails
  /\ r.pc \in {"login_insert", "login_reset"} => Exists(r.user) /\ ~LockedOut(users[r.user])
  /\ r.pc = "login_insert" => r.role = users[r.user].role
  /\ r.pc \in {"login_reset", "login_device"} \/ (r.pc = "audit" /\ r.token # None) =>
       SessionsWith(r.token) # {}
  /\ r.pc \in {"refresh_user", "refresh_rotate"} =>
       SessionsWith(r.token) # {} /\ Exists(r.user)
  /\ r.pc = "refresh_rotate" => r.role = users[r.user].role

ReadsAreCurrent == \A w \in Workers : Current(req[w])

LEMMA CurrentIsCount == ReadsAreCurrent => CountIsCurrent
  BY DEF ReadsAreCurrent, Current, CountIsCurrent

StateInv == TypeInv /\ CountInv /\ ReadsAreCurrent

LEMMA StateAlways == Spec /\ []ReadsAreCurrent => []StateInv
  <1>1. [](TypeInv /\ CountInv) /\ []ReadsAreCurrent => []StateInv
    BY PTL DEF StateInv
  <1> QED BY <1>1, CurrentIsCount, CountAlways, PTL

(* However many requests run at once, every step that clears a lock which  *)
(* still runs is an administrator's unlock of that very account, unless a  *)
(* login let in before the account was locked clears it (auth.go:70, 114,  *)
(* security.go:225).                                                       *)
THEOREM OnlyStaleReadsClearLocks == Spec /\ []ReadsAreCurrent => LockLasts
  <1> DEFINE Lasts == \A u \in UserIds :
               /\ Exists(u) /\ LockedOut(users[u])
               /\ users'[u] # None /\ users'[u].locked = 0
               => \E w \in Workers : UnlockUser(w, u)
  <1>1. StateInv /\ [Next]_vars => Lasts
    <2> SUFFICES ASSUME StateInv, [Next]_vars, NEW u \in UserIds, Exists(u), LockedOut(users[u]),
                        users'[u] # None, users'[u].locked = 0
                 PROVE  \E w \in Workers : UnlockUser(w, u)
      OBVIOUS
    <2> USE DEF StateInv, TypeInv
    <2>1. users[u].locked # 0
      <3>1. now \in Nat /\ users[u].locked \in Nat
        BY DEF TypeOK, Exists, UserRow
      <3> QED BY <3>1 DEF LockedOut
    <2>2. ~CountSame(u)
      BY <2>1 DEF CountSame
    <2>3. ~CountsLeft
      BY <2>2 DEF CountsLeft
    <2>4. ASSUME NEW v \in UserIds, CountBegun(v) PROVE FALSE
      BY <2>2, <2>4 DEF CountBegun, CountInv
    <2>5. ASSUME NEW w \in Workers, LoginFailed(w) PROVE FALSE
      <3>1. req[w].user \in UserIds /\ LockoutMinutes \in Nat /\ now \in Nat /\ now >= 1
        BY <2>5, ConfigAssumption DEF LoginFailed, RequestsSound, Sound, TypeOK, CountInv
      <3>2. users[u] \in UserRow
        BY DEF TypeOK, Exists
      <3>3. users'[u] = users[u] \/ users'[u] = Counted(users[u], req[w].fails + 1)
        BY <2>5, <3>1 DEF LoginFailed, UpdateUserRow, TypeOK
      <3>4. Counted(users[u], req[w].fails + 1).locked # 0
        BY <2>1, <3>1, <3>2 DEF Counted, UserRow
      <3> QED BY <2>1, <3>3, <3>4
    <2>6. ASSUME NEW w \in Workers, LoginReset(w) PROVE FALSE
      <3>1. req[w].user \in UserIds
        BY <2>6 DEF LoginReset, RequestsSound, Sound
      <3>2. u = req[w].user
        BY <2>2, <2>6, <3>1, RowWriteResetsCount DEF LoginReset
      <3> QED BY <2>6, <3>2 DEF LoginReset, ReadsAreCurrent, Current
    <2>7. ASSUME NEW w \in Workers, Continue(w), ~LoginFailed(w), ~LoginReset(w) PROVE FALSE
      BY <2>3, <2>7, ContinueLeavesCounts
    <2>8. ASSUME NEW w \in Workers, Receive(w) PROVE UnlockUser(w, u)
      <3>1. PICK v \in UserIds : CountReset(v) /\ UnlockUser(w, v)
        BY <2>3, <2>4, <2>8, ReceiveCounts
      <3>2. u = v
        BY <2>2, <3>1 DEF CountReset
      <3> QED BY <3>1, <3>2
    <2>9. ~(Restart \/ Tick \/ UNCHANGED vars)
      BY <2>2 DEF Restart, Tick, vars, accountVars, CountSame
    <2> QED BY <2>5, <2>6, <2>7, <2>8, <2>9 DEF Next
  <1>2. Spec /\ []ReadsAreCurrent => [][Lasts]_vars
    BY <1>1, StateAlways, PTL DEF Spec
  <1> QED BY <1>2 DEF LockLasts

LEMMA PairsLeft ==
  ASSUME [Next]_vars, ~\E w \in Workers : LoginInsert(w) \/ RefreshRotate(w) \/ Audit(w)
  PROVE  pairs' = pairs
  <1>1. ASSUME NEW w \in Workers, Receive(w) PROVE pairs' = pairs
    BY <1>1 DEF Receive, Refuse, LoginSelect, Logout, RefreshSelect, RevokeSession, ChangePassword,
         CreateUser, UpdateUser, DeleteUser, UnlockUser, TrustDevice, RevokeDevice, DeleteDevice, vars
  <1>2. ASSUME NEW w \in Workers, Continue(w),
               ~LoginInsert(w), ~RefreshRotate(w), ~Audit(w)
        PROVE  pairs' = pairs
    BY <1>2 DEF Continue, LoginStep, LoginFailed, LoginReset, TrackDevice, RefreshStep,
         RefreshExpired, RefreshUser, PasswordStep, PasswordUpdate, PasswordSessions, UpdateStep,
         UpdatePassword, UpdateRole, UpdateActive
  <1>3. CASE Restart \/ Tick \/ UNCHANGED vars
    BY <1>3 DEF Restart, Tick, vars
  <1> QED BY <1>1, <1>2, <1>3 DEF Next

(* The three steps that touch a pair, each with what it makes or sends.    *)
LEMMA PairsInserted ==
  ASSUME TypeInv, ReadsAreCurrent, NEW w \in Workers, LoginInsert(w)
  PROVE  /\ Sent' \subseteq Sent
         /\ \A t \in Made' \ Made : LET u == pairs'[t].user
              IN Exists(u) /\ pairs'[t].role = users[u].role
  <1>1. PICK t \in Unused :
          pairs' = [pairs EXCEPT ![t] = NewPair(req[w].user, req[w].role, t, FALSE)]
    BY DEF LoginInsert
  <1>2. t \in Tokens /\ t \notin Made /\ pairs \in [Tokens -> Pair \cup {None}]
    BY DEF Unused, TypeInv, TypeOK
  <1>3. /\ pairs'[t].sent = FALSE /\ pairs'[t].user = req[w].user
        /\ pairs'[t].role = req[w].role
    BY <1>1, <1>2 DEF NewPair
  <1>4. \A v \in Tokens \ {t} : pairs'[v] = pairs[v]
    BY <1>1, <1>2
  <1>5. Exists(req[w].user) /\ req[w].role = users[req[w].user].role
    BY DEF LoginInsert, ReadsAreCurrent, Current
  <1>6. Sent' \subseteq Sent
    BY <1>3, <1>4 DEF Sent, Made
  <1>7. Made' \ Made \subseteq {t}
    BY <1>4 DEF Made
  <1> QED BY <1>3, <1>5, <1>6, <1>7

LEMMA PairsRotated ==
  ASSUME TypeInv, ReadsAreCurrent, NEW w \in Workers, RefreshRotate(w)
  PROVE  /\ \A t \in Sent' \ Sent :
              \E s \in Tokens : sessions'[s] # None /\ sessions'[s].token = t
         /\ \A t \in Made' \ Made : LET u == pairs'[t].user
              IN Exists(u) /\ pairs'[t].role = users[u].role
  <1> USE DEF TypeInv
  <1>1. PICK t \in Unused :
          /\ pairs' = [pairs EXCEPT ![t] = NewPair(req[w].user, req[w].role, req[w].sid, TRUE)]
          /\ RotateSession(req[w].token, t)
    BY DEF RefreshRotate
  <1>2. t \in Tokens /\ t \notin Made /\ pairs \in [Tokens -> Pair \cup {None}]
    BY DEF Unused, TypeOK
  <1>3. pairs'[t].user = req[w].user /\ pairs'[t].role = req[w].role
    BY <1>1, <1>2 DEF NewPair
  <1>4. \A v \in Tokens \ {t} : pairs'[v] = pairs[v]
    BY <1>1, <1>2
  <1>5. /\ Exists(req[w].user) /\ req[w].role = users[req[w].user].role
        /\ SessionsWith(req[w].token) # {}
    BY DEF RefreshRotate, ReadsAreCurrent, Current
  <1>6. PICK s \in SessionsWith(req[w].token) : TRUE
    BY <1>5
  <1>7. s \in Tokens /\ sessions[s] \in SessionRow
    BY DEF SessionsWith, TypeOK
  <1>8. sessions'[s] = [sessions[s] EXCEPT !.token = t, !.expires = now + RefreshTokenTTL]
    BY <1>1, <1>7 DEF RotateSession
  <1>9. now + RefreshTokenTTL \in Nat
    BY ConfigAssumption DEF TypeOK
  <1>10. sessions'[s] # None /\ sessions'[s].token = t
    BY <1>2, <1>7, <1>8, <1>9, RowAssumption DEF SessionRow
  <1>11. Sent' \ Sent \subseteq {t} /\ Made' \ Made \subseteq {t}
    BY <1>4 DEF Sent, Made
  <1> QED BY <1>3, <1>5, <1>7, <1>10, <1>11

LEMMA PairsSent ==
  ASSUME TypeInv, ReadsAreCurrent, NEW w \in Workers, Audit(w)
  PROVE  /\ \A t \in Sent' \ Sent :
              \E s \in Tokens : sessions'[s] # None /\ sessions'[s].token = t
         /\ Made' \subseteq Made
  <1> USE DEF TypeInv
  <1> DEFINE t == req[w].token
  <1>1. sessions' = sessions /\ req[w].pc = "audit"
    BY DEF Audit
  <1>2. CASE t = None
    BY <1>2 DEF Audit, Sent, Made
  <1>3. CASE t # None
    <2>1. t \in Made /\ SessionsWith(t) # {} /\ pairs \in [Tokens -> Pair \cup {None}]
      BY <1>1, <1>3 DEF RequestsSound, Sound, ReadsAreCurrent, Current, TypeOK
    <2>2. pairs' = [pairs EXCEPT ![t].sent = TRUE]
      BY <1>3 DEF Audit
    <2>3. \A v \in Tokens \ {t} : pairs'[v] = pairs[v]
      BY <2>2, <2>1
    <2>4. Sent' \ Sent \subseteq {t} /\ Made' \subseteq Made
      BY <2>1, <2>3 DEF Sent, Made
    <2>5. \E s \in Tokens : sessions'[s] # None /\ sessions'[s].token = t
      BY <1>1, <2>1 DEF SessionsWith
    <2> QED BY <2>4, <2>5
  <1> QED BY <1>2, <1>3

(* A refresh token that is handed out is in the table at that moment,      *)
(* unless the session was deleted between the statement that found or      *)
(* wrote it and the reply (auth.go:108-121, 175-210).                      *)
THEOREM OnlyStaleReadsSendDeadTokens == Spec /\ []ReadsAreCurrent => SentTokenIsStored
  <1> DEFINE Stored == \A t \in Sent' \ Sent : \E s \in Tokens :
               sessions'[s] # None /\ sessions'[s].token = t
  <1>1. StateInv /\ [Next]_vars => Stored
    <2> SUFFICES ASSUME StateInv, [Next]_vars PROVE Stored
      OBVIOUS
    <2>1. pairs' = pairs => Stored
      BY DEF Sent, Made
    <2> QED BY <2>1, PairsLeft, PairsInserted, PairsRotated, PairsSent DEF StateInv
  <1>2. Spec /\ []ReadsAreCurrent => [][Stored]_vars
    BY <1>1, StateAlways, PTL DEF Spec
  <1> QED BY <1>2 DEF SentTokenIsStored

(* A token is made with the role its account has at that moment, unless an *)
(* UpdateUser or a DeleteUser comes between the SELECT of the role and the *)
(* signing (auth.go:47 and 98, 195-197).                                   *)
THEOREM OnlyStaleReadsSignOldRoles == Spec /\ []ReadsAreCurrent => MadeWithCurrentRole
  <1> DEFINE OfRow == \A t \in Made' \ Made : LET u == pairs'[t].user
               IN Exists(u) /\ pairs'[t].role = users[u].role
  <1>1. StateInv /\ [Next]_vars => OfRow
    <2> SUFFICES ASSUME StateInv, [Next]_vars PROVE OfRow
      OBVIOUS
    <2>1. pairs' = pairs => OfRow
      BY DEF Made
    <2>2. (Made' \subseteq Made) => OfRow
      OBVIOUS
    <2> QED BY <2>1, <2>2, PairsLeft, PairsInserted, PairsRotated, PairsSent DEF StateInv
  <1>2. Spec /\ []ReadsAreCurrent => [][OfRow]_vars
    BY <1>1, StateAlways, PTL DEF Spec
  <1> QED BY <1>2 DEF MadeWithCurrentRole

-----------------------------------------------------------------------------
(* Requests in turn: with one worker only the clock moves while a handler  *)
(* is at work, and no read becomes stale.                                  *)
InTurn == \A v, w \in Workers : v = w

(* A request that has nothing to remember.                                 *)
Unbound(r) ==
  /\ r.pc \notin {"login_failed", "login_insert", "login_reset", "login_device",
                  "refresh_user", "refresh_rotate"}
  /\ r.pc = "audit" => r.token = None

LEMMA UnboundIsCurrent ==
  ASSUME InTurn, NEW w \in Workers, Unbound(req'[w])
  PROVE  ReadsAreCurrent'
  BY DEF InTurn, Unbound, ReadsAreCurrent, Current

LEMMA UnboundServed ==
  ASSUME TypeInv, InTurn, NEW w \in Workers, NEW r, Serve(w, r), Unbound(r)
  PROVE  ReadsAreCurrent'
  <1>1. req'[w] = r
    BY DEF Serve, TypeInv, TypeOK
  <1> QED BY <1>1, UnboundIsCurrent

LEMMA UnboundConcluded ==
  ASSUME TypeInv, InTurn, NEW w \in Workers, NEW claims, NEW event, Conclude(w, claims, event)
  PROVE  ReadsAreCurrent'
  <1> DEFINE r == IF claims = None
                  THEN [Idle EXCEPT !.pc = "panicked", !.event = event]
                  ELSE [Idle EXCEPT !.pc = "audit", !.who = claims, !.event = event]
  <1>1. Serve(w, r) /\ Unbound(r)
    BY DEF Conclude, Unbound, Idle
  <1> HIDE DEF r
  <1> QED BY <1>1, UnboundServed

LEMMA ReturnIsCurrent ==
  ASSUME TypeInv, InTurn, NEW w \in Workers, Return(w)
  PROVE  ReadsAreCurrent'
  <1>1. Unbound(Idle)
    BY DEF Unbound, Idle
  <1> QED BY <1>1, UnboundServed DEF Return

LEMMA ContinueInTurn ==
  ASSUME TypeInv, ReadsAreCurrent, InTurn, NEW w \in Workers, Continue(w)
  PROVE  ReadsAreCurrent'
  <1> USE DEF TypeInv
  <1> DEFINE q == req[w]
  <1>1. q \in Request /\ Current(q) /\ \A v \in Workers : v = w
    BY DEF TypeOK, ReadsAreCurrent, InTurn
  <1>2. CASE LoginFailed(w)
    <2> DEFINE r == [Idle EXCEPT !.pc = "audit", !.who = q.user, !.event = "auth.login_failed"]
    <2>1. Serve(w, r) /\ Unbound(r)
      BY <1>2 DEF LoginFailed, Unbound, Idle
    <2> HIDE DEF r
    <2> QED BY <2>1, UnboundServed
  <1>3. CASE LoginInsert(w)
    <2>1. PICK t \in Unused :
            /\ InsertSession(t, q.user)
            /\ Serve(w, [q EXCEPT !.pc = "login_reset", !.role = None, !.token = t])
      BY <1>3 DEF LoginInsert
    <2>2. /\ req'[w].pc = "login_reset" /\ req'[w].user = q.user /\ req'[w].token = t
          /\ t \in Tokens
      BY <1>1, <2>1 DEF Serve, TypeOK, Request, Unused
    <2>3. Exists(q.user) /\ ~LockedOut(users[q.user]) /\ users' = users /\ now' = now
      BY <1>1, <1>3 DEF LoginInsert, Current, accountVars
    <2>4. sessions'[t] = [user |-> q.user, token |-> t, expires |-> now + RefreshTokenTTL]
      BY <2>1, <2>2, <2>3 DEF InsertSession, TypeOK
    <2>5. sessions'[t] # None
      <3>1. q.user \in UserIds /\ now + RefreshTokenTTL \in Nat
        BY <1>3, ConfigAssumption DEF LoginInsert, RequestsSound, Sound, TypeOK
      <3> QED BY <2>2, <2>4, <3>1, RowAssumption DEF SessionRow
    <2>6. t \in {s \in Tokens : sessions'[s] # None /\ sessions'[s].token = t}
      BY <2>2, <2>4, <2>5
    <2>7. (Current(req[w]))'
      BY <2>2, <2>3, <2>6 DEF Current, SessionsWith, Exists, LockedOut
    <2> QED BY <1>1, <2>7 DEF ReadsAreCurrent
  <1>4. CASE LoginReset(w)
    <2>1. /\ req'[w].pc = "login_device" /\ req'[w].token = q.token
          /\ sessions' = sessions /\ SessionsWith(q.token) # {}
      BY <1>1, <1>4 DEF LoginReset, Serve, TypeOK, Request, Current
    <2>2. (Current(req[w]))'
      BY <2>1 DEF Current, SessionsWith
    <2> QED BY <1>1, <2>2 DEF ReadsAreCurrent
  <1>5. CASE TrackDevice(w)
    <2>1. /\ req'[w].pc = "audit" /\ req'[w].token = q.token
          /\ sessions' = sessions /\ SessionsWith(q.token) # {}
      BY <1>1, <1>5 DEF TrackDevice, Serve, TypeOK, Idle, Current
    <2>2. (Current(req[w]))'
      BY <2>1 DEF Current, SessionsWith
    <2> QED BY <1>1, <2>2 DEF ReadsAreCurrent
  <1>6. CASE RefreshExpired(w) \/ RefreshRotate(w) \/ Audit(w)
    BY <1>6, ReturnIsCurrent DEF RefreshExpired, RefreshRotate, Audit
  <1>7. CASE RefreshUser(w)
    <2>1. /\ req'[w].pc = "refresh_rotate" /\ req'[w].user = q.user
          /\ req'[w].token = q.token
          /\ req'[w].role = (IF Exists(q.user) THEN users[q.user].role ELSE None)
          /\ users' = users /\ sessions' = sessions
          /\ SessionsWith(q.token) # {} /\ Exists(q.user)
      BY <1>1, <1>7 DEF RefreshUser, Serve, TypeOK, Request, Current, accountVars
    <2>2. (Current(req[w]))'
      BY <2>1 DEF Current, SessionsWith, Exists
    <2> QED BY <1>1, <2>2 DEF ReadsAreCurrent
  <1>8. CASE PasswordUpdate(w) \/ UpdatePassword(w) \/ UpdateRole(w)
    <2>1. PICK r : /\ Serve(w, r)
                   /\ r.pc \in {"password_sessions", "update_role", "update_active"}
      <3>1. CASE PasswordUpdate(w)
        <4>1. [q EXCEPT !.pc = "password_sessions", !.pwd = None].pc = "password_sessions"
          BY <1>1 DEF Request
        <4> QED BY <3>1, <4>1 DEF PasswordUpdate
      <3>2. CASE UpdatePassword(w)
        <4>1. [q EXCEPT !.pc = "update_role", !.pwd = None].pc = "update_role"
          BY <1>1 DEF Request
        <4> QED BY <3>2, <4>1 DEF UpdatePassword
      <3>3. CASE UpdateRole(w)
        <4>1. [q EXCEPT !.pc = "update_active", !.role = None].pc = "update_active"
          BY <1>1 DEF Request
        <4> QED BY <3>3, <4>1 DEF UpdateRole
      <3> QED BY <1>8, <3>1, <3>2, <3>3
    <2>2. Unbound(r)
      BY <2>1 DEF Unbound
    <2> QED BY <2>1, <2>2, UnboundServed
  <1>9. CASE PasswordSessions(w) \/ UpdateActive(w)
    BY <1>9, UnboundConcluded DEF PasswordSessions, UpdateActive
  <1> QED BY <1>2, <1>3, <1>4, <1>5, <1>6, <1>7, <1>8, <1>9
        DEF Continue, LoginStep, RefreshStep, PasswordStep, UpdateStep

LEMMA ReceiveInTurn ==
  ASSUME TypeInv, ReferentialIntegrity, ReadsAreCurrent, InTurn, NEW w \in Workers, Receive(w)
  PROVE  ReadsAreCurrent'
  <1> USE DEF TypeInv
  <1>1. \A v \in Workers : v = w
    BY DEF InTurn
  <1>2. CASE Refuse(w)
    BY <1>2 DEF Refuse, vars, ReadsAreCurrent, Current, Exists, LockedOut, SessionsWith
  <1>3. ASSUME NEW u \in UserIds, NEW p \in Passwords, NEW d \in Fingerprints,
               LoginSelect(w, u, p, d)
        PROVE  ReadsAreCurrent'
    <2>1. users' = users /\ now' = now
      BY <1>3 DEF LoginSelect, accountVars
    <2>2. CASE Serve(w, [Idle EXCEPT !.pc = "audit", !.event = "auth.login_failed"])
      <3>1. Unbound(req'[w])
        BY <2>2 DEF Serve, TypeOK, Idle, Unbound
      <3> QED BY <3>1, UnboundIsCurrent
    <2>3. CASE /\ Exists(u)
               /\ Serve(w, [Idle EXCEPT !.pc = "login_failed", !.user = u,
                                        !.fails = users[u].failed])
      <3>1. /\ req'[w].pc = "login_failed" /\ req'[w].user = u
            /\ req'[w].fails = users[u].failed
        BY <2>3 DEF Serve, TypeOK, Idle
      <3>2. (Current(req[w]))'
        BY <2>1, <2>3, <3>1 DEF Current, Exists
      <3> QED BY <1>1, <3>2 DEF ReadsAreCurrent
    <2>4. CASE /\ Exists(u) /\ MayLogIn(users[u])
               /\ Serve(w, [Idle EXCEPT !.pc = "login_insert", !.user = u,
                                        !.role = users[u].role, !.device = d])
      <3>1. /\ req'[w].pc = "login_insert" /\ req'[w].user = u
            /\ req'[w].role = users[u].role
        BY <2>4 DEF Serve, TypeOK, Idle
      <3>2. (Current(req[w]))'
        BY <2>1, <2>4, <3>1 DEF Current, Exists, MayLogIn, LockedOut
      <3> QED BY <1>1, <3>2 DEF ReadsAreCurrent
    <2> QED BY <1>3, <2>2, <2>3, <2>4 DEF LoginSelect
  <1>4. ASSUME NEW t \in Tokens, Logout(w, t) \/ RevokeSession(w, t) PROVE ReadsAreCurrent'
    BY <1>4, ReturnIsCurrent, UnboundConcluded DEF Logout, RevokeSession
  <1>5. ASSUME NEW t \in Tokens, RefreshSelect(w, t) PROVE ReadsAreCurrent'
    <2>1. PICK s \in SessionsWith(t) : Serve(w, [Idle EXCEPT
            !.pc = IF now > sessions[s].expires THEN "refresh_expired" ELSE "refresh_user",
            !.user = sessions[s].user, !.token = t, !.sid = s])
      BY <1>5 DEF RefreshSelect
    <2>2. /\ req'[w].pc \in {"refresh_expired", "refresh_user"}
          /\ req'[w].user = sessions[s].user /\ req'[w].token = t
          /\ users' = users /\ sessions' = sessions
      BY <1>5, <2>1 DEF RefreshSelect, Serve, TypeOK, Idle, accountVars
    <2>3. Exists(sessions[s].user) /\ s \in SessionsWith(t)
      BY DEF SessionsWith, ReferentialIntegrity
    <2>4. (Current(req[w]))'
      BY <2>2, <2>3 DEF Current, SessionsWith, Exists
    <2> QED BY <1>1, <2>4 DEF ReadsAreCurrent
  <1>6. ASSUME NEW p \in Passwords, NEW new \in Passwords, ChangePassword(w, p, new)
        PROVE  ReadsAreCurrent'
    <2>1. PICK u : \/ Serve(w, [Idle EXCEPT !.pc = "panicked"])
                   \/ Serve(w, [Idle EXCEPT !.pc = "password_update", !.user = u, !.pwd = new])
      BY <1>6 DEF ChangePassword
    <2>2. Unbound(req'[w])
      BY <2>1, ZenonT(60) DEF Serve, TypeOK, Idle, Unbound
    <2> QED BY <2>2, UnboundIsCurrent
  <1>7. ASSUME NEW u \in UserIds, NEW p \in Passwords, NEW role \in Roles,
               CreateUser(w, u, p, role)
        PROVE  ReadsAreCurrent'
    BY <1>7, UnboundConcluded DEF CreateUser
  <1>8. ASSUME NEW u \in UserIds, NEW p \in Passwords \cup {None},
               NEW role \in Roles \cup {None}, NEW active \in BOOLEAN \cup {None},
               UpdateUser(w, u, p, role, active)
        PROVE  ReadsAreCurrent'
    <2>1. Unbound(req'[w])
      BY <1>8 DEF UpdateUser, Serve, TypeOK, Idle, Unbound
    <2> QED BY <2>1, UnboundIsCurrent
  <1>9. ASSUME NEW u \in UserIds, DeleteUser(w, u) PROVE ReadsAreCurrent'
    <2>1. PICK claims, who :
            \/ Serve(w, [Idle EXCEPT !.pc = "panicked", !.user = u, !.who = who])
            \/ Conclude(w, claims, "security.user_deleted")
      BY <1>9 DEF DeleteUser
    <2>2. CASE Serve(w, [Idle EXCEPT !.pc = "panicked", !.user = u, !.who = who])
      <3>1. Unbound(req'[w])
        BY <2>2 DEF Serve, TypeOK, Idle, Unbound
      <3> QED BY <3>1, UnboundIsCurrent
    <2> QED BY <2>1, <2>2, UnboundConcluded
  <1>10. ASSUME NEW u \in UserIds, UnlockUser(w, u) PROVE ReadsAreCurrent'
    BY <1>10, UnboundConcluded DEF UnlockUser
  <1>11. ASSUME NEW row \in listed,
                TrustDevice(w, row) \/ RevokeDevice(w, row) \/ DeleteDevice(w, row)
         PROVE  ReadsAreCurrent'
    BY <1>11, UnboundConcluded DEF TrustDevice, RevokeDevice, DeleteDevice
  <1> QED BY <1>2, <1>3, <1>4, <1>5, <1>6, <1>7, <1>8, <1>9, <1>10, <1>11 DEF Receive

(* A restart forgets all requests; time ends locks and begins none.        *)
LEMMA ClockInTurn ==
  ASSUME TypeInv, ReadsAreCurrent, Restart \/ Tick \/ UNCHANGED vars
  PROVE  ReadsAreCurrent'
  <1>1. CASE Restart
    BY <1>1 DEF Restart, Idle, ReadsAreCurrent, Current
  <1>2. CASE Tick
    <2>1. UNCHANGED <<users, sessions, req>> /\ now' = now + 1
      BY <1>2 DEF Tick, accountVars
    <2>2. ASSUME NEW v \in Workers PROVE (Current(req[v]))'
      <3>1. Current(req[v]) /\ req'[v] = req[v]
        BY <2>1 DEF ReadsAreCurrent
      <3>2. ASSUME req[v].pc \in {"login_insert", "login_reset"}, Exists(req[v].user),
                   ~LockedOut(users[req[v].user])
            PROVE  ~(now' < users[req[v].user].locked)
        <4>1. req[v].user \in UserIds
          BY <3>2 DEF TypeInv, RequestsSound, Sound
        <4>2. now \in Nat /\ users[req[v].user].locked \in Nat
          BY <3>2, <4>1 DEF TypeInv, TypeOK, Exists, UserRow
        <4> QED BY <2>1, <3>2, <4>2 DEF LockedOut
      <3> QED BY <2>1, <3>1, <3>2 DEF Current, Exists, LockedOut, SessionsWith
    <2> QED BY <2>2 DEF ReadsAreCurrent
  <1>3. CASE UNCHANGED vars
    BY <1>3 DEF vars, ReadsAreCurrent, Current, Exists, LockedOut, SessionsWith
  <1> QED BY <1>1, <1>2, <1>3
LEMMA InTurnNext ==
  ASSUME InTurn
  PROVE  TypeInv /\ ReferentialIntegrity /\ ReadsAreCurrent /\ [Next]_vars => ReadsAreCurrent'
  BY ContinueInTurn, ReceiveInTurn, ClockInTurn DEF Next

(* If requests are served one after the other no handler ever acts on a    *)
(* stale read, and what the theorems above promise holds without           *)
(* exception; the code serves them at the same time (auth.go:47-121,       *)
(* 175-210).                                                               *)
THEOREM ReadsAreCurrentInTurn ==
  ASSUME InTurn
  PROVE  Spec => [](ReadsAreCurrent /\ CountIsCurrent)
  <1> DEFINE Inv == TypeInv /\ ReferentialIntegrity /\ ReadsAreCurrent
  <1>1. Init => Inv
    <2> SUFFICES ASSUME Init PROVE Inv
      OBVIOUS
    <2>1. ReferentialIntegrity
      BY DEF Init, ReferentialIntegrity
    <2>2. ReadsAreCurrent
      BY DEF Init, ReadsAreCurrent, Current, Idle
    <2> QED BY <2>1, <2>2, InitTyped
  <1>2. Inv /\ [Next]_vars => Inv'
    BY NextTyped, NextIntegrity, InTurnNext
  <1>3. Inv => ReadsAreCurrent /\ CountIsCurrent
    BY CurrentIsCount
  <1> QED BY <1>1, <1>2, <1>3, PTL DEF Spec
(* So one request at a time is enough for all of it: the lockout after     *)
(* that many wrong passwords, the unlock and the lock that last, the       *)
(* refresh token that is in the table and the role that is current         *)
(* (auth.go:47-121, 175-210; security.go:225).                             *)
THEOREM InTurnAllHolds ==
  ASSUME InTurn, MaxLoginFails > 0
  PROVE  Spec => /\ []LockoutAfterMax /\ []UnlockHolds
                 /\ LockLasts /\ SentTokenIsStored /\ MadeWithCurrentRole
  BY ReadsAreCurrentInTurn, OnlyStaleCountsEscape, OnlyStaleCountsRelock, OnlyStaleReadsClearLocks,
     OnlyStaleReadsSendDeadTokens, OnlyStaleReadsSignOldRoles, PTL
=============================================================================
