----------------------------- MODULE ClientSession -----------------------------
(***************************************************************************)
(* The dashboard's side of a session (frontend/src/lib/api.ts, context/    *)
(* AuthContext.tsx): two tokens in local storage, which every request of   *)
(* every page reads, and a request answered 401 replaces by a refresh.     *)
(*                                                                         *)
(* A request is the continuation of one call of request(): what runs       *)
(* between two awaits is one action.  The server is the table of sessions  *)
(* as TokenChain promises it; a refresh there is a SELECT and an UPDATE.   *)
(* A token stands for the pair it was issued in: access token and refresh  *)
(* token of one pair are the same value in different places.               *)
(***************************************************************************)
EXTENDS Naturals, FiniteSets

CONSTANTS
  Requests,     (* calls of request() under way at once                      *)
  Tokens,       (* token pairs, numbers                                      *)
  None,         (* no token                                                  *)
  HasClaims     (* whether handlers find the claims of the access token      *)

Kinds == {"call", "me", "login", "logout"}

VARIABLES
  store,    (* localStorage: fabrixe_token and fabrixe_refresh               *)
  req,      (* the request() calls under way                                 *)
  holds, spent,  (* the table of sessions, see TokenChain                    *)
  stale,    (* access tokens that have expired                               *)
  out,      (* history: logged out, and no login attempted since             *)
  mishap    (* history: exchanges have overlapped, an answer was lost or     *)
            (* left unread in one, or a login replaced a session             *)

vars == <<store, req, holds, spent, stale, out, mishap>>

Server == INSTANCE TokenChain

(* Tokens are random: which of the fresh ones comes next is immaterial.    *)
NextToken == {t \in Tokens : Server!Fresh(t) /\ \A u \in Tokens : Server!Fresh(u) => t <= u}

(* A request: what it waits for, the access token it was sent with and the *)
(* one it was refused with before, the refresh token it presents, the      *)
(* answer and the pair in it.                                              *)
Idle == [pc |-> "idle", kind |-> "call", sent |-> None, refused |-> None,
         refresh |-> None, reply |-> "", pair |-> None]

Init ==
  /\ store = [access |-> None, refresh |-> None]
  /\ req = [r \in Requests |-> Idle]
  /\ Server!Init
  /\ stale = {} /\ out = FALSE /\ mishap = FALSE

serverVars == <<holds, spent, stale>>
-----------------------------------------------------------------------------
Become(r, q) == req' = [req EXCEPT ![r] = q]
Done(r) == Become(r, Idle)

Answer(r, pc, reply, t) ==
  Become(r, [req[r] EXCEPT !.pc = pc, !.reply = reply, !.pair = t,
               !.refresh = IF pc = "rotating" THEN @ ELSE None,
               !.sent = IF reply \in {"ok", "failed"} /\ pc = "answered" THEN None ELSE @,
               !.refused = None])

(* Exchanges replace or remove tokens: no two of them should overlap.      *)
Exchanging(r) ==
  \/ req[r].pc # "idle" /\ req[r].kind \in {"login", "logout"}
  \/ req[r].pc \in {"refreshing", "rotating", "refreshed"}
BeginExchange(r) ==
  mishap' = (mishap \/ \E q \in Requests \ {r} : Exchanging(q))

SetTokens(t) == store' = [access |-> t, refresh |-> t]

ClearTokens == store' = [access |-> None, refresh |-> None]

(* Bound: after a mishap the requests under way end, and no more begin.    *)
GoesOn == ~mishap

(* Mutant: auth.logout() is called without its optional argument.          *)
SendLogoutBare(r, kind) ==
  /\ req[r].pc = "idle" /\ GoesOn
  /\ Become(r, [Idle EXCEPT !.pc = "sent", !.kind = kind,
                   !.sent = IF kind \in {"call", "me"} THEN store.access ELSE None])
  /\ IF kind \in {"login", "logout"} THEN BeginExchange(r) ELSE UNCHANGED mishap
  /\ out' = (out /\ kind # "login")
  /\ UNCHANGED <<store, serverVars>>

(* The login and logout routes do not look at the access token; a logout   *)
(* names the refresh token found at the click.                             *)
Send(r, kind) ==
  /\ req[r].pc = "idle" /\ GoesOn
  /\ Become(r, [Idle EXCEPT !.pc = "sent", !.kind = kind,
                   !.sent = IF kind \in {"call", "me"} THEN store.access ELSE None,
                   !.refresh = IF kind = "logout" THEN store.refresh ELSE None])
  /\ IF kind \in {"login", "logout"} THEN BeginExchange(r) ELSE UNCHANGED mishap
  /\ out' = (out /\ kind # "login")
  /\ UNCHANGED <<store, serverVars>>

-----------------------------------------------------------------------------
(* The server.                                                             *)

(* requireAuth looks at the access token only; Me answers 401 as well when *)
(* it has no claims.                                                       *)
ServeCall(r) ==
  /\ req[r].pc = "sent" /\ req[r].kind \in {"call", "me"}
  /\ LET valid == req[r].sent # None /\ req[r].sent \notin stale
         served == valid /\ (req[r].kind = "me" => HasClaims)
     IN Answer(r, "answered", IF served THEN "ok" ELSE "denied", None)
  /\ UNCHANGED <<store, serverVars, out, mishap>>

ServeLogin(r) ==
  /\ req[r].pc = "sent" /\ req[r].kind = "login"
  /\ \/ Answer(r, "answered", "denied", None) /\ UNCHANGED <<holds, spent>>
     \/ \E t \in NextToken : Server!Open(t) /\ Answer(r, "answered", "ok", t)
  /\ UNCHANGED <<store, stale, out, mishap>>

ServeLogout(r) ==
  /\ req[r].pc = "sent" /\ req[r].kind = "logout"
  /\ Server!Close({s \in Tokens : holds[s] = req[r].refresh /\ holds[s] # None})
  /\ Answer(r, "answered", "ok", None)
  /\ UNCHANGED <<store, stale, out, mishap>>

RefreshSelect(r) ==
  /\ req[r].pc = "refreshing"
  /\ IF req[r].refresh \in Server!Accepted
     THEN Answer(r, "rotating", "", None) ELSE Answer(r, "refreshed", "denied", None)
  /\ UNCHANGED <<store, serverVars, out, mishap>>

(* The UPDATE may find that the token is gone; the reply is the same.      *)
RefreshRotate(r) ==
  /\ req[r].pc = "rotating"
  /\ \E t \in NextToken :
       /\ IF req[r].refresh \in Server!Accepted
          THEN \E s \in Tokens : holds[s] = req[r].refresh /\ Server!Renew(s, t)
          ELSE Server!Waste(t)
       /\ Answer(r, "refreshed", "ok", t)
  /\ UNCHANGED <<store, stale, out, mishap>>

AccessExpires(t) ==
  /\ ~Server!Fresh(t) /\ t \notin stale
  /\ stale' = stale \cup {t}
  /\ UNCHANGED <<store, req, holds, spent, out, mishap>>

(* An administrator revokes the session, or it expires.                    *)
SessionEnds(s) ==
  /\ holds[s] # None
  /\ Server!Close({s})
  /\ UNCHANGED <<store, req, stale, out, mishap>>

-----------------------------------------------------------------------------
(* Back in the browser.                                                    *)

(* The request or its answer is lost, or the server answers 429 or 500.    *)
Fail(r) ==
  /\ \/ req[r].pc \in {"sent", "answered"} /\ Answer(r, "answered", "failed", None)
     \/ req[r].pc \in {"refreshing", "refreshed"} /\ Answer(r, "refreshed", "failed", None)
  /\ mishap' = TRUE
  /\ UNCHANGED <<store, serverVars, out>>

(* The page is closed or reloaded: nobody reads the answer.                *)
Leave(r) ==
  /\ req[r].pc \in {"sent", "answered", "refreshing", "refreshed"}
  /\ mishap' = (mishap \/ Exchanging(r))
  /\ Done(r)
  /\ UNCHANGED <<store, serverVars, out>>

ReceiveOk(r) ==
  /\ req[r].pc = "answered" /\ req[r].reply = "ok"
  /\ CASE req[r].kind = "login" -> SetTokens(req[r].pair)
       [] req[r].kind = "logout" -> ClearTokens
       [] OTHER -> UNCHANGED store
  /\ mishap' = (mishap \/ (req[r].kind = "login" /\ store.refresh # None))
  /\ out' = (out \/ req[r].kind = "logout")
  /\ Done(r)
  /\ UNCHANGED serverVars

(* The caller gets an exception; that of auth.me() clears the tokens,      *)
(* that of auth.logout() is dropped.                                       *)
ReceiveFailure(r) ==
  /\ req[r].pc = "answered" /\ req[r].reply = "failed"
  /\ IF req[r].kind = "me" THEN ClearTokens ELSE UNCHANGED store
  /\ Done(r)
  /\ UNCHANGED <<serverVars, out, mishap>>

(* Mutant: the refresh goes out with the token of the refused request.     *)
DeniedUsesSent(r) ==
  /\ req[r].pc = "answered" /\ req[r].reply = "denied"
  /\ IF req[r].sent # None
     THEN /\ Become(r, [req[r] EXCEPT !.pc = "refreshing", !.refresh = req[r].sent])
          /\ BeginExchange(r) /\ UNCHANGED store
     ELSE ClearTokens /\ Done(r) /\ UNCHANGED mishap
  /\ UNCHANGED <<serverVars, out>>

ReceiveDenied(r) ==
  /\ req[r].pc = "answered" /\ req[r].reply = "denied"
  /\ IF store.refresh # None
     THEN /\ Become(r, [req[r] EXCEPT !.pc = "refreshing", !.refresh = store.refresh])
          /\ BeginExchange(r) /\ UNCHANGED store
     ELSE ClearTokens /\ Done(r) /\ UNCHANGED mishap
  /\ UNCHANGED <<serverVars, out>>

(* Mutant: the request is repeated with the headers it had.                *)
RetryAsSent(r) ==
  /\ req[r].pc = "refreshed" /\ req[r].reply = "ok"
  /\ SetTokens(req[r].pair)
  /\ Become(r, [req[r] EXCEPT !.pc = "sent", !.refused = req[r].sent, !.reply = "", !.pair = None])
  /\ UNCHANGED <<serverVars, out, mishap>>

ReceiveRefreshed(r) ==
  /\ req[r].pc = "refreshed" /\ req[r].reply = "ok"
  /\ SetTokens(req[r].pair)
  /\ Become(r, [req[r] EXCEPT !.pc = "sent", !.refused = req[r].sent, !.reply = "", !.pair = None,
                   !.sent = IF req[r].kind \in {"call", "me"} THEN store'.access ELSE None])
  /\ UNCHANGED <<serverVars, out, mishap>>

ReceiveRefused(r) ==
  /\ req[r].pc = "refreshed" /\ req[r].reply \in {"denied", "failed"}
  /\ ClearTokens
  /\ Done(r)
  /\ UNCHANGED <<serverVars, out, mishap>>

Next ==
  \/ \E r \in Requests :
       \/ \E kind \in Kinds : Send(r, kind)
       \/ ServeCall(r) \/ ServeLogin(r) \/ ServeLogout(r) \/ RefreshSelect(r) \/ RefreshRotate(r)
       \/ Fail(r) \/ Leave(r)
       \/ ReceiveOk(r) \/ ReceiveFailure(r) \/ ReceiveDenied(r)
       \/ ReceiveRefreshed(r) \/ ReceiveRefused(r)
  \/ \E t \in Tokens : AccessExpires(t) \/ SessionEnds(t)

Spec == Init /\ [][Next]_vars

-----------------------------------------------------------------------------
(* If exchanges never overlap, no answer is lost and no login replaces      *)
(* another, the browser never loses a session: what the server accepts is  *)
(* in storage or on its way there (api.ts:33-55).                          *)
InHand(t) ==
  \/ store.refresh = t
  \/ \E r \in Requests : req[r].pc \in {"answered", "refreshed"} /\ req[r].pair = t
NothingLost == ~mishap => \A t \in Server!Accepted : InHand(t)

(* Under the same conditions a logout that was answered is final: the      *)
(* requests still under way, refused or not, bring no session back.        *)
LogoutIsFinal ==
  ~mishap /\ out => store.access = None /\ store.refresh = None /\ Server!Accepted = {}

(* A request is never sent again with the token it was refused with, in      *)
(* whatever way requests overlap and fail (api.ts:45-46).                  *)
NoBlindRetry ==
  \A r \in Requests : req[r].pc = "sent" /\ req[r].refused # None => req[r].sent # req[r].refused
=============================================================================
