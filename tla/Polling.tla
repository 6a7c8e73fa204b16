-------------------------------- MODULE Polling --------------------------------
(***************************************************************************)
(* A list that a page polls (frontend/src/hooks/useApi.ts): fetched when    *)
(* the page is mounted, after each action and at an interval, whether or   *)
(* not earlier fetches have been answered; answers are shown as they come. *)
(***************************************************************************)
EXTENDS Naturals

CONSTANTS
  Fetches,      (* fetches under way at once                                 *)
  Nothing,      (* no data: not loaded yet, or an error is shown             *)
  MaxChanges,   (* bound: changes of the data on the server                  *)
  MaxErrors     (* bound: fetches that fail                                  *)

VARIABLES
  data,      (* the version of the data on the server                        *)
  shown,     (* the version on the screen                                    *)
  fetch,     (* what each fetch has come to                                  *)
  life,      (* of the page: "new", "mounted", "left"                        *)
  interval,  (* setInterval has been called and not cleared                  *)
  errs       (* fetches that failed so far                                   *)

vars == <<data, shown, fetch, life, interval, errs>>

Idle == [pc |-> "idle", got |-> Nothing]

Init ==
  /\ data = 0 /\ shown = Nothing /\ fetch = [f \in Fetches |-> Idle]
  /\ life = "new" /\ interval = FALSE /\ errs = 0

-----------------------------------------------------------------------------
Send(f) == fetch[f] = Idle /\ fetch' = [fetch EXCEPT ![f].pc = "sent"]

Mount ==
  /\ life = "new" /\ life' = "mounted" /\ interval' = TRUE
  /\ \E f \in Fetches : Send(f)
  /\ UNCHANGED <<data, shown, errs>>

(* The interval, or refetch() after an action.                             *)
Poll(f) ==
  /\ life = "mounted" /\ interval
  /\ Send(f)
  /\ UNCHANGED <<data, shown, life, interval, errs>>

Serve(f) ==
  /\ fetch[f].pc = "sent"
  /\ fetch' = [fetch EXCEPT ![f] = [pc |-> "answered", got |-> data]]
  /\ UNCHANGED <<data, shown, life, interval, errs>>

Fails(f) ==
  /\ fetch[f].pc = "sent" /\ errs < MaxErrors
  /\ errs' = errs + 1
  /\ fetch' = [fetch EXCEPT ![f].pc = "answered"]
  /\ UNCHANGED <<data, shown, life, interval>>

(* Mutant: an error ends the polling.                                      *)
ArriveStopsOnError(f) ==
  /\ fetch[f].pc = "answered"
  /\ shown' = IF life = "mounted" THEN fetch[f].got ELSE shown
  /\ interval' = (interval /\ fetch[f].got # Nothing)
  /\ fetch' = [fetch EXCEPT ![f] = Idle]
  /\ UNCHANGED <<data, life, errs>>

(* setState; after the page has gone it changes nothing.                   *)
Arrive(f) ==
  /\ fetch[f].pc = "answered"
  /\ shown' = IF life = "mounted" THEN fetch[f].got ELSE shown
  /\ fetch' = [fetch EXCEPT ![f] = Idle]
  /\ UNCHANGED <<data, life, interval, errs>>

Unmount ==
  /\ life = "mounted" /\ life' = "left" /\ interval' = FALSE
  /\ UNCHANGED <<data, shown, fetch, errs>>

(* Anybody's request, or the end of a run.                                 *)
Change ==
  /\ life # "new" /\ data < MaxChanges /\ data' = data + 1
  /\ UNCHANGED <<shown, fetch, life, interval, errs>>

Next ==
  \/ Mount \/ Unmount \/ Change
  \/ \E f \in Fetches : Poll(f) \/ Serve(f) \/ Fails(f) \/ Arrive(f)

(* The interval fires, and every fetch is answered, in any order.          *)
Fairness ==
  /\ WF_vars(\E f \in Fetches : Poll(f))
  /\ \A f \in Fetches : WF_vars(Serve(f)) /\ WF_vars(Arrive(f))

Spec == Init /\ [][Next]_vars /\ Fairness

-----------------------------------------------------------------------------
(* A page that stays open comes to show the data as it is, and goes on     *)
(* showing it, although an older answer may overwrite a newer one for a    *)
(* while and some fetches fail (useApi.ts:19-35; "Status updates           *)
(* automatically", user-guide.md:103).                                     *)
CatchesUp == <>[](life = "mounted" => shown = data)
=============================================================================
