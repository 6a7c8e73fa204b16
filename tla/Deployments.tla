------------------------------ MODULE Deployments ------------------------------
(***************************************************************************)
(* Deployments and scheduled tasks (api/handlers/deployment.go): rows that *)
(* are run by a goroutine of their own, which outlives the request that    *)
(* starts it and writes its outcome when the command has ended.            *)
(*                                                                         *)
(* Two tables of the same making are one here: the jobs in Tasks are rows  *)
(* of scheduled_tasks, the others of deployments.  A worker is a request,  *)
(* an action one SQL statement, as in Auth.  The audit rows, which nothing *)
(* below reads, are left out; the statements that write them are not.      *)
(***************************************************************************)
EXTENDS Naturals, FiniteSets

CONSTANTS
  Jobs,             (* ids of rows; AUTOINCREMENT, an id is never reused     *)
  Tasks,            (* those of scheduled_tasks                              *)
  Runs,             (* bound: goroutines started in one behaviour            *)
  Workers,          (* requests served at the same time                      *)
  None,             (* an absent row, nil                                    *)
  RouterKey,        (* the context key requireRole stores the claims under   *)
  HandlerKey        (* the context key claimsFromCtx reads                   *)

ASSUME JobAssumption == Tasks \subseteq Jobs /\ None \notin Jobs

Configs == {"command", "blank"}             \* what a row tells to execute
Outcomes == {"success", "failed"}

JobRow == [config : Configs, active : BOOLEAN,
           status : {"idle", "running"} \cup Outcomes]     \* idle, or pending
Request == [pc : {"idle", "panicked", "audit", "run_update", "run_start"},
            job : Jobs \cup {None}, config : Configs \cup {None}]
Run == [job : Jobs, config : Configs, outcome : Outcomes \cup {None},
        phase : {"executing", "ended", "recorded", "done", "lost"}]

ASSUME RowAssumption ==
  None \notin JobRow /\ None \notin Run /\ None \notin Configs /\ None \notin Outcomes

Idle == [pc |-> "idle", job |-> None, config |-> None]

VARIABLES
  jobs,     (* the two tables                                                *)
  born,     (* their AUTOINCREMENT sequences: ids given so far               *)
  req,      (* the request each worker is serving                            *)
  runs,     (* the goroutines started so far                                 *)
  started,  (* history: the jobs set running since they were created         *)
  stuck     (* history: the jobs that were running when the server stopped   *)

vars == <<jobs, born, req, runs, started, stuck>>

TypeOK ==
  /\ jobs \in [Jobs -> JobRow \cup {None}] /\ born \subseteq Jobs
  /\ req \in [Workers -> Request]
  /\ runs \in [Runs -> Run \cup {None}]
  /\ started \subseteq Jobs /\ stuck \subseteq Jobs

Init ==
  /\ jobs = [j \in Jobs |-> None] /\ born = {}
  /\ req = [w \in Workers |-> Idle]
  /\ runs = [r \in Runs |-> None]
  /\ started = {} /\ stuck = {}

-----------------------------------------------------------------------------
(* Requests.  The claims are read when the statement, the audit row or the *)
(* goroutine is given its parameters, and reading nil panics.              *)

HasClaims == HandlerKey = RouterKey

Free(w) == req[w].pc \in {"idle", "panicked"}
Serve(w, r) == req' = [req EXCEPT ![w] = r]
Panicked == [Idle EXCEPT !.pc = "panicked"]

Conclude(w) == Serve(w, IF HasClaims THEN [Idle EXCEPT !.pc = "audit"] ELSE Panicked)

(* UPDATE ... WHERE id = j: no row, no effect.                             *)
UpdateRow(j, row) == jobs' = IF jobs[j] = None THEN jobs ELSE [jobs EXCEPT ![j] = row]

(* Answered before a statement that writes: a malformed body, an empty     *)
(* name, an unknown type, a row that is not there; and the reads.          *)
Refuse(w) == Free(w) /\ UNCHANGED vars

(* Mutant: a primary key without AUTOINCREMENT.                            *)
IdsNotInUse == {j \in Jobs : jobs[j] = None}

UnusedIds == Jobs \ born

(* Only tasks have is_active.                                              *)
Actives(j) == IF j \in Tasks THEN BOOLEAN ELSE {TRUE}

(* The INSERT itself needs the claims.                                     *)
CreateJob(w, config) ==
  /\ Free(w)
  /\ \E j \in UnusedIds : \E active \in Actives(j) :
       IF HasClaims
       THEN /\ jobs' = [jobs EXCEPT ![j] =
                 [config |-> config, active |-> active, status |-> "idle"]]
            /\ born' = born \cup {j} /\ started' = started \ {j} /\ stuck' = stuck \ {j}
       ELSE UNCHANGED <<jobs, born, started, stuck>>
  /\ Conclude(w)
  /\ UNCHANGED runs

UpdateJob(w, j, config) ==
  /\ Free(w)
  /\ \E active \in Actives(j) :
       UpdateRow(j, [jobs[j] EXCEPT !.config = config, !.active = active])
  /\ Conclude(w)
  /\ UNCHANGED <<born, runs, started, stuck>>

DeleteJob(w, j) ==
  /\ Free(w)
  /\ jobs' = [jobs EXCEPT ![j] = None]
  /\ Conclude(w)
  /\ UNCHANGED <<born, runs, started, stuck>>

Audit(w) ==
  /\ req[w].pc = "audit" /\ Serve(w, Idle)
  /\ UNCHANGED <<jobs, born, runs, started, stuck>>

-----------------------------------------------------------------------------
(* Running a job: SELECT, UPDATE, audit row, go.                           *)

RunSelect(w, j) ==
  /\ Free(w) /\ jobs[j] # None
  /\ Serve(w, [pc |-> "run_update", job |-> j, config |-> jobs[j].config])
  /\ UNCHANGED <<jobs, born, runs, started, stuck>>

RunUpdate(w) ==
  LET j == req[w].job
  IN /\ req[w].pc = "run_update"
     /\ UpdateRow(j, [jobs[j] EXCEPT !.status = "running"])
     /\ started' = started \cup {j} /\ stuck' = stuck \ {j}
     /\ Serve(w, IF HasClaims THEN [req[w] EXCEPT !.pc = "run_start"] ELSE Panicked)
     /\ UNCHANGED <<born, runs>>

(* Mutant: a blank configuration is refused here, after the UPDATE.        *)
RunStartUnlessBlank(w) ==
  /\ req[w].pc = "run_start"
  /\ \/ req[w].config = "blank" /\ UNCHANGED runs
     \/ /\ req[w].config # "blank"
        /\ \E r \in Runs :
             /\ runs[r] = None
             /\ runs' = [runs EXCEPT ![r] = [job |-> req[w].job, config |-> req[w].config,
                                             outcome |-> None, phase |-> "executing"]]
  /\ Serve(w, Idle)
  /\ UNCHANGED <<jobs, born, started, stuck>>

RunStart(w) ==
  /\ req[w].pc = "run_start"
  /\ \E r \in Runs :
       /\ runs[r] = None
       /\ runs' = [runs EXCEPT ![r] = [job |-> req[w].job, config |-> req[w].config,
                                       outcome |-> None, phase |-> "executing"]]
  /\ Serve(w, Idle)
  /\ UNCHANGED <<jobs, born, started, stuck>>

(* Mutant: the status has no value until the command fails.                *)
OutcomesUnset(job, config) == IF config = "command" THEN {"failed", None} ELSE {None}

(* executeDeployment refuses a blank configuration; bash runs it.          *)
OutcomesOf(job, config) ==
  IF config = "command" THEN Outcomes ELSE IF job \in Tasks THEN {"success"} ELSE {"failed"}

In(r, phase) == runs[r] # None /\ runs[r].phase = phase

(* The command has ended.  No time limit makes it.                         *)
End(r) ==
  /\ In(r, "executing")
  /\ \E outcome \in OutcomesOf(runs[r].job, runs[r].config) :
       runs' = [runs EXCEPT ![r].phase = "ended", ![r].outcome = outcome]
  /\ UNCHANGED <<jobs, born, req, started, stuck>>

(* Mutant: the goroutine returns when the command has failed.              *)
RecordOnSuccess(r) ==
  LET j == runs[r].job
  IN /\ In(r, "ended") /\ runs[r].outcome = "success"
     /\ UpdateRow(j, [jobs[j] EXCEPT !.status = runs[r].outcome])
     /\ runs' = [runs EXCEPT ![r].phase = IF j \in Tasks THEN "done" ELSE "recorded"]
     /\ UNCHANGED <<born, req, started, stuck>>

Record(r) ==
  LET j == runs[r].job
  IN /\ In(r, "ended")
     /\ UpdateRow(j, [jobs[j] EXCEPT !.status = runs[r].outcome])
     /\ runs' = [runs EXCEPT ![r].phase = IF j \in Tasks THEN "done" ELSE "recorded"]
     /\ UNCHANGED <<born, req, started, stuck>>

(* The audit row deployment.run_finished; a task has none.                 *)
LogFinish(r) ==
  /\ In(r, "recorded") /\ runs' = [runs EXCEPT ![r].phase = "done"]
  /\ UNCHANGED <<jobs, born, req, started, stuck>>

(* The server stops, with its requests and goroutines, and starts again.   *)
Restart ==
  /\ req' = [w \in Workers |-> Idle]
  /\ runs' = [r \in Runs |->
       IF runs[r] = None \/ In(r, "done") THEN runs[r] ELSE [runs[r] EXCEPT !.phase = "lost"]]
  /\ stuck' = stuck \cup {j \in Jobs : jobs[j] # None /\ jobs[j].status = "running"}
  /\ UNCHANGED <<jobs, born, started>>

Step(w) == Audit(w) \/ RunUpdate(w) \/ RunStart(w)
Finish(r) == Record(r) \/ LogFinish(r)

(* Bound: a run is requested while a goroutine is left for it.             *)
Room == Cardinality({r \in Runs : runs[r] = None})
          > Cardinality({w \in Workers : req[w].pc \in {"run_update", "run_start"}})

Receive(w) ==
  \/ Refuse(w)
  \/ \E c \in Configs : CreateJob(w, c)
  \/ \E j \in Jobs, c \in Configs : UpdateJob(w, j, c)
  \/ \E j \in Jobs : DeleteJob(w, j) \/ (Room /\ RunSelect(w, j))

Next ==
  \/ \E w \in Workers : Receive(w) \/ Step(w)
  \/ \E r \in Runs : End(r) \/ Finish(r)
  \/ Restart

(* Requests and goroutines are scheduled; no one has to send a request and *)
(* no command has to end.                                                  *)
Fairness ==
  (\A w \in Workers : WF_vars(Step(w))) /\ (\A r \in Runs : WF_vars(Finish(r)))

Spec == Init /\ [][Next]_vars /\ Fairness

-----------------------------------------------------------------------------
(* Somebody is at work on every job that is said to be running, however    *)
(* many runs of it overlap, unless the server was stopped meanwhile        *)
(* (deployment.go:165, 178, 370, 383).                                     *)
RunningIsTrue ==
  \A j \in Jobs \ stuck : jobs[j] # None /\ jobs[j].status = "running" =>
    \/ \E w \in Workers : req[w].pc = "run_start" /\ req[w].job = j
    \/ \E r \in Runs : (In(r, "executing") \/ In(r, "ended")) /\ runs[r].job = j

(* The outcome a row shows is one of its own: it has been run, and a run   *)
(* of it has had that outcome; a goroutine that outlives its row never     *)
(* writes to another (db.go:176, 193).                                     *)
OutcomeIsOwn ==
  \A j \in Jobs : jobs[j] # None /\ jobs[j].status \in Outcomes =>
    /\ j \in started
    /\ \E r \in Runs : runs[r] # None /\ runs[r].job = j /\ runs[r].outcome = jobs[j].status

(* When the command of a run has ended, failed or not, the outcome reaches *)
(* the row and the run is over, unless the server stops (deployment.go:171,*)
(* 377).                                                                   *)
EndIsRecorded == \A r \in Runs : In(r, "ended") ~> In(r, "done") \/ In(r, "lost")

(* docs/user-guide.md:107: an active task runs on its schedule, without    *)
(* anybody asking.  Stated for handlers that get their claims: with the    *)
(* two keys of the code CreateTask panics before its INSERT                *)
(* (deployment.go:319), so that there is no task to speak of.              *)
TasksRunOnSchedule ==
  \A j \in Tasks : jobs[j] # None /\ jobs[j].active
    ~> jobs[j] = None \/ ~jobs[j].active \/ j \in started
=============================================================================
