--------------------------- MODULE DeploymentsProofs ---------------------------
(***************************************************************************)
(* The invariants of Deployments, for any number of jobs, requests and     *)
(* overlapping runs.                                                       *)
(***************************************************************************)
EXTENDS Deployments, TLAPS

AtWork(j) ==
  \/ \E w \in Workers : req[w].pc = "run_start" /\ req[w].job = j
  \/ \E r \in Runs : (In(r, "executing") \/ In(r, "ended")) /\ runs[r].job = j

(* A request that runs a job has its id and configuration.                 *)
RequestsSound ==
  \A w \in Workers : req[w].pc \in {"run_update", "run_start"} =>
    /\ req[w].job \in born /\ req[w].config \in Configs
    /\ req[w].pc = "run_start" => req[w].job \in started

(* A goroutine is one of a job that was created and has been run, and has  *)
(* no outcome before its command has ended.                                *)
RunsSound ==
  \A r \in Runs : runs[r] # None =>
    /\ runs[r].job \in born /\ runs[r].job \in started
    /\ runs[r].phase = "ended" => runs[r].outcome \in Outcomes
    /\ runs[r].phase = "executing" => runs[r].outcome = None

(* Rows have been created, which without claims none is.                   *)
RowsBorn ==
  /\ \A j \in Jobs : jobs[j] # None => j \in born
  /\ ~HasClaims => born = {}

JobInv == TypeOK /\ RequestsSound /\ RunsSound /\ RowsBorn

OwnInv == JobInv /\ RunningIsTrue /\ OutcomeIsOwn

LEMMA InitJobs == Init => OwnInv
BY JobAssumption
   DEF Init, OwnInv, JobInv, TypeOK, RequestsSound, RunsSound, RowsBorn, RunningIsTrue,
       OutcomeIsOwn, Idle, Request, In

LEMMA IdleTyped == Idle \in Request /\ Panicked \in Request /\ [Idle EXCEPT !.pc = "audit"] \in Request
BY DEF Idle, Request, Panicked

(* A request that does not run a job leaves the goroutines alone and comes *)
(* to an end.                                                              *)
LEMMA ConcludeServes ==
  ASSUME NEW w \in Workers, Conclude(w) \/ Serve(w, Idle), JobInv
  PROVE  /\ req' \in [Workers -> Request]
         /\ req'[w].pc \in {"idle", "audit", "panicked"}
         /\ \A v \in Workers \ {w} : req'[v] = req[v]
BY IdleTyped DEF Conclude, Serve, JobInv, TypeOK, Idle, Panicked

LEMMA CreateKeeps ==
  ASSUME OwnInv, NEW w \in Workers, NEW c \in Configs, CreateJob(w, c)
  PROVE  OwnInv'
<1> USE DEF OwnInv, JobInv
<1>1. PICK j \in UnusedIds : \E active \in Actives(j) :
        IF HasClaims
        THEN /\ jobs' = [jobs EXCEPT ![j] =
                  [config |-> c, active |-> active, status |-> "idle"]]
             /\ born' = born \cup {j} /\ started' = started \ {j} /\ stuck' = stuck \ {j}
        ELSE UNCHANGED <<jobs, born, started, stuck>>
  BY DEF CreateJob
<1>2. /\ Free(w) /\ Conclude(w) /\ UNCHANGED runs
      /\ j \in Jobs /\ j \notin born
  BY <1>1 DEF CreateJob, UnusedIds
<1>3. /\ req' \in [Workers -> Request]
      /\ req'[w].pc \in {"idle", "audit", "panicked"}
      /\ \A v \in Workers \ {w} : req'[v] = req[v]
  BY <1>2, ConcludeServes
<1>4. CASE ~HasClaims
  <2>1. UNCHANGED <<jobs, born, started, stuck, runs>>
    BY <1>1, <1>2, <1>4
  <2>2. TypeOK' /\ RequestsSound' /\ RunsSound' /\ RowsBorn'
    BY <1>3, <2>1 DEF TypeOK, RequestsSound, RunsSound, RowsBorn, HasClaims
  <2>3. \A k \in Jobs : jobs'[k] = None
    BY <1>4, <2>1 DEF RowsBorn
  <2> QED
    BY <2>2, <2>3 DEF RunningIsTrue, OutcomeIsOwn
<1>5. CASE HasClaims
  <2>1. PICK active \in BOOLEAN :
          jobs' = [jobs EXCEPT ![j] = [config |-> c, active |-> active, status |-> "idle"]]
    BY <1>1, <1>5 DEF Actives
  <2>2. born' = born \cup {j} /\ started' = started \ {j} /\ stuck' = stuck \ {j}
    BY <1>1, <1>5
  <2>3. [config |-> c, active |-> active, status |-> "idle"] \in JobRow
    BY DEF JobRow
  <2>4. TypeOK'
    BY <1>2, <1>3, <2>1, <2>2, <2>3 DEF TypeOK
  <2>5. RequestsSound' /\ RunsSound'
    BY <1>2, <1>3, <2>2 DEF RequestsSound, RunsSound
  <2>6. RowsBorn'
    BY <1>2, <1>5, <2>1, <2>2 DEF RowsBorn, TypeOK, HasClaims
  <2>7. /\ \A k \in Jobs \ {j} : jobs'[k] = jobs[k]
        /\ jobs'[j].status = "idle"
    BY <1>2, <2>1 DEF TypeOK
  <2>8. RunningIsTrue'
    <3> SUFFICES ASSUME NEW k \in Jobs \ stuck', jobs'[k] # None, jobs'[k].status = "running"
                 PROVE  AtWork(k)'
      BY DEF RunningIsTrue, AtWork
    <3>1. k # j /\ AtWork(k)
      BY <2>2, <2>7 DEF RunningIsTrue, AtWork
    <3>2. CASE \E v \in Workers : req[v].pc = "run_start" /\ req[v].job = k
      BY <1>2, <1>3, <3>2 DEF AtWork, Free
    <3>3. CASE \E r \in Runs : (In(r, "executing") \/ In(r, "ended")) /\ runs[r].job = k
      BY <1>2, <3>3 DEF AtWork, In
    <3> QED
      BY <3>1, <3>2, <3>3 DEF AtWork
  <2>9. OutcomeIsOwn'
    BY <1>2, <2>2, <2>7 DEF OutcomeIsOwn, Outcomes
  <2> QED
    BY <2>4, <2>5, <2>6, <2>8, <2>9
<1> QED
  BY <1>4, <1>5

(* A row whose status did not change stands while those at work on it do.  *)
LEMMA StatusStands ==
  ASSUME RunningIsTrue, OutcomeIsOwn, UNCHANGED <<started, stuck>>,
         \A k \in Jobs : jobs'[k] # None => jobs[k] # None /\ jobs'[k].status = jobs[k].status,
         \A k \in Jobs : AtWork(k) => AtWork(k)',
         \A r \in Runs : runs[r] # None =>
           runs'[r] # None /\ runs'[r].job = runs[r].job
           /\ (runs[r].outcome \in Outcomes => runs'[r].outcome = runs[r].outcome)
  PROVE  RunningIsTrue' /\ OutcomeIsOwn'
BY DEF RunningIsTrue, OutcomeIsOwn, AtWork

LEMMA RequestKeeps ==
  ASSUME OwnInv, NEW w \in Workers,
         Audit(w) \/ (\E j \in Jobs : DeleteJob(w, j) \/ RunSelect(w, j))
           \/ (\E j \in Jobs, c \in Configs : UpdateJob(w, j, c))
  PROVE  OwnInv'
<1> USE DEF OwnInv, JobInv
<1>1. UNCHANGED <<born, runs, started, stuck>>
  BY DEF Audit, DeleteJob, RunSelect, UpdateJob
<1>2. req[w].pc # "run_start" /\ \A v \in Workers \ {w} : req'[v] = req[v]
  BY DEF Audit, DeleteJob, RunSelect, UpdateJob, Free, Serve, Conclude, TypeOK
<1>3. /\ req' \in [Workers -> Request]
      /\ req'[w].pc \in {"run_update", "run_start"} =>
           req'[w].pc = "run_update" /\ req'[w].job \in born /\ req'[w].config \in Configs
  <2>1. CASE Audit(w) \/ (\E j \in Jobs : DeleteJob(w, j))
             \/ (\E j \in Jobs, c \in Configs : UpdateJob(w, j, c))
    BY <2>1, ConcludeServes DEF Audit, DeleteJob, UpdateJob
  <2>2. ASSUME NEW j \in Jobs, RunSelect(w, j)
        PROVE  <1>3!1 /\ <1>3!2
    <3>1. jobs[j] \in JobRow /\ j \in born
      BY <2>2 DEF RunSelect, TypeOK, RowsBorn
    <3>2. [pc |-> "run_update", job |-> j, config |-> jobs[j].config] \in Request
      BY <3>1 DEF Request, JobRow
    <3> QED
      BY <2>2, <3>1, <3>2 DEF RunSelect, Serve, TypeOK, JobRow
  <2> QED
    BY <2>1, <2>2
<1>4. /\ jobs' \in [Jobs -> JobRow \cup {None}]
      /\ \A k \in Jobs : jobs'[k] # None => jobs[k] # None /\ jobs'[k].status = jobs[k].status
  <2>1. CASE Audit(w) \/ (\E j \in Jobs : RunSelect(w, j))
    BY <2>1 DEF Audit, RunSelect, TypeOK
  <2>2. CASE \E j \in Jobs : DeleteJob(w, j)
    BY <2>2 DEF DeleteJob, TypeOK
  <2>3. ASSUME NEW j \in Jobs, NEW c \in Configs, UpdateJob(w, j, c)
        PROVE  <1>4!1 /\ <1>4!2
    <3>1. PICK active \in BOOLEAN : UpdateRow(j, [jobs[j] EXCEPT !.config = c, !.active = active])
      BY <2>3 DEF UpdateJob, Actives
    <3>2. jobs[j] # None => [jobs[j] EXCEPT !.config = c, !.active = active] \in JobRow
      BY DEF TypeOK, JobRow
    <3> QED
      BY <3>1, <3>2 DEF UpdateRow, TypeOK, JobRow
  <2> QED
    BY <2>1, <2>2, <2>3
<1>5. TypeOK' /\ RequestsSound' /\ RunsSound' /\ RowsBorn'
  BY <1>1, <1>2, <1>3, <1>4 DEF TypeOK, RequestsSound, RunsSound, RowsBorn, HasClaims
<1>6. \A k \in Jobs : AtWork(k) => AtWork(k)'
  BY <1>1, <1>2 DEF AtWork, In
<1> QED
  BY <1>1, <1>4, <1>5, <1>6, StatusStands

LEMMA RunUpdateKeeps ==
  ASSUME OwnInv, NEW w \in Workers, RunUpdate(w)
  PROVE  OwnInv'
<1> USE DEF OwnInv, JobInv
<1> DEFINE j == req[w].job
<1>1. /\ req[w].pc = "run_update" /\ j \in born /\ j \in Jobs
      /\ UpdateRow(j, [jobs[j] EXCEPT !.status = "running"])
      /\ started' = started \cup {j} /\ stuck' = stuck \ {j}
      /\ UNCHANGED <<born, runs>>
  BY DEF RunUpdate, RequestsSound, TypeOK
<1>2. HasClaims
  BY <1>1 DEF RowsBorn
<1>3. Serve(w, [req[w] EXCEPT !.pc = "run_start"])
  BY <1>2 DEF RunUpdate
<1>4. [req[w] EXCEPT !.pc = "run_start"] \in Request
  BY DEF TypeOK, Request
<1>5. jobs[j] # None => [jobs[j] EXCEPT !.status = "running"] \in JobRow
  BY <1>1 DEF TypeOK, JobRow
<1>6. TypeOK'
  BY <1>1, <1>3, <1>4, <1>5 DEF TypeOK, UpdateRow, Serve
<1>7. /\ req'[w].pc = "run_start" /\ req'[w].job = j /\ req'[w].config = req[w].config
      /\ \A v \in Workers \ {w} : req'[v] = req[v]
  BY <1>3 DEF Serve, TypeOK, Request
<1>8. RequestsSound' /\ RunsSound' /\ RowsBorn'
  <2>1. RequestsSound'
    BY <1>1, <1>7 DEF RequestsSound
  <2>2. RunsSound'
    BY <1>1 DEF RunsSound
  <2>3. RowsBorn'
    BY <1>1, <1>2 DEF RowsBorn, UpdateRow, TypeOK, HasClaims
  <2> QED
    BY <2>1, <2>2, <2>3
<1>9. \A k \in Jobs \ {j} : jobs'[k] = jobs[k]
  BY <1>1 DEF UpdateRow, TypeOK
<1>10. RunningIsTrue'
  <2> SUFFICES ASSUME NEW k \in Jobs \ stuck', jobs'[k] # None, jobs'[k].status = "running"
               PROVE  AtWork(k)'
    BY DEF RunningIsTrue, AtWork
  <2>1. CASE k = j
    BY <1>7, <2>1 DEF AtWork
  <2>2. CASE k # j
    <3>1. AtWork(k)
      BY <1>1, <1>9, <2>2 DEF RunningIsTrue, AtWork
    <3> QED
      BY <1>1, <1>7, <3>1 DEF AtWork, In
  <2> QED
    BY <2>1, <2>2
<1>11. OutcomeIsOwn'
  <2> SUFFICES ASSUME NEW k \in Jobs, jobs'[k] # None, jobs'[k].status \in Outcomes
               PROVE  /\ k \in started'
                      /\ \E r \in Runs : runs'[r] # None /\ runs'[r].job = k
                                         /\ runs'[r].outcome = jobs'[k].status
    BY DEF OutcomeIsOwn
  <2>1. jobs[j] # None => jobs'[j].status = "running"
    BY <1>1 DEF UpdateRow, TypeOK, JobRow
  <2>2. k # j
    BY <1>1, <2>1 DEF UpdateRow, TypeOK, Outcomes
  <2> QED
    BY <1>1, <1>9, <2>2 DEF OutcomeIsOwn
<1> QED
  BY <1>6, <1>8, <1>10, <1>11

LEMMA RunStartKeeps ==
  ASSUME OwnInv, NEW w \in Workers, RunStart(w)
  PROVE  OwnInv'
<1> USE DEF OwnInv, JobInv
<1>1. PICK r \in Runs :
        /\ runs[r] = None
        /\ runs' = [runs EXCEPT ![r] = [job |-> req[w].job, config |-> req[w].config,
                                        outcome |-> None, phase |-> "executing"]]
  BY DEF RunStart
<1>2. /\ req[w].pc = "run_start" /\ Serve(w, Idle)
      /\ UNCHANGED <<jobs, born, started, stuck>>
      /\ req[w].job \in born \cap started /\ req[w].job \in Jobs /\ req[w].config \in Configs
  BY DEF RunStart, RequestsSound, TypeOK
<1>3. [job |-> req[w].job, config |-> req[w].config, outcome |-> None,
       phase |-> "executing"] \in Run
  BY <1>2 DEF Run
<1>4. /\ runs'[r].job = req[w].job /\ runs'[r].phase = "executing" /\ runs'[r].outcome = None
      /\ runs'[r] # None
      /\ \A q \in Runs \ {r} : runs'[q] = runs[q]
  BY <1>1, <1>3, RowAssumption DEF TypeOK
<1>5. req' \in [Workers -> Request] /\ req'[w].pc = "idle"
      /\ \A v \in Workers \ {w} : req'[v] = req[v]
  BY <1>2, IdleTyped DEF Serve, TypeOK, Idle
<1>6. TypeOK'
  BY <1>1, <1>2, <1>3, <1>5 DEF TypeOK
<1>7. RequestsSound' /\ RunsSound' /\ RowsBorn'
  BY <1>2, <1>4, <1>5 DEF RequestsSound, RunsSound, RowsBorn, HasClaims
<1>8. ASSUME NEW k \in Jobs, AtWork(k)
      PROVE  AtWork(k)'
  <2>1. CASE k = req[w].job
    BY <1>4, <2>1 DEF AtWork, In
  <2>2. CASE k # req[w].job
    BY <1>1, <1>4, <1>5, <1>8, <2>2 DEF AtWork, In
  <2> QED
    BY <2>1, <2>2
<1>9. \A q \in Runs : runs[q] # None => runs'[q] = runs[q]
  BY <1>1, <1>4
<1> QED
  BY <1>2, <1>6, <1>7, <1>8, <1>9, StatusStands

LEMMA EndKeeps ==
  ASSUME OwnInv, NEW r \in Runs, End(r)
  PROVE  OwnInv'
<1> USE DEF OwnInv, JobInv
<1>1. PICK outcome \in OutcomesOf(runs[r].job, runs[r].config) :
        runs' = [runs EXCEPT ![r].phase = "ended", ![r].outcome = outcome]
  BY DEF End
<1>2. /\ In(r, "executing") /\ UNCHANGED <<jobs, born, req, started, stuck>>
      /\ outcome \in Outcomes /\ runs[r] \in Run
  BY <1>1 DEF End, OutcomesOf, Outcomes, In, TypeOK
<1>3. /\ runs' \in [Runs -> Run \cup {None}]
      /\ runs'[r] # None /\ runs'[r].job = runs[r].job
      /\ runs'[r].outcome = outcome /\ runs'[r].phase = "ended"
      /\ \A q \in Runs \ {r} : runs'[q] = runs[q]
  <2>1. [runs[r] EXCEPT !.phase = "ended", !.outcome = outcome] \in Run
    BY <1>2 DEF Run
  <2> QED
    BY <1>1, <1>2, <2>1, RowAssumption DEF TypeOK, Run
<1>4. JobInv'
  BY <1>2, <1>3 DEF TypeOK, RequestsSound, RunsSound, RowsBorn, HasClaims, In
<1>5. ASSUME NEW k \in Jobs, AtWork(k)
      PROVE  AtWork(k)'
  BY <1>2, <1>3, <1>5 DEF AtWork, In
<1>6. OutcomeIsOwn'
  <2> SUFFICES ASSUME NEW k \in Jobs, jobs[k] # None, jobs[k].status \in Outcomes
               PROVE  /\ k \in started
                      /\ \E q \in Runs : runs'[q] # None /\ runs'[q].job = k
                                         /\ runs'[q].outcome = jobs[k].status
    BY <1>2 DEF OutcomeIsOwn
  <2>1. PICK q \in Runs : runs[q] # None /\ runs[q].job = k /\ runs[q].outcome = jobs[k].status
    BY DEF OutcomeIsOwn
  <2>2. q # r
    BY <1>2, <2>1, RowAssumption DEF In, RunsSound
  <2> QED
    BY <1>3, <2>1, <2>2 DEF OutcomeIsOwn
<1> QED
  BY <1>2, <1>4, <1>5, <1>6 DEF RunningIsTrue, AtWork

LEMMA RecordKeeps ==
  ASSUME OwnInv, NEW r \in Runs, Record(r)
  PROVE  OwnInv'
<1> USE DEF OwnInv, JobInv
<1> DEFINE j == runs[r].job
           over == IF j \in Tasks THEN "done" ELSE "recorded"
<1>1. /\ In(r, "ended") /\ UpdateRow(j, [jobs[j] EXCEPT !.status = runs[r].outcome])
      /\ runs' = [runs EXCEPT ![r].phase = over]
      /\ UNCHANGED <<born, req, started, stuck>>
  BY DEF Record
<1>2. /\ runs[r] \in Run /\ runs[r] # None /\ j \in Jobs /\ j \in born /\ j \in started
      /\ runs[r].outcome \in Outcomes
  BY <1>1 DEF In, TypeOK, RunsSound, Run
<1>3. /\ runs' \in [Runs -> Run \cup {None}]
      /\ runs'[r] # None /\ runs'[r].job = j /\ runs'[r].outcome = runs[r].outcome
      /\ runs'[r].phase \in {"done", "recorded"}
      /\ \A q \in Runs \ {r} : runs'[q] = runs[q]
  <2>1. [runs[r] EXCEPT !.phase = over] \in Run
    BY <1>2 DEF Run
  <2> QED
    BY <1>1, <1>2, <2>1, RowAssumption DEF TypeOK, Run
<1>4. /\ jobs' \in [Jobs -> JobRow \cup {None}]
      /\ \A k \in Jobs \ {j} : jobs'[k] = jobs[k]
      /\ jobs'[j] # None => jobs[j] # None /\ jobs'[j].status = runs[r].outcome
  <2>1. jobs[j] # None => [jobs[j] EXCEPT !.status = runs[r].outcome] \in JobRow
    BY <1>2 DEF TypeOK, JobRow
  <2> QED
    BY <1>1, <1>2, <2>1 DEF UpdateRow, TypeOK, JobRow
<1>5. TypeOK' /\ RequestsSound' /\ RunsSound' /\ RowsBorn'
  BY <1>1, <1>2, <1>3, <1>4 DEF TypeOK, RequestsSound, RunsSound, RowsBorn, HasClaims
<1>6. RunningIsTrue'
  <2> SUFFICES ASSUME NEW k \in Jobs \ stuck', jobs'[k] # None, jobs'[k].status = "running"
               PROVE  AtWork(k)'
    BY DEF RunningIsTrue, AtWork
  <2>1. k # j
    BY <1>2, <1>4 DEF Outcomes
  <2>2. AtWork(k)
    BY <1>1, <1>4, <2>1 DEF RunningIsTrue, AtWork
  <2> QED
    BY <1>1, <1>3, <2>1, <2>2 DEF AtWork, In
<1>7. OutcomeIsOwn'
  <2> SUFFICES ASSUME NEW k \in Jobs, jobs'[k] # None, jobs'[k].status \in Outcomes
               PROVE  /\ k \in started
                      /\ \E q \in Runs : runs'[q] # None /\ runs'[q].job = k
                                         /\ runs'[q].outcome = jobs'[k].status
    BY <1>1 DEF OutcomeIsOwn
  <2>1. CASE k = j
    BY <1>2, <1>3, <1>4, <2>1
  <2>2. CASE k # j
    <3>1. PICK q \in Runs : runs[q] # None /\ runs[q].job = k /\ runs[q].outcome = jobs[k].status
      BY <1>4, <2>2 DEF OutcomeIsOwn
    <3> QED
      BY <1>3, <1>4, <2>2, <3>1 DEF OutcomeIsOwn
  <2> QED
    BY <2>1, <2>2
<1> QED
  BY <1>5, <1>6, <1>7

LEMMA LogFinishKeeps ==
  ASSUME OwnInv, NEW r \in Runs, LogFinish(r)
  PROVE  OwnInv'
<1> USE DEF OwnInv, JobInv
<1>1. /\ In(r, "recorded") /\ runs' = [runs EXCEPT ![r].phase = "done"]
      /\ UNCHANGED <<jobs, born, req, started, stuck>>
  BY DEF LogFinish
<1>2. runs[r] \in Run /\ [runs[r] EXCEPT !.phase = "done"] \in Run
  BY <1>1 DEF In, TypeOK, Run
<1>3. /\ runs' \in [Runs -> Run \cup {None}]
      /\ runs'[r] # None /\ runs'[r].job = runs[r].job /\ runs'[r].outcome = runs[r].outcome
      /\ runs'[r].phase = "done"
      /\ \A q \in Runs \ {r} : runs'[q] = runs[q]
  BY <1>1, <1>2, RowAssumption DEF TypeOK, Run
<1>4. JobInv'
  BY <1>1, <1>3 DEF TypeOK, RequestsSound, RunsSound, RowsBorn, HasClaims, In
<1>5. ASSUME NEW k \in Jobs, AtWork(k)
      PROVE  AtWork(k)'
  BY <1>1, <1>3, <1>5 DEF AtWork, In
<1>6. \A q \in Runs : runs[q] # None =>
        runs'[q] # None /\ runs'[q].job = runs[q].job /\ runs'[q].outcome = runs[q].outcome
  BY <1>3
<1> QED
  BY <1>1, <1>4, <1>5, <1>6, StatusStands

(* The one step that leaves rows running with nobody at work on them.      *)
LEMMA RestartKeeps ==
  ASSUME OwnInv, Restart
  PROVE  OwnInv'
<1> USE DEF OwnInv, JobInv
<1>1. /\ req' = [w \in Workers |-> Idle]
      /\ runs' = [r \in Runs |-> IF runs[r] = None \/ In(r, "done") THEN runs[r]
                                 ELSE [runs[r] EXCEPT !.phase = "lost"]]
      /\ stuck' = stuck \cup {j \in Jobs : jobs[j] # None /\ jobs[j].status = "running"}
      /\ UNCHANGED <<jobs, born, started>>
  BY DEF Restart
<1>2. ASSUME NEW r \in Runs
      PROVE  /\ runs'[r] \in Run \cup {None}
             /\ runs[r] = None => runs'[r] = None
             /\ runs[r] # None => /\ runs'[r] # None /\ runs'[r].job = runs[r].job
                                  /\ runs'[r].outcome = runs[r].outcome
                                  /\ runs'[r].phase \in {"done", "lost"}
  <2>1. CASE runs[r] = None
    BY <1>1, <2>1
  <2>2. CASE runs[r] # None /\ In(r, "done")
    BY <1>1, <2>2 DEF In, TypeOK
  <2>3. CASE runs[r] # None /\ ~In(r, "done")
    <3>1. runs[r] \in Run /\ [runs[r] EXCEPT !.phase = "lost"] \in Run
      BY <2>3 DEF TypeOK, Run
    <3> QED
      BY <1>1, <2>3, <3>1, RowAssumption DEF Run
  <2> QED
    BY <2>1, <2>2, <2>3
<1>3. \A w \in Workers : req'[w] = Idle
  BY <1>1
<1>4. runs' \in [Runs -> Run \cup {None}]
  <2>1. runs' = [r \in Runs |-> runs'[r]]
    BY <1>1
  <2> QED
    BY <1>2, <2>1
<1>5. TypeOK'
  BY <1>1, <1>4, IdleTyped DEF TypeOK
<1>6. RequestsSound' /\ RowsBorn'
  BY <1>1, <1>3 DEF RequestsSound, RowsBorn, Idle, HasClaims
<1>7. RunsSound'
  BY <1>1, <1>2 DEF RunsSound
<1>8. RunningIsTrue'
  BY <1>1 DEF RunningIsTrue
<1>9. OutcomeIsOwn'
  BY <1>1, <1>2 DEF OutcomeIsOwn
<1> QED
  BY <1>5, <1>6, <1>7, <1>8, <1>9

LEMMA StutterKeeps ==
  ASSUME OwnInv, UNCHANGED vars
  PROVE  OwnInv'
BY DEF vars, OwnInv, JobInv, TypeOK, RequestsSound, RunsSound, RowsBorn, RunningIsTrue,
       OutcomeIsOwn, In, HasClaims

LEMMA NextKeeps == OwnInv /\ [Next]_vars => OwnInv'
<1> SUFFICES ASSUME OwnInv, [Next]_vars
             PROVE  OwnInv'
  OBVIOUS
<1>1. ASSUME NEW w \in Workers, Receive(w)
      PROVE  OwnInv'
  <2>1. CASE Refuse(w)
    BY <2>1, StutterKeeps DEF Refuse
  <2>2. CASE \E c \in Configs : CreateJob(w, c)
    BY <2>2, CreateKeeps
  <2>3. CASE \E j \in Jobs, c \in Configs : UpdateJob(w, j, c)
    BY <2>3, RequestKeeps
  <2>4. CASE \E j \in Jobs : DeleteJob(w, j) \/ (Room /\ RunSelect(w, j))
    BY <2>4, RequestKeeps
  <2> QED
    BY <1>1, <2>1, <2>2, <2>3, <2>4 DEF Receive
<1>2. ASSUME NEW w \in Workers, Step(w)
      PROVE  OwnInv'
  BY <1>2, RequestKeeps, RunUpdateKeeps, RunStartKeeps DEF Step
<1>3. ASSUME NEW r \in Runs, End(r) \/ Finish(r)
      PROVE  OwnInv'
  BY <1>3, EndKeeps, RecordKeeps, LogFinishKeeps DEF Finish
<1>4. CASE Restart
  BY <1>4, RestartKeeps
<1>5. CASE UNCHANGED vars
  BY <1>5, StutterKeeps
<1> QED
  BY <1>1, <1>2, <1>3, <1>4, <1>5 DEF Next

(* A row says running only while a request or a goroutine is at work on it,*)
(* however many runs of it overlap, or since the server was stopped under  *)
(* one (deployment.go:165, 178, 370, 383).                                 *)
THEOREM RunningRowsAreRun == Spec => []RunningIsTrue
<1>1. Spec => []OwnInv
  BY InitJobs, NextKeeps, PTL DEF Spec
<1>2. OwnInv => RunningIsTrue
  BY DEF OwnInv
<1> QED
  BY <1>1, <1>2, PTL

(* A row shows an outcome that a run of that same row has had: no run that *)
(* outlives its row writes to one created since (db.go:176, 193;           *)
(* deployment.go:178, 383).                                                *)
THEOREM OutcomesAreOwn == Spec => []OutcomeIsOwn
<1>1. Spec => []OwnInv
  BY InitJobs, NextKeeps, PTL DEF Spec
<1>2. OwnInv => OutcomeIsOwn
  BY DEF OwnInv
<1> QED
  BY <1>1, <1>2, PTL

(* The rows, the requests and the goroutines of runs keep their types,     *)
(* however runs, edits and restarts overlap (deployment.go:155-228).       *)
THEOREM JobsTyped == Spec => []TypeOK
<1>1. Spec => []OwnInv
  BY InitJobs, NextKeeps, PTL DEF Spec
<1>2. OwnInv => TypeOK
  BY DEF OwnInv, JobInv
<1> QED
  BY <1>1, <1>2, PTL
=============================================================================
