------------------------------- MODULE Snapshot --------------------------------
(***************************************************************************)
(* One snapshot of the machine (internal/modules/system/system.go): a      *)
(* goroutine for each part, joined by a WaitGroup, of which that for the   *)
(* CPU reads the kernel's counters twice and reports the difference.  The  *)
(* counters are unsigned numbers of w bits that go round at 2^w.           *)
(***************************************************************************)
EXTENDS Integers, FiniteSets

CONSTANTS
  Others,      (* the parts other than the CPU                               *)
  Width,       (* 2^w                                                        *)
  MaxMoves     (* bound: ticks of the counters during a snapshot, under 2^w  *)

Jobs == Others \cup {"cpu"}
Fields == {"busy", "idle", "iowait"}

VARIABLES
  counter,   (* the aggregate "cpu" line of /proc/stat                       *)
  pc,        (* GetSnapshot: forking, waiting in wg.Wait, returned           *)
  job,       (* what each goroutine does                                     *)
  wg,        (* the counter of the WaitGroup                                 *)
  stored,    (* parts of the snapshot that are filled in                     *)
  errors,    (* parts whose reading failed                                   *)
  sample,    (* the first reading of the counters                            *)
  usage,     (* the share of time in use, a numerator and a denominator      *)
  moves,     (* history: ticks since the first reading, <<idle, all>>        *)
  backwards  (* history: iowait has decreased meanwhile                      *)

vars == <<counter, pc, job, wg, stored, errors, sample, usage, moves, backwards>>
cpuVars == <<sample, usage, moves, backwards>>

(* The counters are about to go round, or have just done so.               *)
Init ==
  /\ counter \in [Fields -> {0, Width - 1}]
  /\ pc = "fork" /\ job = [j \in Jobs |-> "none"] /\ wg = 0
  /\ stored = {} /\ errors = {}
  /\ sample = counter /\ usage = <<0, 1>> /\ moves = <<0, 0>> /\ backwards = FALSE

-----------------------------------------------------------------------------
(* Mutant: each goroutine calls wg.Add(1) when it starts.                  *)
AddInGoroutine == [fork |-> 0, start |-> 1]

(* wg.Add(len(jobs)) before the loop.                                      *)
Added == [fork |-> Cardinality(Jobs), start |-> 0]

Fork ==
  /\ pc = "fork" /\ pc' = "wait"
  /\ job' = [j \in Jobs |-> "forked"]
  /\ wg' = wg + Added.fork
  /\ UNCHANGED <<counter, stored, errors, cpuVars>>

Start(j) ==
  /\ job[j] = "forked"
  /\ job' = [job EXCEPT ![j] = IF j = "cpu" THEN "sampling" ELSE "reading"]
  /\ wg' = wg + Added.start
  /\ UNCHANGED <<counter, pc, stored, errors, cpuVars>>

(* The part is stored under the mutex whether its reading failed or not.   *)
Store(j) ==
  /\ job[j] \in {"reading", "read", "broken"}
  /\ stored' = stored \cup {j}
  /\ \/ job[j] # "broken" /\ job' = [job EXCEPT ![j] = "stored"]
     \/ job[j] # "read" /\ job' = [job EXCEPT ![j] = "failed"]
  /\ UNCHANGED <<counter, pc, wg, errors, cpuVars>>

(* Mutant: Done is called when the reading is over, before the error.      *)
DoneBeforeError(j) ==
  /\ \/ job[j] \in {"stored", "failed"} /\ wg' = wg - 1 /\ UNCHANGED errors
        /\ job' = [job EXCEPT ![j] = IF @ = "failed" THEN "recording" ELSE "done"]
     \/ job[j] = "recording" /\ errors' = errors \cup {j} /\ UNCHANGED wg
        /\ job' = [job EXCEPT ![j] = "done"]
  /\ UNCHANGED <<counter, pc, stored, cpuVars>>

(* The error is appended under the mutex; Done is deferred to the end.     *)
Finish(j) ==
  /\ \/ job[j] = "failed" /\ errors' = errors \cup {j} /\ UNCHANGED wg
        /\ job' = [job EXCEPT ![j] = "stored"]
     \/ job[j] = "stored" /\ wg' = wg - 1 /\ UNCHANGED errors
        /\ job' = [job EXCEPT ![j] = "done"]
  /\ UNCHANGED <<counter, pc, stored, cpuVars>>

Join ==
  /\ pc = "wait" /\ wg = 0
  /\ pc' = "returned"
  /\ UNCHANGED <<counter, job, wg, stored, errors, cpuVars>>

-----------------------------------------------------------------------------
Plus(a, b) == (a + b) % Width
Minus(a, b) == (a - b) % Width
IdleOf(s) == Plus(s["idle"], s["iowait"])
TotalOf(s) == Plus(IdleOf(s), s["busy"])

(* Mutant: the share of the second reading, which is that since the boot.  *)
CpuSinceBoot(a, b) == <<TotalOf(b) - IdleOf(b), TotalOf(b)>>

(* Mutant: nothing looks at the divisor.                                   *)
CpuUnguarded(a, b) ==
  LET idle == Minus(IdleOf(b), IdleOf(a))
      total == Minus(TotalOf(b), TotalOf(a))
  IN  <<total - idle, total>>

(* 1 - idle / total, or 0 when nothing has moved; rounding is left out.    *)
CpuPercent(a, b) ==
  LET idle == Minus(IdleOf(b), IdleOf(a))
      total == Minus(TotalOf(b), TotalOf(a))
  IN  IF total = 0 THEN <<0, 1>> ELSE <<total - idle, total>>

FirstReading ==
  /\ job["cpu"] = "sampling"
  /\ sample' = counter /\ moves' = <<0, 0>> /\ backwards' = FALSE
  /\ job' = [job EXCEPT !["cpu"] = "sleeping"]
  /\ UNCHANGED <<counter, pc, wg, stored, errors, usage>>

SecondReading ==
  /\ job["cpu"] = "sleeping"
  /\ usage' = CpuPercent(sample, counter)
  /\ job' = [job EXCEPT !["cpu"] = "read"]
  /\ UNCHANGED <<counter, pc, wg, stored, errors, sample, moves, backwards>>

(* /proc/stat cannot be read, the first time or the second.                *)
ReadingFails ==
  /\ job["cpu"] \in {"sampling", "sleeping"}
  /\ job' = [job EXCEPT !["cpu"] = "broken"]
  /\ UNCHANGED <<counter, pc, wg, stored, errors, cpuVars>>

(* The kernel counts on; its iowait may also decrease (proc(5)).           *)
Move(f) ==
  /\ job["cpu"] = "sleeping" /\ moves[2] < MaxMoves
  /\ \/ /\ counter' = [counter EXCEPT ![f] = Plus(@, 1)]
        /\ moves' = <<moves[1] + (IF f = "busy" THEN 0 ELSE 1), moves[2] + 1>>
        /\ UNCHANGED backwards
     \/ /\ f = "iowait" /\ ~backwards
        /\ counter' = [counter EXCEPT ![f] = Minus(@, 1)]
        /\ backwards' = TRUE
        /\ UNCHANGED moves
  /\ UNCHANGED <<pc, job, wg, stored, errors, sample, usage>>

Next ==
  \/ Fork \/ Join \/ FirstReading \/ SecondReading \/ ReadingFails
  \/ \E j \in Jobs : Start(j) \/ Store(j) \/ Finish(j)
  \/ \E f \in Fields : Move(f)

Spec == Init /\ [][Next]_vars

-----------------------------------------------------------------------------
(* A snapshot that is returned has all its parts, and the error of every   *)
(* part that failed (system.go:506-526): whoever shows it does so without  *)
(* the mutex.                                                              *)
SnapshotWhole ==
  pc = "returned" => stored = Jobs /\ \A j \in Jobs : job[j] = "done"

(* The usage shown is the share of the ticks between the two readings that *)
(* were not idle, also when the counters go round, and 0, not a division   *)
(* by 0, when there were none, unless iowait went backwards                *)
(* (system.go:63-72).                                                      *)
UsageIsDifference ==
  job["cpu"] \in {"stored", "done"} /\ "cpu" \notin errors /\ ~backwards =>
    usage = IF moves[2] = 0 THEN <<0, 1>> ELSE <<moves[2] - moves[1], moves[2]>>
=============================================================================
