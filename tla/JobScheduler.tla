---------------------------- MODULE JobScheduler ----------------------------
(***************************************************************************)
(* The periodic scheduler of the worker: packages/jobs/src/scheduler.ts    *)
(* with schedule.ts and worker.ts.                                         *)
(*                                                                         *)
(* One ScheduledJob row, its JobRun rows and the worker processes that     *)
(* poll it.  Jobs have a row each and never touch another's, so one job is *)
(* enough; a worker runs one job at a time.  claim() and finish() are      *)
(* transactions; the job's own code runs between them, under a lease that  *)
(* a heartbeat renews and under a hard timeout.                            *)
(*                                                                         *)
(* Time is the number of slots whose time has come, and whether a lease or *)
(* a retry delay has run out.  Slots are numbered.  A run given up at its  *)
(* timeout may leave code behind that writes nothing here.                 *)
(***************************************************************************)
EXTENDS Integers, Sequences

CONSTANTS
  Worker,       \* worker processes
  MaxAttempts,  \* JobDefinition.maxAttempts
  MaxSlot,      \* bound: how many slots come due
  MaxFaults,    \* bound: processes that die and leases lost by living ones
  Nobody        \* no worker, no run

ASSUME JobAssumption ==
  /\ MaxAttempts \in Nat \ {0}
  /\ MaxSlot \in Nat
  /\ MaxFaults \in Nat
  /\ Nobody \notin Worker

VARIABLES
  clock,     \* the last slot whose time has come
  slot,      \* ScheduledJob.slot
  attempt,   \* ScheduledJob.attempt
  delayed,   \* nextRunAt was put off for a retry and has not come yet
  lockedBy,  \* ScheduledJob.lockedBy
  leased,    \* lockedUntil is in the future
  runs,      \* JobRun rows, in the order they were made
  claim,     \* claim[w]: index of the run worker w is executing
  work,      \* what has become of it: "idle", "working", "deaf" (working, and will
             \* not hear of a shutdown), "ok", "failed"
  aborted,   \* workers told to shut down
  faults     \* how many faults there have been

jobRow == <<slot, attempt, delayed, lockedBy, leased>>
process == <<claim, work, aborted>>
jobVars == <<clock, jobRow, runs, process, faults>>

Run == [slot : 1..MaxSlot, attempt : Nat \ {0}, worker : Worker,
        status : {"RUNNING", "SUCCEEDED", "FAILED"}]

JobTypeOK ==
  /\ clock \in 0..MaxSlot
  /\ slot \in 1..(MaxSlot + 1)
  /\ attempt \in Nat
  /\ delayed \in BOOLEAN
  /\ lockedBy \in Worker \cup {Nobody}
  /\ leased \in BOOLEAN
  /\ runs \in Seq(Run)
  /\ claim \in [Worker -> DOMAIN runs \cup {Nobody}]
  /\ work \in [Worker -> {"idle", "working", "deaf", "ok", "failed"}]
  /\ aborted \subseteq Worker
  /\ faults \in 0..MaxFaults

JobInit ==
  /\ clock = 0
  /\ slot = 1
  /\ attempt = 0
  /\ delayed = FALSE
  /\ lockedBy = Nobody
  /\ leased = FALSE
  /\ runs = <<>>
  /\ claim = [w \in Worker |-> Nobody]
  /\ work = [w \in Worker |-> "idle"]
  /\ aborted = {}
  /\ faults = 0

-----------------------------------------------------------------------------
(* Time.                                                                   *)

NextSlotComes ==
  /\ clock < MaxSlot
  /\ clock' = clock + 1
  /\ UNCHANGED <<jobRow, runs, process, faults>>

RetryComes ==
  /\ delayed
  /\ delayed' = FALSE
  /\ UNCHANGED <<clock, slot, attempt, lockedBy, leased, runs, process, faults>>

\* Worker w is alive and executes the run the lease was taken for.
AtWork(w) == work[w] # "idle" /\ claim[w] = Len(runs)

\* Nobody renews the lease any more: its holder died or failed to finish.
LeaseExpires ==
  /\ leased
  /\ ~AtWork(lockedBy)
  /\ leased' = FALSE
  /\ UNCHANGED <<clock, slot, attempt, delayed, lockedBy, runs, process, faults>>

\* The heartbeats of a living worker did not get through in time.
LeaseIsLost ==
  /\ leased
  /\ AtWork(lockedBy)
  /\ faults < MaxFaults
  /\ leased' = FALSE
  /\ faults' = faults + 1
  /\ UNCHANGED <<clock, slot, attempt, delayed, lockedBy, runs, process>>

-----------------------------------------------------------------------------
(* A worker's run: claim, heartbeat, end of the job's code, finish.        *)

Due == slot <= clock /\ ~delayed

\* A lease that has run out is no longer anybody's.
MutantTakeable == lockedBy = Nobody
Takeable == ~leased

MutantFailStale(rows) == rows

\* Whatever is still RUNNING when the job is claimed again has lost its lease.
FailStale(rows) ==
  [i \in DOMAIN rows |->
     IF rows[i].status = "RUNNING" THEN [rows[i] EXCEPT !.status = "FAILED"] ELSE rows[i]]

\* A shutdown that comes while the claim commits is not heard: the run listens for
\* one only afterwards.
Claim(w) ==
  /\ work[w] = "idle"
  /\ w \notin aborted
  /\ Due
  /\ Takeable
  /\ attempt' = attempt + 1
  /\ lockedBy' = w
  /\ leased' = TRUE
  /\ runs' = Append(FailStale(runs),
                    [slot |-> slot, attempt |-> attempt + 1, worker |-> w, status |-> "RUNNING"])
  /\ claim' = [claim EXCEPT ![w] = Len(runs) + 1]
  /\ \/ work' = [work EXCEPT ![w] = "working"] /\ UNCHANGED aborted
     \/ work' = [work EXCEPT ![w] = "deaf"] /\ aborted' = aborted \cup {w}
  /\ UNCHANGED <<clock, slot, delayed, faults>>

Heartbeat(w) ==
  /\ work[w] \in {"working", "deaf"}
  /\ lockedBy = w
  /\ leased' = TRUE
  /\ UNCHANGED <<clock, slot, attempt, delayed, lockedBy, runs, process, faults>>

\* The code returns, throws or is given up at its deadline; a result that comes
\* after a shutdown that was heard counts as a failure.
WorkEnds(w) ==
  /\ work[w] \in {"working", "deaf"}
  /\ \E end \in {"ok", "failed"} :
       /\ end = "ok" => work[w] = "deaf" \/ w \notin aborted
       /\ work' = [work EXCEPT ![w] = end]
  /\ UNCHANGED <<clock, jobRow, runs, claim, aborted, faults>>

Exhausted(run) == run.attempt >= MaxAttempts

Idle(w) ==
  /\ claim' = [claim EXCEPT ![w] = Nobody]
  /\ work' = [work EXCEPT ![w] = "idle"]
  /\ UNCHANGED aborted

MutantAdvance ==
  /\ slot' = clock + 2
  /\ attempt' = 0
  /\ UNCHANGED delayed

\* nextSlot skips the slots that were missed.
Advance ==
  /\ slot' = clock + 1
  /\ attempt' = 0
  /\ UNCHANGED delayed

RetryLater ==
  /\ delayed' = TRUE
  /\ UNCHANGED <<slot, attempt>>

MutantStillHolds(w, run) == TRUE

\* The WHERE of finish(): the lease and the slot are still this worker's.
StillHolds(w, run) == lockedBy = w /\ slot = run.slot

Finish(w) ==
  LET run == runs[claim[w]] IN
  /\ work[w] \in {"ok", "failed"}
  /\ runs' = [runs EXCEPT ![claim[w]].status = IF work[w] = "ok" THEN "SUCCEEDED" ELSE "FAILED"]
  /\ \/ /\ StillHolds(w, run)
        /\ lockedBy' = Nobody
        /\ leased' = FALSE
        /\ IF work[w] = "ok" \/ Exhausted(run) THEN Advance ELSE RetryLater
     \/ ~StillHolds(w, run) /\ UNCHANGED jobRow
  /\ Idle(w)
  /\ UNCHANGED <<clock, faults>>

\* The process dies at any point of a run, or finish() fails; a worker of the
\* same name polls again.
Crash(w) ==
  /\ work[w] # "idle"
  /\ faults < MaxFaults
  /\ faults' = faults + 1
  /\ claim' = [claim EXCEPT ![w] = Nobody]
  /\ work' = [work EXCEPT ![w] = "idle"]
  /\ aborted' = aborted \ {w}
  /\ UNCHANGED <<clock, jobRow, runs>>

\* SIGTERM, past its grace period.
Shutdown(w) ==
  /\ w \notin aborted
  /\ aborted' = aborted \cup {w}
  /\ UNCHANGED <<clock, jobRow, runs, claim, work, faults>>

Restart(w) ==
  /\ w \in aborted
  /\ work[w] = "idle"
  /\ aborted' = aborted \ {w}
  /\ UNCHANGED <<clock, jobRow, runs, claim, work, faults>>

WorkerActs(w) ==
  \/ Claim(w)
  \/ Heartbeat(w)
  \/ WorkEnds(w)
  \/ Finish(w)
  \/ Crash(w)
  \/ Shutdown(w)
  \/ Restart(w)

JobNext ==
  \/ NextSlotComes
  \/ RetryComes
  \/ LeaseExpires
  \/ LeaseIsLost
  \/ \E w \in Worker : WorkerActs(w)

JobSpec == JobInit /\ [][JobNext]_jobVars

\* Time passes; the timeout of a run is hard; a finish() that can commit does; a
\* process told to stop is replaced, and polling goes on (a claim that another
\* worker's shutdown or transaction keeps out is tried again).
JobFairness ==
  /\ WF_jobVars(RetryComes)
  /\ WF_jobVars(LeaseExpires)
  /\ SF_jobVars(\E w \in Worker : Claim(w))
  /\ \A w \in Worker :
       /\ WF_jobVars(WorkEnds(w))
       /\ WF_jobVars(Finish(w))
       /\ WF_jobVars(Restart(w))

JobFairSpec == JobSpec /\ JobFairness

-----------------------------------------------------------------------------
(* Properties.                                                             *)

\* "One run per job at a time" (claim): the one JobRun that reads RUNNING is the newest,
\* and it is what the job's row says of slot, attempt and holder, through crashes,
\* takeovers and answers of workers that were overtaken.
RunningIsTheLease ==
  \A i \in DOMAIN runs : runs[i].status = "RUNNING" =>
    /\ i = Len(runs)
    /\ lockedBy = runs[i].worker
    /\ slot = runs[i].slot
    /\ attempt = runs[i].attempt

\* The scheduler keeps the promise of JobSlot: slots in order and when due, and the next
\* one only when a run of this one succeeded or its attempts are used up, also when a
\* worker that lost its lease finishes after somebody else took the slot over.
Promise ==
  INSTANCE JobSlot WITH
    current <- slot, tries <- attempt, now <- clock,
    served <- {runs[i].slot : i \in {j \in DOMAIN runs : runs[j].status = "SUCCEEDED"}}

SlotsAreKept == Promise!SlotPromise

\* A slot whose time has come is left behind in the end, however often runs fail, time
\* out or die, as long as faults are finitely many.
SlotsMoveOn == \A s \in 1..MaxSlot : (slot = s /\ clock >= s) ~> slot > s

=============================================================================
