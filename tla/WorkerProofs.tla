---------------------------- MODULE WorkerProofs ----------------------------
(***************************************************************************)
(* Proofs about the worker: JobScheduler, for any workers, attempts, slots *)
(* and faults, and Notifications, for any notifications, senders and       *)
(* mishaps.                                                                *)
(*                                                                         *)
(* One run at a time and the refinement of JobSlot rest on what a worker   *)
(* that comes back from its run can still find: its own run, not yet       *)
(* succeeded, and, if the job's row names it, the newest run, which is the *)
(* row's slot and attempt.                                                 *)
(*                                                                         *)
(* That emails are repeated by mishaps only rests on a count: what left    *)
(* for a notification and what may still leave without a mishap come to    *)
(* one, and whatever they exceed it by, summed over all of them, is at     *)
(* most the number of mishaps.                                             *)
(***************************************************************************)
EXTENDS MCWorker, Sums, SequenceTheorems

\* A busy worker executes a run that it made and that has not succeeded.
BusyHaveTheirRun ==
  \A w \in Worker : work[w] # "idle" =>
    /\ claim[w] \in DOMAIN runs
    /\ runs[claim[w]].worker = w
    /\ runs[claim[w]].status # "SUCCEEDED"
    /\ lockedBy = w => claim[w] = Len(runs)

\* The row's holder made the newest run, for the row's slot and attempt.
HolderMadeTheNewest ==
  lockedBy # Nobody =>
    /\ Len(runs) \in DOMAIN runs
    /\ runs[Len(runs)].worker = lockedBy
    /\ runs[Len(runs)].slot = slot
    /\ runs[Len(runs)].attempt = attempt

\* Runs are of slots whose time has come, none past the row's, which was begun if one is
\* of it.
RunsAreOfDueSlots ==
  \A i \in DOMAIN runs :
    /\ runs[i].slot <= clock
    /\ runs[i].slot <= slot
    /\ runs[i].slot = slot => attempt > 0

JInv ==
  /\ JobTypeOK
  /\ RunningIsTheLease
  /\ BusyHaveTheirRun
  /\ HolderMadeTheNewest
  /\ RunsAreOfDueSlots

Succeeded == {runs[i].slot : i \in {j \in DOMAIN runs : runs[j].status = "SUCCEEDED"}}

-----------------------------------------------------------------------------
(* What claiming and finishing do to the runs.                             *)

\* The runs are a sequence, and its members are runs.
LEMMA RunsAreTyped ==
  ASSUME JobTypeOK
  PROVE  /\ runs \in Seq(Run)
         /\ Len(runs) \in Nat
         /\ DOMAIN runs = 1..Len(runs)
         /\ \A i \in DOMAIN runs :
              /\ runs[i] \in Run
              /\ runs[i].slot \in 1..MaxSlot
              /\ runs[i].attempt \in Nat \ {0}
              /\ runs[i].worker \in Worker
              /\ runs[i].status \in {"RUNNING", "SUCCEEDED", "FAILED"}
<1>1. runs \in Seq(Run)
  BY DEF JobTypeOK
<1>2. Len(runs) \in Nat /\ DOMAIN runs = 1..Len(runs) /\ \A i \in DOMAIN runs : runs[i] \in Run
  BY <1>1
<1>. QED
  BY <1>1, <1>2 DEF Run

\* Failing the stale runs leaves everything of them but a RUNNING status.
LEMMA StaleRunsFail ==
  ASSUME JobTypeOK
  PROVE  /\ FailStale(runs) \in Seq(Run)
         /\ Len(FailStale(runs)) = Len(runs)
         /\ DOMAIN FailStale(runs) = DOMAIN runs
         /\ \A i \in DOMAIN runs :
              /\ FailStale(runs)[i].slot = runs[i].slot
              /\ FailStale(runs)[i].attempt = runs[i].attempt
              /\ FailStale(runs)[i].worker = runs[i].worker
              /\ FailStale(runs)[i].status # "RUNNING"
              /\ FailStale(runs)[i].status = "SUCCEEDED" <=> runs[i].status = "SUCCEEDED"
<1>1. \A i \in DOMAIN runs : [runs[i] EXCEPT !.status = "FAILED"] \in Run
  BY RunsAreTyped DEF Run
<1>2. FailStale(runs) \in [1..Len(runs) -> Run]
  BY <1>1, RunsAreTyped DEF FailStale
<1>3. FailStale(runs) \in Seq(Run) /\ Len(FailStale(runs)) = Len(runs)
  BY <1>2, RunsAreTyped, SeqDef, LenProperties
<1>4. \A i \in DOMAIN runs :
        FailStale(runs)[i] = IF runs[i].status = "RUNNING"
                             THEN [runs[i] EXCEPT !.status = "FAILED"] ELSE runs[i]
  BY DEF FailStale
<1>5. DOMAIN FailStale(runs) = DOMAIN runs
  BY DEF FailStale
<1>. QED
  BY <1>3, <1>4, <1>5, RunsAreTyped DEF Run

\* Claiming adds one RUNNING run of the row's slot, and no other reads RUNNING.
LEMMA ClaimAddsARun ==
  ASSUME JobTypeOK, NEW w \in Worker, Claim(w)
  PROVE  \E n \in Nat :
           /\ n = Len(runs) + 1
           /\ runs' \in Seq(Run) /\ Len(runs') = n /\ DOMAIN runs' = 1..n
           /\ n \notin DOMAIN runs
           /\ \A i \in DOMAIN runs' : i = n \/ i \in DOMAIN runs
           /\ runs'[n] = [slot |-> slot, attempt |-> attempt + 1, worker |-> w,
                          status |-> "RUNNING"]
           /\ \A i \in DOMAIN runs :
                /\ i \in DOMAIN runs'
                /\ runs'[i].slot = runs[i].slot
                /\ runs'[i].attempt = runs[i].attempt
                /\ runs'[i].worker = runs[i].worker
                /\ runs'[i].status # "RUNNING"
                /\ runs'[i].status = "SUCCEEDED" <=> runs[i].status = "SUCCEEDED"
<1>1. PICK n \in Nat : n = Len(runs) + 1
  BY RunsAreTyped
<1>2. PICK new : new = [slot |-> slot, attempt |-> attempt + 1, worker |-> w,
                        status |-> "RUNNING"]
  OBVIOUS
<1>3. new \in Run
  BY <1>2, JobAssumption DEF Claim, Due, JobTypeOK, Run
<1>4. PICK old : old = FailStale(runs)
  OBVIOUS
<1>5. old \in Seq(Run) /\ Len(old) = Len(runs) /\ DOMAIN old = 1..Len(runs)
  BY <1>4, StaleRunsFail, RunsAreTyped
<1>6. runs' = Append(old, new)
  BY <1>2, <1>4 DEF Claim
<1>7. /\ runs' \in Seq(Run) /\ Len(runs') = n /\ DOMAIN runs' = 1..n
      /\ runs'[n] = new
      /\ \A i \in 1..Len(runs) : runs'[i] = old[i]
  BY <1>1, <1>3, <1>5, <1>6
<1>8. n \notin DOMAIN runs /\ \A i \in 1..n : i = n \/ i \in DOMAIN runs
  BY <1>1, RunsAreTyped
<1>9. \A i \in DOMAIN runs : i \in 1..n /\ runs'[i] = FailStale(runs)[i]
  BY <1>1, <1>4, <1>7, RunsAreTyped
<1>. QED
  BY <1>1, <1>2, <1>7, <1>8, <1>9, StaleRunsFail

\* Finishing settles the worker's run and touches no other.
LEMMA FinishSettlesARun ==
  ASSUME JInv, NEW w \in Worker, Finish(w)
  PROVE  /\ claim[w] \in DOMAIN runs
         /\ runs' \in Seq(Run) /\ Len(runs') = Len(runs) /\ DOMAIN runs' = DOMAIN runs
         /\ \A i \in DOMAIN runs :
              /\ runs'[i].slot = runs[i].slot
              /\ runs'[i].attempt = runs[i].attempt
              /\ runs'[i].worker = runs[i].worker
              /\ i # claim[w] => runs'[i] = runs[i]
         /\ runs'[claim[w]].status = IF work[w] = "ok" THEN "SUCCEEDED" ELSE "FAILED"
         /\ runs[claim[w]].status # "SUCCEEDED"
<1>1. claim[w] \in DOMAIN runs /\ runs[claim[w]].status # "SUCCEEDED"
  BY DEF JInv, BusyHaveTheirRun, Finish
<1>2. PICK k \in DOMAIN runs : k = claim[w]
  BY <1>1
<1>3. PICK s \in {"SUCCEEDED", "FAILED"} : s = IF work[w] = "ok" THEN "SUCCEEDED" ELSE "FAILED"
  OBVIOUS
<1>4. PICK r : r = [runs[k] EXCEPT !.status = s]
  OBVIOUS
<1>5. r \in Run /\ r.slot = runs[k].slot /\ r.attempt = runs[k].attempt
      /\ r.worker = runs[k].worker /\ r.status = s
  BY <1>4, RunsAreTyped DEF JInv, Run
<1>6. runs' = [runs EXCEPT ![k] = r]
  BY <1>2, <1>3, <1>4 DEF Finish
<1>7. runs' \in Seq(Run) /\ Len(runs') = Len(runs) /\ DOMAIN runs' = DOMAIN runs
  BY <1>5, <1>6, RunsAreTyped DEF JInv
<1>. QED
  BY <1>1, <1>2, <1>3, <1>5, <1>6, <1>7

-----------------------------------------------------------------------------
(* The inductive invariant.                                                *)

\* A job that never ran has no run to disagree with.
LEMMA JobInitEstablishes ==
  ASSUME JobInit
  PROVE  JInv
<1>1. runs = <<>> /\ DOMAIN runs = {} /\ runs \in Seq(Run)
  BY DEF JobInit
<1>2. clock \in 0..MaxSlot /\ slot \in 1..(MaxSlot + 1) /\ attempt \in Nat /\ faults \in 0..MaxFaults
  BY JobAssumption DEF JobInit
<1>3. /\ delayed \in BOOLEAN /\ lockedBy \in Worker \cup {Nobody} /\ leased \in BOOLEAN
      /\ claim \in [Worker -> DOMAIN runs \cup {Nobody}]
      /\ work \in [Worker -> {"idle", "working", "deaf", "ok", "failed"}]
      /\ aborted \subseteq Worker
  BY DEF JobInit
<1>4. JobTypeOK
  BY <1>1, <1>2, <1>3 DEF JobTypeOK
<1>. QED
  BY <1>1, <1>4 DEF JobInit, JInv, RunningIsTheLease, BusyHaveTheirRun, HolderMadeTheNewest,
     RunsAreOfDueSlots

LEMMA ClaimPreserves ==
  ASSUME JInv, NEW w \in Worker, Claim(w)
  PROVE  JInv'
<1>0. JobTypeOK /\ w # Nobody
  BY JobAssumption DEF JInv
<1>1. PICK n \in Nat :
        /\ n = Len(runs) + 1
        /\ runs' \in Seq(Run) /\ Len(runs') = n /\ DOMAIN runs' = 1..n
        /\ n \notin DOMAIN runs
        /\ \A i \in DOMAIN runs' : i = n \/ i \in DOMAIN runs
        /\ runs'[n] = [slot |-> slot, attempt |-> attempt + 1, worker |-> w,
                       status |-> "RUNNING"]
        /\ \A i \in DOMAIN runs :
             /\ i \in DOMAIN runs'
             /\ runs'[i].slot = runs[i].slot
             /\ runs'[i].attempt = runs[i].attempt
             /\ runs'[i].worker = runs[i].worker
             /\ runs'[i].status # "RUNNING"
             /\ runs'[i].status = "SUCCEEDED" <=> runs[i].status = "SUCCEEDED"
  BY <1>0, ClaimAddsARun
<1>2. /\ slot <= clock /\ work[w] = "idle"
      /\ attempt' = attempt + 1 /\ lockedBy' = w /\ leased' = TRUE
      /\ claim' = [claim EXCEPT ![w] = n]
      /\ UNCHANGED <<clock, slot, delayed, faults>>
  BY <1>1 DEF Claim, Due
<1>9. PICK how \in {"working", "deaf"} :
        work' = [work EXCEPT ![w] = how] /\ aborted' \in {aborted, aborted \cup {w}}
  BY DEF Claim
<1>3. n \in DOMAIN runs'
  BY <1>1
<1>4. JobTypeOK'
  BY <1>0, <1>1, <1>2, <1>3, <1>9 DEF JobTypeOK
<1>5. RunningIsTheLease'
  BY <1>1, <1>2, <1>3 DEF RunningIsTheLease
<1>6. BusyHaveTheirRun'
  <2>1. claim'[w] = n
    BY <1>0, <1>2 DEF JobTypeOK
  <2>2. \A v \in Worker : v # w => claim'[v] = claim[v] /\ work'[v] = work[v]
    BY <1>0, <1>2, <1>9 DEF JobTypeOK
  <2>. QED
    BY <1>1, <1>2, <1>3, <2>1, <2>2 DEF JInv, BusyHaveTheirRun
<1>7. HolderMadeTheNewest'
  BY <1>1, <1>2, <1>3 DEF HolderMadeTheNewest
<1>8. RunsAreOfDueSlots'
  <2>1. slot \in Int /\ clock \in Int /\ attempt \in Nat
    BY <1>0 DEF JobTypeOK
  <2>2. attempt' > 0 /\ slot' = slot /\ clock' = clock
    BY <1>2, <2>1
  <2>3. runs'[n].slot <= clock /\ runs'[n].slot <= slot
    BY <1>1, <1>2, <2>1
  <2>4. ASSUME NEW i \in DOMAIN runs
        PROVE  runs'[i].slot <= clock /\ runs'[i].slot <= slot
    BY <1>1 DEF JInv, RunsAreOfDueSlots
  <2>. QED
    BY <1>1, <2>2, <2>3, <2>4 DEF RunsAreOfDueSlots
<1>. QED
  BY <1>4, <1>5, <1>6, <1>7, <1>8 DEF JInv

\* What a worker that still holds the job finds: its run is the newest and the row's.
LEMMA HolderFinishesTheNewest ==
  ASSUME JInv, NEW w \in Worker, work[w] # "idle", StillHolds(w, runs[claim[w]])
  PROVE  /\ claim[w] = Len(runs)
         /\ runs[claim[w]].slot = slot
         /\ runs[claim[w]].attempt = attempt
         /\ attempt > 0
<1>1. lockedBy = w /\ w # Nobody /\ claim[w] = Len(runs) /\ claim[w] \in DOMAIN runs
  BY JobAssumption DEF JInv, StillHolds, BusyHaveTheirRun
<1>2. runs[Len(runs)].slot = slot /\ runs[Len(runs)].attempt = attempt
  BY <1>1 DEF JInv, HolderMadeTheNewest
<1>. QED
  BY <1>1, <1>2, RunsAreTyped DEF JInv

LEMMA FinishPreserves ==
  ASSUME JInv, NEW w \in Worker, Finish(w)
  PROVE  JInv'
<1>0. JobTypeOK /\ w # Nobody /\ work[w] # "idle"
  BY JobAssumption DEF JInv, Finish
<1>1. PICK k \in DOMAIN runs : k = claim[w]
  BY FinishSettlesARun
<1>2. /\ runs' \in Seq(Run) /\ Len(runs') = Len(runs) /\ DOMAIN runs' = DOMAIN runs
      /\ \A i \in DOMAIN runs :
           /\ runs'[i].slot = runs[i].slot
           /\ runs'[i].attempt = runs[i].attempt
           /\ runs'[i].worker = runs[i].worker
           /\ i # k => runs'[i] = runs[i]
      /\ runs'[k].status # "RUNNING"
  BY <1>1, FinishSettlesARun
<1>3. /\ claim' = [claim EXCEPT ![w] = Nobody] /\ work' = [work EXCEPT ![w] = "idle"]
      /\ UNCHANGED <<clock, aborted, faults>>
  BY DEF Finish, Idle
<1>4. \A v \in Worker : v # w => claim'[v] = claim[v] /\ work'[v] = work[v]
  BY <1>0, <1>3 DEF JobTypeOK
<1>5. work'[w] = "idle"
  BY <1>0, <1>3 DEF JobTypeOK
<1>6. \A v \in Worker : v # w /\ work[v] # "idle" => claim[v] # k
  BY <1>0, <1>1 DEF JInv, BusyHaveTheirRun
<1>7. CASE StillHolds(w, runs[k])
  <2>1. k = Len(runs) /\ runs[k].slot = slot /\ runs[k].attempt = attempt
    BY <1>0, <1>1, <1>7, HolderFinishesTheNewest
  <2>2. lockedBy' = Nobody /\ leased' = FALSE /\ (Advance \/ RetryLater)
    BY <1>1, <1>7 DEF Finish
  <2>3. clock + 1 \in 1..(MaxSlot + 1)
    BY <1>0, JobAssumption DEF JobTypeOK
  <2>4. JobTypeOK'
    <3>1. slot' \in 1..(MaxSlot + 1) /\ attempt' \in Nat
      BY <1>0, <2>2, <2>3 DEF JobTypeOK, Advance, RetryLater
    <3>2. delayed' \in BOOLEAN /\ leased' \in BOOLEAN
      BY <1>0, <2>2 DEF JobTypeOK, Advance, RetryLater
    <3>. QED
      BY <1>0, <1>2, <1>3, <2>2, <3>1, <3>2 DEF JobTypeOK
  <2>5. RunningIsTheLease'
    BY <1>2, <2>1 DEF JInv, RunningIsTheLease
  <2>6. BusyHaveTheirRun'
    BY <1>0, <1>2, <1>4, <1>5, <1>6, <2>2, JobAssumption DEF JInv, BusyHaveTheirRun
  <2>7. HolderMadeTheNewest'
    BY <2>2 DEF HolderMadeTheNewest
  <2>8. RunsAreOfDueSlots'
    BY <1>0, <1>2, <1>3, <2>2, RunsAreTyped
    DEF JInv, JobTypeOK, RunsAreOfDueSlots, Advance, RetryLater
  <2>. QED
    BY <2>4, <2>5, <2>6, <2>7, <2>8 DEF JInv
<1>8. CASE ~StillHolds(w, runs[k])
  <2>1. UNCHANGED <<slot, attempt, delayed, lockedBy, leased>>
    BY <1>1, <1>8 DEF Finish, jobRow
  <2>2. JobTypeOK'
    BY <1>0, <1>2, <1>3, <2>1 DEF JobTypeOK
  <2>3. RunningIsTheLease'
    BY <1>2, <1>3, <2>1 DEF JInv, RunningIsTheLease
  <2>4. BusyHaveTheirRun'
    BY <1>0, <1>2, <1>4, <1>5, <1>6, <2>1 DEF JInv, BusyHaveTheirRun
  <2>5. HolderMadeTheNewest'
    BY <1>2, <2>1 DEF JInv, HolderMadeTheNewest
  <2>6. RunsAreOfDueSlots'
    BY <1>2, <1>3, <2>1 DEF JInv, RunsAreOfDueSlots
  <2>. QED
    BY <2>2, <2>3, <2>4, <2>5, <2>6 DEF JInv
<1>. QED
  BY <1>7, <1>8

\* Whatever leaves the runs and the row's slot, attempt and holder alone, and no worker
\* busy that was not.
LEMMA SameRuns ==
  ASSUME JInv, UNCHANGED <<slot, attempt, lockedBy, runs>>,
         clock' \in 0..MaxSlot, clock' >= clock,
         JobTypeOK',
         \A w \in Worker : work'[w] # "idle" => work[w] # "idle" /\ claim'[w] = claim[w]
  PROVE  JInv'
<1>1. RunningIsTheLease'
  BY DEF JInv, RunningIsTheLease
<1>2. BusyHaveTheirRun'
  BY DEF JInv, BusyHaveTheirRun
<1>3. HolderMadeTheNewest'
  BY DEF JInv, HolderMadeTheNewest
<1>4. RunsAreOfDueSlots'
  BY RunsAreTyped, JobAssumption DEF JInv, JobTypeOK, RunsAreOfDueSlots
<1>. QED
  BY <1>1, <1>2, <1>3, <1>4 DEF JInv

\* No step of a worker, dead or overtaken, breaks it.
LEMMA JobStepPreserves ==
  ASSUME JInv, [JobNext]_jobVars
  PROVE  JInv'
<1>0. JobTypeOK
  BY DEF JInv
<1>1. CASE NextSlotComes
  BY <1>0, <1>1, SameRuns, JobAssumption DEF NextSlotComes, jobRow, process, JobTypeOK
<1>2. CASE RetryComes \/ LeaseExpires \/ LeaseIsLost
  <2>1. /\ UNCHANGED <<clock, slot, attempt, lockedBy, runs, claim, work, aborted>>
        /\ faults' \in 0..MaxFaults
    BY <1>0, <1>2, JobAssumption DEF RetryComes, LeaseExpires, LeaseIsLost, process, JobTypeOK
  <2>2. delayed' \in BOOLEAN
    <3>1. delayed' = FALSE \/ UNCHANGED delayed
      BY <1>2 DEF RetryComes, LeaseExpires, LeaseIsLost
    <3>. QED
      BY <1>0, <3>1 DEF JobTypeOK
  <2>3. leased' \in BOOLEAN
    <3>1. leased' = FALSE \/ UNCHANGED leased
      BY <1>2 DEF RetryComes, LeaseExpires, LeaseIsLost
    <3>. QED
      BY <1>0, <3>1 DEF JobTypeOK
  <2>4. JobTypeOK'
    BY <1>0, <2>1, <2>2, <2>3 DEF JobTypeOK
  <2>. QED
    BY <1>0, <2>1, <2>4, SameRuns DEF JobTypeOK
<1>3. ASSUME NEW w \in Worker, Heartbeat(w) PROVE JInv'
  BY <1>0, <1>3, SameRuns DEF Heartbeat, process, JobTypeOK
<1>4. ASSUME NEW w \in Worker, WorkEnds(w) PROVE JInv'
  BY <1>0, <1>4, SameRuns DEF WorkEnds, jobRow, JobTypeOK
<1>5. ASSUME NEW w \in Worker, Crash(w) PROVE JInv'
  BY <1>0, <1>5, SameRuns, JobAssumption DEF Crash, jobRow, JobTypeOK
<1>6. ASSUME NEW w \in Worker, Shutdown(w) \/ Restart(w) PROVE JInv'
  BY <1>0, <1>6, SameRuns DEF Shutdown, Restart, jobRow, JobTypeOK
<1>7. CASE UNCHANGED jobVars
  BY <1>0, <1>7, SameRuns DEF jobVars, jobRow, process, JobTypeOK
<1>. QED
  BY <1>1, <1>2, <1>3, <1>4, <1>5, <1>6, <1>7, ClaimPreserves, FinishPreserves
  DEF JobNext, WorkerActs

-----------------------------------------------------------------------------
(* The refinement of JobSlot.                                              *)

\* A claim leaves what is promised of the slot unserved.
LEMMA ClaimServesNothing ==
  ASSUME JInv, NEW w \in Worker, Claim(w)
  PROVE  UNCHANGED Succeeded
<1>1. PICK n \in Nat :
        /\ n \notin DOMAIN runs
        /\ \A i \in DOMAIN runs' : i = n \/ i \in DOMAIN runs
        /\ runs'[n] = [slot |-> slot, attempt |-> attempt + 1, worker |-> w,
                       status |-> "RUNNING"]
        /\ \A i \in DOMAIN runs :
             /\ i \in DOMAIN runs'
             /\ runs'[i].slot = runs[i].slot
             /\ runs'[i].status = "SUCCEEDED" <=> runs[i].status = "SUCCEEDED"
  <2>1. JobTypeOK
    BY DEF JInv
  <2>. QED
    BY <2>1, ClaimAddsARun
<1>2. runs'[n].status = "RUNNING"
  BY <1>1
<1>3. {i \in DOMAIN runs' : runs'[i].status = "SUCCEEDED"}
        = {i \in DOMAIN runs : runs[i].status = "SUCCEEDED"}
  BY <1>1, <1>2
<1>4. \A i \in {j \in DOMAIN runs : runs[j].status = "SUCCEEDED"} : runs'[i].slot = runs[i].slot
  BY <1>1
<1>. QED
  BY <1>3, <1>4 DEF Succeeded

\* A run that ends does for its own slot, and no other, what is promised.
LEMMA FinishServesItsSlot ==
  ASSUME JInv, NEW w \in Worker, Finish(w)
  PROVE  Succeeded' = Succeeded \cup (IF work[w] = "ok" THEN {runs[claim[w]].slot} ELSE {})
<1>1. PICK k \in DOMAIN runs : k = claim[w]
  BY FinishSettlesARun
<1>2. /\ DOMAIN runs' = DOMAIN runs
      /\ \A i \in DOMAIN runs : runs'[i].slot = runs[i].slot
      /\ \A i \in DOMAIN runs : i # k => runs'[i].status = runs[i].status
      /\ runs'[k].status = IF work[w] = "ok" THEN "SUCCEEDED" ELSE "FAILED"
      /\ runs[k].status # "SUCCEEDED"
  BY <1>1, FinishSettlesARun
<1>3. CASE work[w] = "ok"
  <2>1. runs'[k].status = "SUCCEEDED"
    BY <1>2, <1>3
  <2>2. \A i \in DOMAIN runs :
          runs'[i].status = "SUCCEEDED" <=> (i = k \/ runs[i].status = "SUCCEEDED")
    BY <1>2, <2>1
  <2>3. Succeeded' = Succeeded \cup {runs[k].slot}
    BY <1>2, <2>2 DEF Succeeded
  <2>. QED
    BY <1>1, <1>3, <2>3
<1>4. CASE work[w] # "ok"
  <2>1. \A i \in DOMAIN runs :
          runs'[i].status = "SUCCEEDED" <=> runs[i].status = "SUCCEEDED"
    BY <1>2, <1>4
  <2>2. Succeeded' = Succeeded
    BY <1>2, <2>1 DEF Succeeded
  <2>. QED
    BY <1>4, <2>2
<1>. QED
  BY <1>3, <1>4

\* A claim that starts a run is one try more of its slot.
LEMMA ClaimIsATry ==
  ASSUME JInv, NEW w \in Worker, Claim(w)
  PROVE  Promise!Try
BY ClaimServesNothing DEF Claim, Due, Promise!Try, Succeeded

\* A holder's end moves the job on when it succeeded or was the last attempt, and says
\* nothing when it will be tried again; an overtaken worker's success comes late.
LEMMA FinishIsAStep ==
  ASSUME JInv, NEW w \in Worker, Finish(w)
  PROVE  Promise!MoveOn \/ (\E s \in 1..clock : Promise!ServeLate(s))
         \/ UNCHANGED Promise!promised
<1>1. UNCHANGED clock /\ work[w] \in {"ok", "failed"}
  BY DEF Finish
<1>2. Succeeded' = Succeeded \cup (IF work[w] = "ok" THEN {runs[claim[w]].slot} ELSE {})
  BY FinishServesItsSlot
<1>3. CASE StillHolds(w, runs[claim[w]])
  <2>1. runs[claim[w]].slot = slot /\ runs[claim[w]].attempt = attempt /\ attempt > 0
    BY <1>1, <1>3, HolderFinishesTheNewest
  <2>2. CASE work[w] = "ok" \/ Exhausted(runs[claim[w]])
    <3>1. slot' = clock + 1 /\ attempt' = 0
      BY <1>3, <2>2 DEF Finish, Advance
    <3>. QED
      BY <1>1, <1>2, <2>1, <2>2, <3>1 DEF Promise!MoveOn, Succeeded, Exhausted
  <2>3. CASE ~(work[w] = "ok" \/ Exhausted(runs[claim[w]]))
    <3>1. UNCHANGED <<slot, attempt>>
      BY <1>3, <2>3 DEF Finish, RetryLater
    <3>. QED
      BY <1>1, <1>2, <2>3, <3>1 DEF Promise!promised, Succeeded
  <2>. QED
    BY <2>2, <2>3
<1>4. CASE ~StillHolds(w, runs[claim[w]])
  <2>1. UNCHANGED <<slot, attempt>>
    BY <1>4 DEF Finish, jobRow
  <2>2. CASE work[w] = "ok"
    <3>1. PICK s : s = runs[claim[w]].slot
      OBVIOUS
    <3>2. s \in 1..clock /\ s <= slot /\ (s = slot => attempt > 0)
      BY <3>1, FinishSettlesARun, RunsAreTyped, JobAssumption
      DEF JInv, JobTypeOK, RunsAreOfDueSlots
    <3>3. s < slot \/ (s = slot /\ attempt > 0)
      BY <3>2 DEF JInv, JobTypeOK
    <3>. QED
      BY <1>1, <1>2, <2>1, <2>2, <3>1, <3>2, <3>3 DEF Promise!ServeLate, Succeeded
  <2>3. CASE work[w] # "ok"
    BY <1>1, <1>2, <2>1, <2>3 DEF Promise!promised, Succeeded
  <2>. QED
    BY <2>2, <2>3
<1>. QED
  BY <1>3, <1>4

\* Every step of the scheduler is a step of the promise, or none.
LEMMA JobStepRefines ==
  ASSUME JInv, [JobNext]_jobVars
  PROVE  [Promise!SlotNext]_(Promise!promised)
<1>1. CASE NextSlotComes
  BY <1>1 DEF NextSlotComes, jobRow, Promise!SlotNext, Promise!TimePasses
<1>2. ASSUME NEW w \in Worker, Claim(w) PROVE Promise!SlotNext
  BY <1>2, ClaimIsATry DEF Promise!SlotNext
<1>3. ASSUME NEW w \in Worker, Finish(w) PROVE [Promise!SlotNext]_(Promise!promised)
  BY <1>3, FinishIsAStep DEF Promise!SlotNext
<1>4. ASSUME NEW w \in Worker, Heartbeat(w) \/ WorkEnds(w) \/ Crash(w) \/ Shutdown(w) \/ Restart(w)
      PROVE  UNCHANGED Promise!promised
  BY <1>4 DEF Heartbeat, WorkEnds, Crash, Shutdown, Restart, jobRow, Promise!promised
<1>5. CASE RetryComes \/ LeaseExpires \/ LeaseIsLost \/ UNCHANGED jobVars
  BY <1>5 DEF RetryComes, LeaseExpires, LeaseIsLost, jobVars, jobRow, Promise!promised
<1>. QED
  BY <1>1, <1>2, <1>3, <1>4, <1>5 DEF JobNext, WorkerActs

-----------------------------------------------------------------------------
(* Emails: what has left, and what may still leave without a mishap.        *)

\* A row that a sender is still to come to, or whose sending failed, can lead to one email.
InBatch(s, n) == \E row \in batch[s] : row.note = n
Failing(s, n) == inHand[s] # Nothing /\ inHand[s].went = "failed" /\ inHand[s].row.note = n
MaySend(n) == {s \in Sender : InBatch(s, n) \/ Failing(s, n)}
May(s, n) == IF s \in MaySend(n) THEN 1 ELSE 0

\* So can a row that is claimed next: now, or after its wait, or when it is put back.
Unheld(n) == \A s \in Sender : ~Holds(s, n)
ToClaim(n) ==
  IF status[n] # "SENT" /\ (status[n] = "FAILED" \/ n \notin waiting \/ Unheld(n)) THEN 1 ELSE 0

Emails(n) == copies[n] + Cardinality(MaySend(n)) + ToClaim(n)

\* One email of each notification is meant.
Extra == [n \in Notification |-> IF Emails(n) > 0 THEN Emails(n) - 1 ELSE 0]

ExtrasAreMishaps == SumFunctionOnSet(Extra, Notification) <= mishaps

NoteShapes ==
  /\ NoteTypeOK
  /\ batch \in [Sender -> SUBSET Claimed]
  /\ inHand \in [Sender -> InHand \cup {Nothing}]

\* A sender holds one row of a notification.
HeldOnce ==
  \A s \in Sender :
    /\ \A r, q \in batch[s] : r.note = q.note => r = q
    /\ inHand[s] # Nothing => \A r \in batch[s] : r.note # inHand[s].row.note

\* What was sent did leave.
HasLeft(sent, n) == sent[n] > 0 \/ n \in Wordless

SentHaveLeft ==
  /\ \A n \in Notification : status[n] = "SENT" => HasLeft(copies, n)
  /\ \A s \in Sender :
       inHand[s] # Nothing /\ inHand[s].went = "sent" => HasLeft(copies, inHand[s].row.note)

NInv == NoteShapes /\ HeldOnce /\ SentHaveLeft /\ ExtrasAreMishaps

-----------------------------------------------------------------------------
(* Counting.                                                               *)

\* Emails are counted by naturals.
LEMMA EmailsAreCounted ==
  ASSUME NoteShapes, NEW n \in Notification
  PROVE  /\ IsFiniteSet(MaySend(n)) /\ Cardinality(MaySend(n)) \in Nat
         /\ ToClaim(n) \in {0, 1} /\ copies[n] \in Nat /\ Emails(n) \in Nat
<1>1. IsFiniteSet(MaySend(n)) /\ Cardinality(MaySend(n)) \in Nat
  BY NotificationAssumption, FS_Subset, FS_CardinalityType DEF MaySend
<1>2. ToClaim(n) \in {0, 1} /\ copies[n] \in Nat
  BY DEF ToClaim, NoteShapes, NoteTypeOK
<1> QED
  BY <1>1, <1>2 DEF Emails

EmailsAreNumbers == \A n \in Notification : Emails(n) \in Nat

\* So are those of every notification.
LEMMA NumbersOfEmails == NoteShapes => EmailsAreNumbers
BY EmailsAreCounted DEF EmailsAreNumbers

\* A count changes by the one notification that comes or goes.
LEMMA CountMoves ==
  ASSUME NEW S, NEW T, IsFiniteSet(S), NEW s, S \ {s} = T \ {s}
  PROVE  Cardinality(T) = Cardinality(S) - (IF s \in S THEN 1 ELSE 0)
                                         + (IF s \in T THEN 1 ELSE 0)
<1>1. IsFiniteSet(T) /\ Cardinality(S) \in Nat /\ Cardinality(T) \in Nat
  <2>1. T \subseteq S \cup {s} /\ IsFiniteSet(S \cup {s})
    BY FS_AddElement
  <2> QED
    BY <2>1, FS_Subset, FS_CardinalityType
<1>2. /\ Cardinality(S \ {s}) = Cardinality(S) - (IF s \in S THEN 1 ELSE 0)
      /\ Cardinality(T \ {s}) = Cardinality(T) - (IF s \in T THEN 1 ELSE 0)
  <2>1. ASSUME NEW U, IsFiniteSet(U), Cardinality(U) \in Nat
        PROVE  Cardinality(U \ {s}) = Cardinality(U) - (IF s \in U THEN 1 ELSE 0)
    <3>1. CASE s \in U
      BY <2>1, <3>1, FS_RemoveElement
    <3>2. CASE s \notin U
      <4>1. U \ {s} = U
        BY <3>2
      <4>2. Cardinality(U \ {s}) = Cardinality(U)
        BY <4>1
      <4> QED
        BY <2>1, <3>2, <4>2
    <3> QED
      BY <3>1, <3>2
  <2> QED
    BY <1>1, <2>1
<1>3. Cardinality(S \ {s}) = Cardinality(T \ {s})
  OBVIOUS
<1> QED
  BY <1>1, <1>2, <1>3

\* Only one sender moves.
Moves(s) ==
  \A e \in Sender \ {s} : batch'[e] = batch[e] /\ inHand'[e] = inHand[e]

\* When one sender moves, only what it holds changes.
LEMMA OneSenderMoves ==
  ASSUME NoteShapes, NoteShapes', NEW s \in Sender, Moves(s), NEW n \in Notification
  PROVE  /\ Emails(n)' = copies'[n] + Cardinality(MaySend(n)) - May(s, n) + May(s, n)' + ToClaim(n)'
         /\ May(s, n) \in {0, 1} /\ May(s, n)' \in {0, 1}
         /\ (Unheld(n) <=> ~Holds(s, n) /\ \A e \in Sender \ {s} : ~Holds(e, n))
         /\ (Unheld(n)' <=> ~Holds(s, n)' /\ \A e \in Sender \ {s} : ~Holds(e, n))
<1>1. \A e \in Sender \ {s} : (e \in MaySend(n)' <=> e \in MaySend(n))
                           /\ (Holds(e, n)' <=> Holds(e, n))
  BY DEF Moves, MaySend, InBatch, Failing, Holds
<1>2. MaySend(n) \ {s} = MaySend(n)' \ {s}
  BY <1>1 DEF MaySend
<1>3. Cardinality(MaySend(n)') = Cardinality(MaySend(n)) - May(s, n) + May(s, n)'
  BY <1>2, CountMoves, EmailsAreCounted DEF May
<1>4. May(s, n) \in {0, 1} /\ May(s, n)' \in {0, 1} /\ ToClaim(n)' \in {0, 1} /\ copies'[n] \in Nat
  BY DEF May, ToClaim, NoteShapes, NoteTypeOK
<1>5. Cardinality(MaySend(n)) \in Nat
  BY EmailsAreCounted
<1>6. Emails(n)' = copies'[n] + Cardinality(MaySend(n)') + ToClaim(n)'
  BY DEF Emails
<1>7. Emails(n)' = copies'[n] + Cardinality(MaySend(n)) - May(s, n) + May(s, n)' + ToClaim(n)'
  BY <1>3, <1>4, <1>5, <1>6
<1> QED
  BY <1>1, <1>4, <1>7 DEF Unheld

\* Without a mishap no notification can come to more emails; with one, one can come to
\* one more.
LEMMA ExtrasStay ==
  ASSUME NoteShapes, NoteShapes', ExtrasAreMishaps, mishaps' = mishaps,
         \A n \in Notification : Emails(n)' <= Emails(n)
  PROVE  ExtrasAreMishaps'
<1>1. \A n \in Notification : Emails(n) \in Nat /\ Emails(n)' \in Nat
  <2>1. EmailsAreNumbers /\ EmailsAreNumbers'
    BY NumbersOfEmails, PTL
  <2> QED
    BY <2>1 DEF EmailsAreNumbers
<1> DEFINE f == Extra
<1>2. PICK g : g = Extra'
  OBVIOUS
<1>3. \A n \in Notification : f[n] \in Int /\ g[n] \in Int /\ g[n] <= f[n]
  BY <1>1, <1>2 DEF Extra
<1> HIDE DEF f
<1>4. /\ SumFunctionOnSet(g, Notification) <= SumFunctionOnSet(f, Notification)
      /\ SumFunctionOnSet(g, Notification) \in Int /\ SumFunctionOnSet(f, Notification) \in Int
  BY <1>3, SumIsMonotonic, SumIsInt, NotificationAssumption
<1>5. SumFunctionOnSet(f, Notification) <= mishaps /\ mishaps \in Nat
  BY DEF f, ExtrasAreMishaps, NoteShapes, NoteTypeOK
<1> QED
  BY <1>2, <1>4, <1>5 DEF ExtrasAreMishaps

\* A mishap pays for one email more of one notification.
LEMMA OneExtra ==
  ASSUME NoteShapes, NoteShapes', ExtrasAreMishaps, mishaps' = mishaps + 1,
         NEW m \in Notification, Emails(m)' <= Emails(m) + 1,
         \A n \in Notification \ {m} : Emails(n)' <= Emails(n)
  PROVE  ExtrasAreMishaps'
<1>1. \A n \in Notification : Emails(n) \in Nat /\ Emails(n)' \in Nat
  <2>1. EmailsAreNumbers /\ EmailsAreNumbers'
    BY NumbersOfEmails, PTL
  <2> QED
    BY <2>1 DEF EmailsAreNumbers
<1> DEFINE f == Extra
           h == [n \in Notification |-> IF n = m THEN f[n] + 1 ELSE f[n]]
<1>2. PICK g : g = Extra'
  OBVIOUS
<1>3. \A n \in Notification : f[n] \in Int /\ g[n] \in Int /\ h[n] \in Int /\ g[n] <= h[n]
  BY <1>1, <1>2 DEF Extra
<1>4. h[m] = f[m] + 1 /\ \A n \in Notification \ {m} : h[n] = f[n]
  OBVIOUS
<1>5. SumFunctionOnSet(f, Notification) <= mishaps /\ mishaps \in Nat
  BY DEF ExtrasAreMishaps, NoteShapes, NoteTypeOK
<1> HIDE DEF f, h
<1>6. SumFunctionOnSet(h, Notification) = SumFunctionOnSet(f, Notification) - f[m] + h[m]
  BY <1>3, <1>4, SumOfChanged, NotificationAssumption
<1>7. SumFunctionOnSet(g, Notification) <= SumFunctionOnSet(h, Notification)
  BY <1>3, SumIsMonotonic, NotificationAssumption
<1>8. /\ SumFunctionOnSet(g, Notification) \in Int /\ SumFunctionOnSet(f, Notification) \in Int
      /\ SumFunctionOnSet(h, Notification) \in Int
  BY <1>3, SumIsInt, NotificationAssumption
<1>9. SumFunctionOnSet(g, Notification) <= mishaps + 1
  BY <1>3, <1>4, <1>5, <1>6, <1>7, <1>8
<1> QED
  BY <1>2, <1>9 DEF ExtrasAreMishaps

-----------------------------------------------------------------------------
(* Steps.                                                                  *)

\* No email has left before the first is claimed.
LEMMA NoteInitEstablishes == NoteInit => NInv
<1> SUFFICES ASSUME NoteInit PROVE NInv
  OBVIOUS
<1>1. NoteShapes
  BY NotificationAssumption DEF NoteInit, NoteShapes, NoteTypeOK
<1>2. HeldOnce /\ SentHaveLeft
  BY DEF NoteInit, HeldOnce, SentHaveLeft
<1>3. ASSUME NEW n \in Notification PROVE Extra[n] = 0
  <2>1. MaySend(n) = {}
    BY DEF NoteInit, MaySend, InBatch, Failing
  <2>2. Cardinality(MaySend(n)) = 0
    BY <2>1, FS_EmptySet
  <2> QED
    BY <2>2 DEF Extra, Emails, ToClaim, NoteInit
<1> DEFINE f == Extra
           zero == [n \in Notification |-> 0]
<1>4. SumFunctionOnSet(f, Notification) = SumFunctionOnSet(f, {})
  <2>1. \A n \in Notification \ {} : f[n] = 0
    BY <1>3
  <2> HIDE DEF f
  <2> QED
    BY <2>1, SumOverPart, NotificationAssumption
<1>5. SumFunctionOnSet(f, {}) = 0
  BY SumOfNone
<1> QED
  BY <1>1, <1>2, <1>4, <1>5 DEF NInv, ExtrasAreMishaps, NoteInit

LEMMA ClaimNotesKeeps ==
  ASSUME NInv, NEW s \in Sender, ClaimNotes(s)
  PROVE  NInv'
<1> USE DEF NInv
<1>1. PICK N \in SUBSET Ready :
        /\ attempts' = [n \in Notification |-> IF n \in N THEN attempts[n] + 1 ELSE attempts[n]]
        /\ waiting' = waiting \cup N
        /\ batch' = [batch EXCEPT ![s] = {[note |-> n, attempts |-> attempts[n] + 1] : n \in N}]
  BY DEF ClaimNotes
<1>2. /\ UNCHANGED <<status, inHand, copies, mishaps, requeues>>
      /\ batch[s] = {} /\ inHand[s] = Nothing
  BY DEF ClaimNotes, Busy
<1>3. \A n \in N : n \in Notification /\ n \notin waiting /\ status[n] = "PENDING"
  BY DEF Ready
<1>4. /\ batch'[s] = {[note |-> n, attempts |-> attempts[n] + 1] : n \in N}
      /\ \A e \in Sender \ {s} : batch'[e] = batch[e]
  BY <1>1 DEF NoteShapes
<1>5. NoteShapes'
  <2>1. \A n \in N : [note |-> n, attempts |-> attempts[n] + 1] \in Claimed
    BY <1>3 DEF NoteShapes, NoteTypeOK, Claimed
  <2>2. batch' \in [Sender -> SUBSET Claimed]
    BY <1>1, <2>1 DEF NoteShapes
  <2>3. inHand' \in [Sender -> InHand \cup {Nothing}]
    BY <1>2 DEF NoteShapes
  <2>4. /\ status' \in [Notification -> {"PENDING", "SENT", "FAILED"}]
        /\ attempts' \in [Notification -> Nat] /\ waiting' \subseteq Notification
        /\ copies' \in [Notification -> Nat]
        /\ mishaps' \in 0..MaxMishaps /\ requeues' \in 0..MaxRequeues
    BY <1>1, <1>2, <1>3 DEF NoteShapes, NoteTypeOK
  <2> QED
    BY <2>2, <2>3, <2>4 DEF NoteShapes, NoteTypeOK
<1>6. HeldOnce'
  BY <1>2, <1>4 DEF HeldOnce
<1>7. SentHaveLeft'
  BY <1>2 DEF SentHaveLeft
<1>8. ASSUME NEW n \in Notification PROVE Emails(n)' <= Emails(n)
  <2>1. Moves(s)
    BY <1>2, <1>4 DEF Moves
  <2>2. s \notin MaySend(n) /\ ~Holds(s, n) /\ (s \in MaySend(n)' <=> n \in N)
        /\ (Holds(s, n)' <=> n \in N)
    <3>1. InBatch(s, n)' <=> n \in N
      <4>1. ASSUME n \in N PROVE \E row \in batch'[s] : row.note = n
        <5>1. [note |-> n, attempts |-> attempts[n] + 1] \in batch'[s]
          BY <1>4, <4>1
        <5> QED
          BY <5>1
      <4>2. ASSUME NEW row \in batch'[s], row.note = n PROVE n \in N
        BY <1>4, <4>2
      <4> QED
        BY <4>1, <4>2 DEF InBatch
    <3>2. ~InBatch(s, n) /\ ~Failing(s, n) /\ ~Failing(s, n)'
      BY <1>2 DEF InBatch, Failing
    <3> QED
      BY <1>2, <3>1, <3>2 DEF MaySend, InBatch, Holds
  <2>3. May(s, n) = 0 /\ May(s, n)' = (IF n \in N THEN 1 ELSE 0)
    BY <2>2 DEF May
  <2>4. CASE n \in N
    <3>1. ToClaim(n) = 1 /\ ToClaim(n)' = 0
      BY <1>1, <1>2, <1>3, <2>1, <2>2, <2>4 DEF ToClaim, Unheld
    <3> QED
      BY <1>2, <1>5, <2>1, <2>3, <2>4, <3>1, OneSenderMoves, EmailsAreCounted DEF Emails
  <2>5. CASE n \notin N
    <3>1. ToClaim(n)' = ToClaim(n)
      BY <1>1, <1>2, <1>5, <2>1, <2>2, <2>5, OneSenderMoves DEF ToClaim
    <3> QED
      BY <1>2, <1>5, <2>1, <2>3, <2>5, <3>1, OneSenderMoves, EmailsAreCounted DEF Emails
  <2> QED
    BY <2>4, <2>5
<1> QED
  BY <1>2, <1>5, <1>6, <1>7, <1>8, ExtrasStay

\* What a sender takes from its batch it holds on to.
LEMMA TakeKeeps ==
  ASSUME NInv, NEW s \in Sender, NEW row \in batch[s], NEW went \in {"sent", "failed"},
         Take(s, row, went), UNCHANGED <<rows, requeues>>,
         copies' \in [Notification -> Nat], mishaps' \in 0..MaxMishaps
  PROVE  /\ NoteShapes' /\ HeldOnce' /\ Moves(s)
         /\ row.note \in Notification
         /\ \A n \in Notification : /\ ToClaim(n)' = ToClaim(n)
                                    /\ n # row.note => May(s, n)' = May(s, n)
         /\ May(s, row.note) = 1
         /\ May(s, row.note)' = (IF went = "sent" THEN 0 ELSE 1)
         /\ \A e \in Sender : inHand'[e] # Nothing =>
              \/ e # s /\ inHand'[e] = inHand[e]
              \/ e = s /\ inHand'[e].row.note = row.note /\ inHand'[e].went = went
<1> USE DEF NInv
<1>1. /\ inHand[s] = Nothing /\ row \in Claimed /\ row.note \in Notification
      /\ batch' = [batch EXCEPT ![s] = @ \ {row}]
      /\ inHand' = [inHand EXCEPT ![s] = [row |-> row, went |-> went]]
  BY DEF Take, NoteShapes, Claimed
<1>2. [row |-> row, went |-> went] \in InHand
  BY <1>1 DEF InHand
<1>3. /\ batch'[s] = batch[s] \ {row} /\ inHand'[s] = [row |-> row, went |-> went]
      /\ \A e \in Sender \ {s} : batch'[e] = batch[e] /\ inHand'[e] = inHand[e]
  BY <1>1 DEF NoteShapes
<1>4. NoteShapes'
  <2>1. batch' \in [Sender -> SUBSET Claimed] /\ inHand' \in [Sender -> InHand \cup {Nothing}]
    BY <1>1, <1>2 DEF NoteShapes
  <2> QED
    BY <2>1 DEF NoteShapes, NoteTypeOK, rows
<1>5. HeldOnce'
  BY <1>3 DEF HeldOnce
<1>6. inHand'[s] # Nothing
  BY <1>2, <1>3, NothingAssumption
<1>7. Moves(s)
  BY <1>3 DEF Moves
<1>8. ASSUME NEW n \in Notification PROVE ToClaim(n)' = ToClaim(n)
  <2>1. Holds(s, n)' <=> Holds(s, n)
    BY <1>1, <1>3, <1>6 DEF Holds
  <2>2. Unheld(n)' <=> Unheld(n)
    BY <1>4, <1>7, <2>1, OneSenderMoves
  <2> QED
    BY <2>2 DEF ToClaim, rows
<1>9. ASSUME NEW n \in Notification, n # row.note PROVE May(s, n)' = May(s, n)
  <2>1. InBatch(s, n)' <=> InBatch(s, n)
    BY <1>3, <1>9 DEF InBatch
  <2>2. ~Failing(s, n) /\ ~Failing(s, n)'
    BY <1>1, <1>3, <1>9 DEF Failing
  <2> QED
    BY <2>1, <2>2 DEF May, MaySend
<1>10. May(s, row.note) = 1
  BY DEF May, MaySend, InBatch
<1>11. May(s, row.note)' = (IF went = "sent" THEN 0 ELSE 1)
  <2>1. ~InBatch(s, row.note)'
    BY <1>3 DEF InBatch, HeldOnce
  <2>2. Failing(s, row.note)' <=> went = "failed"
    BY <1>3, <1>6 DEF Failing
  <2> QED
    BY <2>1, <2>2 DEF May, MaySend
<1>12. \A e \in Sender : inHand'[e] # Nothing =>
         \/ e # s /\ inHand'[e] = inHand[e]
         \/ e = s /\ inHand'[e].row.note = row.note /\ inHand'[e].went = went
  BY <1>3
<1> QED
  BY <1>1, <1>4, <1>5, <1>7, <1>8, <1>9, <1>10, <1>11, <1>12

\* What has left has left, when no copy is taken back and no row reads SENT too early.
LEMMA WhatLeftHasLeft ==
  ASSUME NInv, copies' \in [Notification -> Nat],
         \A n \in Notification : copies'[n] >= copies[n],
         \A n \in Notification :
           status'[n] = "SENT" => status[n] = "SENT" \/ HasLeft(copies', n),
         \A e \in Sender : inHand'[e] # Nothing /\ inHand'[e].went = "sent" =>
           inHand'[e] = inHand[e] \/ HasLeft(copies', inHand'[e].row.note)
  PROVE  SentHaveLeft'
<1> USE DEF NInv
<1>1. \A n \in Notification : HasLeft(copies, n) => HasLeft(copies', n)
  BY DEF HasLeft, NoteShapes, NoteTypeOK
<1>2. \A n \in Notification : status'[n] = "SENT" => HasLeft(copies', n)
  BY <1>1 DEF SentHaveLeft
<1>3. ASSUME NEW e \in Sender, inHand'[e] # Nothing, inHand'[e].went = "sent"
      PROVE  HasLeft(copies', inHand'[e].row.note)
  <2>1. CASE inHand'[e] = inHand[e]
    <3>1. inHand[e].row.note \in Notification
      BY <1>3, <2>1 DEF NoteShapes, InHand, Claimed
    <3>2. HasLeft(copies, inHand[e].row.note)
      BY <1>3, <2>1 DEF SentHaveLeft
    <3> QED
      BY <1>1, <2>1, <3>1, <3>2
  <2> QED
    BY <1>3, <2>1
<1> QED
  BY <1>2, <1>3 DEF SentHaveLeft

LEMMA SendNoteKeeps ==
  ASSUME NInv, NEW s \in Sender, SendNote(s)
  PROVE  NInv'
<1> USE DEF NInv
<1>1. PICK row \in batch[s] :
        /\ Take(s, row, "sent")
        /\ copies' = IF row.note \in Wordless THEN copies
                     ELSE [copies EXCEPT ![row.note] = @ + 1]
        /\ UNCHANGED <<rows, mishaps, requeues>>
  BY DEF SendNote
<1>2. copies' \in [Notification -> Nat] /\ mishaps' \in 0..MaxMishaps
  <2>1. row.note \in Notification
    BY <1>1 DEF NoteShapes, Claimed
  <2>2. mishaps' \in 0..MaxMishaps /\ copies \in [Notification -> Nat]
    BY <1>1 DEF NoteShapes, NoteTypeOK
  <2>3. copies[row.note] + 1 \in Nat
    BY <2>1, <2>2
  <2> QED
    BY <1>1, <2>1, <2>2, <2>3
<1>3. /\ NoteShapes' /\ HeldOnce' /\ Moves(s)
      /\ row.note \in Notification
      /\ \A n \in Notification : /\ ToClaim(n)' = ToClaim(n)
                                 /\ n # row.note => May(s, n)' = May(s, n)
      /\ May(s, row.note) = 1 /\ May(s, row.note)' = 0
      /\ \A e \in Sender : inHand'[e] # Nothing =>
           \/ e # s /\ inHand'[e] = inHand[e]
           \/ e = s /\ inHand'[e].row.note = row.note
  BY <1>1, <1>2, TakeKeeps
<1>4. \A n \in Notification : copies'[n] = copies[n] + (IF n = row.note /\ n \notin Wordless
                                                       THEN 1 ELSE 0)
  BY <1>1, <1>3 DEF NoteShapes, NoteTypeOK
<1>5. \A n \in Notification : copies[n] \in Nat
  BY DEF NoteShapes, NoteTypeOK
<1>6. SentHaveLeft'
  <2>1. HasLeft(copies', row.note)
    BY <1>3, <1>4, <1>5 DEF HasLeft
  <2>2. \A n \in Notification : copies'[n] >= copies[n]
    BY <1>4, <1>5
  <2> QED
    BY <1>1, <1>2, <1>3, <2>1, <2>2, WhatLeftHasLeft DEF rows
<1>7. ASSUME NEW n \in Notification PROVE Emails(n)' <= Emails(n)
  <2>1. copies'[n] <= copies[n] + (May(s, n) - May(s, n)')
    BY <1>3, <1>4, <1>5, OneSenderMoves
  <2> QED
    BY <1>2, <1>3, <1>5, <2>1, OneSenderMoves, EmailsAreCounted DEF Emails
<1> QED
  BY <1>1, <1>3, <1>6, <1>7, ExtrasStay

\* A sender's failure to send may be an email that left all the same.
LEMMA SendingFailsKeeps ==
  ASSUME NInv, NEW s \in Sender, SendingFails(s)
  PROVE  NInv'
<1> USE DEF NInv
<1>1. PICK row \in batch[s] :
        /\ Take(s, row, "failed")
        /\ \/ UNCHANGED <<copies, mishaps>>
           \/ /\ mishaps < MaxMishaps
              /\ mishaps' = mishaps + 1
              /\ copies' = [copies EXCEPT ![row.note] = @ + 1]
        /\ UNCHANGED <<rows, requeues>>
  BY DEF SendingFails
<1>2. copies' \in [Notification -> Nat] /\ mishaps' \in 0..MaxMishaps
  <2>1. row.note \in Notification
    BY <1>1 DEF NoteShapes, Claimed
  <2>2. /\ copies \in [Notification -> Nat] /\ mishaps \in 0..MaxMishaps /\ MaxMishaps \in Nat
    BY NotificationAssumption DEF NoteShapes, NoteTypeOK
  <2>3. copies[row.note] + 1 \in Nat
    BY <2>1, <2>2
  <2> QED
    BY <1>1, <2>1, <2>2, <2>3
<1>3. /\ NoteShapes' /\ HeldOnce' /\ Moves(s)
      /\ row.note \in Notification
      /\ \A n \in Notification : /\ ToClaim(n)' = ToClaim(n)
                                 /\ n # row.note => May(s, n)' = May(s, n)
      /\ May(s, row.note) = 1 /\ May(s, row.note)' = 1
      /\ \A e \in Sender : inHand'[e] # Nothing =>
           \/ e # s /\ inHand'[e] = inHand[e]
           \/ e = s /\ inHand'[e].row.note = row.note /\ inHand'[e].went = "failed"
  BY <1>1, <1>2, TakeKeeps
<1>4. \A n \in Notification : /\ copies[n] \in Nat
                              /\ n # row.note => copies'[n] = copies[n]
                              /\ copies'[n] = copies[n] \/ copies'[n] = copies[n] + 1
  BY <1>1, <1>3 DEF NoteShapes, NoteTypeOK
<1>5. SentHaveLeft'
  <2>1. \A n \in Notification : copies'[n] >= copies[n]
    BY <1>4
  <2> QED
    BY <1>1, <1>2, <1>3, <2>1, WhatLeftHasLeft DEF rows
<1>6. ASSUME NEW n \in Notification
      PROVE  Emails(n)' = Emails(n) + (copies'[n] - copies[n])
  BY <1>2, <1>3, <1>4, OneSenderMoves, EmailsAreCounted DEF Emails
<1>7. CASE UNCHANGED <<copies, mishaps>>
  <2>1. \A n \in Notification : Emails(n)' <= Emails(n)
    <3> TAKE n \in Notification
    <3>1. copies'[n] - copies[n] = 0
      BY <1>4, <1>7
    <3> QED
      BY <1>6, <3>1, EmailsAreCounted
  <2> QED
    BY <1>3, <1>5, <1>7, <2>1, ExtrasStay
<1>8. CASE mishaps' = mishaps + 1
  <2>1. Emails(row.note)' <= Emails(row.note) + 1
    <3>1. copies'[row.note] - copies[row.note] <= 1 /\ copies'[row.note] - copies[row.note] \in Int
      BY <1>3, <1>4
    <3> QED
      BY <1>3, <1>6, <3>1, EmailsAreCounted
  <2>2. \A n \in Notification \ {row.note} : Emails(n)' <= Emails(n)
    <3> TAKE n \in Notification \ {row.note}
    <3>1. copies'[n] - copies[n] = 0
      BY <1>4
    <3> QED
      BY <1>6, <3>1, EmailsAreCounted
  <2> QED
    BY <1>3, <1>5, <1>8, <2>1, <2>2, OneExtra
<1> QED
  BY <1>1, <1>7, <1>8

\* What a step that only changes what a sender has in hand, and columns, leaves as it was.
PutsDown(s, m, h) ==
  /\ inHand[s] # Nothing /\ m = inHand[s].row.note
  /\ inHand' = [inHand EXCEPT ![s] = h] /\ (h # Nothing => h.row = inHand[s].row)
  /\ UNCHANGED <<attempts, batch, copies, requeues>>
  /\ status' \in [Notification -> {"PENDING", "SENT", "FAILED"}]
  /\ waiting' \subseteq Notification /\ mishaps' \in 0..MaxMishaps

OnlyPutsDown(s, m, h) ==
  /\ NoteShapes' /\ HeldOnce' /\ Moves(s) /\ m \in Notification
  /\ inHand'[s] = h /\ \A e \in Sender \ {s} : inHand'[e] = inHand[e]
  /\ \A n \in Notification \ {m} : May(s, n)' = May(s, n) /\ (Unheld(n)' <=> Unheld(n))
  /\ May(s, m) = (IF inHand[s].went = "failed" THEN 1 ELSE 0)
  /\ May(s, m)' = (IF h # Nothing /\ h.went = "failed" THEN 1 ELSE 0)

LEMMA PuttingDown ==
  ASSUME NInv, NEW s \in Sender, NEW h \in InHand \cup {Nothing}, NEW m, PutsDown(s, m, h)
  PROVE  OnlyPutsDown(s, m, h)
<1> USE DEF NInv, PutsDown
<1>1. /\ inHand'[s] = h /\ \A e \in Sender \ {s} : inHand'[e] = inHand[e]
      /\ batch' = batch /\ inHand[s].row.note \in Notification
  BY DEF NoteShapes, InHand, Claimed
<1>2. NoteShapes'
  <2>1. batch' \in [Sender -> SUBSET Claimed] /\ inHand' \in [Sender -> InHand \cup {Nothing}]
    BY DEF NoteShapes
  <2> QED
    BY <2>1 DEF NoteShapes, NoteTypeOK
<1>3. HeldOnce'
  BY <1>1 DEF HeldOnce
<1>4. Moves(s)
  BY <1>1 DEF Moves
<1>5. ASSUME NEW n \in Notification \ {m}
      PROVE  May(s, n)' = May(s, n) /\ (Unheld(n)' <=> Unheld(n))
  <2>1. InBatch(s, n)' <=> InBatch(s, n)
    BY <1>1 DEF InBatch
  <2>2. ~Failing(s, n) /\ ~Failing(s, n)'
    BY <1>1, <1>5 DEF Failing
  <2>3. Holds(s, n)' <=> Holds(s, n)
    BY <1>1, <1>5 DEF Holds
  <2> QED
    BY <1>2, <1>4, <2>1, <2>2, <2>3, OneSenderMoves DEF May, MaySend
<1>6. m \in Notification
  BY <1>1
<1>7. /\ May(s, m) = (IF inHand[s].went = "failed" THEN 1 ELSE 0)
      /\ May(s, m)' = (IF h # Nothing /\ h.went = "failed" THEN 1 ELSE 0)
  <2>1. ~InBatch(s, m) /\ ~InBatch(s, m)'
    BY <1>1, <1>6 DEF InBatch, HeldOnce
  <2>2. Failing(s, m) <=> inHand[s].went = "failed"
    BY <1>6 DEF Failing
  <2>3. Failing(s, m)' <=> h # Nothing /\ h.went = "failed"
    BY <1>1, <1>6 DEF Failing
  <2> QED
    BY <2>1, <2>2, <2>3 DEF May, MaySend
<1> QED
  BY <1>1, <1>2, <1>3, <1>4, <1>5, <1>6, <1>7 DEF OnlyPutsDown

LEMMA MarkSentKeeps ==
  ASSUME NInv, NEW s \in Sender, MarkSent(s)
  PROVE  NInv'
<1> USE DEF NInv
<1>1. PICK m : m = inHand[s].row.note
  OBVIOUS
<1>2. /\ inHand[s] # Nothing /\ inHand[s].went = "sent"
      /\ status' = [status EXCEPT ![m] = "SENT"]
      /\ inHand' = [inHand EXCEPT ![s] = Nothing]
      /\ UNCHANGED <<attempts, waiting, batch, copies, mishaps, requeues>>
  BY <1>1 DEF MarkSent, PutDown
<1>3. /\ status' \in [Notification -> {"PENDING", "SENT", "FAILED"}]
      /\ waiting' \subseteq Notification /\ mishaps' \in 0..MaxMishaps
  BY <1>2 DEF NoteShapes, NoteTypeOK
<1>4. /\ NoteShapes' /\ HeldOnce' /\ Moves(s) /\ m \in Notification
      /\ inHand'[s] = Nothing /\ \A e \in Sender \ {s} : inHand'[e] = inHand[e]
      /\ \A n \in Notification \ {m} : May(s, n)' = May(s, n) /\ (Unheld(n)' <=> Unheld(n))
      /\ May(s, m) = 0 /\ May(s, m)' = 0
  <2>1. PutsDown(s, m, Nothing)
    BY <1>1, <1>2, <1>3 DEF PutsDown
  <2>2. OnlyPutsDown(s, m, Nothing)
    BY <2>1, PuttingDown
  <2> QED
    BY <1>2, <2>2 DEF OnlyPutsDown
<1>5. /\ \A n \in Notification \ {m} : status'[n] = status[n] /\ ToClaim(n)' = ToClaim(n)
      /\ status'[m] = "SENT" /\ ToClaim(m)' = 0
      /\ \A n \in Notification : copies'[n] = copies[n] /\ copies[n] \in Nat
  BY <1>2, <1>4 DEF ToClaim, NoteShapes, NoteTypeOK
<1>6. SentHaveLeft'
  <2>1. HasLeft(copies', m)
    BY <1>1, <1>2 DEF SentHaveLeft
  <2>2. copies' \in [Notification -> Nat]
    BY <1>2 DEF NoteShapes, NoteTypeOK
  <2> QED
    BY <1>4, <1>5, <2>1, <2>2, WhatLeftHasLeft
<1>7. ASSUME NEW n \in Notification PROVE Emails(n)' <= Emails(n)
  <2>1. ToClaim(n)' <= ToClaim(n) /\ May(s, n)' = May(s, n)
    BY <1>4, <1>5, EmailsAreCounted
  <2> QED
    BY <1>4, <1>5, <2>1, OneSenderMoves, EmailsAreCounted DEF Emails
<1> QED
  BY <1>2, <1>4, <1>6, <1>7, ExtrasStay

LEMMA MarkSentFailsKeeps ==
  ASSUME NInv, NEW s \in Sender, MarkSentFails(s)
  PROVE  NInv'
<1> USE DEF NInv
<1>1. PICK m : m = inHand[s].row.note
  OBVIOUS
<1>2. PICK h : h = [inHand[s] EXCEPT !.went = "failed"]
  OBVIOUS
<1>3. /\ inHand[s] # Nothing /\ inHand[s].went = "sent"
      /\ inHand' = [inHand EXCEPT ![s] = h]
      /\ mishaps < MaxMishaps /\ mishaps' = mishaps + 1
      /\ UNCHANGED <<rows, batch, copies, requeues>>
  BY <1>2 DEF MarkSentFails
<1>4. h \in InHand /\ h.row = inHand[s].row /\ h.went = "failed" /\ h # Nothing
  BY <1>2, <1>3, NothingAssumption DEF NoteShapes, InHand
<1>5. /\ status' \in [Notification -> {"PENDING", "SENT", "FAILED"}]
      /\ waiting' \subseteq Notification /\ mishaps' \in 0..MaxMishaps
  BY <1>3, NotificationAssumption DEF NoteShapes, NoteTypeOK, rows
<1>6. /\ NoteShapes' /\ HeldOnce' /\ Moves(s) /\ m \in Notification
      /\ inHand'[s] = h /\ \A e \in Sender \ {s} : inHand'[e] = inHand[e]
      /\ \A n \in Notification \ {m} : May(s, n)' = May(s, n) /\ (Unheld(n)' <=> Unheld(n))
      /\ May(s, m) = 0 /\ May(s, m)' = 1
  <2>1. PutsDown(s, m, h)
    BY <1>1, <1>3, <1>4, <1>5 DEF PutsDown, rows
  <2>2. OnlyPutsDown(s, m, h)
    BY <1>4, <2>1, PuttingDown
  <2> QED
    BY <1>3, <1>4, <2>2 DEF OnlyPutsDown
<1>7. Holds(s, m) /\ Holds(s, m)'
  BY <1>1, <1>3, <1>4, <1>6 DEF Holds
<1>8. \A n \in Notification : /\ ToClaim(n)' = ToClaim(n)
                              /\ copies'[n] = copies[n] /\ copies[n] \in Nat
  <2>1. ~Unheld(m) /\ ~Unheld(m)'
    BY <1>7 DEF Unheld
  <2> QED
    BY <1>3, <1>6, <2>1 DEF ToClaim, rows, NoteShapes, NoteTypeOK
<1>9. SentHaveLeft'
  <2>1. copies' \in [Notification -> Nat]
    BY <1>3 DEF NoteShapes, NoteTypeOK
  <2> QED
    BY <1>3, <1>4, <1>6, <1>8, <2>1, WhatLeftHasLeft DEF rows
<1>10. Emails(m)' <= Emails(m) + 1
  BY <1>6, <1>8, OneSenderMoves, EmailsAreCounted DEF Emails
<1>11. \A n \in Notification \ {m} : Emails(n)' <= Emails(n)
  BY <1>6, <1>8, OneSenderMoves, EmailsAreCounted DEF Emails
<1> QED
  BY <1>3, <1>6, <1>9, <1>10, <1>11, OneExtra

LEMMA MarkFailedKeeps ==
  ASSUME NInv, NEW s \in Sender, MarkFailed(s)
  PROVE  NInv'
<1> USE DEF NInv
<1>1. PICK m : m = inHand[s].row.note
  OBVIOUS
<1>2. /\ inHand[s] # Nothing /\ inHand[s].went = "failed"
      /\ \/ status' = [status EXCEPT ![m] = "FAILED"] /\ UNCHANGED waiting
         \/ waiting' = waiting \cup {m} /\ UNCHANGED status
      /\ inHand' = [inHand EXCEPT ![s] = Nothing]
      /\ UNCHANGED <<attempts, batch, copies, mishaps, requeues>>
  BY <1>1 DEF MarkFailed, PutDown
<1>3. m \in Notification
  BY <1>1, <1>2 DEF NoteShapes, InHand, Claimed
<1>4. /\ status' \in [Notification -> {"PENDING", "SENT", "FAILED"}]
      /\ waiting' \subseteq Notification /\ mishaps' \in 0..MaxMishaps
  BY <1>2, <1>3 DEF NoteShapes, NoteTypeOK
<1>5. /\ NoteShapes' /\ HeldOnce' /\ Moves(s)
      /\ inHand'[s] = Nothing /\ \A e \in Sender \ {s} : inHand'[e] = inHand[e]
      /\ \A n \in Notification \ {m} : May(s, n)' = May(s, n) /\ (Unheld(n)' <=> Unheld(n))
      /\ May(s, m) = 1 /\ May(s, m)' = 0
  <2>1. PutsDown(s, m, Nothing)
    BY <1>1, <1>2, <1>4 DEF PutsDown
  <2>2. OnlyPutsDown(s, m, Nothing)
    BY <2>1, PuttingDown
  <2> QED
    BY <1>2, <2>2 DEF OnlyPutsDown
<1>6. /\ \A n \in Notification : status'[n] = "SENT" => status[n] = "SENT"
      /\ \A n \in Notification \ {m} : ToClaim(n)' = ToClaim(n)
      /\ \A n \in Notification : copies'[n] = copies[n] /\ copies[n] \in Nat
  <2>1. \A n \in Notification \ {m} : status'[n] = status[n] /\ (n \in waiting' <=> n \in waiting)
    BY <1>2 DEF NoteShapes, NoteTypeOK
  <2>2. \A n \in Notification \ {m} : ToClaim(n)' = ToClaim(n)
    BY <1>5, <2>1 DEF ToClaim
  <2>3. \A n \in Notification : status'[n] = "SENT" => status[n] = "SENT"
    BY <1>2, <1>3 DEF NoteShapes, NoteTypeOK
  <2> QED
    BY <1>2, <2>2, <2>3 DEF NoteShapes, NoteTypeOK
<1>7. SentHaveLeft'
  <2>1. copies' \in [Notification -> Nat]
    BY <1>2 DEF NoteShapes, NoteTypeOK
  <2> QED
    BY <1>5, <1>6, <2>1, WhatLeftHasLeft
<1>8. ASSUME NEW n \in Notification PROVE Emails(n)' <= Emails(n)
  <2>1. ToClaim(n)' + May(s, n)' <= ToClaim(n) + May(s, n)
    BY <1>5, <1>6, EmailsAreCounted, OneSenderMoves DEF ToClaim
  <2> QED
    BY <1>5, <1>6, <2>1, OneSenderMoves, EmailsAreCounted DEF Emails, ToClaim
<1> QED
  BY <1>2, <1>5, <1>7, <1>8, ExtrasStay

LEMMA SenderDiesKeeps ==
  ASSUME NInv, NEW s \in Sender, SenderDies(s)
  PROVE  NInv'
<1> USE DEF NInv
<1>1. /\ Busy(s) /\ mishaps < MaxMishaps /\ mishaps' = mishaps + 1
      /\ batch' = [batch EXCEPT ![s] = {}] /\ inHand' = [inHand EXCEPT ![s] = Nothing]
      /\ UNCHANGED <<rows, copies, requeues>>
  BY DEF SenderDies, PutDown
<1>2. /\ batch'[s] = {} /\ inHand'[s] = Nothing
      /\ \A e \in Sender \ {s} : batch'[e] = batch[e] /\ inHand'[e] = inHand[e]
  BY <1>1 DEF NoteShapes
<1>3. NoteShapes'
  <2>1. batch' \in [Sender -> SUBSET Claimed] /\ inHand' \in [Sender -> InHand \cup {Nothing}]
    BY <1>1 DEF NoteShapes
  <2>2. mishaps' \in 0..MaxMishaps
    BY <1>1, NotificationAssumption DEF NoteShapes, NoteTypeOK
  <2> QED
    BY <1>1, <2>1, <2>2 DEF NoteShapes, NoteTypeOK, rows
<1>4. HeldOnce' /\ Moves(s)
  BY <1>2 DEF HeldOnce, Moves
<1>5. SentHaveLeft'
  <2>1. copies' \in [Notification -> Nat] /\ \A n \in Notification : copies'[n] >= copies[n]
    BY <1>1 DEF NoteShapes, NoteTypeOK
  <2> QED
    BY <1>1, <1>2, <2>1, WhatLeftHasLeft DEF rows
<1>6. ASSUME NEW n \in Notification
      PROVE  /\ Emails(n)' <= Emails(n) + 1
             /\ ~(inHand[s] # Nothing /\ inHand[s].went = "sent" /\ inHand[s].row.note = n)
                => Emails(n)' <= Emails(n)
  <2>1. /\ Emails(n)' = copies'[n] + Cardinality(MaySend(n)) - May(s, n) + May(s, n)' + ToClaim(n)'
        /\ May(s, n) \in {0, 1} /\ May(s, n)' \in {0, 1}
        /\ (Unheld(n) <=> ~Holds(s, n) /\ \A e \in Sender \ {s} : ~Holds(e, n))
        /\ (Unheld(n)' <=> ~Holds(s, n)' /\ \A e \in Sender \ {s} : ~Holds(e, n))
    BY <1>3, <1>4, OneSenderMoves
  <2>2. May(s, n)' = 0
    BY <1>2 DEF May, MaySend, InBatch, Failing
  <2>3. copies'[n] = copies[n] /\ copies[n] \in Nat /\ ToClaim(n) \in {0, 1} /\ ToClaim(n)' \in {0, 1}
        /\ Cardinality(MaySend(n)) \in Nat
    BY <1>1, EmailsAreCounted DEF ToClaim
  <2>4. ASSUME ~(inHand[s] # Nothing /\ inHand[s].went = "sent" /\ inHand[s].row.note = n)
        PROVE  ToClaim(n)' <= ToClaim(n) + May(s, n)
    <3>1. CASE Holds(s, n)
      <4>1. InBatch(s, n) \/ Failing(s, n)
        BY <2>4, <3>1 DEF Holds, InBatch, Failing, NoteShapes, InHand
      <4>2. May(s, n) = 1
        BY <4>1 DEF May, MaySend
      <4> QED
        BY <2>3, <4>2
    <3>2. CASE ~Holds(s, n)
      <4>1. ~Holds(s, n)'
        BY <1>2 DEF Holds
      <4>2. ToClaim(n)' = ToClaim(n)
        BY <1>1, <2>1, <3>2, <4>1 DEF ToClaim, rows
      <4> QED
        BY <2>1, <2>3, <4>2
    <3> QED
      BY <3>1, <3>2
  <2>5. Emails(n) = copies[n] + Cardinality(MaySend(n)) + ToClaim(n)
    BY DEF Emails
  <2> HIDE DEF NInv
  <2>6. Emails(n)' <= Emails(n) + 1
    BY <2>1, <2>2, <2>3, <2>5
  <2>7. ToClaim(n)' <= ToClaim(n) + May(s, n) => Emails(n)' <= Emails(n)
    BY <2>1, <2>2, <2>3, <2>5
  <2> QED
    BY <2>4, <2>6, <2>7
<1>7. CASE inHand[s] # Nothing /\ inHand[s].went = "sent"
  <2>1. PICK m \in Notification : m = inHand[s].row.note
    BY <1>7 DEF NoteShapes, InHand, Claimed
  <2>2. \A n \in Notification \ {m} : Emails(n)' <= Emails(n)
    BY <1>6, <2>1
  <2> QED
    BY <1>1, <1>3, <1>4, <1>5, <1>6, <2>2, OneExtra
<1>8. CASE ~(inHand[s] # Nothing /\ inHand[s].went = "sent")
  <2>1. \A n \in Notification : Emails(n)' <= Emails(n)
    BY <1>6, <1>8
  <2>2. PICK r : r \in batch[s] \/ (inHand[s] # Nothing /\ r = inHand[s].row)
    BY <1>1 DEF Busy
  <2>3. r.note \in Notification
    BY <2>2 DEF NoteShapes, InHand, Claimed
  <2>4. Emails(r.note)' <= Emails(r.note) + 1
    BY <1>6, <2>3
  <2> QED
    BY <1>1, <1>3, <1>4, <1>5, <2>1, <2>3, <2>4, OneExtra
<1> QED
  BY <1>7, <1>8

\* Time and staff move no row out of a sender's hands.
LEMMA SendersRest ==
  ASSUME NInv, UNCHANGED <<batch, inHand, copies>>,
         NoteTypeOK', NEW n \in Notification,
         \A m \in Notification : status'[m] = "SENT" => status[m] = "SENT"
  PROVE  /\ NoteShapes' /\ HeldOnce' /\ SentHaveLeft'
         /\ Emails(n)' = Emails(n) - ToClaim(n) + ToClaim(n)'
         /\ (Unheld(n)' <=> Unheld(n))
         /\ ToClaim(n) \in {0, 1} /\ ToClaim(n)' \in {0, 1} /\ Emails(n) \in Nat
<1> USE DEF NInv
<1>1. NoteShapes' /\ HeldOnce'
  BY DEF NoteShapes, HeldOnce
<1>2. SentHaveLeft'
  BY DEF SentHaveLeft
<1>3. MaySend(n)' = MaySend(n) /\ (Unheld(n)' <=> Unheld(n))
  BY DEF MaySend, InBatch, Failing, Unheld, Holds
<1>4. Emails(n)' = copies[n] + Cardinality(MaySend(n)) + ToClaim(n)'
  BY <1>3 DEF Emails
<1>5. /\ Cardinality(MaySend(n)) \in Nat /\ ToClaim(n) \in {0, 1} /\ ToClaim(n)' \in {0, 1}
      /\ copies[n] \in Nat /\ Emails(n) \in Nat
  BY EmailsAreCounted DEF ToClaim
<1>6. Emails(n)' = Emails(n) - ToClaim(n) + ToClaim(n)'
  BY <1>4, <1>5 DEF Emails
<1> QED
  BY <1>1, <1>2, <1>3, <1>5, <1>6

LEMMA WaitingEndsKeeps ==
  ASSUME NInv, NEW m \in Notification, WaitEnds(m) \/ LeaseOverruns(m)
  PROVE  NInv'
<1> USE DEF NInv
<1>1. /\ waiting' = waiting \ {m}
      /\ UNCHANGED <<status, attempts, batch, inHand, copies, requeues>>
  BY DEF WaitEnds, LeaseOverruns
<1>2. NoteTypeOK'
  BY <1>1, NotificationAssumption DEF WaitEnds, LeaseOverruns, NoteShapes, NoteTypeOK
<1>3. NoteShapes' /\ HeldOnce' /\ SentHaveLeft'
  BY <1>1, <1>2, SendersRest
<1>4. \A n \in Notification \ {m} : Emails(n)' <= Emails(n)
  <2> TAKE n \in Notification \ {m}
  <2>1. ToClaim(n)' = ToClaim(n)
    BY <1>1, <1>2, SendersRest DEF ToClaim
  <2> QED
    BY <1>1, <1>2, <2>1, SendersRest
<1>5. CASE WaitEnds(m)
  <2>1. mishaps' = mishaps /\ Unheld(m)
    BY <1>5 DEF WaitEnds, Unheld
  <2>2. ToClaim(m)' <= ToClaim(m)
    BY <1>1, <2>1 DEF ToClaim
  <2>3. Emails(m)' <= Emails(m)
    BY <1>1, <1>2, <2>2, SendersRest
  <2> QED
    BY <1>3, <1>4, <2>1, <2>3, ExtrasStay
<1>6. CASE LeaseOverruns(m)
  <2>1. mishaps' = mishaps + 1
    BY <1>6 DEF LeaseOverruns
  <2>2. Emails(m)' <= Emails(m) + 1
    BY <1>1, <1>2, SendersRest
  <2> QED
    BY <1>3, <1>4, <2>1, <2>2, OneExtra
<1> QED
  BY <1>5, <1>6

LEMMA RetryFailedEmailsKeeps ==
  ASSUME NInv, RetryFailedEmails
  PROVE  NInv'
<1> USE DEF NInv
<1> DEFINE failed == {n \in Notification : status[n] = "FAILED"}
<1>1. /\ requeues < MaxRequeues /\ requeues' = requeues + 1
      /\ status' = [n \in Notification |-> IF n \in failed THEN "PENDING" ELSE status[n]]
      /\ attempts' = [n \in Notification |-> IF n \in failed THEN 0 ELSE attempts[n]]
      /\ waiting' = waiting \ failed
      /\ UNCHANGED <<batch, inHand, copies, mishaps>>
  BY DEF RetryFailedEmails
<1>2. NoteTypeOK'
  <2>1. requeues' \in 0..MaxRequeues
    BY <1>1, NotificationAssumption DEF NoteShapes, NoteTypeOK
  <2> QED
    BY <1>1, <2>1 DEF NoteShapes, NoteTypeOK
<1>3. \A n \in Notification : status'[n] = "SENT" => status[n] = "SENT"
  BY <1>1
<1>4. ASSUME NEW n \in Notification PROVE Emails(n)' <= Emails(n)
  <2>1. CASE n \in failed
    <3>1. ToClaim(n) = 1
      BY <2>1 DEF ToClaim
    <3> QED
      BY <1>1, <1>2, <1>3, <3>1, SendersRest
  <2>2. CASE n \notin failed
    <3>1. status'[n] = status[n] /\ (n \in waiting' <=> n \in waiting)
      BY <1>1, <2>2
    <3>2. ToClaim(n)' = ToClaim(n)
      BY <1>1, <1>2, <1>3, <3>1, SendersRest DEF ToClaim
    <3> QED
      BY <1>1, <1>2, <1>3, <3>2, SendersRest
  <2> QED
    BY <2>1, <2>2
<1>5. NoteShapes' /\ HeldOnce' /\ SentHaveLeft'
  <2>1. PICK n : n \in failed
    BY DEF RetryFailedEmails
  <2> QED
    BY <1>1, <1>2, <1>3, <2>1, SendersRest
<1> QED
  BY <1>1, <1>4, <1>5, ExtrasStay

\* No step of a sender breaks it.
LEMMA NoteStepKeeps == NInv /\ [NoteNext]_noteVars => NInv'
<1> SUFFICES ASSUME NInv, [NoteNext]_noteVars PROVE NInv'
  OBVIOUS
<1>1. CASE UNCHANGED noteVars
  <2>1. UNCHANGED <<status, attempts, waiting, batch, inHand, copies, mishaps, requeues>>
    BY <1>1 DEF noteVars, rows
  <2>2. NoteShapes' /\ HeldOnce' /\ SentHaveLeft'
    BY <2>1 DEF NInv, NoteShapes, NoteTypeOK, HeldOnce, SentHaveLeft
  <2>3. \A n \in Notification : Emails(n)' = Emails(n)
    BY <2>1 DEF Emails, ToClaim, MaySend, InBatch, Failing, Unheld, Holds
  <2>4. Extra' = Extra
    BY <2>3 DEF Extra
  <2> QED
    BY <2>1, <2>2, <2>4 DEF NInv, ExtrasAreMishaps
<1>2. ASSUME NEW s \in Sender, SenderWorks(s) \/ SenderDies(s) PROVE NInv'
  BY <1>2, ClaimNotesKeeps, SendNoteKeeps, SendingFailsKeeps, MarkSentKeeps,
     MarkSentFailsKeeps, MarkFailedKeeps, SenderDiesKeeps DEF SenderWorks
<1> QED
  BY <1>1, <1>2, WaitingEndsKeeps, RetryFailedEmailsKeeps DEF NoteNext

\* No notification has more emails too many than there were mishaps.
LEMMA NInvBoundsRepeats == NInv => RepeatsAreMishaps
<1> SUFFICES ASSUME NInv PROVE RepeatsAreMishaps
  OBVIOUS
<1> DEFINE f == Extra
<1>1. \A n \in Notification : /\ f[n] \in Nat /\ f[n] \in Int /\ copies[n] \in Nat
                              /\ copies[n] <= 1 + f[n]
  BY EmailsAreCounted DEF Extra, Emails, NInv
<1>2. SumFunctionOnSet(f, Notification) <= mishaps /\ mishaps \in Nat
  BY DEF NInv, ExtrasAreMishaps, NoteShapes, NoteTypeOK
<1> HIDE DEF f
<1>3. SumFunctionOnSet(f, Notification) \in Nat
  BY <1>1, SumIsNat, NotificationAssumption
<1>4. ASSUME NEW n \in Notification PROVE f[n] <= SumFunctionOnSet(f, Notification)
  <2>1. SumFunctionOnSet(f, Notification) = f[n] + SumFunctionOnSet(f, Notification \ {n})
    BY <1>1, SumWithout, NotificationAssumption
  <2>2. SumFunctionOnSet(f, Notification \ {n}) \in Nat
    BY <1>1, SumIsNat, FS_Subset, NotificationAssumption
  <2> QED
    BY <1>1, <2>1, <2>2
<1>5. \A n \in Notification : copies[n] <= 1 + mishaps
  BY <1>1, <1>2, <1>3, <1>4
<1>6. Cardinality(Repeats) <= mishaps
  <2>1. IsFiniteSet(Repeats) /\ Repeats \subseteq Notification
    BY FS_Subset, NotificationAssumption DEF Repeats
  <2>2. \A n \in Repeats : f[n] \in Nat \ {0}
    BY <1>1 DEF Repeats
  <2>3. Cardinality(Repeats) <= SumFunctionOnSet(f, Repeats) /\ Cardinality(Repeats) \in Nat
    BY <2>1, <2>2, SumOfPositive
  <2>4. SumFunctionOnSet(f, Repeats) <= SumFunctionOnSet(f, Notification)
    BY <1>1, <2>1, SumOfLess, NotificationAssumption
  <2>5. SumFunctionOnSet(f, Repeats) \in Int
    BY <1>1, <2>1, SumIsInt
  <2> QED
    BY <1>2, <1>3, <2>3, <2>4, <2>5
<1>7. \A n \in Notification : status[n] = "SENT" => copies[n] > 0 \/ n \in Wordless
  BY DEF NInv, SentHaveLeft, HasLeft
<1> QED
  BY <1>5, <1>6, <1>7 DEF RepeatsAreMishaps

-----------------------------------------------------------------------------
(* The worker: a step of it is one of the scheduler or one of the senders. *)

\* The worker starts where both do.
LEMMA StartOfBoth == Init => JobInit /\ NoteInit
BY DEF Init

\* A step of the worker is one of the scheduler, of the senders, or of neither.
LEMMA StepOfOne ==
  [Next]_<<part, jobVars, noteVars>> => [JobNext]_jobVars /\ [NoteNext]_noteVars
BY DEF Next

-----------------------------------------------------------------------------
(* Theorems.                                                               *)

\* The inductive invariant: a worker that comes back finds its own run not yet
\* succeeded, and the row's holder made the newest run, for the row's slot and attempt.
THEOREM JobInvariance == JobSpec => []JInv
BY JobInitEstablishes, JobStepPreserves, PTL DEF JobSpec

\* The job's row, its runs and the workers keep their types.
THEOREM JobTypeCorrectness == JobSpec => []JobTypeOK
BY JobInvariance, PTL DEF JInv

\* "One run per job at a time" (scheduler.ts): a run that reads RUNNING is the newest
\* and the one the row's lease was taken for, whatever dies or is overtaken.
THEOREM OneRunAtATime == JobSpec => []RunningIsTheLease
BY JobInvariance, PTL DEF JInv

\* The scheduler implements JobSlot: a slot is left behind only when a run of it
\* succeeded or its attempts are used up, also when an overtaken worker finishes late.
THEOREM Refinement == JobSpec => SlotsAreKept
<1>1. JobInit => Promise!SlotInit
  BY DEF JobInit, Promise!SlotInit
<1>2. JInv /\ [JobNext]_jobVars => [Promise!SlotNext]_(Promise!promised)
  BY JobStepRefines
<1>. QED
  BY <1>1, <1>2, JobInvariance, PTL DEF JobSpec, SlotsAreKept, Promise!SlotPromise

\* The inductive invariant: a sender holds a notification once, what reads SENT has left,
\* and every email too many, sent or still to be sent, is paid for by a mishap.
THEOREM NoteInvariance == NoteSpec => []NInv
BY NoteInitEstablishes, NoteStepKeeps, PTL DEF NoteSpec

\* Rows, senders and what they hold keep their types.
THEOREM NoteTypeCorrectness == NoteSpec => []NoteTypeOK
<1>1. NInv => NoteTypeOK
  BY DEF NInv, NoteShapes
<1> QED
  BY <1>1, NoteInvariance, PTL

\* There are no more repeats than mishaps (an email that left although sending failed, a
\* row that was not marked, a sender that died, a lease that ran out too early), for any
\* number of notifications and senders; a retry by hand repeats nothing by itself.
THEOREM RepeatsNeedMishaps == NoteSpec => []RepeatsAreMishaps
BY NInvBoundsRepeats, NoteInvariance, PTL

\* The worker behaves as the scheduler does and as the senders do.
THEOREM WorkerIsBoth == Spec => JobSpec /\ NoteSpec
BY StartOfBoth, StepOfOne, PTL DEF Spec, JobSpec, NoteSpec

\* The worker's rows and processes keep their types.
THEOREM TypeCorrectness == Spec => []TypeOK
BY WorkerIsBoth, JobTypeCorrectness, NoteTypeCorrectness, PTL DEF TypeOK

=============================================================================
