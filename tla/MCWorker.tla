------------------------------ MODULE MCWorker ------------------------------
(***************************************************************************)
(* The worker's scheduler and the emails it sends, for TLC.  They share no *)
(* state, so a behaviour is one of the scheduler or one of the senders.    *)
(***************************************************************************)
EXTENDS JobScheduler, Notifications

VARIABLE part  \* which of the two moves

Init == part \in {"scheduler", "senders"} /\ JobInit /\ NoteInit

Next ==
  \/ part = "scheduler" /\ JobNext /\ UNCHANGED <<part, noteVars>>
  \/ part = "senders" /\ NoteNext /\ UNCHANGED <<part, jobVars>>

Fairness ==
  /\ part = "scheduler" => JobFairness
  /\ part = "senders" => NoteFairness

Spec == Init /\ [][Next]_<<part, jobVars, noteVars>> /\ Fairness

\* A type invariant: every column and every process keeps its type.
TypeOK == JobTypeOK /\ NoteTypeOK

\* Every notification is sent or given up in the end, whatever fails on the way.
EmailsSettle == part = "senders" => NotificationsSettle

=============================================================================
