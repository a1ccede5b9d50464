--------------------------- MODULE Notifications ---------------------------
(***************************************************************************)
(* Order emails: sendOrderNotifications of                                 *)
(* packages/commerce/src/orders/notifications.ts.                          *)
(*                                                                         *)
(* The worker's job claims the notifications that are due in one           *)
(* statement, each with a lease, and then works through them one by one:   *)
(* send, and mark in a statement of its own.  A sender is one execution of *)
(* that job; there may be several, since a run that was given up at its    *)
(* timeout or lost its lease goes on.                                      *)
(***************************************************************************)
EXTENDS Integers, FiniteSets

CONSTANTS
  Notification,  \* rows of OrderNotification
  Wordless,      \* those buildMessage finds nothing to say for
  Sender,        \* executions of the job
  Limit,         \* most rows one call claims
  Tries,         \* MAX_ATTEMPTS
  MaxMishaps,    \* bound: crashes, overrun leases, emails that leave although send throws
  MaxRequeues,   \* bound: how often staff put failed emails back
  Nothing        \* no row in hand

ASSUME NotificationAssumption ==
  /\ IsFiniteSet(Notification) /\ IsFiniteSet(Sender)
  /\ Wordless \subseteq Notification
  /\ Limit \in Nat \ {0}
  /\ Tries \in Nat \ {0}
  /\ MaxMishaps \in Nat
  /\ MaxRequeues \in Nat

VARIABLES
  status,    \* OrderNotification.status
  attempts,  \* OrderNotification.attempts
  waiting,   \* rows whose nextAttemptAt is in the future
  batch,     \* batch[s]: claimed rows sender s has not come to yet
  inHand,    \* inHand[s]: the row it is at, and how sending went
  copies,    \* emails that left for a notification
  mishaps,   \* how many mishaps there have been
  requeues   \* how often staff put failed emails back

rows == <<status, attempts, waiting>>
noteVars == <<rows, batch, inHand, copies, mishaps, requeues>>

\* What a claim returned of a row.
Claimed == [note : Notification, attempts : Nat \ {0}]
InHand == [row : Claimed, went : {"sent", "failed"}]

ASSUME NothingAssumption == Nothing \notin InHand

NoteTypeOK ==
  /\ status \in [Notification -> {"PENDING", "SENT", "FAILED"}]
  /\ attempts \in [Notification -> Nat]
  /\ waiting \subseteq Notification
  /\ \A s \in Sender : batch[s] \subseteq Claimed /\ inHand[s] \in InHand \cup {Nothing}
  /\ copies \in [Notification -> Nat]
  /\ mishaps \in 0..MaxMishaps
  /\ requeues \in 0..MaxRequeues

NoteInit ==
  /\ status = [n \in Notification |-> "PENDING"]
  /\ attempts = [n \in Notification |-> 0]
  /\ waiting = {}
  /\ batch = [s \in Sender |-> {}]
  /\ inHand = [s \in Sender |-> Nothing]
  /\ copies = [n \in Notification |-> 0]
  /\ mishaps = 0
  /\ requeues = 0

MutantReady == {n \in Notification : status[n] = "PENDING"}
MutantReadyTries == {n \in Notification : status[n] = "PENDING" /\ n \notin waiting
                                                          /\ attempts[n] < Tries}
Ready == {n \in Notification : status[n] = "PENDING" /\ n \notin waiting}

Busy(s) == batch[s] # {} \/ inHand[s] # Nothing

\* The lease is part of the claim: the row waits from now on.
ClaimNotes(s) ==
  /\ ~Busy(s)
  /\ \E N \in SUBSET Ready \ {{}} :
       /\ Cardinality(N) = Limit \/ (Cardinality(N) < Limit /\ N = Ready)
       /\ attempts' = [n \in Notification |-> IF n \in N THEN attempts[n] + 1 ELSE attempts[n]]
       /\ waiting' = waiting \cup N
       /\ batch' = [batch EXCEPT ![s] = {[note |-> n, attempts |-> attempts[n] + 1] : n \in N}]
  /\ UNCHANGED <<status, inHand, copies, mishaps, requeues>>

Take(s, row, went) ==
  /\ inHand[s] = Nothing
  /\ row \in batch[s]
  /\ batch' = [batch EXCEPT ![s] = @ \ {row}]
  /\ inHand' = [inHand EXCEPT ![s] = [row |-> row, went |-> went]]

SendNote(s) ==
  \E row \in batch[s] :
    /\ Take(s, row, "sent")
    /\ copies' = IF row.note \in Wordless THEN copies ELSE [copies EXCEPT ![row.note] = @ + 1]
    /\ UNCHANGED <<rows, mishaps, requeues>>

SendingFails(s) ==
  \E row \in batch[s] :
    /\ Take(s, row, "failed")
    /\ \/ UNCHANGED <<copies, mishaps>>
       \/ \* the email left all the same
          /\ row.note \notin Wordless
          /\ mishaps < MaxMishaps
          /\ mishaps' = mishaps + 1
          /\ copies' = [copies EXCEPT ![row.note] = @ + 1]
    /\ UNCHANGED <<rows, requeues>>

PutDown(s) == inHand' = [inHand EXCEPT ![s] = Nothing]

MarkSent(s) ==
  /\ inHand[s] # Nothing
  /\ inHand[s].went = "sent"
  /\ status' = [status EXCEPT ![inHand[s].row.note] = "SENT"]
  /\ PutDown(s)
  /\ UNCHANGED <<attempts, waiting, batch, copies, mishaps, requeues>>

\* The update that marks the row throws, inside the same try.
MarkSentFails(s) ==
  /\ inHand[s] # Nothing
  /\ inHand[s].went = "sent"
  /\ mishaps < MaxMishaps
  /\ mishaps' = mishaps + 1
  /\ inHand' = [inHand EXCEPT ![s].went = "failed"]
  /\ UNCHANGED <<rows, batch, copies, requeues>>

\* Given up after the last attempt, otherwise put off; what the row says by now is
\* not looked at.
MarkFailed(s) ==
  LET row == inHand[s].row IN
  /\ inHand[s] # Nothing
  /\ inHand[s].went = "failed"
  /\ \/ /\ row.attempts >= Tries
        /\ status' = [status EXCEPT ![row.note] = "FAILED"]
        /\ UNCHANGED waiting
     \/ /\ row.attempts < Tries
        /\ waiting' = waiting \cup {row.note}
        /\ UNCHANGED status
  /\ PutDown(s)
  /\ UNCHANGED <<attempts, batch, copies, mishaps, requeues>>

SenderDies(s) ==
  /\ Busy(s)
  /\ mishaps < MaxMishaps
  /\ mishaps' = mishaps + 1
  /\ batch' = [batch EXCEPT ![s] = {}]
  /\ PutDown(s)
  /\ UNCHANGED <<rows, copies, requeues>>

Holds(s, n) ==
  \/ \E row \in batch[s] : row.note = n
  \/ inHand[s] # Nothing /\ inHand[s].row.note = n

\* A retry's delay, or the lease of a sender that died, runs out.
WaitEnds(n) ==
  /\ n \in waiting
  /\ \A s \in Sender : ~Holds(s, n)
  /\ waiting' = waiting \ {n}
  /\ UNCHANGED <<status, attempts, batch, inHand, copies, mishaps, requeues>>

\* The lease runs out although a slow sender is still to come to the row.
LeaseOverruns(n) ==
  /\ n \in waiting
  /\ \E s \in Sender : Holds(s, n)
  /\ mishaps < MaxMishaps
  /\ mishaps' = mishaps + 1
  /\ waiting' = waiting \ {n}
  /\ UNCHANGED <<status, attempts, batch, inHand, copies, requeues>>

\* retryFailedOrderEmails: what was given up goes back to the queue.
RetryFailedEmails ==
  LET failed == {n \in Notification : status[n] = "FAILED"} IN
  /\ failed # {}
  /\ requeues < MaxRequeues
  /\ requeues' = requeues + 1
  /\ status' = [n \in Notification |-> IF n \in failed THEN "PENDING" ELSE status[n]]
  /\ attempts' = [n \in Notification |-> IF n \in failed THEN 0 ELSE attempts[n]]
  /\ waiting' = waiting \ failed
  /\ UNCHANGED <<batch, inHand, copies, mishaps>>

SenderWorks(s) ==
  \/ ClaimNotes(s)
  \/ SendNote(s)
  \/ SendingFails(s)
  \/ MarkSent(s)
  \/ MarkSentFails(s)
  \/ MarkFailed(s)

NoteNext ==
  \/ \E s \in Sender : SenderWorks(s) \/ SenderDies(s)
  \/ \E n \in Notification : WaitEnds(n) \/ LeaseOverruns(n)
  \/ RetryFailedEmails

NoteSpec == NoteInit /\ [][NoteNext]_noteVars

\* The job is scheduled again and again and a run works through its batch; time passes.
NoteFairness ==
  /\ \A s \in Sender : WF_noteVars(SenderWorks(s))
  /\ \A n \in Notification : WF_noteVars(WaitEnds(n))

NoteFairSpec == NoteSpec /\ NoteFairness

-----------------------------------------------------------------------------
(* Properties.                                                             *)

Repeats == {n \in Notification : copies[n] > 1}

\* "Delivery is at least once: a crash between sending and marking can repeat one
\* email": no notification is repeated more often than there were mishaps, a crash in
\* the middle of a batch repeats only the email in hand, and nobody's email is marked
\* sent that did not leave.
RepeatsAreMishaps ==
  /\ Cardinality(Repeats) <= mishaps
  /\ \A n \in Notification :
       /\ copies[n] <= 1 + mishaps
       /\ status[n] = "SENT" => copies[n] > 0 \/ n \in Wordless

\* Every notification is sent or given up in the end, whatever fails on the way.
NotificationsSettle == \A n \in Notification : <>[](status[n] # "PENDING")

=============================================================================
