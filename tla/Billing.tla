------------------------------ MODULE Billing ------------------------------
(***************************************************************************)
(* Subscriptions of one organisation: billing webhooks                     *)
(* (packages/billing/src/webhooks.ts), the changes staff make by hand      *)
(* (manual.ts) and the state machine both are held to (state-machine.ts,   *)
(* subscriptions.ts).                                                      *)
(*                                                                         *)
(* The provider sends an event for every change of a subscription, with a  *)
(* snapshot of it and a version.  Deliveries come in any order and more    *)
(* than once.  Applying an event is one transaction under a lock for its   *)
(* subscription; when that subscription has no row yet it looks up the     *)
(* organisation's live subscription before it locks that, so it is two     *)
(* steps.  Time is the number of changes so far, at the provider or here:  *)
(* an event's version is its place among them.  Plans are left out.        *)
(***************************************************************************)
EXTENDS Integers, Sequences

CONSTANTS
  Ref,         \* subscriptions at the provider
  Manual,      \* rows staff assign
  MaxChanges,  \* bound: changes at the provider and here
  NoRow        \* no row, no event, nothing found

ASSUME BillingAssumption ==
  /\ Ref \cap Manual = {}
  /\ NoRow \notin Ref \cup Manual
  /\ MaxChanges \in Nat

VARIABLES
  changes,   \* every change: the provider's event, or NoRow for one made here
  ledger,    \* ledger[v]: the status of event v's BillingWebhookEvent row
  row,       \* row[s]: the Subscription row of s
  applying   \* applying[s]: an open transaction on an s without a row

billingVars == <<changes, ledger, row, applying>>

Status == {"TRIAL", "ACTIVE", "PAST_DUE", "CANCELLED", "EXPIRED"}
Subscription == Ref \cup Manual
Event == [ref : Ref, status : Status]

\* synced is providerSyncedAt; of a manual row, updatedAt.
Row == [status : Status, synced : 1..MaxChanges]
Application == [event : 1..MaxChanges, live : Subscription \cup {NoRow}]

ASSUME NoRowAssumption == NoRow \notin Row \cup Application

BillingTypeOK ==
  /\ changes \in Seq(Event \cup {NoRow}) /\ Len(changes) <= MaxChanges
  /\ ledger \in [1..MaxChanges -> {NoRow, "FAILED", "PROCESSED", "IGNORED"}]
  /\ row \in [Subscription -> Row \cup {NoRow}]
  /\ applying \in [Ref -> Application \cup {NoRow}]

BillingInit ==
  /\ changes = <<>>
  /\ ledger = [v \in 1..MaxChanges |-> NoRow]
  /\ row = [s \in Subscription |-> NoRow]
  /\ applying = [s \in Ref |-> NoRow]

Transitions ==
  [NONE |-> {"TRIAL", "ACTIVE"},
   TRIAL |-> Status,
   ACTIVE |-> Status \ {"TRIAL"},
   PAST_DUE |-> Status \ {"TRIAL"},
   CANCELLED |-> {"CANCELLED", "ACTIVE", "EXPIRED"},
   EXPIRED |-> {}]

Live == {s \in Subscription : row[s] # NoRow /\ row[s].status # "EXPIRED"}

Events == {v \in DOMAIN changes : changes[v] # NoRow}

EventsOf(s) == {v \in Events : changes[v].ref = s}

Newest(V) == CHOOSE v \in V : \A u \in V : u <= v

\* What the provider says of s.
AtProvider(s) == IF EventsOf(s) = {} THEN "NONE" ELSE changes[Newest(EventsOf(s))].status

-----------------------------------------------------------------------------

\* The provider's own subscriptions follow the same transitions.
ProviderChanges(s) ==
  /\ Len(changes) < MaxChanges
  /\ \E status \in Transitions[AtProvider(s)] :
       changes' = Append(changes, [ref |-> s, status |-> status])
  /\ UNCHANGED <<ledger, row, applying>>

\* Not settled, and nobody else is at work on this subscription.
Deliverable(v) ==
  /\ v \in Events
  /\ ledger[v] \in {NoRow, "FAILED"}
  /\ applying[changes[v].ref] = NoRow

Settle(v, status) == ledger' = [ledger EXCEPT ![v] = status]

MutantMirror(v) == [status |-> changes[v].status, synced |-> v - 1]
Mirror(v) == [status |-> changes[v].status, synced |-> v]

Stale(s, v) == v < row[s].synced

MutantTransitionAllowed(s, status) == TRUE

TransitionAllowed(s, status) == status \in Transitions[row[s].status]

\* A cancelled subscription comes back only while its access remains.  The provider sees
\* to that, but the row may have missed the change that prolonged the access.
AccessMayBeOver(s, v) ==
  /\ row[s].status = "CANCELLED"
  /\ changes[v].status = "ACTIVE"
  /\ \E u \in EventsOf(s) : row[s].synced < u /\ u < v

\* An event of a subscription that has its row.
ApplyEvent(v) ==
  LET s == changes[v].ref IN
  /\ Deliverable(v)
  /\ row[s] # NoRow
  /\ \/ /\ \/ Stale(s, v)
           \/ ~TransitionAllowed(s, changes[v].status)
           \/ AccessMayBeOver(s, v)
        /\ Settle(v, "IGNORED")
        /\ UNCHANGED row
     \/ /\ ~Stale(s, v)
        /\ TransitionAllowed(s, changes[v].status)
        /\ row' = [row EXCEPT ![s] = Mirror(v)]
        /\ Settle(v, "PROCESSED")
  /\ UNCHANGED <<changes, applying>>

\* The first event seen of a subscription, when it tells that it has ended: a tombstone.
ApplyTombstone(v) ==
  LET s == changes[v].ref IN
  /\ Deliverable(v)
  /\ row[s] = NoRow
  /\ changes[v].status = "EXPIRED"
  /\ row' = [row EXCEPT ![s] = Mirror(v)]
  /\ Settle(v, "PROCESSED")
  /\ UNCHANGED <<changes, applying>>

\* Otherwise the live subscription is found, and locked in a further statement.
FindLive(v) ==
  LET s == changes[v].ref IN
  /\ Deliverable(v)
  /\ row[s] = NoRow
  /\ changes[v].status # "EXPIRED"
  /\ \E live \in IF Live = {} THEN {NoRow} ELSE Live :
       applying' = [applying EXCEPT ![s] = [event |-> v, live |-> live]]
  /\ UNCHANGED <<changes, ledger, row>>

MutantSuperseded(live, v) == TRUE

\* Only a newer snapshot replaces what is live.
Superseded(live, v) == v > row[live].synced

\* What ends here keeps its snapshot's version; a manual row's is when it was written.
Ended(s, now) ==
  [status |-> "EXPIRED", synced |-> IF s \in Manual THEN now ELSE row[s].synced]

\* The found subscription is compared as it is now; one that has ended meanwhile cannot
\* end again, and a second live row violates an index: both fail the delivery.
ApplyFirst(s) ==
  LET v == applying[s].event
      live == applying[s].live IN
  /\ applying[s] # NoRow
  /\ \/ /\ live = NoRow
        /\ Live = {}
        /\ row' = [row EXCEPT ![s] = Mirror(v)]
        /\ Settle(v, "PROCESSED")
     \/ /\ live # NoRow
        /\ ~Superseded(live, v)
        /\ Settle(v, "IGNORED")
        /\ UNCHANGED row
     \/ /\ live # NoRow
        /\ Superseded(live, v)
        /\ "EXPIRED" \in Transitions[row[live].status]
        /\ row' = [row EXCEPT ![live] = Ended(live, Len(changes)), ![s] = Mirror(v)]
        /\ Settle(v, "PROCESSED")
     \/ /\ IF live = NoRow THEN Live # {}
           ELSE Superseded(live, v) /\ "EXPIRED" \notin Transitions[row[live].status]
        /\ Settle(v, "FAILED")
        /\ UNCHANGED row
  /\ applying' = [applying EXCEPT ![s] = NoRow]
  /\ UNCHANGED changes

\* A delivery breaks; the ledger says so, whatever another delivery of the event wrote.
DeliveryFails(v) ==
  LET s == changes[v].ref IN
  /\ v \in Events
  /\ ledger[v] # "FAILED"
  /\ Settle(v, "FAILED")
  /\ applying' = IF applying[s] # NoRow /\ applying[s].event = v
                 THEN [applying EXCEPT ![s] = NoRow]
                 ELSE applying
  /\ UNCHANGED <<changes, row>>

-----------------------------------------------------------------------------
(* By hand, on the live subscription.                                      *)

Changed ==
  /\ Len(changes) < MaxChanges
  /\ changes' = Append(changes, NoRow)
  /\ UNCHANGED <<ledger, applying>>

AssignPlan ==
  /\ Changed
  /\ Live = {}
  /\ \E m \in Manual, status \in Transitions["NONE"] :
       row' = [row EXCEPT ![m] = [status |-> status, synced |-> Len(changes) + 1]]

\* Activate, cancel, change and prolong: never to EXPIRED.
ChangeManual ==
  /\ Changed
  /\ \E m \in Manual \cap Live :
       \E status \in {"ACTIVE", "CANCELLED", row[m].status} \cap Transitions[row[m].status] :
         row' = [row EXCEPT ![m] = [status |-> status, synced |-> Len(changes) + 1]]

\* By staff or, of manual ones, by the sweep; staff also end a provider's subscription
\* whose access is over.
Expire ==
  /\ Changed
  /\ \E s \in Live :
       /\ s \in Manual \/ row[s].status # "ACTIVE"
       /\ row' = [row EXCEPT ![s] = Ended(s, Len(changes) + 1)]

BillingNext ==
  \/ \E s \in Ref : ProviderChanges(s)
  \/ \E v \in 1..Len(changes) :
       \/ ApplyEvent(v)
       \/ ApplyTombstone(v)
       \/ FindLive(v)
       \/ DeliveryFails(v)
  \/ \E s \in Ref : ApplyFirst(s)
  \/ AssignPlan
  \/ ChangeManual
  \/ Expire

BillingSpec == BillingInit /\ [][BillingNext]_billingVars

-----------------------------------------------------------------------------
(* Properties.                                                             *)

\* "A delayed event for an older provider subscription must not win" (apply): what is live
\* is only ever replaced by something newer, another snapshot or another subscription,
\* however late, repeated or interrupted deliveries are and whatever staff do meanwhile.
OlderNeverWins ==
  [][\A s \in Live, t \in Live' : row[s].synced <= row'[t].synced]_billingVars

\* An ended subscription of the provider stays ended: neither an older "created" nor the
\* repetition of an event whose ledger row was overwritten brings it back.
ExpiredIsFinal ==
  [][\A s \in Ref : row[s] # NoRow /\ row[s].status = "EXPIRED" =>
       row'[s] = row[s]]_billingVars

\* "Out-of-order delivery converges to the newest state whichever event arrives first"
\* (docs/architecture/05-billing-entitlements.md:279): with every event delivered and
\* settled, and nothing changed by hand, the row says what the provider says.
DeliveryConverges ==
  (\A v \in DOMAIN changes : v \in Events /\ ledger[v] \in {"PROCESSED", "IGNORED"}) =>
    \A s \in Ref : EventsOf(s) # {} => row[s] # NoRow /\ row[s].status = AtProvider(s)

=============================================================================
