------------------------------ MODULE Members ------------------------------
(***************************************************************************)
(* The members of one organisation, its invitations and its seats:         *)
(* members.ts and invitations.ts of packages/tenancy, with the counter     *)
(* staff_accounts of packages/entitlements/src/store.ts.                   *)
(*                                                                         *)
(* A request resolves the acting member's role first and trusts it for the *)
(* rest of the call, while others change that membership.  A call's        *)
(* transaction decides with guarded writes and locked rows and is a step;  *)
(* accepting an invitation is two, since it may count the members before   *)
(* it has the seat counter's lock.                                         *)
(*                                                                         *)
(* STAFF stands for every role without member.manage.  All memberships     *)
(* reach all stores.  The plan's limit does not change.  Only PENDING       *)
(* invitations are kept: nothing here reads one that is over.              *)
(***************************************************************************)
EXTENDS Integers, FiniteSets

CONSTANTS
  Person,         \* users
  Founder,        \* who created the organisation
  Early,          \* who had joined it, as administrators, when the model begins
  Invitation,     \* bound: invitations that are pending at a time
  Seats,          \* the plan's limit of staff_accounts
  None            \* no membership, no invitation, no context, no counter

ASSUME MembersAssumption ==
  /\ Founder \in Person /\ Early \subseteq Person \ {Founder}
  /\ IsFiniteSet(Person)
  /\ Seats \in Nat /\ Cardinality(Early) < Seats
  /\ None \notin Int

VARIABLES
  member,      \* member[p]: p's Membership row
  invitation,  \* the PENDING Invitation rows
  counter,     \* the UsageCounter row's value
  context,     \* context[p]: the role a request of p was resolved with
  joining      \* joining[p]: p's transaction that accepts an invitation

memberVars == <<member, invitation, counter, context, joining>>

Role == {"OWNER", "ADMIN", "STAFF"}
Membership == [role : Role, status : {"ACTIVE", "SUSPENDED"}]
InvitationRow == [sender : Person, invitee : Person, role : Role \ {"OWNER"}]
Joining == [invitation : Invitation, counted : Nat \cup {None}]

ASSUME NoMembershipAssumption == None \notin Membership

MembersTypeOK ==
  /\ member \in [Person -> Membership \cup {None}]
  /\ invitation \in [Invitation -> InvitationRow \cup {None}]
  /\ counter \in Nat \cup {None}
  /\ context \in [Person -> Role \cup {None}]
  /\ joining \in [Person -> Joining \cup {None}]

Members == {p \in Person : member[p] # None}

Active(p) == p \in Members /\ member[p].status = "ACTIVE"

Pending == {i \in Invitation : invitation[i] # None}

\* They are revoked, accepted or expired.
Over(some) == [i \in Invitation |-> IF i \in some THEN None ELSE invitation[i]]

\* Who has the permission member.manage may grant every role but the owner's.
MayManage(role) == role \in {"OWNER", "ADMIN"}

\* createOrganisation, and who joined since; one older than the usage counters has none yet.
MembersInit ==
  /\ member = [p \in Person |-> IF p = Founder THEN [role |-> "OWNER", status |-> "ACTIVE"]
                                ELSE IF p \in Early THEN [role |-> "ADMIN", status |-> "ACTIVE"]
                                ELSE None]
  /\ invitation = [i \in Invitation |-> None]
  /\ counter \in {Cardinality(Members), None}
  /\ context = [p \in Person |-> None]
  /\ joining = [p \in Person |-> None]

-----------------------------------------------------------------------------

\* A request of p is resolved, and later does one thing.
ResolveContext(p) ==
  /\ context[p] = None
  /\ Active(p)
  /\ context' = [context EXCEPT ![p] = member[p].role]
  /\ UNCHANGED <<member, invitation, counter, joining>>

Answered(p) == context' = [context EXCEPT ![p] = None]

\* The request finds nothing it may do.
Refused(p) ==
  /\ context[p] # None
  /\ Answered(p)
  /\ UNCHANGED <<member, invitation, counter, joining>>

\* An invitation that is being accepted is locked by that transaction.
BeingAccepted == {joining[p].invitation : p \in {q \in Person : joining[q] # None}}

MutantRevokeInvitationsFrom(q) == UNCHANGED invitation

RevokeInvitationsFrom(q) ==
  LET own == {i \in Pending : invitation[i].sender = q} IN
  /\ own \cap BeingAccepted = {}
  /\ invitation' = Over(own)

\* loadManageableMember, with the write guarded by what it loaded.
Manages(p, q) ==
  /\ context[p] # None
  /\ MayManage(context[p])
  /\ q # p
  /\ q \in Members
  /\ member[q].role # "OWNER"

ChangeMemberRole(p, q) ==
  /\ Manages(p, q)
  /\ \E role \in {"ADMIN", "STAFF"} \ {member[q].role} :
       member' = [member EXCEPT ![q].role = role]
  /\ RevokeInvitationsFrom(q)
  /\ Answered(p)
  /\ UNCHANGED <<counter, joining>>

Suspend(p, q) ==
  /\ Manages(p, q)
  /\ member[q].status = "ACTIVE"
  /\ member' = [member EXCEPT ![q].status = "SUSPENDED"]
  /\ RevokeInvitationsFrom(q)
  /\ Answered(p)
  /\ UNCHANGED <<counter, joining>>

Reactivate(p, q) ==
  /\ Manages(p, q)
  /\ member[q].status = "SUSPENDED"
  /\ member' = [member EXCEPT ![q].status = "ACTIVE"]
  /\ Answered(p)
  /\ UNCHANGED <<invitation, counter, joining>>

\* releaseUsage: never below zero; a counter that is missing stays so.
ReleaseSeat == counter' = IF counter = None \/ counter = 0 THEN counter ELSE counter - 1

RemoveMember(p, q) ==
  /\ Manages(p, q)
  /\ RevokeInvitationsFrom(q)
  /\ member' = [member EXCEPT ![q] = None]
  /\ ReleaseSeat
  /\ Answered(p)
  /\ UNCHANGED joining

\* The old owner's row must still be the active owner's and the new one's an active
\* admin's.
TransferOwnership(p, q) ==
  /\ context[p] = "OWNER"
  /\ q # p
  /\ Active(q) /\ member[q].role = "ADMIN"
  /\ Active(p) /\ member[p].role = "OWNER"
  /\ member' = [member EXCEPT ![p].role = "ADMIN", ![q].role = "OWNER"]
  /\ Answered(p)
  /\ UNCHANGED <<invitation, counter, joining>>

\* At commit the database wants exactly one active owner.
HasOneOwner(members) ==
  Cardinality({p \in Person : members[p] # None /\ members[p].role = "OWNER"
                                                /\ members[p].status = "ACTIVE"}) = 1

MutantLeaveOrganisation(p) ==
  /\ context[p] \in {"ADMIN", "STAFF"}
  /\ p \in Members
  /\ member' = [member EXCEPT ![p] = None]
  /\ ReleaseSeat
  /\ Answered(p)
  /\ UNCHANGED <<invitation, joining>>

\* leaveOrganisation: the role of the request is all it looks at.
LeaveOrganisation(p) ==
  /\ context[p] \in {"ADMIN", "STAFF"}
  /\ p \in Members
  /\ member' = [member EXCEPT ![p] = None]
  /\ HasOneOwner(member')
  /\ ReleaseSeat
  /\ Answered(p)
  /\ UNCHANGED <<invitation, joining>>

-----------------------------------------------------------------------------

\* assertSeatAvailable, a look without a lock.
SeatAvailable(q) ==
  LET others == {i \in Pending : invitation[i].invitee # q}
      used == IF counter = None THEN 0 ELSE counter IN
  used + Cardinality(others) + 1 <= Seats

CreateInvitation(p, q) ==
  LET replaced == {i \in Pending : invitation[i].invitee = q} IN
  /\ context[p] # None
  /\ MayManage(context[p])
  /\ q \notin Members
  /\ SeatAvailable(q)
  /\ replaced \cap BeingAccepted = {}
  /\ \E i \in replaced \cup (Invitation \ Pending), role \in {"ADMIN", "STAFF"} :
       invitation' = [Over(replaced) EXCEPT ![i] = [sender |-> p, invitee |-> q, role |-> role]]
  /\ Answered(p)
  /\ UNCHANGED <<member, counter, joining>>

RevokeInvitation(p) ==
  /\ context[p] # None
  /\ MayManage(context[p])
  /\ \E i \in Pending \ BeingAccepted :
       invitation' = Over({i})
  /\ Answered(p)
  /\ UNCHANGED <<member, counter, joining>>

InvitationLapses(i) ==
  /\ i \in Pending \ BeingAccepted
  /\ invitation' = Over({i})
  /\ UNCHANGED <<member, counter, context, joining>>

\* acceptInvitation up to the seat counter's lock: the invitation is claimed and its
\* sender's access looked up; a counter that is missing will start from a count made now.
BeginAccept(p) ==
  /\ joining[p] = None
  /\ \E i \in Pending \ BeingAccepted :
       LET sender == invitation[i].sender IN
       /\ invitation[i].invitee = p
       /\ Active(sender) /\ MayManage(member[sender].role)
       /\ p \notin Members
       /\ joining' = [joining EXCEPT ![p] =
            [invitation |-> i,
             counted |-> IF counter = None THEN Cardinality(Members) ELSE None]]
  /\ UNCHANGED <<member, invitation, counter, context>>

MutantUsed(join) == IF join.counted = None THEN counter ELSE join.counted

\* consumeUsage: the limit is checked under the counter's lock.
Used(join) == IF counter = None THEN join.counted ELSE counter

Accept(p) ==
  LET join == joining[p] IN
  /\ join # None
  /\ Used(join) + 1 <= Seats
  /\ counter' = Used(join) + 1
  /\ member' = [member EXCEPT ![p] = [role |-> invitation[join.invitation].role,
                                      status |-> "ACTIVE"]]
  /\ invitation' = Over({join.invitation})
  /\ joining' = [joining EXCEPT ![p] = None]
  /\ UNCHANGED context

\* No free seat, or the transaction breaks: nothing of it remains.
AcceptFails(p) ==
  /\ joining[p] # None
  /\ joining' = [joining EXCEPT ![p] = None]
  /\ UNCHANGED <<member, invitation, counter, context>>

\* reconcileUsage, under the counter's lock; it creates a counter that is missing.
ReconcileUsage ==
  /\ counter # Cardinality(Members)
  /\ counter' = Cardinality(Members)
  /\ UNCHANGED <<member, invitation, context, joining>>

Acts(p) ==
  \/ ResolveContext(p)
  \/ Refused(p)
  \/ \E q \in Person :
       \/ ChangeMemberRole(p, q)
       \/ Suspend(p, q)
       \/ Reactivate(p, q)
       \/ RemoveMember(p, q)
       \/ TransferOwnership(p, q)
       \/ CreateInvitation(p, q)
  \/ LeaveOrganisation(p)
  \/ RevokeInvitation(p)
  \/ BeginAccept(p)
  \/ Accept(p)
  \/ AcceptFails(p)

MembersNext ==
  \/ \E p \in Person : Acts(p)
  \/ \E i \in Invitation : InvitationLapses(i)
  \/ ReconcileUsage

MembersSpec == MembersInit /\ [][MembersNext]_memberVars

-----------------------------------------------------------------------------
(* Properties.                                                             *)

\* "N parallel requests against a limit L succeed exactly L times" (consumeUsage): the
\* organisation never has more members than seats, whoever joins while others leave, are
\* removed or the counter is rebuilt.  The counter may run ahead of the members, never
\* behind them.
SeatsAreNotOversold ==
  /\ Cardinality(Members) <= Seats
  /\ counter # None => Cardinality(Members) <= counter

\* An organisation keeps exactly one active owner, also when a member whose request was
\* resolved as an admin's leaves after ownership came to him.
OwnerStays == HasOneOwner(member)

\* "An invitation doesn't outlive the inviter's own access" (acceptInvitation): nobody
\* joins by the invitation of a suspended member, although requests resolved before the
\* suspension still send invitations after it, and joining takes two steps.
SuspendedInviteNobody ==
  [][\A p \in Person : member[p] = None /\ member'[p] # None =>
       LET sender == invitation[joining[p].invitation].sender IN
       sender \in Members => Active(sender)]_memberVars

=============================================================================
