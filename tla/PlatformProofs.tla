--------------------------- MODULE PlatformProofs ---------------------------
(***************************************************************************)
(* Proofs about Members, for any people, invitations and seats: one active *)
(* owner, no more members than seats, and nobody who joins by the          *)
(* invitation of a suspended member.  They rest on what an open            *)
(* transaction that accepts an invitation holds: an invitation nobody else *)
(* touches, and, where the seat counter is missing, a count that the       *)
(* members have not outgrown.                                              *)
(*                                                                         *)
(* Proofs about Billing, for any subscriptions and number of changes: what *)
(* is live is only replaced by something newer, and what has ended stays   *)
(* ended.  Both rest on there being one live subscription at most, on no   *)
(* row being ahead of what has happened, and on a transaction that adds a  *)
(* row finding it still missing.                                           *)
(*                                                                         *)
(* And the parts together: a step of the platform is one of a single part, *)
(* so each part behaves as its own specification allows, and what is       *)
(* proved of the parts holds of the platform.                              *)
(***************************************************************************)
EXTENDS MCPlatform, DraftProofs, InvalidationProofs, PriceAndLockProofs

-----------------------------------------------------------------------------
(* Members.                                                                *)

Joins(p) == joining[p] # None

InvitationOf(p) == invitation[joining[p].invitation]

\* Who accepts an invitation is no member yet, the invitation is there, and its sender
\* is active or has left.
JoinersAreInvited ==
  \A p \in Person : Joins(p) =>
    /\ p \notin Members
    /\ InvitationOf(p) # None
    /\ InvitationOf(p).sender \in Members => Active(InvitationOf(p).sender)

\* No invitation is accepted twice.
InvitationsAreClaimedOnce ==
  \A p, q \in Person :
    Joins(p) /\ Joins(q) /\ joining[p].invitation = joining[q].invitation => p = q

\* While the counter is missing, everyone who joins has counted enough.
CountIsEnough ==
  counter = None =>
    \A p \in Person : Joins(p) =>
      joining[p].counted # None /\ Cardinality(Members) <= joining[p].counted

MInv ==
  /\ MembersTypeOK
  /\ SeatsAreNotOversold
  /\ OwnerStays
  /\ JoinersAreInvited
  /\ InvitationsAreClaimedOnce
  /\ CountIsEnough

\* What SuspendedInviteNobody says of one step.
SuspendedInviteNobodyNow ==
  \A p \in Person : member[p] = None /\ member'[p] # None =>
    LET sender == invitation[joining[p].invitation].sender IN
    sender \in Members => Active(sender)

-----------------------------------------------------------------------------
(* Counting members and owners.                                            *)

\* There are finitely many members, and their number is one.
LEMMA MembersAreCounted ==
  ASSUME NEW S, S \subseteq Person
  PROVE  IsFiniteSet(S) /\ Cardinality(S) \in Nat
BY MembersAssumption, FS_Subset, FS_CardinalityType

\* Rows that are there have their columns.
LEMMA MemberRowsAreTyped ==
  ASSUME MembersTypeOK
  PROVE  /\ Members \subseteq Person
         /\ \A p \in Members : /\ member[p] \in Membership
                               /\ member[p].role \in Role
                               /\ member[p].status \in {"ACTIVE", "SUSPENDED"}
         /\ \A i \in Pending : /\ invitation[i] \in InvitationRow
                               /\ invitation[i].sender \in Person
                               /\ invitation[i].role \in {"ADMIN", "STAFF"}
         /\ \A p \in Person : Joins(p) => /\ joining[p] \in Joining
                                          /\ joining[p].invitation \in Invitation
                                          /\ joining[p].counted \in Nat \cup {None}
BY DEF MembersTypeOK, Members, Membership, Pending, InvitationRow, Joins, Joining, Role

Owns(members, p) ==
  members[p] # None /\ members[p].role = "OWNER" /\ members[p].status = "ACTIVE"

\* Whoever owned it still does, and nobody else.
LEMMA SameOwner ==
  ASSUME OwnerStays, \A p \in Person : Owns(member', p) <=> Owns(member, p)
  PROVE  OwnerStays'
<1>1. {p \in Person : Owns(member', p)} = {p \in Person : Owns(member, p)}
  OBVIOUS
<1>. QED
  BY <1>1 DEF OwnerStays, HasOneOwner, Owns

\* One owner is the owner.
LEMMA OwnerIsOne ==
  ASSUME NEW members, NEW p \in Person, HasOneOwner(members), Owns(members, p)
  PROVE  \A q \in Person : Owns(members, q) => q = p
<1>1. {q \in Person : Owns(members, q)} \subseteq Person
  OBVIOUS
<1>2. Cardinality({q \in Person : Owns(members, q)}) = 1
  BY DEF HasOneOwner, Owns
<1>3. PICK x : {q \in Person : Owns(members, q)} = {x}
  BY <1>1, <1>2, MembersAreCounted, FS_Singleton
<1>. QED
  BY <1>3

\* The owner is one.
LEMMA OneIsOwner ==
  ASSUME NEW members, NEW p \in Person, \A q \in Person : Owns(members, q) <=> q = p
  PROVE  HasOneOwner(members)
<1>1. {q \in Person : Owns(members, q)} = {p}
  OBVIOUS
<1>2. Cardinality({q \in Person : Owns(members, q)}) = 1
  BY <1>1, FS_Singleton
<1>. QED
  BY <1>2 DEF HasOneOwner, Owns

\* Without one of them there is a member less.
LEMMA OneMemberGoes ==
  ASSUME MembersTypeOK, NEW q \in Members, Members' = Members \ {q}
  PROVE  Cardinality(Members') = Cardinality(Members) - 1 /\ Cardinality(Members) > 0
<1>1. IsFiniteSet(Members) /\ Cardinality(Members) \in Nat
  BY MemberRowsAreTyped, MembersAreCounted
<1>2. Cardinality(Members) # 0
  BY <1>1, FS_EmptySet
<1>. QED
  BY <1>1, <1>2, FS_RemoveElement

\* With somebody new there is a member more.
LEMMA OneMemberComes ==
  ASSUME MembersTypeOK, NEW p, Members' = Members \cup {p}
  PROVE  Cardinality(Members') <= Cardinality(Members) + 1
<1>1. IsFiniteSet(Members) /\ Cardinality(Members) \in Nat
  BY MemberRowsAreTyped, MembersAreCounted
<1>. QED
  BY <1>1, FS_AddElement

-----------------------------------------------------------------------------
(* What leaves open transactions be.                                       *)

\* Invitations that are over are not being accepted, so open transactions keep theirs.
LEMMA OverKeepsTheAccepted ==
  ASSUME MInv, NEW some \in SUBSET Invitation, some \cap BeingAccepted = {}
  PROVE  /\ Over(some) \in [Invitation -> InvitationRow \cup {None}]
         /\ \A p \in Person : Joins(p) =>
              Over(some)[joining[p].invitation] = InvitationOf(p)
<1>1. \A p \in Person : Joins(p) =>
        joining[p].invitation \in Invitation /\ joining[p].invitation \notin some
  BY MemberRowsAreTyped DEF MInv, BeingAccepted, Joins
<1>. QED
  BY <1>1 DEF MInv, MembersTypeOK, Over, InvitationOf

\* The members stay members, the open transactions go on, and nobody active who sent an
\* invitation that is being accepted is suspended.
LEMMA SameMembers ==
  ASSUME MInv, MembersTypeOK', OwnerStays',
         Members' = Members, UNCHANGED <<counter, joining>>,
         \A p \in Person : Joins(p) =>
           /\ invitation'[joining[p].invitation] = InvitationOf(p)
           /\ Active(InvitationOf(p).sender) =>
                member'[InvitationOf(p).sender].status = "ACTIVE"
  PROVE  MInv' /\ SuspendedInviteNobodyNow
<1>1. SeatsAreNotOversold' /\ CountIsEnough' /\ InvitationsAreClaimedOnce'
  BY DEF MInv, SeatsAreNotOversold, CountIsEnough, InvitationsAreClaimedOnce, Joins
<1>2. \A p \in Person : Joins(p)' <=> Joins(p)
  BY DEF Joins
<1>3. \A p \in Person : Joins(p) => InvitationOf(p)' = InvitationOf(p)
  BY DEF InvitationOf
<1>4. JoinersAreInvited'
  <2>1. ASSUME NEW p \in Person, Joins(p) PROVE
          /\ p \notin Members /\ InvitationOf(p) # None
          /\ InvitationOf(p).sender \in Members =>
               member'[InvitationOf(p).sender].status = "ACTIVE"
    BY <2>1 DEF MInv, JoinersAreInvited
  <2>. QED
    BY <1>2, <1>3, <2>1 DEF JoinersAreInvited, Active
<1>5. \A p \in Person : member'[p] # None => member[p] # None
  BY DEF Members
<1>. QED
  BY <1>1, <1>4, <1>5 DEF MInv, SuspendedInviteNobodyNow

\* One member goes.
LEMMA MemberGoes ==
  ASSUME MInv, MembersTypeOK', OwnerStays',
         NEW q \in Members, member' = [member EXCEPT ![q] = None], ReleaseSeat,
         UNCHANGED joining,
         \A p \in Person : Joins(p) => invitation'[joining[p].invitation] = InvitationOf(p)
  PROVE  MInv' /\ SuspendedInviteNobodyNow
<1>1. /\ q \in Person /\ member'[q] = None
      /\ \A p \in Person : p # q => member'[p] = member[p]
  BY MemberRowsAreTyped DEF MInv, MembersTypeOK
<1>2. Members' = Members \ {q}
  BY <1>1 DEF Members
<1>3. Cardinality(Members') = Cardinality(Members) - 1 /\ Cardinality(Members) > 0
  BY <1>2, OneMemberGoes DEF MInv
<1>4. Cardinality(Members) \in Nat
  BY MemberRowsAreTyped, MembersAreCounted DEF MInv
<1>5. SeatsAreNotOversold'
  <2>1. Cardinality(Members') <= Seats
    BY <1>3, <1>4, MembersAssumption DEF MInv, SeatsAreNotOversold
  <2>2. ASSUME counter' # None PROVE Cardinality(Members') <= counter'
    <3>1. counter # None /\ counter \in Nat /\ Cardinality(Members) <= counter
      BY <2>2 DEF ReleaseSeat, MInv, MembersTypeOK, SeatsAreNotOversold
    <3>2. counter' = counter - 1
      BY <1>3, <1>4, <3>1 DEF ReleaseSeat
    <3>. QED
      BY <1>3, <1>4, <3>1, <3>2
  <2>. QED
    BY <2>1, <2>2 DEF SeatsAreNotOversold
<1>6. CountIsEnough'
  <2>1. ASSUME counter' = None PROVE counter = None
    BY <2>1, MembersAssumption DEF ReleaseSeat, MInv, MembersTypeOK
  <2>2. ASSUME NEW p \in Person, Joins(p), counter' = None
        PROVE  joining[p].counted # None /\ Cardinality(Members') <= joining[p].counted
    <3>1. joining[p].counted # None /\ Cardinality(Members) <= joining[p].counted
      BY <2>1, <2>2 DEF MInv, CountIsEnough
    <3>2. joining[p].counted \in Nat
      BY <2>2, <3>1, MemberRowsAreTyped DEF MInv
    <3>. QED
      BY <1>3, <1>4, <3>1, <3>2
  <2>. QED
    BY <2>2 DEF CountIsEnough, Joins
<1>7. JoinersAreInvited'
  <2>1. ASSUME NEW p \in Person, Joins(p)
        PROVE  /\ p \notin Members' /\ InvitationOf(p)' = InvitationOf(p)
               /\ InvitationOf(p) # None
               /\ InvitationOf(p).sender \in Members' =>
                    Active(InvitationOf(p).sender) /\ InvitationOf(p).sender # q
    BY <1>2, <2>1 DEF MInv, JoinersAreInvited, InvitationOf
  <2>2. \A p \in Members : p # q /\ Active(p) => member'[p].status = "ACTIVE"
    BY <1>1, MemberRowsAreTyped DEF Active, MInv
  <2>. QED
    BY <1>2, <2>1, <2>2 DEF JoinersAreInvited, Active, Joins
<1>8. InvitationsAreClaimedOnce'
  BY DEF MInv, InvitationsAreClaimedOnce, Joins
<1>. QED
  BY <1>1, <1>5, <1>6, <1>7, <1>8 DEF MInv, SuspendedInviteNobodyNow

-----------------------------------------------------------------------------
(* The steps.                                                              *)

\* A new organisation has its founder, who owns it, and those invited early.
LEMMA MembersInitEstablishes ==
  ASSUME MembersInit
  PROVE  MInv
<1>1. /\ \A p \in Person : member[p] \in Membership \cup {None}
      /\ member \in [Person -> Membership \cup {None}]
      /\ Founder \in Person
      /\ \A p \in Person : Owns(member, p) <=> p = Founder
  BY MembersAssumption, NoMembershipAssumption DEF MembersInit, Membership, Role, Owns
<1>2. Members = Early \cup {Founder}
  BY <1>1, MembersAssumption, NoMembershipAssumption DEF MembersInit, Members, Membership, Role
<1>3. Cardinality(Members) \in Nat /\ Cardinality(Members) <= Seats
  <2>1. IsFiniteSet(Early) /\ Cardinality(Early) \in Nat
    BY MembersAssumption, MembersAreCounted
  <2>2. Cardinality(Early \cup {Founder}) = Cardinality(Early) + 1
    BY <2>1, MembersAssumption, FS_AddElement
  <2>. QED
    BY <1>2, <2>1, <2>2, MembersAssumption
<1>4. counter \in {Cardinality(Members), None}
  BY DEF MembersInit
<1>5. MembersTypeOK
  BY <1>1, <1>3, <1>4 DEF MembersInit, MembersTypeOK
<1>6. SeatsAreNotOversold
  BY <1>3, <1>4 DEF SeatsAreNotOversold
<1>7. OwnerStays
  BY <1>1, OneIsOwner DEF OwnerStays
<1>8. \A p \in Person : ~Joins(p)
  BY DEF MembersInit, Joins
<1>. QED
  BY <1>5, <1>6, <1>7, <1>8
  DEF MInv, JoinersAreInvited, InvitationsAreClaimedOnce, CountIsEnough

\* A step that touches no membership, no counter and no open transaction, and of the
\* invitations only what is not being accepted.
LEMMA RequestKeeps ==
  ASSUME MInv, UNCHANGED <<member, counter, joining>>,
         context' \in [Person -> Role \cup {None}],
         invitation' \in [Invitation -> InvitationRow \cup {None}],
         \A p \in Person : Joins(p) => invitation'[joining[p].invitation] = InvitationOf(p)
  PROVE  MInv' /\ SuspendedInviteNobodyNow
<1>1. MembersTypeOK' /\ OwnerStays' /\ Members' = Members
  BY DEF MInv, MembersTypeOK, OwnerStays, HasOneOwner, Members
<1>. QED
  BY <1>1, SameMembers DEF Active

\* A request is answered.
LEMMA AnswerIsTyped ==
  ASSUME MembersTypeOK, NEW p \in Person, Answered(p)
  PROVE  context' \in [Person -> Role \cup {None}]
BY DEF Answered, MembersTypeOK

\* Revoking a member's invitations does not disturb who is accepting one.
LEMMA RevokingKeepsTheAccepted ==
  ASSUME MInv, NEW q, RevokeInvitationsFrom(q)
  PROVE  /\ invitation' \in [Invitation -> InvitationRow \cup {None}]
         /\ \A p \in Person : Joins(p) =>
              invitation'[joining[p].invitation] = InvitationOf(p) /\ InvitationOf(p).sender # q
<1> DEFINE own == {i \in Pending : invitation[i].sender = q}
<1>1. own \in SUBSET Invitation /\ own \cap BeingAccepted = {} /\ invitation' = Over(own)
  BY DEF RevokeInvitationsFrom, Pending
<1>2. ASSUME NEW p \in Person, Joins(p) PROVE InvitationOf(p).sender # q
  <2>1. joining[p].invitation \in BeingAccepted
    BY <1>2 DEF BeingAccepted, Joins
  <2>2. joining[p].invitation \in Pending
    BY <1>2, MemberRowsAreTyped DEF MInv, JoinersAreInvited, InvitationOf, Pending
  <2>. QED
    BY <1>1, <2>1, <2>2 DEF InvitationOf
<1> HIDE DEF own
<1>. QED
  BY <1>1, <1>2, OverKeepsTheAccepted

\* One membership is changed, by a request, to another that is no more an owner's.
LEMMA MembershipChanges ==
  ASSUME MInv, NEW q \in Members, NEW m \in Membership, member' = [member EXCEPT ![q] = m],
         Owns(member, q) <=> (m.role = "OWNER" /\ m.status = "ACTIVE"),
         NEW p \in Person, Answered(p), UNCHANGED <<counter, joining>>,
         invitation' \in [Invitation -> InvitationRow \cup {None}],
         \A j \in Person : Joins(j) => invitation'[joining[j].invitation] = InvitationOf(j),
         \A j \in Person : Joins(j) /\ InvitationOf(j).sender = q /\ Active(q) =>
           m.status = "ACTIVE"
  PROVE  MInv' /\ SuspendedInviteNobodyNow
<1>1. /\ q \in Person /\ member'[q] = m /\ m # None
      /\ \A j \in Person : q # j => member'[j] = member[j]
  BY MemberRowsAreTyped, NoMembershipAssumption DEF MInv, MembersTypeOK
<1>2. Members' = Members
  BY <1>1 DEF Members
<1>3. MembersTypeOK'
  BY <1>1, AnswerIsTyped DEF MInv, MembersTypeOK
<1>4. OwnerStays'
  BY <1>1, SameOwner DEF MInv, Owns
<1>5. ASSUME NEW j \in Person, Joins(j), Active(InvitationOf(j).sender)
      PROVE  member'[InvitationOf(j).sender].status = "ACTIVE"
  BY <1>1, <1>5, MemberRowsAreTyped DEF MInv, Active
<1>. QED
  BY <1>2, <1>3, <1>4, <1>5, SameMembers

\* A request that changes no membership leaves the members as they are.
LEMMA RequestsKeep ==
  ASSUME MInv, NEW p \in Person,
         ResolveContext(p) \/ Refused(p) \/ RevokeInvitation(p)
         \/ \E i \in Invitation : InvitationLapses(i)
  PROVE  MInv' /\ SuspendedInviteNobodyNow
<1>0. /\ MembersTypeOK
      /\ invitation \in [Invitation -> InvitationRow \cup {None}]
      /\ context \in [Person -> Role \cup {None}]
      /\ \A j \in Person : Joins(j) => invitation[joining[j].invitation] = InvitationOf(j)
  BY DEF MInv, MembersTypeOK, InvitationOf
<1>1. CASE ResolveContext(p) \/ Refused(p)
  <2>1. context' \in [Person -> Role \cup {None}]
    BY <1>0, <1>1, AnswerIsTyped, MemberRowsAreTyped DEF ResolveContext, Refused, Active
  <2>. QED
    BY <1>0, <1>1, <2>1, RequestKeeps DEF ResolveContext, Refused
<1>2. CASE RevokeInvitation(p) \/ \E i \in Invitation : InvitationLapses(i)
  <2>1. PICK i \in Pending \ BeingAccepted :
          invitation' = Over({i}) /\ UNCHANGED <<member, counter, joining>>
          /\ (Answered(p) \/ UNCHANGED context)
    BY <1>2 DEF RevokeInvitation, InvitationLapses
  <2>2. {i} \in SUBSET Invitation /\ {i} \cap BeingAccepted = {}
    BY <2>1 DEF Pending
  <2>3. context' \in [Person -> Role \cup {None}]
    BY <1>0, <2>1, AnswerIsTyped
  <2>. QED
    BY <2>1, <2>2, <2>3, OverKeepsTheAccepted, RequestKeeps
<1>. QED
  BY <1>1, <1>2

LEMMA CreateInvitationKeeps ==
  ASSUME MInv, NEW p \in Person, NEW q \in Person, CreateInvitation(p, q)
  PROVE  MInv' /\ SuspendedInviteNobodyNow
<1> DEFINE replaced == {i \in Pending : invitation[i].invitee = q}
<1>1. replaced \in SUBSET Invitation /\ replaced \cap BeingAccepted = {}
  BY DEF CreateInvitation, Pending
<1>2. PICK i \in replaced \cup (Invitation \ Pending), role \in {"ADMIN", "STAFF"} :
        invitation' = [Over(replaced) EXCEPT ![i] = [sender |-> p, invitee |-> q, role |-> role]]
  BY DEF CreateInvitation
<1>3. PICK r \in InvitationRow : r = [sender |-> p, invitee |-> q, role |-> role]
  BY DEF InvitationRow, Role
<1>4. i \in Invitation /\ \A j \in Person : Joins(j) => joining[j].invitation # i
  <2>1. \A j \in Person : Joins(j) =>
          joining[j].invitation \in BeingAccepted /\ joining[j].invitation \in Pending
    BY MemberRowsAreTyped DEF MInv, JoinersAreInvited, InvitationOf, BeingAccepted, Joins, Pending
  <2>. QED
    BY <1>1, <1>2, <2>1
<1> HIDE DEF replaced
<1>5. invitation' \in [Invitation -> InvitationRow \cup {None}]
  BY <1>1, <1>2, <1>3, OverKeepsTheAccepted
<1>6. \A j \in Person : Joins(j) => invitation'[joining[j].invitation] = InvitationOf(j)
  BY <1>1, <1>2, <1>4, OverKeepsTheAccepted, MemberRowsAreTyped DEF MInv
<1>7. context' \in [Person -> Role \cup {None}] /\ UNCHANGED <<member, counter, joining>>
  BY AnswerIsTyped DEF MInv, CreateInvitation
<1>. QED
  BY <1>5, <1>6, <1>7, RequestKeeps

\* Managing another member.
LEMMA ManagingKeeps ==
  ASSUME MInv, NEW p \in Person, NEW q \in Person,
         ChangeMemberRole(p, q) \/ Suspend(p, q) \/ Reactivate(p, q) \/ RemoveMember(p, q)
  PROVE  MInv' /\ SuspendedInviteNobodyNow
<1>0. q \in Members /\ member[q].role # "OWNER" /\ member[q] \in Membership /\ Answered(p)
  BY MemberRowsAreTyped DEF MInv, ChangeMemberRole, Suspend, Reactivate, RemoveMember, Manages
<1>1. CASE ChangeMemberRole(p, q)
  <2>1. PICK role \in {"ADMIN", "STAFF"} : member' = [member EXCEPT ![q].role = role]
    BY <1>1 DEF ChangeMemberRole
  <2>2. PICK m \in Membership : m = [member[q] EXCEPT !.role = role]
    BY <1>0 DEF Membership, Role
  <2>3. m.role # "OWNER" /\ m.status = member[q].status /\ member' = [member EXCEPT ![q] = m]
    BY <1>0, <2>1, <2>2 DEF Membership
  <2>4. RevokeInvitationsFrom(q) /\ UNCHANGED <<counter, joining>>
    BY <1>1 DEF ChangeMemberRole
  <2>5. /\ invitation' \in [Invitation -> InvitationRow \cup {None}]
        /\ \A j \in Person : Joins(j) =>
             invitation'[joining[j].invitation] = InvitationOf(j) /\ InvitationOf(j).sender # q
    BY <2>4, RevokingKeepsTheAccepted
  <2>6. Owns(member, q) <=> (m.role = "OWNER" /\ m.status = "ACTIVE")
    BY <1>0, <2>3 DEF Owns
  <2>. QED
    BY <1>0, <2>3, <2>4, <2>5, <2>6, MembershipChanges
<1>2. CASE Suspend(p, q)
  <2>1. PICK m \in Membership : m = [member[q] EXCEPT !.status = "SUSPENDED"]
    BY <1>0 DEF Membership
  <2>2. m.role # "OWNER" /\ member' = [member EXCEPT ![q] = m]
    BY <1>0, <1>2, <2>1 DEF Suspend, Membership
  <2>3. RevokeInvitationsFrom(q) /\ UNCHANGED <<counter, joining>>
    BY <1>2 DEF Suspend
  <2>. QED
    BY <1>0, <2>2, <2>3, RevokingKeepsTheAccepted, MembershipChanges DEF Owns
<1>3. CASE Reactivate(p, q)
  <2>1. PICK m \in Membership : m = [member[q] EXCEPT !.status = "ACTIVE"]
    BY <1>0 DEF Membership
  <2>2. m.role # "OWNER" /\ m.status = "ACTIVE" /\ member' = [member EXCEPT ![q] = m]
    BY <1>0, <1>3, <2>1 DEF Reactivate, Membership
  <2>3. UNCHANGED <<invitation, counter, joining>>
    BY <1>3 DEF Reactivate
  <2>4. /\ invitation' \in [Invitation -> InvitationRow \cup {None}]
        /\ \A j \in Person : Joins(j) => invitation'[joining[j].invitation] = InvitationOf(j)
    BY <2>3 DEF MInv, MembersTypeOK, InvitationOf
  <2>. QED
    BY <1>0, <2>2, <2>3, <2>4, MembershipChanges DEF Owns
<1>4. CASE RemoveMember(p, q)
  <2>1. /\ RevokeInvitationsFrom(q) /\ ReleaseSeat
        /\ member' = [member EXCEPT ![q] = None] /\ UNCHANGED joining
    BY <1>4 DEF RemoveMember
  <2>2. counter' \in Nat \cup {None}
    BY <2>1, MembersAssumption DEF ReleaseSeat, MInv, MembersTypeOK
  <2>3. MembersTypeOK'
    BY <1>0, <2>1, <2>2, AnswerIsTyped, RevokingKeepsTheAccepted DEF MInv, MembersTypeOK
  <2>4. OwnerStays'
    <3>1. \A j \in Person : Owns(member', j) <=> Owns(member, j)
      BY <1>0, <2>1 DEF MInv, MembersTypeOK, Owns
    <3>. QED
      BY <3>1, SameOwner DEF MInv
  <2>. QED
    BY <1>0, <2>1, <2>3, <2>4, RevokingKeepsTheAccepted, MemberGoes
<1>. QED
  BY <1>1, <1>2, <1>3, <1>4

LEMMA TransferKeeps ==
  ASSUME MInv, NEW p \in Person, NEW q \in Person, TransferOwnership(p, q)
  PROVE  MInv' /\ SuspendedInviteNobodyNow
<1>1. /\ p \in Members /\ q \in Members /\ p # q
      /\ Owns(member, p) /\ member[q].role = "ADMIN" /\ member[q].status = "ACTIVE"
      /\ Answered(p) /\ UNCHANGED <<invitation, counter, joining>>
  BY DEF TransferOwnership, Active, Owns, Members
<1>2. PICK old \in Membership, new \in Membership :
        old = [member[p] EXCEPT !.role = "ADMIN"] /\ new = [member[q] EXCEPT !.role = "OWNER"]
  BY <1>1, MemberRowsAreTyped DEF MInv, Membership, Role
<1>3. /\ old.role = "ADMIN" /\ old.status = "ACTIVE"
      /\ new.role = "OWNER" /\ new.status = "ACTIVE"
      /\ old # None /\ new # None
  BY <1>1, <1>2, MemberRowsAreTyped, NoMembershipAssumption DEF MInv, Membership, Owns
<1>4. /\ member' \in [Person -> Membership \cup {None}]
      /\ member'[p] = old /\ member'[q] = new
      /\ \A j \in Person : j # p /\ j # q => member'[j] = member[j]
  BY <1>1, <1>2 DEF TransferOwnership, MInv, MembersTypeOK
<1>5. MembersTypeOK'
  BY <1>1, <1>4, AnswerIsTyped DEF MInv, MembersTypeOK
<1>6. \A j \in Person : Owns(member, j) => j = p
  BY <1>1, OwnerIsOne DEF MInv, OwnerStays
<1>7. \A j \in Person : Owns(member', j) <=> j = q
  BY <1>1, <1>3, <1>4, <1>6 DEF Owns
<1>8. OwnerStays'
  BY <1>7, OneIsOwner DEF OwnerStays
<1>9. Members' = Members
  BY <1>1, <1>3, <1>4 DEF Members
<1>10. \A j \in Person : Joins(j) =>
         /\ invitation'[joining[j].invitation] = InvitationOf(j)
         /\ Active(InvitationOf(j).sender) => member'[InvitationOf(j).sender].status = "ACTIVE"
  BY <1>1, <1>3, <1>4, MemberRowsAreTyped DEF MInv, InvitationOf, Active
<1>. QED
  BY <1>1, <1>5, <1>8, <1>9, <1>10, SameMembers

LEMMA LeaveKeeps ==
  ASSUME MInv, NEW p \in Person, LeaveOrganisation(p)
  PROVE  MInv' /\ SuspendedInviteNobodyNow
<1>1. /\ p \in Members /\ member' = [member EXCEPT ![p] = None] /\ ReleaseSeat /\ OwnerStays'
      /\ UNCHANGED <<invitation, joining>>
  BY DEF LeaveOrganisation, OwnerStays
<1>2. counter' \in Nat \cup {None}
  BY <1>1, MembersAssumption DEF ReleaseSeat, MInv, MembersTypeOK
<1>3. MembersTypeOK'
  BY <1>1, <1>2, AnswerIsTyped DEF LeaveOrganisation, MInv, MembersTypeOK
<1>4. \A j \in Person : Joins(j) => invitation'[joining[j].invitation] = InvitationOf(j)
  BY <1>1 DEF InvitationOf
<1>. QED
  BY <1>1, <1>3, <1>4, MemberGoes

LEMMA BeginAcceptKeeps ==
  ASSUME MInv, NEW p \in Person, BeginAccept(p)
  PROVE  MInv' /\ SuspendedInviteNobodyNow
<1>1. /\ UNCHANGED <<member, invitation, counter, context>>
      /\ ~Joins(p) /\ p \notin Members
  BY DEF BeginAccept, Joins
<1>2. PICK i \in Pending \ BeingAccepted :
        /\ Active(invitation[i].sender)
        /\ joining' = [joining EXCEPT ![p] =
             [invitation |-> i,
              counted |-> IF counter = None THEN Cardinality(Members) ELSE None]]
  BY DEF BeginAccept
<1>3. PICK c : c = IF counter = None THEN Cardinality(Members) ELSE None
  OBVIOUS
<1>4. Cardinality(Members) \in Nat /\ c \in Nat \cup {None}
  BY <1>3, MemberRowsAreTyped, MembersAreCounted DEF MInv
<1>5. PICK join \in Joining : join = [invitation |-> i, counted |-> c]
  BY <1>2, <1>4 DEF Joining, Pending
<1>6. /\ joining' \in [Person -> Joining \cup {None}]
      /\ joining'[p] = join /\ join.invitation = i /\ join.counted = c
      /\ \A j \in Person : j # p => joining'[j] = joining[j]
  BY <1>2, <1>3, <1>5 DEF MInv, MembersTypeOK
<1>7. MembersTypeOK' /\ SeatsAreNotOversold' /\ OwnerStays' /\ Members' = Members
  BY <1>1, <1>6
  DEF MInv, MembersTypeOK, SeatsAreNotOversold, OwnerStays, HasOneOwner, Members
<1>8. \A j \in Person : j # p /\ Joins(j)' => Joins(j) /\ joining'[j] = joining[j]
  BY <1>6 DEF Joins
<1>9. JoinersAreInvited'
  <2>1. \A x \in Members : Active(x) => Active(x)'
    BY <1>1, <1>7 DEF Active
  <2>2. /\ InvitationOf(p)' = invitation[i] /\ invitation[i] # None
        /\ p \notin Members' /\ Active(invitation[i].sender)
        /\ invitation[i].sender \in Members
    BY <1>1, <1>2, <1>6, <1>7 DEF InvitationOf, Pending, Active
  <2>3. ASSUME NEW j \in Person, j # p, Joins(j)'
        PROVE  /\ j \notin Members' /\ InvitationOf(j)' = InvitationOf(j)
               /\ InvitationOf(j) # None
               /\ InvitationOf(j).sender \in Members => Active(InvitationOf(j).sender)
    BY <1>1, <1>7, <1>8, <2>3 DEF MInv, JoinersAreInvited, InvitationOf
  <2>. QED
    BY <1>7, <2>1, <2>2, <2>3 DEF JoinersAreInvited, Active
<1>10. InvitationsAreClaimedOnce'
  <2>1. \A j \in Person : Joins(j) => joining[j].invitation # i
    BY <1>2 DEF BeingAccepted, Joins
  <2>. QED
    BY <1>6, <1>8, <2>1 DEF MInv, InvitationsAreClaimedOnce
<1>11. CountIsEnough'
  <2>1. ASSUME counter = None PROVE c # None /\ Cardinality(Members) <= c
    BY <1>3, <1>4, <2>1, MembersAssumption
  <2>. QED
    BY <1>1, <1>6, <1>7, <1>8, <2>1 DEF MInv, CountIsEnough
<1>. QED
  BY <1>1, <1>7, <1>9, <1>10, <1>11 DEF MInv, SuspendedInviteNobodyNow

LEMMA AcceptKeeps ==
  ASSUME MInv, NEW p \in Person, Accept(p)
  PROVE  MInv' /\ SuspendedInviteNobodyNow
<1>1. PICK join \in Joining : join = joining[p]
  BY MemberRowsAreTyped DEF MInv, Accept, Joins
<1>2. /\ Joins(p) /\ p \notin Members /\ InvitationOf(p) # None
      /\ InvitationOf(p).sender \in Members => Active(InvitationOf(p).sender)
  BY DEF Accept, Joins, MInv, JoinersAreInvited
<1>3. Cardinality(Members) \in Nat
  BY MemberRowsAreTyped, MembersAreCounted DEF MInv
<1>4. Used(join) \in Nat /\ Cardinality(Members) <= Used(join)
  <2>1. CASE counter = None
    BY <1>1, <1>2, <2>1, MemberRowsAreTyped DEF MInv, CountIsEnough, Used
  <2>2. CASE counter # None
    BY <2>2 DEF MInv, MembersTypeOK, SeatsAreNotOversold, Used
  <2>. QED
    BY <2>1, <2>2
<1>5. PICK i \in Pending : i = joining[p].invitation
  BY <1>2, MemberRowsAreTyped DEF MInv, InvitationOf, Pending
<1>6. PICK m \in Membership : m = [role |-> invitation[i].role, status |-> "ACTIVE"]
  BY MemberRowsAreTyped DEF MInv, Membership, Role
<1>7. m.role # "OWNER" /\ m # None
  BY <1>6, MemberRowsAreTyped, NoMembershipAssumption DEF MInv
<1>8. /\ Used(join) + 1 <= Seats /\ counter' = Used(join) + 1
      /\ member' = [member EXCEPT ![p] = m]
      /\ invitation' = Over({i})
      /\ joining' = [joining EXCEPT ![p] = None] /\ UNCHANGED context
  BY <1>1, <1>5, <1>6 DEF Accept
<1>9. /\ member'[p] = m /\ \A j \in Person : j # p => member'[j] = member[j]
      /\ ~Joins(p)' /\ \A j \in Person : j # p => joining'[j] = joining[j]
      /\ \A j \in Invitation : j # i => invitation'[j] = invitation[j]
  BY <1>8 DEF MInv, MembersTypeOK, Over, Joins
<1>10. MembersTypeOK'
  BY <1>4, <1>8 DEF MInv, MembersTypeOK, Over
<1>11. Members' = Members \cup {p}
  BY <1>7, <1>9 DEF Members
<1>12. Cardinality(Members') <= Cardinality(Members) + 1 /\ Cardinality(Members') \in Nat
  BY <1>10, <1>11, OneMemberComes, MemberRowsAreTyped, MembersAreCounted DEF MInv, MembersTypeOK, Members
<1>13. SeatsAreNotOversold'
  BY <1>3, <1>4, <1>8, <1>12, MembersAssumption DEF SeatsAreNotOversold
<1>14. OwnerStays'
  <2>1. \A j \in Person : Owns(member', j) <=> Owns(member, j)
    BY <1>2, <1>7, <1>9 DEF Owns, Members
  <2>. QED
    BY <2>1, SameOwner DEF MInv
<1>15. \A j \in Person : Joins(j)' =>
         j # p /\ Joins(j) /\ joining'[j] = joining[j] /\ joining[j].invitation # i
  BY <1>2, <1>5, <1>9 DEF Joins, MInv, InvitationsAreClaimedOnce
<1>16. JoinersAreInvited'
  <2>1. ASSUME NEW j \in Person, Joins(j)'
        PROVE  /\ j \notin Members'
               /\ InvitationOf(j)' = InvitationOf(j) /\ InvitationOf(j) # None
               /\ InvitationOf(j).sender \in Members => Active(InvitationOf(j).sender)
    BY <1>9, <1>11, <1>15, <2>1, MemberRowsAreTyped DEF MInv, JoinersAreInvited, InvitationOf
  <2>2. \A j \in Members' : (j \in Members => Active(j)) => Active(j)'
    BY <1>2, <1>6, <1>9, <1>11, MemberRowsAreTyped DEF MInv, Active
  <2>. QED
    BY <2>1, <2>2 DEF JoinersAreInvited
<1>17. InvitationsAreClaimedOnce'
  BY <1>15 DEF MInv, InvitationsAreClaimedOnce
<1>18. CountIsEnough'
  BY <1>4, <1>8, MembersAssumption DEF CountIsEnough
<1>19. SuspendedInviteNobodyNow
  BY <1>2, <1>9 DEF SuspendedInviteNobodyNow, InvitationOf
<1>. QED
  BY <1>10, <1>13, <1>14, <1>16, <1>17, <1>18, <1>19 DEF MInv

LEMMA AcceptFailsKeeps ==
  ASSUME MInv, NEW p \in Person, AcceptFails(p)
  PROVE  MInv' /\ SuspendedInviteNobodyNow
<1>1. /\ UNCHANGED <<member, invitation, counter, context>>
      /\ joining' = [joining EXCEPT ![p] = None]
  BY DEF AcceptFails
<1>2. \A j \in Person : Joins(j)' => Joins(j) /\ joining'[j] = joining[j]
  BY <1>1 DEF Joins, MInv, MembersTypeOK
<1>3. MembersTypeOK' /\ SeatsAreNotOversold' /\ OwnerStays' /\ Members' = Members
  BY <1>1 DEF MInv, MembersTypeOK, SeatsAreNotOversold, OwnerStays, HasOneOwner, Members
<1>4. JoinersAreInvited'
  <2>1. ASSUME NEW j \in Person, Joins(j)'
        PROVE  Joins(j) /\ InvitationOf(j)' = InvitationOf(j)
    <3>1. Joins(j) /\ joining'[j] = joining[j] /\ invitation' = invitation
      BY <1>1, <1>2, <2>1
    <3>. QED
      BY <3>1 DEF InvitationOf
  <2>2. \A q \in Members : Active(q)' <=> Active(q)
    <3>1. Members' = Members /\ member' = member
      BY <1>1, <1>3
    <3>. QED
      BY <3>1 DEF Active
  <2>. QED
    BY <1>3, <2>1, <2>2 DEF MInv, JoinersAreInvited
<1>5. InvitationsAreClaimedOnce' /\ CountIsEnough'
  BY <1>1, <1>2, <1>3 DEF MInv, InvitationsAreClaimedOnce, CountIsEnough
<1>. QED
  BY <1>1, <1>3, <1>4, <1>5 DEF MInv, SuspendedInviteNobodyNow

LEMMA ReconcileKeeps ==
  ASSUME MInv, ReconcileUsage
  PROVE  MInv' /\ SuspendedInviteNobodyNow
<1>1. /\ UNCHANGED <<member, invitation, context, joining>>
      /\ counter' = Cardinality(Members) /\ Cardinality(Members) \in Nat
  BY MemberRowsAreTyped, MembersAreCounted DEF ReconcileUsage, MInv
<1>2. Members' = Members /\ counter' # None
  BY <1>1, MembersAssumption DEF Members
<1>3. MembersTypeOK' /\ SeatsAreNotOversold' /\ OwnerStays'
  BY <1>1, <1>2 DEF MInv, MembersTypeOK, SeatsAreNotOversold, OwnerStays, HasOneOwner
<1>4. JoinersAreInvited'
  BY <1>1, <1>2 DEF MInv, JoinersAreInvited, InvitationOf, Active, Joins
<1>5. InvitationsAreClaimedOnce' /\ CountIsEnough'
  BY <1>1, <1>2 DEF MInv, InvitationsAreClaimedOnce, CountIsEnough, Joins
<1>. QED
  BY <1>1, <1>3, <1>4, <1>5 DEF MInv, SuspendedInviteNobodyNow

\* Every step keeps the invariant, and lets nobody join for somebody suspended.
LEMMA MembersStepKeeps ==
  ASSUME MInv, [MembersNext]_memberVars
  PROVE  MInv' /\ SuspendedInviteNobodyNow
<1>1. CASE UNCHANGED memberVars
  <2>1. /\ context' \in [Person -> Role \cup {None}]
        /\ invitation' \in [Invitation -> InvitationRow \cup {None}]
        /\ \A p \in Person : Joins(p) => invitation'[joining[p].invitation] = InvitationOf(p)
    BY <1>1 DEF memberVars, MInv, MembersTypeOK, InvitationOf
  <2>. QED
    BY <1>1, <2>1, RequestKeeps DEF memberVars
<1>2. ASSUME NEW i \in Invitation, InvitationLapses(i) PROVE MInv' /\ SuspendedInviteNobodyNow
  BY <1>2, MembersAssumption, RequestsKeep
<1>. QED
  BY <1>1, <1>2, RequestsKeep, CreateInvitationKeeps, ManagingKeeps, TransferKeeps, LeaveKeeps,
     BeginAcceptKeeps, AcceptKeeps, AcceptFailsKeeps, ReconcileKeeps
  DEF MembersNext, Acts

-----------------------------------------------------------------------------
(* Theorems.                                                               *)

\* The inductive invariant: who joins holds an invitation nobody else touches and, while
\* the counter is missing, a count that is high enough.
THEOREM MembersInvariance == MembersSpec => []MInv
BY MembersInitEstablishes, MembersStepKeeps, PTL DEF MembersSpec

\* Rows, the counter and open requests keep their types.
THEOREM MembersTypeCorrectness == MembersSpec => []MembersTypeOK
BY MembersInvariance, PTL DEF MInv

\* "N parallel requests against a limit L succeed exactly L times" (consumeUsage): there
\* are never more members than seats, for any people and seats.
THEOREM SeatsHold == MembersSpec => []SeatsAreNotOversold
BY MembersInvariance, PTL DEF MInv

\* The organisation always has exactly one active owner (leaveOrganisation,
\* transferOwnership and the constraint they commit under).
THEOREM OneOwner == MembersSpec => []OwnerStays
BY MembersInvariance, PTL DEF MInv

\* "An invitation doesn't outlive the inviter's own access" (acceptInvitation).
THEOREM InvitationsEndWithAccess == MembersSpec => SuspendedInviteNobody
<1>1. MInv /\ [MembersNext]_memberVars => [SuspendedInviteNobodyNow]_memberVars
  BY MembersStepKeeps
<1>. QED
  BY <1>1, MembersInvariance, PTL DEF MembersSpec, SuspendedInviteNobody, SuspendedInviteNobodyNow

-----------------------------------------------------------------------------
(* Billing.                                                                *)

\* At most one subscription is live (a partial unique index on organisationId).
OneLive == \A s, t \in Live : s = t

\* No row was synced by a change that has yet to come.
RowsAreBehind == \A s \in Subscription : row[s] # NoRow => row[s].synced <= Len(changes)

\* An open transaction's subscription has no row yet, and the one it found has.
ApplicationsHold ==
  \A s \in Ref : applying[s] # NoRow =>
    /\ row[s] = NoRow
    /\ applying[s].event \in EventsOf(s)
    /\ applying[s].live # NoRow => row[applying[s].live] # NoRow

BInv == BillingTypeOK /\ OneLive /\ RowsAreBehind /\ ApplicationsHold

\* What OlderNeverWins and ExpiredIsFinal say of one step.
OlderLoses == \A s \in Live, t \in Live' : row[s].synced <= row'[t].synced

EndedStays ==
  \A s \in Ref : row[s] # NoRow /\ row[s].status = "EXPIRED" => row'[s] = row[s]

HistoryIsKept == BInv' /\ OlderLoses /\ EndedStays

-----------------------------------------------------------------------------

\* Events are changes the provider made, and keep their place when more come.
LEMMA EventsAreTyped ==
  ASSUME BillingTypeOK
  PROVE  /\ changes \in Seq(Event \cup {NoRow})
         /\ Len(changes) \in Nat /\ Len(changes) <= MaxChanges
         /\ DOMAIN changes = 1..Len(changes)
         /\ \A v \in Events : /\ v \in 1..MaxChanges /\ v <= Len(changes)
                              /\ changes[v] \in Event
                              /\ changes[v].ref \in Ref /\ changes[v].status \in Status
                              /\ Mirror(v) \in Row
                              /\ Mirror(v).status = changes[v].status
                              /\ Mirror(v).synced = v
<1>1. /\ changes \in Seq(Event \cup {NoRow}) /\ Len(changes) \in Nat /\ Len(changes) <= MaxChanges
      /\ DOMAIN changes = 1..Len(changes)
  BY DEF BillingTypeOK
<1>2. ASSUME NEW v \in Events
      PROVE  v \in 1..MaxChanges /\ v <= Len(changes) /\ changes[v] \in Event
  BY <1>1, <1>2, BillingAssumption DEF Events
<1>. QED
  BY <1>1, <1>2, BillingAssumption DEF Event, Mirror, Row

\* The log of the provider only grows at its end.
LEMMA LogGrows ==
  ASSUME BillingTypeOK, Len(changes) < MaxChanges,
         NEW e \in Event \cup {NoRow}, changes' = Append(changes, e)
  PROVE  /\ changes' \in Seq(Event \cup {NoRow})
         /\ Len(changes') = Len(changes) + 1 /\ Len(changes') <= MaxChanges
         /\ \A s \in Ref : EventsOf(s) \subseteq EventsOf(s)'
<1>1. /\ changes' \in Seq(Event \cup {NoRow}) /\ Len(changes') = Len(changes) + 1
      /\ DOMAIN changes' = 1..(Len(changes) + 1)
      /\ \A v \in 1..Len(changes) : changes'[v] = changes[v]
  BY EventsAreTyped
<1>2. \A s \in Ref : EventsOf(s) \subseteq EventsOf(s)'
  BY <1>1, EventsAreTyped DEF EventsOf, Events
<1>. QED
  BY <1>1, <1>2, EventsAreTyped, BillingAssumption

\* Rows that are there have their columns.
LEMMA BillingRowsAreTyped ==
  ASSUME BillingTypeOK
  PROVE  \A s \in Subscription : row[s] # NoRow =>
           row[s] \in Row /\ row[s].status \in Status /\ row[s].synced \in 1..MaxChanges
BY DEF BillingTypeOK, Row

\* A row that ends still is one.
LEMMA EndedIsTyped ==
  ASSUME BillingTypeOK, NEW v \in Events, NEW s \in Subscription, row[s] \in Row
  PROVE  Ended(s, Len(changes)) \in Row
<1>1. Len(changes) \in 1..MaxChanges
  BY EventsAreTyped
<1>. QED
  BY <1>1 DEF Ended, Row, Status

\* One row is written, not of a provider's that had ended: by a change that has come,
\* either ending it or for what was the only live one or none.
LEMMA OneRowIsWritten ==
  ASSUME BInv, NEW s \in Subscription, NEW r \in Row,
         row' = [row EXCEPT ![s] = r],
         s \in Ref /\ row[s] # NoRow => row[s].status # "EXPIRED",
         r.status = "EXPIRED"
           \/ (Live \subseteq {s} /\ (row[s] # NoRow => row[s].synced <= r.synced)),
         changes' \in Seq(Event \cup {NoRow}),
         Len(changes) <= Len(changes'), Len(changes') <= MaxChanges,
         r.synced <= Len(changes'),
         \A t \in Ref : EventsOf(t) \subseteq EventsOf(t)',
         ledger' \in [1..MaxChanges -> {NoRow, "FAILED", "PROCESSED", "IGNORED"}],
         UNCHANGED applying,
         s \in Ref => applying[s] = NoRow
  PROVE  HistoryIsKept
<1>1. /\ row \in [Subscription -> Row \cup {NoRow}]
      /\ row' \in [Subscription -> Row \cup {NoRow}]
      /\ row'[s] = r /\ \A t \in Subscription : t # s => row'[t] = row[t]
  BY DEF BInv, BillingTypeOK
<1>2. BillingTypeOK'
  BY <1>1 DEF BInv, BillingTypeOK
<1>3. Live' \subseteq Live \cup {s}
  BY <1>1 DEF Live
<1>4. OneLive' /\ OlderLoses
  <2>1. CASE r.status = "EXPIRED"
    <3>1. Live' \subseteq Live /\ s \notin Live'
      BY <1>1, <2>1 DEF Live
    <3>2. \A t \in Live' : row'[t] = row[t] /\ row[t].synced \in Int
      BY <1>1, <3>1, BillingRowsAreTyped DEF BInv, Live
    <3>. QED
      BY <3>1, <3>2 DEF BInv, OneLive, OlderLoses
  <2>2. CASE Live \subseteq {s} /\ (row[s] # NoRow => row[s].synced <= r.synced)
    <3>1. Live' \subseteq {s}
      BY <1>3, <2>2
    <3>2. \A t \in Live : row[t].synced <= r.synced
      BY <2>2 DEF Live
    <3>. QED
      BY <1>1, <3>1, <3>2 DEF OneLive, OlderLoses
  <2>. QED
    BY <2>1, <2>2
<1>5. RowsAreBehind'
  <2>1. \A t \in Subscription : row[t] # NoRow => row[t].synced <= Len(changes')
    BY BillingRowsAreTyped, EventsAreTyped DEF BInv, RowsAreBehind
  <2>. QED
    BY <1>1, <2>1 DEF RowsAreBehind
<1>6. ApplicationsHold'
  <2>1. \A t \in Ref : applying[t] # NoRow => t # s
    OBVIOUS
  <2>2. r # NoRow
    BY NoRowAssumption
  <2>3. \A t \in Ref : applying[t] # NoRow /\ applying[t].live # NoRow =>
          applying[t].live \in Subscription
    BY DEF BInv, BillingTypeOK, Application
  <2>. QED
    BY <1>1, <2>1, <2>2, <2>3 DEF BInv, ApplicationsHold, Subscription
<1>7. EndedStays
  BY <1>1 DEF EndedStays, Subscription
<1>. QED
  BY <1>2, <1>4, <1>5, <1>6, <1>7 DEF HistoryIsKept, BInv

\* No row is written.
LEMMA RowsAreKept ==
  ASSUME BInv, UNCHANGED row, BillingTypeOK',
         Len(changes) <= Len(changes'), ApplicationsHold'
  PROVE  HistoryIsKept
<1>1. UNCHANGED Live
  BY DEF Live
<1>2. OneLive' /\ OlderLoses /\ EndedStays
  BY <1>1, BillingRowsAreTyped DEF BInv, OneLive, OlderLoses, EndedStays, Live
<1>3. RowsAreBehind'
  BY BillingRowsAreTyped, EventsAreTyped DEF BInv, RowsAreBehind, BillingTypeOK
<1>. QED
  BY <1>2, <1>3 DEF HistoryIsKept, BInv

-----------------------------------------------------------------------------
(* The steps.                                                              *)

\* An organisation starts without a subscription.
LEMMA BillingInitEstablishes ==
  ASSUME BillingInit
  PROVE  BInv
<1>1. changes \in Seq(Event \cup {NoRow}) /\ Len(changes) = 0
  BY DEF BillingInit
<1>2. BillingTypeOK
  BY <1>1, BillingAssumption DEF BillingInit, BillingTypeOK
<1>3. Live = {} /\ \A s \in Subscription : row[s] = NoRow
  BY DEF BillingInit, Live
<1>. QED
  BY <1>2, <1>3 DEF BillingInit, BInv, OneLive, RowsAreBehind, ApplicationsHold

\* An event in the ledger is settled one way or the other.
LEMMA SettleIsTyped ==
  ASSUME BillingTypeOK, NEW v, NEW status \in {"FAILED", "PROCESSED", "IGNORED"},
         Settle(v, status)
  PROVE  ledger' \in [1..MaxChanges -> {NoRow, "FAILED", "PROCESSED", "IGNORED"}]
BY DEF Settle, BillingTypeOK

\* Some event is the newest.
LEMMA SomeIsNewest ==
  ASSUME NEW n \in Nat, NEW V, V \subseteq 1..n, V # {}
  PROVE  \E v \in V : \A u \in V : u <= v
<1> DEFINE T == {n - v : v \in V}
           Less == OpToRel(<, Nat)
<1>1. \A v \in V : v \in Int /\ n - v \in Nat
  OBVIOUS
<1>2. T \subseteq Nat /\ T # {}
  BY <1>1
<1>3. IsWellFoundedOn(Less, Nat)
  BY NatLessThanWellFounded
<1>4. \A x, y \in Nat : x < y => <<x, y>> \in Less
  BY DEF OpToRel
<1> HIDE DEF Less
<1>5. PICK x \in T : \A y \in T : ~(<<y, x>> \in Less)
  BY <1>2, <1>3, WFMin
<1>6. PICK v \in V : x = n - v
  BY <1>5
<1>7. \A u \in V : ~(n - u < n - v)
  BY <1>1, <1>2, <1>4, <1>5, <1>6
<1>. QED
  BY <1>1, <1>7

\* An open application is of an event, and where it found a live subscription that one
\* has a row.
LEMMA ApplicationsAreTyped ==
  ASSUME BInv, NEW s \in Ref, applying[s] # NoRow
  PROVE  /\ row[s] = NoRow
         /\ applying[s].event \in Events /\ changes[applying[s].event].ref = s
         /\ applying[s].live # NoRow =>
              /\ applying[s].live \in Subscription
              /\ row[applying[s].live] \in Row
              /\ applying[s].live # s
<1>1. applying[s].event \in EventsOf(s) /\ row[s] = NoRow
  BY DEF BInv, ApplicationsHold
<1>2. applying[s].live # NoRow => applying[s].live \in Subscription
  BY DEF BInv, BillingTypeOK, Application
<1>3. applying[s].live # NoRow => row[applying[s].live] # NoRow
  BY DEF BInv, ApplicationsHold
<1>. QED
  BY <1>1, <1>2, <1>3, BillingRowsAreTyped DEF BInv, EventsOf

\* Transactions end, events come, rows stay.
LEMMA FewerApplications ==
  ASSUME BInv, UNCHANGED row,
         \A t \in Ref : applying'[t] \in {applying[t], NoRow},
         \A t \in Ref : EventsOf(t) \subseteq EventsOf(t)'
  PROVE  ApplicationsHold'
BY DEF BInv, ApplicationsHold

LEMMA ProviderChangesKeeps ==
  ASSUME BInv, NEW s \in Ref, ProviderChanges(s)
  PROVE  HistoryIsKept
<1>1. PICK status \in Transitions[AtProvider(s)] :
        changes' = Append(changes, [ref |-> s, status |-> status])
  BY DEF ProviderChanges
<1>2. AtProvider(s) \in Status \cup {"NONE"}
  <2>1. \A v \in EventsOf(s) : changes[v].status \in Status
    BY EventsAreTyped DEF BInv, EventsOf
  <2>2. CASE EventsOf(s) = {}
    BY <2>2 DEF AtProvider
  <2>3. CASE EventsOf(s) # {}
    <3>1. PICK n \in Nat : n = Len(changes)
      BY EventsAreTyped, BillingAssumption DEF BInv
    <3>2. EventsOf(s) \subseteq 1..n
      BY <3>1, EventsAreTyped DEF BInv, EventsOf
    <3>3. \E v \in EventsOf(s) : \A u \in EventsOf(s) : u <= v
      BY <2>3, <3>2, SomeIsNewest
    <3>. QED
      BY <2>1, <2>3, <3>3 DEF AtProvider, Newest
  <2>. QED
    BY <2>2, <2>3
<1>3. status \in Status
  BY <1>1, <1>2 DEF Transitions, Status
<1>4. PICK e \in Event : e = [ref |-> s, status |-> status]
  BY <1>3 DEF Event
<1>5. /\ changes' \in Seq(Event \cup {NoRow}) /\ Len(changes') <= MaxChanges
      /\ Len(changes) <= Len(changes')
      /\ \A t \in Ref : EventsOf(t) \subseteq EventsOf(t)'
  <2>1. changes' = Append(changes, e) /\ Len(changes) < MaxChanges
    BY <1>1, <1>4 DEF ProviderChanges
  <2>. QED
    BY <2>1, LogGrows, EventsAreTyped DEF BInv
<1>6. UNCHANGED <<ledger, row, applying>>
  BY DEF ProviderChanges
<1>7. BillingTypeOK'
  BY <1>5, <1>6 DEF BInv, BillingTypeOK
<1>8. ApplicationsHold'
  BY <1>5, <1>6, FewerApplications
<1>. QED
  BY <1>5, <1>6, <1>7, <1>8, RowsAreKept

\* A transaction that only settles an event, and may be of an open application.
LEMMA SettlingKeeps ==
  ASSUME BInv, NEW v, NEW status \in {"FAILED", "PROCESSED", "IGNORED"}, Settle(v, status),
         UNCHANGED <<changes, row>>,
         applying' \in [Ref -> Application \cup {NoRow}],
         \A t \in Ref : applying'[t] \in {applying[t], NoRow}
  PROVE  HistoryIsKept
<1>1. BillingTypeOK'
  BY SettleIsTyped DEF BInv, BillingTypeOK
<1>2. \A t \in Ref : EventsOf(t) \subseteq EventsOf(t)'
  BY DEF EventsOf, Events
<1>3. ApplicationsHold'
  BY <1>2, FewerApplications
<1>. QED
  BY <1>1, <1>3, RowsAreKept, EventsAreTyped, BillingAssumption DEF BInv

LEMMA ApplyEventKeeps ==
  ASSUME BInv, NEW v, ApplyEvent(v)
  PROVE  HistoryIsKept
<1>1. PICK s \in Ref : s = changes[v].ref
  BY EventsAreTyped DEF BInv, ApplyEvent, Deliverable
<1>2. /\ v \in Events /\ applying[s] = NoRow /\ row[s] # NoRow /\ s \in Subscription
      /\ UNCHANGED <<changes, applying>>
  BY <1>1 DEF ApplyEvent, Deliverable, Subscription
<1>3. CASE Settle(v, "IGNORED") /\ UNCHANGED row
  BY <1>2, <1>3, SettlingKeeps DEF BInv, BillingTypeOK
<1>4. CASE /\ ~Stale(s, v)
           /\ TransitionAllowed(s, changes[v].status)
           /\ row' = [row EXCEPT ![s] = Mirror(v)]
           /\ Settle(v, "PROCESSED")
  <2>1. PICK r \in Row : r = Mirror(v)
    BY <1>2, EventsAreTyped DEF BInv
  <2>2. r.status = changes[v].status /\ r.synced = v /\ v \in 1..MaxChanges /\ v <= Len(changes)
    BY <1>2, <2>1, EventsAreTyped DEF BInv
  <2>3. row[s].status # "EXPIRED"
    BY <1>4 DEF TransitionAllowed, Transitions
  <2>4. row[s].synced <= r.synced
    BY <1>2, <1>4, <2>2, BillingRowsAreTyped DEF BInv, Stale
  <2>5. Live \subseteq {s}
    BY <1>2, <2>3 DEF BInv, OneLive, Live
  <2>6. ledger' \in [1..MaxChanges -> {NoRow, "FAILED", "PROCESSED", "IGNORED"}]
    BY <1>4, SettleIsTyped DEF BInv
  <2>7. \A t \in Ref : EventsOf(t) \subseteq EventsOf(t)'
    BY <1>2 DEF EventsOf, Events
  <2>8. row' = [row EXCEPT ![s] = r]
    BY <1>4, <2>1
  <2>9. /\ changes' \in Seq(Event \cup {NoRow})
        /\ Len(changes) <= Len(changes') /\ Len(changes') <= MaxChanges
        /\ r.synced <= Len(changes')
    BY <1>2, <2>2, EventsAreTyped DEF BInv
  <2>. QED
    BY <1>2, <2>2, <2>3, <2>4, <2>5, <2>6, <2>7, <2>8, <2>9,
       OneRowIsWritten
<1>. QED
  BY <1>1, <1>3, <1>4 DEF ApplyEvent

LEMMA ApplyTombstoneKeeps ==
  ASSUME BInv, NEW v, ApplyTombstone(v)
  PROVE  HistoryIsKept
<1>1. PICK s \in Ref : s = changes[v].ref
  BY EventsAreTyped DEF BInv, ApplyTombstone, Deliverable
<1>2. /\ v \in Events /\ applying[s] = NoRow /\ row[s] = NoRow /\ s \in Subscription
      /\ changes[v].status = "EXPIRED"
      /\ UNCHANGED <<changes, applying>>
  BY <1>1 DEF ApplyTombstone, Deliverable, Subscription
<1>3. PICK r \in Row : r = Mirror(v)
  BY <1>2, EventsAreTyped DEF BInv
<1>4. r.status = "EXPIRED" /\ r.synced = v /\ v \in 1..MaxChanges /\ v <= Len(changes)
  BY <1>2, <1>3, EventsAreTyped DEF BInv
<1>5. ledger' \in [1..MaxChanges -> {NoRow, "FAILED", "PROCESSED", "IGNORED"}]
  BY SettleIsTyped DEF BInv, ApplyTombstone
<1>6. \A t \in Ref : EventsOf(t) \subseteq EventsOf(t)'
  BY <1>2 DEF EventsOf, Events
<1>7. row' = [row EXCEPT ![s] = r]
  BY <1>1, <1>3 DEF ApplyTombstone
<1>8. /\ changes' \in Seq(Event \cup {NoRow})
      /\ Len(changes) <= Len(changes') /\ Len(changes') <= MaxChanges
      /\ r.synced <= Len(changes')
  BY <1>2, <1>4, EventsAreTyped DEF BInv
<1>. QED
  BY <1>2, <1>4, <1>5, <1>6, <1>7, <1>8, OneRowIsWritten

LEMMA FindLiveKeeps ==
  ASSUME BInv, NEW v, FindLive(v)
  PROVE  HistoryIsKept
<1>1. PICK s \in Ref : s = changes[v].ref
  BY EventsAreTyped DEF BInv, FindLive, Deliverable
<1>2. PICK old \in Live \cup {NoRow} :
        applying' = [applying EXCEPT ![s] = [event |-> v, live |-> old]]
  BY <1>1 DEF FindLive
<1>3. PICK a : a = [event |-> v, live |-> old]
  OBVIOUS
<1>4. v \in Events /\ v \in 1..MaxChanges /\ row[s] = NoRow /\ UNCHANGED <<changes, ledger, row>>
  BY <1>1, EventsAreTyped DEF BInv, FindLive, Deliverable
<1>5. a \in Application /\ a.event = v /\ a.live = old /\ (old # NoRow => row[old] # NoRow)
  BY <1>3, <1>4 DEF Application, Live
<1>6. BillingTypeOK'
  BY <1>2, <1>3, <1>4, <1>5 DEF BInv, BillingTypeOK
<1>7. v \in EventsOf(s) /\ \A t \in Ref : EventsOf(t)' = EventsOf(t)
  BY <1>1, <1>4 DEF EventsOf, Events
<1>8. applying'[s] = a /\ \A t \in Ref : t # s => applying'[t] = applying[t]
  BY <1>2, <1>3 DEF BInv, BillingTypeOK
<1>9. ApplicationsHold'
  BY <1>4, <1>5, <1>7, <1>8 DEF BInv, ApplicationsHold
<1>. QED
  BY <1>4, <1>6, <1>9, RowsAreKept, EventsAreTyped DEF BInv

\* The rest of applying a first event, which may also end what it found.
LEMMA ApplyFirstKeeps ==
  ASSUME BInv, NEW s \in Ref, ApplyFirst(s)
  PROVE  HistoryIsKept
<1>1. PICK v \in Events : v = applying[s].event
  BY ApplicationsAreTyped DEF ApplyFirst
<1>2. PICK old \in Subscription \cup {NoRow} : old = applying[s].live
  BY ApplicationsAreTyped DEF ApplyFirst
<1>3. /\ row[s] = NoRow /\ s \in Subscription
      /\ old # NoRow => row[old] \in Row /\ row[old] # NoRow /\ old # s /\ old \in Subscription
  BY <1>2, ApplicationsAreTyped, NoRowAssumption DEF ApplyFirst, Subscription
<1>4. PICK r \in Row : r = Mirror(v)
  BY EventsAreTyped DEF BInv
<1>5. r.synced = v /\ v \in 1..MaxChanges /\ v <= Len(changes)
  BY <1>4, EventsAreTyped DEF BInv
<1>6. /\ applying' = [applying EXCEPT ![s] = NoRow] /\ UNCHANGED changes
      /\ applying' \in [Ref -> Application \cup {NoRow}]
      /\ applying'[s] = NoRow /\ \A t \in Ref : t # s => applying'[t] = applying[t]
  BY DEF ApplyFirst, BInv, BillingTypeOK
<1>7. CASE \E status \in {"FAILED", "IGNORED"} : Settle(v, status) /\ UNCHANGED row
  BY <1>6, <1>7, SettlingKeeps
<1>8. ASSUME Settle(v, "PROCESSED"),
             row' \in [Subscription -> Row \cup {NoRow}],
             row'[s] = r,
             \A t \in Subscription \ {s, old} : row'[t] = row[t],
             old # NoRow => row'[old] = Ended(old, Len(changes)),
             Live' \subseteq {s},
             \A t \in Live : row[t].synced <= v,
             old # NoRow => row[old].status # "EXPIRED"
      PROVE  HistoryIsKept
  <2>1. BillingTypeOK'
    BY <1>6, <1>8, SettleIsTyped DEF BInv, BillingTypeOK
  <2>2. OneLive' /\ OlderLoses
    BY <1>5, <1>8 DEF OneLive, OlderLoses
  <2>3. old # NoRow =>
          /\ row'[old] \in Row /\ row'[old] # NoRow
          /\ row'[old].synced \in {row[old].synced, Len(changes)}
    <3>1. old # NoRow => Ended(old, Len(changes)) \in Row
      BY <1>1, <1>3, EndedIsTyped DEF BInv
    <3>2. old # NoRow => Ended(old, Len(changes)).synced \in {row[old].synced, Len(changes)}
      BY DEF Ended
    <3>. QED
      BY <1>8, <3>1, <3>2, NoRowAssumption
  <2>4. RowsAreBehind'
    <3>1. \A t \in Subscription \ {s, old} : row'[t] # NoRow => row'[t].synced <= Len(changes)
      BY <1>8 DEF BInv, RowsAreBehind
    <3>2. row'[s].synced <= Len(changes)
      BY <1>5, <1>8
    <3>3. old # NoRow => row'[old].synced <= Len(changes)
      BY <1>3, <2>3, EventsAreTyped DEF BInv, RowsAreBehind
    <3>. QED
      BY <1>6, <3>1, <3>2, <3>3, BillingAssumption DEF RowsAreBehind, Subscription
  <2>5. ApplicationsHold'
    <3>1. \A t \in Ref : EventsOf(t)' = EventsOf(t)
      BY <1>6 DEF EventsOf, Events
    <3>2. \A t \in Subscription : row[t] # NoRow => row'[t] # NoRow
      BY <1>3, <1>8, <2>3, NoRowAssumption, BillingAssumption DEF Subscription
    <3>3. ASSUME NEW t \in Ref, applying'[t] # NoRow
          PROVE  /\ row'[t] = NoRow
                 /\ applying[t] # NoRow /\ applying'[t] = applying[t]
      <4>1. t # s /\ applying'[t] = applying[t] /\ row[t] = NoRow /\ t \in Subscription
        BY <1>6, <3>3 DEF BInv, ApplicationsHold, Subscription
      <4>2. t # old
        BY <1>3, <4>1, BillingAssumption DEF Subscription
      <4>. QED
        BY <1>8, <3>3, <4>1, <4>2
    <3>4. ASSUME NEW t \in Ref, applying'[t] # NoRow
          PROVE  /\ applying'[t].event \in EventsOf(t)'
                 /\ applying'[t].live # NoRow => row'[applying'[t].live] # NoRow
      <4>1. applying[t] # NoRow /\ applying'[t] = applying[t]
        BY <3>3, <3>4
      <4>2. applying[t].event \in EventsOf(t)
        BY <4>1 DEF BInv, ApplicationsHold
      <4>3. applying[t].live # NoRow =>
              applying[t].live \in Subscription /\ row[applying[t].live] # NoRow
        BY <4>1, ApplicationsAreTyped, NoRowAssumption
      <4>. QED
        BY <3>1, <3>2, <4>1, <4>2, <4>3
    <3>. QED
      BY <3>3, <3>4 DEF ApplicationsHold
  <2>6. EndedStays
    <3>1. \A t \in Ref : t \in Subscription /\ t # NoRow
      BY BillingAssumption DEF Subscription
    <3>. QED
      BY <1>3, <1>8, <3>1 DEF EndedStays
  <2>. QED
    BY <2>1, <2>2, <2>4, <2>5, <2>6 DEF HistoryIsKept, BInv
<1>9. CASE /\ old = NoRow
           /\ Live = {}
           /\ row' = [row EXCEPT ![s] = Mirror(v)]
           /\ Settle(v, "PROCESSED")
  <2>1. /\ row' \in [Subscription -> Row \cup {NoRow}]
        /\ row'[s] = r /\ \A t \in Subscription : t # s => row'[t] = row[t]
    BY <1>3, <1>4, <1>9 DEF BInv, BillingTypeOK
  <2>2. Live' \subseteq {s}
    BY <1>9, <2>1 DEF Live
  <2>. QED
    BY <1>8, <1>9, <2>1, <2>2
<1>10. CASE /\ old # NoRow
            /\ Superseded(old, v)
            /\ "EXPIRED" \in Transitions[row[old].status]
            /\ row' = [row EXCEPT ![old] = Ended(old, Len(changes)), ![s] = Mirror(v)]
            /\ Settle(v, "PROCESSED")
  <2>1. PICK x \in Row : x = Ended(old, Len(changes))
    BY <1>1, <1>3, <1>10, EndedIsTyped DEF BInv
  <2>2. /\ row' \in [Subscription -> Row \cup {NoRow}]
        /\ row'[s] = r /\ row'[old] = x
        /\ \A t \in Subscription \ {s, old} : row'[t] = row[t]
    BY <1>3, <1>4, <1>10, <2>1 DEF BInv, BillingTypeOK
  <2>3. row[old].status # "EXPIRED" /\ x.status = "EXPIRED"
    BY <1>3, <1>10, <2>1 DEF Transitions, Ended
  <2>4. Live = {old}
    BY <1>3, <1>10, <2>3 DEF BInv, OneLive, Live
  <2>5. Live' \subseteq {s}
    BY <2>2, <2>3, <2>4 DEF Live
  <2>6. row[old].synced <= v
    BY <1>3, <1>5, <1>10, BillingRowsAreTyped DEF BInv, Superseded
  <2>. QED
    BY <1>8, <1>10, <2>1, <2>2, <2>3, <2>4, <2>5, <2>6
<1>. QED
  BY <1>1, <1>2, <1>7, <1>9, <1>10 DEF ApplyFirst

LEMMA DeliveryFailsKeeps ==
  ASSUME BInv, NEW v, DeliveryFails(v)
  PROVE  HistoryIsKept
<1>1. PICK s \in Ref : s = changes[v].ref
  BY EventsAreTyped DEF BInv, DeliveryFails
<1>2. applying' = [applying EXCEPT ![s] = NoRow] \/ UNCHANGED applying
  BY <1>1 DEF DeliveryFails
<1>3. /\ applying' \in [Ref -> Application \cup {NoRow}]
      /\ \A t \in Ref : applying'[t] \in {applying[t], NoRow}
  BY <1>2 DEF BInv, BillingTypeOK
<1>. QED
  BY <1>3, SettlingKeeps DEF DeliveryFails

\* By hand: one manual row, or the end of a live one, under a change of its own.
LEMMA HandKeeps ==
  ASSUME BInv, Changed, NEW s \in Subscription, NEW r \in Row,
         row' = [row EXCEPT ![s] = r],
         s \in Ref /\ row[s] # NoRow => row[s].status # "EXPIRED",
         r.status = "EXPIRED" \/ (Live \subseteq {s} /\ s \in Manual),
         r.synced = Len(changes) + 1 \/ (row[s] # NoRow /\ r.synced = row[s].synced),
         s \in Ref => row[s] # NoRow
  PROVE  HistoryIsKept
<1>1. /\ changes' \in Seq(Event \cup {NoRow})
      /\ Len(changes') = Len(changes) + 1 /\ Len(changes') <= MaxChanges
      /\ \A t \in Ref : EventsOf(t) \subseteq EventsOf(t)'
  BY LogGrows DEF BInv, Changed
<1>2. Len(changes) \in Nat /\ UNCHANGED <<ledger, applying>>
  BY EventsAreTyped DEF BInv, Changed
<1>3. row[s] # NoRow => row[s].synced <= Len(changes) /\ row[s].synced \in Int
  BY BillingRowsAreTyped DEF BInv, RowsAreBehind
<1>4. r.synced <= Len(changes') /\ (row[s] # NoRow => row[s].synced <= r.synced)
  BY <1>1, <1>2, <1>3
<1>5. s \in Ref => applying[s] = NoRow
  BY DEF BInv, ApplicationsHold
<1>6. ledger' \in [1..MaxChanges -> {NoRow, "FAILED", "PROCESSED", "IGNORED"}]
  BY <1>2 DEF BInv, BillingTypeOK
<1>7. Len(changes) <= Len(changes') /\ UNCHANGED applying
  BY <1>1, <1>2
<1>8. r.status = "EXPIRED" \/ (Live \subseteq {s} /\ (row[s] # NoRow => row[s].synced <= r.synced))
  BY <1>4
<1>. QED
  BY <1>1, <1>4, <1>5, <1>6, <1>7, <1>8, OneRowIsWritten

LEMMA AssignPlanKeeps ==
  ASSUME BInv, AssignPlan
  PROVE  HistoryIsKept
<1>1. PICK m \in Manual, status \in Transitions["NONE"] :
        row' = [row EXCEPT ![m] = [status |-> status, synced |-> Len(changes) + 1]]
  BY DEF AssignPlan
<1>2. Len(changes) + 1 \in 1..MaxChanges
  BY EventsAreTyped, BillingAssumption DEF BInv, AssignPlan, Changed
<1>3. PICK r \in Row : r = [status |-> status, synced |-> Len(changes) + 1]
  BY <1>1, <1>2 DEF Row, Status, Transitions
<1>4. r.synced = Len(changes) + 1 /\ row' = [row EXCEPT ![m] = r]
  BY <1>1, <1>3
<1>5. m \in Subscription /\ m \notin Ref /\ Live = {} /\ Changed
  BY BillingAssumption DEF AssignPlan, Subscription
<1>. QED
  BY <1>4, <1>5, HandKeeps

LEMMA ChangeManualKeeps ==
  ASSUME BInv, ChangeManual
  PROVE  HistoryIsKept
<1>0. PICK m \in Manual \cap Live :
        \E status \in {"ACTIVE", "CANCELLED", row[m].status} \cap Transitions[row[m].status] :
          row' = [row EXCEPT ![m] = [status |-> status, synced |-> Len(changes) + 1]]
  BY DEF ChangeManual
<1>1. PICK status \in {"ACTIVE", "CANCELLED", row[m].status} \cap Transitions[row[m].status] :
        row' = [row EXCEPT ![m] = [status |-> status, synced |-> Len(changes) + 1]]
  BY <1>0
<1>2. Len(changes) + 1 \in 1..MaxChanges
  BY EventsAreTyped, BillingAssumption DEF BInv, ChangeManual, Changed
<1>3. status \in Status
  BY <1>0, <1>1, BillingRowsAreTyped DEF BInv, Live, Status
<1>4. PICK r \in Row : r = [status |-> status, synced |-> Len(changes) + 1]
  BY <1>2, <1>3 DEF Row
<1>5. r.synced = Len(changes) + 1 /\ row' = [row EXCEPT ![m] = r]
  BY <1>1, <1>4
<1>6. m \in Subscription /\ m \notin Ref /\ Live \subseteq {m} /\ Changed
  BY BillingAssumption DEF BInv, OneLive, ChangeManual, Subscription
<1>. QED
  BY <1>5, <1>6, HandKeeps

LEMMA ExpireKeeps ==
  ASSUME BInv, Expire
  PROVE  HistoryIsKept
<1>1. PICK s \in Live : row' = [row EXCEPT ![s] = Ended(s, Len(changes) + 1)]
  BY DEF Expire
<1>2. s \in Subscription /\ row[s] # NoRow /\ row[s].status # "EXPIRED" /\ row[s] \in Row
  BY BillingRowsAreTyped DEF BInv, Live
<1>6. Len(changes) + 1 \in 1..MaxChanges
  BY EventsAreTyped, BillingAssumption DEF BInv, Expire, Changed
<1>3. PICK r \in Row : r = Ended(s, Len(changes) + 1)
  BY <1>2, <1>6 DEF Ended, Row, Status
<1>4. r.status = "EXPIRED" /\ r.synced \in {row[s].synced, Len(changes) + 1}
  BY <1>3 DEF Ended
<1>5. row' = [row EXCEPT ![s] = r] /\ Changed
  BY <1>1, <1>3 DEF Expire
<1>. QED
  BY <1>2, <1>4, <1>5, HandKeeps

\* Every step keeps the invariant, and lets neither an older snapshot win nor what has
\* ended come back.
LEMMA BillingStepKeeps ==
  ASSUME BInv, [BillingNext]_billingVars
  PROVE  HistoryIsKept
<1>1. CASE UNCHANGED billingVars
  <2>1. BillingTypeOK' /\ ApplicationsHold'
    BY <1>1 DEF billingVars, BInv, BillingTypeOK, ApplicationsHold, EventsOf, Events
  <2>. QED
    BY <1>1, <2>1, RowsAreKept, EventsAreTyped DEF billingVars, BInv
<1>. QED
  BY <1>1, ProviderChangesKeeps, ApplyEventKeeps, ApplyTombstoneKeeps, FindLiveKeeps,
     DeliveryFailsKeeps, ApplyFirstKeeps, AssignPlanKeeps, ChangeManualKeeps, ExpireKeeps
  DEF BillingNext

-----------------------------------------------------------------------------
(* Theorems.                                                               *)

\* The inductive invariant: one live subscription at most, no row ahead of what has
\* happened, and open transactions whose subscription is still without a row.
THEOREM BillingInvariance == BillingSpec => []BInv
BY BillingInitEstablishes, BillingStepKeeps, PTL DEF BillingSpec, HistoryIsKept

\* The log, the ledger, the rows and the open transactions keep their types.
THEOREM BillingTypeCorrectness == BillingSpec => []BillingTypeOK
BY BillingInvariance, PTL DEF BInv

\* No organisation ever has two live subscriptions, in whichever order events arrive.
THEOREM OneSubscriptionIsLive == BillingSpec => []OneLive
BY BillingInvariance, PTL DEF BInv

\* "A delayed event for an older provider subscription must not win" (apply), for any
\* number of subscriptions, deliveries and changes by hand.
THEOREM NewerIsNotReplaced == BillingSpec => OlderNeverWins
<1>1. BInv /\ [BillingNext]_billingVars => [OlderLoses]_billingVars
  BY BillingStepKeeps DEF HistoryIsKept
<1>. QED
  BY <1>1, BillingInvariance, PTL DEF BillingSpec, OlderNeverWins, OlderLoses

\* A provider's subscription that ended here stays ended (TRANSITIONS, state-machine.ts).
THEOREM TheEndIsFinal == BillingSpec => ExpiredIsFinal
<1>1. BInv /\ [BillingNext]_billingVars => [EndedStays]_billingVars
  BY BillingStepKeeps DEF HistoryIsKept
<1>. QED
  BY <1>1, BillingInvariance, PTL DEF BillingSpec, ExpiredIsFinal, EndedStays

-----------------------------------------------------------------------------
(* The parts together.                                                     *)

\* The platform starts where its parts do.
LEMMA PlatformStarts ==
  Init => /\ InvalidationInit /\ PageInit /\ PolicyInit /\ MembersInit /\ BillingInit
          /\ StockInit /\ PricingInit
BY DEF Init

\* A step of the platform is a step of each part or leaves it alone.
LEMMA PlatformSteps ==
  [Next]_vars => /\ [InvalidationNext]_invalidationVars /\ [PageNext]_pageVars
                 /\ [PolicyNext]_policyVars /\ [MembersNext]_memberVars
                 /\ [BillingNext]_billingVars /\ [StockNext]_stockVars
                 /\ [PricingNext]_pricingVars
BY DEF Next, vars, caches

\* Every part of the platform behaves as its own specification allows.
THEOREM PlatformIsItsParts ==
  Spec => /\ InvalidationSpec /\ PageSpec /\ PolicySpec /\ MembersSpec /\ BillingSpec
          /\ StockSpec /\ PricingSpec
BY PlatformStarts, PlatformSteps, PTL
   DEF Spec, InvalidationSpec, PageSpec, PolicySpec, MembersSpec, BillingSpec, StockSpec,
       PricingSpec

\* The rows, caches and requests of every part keep their types.
THEOREM PlatformTypeCorrectness == Spec => []TypeOK
BY PlatformIsItsParts, InvalidationTypes, PageTypeCorrectness, PolicyTypeCorrectness,
   MembersTypeCorrectness, BillingTypeCorrectness, LockTypeCorrectness,
   PricingTypeCorrectness, PTL
   DEF TypeOK

=============================================================================
