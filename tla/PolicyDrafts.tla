---------------------------- MODULE PolicyDrafts ----------------------------
(***************************************************************************)
(* One store policy: packages/commerce/src/settings/policies.ts.           *)
(*                                                                         *)
(* The policy's row has a draft, what is published of it, and a revision   *)
(* that every save must name.  A save decides and writes in one statement. *)
(* Publishing and unpublishing read the row without a lock and write it    *)
(* afterwards, publishing where the revision is still the one it read,     *)
(* unpublishing whatever it is by then: two steps each.                    *)
(***************************************************************************)
EXTENDS Integers

CONSTANTS
  Editor,       \* browser tabs with the policy open
  Text,         \* titles and bodies an editor can save
  OwnText,      \* those with enough words of the merchant's own to publish
  NoText,       \* nothing written, or nothing published
  MaxPolicyRevision  \* bound: highest revision

ASSUME PolicyAssumption ==
  /\ OwnText \subseteq Text
  /\ NoText \notin Text
  /\ MaxPolicyRevision \in Nat

VARIABLES
  policy,  \* the StorePolicy row; revision 0 while there is none
  editor,  \* editor[e]: the revision and the draft e shows
  change   \* change[e]: what an open transaction of e has read

policyVars == <<policy, editor, change>>

Shown == [revision : 0..MaxPolicyRevision, draft : Text \cup {NoText}]

PolicyTypeOK ==
  /\ policy \in [revision : 0..MaxPolicyRevision, draft : Text \cup {NoText},
                 published : Text \cup {NoText}]
  /\ editor \in [Editor -> Shown]
  /\ change \in [Editor -> [kind : {"none", "publish", "unpublish"}, read : Shown]]

ShownNow == [revision |-> policy.revision, draft |-> policy.draft]

Unwritten == [revision |-> 0, draft |-> NoText]

NoChange == [kind |-> "none", read |-> Unwritten]

PolicyInit ==
  /\ policy = [revision |-> 0, draft |-> NoText, published |-> NoText]
  /\ editor = [e \in Editor |-> Unwritten]
  /\ change = [e \in Editor |-> NoChange]

\* getPolicy, and the reload after any answer.
Reload(e) ==
  /\ editor' = [editor EXCEPT ![e] = ShownNow]
  /\ UNCHANGED <<policy, change>>

\* savePolicyDraft: accepted where the revision is the editor's.
SavePolicy(e) ==
  /\ change[e].kind = "none"
  /\ policy.revision = editor[e].revision
  /\ policy.revision < MaxPolicyRevision
  /\ \E d \in Text :
       /\ policy' = [policy EXCEPT !.draft = d, !.revision = @ + 1]
       /\ editor' = [editor EXCEPT ![e] = [revision |-> policy.revision + 1, draft |-> d]]
  /\ UNCHANGED change

Begin(e, kind) ==
  /\ change[e].kind = "none"
  /\ change' = [change EXCEPT ![e] = [kind |-> kind, read |-> ShownNow]]
  /\ UNCHANGED <<policy, editor>>

\* publishPolicy reads the row and judges what it read.
BeginPublishPolicy(e) ==
  /\ policy.revision = editor[e].revision
  /\ policy.draft \in OwnText
  /\ Begin(e, "publish")

End(e) == change' = [change EXCEPT ![e] = NoChange]

MutantPublishPolicy(e) ==
  /\ change[e].kind = "publish"
  /\ policy.revision = change[e].read.revision
  /\ policy.revision < MaxPolicyRevision
  /\ policy' = [policy EXCEPT !.published = policy.draft, !.revision = @ + 1]
  /\ editor' = [editor EXCEPT ![e].revision = policy.revision + 1]
  /\ End(e)

\* It publishes what it read.
PublishPolicy(e) ==
  LET read == change[e].read IN
  /\ change[e].kind = "publish"
  /\ policy.revision = read.revision
  /\ policy.revision < MaxPolicyRevision
  /\ policy' = [policy EXCEPT !.published = read.draft, !.revision = @ + 1]
  /\ editor' = [editor EXCEPT ![e].revision = policy.revision + 1]
  /\ End(e)

BeginUnpublishPolicy(e) ==
  /\ policy.published # NoText
  /\ Begin(e, "unpublish")

\* unpublishPolicy: one past the revision it read, whatever the row says by now.
UnpublishPolicy(e) ==
  /\ change[e].kind = "unpublish"
  /\ change[e].read.revision < MaxPolicyRevision
  /\ policy' = [policy EXCEPT !.published = NoText, !.revision = change[e].read.revision + 1]
  /\ End(e)
  /\ UNCHANGED editor

\* A publish whose revision has gone, or a transaction that broke.
ChangeFails(e) ==
  /\ change[e].kind # "none"
  /\ End(e)
  /\ UNCHANGED <<policy, editor>>

PolicyNext ==
  \E e \in Editor :
    \/ Reload(e)
    \/ SavePolicy(e)
    \/ BeginPublishPolicy(e)
    \/ PublishPolicy(e)
    \/ BeginUnpublishPolicy(e)
    \/ UnpublishPolicy(e)
    \/ ChangeFails(e)

PolicySpec == PolicyInit /\ [][PolicyNext]_policyVars

-----------------------------------------------------------------------------
(* Properties.                                                             *)

\* "A policy can't be published until it has text of the merchant's own": what shoppers
\* read always has it, also when a save comes between publishing's look and its write
\* and the revision is the one looked at again.
OnlyOwnTextIsLive == policy.published \in OwnText \cup {NoText}

=============================================================================
