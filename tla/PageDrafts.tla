----------------------------- MODULE PageDrafts -----------------------------
(***************************************************************************)
(* Drafts and publishing of one page: packages/site-admin/src/pages.ts,    *)
(* with the builder of apps/dashboard as its caller.                       *)
(*                                                                         *)
(* Several browser tabs edit the page.  A tab holds the revision it was    *)
(* given, its token, and the document that it took that revision to stand  *)
(* for.  Publishing locks the page row, reads the draft, validates it, and *)
(* then publishes the draft's row; reverting reads without a lock and      *)
(* writes where the revision is still the tab's.  So both are two steps    *)
(* here, and others act between them.  Saves, openings and removals write  *)
(* in one statement what they decide on: one step each.  A page is never   *)
(* without a version; the home page is one that is never taken down.       *)
(***************************************************************************)
EXTENDS Integers, Sequences

CONSTANTS
  Tab,         \* browser tabs with the builder open
  Document,    \* documents the builder can save
  MaxVersion,  \* bound: versions of the page
  MaxRevision, \* bound: highest revision
  NoTask       \* a tab without a draft, or without a transaction

ASSUME PageAssumption ==
  /\ MaxVersion \in Nat \ {0}
  /\ MaxRevision \in Nat

VARIABLES
  versions,  \* PageVersion rows, by versionNumber
  live,      \* Page.publishedVersionId, as an index; 0 for NULL
  deleted,   \* Page.deletedAt is set
  tab,       \* tab[t]: the token and the document of builder t
  task,      \* task[t]: what an open transaction of t has read
  issued     \* every (revision, document) the draft has had

pageVars == <<versions, live, deleted, tab, task, issued>>

VersionState == {"DRAFT", "PUBLISHED", "ARCHIVED"}
Revision == 0..MaxRevision
Version == [state : VersionState, document : Document, revision : Revision]
Builder == [revision : Revision, document : Document]
Task == [kind : {"publish", "revert"}, from : 1..MaxVersion, read : Builder]

PageTypeOK ==
  /\ versions \in Seq(Version) /\ Len(versions) <= MaxVersion
  /\ live \in {0} \cup DOMAIN versions
  /\ deleted \in BOOLEAN
  /\ tab \in [Tab -> Builder \cup {NoTask}]
  /\ task \in [Tab -> Task \cup {NoTask}]
  /\ issued \subseteq Builder

InState(s) == {i \in DOMAIN versions : versions[i].state = s}
HasDraft == InState("DRAFT") # {}
DraftOf == CHOOSE i \in InState("DRAFT") : TRUE
Draft == versions[DraftOf]

\* What a tab knows of a version.
Seen(v) == [revision |-> v.revision, document |-> v.document]

MutantNextRevision == 1 + versions[IF live = 0 THEN Len(versions) ELSE live].revision

\* Past every revision any version of the page ever had.
NextRevision ==
  1 + (CHOOSE r \in {versions[i].revision : i \in DOMAIN versions} :
         \A i \in DOMAIN versions : versions[i].revision <= r)

\* A content page is created with a draft; the home page is created published, as were
\* pages when publishing did not start a new draft.
PageInit ==
  /\ \E d \in Document, state \in {"DRAFT", "PUBLISHED"} :
       /\ versions = <<[state |-> state, document |-> d, revision |-> 0]>>
       /\ live = IF state = "PUBLISHED" THEN 1 ELSE 0
       /\ issued = {[revision |-> 0, document |-> d]}
  /\ deleted = FALSE
  /\ tab = [t \in Tab |-> NoTask]
  /\ task = [t \in Tab |-> NoTask]

-----------------------------------------------------------------------------

\* SELECT ... FOR UPDATE of the page: publishing keeps it until it commits.
PageLocked == \E t \in Tab : task[t] # NoTask /\ task[t].kind = "publish"

Free(t) == task[t] = NoTask

\* Every call of the builder that carries its token; tokens are compared with the draft's.
Holds(t) == Free(t) /\ tab[t] # NoTask /\ ~deleted

TokenIsCurrent(t) == HasDraft /\ Draft.revision = tab[t].revision

Start(t, kind) ==
  task' = [task EXCEPT ![t] = [kind |-> kind, from |-> IF live = 0 THEN DraftOf ELSE live,
                               read |-> Seen(Draft)]]

Shows(t, revision, document) ==
  tab' = [tab EXCEPT ![t] = [revision |-> revision, document |-> document]]

\* openPageDraft: the draft there is, or a new one from the live version, or else the
\* starter document.
OpenDraft(t) ==
  /\ Free(t)
  /\ ~deleted
  /\ \/ /\ HasDraft
        /\ Shows(t, Draft.revision, Draft.document)
        /\ UNCHANGED <<versions, issued>>
     \/ /\ ~HasDraft
        /\ Len(versions) < MaxVersion
        /\ NextRevision <= MaxRevision
        /\ \E d \in (IF live # 0 THEN {versions[live].document} ELSE Document) :
             /\ versions' = Append(versions, [state |-> "DRAFT", document |-> d,
                                              revision |-> NextRevision])
             /\ issued' = issued \cup {[revision |-> NextRevision, document |-> d]}
             /\ Shows(t, NextRevision, d)
  /\ UNCHANGED <<live, deleted, task>>

\* savePageDraft: one UPDATE, where the revision is the tab's.  The answer may be lost.
SaveDraft(t) ==
  /\ Holds(t)
  /\ TokenIsCurrent(t)
  /\ Draft.revision < MaxRevision
  /\ \E d \in Document :
       LET saved == [Draft EXCEPT !.document = d, !.revision = @ + 1] IN
       /\ versions' = [versions EXCEPT ![DraftOf] = saved]
       /\ issued' = issued \cup {Seen(saved)}
       /\ Shows(t, saved.revision, d) \/ UNCHANGED tab
  /\ UNCHANGED <<live, deleted, task>>

\* publishPage up to its writes.  A draft that is already live publishes nothing.
BeginPublish(t) ==
  /\ Holds(t)
  /\ ~PageLocked
  /\ TokenIsCurrent(t)
  /\ live # 0 => versions[live].document # Draft.document
  /\ Start(t, "publish")
  /\ UNCHANGED <<versions, live, deleted, tab, issued>>

\* Its writes: the draft's row is published as it stands now.  The builder goes on with
\* the new draft's revision and the document it has.
Publish(t) ==
  LET drafted == DraftOf
      next == [Draft EXCEPT !.revision = NextRevision] IN
  /\ task[t] # NoTask
  /\ task[t].kind = "publish"
  /\ Len(versions) < MaxVersion
  /\ NextRevision <= MaxRevision
  /\ versions' = Append([i \in DOMAIN versions |->
                           IF i = drafted THEN [versions[i] EXCEPT !.state = "PUBLISHED"]
                           ELSE IF i = live THEN [versions[i] EXCEPT !.state = "ARCHIVED"]
                           ELSE versions[i]], next)
  /\ live' = drafted
  /\ issued' = issued \cup {Seen(next)}
  /\ Shows(t, NextRevision, tab[t].document)
  /\ task' = [task EXCEPT ![t] = NoTask]
  /\ UNCHANGED deleted

\* revertPageDraft up to its write.  A draft that equals the live version stays as it is.
BeginRevert(t) ==
  /\ Holds(t)
  /\ live # 0
  /\ TokenIsCurrent(t)
  /\ \/ /\ versions[live].document = Draft.document
        /\ Shows(t, Draft.revision, Draft.document)
        /\ UNCHANGED task
     \/ /\ versions[live].document # Draft.document
        /\ Start(t, "revert")
        /\ UNCHANGED tab
  /\ UNCHANGED <<versions, live, deleted, issued>>

\* Its write, a copy of the version that was live when it began.
Revert(t) ==
  /\ task[t] # NoTask
  /\ task[t].kind = "revert"
  /\ HasDraft /\ Draft.revision = task[t].read.revision
  /\ NextRevision <= MaxRevision
  /\ LET old == versions[task[t].from].document
         reverted == [Draft EXCEPT !.document = old, !.revision = NextRevision] IN
     /\ versions' = [versions EXCEPT ![DraftOf] = reverted]
     /\ issued' = issued \cup {Seen(reverted)}
     /\ Shows(t, reverted.revision, old)
  /\ task' = [task EXCEPT ![t] = NoTask]
  /\ UNCHANGED <<live, deleted>>

\* The transaction ends without a write: the document names something that is gone, the
\* draft changed since, the connection broke.
GiveUp(t) ==
  /\ task[t] # NoTask
  /\ task' = [task EXCEPT ![t] = NoTask]
  /\ UNCHANGED <<versions, live, deleted, tab, issued>>

MutantTakeDown == live' = 0 /\ UNCHANGED versions

TakeDown ==
  /\ versions' = IF live = 0 THEN versions ELSE [versions EXCEPT ![live].state = "ARCHIVED"]
  /\ live' = 0

UnpublishPage ==
  /\ ~deleted /\ ~PageLocked
  /\ TakeDown
  /\ UNCHANGED <<deleted, tab, task, issued>>

DeletePage ==
  /\ ~deleted /\ ~PageLocked
  /\ TakeDown
  /\ deleted' = TRUE
  /\ UNCHANGED <<tab, task, issued>>

PageNext ==
  \/ \E t \in Tab :
       \/ OpenDraft(t)
       \/ SaveDraft(t)
       \/ BeginPublish(t)
       \/ Publish(t)
       \/ BeginRevert(t)
       \/ Revert(t)
       \/ GiveUp(t)
  \/ UnpublishPage
  \/ DeletePage

PageSpec == PageInit /\ [][PageNext]_pageVars

-----------------------------------------------------------------------------
(* Properties.                                                             *)

\* A revision "is never issued twice for a page" (nextRevision): no two documents of the
\* draft ever had the same one, over saves, publishes, reverts and new drafts, so a token
\* that matches is a token for what the draft holds now.
RevisionNamesOneDocument ==
  \A a, b \in issued : a.revision = b.revision => a.document = b.document

\* Visitors see exactly one version or none: the page points at its one PUBLISHED version,
\* whatever publishing, taking down and deleting are under way.
LiveIsThePublished == InState("PUBLISHED") = IF live = 0 THEN {} ELSE {live}

\* publishPage "publishes the draft the merchant is looking at (`revision`)": what goes
\* live is what the tab showed at its token.
PublishesWhatIsShown ==
  [][\A t \in Tab : Publish(t) => versions'[live'].document = task[t].read.document]_pageVars

=============================================================================
