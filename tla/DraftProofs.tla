----------------------------- MODULE DraftProofs -----------------------------
(***************************************************************************)
(* Proofs about PageDrafts, for any tabs and documents and any number of   *)
(* versions.  A revision that is taken is shown to be past every one that  *)
(* was issued: the newest version always has the highest revision issued,  *)
(* and while there is a draft, the draft is the newest.                    *)
(***************************************************************************)
EXTENDS PageDrafts, PolicyDrafts, SequenceTheorems, TLAPS

IsNewest(i) == \A j \in DOMAIN versions : versions[j].revision <= versions[i].revision

SomeVersionIsNewest == \E i \in DOMAIN versions : IsNewest(i)

DraftIsNewest ==
  \A i \in InState("DRAFT") : IsNewest(i) /\ Seen(versions[i]) \in issued

OneDraft == \A i, j \in InState("DRAFT") : i = j

IssuedIsBehind ==
  \A a \in issued : \E i \in DOMAIN versions : a.revision <= versions[i].revision

TasksReadVersions ==
  \A t \in Tab : task[t] # NoTask =>
    /\ task[t].from \in DOMAIN versions
    /\ task[t].kind = "publish" => HasDraft

TasksHaveTabs == \A t \in Tab : task[t] # NoTask => tab[t] \in Builder

PageInv ==
  /\ PageTypeOK
  /\ TasksHaveTabs
  /\ SomeVersionIsNewest
  /\ DraftIsNewest
  /\ OneDraft
  /\ IssuedIsBehind
  /\ TasksReadVersions
  /\ RevisionNamesOneDocument
  /\ LiveIsThePublished

-----------------------------------------------------------------------------
(* Choices.                                                                *)

\* What the type invariant says of one version and of one revision issued.
LEMMA RevisionsAreNumbers ==
  ASSUME PageTypeOK
  PROVE  /\ DOMAIN versions = 1..Len(versions)
         /\ Len(versions) \in Nat
         /\ \A i \in DOMAIN versions : versions[i] \in Version /\ versions[i].revision \in Nat
         /\ \A a \in issued : a \in Builder /\ a.revision \in Nat
<1>1. versions \in Seq(Version) /\ issued \subseteq Builder
  BY DEF PageTypeOK
<1>2. \A v \in Version : v.revision \in Nat
  BY DEF Version, Revision
<1>3. \A a \in Builder : a.revision \in Nat
  BY DEF Builder, Revision
<1>4. DOMAIN versions = 1..Len(versions) /\ Len(versions) \in Nat
  BY <1>1
<1>5. \A i \in DOMAIN versions : versions[i] \in Version
  BY <1>1
<1>. QED
  BY <1>1, <1>2, <1>3, <1>4, <1>5

\* The draft there is, is the one that is meant.
LEMMA TheDraft ==
  ASSUME PageTypeOK, OneDraft, HasDraft
  PROVE  /\ DraftOf \in DOMAIN versions
         /\ DraftOf \in 1..Len(versions)
         /\ Draft \in Version
         /\ Draft.state = "DRAFT"
         /\ InState("DRAFT") = {DraftOf}
<1>1. DraftOf \in InState("DRAFT")
  BY DEF DraftOf, HasDraft
<1>2. DraftOf \in DOMAIN versions /\ versions[DraftOf].state = "DRAFT"
  BY <1>1 DEF InState
<1>. QED
  BY <1>1, <1>2 DEF Draft, PageTypeOK, OneDraft

\* nextRevision is past every version's revision, so past every one that was issued.
LEMMA NextIsBeyond ==
  ASSUME PageTypeOK, SomeVersionIsNewest, IssuedIsBehind
  PROVE  /\ NextRevision \in Nat
         /\ \A i \in DOMAIN versions : versions[i].revision < NextRevision
         /\ \A a \in issued : a.revision < NextRevision
<1> DEFINE R == {versions[i].revision : i \in DOMAIN versions}
           Top == CHOOSE r \in R : \A i \in DOMAIN versions : versions[i].revision <= r
<1>1. \E r \in R : \A i \in DOMAIN versions : versions[i].revision <= r
  BY DEF SomeVersionIsNewest, IsNewest
<1>2. Top \in R /\ \A j \in DOMAIN versions : versions[j].revision <= Top
  BY <1>1
<1>3. \A j \in DOMAIN versions : versions[j].revision \in Nat
  BY RevisionsAreNumbers
<1>4. Top \in Nat
  BY <1>2, <1>3
<1>5. NextRevision = 1 + Top
  BY DEF NextRevision
<1> HIDE DEF R, Top
<1>6. \A j \in DOMAIN versions : versions[j].revision < NextRevision
  BY <1>2, <1>3, <1>4, <1>5
<1>7. \A a \in issued : a.revision < NextRevision
  <2> TAKE a \in issued
  <2>1. PICK j \in DOMAIN versions : a.revision <= versions[j].revision
    BY DEF IssuedIsBehind
  <2>2. a.revision \in Nat
    BY RevisionsAreNumbers
  <2>. QED
    BY <2>1, <2>2, <1>3, <1>4, <1>5, <1>6
<1>8. NextRevision \in Nat
  BY <1>4, <1>5
<1>. QED
  BY <1>6, <1>7, <1>8

-----------------------------------------------------------------------------
(* The three ways in which versions change.                                *)

\* A new draft at the end, past everything issued, where there was none.
LEMMA DraftBegins ==
  ASSUME PageInv, ~HasDraft,
         NEW d \in Document,
         NextRevision <= MaxRevision, Len(versions) < MaxVersion,
         versions' = Append(versions, [state |-> "DRAFT", document |-> d,
                                       revision |-> NextRevision]),
         issued' = issued \cup {[revision |-> NextRevision, document |-> d]},
         UNCHANGED <<live, task>>
  PROVE  /\ versions' \in Seq(Version) /\ Len(versions') <= MaxVersion
         /\ live' \in {0} \cup DOMAIN versions'
         /\ issued' \subseteq Builder
         /\ SomeVersionIsNewest' /\ DraftIsNewest' /\ OneDraft' /\ IssuedIsBehind'
         /\ TasksReadVersions' /\ RevisionNamesOneDocument' /\ LiveIsThePublished'
<1> DEFINE v == [state |-> "DRAFT", document |-> d, revision |-> NextRevision]
<1>0. PICK n \in Nat : n = Len(versions) + 1
  BY RevisionsAreNumbers DEF PageInv
<1>1. /\ NextRevision \in Nat
      /\ \A i \in DOMAIN versions : versions[i].revision < NextRevision
      /\ \A a \in issued : a.revision < NextRevision
  BY NextIsBeyond DEF PageInv
<1>2. v \in Version /\ v.state = "DRAFT" /\ v.revision = NextRevision /\ Seen(v) = [revision |-> NextRevision, document |-> d]
  BY <1>1, PageAssumption DEF Version, VersionState, Revision, Seen
<1>3. /\ versions \in Seq(Version)
      /\ Len(versions) \in Nat
      /\ DOMAIN versions = 1..Len(versions)
  BY DEF PageInv, PageTypeOK
<1>4. /\ versions' \in Seq(Version)
      /\ DOMAIN versions' = 1..n
      /\ Len(versions') = n
      /\ versions'[n] = v
      /\ \A i \in DOMAIN versions : i \in DOMAIN versions' /\ i # n /\ versions'[i] = versions[i]
      /\ \A i \in DOMAIN versions' : i = n \/ i \in DOMAIN versions
  BY <1>0, <1>2, <1>3
<1> HIDE DEF v
<1>5. IsNewest(n)'
  BY <1>1, <1>2, <1>4, RevisionsAreNumbers DEF IsNewest, PageInv
<1>6. \A i \in DOMAIN versions : versions[i].state # "DRAFT"
  BY DEF HasDraft, InState
<1>7. InState("DRAFT")' = {n}
  BY <1>2, <1>4, <1>6 DEF InState
<1>8. InState("PUBLISHED")' = InState("PUBLISHED")
  BY <1>4 DEF InState
<1>9. SomeVersionIsNewest' /\ DraftIsNewest' /\ OneDraft'
  BY <1>2, <1>4, <1>5, <1>7 DEF SomeVersionIsNewest, DraftIsNewest, OneDraft
<1>10. IssuedIsBehind'
  BY <1>1, <1>4 DEF IssuedIsBehind, PageInv
<1>11. TasksReadVersions'
  <2>1. HasDraft'
    BY <1>7 DEF HasDraft
  <2>. QED
    BY <2>1, <1>4 DEF PageInv, TasksReadVersions
<1>12. RevisionNamesOneDocument'
  BY <1>1 DEF PageInv, RevisionNamesOneDocument, PageTypeOK, Builder, Revision
<1>13. LiveIsThePublished'
  BY <1>8 DEF PageInv, LiveIsThePublished
<1>14. issued' \subseteq Builder
  BY <1>1, PageAssumption DEF PageInv, PageTypeOK, Builder, Revision
<1>15. live' \in {0} \cup DOMAIN versions' /\ Len(versions') <= MaxVersion
  BY <1>3, <1>4, PageAssumption DEF PageInv, PageTypeOK
<1>. QED
  BY <1>4, <1>9, <1>10, <1>11, <1>12, <1>13, <1>14, <1>15

\* The draft gets another document, under a revision past everything issued.
LEMMA DraftChanges ==
  ASSUME PageInv, HasDraft,
         NEW d \in Document, NEW r \in Revision,
         \A i \in DOMAIN versions : versions[i].revision < r,
         \A a \in issued : a.revision < r,
         NEW v \in Version, v.state = "DRAFT", v.document = d, v.revision = r,
         versions' = [versions EXCEPT ![DraftOf] = v],
         issued' = issued \cup {Seen(v)},
         live' = live, \A s \in Tab : task'[s] \in {task[s], NoTask}
  PROVE  /\ versions' \in Seq(Version) /\ Len(versions') <= MaxVersion
         /\ live' \in {0} \cup DOMAIN versions'
         /\ issued' \subseteq Builder
         /\ SomeVersionIsNewest' /\ DraftIsNewest' /\ OneDraft' /\ IssuedIsBehind'
         /\ TasksReadVersions' /\ RevisionNamesOneDocument' /\ LiveIsThePublished'
<1>0. PICK n : n = DraftOf
  OBVIOUS
<1>1. n \in DOMAIN versions /\ versions[n].state = "DRAFT" /\ InState("DRAFT") = {n}
  BY <1>0, TheDraft DEF PageInv, Draft
<1>2. /\ DOMAIN versions = 1..Len(versions)
      /\ Len(versions) \in Nat
      /\ \A i \in DOMAIN versions : versions[i] \in Version /\ versions[i].revision \in Nat
      /\ \A a \in issued : a \in Builder /\ a.revision \in Nat
  BY RevisionsAreNumbers DEF PageInv
<1>3. versions \in Seq(Version) /\ Len(versions) <= MaxVersion
  BY DEF PageInv, PageTypeOK
<1>4. /\ versions' \in Seq(Version)
      /\ DOMAIN versions' = DOMAIN versions
      /\ Len(versions') = Len(versions)
      /\ versions'[n] = v
      /\ \A i \in DOMAIN versions : i # n => versions'[i] = versions[i]
  BY <1>0, <1>1, <1>3
<1>5. Seen(v) = [revision |-> r, document |-> d] /\ Seen(v) \in Builder
  BY DEF Seen, Builder
<1>6. IsNewest(n)'
  BY <1>1, <1>2, <1>4 DEF IsNewest, Revision
<1>7. InState("DRAFT")' = {n}
  BY <1>1, <1>4 DEF InState
<1>8. InState("PUBLISHED")' = InState("PUBLISHED")
  BY <1>1, <1>4 DEF InState
<1>9. SomeVersionIsNewest' /\ DraftIsNewest' /\ OneDraft'
  BY <1>1, <1>4, <1>6, <1>7 DEF SomeVersionIsNewest, DraftIsNewest, OneDraft
<1>10. IssuedIsBehind'
  <2>1. \A a \in issued' : a.revision <= r
    BY <1>2, <1>5 DEF Revision
  <2>. QED
    BY <2>1, <1>1, <1>4 DEF IssuedIsBehind
<1>11. TasksReadVersions'
  <2>1. HasDraft'
    BY <1>7 DEF HasDraft
  <2>. QED
    BY <2>1, <1>4 DEF PageInv, TasksReadVersions
<1>12. RevisionNamesOneDocument'
  BY <1>2, <1>5 DEF PageInv, RevisionNamesOneDocument, Revision
<1>13. LiveIsThePublished'
  BY <1>8 DEF PageInv, LiveIsThePublished
<1>14. issued' \subseteq Builder /\ live' \in {0} \cup DOMAIN versions'
  BY <1>4, <1>5 DEF PageInv, PageTypeOK
<1>. QED
  BY <1>3, <1>4, <1>9, <1>10, <1>11, <1>12, <1>13, <1>14

\* The live version is archived: nothing but a PUBLISHED version changes its state.
LEMMA TakenDown ==
  ASSUME PageInv, TakeDown, UNCHANGED <<issued, task>>
  PROVE  /\ versions' \in Seq(Version) /\ Len(versions') <= MaxVersion
         /\ live' \in {0} \cup DOMAIN versions'
         /\ SomeVersionIsNewest' /\ DraftIsNewest' /\ OneDraft' /\ IssuedIsBehind'
         /\ TasksReadVersions' /\ RevisionNamesOneDocument' /\ LiveIsThePublished'
<1>1. versions \in Seq(Version) /\ Len(versions) <= MaxVersion
  BY DEF PageInv, PageTypeOK
<1>2. live # 0 => live \in DOMAIN versions /\ versions[live].state = "PUBLISHED"
  BY DEF PageInv, PageTypeOK, LiveIsThePublished, InState
<1>3. /\ versions' \in Seq(Version)
      /\ DOMAIN versions' = DOMAIN versions
      /\ Len(versions') = Len(versions)
      /\ \A i \in DOMAIN versions :
           /\ versions'[i].revision = versions[i].revision
           /\ versions'[i].document = versions[i].document
           /\ versions'[i].state = IF i = live THEN "ARCHIVED" ELSE versions[i].state
  <2>1. CASE live = 0
    BY <2>1, <1>1 DEF TakeDown
  <2>2. CASE live # 0
    <3>0. live \in DOMAIN versions /\ versions[live] \in Version
      BY <2>2, <1>1, <1>2
    <3>1. [versions[live] EXCEPT !.state = "ARCHIVED"] \in Version
      BY <3>0 DEF Version, VersionState
    <3>2. versions' = [versions EXCEPT ![live] = [versions[live] EXCEPT !.state = "ARCHIVED"]]
      BY <2>2 DEF TakeDown
    <3>3. \A i \in DOMAIN versions : versions[i] \in Version
      BY <1>1
    <3>4. /\ versions' \in Seq(Version)
          /\ DOMAIN versions' = DOMAIN versions
          /\ Len(versions') = Len(versions)
      BY <3>0, <3>1, <3>2, <1>1
    <3>. QED
      BY <3>0, <3>2, <3>3, <3>4, <2>2 DEF Version
  <2>. QED
    BY <2>1, <2>2
<1>4. InState("DRAFT")' = InState("DRAFT")
  BY <1>2, <1>3 DEF InState
<1>5. InState("PUBLISHED")' = {} /\ live' = 0
  BY <1>3 DEF InState, PageInv, LiveIsThePublished, TakeDown
<1>6. \A i \in DOMAIN versions : IsNewest(i) <=> IsNewest(i)'
  BY <1>3 DEF IsNewest
<1>7. SomeVersionIsNewest' /\ OneDraft' /\ IssuedIsBehind'
  BY <1>3, <1>4, <1>6
  DEF PageInv, SomeVersionIsNewest, OneDraft, IssuedIsBehind
<1>8. DraftIsNewest'
  BY <1>3, <1>4, <1>6 DEF PageInv, DraftIsNewest, Seen, InState
<1>9. TasksReadVersions'
  BY <1>3, <1>4 DEF PageInv, TasksReadVersions, HasDraft
<1>10. RevisionNamesOneDocument' /\ LiveIsThePublished'
  BY <1>5 DEF PageInv, RevisionNamesOneDocument, LiveIsThePublished
<1>. QED
  BY <1>1, <1>3, <1>5, <1>7, <1>8, <1>9, <1>10

\* The draft becomes the live version, the live one an old one, and a copy of the draft
\* is the new draft.
LEMMA DraftIsPublished ==
  ASSUME PageInv, HasDraft, NEW t \in Tab, Publish(t)
  PROVE  /\ versions' \in Seq(Version) /\ Len(versions') <= MaxVersion
         /\ live' \in {0} \cup DOMAIN versions'
         /\ issued' \subseteq Builder
         /\ SomeVersionIsNewest' /\ DraftIsNewest' /\ OneDraft' /\ IssuedIsBehind'
         /\ TasksReadVersions' /\ RevisionNamesOneDocument' /\ LiveIsThePublished'
<1> DEFINE next == [Draft EXCEPT !.revision = NextRevision]
           changed == [i \in DOMAIN versions |->
                         IF i = DraftOf THEN [versions[i] EXCEPT !.state = "PUBLISHED"]
                         ELSE IF i = live THEN [versions[i] EXCEPT !.state = "ARCHIVED"]
                         ELSE versions[i]]
<1>1. /\ DOMAIN versions = 1..Len(versions)
      /\ Len(versions) \in Nat
      /\ \A i \in DOMAIN versions : versions[i] \in Version /\ versions[i].revision \in Nat
      /\ \A a \in issued : a \in Builder /\ a.revision \in Nat
  BY RevisionsAreNumbers DEF PageInv
<1>2. PICK n \in Nat : n = Len(versions) + 1
  BY <1>1
<1>3. PICK m \in DOMAIN versions :
        /\ m = DraftOf /\ versions[m] = Draft /\ versions[m].state = "DRAFT"
        /\ InState("DRAFT") = {m}
  BY TheDraft DEF PageInv, Draft
<1>4. /\ NextRevision \in Revision
      /\ \A i \in DOMAIN versions : versions[i].revision < NextRevision
      /\ \A a \in issued : a.revision < NextRevision
  BY NextIsBeyond, PageAssumption DEF PageInv, Publish, Revision
<1>5. /\ next \in Version /\ next.state = "DRAFT"
      /\ next.revision = NextRevision /\ next.document = versions[m].document
      /\ Seen(next) \in Builder
      /\ Seen(next).revision = NextRevision
  BY <1>1, <1>3, <1>4 DEF Version, Seen, Builder
<1>6. changed \in [1..Len(versions) -> Version]
  <2>1. \A i \in DOMAIN versions :
          /\ [versions[i] EXCEPT !.state = "PUBLISHED"] \in Version
          /\ [versions[i] EXCEPT !.state = "ARCHIVED"] \in Version
    BY <1>1 DEF Version, VersionState
  <2>. QED
    BY <1>1, <2>1
<1>7. changed \in Seq(Version) /\ Len(changed) = Len(versions)
  BY <1>1, <1>6, SeqDef, LenProperties
<1>8. versions' = Append(changed, next)
  BY DEF Publish
<1>9. \A i \in DOMAIN versions :
        /\ changed[i].revision = versions[i].revision
        /\ changed[i].document = versions[i].document
        /\ changed[i].state = IF i = m THEN "PUBLISHED"
                              ELSE IF i = live THEN "ARCHIVED" ELSE versions[i].state
  BY <1>1, <1>3 DEF Version
<1> HIDE DEF changed, next
<1>10. /\ versions' \in Seq(Version)
       /\ DOMAIN versions' = 1..n
       /\ Len(versions') = n
       /\ versions'[n] = next
       /\ \A i \in DOMAIN versions : i \in DOMAIN versions' /\ i # n /\ versions'[i] = changed[i]
       /\ \A i \in DOMAIN versions' : i = n \/ i \in DOMAIN versions
  BY <1>1, <1>2, <1>5, <1>6, <1>7, <1>8
<1>11. IsNewest(n)'
  BY <1>1, <1>4, <1>5, <1>9, <1>10 DEF IsNewest, Revision
<1>12. InState("DRAFT")' = {n}
  BY <1>3, <1>5, <1>9, <1>10 DEF InState
<1>13. InState("PUBLISHED")' = {m}
  BY <1>3, <1>5, <1>9, <1>10 DEF InState, PageInv, LiveIsThePublished
<1>14. live' = m /\ issued' = issued \cup {Seen(next)} /\ m # 0
  BY <1>1, <1>3 DEF Publish, next
<1>15. SomeVersionIsNewest' /\ DraftIsNewest' /\ OneDraft'
  BY <1>10, <1>11, <1>12, <1>14 DEF SomeVersionIsNewest, DraftIsNewest, OneDraft
<1>16. IssuedIsBehind'
  <2>1. \A a \in issued' : a.revision <= NextRevision
    BY <1>1, <1>4, <1>5, <1>14 DEF Revision
  <2>. QED
    BY <2>1, <1>5, <1>10 DEF IssuedIsBehind
<1>17. TasksReadVersions'
  <2>1. HasDraft'
    BY <1>12 DEF HasDraft
  <2>2. \A s \in Tab : task'[s] # NoTask => task[s] # NoTask /\ task'[s] = task[s]
    BY DEF PageInv, PageTypeOK, Publish
  <2>. QED
    BY <2>1, <2>2, <1>10 DEF PageInv, TasksReadVersions
<1>18. RevisionNamesOneDocument'
  BY <1>1, <1>4, <1>5, <1>14 DEF PageInv, RevisionNamesOneDocument, Revision
<1>19. LiveIsThePublished'
  BY <1>13, <1>14 DEF LiveIsThePublished
<1>20. issued' \subseteq Builder /\ live' \in {0} \cup DOMAIN versions'
  BY <1>1, <1>5, <1>10, <1>14
<1>21. Len(versions') <= MaxVersion
  BY <1>1, <1>2, <1>10, PageAssumption DEF Publish
<1>. QED
  BY <1>10, <1>15, <1>16, <1>17, <1>18, <1>19, <1>20, <1>21

-----------------------------------------------------------------------------
(* The initial state and every step.                                       *)

\* A page has one version, a draft or a published one.
LEMMA PageInitEstablishes == PageInit => PageInv
<1> SUFFICES ASSUME PageInit PROVE PageInv
  OBVIOUS
<1>1. PICK d \in Document, s \in {"DRAFT", "PUBLISHED"} :
        /\ versions = <<[state |-> s, document |-> d, revision |-> 0]>>
        /\ live = IF s = "PUBLISHED" THEN 1 ELSE 0
        /\ issued = {[revision |-> 0, document |-> d]}
  BY DEF PageInit
<1>2. 0 \in Revision
  BY PageAssumption DEF Revision
<1>3. [state |-> s, document |-> d, revision |-> 0] \in Version
  BY <1>2 DEF Version, VersionState
<1>4. /\ versions \in Seq(Version) /\ DOMAIN versions = {1} /\ Len(versions) = 1
      /\ versions[1] = [state |-> s, document |-> d, revision |-> 0]
  BY <1>1, <1>3
<1>5. PageTypeOK
  <2>1. issued \subseteq Builder
    BY <1>1, <1>2 DEF Builder
  <2>2. tab \in [Tab -> Builder \cup {NoTask}] /\ task \in [Tab -> Task \cup {NoTask}]
    BY DEF PageInit
  <2>3. deleted \in BOOLEAN
    BY DEF PageInit
  <2>4. live \in {0} \cup DOMAIN versions
    BY <1>1, <1>4
  <2>5. Len(versions) <= MaxVersion
    BY <1>4, PageAssumption
  <2>. QED
    BY <1>4, <2>1, <2>2, <2>3, <2>4, <2>5 DEF PageTypeOK
<1>6. SomeVersionIsNewest /\ DraftIsNewest /\ OneDraft /\ IssuedIsBehind
  BY <1>1, <1>4
  DEF SomeVersionIsNewest, DraftIsNewest, OneDraft, IssuedIsBehind, IsNewest, InState, Seen
<1>7. TasksReadVersions /\ TasksHaveTabs /\ RevisionNamesOneDocument
  BY <1>1 DEF PageInit, TasksReadVersions, TasksHaveTabs, RevisionNamesOneDocument
<1>8. LiveIsThePublished
  BY <1>1, <1>4 DEF LiveIsThePublished, InState
<1>. QED
  BY <1>5, <1>6, <1>7, <1>8 DEF PageInv

\* A builder that is shown a revision and a document keeps its type.
LEMMA ShowsIsTyped ==
  ASSUME PageTypeOK, NEW t \in Tab, NEW r \in Revision, NEW d \in Document, Shows(t, r, d)
  PROVE  /\ tab' \in [Tab -> Builder \cup {NoTask}]
         /\ \A s \in Tab : tab[s] \in Builder => tab'[s] \in Builder
BY DEF PageTypeOK, Shows, Builder

\* What a transaction reads at first are the draft and a version there is.
LEMMA StartIsTyped ==
  ASSUME PageInv, HasDraft, NEW t \in Tab, NEW kind \in {"publish", "revert"}, Start(t, kind),
         UNCHANGED versions
  PROVE  /\ task' \in [Tab -> Task \cup {NoTask}]
         /\ TasksReadVersions'
<1> DEFINE began == [kind |-> kind, from |-> IF live = 0 THEN DraftOf ELSE live,
                     read |-> Seen(Draft)]
<1>1. /\ DraftOf \in DOMAIN versions /\ Draft \in Version
      /\ DOMAIN versions = 1..Len(versions)
      /\ Len(versions) \in Nat
  BY TheDraft, RevisionsAreNumbers DEF PageInv
<1>2. began.from \in DOMAIN versions /\ began.from \in 1..MaxVersion
  BY <1>1, PageAssumption DEF PageInv, PageTypeOK
<1>3. began.read \in Builder
  BY <1>1 DEF Seen, Builder, Version
<1>4. began \in Task
  BY <1>2, <1>3 DEF Task
<1> HIDE DEF began
<1>5. task' = [task EXCEPT ![t] = began]
  BY DEF Start, began
<1>6. task' \in [Tab -> Task \cup {NoTask}]
  BY <1>4, <1>5 DEF PageInv, PageTypeOK
<1>7. HasDraft'
  BY DEF HasDraft, InState
<1>8. TasksReadVersions'
  BY <1>2, <1>5, <1>7 DEF PageInv, PageTypeOK, TasksReadVersions
<1>. QED
  BY <1>6, <1>8

\* What speaks of versions, the live one and what was issued stays so with them.
LEMMA SameVersions ==
  ASSUME PageInv, UNCHANGED <<versions, live, issued>>
  PROVE  /\ SomeVersionIsNewest' /\ DraftIsNewest' /\ OneDraft' /\ IssuedIsBehind'
         /\ RevisionNamesOneDocument' /\ LiveIsThePublished'
         /\ HasDraft' <=> HasDraft
BY DEF PageInv, SomeVersionIsNewest, DraftIsNewest, OneDraft, IssuedIsBehind, IsNewest, InState,
       Seen, RevisionNamesOneDocument, LiveIsThePublished, HasDraft

\* Every step keeps the invariant.
LEMMA PageStepPreserves == PageInv /\ [PageNext]_pageVars => PageInv'
<1> SUFFICES ASSUME PageInv, [PageNext]_pageVars PROVE PageInv'
  OBVIOUS
<1>0. PageTypeOK /\ OneDraft
  BY DEF PageInv
<1>1. ASSUME NEW t \in Tab, OpenDraft(t) PROVE PageInv'
  <2>1. CASE HasDraft
    <3>1. /\ UNCHANGED <<versions, live, issued, deleted, task>>
          /\ Shows(t, Draft.revision, Draft.document)
      BY <1>1, <2>1 DEF OpenDraft
    <3>2. Draft.revision \in Revision /\ Draft.document \in Document
      BY <1>0, <2>1, TheDraft DEF Version
    <3>3. /\ tab' \in [Tab -> Builder \cup {NoTask}]
          /\ \A s \in Tab : tab[s] \in Builder => tab'[s] \in Builder
      BY <1>0, <3>1, <3>2, ShowsIsTyped
    <3>. QED
      BY <3>1, <3>3, SameVersions DEF PageInv, PageTypeOK, TasksReadVersions, TasksHaveTabs
  <2>2. CASE ~HasDraft
    <3>1. PICK d \in (IF live # 0 THEN {versions[live].document} ELSE Document) :
            /\ versions' = Append(versions, [state |-> "DRAFT", document |-> d,
                                             revision |-> NextRevision])
            /\ issued' = issued \cup {[revision |-> NextRevision, document |-> d]}
            /\ Shows(t, NextRevision, d)
      BY <1>1, <2>2 DEF OpenDraft
    <3>2. d \in Document
      BY <1>0, RevisionsAreNumbers DEF PageTypeOK, Version
    <3>3. /\ NextRevision <= MaxRevision /\ Len(versions) < MaxVersion
          /\ UNCHANGED <<live, deleted, task>>
      BY <1>1, <2>2 DEF OpenDraft
    <3>4. NextRevision \in Revision
      BY <3>3, NextIsBeyond, PageAssumption DEF PageInv, Revision
    <3>5. /\ tab' \in [Tab -> Builder \cup {NoTask}]
          /\ \A s \in Tab : tab[s] \in Builder => tab'[s] \in Builder
      BY <1>0, <3>1, <3>2, <3>4, ShowsIsTyped
    <3>. QED
      BY <2>2, <3>1, <3>2, <3>3, <3>5, DraftBegins DEF PageInv, PageTypeOK, TasksHaveTabs
  <2>. QED
    BY <2>1, <2>2
<1>2. ASSUME NEW t \in Tab, SaveDraft(t) PROVE PageInv'
  <2>1. HasDraft
    BY <1>2 DEF SaveDraft, TokenIsCurrent
  <2>2. /\ DraftOf \in DOMAIN versions /\ Draft \in Version /\ Draft.state = "DRAFT"
        /\ InState("DRAFT") = {DraftOf}
    BY <1>0, <2>1, TheDraft
  <2> DEFINE saved(d) == [Draft EXCEPT !.document = d, !.revision = @ + 1]
  <2>3. PICK d \in Document :
          /\ versions' = [versions EXCEPT ![DraftOf] = saved(d)]
          /\ issued' = issued \cup {Seen(saved(d))}
          /\ Shows(t, saved(d).revision, d) \/ UNCHANGED tab
    BY <1>2 DEF SaveDraft
  <2>4. PICK v : v = saved(d)
    OBVIOUS
  <2>5. PICK r : r = Draft.revision + 1
    OBVIOUS
  <2>6. r \in Revision
    BY <1>2, <2>2, <2>5, PageAssumption DEF SaveDraft, Version, Revision
  <2>7. v \in Version /\ v.state = "DRAFT" /\ v.document = d /\ v.revision = r
    BY <2>2, <2>4, <2>5, <2>6 DEF Version
  <2>8. \A i \in DOMAIN versions : versions[i].revision < r
    BY <2>2, <2>5, <1>0, RevisionsAreNumbers DEF PageInv, DraftIsNewest, IsNewest, Draft
  <2>9. \A a \in issued : a.revision < r
    BY <2>6, <2>8, <1>0, RevisionsAreNumbers DEF PageInv, IssuedIsBehind, Revision
  <2>10. UNCHANGED <<live, deleted, task>>
    BY <1>2 DEF SaveDraft
  <2>11. /\ tab' \in [Tab -> Builder \cup {NoTask}]
         /\ \A s \in Tab : tab[s] \in Builder => tab'[s] \in Builder
    BY <1>0, <2>3, <2>4, <2>6, <2>7, ShowsIsTyped DEF PageTypeOK
  <2> HIDE DEF saved
  <2>. QED
    BY <2>1, <2>3, <2>4, <2>6, <2>7, <2>8, <2>9, <2>10, <2>11, DraftChanges
    DEF PageInv, PageTypeOK, TasksHaveTabs
<1>3. ASSUME NEW t \in Tab, BeginPublish(t) PROVE PageInv'
  <2>1. HasDraft /\ Start(t, "publish") /\ UNCHANGED <<versions, live, deleted, tab, issued>>
    BY <1>3 DEF BeginPublish, TokenIsCurrent
  <2>2. TasksHaveTabs'
    BY <1>3, <2>1 DEF BeginPublish, Holds, Start, PageInv, PageTypeOK, TasksHaveTabs
  <2>. QED
    BY <2>1, <2>2, StartIsTyped, SameVersions DEF PageInv, PageTypeOK
<1>4. ASSUME NEW t \in Tab, Publish(t) PROVE PageInv'
  <2>1. HasDraft
    BY <1>4 DEF Publish, PageInv, TasksReadVersions
  <2>2. /\ NextRevision \in Revision
        /\ task' = [task EXCEPT ![t] = NoTask] /\ UNCHANGED deleted
        /\ Shows(t, NextRevision, tab[t].document)
    BY <1>4, NextIsBeyond, PageAssumption DEF Publish, PageInv, Revision
  <2>3. /\ tab' \in [Tab -> Builder \cup {NoTask}]
        /\ \A s \in Tab : tab[s] \in Builder => tab'[s] \in Builder
    <3>1. tab[t].document \in Document
      BY <1>4 DEF Publish, PageInv, TasksHaveTabs, Builder
    <3>. QED
      BY <1>0, <2>2, <3>1, ShowsIsTyped
  <2>4. task' \in [Tab -> Task \cup {NoTask}] /\ TasksHaveTabs'
    BY <2>2, <2>3 DEF PageInv, PageTypeOK, TasksHaveTabs
  <2>. QED
    BY <1>4, <2>1, <2>2, <2>3, <2>4, DraftIsPublished DEF PageInv, PageTypeOK
<1>5. ASSUME NEW t \in Tab, BeginRevert(t) PROVE PageInv'
  <2>1. HasDraft /\ UNCHANGED <<versions, live, deleted, issued>>
    BY <1>5 DEF BeginRevert, TokenIsCurrent
  <2>2. CASE UNCHANGED task /\ Shows(t, Draft.revision, Draft.document)
    <3>1. Draft.revision \in Revision /\ Draft.document \in Document
      BY <1>0, <2>1, TheDraft DEF Version
    <3>2. /\ tab' \in [Tab -> Builder \cup {NoTask}]
          /\ \A s \in Tab : tab[s] \in Builder => tab'[s] \in Builder
      BY <1>0, <2>2, <3>1, ShowsIsTyped
    <3>. QED
      BY <2>1, <2>2, <3>2, SameVersions DEF PageInv, PageTypeOK, TasksReadVersions, TasksHaveTabs
  <2>3. CASE Start(t, "revert") /\ UNCHANGED tab
    <3>1. TasksHaveTabs'
      BY <1>5, <2>3 DEF BeginRevert, Holds, Start, PageInv, PageTypeOK, TasksHaveTabs
    <3>. QED
      BY <2>1, <2>3, <3>1, StartIsTyped, SameVersions DEF PageInv, PageTypeOK
  <2>. QED
    BY <1>5, <2>2, <2>3 DEF BeginRevert
<1>6. ASSUME NEW t \in Tab, Revert(t) PROVE PageInv'
  <2> DEFINE old == versions[task[t].from].document
             reverted == [Draft EXCEPT !.document = old, !.revision = NextRevision]
  <2>1. HasDraft /\ task[t] # NoTask /\ NextRevision <= MaxRevision
    BY <1>6 DEF Revert
  <2>2. DraftOf \in DOMAIN versions /\ Draft \in Version /\ Draft.state = "DRAFT"
    BY <1>0, <2>1, TheDraft
  <2>3. /\ versions' = [versions EXCEPT ![DraftOf] = reverted]
        /\ issued' = issued \cup {Seen(reverted)}
        /\ Shows(t, reverted.revision, old)
        /\ task' = [task EXCEPT ![t] = NoTask]
        /\ UNCHANGED <<live, deleted>>
    BY <1>6 DEF Revert
  <2>4. /\ NextRevision \in Revision
        /\ \A i \in DOMAIN versions : versions[i].revision < NextRevision
        /\ \A a \in issued : a.revision < NextRevision
    BY <2>1, NextIsBeyond, PageAssumption DEF PageInv, Revision
  <2>5. PICK d \in Document : d = old
    BY <2>1, <1>0, RevisionsAreNumbers DEF PageInv, TasksReadVersions, Version
  <2>6. PICK v : v = [Draft EXCEPT !.document = d, !.revision = NextRevision]
    OBVIOUS
  <2>7. v \in Version /\ v.state = "DRAFT" /\ v.document = d /\ v.revision = NextRevision
    BY <2>2, <2>4, <2>6 DEF Version
  <2>8. v = reverted
    BY <2>5, <2>6
  <2> HIDE DEF reverted
  <2>9. /\ tab' \in [Tab -> Builder \cup {NoTask}]
        /\ \A s \in Tab : tab[s] \in Builder => tab'[s] \in Builder
    BY <1>0, <2>3, <2>4, <2>5, <2>7, <2>8, ShowsIsTyped
  <2>10. task' \in [Tab -> Task \cup {NoTask}] /\ TasksHaveTabs'
    BY <2>3, <2>9 DEF PageInv, PageTypeOK, TasksHaveTabs
  <2>11. /\ versions' \in Seq(Version) /\ Len(versions') <= MaxVersion
         /\ live' \in {0} \cup DOMAIN versions'
         /\ issued' \subseteq Builder
         /\ SomeVersionIsNewest' /\ DraftIsNewest' /\ OneDraft' /\ IssuedIsBehind'
         /\ RevisionNamesOneDocument' /\ LiveIsThePublished'
         /\ TasksReadVersions'
    <3>1. \A s \in Tab : task'[s] \in {task[s], NoTask}
      BY <2>3 DEF PageInv, PageTypeOK
    <3>. QED
      BY <3>1, <2>1, <2>3, <2>4, <2>7, <2>8, DraftChanges
  <2>. QED
    BY <2>3, <2>9, <2>10, <2>11 DEF PageInv, PageTypeOK
<1>7. ASSUME NEW t \in Tab, GiveUp(t) PROVE PageInv'
  BY <1>7, SameVersions DEF GiveUp, PageInv, PageTypeOK, TasksReadVersions, TasksHaveTabs
<1>8. ASSUME UnpublishPage \/ DeletePage PROVE PageInv'
  <2>1. TakeDown /\ UNCHANGED <<tab, task, issued>> /\ deleted' \in BOOLEAN
    BY <1>8 DEF UnpublishPage, DeletePage, PageInv, PageTypeOK
  <2>. QED
    BY <2>1, TakenDown DEF PageInv, PageTypeOK, TasksHaveTabs
<1>9. CASE UNCHANGED pageVars
  BY <1>9, SameVersions DEF pageVars, PageInv, PageTypeOK, TasksReadVersions, TasksHaveTabs
<1>. QED
  BY <1>1, <1>2, <1>3, <1>4, <1>5, <1>6, <1>7, <1>8, <1>9 DEF PageNext

-----------------------------------------------------------------------------
(* Theorems.                                                               *)

\* The inductive invariant: the newest version has the highest revision issued, and the
\* one draft, while there is one, is the newest.
THEOREM PageInvariance == PageSpec => []PageInv
BY PageInitEstablishes, PageStepPreserves, PTL DEF PageSpec

\* Rows, tokens and open transactions keep their types.
THEOREM PageTypeCorrectness == PageSpec => []PageTypeOK
BY PageInvariance, PTL DEF PageInv

\* No revision is ever handed out for two documents (nextRevision, savePageDraft): a
\* token that matches is a token for what the draft holds now.
THEOREM TokensAreUnique == PageSpec => []RevisionNamesOneDocument
BY PageInvariance, PTL DEF PageInv

\* Publishing, taking down and deleting leave the page with its one PUBLISHED version,
\* or none, whatever else is under way.
THEOREM OneVersionIsLive == PageSpec => []LiveIsThePublished
BY PageInvariance, PTL DEF PageInv

-----------------------------------------------------------------------------
(* PolicyDrafts, for any editors, texts and revisions: what is published   *)
(* has text of the merchant's own.  A revision may come back with another  *)
(* draft (unpublishing writes one past what it read), so the argument is   *)
(* not that the revision still names the draft that was judged, but that   *)
(* the draft published is the one that was judged.                         *)

\* What an open publish has read was judged.
ReadToPublishIsOwn ==
  \A e \in Editor : change[e].kind = "publish" => change[e].read.draft \in OwnText

PolicyInv == PolicyTypeOK /\ OnlyOwnTextIsLive /\ ReadToPublishIsOwn

PolicyChange == [kind : {"none", "publish", "unpublish"}, read : Shown]

PolicyRow == [revision : 0..MaxPolicyRevision, draft : Text \cup {NoText},
              published : Text \cup {NoText}]

-----------------------------------------------------------------------------

\* A policy nobody has written yet shows nothing of anyone.
LEMMA PolicyInitEstablishes ==
  ASSUME PolicyInit
  PROVE  PolicyInv
<1>1. Unwritten \in Shown /\ NoChange \in PolicyChange
  BY PolicyAssumption DEF Unwritten, Shown, NoChange, PolicyChange
<1>2. policy \in PolicyRow
  BY PolicyAssumption DEF PolicyInit, PolicyRow
<1>. QED
  BY <1>1, <1>2 DEF PolicyInit, PolicyInv, PolicyTypeOK, OnlyOwnTextIsLive, ReadToPublishIsOwn,
     NoChange, PolicyChange, PolicyRow

\* No step of an editor, and no publication that fails halfway, breaks it.
LEMMA PolicyStepPreserves ==
  ASSUME PolicyInv, [PolicyNext]_policyVars
  PROVE  PolicyInv'
<1>0. /\ policy \in PolicyRow
      /\ ShownNow \in Shown
      /\ NoChange \in PolicyChange /\ NoChange.kind = "none"
      /\ \A e \in Editor : change[e] \in PolicyChange
  BY PolicyAssumption
  DEF PolicyInv, PolicyTypeOK, PolicyRow, ShownNow, Shown, NoChange, Unwritten, PolicyChange
<1>1. ASSUME NEW e \in Editor, Reload(e) PROVE PolicyInv'
  BY <1>0, <1>1 DEF Reload, PolicyInv, PolicyTypeOK, OnlyOwnTextIsLive, ReadToPublishIsOwn
<1>2. ASSUME NEW e \in Editor, SavePolicy(e) PROVE PolicyInv'
  <2>1. PICK d \in Text :
          /\ policy' = [policy EXCEPT !.draft = d, !.revision = @ + 1]
          /\ editor' = [editor EXCEPT ![e] = [revision |-> policy.revision + 1, draft |-> d]]
    BY <1>2 DEF SavePolicy
  <2>2. policy.revision + 1 \in 0..MaxPolicyRevision
    BY <1>0, <1>2, PolicyAssumption DEF SavePolicy, PolicyRow
  <2>3. policy' \in PolicyRow /\ policy'.published = policy.published
    BY <1>0, <2>1, <2>2 DEF PolicyRow
  <2>4. editor' \in [Editor -> Shown]
    BY <2>1, <2>2 DEF PolicyInv, PolicyTypeOK, Shown
  <2>. QED
    BY <1>2, <2>3, <2>4
    DEF SavePolicy, PolicyInv, PolicyTypeOK, PolicyRow, OnlyOwnTextIsLive, ReadToPublishIsOwn
<1>3. ASSUME NEW e \in Editor, NEW kind \in {"publish", "unpublish"}, Begin(e, kind),
             kind = "publish" => policy.draft \in OwnText
      PROVE  PolicyInv'
  <2>1. PICK c \in PolicyChange : c = [kind |-> kind, read |-> ShownNow]
    BY <1>0 DEF PolicyChange
  <2>2. c.kind = "publish" => c.read.draft \in OwnText
    BY <1>3, <2>1 DEF ShownNow
  <2>3. change' = [change EXCEPT ![e] = c] /\ UNCHANGED <<policy, editor>>
    BY <1>3, <2>1 DEF Begin
  <2>. QED
    BY <2>2, <2>3
    DEF PolicyInv, PolicyTypeOK, PolicyChange, OnlyOwnTextIsLive, ReadToPublishIsOwn
<1>4. ASSUME NEW e \in Editor, End(e),
             policy' \in PolicyRow, policy'.published \in OwnText \cup {NoText},
             editor' \in [Editor -> Shown]
      PROVE  PolicyInv'
  BY <1>0, <1>4
  DEF End, PolicyInv, PolicyTypeOK, PolicyRow, PolicyChange, OnlyOwnTextIsLive, ReadToPublishIsOwn
<1>5. ASSUME NEW e \in Editor, PublishPolicy(e) PROVE PolicyInv'
  <2>1. PICK d : d = change[e].read.draft
    OBVIOUS
  <2>2. d \in OwnText /\ d \in Text
    BY <1>5, <2>1, PolicyAssumption DEF PublishPolicy, PolicyInv, ReadToPublishIsOwn
  <2>3. policy.revision + 1 \in 0..MaxPolicyRevision
    BY <1>0, <1>5, PolicyAssumption DEF PublishPolicy, PolicyRow
  <2>4. policy' = [policy EXCEPT !.published = d, !.revision = @ + 1]
    BY <1>5, <2>1 DEF PublishPolicy
  <2>5. policy' \in PolicyRow /\ policy'.published = d
    BY <1>0, <2>2, <2>3, <2>4 DEF PolicyRow
  <2>6. editor' \in [Editor -> Shown]
    BY <1>5, <2>3 DEF PublishPolicy, PolicyInv, PolicyTypeOK, Shown
  <2>. QED
    BY <1>4, <1>5, <2>2, <2>5, <2>6 DEF PublishPolicy
<1>6. ASSUME NEW e \in Editor, UnpublishPolicy(e) PROVE PolicyInv'
  <2>1. change[e].read.revision + 1 \in 0..MaxPolicyRevision
    BY <1>0, <1>6, PolicyAssumption DEF UnpublishPolicy, PolicyChange, Shown
  <2>2. policy' \in PolicyRow /\ policy'.published = NoText
    BY <1>0, <1>6, <2>1 DEF UnpublishPolicy, PolicyRow
  <2>. QED
    BY <1>4, <1>6, <2>2 DEF UnpublishPolicy, PolicyInv, PolicyTypeOK
<1>7. ASSUME NEW e \in Editor, ChangeFails(e) PROVE PolicyInv'
  BY <1>0, <1>4, <1>7 DEF ChangeFails, PolicyInv, PolicyTypeOK, OnlyOwnTextIsLive
<1>8. CASE UNCHANGED policyVars
  BY <1>8 DEF policyVars, PolicyInv, PolicyTypeOK, OnlyOwnTextIsLive, ReadToPublishIsOwn
<1>. QED
  BY <1>1, <1>2, <1>3, <1>5, <1>6, <1>7, <1>8
  DEF PolicyNext, BeginPublishPolicy, BeginUnpublishPolicy

-----------------------------------------------------------------------------
(* Theorems.                                                               *)

\* The inductive invariant: an open publish holds a draft that was judged.
THEOREM PolicyInvariance == PolicySpec => []PolicyInv
BY PolicyInitEstablishes, PolicyStepPreserves, PTL DEF PolicySpec

\* The policy's row, the editors and their open transactions keep their types.
THEOREM PolicyTypeCorrectness == PolicySpec => []PolicyTypeOK
BY PolicyInvariance, PTL DEF PolicyInv

\* "A policy can't be published until it has text of the merchant's own": shoppers never
\* read anything else, although saves come between publishing's look and its write and a
\* revision may be issued twice.
THEOREM PublishedIsOwnText == PolicySpec => []OnlyOwnTextIsLive
BY PolicyInvariance, PTL DEF PolicyInv

=============================================================================
