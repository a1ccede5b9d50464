------------------------- MODULE InvalidationProofs -------------------------
(***************************************************************************)
(* Proofs about Invalidation, for any tags, dispatchers, requests, overlap *)
(* and bounds, however long dispatches stay open and processes idle.       *)
(*                                                                         *)
(* A page that is out of date, in the cache or on its way into it, has an  *)
(* invalidation under way, or missed one whose row became visible late.    *)
(* The argument is that a row which is not late commits in front of the    *)
(* cursor, that the cursor never passes a row which no read fetched, and   *)
(* that a late row is not one the feed believes to have applied.           *)
(***************************************************************************)
EXTENDS Invalidation, Sums

\* A page that is out of date is in the cache or on its way into it.
OutOfDate(t) ==
  \/ cached[t] = "stale"
  \/ \E r \in Request : /\ load[r] # Absent /\ load[r].tag = t
                        /\ ~load[r].spoiled /\ load[r].read = "stale"

\* The feed will apply the row, or drop everything, or the row became visible late.
Awaited(row) == StillToCome(row) \/ row \in late

NothingIsLost == \A t \in Tag : OutOfDate(t) => UnderWay(t, late)

Clock ==
  /\ tick \in Nat /\ lastSync \in Nat /\ lastSync <= tick
  /\ reading # Absent => /\ reading.at \in Nat /\ reading.at <= tick
                         /\ reading.rows \subseteq log /\ reading.head \in Nat

Shapes ==
  /\ InvalidationTypeOK
  /\ dispatch \in [Dispatcher -> LogRow \cup {Absent}]
  /\ load \in [Request -> Load \cup {Absent}]
  /\ IsFiniteSet(log)

\* No two rows have the same id, and the feed has applied only rows it has read.
IdsAreUnique ==
  /\ \A row, other \in log : row.id = other.id => row = other
  /\ \A d \in Dispatcher : IsOpen(d) =>
       /\ dispatch[d].id <= lastId
       /\ \A row \in log : row.id # dispatch[d].id
       /\ \A e \in Dispatcher : IsOpen(e) /\ dispatch[e].id = dispatch[d].id => e = d
  /\ seen \subseteq Ids(log)

Frame == Shapes /\ Clock /\ IdsAreUnique

\* Where a cursor may stand: before the log or at a row of it.
InTheLog(id) == id = 0 \/ id \in Ids(log)

\* A row that is not late, that a read did not fetch and that the cursor has not passed
\* comes after all that the read did fetch.
ReadIsAPrefix ==
  reading # Absent /\ cursor # Absent /\ Cardinality(reading.rows) < ReadLimit =>
    \A row \in log :
      \/ row \in late \/ row \in reading.rows \/ row.id <= cursor
      \/ \A x \in reading.rows : x.id < row.id

\* What the feed has applied is behind its cursor, and none of it became visible late.
FeedFollows ==
  /\ cursor # Absent => InTheLog(cursor)
  /\ reading # Absent => InTheLog(reading.head)
  /\ cursor = Absent => seen = {}
  /\ cursor # Absent => \A id \in seen : id <= cursor
  /\ \A row \in late : row.id \notin seen
  /\ reading # Absent => \A row \in late : row \notin reading.rows
  /\ ReadIsAPrefix

-----------------------------------------------------------------------------
(* Rows and ids.                                                           *)

\* Among finitely many rows one has the lowest id.
LEMMA EarliestRow ==
  ASSUME NEW S, IsFiniteSet(S), S # {}, \A x \in S : x.id \in Nat
  PROVE  \E x \in S : \A y \in S : x.id <= y.id
<1> DEFINE Good == {T \in SUBSET S : T # {} => \E x \in T : \A y \in T : x.id <= y.id}
<1>1. ASSUME NEW T \in SUBSET S, \A U \in SUBSET T : U # T => U \in Good
      PROVE  T \in Good
  <2> SUFFICES ASSUME T # {} PROVE \E x \in T : \A y \in T : x.id <= y.id
    OBVIOUS
  <2>1. PICK a \in T : TRUE
    OBVIOUS
  <2>2. CASE T \ {a} = {}
    <3>1. \A y \in T : y = a /\ a.id <= y.id
      BY <2>1, <2>2
    <3> QED
      BY <2>1, <3>1
  <2>3. CASE T \ {a} # {}
    <3>0. T \ {a} \in Good
      <4> HIDE DEF Good
      <4> QED
        BY <1>1, <2>1
    <3>1. PICK b \in T \ {a} : \A y \in T \ {a} : b.id <= y.id
      BY <2>3, <3>0
    <3>2. CASE a.id <= b.id
      <4>1. \A y \in T : a.id <= y.id
        BY <2>1, <3>1, <3>2
      <4> QED
        BY <2>1, <4>1
    <3>3. CASE ~(a.id <= b.id)
      <4>1. \A y \in T : b.id <= y.id
        BY <2>1, <3>1, <3>3
      <4> QED
        BY <3>1, <4>1
    <3> QED
      BY <3>2, <3>3
  <2> QED
    BY <2>2, <2>3
<1>2. S \in Good
  <2> HIDE DEF Good
  <2> QED
    BY <1>1, SetInduction
<1> QED
  BY <1>2

\* The largest of finitely many ids is one of them, or zero.
LEMMA LargestIsNat ==
  ASSUME NEW ids, IsFiniteSet(ids), ids \subseteq Nat
  PROVE  /\ Largest(ids) \in Nat
         /\ Largest(ids) = 0 \/ Largest(ids) \in ids
         /\ \A id \in ids : id <= Largest(ids)
<1> DEFINE S == ids \cup {0}
           Good == {T \in SUBSET S : T # {} => \E x \in T : \A y \in T : x >= y}
<1>1. IsFiniteSet(S) /\ S \subseteq Nat
  BY FS_AddElement
<1>2. ASSUME NEW T \in SUBSET S, \A U \in SUBSET T : U # T => U \in Good
      PROVE  T \in Good
  <2> SUFFICES ASSUME T # {} PROVE \E x \in T : \A y \in T : x >= y
    OBVIOUS
  <2>1. PICK a \in T : TRUE
    OBVIOUS
  <2>2. CASE T \ {a} = {}
    <3>1. \A y \in T : y = a
      BY <2>2
    <3> QED
      BY <1>1, <2>1, <3>1
  <2>3. CASE T \ {a} # {}
    <3>0. T \ {a} \in Good
      <4> HIDE DEF Good
      <4> QED
        BY <1>2, <2>1
    <3>1. PICK b \in T \ {a} : \A y \in T \ {a} : b >= y
      BY <2>3, <3>0
    <3>2. /\ \A y \in T : y \in Nat
          /\ \A y \in T : y = a \/ y \in T \ {a}
      BY <1>1
    <3>3. CASE a >= b
      <4>1. \A y \in T : a >= y
        BY <3>1, <3>2, <3>3
      <4> QED
        BY <2>1, <4>1
    <3>4. CASE ~(a >= b)
      <4>1. \A y \in T : b >= y
        BY <3>1, <3>2, <3>4
      <4> QED
        BY <3>1, <4>1
    <3> QED
      BY <3>3, <3>4
  <2> QED
    BY <2>2, <2>3
<1>3. S \in Good
  <2> HIDE DEF Good, S
  <2> QED
    BY <1>1, <1>2, SetInduction
<1>4. \E x \in S : \A y \in S : x >= y
  BY <1>3
<1>5. PICK x \in S : x = Largest(ids) /\ \A y \in S : x >= y
  BY <1>4 DEF Largest, Max
<1> QED
  BY <1>1, <1>5

\* A read that is not full has every row it asked for.
LEMMA PageIsWhole ==
  ASSUME IsFiniteSet(log), \A row \in log : row.id \in Nat, Cardinality(Page) < ReadLimit
  PROVE  Page = {row \in log : Wanted(row)}
<1> DEFINE wanted == {row \in log : Wanted(row)}
           Before(row) == {other \in wanted : other.id < row.id}
<1>1. Page = {row \in wanted : Cardinality(Before(row)) < ReadLimit}
  BY DEF Page
<1> SUFFICES ASSUME wanted \ Page # {} PROVE FALSE
  BY <1>1
<1>2. IsFiniteSet(wanted) /\ IsFiniteSet(wanted \ Page) /\ IsFiniteSet(Page)
  BY <1>1, FS_Subset
<1>3. PICK x \in wanted \ Page : \A y \in wanted \ Page : x.id <= y.id
  <2> HIDE DEF wanted
  <2>1. \A row \in wanted \ Page : row.id \in Nat
    BY DEF wanted
  <2> QED
    BY <1>2, <2>1, EarliestRow
<1>4. Before(x) \subseteq Page
  BY <1>3
<1>5. Cardinality(Before(x)) <= Cardinality(Page)
  BY <1>2, <1>4, FS_Subset
<1>6. IsFiniteSet(Before(x)) /\ Cardinality(Before(x)) \in Nat /\ Cardinality(Page) \in Nat
  BY <1>2, <1>4, FS_Subset, FS_CardinalityType
<1>7. ~(Cardinality(Before(x)) < ReadLimit)
  BY <1>1, <1>3
<1>8. ReadLimit \in Nat
  BY InvalidationAssumption
<1> HIDE DEF Before, wanted
<1> QED
  BY <1>5, <1>6, <1>7, <1>8

-----------------------------------------------------------------------------
(* What steps do to the cache.                                             *)

\* A page that is out of date after tags were dropped was so before, and has none of them.
LEMMA TagsAreDropped ==
  ASSUME Shapes, NEW tags, Invalidate(tags), NEW t \in Tag, OutOfDate(t)'
  PROVE  OutOfDate(t) /\ t \notin tags
<1> USE AbsentAssumption DEF Shapes, OutOfDate, PageState
<1>1. /\ cached' = [u \in Tag |-> IF u \in tags THEN Absent ELSE cached[u]]
      /\ load' = [r \in Request |->
           IF load[r] = Absent THEN Absent
           ELSE [load[r] EXCEPT !.spoiled = load[r].spoiled \/ load[r].tag \in tags]]
  BY DEF Invalidate
<1>2. CASE cached'[t] = "stale"
  BY <1>1, <1>2
<1>3. ASSUME NEW r \in Request, load'[r] # Absent, load'[r].tag = t,
             ~load'[r].spoiled, load'[r].read = "stale"
      PROVE  OutOfDate(t) /\ t \notin tags
  <2>1. load[r] \in Load /\ load[r] # Absent
    BY <1>1, <1>3
  <2>2. load'[r] = [load[r] EXCEPT !.spoiled = load[r].spoiled \/ load[r].tag \in tags]
    BY <1>1, <2>1
  <2>3. load'[r].tag = load[r].tag /\ load'[r].read = load[r].read
        /\ load'[r].spoiled = (load[r].spoiled \/ load[r].tag \in tags)
    BY <2>1, <2>2 DEF Load
  <2> QED
    BY <1>3, <2>1, <2>3
<1> QED
  BY <1>2, <1>3

\* The cache's own steps put nothing out of date into it.
LEMMA CacheStepsAreClean ==
  ASSUME Shapes, NEW t \in Tag, OutOfDate(t)',
         \/ \E r \in Request, u \in Tag : StartLoad(r, u)
         \/ \E r \in Request : LoadEnds(r)
         \/ \E u \in Tag : Evict(u)
  PROVE  OutOfDate(t)
<1> USE AbsentAssumption DEF Shapes, OutOfDate, PageState, InvalidationTypeOK
<1>1. ASSUME NEW r \in Request, NEW u \in Tag, StartLoad(r, u) PROVE OutOfDate(t)
  <2>1. /\ cached' = cached
        /\ load' = [load EXCEPT ![r] = [tag |-> u, read |-> "current", spoiled |-> FALSE]]
    BY <1>1 DEF StartLoad
  <2>2. load'[r].read = "current" /\ \A q \in Request \ {r} : load'[q] = load[q]
    BY <2>1
  <2> QED
    BY <2>1, <2>2
<1>2. ASSUME NEW r \in Request, LoadEnds(r) PROVE OutOfDate(t)
  <2>1. /\ load[r] # Absent /\ load[r] \in Load
        /\ cached' = IF load[r].spoiled THEN cached
                     ELSE [cached EXCEPT ![load[r].tag] = load[r].read]
        /\ load' = [load EXCEPT ![r] = Absent]
    BY <1>2 DEF LoadEnds
  <2>2. load'[r] = Absent /\ \A q \in Request \ {r} : load'[q] = load[q]
    BY <2>1
  <2>3. CASE cached'[t] = "stale"
    <3>1. CASE load[r].spoiled \/ load[r].tag # t
      BY <2>1, <2>3, <3>1 DEF Load
    <3>2. CASE ~load[r].spoiled /\ load[r].tag = t
      BY <2>1, <2>3, <3>2 DEF Load
    <3> QED
      BY <3>1, <3>2
  <2>4. CASE cached'[t] # "stale"
    BY <2>2, <2>4
  <2> QED
    BY <2>3, <2>4
<1>3. ASSUME NEW u \in Tag, Evict(u) PROVE OutOfDate(t)
  BY <1>3 DEF Evict
<1> QED
  BY <1>1, <1>2, <1>3

\* A change makes no other page out of date.
LEMMA ChangesAreTagged ==
  ASSUME Shapes, NEW t \in Tag, NEW u \in Tag, Change(u), OutOfDate(t)'
  PROVE  OutOfDate(t) \/ t = u
<1> USE AbsentAssumption DEF Shapes, OutOfDate, PageState, InvalidationTypeOK
<1> SUFFICES ASSUME t # u PROVE OutOfDate(t)
  OBVIOUS
<1>1. /\ cached' = (IF cached[u] = Absent THEN cached ELSE [cached EXCEPT ![u] = "stale"])
      /\ load' = [r \in Request |->
           IF load[r] # Absent /\ load[r].tag = u THEN [load[r] EXCEPT !.read = "stale"]
           ELSE load[r]]
  BY DEF Change
<1>2. cached'[t] = cached[t]
  BY <1>1
<1>3. ASSUME NEW r \in Request, load'[r] # Absent, load'[r].tag = t PROVE load'[r] = load[r]
  <2>1. CASE load[r] # Absent /\ load[r].tag = u
    <3>1. load[r] \in Load /\ load'[r] = [load[r] EXCEPT !.read = "stale"]
      BY <1>1, <2>1
    <3>2. load'[r].tag = u
      BY <2>1, <3>1 DEF Load
    <3> QED
      BY <1>3, <3>2
  <2> QED
    BY <1>1, <2>1
<1> QED
  BY <1>2, <1>3

-----------------------------------------------------------------------------
(* The frame.                                                              *)

\* Time, the cache and the outbox leave the rest of the frame alone.
LEMMA CacheKeepsFrame ==
  ASSUME Frame, UNCHANGED <<tick, dispatch, lastId, log, late, feed>>,
         outbox' \subseteq Tag, cached' \in [Tag -> PageState \cup {Absent}],
         load' \in [Request -> Load \cup {Absent}]
  PROVE  Frame'
BY DEF Frame, Shapes, InvalidationTypeOK, Clock, IdsAreUnique, IsOpen, Ids, feed

\* Dropping pages leaves every page and every load one of its kind.
LEMMA InvalidateIsTyped ==
  ASSUME Shapes, NEW tags, Invalidate(tags)
  PROVE  /\ cached' \in [Tag -> PageState \cup {Absent}]
         /\ load' \in [Request -> Load \cup {Absent}]
<1>1. cached' \in [Tag -> PageState \cup {Absent}]
  BY DEF Shapes, InvalidationTypeOK, Invalidate
<1>2. ASSUME NEW r \in Request PROVE load'[r] \in Load \cup {Absent}
  <2>1. load'[r] = IF load[r] = Absent THEN Absent
           ELSE [load[r] EXCEPT !.spoiled = load[r].spoiled \/ load[r].tag \in tags]
    BY DEF Invalidate
  <2>2. CASE load[r] = Absent
    BY <2>1, <2>2
  <2>3. CASE load[r] # Absent
    <3>1. load[r] \in Load /\ (load[r].spoiled \/ load[r].tag \in tags) \in BOOLEAN
      BY <2>3 DEF Shapes, Load
    <3>2. load'[r] = [load[r] EXCEPT !.spoiled = load[r].spoiled \/ load[r].tag \in tags]
      BY <2>1, <2>3
    <3> QED
      BY <3>1, <3>2 DEF Load
  <2> QED
    BY <2>2, <2>3
<1>3. load' = [r \in Request |-> load'[r]]
  BY DEF Invalidate
<1> QED
  BY <1>1, <1>2, <1>3


\* Steps of the cache and changes.
LEMMA CacheStepsKeepFrame ==
  ASSUME Frame,
         \/ \E r \in Request, u \in Tag : StartLoad(r, u)
         \/ \E r \in Request : LoadEnds(r)
         \/ \E u \in Tag : Evict(u) \/ Change(u)
         \/ \E d \in Dispatcher : Post(d)
  PROVE  Frame'
<1> USE DEF Frame, Shapes, InvalidationTypeOK, PageState, database
<1>1. ASSUME NEW r \in Request, NEW u \in Tag, StartLoad(r, u) PROVE Frame'
  <2>1. load' = [load EXCEPT ![r] = [tag |-> u, read |-> "current", spoiled |-> FALSE]]
        /\ [tag |-> u, read |-> "current", spoiled |-> FALSE] \in Load
    BY <1>1 DEF StartLoad, Load
  <2>2. load' \in [Request -> Load \cup {Absent}]
    BY <2>1
  <2> QED
    BY <1>1, <2>2, CacheKeepsFrame DEF StartLoad
<1>2. ASSUME NEW r \in Request, LoadEnds(r) PROVE Frame'
  <2>1. load[r] \in Load
    BY <1>2 DEF LoadEnds
  <2>2. load' \in [Request -> Load \cup {Absent}]
        /\ cached' \in [Tag -> PageState \cup {Absent}]
    BY <1>2, <2>1 DEF LoadEnds, Load
  <2> QED
    BY <1>2, <2>2, CacheKeepsFrame DEF LoadEnds
<1>3. ASSUME NEW u \in Tag, Evict(u) PROVE Frame'
  <2>1. cached' \in [Tag -> PageState \cup {Absent}]
    BY <1>3 DEF Evict
  <2> QED
    BY <1>3, <2>1, CacheKeepsFrame DEF Evict
<1>4. ASSUME NEW u \in Tag, Change(u) PROVE Frame'
  <2>1. outbox' \subseteq Tag /\ cached' \in [Tag -> PageState \cup {Absent}]
    BY <1>4 DEF Change
  <2>2. ASSUME NEW r \in Request PROVE load'[r] \in Load \cup {Absent}
    <3>1. load'[r] = load[r] \/ (load[r] \in Load /\ load'[r] = [load[r] EXCEPT !.read = "stale"])
      BY <1>4 DEF Change
    <3> QED
      BY <3>1 DEF Load
  <2>3. load' = [r \in Request |-> load'[r]]
    BY <1>4 DEF Change
  <2>4. load' \in [Request -> Load \cup {Absent}]
    BY <2>2, <2>3
  <2> QED
    BY <1>4, <2>1, <2>4, CacheKeepsFrame DEF Change
<1>5. ASSUME NEW d \in Dispatcher, Post(d) PROVE Frame'
  BY <1>5, InvalidateIsTyped, CacheKeepsFrame DEF Post
<1> QED
  BY <1>1, <1>2, <1>3, <1>4, <1>5

\* Beginning, committing and aborting a dispatch.
LEMMA DispatchesKeepFrame ==
  ASSUME Frame, NEW d \in Dispatcher, BeginDispatch(d) \/ CommitDispatch(d) \/ AbortDispatch(d)
  PROVE  Frame'
<1> USE InvalidationAssumption, AbsentAssumption
     DEF Frame, Shapes, InvalidationTypeOK, IsOpen, Ids, feed, cache
<1>1. CASE BeginDispatch(d)
  <2> DEFINE new == [id |-> lastId + 1, tags |-> outbox, at |-> tick]
  <2>1. /\ dispatch' = [dispatch EXCEPT ![d] = new] /\ lastId' = lastId + 1 /\ outbox' = {}
        /\ UNCHANGED <<tick, log, late, cursor, seen, lastSync, reading, synced, cached, load>>
    BY <1>1 DEF BeginDispatch
  <2>2. new \in LogRow /\ new # Absent /\ new.id = lastId + 1 /\ new.at = tick
    BY DEF LogRow
  <2> HIDE DEF new
  <2>3. dispatch'[d] = new /\ \A e \in Dispatcher \ {d} : dispatch'[e] = dispatch[e]
    BY <2>1
  <2>4. Shapes'
    <3>1. dispatch' \in [Dispatcher -> LogRow \cup {Absent}]
      BY <2>1, <2>2
    <3>2. \A row \in log : row \in LogRow /\ row.id <= lastId'
      BY <2>1 DEF LogRow
    <3> QED
      BY <2>1, <3>1, <3>2
  <2>5. Clock'
    BY <2>1, <2>2, <2>3 DEF Clock
  <2>6. IdsAreUnique'
    <3>1. \A row \in log : row.id \in Nat /\ row.id <= lastId
      BY DEF LogRow
    <3>2. \A e \in Dispatcher : IsOpen(e) => dispatch[e].id \in Nat /\ dispatch[e].id <= lastId
      BY DEF LogRow, IdsAreUnique
    <3> QED
      BY <2>1, <2>2, <2>3, <3>1, <3>2 DEF IdsAreUnique
  <2> QED
    BY <2>4, <2>5, <2>6
<1>2. CASE CommitDispatch(d)
  <2>1. /\ dispatch' = [dispatch EXCEPT ![d] = Absent] /\ log' = log \cup {dispatch[d]}
        /\ dispatch[d] # Absent /\ dispatch[d] \in LogRow
        /\ late' \in {late, late \cup {dispatch[d]}}
        /\ UNCHANGED <<tick, outbox, lastId, cursor, seen, lastSync, reading, synced, cached, load>>
    BY <1>2 DEF CommitDispatch
  <2>2. dispatch'[d] = Absent /\ \A e \in Dispatcher \ {d} : dispatch'[e] = dispatch[e]
    BY <2>1
  <2>3. Shapes'
    <3>1. IsFiniteSet(log')
      BY <2>1, FS_AddElement
    <3>2. \A row \in log' : row \in LogRow /\ row.id <= lastId
      BY <2>1 DEF IdsAreUnique
    <3> QED
      BY <2>1, <3>1, <3>2
  <2>4. Clock'
    BY <2>1, <2>2 DEF Clock
  <2>5. IdsAreUnique'
    BY <2>1, <2>2 DEF IdsAreUnique
  <2> QED
    BY <2>3, <2>4, <2>5
<1>3. CASE AbortDispatch(d)
  <2>1. /\ dispatch' = [dispatch EXCEPT ![d] = Absent] /\ outbox' = outbox \cup dispatch[d].tags
        /\ dispatch[d] # Absent /\ dispatch[d] \in LogRow
        /\ UNCHANGED <<tick, log, late, lastId, cursor, seen, lastSync, reading, synced, cached, load>>
    BY <1>3 DEF AbortDispatch
  <2>2. dispatch'[d] = Absent /\ \A e \in Dispatcher \ {d} : dispatch'[e] = dispatch[e]
    BY <2>1
  <2>3. Shapes'
    BY <2>1 DEF LogRow
  <2>4. Clock'
    BY <2>1, <2>2 DEF Clock
  <2>5. IdsAreUnique'
    BY <2>1, <2>2 DEF IdsAreUnique
  <2> QED
    BY <2>3, <2>4, <2>5
<1> QED
  BY <1>1, <1>2, <1>3

\* A tick only moves the clock.
LEMMA TickKeepsFrame ==
  ASSUME Frame, Tick
  PROVE  Frame'
<1> USE InvalidationAssumption DEF Frame, Shapes, InvalidationTypeOK, IsOpen, Ids, database, cache, Tick
<1>1. Shapes' /\ IdsAreUnique'
  <2>1. MaxTick \in Nat /\ tick \in Nat /\ tick < MaxTick
    OBVIOUS
  <2>2. tick + 1 \in 0..MaxTick
    BY <2>1
  <2>3. /\ UNCHANGED <<outbox, dispatch, lastId, log, late, cursor, seen, lastSync, cached, load>>
        /\ tick' \in 0..MaxTick /\ synced' \in BOOLEAN
    BY <2>2
  <2>4. Shapes'
    BY <2>3
  <2>5. IdsAreUnique'
    BY <2>3 DEF IdsAreUnique
  <2> QED
    BY <2>4, <2>5
<1>2. Clock'
  <2>2. tick' = tick + 1 /\ lastSync' = lastSync /\ dispatch' = dispatch /\ reading' = reading /\ log' = log
    OBVIOUS
  <2> QED
    BY <2>2 DEF Clock
<1> QED
  BY <1>1, <1>2


\* Ids of finitely many rows of the log are finitely many numbers.
LEMMA IdsAreNumbers ==
  ASSUME Shapes, NEW rows, rows \subseteq log
  PROVE  /\ IsFiniteSet(rows) /\ IsFiniteSet(Ids(rows)) /\ Ids(rows) \subseteq Nat
         /\ Largest(Ids(rows)) \in Nat
         /\ Largest(Ids(rows)) = 0 \/ Largest(Ids(rows)) \in Ids(rows)
         /\ cursor # Absent =>
              LET next == Largest(Ids(rows) \cup {cursor}) IN
              /\ cursor \in Nat /\ next \in Nat
              /\ next = 0 \/ next = cursor \/ next \in Ids(rows)
              /\ cursor <= next /\ \A id \in Ids(rows) : id <= next
<1>1. IsFiniteSet(rows)
  BY FS_Subset DEF Shapes
<1>2. Ids(rows) \subseteq Nat
  BY DEF Ids, Shapes, InvalidationTypeOK, LogRow
<1>3. IsFiniteSet(Ids(rows))
  <2> DEFINE f == [row \in rows |-> row.id]
  <2>1. {f[row] : row \in rows} = Ids(rows)
    BY DEF Ids
  <2>2. f \in Surjection(rows, Ids(rows))
    BY DEF Ids, Surjection
  <2> QED
    BY <1>1, <2>2, FS_Surjection
<1>4. cursor # Absent => cursor \in Nat
  BY DEF Shapes, InvalidationTypeOK
<1>5. IsFiniteSet(Ids(rows) \cup {cursor})
  BY <1>3, FS_AddElement
<1>6. cursor # Absent =>
        LET next == Largest(Ids(rows) \cup {cursor}) IN
        /\ cursor \in Nat /\ next \in Nat
        /\ next = 0 \/ next = cursor \/ next \in Ids(rows)
        /\ cursor <= next /\ \A id \in Ids(rows) : id <= next
  BY <1>2, <1>4, <1>5, LargestIsNat
<1> QED
  BY <1>1, <1>2, <1>3, <1>6, LargestIsNat

\* Reading the log.
LEMMA FeedKeepsFrame ==
  ASSUME Frame, FeedReads \/ StartAtHead \/ StartClean \/ ApplyRows \/ ReadFails \/ Restart
  PROVE  Frame'
<1> USE InvalidationAssumption
<1>1. ASSUME UNCHANGED <<tick, database>>, cursor' \in Nat \cup {Absent}, seen' \subseteq Nat,
             seen' \subseteq Ids(log), lastSync' \in Nat, lastSync' <= tick, synced' \in BOOLEAN,
             cached' \in [Tag -> PageState \cup {Absent}],
             load' \in [Request -> Load \cup {Absent}], late' \subseteq log,
             reading' # Absent => /\ reading'.at \in Nat /\ reading'.at <= tick
                                  /\ reading'.rows \subseteq log /\ reading'.head \in Nat,
             reading' \in Reading \cup {Absent}
      PROVE  Frame'
  <2> USE <1>1 DEF Frame, database, IsOpen, Ids
  <2>1. lastSync' \in 0..MaxTick
    <3>1. tick \in 0..MaxTick /\ MaxTick \in Nat
      BY DEF Shapes, InvalidationTypeOK
    <3> QED
      BY <3>1
  <2>2. Shapes'
    BY <2>1 DEF Shapes, InvalidationTypeOK
  <2>3. Clock'
    BY DEF Clock
  <2>4. IdsAreUnique'
    BY DEF IdsAreUnique
  <2> QED
    BY <2>2, <2>3, <2>4
<1>2. /\ late \subseteq log
      /\ cursor \in Nat \cup {Absent} /\ seen \subseteq Nat /\ seen \subseteq Ids(log)
      /\ lastSync \in Nat /\ lastSync <= tick /\ synced \in BOOLEAN /\ tick \in Nat
      /\ cached \in [Tag -> PageState \cup {Absent}]
      /\ load \in [Request -> Load \cup {Absent}]
  BY DEF Frame, Shapes, InvalidationTypeOK, Clock, IdsAreUnique
<1>3. CASE FeedReads
  <2>1. Page \subseteq log
    BY DEF Page
  <2>2. Largest(Ids(log)) \in Nat
    BY IdsAreNumbers DEF Frame
  <2>3. /\ reading'.at = tick
        /\ reading'.rows = IF cursor = Absent THEN {} ELSE Page
        /\ reading'.head = IF cursor = Absent THEN Largest(Ids(log)) ELSE cursor
    BY <1>3 DEF FeedReads
  <2>4. /\ reading'.at \in Nat /\ reading'.at <= tick
        /\ reading'.rows \subseteq log /\ reading'.head \in Nat
    BY <1>2, <2>1, <2>2, <2>3
  <2>5. reading' \in Reading
    <3>1. reading' = [at |-> reading'.at, rows |-> reading'.rows, head |-> reading'.head]
      BY <1>3 DEF FeedReads
    <3>2. reading'.at \in 0..MaxTick /\ reading'.rows \in SUBSET LogRow
      BY <2>3, <2>4 DEF Frame, Shapes, InvalidationTypeOK
    <3> QED
      BY <2>4, <3>1, <3>2 DEF Reading
  <2> QED
    BY <1>1, <1>2, <1>3, <2>4, <2>5 DEF FeedReads, cache
<1>4. ASSUME ReadEnds
      PROVE  /\ UNCHANGED <<tick, database>> /\ lastSync' \in Nat /\ lastSync' <= tick
             /\ synced' \in BOOLEAN /\ reading' = Absent
             /\ reading.rows \subseteq log /\ reading.head \in Nat
  BY <1>4 DEF ReadEnds, Frame, Clock
<1>5. ClearCaches => /\ late' \subseteq log
                     /\ cached' \in [Tag -> PageState \cup {Absent}]
                     /\ load' \in [Request -> Load \cup {Absent}]
  BY InvalidateIsTyped DEF Frame, ClearCaches
<1>6. CASE StartAtHead
  BY <1>1, <1>2, <1>4, <1>5, <1>6 DEF StartAtHead
<1>7. CASE StartClean
  <2>1. cursor' \in Nat
    BY <1>4, <1>7, IdsAreNumbers DEF StartClean, Frame
  <2> QED
    BY <1>1, <1>2, <1>4, <1>5, <1>7, <2>1 DEF StartClean
<1>8. CASE ApplyRows
  <2>1. cursor' \in Nat
    BY <1>4, <1>8, IdsAreNumbers DEF ApplyRows, Frame
  <2>2. seen' \subseteq Ids(log)
    <3>1. Remembered(reading.rows) \subseteq Ids(log)
      BY <1>4, <1>8 DEF ApplyRows, Remembered, Ids
    <3> QED
      BY <1>8, <3>1 DEF ApplyRows
  <2>3. Ids(log) \subseteq Nat
    BY IdsAreNumbers DEF Frame
  <2>4. /\ cached' \in [Tag -> PageState \cup {Absent}]
        /\ load' \in [Request -> Load \cup {Absent}]
    BY <1>8, InvalidateIsTyped DEF ApplyRows, Frame
  <2> QED
    BY <1>1, <1>2, <1>4, <1>8, <2>1, <2>2, <2>3, <2>4 DEF ApplyRows
<1>9. CASE ReadFails
  BY <1>1, <1>2, <1>4, <1>5, <1>9 DEF ReadFails
<1>10. CASE Restart
  <2>1. /\ UNCHANGED <<tick, database>> /\ cursor' \in Nat \cup {Absent} /\ seen' \subseteq Nat
        /\ seen' \subseteq Ids(log) /\ lastSync' \in Nat /\ synced' \in BOOLEAN
        /\ cached' \in [Tag -> PageState \cup {Absent}]
        /\ load' \in [Request -> Load \cup {Absent}] /\ reading' = Absent
        /\ late' \subseteq log
    BY <1>10 DEF Restart
  <2>2. lastSync' <= tick
    BY <1>2, <1>10 DEF Restart
  <2> QED
    BY <1>1, <2>1, <2>2
<1> QED
  BY <1>3, <1>6, <1>7, <1>8, <1>9, <1>10

\* At first there is nothing.
LEMMA InvalidationInitFrames == InvalidationInit => Frame
<1> SUFFICES ASSUME InvalidationInit PROVE Frame
  OBVIOUS
<1> USE InvalidationAssumption DEF InvalidationInit
<1>1. Shapes
  <2>1. 0 \in 0..MaxTick
    OBVIOUS
  <2>2. InvalidationTypeOK
    BY <2>1 DEF InvalidationTypeOK
  <2> QED
    BY <2>2, FS_EmptySet DEF Shapes
<1>2. Clock
  BY DEF Clock, IsOpen
<1>3. IdsAreUnique
  BY DEF IdsAreUnique, IsOpen, Ids
<1> QED
  BY <1>1, <1>2, <1>3 DEF Frame

\* The frame is inductive.
LEMMA FrameStays ==
  ASSUME Frame, [InvalidationNext]_invalidationVars
  PROVE  Frame'
<1>1. CASE InvalidationNext
  <2>1. CASE Tick
    BY <2>1, TickKeepsFrame
  <2>2. CASE \/ \E r \in Request, u \in Tag : StartLoad(r, u)
             \/ \E r \in Request : LoadEnds(r)
             \/ \E u \in Tag : Evict(u) \/ Change(u)
             \/ \E d \in Dispatcher : Post(d)
    BY <2>2, CacheStepsKeepFrame
  <2>3. CASE \E d \in Dispatcher : BeginDispatch(d) \/ CommitDispatch(d) \/ AbortDispatch(d)
    BY <2>3, DispatchesKeepFrame
  <2>4. CASE FeedReads \/ StartAtHead \/ StartClean \/ ApplyRows \/ ReadFails \/ Restart
    BY <2>4, FeedKeepsFrame
  <2> QED
    BY <1>1, <2>1, <2>2, <2>3, <2>4 DEF InvalidationNext
<1>2. CASE UNCHANGED invalidationVars
  BY <1>2 DEF invalidationVars, database, feed, cache, Frame, Shapes, InvalidationTypeOK, Clock,
              IdsAreUnique, IsOpen, Ids
<1> QED
  BY <1>1, <1>2

-----------------------------------------------------------------------------
(* The feed and the log.                                                   *)

\* Numbers the clock and the log are made of.
LEMMA ClockNumbers ==
  ASSUME Frame
  PROVE  /\ tick \in Nat /\ Overlap \in Nat /\ ReadLimit \in Nat
         /\ lastId \in Nat /\ cursor \in Nat \cup {Absent}
         /\ \A row \in log : row.at \in Nat /\ row.id \in Nat \ {0} /\ row.id \in Ids(log)
         /\ late \subseteq log
BY InvalidationAssumption DEF Frame, Shapes, InvalidationTypeOK, Clock, LogRow, Ids

\* A row that commits is late, or comes after every row that is visible.
LEMMA CommitsAreLateOrLast ==
  ASSUME Frame, NEW d \in Dispatcher, CommitDispatch(d)
  PROVE  \E new \in LogRow :
           /\ new = dispatch[d] /\ log' = log \cup {new} /\ new \notin log
           /\ new.id \notin Ids(log) /\ new.id \in Nat \ {0}
           /\ \/ late' = late \cup {new}
              \/ late' = late /\ \A row \in log : row.id < new.id
<1>1. PICK new \in LogRow : new = dispatch[d]
  BY DEF CommitDispatch, IsOpen, Frame, Shapes
<1>2. \A row \in log : row.id # new.id
  BY <1>1 DEF CommitDispatch, Frame, IdsAreUnique
<1>3. new.id \in Nat \ {0} /\ \A row \in log : row.id \in Nat
  BY ClockNumbers DEF LogRow
<1>4. \/ late' = late \cup {new}
      \/ late' = late /\ \A row \in log : ~(row.id > new.id)
  BY <1>1 DEF CommitDispatch
<1>5. log' = log \cup {new}
  BY <1>1 DEF CommitDispatch
<1>6. new.id \notin Ids(log)
  BY <1>2 DEF Ids
<1>7. \/ late' = late \cup {new}
      \/ late' = late /\ \A row \in log : row.id < new.id
  BY <1>2, <1>3, <1>4
<1> QED
  BY <1>1, <1>2, <1>3, <1>5, <1>6, <1>7

\* A read asks for every row past the cursor, and for a late one that it takes off.
LEMMA ReadsFetchAll ==
  ASSUME Frame, FeedReads, cursor # Absent
  PROVE  /\ reading' # Absent /\ reading'.rows = Page /\ reading'.head = cursor
         /\ late' = {row \in late : OutOfReach(row)}
         /\ Cardinality(Page) \in Nat
         /\ \A row \in Page : row \in log /\ ~OutOfReach(row)
         /\ Cardinality(Page) < ReadLimit =>
              \A row \in log : row \notin Page => row.id <= cursor /\ (row \in late => row \in late')
<1>1. reading' = [at |-> tick, rows |-> Page, head |-> cursor]
      /\ late' = {row \in late : OutOfReach(row)}
  BY DEF FeedReads
<1>2. reading' # Absent
  <2>1. reading' \in Reading \cup {Absent}
    BY FeedKeepsFrame DEF Frame, Shapes, InvalidationTypeOK
  <2>2. [at |-> tick, rows |-> Page, head |-> cursor] \in Reading
    <3>1. tick \in 0..MaxTick /\ cursor \in Nat
      BY DEF Frame, Shapes, InvalidationTypeOK
    <3>2. Page \in SUBSET LogRow
      BY DEF Page, Frame, Shapes, InvalidationTypeOK
    <3> QED
      BY <3>1, <3>2 DEF Reading
  <2> QED
    BY <1>1, <2>2, AbsentAssumption
<1>3. Page \subseteq {row \in log : Wanted(row)}
  BY DEF Page
<1>4. Cardinality(Page) \in Nat
  BY <1>3, FS_Subset, FS_CardinalityType DEF Frame, Shapes
<1>5. \A row \in log : Wanted(row) <=> ~OutOfReach(row)
  BY ClockNumbers DEF Wanted, OutOfReach
<1>6. ASSUME Cardinality(Page) < ReadLimit, NEW row \in log, row \notin Page
      PROVE  row.id <= cursor /\ (row \in late => row \in late')
  <2>1. ~Wanted(row)
    BY <1>6, PageIsWhole, ClockNumbers DEF Frame, Shapes
  <2> QED
    BY <1>1, <1>5, <2>1 DEF OutOfReach
<1> QED
  BY <1>1, <1>2, <1>3, <1>4, <1>5, <1>6

\* At first the feed knows nothing.
LEMMA FeedFollowsAtFirst == InvalidationInit => FeedFollows
BY DEF InvalidationInit, FeedFollows, ReadIsAPrefix

\* What neither reads nor commits.
LEMMA OthersFollow ==
  ASSUME FeedFollows, UNCHANGED <<log, late, cursor, seen, reading>>
  PROVE  FeedFollows'
BY DEF FeedFollows, ReadIsAPrefix, InTheLog, Ids

\* A row that commits is not one that the feed has applied or is reading.
LEMMA CommitsFollow ==
  ASSUME Frame, FeedFollows, NEW d \in Dispatcher, CommitDispatch(d)
  PROVE  FeedFollows'
<1>1. PICK new \in LogRow :
        /\ new = dispatch[d] /\ log' = log \cup {new} /\ new \notin log
        /\ new.id \notin Ids(log) /\ new.id \in Nat \ {0}
        /\ \/ late' = late \cup {new}
           \/ late' = late /\ \A row \in log : row.id < new.id
  BY CommitsAreLateOrLast
<1>2. UNCHANGED <<cursor, seen, reading>>
  BY DEF CommitDispatch, feed
<1>3. seen \subseteq Ids(log) /\ (reading # Absent => reading.rows \subseteq log)
  BY DEF Frame, IdsAreUnique, Clock
<1>4. Ids(log) \subseteq Ids(log')
  BY <1>1 DEF Ids
<1>5. /\ cursor' # Absent => InTheLog(cursor)'
      /\ reading' # Absent => InTheLog(reading.head)'
      /\ cursor' = Absent => seen' = {}
      /\ cursor' # Absent => \A id \in seen' : id <= cursor'
  BY <1>2, <1>4 DEF FeedFollows, InTheLog
<1>6. \A row \in late' : row.id \notin seen'
  BY <1>1, <1>2, <1>3 DEF FeedFollows
<1>7. reading' # Absent => \A row \in late' : row \notin reading'.rows
  BY <1>1, <1>2, <1>3 DEF FeedFollows
<1>8. ReadIsAPrefix'
  <2> SUFFICES ASSUME reading # Absent, cursor # Absent, Cardinality(reading.rows) < ReadLimit,
                      NEW row \in log'
               PROVE  \/ row \in late' \/ row \in reading.rows \/ row.id <= cursor
                      \/ \A x \in reading.rows : x.id < row.id
    BY <1>2 DEF ReadIsAPrefix
  <2>1. CASE row \in log
    BY <1>1, <2>1 DEF FeedFollows, ReadIsAPrefix
  <2>2. CASE row = new
    BY <1>1, <1>3, <2>2
  <2> QED
    BY <1>1, <2>1, <2>2
<1> QED
  BY <1>5, <1>6, <1>7, <1>8 DEF FeedFollows

\* A read that begins asks for what is past the cursor, and takes no late row that it
\* fetches for one it will miss.
LEMMA ReadsFollow ==
  ASSUME Frame, FeedFollows, FeedReads
  PROVE  FeedFollows'
<1>1. UNCHANGED <<log, cursor, seen>>
  BY DEF FeedReads, database
<1>2. CASE cursor = Absent
  <2>1. /\ reading' = [at |-> tick, rows |-> {}, head |-> Largest(Ids(log))]
        /\ late' = late
    BY <1>2 DEF FeedReads
  <2>2. InTheLog(Largest(Ids(log)))
    BY IdsAreNumbers DEF Frame, InTheLog
  <2> QED
    BY <1>1, <1>2, <2>1, <2>2 DEF FeedFollows, ReadIsAPrefix, InTheLog, Ids
<1>3. CASE cursor # Absent
  <2>1. /\ reading'.rows = Page /\ reading'.head = cursor
        /\ late' = {row \in late : OutOfReach(row)}
        /\ \A row \in Page : ~OutOfReach(row)
        /\ Cardinality(Page) < ReadLimit =>
             \A row \in log : row \notin Page => row.id <= cursor
    BY <1>3, ReadsFetchAll
  <2>2. \A row \in late' : row \in late /\ row \notin Page
    BY <2>1
  <2>3. ReadIsAPrefix'
    BY <1>1, <2>1 DEF ReadIsAPrefix
  <2> QED
    BY <1>1, <1>3, <2>1, <2>2, <2>3 DEF FeedFollows, InTheLog
<1> QED
  BY <1>2, <1>3

\* A read that ends leaves the cursor at the last row it has fetched, or where it was.
LEMMA ReadEndsFollow ==
  ASSUME Frame, FeedFollows, StartAtHead \/ StartClean \/ ApplyRows \/ ReadFails \/ Restart
  PROVE  FeedFollows'
<1>1. reading' = Absent /\ log' = log
  BY DEF StartAtHead, StartClean, ApplyRows, ReadFails, Restart, ReadEnds, database
<1>2. CASE ReadFails
  BY <1>1, <1>2 DEF ReadFails, ClearCaches, FeedFollows, ReadIsAPrefix, InTheLog
<1>3. CASE Restart
  BY <1>1, <1>3 DEF Restart, FeedFollows, ReadIsAPrefix, InTheLog
<1>4. CASE StartAtHead
  BY <1>1, <1>4 DEF StartAtHead, ReadEnds, ClearCaches, FeedFollows, ReadIsAPrefix, InTheLog
<1>5. CASE StartClean \/ ApplyRows
  <2> DEFINE rows == reading.rows
  <2>0. PICK next : next = Largest(Ids(rows) \cup {cursor})
    OBVIOUS
  <2>1. /\ cursor # Absent /\ reading # Absent /\ rows \subseteq log /\ cursor' = next
    BY <2>0, <1>5 DEF StartClean, ApplyRows, ReadEnds, Frame, Clock
  <2>2. /\ cursor \in Nat /\ next \in Nat
        /\ next = 0 \/ next = cursor \/ next \in Ids(rows)
        /\ cursor <= next /\ \A id \in Ids(rows) : id <= next
    BY <2>0, <2>1, IdsAreNumbers DEF Frame
  <2>3. Ids(rows) \subseteq Ids(log) /\ Ids(rows) \subseteq Nat /\ seen \subseteq Nat
    BY <2>1, IdsAreNumbers DEF Ids, Frame, Shapes, InvalidationTypeOK
  <2>4. InTheLog(next)
    BY <2>1, <2>2, <2>3 DEF FeedFollows, InTheLog
  <2>5. CASE StartClean
    BY <1>1, <2>1, <2>2, <2>4, <2>5 DEF StartClean, ClearCaches, FeedFollows, ReadIsAPrefix, InTheLog
  <2>6. CASE ApplyRows
    <3>1. seen' = Remembered(rows) /\ late' = late
      BY <2>6 DEF ApplyRows
    <3>2. \A id \in seen' : id \in seen \/ id \in Ids(rows)
      BY <3>1 DEF Remembered, Ids
    <3>3. \A id \in seen' : id <= next
      <4>1. \A id \in seen : id \in Nat /\ id <= cursor
        BY <2>1, <2>3 DEF FeedFollows
      <4> QED
        BY <2>2, <3>2, <4>1
    <3>4. ASSUME NEW row \in late PROVE row.id \notin seen'
      <4>1. row \in log /\ row.id \notin seen /\ row \notin rows
        BY <2>1, ClockNumbers DEF FeedFollows
      <4>2. row.id \notin Ids(rows)
        BY <2>1, <4>1 DEF Ids, Frame, IdsAreUnique
      <4> QED
        BY <3>2, <4>1, <4>2
    <3>5. InTheLog(cursor)' /\ cursor' # Absent
      BY <1>1, <2>1, <2>2, <2>4, AbsentAssumption DEF InTheLog
    <3> QED
      BY <1>1, <2>1, <3>1, <3>3, <3>4, <3>5 DEF FeedFollows, ReadIsAPrefix
  <2> QED
    BY <1>5, <2>5, <2>6
<1> QED
  BY <1>2, <1>3, <1>4, <1>5

\* No step of the database, the feed or the cache lets the cursor pass a row that is not late.
LEMMA FeedFollowsOn ==
  ASSUME Frame, FeedFollows, [InvalidationNext]_invalidationVars
  PROVE  FeedFollows'
<1>1. CASE FeedReads
  BY <1>1, ReadsFollow
<1>2. CASE StartAtHead \/ StartClean \/ ApplyRows \/ ReadFails \/ Restart
  BY <1>2, ReadEndsFollow
<1>3. CASE \E d \in Dispatcher : CommitDispatch(d)
  BY <1>3, CommitsFollow
<1>4. CASE Tick \/ UNCHANGED invalidationVars
  BY <1>4, OthersFollow DEF Tick, invalidationVars, database, feed
<1>5. CASE \/ \E t \in Tag : Change(t) \/ Evict(t) \/ (\E r \in Request : StartLoad(r, t))
           \/ \E r \in Request : LoadEnds(r)
  BY <1>5, OthersFollow DEF Change, Evict, StartLoad, LoadEnds, database, feed
<1>6. CASE \E d \in Dispatcher : BeginDispatch(d) \/ Post(d) \/ AbortDispatch(d)
  BY <1>6, OthersFollow DEF BeginDispatch, Post, AbortDispatch, database, feed
<1> QED
  BY <1>1, <1>2, <1>3, <1>4, <1>5, <1>6 DEF InvalidationNext

-----------------------------------------------------------------------------
(* What is under way.                                                      *)

\* Steps of the cache and of changes.
LEMMA CacheStepsLoseNothing ==
  ASSUME Frame, NothingIsLost,
         \/ \E r \in Request, u \in Tag : StartLoad(r, u)
         \/ \E r \in Request : LoadEnds(r)
         \/ \E u \in Tag : Evict(u)
         \/ \E u \in Tag : Change(u)
         \/ \E d \in Dispatcher : Post(d)
  PROVE  NothingIsLost'
<1> SUFFICES ASSUME NEW t \in Tag, OutOfDate(t)' PROVE UnderWay(t, late)'
  BY DEF NothingIsLost
<1> USE DEF UnderWay, IsOpen, StillToCome, database, feed
<1>1. ASSUME UnderWay(t, late), UNCHANGED <<tick, dispatch, log, late, feed>>, outbox \subseteq outbox'
      PROVE  UnderWay(t, late)'
  BY <1>1
<1>2. CASE \/ \E r \in Request, u \in Tag : StartLoad(r, u)
           \/ \E r \in Request : LoadEnds(r)
           \/ \E u \in Tag : Evict(u)
  <2>1. OutOfDate(t)
    BY <1>2, CacheStepsAreClean DEF Frame
  <2> QED
    BY <1>1, <1>2, <2>1 DEF NothingIsLost, StartLoad, LoadEnds, Evict
<1>3. ASSUME NEW u \in Tag, Change(u) PROVE UnderWay(t, late)'
  <2>1. OutOfDate(t) \/ t = u
    BY <1>3, ChangesAreTagged DEF Frame
  <2>2. CASE t = u
    BY <1>3, <2>2 DEF Change
  <2> QED
    BY <1>1, <1>3, <2>1, <2>2 DEF NothingIsLost, Change
<1>4. ASSUME NEW d \in Dispatcher, Post(d) PROVE UnderWay(t, late)'
  <2>1. OutOfDate(t)
    BY <1>4, TagsAreDropped DEF Frame, Post
  <2> QED
    BY <1>1, <1>4, <2>1 DEF NothingIsLost, Post
<1> QED
  BY <1>2, <1>3, <1>4

\* Between outbox, dispatch and log: a row that commits is late or past the cursor.
LEMMA DispatchesLoseNothing ==
  ASSUME Frame, FeedFollows, NothingIsLost, NEW d \in Dispatcher,
         BeginDispatch(d) \/ CommitDispatch(d) \/ AbortDispatch(d)
  PROVE  NothingIsLost'
<1> SUFFICES ASSUME NEW t \in Tag, OutOfDate(t)' PROVE UnderWay(t, late)'
  BY DEF NothingIsLost
<1> USE AbsentAssumption
<1>1. /\ UNCHANGED <<tick, feed, cache>>
      /\ dispatch \in [Dispatcher -> LogRow \cup {Absent}]
      /\ late \subseteq late'
  BY DEF BeginDispatch, CommitDispatch, AbortDispatch, Frame, Shapes
<1>2. UnderWay(t, late)
  BY <1>1 DEF NothingIsLost, OutOfDate, cache
<1>3. \A row : Awaited(row) => Awaited(row)'
  BY <1>1 DEF Awaited, StillToCome, feed
<1>4. CASE BeginDispatch(d)
  <2>1. [id |-> lastId + 1, tags |-> outbox, at |-> tick] \in LogRow
    BY <1>4 DEF LogRow, Frame, Shapes, InvalidationTypeOK
  <2>2. /\ dispatch'[d] = [id |-> lastId + 1, tags |-> outbox, at |-> tick]
        /\ dispatch'[d] # Absent /\ ~IsOpen(d) /\ log' = log
        /\ \A e \in Dispatcher \ {d} : dispatch'[e] = dispatch[e]
    BY <1>1, <1>4, <2>1 DEF BeginDispatch
  <2> QED
    BY <1>2, <1>3, <2>2 DEF UnderWay, IsOpen, Awaited
<1>5. CASE AbortDispatch(d)
  <2>1. /\ outbox' = outbox \cup dispatch[d].tags /\ log' = log
        /\ \A e \in Dispatcher \ {d} : dispatch'[e] = dispatch[e]
    BY <1>1, <1>5 DEF AbortDispatch
  <2> QED
    BY <1>2, <1>3, <2>1 DEF UnderWay, IsOpen, Awaited
<1>6. CASE CommitDispatch(d)
  <2>0. PICK new \in LogRow :
          /\ new = dispatch[d] /\ log' = log \cup {new} /\ new \notin log
          /\ new.id \notin Ids(log) /\ new.id \in Nat \ {0}
          /\ \/ late' = late \cup {new}
             \/ late' = late /\ \A row \in log : row.id < new.id
    BY <1>6, CommitsAreLateOrLast
  <2>1. /\ outbox' = outbox
        /\ \A e \in Dispatcher \ {d} : dispatch'[e] = dispatch[e]
    BY <1>1, <1>6 DEF CommitDispatch
  <2>2. Awaited(new)'
    <3>1. CASE late' = late \cup {new}
      BY <3>1 DEF Awaited
    <3>2. CASE \A row \in log : row.id < new.id
      <4>1. cursor # Absent => cursor < new.id
        BY <2>0, <3>2 DEF FeedFollows, InTheLog, Ids
      <4>2. cursor = Absent \/ new.id > cursor
        BY <2>0, <4>1, ClockNumbers
      <4> QED
        BY <1>1, <4>2 DEF Awaited, StillToCome, feed
    <3> QED
      BY <2>0, <3>1, <3>2
  <2>4. CASE \E e \in Dispatcher \ {d} : IsOpen(e) /\ t \in dispatch[e].tags
    BY <2>1, <2>4 DEF UnderWay, IsOpen
  <2>5. CASE t \in new.tags
    BY <2>0, <2>2, <2>5 DEF UnderWay, Awaited
  <2>6. CASE t \in outbox \/ \E row \in log : t \in row.tags /\ Awaited(row)
    BY <1>3, <2>0, <2>1, <2>6 DEF UnderWay, Awaited
  <2> QED
    BY <1>2, <2>0, <2>4, <2>5, <2>6 DEF UnderWay, Awaited
<1> QED
  BY <1>4, <1>5, <1>6

\* A read that begins fetches every row that is awaited and not past the cursor, or is full;
\* what it will not fetch any more stays late.
LEMMA ReadsMissNothing ==
  ASSUME Frame, FeedFollows, NothingIsLost, FeedReads
  PROVE  NothingIsLost'
<1> SUFFICES ASSUME NEW t \in Tag, OutOfDate(t)' PROVE UnderWay(t, late)'
  BY DEF NothingIsLost
<1>1. UNCHANGED <<tick, database, cursor, seen, cache>> /\ reading = Absent
  BY DEF FeedReads
<1>2. ASSUME NEW row \in log, Awaited(row) PROVE Awaited(row)'
  <2>1. CASE cursor = Absent \/ row.id > cursor
    BY <1>1, <2>1 DEF Awaited, StillToCome
  <2>2. CASE cursor # Absent /\ ~(row.id > cursor)
    <3>1. row \in late /\ row.id \notin seen
      BY <1>1, <1>2, <2>2 DEF Awaited, StillToCome, FeedFollows
    <3>2. /\ reading' # Absent /\ reading'.rows = Page /\ Cardinality(Page) \in Nat
          /\ Cardinality(Page) < ReadLimit => row \in Page \/ row \in late'
      BY <2>2, <3>1, ReadsFetchAll
    <3>3. CASE Cardinality(Page) < ReadLimit
      BY <1>1, <3>1, <3>2, <3>3 DEF Awaited, StillToCome
    <3>4. CASE ~(Cardinality(Page) < ReadLimit)
      <4>1. Cardinality(Page) >= ReadLimit
        BY <3>2, <3>4, ClockNumbers
      <4> QED
        BY <3>2, <4>1 DEF Awaited, StillToCome
    <3> QED
      BY <3>3, <3>4
  <2> QED
    BY <2>1, <2>2
<1>3. UnderWay(t, late)
  BY <1>1 DEF NothingIsLost, OutOfDate, cache
<1> QED
  BY <1>1, <1>2, <1>3 DEF UnderWay, IsOpen, Awaited, database

\* What clears the cache leaves nothing out of date.
LEMMA ClearedIsClean ==
  ASSUME Frame,
         StartAtHead \/ StartClean \/ ReadFails \/ Restart
  PROVE  NothingIsLost'
<1> SUFFICES ASSUME NEW t \in Tag, OutOfDate(t)' PROVE FALSE
  BY DEF NothingIsLost
<1>1. CASE ClearCaches
  BY <1>1, TagsAreDropped DEF ClearCaches, Frame
<1>2. CASE Restart
  BY <1>2, AbsentAssumption DEF Restart, OutOfDate, PageState
<1> QED
  BY <1>1, <1>2 DEF StartAtHead, StartClean, ReadFails

\* Applying rows drops what they carry; what committed meanwhile is past the last of them,
\* or late.
LEMMA ApplyingLosesNothing ==
  ASSUME Frame, FeedFollows, NothingIsLost, ApplyRows
  PROVE  NothingIsLost'
<1> SUFFICES ASSUME NEW t \in Tag, OutOfDate(t)' PROVE UnderWay(t, late)'
  BY DEF NothingIsLost
<1> DEFINE rows == reading.rows
           fresh == {x \in rows : x.id \notin seen}
           next == Largest(Ids(rows) \cup {cursor})
<1>1. /\ cursor # Absent /\ reading # Absent /\ cursor' = next
      /\ UNCHANGED <<tick, database, late>> /\ Cardinality(rows) < ReadLimit
      /\ Invalidate(UNION {row.tags : row \in fresh})
  BY DEF ApplyRows, ReadEnds
<1>2. OutOfDate(t) /\ \A row \in fresh : t \notin row.tags
  BY <1>1, TagsAreDropped DEF Frame
<1>3. /\ rows \subseteq log /\ cursor \in Nat /\ next \in Nat
      /\ next = 0 \/ next = cursor \/ next \in Ids(rows)
  BY <1>1, IdsAreNumbers DEF Frame, Clock
<1> HIDE DEF next
<1>4. ASSUME NEW row \in log, t \in row.tags, Awaited(row) PROVE Awaited(row)'
  <2> SUFFICES ASSUME row \notin late PROVE row.id > next
    BY <1>1 DEF Awaited, StillToCome
  <2>1. Cardinality(rows) \in Nat
    BY <1>3, FS_Subset, FS_CardinalityType DEF Frame, Shapes
  <2>2. ~(Cardinality(rows) >= ReadLimit)
    BY <1>1, <2>1, ClockNumbers
  <2>3. row.id > cursor
    BY <1>1, <1>2, <1>4, <2>2 DEF Awaited, StillToCome
  <2>4. row.id \in Nat /\ row.id \notin seen
    BY <1>1, <1>3, <2>3, ClockNumbers DEF FeedFollows, Frame, Shapes, InvalidationTypeOK
  <2>5. row \notin rows
    BY <1>2, <1>4, <2>4
  <2>6. \A x \in rows : x.id < row.id
    BY <1>1, <1>3, <2>3, <2>4, <2>5 DEF FeedFollows, ReadIsAPrefix
  <2> QED
    BY <1>3, <2>3, <2>4, <2>6 DEF Ids
<1>5. UnderWay(t, late)
  BY <1>2 DEF NothingIsLost
<1> QED
  BY <1>1, <1>4, <1>5 DEF UnderWay, IsOpen, Awaited, database

\* Every step leaves what is out of date an invalidation.
LEMMA StepsLoseNothing ==
  ASSUME Frame, FeedFollows, NothingIsLost, [InvalidationNext]_invalidationVars
  PROVE  NothingIsLost'
<1>1. CASE \/ \E r \in Request, u \in Tag : StartLoad(r, u)
           \/ \E r \in Request : LoadEnds(r)
           \/ \E u \in Tag : Evict(u)
           \/ \E u \in Tag : Change(u)
           \/ \E d \in Dispatcher : Post(d)
  BY <1>1, CacheStepsLoseNothing
<1>2. CASE \E d \in Dispatcher : BeginDispatch(d) \/ CommitDispatch(d) \/ AbortDispatch(d)
  BY <1>2, DispatchesLoseNothing
<1>3. CASE FeedReads
  BY <1>3, ReadsMissNothing
<1>4. CASE StartAtHead \/ StartClean \/ ReadFails \/ Restart
  BY <1>4, ClearedIsClean
<1>5. CASE ApplyRows
  BY <1>5, ApplyingLosesNothing
<1>6. CASE Tick \/ UNCHANGED invalidationVars
  BY <1>6 DEF Tick, invalidationVars, database, feed, cache, NothingIsLost, OutOfDate, UnderWay,
              IsOpen, StillToCome
<1> QED
  BY <1>1, <1>2, <1>3, <1>4, <1>5, <1>6 DEF InvalidationNext

-----------------------------------------------------------------------------
(* One dispatch at a time.                                                 *)

\* What is open was begun last, and no row is late.
OneAtATime ==
  /\ \A d \in Dispatcher : IsOpen(d) => dispatch[d].id = lastId
  /\ late = {}

\* With one execution of the job there is no row with a higher id to come late behind.
LEMMA OneAtATimeStays ==
  ASSUME \A d, e \in Dispatcher : d = e, Frame, OneAtATime, [InvalidationNext]_invalidationVars
  PROVE  OneAtATime'
<1>1. CASE FeedReads
  BY <1>1 DEF FeedReads, database, OneAtATime, IsOpen
<1>2. CASE StartAtHead \/ StartClean \/ ApplyRows \/ ReadFails \/ Restart
  BY <1>2 DEF StartAtHead, StartClean, ApplyRows, ReadFails, Restart, ReadEnds, ClearCaches,
              database, OneAtATime, IsOpen
<1>3. ASSUME NEW d \in Dispatcher, CommitDispatch(d) PROVE OneAtATime'
  <2>1. dispatch[d].id = lastId /\ \A row \in log : ~(row.id > lastId)
    BY <1>3, ClockNumbers DEF CommitDispatch, OneAtATime, Frame, Shapes, InvalidationTypeOK
  <2>2. late' = {}
    BY <1>3, <2>1 DEF CommitDispatch, OneAtATime
  <2> QED
    BY <1>3, <2>2 DEF CommitDispatch, OneAtATime, IsOpen, Frame, Shapes
<1>4. CASE Tick \/ UNCHANGED invalidationVars
  BY <1>4 DEF Tick, invalidationVars, database, OneAtATime, IsOpen
<1>5. CASE \/ \E t \in Tag : Change(t) \/ Evict(t) \/ (\E r \in Request : StartLoad(r, t))
           \/ \E r \in Request : LoadEnds(r)
           \/ \E d \in Dispatcher : Post(d)
  BY <1>5 DEF Change, Evict, StartLoad, LoadEnds, Post, database, OneAtATime, IsOpen
<1>6. ASSUME NEW d \in Dispatcher, BeginDispatch(d) PROVE OneAtATime'
  <2>1. dispatch'[d] = [id |-> lastId + 1, tags |-> outbox, at |-> tick]
        /\ lastId' = lastId + 1 /\ late' = late
    BY <1>6 DEF BeginDispatch, Frame, Shapes
  <2> QED
    BY <2>1 DEF OneAtATime
<1>7. ASSUME NEW d \in Dispatcher, AbortDispatch(d) PROVE OneAtATime'
  BY <1>7 DEF AbortDispatch, OneAtATime, IsOpen, Frame, Shapes
<1> QED
  BY <1>1, <1>2, <1>3, <1>4, <1>5, <1>6, <1>7 DEF InvalidationNext

-----------------------------------------------------------------------------
(* The theorems.                                                           *)

\* The frame holds in every reachable state.
THEOREM FrameInvariance == InvalidationSpec => []Frame
BY InvalidationInitFrames, FrameStays, PTL DEF InvalidationSpec

\* Rows, ids and times have the columns' types.
THEOREM InvalidationTypes == InvalidationSpec => []InvalidationTypeOK
<1>1. Frame => InvalidationTypeOK
  BY DEF Frame, Shapes
<1> QED
  BY <1>1, FrameInvariance, PTL

\* What the feed has applied is behind its cursor, and its cursor passes no row that no
\* read fetched unless that became visible late.
THEOREM FeedFollowsTheLog == InvalidationSpec => []FeedFollows
BY FeedFollowsAtFirst, FeedFollowsOn, FrameInvariance, PTL DEF InvalidationSpec

\* Every page that is out of date, in the cache or on its way into it, has an
\* invalidation in the outbox, in an open dispatch or in a row that the feed has yet to
\* apply or that became visible late.
THEOREM StaleIsUnderWay == InvalidationSpec => []NothingIsLost
<1>1. InvalidationInit => NothingIsLost
  BY AbsentAssumption DEF InvalidationInit, NothingIsLost, OutOfDate, PageState
<1> QED
  BY <1>1, StepsLoseNothing, FrameInvariance, FeedFollowsTheLog, PTL DEF InvalidationSpec

\* However long dispatches stay open and processes idle, and however commits, reads,
\* loads and restarts are interleaved: no page stays out of date in the cache without an
\* invalidation under way, except by a row that became visible behind a higher id and
\* that no read asked for within the overlap.
THEOREM InvalidationsArrive == InvalidationSpec => []OnlyLateRowsAreMissed
<1>1. NothingIsLost => OnlyLateRowsAreMissed
  BY DEF NothingIsLost, OnlyLateRowsAreMissed, OutOfDate
<1> QED
  BY <1>1, StaleIsUnderWay, PTL

\* Were there one dispatch at a time, "an invalidation reaches every instance" would
\* hold, whatever its posts take and without any overlap.
THEOREM OneDispatchLosesNothing ==
  ASSUME \A d, e \in Dispatcher : d = e
  PROVE  InvalidationSpec => []NothingStaysStale
<1>1. InvalidationInit => OneAtATime
  BY DEF InvalidationInit, OneAtATime, IsOpen
<1>2. OneAtATime /\ NothingIsLost => NothingStaysStale
  BY DEF OneAtATime, NothingIsLost, NothingStaysStale, OutOfDate, UnderWay
<1> QED
  BY <1>1, <1>2, OneAtATimeStays, FrameInvariance, StaleIsUnderWay, PTL DEF InvalidationSpec

=============================================================================
