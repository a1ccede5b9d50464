---------------------------- MODULE Invalidation ----------------------------
(***************************************************************************)
(* How a change reaches the storefront's caches: the outbox                *)
(* (apps/worker/src/outbox.ts), the StorefrontInvalidation log, and one    *)
(* storefront process with its feed and its page cache                     *)
(* (packages/site-engine/src/invalidation-feed.ts, invalidation-log.ts,    *)
(* cache.ts).  Processes share nothing but the log, so one is enough.      *)
(*                                                                         *)
(* A change writes its outbox event in its own transaction.  A dispatch is *)
(* one open transaction: its log row gets its id and its time early and    *)
(* becomes visible when it commits.  The process reads the log before it   *)
(* serves from its cache, at most once a tick, and fills its cache by      *)
(* loads that other things may overtake.  Time passes whatever is open and *)
(* however long the process has not read: only a request makes it read,    *)
(* and only its timeout ends a dispatch.  The cache's expiry is left out:  *)
(* the code calls it a safety net.                                         *)
(***************************************************************************)
EXTENDS Integers, FiniteSetsExt, SequencesExt

CONSTANTS
  Tag,         \* cache tags of this process, each with one page that carries it
  Dispatcher,  \* executions of the dispatch job
  Request,     \* requests of the process that load a page
  Overlap,     \* overlapMs, in ticks
  ReadLimit,   \* INVALIDATION_READ_LIMIT
  Timeout,     \* the timeout of a dispatch's transaction, in ticks
  MaxRows,     \* bound: dispatches begun
  MaxTick,     \* bound: time
  Absent       \* nothing cached, read, open or known

ASSUME InvalidationAssumption ==
  /\ {Overlap, ReadLimit, Timeout, MaxRows, MaxTick} \subseteq Nat
  /\ ReadLimit > 0

VARIABLES
  tick,      \* time
  outbox,    \* tags of events that are not dispatched, nor claimed for it
  dispatch,  \* dispatch[d]: the open transaction of dispatcher d
  lastId,    \* the log's sequence
  log,       \* rows of the log that are visible
  late,      \* history: rows that became visible behind a higher id and that no read has
             \* asked for since this process last emptied its cache
  cursor,    \* the feed's cursor; Absent before its first read
  seen,      \* ids the feed has applied
  lastSync,  \* when the feed last read
  reading,   \* what its read under way has fetched
  synced,    \* a read has ended in this tick: requests may use the cache
  cached,    \* cached[t]: the page in the cache, "stale" once the database has a newer one
  load       \* load[r]: the load of request r

database == <<outbox, dispatch, lastId, log>>
feed == <<cursor, seen, lastSync, reading, synced>>
cache == <<cached, load>>
invalidationVars == <<tick, database, late, feed, cache>>

PageState == {"current", "stale"}
LogRow == [id : Nat \ {0}, tags : SUBSET Tag, at : 0..MaxTick]
Load == [tag : Tag, read : PageState, spoiled : BOOLEAN]
Reading == [at : 0..MaxTick, rows : SUBSET LogRow, head : Nat]

ASSUME AbsentAssumption ==
  Absent \notin PageState \cup LogRow \cup Reading \cup Nat

InvalidationTypeOK ==
  /\ tick \in 0..MaxTick
  /\ outbox \subseteq Tag
  /\ \A d \in Dispatcher : dispatch[d] = Absent \/ dispatch[d] \in LogRow
  /\ lastId \in Nat
  /\ \A row \in log : row \in LogRow /\ row.id <= lastId
  /\ late \subseteq log
  /\ cursor \in Nat \cup {Absent}
  /\ seen \subseteq Nat
  /\ lastSync \in 0..MaxTick
  /\ reading = Absent \/ reading \in Reading
  /\ synced \in BOOLEAN
  /\ cached \in [Tag -> PageState \cup {Absent}]
  /\ \A r \in Request : load[r] = Absent \/ load[r] \in Load

InvalidationInit ==
  /\ tick = 0
  /\ outbox = {}
  /\ dispatch = [d \in Dispatcher |-> Absent]
  /\ lastId = 0
  /\ log = {}
  /\ late = {}
  /\ cursor = Absent
  /\ seen = {}
  /\ lastSync = 0
  /\ reading = Absent
  /\ synced = FALSE
  /\ cached = [t \in Tag |-> Absent]
  /\ load = [r \in Request |-> Absent]

-----------------------------------------------------------------------------
(* The page cache.                                                         *)

\* Entries with these tags go; loads under way of a page that carries one of the tags are
\* not stored.
Invalidate(tags) ==
  /\ cached' = [t \in Tag |-> IF t \in tags THEN Absent ELSE cached[t]]
  /\ load' = [r \in Request |->
       IF load[r] = Absent THEN Absent
       ELSE [load[r] EXCEPT !.spoiled = @ \/ load[r].tag \in tags]]

ClearCaches == Invalidate(Tag) /\ late' = {}

\* A miss of a synced request starts a load; that some join one instead makes no
\* difference to the cache.  It reads the database at once: the later it does, the newer
\* what it stores.
StartLoad(r, t) ==
  /\ load[r] = Absent
  /\ synced
  /\ reading = Absent
  /\ cached[t] = Absent
  /\ load' = [load EXCEPT ![r] = [tag |-> t, read |-> "current", spoiled |-> FALSE]]
  /\ UNCHANGED <<tick, database, late, feed, cached>>

LoadEnds(r) ==
  /\ load[r] # Absent
  /\ cached' = IF load[r].spoiled THEN cached ELSE [cached EXCEPT ![load[r].tag] = load[r].read]
  /\ load' = [load EXCEPT ![r] = Absent]
  /\ UNCHANGED <<tick, database, late, feed>>

\* An entry gives way to others (LRU).
Evict(t) ==
  /\ cached[t] # Absent
  /\ cached' = [cached EXCEPT ![t] = Absent]
  /\ UNCHANGED <<tick, database, late, feed, load>>

-----------------------------------------------------------------------------
(* Changes and their dispatch.                                             *)

\* What is cached or being loaded of the page is the old one now.
Change(t) ==
  /\ outbox' = outbox \cup {t}
  /\ cached' = IF cached[t] = Absent THEN cached ELSE [cached EXCEPT ![t] = "stale"]
  /\ load' = [r \in Request |->
       IF load[r] # Absent /\ load[r].tag = t THEN [load[r] EXCEPT !.read = "stale"]
       ELSE load[r]]
  /\ UNCHANGED <<tick, dispatch, lastId, log, late, feed>>

IsOpen(d) == dispatch[d] # Absent

\* SKIP LOCKED: what another dispatch holds is left to it.  A batch may as well be all of
\* stores whose pages this process does not have.
BeginDispatch(d) ==
  /\ ~IsOpen(d)
  /\ lastId < MaxRows
  /\ lastId' = lastId + 1
  /\ dispatch' = [dispatch EXCEPT ![d] = [id |-> lastId + 1, tags |-> outbox, at |-> tick]]
  /\ outbox' = {}
  /\ UNCHANGED <<tick, log, late, feed, cache>>

\* The signed post reaches this process.
Post(d) ==
  /\ IsOpen(d)
  /\ Invalidate(dispatch[d].tags)
  /\ UNCHANGED <<tick, database, late, feed>>

\* A dispatch that is slow to post commits late: other rows may be visible by then.
CommitDispatch(d) ==
  /\ IsOpen(d)
  /\ tick - dispatch[d].at < Timeout
  /\ log' = log \cup {dispatch[d]}
  /\ late' = IF \E row \in log : row.id > dispatch[d].id THEN late \cup {dispatch[d]} ELSE late
  /\ dispatch' = [dispatch EXCEPT ![d] = Absent]
  /\ UNCHANGED <<tick, outbox, lastId, feed, cache>>

\* The transaction fails, times out or its process dies; its id is lost.
AbortDispatch(d) ==
  /\ IsOpen(d)
  /\ dispatch' = [dispatch EXCEPT ![d] = Absent]
  /\ outbox' = outbox \cup dispatch[d].tags
  /\ UNCHANGED <<tick, lastId, log, late, feed, cache>>

-----------------------------------------------------------------------------
(* The feed.                                                               *)

Largest(ids) == Max(ids \cup {0})
Ids(someRows) == {row.id : row \in someRows}

MutantWanted(row) == row.id > cursor

\* Rows a read asks for: those past the cursor, and those of the overlap.
Wanted(row) == row.id > cursor \/ row.at > tick - Overlap

\* The first ReadLimit of them.
Page ==
  LET wanted == {row \in log : Wanted(row)}
      Before(row) == {other \in wanted : other.id < row.id}
  IN {row \in wanted : Cardinality(Before(row)) < ReadLimit}

\* What became visible too late for the reads from now on.
OutOfReach(row) == row.id <= cursor /\ row.at <= tick - Overlap

\* The first read asks for the head of the log only.
FeedReads ==
  /\ reading = Absent
  /\ cursor = Absent \/ lastSync < tick
  /\ reading' = [at |-> tick,
                 rows |-> IF cursor = Absent THEN {} ELSE Page,
                 head |-> IF cursor = Absent THEN Largest(Ids(log)) ELSE cursor]
  /\ late' = IF cursor = Absent THEN late ELSE {row \in late : OutOfReach(row)}
  /\ UNCHANGED <<tick, database, cursor, seen, lastSync, synced, cache>>

ReadEnds ==
  /\ reading # Absent
  /\ reading' = Absent
  /\ lastSync' = reading.at
  /\ synced' = TRUE
  /\ UNCHANGED <<tick, database>>

StartAtHead ==
  /\ cursor = Absent
  /\ ReadEnds
  /\ ClearCaches
  /\ cursor' = reading.head
  /\ UNCHANGED seen

\* Too far behind to apply row by row.
StartClean ==
  /\ cursor # Absent
  /\ ReadEnds
  /\ Cardinality(reading.rows) >= ReadLimit
  /\ ClearCaches
  /\ cursor' = Largest(Ids(reading.rows) \cup {cursor})
  /\ seen' = {}

\* Ids are forgotten once they are two overlaps older than the newest row read.
Remembered(rows) ==
  LET newest == Largest({row.at : row \in rows})
      known == {row \in log : row.id \in seen} \cup rows
  IN Ids({row \in known : rows = {} \/ row.at >= newest - 2 * Overlap})

ApplyRows ==
  /\ cursor # Absent
  /\ ReadEnds
  /\ Cardinality(reading.rows) < ReadLimit
  /\ Invalidate(UNION {row.tags : row \in {x \in reading.rows : x.id \notin seen}})
  /\ cursor' = Largest(Ids(reading.rows) \cup {cursor})
  /\ seen' = Remembered(reading.rows)
  /\ UNCHANGED late

\* The log can't be read: nothing cached outlives the failure.
ReadFails ==
  /\ ReadEnds
  /\ ClearCaches
  /\ UNCHANGED <<cursor, seen>>

\* The process is replaced.
Restart ==
  /\ cursor # Absent
  /\ cursor' = Absent
  /\ seen' = {}
  /\ reading' = Absent
  /\ synced' = FALSE
  /\ lastSync' = 0
  /\ late' = {}
  /\ cached' = [t \in Tag |-> Absent]
  /\ load' = [r \in Request |-> Absent]
  /\ UNCHANGED <<tick, database>>

Tick ==
  /\ tick < MaxTick
  /\ tick' = tick + 1
  /\ synced' = FALSE
  /\ UNCHANGED <<database, late, cursor, seen, lastSync, reading, cache>>

InvalidationNext ==
  \/ Tick
  \/ \E t \in Tag : Change(t) \/ Evict(t) \/ (\E r \in Request : StartLoad(r, t))
  \/ \E r \in Request : LoadEnds(r)
  \/ \E d \in Dispatcher : BeginDispatch(d) \/ Post(d) \/ CommitDispatch(d) \/ AbortDispatch(d)
  \/ FeedReads
  \/ StartAtHead
  \/ StartClean
  \/ ApplyRows
  \/ ReadFails
  \/ Restart

InvalidationSpec == InvalidationInit /\ [][InvalidationNext]_invalidationVars

-----------------------------------------------------------------------------
(* Properties.                                                             *)

\* The feed will read this row, or has and will apply it or drop everything.
StillToCome(row) ==
  \/ cursor = Absent
  \/ row.id > cursor
  \/ /\ reading # Absent
     /\ \/ row \in reading.rows /\ row.id \notin seen
        \/ Cardinality(reading.rows) >= ReadLimit

\* The invalidation of this page's tag is in the outbox, in an open dispatch, or in a row
\* that the feed has yet to apply; or in one of these others.
UnderWay(t, others) ==
  \/ t \in outbox
  \/ \E d \in Dispatcher : IsOpen(d) /\ t \in dispatch[d].tags
  \/ \E row \in log : t \in row.tags /\ (StillToCome(row) \/ row \in others)

\* Behind the cursor, but a read would still ask for it now.
InOverlap == {row \in log : row.id \notin seen /\ row.at > tick - Overlap}

\* "an invalidation reaches every instance": a cached page that the database has a newer
\* one of is one whose invalidation is still under way.  It does not hold: a dispatch may
\* stay open, and the process without requests, for longer than the overlap.
NothingStaysStale ==
  \A t \in Tag : cached[t] = "stale" => UnderWay(t, InOverlap)

\* What the feed does keep, however long dispatches stay open and processes idle: it
\* misses a row only if that became visible behind a higher id and no read asked for it
\* within the overlap.  A slow load that stored what an invalidation had overtaken, rows
\* that committed during a read, rows dropped by the read limit or ids forgotten too soon
\* would leave a page stale without one.
OnlyLateRowsAreMissed ==
  \A t \in Tag : cached[t] = "stale" => UnderWay(t, late)

=============================================================================
