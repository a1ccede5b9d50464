----------------------------- MODULE StockLocks -----------------------------
(***************************************************************************)
(* The row locks of stock: what a transaction of commerce/checkout/        *)
(* stock.ts or commerce/inventory.ts locks, inserts and waits for.         *)
(*                                                                         *)
(* A level is one item at one location; levels are numbered in the order   *)
(* of (inventoryItemId, locationId).  The quantities are in Checkout and   *)
(* Orders: here they only decide whether a transaction is refused.  The    *)
(* database behaves as PostgreSQL at READ COMMITTED: a SELECT sees the     *)
(* rows committed when it begins, and waits for a lock on each; an INSERT  *)
(* ... ON CONFLICT DO NOTHING waits for the transaction that inserts the   *)
(* same key; a deadlock is broken by refusing one of the waiters.          *)
(***************************************************************************)
EXTENDS Integers

CONSTANTS
  Transaction,
  Items,      \* the tracked items are 0 .. Items - 1
  Locations,  \* and the locations 0 .. Locations - 1
  Online      \* the locations that fulfil online orders

ASSUME StockAssumption ==
  Items \in Nat \ {0} /\ Locations \in Nat \ {0} /\ Online \subseteq 0 .. (Locations - 1)

Item == 0 .. (Items - 1)
Location == 0 .. (Locations - 1)
Level == 0 .. (Items * Locations - 1)
LevelOf(i, l) == i * Locations + l
ItemOf(v) == v \div Locations
LocationOf(v) == v % Locations

VARIABLES
  levels,     \* the InventoryLevel rows that are committed
  kind,       \* what each transaction does, or "idle" or "ended"
  locking,    \* the levels its SELECT ... FOR UPDATE has still to lock
  inserting,  \* the levels it has still to insert
  supplying,  \* the items a reservation has still to take somewhere
  moved,      \* the levels it was asked for
  holds,      \* the rows it has locked or inserted
  missed      \* the levels it found missing

stockVars == <<levels, kind, locking, inserting, supplying, moved, holds, missed>>

First(S) == CHOOSE v \in S : \A u \in S : v <= u

StockInit ==
  /\ levels \in SUBSET Level
  /\ kind = [t \in Transaction |-> "idle"]
  /\ locking = [t \in Transaction |-> {}]
  /\ inserting = [t \in Transaction |-> {}]
  /\ supplying = [t \in Transaction |-> {}]
  /\ moved = [t \in Transaction |-> {}]
  /\ holds = [t \in Transaction |-> {}]
  /\ missed = [t \in Transaction |-> {}]

-----------------------------------------------------------------------------
(* What the transactions are *)

\* reserveStock, for a payment that begins or a capture that needs stock again: it
\* locks the levels its items have, at whatever location.
Reserve(t, I) ==
  /\ kind[t] = "idle"
  /\ kind' = [kind EXCEPT ![t] = "reserve"]
  /\ locking' = [locking EXCEPT ![t] = {v \in levels : ItemOf(v) \in I}]
  /\ supplying' = [supplying EXCEPT ![t] = I]
  /\ UNCHANGED <<levels, inserting, moved, holds, missed>>

\* releaseCheckoutStock, fulfilStock and cancelOrderStock lock the levels of
\* reservations, which exist.
SettleReservations(t, V) ==
  /\ kind[t] = "idle"
  /\ V \subseteq levels
  /\ kind' = [kind EXCEPT ![t] = "settle"]
  /\ locking' = [locking EXCEPT ![t] = V]
  /\ UNCHANGED <<levels, inserting, supplying, moved, holds, missed>>

\* restockStock: every level is inserted, and then all of them are locked.
Restock(t, V) ==
  /\ kind[t] = "idle"
  /\ kind' = [kind EXCEPT ![t] = "restock"]
  /\ inserting' = [inserting EXCEPT ![t] = V]
  /\ moved' = [moved EXCEPT ![t] = V]
  /\ UNCHANGED <<levels, locking, supplying, holds, missed>>

\* adjustInventory, setInventory and moveInventory: an item at one location or two,
\* each level inserted and locked before the next.
Adjust(t, i, L) ==
  /\ kind[t] = "idle"
  /\ kind' = [kind EXCEPT ![t] = "adjust"]
  /\ inserting' = [inserting EXCEPT ![t] = {LevelOf(i, l) : l \in L}]
  /\ UNCHANGED <<levels, locking, supplying, moved, holds, missed>>

-----------------------------------------------------------------------------
(* Their statements *)

\* Without the ORDER BY.
MutantLock(t) ==
  \E v \in locking[t] :
    /\ \A u \in Transaction \ {t} : v \notin holds[u]
    /\ locking' = [locking EXCEPT ![t] = @ \ {v}]
    /\ holds' = [holds EXCEPT ![t] = @ \cup {v}]
    /\ UNCHANGED <<levels, kind, inserting, supplying, moved, missed>>

\* One row of a SELECT ... ORDER BY ... FOR UPDATE.
Lock(t) ==
  LET v == First(locking[t]) IN
  /\ locking[t] # {}
  /\ \A u \in Transaction \ {t} : v \notin holds[u]
  /\ locking' = [locking EXCEPT ![t] = @ \ {v}]
  /\ holds' = [holds EXCEPT ![t] = @ \cup {v}]
  /\ UNCHANGED <<levels, kind, inserting, supplying, moved, missed>>

\* What is locked once v is inserted: the levels of a return after its last insert.
LockedAfter(t, v) ==
  IF kind[t] # "restock" THEN {v}
  ELSE IF inserting[t] = {v} THEN moved[t] ELSE {}

\* INSERT ... ON CONFLICT DO NOTHING.  An inserted row is its inserter's until it commits.
Insert(t) ==
  LET v == First(inserting[t]) IN
  /\ locking[t] = {} /\ inserting[t] # {}
  /\ \A u \in Transaction \ {t} : v \notin holds[u] \ levels
  /\ inserting' = [inserting EXCEPT ![t] = @ \ {v}]
  /\ locking' = [locking EXCEPT ![t] = LockedAfter(t, v)]
  /\ holds' = [holds EXCEPT ![t] = IF v \in levels THEN @ ELSE @ \cup {v}]
  /\ missed' = [missed EXCEPT ![t] =
                  IF v \in levels /\ kind[t] # "reserve" THEN @ ELSE @ \cup {v}]
  /\ UNCHANGED <<levels, kind, supplying, moved>>

\* A reservation's next item, every level it has being locked: one of those at an
\* online location is used, and failing that the item oversells at the first location.
Supply(t) ==
  LET i == First(supplying[t])
      candidates == {v \in holds[t] : ItemOf(v) = i /\ LocationOf(v) \in Online} IN
  /\ locking[t] = {} /\ inserting[t] = {} /\ supplying[t] # {}
  /\ supplying' = [supplying EXCEPT ![t] = @ \ {i}]
  /\ inserting' = [inserting EXCEPT ![t] =
                     IF candidates # {} \/ Online = {} THEN {}
                     ELSE {LevelOf(i, First(Online))}]
  /\ UNCHANGED <<levels, kind, locking, moved, holds, missed>>

Leave(t, rows) ==
  /\ levels' = rows
  /\ kind' = [kind EXCEPT ![t] = "ended"]
  /\ locking' = [locking EXCEPT ![t] = {}]
  /\ inserting' = [inserting EXCEPT ![t] = {}]
  /\ supplying' = [supplying EXCEPT ![t] = {}]
  /\ moved' = [moved EXCEPT ![t] = {}]
  /\ holds' = [holds EXCEPT ![t] = {}]
  /\ missed' = [missed EXCEPT ![t] = {}]

Commit(t) ==
  /\ kind[t] \notin {"idle", "ended"}
  /\ locking[t] = {} /\ inserting[t] = {} /\ supplying[t] = {}
  /\ Leave(t, levels \cup holds[t])

\* It is rolled back: a DENY item no location can supply, too little stock to adjust, or
\* a later part of the transaction that fails.
Refuse(t) ==
  /\ kind[t] \notin {"idle", "ended"}
  /\ locking[t] = {} /\ inserting[t] = {}
  /\ Leave(t, levels)

-----------------------------------------------------------------------------
(* Waiting *)

WaitsFor(t, u) ==
  \/ locking[t] # {} /\ First(locking[t]) \in holds[u]
  \/ locking[t] = {} /\ inserting[t] # {} /\ First(inserting[t]) \in holds[u] \ levels

\* Each member of T waits for another.
Deadlocked(T) ==
  T # {} /\ \A t \in T : \E u \in T \ {t} : WaitsFor(t, u)

\* The database refuses a member of a deadlock.
Victim(t) ==
  /\ \E T \in SUBSET Transaction : t \in T /\ Deadlocked(T)
  /\ Leave(t, levels)

StockNext ==
  \E t \in Transaction :
    \/ \E I \in SUBSET Item \ {{}} : Reserve(t, I)
    \/ \E V \in SUBSET levels \ {{}} : SettleReservations(t, V)
    \/ \E V \in SUBSET Level \ {{}} : Restock(t, V)
    \/ \E i \in Item, l, m \in Location : Adjust(t, i, {l, m})
    \/ Lock(t) \/ Insert(t) \/ Supply(t)
    \/ Commit(t) \/ Refuse(t) \/ Victim(t)

StockSpec == StockInit /\ [][StockNext]_stockVars

-----------------------------------------------------------------------------
(* Properties *)

StockTypeOK ==
  /\ levels \subseteq Level
  /\ kind \in [Transaction ->
       {"idle", "reserve", "settle", "restock", "adjust", "ended"}]
  /\ locking \in [Transaction -> SUBSET Level]
  /\ inserting \in [Transaction -> SUBSET Level]
  /\ supplying \in [Transaction -> SUBSET Item]
  /\ moved \in [Transaction -> SUBSET Level]
  /\ holds \in [Transaction -> SUBSET Level]
  /\ missed \in [Transaction -> SUBSET Level]

\* Transactions that find every level they need serialise: of those that wait for each
\* other, one found a level missing, and they are not all changes made by hand.  (The
\* comments at stock.ts:14 and inventory.ts:74 rest on the order of the locks; the level
\* a reservation or a return has to insert is locked out of that order.)
DeadlocksNeedAMissingLevel ==
  \A T \in SUBSET Transaction :
    Deadlocked(T) =>
      /\ \E t \in T : missed[t] # {}
      /\ \E t \in T : kind[t] # "adjust"

=============================================================================
