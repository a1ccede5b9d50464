------------------------------ MODULE JobSlot ------------------------------
(***************************************************************************)
(* What the periodic scheduler promises for one job, whoever runs it: its  *)
(* slots are taken in order, each only once it is due, and the next one    *)
(* only when the slot was served or has been tried often enough.  Slots    *)
(* missed meanwhile are skipped.  No workers, leases or crashes.           *)
(***************************************************************************)
EXTENDS Naturals

CONSTANT MaxAttempts

VARIABLES
  current,  \* the slot to serve
  tries,    \* how often it was begun
  served,   \* slots a run has completed
  now       \* the last slot whose time has come

promised == <<current, tries, served, now>>

SlotInit == current = 1 /\ tries = 0 /\ served = {} /\ now = 0

TimePasses == now' = now + 1 /\ UNCHANGED <<current, tries, served>>

Try ==
  /\ current <= now
  /\ tries' = tries + 1
  /\ UNCHANGED <<current, served, now>>

\* A run that was overtaken may still complete its slot, even an earlier one.
ServeLate(s) ==
  /\ s < current \/ (s = current /\ tries > 0)
  /\ served' = served \cup {s}
  /\ UNCHANGED <<current, tries, now>>

MoveOn ==
  /\ tries > 0
  /\ \/ served' = served \cup {current}
     \/ served' = served /\ tries >= MaxAttempts
  /\ current' = now + 1
  /\ tries' = 0
  /\ UNCHANGED now

SlotNext == TimePasses \/ Try \/ MoveOn \/ (\E s \in 1..now : ServeLate(s))

SlotPromise == SlotInit /\ [][SlotNext]_promised

=============================================================================
