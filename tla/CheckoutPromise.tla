-------------------------- MODULE CheckoutPromise --------------------------
(***************************************************************************)
(* What the checkout promises its shoppers and its merchant, without       *)
(* links, webhooks, sweeps, crashes or races: a checkout waits for at most *)
(* one payment at a time, stock leaves the shelf when it starts to wait    *)
(* and comes back when it gives up, money is taken at most once for a      *)
(* payment, and a checkout is placed once, for one fixed deal.             *)
(***************************************************************************)
EXTENDS Integers

CONSTANTS Checkout, Payment, Quote, Units, Oversell, OnHand, None

VARIABLES
  turn,   \* turn[c]: "shopping", "placed", or the payment c waits for
  deal,   \* deal[c]: the quote c waits to be paid for or was placed for
  taken,  \* payments whose money was taken
  shelf   \* units on sale; below zero when money came late for sold-out stock

promiseVars == <<turn, deal, taken, shelf>>

Init ==
  /\ turn = [c \in Checkout |-> "shopping"]
  /\ deal = [c \in Checkout |-> None]
  /\ taken = {}
  /\ shelf = OnHand

Wait(c, p) ==
  /\ turn[c] = "shopping"
  /\ turn' = [turn EXCEPT ![c] = p]
  /\ p \notin taken
  /\ \E q \in Quote :
       /\ Units[q] <= shelf \/ Oversell
       /\ deal' = [deal EXCEPT ![c] = q]
       /\ shelf' = shelf - Units[q]
  /\ UNCHANGED taken

GiveUp(c) ==
  /\ turn[c] \in Payment
  /\ turn' = [turn EXCEPT ![c] = "shopping"]
  /\ deal' = [deal EXCEPT ![c] = None]
  /\ shelf' = shelf + Units[deal[c]]
  /\ UNCHANGED taken

\* The payment waited for arrives, or an earlier one in its place: the deal stands.
Place(c, p) ==
  /\ turn[c] \in Payment
  /\ p \notin taken
  /\ turn' = [turn EXCEPT ![c] = "placed"]
  /\ taken' = taken \cup {p}
  /\ UNCHANGED <<deal, shelf>>

\* Money arrives when nothing is waited for any more: the stock is claimed again.
PlaceLate(c) ==
  /\ turn[c] = "shopping"
  /\ turn' = [turn EXCEPT ![c] = "placed"]
  /\ \E p \in Payment \ taken : taken' = taken \cup {p}
  /\ \E q \in Quote :
       /\ deal' = [deal EXCEPT ![c] = q]
       /\ shelf' = shelf - Units[q]

\* Money nobody waits for: an extra capture, or one for a deal that has changed.
TakeOther(p) ==
  /\ p \notin taken
  /\ \A c \in Checkout : turn[c] # p
  /\ taken' = taken \cup {p}
  /\ UNCHANGED <<turn, deal, shelf>>

\* The turn of a checkout changes, or money is taken that is nobody's turn.
Next ==
  \/ \E c \in Checkout :
       /\ turn'[c] # turn[c]
       /\ GiveUp(c) \/ PlaceLate(c) \/ \E p \in Payment : Wait(c, p) \/ Place(c, p)
  \/ taken' # taken /\ \E p \in Payment : TakeOther(p)

Spec == Init /\ [][Next]_promiseVars

=============================================================================
