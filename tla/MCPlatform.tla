----------------------------- MODULE MCPlatform -----------------------------
(***************************************************************************)
(* What surrounds checkout and the worker, for TLC: members, billing,      *)
(* pages, policies, the caches a change must reach, the locks of stock     *)
(* and the price of a basket.  No two of them share state, so a behaviour  *)
(* is one of a single part.                                                *)
(***************************************************************************)
EXTENDS Invalidation, PageDrafts, PolicyDrafts, Members, Billing, StockLocks, Pricing, TLC

VARIABLE part  \* which of them moves

caches == invalidationVars
vars == <<part, caches, pageVars, policyVars, memberVars, billingVars,
          stockVars, pricingVars>>

Parts == {"caches", "pages", "policies", "members", "billing", "stock", "pricing"}

\* The parts that do not move start in one state.
Init ==
  /\ part \in Parts
  /\ part # "pages" => live = 0
  /\ part # "members" => counter = None
  /\ part # "stock" => levels = {}
  /\ part # "pricing" => basket = CHOOSE b \in Baskets : TRUE
  /\ InvalidationInit /\ PageInit /\ PolicyInit /\ MembersInit /\ BillingInit
  /\ StockInit /\ PricingInit
  /\ part # "pages" => versions[1].document = CHOOSE d \in Document : TRUE

Next ==
  \/ /\ part = "caches" /\ InvalidationNext
     /\ UNCHANGED <<part, pageVars, policyVars, memberVars, billingVars, stockVars, pricingVars>>
  \/ /\ part = "pages" /\ PageNext
     /\ UNCHANGED <<part, caches, policyVars, memberVars, billingVars, stockVars, pricingVars>>
  \/ /\ part = "policies" /\ PolicyNext
     /\ UNCHANGED <<part, caches, pageVars, memberVars, billingVars, stockVars, pricingVars>>
  \/ /\ part = "members" /\ MembersNext
     /\ UNCHANGED <<part, caches, pageVars, policyVars, billingVars, stockVars, pricingVars>>
  \/ /\ part = "billing" /\ BillingNext
     /\ UNCHANGED <<part, caches, pageVars, policyVars, memberVars, stockVars, pricingVars>>
  \/ /\ part = "stock" /\ StockNext
     /\ UNCHANGED <<part, caches, pageVars, policyVars, memberVars, billingVars, pricingVars>>
  \/ /\ part = "pricing" /\ PricingNext
     /\ UNCHANGED <<part, caches, pageVars, policyVars, memberVars, billingVars, stockVars>>

Spec == Init /\ [][Next]_vars

Joiner == Person \ ({Founder} \cup Early)

\* Up to two sets of each part are symmetric.  Those of different parts are permuted
\* together: only one part moves, and the group stays small.
Together ==
  {<<Dispatcher, Tab>>, <<Dispatcher, Invitation>>, <<Dispatcher, Ref>>,
   <<Document, Joiner>>, <<Dispatcher, Transaction>>}

Moves(f, S) == \E x \in S : f[x] # x

Symmetry ==
  {f \in {a @@ b @@ c @@ d @@ e @@ g @@ h :
           a \in Permutations(Dispatcher), b \in Permutations(Tab),
           c \in Permutations(Invitation), d \in Permutations(Ref),
           e \in Permutations(Document), g \in Permutations(Joiner),
           h \in Permutations(Transaction)} :
     \A pair \in Together : Moves(f, pair[1]) <=> Moves(f, pair[2])}

-----------------------------------------------------------------------------
(* What is priced: baskets where the rounding shows, and baskets with every problem *)

Code(bps, off, least, usable) ==
  [bps |-> bps, off |-> off, least |-> least, usable |-> usable]

RoundedBaskets ==
  [lines : UNION {[1 .. n -> [unit : {5, 9}, quantity : {1, 3}, taxable : BOOLEAN,
                              ships : {FALSE}, available : {TRUE}]] : n \in {2, 3}},
   discount : {Code(0, 0, 0, TRUE), Code(1500, 0, 0, TRUE), Code(0, 7, 0, TRUE),
               Code(0, 40, 0, TRUE)},
   rates : {<<100000>>, <<90000, 90000>>, <<500000, 60000>>},
   inclusive : BOOLEAN, shippingTaxed : {FALSE}, email : {TRUE}, address : {TRUE},
   rate : {[amount |-> 0, covers |-> FALSE, least |-> 0, most |-> 0]}, chosen : {FALSE}]

ProblemBaskets ==
  [lines : UNION {[1 .. n -> [unit : {5}, quantity : {2}, taxable : {TRUE},
                              ships : BOOLEAN, available : BOOLEAN]] : n \in 0 .. 2},
   discount : {Code(0, 0, 0, TRUE), Code(10000, 0, 0, TRUE), Code(2500, 0, 15, TRUE),
               Code(2500, 0, 0, FALSE)},
   rates : {<<>>, <<90000, 90000>>}, inclusive : BOOLEAN, shippingTaxed : BOOLEAN,
   email : BOOLEAN, address : BOOLEAN,
   rate : {[amount |-> 15, covers |-> c, least |-> least, most |-> least + 12] :
             c \in BOOLEAN, least \in {0, 8}},
   chosen : BOOLEAN]

PricedBaskets == RoundedBaskets \cup ProblemBaskets

-----------------------------------------------------------------------------
\* A type invariant: rows keep their columns' types and refer to rows that exist.
TypeOK ==
  /\ InvalidationTypeOK
  /\ PageTypeOK
  /\ PolicyTypeOK
  /\ MembersTypeOK
  /\ BillingTypeOK
  /\ StockTypeOK
  /\ PricingTypeOK

=============================================================================
