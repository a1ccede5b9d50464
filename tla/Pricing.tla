------------------------------ MODULE Pricing ------------------------------
(***************************************************************************)
(* What a checkout costs: commerce/checkout/pricing.ts, with the rounding  *)
(* of commerce/money.ts.                                                   *)
(*                                                                         *)
(* Amounts are minor units, and none is negative.  An address is the place *)
(* its country and region make.  Names, titles and currencies are left     *)
(* out: a line in another currency, not sellable or out of stock is one    *)
(* that is not available.                                                  *)
(***************************************************************************)
EXTENDS Integers, Sequences, FiniteSets, Functions

CONSTANTS
  Baskets,  \* what may be priced: one store's settings and one shopper's choices
  NoQuote   \* nothing has been priced

VARIABLES
  basket,  \* what is priced
  quote    \* what came of it

pricingVars == <<basket, quote>>

\* The whole of an amount, in the basis points a discount is kept in.
Whole == 10000

\* A discount takes bps of the subtotal or a fixed amount off, from a subtotal of least
\* on; one of neither is no code at all, and one that is not usable is unknown, not
\* active, not started, over or used up.  Without an address nothing is taxed or shipped.
\* The store's shipping rate covers the address or not, for a merchandise value from least
\* to most.
Basket ==
  [lines : Seq([unit : Nat, quantity : Nat \ {0},
                taxable : BOOLEAN, ships : BOOLEAN, available : BOOLEAN]),
   discount : [bps : 0 .. Whole, off : Nat, least : Nat, usable : BOOLEAN],
   rates : Seq(Nat), inclusive : BOOLEAN, shippingTaxed : BOOLEAN,
   email : BOOLEAN, address : BOOLEAN,
   rate : [amount : Nat, covers : BOOLEAN, least : Nat, most : Nat],
   chosen : BOOLEAN]

ASSUME BasketsAssumption == Baskets \subseteq Basket

-----------------------------------------------------------------------------
(* money.ts *)

\* divideRounded, to the nearest; a half goes up, or to the even neighbour.
DivideRounded(n, d, rounding) ==
  LET floor == n \div d
      twice == 2 * (n % d) IN
  IF \/ twice > d
     \/ twice = d /\ (rounding = "half-up" \/ floor % 2 = 1)
  THEN floor + 1 ELSE floor

MutantAllocate(amount, weights) ==
  [i \in DOMAIN weights |-> (amount * weights[i]) \div SumFunction(weights)]

\* allocate: each part is its share rounded down, and what is left goes one unit each to
\* the parts with the largest remainders, the earlier first.
Allocate(amount, weights) ==
  LET whole == SumFunction(weights)
      share == [i \in DOMAIN weights |-> (amount * weights[i]) \div whole]
      remainder == [i \in DOMAIN weights |-> (amount * weights[i]) % whole]
      left == amount - SumFunction(share)
      before(i) == {j \in DOMAIN weights :
                      \/ remainder[j] > remainder[i]
                      \/ remainder[j] = remainder[i] /\ j < i} IN
  [i \in DOMAIN weights |-> share[i] + (IF Cardinality(before(i)) < left THEN 1 ELSE 0)]

-----------------------------------------------------------------------------
(* pricing.ts *)

\* taxFor: what each rate takes of a base, and the whole of it.  A price that includes
\* its tax holds one amount of tax, and the rates share it.
TaxFor(base, rates, inclusive) ==
  LET all == SumFunction(rates)
      none == [r \in DOMAIN rates |-> 0] IN
  IF base <= 0 \/ rates = <<>> THEN none
  ELSE IF ~inclusive
  THEN [r \in DOMAIN rates |-> DivideRounded(base * rates[r], 1000000, "half-even")]
  ELSE IF all = 0 THEN none
  ELSE Allocate(DivideRounded(base * all, 1000000 + all, "half-even"), rates)

HasCode(d) == d.bps > 0 \/ d.off > 0

DiscountProblem(d, subtotal) == HasCode(d) /\ (~d.usable \/ subtotal < d.least)

\* evaluateDiscount
DiscountAmount(d, subtotal) ==
  LET raw == IF d.bps > 0 THEN DivideRounded(subtotal * d.bps, Whole, "half-up") ELSE d.off IN
  IF ~HasCode(d) \/ DiscountProblem(d, subtotal) THEN 0
  ELSE IF raw > subtotal THEN subtotal ELSE raw

\* A line's discount is its part of the whole one, by its subtotal.
LineDiscounts(discount, subtotals) ==
  IF discount > 0 THEN Allocate(discount, subtotals) ELSE [i \in DOMAIN subtotals |-> 0]

QuoteLine(line, discount, rates, inclusive) ==
  LET subtotal == line.unit * line.quantity
      base == subtotal - discount
      taxes == IF line.taxable THEN TaxFor(base, rates, inclusive)
               ELSE [r \in DOMAIN rates |-> 0] IN
  [subtotal |-> subtotal, discount |-> discount, taxes |-> taxes, tax |-> SumFunction(taxes),
   total |-> base + (IF inclusive THEN 0 ELSE SumFunction(taxes))]

\* The lines of a quote keep the numbers they have in the basket.
PriceCheckout(b) ==
  LET kept == {i \in DOMAIN b.lines : b.lines[i].available}
      priced == [i \in kept |-> b.lines[i]]
      subtotals == [i \in kept |-> priced[i].unit * priced[i].quantity]
      subtotal == SumFunction(subtotals)
      discount == DiscountAmount(b.discount, subtotal)
      off == LineDiscounts(discount, subtotals)
      merchandise == subtotal - discount
      rates == IF b.address THEN b.rates ELSE <<>>
      lines == [i \in kept |-> QuoteLine(priced[i], off[i], rates, b.inclusive)]
      mustShip == \E i \in kept : priced[i].ships
      offered == /\ mustShip /\ b.address /\ b.rate.covers
                 /\ b.rate.least <= merchandise /\ merchandise <= b.rate.most
      shipped == offered /\ b.chosen
      shipping == IF shipped THEN b.rate.amount ELSE 0
      shippingTaxes == IF shipped /\ b.shippingTaxed THEN TaxFor(shipping, rates, b.inclusive)
                       ELSE [r \in DOMAIN rates |-> 0]
      taxTotal == SumFunction([i \in kept |-> lines[i].tax]) + SumFunction(shippingTaxes)
      total == merchandise + shipping + (IF b.inclusive THEN 0 ELSE taxTotal) IN
  [lines |-> lines, subtotal |-> subtotal, discount |-> discount,
   shipping |-> shipping, shippingTax |-> SumFunction(shippingTaxes), taxTotal |-> taxTotal,
   taxes |-> [r \in DOMAIN rates |->
                SumFunction([i \in kept |-> lines[i].taxes[r]]) + shippingTaxes[r]],
   total |-> total,
   problem |-> \/ b.lines = <<>> \/ kept # DOMAIN b.lines \/ ~b.email \/ ~b.address
               \/ mustShip /\ ~shipped
               \/ DiscountProblem(b.discount, subtotal)
               \/ b.lines # <<>> /\ total <= 0]

-----------------------------------------------------------------------------
PricingInit == basket \in Baskets /\ quote = NoQuote

PricingNext ==
  /\ quote = NoQuote
  /\ quote' = PriceCheckout(basket)
  /\ UNCHANGED basket

PricingSpec == PricingInit /\ [][PricingNext]_pricingVars

-----------------------------------------------------------------------------
(* Properties *)

\* Every amount of a quote is a whole number of minor units, none of them negative.
PricingTypeOK ==
  /\ basket \in Baskets
  /\ quote # NoQuote =>
       /\ {quote.subtotal, quote.discount, quote.shipping, quote.shippingTax,
           quote.taxTotal, quote.total} \subseteq Nat
       /\ quote.taxes \in Seq(Nat)
       /\ quote.problem \in BOOLEAN

\* What a shopper is charged is what the lines and the shipping say: the rounded parts of
\* the discount and of the taxes add up to the amounts they split, no line is discounted
\* below zero or includes more tax than it costs, and a quote that may be paid is not free.
\* An order copies these amounts, and its refunds are bounded by them (pricing.ts:8).
QuoteAddsUp ==
  quote # NoQuote =>
    LET each(part) == [i \in DOMAIN quote.lines |-> quote.lines[i][part]]
        added == IF basket.inclusive THEN 0 ELSE quote.shippingTax IN
    /\ quote.total = SumFunction(each("total")) + quote.shipping + added
    /\ quote.discount = SumFunction(each("discount"))
    /\ quote.taxTotal = SumFunction(quote.taxes)
    /\ \A i \in DOMAIN quote.lines :
         LET line == quote.lines[i] IN
         /\ 0 <= line.discount /\ line.discount <= line.subtotal
         /\ basket.inclusive => line.tax <= line.total
    /\ ~quote.problem => quote.total > 0

=============================================================================
