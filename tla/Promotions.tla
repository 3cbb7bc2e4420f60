----------------------------- MODULE Promotions -----------------------------
(***************************************************************************)
(* promotions.Apply and the pricing of a cart.  Every line of the cart     *)
(* takes the best discount offered for it: the product's own discount      *)
(* price or one promotion, never two at once.                              *)
(***************************************************************************)
EXTENDS Integers, FiniteSetsExt, SequencesExt, Functions

CONSTANTS Product, Menu   \* what the restaurant sells

(* own: the discount price, 0 for none.                                    *)
ASSUME MenuIsPriced ==
  \A p \in Product : /\ Menu[p].price \in Nat \ {0} /\ Menu[p].own \in Nat
                     /\ "category" \in DOMAIN Menu[p]
Category == {Menu[p].category : p \in Product}

Type == {"percent", "fixed_amount", "bogo", "bundle", "free_delivery", "loyalty"}

(* min, max, previous: 0 when there is no such condition.                  *)
ComputeStatus(p, now) ==
  CASE ~p.active -> "paused"
    [] p.active /\ now < p.start -> "scheduled"
    [] p.active /\ now > p.end -> "expired"
    [] OTHER -> "active"

EffectiveUnit(p) ==
  CASE p.type = "percent" -> "percent"
    [] p.type = "fixed_amount" -> "amount"
    [] OTHER -> p.unit

(* A cart is a sequence of lines; a weight or discount per line is a       *)
(* sequence of the same length.                                            *)
LineSubtotal(line) == Menu[line.product].price * line.qty
Subtotals(cart) == [i \in DOMAIN cart |-> LineSubtotal(cart[i])]
Total(amounts) == SumFunction(amounts)
Nothing(cart) == [i \in DOMAIN cart |-> 0]

Lesser(a, b) == IF a < b THEN a ELSE b

(* The same sequence as a tuple: TLC evaluates its elements once.          *)
Tuple(s) == s \o <<>>

-----------------------------------------------------------------------------
(* One promotion on one cart *)

(* The first of the heaviest lines that are not free yet gets a coin.      *)
Room(out, w) == {i \in DOMAIN w : out[i] < w[i]}
First(out, w) == CHOOSE i \in Room(out, w) :
  \A j \in Room(out, w) : w[j] < w[i] \/ (w[j] = w[i] /\ i <= j)
OneCoin(out, w, total) ==
  IF Total(out) = total THEN out ELSE [out EXCEPT ![First(out, w)] = @ + 1]

(* Shares a total over the lines by weight; what rounding leaves is given  *)
(* back coin by coin.                                                      *)
Floors(total, w) == Tuple([i \in DOMAIN w |-> (total * w[i]) \div Total(w)])
Coins(total, w) ==
  LET given[n \in 0..Len(w)] ==
        IF n = 0 THEN Floors(total, w) ELSE OneCoin(given[n - 1], w, total)
  IN  given[Len(w)]

Spread(total, w) ==
  IF Total(w) = 0 \/ total <= 0 THEN [i \in DOMAIN w |-> 0]
  ELSE Tuple(Coins(Lesser(total, Total(w)), w))

IsEligible(p, subtotal, orders, now) ==
  /\ ComputeStatus(p, now) = "active"
  /\ p.type # "free_delivery"
  /\ subtotal >= p.min
  /\ p.type = "loyalty" => orders >= p.previous

IsTarget(p, line) ==
  \/ p.whole
  \/ line.product \in p.products
  \/ Menu[line.product].category \in p.categories

(* The bundle is complete.                                                 *)
HasBundle(p, cart) ==
  LET lines == {cart[i] : i \in {j \in DOMAIN cart : IsTarget(p, cart[j])}}
  IN  /\ p.products \subseteq {l.product : l \in lines}
      /\ p.categories \subseteq {Menu[l.product].category : l \in lines}

DiscountByUnit(p, subtotal) ==
  IF EffectiveUnit(p) = "percent" THEN (subtotal * p.value) \div 100 ELSE p.value

Weights(p, cart) ==
  Tuple([i \in DOMAIN cart |-> IF IsTarget(p, cart[i]) THEN LineSubtotal(cart[i]) ELSE 0])

LineDiscounts(p, cart) ==
  LET weights == Weights(p, cart)
      shared == Spread(DiscountByUnit(p, Total(weights)), weights)
  IN  CASE p.type = "bogo" ->
             [i \in DOMAIN cart |-> IF weights[i] = 0 THEN 0
                ELSE (cart[i].qty \div 2) * Menu[cart[i].product].price]
        [] p.type = "fixed_amount" ->
             [i \in DOMAIN cart |-> Lesser(p.value * cart[i].qty, weights[i])]
        [] p.type = "bundle" -> IF HasBundle(p, cart) THEN shared ELSE Nothing(cart)
        [] p.type \in {"percent", "loyalty"} -> shared
        [] OTHER -> Nothing(cart)

-----------------------------------------------------------------------------
(* All promotions on one cart *)

Baseline(cart) ==
  [i \in DOMAIN cart |->
     LET item == Menu[cart[i].product]
     IN  IF item.own > 0 /\ item.own < item.price
         THEN (item.price - item.own) * cart[i].qty ELSE 0]

(* Places by their key, the greatest first; equals stay in their order.    *)
Rank(places, key, c) ==
  Cardinality({d \in places : key[d] > key[c] \/ (key[d] = key[c] /\ d < c)})
Ranked(places, key) ==
  Tuple([k \in 1..Cardinality(places) |-> CHOOSE c \in places : Rank(places, key, c) = k - 1])

(* What stays of a list: the elements at these places, in their order.     *)
Kept(list, places) ==
  LET order == Ranked(places, [i \in places |-> 0]) IN Tuple([k \in DOMAIN order |-> list[order[k]]])

Candidates(promos, cart, orders, now) ==
  Kept(promos, {i \in DOMAIN promos : /\ IsEligible(promos[i], Total(Subtotals(cart)), orders, now)
                                      /\ Total(LineDiscounts(promos[i], cart)) > 0})

(* base, offer: what each line saves by its own discount and by each of the*)
(* promotions; winner: the promotion a line takes, 0 for none.             *)
Best(base, offer, i) == Max({base[i]} \cup {offer[c][i] : c \in DOMAIN offer})
Winner(base, offer, i) ==
  IF Best(base, offer, i) = base[i] THEN 0
  ELSE Min({c \in DOMAIN offer : offer[c][i] = Best(base, offer, i)})
Wins(base, offer, winner, c) ==
  Tuple([i \in DOMAIN base |-> IF winner[i] = c THEN Best(base, offer, i) ELSE 0])

(* Mutant: a limit is applied to every line by itself.                     *)
ScaledByLine(limit, wins) ==
  IF limit = 0 THEN wins ELSE [i \in DOMAIN wins |-> Lesser(wins[i], limit)]

(* A promotion over its limit is scaled down on the lines it won.          *)
Scaled(limit, wins) ==
  IF limit > 0 /\ Total(wins) > limit THEN Spread(limit, wins) ELSE wins

(* A line that is then worth more at its own price leaves the promotion.   *)
Settle(base, cands, winner, scaled) ==
  LET stays(i) == winner[i] # 0 /\ scaled[winner[i]][i] > base[i]
  IN  [lines |-> Tuple([i \in DOMAIN base |-> IF stays(i) THEN scaled[winner[i]][i] ELSE base[i]]),
       won   |-> Tuple([i \in DOMAIN base |-> IF stays(i) THEN winner[i] ELSE 0]),
       cands |-> cands]

Award(base, cands, offer, winner) ==
  Settle(base, cands, winner,
         Tuple([c \in DOMAIN cands |-> Scaled(cands[c].max, Wins(base, offer, winner, c))]))

Compete(base, cands, offer) ==
  Award(base, cands, offer, Tuple([i \in DOMAIN base |-> Winner(base, offer, i)]))

ApplyTo(cart, cands) ==
  Compete(Tuple(Baseline(cart)), cands,
          Tuple([c \in DOMAIN cands |-> Tuple(LineDiscounts(cands[c], cart))]))

(* lines: the discount of each line; won: the promotion it comes from (an  *)
(* index of cands), 0 for none.                                            *)
Apply(promos, cart, orders, now) == ApplyTo(cart, Candidates(promos, cart, orders, now))

(* What each promotion gave, the most first; equals stay in their order.   *)
Gave(result, c) ==
  Total([i \in DOMAIN result.lines |-> IF result.won[i] = c THEN result.lines[i] ELSE 0])
Contributions(result) ==
  LET gave == [c \in DOMAIN result.cands |-> Gave(result, c)]
      order == Ranked({c \in DOMAIN gave : gave[c] > 0}, gave)
  IN  Tuple([k \in DOMAIN order |-> [id |-> result.cands[order[k]].id, amount |-> gave[order[k]]]])

(* The quote, given what was applied to a cart of this subtotal.           *)
Quote(result, subtotal, discount) ==
  [subtotal |-> subtotal,
   total    |-> subtotal - discount,
   lines    |-> IF discount < Total(result.lines)
                THEN Spread(discount, result.lines) ELSE result.lines,
   gave     |-> Contributions(result)]

QuoteOf(result, subtotal) == Quote(result, subtotal, Lesser(Total(result.lines), subtotal))

PriceCart(promos, cart, orders, now) ==
  QuoteOf(Apply(promos, cart, orders, now), Total(Subtotals(cart)))

-----------------------------------------------------------------------------
(* What the rules promise, said without the algorithm *)

(* Shares add up to the total or to all there is, none is more than its    *)
(* weight, and each is within a coin a line of its exact proportion.       *)
IsExactSpread(out, total, w) ==
  LET sum == Total(w)
  IN  /\ Total(out) = Lesser(total, sum)
      /\ \A i \in DOMAIN w :
           /\ out[i] <= w[i]
           /\ w[i] > 0 /\ total <= sum => out[i] * sum > total * w[i] - sum
           /\ w[i] > 0 => out[i] * sum < total * w[i] + Len(w) * sum

(* The lines add up to the total; none costs more than at its own discount *)
(* price or less than nothing; a line that no limit touches has the best   *)
(* that is offered for it; a promotion gives no more than its limit, and   *)
(* what promotions are said to have given is all that went beyond the own  *)
(* discount prices.                                                        *)
IsFairQuote(quote, base, promos, cart, orders, now) ==
  LET running == {p \in ToSet(promos) : IsEligible(p, quote.subtotal, orders, now)}
      limited == \E p \in running : p.max > 0
  IN  /\ Total(quote.lines) = quote.subtotal - quote.total
      /\ \A i \in DOMAIN cart :
           /\ quote.lines[i] \in base[i]..LineSubtotal(cart[i])
           /\ ~limited => quote.lines[i] =
                Max({base[i]} \cup {Tuple(LineDiscounts(p, cart))[i] : p \in running})
      /\ \A p \in running :
           /\ p.type \in {"percent", "loyalty"} =>
                LET w == Weights(p, cart)
                IN  IsExactSpread(Tuple(LineDiscounts(p, cart)), DiscountByUnit(p, Total(w)), w)
           /\ p.max > 0 => \A g \in ToSet(quote.gave) : g.id = p.id => g.amount <= p.max
      /\ Total([g \in DOMAIN quote.gave |-> quote.gave[g].amount]) =
           Total([i \in DOMAIN cart |-> IF quote.lines[i] > base[i] THEN quote.lines[i] ELSE 0])

IsFair(promos, cart, orders, now) ==
  IsFairQuote(PriceCart(promos, cart, orders, now), Tuple(Baseline(cart)),
              promos, cart, orders, now)
=============================================================================
