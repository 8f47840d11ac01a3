------------------------------- MODULE Pricing -------------------------------
(***************************************************************************)
(* What a plan costs: the private helpers isPromoActive, bestPromoForPlan  *)
(* and applyPromo of SubscriptionsService                                  *)
(* (src/subscriptions/subscription.service.ts).                            *)
(*                                                                         *)
(* Prices are whole cents.  The code computes with euros and rounds to two *)
(* decimals; the floating-point error of that product is left out.  A      *)
(* promotion without startAt or endAt has one beyond the clock's reach, a  *)
(* collection is the sequence in which find() returns it, and labels,      *)
(* codes and the percentage shown next to a price are left out.            *)
(***************************************************************************)
EXTENDS Integers, Sequences, FiniteSetsExt

Promotion(Models, Features) ==
  [active : BOOLEAN, startAt : Nat, endAt : Nat,
   appliesTo : {"GLOBAL", "FEATURE", "PLAN_MODELS"}, feature : Features,
   planModels : SUBSET Models, priority : Nat,
   type : {"PERCENT", "FIXED"}, value : Nat]

SubscriptionPlan(Models, Features) ==
  [model : Models, feature : Features, costInCents : Nat, durationInDays : Nat \ {0},
   isTrial : BOOLEAN]

\* Both ends of the period belong to it.
IsPromoActive(p, t) == p.active /\ p.startAt <= t /\ t <= p.endAt

AppliesTo(p, plan) ==
  CASE p.appliesTo = "GLOBAL" -> TRUE
    [] p.appliesTo = "FEATURE" -> p.feature = plan.feature
    [] p.appliesTo = "PLAN_MODELS" -> plan.model \in p.planModels

\* Where in the collection the promotions stand that may be taken.
Candidates(plan, promos, t) ==
  {i \in DOMAIN promos : IsPromoActive(promos[i], t) /\ AppliesTo(promos[i], plan)}

\* Those that the sort by priority puts before every other one, but for the order
\* of the collection.
Foremost(plan, promos, t) ==
  LET cs == Candidates(plan, promos, t)
  IN  {i \in cs : \A j \in cs : promos[j].priority <= promos[i].priority}

\* Mutant: the candidates are not sorted.
BestPromoUnsorted(plan, promos, t) == promos[Min(Candidates(plan, promos, t))]

\* The sort is stable: of equal priorities the first of the collection is taken.
BestPromo(plan, promos, t) == promos[Min(Foremost(plan, promos, t))]

NotNegative(n) == IF n < 0 THEN 0 ELSE n

\* Mutant: a fixed discount may exceed the cost.
ApplyPromoUnbounded(cost, p) ==
  IF p.type = "PERCENT" THEN NotNegative((cost * (100 - p.value) + 50) \div 100)
                        ELSE cost - p.value

\* Math.round rounds a half up.
ApplyPromo(cost, p) ==
  IF p.type = "PERCENT" THEN NotNegative((cost * (100 - p.value) + 50) \div 100)
                        ELSE NotNegative(cost - p.value)

\* discounted ?? plan.costInEuro
FinalPrice(plan, promos, t) ==
  IF Candidates(plan, promos, t) = {} THEN plan.costInCents
  ELSE ApplyPromo(plan.costInCents, BestPromo(plan, promos, t))

-----------------------------------------------------------------------------
(* What a price ought to be, said without the algorithm.                   *)

\* n is cost less v per cent, to the nearest cent.
IsNearest(n, cost, v) ==
  LET exact == cost * (100 - v) IN
  IF exact <= 0 THEN n = 0 ELSE 100 * n - 50 <= exact /\ exact <= 100 * n + 50

\* n is the price that promotion p makes of a cost.
IsDiscount(n, cost, p) ==
  \/ p.type = "PERCENT" /\ IsNearest(n, cost, p.value)
  \/ p.type = "FIXED" /\ p.value <= cost /\ n + p.value = cost
  \/ p.type = "FIXED" /\ p.value > cost /\ n = 0

\* A promotion counts for a plan at clock t.
Counts(p, plan, t) ==
  /\ p.active
  /\ t \in p.startAt .. p.endAt
  /\ \/ p.appliesTo = "GLOBAL"
     \/ p.appliesTo = "FEATURE" /\ p.feature = plan.feature
     \/ p.appliesTo = "PLAN_MODELS" /\ plan.model \in p.planModels

\* n is what a plan may be offered for at clock t: its cost less one promotion that
\* counts and that none of higher priority overrides, or its cost if none counts.
IsOffer(n, plan, promos, t) ==
  LET counting == {promos[i] : i \in {j \in DOMAIN promos : Counts(promos[j], plan, t)}} IN
  IF counting = {} THEN n = plan.costInCents
  ELSE \E p \in counting :
         /\ ~ \E q \in counting : q.priority > p.priority
         /\ IsDiscount(n, plan.costInCents, p)
=============================================================================
