----------------------------- MODULE MCCheckout -----------------------------
(* Plans, promotions and carts for the run of Checkout.                    *)
EXTENDS Checkout, TLC

CONSTANTS basic, pro, trial, other, PREMIUM, ENTERPRISE

Priced(m, f, cost, days, t) ==
  [model |-> m, feature |-> f, costInCents |-> cost, durationInDays |-> days, isTrial |-> t]

List == (basic :> Priced(basic, PREMIUM, 333, 7, FALSE))
     @@ (pro :> Priced(pro, ENTERPRISE, 500, 30, FALSE))
     @@ (trial :> Priced(trial, PREMIUM, 100, 1, TRUE))

\* The price list, one where prices and durations differ and a plan has become a
\* trial, and one from which that plan has gone.
Lists == {List,
          [List EXCEPT ![basic].costInCents = 335, ![basic].durationInDays = 14,
                       ![pro].isTrial = TRUE],
          [List EXCEPT ![pro] = NoPlan]}

Promo(from, to, scope, models, prio, type, value) ==
  [active |-> TRUE, startAt |-> from, endAt |-> to, appliesTo |-> scope,
   feature |-> ENTERPRISE, planModels |-> models, priority |-> prio,
   type |-> type, value |-> value]

Launch == Promo(0, 1, "GLOBAL", {}, 0, "PERCENT", 25)
Week == Promo(1, 1, "PLAN_MODELS", {basic}, 1, "FIXED", 40)
Gift == Promo(0, 2, "FEATURE", {}, 2, "FIXED", 600)
Off == [Promo(0, 2, "GLOBAL", {}, 3, "PERCENT", 90) EXCEPT !.active = FALSE]

Promos == {<<>>, <<Launch, Week, Off>>, <<Launch, Week, Gift>>}

SomeCarts == {<<>>, <<basic, pro>>, <<trial>>, <<other>>}
=============================================================================
