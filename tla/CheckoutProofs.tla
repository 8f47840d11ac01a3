---------------------------- MODULE CheckoutProofs ----------------------------
(***************************************************************************)
(* Proofs about Pricing and Checkout, for any plans, promotions, carts and *)
(* orders, however often they are edited and whatever calls overlap.       *)
(*                                                                         *)
(* An induction is a descent here: among the counterexamples, were there   *)
(* any, one would be least (LeastNat).                                     *)
(***************************************************************************)
EXTENDS Checkout, FiniteSetTheorems, SequenceTheorems, WellFoundedInduction, TLAPS

LEMMA LeastNat ==
  ASSUME NEW T, T \subseteq Nat, T # {}
  PROVE  \E x \in T : \A y \in T : x <= y
<1>1. PICK x \in T : \A y \in T : <<y, x>> \notin OpToRel(<, Nat)
  BY WFMin, NatLessThanWellFounded
<1>2. \A y \in T : <<y, x>> \in Nat \X Nat /\ <<y, x>>[1] = y /\ <<y, x>>[2] = x
  OBVIOUS
<1>3. \A y \in T : ~ (y < x)
  BY <1>1, <1>2 DEF OpToRel
<1>4. \A y \in T : x <= y
  BY <1>3
<1> QED
  BY <1>4

LEMMA MinIs ==
  ASSUME NEW T, T \subseteq Nat, T # {}
  PROVE  Min(T) \in T /\ \A y \in T : Min(T) <= y
  BY LeastNat DEF Min

-----------------------------------------------------------------------------
(* What a plan costs.                                                      *)

\* Of finitely many places, one has the highest priority.
LEMMA Highest ==
  ASSUME NEW n \in Nat, NEW w, \A i \in 1 .. n : w[i].priority \in Nat,
         NEW cs, cs \subseteq 1 .. n, cs # {}
  PROVE  \E i \in cs : \A j \in cs : w[j].priority <= w[i].priority
<1> DEFINE Has(k) == \E i \in cs : i <= k /\ \A j \in cs : j <= k => w[j].priority <= w[i].priority
           T == {k \in 0 .. n : (\E i \in cs : i <= k) /\ ~Has(k)}
<1>1. T = {}
  <2> SUFFICES ASSUME T # {} PROVE FALSE
    OBVIOUS
  <2>1. T \subseteq Nat
    OBVIOUS
  <2>2. PICK k \in T : \A l \in T : k <= l
    BY <2>1, LeastNat
  <2>3. PICK i \in cs : i <= k
    OBVIOUS
  <2>4. k - 1 \notin T /\ k - 1 \in 0 .. n /\ k \in 1 .. n
    <3>1. k \in 0 .. n /\ i \in 1 .. n
      OBVIOUS
    <3>2. k \in 1 .. n /\ k - 1 \in 0 .. n /\ ~(k <= k - 1)
      BY <2>3, <3>1
    <3> HIDE DEF T
    <3> QED
      BY <2>2, <3>2
  <2>5. CASE \E j \in cs : j <= k - 1
    <3>1. PICK m \in cs : m <= k - 1 /\ \A j \in cs : j <= k - 1 => w[j].priority <= w[m].priority
      BY <2>4, <2>5
    <3>2. CASE k \in cs /\ w[m].priority <= w[k].priority
      <4>1. \A j \in cs : j <= k => j = k \/ j <= k - 1
        BY <2>4
      <4>2. \A j \in cs : j <= k => w[j].priority <= w[k].priority
        BY <3>1, <3>2, <4>1, <2>4
      <4> QED
        BY <3>2, <4>2
    <3>3. CASE ~(k \in cs /\ w[m].priority <= w[k].priority)
      <4>1. \A j \in cs : j <= k => j = k \/ j <= k - 1
        BY <2>4
      <4>2. \A j \in cs : j <= k => w[j].priority <= w[m].priority
        BY <3>1, <3>3, <4>1, <2>4
      <4> QED
        BY <3>1, <4>2, <2>4
    <3> QED
      BY <3>2, <3>3
  <2>6. CASE ~ \E j \in cs : j <= k - 1
    <3>1. i = k /\ \A j \in cs : j <= k => j = k
      BY <2>3, <2>4, <2>6
    <3> QED
      BY <2>4, <3>1
  <2> QED
    BY <2>5, <2>6
<1>2. Has(n)
  <2>1. PICK i \in cs : i \in 1 .. n
    OBVIOUS
  <2>2. n \in 0 .. n /\ i <= n
    BY <2>1
  <2> HIDE DEF Has
  <2> QED
    BY <1>1, <2>2
<1> QED
  BY <1>2

LEMMA RoundIs ==
  ASSUME NEW e \in Int
  PROVE  /\ NotNegative((e + 50) \div 100) \in Nat
         /\ e <= 0 => NotNegative((e + 50) \div 100) = 0
         /\ e > 0 => /\ 100 * NotNegative((e + 50) \div 100) - 50 <= e
                     /\ e <= 100 * NotNegative((e + 50) \div 100) + 50
  BY DEF NotNegative

LEMMA DiscountIs ==
  ASSUME NEW cost \in Nat, NEW p, p.type \in {"PERCENT", "FIXED"}, p.value \in Nat
  PROVE  ApplyPromo(cost, p) \in Nat /\ IsDiscount(ApplyPromo(cost, p), cost, p)
<1>1. CASE p.type = "PERCENT"
  <2> DEFINE e == cost * (100 - p.value)
  <2>1. e \in Int
    OBVIOUS
  <2>2. ApplyPromo(cost, p) = NotNegative((e + 50) \div 100)
    BY <1>1 DEF ApplyPromo
  <2> HIDE DEF e
  <2>3. ApplyPromo(cost, p) \in Nat
    BY <2>1, <2>2, RoundIs
  <2>4. /\ e <= 0 => ApplyPromo(cost, p) = 0
        /\ e > 0 => /\ 100 * ApplyPromo(cost, p) - 50 <= e
                    /\ e <= 100 * ApplyPromo(cost, p) + 50
    BY <2>1, <2>2, RoundIs
  <2>5. IF e <= 0 THEN ApplyPromo(cost, p) = 0
        ELSE 100 * ApplyPromo(cost, p) - 50 <= e /\ e <= 100 * ApplyPromo(cost, p) + 50
    BY <2>1, <2>4
  <2>6. IsNearest(ApplyPromo(cost, p), cost, p.value)
    BY <2>5 DEF IsNearest, e
  <2> QED
    BY <1>1, <2>3, <2>6 DEF IsDiscount
<1>2. CASE p.type = "FIXED"
  BY <1>2 DEF ApplyPromo, NotNegative, IsDiscount
<1> QED
  BY <1>1, <1>2

LEMMA CandidatesCount ==
  ASSUME NEW ps \in Seq(Promotion(Models, Features)), NEW plan, NEW t \in Nat
  PROVE  Candidates(plan, ps, t) = {i \in DOMAIN ps : Counts(ps[i], plan, t)}
<1> SUFFICES ASSUME NEW i \in DOMAIN ps
             PROVE  IsPromoActive(ps[i], t) /\ AppliesTo(ps[i], plan) <=> Counts(ps[i], plan, t)
  BY DEF Candidates
<1>1. ps[i] \in Promotion(Models, Features)
  OBVIOUS
<1>2. /\ ps[i].startAt \in Nat /\ ps[i].endAt \in Nat
      /\ ps[i].appliesTo \in {"GLOBAL", "FEATURE", "PLAN_MODELS"}
  BY <1>1 DEF Promotion
<1>3. t \in ps[i].startAt .. ps[i].endAt <=> ps[i].startAt <= t /\ t <= ps[i].endAt
  BY <1>2
<1> QED
  BY <1>2, <1>3 DEF IsPromoActive, AppliesTo, Counts

\* The promotion that is taken is a foremost one.
LEMMA BestPromoIs ==
  ASSUME NEW ps \in Seq(Promotion(Models, Features)), NEW plan, NEW t,
         Candidates(plan, ps, t) # {}
  PROVE  \E i \in Foremost(plan, ps, t) : BestPromo(plan, ps, t) = ps[i]
<1> DEFINE cs == Candidates(plan, ps, t)
           fs == Foremost(plan, ps, t)
<1>1. Len(ps) \in Nat /\ DOMAIN ps = 1 .. Len(ps) /\ cs \subseteq 1 .. Len(ps)
  BY DEF Candidates
<1>2. \A i \in 1 .. Len(ps) : ps[i].priority \in Nat
  <2>1. \A i \in 1 .. Len(ps) : ps[i] \in Promotion(Models, Features)
    BY <1>1
  <2> QED
    BY <2>1 DEF Promotion
<1>3. \E i \in cs : \A j \in cs : ps[j].priority <= ps[i].priority
  BY <1>1, <1>2, Highest
<1>4. fs # {} /\ fs \subseteq Nat
  BY <1>1, <1>3 DEF Foremost
<1>5. Min(fs) \in fs
  BY <1>4, MinIs
<1> QED
  BY <1>5 DEF BestPromo

\* FinalPrice computes an offer (bestPromoForPlan, applyPromo).
LEMMA FinalPriceIs ==
  ASSUME NEW ps \in Seq(Promotion(Models, Features)), NEW plan \in Plan, NEW t \in Nat
  PROVE  FinalPrice(plan, ps, t) \in Nat /\ IsOffer(FinalPrice(plan, ps, t), plan, ps, t)
<1> DEFINE cs == Candidates(plan, ps, t)
           counting == {ps[i] : i \in {j \in DOMAIN ps : Counts(ps[j], plan, t)}}
<1>1. plan.costInCents \in Nat
  BY DEF Plan, SubscriptionPlan
<1>2. counting = {ps[i] : i \in cs}
  BY CandidatesCount
<1>3. CASE cs = {}
  BY <1>1, <1>2, <1>3 DEF FinalPrice, IsOffer
<1>4. CASE cs # {}
  <2>1. PICK i \in Foremost(plan, ps, t) : BestPromo(plan, ps, t) = ps[i]
    BY <1>4, BestPromoIs
  <2>2. i \in cs /\ \A j \in cs : ps[j].priority <= ps[i].priority
    BY DEF Foremost
  <2>3. ps[i] \in Promotion(Models, Features) /\ \A j \in cs : ps[j] \in Promotion(Models, Features)
    BY <2>2 DEF Candidates
  <2>4. ps[i].type \in {"PERCENT", "FIXED"} /\ ps[i].value \in Nat
          /\ \A j \in cs : ps[j].priority \in Nat
    BY <2>3 DEF Promotion
  <2>5. FinalPrice(plan, ps, t) = ApplyPromo(plan.costInCents, ps[i])
    BY <1>4, <2>1 DEF FinalPrice
  <2>6. /\ FinalPrice(plan, ps, t) \in Nat
        /\ IsDiscount(FinalPrice(plan, ps, t), plan.costInCents, ps[i])
    BY <1>1, <2>4, <2>5, DiscountIs
  <2>7. ps[i] \in counting /\ ~ \E q \in counting : q.priority > ps[i].priority
    <3> HIDE DEF cs, counting
    <3> QED
      BY <1>2, <2>2, <2>4
  <2>8. counting # {}
    BY <2>7
  <2> HIDE DEF cs
  <2> QED
    BY <2>6, <2>7, <2>8 DEF IsOffer
<1> QED
  BY <1>3, <1>4

\* Where at most one promotion is foremost, the order of the collection is nothing to
\* the price.
LEMMA PriceIgnoresOrder ==
  ASSUME NEW ps \in Seq(Promotion(Models, Features)), NEW plan, NEW t,
         Cardinality(Foremost(plan, ps, t)) <= 1,
         NEW f \in Bijection(DOMAIN ps, DOMAIN ps)
  PROVE  FinalPrice(plan, [i \in DOMAIN ps |-> ps[f[i]]], t) = FinalPrice(plan, ps, t)
<1> DEFINE D == DOMAIN ps
           qs == [i \in D |-> ps[f[i]]]
           cs == Candidates(plan, ps, t)
           fs == Foremost(plan, ps, t)
<1>1. f \in [D -> D] /\ \A w \in D : \E v \in D : f[v] = w
  BY DEF Bijection, Injection, Surjection
<1>2. D = 1 .. Len(ps) /\ Len(ps) \in Nat
  OBVIOUS
<1>3. qs \in Seq(Promotion(Models, Features)) /\ DOMAIN qs = D
  BY <1>1, <1>2
<1>4. \A i \in D : i \in Candidates(plan, qs, t) <=> f[i] \in cs
  BY <1>1, <1>3 DEF Candidates
<1>5. cs \subseteq D /\ Candidates(plan, qs, t) \subseteq D
  BY <1>3 DEF Candidates
<1>6. CASE cs = {}
  BY <1>4, <1>5, <1>6 DEF FinalPrice
<1>7. CASE cs # {}
  <2>1. Candidates(plan, qs, t) # {}
    <3>1. PICK k \in cs : k \in D
      BY <1>5, <1>7
    <3>2. PICK v \in D : f[v] = k
      BY <1>1, <3>1
    <3>3. v \in Candidates(plan, qs, t)
      <4> HIDE DEF qs, cs, D
      <4> QED
        BY <1>4, <3>1, <3>2
    <3> QED
      BY <3>3
  <2>2. PICK i \in fs : BestPromo(plan, ps, t) = ps[i]
    BY <1>7, BestPromoIs
  <2>3. PICK j \in Foremost(plan, qs, t) : BestPromo(plan, qs, t) = qs[j]
    <3> HIDE DEF qs
    <3> QED
      BY <1>3, <2>1, BestPromoIs
  <2>4. f[j] \in fs /\ j \in D
    <3>1. j \in D /\ f[j] \in cs
      BY <1>4, <1>5 DEF Foremost
    <3>2. ASSUME NEW k \in cs
          PROVE  ps[k].priority <= ps[f[j]].priority
      <4>1. PICK v \in D : f[v] = k
        BY <1>1, <1>5
      <4>2. qs[v].priority <= qs[j].priority
        BY <1>4, <4>1 DEF Foremost
      <4> QED
        BY <3>1, <4>1, <4>2
    <3> QED
      BY <3>1, <3>2 DEF Foremost
  <2>5. IsFiniteSet(fs)
    <3>1. IsFiniteSet(D) /\ fs \in SUBSET D
      BY <1>2, <1>5, FS_Interval DEF Foremost
    <3> HIDE DEF D, fs
    <3> QED
      BY <3>1, FS_Subset
  <2>6. f[j] = i
    <3>1. Cardinality(fs) \in Nat /\ Cardinality(fs) # 0
      BY <2>2, <2>5, FS_CardinalityType, FS_EmptySet
    <3>2. Cardinality(fs) = 1
      BY <3>1
    <3>3. \E x : fs = {x}
      BY <2>5, <3>2, FS_Singleton
    <3> QED
      BY <2>2, <2>4, <3>3
  <2>7. BestPromo(plan, qs, t) = BestPromo(plan, ps, t)
    BY <2>2, <2>3, <2>4, <2>6
  <2> QED
    BY <1>7, <2>1, <2>7 DEF FinalPrice
<1> QED
  BY <1>6, <1>7

-----------------------------------------------------------------------------
(* What a cart costs.                                                      *)

OneOf(s) == CHOOSE i \in s : TRUE

\* How the sum of a cart goes on from one set of items to a smaller one, up to sets
\* of n of them.
Up(cart, n) == {s \in SUBSET (DOMAIN cart) : Cardinality(s) <= n}
SumsUp(cart, n, f) ==
  f = [s \in Up(cart, n) |-> IF s = {} THEN 0 ELSE f[s \ {OneOf(s)}] + cart[OneOf(s)].price]
Sums(cart) ==
  CHOOSE f : f = [s \in SUBSET (DOMAIN cart) |->
                    IF s = {} THEN 0 ELSE f[s \ {OneOf(s)}] + cart[OneOf(s)].price]

\* The fold of Total is that sum.
LEMMA TotalIs ==
  ASSUME NEW cart
  PROVE  Total(cart) = Sums(cart)[DOMAIN cart]
  BY DEF Total, FoldSeq, FoldFunction, FoldFunctionOnSet, MapThenFoldSet, Sums, OneOf

LEMMA ItemsAre ==
  ASSUME NEW cart \in Seq(Quote), NEW s \in SUBSET (DOMAIN cart)
  PROVE  /\ IsFiniteSet(s) /\ Cardinality(s) \in Nat
         /\ s # {} => /\ OneOf(s) \in s /\ OneOf(s) \in DOMAIN cart /\ s \ {OneOf(s)} \in SUBSET (DOMAIN cart)
                      /\ Cardinality(s \ {OneOf(s)}) = Cardinality(s) - 1
                      /\ Cardinality(s) # 0
                      /\ cart[OneOf(s)].price \in Nat
<1>1. IsFiniteSet(s)
  <2>1. Len(cart) \in Nat /\ DOMAIN cart = 1 .. Len(cart)
    OBVIOUS
  <2>2. IsFiniteSet(DOMAIN cart)
    BY <2>1, FS_Interval
  <2> QED
    BY <2>2, FS_Subset
<1>2. Cardinality(s) \in Nat
  BY <1>1, FS_CardinalityType
<1>3. ASSUME s # {}
      PROVE  /\ OneOf(s) \in s /\ OneOf(s) \in DOMAIN cart /\ s \ {OneOf(s)} \in SUBSET (DOMAIN cart)
             /\ Cardinality(s \ {OneOf(s)}) = Cardinality(s) - 1
             /\ Cardinality(s) # 0
             /\ cart[OneOf(s)].price \in Nat
  <2>1. OneOf(s) \in s
    BY <1>3 DEF OneOf
  <2>2. cart[OneOf(s)] \in Quote
    BY <2>1
  <2> QED
    BY <1>1, <1>3, <2>1, <2>2, FS_RemoveElement, FS_EmptySet DEF Quote
<1> QED
  BY <1>1, <1>2, <1>3

LEMMA SumsExist ==
  ASSUME NEW cart \in Seq(Quote), NEW n \in Nat
  PROVE  \E f : SumsUp(cart, n, f)
<1> DEFINE T == {k \in Nat : ~ \E f : SumsUp(cart, k, f)}
<1> SUFFICES ASSUME T # {} PROVE FALSE
  OBVIOUS
<1>1. PICK k \in T : \A l \in T : k <= l
  BY LeastNat
<1>2. CASE k = 0
  <2> DEFINE f == [s \in Up(cart, 0) |-> 0]
  <2>1. \A s \in Up(cart, 0) : s = {}
    <3> SUFFICES ASSUME NEW s \in Up(cart, 0) PROVE s = {}
      OBVIOUS
    <3>1. s \in SUBSET (DOMAIN cart) /\ Cardinality(s) <= 0
      BY DEF Up
    <3>2. IsFiniteSet(s) /\ Cardinality(s) \in Nat
      BY <3>1, ItemsAre
    <3>3. Cardinality(s) = 0
      BY <3>1, <3>2
    <3> QED
      BY <3>2, <3>3, FS_EmptySet
  <2>2. SumsUp(cart, 0, f)
    BY <2>1 DEF SumsUp
  <2> QED
    BY <1>2, <2>2
<1>3. CASE k # 0
  <2>1. k - 1 \in Nat /\ k - 1 \notin T
    BY <1>1, <1>3
  <2>2. PICK g : SumsUp(cart, k - 1, g)
    BY <2>1
  <2> DEFINE f == [s \in Up(cart, k) |->
                     IF s = {} THEN 0 ELSE g[s \ {OneOf(s)}] + cart[OneOf(s)].price]
  <2>3. ASSUME NEW s \in Up(cart, k), s # {}
        PROVE  f[s \ {OneOf(s)}] = g[s \ {OneOf(s)}]
    <3> DEFINE r == s \ {OneOf(s)}
    <3>1. r \in Up(cart, k - 1) /\ r \in Up(cart, k)
      BY <2>3, ItemsAre DEF Up
    <3>2. g[r] = IF r = {} THEN 0 ELSE g[r \ {OneOf(r)}] + cart[OneOf(r)].price
      BY <2>2, <3>1 DEF SumsUp
    <3> QED
      BY <3>1, <3>2
  <2>4. SumsUp(cart, k, f)
    BY <2>3 DEF SumsUp
  <2> QED
    BY <2>4
<1> QED
  BY <1>2, <1>3

LEMMA SumsAre ==
  ASSUME NEW cart \in Seq(Quote), NEW s \in SUBSET (DOMAIN cart)
  PROVE  Sums(cart)[s] = IF s = {} THEN 0 ELSE Sums(cart)[s \ {OneOf(s)}] + cart[OneOf(s)].price
<1> DEFINE D == DOMAIN cart
<1>1. IsFiniteSet(D) /\ Cardinality(D) \in Nat
  BY ItemsAre
<1>2. Up(cart, Cardinality(D)) = SUBSET D
  BY <1>1, FS_Subset DEF Up
<1>3. PICK f : SumsUp(cart, Cardinality(D), f)
  BY <1>1, SumsExist
<1>4. f = [r \in SUBSET D |-> IF r = {} THEN 0 ELSE f[r \ {OneOf(r)}] + cart[OneOf(r)].price]
  BY <1>2, <1>3 DEF SumsUp
<1>5. Sums(cart) = [r \in SUBSET D |->
                      IF r = {} THEN 0 ELSE Sums(cart)[r \ {OneOf(r)}] + cart[OneOf(r)].price]
  BY <1>4 DEF Sums
<1> QED
  BY <1>5

\* No item costs more than the whole (euroTotal, orders.controller.ts:86).
LEMMA TotalBounds ==
  ASSUME NEW cart \in Seq(Quote)
  PROVE  /\ Total(cart) \in Nat
         /\ \A i \in DOMAIN cart : cart[i].price <= Total(cart)
<1> DEFINE D == DOMAIN cart
           Fine(s) == Sums(cart)[s] \in Nat /\ \A i \in s : cart[i].price <= Sums(cart)[s]
           T == {Cardinality(s) : s \in {r \in SUBSET D : ~Fine(r)}}
<1>1. T = {}
  <2> SUFFICES ASSUME T # {} PROVE FALSE
    OBVIOUS
  <2>1. T \subseteq Nat
    BY ItemsAre
  <2>2. PICK k \in T : \A l \in T : k <= l
    BY <2>1, LeastNat
  <2>3. PICK s \in SUBSET D : ~Fine(s) /\ k = Cardinality(s)
    OBVIOUS
  <2>4. CASE s = {}
    <3>1. {} \in SUBSET D
      OBVIOUS
    <3>2. Sums(cart)[{}] = 0
      BY <3>1, SumsAre
    <3> QED
      BY <2>3, <2>4, <3>2
  <2>5. CASE s # {}
    <3> DEFINE i == OneOf(s)
               r == s \ {i}
    <3>1. /\ i \in s /\ r \in SUBSET D /\ Cardinality(r) = Cardinality(s) - 1
          /\ Cardinality(s) \in Nat /\ cart[i].price \in Nat
      BY <2>5, ItemsAre
    <3>2. Sums(cart)[s] = Sums(cart)[r] + cart[i].price
      BY <2>5, SumsAre
    <3>3. Fine(r)
      <4>1. ~(k <= Cardinality(r))
        BY <2>3, <3>1
      <4> HIDE DEF Fine, r
      <4> QED
        BY <2>2, <3>1, <4>1
    <3>4. \A j \in s : cart[j].price \in Nat /\ (j = i \/ j \in r)
      <4>1. \A j \in D : cart[j] \in Quote
        OBVIOUS
      <4> QED
        BY <4>1 DEF Quote
    <3>5. Fine(s)
      <4> HIDE DEF i, r
      <4> QED
        BY <3>1, <3>2, <3>3, <3>4
    <3> QED
      BY <2>3, <3>5
  <2> QED
    BY <2>4, <2>5
<1>2. Fine(D)
  BY <1>1
<1> QED
  BY <1>2, TotalIs

-----------------------------------------------------------------------------
(* The invariant.  The log and the clock are parameters of what is said of a *)
(* quote and of a call, since it outlives the step that made it so.         *)

Catalog == [Models -> Plan \cup {NoPlan}]
Deals == Seq(Promotion(Models, Features))
Logs == [0 .. MaxTime -> SUBSET (Catalog \X Deals)]

During(L, from, at) == UNION {L[t] : t \in from .. at}

\* What was priced came of collections that were in force then.
Grounded(q, L, n) ==
  /\ q.from <= q.at /\ q.at <= n
  /\ \E c, d \in During(L, q.from, q.at) :
       /\ c[1][q.model] # NoPlan
       /\ q.days = DaysOf(c[1][q.model], q.path)
       /\ q.price = IF c[1][q.model].isTrial THEN 0
                    ELSE FinalPrice(c[1][q.model], d[2], q.at)

\* What a call has read was in force since it began to read.
HasRead(c, L, n) ==
  /\ "plans" \in c.got =>
       /\ c.plans \in [Asked(c) -> Plan \cup {NoPlan}]
       /\ \E k \in During(L, c.from, n) : \A m \in Asked(c) : c.plans[m] = k[1][m]
       /\ c.path # "shown" => c.plans[Head(c.todo)] # NoPlan
  /\ "promos" \in c.got => \E k \in During(L, c.from, n) : c.promos = k[2]

CallOK(c, L, n) ==
  /\ c.from <= n
  /\ c.pc = "read" => HasRead(c, L, n)
  /\ c.pc = "read" /\ c.path # "shown" => c.todo # <<>> /\ c.order \in Orders
  /\ c.pc = "save" => c.path # "shown" /\ c.cart # <<>> /\ c.order \in Orders
  /\ \A i \in DOMAIN c.cart :
       Grounded(c.cart[i], L, n) /\ (c.path = "ordered" => c.cart[i].price > 0)

Calls ==
  [path : Paths, pc : {"idle", "read", "save"}, order : Orders \cup {0}, item : Nat,
   todo : Seq(Models), cart : Seq(Quote), got : SUBSET {"plans", "promos"},
   plans : {<<>>} \cup UNION {[s -> Plan \cup {NoPlan}] : s \in SUBSET Models},
   promos : Deals, from : Nat]

TypeInv ==
  /\ now \in 0 .. MaxTime
  /\ plans \in Catalog /\ promos \in Deals
  /\ edits \in 0 .. MaxEdits
  /\ shown \in SUBSET Quote
  /\ orders \in [Orders -> [cart : Seq(Quote), euroTotal : Nat]]
  /\ subs \in SUBSET [order : Orders, item : Nat, quote : Quote]
  /\ call \in [Handlers -> Calls]

\* The log says what was in force at every clock reading so far.
LogInv ==
  /\ log \in Logs
  /\ \A t \in 0 .. MaxTime : IsFiniteSet(log[t]) /\ (t <= now <=> log[t] # {})
  /\ <<plans, promos>> \in log[now]

Sold(os) ==
  \A o \in Orders : \A i \in DOMAIN os[o].cart :
    os[o].cart[i].price > 0 /\ os[o].cart[i].price <= os[o].euroTotal

IInv ==
  /\ TypeInv /\ LogInv
  /\ \A q \in Quotes : Grounded(q, log, now)
  /\ Sold(orders)
  /\ \A h \in Handlers : CallOK(call[h], log, now)

-----------------------------------------------------------------------------
(* The log only grows.                                                     *)

Grows(L, n, M, k) ==
  L \in Logs /\ M \in Logs /\ n \in 0 .. MaxTime /\ k \in 0 .. MaxTime /\ n <= k
    /\ \A t \in 0 .. MaxTime : L[t] \subseteq M[t]

LEMMA DuringGrows ==
  ASSUME NEW L, NEW n, NEW M, NEW k, Grows(L, n, M, k),
         NEW from \in Nat, NEW at \in Nat, NEW to \in Nat, at <= to, to <= k
  PROVE  During(L, from, at) \subseteq During(M, from, to)
<1> SUFFICES ASSUME NEW x \in During(L, from, at) PROVE x \in During(M, from, to)
  OBVIOUS
<1>1. PICK t \in from .. at : x \in L[t]
  BY DEF During
<1>2. t \in 0 .. MaxTime /\ t \in from .. to
  BY <1>1, BoundsAssumption DEF Grows
<1>3. x \in M[t]
  BY <1>1, <1>2 DEF Grows
<1> QED
  BY <1>2, <1>3 DEF During

LEMMA GroundedStays ==
  ASSUME NEW L, NEW n, NEW M, NEW k, Grows(L, n, M, k), NEW q \in Quote, Grounded(q, L, n)
  PROVE  Grounded(q, M, k)
<1>1. q.from \in Nat /\ q.at \in Nat /\ n \in Nat /\ k \in Nat /\ n <= k /\ q.at <= n
  BY BoundsAssumption DEF Quote, Grounded, Grows
<1>2. q.at <= k
  BY <1>1
<1>3. During(L, q.from, q.at) \subseteq During(M, q.from, q.at)
  BY <1>1, <1>2, DuringGrows
<1> QED
  BY <1>2, <1>3 DEF Grounded

LEMMA CallStays ==
  ASSUME NEW L, NEW n, NEW M, NEW k, Grows(L, n, M, k), NEW c \in Calls, CallOK(c, L, n)
  PROVE  CallOK(c, M, k)
<1>1. c.from \in Nat /\ n \in Nat /\ k \in Nat /\ n <= k /\ c.from <= n
  BY BoundsAssumption DEF Calls, CallOK, Grows
<1>2. c.from <= k
  BY <1>1
<1>3. During(L, c.from, n) \subseteq During(M, c.from, k)
  BY <1>1, DuringGrows
<1>4. HasRead(c, L, n) => HasRead(c, M, k)
  BY <1>3 DEF HasRead
<1>5. ASSUME NEW i \in DOMAIN c.cart
      PROVE  Grounded(c.cart[i], M, k) /\ (c.path = "ordered" => c.cart[i].price > 0)
  <2>1. c.cart \in Seq(Quote)
    BY DEF Calls
  <2>2. c.cart[i] \in Quote
    BY <2>1
  <2>3. Grounded(c.cart[i], L, n) /\ (c.path = "ordered" => c.cart[i].price > 0)
    BY DEF CallOK
  <2> QED
    BY <2>2, <2>3, GroundedStays
<1> QED
  BY <1>2, <1>4, <1>5 DEF CallOK

\* What the program sold and recorded.
LEMMA QuotesAre ==
  ASSUME TypeInv
  PROVE  /\ Quotes \subseteq Quote
         /\ \A o \in Orders : \A i \in DOMAIN orders[o].cart :
              orders[o].cart[i] \in Quotes /\ orders[o].cart[i] \in Quote
<1>1. ASSUME NEW o \in Orders PROVE orders[o].cart \in Seq(Quote)
  BY DEF TypeInv
<1>2. ASSUME NEW o \in Orders, NEW i \in DOMAIN orders[o].cart
      PROVE  orders[o].cart[i] \in Quote /\ orders[o].cart[i] \in ToSet(orders[o].cart)
  BY <1>1 DEF ToSet
<1>3. ASSUME NEW o \in Orders, NEW q \in ToSet(orders[o].cart)
      PROVE  q \in Quote
  BY <1>1, <1>3 DEF ToSet
<1>4. ASSUME NEW s \in subs PROVE s.quote \in Quote
  <2>1. s \in [order : Orders, item : Nat, quote : Quote]
    BY DEF TypeInv
  <2> QED
    BY <2>1
<1>5. shown \subseteq Quote
  BY DEF TypeInv
<1>6. Quotes \subseteq Quote
  <2> SUFFICES ASSUME NEW q \in Quotes PROVE q \in Quote
    OBVIOUS
  <2>1. ASSUME q \in UNION {ToSet(orders[o].cart) : o \in Orders}
        PROVE  q \in Quote
    <3>1. PICK o \in Orders : q \in ToSet(orders[o].cart)
      BY <2>1
    <3> QED
      BY <1>3, <3>1
  <2>2. CASE q \in {s.quote : s \in subs}
    BY <1>4, <2>2
  <2> QED
    BY <1>5, <2>1, <2>2 DEF Quotes
<1>7. \A o \in Orders : ToSet(orders[o].cart) \subseteq Quotes
  BY DEF Quotes
<1> QED
  BY <1>2, <1>6, <1>7

-----------------------------------------------------------------------------
(* What the steps do to it.                                                *)

LEMMA NowIn ==
  ASSUME TypeInv, LogInv
  PROVE  /\ now \in Nat /\ now \in 0 .. MaxTime /\ now \in 0 .. now
         /\ Grows(log, now, log, now)
         /\ \A from \in 0 .. now : <<plans, promos>> \in During(log, from, now)
<1>1. now \in Nat /\ now \in 0 .. MaxTime /\ now \in 0 .. now
  BY BoundsAssumption DEF TypeInv
<1>2. Grows(log, now, log, now)
  BY <1>1 DEF Grows, LogInv
<1>3. ASSUME NEW from \in 0 .. now PROVE <<plans, promos>> \in During(log, from, now)
  <2>1. now \in from .. now
    BY <1>1
  <2> QED
    BY <2>1 DEF During, LogInv
<1> QED
  BY <1>1, <1>2, <1>3

LEMMA IdleOK ==
  ASSUME NEW n \in Nat, NEW L
  PROVE  Idle \in Calls /\ CallOK(Idle, L, n)
<1>1. Idle \in Calls
  <2>1. <<>> \in Seq(Quote) /\ <<>> \in Seq(Models) /\ <<>> \in Deals
    BY DEF Deals
  <2>2. 0 \in Orders \cup {0} /\ 0 \in Nat /\ {} \in SUBSET {"plans", "promos"}
          /\ "shown" \in Paths
    BY DEF Paths
  <2> QED
    BY <2>1, <2>2 DEF Idle, Calls
<1>2. Idle.from = 0 /\ Idle.pc = "idle" /\ Idle.cart = <<>>
  BY DEF Idle
<1>3. DOMAIN Idle.cart = {}
  BY <1>2
<1> QED
  BY <1>1, <1>2, <1>3 DEF CallOK

LEMMA InitOK ==
  ASSUME Init PROVE IInv
<1>1. 0 \in 0 .. MaxTime /\ 0 \in 0 .. MaxEdits
  BY BoundsAssumption
<1>2. plans \in Catalog /\ promos \in Deals
  BY PriceListsAssumption, CollectionsAssumption DEF Init, Catalog, Deals
<1>3. Idle \in Calls /\ CallOK(Idle, log, now)
  BY IdleOK DEF Init
<1>4. TypeInv
  <2>1. NoOrder \in [cart : Seq(Quote), euroTotal : Nat]
    BY DEF NoOrder
  <2> HIDE DEF NoOrder, Idle
  <2> QED
    BY <1>1, <1>2, <1>3, <2>1 DEF Init, TypeInv
<1>5. LogInv
  <2>1. <<plans, promos>> \in Catalog \X Deals
    BY <1>2
  <2>2. \A t \in 0 .. MaxTime : t <= 0 <=> t = 0
    BY BoundsAssumption
  <2>3. IsFiniteSet({<<plans, promos>>}) /\ IsFiniteSet({})
    BY FS_Singleton, FS_EmptySet
  <2>4. now = 0 /\ log = [t \in 0 .. MaxTime |-> IF t = 0 THEN {<<plans, promos>>} ELSE {}]
    BY DEF Init
  <2>5. log \in Logs
    BY <2>1, <2>4 DEF Logs
  <2> QED
    BY <1>1, <2>2, <2>3, <2>4, <2>5 DEF LogInv
<1>6. \A h \in Handlers : CallOK(call[h], log, now)
  BY <1>3 DEF Init
<1>7. Sold(orders) /\ \A q \in Quotes : Grounded(q, log, now)
  <2>1. \A o \in Orders : DOMAIN orders[o].cart = {}
    BY DEF Init, NoOrder
  <2>2. Quotes = {}
    BY <2>1 DEF Quotes, Init, ToSet, NoOrder
  <2> QED
    BY <2>1, <2>2 DEF Sold
<1> QED
  BY <1>4, <1>5, <1>6, <1>7 DEF IInv

\* A step of the administrator or of the clock.
LEMMA LogStep ==
  ASSUME IInv, UNCHANGED <<storeVars, call>>,
         now' \in 0 .. MaxTime, plans' \in Catalog, promos' \in Deals, edits' \in 0 .. MaxEdits,
         LogInv', Grows(log, now, log', now')
  PROVE  IInv'
<1>1. TypeInv'
  BY DEF IInv, TypeInv, storeVars
<1>2. Quotes' = Quotes /\ Sold(orders')
  BY DEF IInv, Quotes, storeVars
<1>3. ASSUME NEW q \in Quotes PROVE Grounded(q, log', now')
  <2>1. q \in Quote /\ Grounded(q, log, now)
    BY <1>3, QuotesAre DEF IInv
  <2> QED
    BY <2>1, GroundedStays
<1>4. ASSUME NEW h \in Handlers PROVE CallOK(call'[h], log', now')
  <2>1. call' = call /\ call[h] \in Calls /\ CallOK(call[h], log, now)
    BY DEF storeVars, IInv, TypeInv
  <2> QED
    BY <2>1, CallStays
<1> QED
  BY <1>1, <1>2, <1>3, <1>4 DEF IInv

LEMMA EditKeeps ==
  ASSUME IInv, NEW ps \in Catalog, NEW qs \in Deals, Edit(ps, qs)
  PROVE  IInv'
<1> DEFINE k == <<ps, qs>>
<1>1. /\ now' = now /\ plans' = ps /\ promos' = qs /\ edits' = edits + 1 /\ edits < MaxEdits
      /\ log' = [log EXCEPT ![now] = @ \cup {k}]
      /\ UNCHANGED <<storeVars, call>>
  BY DEF Edit
<1>2. now \in Nat /\ now \in 0 .. MaxTime /\ log \in Logs /\ k \in Catalog \X Deals
        /\ edits \in 0 .. MaxEdits
  BY NowIn DEF IInv, TypeInv, LogInv
<1>3. edits' \in 0 .. MaxEdits
  BY <1>1, <1>2, BoundsAssumption
<1>4. /\ log' \in Logs
      /\ \A t \in 0 .. MaxTime : log'[t] = IF t = now THEN log[t] \cup {k} ELSE log[t]
  <2> HIDE DEF k
  <2> QED
    BY <1>1, <1>2 DEF Logs
<1>5. LogInv'
  <2>1. ASSUME NEW t \in 0 .. MaxTime
        PROVE  IsFiniteSet(log'[t]) /\ (t <= now' <=> log'[t] # {})
    <3>1. IsFiniteSet(log[t]) /\ (t <= now <=> log[t] # {})
      BY DEF IInv, LogInv
    <3>2. IsFiniteSet(log[t] \cup {k})
      BY <3>1, FS_AddElement
    <3>3. t = now => t <= now
      BY <1>2
    <3> HIDE DEF k
    <3> QED
      BY <1>1, <1>4, <3>1, <3>2, <3>3
  <2>2. <<plans', promos'>> \in log'[now']
    BY <1>1, <1>2, <1>4
  <2> QED
    BY <1>4, <2>1, <2>2 DEF LogInv
<1>6. Grows(log, now, log', now')
  BY <1>1, <1>2, <1>4 DEF Grows
<1> HIDE DEF k
<1> QED
  BY <1>1, <1>2, <1>3, <1>5, <1>6, LogStep

LEMMA TickKeeps ==
  ASSUME IInv, Tick
  PROVE  IInv'
<1> DEFINE k == <<plans, promos>>
<1>1. /\ now < MaxTime /\ now' = now + 1 /\ plans' = plans /\ promos' = promos /\ edits' = edits
      /\ log' = [log EXCEPT ![now + 1] = {k}]
      /\ UNCHANGED <<storeVars, call>>
  BY DEF Tick
<1>2. now \in Nat /\ now \in 0 .. MaxTime /\ log \in Logs /\ k \in Catalog \X Deals
        /\ edits \in 0 .. MaxEdits /\ plans \in Catalog /\ promos \in Deals
  BY NowIn DEF IInv, TypeInv, LogInv
<1>3. now + 1 \in 0 .. MaxTime /\ now <= now + 1
  BY <1>1, <1>2, BoundsAssumption
<1>4. /\ log' \in Logs
      /\ \A t \in 0 .. MaxTime : log'[t] = IF t = now + 1 THEN {k} ELSE log[t]
  <2> HIDE DEF k
  <2> QED
    BY <1>1, <1>2, <1>3 DEF Logs
<1>5. LogInv'
  <2>1. ASSUME NEW t \in 0 .. MaxTime
        PROVE  IsFiniteSet(log'[t]) /\ (t <= now' <=> log'[t] # {})
    <3>1. IsFiniteSet(log[t]) /\ (t <= now <=> log[t] # {})
      BY DEF IInv, LogInv
    <3>2. IsFiniteSet({k})
      BY FS_Singleton
    <3>3. t <= now + 1 <=> t = now + 1 \/ t <= now
      BY <1>2
    <3> HIDE DEF k
    <3> QED
      BY <1>1, <1>4, <3>1, <3>2, <3>3
  <2>2. <<plans', promos'>> \in log'[now']
    BY <1>1, <1>3, <1>4
  <2> QED
    BY <1>4, <2>1, <2>2 DEF LogInv
<1>6. Grows(log, now, log', now')
  <2>1. \A t \in 0 .. MaxTime : log[t] \subseteq log'[t]
    <3> SUFFICES ASSUME NEW t \in 0 .. MaxTime PROVE log[t] \subseteq log'[t]
      OBVIOUS
    <3>1. t = now + 1 => log[t] = {}
      BY <1>2 DEF IInv, LogInv
    <3> HIDE DEF k
    <3> QED
      BY <1>4, <3>1
  <2> QED
    BY <1>1, <1>2, <1>3, <1>4, <2>1 DEF Grows
<1> QED
  BY <1>1, <1>2, <1>3, <1>5, <1>6, LogStep

\* A step of a call that leaves what was shown, sold and recorded alone.
LEMMA CallStep ==
  ASSUME IInv, NEW h \in Handlers, NEW c \in Calls, CallOK(c, log, now), Become(h, c), Keep
  PROVE  IInv'
<1>1. /\ now' = now /\ plans' = plans /\ promos' = promos /\ log' = log /\ edits' = edits
      /\ orders' = orders /\ subs' = subs /\ shown' = shown
      /\ call' = [call EXCEPT ![h] = c]
  BY DEF Keep, Become, catalogVars, storeVars
<1>2. TypeInv'
  BY <1>1 DEF IInv, TypeInv
<1>3. LogInv'
  BY <1>1 DEF IInv, LogInv
<1>4. Quotes' = Quotes
  BY <1>1 DEF Quotes
<1>5. ASSUME NEW g \in Handlers PROVE CallOK(call'[g], log', now')
  <2>1. call'[g] = c \/ call'[g] = call[g]
    BY <1>1 DEF IInv, TypeInv
  <2> QED
    BY <1>1, <2>1 DEF IInv
<1> QED
  BY <1>1, <1>2, <1>3, <1>4, <1>5 DEF IInv

-----------------------------------------------------------------------------
(* The steps of a call.                                                    *)

LEMMA CallFields ==
  ASSUME IInv, NEW h \in Handlers
  PROVE  /\ call[h] \in Calls /\ CallOK(call[h], log, now)
         /\ call[h].path \in Paths /\ call[h].pc \in {"idle", "read", "save"}
         /\ call[h].order \in Orders \cup {0} /\ call[h].item \in Nat
         /\ call[h].todo \in Seq(Models) /\ call[h].cart \in Seq(Quote)
         /\ call[h].got \in SUBSET {"plans", "promos"} /\ call[h].promos \in Deals
         /\ call[h].from \in Nat
<1>1. call[h] \in Calls /\ CallOK(call[h], log, now)
  BY DEF IInv, TypeInv
<1> HIDE DEF CallOK
<1> QED
  BY <1>1 DEF Calls

LEMMA EndKeeps ==
  ASSUME IInv, NEW h \in Handlers, End(h), Keep
  PROVE  IInv'
<1>1. now \in Nat
  BY NowIn DEF IInv
<1>2. Idle \in Calls /\ CallOK(Idle, log, now) /\ Become(h, Idle)
  BY <1>1, IdleOK DEF End
<1> QED
  BY <1>2, CallStep

\* A call that turns to the first of the plans left, or to the price list.
LEMMA ReadingOK ==
  ASSUME IInv, NEW c \in Calls,
         c.path # "shown" => c.todo # <<>> /\ c.order \in Orders,
         \A i \in DOMAIN c.cart :
           Grounded(c.cart[i], log, now) /\ (c.path = "ordered" => c.cart[i].price > 0)
  PROVE  Reading(c) \in Calls /\ CallOK(Reading(c), log, now)
<1> DEFINE r == Reading(c)
<1>1. now \in Nat
  BY NowIn DEF IInv
<1>2. r \in Calls
  <2>1. <<>> \in Deals
    BY DEF Deals
  <2> QED
    BY <1>1, <2>1 DEF Calls, Reading
<1>3. /\ r.from = now /\ r.pc = "read" /\ r.got = {} /\ r.path = c.path /\ r.todo = c.todo
      /\ r.cart = c.cart /\ r.order = c.order
  BY DEF Reading, Calls
<1> HIDE DEF r
<1>4. HasRead(r, log, now)
  BY <1>3 DEF HasRead
<1>5. CallOK(r, log, now)
  BY <1>1, <1>3, <1>4 DEF CallOK
<1> QED
  BY <1>2, <1>5 DEF r

LEMMA BeginKeeps ==
  ASSUME IInv, NEW h \in Handlers, NEW c \in Calls, c.cart = <<>>, Begin(h, c),
         c.path # "shown" => c.todo # <<>> /\ c.order \in Orders
  PROVE  IInv'
<1>1. DOMAIN c.cart = {}
  OBVIOUS
<1>2. Reading(c) \in Calls /\ CallOK(Reading(c), log, now)
  BY <1>1, ReadingOK
<1>3. Become(h, Reading(c)) /\ Keep
  BY DEF Begin
<1> QED
  BY <1>2, <1>3, CallStep

LEMMA BeginLookKeeps ==
  ASSUME IInv, NEW h \in Handlers, BeginLook(h)
  PROVE  IInv'
<1>1. now \in Nat
  BY NowIn DEF IInv
<1>2. Idle \in Calls /\ Idle.cart = <<>> /\ Idle.path = "shown"
  BY <1>1, IdleOK DEF Idle
<1>3. Begin(h, Idle)
  BY DEF BeginLook
<1> QED
  BY <1>2, <1>3, BeginKeeps

LEMMA BeginOrderKeeps ==
  ASSUME IInv, NEW h \in Handlers, NEW o \in Orders, NEW cart \in Carts, BeginOrder(h, o, cart)
  PROVE  IInv'
<1> DEFINE c == [Idle EXCEPT !.path = "ordered", !.order = o, !.todo = cart]
<1>1. cart \in Seq(Models)
  <2>1. cart \in Seq(Models \cup {NamedTrial})
    BY CartsAssumption
  <2>2. NamedTrial \notin {cart[i] : i \in DOMAIN cart}
    BY DEF BeginOrder, ToSet
  <2>3. \A i \in 1 .. Len(cart) : cart[i] \in Models
    BY <2>1, <2>2
  <2> QED
    BY <2>1, <2>3
<1>2. Idle \in Calls
  BY NowIn, IdleOK DEF IInv
<1>3. c \in Calls
  BY <1>1, <1>2 DEF Calls, Paths
<1>4. c.cart = <<>> /\ c.todo = cart /\ c.order = o /\ c.path = "ordered"
  BY DEF Idle
<1>5. Begin(h, c) /\ cart # <<>>
  BY DEF BeginOrder
<1> HIDE DEF c
<1> QED
  BY <1>3, <1>4, <1>5, BeginKeeps

LEMMA BeginRecordKeeps ==
  ASSUME IInv, NEW h \in Handlers, NEW o \in Orders, NEW i \in DOMAIN orders[o].cart,
         BeginRecord(h, o, i)
  PROVE  IInv'
<1> DEFINE m == orders[o].cart[i].model
           c == [Idle EXCEPT !.path = "recorded", !.order = o, !.item = i, !.todo = <<m>>]
<1>1. m \in Models /\ i \in Nat
  <2>1. orders[o].cart \in Seq(Quote)
    BY DEF IInv, TypeInv
  <2>2. orders[o].cart[i] \in Quote /\ i \in Nat
    BY <2>1
  <2> QED
    BY <2>2 DEF Quote
<1>2. Idle \in Calls
  BY NowIn, IdleOK DEF IInv
<1> HIDE DEF m
<1>3. <<m>> \in Seq(Models) /\ <<m>> # <<>>
  BY <1>1
<1>4. c \in Calls
  BY <1>1, <1>2, <1>3 DEF Calls, Paths
<1>5. c.cart = <<>> /\ c.todo = <<m>> /\ c.order = o /\ c.path = "recorded"
  BY DEF Idle
<1>6. Begin(h, c)
  BY DEF BeginRecord, m
<1> HIDE DEF c
<1> QED
  BY <1>3, <1>4, <1>5, <1>6, BeginKeeps

LEMMA AskedAre ==
  ASSUME IInv, NEW h \in Handlers, call[h].pc = "read"
  PROVE  /\ Asked(call[h]) \subseteq Models
         /\ call[h].path = "shown" => Asked(call[h]) = Models
         /\ call[h].path # "shown" => /\ Head(call[h].todo) \in Asked(call[h])
                                      /\ call[h].todo # <<>>
                                      /\ Tail(call[h].todo) \in Seq(Models)
<1>1. call[h].todo \in Seq(Models) /\ (call[h].path # "shown" => call[h].todo # <<>>)
  BY CallFields DEF CallOK
<1>2. call[h].path # "shown" => /\ Head(call[h].todo) \in Models
                                /\ Tail(call[h].todo) \in Seq(Models)
  BY <1>1
<1> QED
  BY <1>1, <1>2 DEF Asked

LEMMA ReadPlansKeeps ==
  ASSUME IInv, NEW h \in Handlers, ReadPlans(h)
  PROVE  IInv'
<1> DEFINE c == call[h]
           d == [c EXCEPT !.plans = [m \in Asked(c) |-> plans[m]], !.got = @ \cup {"plans"}]
<1>1. c.pc = "read" /\ Keep
  BY DEF ReadPlans, At
<1>2. CASE c.path # "shown" /\ plans[Head(c.todo)] = NoPlan
  BY <1>1, <1>2, EndKeeps DEF ReadPlans
<1>3. CASE ~(c.path # "shown" /\ plans[Head(c.todo)] = NoPlan)
  <2>1. Become(h, d)
    BY <1>3 DEF ReadPlans
  <2>2. Asked(c) \subseteq Models /\ (c.path # "shown" => Head(c.todo) \in Asked(c))
    BY <1>1, AskedAre
  <2>3. plans \in Catalog
    BY DEF IInv, TypeInv
  <2>4. [m \in Asked(c) |-> plans[m]] \in [Asked(c) -> Plan \cup {NoPlan}]
    BY <2>2, <2>3 DEF Catalog
  <2>5. c \in Calls /\ CallOK(c, log, now) /\ c.got \in SUBSET {"plans", "promos"}
    BY CallFields
  <2>6. /\ d.path = c.path /\ d.pc = c.pc /\ d.order = c.order /\ d.todo = c.todo
        /\ d.cart = c.cart /\ d.from = c.from /\ d.promos = c.promos
        /\ d.plans = [m \in Asked(c) |-> plans[m]] /\ d.got = c.got \cup {"plans"}
    BY <2>5 DEF Calls
  <2>7. d \in Calls
    <3> DEFINE P == [m \in Asked(c) |-> plans[m]]
    <3>1. P \in UNION {[s -> Plan \cup {NoPlan}] : s \in SUBSET Models}
      BY <2>2, <2>4
    <3>2. c.got \cup {"plans"} \in SUBSET {"plans", "promos"}
      BY <2>5
    <3> HIDE DEF P
    <3> QED
      BY <2>5, <3>1, <3>2 DEF Calls, P
  <2> HIDE DEF d
  <2>8. Asked(d) = Asked(c)
    BY <2>6 DEF Asked
  <2>9. HasRead(d, log, now)
    <3>1. \E k \in During(log, c.from, now) : \A m \in Asked(c) : d.plans[m] = k[1][m]
      <4>1. now \in Nat /\ c.from \in Nat /\ c.from <= now
        BY <2>5, NowIn, CallFields DEF IInv, CallOK
      <4>2. <<plans, promos>> \in During(log, c.from, now)
        BY <4>1, NowIn DEF IInv
      <4>3. \A m \in Asked(c) : d.plans[m] = <<plans, promos>>[1][m]
        BY <2>6
      <4> QED
        BY <4>2, <4>3
    <3>2. c.path # "shown" => d.plans[Head(c.todo)] # NoPlan
      BY <1>3, <2>2, <2>6
    <3>3. "promos" \in d.got => \E k \in During(log, c.from, now) : d.promos = k[2]
      <4>1. HasRead(c, log, now)
        BY <1>1, <2>5 DEF CallOK
      <4> QED
        BY <2>6, <4>1 DEF HasRead
    <3> QED
      BY <2>4, <2>6, <2>8, <3>1, <3>2, <3>3 DEF HasRead
  <2>10. CallOK(d, log, now)
    BY <1>1, <2>5, <2>6, <2>9 DEF CallOK
  <2> QED
    BY <1>1, <2>1, <2>7, <2>10, CallStep
<1> QED
  BY <1>2, <1>3

LEMMA ReadPromosKeeps ==
  ASSUME IInv, NEW h \in Handlers, ReadPromos(h)
  PROVE  IInv'
<1> DEFINE c == call[h]
           d == [c EXCEPT !.promos = promos, !.got = @ \cup {"promos"}]
<1>1. c.pc = "read" /\ Become(h, d) /\ Keep
  BY DEF ReadPromos, At
<1>2. c \in Calls /\ CallOK(c, log, now) /\ c.got \in SUBSET {"plans", "promos"}
        /\ promos \in Deals
  BY CallFields DEF IInv, TypeInv
<1>3. /\ d.path = c.path /\ d.pc = c.pc /\ d.order = c.order /\ d.todo = c.todo
      /\ d.cart = c.cart /\ d.from = c.from /\ d.plans = c.plans
      /\ d.promos = promos /\ d.got = c.got \cup {"promos"}
  BY <1>2 DEF Calls
<1>4. d \in Calls
  <2>1. c.got \cup {"promos"} \in SUBSET {"plans", "promos"}
    BY <1>2
  <2> QED
    BY <1>2, <2>1 DEF Calls
<1> HIDE DEF d
<1>5. HasRead(d, log, now)
  <2>1. HasRead(c, log, now) /\ Asked(d) = Asked(c)
    BY <1>1, <1>2, <1>3 DEF CallOK, Asked
  <2>2. \E k \in During(log, c.from, now) : promos = k[2]
    <3>1. now \in Nat /\ c.from \in Nat /\ c.from <= now
      BY <1>2, NowIn, CallFields DEF IInv, CallOK
    <3>2. <<plans, promos>> \in During(log, c.from, now)
      BY <3>1, NowIn DEF IInv
    <3> QED
      BY <3>2
  <2> QED
    BY <1>3, <2>1, <2>2 DEF HasRead
<1>6. CallOK(d, log, now)
  BY <1>1, <1>2, <1>3, <1>5 DEF CallOK
<1> QED
  BY <1>1, <1>4, <1>6, CallStep

\* What a call that has read everything makes of a plan is grounded in what it read.
LEMMA QuoteIs ==
  ASSUME IInv, NEW h \in Handlers, call[h].pc = "read", "plans" \in call[h].got,
         NEW m \in Asked(call[h]), call[h].plans[m] # NoPlan,
         "promos" \in call[h].got \/ call[h].plans[m].isTrial
  PROVE  /\ QuoteOf(call[h], m, PriceOrFree(call[h], m)) \in Quote
         /\ Grounded(QuoteOf(call[h], m, PriceOrFree(call[h], m)), log, now)
<1> DEFINE c == call[h]
           price == PriceOrFree(c, m)
           q == QuoteOf(c, m, price)
<1>1. m \in Models /\ c.from \in Nat /\ now \in Nat /\ c.from <= now /\ c.promos \in Deals
  BY AskedAre, CallFields, NowIn DEF IInv, CallOK
<1>2. HasRead(c, log, now)
  BY CallFields DEF CallOK
<1>3. c.plans[m] \in Plan
  BY <1>2 DEF HasRead
<1>4. DaysOf(c.plans[m], c.path) \in Nat /\ c.plans[m].isTrial \in BOOLEAN /\ c.path \in Paths
  BY <1>3, CallFields DEF Plan, SubscriptionPlan, DaysOf, TrialDays
<1>5. FinalPrice(c.plans[m], c.promos, now) \in Nat
  BY <1>1, <1>3, FinalPriceIs DEF Deals
<1>6. price \in Nat
  BY <1>5 DEF PriceOrFree, PriceOf
<1>7. /\ q.model = m /\ q.price = price /\ q.days = DaysOf(c.plans[m], c.path)
      /\ q.path = c.path /\ q.from = c.from /\ q.at = now
  BY DEF QuoteOf
<1>8. q \in Quote
  BY <1>1, <1>4, <1>6 DEF QuoteOf, Quote
<1>9. PICK k \in During(log, c.from, now) : c.plans[m] = k[1][m]
  BY <1>2 DEF HasRead
<1>10. PICK d \in During(log, c.from, now) : ~c.plans[m].isTrial => c.promos = d[2]
  BY <1>2, <1>9 DEF HasRead
<1>11. price = IF k[1][m].isTrial THEN 0 ELSE FinalPrice(k[1][m], d[2], now)
  BY <1>9, <1>10 DEF PriceOrFree, PriceOf
<1>12. Grounded(q, log, now)
  <2> HIDE DEF c, price, q
  <2>1. q.from <= q.at /\ q.at <= now
    BY <1>1, <1>7
  <2>2. k \in During(log, q.from, q.at) /\ d \in During(log, q.from, q.at)
    BY <1>7
  <2>3. /\ k[1][q.model] # NoPlan /\ q.days = DaysOf(k[1][q.model], q.path)
        /\ q.price = IF k[1][q.model].isTrial THEN 0 ELSE FinalPrice(k[1][q.model], d[2], q.at)
    BY <1>7, <1>9, <1>11 DEF c
  <2> QED
    BY <2>1, <2>2, <2>3 DEF Grounded
<1> QED
  BY <1>8, <1>12

\* The plan of the item a call is about to price.
LEMMA ItemIs ==
  ASSUME IInv, NEW h \in Handlers, NEW path \in {"ordered", "recorded"}, Answered(h, path)
  PROVE  LET c == call[h]
             m == Head(c.todo)
         IN  /\ c.pc = "read" /\ c.path = path /\ c.order \in Orders
             /\ m \in Asked(c) /\ c.plans[m] # NoPlan /\ c.todo # <<>>
             /\ Tail(c.todo) \in Seq(Models)
             /\ "promos" \in c.got \/ (c.path = "recorded" /\ c.plans[m].isTrial)
             /\ QuoteOf(c, m, PriceOrFree(c, m)) \in Quote
             /\ Grounded(QuoteOf(c, m, PriceOrFree(c, m)), log, now)
<1> DEFINE c == call[h]
           m == Head(c.todo)
<1>1. c.pc = "read" /\ c.path = path /\ c.path # "shown" /\ "plans" \in c.got
  BY DEF Answered, At
<1>2. "promos" \in c.got \/ (c.path = "recorded" /\ c.plans[m].isTrial)
  BY DEF Answered, AsksPromos
<1>3. m \in Asked(c) /\ c.todo # <<>> /\ Tail(c.todo) \in Seq(Models)
  BY <1>1, AskedAre
<1>4. c.plans[m] # NoPlan /\ c.order \in Orders
  BY <1>1, CallFields DEF CallOK, HasRead
<1> QED
  BY <1>1, <1>2, <1>3, <1>4, QuoteIs

LEMMA LookKeeps ==
  ASSUME IInv, NEW h \in Handlers, Look(h)
  PROVE  IInv'
<1> DEFINE c == call[h]
<1>1. c.pc = "read" /\ "plans" \in c.got /\ c.path = "shown"
  BY DEF Look, Answered, At
<1>2. "promos" \in c.got
  BY <1>1 DEF Look, Answered, AsksPromos
<1>3. Asked(c) = Models
  BY <1>1, AskedAre
<1>4. /\ now' = now /\ plans' = plans /\ promos' = promos /\ log' = log /\ edits' = edits
      /\ orders' = orders /\ subs' = subs /\ call' = [call EXCEPT ![h] = Idle]
      /\ shown' = {QuoteOf(c, m, PriceOrFree(c, m)) : m \in {n \in Models : c.plans[n] # NoPlan}}
  BY DEF Look, End, Become, catalogVars
<1>5. \A q \in shown' : q \in Quote /\ Grounded(q, log, now)
  <2>1. \A m \in {n \in Models : c.plans[n] # NoPlan} :
          /\ QuoteOf(c, m, PriceOrFree(c, m)) \in Quote
          /\ Grounded(QuoteOf(c, m, PriceOrFree(c, m)), log, now)
    BY <1>1, <1>2, <1>3, QuoteIs
  <2> QED
    BY <1>4, <2>1
<1>6. Idle \in Calls /\ CallOK(Idle, log, now)
  BY NowIn, IdleOK DEF IInv
<1>7. TypeInv'
  BY <1>4, <1>5, <1>6 DEF IInv, TypeInv
<1>8. LogInv'
  BY <1>4 DEF IInv, LogInv
<1>9. \A q \in Quotes' : q \in shown' \/ q \in Quotes
  BY <1>4 DEF Quotes
<1>10. ASSUME NEW g \in Handlers PROVE CallOK(call'[g], log', now')
  <2>1. call'[g] = Idle \/ call'[g] = call[g]
    BY <1>4 DEF IInv, TypeInv
  <2> QED
    BY <1>4, <1>6, <2>1 DEF IInv
<1> QED
  BY <1>4, <1>5, <1>7, <1>8, <1>9, <1>10 DEF IInv

LEMMA PriceItemKeeps ==
  ASSUME IInv, NEW h \in Handlers, PriceItem(h)
  PROVE  IInv'
<1> DEFINE c == call[h]
           m == Head(c.todo)
           q == QuoteOf(c, m, PriceOf(c, m))
           d == [c EXCEPT !.cart = Append(@, q), !.todo = Tail(@)]
<1>1. Keep /\ Answered(h, "ordered")
  BY DEF PriceItem
<1>2. CASE c.plans[m].isTrial \/ PriceOf(c, m) <= 0
  <2>1. End(h)
    BY <1>2 DEF PriceItem
  <2> QED
    BY <1>1, <2>1, EndKeeps
<1>3. CASE ~(c.plans[m].isTrial \/ PriceOf(c, m) <= 0)
  <2>1. Become(h, IF d.todo = <<>> THEN [d EXCEPT !.pc = "save"] ELSE Reading(d))
    BY <1>3 DEF PriceItem
  <2>2. /\ c.pc = "read" /\ c.path = "ordered" /\ c.order \in Orders /\ c.todo # <<>>
        /\ Tail(c.todo) \in Seq(Models)
        /\ QuoteOf(c, m, PriceOrFree(c, m)) \in Quote
        /\ Grounded(QuoteOf(c, m, PriceOrFree(c, m)), log, now)
    BY <1>1, ItemIs
  <2>3. PriceOrFree(c, m) = PriceOf(c, m)
    BY <1>3 DEF PriceOrFree
  <2>4. q \in Quote /\ Grounded(q, log, now)
    BY <2>2, <2>3
  <2>5. q.price = PriceOf(c, m)
    BY DEF QuoteOf
  <2>6. q.price > 0
    BY <1>3, <2>4, <2>5 DEF Quote
  <2> HIDE DEF q
  <2>7. c \in Calls /\ CallOK(c, log, now) /\ c.cart \in Seq(Quote) /\ c.from \in Nat
    BY CallFields
  <2>8. d \in Calls
    <3>1. Append(c.cart, q) \in Seq(Quote)
      BY <2>4, <2>7
    <3> QED
      BY <2>2, <2>7, <3>1 DEF Calls
  <2>9. /\ d.path = c.path /\ d.pc = c.pc /\ d.order = c.order /\ d.from = c.from
        /\ d.cart = Append(c.cart, q) /\ d.todo = Tail(c.todo)
    BY <2>7 DEF Calls
  <2>10. \A i \in DOMAIN d.cart :
           Grounded(d.cart[i], log, now) /\ (d.path = "ordered" => d.cart[i].price > 0)
    <3>1. \A i \in DOMAIN c.cart :
            Grounded(c.cart[i], log, now) /\ c.cart[i].price > 0
      BY <2>2, <2>7 DEF CallOK
    <3>2. ASSUME NEW i \in DOMAIN d.cart PROVE d.cart[i] = q \/ (i \in DOMAIN c.cart /\ d.cart[i] = c.cart[i])
      BY <2>4, <2>7, <2>9
    <3> HIDE DEF d
    <3> QED
      BY <2>4, <2>6, <3>1, <3>2
  <2>11. CASE d.todo = <<>>
    <3> DEFINE e == [d EXCEPT !.pc = "save"]
    <3> HIDE DEF d
    <3>1. e \in Calls
      BY <2>8 DEF Calls
    <3>2. e.path = d.path /\ e.pc = "save" /\ e.order = d.order /\ e.from = d.from
            /\ e.cart = d.cart
      BY <2>8 DEF Calls
    <3>3. e.cart # <<>>
      BY <2>4, <2>7, <2>9, <3>2
    <3> HIDE DEF e
    <3>4. CallOK(e, log, now)
      BY <2>2, <2>7, <2>9, <2>10, <3>2, <3>3 DEF CallOK
    <3>5. Become(h, e)
      BY <2>1, <2>11 DEF e, d
    <3> QED
      BY <1>1, <3>1, <3>4, <3>5, CallStep
  <2>12. CASE d.todo # <<>>
    <3>1. Become(h, Reading(d))
      BY <2>1, <2>12
    <3> HIDE DEF d
    <3>2. Reading(d) \in Calls /\ CallOK(Reading(d), log, now)
      BY <2>2, <2>8, <2>9, <2>10, <2>12, ReadingOK
    <3> QED
      BY <1>1, <3>1, <3>2, CallStep
  <2> QED
    BY <2>11, <2>12
<1> QED
  BY <1>2, <1>3

LEMMA PriceRecordKeeps ==
  ASSUME IInv, NEW h \in Handlers, PriceRecord(h)
  PROVE  IInv'
<1> DEFINE c == call[h]
           m == Head(c.todo)
           q == QuoteOf(c, m, PriceOrFree(c, m))
           d == [c EXCEPT !.pc = "save", !.cart = <<q>>]
<1>0. CASE End(h)
  BY <1>0, EndKeeps DEF PriceRecord
<1> SUFFICES ASSUME ~End(h) PROVE IInv'
  BY <1>0
<1>1. Keep /\ Answered(h, "recorded") /\ Become(h, d)
  BY DEF PriceRecord
<1>2. /\ c.path = "recorded" /\ c.order \in Orders
      /\ q \in Quote /\ Grounded(q, log, now)
  BY <1>1, ItemIs
<1>3. c \in Calls /\ CallOK(c, log, now)
  BY CallFields
<1> HIDE DEF q
<1>4. d \in Calls
  <2>1. <<q>> \in Seq(Quote)
    BY <1>2
  <2> QED
    BY <1>3, <2>1 DEF Calls
<1>5. d.path = c.path /\ d.pc = "save" /\ d.order = c.order /\ d.from = c.from /\ d.cart = <<q>>
  BY <1>3 DEF Calls
<1> HIDE DEF d
<1>6. d.cart # <<>> /\ \A i \in DOMAIN d.cart : d.cart[i] = q
  BY <1>5
<1>7. CallOK(d, log, now)
  BY <1>2, <1>3, <1>5, <1>6 DEF CallOK
<1> QED
  BY <1>1, <1>4, <1>7, CallStep

LEMMA SaveOrderKeeps ==
  ASSUME IInv, NEW h \in Handlers, SaveOrder(h)
  PROVE  IInv'
<1> DEFINE c == call[h]
           new == [cart |-> c.cart, euroTotal |-> Total(c.cart)]
<1>1. c.pc = "save" /\ c.path = "ordered" /\ End(h)
        /\ UNCHANGED <<now, plans, promos, log, edits, shown, subs>>
  BY DEF SaveOrder, At, catalogVars
<1>2. CASE Total(c.cart) <= 0
  <2>1. UNCHANGED orders
    BY <1>2 DEF SaveOrder
  <2> QED
    BY <1>1, <2>1, EndKeeps DEF Keep, catalogVars, storeVars
<1>3. CASE ~(Total(c.cart) <= 0)
  <2>1. orders' = [orders EXCEPT ![c.order] = new]
    BY <1>3 DEF SaveOrder
  <2>2. /\ c.cart \in Seq(Quote) /\ c.order \in Orders
        /\ \A i \in DOMAIN c.cart : Grounded(c.cart[i], log, now) /\ c.cart[i].price > 0
    BY <1>1, CallFields DEF CallOK
  <2>3. Total(c.cart) \in Nat /\ \A i \in DOMAIN c.cart : c.cart[i].price <= Total(c.cart)
    BY <2>2, TotalBounds
  <2>4. new \in [cart : Seq(Quote), euroTotal : Nat]
    BY <2>2, <2>3
  <2>5. call' = [call EXCEPT ![h] = Idle] /\ Idle \in Calls /\ CallOK(Idle, log, now)
    BY <1>1, NowIn, IdleOK DEF IInv, End, Become
  <2>6. orders \in [Orders -> [cart : Seq(Quote), euroTotal : Nat]]
    BY DEF IInv, TypeInv
  <2>7. \A o \in Orders : orders'[o] = new \/ orders'[o] = orders[o]
    BY <2>1, <2>6
  <2>8. new.cart = c.cart /\ new.euroTotal = Total(c.cart)
    OBVIOUS
  <2> HIDE DEF new
  <2>9. TypeInv'
    <3>1. orders' \in [Orders -> [cart : Seq(Quote), euroTotal : Nat]]
      BY <2>1, <2>4, <2>6
    <3> QED
      BY <1>1, <2>5, <3>1 DEF IInv, TypeInv
  <2>10. LogInv'
    BY <1>1 DEF IInv, LogInv
  <2>11. Sold(orders')
    BY <2>2, <2>3, <2>7, <2>8 DEF IInv, Sold
  <2>12. ASSUME NEW q \in Quotes' PROVE Grounded(q, log, now)
    <3>1. CASE q \in Quotes
      BY <3>1 DEF IInv
    <3>2. CASE q \notin Quotes
      <4>1. PICK o \in Orders : q \in ToSet(orders'[o].cart)
        <5>1. q \in shown \/ q \in {s.quote : s \in subs}
                \/ q \in UNION {ToSet(orders'[o].cart) : o \in Orders}
          BY <1>1, <2>12 DEF Quotes
        <5>2. q \in UNION {ToSet(orders'[o].cart) : o \in Orders}
          BY <3>2, <5>1 DEF Quotes
        <5> QED
          BY <5>2
      <4>2. orders'[o].cart = c.cart
        <5>1. ToSet(orders[o].cart) \subseteq Quotes
          BY DEF Quotes
        <5> QED
          BY <2>7, <2>8, <3>2, <4>1, <5>1
      <4> QED
        BY <2>2, <4>1, <4>2 DEF ToSet
    <3> QED
      BY <3>1, <3>2
  <2>13. ASSUME NEW g \in Handlers PROVE CallOK(call'[g], log', now')
    <3>1. call'[g] = Idle \/ call'[g] = call[g]
      BY <2>5 DEF IInv, TypeInv
    <3> QED
      BY <1>1, <2>5, <3>1 DEF IInv
  <2> QED
    BY <1>1, <2>9, <2>10, <2>11, <2>12, <2>13 DEF IInv
<1> QED
  BY <1>2, <1>3

LEMMA SaveSubKeeps ==
  ASSUME IInv, NEW h \in Handlers, SaveSub(h)
  PROVE  IInv'
<1> DEFINE c == call[h]
           new == [order |-> c.order, item |-> c.item, quote |-> c.cart[1]]
<1>1. /\ c.pc = "save" /\ c.path = "recorded" /\ End(h)
      /\ subs' = subs \cup {new}
      /\ UNCHANGED <<now, plans, promos, log, edits, shown, orders>>
  BY DEF SaveSub, At, catalogVars
<1>2. /\ c.cart \in Seq(Quote) /\ c.cart # <<>> /\ c.order \in Orders /\ c.item \in Nat
      /\ \A i \in DOMAIN c.cart : Grounded(c.cart[i], log, now)
  BY <1>1, CallFields DEF CallOK
<1>3. 1 \in DOMAIN c.cart /\ c.cart[1] \in Quote
  BY <1>2
<1>4. new \in [order : Orders, item : Nat, quote : Quote] /\ new.quote = c.cart[1]
  BY <1>2, <1>3
<1>5. call' = [call EXCEPT ![h] = Idle] /\ Idle \in Calls /\ CallOK(Idle, log, now)
  BY <1>1, NowIn, IdleOK DEF IInv, End, Become
<1> HIDE DEF new
<1>6. TypeInv'
  BY <1>1, <1>4, <1>5 DEF IInv, TypeInv
<1>7. LogInv'
  BY <1>1 DEF IInv, LogInv
<1>8. ASSUME NEW q \in Quotes' PROVE Grounded(q, log, now)
  <2>1. q \in Quotes \/ q = new.quote
    BY <1>1 DEF Quotes
  <2> QED
    BY <1>2, <1>3, <1>4, <2>1 DEF IInv
<1>9. ASSUME NEW g \in Handlers PROVE CallOK(call'[g], log', now')
  <2>1. call'[g] = Idle \/ call'[g] = call[g]
    BY <1>5 DEF IInv, TypeInv
  <2> QED
    BY <1>1, <1>5, <2>1 DEF IInv
<1>10. Sold(orders')
  BY <1>1 DEF IInv
<1> QED
  BY <1>1, <1>6, <1>7, <1>8, <1>9, <1>10 DEF IInv

LEMMA StepKeeps ==
  ASSUME IInv, [Next]_vars
  PROVE  IInv'
<1>1. CASE EditPlans
  <2>1. PICK ps \in PriceLists : Edit(ps, promos)
    BY <1>1 DEF EditPlans
  <2>2. ps \in Catalog /\ promos \in Deals
    BY PriceListsAssumption DEF IInv, TypeInv, Catalog
  <2> QED
    BY <2>1, <2>2, EditKeeps
<1>2. CASE EditPromos
  <2>1. PICK qs \in Collections : Edit(plans, qs)
    BY <1>2 DEF EditPromos
  <2>2. plans \in Catalog /\ qs \in Deals
    BY CollectionsAssumption DEF IInv, TypeInv, Deals
  <2> QED
    BY <2>1, <2>2, EditKeeps
<1>3. CASE Tick
  BY <1>3, TickKeeps
<1>4. ASSUME NEW h \in Handlers,
             \/ BeginLook(h) \/ Look(h)
             \/ \E o \in Orders, cart \in Carts : BeginOrder(h, o, cart)
             \/ \E o \in Orders : \E i \in DOMAIN orders[o].cart : BeginRecord(h, o, i)
             \/ ReadPlans(h) \/ ReadPromos(h)
             \/ PriceItem(h) \/ SaveOrder(h) \/ PriceRecord(h) \/ SaveSub(h)
             \/ Abort(h)
      PROVE  IInv'
  <2>1. CASE Abort(h)
    BY <2>1, EndKeeps DEF Abort
  <2> QED
    BY <1>4, <2>1, BeginLookKeeps, LookKeeps, BeginOrderKeeps, BeginRecordKeeps,
       ReadPlansKeeps, ReadPromosKeeps, PriceItemKeeps, SaveOrderKeeps, PriceRecordKeeps,
       SaveSubKeeps
<1>5. CASE UNCHANGED vars
  BY <1>5 DEF vars, IInv, TypeInv, LogInv, Quotes
<1> QED
  BY <1>1, <1>2, <1>3, <1>4, <1>5 DEF Next

\* Whatever was priced, was priced of what was in force.
THEOREM CheckoutInvariant == Spec => []IInv
<1>1. Init => IInv
  BY InitOK
<1>2. IInv /\ [Next]_vars => IInv'
  BY StepKeeps
<1> QED
  BY <1>1, <1>2, PTL DEF Spec

-----------------------------------------------------------------------------
(* The theorems.                                                           *)

\* Calls keep to their types, however the cart and the collections change under them
\* (orders.controller.ts, subscription.service.ts).
THEOREM CheckoutTypeOK == Spec => []TypeOK
<1>1. IInv => TypeOK
  <2> SUFFICES ASSUME IInv PROVE TypeOK
    OBVIOUS
  <2>1. \A h \in Handlers : /\ call[h].pc \in {"idle", "read", "save"} /\ call[h].path \in Paths
                            /\ call[h].cart \in Seq(Quote)
    BY CallFields
  <2> QED
    BY <2>1 DEF IInv, TypeInv, TypeOK, Catalog, Deals
<1> QED
  BY <1>1, CheckoutInvariant, PTL

LEMMA InForceIs ==
  ASSUME NEW from, NEW at
  PROVE  InForce(from, at) = During(log, from, at)
BY DEF InForce, During

\* The pairs that were in force are typed.
LEMMA ForceTyped ==
  ASSUME IInv, NEW q \in Quotes, NEW c \in During(log, q.from, q.at)
  PROVE  c[1] \in Catalog /\ c[2] \in Deals
<1>1. q.from \in Nat /\ q.at \in Nat /\ q.at <= now /\ now \in Nat /\ now <= MaxTime
  BY QuotesAre, NowIn, BoundsAssumption DEF IInv, Grounded, Quote
<1>2. PICK t \in q.from .. q.at : c \in log[t]
  BY DEF During
<1>3. t \in 0 .. MaxTime
  BY <1>1, BoundsAssumption
<1>4. c \in Catalog \X Deals
  BY <1>2, <1>3 DEF IInv, LogInv, Logs
<1> QED
  BY <1>4

\* Every price that is shown, charged or recorded was offered while it was computed:
\* the plan and the promotions were read at different moments, none earlier than the
\* reading of that item (getPlanWithFinalPrice, subscription.service.ts:60).
THEOREM EveryPriceWasOffered == Spec => []QuoteWasOffered
<1>1. IInv => QuoteWasOffered
  <2> SUFFICES ASSUME IInv, NEW q \in Quotes
               PROVE  \E c, d \in InForce(q.from, q.at) :
                        LET plan == c[1][q.model] IN
                        /\ plan # NoPlan
                        /\ q.days = DaysOf(plan, q.path)
                        /\ IF plan.isTrial THEN q.price = 0 ELSE IsOffer(q.price, plan, d[2], q.at)
    BY DEF QuoteWasOffered
  <2>1. q \in Quote /\ q.model \in Models /\ q.at \in Nat
    BY QuotesAre DEF IInv, Quote
  <2>2. PICK c, d \in During(log, q.from, q.at) :
          /\ c[1][q.model] # NoPlan
          /\ q.days = DaysOf(c[1][q.model], q.path)
          /\ q.price = IF c[1][q.model].isTrial THEN 0
                       ELSE FinalPrice(c[1][q.model], d[2], q.at)
    BY DEF IInv, Grounded
  <2>3. c[1][q.model] \in Plan /\ d[2] \in Seq(Promotion(Models, Features))
    BY <2>1, <2>2, ForceTyped DEF Catalog, Deals
  <2>4. IF c[1][q.model].isTrial THEN q.price = 0
        ELSE IsOffer(q.price, c[1][q.model], d[2], q.at)
    BY <2>1, <2>2, <2>3, FinalPriceIs
  <2> QED
    BY <2>2, <2>4, InForceIs
<1> QED
  BY <1>1, CheckoutInvariant, PTL

\* No cart is ordered with an item that is free or a trial, and no item costs more
\* than the whole (orders.controller.ts:70-86).
THEOREM NothingIsSoldForNothing == Spec => []SoldAtAPrice
<1>1. IInv => SoldAtAPrice
  <2> SUFFICES ASSUME IInv, NEW o \in Orders, NEW i \in DOMAIN orders[o].cart
               PROVE  LET q == orders[o].cart[i] IN
                      /\ q.price > 0 /\ q.price <= orders[o].euroTotal
                      /\ \E c \in InForce(q.from, q.at) :
                           c[1][q.model] # NoPlan /\ ~c[1][q.model].isTrial
    BY DEF SoldAtAPrice
  <2> DEFINE q == orders[o].cart[i]
  <2>1. q \in Quotes /\ q \in Quote
    BY QuotesAre DEF IInv
  <2>2. q.price > 0 /\ q.price <= orders[o].euroTotal
    BY DEF IInv, Sold
  <2>3. Grounded(q, log, now)
    BY <2>1 DEF IInv
  <2> HIDE DEF q
  <2>4. q.price # 0
    BY <2>1, <2>2 DEF Quote
  <2>5. \E c \in InForce(q.from, q.at) : c[1][q.model] # NoPlan /\ ~c[1][q.model].isTrial
    BY <2>3, <2>4, InForceIs DEF Grounded
  <2> QED
    BY <2>2, <2>5 DEF q
<1> QED
  BY <1>1, CheckoutInvariant, PTL

\* The order in which find() returns the promotions is nothing to the price, unless
\* two foremost ones have the same priority (bestPromoForPlan,
\* subscription.service.ts).
THEOREM PromotionsAreUnambiguous == Spec => []Unambiguous
<1>1. IInv => Unambiguous
  <2> SUFFICES ASSUME IInv, NEW m \in Models, plans[m] # NoPlan,
                      Cardinality(Foremost(plans[m], promos, now)) <= 1,
                      NEW f \in Bijection(DOMAIN promos, DOMAIN promos)
               PROVE  FinalPrice(plans[m], [i \in DOMAIN promos |-> promos[f[i]]], now)
                        = FinalPrice(plans[m], promos, now)
    BY DEF Unambiguous
  <2>1. promos \in Seq(Promotion(Models, Features))
    BY DEF IInv, TypeInv, Deals
  <2> QED
    BY <2>1, PriceIgnoresOrder
<1> QED
  BY <1>1, CheckoutInvariant, PTL

LEMMA MaxIs ==
  ASSUME NEW a \in Nat, NEW b \in Nat
  PROVE  Max({a, b}) \in Nat /\ a <= Max({a, b}) /\ b <= Max({a, b}) /\ Max({a, b}) \in {a, b}
<1>1. \E x \in {a, b} : \A y \in {a, b} : x >= y
  <2>1. CASE a <= b
    BY <2>1
  <2>2. CASE ~(a <= b)
    BY <2>2
  <2> QED
    BY <2>1, <2>2
<1>2. Max({a, b}) \in {a, b} /\ \A y \in {a, b} : Max({a, b}) >= y
  BY <1>1 DEF Max
<1> QED
  BY <1>2

LEMMA MinOfTwo ==
  ASSUME NEW a \in Nat, NEW b \in Nat
  PROVE  Min({a, b}) \in Nat /\ Min({a, b}) <= a /\ Min({a, b}) <= b
<1>1. {a, b} \subseteq Nat /\ {a, b} # {}
  OBVIOUS
<1>2. Min({a, b}) \in {a, b} /\ \A y \in {a, b} : Min({a, b}) <= y
  BY <1>1, MinIs
<1> QED
  BY <1>2

\* One pair alone in force from one clock reading to another was so at each of them.
LEMMA OneInForce ==
  ASSUME IInv, NEW from \in Nat, NEW to \in 0 .. now, from <= to, Cardinality(During(log, from, to)) = 1
  PROVE  \E k : \A t \in from .. to : log[t] = {k}
<1> DEFINE S == {log[t] : t \in from .. to}
<1>1. now \in Nat /\ now <= MaxTime /\ to \in Nat
  BY NowIn, BoundsAssumption DEF IInv
<1>2. \A t \in from .. to : t \in 0 .. MaxTime /\ t <= now
  BY <1>1, BoundsAssumption
<1>3. \A t \in from .. to : IsFiniteSet(log[t]) /\ log[t] # {}
  BY <1>2 DEF IInv, LogInv
<1>4. IsFiniteSet(S)
  <2> DEFINE f == [t \in from .. to |-> log[t]]
  <2>1. f \in Surjection(from .. to, S)
    BY DEF Surjection
  <2>2. IsFiniteSet(from .. to)
    BY <1>1, FS_Interval
  <2> HIDE DEF f, S
  <2> QED
    BY <2>1, <2>2, FS_Surjection
<1>5. During(log, from, to) = UNION S
  BY DEF During
<1>6. IsFiniteSet(During(log, from, to))
  <2>1. \A s \in S : IsFiniteSet(s)
    BY <1>3
  <2> HIDE DEF S
  <2> QED
    BY <1>4, <1>5, <2>1, FS_UNION
<1>7. PICK k : During(log, from, to) = {k}
  BY <1>6, FS_Singleton
<1>8. ASSUME NEW t \in from .. to PROVE log[t] = {k}
  <2>1. log[t] \subseteq {k}
    BY <1>7 DEF During
  <2> QED
    BY <1>3, <2>1
<1> QED
  BY <1>8

\* What one pair of collections makes of a plan, where that is the same all along.
LEMMA OneTerm ==
  ASSUME NEW m, NEW from \in Nat, NEW to \in Nat, NEW k, \A t \in from .. to : log[t] = {k},
         Cardinality(Terms(m, from, to)) = 1,
         NEW s \in from .. to, NEW t \in from .. to
  PROVE  FinalPrice(k[1][m], k[2], s) = FinalPrice(k[1][m], k[2], t)
<1> DEFINE Term(x) == <<FinalPrice(k[1][m], k[2], x), k[1][m].durationInDays>>
           f == [x \in from .. to |-> Term(x)]
           T == {Term(x) : x \in from .. to}
<1>1. Terms(m, from, to) = T
  <2>1. ASSUME NEW x \in from .. to
        PROVE  {<<FinalPrice(c[1][m], c[2], x), c[1][m].durationInDays>> : c \in log[x]} = {Term(x)}
    <3>1. log[x] = {k}
      OBVIOUS
    <3> QED
      BY <3>1
  <2>2. Terms(m, from, to) = UNION {{Term(x)} : x \in from .. to}
    <3> HIDE DEF Term
    <3> QED
      BY <2>1 DEF Terms
  <2> HIDE DEF Term
  <2> QED
    BY <2>2
<1>2. IsFiniteSet(T)
  <2>1. f \in Surjection(from .. to, T)
    <3> HIDE DEF Term
    <3> QED
      BY DEF Surjection
  <2>2. IsFiniteSet(from .. to)
    BY FS_Interval
  <2> HIDE DEF f, T
  <2> QED
    BY <2>1, <2>2, FS_Surjection
<1>3. PICK y : T = {y}
  <2> HIDE DEF T
  <2> QED
    BY <1>1, <1>2, FS_Singleton
<1>4. Term(s) \in T /\ Term(t) \in T
  <2> HIDE DEF Term
  <2> QED
    OBVIOUS
<1>5. Term(s) = Term(t)
  <2> HIDE DEF Term, T
  <2> QED
    BY <1>3, <1>4
<1> QED
  BY <1>5

\* What was shown is what is charged, and what is charged is what the subscription
\* records, unless the collections were edited in between or a promotion began or
\* ended, but for the duration of a trial (getAvailablePlans, getPlanWithFinalPrice, resolvePlanAndPrice).
THEOREM TheThreePathsAgree == Spec => []PathsAgree
<1>1. IInv => PathsAgree
  <2> SUFFICES ASSUME IInv, NEW p \in Quotes, NEW q \in Quotes, p.model = q.model,
                      Cardinality(InForce(Min({p.from, q.from}), Max({p.at, q.at}))) = 1,
                      Cardinality(Terms(p.model, Min({p.from, q.from}), Max({p.at, q.at}))) = 1
               PROVE  LET first == Min({p.from, q.from})
                          last == Max({p.at, q.at})
                      IN  /\ p.price = q.price
                          /\ p.days = q.days \/ \E c \in InForce(first, last) : c[1][p.model].isTrial
    BY DEF PathsAgree
  <2> DEFINE from == Min({p.from, q.from})
             to == Max({p.at, q.at})
             m == p.model
  <2>1. /\ p \in Quote /\ q \in Quote /\ p.from \in Nat /\ p.at \in Nat /\ q.from \in Nat
        /\ q.at \in Nat
        /\ p.from <= p.at /\ q.from <= q.at /\ p.at <= now /\ q.at <= now /\ now \in Nat
    BY QuotesAre, NowIn DEF IInv, Quote, Grounded
  <2>2. from \in Nat /\ from <= p.from /\ from <= q.from
    BY <2>1, MinOfTwo
  <2>3. to \in Nat /\ p.at <= to /\ q.at <= to /\ to \in {p.at, q.at}
    BY <2>1, MaxIs
  <2>4. Cardinality(During(log, from, to)) = 1 /\ Cardinality(Terms(m, from, to)) = 1
    BY InForceIs
  <2> HIDE DEF from, to, m
  <2>5. to \in 0 .. now /\ from <= to /\ p.at \in from .. to /\ q.at \in from .. to
    BY <2>1, <2>2, <2>3
  <2>6. PICK k : \A t \in from .. to : log[t] = {k}
    BY <2>2, <2>4, <2>5, OneInForce
  <2>7. During(log, p.from, p.at) \subseteq {k} /\ During(log, q.from, q.at) \subseteq {k}
    <3>1. \A t \in p.from .. p.at : t \in from .. to
      BY <2>1, <2>2, <2>3
    <3>2. \A t \in q.from .. q.at : t \in from .. to
      BY <2>1, <2>2, <2>3
    <3> QED
      BY <2>6, <3>1, <3>2 DEF During
  <2>8. /\ p.days = DaysOf(k[1][m], p.path)
        /\ p.price = IF k[1][m].isTrial THEN 0 ELSE FinalPrice(k[1][m], k[2], p.at)
    <3>1. PICK c, d \in During(log, p.from, p.at) :
            /\ p.days = DaysOf(c[1][p.model], p.path)
            /\ p.price = IF c[1][p.model].isTrial THEN 0
                         ELSE FinalPrice(c[1][p.model], d[2], p.at)
      BY DEF IInv, Grounded
    <3>2. c = k /\ d = k
      BY <2>7
    <3> QED
      BY <3>1, <3>2 DEF m
  <2>9. /\ q.days = DaysOf(k[1][m], q.path)
        /\ q.price = IF k[1][m].isTrial THEN 0 ELSE FinalPrice(k[1][m], k[2], q.at)
    <3>1. PICK c, d \in During(log, q.from, q.at) :
            /\ q.days = DaysOf(c[1][q.model], q.path)
            /\ q.price = IF c[1][q.model].isTrial THEN 0
                         ELSE FinalPrice(c[1][q.model], d[2], q.at)
      BY DEF IInv, Grounded
    <3>2. c = k /\ d = k
      BY <2>7
    <3> QED
      BY <3>1, <3>2 DEF m
  <2>10. FinalPrice(k[1][m], k[2], p.at) = FinalPrice(k[1][m], k[2], q.at)
    BY <2>2, <2>3, <2>4, <2>5, <2>6, OneTerm
  <2>11. p.days = q.days \/ k[1][m].isTrial
    BY <2>8, <2>9 DEF DaysOf
  <2>12. k \in InForce(from, to)
    <3>1. to \in from .. to
      BY <2>2, <2>3, <2>5
    <3> QED
      BY <2>6, <3>1 DEF InForce
  <2> QED
    BY <2>8, <2>9, <2>10, <2>11, <2>12 DEF from, to, m
<1> QED
  BY <1>1, CheckoutInvariant, PTL
=============================================================================
