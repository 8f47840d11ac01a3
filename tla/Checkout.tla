------------------------------ MODULE Checkout ------------------------------
(***************************************************************************)
(* From the price list to the subscription: SubscriptionsService's         *)
(* getAvailablePlans, getPlanWithFinalPrice and resolvePlanAndPrice, and   *)
(* OrdersController.create (src/subscriptions, src/orders).  A plan is     *)
(* priced three times: when it is shown, when it is ordered, and, once the *)
(* order is paid, when its subscription is created.  Each time the program *)
(* reads the plan and then the promotions, and asks the clock later still, *)
(* while an administrator edits both collections in the database.          *)
(*                                                                         *)
(* One action per database operation, and one for the code after the last  *)
(* read, which computes the price.  When and how often an order is         *)
(* activated is in module Payments, what period a subscription gets in     *)
(* module Subscriptions.                                                   *)
(***************************************************************************)
EXTENDS Pricing, SequencesExt

CONSTANTS
  Models, Features,
  NamedTrial,     \* TRIAL_1_DAY, which a cart may not name
  NoPlan,         \* in place of a plan that is not in the collection
  PriceLists,     \* what the collection of plans may hold: a plan or NoPlan per model
  Collections,    \* what the collection of promotions may hold
  Carts,          \* the carts that clients send: sequences of models
  Orders,         \* order ids
  Handlers,       \* slots for calls in flight (bound on concurrency)
  MaxTime, MaxEdits  \* bounds on the clock and on the edits

Paths == {"shown", "ordered", "recorded"}
Plan == SubscriptionPlan(Models, Features)

ASSUME NamesAssumption == NoPlan \notin Plan
ASSUME PriceListsAssumption ==
  PriceLists \subseteq {ps \in [Models -> Plan \cup {NoPlan}] :
                          \A m \in Models : ps[m] # NoPlan => ps[m].model = m}
ASSUME CollectionsAssumption == Collections \subseteq Seq(Promotion(Models, Features))
ASSUME CartsAssumption == Carts \subseteq Seq(Models \cup {NamedTrial})
ASSUME BoundsAssumption == MaxTime \in Nat /\ MaxEdits \in Nat

VARIABLES
  now,      \* the clock
  plans, promos, \* the two collections
  log,      \* history: per clock reading, the pairs of collections in force then
  edits,    \* how often the administrator has changed one of them
  shown,    \* the quotes on the price list last sent to a client
  orders,   \* per order: its cart and total, both empty before it exists
  subs,     \* the subscriptions created for items of orders
  call      \* per slot: the call and its locals

storeVars == <<orders, subs, shown>>
catalogVars == <<plans, promos, log, edits>>
vars == <<now, plans, promos, log, edits, shown, orders, subs, call>>

\* A price, the duration that goes with it, and, as history, on which path and when
\* the program began to read (from) and when it computed (at).
Quote == [model : Models, price : Nat, days : Nat, path : Paths, from : Nat, at : Nat]

\* A subscription to a trial lasts 24 hours exactly, whatever the plan says.
TrialDays == 1

\* Of the call: the order and, to be recorded, the item it is for; the models still
\* to be priced (todo), the items priced (cart), what it has read (got) and when it
\* began to.
Idle == [path |-> "shown", pc |-> "idle", order |-> 0, item |-> 0, todo |-> <<>>,
         cart |-> <<>>, got |-> {}, plans |-> <<>>, promos |-> <<>>, from |-> 0]

NoOrder == [cart |-> <<>>, euroTotal |-> 0]

TypeOK ==
  /\ now \in 0 .. MaxTime
  /\ plans \in [Models -> Plan \cup {NoPlan}]
  /\ promos \in Seq(Promotion(Models, Features))
  /\ edits \in 0 .. MaxEdits
  /\ shown \in SUBSET Quote
  /\ orders \in [Orders -> [cart : Seq(Quote), euroTotal : Nat]]
  /\ subs \in SUBSET [order : Orders, item : Nat, quote : Quote]
  /\ \A h \in Handlers :
       /\ call[h].pc \in {"idle", "read", "save"}
       /\ call[h].path \in Paths
       /\ call[h].cart \in Seq(Quote)

Init ==
  /\ now = 0
  /\ plans \in PriceLists
  /\ promos \in Collections
  /\ log = [t \in 0 .. MaxTime |-> IF t = 0 THEN {<<plans, promos>>} ELSE {}]
  /\ edits = 0
  /\ shown = {}
  /\ orders = [o \in Orders |-> NoOrder]
  /\ subs = {}
  /\ call = [h \in Handlers |-> Idle]

-----------------------------------------------------------------------------
(* The administrator and the clock.                                        *)

\* External: plans and promotions are edited in the database.
Edit(ps, qs) ==
  /\ edits < MaxEdits /\ <<ps, qs>> # <<plans, promos>>
  /\ plans' = ps /\ promos' = qs
  /\ edits' = edits + 1
  /\ log' = [log EXCEPT ![now] = @ \cup {<<ps, qs>>}]
  /\ UNCHANGED <<now, storeVars, call>>

EditPlans == \E ps \in PriceLists : Edit(ps, promos)
EditPromos == \E qs \in Collections : Edit(plans, qs)

Tick ==
  /\ now < MaxTime
  /\ now' = now + 1
  /\ log' = [log EXCEPT ![now + 1] = {<<plans, promos>>}]
  /\ UNCHANGED <<plans, promos, edits, storeVars, call>>

-----------------------------------------------------------------------------
(* Reading and pricing, common to the three paths.                         *)

Become(h, c) == call' = [call EXCEPT ![h] = c]
End(h) == Become(h, Idle)

At(h, l) == call[h].pc = l
Keep == UNCHANGED <<now, catalogVars, storeVars>>

\* A call turns to its next plan, a price list to all of them.
Reading(c) ==
  [c EXCEPT !.pc = "read", !.got = {}, !.plans = <<>>, !.promos = <<>>, !.from = now]

Begin(h, c) == At(h, "idle") /\ Become(h, Reading(c)) /\ Keep

Asked(c) == IF c.path = "shown" THEN Models ELSE {Head(c.todo)}

\* Of a trial, an activation asks for no promotions.
AsksPromos(c) == c.path = "recorded" => ~c.plans[Head(c.todo)].isTrial

\* All reads are done, and the code after them runs.
Answered(h, path) ==
  LET c == call[h] IN
  /\ At(h, "read") /\ c.path = path /\ "plans" \in c.got
  /\ "promos" \in c.got \/ ~AsksPromos(c)

\* The plans asked for; one that was named must exist.
ReadPlans(h) ==
  LET c == call[h] IN
  /\ At(h, "read") /\ "plans" \notin c.got
  /\ IF c.path # "shown" /\ plans[Head(c.todo)] = NoPlan
     THEN End(h)
     ELSE Become(h, [c EXCEPT !.plans = [m \in Asked(c) |-> plans[m]],
                              !.got = @ \cup {"plans"}])
  /\ Keep

\* Mutant: the promotions are read once for the whole cart.
ReadPromosOnce(h) ==
  LET c == call[h] IN
  /\ At(h, "read") /\ "plans" \in c.got /\ "promos" \notin c.got
  /\ \E ps \in IF c.cart = <<>> THEN {promos} ELSE {k[2] : k \in log[c.cart[1].from]} :
       Become(h, [c EXCEPT !.promos = ps, !.got = @ \cup {"promos"}])
  /\ Keep

\* The whole collection of promotions: after the plan, or, for a price list, at the
\* same time.
ReadPromos(h) ==
  LET c == call[h] IN
  /\ At(h, "read") /\ "promos" \notin c.got
  /\ c.path = "shown" \/ ("plans" \in c.got /\ AsksPromos(c))
  /\ Become(h, [c EXCEPT !.promos = promos, !.got = @ \cup {"promos"}])
  /\ Keep

\* How long the plan is offered for, or recorded for.
DaysOf(plan, path) ==
  IF path = "recorded" /\ plan.isTrial THEN TrialDays ELSE plan.durationInDays

\* What the call makes of a plan it has read.
QuoteOf(c, m, price) ==
  [model |-> m, price |-> price, days |-> DaysOf(c.plans[m], c.path), path |-> c.path,
   from |-> c.from, at |-> now]

PriceOf(c, m) == FinalPrice(c.plans[m], c.promos, now)

\* A trial is free, whatever promotions there are.
PriceOrFree(c, m) == IF c.plans[m].isTrial THEN 0 ELSE PriceOf(c, m)

-----------------------------------------------------------------------------
(* getAvailablePlans.                                                      *)

BeginLook(h) == Begin(h, Idle)

Look(h) ==
  LET c == call[h] IN
  /\ Answered(h, "shown")
  /\ shown' = {QuoteOf(c, m, PriceOrFree(c, m)) :
                 m \in {n \in Models : c.plans[n] # NoPlan}}
  /\ End(h)
  /\ UNCHANGED <<now, catalogVars, orders, subs>>

-----------------------------------------------------------------------------
(* OrdersController.create: one turn of the loop per item, then the order. *)

Exists(o) == orders[o].cart # <<>>

BeginOrder(h, o, cart) ==
  /\ cart # <<>> /\ NamedTrial \notin ToSet(cart)
  /\ ~Exists(o) /\ \A g \in Handlers : call[g].order # o
  /\ Begin(h, [Idle EXCEPT !.path = "ordered", !.order = o, !.todo = cart])

\* Mutant: free plans are not refused.
PriceItemFree(h) ==
  LET c == call[h]
      m == Head(c.todo)
      d == [c EXCEPT !.cart = Append(@, QuoteOf(c, m, PriceOf(c, m))), !.todo = Tail(@)]
  IN /\ Answered(h, "ordered")
     /\ Become(h, IF d.todo = <<>> THEN [d EXCEPT !.pc = "save"] ELSE Reading(d))
     /\ Keep

\* A free plan or a trial is refused, and the cart with it.
PriceItem(h) ==
  LET c == call[h]
      m == Head(c.todo)
      d == [c EXCEPT !.cart = Append(@, QuoteOf(c, m, PriceOf(c, m))), !.todo = Tail(@)]
  IN /\ Answered(h, "ordered")
     /\ IF c.plans[m].isTrial \/ PriceOf(c, m) <= 0 THEN End(h)
        ELSE Become(h, IF d.todo = <<>> THEN [d EXCEPT !.pc = "save"] ELSE Reading(d))
     /\ Keep

Total(cart) == FoldSeq(LAMBDA q, sum : sum + q.price, 0, cart)

\* orders.create, the last thing a client waits for.
SaveOrder(h) ==
  LET c == call[h] IN
  /\ At(h, "save") /\ c.path = "ordered"
  /\ IF Total(c.cart) <= 0 THEN UNCHANGED orders
     ELSE orders' = [orders EXCEPT ![c.order] = [cart |-> c.cart, euroTotal |-> Total(c.cart)]]
  /\ End(h)
  /\ UNCHANGED <<now, catalogVars, shown, subs>>

-----------------------------------------------------------------------------
(* createOrExtendSubscription, for an item of an order that has been paid. *)

BeginRecord(h, o, i) ==
  /\ \A s \in subs : s.order # o \/ s.item # i
  /\ \A g \in Handlers : call[g].order # o \/ call[g].item # i
  /\ Begin(h, [Idle EXCEPT !.path = "recorded", !.order = o, !.item = i,
                           !.todo = <<orders[o].cart[i].model>>])

\* Mutant: what is recorded is the list price.
PriceRecordListed(h) ==
  LET c == call[h]
      m == Head(c.todo)
  IN /\ Answered(h, "recorded")
     /\ \/ Become(h, [c EXCEPT !.pc = "save", !.cart = <<QuoteOf(c, m, c.plans[m].costInCents)>>])
        \/ c.plans[m].isTrial /\ End(h)
     /\ Keep

\* resolvePlanAndPrice prices the item anew; what the order says of it is not asked.
\* If the plan is a trial by now, the guards of a trial may refuse the item: whether
\* the user had one, has a subscription, is on Discord (module Subscriptions).
PriceRecord(h) ==
  LET c == call[h]
      m == Head(c.todo)
  IN /\ Answered(h, "recorded")
     /\ \/ Become(h, [c EXCEPT !.pc = "save", !.cart = <<QuoteOf(c, m, PriceOrFree(c, m))>>])
        \/ c.plans[m].isTrial /\ End(h)
     /\ Keep

SaveSub(h) ==
  LET c == call[h] IN
  /\ At(h, "save") /\ c.path = "recorded"
  /\ subs' = subs \cup {[order |-> c.order, item |-> c.item, quote |-> c.cart[1]]}
  /\ End(h)
  /\ UNCHANGED <<now, catalogVars, shown, orders>>

\* A query fails, or the process goes down: the call leaves nothing behind.
Abort(h) == call[h].pc # "idle" /\ End(h) /\ Keep

-----------------------------------------------------------------------------
Next ==
  \/ EditPlans \/ EditPromos \/ Tick
  \/ \E h \in Handlers :
       \/ BeginLook(h) \/ Look(h)
       \/ \E o \in Orders, cart \in Carts : BeginOrder(h, o, cart)
       \/ \E o \in Orders : \E i \in DOMAIN orders[o].cart : BeginRecord(h, o, i)
       \/ ReadPlans(h) \/ ReadPromos(h)
       \/ PriceItem(h) \/ SaveOrder(h) \/ PriceRecord(h) \/ SaveSub(h)
       \/ Abort(h)

Spec == Init /\ [][Next]_vars

-----------------------------------------------------------------------------
(* Properties.                                                             *)

Quotes ==
  shown
  \cup (UNION {ToSet(orders[o].cart) : o \in Orders})
  \cup {s.quote : s \in subs}

\* The pairs of collections that were in force between two clock readings.
InForce(from, at) == UNION {log[t] : t \in from .. at}

\* A price that a client sees, is charged or has on record is one that the plan and
\* the promotions called for: the plan as it was while the call read it, the
\* promotions as they were while it did, the one of highest priority in force
\* when the price was computed, rounded to the nearest cent.  What comes from
\* different moments is never older than the reading of that one item.  The duration
\* is the plan's, but the 24 hours of a trial on a subscription.
QuoteWasOffered ==
  \A q \in Quotes : \E c, d \in InForce(q.from, q.at) :
    LET plan == c[1][q.model] IN
    /\ plan # NoPlan
    /\ q.days = DaysOf(plan, q.path)
    /\ IF plan.isTrial THEN q.price = 0 ELSE IsOffer(q.price, plan, d[2], q.at)

\* What a plan costs, and for how long, at every moment from one clock reading to
\* another.
Terms(m, from, to) ==
  UNION {{<<FinalPrice(c[1][m], c[2], t), c[1][m].durationInDays>> : c \in log[t]} :
           t \in from .. to}

\* The three ways to price a plan agree: what was shown is what is charged, and what
\* was charged is what the subscription records, as long as nobody edited the
\* collections and no promotion began or ended in between.  Only of a trial the list
\* says one duration (durationInDays) and the subscription another (24 hours).
PathsAgree ==
  \A p, q \in Quotes :
    LET from == Min({p.from, q.from})
        to == Max({p.at, q.at})
    IN  p.model = q.model /\ Cardinality(InForce(from, to)) = 1
          /\ Cardinality(Terms(p.model, from, to)) = 1
        => /\ p.price = q.price
           /\ p.days = q.days \/ \E c \in InForce(from, to) : c[1][p.model].isTrial

\* "Free or trial plans cannot be ordered" (orders.controller.ts:70): every item of an
\* order was for sale and had a price when it was put in, however the promotions
\* changed while the cart was gone through.
SoldAtAPrice ==
  \A o \in Orders : \A i \in DOMAIN orders[o].cart :
    LET q == orders[o].cart[i] IN
    /\ q.price > 0 /\ q.price <= orders[o].euroTotal
    /\ \E c \in InForce(q.from, q.at) : c[1][q.model] # NoPlan /\ ~c[1][q.model].isTrial

\* The order in which the database returns the promotions decides about a price only
\* where the two foremost have the same priority.
Unambiguous ==
  \A m \in Models : plans[m] # NoPlan /\ Cardinality(Foremost(plans[m], promos, now)) <= 1 =>
    \A f \in Bijection(DOMAIN promos, DOMAIN promos) :
      FinalPrice(plans[m], [i \in DOMAIN promos |-> promos[f[i]]], now)
        = FinalPrice(plans[m], promos, now)
=============================================================================
