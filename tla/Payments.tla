------------------------------ MODULE Payments ------------------------------
(***************************************************************************)
(* Orders and their payments: OrdersController, OrdersService and          *)
(* PaymentsNowController (src/orders, src/payments).  An order is paid at  *)
(* NOWPayments, which tells the program about it in IPN calls that may be  *)
(* late, repeated or out of order; the client's status polls ask it too.   *)
(* Either handler, on 'finished', creates the subscriptions of the cart    *)
(* one after the other and then flags the order as activated.              *)
(*                                                                         *)
(* A handler works on the copy of the order it found at its start.  One    *)
(* action per database operation or remote call.  What a subscription says *)
(* is in module Subscriptions; here it counts that there is one.           *)
(***************************************************************************)
EXTENDS Naturals, FiniteSets

CONSTANTS
  Orders,      \* order ids
  Payments,    \* payment ids NOWPayments may give out
  Handlers,    \* slots for calls in flight (bound on concurrency)
  NoOrder, NoPayment,
  MaxItems,    \* bound on the items of a cart
  GatewayMoves,\* how the gateway moves a payment: pairs of statuses
  MaxFails, MaxCrashes   \* bounds on failed operations and on crashes

OrderStatus == {"pending", "confirming", "finished", "failed", "expired", "partially_paid"}
GatewayStatus == {"waiting", "confirming", "confirmed", "sending", "partially_paid",
                  "finished", "failed", "expired"}

ASSUME NamesAssumption == NoOrder \notin Orders /\ NoPayment \notin Payments
ASSUME GatewayAssumption == GatewayMoves \subseteq GatewayStatus \X GatewayStatus
ASSUME HandlersAssumption == IsFiniteSet(Handlers)
ASSUME BoundsAssumption ==
  MaxItems \in Nat /\ MaxFails \in Nat /\ MaxCrashes \in Nat

VARIABLES
  status,     \* per order: "none" before it exists, then the status field
  cart,       \* per order: how many items
  activated,  \* per order: activatedAt is set
  paymentId,  \* per order
  subs,       \* per order and item: how many subscriptions were created for it
  remote,     \* per payment: its status at the gateway, "none" before it exists
  reached,    \* per payment: every status it has had there
  payOrder,   \* per payment: the order_id it was created with
  acked,      \* payments whose 'finished' IPN was answered with ok
  pc,         \* per slot: where the call is
  kind,       \* per slot: "ipn", "poll" or "pay"
  order,      \* per slot: the order it works on
  payment,    \* per slot: the payment it was called for
  target,     \* per slot: the order status it maps the payment's to, or "null"
  seen,       \* per slot: its copy of the order's status
  seenActive, \* per slot: its copy of activatedAt
  item,       \* per slot: the next item of the cart
  fails, crashes,
  disturbed   \* history: orders two IPNs or polls of which overlapped, or one of
              \* which was cut short

orderVars == <<status, cart, activated, paymentId>>
gatewayVars == <<remote, reached, payOrder, acked>>
callVars == <<pc, kind, order, payment, target, seen, seenActive, item>>
vars == <<status, cart, activated, paymentId, subs, remote, reached, payOrder, acked,
          pc, kind, order, payment, target, seen, seenActive, item, fails, crashes, disturbed>>

Items == 1 .. MaxItems
Pcs == {"idle", "setPayment", "remote", "setStatus", "item", "mark", "reply"}

TypeOK ==
  /\ status \in [Orders -> OrderStatus \cup {"none"}]
  /\ cart \in [Orders -> 0 .. MaxItems]
  /\ activated \in [Orders -> BOOLEAN]
  /\ paymentId \in [Orders -> Payments \cup {NoPayment}]
  /\ subs \in [Orders \X Items -> Nat]
  /\ remote \in [Payments -> GatewayStatus \cup {"none"}]
  /\ reached \in [Payments -> SUBSET GatewayStatus]
  /\ payOrder \in [Payments -> Orders \cup {NoOrder}]
  /\ acked \in SUBSET Payments
  /\ pc \in [Handlers -> Pcs]
  /\ kind \in [Handlers -> {"ipn", "poll", "pay"}]
  /\ order \in [Handlers -> Orders \cup {NoOrder}]
  /\ payment \in [Handlers -> Payments \cup {NoPayment}]
  /\ target \in [Handlers -> OrderStatus \cup {"null"}]
  /\ seen \in [Handlers -> OrderStatus \cup {"null"}]
  /\ seenActive \in [Handlers -> BOOLEAN]
  /\ item \in [Handlers -> 1 .. MaxItems + 1]
  /\ fails \in Nat
  /\ crashes \in Nat
  /\ disturbed \in SUBSET Orders

Init ==
  /\ status = [o \in Orders |-> "none"]
  /\ cart = [o \in Orders |-> 0]
  /\ activated = [o \in Orders |-> FALSE]
  /\ paymentId = [o \in Orders |-> NoPayment]
  /\ subs = [oi \in Orders \X Items |-> 0]
  /\ remote = [p \in Payments |-> "none"]
  /\ reached = [p \in Payments |-> {}]
  /\ payOrder = [p \in Payments |-> NoOrder]
  /\ acked = {}
  /\ pc = [h \in Handlers |-> "idle"]
  /\ kind = [h \in Handlers |-> "pay"]
  /\ order = [h \in Handlers |-> NoOrder]
  /\ payment = [h \in Handlers |-> NoPayment]
  /\ target = [h \in Handlers |-> "null"]
  /\ seen = [h \in Handlers |-> "null"]
  /\ seenActive = [h \in Handlers |-> FALSE]
  /\ item = [h \in Handlers |-> 1]
  /\ fails = 0
  /\ crashes = 0
  /\ disturbed = {}

-----------------------------------------------------------------------------
(* Calls.                                                                  *)

Locals(h, o, p, t, s, a) ==
  /\ order' = [order EXCEPT ![h] = o]
  /\ payment' = [payment EXCEPT ![h] = p]
  /\ target' = [target EXCEPT ![h] = t]
  /\ seen' = [seen EXCEPT ![h] = s]
  /\ seenActive' = [seenActive EXCEPT ![h] = a]
  /\ item' = [item EXCEPT ![h] = 1]

\* The calls that may activate order o.
Working(o) == {g \in Handlers : order[g] = o /\ kind[g] # "pay"}

\* A call enters with the copies it makes of the order.
Enter(h, k, l, o, p, t, s, a) ==
  /\ pc[h] = "idle"
  /\ pc' = [pc EXCEPT ![h] = l]
  /\ kind' = [kind EXCEPT ![h] = k]
  /\ Locals(h, o, p, t, s, a)
  /\ disturbed' = IF k # "pay" /\ Working(o) # {} THEN disturbed \cup {o} ELSE disturbed

Goto(h, l) ==
  /\ pc' = [pc EXCEPT ![h] = l]
  /\ UNCHANGED <<kind, order, payment, target, seen, seenActive, item>>

End(h) ==
  /\ pc' = [pc EXCEPT ![h] = "idle"]
  /\ kind' = [kind EXCEPT ![h] = "pay"]
  /\ Locals(h, NoOrder, NoPayment, "null", "null", FALSE)

\* What follows the status update: the activation, if the copy of the order
\* has not been activated.
Activation(t, a) == IF t = "finished" /\ ~a THEN "item" ELSE "reply"

AfterFind(t, s, a) == IF t # "null" /\ t # s THEN "setStatus" ELSE Activation(t, a)

-----------------------------------------------------------------------------
(* Orders and the creation of payments.                                    *)

\* Prices and trial plans are checked before the one write.
CreateOrder(o, n) ==
  /\ status[o] = "none"
  /\ status' = [status EXCEPT ![o] = "pending"]
  /\ cart' = [cart EXCEPT ![o] = n]
  /\ UNCHANGED <<activated, paymentId, subs, gatewayVars, callVars, fails, crashes, disturbed>>

\* The order exists; the gateway creates a payment for it.
CreatePayment(h, o, p) ==
  /\ status[o] # "none" /\ remote[p] = "none"
  /\ Enter(h, "pay", "setPayment", o, p, "null", "null", FALSE)
  /\ remote' = [remote EXCEPT ![p] = "waiting"]
  /\ reached' = [reached EXCEPT ![p] = {"waiting"}]
  /\ payOrder' = [payOrder EXCEPT ![p] = o]
  /\ UNCHANGED <<orderVars, subs, acked, fails, crashes>>

\* A second payment of the order takes the place of the first.
SetPayment(h) ==
  /\ pc[h] = "setPayment"
  /\ paymentId' = [paymentId EXCEPT ![order[h]] = payment[h]]
  /\ End(h)
  /\ UNCHANGED <<status, cart, activated, subs, gatewayVars, fails, crashes, disturbed>>

\* NOWPayments, as far as the program can tell.
GatewayStep(p) ==
  \E s \in GatewayStatus :
    /\ <<remote[p], s>> \in GatewayMoves
    /\ remote' = [remote EXCEPT ![p] = s]
    /\ reached' = [reached EXCEPT ![p] = @ \cup {s}]
    /\ UNCHANGED <<orderVars, subs, payOrder, acked, callVars, fails, crashes, disturbed>>

-----------------------------------------------------------------------------
(* The IPN.                                                                *)

IpnStatus(s) ==
  IF s \in {"confirming", "confirmed"} THEN "confirming"
  ELSE IF s \in {"finished", "failed", "expired", "partially_paid"} THEN s ELSE "null"

\* Any status the payment ever had may be delivered now, again or for the first
\* time.  An IPN whose order is unknown changes nothing.
IpnFind(h, p, s) ==
  LET o == payOrder[p] IN
  /\ s \in reached[p]
  /\ Enter(h, "ipn", AfterFind(IpnStatus(s), status[o], activated[o]),
           o, p, IpnStatus(s), status[o], activated[o])
  /\ UNCHANGED <<orderVars, subs, gatewayVars, fails, crashes>>

-----------------------------------------------------------------------------
(* The status poll.                                                        *)

FinalStatus == {"finished", "failed", "expired"}

PollStatus(s) == IF s = "waiting" THEN "pending" ELSE IpnStatus(s)

\* For an order that is final the poll answers from the database at once.
PollFind(h, p) ==
  \E o \in Orders :
    /\ paymentId[o] = p
    /\ status[o] \notin FinalStatus
    /\ Enter(h, "poll", "remote", o, p, "null", status[o], activated[o])
    /\ UNCHANGED <<orderVars, subs, gatewayVars, fails, crashes>>

PollRemote(h) ==
  LET t == PollStatus(remote[payment[h]]) IN
  /\ pc[h] = "remote"
  /\ pc' = [pc EXCEPT ![h] = AfterFind(t, seen[h], seenActive[h])]
  /\ target' = [target EXCEPT ![h] = t]
  /\ UNCHANGED <<kind, order, payment, seen, seenActive, item>>
  /\ UNCHANGED <<orderVars, subs, gatewayVars, fails, crashes, disturbed>>

-----------------------------------------------------------------------------
(* What both handlers do with the status they were told.                   *)

\* Mutant: the activation does not ask for 'finished'.
SetStatusActivates(h) ==
  /\ pc[h] = "setStatus"
  /\ status' = [status EXCEPT ![order[h]] = target[h]]
  /\ Goto(h, IF seenActive[h] THEN "reply" ELSE "item")
  /\ UNCHANGED <<cart, activated, paymentId, subs, gatewayVars, fails, crashes, disturbed>>

\* setStatus: whatever the order's status is by now.
SetStatus(h) ==
  /\ pc[h] = "setStatus"
  /\ status' = [status EXCEPT ![order[h]] = target[h]]
  /\ Goto(h, Activation(target[h], seenActive[h]))
  /\ UNCHANGED <<cart, activated, paymentId, subs, gatewayVars, fails, crashes, disturbed>>

\* Mutant: the loop leaves out the last item.
CreateSubShort(h) ==
  /\ pc[h] = "item"
  /\ subs' = [subs EXCEPT ![<<order[h], item[h]>>] = @ + 1]
  /\ item' = [item EXCEPT ![h] = @ + 1]
  /\ pc' = [pc EXCEPT ![h] = IF item[h] + 1 < cart[order[h]] THEN "item" ELSE "mark"]
  /\ UNCHANGED <<kind, order, payment, target, seen, seenActive>>
  /\ UNCHANGED <<orderVars, gatewayVars, fails, crashes, disturbed>>

\* Mutant: every item is created twice.
CreateSubTwice(h) ==
  /\ pc[h] = "item"
  /\ subs' = [subs EXCEPT ![<<order[h], item[h]>>] = @ + 2]
  /\ item' = [item EXCEPT ![h] = @ + 1]
  /\ pc' = [pc EXCEPT ![h] = IF item[h] < cart[order[h]] THEN "item" ELSE "mark"]
  /\ UNCHANGED <<kind, order, payment, target, seen, seenActive>>
  /\ UNCHANGED <<orderVars, gatewayVars, fails, crashes, disturbed>>

\* createOrExtendSubscription for one item of the cart.
CreateSub(h) ==
  /\ pc[h] = "item"
  /\ subs' = [subs EXCEPT ![<<order[h], item[h]>>] = @ + 1]
  /\ item' = [item EXCEPT ![h] = @ + 1]
  /\ pc' = [pc EXCEPT ![h] = IF item[h] < cart[order[h]] THEN "item" ELSE "mark"]
  /\ UNCHANGED <<kind, order, payment, target, seen, seenActive>>
  /\ UNCHANGED <<orderVars, gatewayVars, fails, crashes, disturbed>>

\* Mutant: the flag is never set.
MarkForgotten(h) ==
  /\ pc[h] = "mark"
  /\ Goto(h, "reply")
  /\ UNCHANGED <<orderVars, subs, gatewayVars, fails, crashes, disturbed>>

\* Mutant: the flag is written to the status field as well, as 'activated'.
MarkAsStatus(h) ==
  /\ pc[h] = "mark"
  /\ activated' = [activated EXCEPT ![order[h]] = TRUE]
  /\ status' = [status EXCEPT ![order[h]] = "activated"]
  /\ Goto(h, "reply")
  /\ UNCHANGED <<cart, paymentId, subs, gatewayVars, fails, crashes, disturbed>>

\* markActivated sets the flag where it is not set; nobody looks at whether it
\* was.
MarkActivated(h) ==
  /\ pc[h] = "mark"
  /\ activated' = [activated EXCEPT ![order[h]] = TRUE]
  /\ Goto(h, "reply")
  /\ UNCHANGED <<status, cart, paymentId, subs, gatewayVars, fails, crashes, disturbed>>

Reply(h) ==
  /\ pc[h] = "reply"
  /\ acked' = IF kind[h] = "ipn" /\ target[h] = "finished" THEN acked \cup {payment[h]} ELSE acked
  /\ End(h)
  /\ UNCHANGED <<orderVars, subs, remote, reached, payOrder, fails, crashes, disturbed>>

\* A database operation or the remote query fails: the IPN answers an error, the
\* poll swallows it, and either call ends where it is.
CallFails(h) ==
  /\ pc[h] \notin {"idle", "reply"}
  /\ fails < MaxFails
  /\ fails' = fails + 1
  /\ disturbed' = disturbed \cup {o \in Orders : h \in Working(o)}
  /\ End(h)
  /\ UNCHANGED <<orderVars, subs, gatewayVars, crashes>>

\* The process goes down and comes up again; nothing resumes a call.
Crash ==
  /\ crashes < MaxCrashes
  /\ crashes' = crashes + 1
  /\ disturbed' = disturbed \cup {o \in Orders : Working(o) # {}}
  /\ pc' = [h \in Handlers |-> "idle"]
  /\ kind' = [h \in Handlers |-> "pay"]
  /\ order' = [h \in Handlers |-> NoOrder]
  /\ payment' = [h \in Handlers |-> NoPayment]
  /\ target' = [h \in Handlers |-> "null"]
  /\ seen' = [h \in Handlers |-> "null"]
  /\ seenActive' = [h \in Handlers |-> FALSE]
  /\ item' = [h \in Handlers |-> 1]
  /\ UNCHANGED <<orderVars, subs, gatewayVars, fails>>

-----------------------------------------------------------------------------
HandlerStep(h) ==
  SetPayment(h) \/ PollRemote(h) \/ SetStatus(h) \/ CreateSub(h) \/ MarkActivated(h) \/ Reply(h)

Next ==
  \/ \E o \in Orders, n \in Items : CreateOrder(o, n)
  \/ \E h \in Handlers, o \in Orders, p \in Payments : CreatePayment(h, o, p)
  \/ \E p \in Payments : GatewayStep(p)
  \/ \E h \in Handlers, p \in Payments :
       PollFind(h, p) \/ \E s \in GatewayStatus : IpnFind(h, p, s)
  \/ \E h \in Handlers : HandlerStep(h) \/ CallFails(h)
  \/ Crash

Spec == Init /\ [][Next]_vars

HandlersRun == \A h \in Handlers : WF_vars(HandlerStep(h))

\* The gateway delivers a 'finished' IPN until it is answered with ok.  Strong
\* fairness, because the slots of the model may all be taken for a moment.
GatewayInsists ==
  \A p \in Payments :
    SF_vars(p \notin acked /\ \E h \in Handlers : IpnFind(h, p, "finished"))

InsistSpec == Spec /\ HandlersRun /\ GatewayInsists

-----------------------------------------------------------------------------
(* Properties.                                                             *)

Paid(o) == \E p \in Payments : payOrder[p] = o /\ "finished" \in reached[p]

\* No order is finished, activated or has a subscription without a payment of
\* ITS OWN that the gateway has finished, however IPNs are reordered, repeated or
\* cut short.
NothingForFree ==
  \A o \in Orders :
    status[o] = "finished" \/ activated[o] \/ (\E i \in Items : subs[<<o, i>>] > 0) => Paid(o)

\* An activated order has a subscription for every item of its cart: the flag is
\* set last, so that neither a failure nor a crash nor a race can make later
\* handlers skip an item.
ActivatedIsComplete ==
  \A o \in Orders : activated[o] => \A i \in 1 .. cart[o] : subs[<<o, i>>] >= 1

\* "Only activate on 'finished' status and only once"
\* (payments-now.controller.ts:44): no item of an order is given out twice, however
\* often the gateway repeats itself and the client polls, as long as its IPNs and
\* polls do not overlap and none of them fails or is cut short.
OnceUndisturbed ==
  \A o \in Orders \ disturbed, i \in Items : subs[<<o, i>>] <= 1

\* The same comment, and "Idempotent activation" (:144), as they stand.
OnlyOnce == \A o \in Orders, i \in Items : subs[<<o, i>>] <= 1

\* How wrong it can go: without failures an item is given out at most as often
\* as there were calls in flight together; every failed call and every crash may
\* add as many as it cut short.
OverActivationBounded ==
  \A o \in Orders, i \in Items :
    subs[<<o, i>>] <= Cardinality(Handlers) * (1 + crashes) + fails

\* A finished payment ends in an activated order.
PaidIsActivated == \A o \in Orders : Paid(o) ~> activated[o]
=============================================================================
