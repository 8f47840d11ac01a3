---------------------------- MODULE PaymentsProofs ----------------------------
(***************************************************************************)
(* Proofs about Payments, for any orders, payments, carts and slots, and   *)
(* for any number of failures and crashes.  A call in flight works on the  *)
(* order its payment was made for (Calls), and is told 'finished' only if  *)
(* that payment was (Told); what it has created so far is what its item    *)
(* says (Progress).  As long as no two calls of an order overlap and none  *)
(* is cut short, nothing is created before the one call that will create   *)
(* everything, and nothing after it (Untouched).                           *)
(***************************************************************************)
EXTENDS Payments, FiniteSetTheorems, TLAPS

Known ==
  /\ \A p \in Payments :
       /\ remote[p] = "none" => reached[p] = {}
       /\ remote[p] # "none" => /\ remote[p] \in reached[p]
                                /\ payOrder[p] \in Orders /\ status[payOrder[p]] # "none"
  /\ \A o \in Orders :
       /\ paymentId[o] # NoPayment => /\ remote[paymentId[o]] # "none"
                                      /\ payOrder[paymentId[o]] = o
       /\ status[o] = "none" => ~activated[o]
       /\ status[o] # "none" => cart[o] >= 1

Calls ==
  \A h \in Handlers :
    /\ pc[h] = "idle" => order[h] = NoOrder /\ kind[h] = "pay"
    /\ pc[h] # "idle" => /\ order[h] \in Orders /\ payment[h] \in Payments
                         /\ remote[payment[h]] # "none" /\ payOrder[payment[h]] = order[h]
    /\ pc[h] = "setPayment" => kind[h] = "pay"
    /\ pc[h] \notin {"idle", "setPayment"} => kind[h] # "pay"
    /\ pc[h] = "setStatus" => target[h] # "null"
    /\ pc[h] \in {"item", "mark"} => target[h] = "finished"

Told == \A h \in Handlers : pc[h] # "idle" /\ target[h] = "finished" => Paid(order[h])

Done(h) ==
  /\ pc[h] \in {"remote", "setStatus"} => item[h] = 1
  /\ pc[h] = "item" => /\ item[h] <= cart[order[h]]
                       /\ \A i \in Items : i < item[h] => subs[<<order[h], i>>] >= 1
  /\ pc[h] = "mark" => \A i \in Items : i <= cart[order[h]] => subs[<<order[h], i>>] >= 1

Progress == \A h \in Handlers : Done(h)

PayInv == TypeOK /\ Known /\ Calls /\ Told /\ Progress /\ NothingForFree /\ ActivatedIsComplete

-----------------------------------------------------------------------------
LEMMA Statuses ==
  /\ \A s \in GatewayStatus : IpnStatus(s) \in OrderStatus \cup {"null"}
                              /\ (IpnStatus(s) = "finished" <=> s = "finished")
  /\ \A s \in GatewayStatus : PollStatus(s) \in OrderStatus \cup {"null"}
                              /\ (PollStatus(s) = "finished" <=> s = "finished")
  /\ "none" \notin GatewayStatus
  /\ "none" \notin OrderStatus /\ "null" \notin OrderStatus /\ "pending" \in OrderStatus
<1>1. ASSUME NEW s \in GatewayStatus
      PROVE  /\ IpnStatus(s) \in OrderStatus \cup {"null"}
             /\ IpnStatus(s) = "finished" <=> s = "finished"
  BY DEF IpnStatus, OrderStatus
<1>2. ASSUME NEW s \in GatewayStatus
      PROVE  /\ PollStatus(s) \in OrderStatus \cup {"null"}
             /\ PollStatus(s) = "finished" <=> s = "finished"
  BY <1>1 DEF PollStatus, OrderStatus
<1>3. /\ "none" \notin GatewayStatus
      /\ "none" \notin OrderStatus /\ "null" \notin OrderStatus /\ "pending" \in OrderStatus
  BY DEF GatewayStatus, OrderStatus
<1> QED
  BY <1>1, <1>2, <1>3

LEMMA InitPay == Init => PayInv
<1> SUFFICES ASSUME Init PROVE PayInv
  OBVIOUS
<1>1. TypeOK
  BY BoundsAssumption DEF Init, TypeOK, Pcs, Items
<1>2. Known /\ Calls /\ Told /\ Progress
  BY DEF Init, Known, Calls, Told, Progress, Done
<1>3. NothingForFree
  <2>1. \A o \in Orders : status[o] # "finished" /\ ~activated[o]
    BY DEF Init
  <2>2. ASSUME NEW o \in Orders, NEW i \in Items PROVE ~(subs[<<o, i>>] > 0)
    <3>1. subs[<<o, i>>] = 0
      BY DEF Init
    <3> QED
      BY <3>1
  <2> QED
    BY <2>1, <2>2, Zenon DEF NothingForFree
<1>4. ActivatedIsComplete
  BY DEF Init, ActivatedIsComplete
<1> QED
  BY <1>1, <1>2, <1>3, <1>4 DEF PayInv

\* Where a call goes that has looked at the order.
LEMMA Next2 ==
  ASSUME NEW t, NEW s, NEW a \in BOOLEAN
  PROVE  /\ AfterFind(t, s, a) \in {"setStatus", "item", "reply"}
         /\ AfterFind(t, s, a) = "setStatus" => t # "null"
         /\ AfterFind(t, s, a) = "item" => t = "finished" /\ ~a
         /\ Activation(t, a) \in {"item", "reply"}
         /\ Activation(t, a) = "item" => t = "finished" /\ ~a
  BY DEF AfterFind, Activation

-----------------------------------------------------------------------------
(* One lemma per action.                                                   *)

LEMMA CreateOrderKeeps ==
  ASSUME PayInv, NEW o \in Orders, NEW n \in Items, CreateOrder(o, n)
  PROVE  PayInv'
<1> USE DEF PayInv, CreateOrder, gatewayVars, callVars
<1>1. TypeOK'
  BY Statuses DEF TypeOK, Items
<1>2. \A h \in Handlers : pc[h] # "idle" => order[h] # o
  BY DEF Calls, Known, TypeOK
<1>3. Known'
  BY BoundsAssumption DEF TypeOK, Known, Items
<1>4. Calls' /\ Told'
  BY DEF Calls, Told, Paid
<1>5. Progress'
  BY <1>2 DEF TypeOK, Progress, Done
<1>6. NothingForFree'
  BY DEF TypeOK, NothingForFree, Paid
<1>7. ActivatedIsComplete'
  BY DEF TypeOK, Known, ActivatedIsComplete
<1> QED
  BY <1>1, <1>3, <1>4, <1>5, <1>6, <1>7

LEMMA CreatePaymentKeeps ==
  ASSUME PayInv, NEW h \in Handlers, NEW o \in Orders, NEW p \in Payments, CreatePayment(h, o, p)
  PROVE  PayInv'
<1> USE DEF PayInv
<1>1. /\ Enter(h, "pay", "setPayment", o, p, "null", "null", FALSE)
      /\ status[o] # "none" /\ remote[p] = "none" /\ reached[p] = {}
      /\ remote' = [remote EXCEPT ![p] = "waiting"]
      /\ reached' = [reached EXCEPT ![p] = {"waiting"}]
      /\ payOrder' = [payOrder EXCEPT ![p] = o]
      /\ UNCHANGED <<orderVars, subs, acked, fails, crashes>>
  BY DEF CreatePayment, Known
<1>2. \A x \in Orders : Paid(x) => Paid(x)'
  BY <1>1 DEF Paid, TypeOK
<1>3. Known'
  BY <1>1 DEF Known, TypeOK, orderVars
<1>4. Calls'
  BY <1>1 DEF Calls, TypeOK, Enter, Locals
<1>5. Told'
  BY <1>1, <1>2 DEF Told, Calls, TypeOK, Enter, Locals
<1>6. TypeOK'
  <2>1. "waiting" \in GatewayStatus /\ 1 \in 1 .. MaxItems + 1
    BY BoundsAssumption DEF GatewayStatus
  <2> QED
    BY <1>1, <2>1 DEF TypeOK, Pcs, Enter, Locals, orderVars
<1>9. Progress'
  BY <1>1 DEF TypeOK, Progress, Done, Enter, Locals, orderVars
<1>7. NothingForFree'
  BY <1>1, <1>2 DEF NothingForFree, orderVars
<1>8. ActivatedIsComplete'
  BY <1>1 DEF ActivatedIsComplete, orderVars
<1> QED
  BY <1>3, <1>4, <1>5, <1>6, <1>7, <1>8, <1>9

\* IpnFind and PollFind: the call that enters has found its order.
LEMMA FindKeeps ==
  ASSUME PayInv, NEW h \in Handlers, NEW k \in {"ipn", "poll"},
         NEW l \in {"remote", "setStatus", "item", "reply"},
         NEW p \in Payments, remote[p] # "none", NEW o \in Orders, o = payOrder[p],
         NEW t \in OrderStatus \cup {"null"},
         Enter(h, k, l, o, p, t, status[o], activated[o]),
         l = "setStatus" => t # "null", l = "item" => t = "finished",
         t = "finished" => Paid(o),
         UNCHANGED <<orderVars, subs, gatewayVars, fails, crashes>>
  PROVE  PayInv'
<1> USE DEF PayInv
<1>1. \A x \in Orders : Paid(x) <=> Paid(x)'
  BY DEF Paid, gatewayVars
<1>2. Known'
  BY DEF Known, orderVars, gatewayVars
<1>3. Calls'
  BY DEF Calls, TypeOK, Enter, Locals, gatewayVars
<1>4. Told'
  BY <1>1 DEF Told, Calls, TypeOK, Enter, Locals
<1>5. TypeOK'
  <2>1. status[o] \in OrderStatus /\ 1 \in 1 .. MaxItems + 1 /\ l \in Pcs
    BY BoundsAssumption DEF TypeOK, Known, Pcs
  <2> QED
    BY <2>1 DEF TypeOK, Enter, Locals, orderVars, gatewayVars
<1>6. Progress'
  BY BoundsAssumption DEF TypeOK, Known, Progress, Done, Enter, Locals, orderVars, Items
<1>7. NothingForFree' /\ ActivatedIsComplete'
  BY <1>1 DEF NothingForFree, ActivatedIsComplete, orderVars
<1> QED
  BY <1>2, <1>3, <1>4, <1>5, <1>6, <1>7

LEMMA IpnFindKeeps ==
  ASSUME PayInv, NEW h \in Handlers, NEW p \in Payments, NEW s \in GatewayStatus, IpnFind(h, p, s)
  PROVE  PayInv'
<1> DEFINE o == payOrder[p]
           t == IpnStatus(s)
<1>1. s \in reached[p] /\ remote[p] # "none" /\ o \in Orders
  BY DEF IpnFind, PayInv, Known
<1>2. t \in OrderStatus \cup {"null"} /\ (t = "finished" => Paid(o))
  BY <1>1, Statuses DEF Paid
<1>3. activated[o] \in BOOLEAN
  BY <1>1 DEF PayInv, TypeOK
<1>4. /\ AfterFind(t, status[o], activated[o]) \in {"setStatus", "item", "reply"}
      /\ AfterFind(t, status[o], activated[o]) = "setStatus" => t # "null"
      /\ AfterFind(t, status[o], activated[o]) = "item" => t = "finished"
  BY <1>3, Next2
<1>5. /\ Enter(h, "ipn", AfterFind(t, status[o], activated[o]), o, p, t, status[o], activated[o])
      /\ UNCHANGED <<orderVars, subs, gatewayVars, fails, crashes>>
  BY DEF IpnFind
<1> HIDE DEF t, o
<1> QED
  BY <1>1, <1>2, <1>4, <1>5, FindKeeps DEF o

LEMMA PollFindKeeps ==
  ASSUME PayInv, NEW h \in Handlers, NEW p \in Payments, PollFind(h, p)
  PROVE  PayInv'
<1> PICK o \in Orders :
      /\ paymentId[o] = p
      /\ Enter(h, "poll", "remote", o, p, "null", status[o], activated[o])
      /\ UNCHANGED <<orderVars, subs, gatewayVars, fails, crashes>>
  BY DEF PollFind
<1>1. remote[p] # "none" /\ o = payOrder[p]
  BY NamesAssumption DEF PayInv, Known
<1> QED
  BY <1>1, FindKeeps

\* The poll goes on with the status it was told.
LEMMA PollRemoteKeeps ==
  ASSUME PayInv, NEW h \in Handlers, PollRemote(h)
  PROVE  PayInv'
<1> USE DEF PayInv
<1> DEFINE t == PollStatus(remote[payment[h]])
           l == AfterFind(t, seen[h], seenActive[h])
<1>1. /\ pc[h] = "remote" /\ order[h] \in Orders /\ payment[h] \in Payments
      /\ remote[payment[h]] \in reached[payment[h]] /\ payOrder[payment[h]] = order[h]
      /\ remote[payment[h]] \in GatewayStatus /\ cart[order[h]] >= 1
  BY DEF PollRemote, Calls, Known, TypeOK
<1>2. t \in OrderStatus \cup {"null"} /\ (t = "finished" => Paid(order[h]))
  BY <1>1, Statuses DEF Paid
<1>3. /\ l \in {"setStatus", "item", "reply"}
      /\ l = "setStatus" => t # "null" /\ (l = "item" => t = "finished")
      /\ l = "item" => t = "finished"
  BY Next2 DEF TypeOK
<1>4. /\ pc' = [pc EXCEPT ![h] = l] /\ target' = [target EXCEPT ![h] = t]
      /\ UNCHANGED <<kind, order, payment, seen, seenActive, item>>
      /\ UNCHANGED <<status, cart, activated, paymentId, subs, remote, reached, payOrder, acked,
                     fails, crashes, disturbed>>
  BY DEF PollRemote, orderVars, gatewayVars
<1> HIDE DEF t, l
<1>5. TypeOK'
  BY <1>2, <1>3, <1>4 DEF TypeOK, Pcs
<1>6. Known'
  BY <1>4 DEF Known
<1>7. Calls'
  BY <1>1, <1>3, <1>4 DEF Calls, TypeOK
<1>8. Told'
  BY <1>1, <1>2, <1>4 DEF Told, TypeOK, Paid
<1>9. Progress'
  BY <1>1, <1>3, <1>4, BoundsAssumption DEF Progress, Done, TypeOK, Items
<1>10. NothingForFree' /\ ActivatedIsComplete'
  BY <1>4 DEF NothingForFree, ActivatedIsComplete, Paid
<1> QED
  BY <1>5, <1>6, <1>7, <1>8, <1>9, <1>10

\* A slot whose call is over.
LEMMA EndKeeps ==
  ASSUME PayInv, NEW h \in Handlers, End(h),
         UNCHANGED <<status, cart, activated, subs, remote, reached, payOrder>>,
         acked' \in SUBSET Payments, fails' \in Nat, UNCHANGED crashes,
         disturbed' \in SUBSET Orders,
         \/ UNCHANGED paymentId
         \/ /\ pc[h] = "setPayment"
            /\ paymentId' = [paymentId EXCEPT ![order[h]] = payment[h]]
  PROVE  PayInv'
<1> USE DEF PayInv
<1>1. TypeOK'
  BY BoundsAssumption DEF TypeOK, End, Locals, Pcs, Calls
<1>2. Known'
  BY NamesAssumption DEF TypeOK, Known, Calls
<1>3. Calls'
  BY DEF TypeOK, Calls, End, Locals
<1>4. Told'
  BY DEF TypeOK, Told, End, Locals, Paid
<1>5. Progress'
  BY DEF TypeOK, Progress, Done, End, Locals
<1>6. NothingForFree' /\ ActivatedIsComplete'
  BY DEF NothingForFree, ActivatedIsComplete, Paid
<1> QED
  BY <1>1, <1>2, <1>3, <1>4, <1>5, <1>6

LEMMA GatewayStepKeeps ==
  ASSUME PayInv, NEW p \in Payments, GatewayStep(p)
  PROVE  PayInv'
<1> USE DEF PayInv
<1> PICK s \in GatewayStatus :
      /\ <<remote[p], s>> \in GatewayMoves
      /\ remote' = [remote EXCEPT ![p] = s]
      /\ reached' = [reached EXCEPT ![p] = @ \cup {s}]
      /\ UNCHANGED <<status, cart, activated, paymentId, subs, payOrder, acked, pc, kind, order,
                     payment, target, seen, seenActive, item, fails, crashes, disturbed>>
  BY DEF GatewayStep, orderVars, callVars
<1>1. remote[p] # "none" /\ s # "none"
  BY GatewayAssumption, Statuses
<1>2. \A x \in Orders : Paid(x) => Paid(x)'
  BY DEF Paid, TypeOK
<1>3. TypeOK'
  BY DEF TypeOK
<1>4. Known'
  BY <1>1 DEF Known, TypeOK
<1>5. Calls'
  BY <1>1 DEF Calls, TypeOK
<1>6. Told'
  BY <1>2 DEF Told, Calls
<1>7. Progress' /\ ActivatedIsComplete'
  BY DEF Progress, Done, ActivatedIsComplete
<1>8. NothingForFree'
  BY <1>2 DEF NothingForFree
<1> QED
  BY <1>3, <1>4, <1>5, <1>6, <1>7, <1>8

LEMMA SetStatusKeeps ==
  ASSUME PayInv, NEW h \in Handlers, SetStatus(h)
  PROVE  PayInv'
<1> USE DEF PayInv
<1> DEFINE l == Activation(target[h], seenActive[h])
<1>1. /\ pc[h] = "setStatus" /\ order[h] \in Orders /\ target[h] \in OrderStatus
      /\ status[order[h]] # "none" /\ item[h] = 1 /\ cart[order[h]] >= 1
  BY DEF SetStatus, Calls, Known, TypeOK, Progress, Done
<1>2. l \in {"item", "reply"} /\ (l = "item" => target[h] = "finished")
  BY DEF Activation
<1>3. /\ status' = [status EXCEPT ![order[h]] = target[h]] /\ pc' = [pc EXCEPT ![h] = l]
      /\ UNCHANGED <<cart, activated, paymentId, subs, remote, reached, payOrder, acked, kind,
                     order, payment, target, seen, seenActive, item, fails, crashes, disturbed>>
  BY DEF SetStatus, Goto, gatewayVars
<1> HIDE DEF l
<1>4. TypeOK'
  BY <1>1, <1>2, <1>3 DEF TypeOK, Pcs
<1>5. Known'
  BY <1>1, <1>3, Statuses DEF Known, TypeOK
<1>6. Calls'
  BY <1>1, <1>2, <1>3 DEF Calls, TypeOK
<1>7. Told'
  BY <1>1, <1>3 DEF Told, TypeOK, Paid
<1>8. Progress'
  BY <1>1, <1>2, <1>3, BoundsAssumption DEF Progress, Done, TypeOK, Items
<1>9. target[h] = "finished" => Paid(order[h])
  BY <1>1 DEF Told
<1>10. NothingForFree'
  BY <1>1, <1>3, <1>9 DEF NothingForFree, Paid, TypeOK
<1>11. ActivatedIsComplete'
  BY <1>3 DEF ActivatedIsComplete
<1> QED
  BY <1>4, <1>5, <1>6, <1>7, <1>8, <1>10, <1>11

\* The item that a call is about to create.
LEMMA ItemAhead ==
  ASSUME PayInv, NEW h \in Handlers, pc[h] = "item"
  PROVE  /\ order[h] \in Orders /\ item[h] \in Items /\ item[h] <= cart[order[h]]
         /\ cart[order[h]] \in Nat /\ <<order[h], item[h]>> \in Orders \X Items
         /\ Paid(order[h])
<1>1. /\ order[h] \in Orders /\ item[h] \in Nat /\ item[h] >= 1 /\ item[h] <= cart[order[h]]
      /\ target[h] = "finished"
  BY BoundsAssumption DEF PayInv, Calls, TypeOK, Progress, Done
<1>2. cart[order[h]] \in 0 .. MaxItems
  BY <1>1 DEF PayInv, TypeOK
<1>3. item[h] \in Items
  BY <1>1, <1>2, BoundsAssumption DEF Items
<1> QED
  BY <1>1, <1>2, <1>3, BoundsAssumption DEF PayInv, Told

LEMMA CreateSubKeeps ==
  ASSUME PayInv, NEW h \in Handlers, CreateSub(h)
  PROVE  PayInv'
<1> USE DEF PayInv
<1> DEFINE o == order[h]
           i == item[h]
           l == IF i < cart[o] THEN "item" ELSE "mark"
<1>1. /\ pc[h] = "item" /\ o \in Orders /\ i \in Items /\ i <= cart[o] /\ cart[o] \in Nat
      /\ <<o, i>> \in Orders \X Items /\ Paid(o) /\ target[h] = "finished"
  BY ItemAhead DEF CreateSub, Calls
<1>2. /\ subs' = [subs EXCEPT ![<<o, i>>] = @ + 1] /\ item' = [item EXCEPT ![h] = i + 1]
      /\ pc' = [pc EXCEPT ![h] = l]
      /\ UNCHANGED <<status, cart, activated, paymentId, remote, reached, payOrder, acked, kind,
                     order, payment, target, seen, seenActive, fails, crashes, disturbed>>
  BY DEF CreateSub, orderVars, gatewayVars
<1>3. /\ subs' \in [Orders \X Items -> Nat] /\ subs'[<<o, i>>] >= 1
      /\ \A x \in Orders, j \in Items : subs'[<<x, j>>] >= subs[<<x, j>>]
      /\ \A x \in Orders, j \in Items : x # o => subs'[<<x, j>>] = subs[<<x, j>>]
  <2>1. subs[<<o, i>>] \in Nat /\ subs'[<<o, i>>] = subs[<<o, i>>] + 1
    BY <1>1, <1>2 DEF TypeOK
  <2>2. subs' \in [Orders \X Items -> Nat]
    BY <1>1, <1>2, <2>1 DEF TypeOK
  <2>3. ASSUME NEW x \in Orders, NEW j \in Items
        PROVE  /\ subs'[<<x, j>>] >= subs[<<x, j>>]
               /\ x # o \/ j # i => subs'[<<x, j>>] = subs[<<x, j>>]
    <3>1. <<x, j>> \in Orders \X Items /\ subs[<<x, j>>] \in Nat
      BY DEF TypeOK
    <3>2. CASE x = o /\ j = i
      BY <3>2, <2>1
    <3>3. CASE x # o \/ j # i
      <4>1. <<x, j>> # <<o, i>>
        BY <3>3
      <4>2. subs'[<<x, j>>] = subs[<<x, j>>]
        BY <4>1, <3>1, <1>2 DEF TypeOK
      <4> QED
        BY <4>2, <3>1
    <3> QED
      BY <3>2, <3>3
  <2> QED
    BY <2>1, <2>2, <2>3
<1>4. i + 1 \in 1 .. MaxItems + 1
  BY <1>1, BoundsAssumption DEF Items
<1>5. TypeOK'
  BY <1>2, <1>3, <1>4 DEF TypeOK, Pcs
<1>6. Known'
  BY <1>2 DEF Known
<1>7. Calls'
  BY <1>1, <1>2 DEF Calls, TypeOK
<1>8. Told'
  BY <1>1, <1>2 DEF Told, TypeOK, Paid
<1>9. ASSUME NEW g \in Handlers, g # h PROVE Done(g)'
  BY <1>2, <1>3, <1>9 DEF Progress, Done, TypeOK, Calls
<1>10. Done(h)'
  <2>1. /\ order'[h] = o /\ item'[h] = i + 1 /\ cart'[o] = cart[o] /\ pc'[h] = l
        /\ i \in Nat /\ i <= cart[o] /\ cart[o] \in Nat
    BY <1>1, <1>2, BoundsAssumption DEF TypeOK, Items
  <2>2. ASSUME NEW j \in Items, j < i + 1 PROVE subs'[<<o, j>>] >= 1
    <3>1. CASE j = i
      BY <3>1, <1>3
    <3>2. CASE j < i
      <4>1. subs[<<o, j>>] >= 1 /\ subs[<<o, j>>] \in Nat /\ subs'[<<o, j>>] \in Nat
        BY <3>2, <1>1, <1>3 DEF Progress, Done, TypeOK
      <4> QED
        BY <4>1, <1>1, <1>3
    <3> QED
      BY <2>1, <2>2, <3>1, <3>2, BoundsAssumption DEF Items
  <2>3. CASE i < cart[o]
    BY <2>1, <2>2, <2>3 DEF Done
  <2>4. CASE ~(i < cart[o])
    <3>1. \A j \in Items : j <= cart[o] => j < i + 1
      BY <2>1, <2>4, BoundsAssumption DEF Items
    <3> QED
      BY <2>1, <2>2, <2>4, <3>1 DEF Done
  <2> QED
    BY <2>3, <2>4
<1>11. Progress'
  BY <1>9, <1>10 DEF Progress, Done
<1>12. NothingForFree'
  <2>1. ASSUME NEW x \in Orders, NEW j \in Items, subs'[<<x, j>>] > 0, x # o
        PROVE  subs[<<x, j>>] > 0
    BY <1>3, <2>1
  <2> QED
    BY <1>1, <1>2, <2>1 DEF NothingForFree, Paid
<1>13. ActivatedIsComplete'
  <2>1. ASSUME NEW x \in Orders, activated[x], NEW j \in 1 .. cart[x] PROVE subs'[<<x, j>>] >= 1
    <3>1. j \in Items
      BY BoundsAssumption DEF TypeOK, Items
    <3> QED
      BY <1>3, <2>1, <3>1 DEF ActivatedIsComplete, TypeOK
  <2> QED
    BY <1>2, <2>1 DEF ActivatedIsComplete
<1> QED
  BY <1>5, <1>6, <1>7, <1>8, <1>11, <1>12, <1>13

LEMMA MarkActivatedKeeps ==
  ASSUME PayInv, NEW h \in Handlers, MarkActivated(h)
  PROVE  PayInv'
<1> USE DEF PayInv
<1>1. /\ pc[h] = "mark" /\ order[h] \in Orders /\ status[order[h]] # "none"
      /\ Paid(order[h])
  BY DEF MarkActivated, Calls, Known, Told
<1>2. /\ activated' = [activated EXCEPT ![order[h]] = TRUE] /\ pc' = [pc EXCEPT ![h] = "reply"]
      /\ UNCHANGED <<status, cart, paymentId, subs, remote, reached, payOrder, acked, kind,
                     order, payment, target, seen, seenActive, item, fails, crashes, disturbed>>
  BY DEF MarkActivated, Goto, gatewayVars
<1>3. TypeOK'
  BY <1>1, <1>2 DEF TypeOK, Pcs
<1>4. Known'
  BY <1>1, <1>2 DEF Known, TypeOK
<1>5. Calls'
  BY <1>1, <1>2 DEF Calls, TypeOK
<1>6. Told'
  BY <1>1, <1>2 DEF Told, TypeOK, Paid
<1>7. Progress'
  BY <1>2 DEF Progress, Done, TypeOK
<1>8. NothingForFree'
  BY <1>1, <1>2 DEF NothingForFree, Paid, TypeOK
<1>9. ActivatedIsComplete'
  <2>1. \A j \in 1 .. cart[order[h]] : subs[<<order[h], j>>] >= 1
    <3>1. 1 .. cart[order[h]] \subseteq Items /\ cart[order[h]] \in Nat
      BY <1>1, BoundsAssumption DEF TypeOK, Items
    <3> QED
      BY <1>1, <3>1 DEF Progress, Done
  <2> QED
    BY <1>1, <1>2, <2>1 DEF ActivatedIsComplete, TypeOK
<1> QED
  BY <1>3, <1>4, <1>5, <1>6, <1>7, <1>8, <1>9

LEMMA CrashKeeps ==
  ASSUME PayInv, Crash
  PROVE  PayInv'
<1> USE DEF PayInv, Crash, orderVars, gatewayVars
<1>1. TypeOK'
  BY BoundsAssumption DEF TypeOK, Pcs
<1>2. Known'
  BY DEF Known
<1>3. Calls' /\ Told' /\ Progress'
  BY DEF Calls, Told, Progress, Done
<1>4. NothingForFree' /\ ActivatedIsComplete'
  BY DEF NothingForFree, ActivatedIsComplete, Paid
<1> QED
  BY <1>1, <1>2, <1>3, <1>4

LEMMA Steps ==
  ASSUME Next
  PROVE  \/ \E o \in Orders, n \in Items : CreateOrder(o, n)
         \/ \E h \in Handlers, o \in Orders, p \in Payments : CreatePayment(h, o, p)
         \/ \E p \in Payments : GatewayStep(p)
         \/ \E h \in Handlers, p \in Payments : PollFind(h, p)
         \/ \E h \in Handlers, p \in Payments, s \in GatewayStatus : IpnFind(h, p, s)
         \/ \E h \in Handlers : \/ SetPayment(h) \/ PollRemote(h) \/ SetStatus(h) \/ CreateSub(h)
                                \/ MarkActivated(h) \/ Reply(h) \/ CallFails(h)
         \/ Crash
  BY DEF Next, HandlerStep

LEMMA NextPay == PayInv /\ [Next]_vars => PayInv'
<1> SUFFICES ASSUME PayInv, [Next]_vars PROVE PayInv'
  OBVIOUS
<1> USE DEF orderVars, gatewayVars
<1>1. ASSUME NEW o \in Orders, NEW n \in Items, CreateOrder(o, n) PROVE PayInv'
  BY <1>1, CreateOrderKeeps
<1>2. ASSUME NEW h \in Handlers, NEW o \in Orders, NEW p \in Payments, CreatePayment(h, o, p)
      PROVE  PayInv'
  BY <1>2, CreatePaymentKeeps
<1>3. ASSUME NEW p \in Payments, GatewayStep(p) PROVE PayInv'
  BY <1>3, GatewayStepKeeps
<1>4. ASSUME NEW h \in Handlers, NEW p \in Payments, PollFind(h, p) PROVE PayInv'
  BY <1>4, PollFindKeeps
<1>5. ASSUME NEW h \in Handlers, NEW p \in Payments, NEW s \in GatewayStatus, IpnFind(h, p, s)
      PROVE  PayInv'
  BY <1>5, IpnFindKeeps
<1>6. acked \in SUBSET Payments /\ fails \in Nat /\ disturbed \in SUBSET Orders
  BY DEF PayInv, TypeOK
<1>7. ASSUME NEW h \in Handlers, SetPayment(h) PROVE PayInv'
  BY <1>6, <1>7, EndKeeps DEF SetPayment
<1>8. ASSUME NEW h \in Handlers, PollRemote(h) PROVE PayInv'
  BY <1>8, PollRemoteKeeps
<1>9. ASSUME NEW h \in Handlers, SetStatus(h) PROVE PayInv'
  BY <1>9, SetStatusKeeps
<1>10. ASSUME NEW h \in Handlers, CreateSub(h) PROVE PayInv'
  BY <1>10, CreateSubKeeps
<1>11. ASSUME NEW h \in Handlers, MarkActivated(h) PROVE PayInv'
  BY <1>11, MarkActivatedKeeps
<1>12. ASSUME NEW h \in Handlers, Reply(h) PROVE PayInv'
  <2>1. payment[h] \in Payments
    BY <1>12 DEF Reply, PayInv, Calls
  <2>2. acked' \in SUBSET Payments
    BY <1>6, <1>12, <2>1 DEF Reply
  <2> QED
    BY <1>6, <1>12, <2>2, EndKeeps DEF Reply
<1>13. ASSUME NEW h \in Handlers, CallFails(h) PROVE PayInv'
  <2>1. fails' \in Nat /\ disturbed' \in SUBSET Orders
    BY <1>6, <1>13 DEF CallFails
  <2> QED
    BY <1>6, <1>13, <2>1, EndKeeps DEF CallFails
<1>14. CASE Crash
  BY <1>14, CrashKeeps
<1>15. CASE UNCHANGED vars
  BY <1>15 DEF vars, PayInv, TypeOK, Known, Calls, Told, Progress, Done, NothingForFree,
               ActivatedIsComplete, Paid
<1> QED
  BY <1>1, <1>2, <1>3, <1>4, <1>5, <1>7, <1>8, <1>9, <1>10, <1>11, <1>12, <1>13, <1>14, <1>15, Steps

\* The inductive invariant holds.
THEOREM PaymentsInvariant == Spec => []PayInv
  BY InitPay, NextPay, PTL DEF Spec

-----------------------------------------------------------------------------
(* The theorems that need no more.                                         *)

\* Type correctness of orders, payments and the calls about them.
THEOREM PaymentsTypeOK == Spec => []TypeOK
<1>1. PayInv => TypeOK
  BY DEF PayInv
<1> QED
  BY <1>1, PaymentsInvariant, PTL

\* Nothing is given out without a finished payment of that very order.
THEOREM NothingIsFree == Spec => []NothingForFree
<1>1. PayInv => NothingForFree
  BY DEF PayInv
<1> QED
  BY <1>1, PaymentsInvariant, PTL

\* The flag is set only when every item of the cart was given out.
THEOREM ActivationIsComplete == Spec => []ActivatedIsComplete
<1>1. PayInv => ActivatedIsComplete
  BY DEF PayInv
<1> QED
  BY <1>1, PaymentsInvariant, PTL

-----------------------------------------------------------------------------
(* Nothing twice.                                                          *)

Creating(h) == pc[h] \in {"item", "mark"}

\* What is known of an order two calls of which never overlapped, none of which was
\* cut short.
Untouched(o) ==
  /\ \A g, h \in Handlers : order[g] = o /\ kind[g] # "pay" /\ order[h] = o /\ kind[h] # "pay" => g = h
  /\ \A h \in Handlers :
       order[h] = o => /\ pc[h] \in {"remote", "setStatus"} => (seenActive[h] <=> activated[o])
                       /\ Creating(h) => ~activated[o]
                       /\ pc[h] = "item" => \A i \in Items : i >= item[h] => subs[<<o, i>>] = 0
  /\ ~activated[o] /\ (\A h \in Handlers : order[h] = o => ~Creating(h)) =>
       \A i \in Items : subs[<<o, i>>] = 0
  /\ \A i \in Items : subs[<<o, i>>] <= 1

OnceInv == \A o \in Orders \ disturbed : Untouched(o)

LEMMA InitOnce == Init => OnceInv
<1> SUFFICES ASSUME Init, NEW o \in Orders PROVE Untouched(o)
  BY DEF OnceInv
<1>1. ASSUME NEW i \in Items PROVE subs[<<o, i>>] = 0
  BY DEF Init
<1>2. \A i \in Items : subs[<<o, i>>] = 0 /\ subs[<<o, i>>] <= 1
  BY <1>1
<1> QED
  BY <1>2 DEF Init, Untouched, Creating

\* Nothing of the order changes, nor any call about it but one that ends.
LEMMA StaysUntouched ==
  ASSUME PayInv, NEW o \in Orders, Untouched(o),
         activated'[o] = activated[o], \A i \in Items : subs'[<<o, i>>] = subs[<<o, i>>],
         \A h \in Handlers :
           \/ /\ pc'[h] = pc[h] /\ kind'[h] = kind[h] /\ order'[h] = order[h]
              /\ seenActive'[h] = seenActive[h] /\ item'[h] = item[h]
           \/ /\ pc'[h] \notin {"remote", "setStatus", "item", "mark"}
              /\ kind'[h] = "pay" /\ (order[h] = o => ~Creating(h))
           \/ order[h] # o /\ order'[h] # o
  PROVE  Untouched(o)'
  BY DEF Untouched, Creating, PayInv, Calls

\* A call enters that may activate the order.
LEMMA EntersUntouched ==
  ASSUME PayInv, NEW o \in Orders, Untouched(o), NEW h \in Handlers,
         NEW k \in {"ipn", "poll"}, NEW l \in {"remote", "setStatus", "item", "reply"},
         NEW x \in Orders, NEW p \in Payments, NEW t,
         Enter(h, k, l, x, p, t, status[x], activated[x]),
         l = "item" => ~activated[x],
         UNCHANGED <<activated, subs>>, o \notin disturbed'
  PROVE  Untouched(o)'
<1> USE DEF PayInv
<1>1. /\ pc[h] = "idle" /\ pc' = [pc EXCEPT ![h] = l] /\ kind' = [kind EXCEPT ![h] = k]
      /\ order' = [order EXCEPT ![h] = x] /\ seenActive' = [seenActive EXCEPT ![h] = activated[x]]
      /\ item' = [item EXCEPT ![h] = 1]
  BY DEF Enter, Locals
<1>2. CASE x # o
  <2>1. order[h] # o
    BY <1>1, NamesAssumption DEF Calls
  <2> QED
    BY <1>1, <1>2, <2>1, StaysUntouched DEF TypeOK
<1>3. CASE x = o
  <2>1. \A g \in Handlers : order[g] = o => kind[g] = "pay"
    BY <1>3 DEF Enter, Working
  <2>2. \A g \in Handlers : order[g] = o => ~Creating(g) /\ pc[g] \notin {"remote", "setStatus"}
    BY <2>1 DEF Calls, Creating
  <2>3. ~activated[o] => \A i \in Items : subs[<<o, i>>] = 0
    BY <2>2 DEF Untouched
  <2>4. \A g, f \in Handlers : order'[g] = o /\ kind'[g] # "pay" /\ order'[f] = o /\ kind'[f] # "pay"
          => g = f
    BY <1>1, <2>1 DEF TypeOK
  <2>5. ASSUME NEW g \in Handlers, order'[g] = o
        PROVE  /\ pc'[g] \in {"remote", "setStatus"} => (seenActive'[g] <=> activated[o])
               /\ Creating(g)' => ~activated[o] /\ \A i \in Items : subs[<<o, i>>] = 0
    BY <1>1, <1>3, <2>2, <2>3, <2>5 DEF TypeOK, Creating
  <2> QED
    BY <2>3, <2>4, <2>5 DEF Untouched, Creating
<1> QED
  BY <1>2, <1>3

\* A call goes on to where it may create.
LEMMA GoesOnUntouched ==
  ASSUME PayInv, NEW o \in Orders, Untouched(o), NEW h \in Handlers,
         pc[h] \in {"remote", "setStatus"}, NEW l \in {"setStatus", "item", "reply"},
         l = "item" => ~seenActive[h],
         pc' = [pc EXCEPT ![h] = l],
         UNCHANGED <<kind, order, seenActive, item, activated, subs>>
  PROVE  Untouched(o)'
<1> USE DEF PayInv
<1>1. CASE order[h] # o
  BY <1>1, StaysUntouched DEF TypeOK
<1>2. CASE order[h] = o
  <2>1. \A g \in Handlers : order[g] = o /\ g # h => ~Creating(g)
    BY <1>2 DEF Untouched, Calls, Creating
  <2>2. \A g \in Handlers : order[g] = o => ~Creating(g)
    BY <2>1 DEF Creating
  <2>3. ~activated[o] => \A i \in Items : subs[<<o, i>>] = 0
    BY <2>2 DEF Untouched
  <2>4. l = "item" => ~activated[o]
    BY <1>2 DEF Untouched
  <2>5. ASSUME NEW g \in Handlers, order'[g] = o
        PROVE  /\ pc'[g] \in {"remote", "setStatus"} => (seenActive'[g] <=> activated[o])
               /\ Creating(g)' => ~activated[o] /\ \A i \in Items : subs[<<o, i>>] = 0
    BY <1>2, <2>2, <2>3, <2>4, <2>5 DEF TypeOK, Creating, Untouched
  <2> QED
    BY <2>3, <2>5 DEF Untouched, Creating
<1> QED
  BY <1>1, <1>2

LEMMA CreatesUntouched ==
  ASSUME PayInv, NEW o \in Orders, Untouched(o), NEW h \in Handlers, CreateSub(h)
  PROVE  Untouched(o)'
<1> USE DEF PayInv
<1> DEFINE i == item[h]
           l == IF i < cart[order[h]] THEN "item" ELSE "mark"
<1>1. /\ pc[h] = "item" /\ order[h] \in Orders /\ i \in Items /\ <<order[h], i>> \in Orders \X Items
  BY ItemAhead DEF CreateSub
<1>2. /\ subs' = [subs EXCEPT ![<<order[h], i>>] = @ + 1] /\ item' = [item EXCEPT ![h] = i + 1]
      /\ pc' = [pc EXCEPT ![h] = l] /\ l \in {"item", "mark"}
      /\ UNCHANGED <<activated, kind, order, seenActive>>
  BY DEF CreateSub, orderVars
<1> HIDE DEF l
<1>3. ASSUME NEW x \in Orders, NEW j \in Items, <<x, j>> # <<order[h], i>>
      PROVE  subs'[<<x, j>>] = subs[<<x, j>>]
  BY <1>2, <1>3 DEF TypeOK
<1>4. CASE order[h] # o
  <2>1. \A j \in Items : <<o, j>> # <<order[h], i>>
    BY <1>4
  <2>2. \A j \in Items : subs'[<<o, j>>] = subs[<<o, j>>]
    BY <1>3, <2>1
  <2> QED
    BY <1>2, <1>4, <2>2, StaysUntouched DEF TypeOK
<1>5. CASE order[h] = o
  <2>1. ~activated[o] /\ \A j \in Items : j >= i => subs[<<o, j>>] = 0
    BY <1>1, <1>5 DEF Untouched, Creating
  <2>2. subs'[<<o, i>>] = 1
    <3>1. subs[<<o, i>>] = 0
      BY <1>1, <2>1, BoundsAssumption DEF Items
    <3> QED
      BY <1>1, <1>2, <1>5, <3>1 DEF TypeOK
  <2>3. ASSUME NEW j \in Items, j # i PROVE subs'[<<o, j>>] = subs[<<o, j>>]
    <3>1. <<o, j>> # <<order[h], i>>
      BY <2>3
    <3> QED
      BY <1>3, <3>1
  <2>4. \A j \in Items : subs'[<<o, j>>] <= 1
    BY <2>2, <2>3 DEF Untouched
  <2>5. \A j \in Items : j >= i + 1 => subs'[<<o, j>>] = 0
    BY <1>1, <2>1, <2>3, BoundsAssumption DEF Items
  <2>6. \A g \in Handlers : order[g] = o /\ g # h => ~Creating(g) /\ pc[g] \notin {"remote", "setStatus"}
    BY <1>1, <1>5 DEF Untouched, Calls, Creating
  <2>7. Creating(h)' /\ order'[h] = o
    BY <1>2, <1>5 DEF Creating, TypeOK
  <2>8. ASSUME NEW g \in Handlers, order'[g] = o
        PROVE  /\ pc'[g] \notin {"remote", "setStatus"}
               /\ pc'[g] = "item" => \A j \in Items : j >= item'[g] => subs'[<<o, j>>] = 0
    BY <1>2, <2>5, <2>6, <2>8 DEF TypeOK, Creating
  <2> QED
    BY <1>2, <2>1, <2>4, <2>7, <2>8 DEF Untouched
<1> QED
  BY <1>4, <1>5

LEMMA MarksUntouched ==
  ASSUME PayInv, NEW o \in Orders, Untouched(o), NEW h \in Handlers, MarkActivated(h)
  PROVE  Untouched(o)'
<1> USE DEF PayInv
<1>1. /\ pc[h] = "mark" /\ order[h] \in Orders /\ pc' = [pc EXCEPT ![h] = "reply"]
      /\ activated' = [activated EXCEPT ![order[h]] = TRUE]
      /\ UNCHANGED <<kind, order, seenActive, item, subs>>
  BY DEF MarkActivated, Goto, Calls
<1>2. CASE order[h] # o
  BY <1>1, <1>2, StaysUntouched DEF TypeOK
<1>3. CASE order[h] = o
  <2>1. \A g \in Handlers : order[g] = o /\ g # h => ~Creating(g) /\ pc[g] \notin {"remote", "setStatus"}
    BY <1>1, <1>3 DEF Untouched, Calls, Creating
  <2>2. activated'[o] = TRUE
    BY <1>1, <1>3 DEF TypeOK
  <2>3. \A g \in Handlers : order'[g] = o => ~Creating(g)' /\ pc'[g] \notin {"remote", "setStatus"}
    BY <1>1, <2>1 DEF TypeOK, Creating
  <2> QED
    BY <1>1, <2>2, <2>3 DEF Untouched, Creating
<1> QED
  BY <1>2, <1>3

\* A call that is cut short disturbs the order it may have been about to activate.
LEMMA CutsUntouched ==
  ASSUME PayInv, NEW o \in Orders, Untouched(o),
         \/ \E h \in Handlers : CallFails(h)
         \/ Crash,
         o \notin disturbed'
  PROVE  Untouched(o)'
<1> USE DEF PayInv
<1>1. ASSUME NEW h \in Handlers, CallFails(h) PROVE Untouched(o)'
  <2>1. order[h] = o => kind[h] = "pay"
    BY <1>1 DEF CallFails, Working
  <2>2. order[h] = o => ~Creating(h)
    BY <2>1 DEF Calls, Creating
  <2>3. /\ pc' = [pc EXCEPT ![h] = "idle"] /\ kind' = [kind EXCEPT ![h] = "pay"]
        /\ order' = [order EXCEPT ![h] = NoOrder]
        /\ \A g \in Handlers \ {h} : seenActive'[g] = seenActive[g] /\ item'[g] = item[g]
        /\ UNCHANGED <<activated, subs>>
    BY <1>1 DEF CallFails, End, Locals, orderVars, TypeOK
  <2> QED
    BY <2>2, <2>3, StaysUntouched DEF TypeOK
<1>2. CASE Crash
  <2>1. \A h \in Handlers : order[h] = o => kind[h] = "pay"
    BY <1>2 DEF Crash, Working
  <2>2. \A h \in Handlers : order[h] = o => ~Creating(h)
    BY <2>1 DEF Calls, Creating
  <2>3. \A h \in Handlers : pc'[h] = "idle" /\ kind'[h] = "pay"
    BY <1>2 DEF Crash
  <2>4. UNCHANGED <<activated, subs>>
    BY <1>2 DEF Crash, orderVars
  <2> QED
    BY <2>2, <2>3, <2>4, StaysUntouched
<1> QED
  BY <1>1, <1>2

LEMMA NextOnce == PayInv /\ OnceInv /\ [Next]_vars => OnceInv'
<1> SUFFICES ASSUME PayInv, OnceInv, [Next]_vars, NEW o \in Orders, o \notin disturbed'
             PROVE  Untouched(o)'
  BY DEF OnceInv
<1> USE DEF PayInv
<1>1. disturbed \subseteq disturbed'
  <2>1. CASE UNCHANGED vars
    BY <2>1 DEF vars
  <2> QED
    BY <2>1, Steps DEF CreateOrder, CreatePayment, GatewayStep, PollFind, IpnFind, SetPayment, PollRemote,
       SetStatus, CreateSub, MarkActivated, Reply, CallFails, Crash, Enter
<1>2. Untouched(o)
  BY <1>1 DEF OnceInv
<1>3. ASSUME NEW x \in Orders, NEW n \in Items, CreateOrder(x, n) PROVE Untouched(o)'
  BY <1>2, <1>3, StaysUntouched DEF CreateOrder, callVars
<1>4. ASSUME NEW h \in Handlers, NEW x \in Orders, NEW p \in Payments, CreatePayment(h, x, p)
      PROVE  Untouched(o)'
  <2>1. /\ pc[h] = "idle" /\ pc' = [pc EXCEPT ![h] = "setPayment"]
        /\ kind' = [kind EXCEPT ![h] = "pay"] /\ order' = [order EXCEPT ![h] = x]
        /\ \A g \in Handlers \ {h} : seenActive'[g] = seenActive[g] /\ item'[g] = item[g]
        /\ UNCHANGED <<activated, subs>>
    BY <1>4 DEF CreatePayment, Enter, Locals, orderVars, TypeOK
  <2> QED
    BY <1>2, <2>1, StaysUntouched DEF TypeOK, Creating
<1>5. ASSUME NEW p \in Payments, GatewayStep(p) PROVE Untouched(o)'
  BY <1>2, <1>5, StaysUntouched DEF GatewayStep, callVars, orderVars
<1>6. ASSUME NEW h \in Handlers, NEW p \in Payments, PollFind(h, p) PROVE Untouched(o)'
  <2> PICK x \in Orders :
        /\ Enter(h, "poll", "remote", x, p, "null", status[x], activated[x])
        /\ UNCHANGED <<orderVars, subs>>
    BY <1>6 DEF PollFind
  <2> QED
    BY <1>2, EntersUntouched DEF orderVars
<1>7. ASSUME NEW h \in Handlers, NEW p \in Payments, NEW s \in GatewayStatus, IpnFind(h, p, s)
      PROVE  Untouched(o)'
  <2> DEFINE x == payOrder[p]
             l == AfterFind(IpnStatus(s), status[x], activated[x])
  <2>1. /\ s \in reached[p]
        /\ Enter(h, "ipn", l, x, p, IpnStatus(s), status[x], activated[x])
        /\ UNCHANGED <<activated, subs>>
    BY <1>7 DEF IpnFind, orderVars
  <2>2. x \in Orders
    BY <2>1 DEF Known
  <2>3. l \in {"remote", "setStatus", "item", "reply"} /\ (l = "item" => ~activated[x])
    BY DEF AfterFind, Activation
  <2> HIDE DEF l, x
  <2> QED
    BY <1>2, <2>1, <2>2, <2>3, EntersUntouched
<1>8. ASSUME NEW h \in Handlers, PollRemote(h) PROVE Untouched(o)'
  <2> DEFINE l == AfterFind(PollStatus(remote[payment[h]]), seen[h], seenActive[h])
  <2>1. l \in {"setStatus", "item", "reply"} /\ (l = "item" => ~seenActive[h])
    BY DEF AfterFind, Activation
  <2>2. /\ pc[h] = "remote" /\ pc' = [pc EXCEPT ![h] = l]
        /\ UNCHANGED <<kind, order, seenActive, item, activated, subs>>
    BY <1>8 DEF PollRemote, orderVars
  <2> HIDE DEF l
  <2> QED
    BY <1>2, <2>1, <2>2, GoesOnUntouched
<1>9. ASSUME NEW h \in Handlers, SetStatus(h) PROVE Untouched(o)'
  <2> DEFINE l == Activation(target[h], seenActive[h])
  <2>1. l \in {"setStatus", "item", "reply"} /\ (l = "item" => ~seenActive[h])
    BY DEF Activation
  <2>2. /\ pc[h] = "setStatus" /\ pc' = [pc EXCEPT ![h] = l]
        /\ UNCHANGED <<kind, order, seenActive, item, activated, subs>>
    BY <1>9 DEF SetStatus, Goto
  <2> HIDE DEF l
  <2> QED
    BY <1>2, <2>1, <2>2, GoesOnUntouched
<1>10. ASSUME NEW h \in Handlers, SetPayment(h) \/ Reply(h) PROVE Untouched(o)'
  <2>1. /\ pc[h] \in {"setPayment", "reply"} /\ pc' = [pc EXCEPT ![h] = "idle"]
        /\ kind' = [kind EXCEPT ![h] = "pay"] /\ order' = [order EXCEPT ![h] = NoOrder]
        /\ \A g \in Handlers \ {h} : seenActive'[g] = seenActive[g] /\ item'[g] = item[g]
        /\ UNCHANGED <<activated, subs>>
    BY <1>10 DEF SetPayment, Reply, End, Locals, orderVars, TypeOK
  <2> QED
    BY <1>2, <2>1, StaysUntouched DEF TypeOK, Creating
<1>11. ASSUME NEW h \in Handlers, CreateSub(h) PROVE Untouched(o)'
  BY <1>2, <1>11, CreatesUntouched
<1>12. ASSUME NEW h \in Handlers, MarkActivated(h) PROVE Untouched(o)'
  BY <1>2, <1>12, MarksUntouched
<1>13. CASE (\E h \in Handlers : CallFails(h)) \/ Crash
  BY <1>2, <1>13, CutsUntouched
<1>14. CASE UNCHANGED vars
  BY <1>2, <1>14, StaysUntouched DEF vars
<1> QED
  BY <1>3, <1>4, <1>5, <1>6, <1>7, <1>8, <1>9, <1>10, <1>11, <1>12, <1>13, <1>14, Steps

\* No item is given out twice as long as no two calls about its order overlap and
\* none is cut short, whatever the gateway repeats and the client polls.
THEOREM NothingTwice == Spec => []OnceUndisturbed
<1>1. OnceInv => OnceUndisturbed
  BY DEF OnceInv, Untouched, OnceUndisturbed
<1> QED
  BY <1>1, PaymentsInvariant, InitOnce, NextOnce, PTL DEF Spec

-----------------------------------------------------------------------------
(* How often an item may be given out.                                     *)

\* The calls that have given out an item and have not marked the order yet, and
\* those that may still give it out.
Made(o, i) == {h \in Handlers : order[h] = o /\ Creating(h) /\ item[h] > i}
May(o, i) ==
  {h \in Handlers : /\ order[h] = o /\ pc[h] \in {"remote", "setStatus", "item"}
                    /\ ~seenActive[h] /\ item[h] <= i}

\* Before an order is activated, whatever was given out is the doing of a call that
\* is about to activate it or was cut short; afterwards only those calls can add to
\* it that looked before.
Bounded(o, i) ==
  IF activated[o]
  THEN subs[<<o, i>>] + Cardinality(May(o, i)) <= Cardinality(Handlers) * (1 + crashes) + fails
  ELSE subs[<<o, i>>] <= Cardinality(Made(o, i)) + Cardinality(Handlers) * crashes + fails

HarmInv ==
  /\ \A h \in Handlers : Creating(h) => ~seenActive[h]
  /\ \A o \in Orders, i \in Items : Bounded(o, i)

LEMMA Counts ==
  ASSUME NEW o, NEW i \in Items
  PROVE  /\ Made(o, i) \subseteq Handlers /\ May(o, i) \subseteq Handlers
         /\ IsFiniteSet(Made(o, i)) /\ IsFiniteSet(May(o, i))
         /\ Cardinality(Handlers) \in Nat
         /\ Cardinality(Made(o, i)) \in Nat /\ Cardinality(May(o, i)) \in Nat
         /\ Cardinality(Made(o, i)) <= Cardinality(Handlers)
<1>1. Made(o, i) \in SUBSET Handlers /\ May(o, i) \in SUBSET Handlers
  BY DEF Made, May
<1> QED
  BY <1>1, HandlersAssumption, FS_Subset, FS_CardinalityType

\* At most every slot is in one of the two.
LEMMA MadeAndMay ==
  ASSUME TypeOK, NEW o, NEW i \in Items
  PROVE  Cardinality(Made(o, i)) + Cardinality(May(o, i)) <= Cardinality(Handlers)
<1> DEFINE A == Made(o, i)
           B == May(o, i)
<1>1. A \cap B = {}
  <2> SUFFICES ASSUME NEW h \in Handlers, item[h] > i, item[h] <= i PROVE FALSE
    BY DEF Made, May
  <2>1. item[h] \in Nat /\ i \in Nat
    BY BoundsAssumption DEF TypeOK, Items
  <2> QED
    BY <2>1
<1>2. IsFiniteSet(A) /\ IsFiniteSet(B) /\ A \cup B \in SUBSET Handlers
  BY Counts
<1>3. Cardinality(A) \in Nat /\ Cardinality(B) \in Nat
  BY Counts
<1> HIDE DEF A, B
<1>4. Cardinality(A \cup B) = Cardinality(A) + Cardinality(B)
  <2>1. Cardinality(A \cap B) = 0
    BY <1>1, FS_EmptySet
  <2>2. Cardinality(A \cup B) = Cardinality(A) + Cardinality(B) - Cardinality(A \cap B)
    BY <1>2, FS_Union
  <2> QED
    BY <1>3, <2>1, <2>2
<1>5. Cardinality(A \cup B) <= Cardinality(Handlers)
  BY <1>2, HandlersAssumption, FS_Subset
<1> QED
  BY <1>4, <1>5 DEF A, B

LEMMA CapGrows ==
  ASSUME NEW n \in Nat, NEW c \in Nat
  PROVE  n * c \in Nat /\ n * (1 + c) = n * c + n
  OBVIOUS

LEMMA Arith ==
  ASSUME TypeOK, NEW o \in Orders, NEW i \in Items
  PROVE  /\ subs[<<o, i>>] \in Nat /\ fails \in Nat /\ crashes \in Nat
         /\ Cardinality(Handlers) * crashes \in Nat
         /\ Cardinality(Handlers) * (1 + crashes)
              = Cardinality(Handlers) * crashes + Cardinality(Handlers)
<1>1. <<o, i>> \in Orders \X Items
  OBVIOUS
<1>2. subs[<<o, i>>] \in Nat /\ fails \in Nat /\ crashes \in Nat
  BY <1>1 DEF TypeOK
<1> QED
  BY <1>2, Counts, CapGrows

\* A step that gives out nothing of the order, and takes no call that did.
LEMMA StaysBounded ==
  ASSUME TypeOK, TypeOK', NEW o \in Orders, NEW i \in Items, Bounded(o, i),
         activated'[o] = activated[o], subs'[<<o, i>>] = subs[<<o, i>>],
         UNCHANGED <<fails, crashes>>,
         ~activated[o] => Made(o, i) \subseteq Made(o, i)',
         activated[o] => May(o, i)' \subseteq May(o, i)
  PROVE  Bounded(o, i)'
<1> DEFINE N == Cardinality(Handlers)
<1>1. /\ Cardinality(Made(o, i)) \in Nat /\ Cardinality(May(o, i)) \in Nat
      /\ IsFiniteSet(May(o, i)) /\ N \in Nat
  BY Counts
<1>2. /\ Cardinality(Made(o, i)') \in Nat /\ Cardinality(May(o, i)') \in Nat
      /\ IsFiniteSet(Made(o, i)')
  <2>1. Made(o, i)' \in SUBSET Handlers /\ May(o, i)' \in SUBSET Handlers
    BY DEF Made, May
  <2> QED
    BY <2>1, HandlersAssumption, FS_Subset, FS_CardinalityType
<1>3. /\ ~activated[o] => Cardinality(Made(o, i)) <= Cardinality(Made(o, i)')
      /\ activated[o] => Cardinality(May(o, i)') <= Cardinality(May(o, i))
  BY <1>1, <1>2, FS_Subset
<1>4. /\ subs[<<o, i>>] \in Nat /\ fails \in Nat /\ N * crashes \in Nat /\ N * (1 + crashes) \in Nat
  BY <1>1, Arith
<1> QED
  BY <1>1, <1>2, <1>3, <1>4 DEF Bounded

LEMMA InitHarm == Init => HarmInv
<1> SUFFICES ASSUME Init PROVE HarmInv
  OBVIOUS
<1>1. TypeOK
  BY InitPay DEF PayInv
<1>2. ASSUME NEW o \in Orders, NEW i \in Items PROVE Bounded(o, i)
  <2>1. subs[<<o, i>>] = 0 /\ ~activated[o]
    BY DEF Init
  <2>2. Cardinality(Made(o, i)) \in Nat /\ Cardinality(Handlers) * crashes \in Nat /\ fails \in Nat
    BY <1>1, Counts, Arith
  <2> QED
    BY <2>1, <2>2 DEF Bounded
<1> QED
  BY <1>2 DEF Init, HarmInv, Creating

\* Calls that enter, go on or end, but give out, mark and lose nothing.
LEMMA CallsBounded ==
  ASSUME PayInv, PayInv', HarmInv, UNCHANGED <<activated, subs, fails, crashes>>, NEW h \in Handlers,
         \A g \in Handlers \ {h} :
           /\ pc'[g] = pc[g] /\ order'[g] = order[g] /\ seenActive'[g] = seenActive[g]
           /\ item'[g] = item[g],
         pc[h] # "item" /\ pc[h] # "mark",
         \/ pc'[h] \notin {"remote", "setStatus", "item", "mark"}
         \/ /\ pc'[h] \in {"remote", "setStatus", "item"} /\ item'[h] = 1
            /\ pc'[h] = "item" => ~seenActive'[h]
            /\ \/ order'[h] \in Orders /\ seenActive'[h] = activated[order'[h]]
               \/ /\ pc[h] \in {"remote", "setStatus"} /\ item[h] = 1
                  /\ order'[h] = order[h] /\ seenActive'[h] = seenActive[h]
  PROVE  HarmInv'
<1>1. \A g \in Handlers : Creating(g)' => ~seenActive'[g]
  BY DEF HarmInv, Creating
<1>2. ASSUME NEW o \in Orders, NEW i \in Items PROVE Bounded(o, i)'
  <2>1. Made(o, i) \subseteq Made(o, i)'
    BY DEF Made, Creating
  <2>2. activated[o] => May(o, i)' \subseteq May(o, i)
    <3> SUFFICES ASSUME activated[o], NEW g \in May(o, i)' PROVE g \in May(o, i)
      OBVIOUS
    <3>1. /\ g \in Handlers /\ order'[g] = o /\ pc'[g] \in {"remote", "setStatus", "item"}
          /\ ~seenActive'[g] /\ item'[g] <= i
      BY DEF May
    <3>2. CASE g = h
      BY <3>1, <3>2 DEF May
    <3>3. CASE g # h
      BY <3>1, <3>3 DEF May
    <3> QED
      BY <3>2, <3>3
  <2>3. TypeOK /\ TypeOK' /\ Bounded(o, i)
    BY DEF PayInv, HarmInv
  <2> QED
    BY <2>1, <2>2, <2>3, StaysBounded
<1> QED
  BY <1>1, <1>2 DEF HarmInv

LEMMA CreateSubBounded ==
  ASSUME PayInv, PayInv', HarmInv, NEW h \in Handlers, CreateSub(h)
  PROVE  HarmInv'
<1> DEFINE k == item[h]
           x == order[h]
           l == IF k < cart[x] THEN "item" ELSE "mark"
           N == Cardinality(Handlers)
<1>1. pc[h] = "item" /\ x \in Orders /\ k \in Items /\ <<x, k>> \in Orders \X Items
  BY ItemAhead DEF CreateSub
<1>2. /\ subs' = [subs EXCEPT ![<<x, k>>] = @ + 1] /\ item' = [item EXCEPT ![h] = k + 1]
      /\ pc' = [pc EXCEPT ![h] = l] /\ l \in {"item", "mark"}
      /\ UNCHANGED <<activated, order, seenActive, fails, crashes>>
  BY DEF CreateSub, orderVars
<1> HIDE DEF l
<1>3. TypeOK /\ TypeOK' /\ k \in Nat
  BY <1>1, BoundsAssumption DEF PayInv, Items
<1>4. ~seenActive[h]
  BY <1>1 DEF HarmInv, Creating
<1>5. \A g \in Handlers : Creating(g)' => ~seenActive'[g]
  BY <1>1, <1>2, <1>4 DEF HarmInv, Creating, PayInv, TypeOK
<1>6. \A g \in Handlers : /\ item'[g] = IF g = h THEN k + 1 ELSE item[g]
                          /\ pc'[g] = IF g = h THEN l ELSE pc[g]
                          /\ item[g] \in Nat
  BY <1>2, <1>3, BoundsAssumption DEF TypeOK
<1>7. ASSUME NEW o \in Orders, NEW i \in Items PROVE Bounded(o, i)'
  <2>1. Bounded(o, i) /\ i \in Nat
    BY BoundsAssumption DEF HarmInv, Items
  <2>2. CASE ~(o = x /\ i = k)
    <3>1. <<o, i>> # <<x, k>> /\ <<o, i>> \in Orders \X Items
      BY <2>2
    <3>2. subs'[<<o, i>>] = subs[<<o, i>>]
      BY <1>2, <1>3, <3>1 DEF TypeOK
    <3>3. Made(o, i) \subseteq Made(o, i)'
      BY <1>1, <1>2, <1>3, <1>6, <2>1, <2>2 DEF Made, Creating
    <3>4. May(o, i)' \subseteq May(o, i)
      BY <1>1, <1>2, <1>3, <1>4, <1>6, <2>1, <2>2 DEF May
    <3> QED
      BY <1>2, <1>3, <2>1, <3>2, <3>3, <3>4, StaysBounded
  <2>3. CASE o = x /\ i = k
    <3>1. subs'[<<o, i>>] = subs[<<o, i>>] + 1
      BY <1>1, <1>2, <1>3, <2>3 DEF TypeOK
    <3>2. h \notin Made(o, i) /\ Made(o, i)' = Made(o, i) \cup {h}
      BY <1>1, <1>2, <1>3, <1>6, <2>3 DEF Made, Creating
    <3>3. h \in May(o, i) /\ May(o, i)' = May(o, i) \ {h}
      BY <1>1, <1>2, <1>3, <1>4, <1>6, <2>3 DEF May
    <3>4. /\ IsFiniteSet(Made(o, i)) /\ IsFiniteSet(May(o, i)) /\ N \in Nat
          /\ Cardinality(Made(o, i)) \in Nat /\ Cardinality(May(o, i)) \in Nat
      BY Counts
    <3>5. /\ Cardinality(Made(o, i)') = Cardinality(Made(o, i)) + 1
          /\ Cardinality(May(o, i)') = Cardinality(May(o, i)) - 1
      <4>1. Cardinality(Made(o, i) \cup {h}) = Cardinality(Made(o, i)) + 1
        BY <3>2, <3>4, FS_AddElement
      <4>2. Cardinality(May(o, i) \ {h}) = Cardinality(May(o, i)) - 1
        BY <3>3, <3>4, FS_RemoveElement
      <4> QED
        BY <3>2, <3>3, <4>1, <4>2
    <3>6. subs[<<o, i>>] \in Nat /\ fails \in Nat /\ N * crashes \in Nat /\ N * (1 + crashes) \in Nat
      BY <1>3, <3>4, Arith
    <3> HIDE DEF x, k, N
    <3> QED
      BY <1>2, <2>1, <3>1, <3>4, <3>5, <3>6 DEF Bounded, N
  <2> QED
    BY <2>2, <2>3
<1> QED
  BY <1>5, <1>7 DEF HarmInv

\* The calls in flight may give out again what the call that marks has given out.
LEMMA MarkBounded ==
  ASSUME PayInv, PayInv', HarmInv, NEW h \in Handlers, MarkActivated(h)
  PROVE  HarmInv'
<1> DEFINE x == order[h]
           N == Cardinality(Handlers)
<1>1. /\ pc[h] = "mark" /\ x \in Orders /\ pc' = [pc EXCEPT ![h] = "reply"]
      /\ activated' = [activated EXCEPT ![x] = TRUE]
      /\ UNCHANGED <<subs, order, seenActive, item, fails, crashes>>
  BY DEF MarkActivated, Goto, PayInv, Calls
<1>2. TypeOK /\ TypeOK'
  BY DEF PayInv
<1>3. \A g \in Handlers : Creating(g)' => ~seenActive'[g]
  BY <1>1, <1>2 DEF HarmInv, Creating, TypeOK
<1>4. ASSUME NEW o \in Orders, NEW i \in Items PROVE Bounded(o, i)'
  <2>1. Bounded(o, i)
    BY DEF HarmInv
  <2>2. May(o, i)' = May(o, i)
    BY <1>1, <1>2 DEF May, TypeOK
  <2>3. CASE activated[o]
    <3>1. activated'[o] = activated[o]
      BY <1>1, <1>2, <2>3 DEF TypeOK
    <3> QED
      BY <1>1, <1>2, <2>1, <2>2, <2>3, <3>1, StaysBounded
  <2>4. CASE ~activated[o] /\ o # x
    <3>1. activated'[o] = activated[o]
      BY <1>1, <1>2, <2>4 DEF TypeOK
    <3>2. Made(o, i) \subseteq Made(o, i)'
      BY <1>1, <1>2, <2>4 DEF Made, Creating, TypeOK
    <3> QED
      BY <1>1, <1>2, <2>1, <2>2, <3>1, <3>2, StaysBounded
  <2>5. CASE ~activated[o] /\ o = x
    <3>1. activated'[o]
      BY <1>1, <1>2, <2>5 DEF TypeOK
    <3>2. subs[<<o, i>>] <= Cardinality(Made(o, i)) + N * crashes + fails
      BY <2>1, <2>5 DEF Bounded
    <3>3. Cardinality(Made(o, i)) + Cardinality(May(o, i)) <= N
      BY <1>2, MadeAndMay
    <3>4. /\ subs[<<o, i>>] \in Nat /\ fails \in Nat /\ N * crashes \in Nat
          /\ N * (1 + crashes) = N * crashes + N
          /\ Cardinality(Made(o, i)) \in Nat /\ Cardinality(May(o, i)) \in Nat /\ N \in Nat
      BY <1>2, Arith, Counts
    <3> DEFINE M == N * (1 + crashes)
               K == N * crashes
    <3>5. subs[<<o, i>>] + Cardinality(May(o, i)) <= M + fails
      <4> HIDE DEF N
      <4>1. M = K + N /\ K \in Nat /\ subs[<<o, i>>] <= Cardinality(Made(o, i)) + K + fails
        BY <3>2, <3>4
      <4> HIDE DEF M, K
      <4> QED
        BY <3>3, <3>4, <4>1
    <3> QED
      BY <1>1, <2>2, <3>1, <3>5 DEF Bounded
  <2> QED
    BY <2>3, <2>4, <2>5
<1> QED
  BY <1>3, <1>4 DEF HarmInv

\* A call that fails may leave one of each item behind.
LEMMA FailBounded ==
  ASSUME PayInv, PayInv', HarmInv, NEW h \in Handlers, CallFails(h)
  PROVE  HarmInv'
<1> DEFINE N == Cardinality(Handlers)
<1>1. /\ pc' = [pc EXCEPT ![h] = "idle"] /\ order' = [order EXCEPT ![h] = NoOrder]
      /\ \A g \in Handlers \ {h} : seenActive'[g] = seenActive[g] /\ item'[g] = item[g]
      /\ UNCHANGED <<activated, subs, crashes>> /\ fails' = fails + 1
  BY DEF CallFails, End, Locals, orderVars, PayInv, TypeOK
<1>2. TypeOK /\ TypeOK'
  BY DEF PayInv
<1>3. \A g \in Handlers : Creating(g)' => ~seenActive'[g]
  BY <1>1, <1>2 DEF HarmInv, Creating, TypeOK
<1>4. ASSUME NEW o \in Orders, NEW i \in Items PROVE Bounded(o, i)'
  <2>1. Bounded(o, i)
    BY DEF HarmInv
  <2>2. May(o, i)' \subseteq May(o, i) /\ Made(o, i) \ {h} \subseteq Made(o, i)'
    BY <1>1, <1>2 DEF May, Made, Creating, TypeOK
  <2>3. /\ IsFiniteSet(Made(o, i)) /\ IsFiniteSet(May(o, i)) /\ N \in Nat
        /\ Cardinality(Made(o, i)) \in Nat /\ Cardinality(May(o, i)) \in Nat
    BY Counts
  <2>4. /\ Cardinality(Made(o, i)') \in Nat /\ Cardinality(May(o, i)') \in Nat
        /\ IsFiniteSet(Made(o, i)')
    <3>1. Made(o, i)' \in SUBSET Handlers /\ May(o, i)' \in SUBSET Handlers
      BY DEF Made, May
    <3> QED
      BY <3>1, HandlersAssumption, FS_Subset, FS_CardinalityType
  <2>5. Cardinality(May(o, i)') <= Cardinality(May(o, i))
    BY <2>2, <2>3, FS_Subset
  <2>6. Cardinality(Made(o, i)) <= Cardinality(Made(o, i)') + 1
    <3>1. /\ IsFiniteSet(Made(o, i) \ {h})
          /\ Cardinality(Made(o, i) \ {h}) \in {Cardinality(Made(o, i)), Cardinality(Made(o, i)) - 1}
      BY <2>3, FS_RemoveElement
    <3>2. Cardinality(Made(o, i) \ {h}) <= Cardinality(Made(o, i)')
      BY <2>2, <2>4, FS_Subset
    <3> QED
      BY <2>3, <2>4, <3>1, <3>2
  <2>7. subs[<<o, i>>] \in Nat /\ fails \in Nat /\ N * crashes \in Nat /\ N * (1 + crashes) \in Nat
    BY <1>2, <2>3, Arith
  <2> QED
    BY <1>1, <2>1, <2>3, <2>4, <2>5, <2>6, <2>7 DEF Bounded
<1> QED
  BY <1>3, <1>4 DEF HarmInv

\* A crash cuts every call short, and no more than there are.
LEMMA CrashBounded ==
  ASSUME PayInv, PayInv', HarmInv, Crash
  PROVE  HarmInv'
<1> DEFINE N == Cardinality(Handlers)
<1>1. /\ \A g \in Handlers : pc'[g] = "idle"
      /\ UNCHANGED <<activated, subs, fails>> /\ crashes' = crashes + 1
  BY DEF Crash, orderVars
<1>2. TypeOK /\ TypeOK'
  BY DEF PayInv
<1>3. \A g \in Handlers : Creating(g)' => ~seenActive'[g]
  BY <1>1 DEF Creating
<1>4. ASSUME NEW o \in Orders, NEW i \in Items PROVE Bounded(o, i)'
  <2>1. Bounded(o, i)
    BY DEF HarmInv
  <2>2. May(o, i)' = {} /\ Made(o, i)' = {}
    BY <1>1 DEF May, Made, Creating
  <2>3. Cardinality(May(o, i)') = 0 /\ Cardinality(Made(o, i)') = 0
    BY <2>2, FS_EmptySet
  <2>4. /\ N \in Nat /\ Cardinality(Made(o, i)) \in Nat /\ Cardinality(May(o, i)) \in Nat
        /\ Cardinality(Made(o, i)) <= N
    BY Counts
  <2>5. /\ subs[<<o, i>>] \in Nat /\ fails \in Nat /\ crashes \in Nat /\ N * crashes \in Nat
        /\ N * (1 + crashes) = N * crashes + N
    BY <1>2, Arith
  <2>6. N * crashes' = N * crashes + N /\ N * (1 + crashes') = N * crashes + N + N
    BY <1>1, <2>4, <2>5, CapGrows
  <2> DEFINE K == N * crashes
  <2>7. K \in Nat /\ N * crashes' = K + N /\ N * (1 + crashes') = K + N + N
          /\ N * (1 + crashes) = K + N
    BY <2>5, <2>6
  <2>8. CASE activated[o]
    <3>1. subs[<<o, i>>] + Cardinality(May(o, i)) <= K + N + fails
      BY <2>1, <2>7, <2>8 DEF Bounded
    <3>2. subs[<<o, i>>] + 0 <= K + N + N + fails
      <4> HIDE DEF N, K
      <4> QED
        BY <2>4, <2>5, <2>7, <3>1
    <3> QED
      BY <1>1, <2>3, <2>7, <2>8, <3>2 DEF Bounded
  <2>9. CASE ~activated[o]
    <3>1. subs[<<o, i>>] <= Cardinality(Made(o, i)) + K + fails
      BY <2>1, <2>7, <2>9 DEF Bounded
    <3>2. subs[<<o, i>>] <= 0 + (K + N) + fails
      <4> HIDE DEF N, K
      <4> QED
        BY <2>4, <2>5, <2>7, <3>1
    <3> QED
      BY <1>1, <2>3, <2>7, <2>9, <3>2 DEF Bounded
  <2> QED
    BY <2>8, <2>9
<1> QED
  BY <1>3, <1>4 DEF HarmInv

LEMMA NextHarm == PayInv /\ HarmInv /\ [Next]_vars => HarmInv'
<1> SUFFICES ASSUME PayInv, HarmInv, [Next]_vars PROVE HarmInv'
  OBVIOUS
<1>1. PayInv'
  BY NextPay
<1>2. ASSUME NEW h \in Handlers, NEW k, NEW l, NEW x \in Orders, NEW p, NEW t, NEW s,
             Enter(h, k, l, x, p, t, s, activated[x]),
             l \in {"setPayment", "remote", "setStatus", "item", "reply"},
             l = "item" => ~activated[x],
             UNCHANGED <<activated, subs, fails, crashes>>
      PROVE  HarmInv'
  <2>1. /\ pc[h] = "idle" /\ pc' = [pc EXCEPT ![h] = l] /\ order' = [order EXCEPT ![h] = x]
        /\ seenActive' = [seenActive EXCEPT ![h] = activated[x]] /\ item' = [item EXCEPT ![h] = 1]
    BY <1>2 DEF Enter, Locals
  <2>2. /\ pc'[h] = l /\ order'[h] = x /\ seenActive'[h] = activated[x] /\ item'[h] = 1
        /\ \A g \in Handlers \ {h} : /\ pc'[g] = pc[g] /\ order'[g] = order[g]
                                     /\ seenActive'[g] = seenActive[g] /\ item'[g] = item[g]
    BY <2>1 DEF PayInv, TypeOK
  <2> QED
    BY <1>1, <1>2, <2>1, <2>2, CallsBounded
<1>3. ASSUME UNCHANGED <<activated, subs, fails, crashes, pc, order, seenActive, item>>
      PROVE  HarmInv'
  BY <1>3 DEF HarmInv, Bounded, Made, May, Creating
<1>4. ASSUME NEW o \in Orders, NEW n \in Items, CreateOrder(o, n) PROVE HarmInv'
  BY <1>3, <1>4 DEF CreateOrder, callVars
<1>5. ASSUME NEW h \in Handlers, NEW x \in Orders, NEW p \in Payments, CreatePayment(h, x, p)
      PROVE  HarmInv'
  <2>1. /\ pc[h] = "idle" /\ pc'[h] = "setPayment"
        /\ \A g \in Handlers \ {h} : /\ pc'[g] = pc[g] /\ order'[g] = order[g]
                                     /\ seenActive'[g] = seenActive[g] /\ item'[g] = item[g]
        /\ UNCHANGED <<activated, subs, fails, crashes>>
    BY <1>5 DEF CreatePayment, Enter, Locals, orderVars, PayInv, TypeOK
  <2> QED
    BY <1>1, <2>1, CallsBounded
<1>6. ASSUME NEW p \in Payments, GatewayStep(p) PROVE HarmInv'
  BY <1>3, <1>6 DEF GatewayStep, callVars, orderVars
<1>7. ASSUME NEW h \in Handlers, NEW p \in Payments, PollFind(h, p) PROVE HarmInv'
  <2> PICK x \in Orders :
        /\ Enter(h, "poll", "remote", x, p, "null", status[x], activated[x])
        /\ UNCHANGED <<orderVars, subs, fails, crashes>>
    BY <1>7 DEF PollFind
  <2>1. UNCHANGED <<activated, subs, fails, crashes>>
    BY DEF orderVars
  <2>2. "remote" \in {"setPayment", "remote", "setStatus", "item", "reply"} /\ "remote" # "item"
    OBVIOUS
  <2> QED
    BY <1>2, <2>1, <2>2
<1>8. ASSUME NEW h \in Handlers, NEW p \in Payments, NEW s \in GatewayStatus, IpnFind(h, p, s)
      PROVE  HarmInv'
  <2> DEFINE x == payOrder[p]
             l == AfterFind(IpnStatus(s), status[x], activated[x])
  <2>1. /\ s \in reached[p]
        /\ Enter(h, "ipn", l, x, p, IpnStatus(s), status[x], activated[x])
        /\ UNCHANGED <<activated, subs, fails, crashes>>
    BY <1>8 DEF IpnFind, orderVars
  <2>2. x \in Orders
    BY <2>1 DEF PayInv, Known
  <2>3. l \in {"setPayment", "remote", "setStatus", "item", "reply"} /\ (l = "item" => ~activated[x])
    BY DEF AfterFind, Activation
  <2> HIDE DEF l, x
  <2> QED
    BY <1>2, <2>1, <2>2, <2>3
<1>9. ASSUME NEW h \in Handlers, NEW l \in {"setStatus", "item", "reply"},
             l = "item" => ~seenActive[h],
             pc[h] \in {"remote", "setStatus"}, pc' = [pc EXCEPT ![h] = l],
             UNCHANGED <<order, seenActive, item, activated, subs, fails, crashes>>
      PROVE  HarmInv'
  <2>1. item[h] = 1
    BY <1>9 DEF PayInv, Progress, Done
  <2>2. pc'[h] = l /\ \A g \in Handlers \ {h} : pc'[g] = pc[g]
    BY <1>9 DEF PayInv, TypeOK
  <2>3. pc'[h] = "item" => ~seenActive'[h]
    BY <1>9, <2>2
  <2>4. pc[h] # "item" /\ pc[h] # "mark"
    BY <1>9
  <2>5. \A g \in Handlers \ {h} : /\ pc'[g] = pc[g] /\ order'[g] = order[g]
                               /\ seenActive'[g] = seenActive[g] /\ item'[g] = item[g]
    BY <1>9, <2>2
  <2>6. \/ pc'[h] \notin {"remote", "setStatus", "item", "mark"}
        \/ /\ pc'[h] \in {"remote", "setStatus", "item"} /\ item'[h] = 1
           /\ pc[h] \in {"remote", "setStatus"} /\ item[h] = 1
           /\ order'[h] = order[h] /\ seenActive'[h] = seenActive[h]
    BY <1>9, <2>1, <2>2
  <2> QED
    BY <1>1, <1>9, <2>3, <2>4, <2>5, <2>6, CallsBounded
<1>10. ASSUME NEW h \in Handlers, PollRemote(h) PROVE HarmInv'
  <2> DEFINE l == AfterFind(PollStatus(remote[payment[h]]), seen[h], seenActive[h])
  <2>1. l \in {"setStatus", "item", "reply"} /\ (l = "item" => ~seenActive[h])
    BY DEF AfterFind, Activation
  <2>2. /\ pc[h] = "remote" /\ pc' = [pc EXCEPT ![h] = l]
        /\ UNCHANGED <<order, seenActive, item, activated, subs, fails, crashes>>
    BY <1>10 DEF PollRemote, orderVars
  <2> HIDE DEF l
  <2> QED
    BY <1>9, <2>1, <2>2
<1>11. ASSUME NEW h \in Handlers, SetStatus(h) PROVE HarmInv'
  <2> DEFINE l == Activation(target[h], seenActive[h])
  <2>1. l \in {"setStatus", "item", "reply"} /\ (l = "item" => ~seenActive[h])
    BY DEF Activation
  <2>2. /\ pc[h] = "setStatus" /\ pc' = [pc EXCEPT ![h] = l]
        /\ UNCHANGED <<order, seenActive, item, activated, subs, fails, crashes>>
    BY <1>11 DEF SetStatus, Goto
  <2> HIDE DEF l
  <2> QED
    BY <1>9, <2>1, <2>2
<1>12. ASSUME NEW h \in Handlers, SetPayment(h) \/ Reply(h) PROVE HarmInv'
  <2>1. /\ pc[h] \in {"setPayment", "reply"} /\ pc'[h] = "idle"
        /\ \A g \in Handlers \ {h} : /\ pc'[g] = pc[g] /\ order'[g] = order[g]
                                     /\ seenActive'[g] = seenActive[g] /\ item'[g] = item[g]
        /\ UNCHANGED <<activated, subs, fails, crashes>>
    BY <1>12 DEF SetPayment, Reply, End, Locals, orderVars, PayInv, TypeOK
  <2> QED
    BY <1>1, <2>1, CallsBounded
<1>13. ASSUME NEW h \in Handlers, CreateSub(h) \/ MarkActivated(h) \/ CallFails(h) PROVE HarmInv'
  BY <1>1, <1>13, CreateSubBounded, MarkBounded, FailBounded
<1>14. CASE Crash
  BY <1>1, <1>14, CrashBounded
<1>15. CASE UNCHANGED vars
  BY <1>3, <1>15 DEF vars
<1> QED
  BY <1>4, <1>5, <1>6, <1>7, <1>8, <1>10, <1>11, <1>12, <1>13, <1>14, <1>15, Steps

\* However many calls overlap, fail or are cut short by a crash, an item is given out
\* no more often than calls were in flight with its first activation, or were cut
\* short since (createOrExtendSubscription in ipn and status,
\* payments-now.controller.ts).
THEOREM HarmIsBounded == Spec => []OverActivationBounded
<1>1. PayInv /\ HarmInv => OverActivationBounded
  <2> SUFFICES ASSUME PayInv, HarmInv, NEW o \in Orders, NEW i \in Items
               PROVE  subs[<<o, i>>] <= Cardinality(Handlers) * (1 + crashes) + fails
    BY DEF OverActivationBounded
  <2> DEFINE N == Cardinality(Handlers)
             K == N * crashes
             M == N * (1 + crashes)
  <2>1. TypeOK /\ Bounded(o, i)
    BY DEF PayInv, HarmInv
  <2>2. /\ subs[<<o, i>>] \in Nat /\ fails \in Nat /\ K \in Nat /\ M = K + N /\ N \in Nat
        /\ Cardinality(Made(o, i)) \in Nat /\ Cardinality(May(o, i)) \in Nat
        /\ Cardinality(Made(o, i)) <= N
    BY <2>1, Arith, Counts
  <2>3. \/ subs[<<o, i>>] + Cardinality(May(o, i)) <= M + fails
        \/ subs[<<o, i>>] <= Cardinality(Made(o, i)) + K + fails
    BY <2>1 DEF Bounded
  <2> HIDE DEF N, K, M
  <2>4. subs[<<o, i>>] <= M + fails
    BY <2>2, <2>3
  <2> QED
    BY <2>4 DEF M, N
<1> QED
  BY <1>1, PaymentsInvariant, InitHarm, NextHarm, PTL DEF Spec
=============================================================================
