------------------------- MODULE SubscriptionsProofs -------------------------
(***************************************************************************)
(* Proofs about Subscriptions, for any users, features, plans and slots,   *)
(* and for any number of calls in flight: nothing in the code limits it,   *)
(* and what is proved says how much each call more can add.                *)
(*                                                                         *)
(* The invariant counts.  For a moment to come, the periods that cover it  *)
(* and the calls that will create one more (Pending) are together no more  *)
(* than the calls a user may have in flight (Loads): whenever a call goes  *)
(* to Pending it has just seen that nothing covers the moments it will     *)
(* take.  Trials are counted alike (Tries).  For users whose calls do not  *)
(* overlap, what a call has seen stays true until it creates (Alone).      *)
(***************************************************************************)
EXTENDS Subscriptions, FiniteSetTheorems, WellFoundedInduction, TLAPS

-----------------------------------------------------------------------------
(* Greatest elements, and counting.                                        *)

\* A bounded set of numbers that is not empty has a greatest element, and Max is it.
LEMMA MaxIsGreatest ==
  ASSUME NEW S \in SUBSET Nat, S # {}, NEW b \in Nat, \A x \in S : x <= b
  PROVE  Max(S) \in S /\ \A x \in S : x <= Max(S)
<1> DEFINE T == {n \in Nat : \A x \in S : x <= n}
<1>1. IsWellFoundedOn(OpToRel(<, Nat), Nat)
  BY NatLessThanWellFounded
<1>2. T \subseteq Nat /\ T # {}
  OBVIOUS
<1>3. PICK m \in T : \A y \in T : <<y, m>> \notin OpToRel(<, Nat)
  BY <1>1, <1>2, WFMin
<1>4. \A y \in T : ~(y < m)
  BY <1>2, <1>3 DEF OpToRel
<1>5. m \in S
  <2> SUFFICES ASSUME m \notin S PROVE FALSE
    OBVIOUS
  <2>1. \A x \in S : x < m
    OBVIOUS
  <2>2. PICK x \in S : TRUE
    OBVIOUS
  <2>3. m \in Nat /\ x \in Nat /\ x < m
    BY <2>1
  <2>4. m - 1 \in T /\ m - 1 < m
    BY <2>1, <2>3
  <2> QED
    BY <2>4, <1>4
<1>6. \E x \in S : \A y \in S : x >= y
  BY <1>5
<1>7. Max(S) \in S /\ \A y \in S : Max(S) >= y
  BY <1>6 DEF Max
<1> QED
  BY <1>7

\* The greatest element is the only one that is as great as all.
LEMMA MaxIs ==
  ASSUME NEW S \in SUBSET Nat, NEW m \in S, \A x \in S : x <= m
  PROVE  Max(S) = m
<1>1. S \subseteq Nat /\ S # {} /\ m \in Nat
  OBVIOUS
<1>2. Max(S) \in S /\ \A x \in S : x <= Max(S)
  BY <1>1, MaxIsGreatest
<1>3. Max(S) \in Nat /\ Max(S) <= m /\ m <= Max(S)
  BY <1>1, <1>2
<1> QED
  BY <1>1, <1>3

\* Two sets that together have at most w elements: they may lose some,
LEMMA CountLess ==
  ASSUME NEW A, NEW B, IsFiniteSet(A), IsFiniteSet(B), NEW w \in Nat,
         Cardinality(A) + Cardinality(B) <= w, NEW C \in SUBSET A, NEW D \in SUBSET B
  PROVE  Cardinality(C) + Cardinality(D) <= w
<1>1. Cardinality(C) <= Cardinality(A) /\ Cardinality(D) <= Cardinality(B)
        /\ IsFiniteSet(C) /\ IsFiniteSet(D)
  BY FS_Subset
<1>2. /\ Cardinality(A) \in Nat /\ Cardinality(B) \in Nat
      /\ Cardinality(C) \in Nat /\ Cardinality(D) \in Nat
  BY <1>1, FS_CardinalityType
<1> QED
  BY <1>1, <1>2

\* or one may go from the one to the other;
LEMMA CountMove ==
  ASSUME NEW A, NEW B, IsFiniteSet(A), IsFiniteSet(B), NEW w \in Nat,
         Cardinality(A) + Cardinality(B) <= w, NEW x, NEW y \in B,
         NEW C \in SUBSET (A \cup {x}), NEW D \in SUBSET (B \ {y})
  PROVE  Cardinality(C) + Cardinality(D) <= w
<1>1. /\ IsFiniteSet(A \cup {x}) /\ IsFiniteSet(B \ {y})
      /\ Cardinality(B \ {y}) = Cardinality(B) - 1
      /\ Cardinality(A \cup {x}) = IF x \in A THEN Cardinality(A) ELSE Cardinality(A) + 1
  BY FS_AddElement, FS_RemoveElement
<1>2. Cardinality(A) \in Nat /\ Cardinality(B) \in Nat
  BY FS_CardinalityType
<1>3. Cardinality(A \cup {x}) + Cardinality(B \ {y}) <= w
  BY <1>1, <1>2
<1> QED
  BY <1>1, <1>3, CountLess

\* if the one is empty, the other is within any set of w.
LEMMA CountFirst ==
  ASSUME NEW B, IsFiniteSet(B), NEW w \in Nat, Cardinality(B) <= w, NEW D \in SUBSET B
  PROVE  Cardinality({}) + Cardinality(D) <= w
<1>1. Cardinality({}) = 0 /\ IsFiniteSet({})
  BY FS_EmptySet
<1>2. Cardinality({}) + Cardinality(B) <= w
  BY <1>1, FS_CardinalityType
<1> QED
  BY <1>1, <1>2, CountLess

-----------------------------------------------------------------------------
(* The types.                                                              *)

\* What goes with where a call is, and of which kind.
Slots ==
  \A h \in Handlers :
    /\ pc[h] = "idle" => user[h] = NoUser
    /\ pc[h] # "idle" => user[h] \in Users /\ feature[h] \in Features
    /\ pc[h] \in {"trialEver", "trialActive", "trialUser"} => kind[h] # "paid"
    /\ pc[h] # "idle" => IF kind[h] = "paid" THEN length[h] \in Plans ELSE length[h] = TrialLength
    /\ stamp[h] <= now \/ (pc[h] = "create" /\ kind[h] = "paid")

\* Some number is beyond every period.
Bounded == \E b \in Nat : \A i \in DOMAIN subs : subs[i].expiresAt <= b

TypeInv == TypeOK /\ Slots /\ Bounded

\* The documents are a list of subscriptions.
LEMMA Documents ==
  ASSUME TypeOK
  PROVE  /\ Len(subs) \in Nat /\ DOMAIN subs = 1 .. Len(subs)
         /\ \A i \in DOMAIN subs :
              /\ subs[i].user \in Users /\ subs[i].feature \in Features
              /\ subs[i].startedAt \in Nat /\ subs[i].expiresAt \in Nat
              /\ subs[i].isTrial \in BOOLEAN
<1>1. subs \in Seq(Subscription)
  BY DEF TypeOK
<1>2. Len(subs) \in Nat /\ DOMAIN subs = 1 .. Len(subs) /\ \A i \in 1 .. Len(subs) : subs[i] \in Subscription
  BY <1>1
<1> QED
  BY <1>2 DEF Subscription

\* The ends of a user's periods are numbers, and have a greatest one.
LEMMA EndsAre ==
  ASSUME TypeInv, NEW u, NEW f
  PROVE  /\ Ends(u, f) \subseteq Nat
         /\ \A S \in SUBSET Ends(u, f) : S # {} => Max(S) \in S /\ \A e \in S : e <= Max(S)
         /\ \A i \in Mine(u) : subs[i].feature = f => subs[i].expiresAt \in Ends(u, f)
<1>1. \A i \in DOMAIN subs : subs[i].expiresAt \in Nat
  BY Documents DEF TypeInv
<1>2. Ends(u, f) \subseteq Nat
  BY <1>1 DEF Ends, Mine
<1>3. PICK b \in Nat : \A i \in DOMAIN subs : subs[i].expiresAt <= b
  BY DEF TypeInv, Bounded
<1>4. \A e \in Ends(u, f) : e <= b
  BY <1>3 DEF Ends, Mine
<1>5. ASSUME NEW S \in SUBSET Ends(u, f), S # {}
      PROVE  Max(S) \in S /\ \A e \in S : e <= Max(S)
  <2>1. S \in SUBSET Nat /\ \A e \in S : e <= b
    BY <1>2, <1>4
  <2> QED
    BY <1>5, <2>1, MaxIsGreatest
<1>6. \A i \in Mine(u) : subs[i].feature = f => subs[i].expiresAt \in Ends(u, f)
  BY DEF Ends
<1> QED
  BY <1>2, <1>5, <1>6

\* What creating a document changes.
LEMMA Created ==
  ASSUME TypeInv, NEW s \in Subscription, subs' = Append(subs, s)
  PROVE  /\ subs' \in Seq(Subscription)
         /\ Bounded'
         /\ Len(subs') = Len(subs) + 1
         /\ \A i \in DOMAIN subs : subs'[i] = subs[i]
         /\ subs'[Len(subs) + 1] = s
<1>1. subs \in Seq(Subscription)
  BY DEF TypeInv, TypeOK
<1>2. /\ subs' \in Seq(Subscription)
      /\ Len(subs') = Len(subs) + 1
      /\ \A i \in DOMAIN subs : subs'[i] = subs[i]
      /\ subs'[Len(subs) + 1] = s
  BY <1>1
<1>3. Bounded'
  <2>1. PICK b \in Nat : \A i \in DOMAIN subs : subs[i].expiresAt <= b
    BY DEF TypeInv, Bounded
  <2>2. s.expiresAt \in Nat /\ \A i \in DOMAIN subs : subs[i].expiresAt \in Nat
    BY Documents DEF TypeInv, Subscription
  <2>3. b + s.expiresAt \in Nat
    BY <2>2
  <2>4. ASSUME NEW i \in DOMAIN subs' PROVE subs'[i].expiresAt <= b + s.expiresAt
    <3>1. i \in DOMAIN subs \/ i = Len(subs) + 1
      BY <1>1, <1>2
    <3> QED
      BY <3>1, <1>2, <2>1, <2>2
  <2> QED
    BY <2>3, <2>4 DEF Bounded
<1> QED
  BY <1>2, <1>3

\* The document that the create in slot h makes.
NewOf(h) == [user |-> user[h], feature |-> feature[h], startedAt |-> stamp[h],
             expiresAt |-> stamp[h] + length[h], isTrial |-> kind[h] # "paid"]

LEMMA NewDocument ==
  ASSUME TypeInv, NEW h \in Handlers, Create(h)
  PROVE  NewOf(h) \in Subscription /\ subs' = Append(subs, NewOf(h))
<1>1. stamp[h] \in Nat /\ length[h] \in Nat /\ stamp[h] + length[h] \in Nat
  BY DEF TypeInv, TypeOK
<1>2. user[h] \in Users /\ feature[h] \in Features
  BY DEF Create, TypeInv, Slots
<1> QED
  BY <1>1, <1>2 DEF Create, Subscription, NewOf

\* What a call may choose for the start of its period.
LEMMA StartIs ==
  ASSUME TypeInv, NEW h \in Handlers, NEW s \in Since(h), NEW t \in s .. now
  PROVE  /\ s \in Nat /\ t \in Nat /\ now \in Nat /\ s <= t /\ t <= now
         /\ StartedAt(h, s, t) \in Nat
         /\ StartedAt(h, s, t) = s \/ (kind[h] = "paid" /\ StartedAt(h, s, t) > t
                                       /\ StartedAt(h, s, t) \in Ends(user[h], feature[h]))
         /\ kind[h] = "paid" => \A e \in Ends(user[h], feature[h]) :
                                  e > now => e <= StartedAt(h, s, t)
<1> DEFINE ends == ActiveEnds(user[h], feature[h], t)
<1>1. s \in Nat /\ t \in Nat /\ now \in Nat /\ s <= t /\ t <= now
  BY DEF TypeInv, TypeOK, Since
<1>2. /\ ends \subseteq Ends(user[h], feature[h]) /\ Ends(user[h], feature[h]) \subseteq Nat
      /\ \A e \in Ends(user[h], feature[h]) : e > t <=> e \in ends
  BY EndsAre DEF ActiveEnds
<1>3. StartedAt(h, s, t) = IF kind[h] = "paid" /\ ends # {} THEN Max(ends) ELSE s
  BY DEF StartedAt
<1>4. ends # {} => Max(ends) \in ends /\ \A e \in ends : e <= Max(ends)
  BY <1>2, EndsAre
<1>5. ends # {} => Max(ends) \in Nat /\ Max(ends) > t /\ Max(ends) \in Ends(user[h], feature[h])
  BY <1>2, <1>4
<1>6. \A e \in Ends(user[h], feature[h]) : e > now => e \in ends
  BY <1>1, <1>2
<1> HIDE DEF ends
<1>7. CASE kind[h] = "paid" /\ ends # {}
  BY <1>1, <1>3, <1>4, <1>5, <1>6, <1>7
<1>8. CASE ~(kind[h] = "paid" /\ ends # {})
  BY <1>1, <1>3, <1>6, <1>8
<1> QED
  BY <1>7, <1>8

\* The steps of Next, one by one.
LEMMA Steps ==
  ASSUME Next
  PROVE  \/ \E h \in Handlers, u \in Users, f \in Features, d \in Plans : ExtendBegin(h, u, f, d)
         \/ \E h \in Handlers, u \in Users, f \in Features, k \in {"orderedTrial", "trial"} :
              TrialBegin(h, k, u, f)
         \/ \E h \in Handlers : \/ TrialEver(h) \/ TrialActive(h) \/ TrialUser(h)
                                \/ ExtendActive(h) \/ Create(h) \/ Abort(h)
         \/ \E u \in Users : Verify(u)
         \/ Tick
  BY DEF Next

LEMMA BeginTypes ==
  ASSUME TypeInv, NEW h \in Handlers, NEW k \in {"paid", "orderedTrial", "trial"}, NEW u \in Users,
         NEW f \in Features, NEW len \in Nat, NEW l \in {"active", "trialEver"},
         l = "trialEver" <=> k # "paid", IF k = "paid" THEN len \in Plans ELSE len = TrialLength,
         Begin(h, k, u, f, len, l)
  PROVE  TypeInv'
<1>1. TypeOK'
  BY DEF TypeInv, TypeOK, Begin
<1>2. Slots'
  BY DEF TypeInv, TypeOK, Slots, Begin
<1>3. Bounded'
  BY DEF TypeInv, Bounded, Begin
<1> QED
  BY <1>1, <1>2, <1>3 DEF TypeInv

LEMMA StepTypes ==
  ASSUME TypeInv, NEW h \in Handlers, NEW t \in Nat,
         t <= now \/ kind[h] = "paid",
         \/ Step(h, "trialEver", "trialActive", t)
         \/ Step(h, "trialActive", "trialUser", t)
         \/ Step(h, "trialUser", "active", t)
         \/ Step(h, "trialUser", "create", t)
         \/ Step(h, "active", "create", t)
  PROVE  TypeInv'
<1>1. TypeOK'
  BY DEF TypeInv, TypeOK, Step
<1>2. Slots'
  BY DEF TypeInv, TypeOK, Slots, Step
<1>3. Bounded'
  BY DEF TypeInv, Bounded, Step
<1> QED
  BY <1>1, <1>2, <1>3 DEF TypeInv

LEMMA EndTypes ==
  ASSUME TypeInv, NEW h \in Handlers, End(h), UNCHANGED <<now, verified>>,
         subs' \in Seq(Subscription), Bounded'
  PROVE  TypeInv'
<1>1. TypeOK'
  BY DEF TypeInv, TypeOK, End
<1>2. Slots'
  BY DEF TypeInv, TypeOK, Slots, End
<1> QED
  BY <1>1, <1>2 DEF TypeInv

LEMMA TypeInvNext == TypeInv /\ [Next]_vars => TypeInv'
<1> SUFFICES ASSUME TypeInv, [Next]_vars PROVE TypeInv'
  OBVIOUS
<1>1. CASE UNCHANGED vars
  BY <1>1 DEF TypeInv, TypeOK, Slots, Bounded, vars
<1>2. CASE Next
  <2>0. now \in Nat /\ now <= now
    BY DEF TypeInv, TypeOK
  <2>1. ASSUME NEW h \in Handlers, NEW u \in Users, NEW f \in Features, NEW d \in Plans,
               ExtendBegin(h, u, f, d)
        PROVE TypeInv'
    BY <2>1, BeginTypes, LengthsAssumption DEF ExtendBegin
  <2>2. ASSUME NEW h \in Handlers, NEW u \in Users, NEW f \in Features,
               NEW k \in {"orderedTrial", "trial"}, TrialBegin(h, k, u, f)
        PROVE TypeInv'
    BY <2>2, BeginTypes, LengthsAssumption DEF TrialBegin
  <2>3. ASSUME NEW h \in Handlers, End(h), UNCHANGED <<now, subs, verified>> PROVE TypeInv'
    <3>1. subs' \in Seq(Subscription) /\ Bounded'
      BY <2>3 DEF TypeInv, TypeOK, Bounded
    <3> QED
      BY <2>3, <3>1, EndTypes
  <2>4. ASSUME NEW h \in Handlers, TrialEver(h) PROVE TypeInv'
    BY <2>0, <2>3, <2>4, StepTypes DEF TrialEver, Refuse
  <2>5. ASSUME NEW h \in Handlers, TrialActive(h) PROVE TypeInv'
    BY <2>0, <2>3, <2>5, StepTypes DEF TrialActive, Refuse
  <2>6. ASSUME NEW h \in Handlers, TrialUser(h) PROVE TypeInv'
    BY <2>0, <2>3, <2>6, StepTypes DEF TrialUser, Refuse
  <2>7. ASSUME NEW h \in Handlers, ExtendActive(h) PROVE TypeInv'
    <3>1. PICK s \in Since(h) : \E t \in s .. now : Step(h, "active", "create", StartedAt(h, s, t))
      BY <2>7 DEF ExtendActive
    <3>2. PICK t \in s .. now : Step(h, "active", "create", StartedAt(h, s, t))
      BY <3>1
    <3>3. StartedAt(h, s, t) \in Nat /\ (StartedAt(h, s, t) <= now \/ kind[h] = "paid")
      BY StartIs
    <3> QED
      BY <3>2, <3>3, StepTypes
  <2>8. ASSUME NEW h \in Handlers, Create(h) PROVE TypeInv'
    <3>1. subs' \in Seq(Subscription) /\ Bounded'
      BY <2>8, NewDocument, Created
    <3> QED
      BY <2>8, <3>1, EndTypes DEF Create
  <2>9. ASSUME NEW h \in Handlers, Abort(h) PROVE TypeInv'
    BY <2>3, <2>9 DEF Abort
  <2>10. ASSUME NEW u \in Users, Verify(u) PROVE TypeInv'
    BY <2>10 DEF Verify, callVars, TypeInv, TypeOK, Slots, Bounded
  <2>11. CASE Tick
    <3>1. now' \in Nat /\ now' = now + 1
            /\ UNCHANGED <<subs, verified, pc, kind, user, feature, length, stamp>>
      BY <2>0, <2>11 DEF Tick, callVars
    <3>2. TypeOK' /\ Slots'
      BY <3>1 DEF TypeInv, TypeOK, Slots
    <3>3. Bounded'
      BY <3>1 DEF TypeInv, Bounded
    <3> QED
      BY <3>2, <3>3 DEF TypeInv
  <2> QED
    BY <1>2, <2>1, <2>2, <2>4, <2>5, <2>6, <2>7, <2>8, <2>9, <2>10, <2>11, Steps
<1> QED
  BY <1>1, <1>2

LEMMA TypeInvInit == Init => TypeInv
<1> SUFFICES ASSUME Init PROVE TypeInv
  OBVIOUS
<1>1. TypeOK
  BY DEF Init, TypeOK
<1>2. Slots
  BY DEF Init, Slots
<1>3. Bounded
  BY 0 \in Nat DEF Init, Bounded
<1> QED
  BY <1>1, <1>2, <1>3 DEF TypeInv

\* Every document ends at some moment, every slot stands somewhere in the two calls,
\* and what it knows is of the sort it should be.
THEOREM SubscriptionsTypeOK == Spec => []TypeOK
<1>1. TypeInv => TypeOK
  BY DEF TypeInv
<1> QED
  BY <1>1, TypeInvInit, TypeInvNext, PTL DEF Spec

-----------------------------------------------------------------------------
(* The invariant.                                                          *)

\* The calls that may still create a period of u for f that covers m.
Booked(h, f, m) ==
  /\ feature[h] = f
  /\ IF kind[h] = "paid" THEN pc[h] = "create" /\ stamp[h] <= m
     ELSE f = Premium /\ pc[h] \in {"trialUser", "active", "create"}

Pending(u, f, m) == {h \in InFlight(u) : Booked(h, f, m)}

\* The calls that may still create a trial of u.
Trying(u) ==
  {h \in InFlight(u) : kind[h] # "paid" /\ pc[h] \in {"trialActive", "trialUser", "active", "create"}}

Widths == \A u \in Users : Cardinality(InFlight(u)) <= Width[u]

Loads ==
  \A u \in Users, f \in Features : \A m \in Nat : m >= now =>
    Cardinality(Covers(u, f, m)) + Cardinality(Pending(u, f, m)) <= Width[u]

Tries == \A u \in Users : Cardinality(Trials(u)) + Cardinality(Trying(u)) <= Width[u]

\* A paid period starts where the last one ends that is still to come, ...
Anchored(h) ==
  pc[h] = "create" /\ kind[h] = "paid" =>
    /\ stamp[h] <= now \/ stamp[h] \in Ends(user[h], feature[h])
    /\ \A e \in Ends(user[h], feature[h]) : e > now => e <= stamp[h]

\* ... and a trial only if none of PREMIUM is.
Unentitled(h) ==
  kind[h] # "paid" /\ pc[h] \in {"trialUser", "active", "create"} =>
    \A e \in Ends(user[h], Premium) : e <= now

Alone == \A h \in Handlers : user[h] \in Serial => Anchored(h) /\ Unentitled(h)

IInv == TypeInv /\ Widths /\ Loads /\ Tries /\ Alone

-----------------------------------------------------------------------------
(* How the counts change.                                                  *)

LEMMA Finite ==
  ASSUME TypeInv, NEW u \in Users, NEW f, NEW m
  PROVE  /\ IsFiniteSet(InFlight(u)) /\ IsFiniteSet(Mine(u))
         /\ IsFiniteSet(Covers(u, f, m)) /\ IsFiniteSet(Pending(u, f, m))
         /\ IsFiniteSet(Trials(u)) /\ IsFiniteSet(Trying(u))
         /\ Width[u] \in Nat
<1>1. IsFiniteSet(InFlight(u)) /\ Width[u] \in Nat
  BY WidthAssumption, FS_Subset DEF InFlight
<1>2. IsFiniteSet(Mine(u))
  <2>1. Len(subs) \in Nat /\ DOMAIN subs = 1 .. Len(subs)
    BY Documents DEF TypeInv
  <2>2. IsFiniteSet(1 .. Len(subs))
    BY <2>1, FS_Interval
  <2>3. Mine(u) \subseteq 1 .. Len(subs)
    BY <2>1 DEF Mine
  <2> QED
    BY <2>2, <2>3, FS_Subset
<1>3. IsFiniteSet(Covers(u, f, m)) /\ IsFiniteSet(Trials(u))
  BY <1>2, FS_Subset DEF Covers, Trials
<1>4. IsFiniteSet(Pending(u, f, m)) /\ IsFiniteSet(Trying(u))
  BY <1>1, FS_Subset DEF Pending, Trying
<1> QED
  BY <1>1, <1>2, <1>3, <1>4

\* Two slots have different users, if one of these has one call at a time.
LEMMA OneCall ==
  ASSUME TypeInv, Widths, NEW g \in Handlers, NEW h \in Handlers, g # h,
         user[g] \in Users, user[g] \in Serial
  PROVE  user[h] # user[g]
<1> SUFFICES ASSUME user[h] = user[g] PROVE FALSE
  OBVIOUS
<1> DEFINE u == user[g]
           S == InFlight(u)
<1>1. u \in Users /\ Width[u] <= 1 /\ Width[u] \in Nat /\ IsFiniteSet(S)
  BY Finite DEF Serial
<1>2. Cardinality(S) <= Width[u] /\ Cardinality(S) \in Nat
  BY <1>1, FS_CardinalityType DEF Widths
<1>3. g \in S /\ h \in S
  BY DEF InFlight
<1> HIDE DEF S, u
<1>4. IsFiniteSet(S \ {g}) /\ Cardinality(S \ {g}) = Cardinality(S) - 1
  BY <1>1, <1>3, FS_RemoveElement
<1>5. Cardinality(S \ {g}) \in Nat
  BY <1>4, FS_CardinalityType
<1>6. Cardinality(S \ {g}) = 0
  BY <1>1, <1>2, <1>4, <1>5
<1>7. S \ {g} = {}
  BY <1>4, <1>6, FS_EmptySet
<1> QED
  BY <1>3, <1>7

\* What a step of slot h leaves alone.
Frame(h) ==
  \A g \in Handlers \ {h} :
    /\ pc'[g] = pc[g] /\ kind'[g] = kind[g] /\ user'[g] = user[g]
    /\ feature'[g] = feature[g] /\ length'[g] = length[g] /\ stamp'[g] = stamp[g]

LEMMA WidthsKept ==
  ASSUME TypeInv, Widths, NEW h \in Handlers, Frame(h),
         \A u \in Users : user'[h] = u => user[h] = u \/ Cardinality(InFlight(u)) < Width[u]
  PROVE  Widths'
<1> SUFFICES ASSUME NEW u \in Users PROVE Cardinality(InFlight(u)') <= Width[u]
  BY DEF Widths
<1>1. IsFiniteSet(InFlight(u)) /\ Width[u] \in Nat /\ Cardinality(InFlight(u)) <= Width[u]
        /\ Cardinality(InFlight(u)) \in Nat
  BY Finite, FS_CardinalityType DEF Widths
<1>2. CASE InFlight(u)' \subseteq InFlight(u)
  <2>1. Cardinality(InFlight(u)') <= Cardinality(InFlight(u)) /\ IsFiniteSet(InFlight(u)')
    BY <1>1, <1>2, FS_Subset
  <2>2. Cardinality(InFlight(u)') \in Nat
    BY <2>1, FS_CardinalityType
  <2> QED
    BY <1>1, <2>1, <2>2
<1>3. CASE ~(InFlight(u)' \subseteq InFlight(u))
  <2>1. InFlight(u)' \subseteq InFlight(u) \cup {h} /\ user'[h] = u /\ user[h] # u
    BY <1>3 DEF InFlight, Frame
  <2>2. Cardinality(InFlight(u)) < Width[u]
    BY <2>1
  <2>3. /\ IsFiniteSet(InFlight(u) \cup {h}) /\ h \notin InFlight(u)
        /\ Cardinality(InFlight(u) \cup {h}) = Cardinality(InFlight(u)) + 1
    BY <1>1, <2>1, FS_AddElement DEF InFlight
  <2>4. Cardinality(InFlight(u)') <= Cardinality(InFlight(u) \cup {h}) /\ IsFiniteSet(InFlight(u)')
    BY <2>1, <2>3, FS_Subset
  <2>5. Cardinality(InFlight(u)') \in Nat /\ Cardinality(InFlight(u) \cup {h}) \in Nat
    BY <2>3, <2>4, FS_CardinalityType
  <2> QED
    BY <1>1, <2>2, <2>3, <2>4, <2>5
<1> QED
  BY <1>2, <1>3

LEMMA PendingIn ==
  ASSUME NEW u, NEW f, NEW m
  PROVE  Pending(u, f, m) \subseteq InFlight(u) /\ Trying(u) \subseteq InFlight(u)
  BY DEF Pending, Trying

\* A step that creates nothing: a call gets to Pending only where nothing covers, and
\* to Trying only if there is no trial.
LEMMA CountsKept ==
  ASSUME TypeInv, TypeInv', Loads, Tries, Widths', NEW h \in Handlers, Frame(h),
         UNCHANGED subs, now <= now',
         \A v \in Users, f \in Features, m \in Nat :
           m >= now' /\ Booked(h, f, m)' /\ user'[h] = v =>
             (user[h] = v /\ Booked(h, f, m)) \/ Covers(v, f, m) = {},
         \A v \in Users :
           h \in Trying(v)' => h \in Trying(v) \/ Trials(v) = {}
  PROVE  Loads' /\ Tries'
<1>0. now \in Nat /\ now' \in Nat
  BY DEF TypeInv, TypeOK
<1>1. ASSUME NEW u \in Users, NEW f \in Features, NEW m \in Nat, m >= now'
      PROVE  Cardinality(Covers(u, f, m)') + Cardinality(Pending(u, f, m)') <= Width[u]
  <2>1. Covers(u, f, m)' = Covers(u, f, m)
    BY DEF Covers, Counts, Mine
  <2>2. CASE Pending(u, f, m)' \subseteq Pending(u, f, m)
    <3>1. Cardinality(Covers(u, f, m)) + Cardinality(Pending(u, f, m)) <= Width[u]
      BY <1>0, <1>1 DEF Loads
    <3> QED
      BY <2>1, <2>2, <3>1, Finite, CountLess
  <2>3. CASE ~(Pending(u, f, m)' \subseteq Pending(u, f, m))
    <3>1. user'[h] = u /\ Booked(h, f, m)' /\ ~(user[h] = u /\ Booked(h, f, m))
      BY <2>3 DEF Pending, InFlight, Frame, Booked
    <3>2. Covers(u, f, m) = {}
      BY <1>1, <3>1
    <3>3. IsFiniteSet(InFlight(u)') /\ Cardinality(InFlight(u)') <= Width[u] /\ Width[u] \in Nat
      BY Finite, WidthAssumption, FS_Subset DEF Widths, InFlight
    <3>4. Pending(u, f, m)' \subseteq InFlight(u)'
      BY DEF Pending
    <3>5. Cardinality({}) + Cardinality(Pending(u, f, m)') <= Width[u]
      BY <3>3, <3>4, CountFirst
    <3> QED
      BY <2>1, <3>2, <3>5
  <2> QED
    BY <2>2, <2>3
<1>2. ASSUME NEW u \in Users
      PROVE  Cardinality(Trials(u)') + Cardinality(Trying(u)') <= Width[u]
  <2>1. Trials(u)' = Trials(u)
    BY DEF Trials, Mine
  <2>2. CASE Trying(u)' \subseteq Trying(u)
    BY <2>1, <2>2, Finite, CountLess DEF Tries
  <2>3. CASE ~(Trying(u)' \subseteq Trying(u))
    <3>1. user'[h] = u /\ h \in Trying(u)' /\ h \notin Trying(u)
      BY <2>3 DEF Trying, InFlight, Frame
    <3>2. Trials(u) = {}
      BY <3>1
    <3>3. IsFiniteSet(InFlight(u)') /\ Cardinality(InFlight(u)') <= Width[u] /\ Width[u] \in Nat
      BY Finite, WidthAssumption, FS_Subset DEF Widths, InFlight
    <3>4. Trying(u)' \subseteq InFlight(u)'
      BY DEF Trying
    <3>5. Cardinality({}) + Cardinality(Trying(u)') <= Width[u]
      BY <3>3, <3>4, CountFirst
    <3> QED
      BY <2>1, <3>2, <3>5
  <2> QED
    BY <2>2, <2>3
<1>3. Loads'
  BY <1>1 DEF Loads
<1>4. Tries'
  BY <1>2 DEF Tries
<1> QED
  BY <1>3, <1>4

\* The other calls of serial users still know what they know.
LEMMA AloneKept ==
  ASSUME TypeInv, TypeInv', Widths', Alone, NEW h \in Handlers, Frame(h), now <= now',
         \A u \in Users, f \in Features : u # user[h] => Ends(u, f)' = Ends(u, f),
         Widths,
         user'[h] \in Serial => Anchored(h)' /\ Unentitled(h)'
  PROVE  Alone'
<1> SUFFICES ASSUME NEW g \in Handlers, user'[g] \in Serial
             PROVE  Anchored(g)' /\ Unentitled(g)'
  BY DEF Alone
<1>1. CASE g = h
  BY <1>1
<1>2. CASE g # h
  <2>1. /\ pc'[g] = pc[g] /\ kind'[g] = kind[g] /\ user'[g] = user[g]
        /\ feature'[g] = feature[g] /\ stamp'[g] = stamp[g]
    BY <1>2 DEF Frame
  <2>2. user[g] \in Serial /\ user[g] \in Users /\ pc[g] # "idle"
    BY <2>1, NamesAssumption DEF Serial, TypeInv, Slots
  <2>3. feature[g] \in Features /\ stamp[g] \in Nat /\ now \in Nat /\ now' \in Nat
    BY <2>2 DEF TypeInv, Slots, TypeOK
  <2>4. PICK u \in Users, f \in Features : u = user[g] /\ f = feature[g]
    BY <2>2, <2>3
  <2>5. user[h] # u
    BY <1>2, <2>2, <2>4, OneCall
  <2>6. Ends(u, f)' = Ends(u, f) /\ Ends(u, Premium)' = Ends(u, Premium)
    BY <2>5, PremiumAssumption
  <2>7. Ends(u, f) \subseteq Nat /\ Ends(u, Premium) \subseteq Nat
    BY EndsAre
  <2>8. Anchored(g) /\ Unentitled(g)
    BY <2>2 DEF Alone
  <2>9. Ends(user[g], feature[g])' = Ends(u, f)' /\ Ends(user[g], Premium)' = Ends(u, Premium)'
    BY <2>1, <2>4
  <2>10. Anchored(g)'
    BY <2>1, <2>3, <2>4, <2>6, <2>7, <2>8, <2>9 DEF Anchored
  <2>11. Unentitled(g)'
    BY <2>1, <2>3, <2>4, <2>6, <2>7, <2>8, <2>9 DEF Unentitled
  <2> QED
    BY <2>10, <2>11
<1> QED
  BY <1>1, <1>2

-----------------------------------------------------------------------------
(* The invariant is kept.                                                  *)

LEMMA NoneCover ==
  ASSUME TypeInv, NEW u, NEW f, NEW m \in Nat, \A e \in Ends(u, f) : e <= m
  PROVE  Covers(u, f, m) = {}
<1> SUFFICES ASSUME NEW i \in Covers(u, f, m) PROVE FALSE
  OBVIOUS
<1>1. i \in Mine(u) /\ subs[i].feature = f /\ m < subs[i].expiresAt
  BY DEF Covers
<1>2. subs[i].expiresAt \in Ends(u, f) /\ subs[i].expiresAt \in Nat
  BY <1>1, EndsAre
<1> QED
  BY <1>1, <1>2

LEMMA SlotKeeps ==
  ASSUME IInv, TypeInv', NEW h \in Handlers, Frame(h), UNCHANGED <<now, subs>>,
         \A u \in Users : user'[h] = u => user[h] = u \/ Cardinality(InFlight(u)) < Width[u],
         \A v \in Users, f \in Features, m \in Nat :
           m >= now /\ Booked(h, f, m)' /\ user'[h] = v =>
             (user[h] = v /\ Booked(h, f, m)) \/ Covers(v, f, m) = {},
         \A v \in Users :
           h \in Trying(v)' => h \in Trying(v) \/ Trials(v) = {},
         user'[h] \in Serial => Anchored(h)' /\ Unentitled(h)'
  PROVE  IInv'
<1>1. TypeInv /\ Widths /\ Loads /\ Tries /\ Alone /\ now' = now /\ now <= now'
  BY DEF IInv, TypeInv, TypeOK
<1>2. Widths'
  BY <1>1, WidthsKept
<1>3. Loads' /\ Tries'
  BY <1>1, <1>2, CountsKept
<1>4. \A u \in Users, f \in Features : u # user[h] => Ends(u, f)' = Ends(u, f)
  BY DEF Ends, Mine
<1>5. Alone'
  BY <1>1, <1>2, <1>4, AloneKept
<1> QED
  BY <1>2, <1>3, <1>5 DEF IInv

LEMMA BeginKeeps ==
  ASSUME IInv, TypeInv', NEW h \in Handlers, NEW k, NEW u \in Users, NEW f, NEW len, NEW l,
         l = IF k = "paid" THEN "active" ELSE "trialEver", Begin(h, k, u, f, len, l)
  PROVE  IInv'
<1>1. /\ Frame(h) /\ UNCHANGED <<now, subs>> /\ pc'[h] = l /\ kind'[h] = k /\ user'[h] = u
      /\ Cardinality(InFlight(u)) < Width[u]
  BY DEF Begin, Frame, IInv, TypeInv, TypeOK
<1>2. \A g \in Features, m \in Nat : ~Booked(h, g, m)'
  BY <1>1 DEF Booked
<1>3. \A v \in Users : h \notin Trying(v)'
  BY <1>1 DEF Trying
<1>4. Anchored(h)' /\ Unentitled(h)'
  BY <1>1 DEF Anchored, Unentitled
<1> QED
  BY <1>1, <1>2, <1>3, <1>4, SlotKeeps

LEMMA EndFrame ==
  ASSUME TypeInv, NEW h \in Handlers, End(h)
  PROVE  /\ Frame(h) /\ user'[h] = NoUser
         /\ \A v \in Users : h \notin InFlight(v)'
         /\ user'[h] \notin Serial
  BY NamesAssumption DEF End, Frame, InFlight, Serial, TypeInv, TypeOK

LEMMA EndKeeps ==
  ASSUME IInv, TypeInv', NEW h \in Handlers, End(h), UNCHANGED <<now, subs, verified>>
  PROVE  IInv'
<1>1. /\ Frame(h) /\ user'[h] = NoUser /\ user'[h] \notin Serial
      /\ \A v \in Users : h \notin InFlight(v)'
  BY EndFrame DEF IInv
<1>2. \A v \in Users : h \notin Trying(v)' /\ user'[h] # v
  BY <1>1, NamesAssumption DEF Trying
<1> QED
  BY <1>1, <1>2, SlotKeeps

LEMMA StepFrame ==
  ASSUME TypeInv, NEW h \in Handlers, NEW l, NEW m, NEW t, Step(h, l, m, t)
  PROVE  /\ Frame(h) /\ UNCHANGED <<now, subs>> /\ pc[h] = l /\ pc'[h] = m /\ stamp'[h] = t
         /\ kind'[h] = kind[h] /\ user'[h] = user[h] /\ feature'[h] = feature[h]
  BY DEF Step, Frame, TypeInv, TypeOK

LEMMA TrialEverKeeps ==
  ASSUME IInv, TypeInv', NEW h \in Handlers, TrialEver(h)
  PROVE  IInv'
<1>1. CASE Refuse(h, "trialEver")
  BY <1>1, EndKeeps DEF Refuse
<1>2. CASE ~HadTrial(user[h]) /\ Step(h, "trialEver", "trialActive", now)
  <2>1. /\ Frame(h) /\ UNCHANGED <<now, subs>> /\ pc'[h] = "trialActive"
        /\ kind'[h] = kind[h] /\ user'[h] = user[h] /\ kind[h] # "paid"
    BY <1>2, StepFrame DEF IInv, TypeInv, Slots
  <2>2. Trials(user[h]) = {}
    BY <1>2 DEF HadTrial, Trials
  <2>3. \A v \in Users : h \in Trying(v)' => Trials(v) = {}
    BY <2>1, <2>2 DEF Trying, InFlight
  <2>4. \A f \in Features, m \in Nat : ~Booked(h, f, m)'
    BY <2>1 DEF Booked
  <2>5. Anchored(h)' /\ Unentitled(h)'
    BY <2>1 DEF Anchored, Unentitled
  <2> QED
    BY <2>1, <2>3, <2>4, <2>5, SlotKeeps
<1> QED
  BY <1>1, <1>2 DEF TrialEver

LEMMA TrialActiveKeeps ==
  ASSUME IInv, TypeInv', NEW h \in Handlers, TrialActive(h)
  PROVE  IInv'
<1>1. CASE Refuse(h, "trialActive")
  BY <1>1, EndKeeps DEF Refuse
<1>2. ASSUME NEW t \in Since(h), ActiveEnds(user[h], Premium, t) = {},
             Step(h, "trialActive", "trialUser", now)
      PROVE  IInv'
  <2>1. /\ Frame(h) /\ UNCHANGED <<now, subs>> /\ pc[h] = "trialActive" /\ pc'[h] = "trialUser"
        /\ kind'[h] = kind[h] /\ user'[h] = user[h] /\ feature'[h] = feature[h]
        /\ kind[h] # "paid" /\ now' = now
    BY <1>2, StepFrame DEF IInv, TypeInv, Slots
  <2>2. t \in Nat /\ now \in Nat /\ t <= now /\ Ends(user[h], Premium) \subseteq Nat
    BY EndsAre DEF IInv, TypeInv, TypeOK, Since
  <2>3. \A e \in Ends(user[h], Premium) : e <= now
    BY <1>2, <2>2 DEF ActiveEnds
  <2>4. ASSUME NEW v \in Users, NEW f \in Features, NEW m \in Nat,
               m >= now, Booked(h, f, m)', user'[h] = v
        PROVE  Covers(v, f, m) = {}
    <3>1. f = Premium /\ v = user[h]
      BY <2>1, <2>4 DEF Booked
    <3>2. \A e \in Ends(v, f) : e <= m
      BY <2>2, <2>3, <2>4, <3>1
    <3> QED
      BY <3>2, NoneCover DEF IInv
  <2>5. \A v \in Users : h \in Trying(v)' => h \in Trying(v)
    BY <2>1 DEF Trying, InFlight
  <2>6. Ends(user[h], Premium)' = Ends(user[h], Premium)
    BY <2>1 DEF Ends, Mine
  <2>7. Anchored(h)' /\ Unentitled(h)'
    BY <2>1, <2>3, <2>6 DEF Anchored, Unentitled
  <2> QED
    BY <2>1, <2>4, <2>5, <2>7, SlotKeeps
<1> QED
  BY <1>1, <1>2 DEF TrialActive

LEMMA TrialUserKeeps ==
  ASSUME IInv, TypeInv', NEW h \in Handlers, TrialUser(h)
  PROVE  IInv'
<1>1. CASE Refuse(h, "trialUser")
  BY <1>1, EndKeeps DEF Refuse
<1>2. ASSUME NEW l \in {"active", "create"}, Step(h, "trialUser", l, now)
      PROVE  IInv'
  <2>1. /\ Frame(h) /\ UNCHANGED <<now, subs>> /\ pc[h] = "trialUser" /\ pc'[h] = l
        /\ kind'[h] = kind[h] /\ user'[h] = user[h] /\ feature'[h] = feature[h]
        /\ kind[h] # "paid" /\ now' = now
    BY <1>2, StepFrame DEF IInv, TypeInv, Slots
  <2>2. \A f \in Features, m \in Nat : Booked(h, f, m)' => Booked(h, f, m)
    BY <2>1 DEF Booked
  <2>3. \A v \in Users : h \in Trying(v)' => h \in Trying(v)
    BY <2>1 DEF Trying, InFlight
  <2>4. Ends(user[h], Premium)' = Ends(user[h], Premium)
    BY <2>1 DEF Ends, Mine
  <2>5. user'[h] \in Serial => Anchored(h)' /\ Unentitled(h)'
    BY <2>1, <2>4 DEF Anchored, Unentitled, IInv, Alone
  <2> QED
    BY <2>1, <2>2, <2>3, <2>5, SlotKeeps
<1> QED
  BY <1>1, <1>2 DEF TrialUser

LEMMA ExtendActiveKeeps ==
  ASSUME IInv, TypeInv', NEW h \in Handlers, ExtendActive(h)
  PROVE  IInv'
<1>1. PICK s \in Since(h) : \E t \in s .. now : Step(h, "active", "create", StartedAt(h, s, t))
  BY DEF ExtendActive
<1>2. PICK t \in s .. now : Step(h, "active", "create", StartedAt(h, s, t))
  BY <1>1
<1>3. PICK start \in Nat : start = StartedAt(h, s, t)
  BY StartIs DEF IInv
<1>4. /\ now \in Nat
      /\ start <= now \/ start \in Ends(user[h], feature[h])
      /\ kind[h] = "paid" => \A e \in Ends(user[h], feature[h]) : e > now => e <= start
      /\ Ends(user[h], feature[h]) \subseteq Nat
  BY <1>3, StartIs, EndsAre DEF IInv
<1>5. /\ Frame(h) /\ UNCHANGED <<now, subs>> /\ pc[h] = "active" /\ pc'[h] = "create"
      /\ kind'[h] = kind[h] /\ user'[h] = user[h] /\ feature'[h] = feature[h]
      /\ now' = now /\ stamp'[h] = start
  BY <1>2, <1>3, StepFrame DEF IInv
<1>6. ASSUME NEW v \in Users, NEW f \in Features, NEW m \in Nat,
             m >= now, Booked(h, f, m)', user'[h] = v
      PROVE  (user[h] = v /\ Booked(h, f, m)) \/ Covers(v, f, m) = {}
  <2>1. CASE kind[h] # "paid"
    BY <1>5, <1>6, <2>1 DEF Booked
  <2>2. CASE kind[h] = "paid"
    <3>1. v = user[h] /\ f = feature[h] /\ start <= m
      BY <1>5, <1>6, <2>2 DEF Booked
    <3>2. \A e \in Ends(v, f) : e <= m
      BY <1>3, <1>4, <1>6, <2>2, <3>1
    <3> QED
      BY <3>2, NoneCover DEF IInv
  <2> QED
    BY <2>1, <2>2
<1>7. \A v \in Users : h \in Trying(v)' => h \in Trying(v)
  BY <1>5 DEF Trying, InFlight
<1>8. /\ Ends(user[h], Premium)' = Ends(user[h], Premium)
      /\ Ends(user[h], feature[h])' = Ends(user[h], feature[h])
  BY <1>5 DEF Ends, Mine
<1>9. user'[h] \in Serial => Anchored(h)' /\ Unentitled(h)'
  BY <1>4, <1>5, <1>8 DEF Anchored, Unentitled, IInv, Alone
<1> QED
  BY <1>5, <1>6, <1>7, <1>9, SlotKeeps

\* The new document among the others.
LEMMA CreatedIs ==
  ASSUME TypeInv, NEW h \in Handlers, Create(h), NEW n, n = Len(subs) + 1, NEW u \in Users
  PROVE  /\ pc[h] = "create" /\ End(h) /\ UNCHANGED now
         /\ subs'[n] = NewOf(h) /\ n \notin Mine(u)
         /\ Mine(u)' = IF u = user[h] THEN Mine(u) \cup {n} ELSE Mine(u)
         /\ \A i \in Mine(u) : subs'[i] = subs[i]
<1>1. NewOf(h) \in Subscription /\ subs' = Append(subs, NewOf(h)) /\ NewOf(h).user = user[h]
  BY NewDocument DEF NewOf
<1>2. /\ subs' \in Seq(Subscription) /\ Len(subs') = n /\ subs'[n] = NewOf(h)
      /\ \A i \in DOMAIN subs : subs'[i] = subs[i]
  BY <1>1, Created
<1>3. Len(subs) \in Nat /\ DOMAIN subs = 1 .. Len(subs) /\ DOMAIN subs' = 1 .. n
  BY <1>2, Documents DEF TypeInv
<1>4. DOMAIN subs' = DOMAIN subs \cup {n} /\ n \notin DOMAIN subs
  BY <1>3
<1>5. Mine(u)' = IF u = user[h] THEN Mine(u) \cup {n} ELSE Mine(u)
  BY <1>1, <1>2, <1>4 DEF Mine
<1>6. n \notin Mine(u) /\ Mine(u) \subseteq DOMAIN subs
  BY <1>4 DEF Mine
<1> QED
  BY <1>2, <1>5, <1>6 DEF Create

LEMMA CreateKeeps ==
  ASSUME IInv, TypeInv', NEW h \in Handlers, Create(h)
  PROVE  IInv'
<1>0. TypeInv /\ Widths /\ Loads /\ Tries /\ Alone /\ now \in Nat
  BY DEF IInv, TypeInv, TypeOK
<1>1. PICK n : n = Len(subs) + 1
  OBVIOUS
<1>2. /\ pc[h] = "create" /\ End(h) /\ now' = now /\ now <= now' /\ subs'[n] = NewOf(h)
      /\ \A u \in Users :
           /\ n \notin Mine(u)
           /\ Mine(u)' = IF u = user[h] THEN Mine(u) \cup {n} ELSE Mine(u)
           /\ \A i \in Mine(u) : subs'[i] = subs[i]
  <2>1. user[h] \in Users
    BY <1>0 DEF Create, TypeInv, Slots
  <2> QED
    BY <1>0, <1>1, <2>1, CreatedIs
<1>3. /\ Frame(h) /\ user'[h] = NoUser /\ user'[h] \notin Serial
      /\ \A v \in Users : h \notin InFlight(v)'
  BY <1>0, <1>2, EndFrame
<1>4. Widths'
  BY <1>0, <1>3, NamesAssumption, WidthsKept
<1>5. /\ subs'[n].user = user[h] /\ subs'[n].feature = feature[h] /\ subs'[n].startedAt = stamp[h]
      /\ subs'[n].isTrial = (kind[h] # "paid")
  BY <1>2 DEF NewOf
<1>6. ASSUME NEW u \in Users, NEW f \in Features, NEW m \in Nat, m >= now'
      PROVE  Cardinality(Covers(u, f, m)') + Cardinality(Pending(u, f, m)') <= Width[u]
  <2>1. Pending(u, f, m)' \subseteq Pending(u, f, m) \ {h}
    BY <1>3 DEF Pending, InFlight, Frame, Booked
  <2>2. Covers(u, f, m)' \subseteq Covers(u, f, m) \cup {n}
    BY <1>2 DEF Covers, Counts
  <2>3. Cardinality(Covers(u, f, m)) + Cardinality(Pending(u, f, m)) <= Width[u]
    BY <1>0, <1>2, <1>6 DEF Loads
  <2>4. CASE n \in Covers(u, f, m)'
    <3>1. u = user[h] /\ f = feature[h] /\ stamp[h] <= m /\ (kind[h] # "paid" => f = Premium)
      BY <1>2, <1>5, <2>4 DEF Covers, Counts
    <3>2. h \in Pending(u, f, m)
      BY <1>2, <3>1 DEF Pending, InFlight, Booked
    <3> QED
      BY <1>0, <2>1, <2>2, <2>3, <3>2, Finite, CountMove
  <2>5. CASE n \notin Covers(u, f, m)'
    BY <1>0, <2>1, <2>2, <2>3, <2>5, Finite, CountLess
  <2> QED
    BY <2>4, <2>5
<1>7. ASSUME NEW u \in Users
      PROVE  Cardinality(Trials(u)') + Cardinality(Trying(u)') <= Width[u]
  <2>1. Trying(u)' \subseteq Trying(u) \ {h}
    BY <1>3 DEF Trying, InFlight, Frame
  <2>2. Trials(u)' \subseteq Trials(u) \cup {n}
    BY <1>2 DEF Trials
  <2>3. Cardinality(Trials(u)) + Cardinality(Trying(u)) <= Width[u]
    BY <1>0 DEF Tries
  <2>0. IsFiniteSet(Trials(u)) /\ IsFiniteSet(Trying(u)) /\ Width[u] \in Nat
    BY <1>0, Finite
  <2>4. CASE n \in Trials(u)'
    <3>1. u = user[h] /\ kind[h] # "paid"
      BY <1>2, <1>5, <2>4 DEF Trials
    <3>2. h \in Trying(u)
      BY <1>2, <3>1 DEF Trying, InFlight
    <3> QED
      <4>1. PICK A, B, C, D : A = Trials(u) /\ B = Trying(u) /\ C = Trials(u)' /\ D = Trying(u)'
        OBVIOUS
      <4>2. /\ IsFiniteSet(A) /\ IsFiniteSet(B) /\ Cardinality(A) + Cardinality(B) <= Width[u]
            /\ h \in B /\ C \in SUBSET (A \cup {n}) /\ D \in SUBSET (B \ {h})
        BY <2>0, <2>1, <2>2, <2>3, <3>2, <4>1
      <4>3. Cardinality(C) + Cardinality(D) <= Width[u]
        BY <2>0, <4>2, CountMove
      <4> QED
        BY <4>1, <4>3
  <2>5. CASE n \notin Trials(u)'
    BY <2>0, <2>1, <2>2, <2>3, <2>5, CountLess
  <2> QED
    BY <2>4, <2>5
<1>8. Loads' /\ Tries'
  BY <1>6, <1>7 DEF Loads, Tries
<1>9. \A u \in Users, f \in Features : u # user[h] => Ends(u, f)' = Ends(u, f)
  BY <1>2 DEF Ends
<1>10. Alone'
  BY <1>0, <1>2, <1>3, <1>4, <1>9, AloneKept
<1> QED
  BY <1>4, <1>8, <1>10 DEF IInv

\* Steps that no call takes.
LEMMA OutsideKeeps ==
  ASSUME IInv, TypeInv', UNCHANGED <<subs, pc, kind, user, feature, length, stamp>>, now <= now'
  PROVE  IInv'
<1>0. now \in Nat /\ now' \in Nat /\ TypeInv /\ \A h \in Handlers : stamp[h] \in Nat
  BY DEF IInv, TypeInv, TypeOK
<1>1. Widths'
  BY DEF IInv, Widths, InFlight
<1>2. \A u, f, m : Covers(u, f, m)' = Covers(u, f, m) /\ Pending(u, f, m)' = Pending(u, f, m)
  BY DEF Covers, Counts, Mine, Pending, InFlight, Booked
<1>3. Loads'
  BY <1>0, <1>2 DEF IInv, Loads
<1>4. Tries'
  BY DEF IInv, Tries, Trials, Mine, Trying, InFlight
<1>5. ASSUME NEW h \in Handlers, user'[h] \in Serial PROVE Anchored(h)' /\ Unentitled(h)'
  <2>1. /\ Ends(user[h], feature[h])' = Ends(user[h], feature[h])
        /\ Ends(user[h], Premium)' = Ends(user[h], Premium)
    BY DEF Ends, Mine
  <2>2. Ends(user[h], feature[h]) \subseteq Nat /\ Ends(user[h], Premium) \subseteq Nat
    BY <1>0, EndsAre
  <2>3. Anchored(h) /\ Unentitled(h)
    BY <1>5 DEF IInv, Alone
  <2> QED
    BY <1>0, <2>1, <2>2, <2>3 DEF Anchored, Unentitled
<1> QED
  BY <1>1, <1>3, <1>4, <1>5 DEF IInv, Alone

LEMMA IInvInit == Init => IInv
<1> SUFFICES ASSUME Init PROVE IInv
  OBVIOUS
<1>1. TypeInv /\ \A h \in Handlers : user[h] = NoUser /\ pc[h] = "idle"
  BY TypeInvInit DEF Init
<1>2. \A u \in Users : \A f, m :
        /\ InFlight(u) = {} /\ Trying(u) = {} /\ Pending(u, f, m) = {}
        /\ Trials(u) = {} /\ Covers(u, f, m) = {}
  BY NamesAssumption DEF Init, InFlight, Trying, Pending, Trials, Covers, Mine
<1>3. Cardinality({}) = 0 /\ \A u \in Users : Width[u] \in Nat
  BY FS_EmptySet, WidthAssumption
<1>4. Widths
  <2> SUFFICES ASSUME NEW u \in Users PROVE Cardinality(InFlight(u)) <= Width[u]
    BY DEF Widths
  <2>1. InFlight(u) = {} /\ Width[u] \in Nat
    BY <1>2, <1>3
  <2> QED
    BY <2>1, <1>3
<1>5. Loads
  <2> SUFFICES ASSUME NEW u \in Users, NEW f \in Features, NEW m \in Nat
               PROVE  Cardinality(Covers(u, f, m)) + Cardinality(Pending(u, f, m)) <= Width[u]
    BY DEF Loads
  <2>1. Covers(u, f, m) = {} /\ Pending(u, f, m) = {}
    BY <1>2
  <2> QED
    BY <2>1, <1>3
<1>6. Tries
  <2> SUFFICES ASSUME NEW u \in Users
               PROVE  Cardinality(Trials(u)) + Cardinality(Trying(u)) <= Width[u]
    BY DEF Tries
  <2>1. Trials(u) = {} /\ Trying(u) = {}
    BY <1>2
  <2> QED
    BY <2>1, <1>3
<1>7. Alone
  BY <1>1 DEF Alone, Anchored, Unentitled
<1> QED
  BY <1>1, <1>4, <1>5, <1>6, <1>7 DEF IInv

LEMMA IInvNext == IInv /\ [Next]_vars => IInv'
<1> SUFFICES ASSUME IInv, [Next]_vars PROVE IInv'
  OBVIOUS
<1>0. TypeInv' /\ now \in Nat
  BY TypeInvNext DEF IInv, TypeInv, TypeOK
<1>1. CASE UNCHANGED vars
  BY <1>0, <1>1, OutsideKeeps DEF vars
<1>2. CASE Next
  <2>1. ASSUME NEW h \in Handlers, NEW u \in Users, NEW f \in Features, NEW d \in Plans,
               ExtendBegin(h, u, f, d)
        PROVE IInv'
    BY <1>0, <2>1, BeginKeeps DEF ExtendBegin
  <2>2. ASSUME NEW h \in Handlers, NEW u \in Users, NEW f \in Features,
               NEW k \in {"orderedTrial", "trial"}, TrialBegin(h, k, u, f)
        PROVE IInv'
    BY <1>0, <2>2, BeginKeeps DEF TrialBegin
  <2>3. ASSUME NEW h \in Handlers, TrialEver(h) \/ TrialActive(h) \/ TrialUser(h)
                                   \/ ExtendActive(h) \/ Create(h)
        PROVE IInv'
    BY <1>0, <2>3, TrialEverKeeps, TrialActiveKeeps, TrialUserKeeps, ExtendActiveKeeps, CreateKeeps
  <2>4. ASSUME NEW h \in Handlers, Abort(h) PROVE IInv'
    BY <1>0, <2>4, EndKeeps DEF Abort
  <2>5. ASSUME NEW u \in Users, Verify(u) PROVE IInv'
    BY <1>0, <2>5, OutsideKeeps DEF Verify, callVars
  <2>6. CASE Tick
    BY <1>0, <2>6, OutsideKeeps DEF Tick, callVars
  <2> QED
    BY <1>2, <2>1, <2>2, <2>3, <2>4, <2>5, <2>6, Steps
<1> QED
  BY <1>1, <1>2

LEMMA AlwaysInv == Spec => []IInv
  BY IInvInit, IInvNext, PTL DEF Spec

\* UntilOf is the greatest of the ends, and of 0.
LEMMA UntilOfCovers ==
  ASSUME TypeInv, NEW u, NEW f
  PROVE  /\ UntilOf(u, f) \in Nat
         /\ UntilOf(u, f) \in Ends(u, f) \cup {0}
         /\ \A e \in Ends(u, f) : e <= UntilOf(u, f)
<1> DEFINE S == Ends(u, f) \cup {0}
<1>1. Ends(u, f) \subseteq Nat /\ S \subseteq Nat /\ 0 \in S
  BY EndsAre
<1>2. PICK m \in S : \A e \in S : e <= m
  <2>1. CASE Ends(u, f) = {}
    <3>1. S = {0} /\ \A e \in {0} : e <= 0
      BY <2>1
    <3> QED
      BY <3>1
  <2>2. CASE Ends(u, f) # {}
    <3>1. Max(Ends(u, f)) \in Ends(u, f) /\ \A e \in Ends(u, f) : e <= Max(Ends(u, f))
      BY <2>2, EndsAre
    <3>2. Max(Ends(u, f)) \in S /\ Max(Ends(u, f)) \in Nat /\ 0 <= Max(Ends(u, f))
      BY <1>1, <3>1
    <3> QED
      BY <3>1, <3>2
  <2> QED
    BY <2>1, <2>2
<1>3. Max(S) = m
  BY <1>1, <1>2, MaxIs
<1>4. UntilOf(u, f) = m
  BY <1>3 DEF UntilOf
<1> QED
  BY <1>1, <1>2, <1>4

\* However many calls overlap, by however many a user has in flight at once at most is
\* time to come sold to him (createOrExtendSubscription, activateTrial): a call that
\* has no other beside it sells only time that nothing covers.
THEOREM OverlapIsBounded == Spec => []OverlapBounded
<1>1. IInv => OverlapBounded
  <2> SUFFICES ASSUME IInv, NEW u \in Users, NEW f \in Features, NEW m \in now .. UntilOf(u, f)
               PROVE  Cardinality(Covers(u, f, m)) <= Width[u]
    BY DEF OverlapBounded
  <2>0. UntilOf(u, f) \in Nat /\ now \in Nat
    BY UntilOfCovers DEF IInv, TypeInv, TypeOK
  <2>1. m \in Nat /\ m >= now
    BY <2>0
  <2>2. Cardinality(Covers(u, f, m)) + Cardinality(Pending(u, f, m)) <= Width[u]
    BY <2>1 DEF IInv, Loads
  <2>3. Cardinality(Covers(u, f, m)) \in Nat /\ Cardinality(Pending(u, f, m)) \in Nat
          /\ Width[u] \in Nat
    BY Finite, FS_CardinalityType DEF IInv
  <2> QED
    BY <2>2, <2>3
<1> QED
  BY <1>1, AlwaysInv, PTL

\* Nobody gets more trials than he has calls in flight at once, by whichever of the
\* two calls, and for whatever features.
THEOREM TrialsAreBounded == Spec => []TrialsBounded
<1>1. IInv => TrialsBounded
  <2> SUFFICES ASSUME IInv, NEW u \in Users PROVE Cardinality(Trials(u)) <= Width[u]
    BY DEF TrialsBounded
  <2>1. Cardinality(Trials(u)) + Cardinality(Trying(u)) <= Width[u]
    BY DEF IInv, Tries
  <2>2. Cardinality(Trials(u)) \in Nat /\ Cardinality(Trying(u)) \in Nat /\ Width[u] \in Nat
    BY Finite, FS_CardinalityType DEF IInv
  <2> QED
    BY <2>1, <2>2
<1> QED
  BY <1>1, AlwaysInv, PTL


-----------------------------------------------------------------------------
(* The entitlement.                                                        *)

\* A new document moves the end of its user and feature, if it ends last, and no other;
\* and it is counted, unless it is a trial.
LEMMA EndsCreated ==
  ASSUME TypeInv, NEW h \in Handlers, Create(h), NEW v \in Users, NEW g \in Features
  PROVE  /\ Ends(v, g)' = IF v = user[h] /\ g = feature[h]
                          THEN Ends(v, g) \cup {stamp[h] + length[h]} ELSE Ends(v, g)
         /\ Cardinality(Paid(v, g))'
              = IF v = user[h] /\ g = feature[h] /\ kind[h] = "paid"
                THEN Cardinality(Paid(v, g)) + 1 ELSE Cardinality(Paid(v, g))
         /\ HadTrial(v)' = (HadTrial(v) \/ (v = user[h] /\ kind[h] # "paid"))
<1>1. PICK n : n = Len(subs) + 1
  OBVIOUS
<1>2. /\ subs'[n] = NewOf(h) /\ n \notin Mine(v)
      /\ Mine(v)' = IF v = user[h] THEN Mine(v) \cup {n} ELSE Mine(v)
      /\ \A i \in Mine(v) : subs'[i] = subs[i]
  BY <1>1, CreatedIs
<1>3. /\ subs'[n].feature = feature[h] /\ subs'[n].expiresAt = stamp[h] + length[h]
      /\ subs'[n].isTrial = (kind[h] # "paid")
  BY <1>2 DEF NewOf
<1>4. Ends(v, g)' = IF v = user[h] /\ g = feature[h]
                    THEN Ends(v, g) \cup {stamp[h] + length[h]} ELSE Ends(v, g)
  BY <1>2, <1>3 DEF Ends
<1>5. Paid(v, g)' = IF v = user[h] /\ g = feature[h] /\ kind[h] = "paid"
                    THEN Paid(v, g) \cup {n} ELSE Paid(v, g)
  BY <1>2, <1>3 DEF Paid
<1>6. IsFiniteSet(Paid(v, g)) /\ n \notin Paid(v, g)
  <2>1. IsFiniteSet(Mine(v))
    BY Finite
  <2> QED
    BY <2>1, <1>2, FS_Subset DEF Paid
<1>7. Cardinality(Paid(v, g) \cup {n}) = Cardinality(Paid(v, g)) + 1
  BY <1>6, FS_AddElement
<1>8. HadTrial(v)' = (HadTrial(v) \/ (v = user[h] /\ kind[h] # "paid"))
  BY <1>2, <1>3 DEF HadTrial
<1> QED
  BY <1>4, <1>5, <1>7, <1>8

LEMMA UntilOfCreated ==
  ASSUME TypeInv, TypeInv', NEW h \in Handlers, Create(h), NEW v \in Users, NEW g \in Features
  PROVE  UntilOf(v, g)' = IF v = user[h] /\ g = feature[h] /\ stamp[h] + length[h] >= UntilOf(v, g)
                          THEN stamp[h] + length[h] ELSE UntilOf(v, g)
<1>1. PICK e \in Nat : e = stamp[h] + length[h]
  BY DEF TypeInv, TypeOK
<1>2. PICK S \in SUBSET Nat : S = Ends(v, g)
  BY EndsAre
<1>3. /\ UntilOf(v, g) \in Nat /\ UntilOf(v, g) \in S \cup {0}
      /\ \A x \in S : x <= UntilOf(v, g)
  BY <1>2, UntilOfCovers
<1>4. Ends(v, g)' = IF v = user[h] /\ g = feature[h] THEN S \cup {e} ELSE S
  BY <1>1, <1>2, EndsCreated
<1>5. UntilOf(v, g)' = Max(Ends(v, g)' \cup {0})
  BY DEF UntilOf
<1>6. CASE v = user[h] /\ g = feature[h] /\ e >= UntilOf(v, g)
  <2>1. Max(S \cup {e} \cup {0}) = e
    BY <1>1, <1>3, <1>6, MaxIs
  <2> QED
    BY <1>1, <1>4, <1>5, <1>6, <2>1
<1>7. CASE v = user[h] /\ g = feature[h] /\ ~(e >= UntilOf(v, g))
  <2>1. PICK U, T : U = UntilOf(v, g) /\ T = S \cup {e} \cup {0}
    OBVIOUS
  <2>2. U \in Nat /\ e <= U /\ 0 <= U /\ \A x \in S : x <= U
    BY <1>1, <1>3, <1>7, <2>1
  <2>3. U \in T /\ T \in SUBSET Nat
    <3>1. U \in S \cup {0} /\ e \in Nat /\ 0 \in Nat
      BY <1>3, <2>1
    <3>2. \A x \in T : x \in Nat
      BY <2>1, <3>1
    <3> QED
      BY <2>1, <3>1, <3>2
  <2>4. \A x \in T : x <= U
    BY <2>1, <2>2
  <2>5. Max(T) = U
    BY <2>2, <2>3, <2>4, MaxIs
  <2> QED
    BY <1>1, <1>4, <1>5, <1>7, <2>1, <2>5
<1>8. CASE ~(v = user[h] /\ g = feature[h])
  BY <1>2, <1>4, <1>5, <1>8 DEF UntilOf
<1> QED
  BY <1>1, <1>6, <1>7, <1>8

\* What the entitlement sees of the state.
Until == [uf \in Serial \X Features |-> UntilOf(uf[1], uf[2])]
Purchases == [uf \in Serial \X Features |-> Cardinality(Paid(uf[1], uf[2]))]
Tried == {u \in Serial : HadTrial(u)}

LEMMA SameEntitlement ==
  ASSUME UNCHANGED subs
  PROVE  UNCHANGED <<Until, Purchases, Tried>>
<1>1. \A u \in Users : Mine(u)' = Mine(u)
  BY DEF Mine
<1>2. \A u \in Users, f \in Features :
        /\ UntilOf(u, f)' = UntilOf(u, f)
        /\ Cardinality(Paid(u, f))' = Cardinality(Paid(u, f))
        /\ HadTrial(u)' = HadTrial(u)
  BY DEF UntilOf, Ends, Mine, Paid, HadTrial
<1>3. Until' = Until
  BY <1>2 DEF Until, Serial
<1>4. Purchases' = Purchases
  BY <1>2 DEF Purchases, Serial
<1>5. Tried' = Tried
  BY DEF Tried, Serial, HadTrial, Mine
<1> QED
  BY <1>3, <1>4, <1>5

\* Two functions of users and features that differ in one place.
LEMMA OnePlace ==
  ASSUME NEW F \in [Serial \X Features -> Nat], NEW G \in [Serial \X Features -> Nat],
         NEW u \in Serial, NEW f \in Features, NEW e,
         \A v \in Serial, g \in Features :
           G[<<v, g>>] = IF v = u /\ g = f THEN e ELSE F[<<v, g>>]
  PROVE  G = [F EXCEPT ![<<u, f>>] = e]
<1>1. ASSUME NEW uf \in Serial \X Features
      PROVE  G[uf] = IF uf = <<u, f>> THEN e ELSE F[uf]
  <2>1. PICK v \in Serial, g \in Features : uf = <<v, g>>
    OBVIOUS
  <2>2. uf = <<u, f>> <=> v = u /\ g = f
    BY <2>1
  <2> QED
    BY <2>1, <2>2
<1> QED
  BY <1>1

LEMMA FunctionsAgree ==
  ASSUME NEW F \in [Serial \X Features -> Nat], NEW G \in [Serial \X Features -> Nat],
         \A v \in Serial, g \in Features : G[<<v, g>>] = F[<<v, g>>]
  PROVE  G = F
<1>1. ASSUME NEW uf \in Serial \X Features PROVE G[uf] = F[uf]
  <2>1. PICK v \in Serial, g \in Features : uf = <<v, g>>
    OBVIOUS
  <2> QED
    BY <2>1
<1> QED
  BY <1>1

LEMMA InitImplements == Init => Bought!Init
<1> SUFFICES ASSUME Init PROVE Bought!Init
  OBVIOUS
<1>1. ASSUME NEW u \in Serial, NEW f \in Features
      PROVE  UntilOf(u, f) = 0 /\ Cardinality(Paid(u, f)) = 0 /\ ~HadTrial(u)
  <2>1. Mine(u) = {}
    BY DEF Init, Mine
  <2>2. Ends(u, f) = {} /\ Paid(u, f) = {} /\ ~HadTrial(u)
    BY <2>1 DEF Ends, Paid, HadTrial
  <2>3. UntilOf(u, f) \in Ends(u, f) \cup {0}
    BY UntilOfCovers, TypeInvInit
  <2> QED
    BY <2>2, <2>3, FS_EmptySet
<1>2. now = 0
  BY DEF Init
<1>3. Until = [uf \in Serial \X Features |-> 0]
  BY <1>1 DEF Until
<1>4. Purchases = [uf \in Serial \X Features |-> 0]
  BY <1>1 DEF Purchases
<1>5. Tried = {}
  <2>1. ASSUME NEW u \in Serial PROVE ~HadTrial(u)
    BY DEF Init, HadTrial, Mine
  <2> QED
    BY <2>1 DEF Tried
<1> QED
  BY <1>2, <1>3, <1>4, <1>5 DEF Bought!Init, Until, Purchases, Tried

\* The document of a user whose calls do not overlap, and of nobody else, is a
\* purchase or a trial.
LEMMA CreateImplements ==
  ASSUME IInv, TypeInv', NEW h \in Handlers, Create(h)
  PROVE  Bought!Next \/ UNCHANGED Bought!vars
<1>0. TypeInv /\ now \in Nat /\ now' = now /\ stamp[h] \in Nat /\ length[h] \in Nat
        /\ Serial \subseteq Users /\ pc[h] = "create"
  BY DEF IInv, TypeInv, TypeOK, Create, Serial
<1>1. PICK u \in Users, f \in Features : u = user[h] /\ f = feature[h]
  BY <1>0 DEF TypeInv, Slots
<1>2. PICK e \in Nat : e = stamp[h] + length[h]
  BY <1>0
<1>3. \A v \in Users, g \in Features :
        /\ UntilOf(v, g)' = IF v = u /\ g = f /\ e >= UntilOf(v, g) THEN e ELSE UntilOf(v, g)
        /\ Cardinality(Paid(v, g))' = IF v = u /\ g = f /\ kind[h] = "paid"
                                      THEN Cardinality(Paid(v, g)) + 1 ELSE Cardinality(Paid(v, g))
        /\ HadTrial(v)' = (HadTrial(v) \/ (v = u /\ kind[h] # "paid"))
  BY <1>0, <1>1, <1>2, UntilOfCreated, EndsCreated
<1>4. PICK P, Q, C, D : P = Until /\ Q = Until' /\ C = Purchases /\ D = Purchases'
  OBVIOUS
<1>5. /\ P \in [Serial \X Features -> Nat] /\ Q \in [Serial \X Features -> Nat]
      /\ C \in [Serial \X Features -> Nat] /\ D \in [Serial \X Features -> Nat]
  <2>1. \A v \in Users, g \in Features : UntilOf(v, g) \in Nat /\ UntilOf(v, g)' \in Nat
    <3>1. \A v \in Users, g \in Features : UntilOf(v, g) \in Nat
      BY <1>0, UntilOfCovers
    <3> QED
      BY <1>3, <3>1
  <2>2. \A v \in Users, g \in Features :
          Cardinality(Paid(v, g)) \in Nat /\ Cardinality(Paid(v, g))' \in Nat
    <3>1. \A v \in Users, g \in Features : Cardinality(Paid(v, g)) \in Nat
      <4> SUFFICES ASSUME NEW v \in Users, NEW g \in Features
                   PROVE  Cardinality(Paid(v, g)) \in Nat
        OBVIOUS
      <4>1. IsFiniteSet(Mine(v)) /\ Paid(v, g) \subseteq Mine(v)
        BY <1>0, Finite DEF Paid
      <4> QED
        BY <4>1, FS_Subset, FS_CardinalityType
    <3> QED
      BY <1>3, <3>1
  <2>3. P \in [Serial \X Features -> Nat]
    BY <1>0, <1>4, <2>1 DEF Until
  <2>4. Q \in [Serial \X Features -> Nat]
    BY <1>0, <1>4, <2>1 DEF Until, Serial
  <2>5. C \in [Serial \X Features -> Nat]
    BY <1>0, <1>4, <2>2 DEF Purchases
  <2>6. D \in [Serial \X Features -> Nat]
    BY <1>0, <1>4, <2>2 DEF Purchases, Serial
  <2> QED
    BY <2>3, <2>4, <2>5, <2>6
<1>6. ASSUME NEW v \in Serial, NEW g \in Features
      PROVE  /\ P[<<v, g>>] = UntilOf(v, g)
             /\ Q[<<v, g>>] = IF v = u /\ g = f THEN UntilOf(u, f)' ELSE P[<<v, g>>]
             /\ D[<<v, g>>] = IF v = u /\ g = f /\ kind[h] = "paid"
                             THEN C[<<u, f>>] + 1 ELSE C[<<v, g>>]
  <2>1. P[<<v, g>>] = UntilOf(v, g) /\ C[<<v, g>>] = Cardinality(Paid(v, g))
    BY <1>4 DEF Until, Purchases
  <2>2. Q[<<v, g>>] = UntilOf(v, g)' /\ D[<<v, g>>] = Cardinality(Paid(v, g))'
    BY <1>4 DEF Until, Purchases, Serial
  <2>3. v \in Users
    BY <1>0
  <2>4. /\ ~(v = u /\ g = f) => UntilOf(v, g)' = UntilOf(v, g)
        /\ Cardinality(Paid(v, g))' = IF v = u /\ g = f /\ kind[h] = "paid"
                                      THEN Cardinality(Paid(v, g)) + 1 ELSE Cardinality(Paid(v, g))
    BY <1>3, <2>3
  <2>5. CASE v = u /\ g = f
    BY <2>1, <2>2, <2>4, <2>5
  <2>6. CASE ~(v = u /\ g = f)
    BY <2>1, <2>2, <2>4, <2>6
  <2> QED
    BY <2>5, <2>6
<1>7. CASE u \notin Serial
  <2>1. /\ \A v \in Serial, g \in Features : Q[<<v, g>>] = P[<<v, g>>]
        /\ \A v \in Serial, g \in Features : D[<<v, g>>] = C[<<v, g>>]
    BY <1>6, <1>7
  <2>2. Q = P
    BY <1>5, <2>1, FunctionsAgree
  <2>3. D = C
    BY <1>5, <2>1, FunctionsAgree
  <2>4. Tried' = Tried
    BY <1>0, <1>3, <1>7 DEF Tried, Serial
  <2> QED
    BY <1>0, <1>4, <2>2, <2>3, <2>4 DEF Bought!vars, Until, Purchases, Tried
<1>8. CASE u \in Serial /\ kind[h] = "paid"
  <2>1. /\ stamp[h] <= now \/ stamp[h] \in Ends(u, f)
        /\ \A x \in Ends(u, f) : x > now => x <= stamp[h]
        /\ length[h] \in Plans
    BY <1>0, <1>1, <1>8 DEF IInv, Alone, Anchored, TypeInv, Slots
  <2>2. /\ UntilOf(u, f) \in Nat /\ UntilOf(u, f) \in Ends(u, f) \cup {0}
        /\ \A x \in Ends(u, f) : x <= UntilOf(u, f)
    BY <1>0, UntilOfCovers
  <2>3. UntilOf(u, f) > now => stamp[h] = UntilOf(u, f)
    BY <1>0, <2>1, <2>2
  <2>4. UntilOf(u, f) <= now => stamp[h] \in 0 .. now
    BY <1>0, <2>1, <2>2
  <2>5. PICK d \in Plans, t \in 0 .. now :
          UntilOf(u, f)' = IF UntilOf(u, f) > now THEN UntilOf(u, f) + d
                           ELSE IF UntilOf(u, f) >= t + d THEN UntilOf(u, f) ELSE t + d
    <3>1. 0 \in 0 .. now /\ length[h] \in Nat
      BY <1>0
    <3>2. CASE UntilOf(u, f) > now
      <4>1. UntilOf(u, f)' = UntilOf(u, f) + length[h]
        BY <1>0, <1>2, <1>3, <2>2, <2>3, <3>2
      <4> QED
        BY <2>1, <3>1, <3>2, <4>1
    <3>3. CASE ~(UntilOf(u, f) > now)
      <4>1. stamp[h] \in 0 .. now
        BY <1>0, <2>2, <2>4, <3>3
      <4>2. UntilOf(u, f)' = IF UntilOf(u, f) >= stamp[h] + length[h] THEN UntilOf(u, f)
                             ELSE stamp[h] + length[h]
        BY <1>0, <1>2, <1>3, <2>2
      <4> QED
        BY <2>1, <3>3, <4>1, <4>2
    <3> QED
      BY <3>2, <3>3
  <2>6. PICK x : x = UntilOf(u, f)'
    OBVIOUS
  <2>7. Q = [P EXCEPT ![<<u, f>>] = x] /\ D = [C EXCEPT ![<<u, f>>] = C[<<u, f>>] + 1]
    <3>1. /\ \A v \in Serial, g \in Features :
               Q[<<v, g>>] = IF v = u /\ g = f THEN x ELSE P[<<v, g>>]
          /\ \A v \in Serial, g \in Features :
               D[<<v, g>>] = IF v = u /\ g = f THEN C[<<u, f>>] + 1 ELSE C[<<v, g>>]
      BY <1>6, <1>8, <2>6
    <3>2. Q = [P EXCEPT ![<<u, f>>] = x]
      BY <1>5, <1>8, <3>1, OnePlace
    <3>3. PICK c : c = C[<<u, f>>] + 1
      OBVIOUS
    <3>4. D = [C EXCEPT ![<<u, f>>] = c]
      BY <1>5, <1>8, <3>1, <3>3, OnePlace
    <3> QED
      BY <3>2, <3>3, <3>4
  <2>8. Tried' = Tried
    BY <1>0, <1>3, <1>8 DEF Tried, Serial
  <2>9. Until' = [Until EXCEPT ![<<u, f>>] = IF @ > now THEN @ + d ELSE Bought!Later(@, t + d)]
    BY <1>4, <1>8, <1>6, <2>5, <2>6, <2>7 DEF Bought!Later
  <2>10. Bought!Purchase(u, f)
    BY <1>0, <1>4, <2>7, <2>8, <2>9 DEF Bought!Purchase, Until, Purchases, Tried
  <2> QED
    BY <1>8, <2>10 DEF Bought!Next
<1>9. CASE u \in Serial /\ kind[h] # "paid"
  <2>1. stamp[h] \in 0 .. now /\ length[h] = TrialLength /\ \A x \in Ends(u, Premium) : x <= now
    BY <1>0, <1>1, <1>9 DEF IInv, Alone, Unentitled, TypeInv, Slots
  <2>2. UntilOf(u, f) \in Nat /\ UntilOf(u, Premium) \in Ends(u, Premium) \cup {0}
    BY <1>0, UntilOfCovers
  <2>3. Until[<<u, Premium>>] <= now
    BY <1>0, <1>4, <1>9, <1>6, <2>1, <2>2, PremiumAssumption
  <2>4. ~HadTrial(u)
    <3>1. h \in Trying(u)
      BY <1>0, <1>1, <1>9 DEF Trying, InFlight
    <3>2. IsFiniteSet(Trials(u)) /\ IsFiniteSet(Trying(u)) /\ Width[u] \in Nat /\ Width[u] <= 1
      BY <1>0, <1>9, Finite DEF Serial
    <3>3. Cardinality(Trials(u)) + Cardinality(Trying(u)) <= Width[u]
      BY DEF IInv, Tries
    <3>4. Cardinality(Trials(u)) \in Nat /\ Cardinality(Trying(u)) \in Nat
            /\ Cardinality(Trying(u)) # 0
      BY <3>1, <3>2, FS_CardinalityType, FS_EmptySet
    <3>5. Cardinality(Trials(u)) = 0
      BY <3>2, <3>3, <3>4
    <3>6. Trials(u) = {}
      BY <3>2, <3>5, FS_EmptySet
    <3> QED
      BY <3>6 DEF Trials, HadTrial
  <2>5. UntilOf(u, f)' = IF UntilOf(u, f) >= stamp[h] + TrialLength THEN UntilOf(u, f)
                         ELSE stamp[h] + TrialLength
    BY <1>0, <1>2, <1>3, <2>1, <2>2
  <2>6. PICK x : x = UntilOf(u, f)'
    OBVIOUS
  <2>7. Q = [P EXCEPT ![<<u, f>>] = x] /\ D = C
    <3>1. /\ \A v \in Serial, g \in Features :
               Q[<<v, g>>] = IF v = u /\ g = f THEN x ELSE P[<<v, g>>]
          /\ \A v \in Serial, g \in Features : D[<<v, g>>] = C[<<v, g>>]
      BY <1>6, <1>9, <2>6
    <3>2. Q = [P EXCEPT ![<<u, f>>] = x]
      BY <1>5, <1>9, <3>1, OnePlace
    <3>3. D = C
      BY <1>5, <3>1, FunctionsAgree
    <3> QED
      BY <3>2, <3>3
  <2>8. Tried' = Tried \cup {u} /\ u \notin Tried
    BY <1>0, <1>3, <1>9, <2>4 DEF Tried, Serial
  <2>9. \E t \in 0 .. now : Until' = [Until EXCEPT ![<<u, f>>] = Bought!Later(@, t + TrialLength)]
    <3>1. P[<<u, f>>] = UntilOf(u, f)
      BY <1>6, <1>9
    <3>2. x = Bought!Later(P[<<u, f>>], stamp[h] + TrialLength)
      BY <2>5, <2>6, <3>1 DEF Bought!Later
    <3>3. Q = [P EXCEPT ![<<u, f>>] = Bought!Later(@, stamp[h] + TrialLength)]
      BY <1>9, <2>7, <3>2
    <3> QED
      BY <1>4, <2>1, <3>3
  <2>10. Bought!Trial(u, f)
    BY <1>0, <1>4, <2>3, <2>7, <2>8, <2>9 DEF Bought!Trial, Until, Purchases, Tried
  <2> QED
    BY <1>9, <2>10 DEF Bought!Next
<1> QED
  BY <1>7, <1>8, <1>9

LEMMA NextImplements ==
  ASSUME IInv, TypeInv', [Next]_vars
  PROVE  [Bought!Next]_Bought!vars
<1>1. ASSUME UNCHANGED <<now, subs>> PROVE UNCHANGED Bought!vars
  BY <1>1, SameEntitlement DEF Bought!vars, Until, Purchases, Tried
<1>2. CASE UNCHANGED vars
  BY <1>1, <1>2 DEF vars
<1>3. CASE Next
  <2>1. ASSUME NEW h \in Handlers, NEW u \in Users, NEW f \in Features, NEW d \in Plans,
               ExtendBegin(h, u, f, d)
        PROVE UNCHANGED Bought!vars
    BY <1>1, <2>1 DEF ExtendBegin, Begin
  <2>2. ASSUME NEW h \in Handlers, NEW u \in Users, NEW f \in Features,
               NEW k \in {"orderedTrial", "trial"}, TrialBegin(h, k, u, f)
        PROVE UNCHANGED Bought!vars
    BY <1>1, <2>2 DEF TrialBegin, Begin
  <2>3. ASSUME NEW h \in Handlers, TrialEver(h) \/ TrialActive(h) \/ TrialUser(h)
                                   \/ ExtendActive(h) \/ Abort(h)
        PROVE UNCHANGED Bought!vars
    BY <1>1, <2>3 DEF TrialEver, TrialActive, TrialUser, ExtendActive, Abort, Step, Refuse
  <2>4. ASSUME NEW h \in Handlers, Create(h) PROVE [Bought!Next]_Bought!vars
    BY <2>4, CreateImplements
  <2>5. ASSUME NEW u \in Users, Verify(u) PROVE UNCHANGED Bought!vars
    BY <1>1, <2>5 DEF Verify
  <2>6. CASE Tick
    <3>1. now' = now + 1 /\ UNCHANGED subs
      BY <2>6 DEF Tick
    <3>2. Bought!Tick
      BY <3>1, SameEntitlement DEF Bought!Tick, Until, Purchases, Tried
    <3> QED
      BY <3>2 DEF Bought!Next
  <2> QED
    BY <1>3, <2>1, <2>2, <2>3, <2>4, <2>5, <2>6, Steps
<1> QED
  BY <1>2, <1>3

\* For the users whose calls do not overlap, whatever the others do, the documents add
\* up to what was bought (createOrExtendSubscription, activateTrial): every paid one
\* moves the end by the whole of its length, from the end if that is still to come,
\* and every trial is the user's first, taken while no PREMIUM was left to him.
THEOREM ImplementsEntitlement == Spec => EntitlementSpec
<1>1. Init => Bought!Init
  BY InitImplements
<1>2. IInv /\ IInv' /\ [Next]_vars => [Bought!Next]_Bought!vars
  BY NextImplements DEF IInv
<1> QED
  BY <1>1, <1>2, AlwaysInv, PTL DEF Spec, EntitlementSpec, Bought!Spec
=============================================================================
