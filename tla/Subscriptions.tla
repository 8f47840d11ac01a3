---------------------------- MODULE Subscriptions ----------------------------
(***************************************************************************)
(* SubscriptionsService (src/subscriptions/subscription.service.ts):       *)
(* createOrExtendSubscription, called for every item of a paid cart, and   *)
(* activateTrial, called by a user.  Both read the user's subscriptions    *)
(* and create one more; nothing is ever changed or removed.                *)
(*                                                                         *)
(* One action per database operation.  A call reads the clock on its way   *)
(* from one operation to the next, up to twice; time passes as it likes.   *)
(* A plan is its length; prices are left out.  A plan may have become a    *)
(* trial after it was ordered: then createOrExtendSubscription has the     *)
(* guards of activateTrial, and one query more.                            *)
(***************************************************************************)
EXTENDS Naturals, Sequences, FiniteSetsExt

CONSTANTS
  Users,
  Features,      \* what a subscription is for: PREMIUM and ENTERPRISE
  Premium,       \* the feature that the trial's guard asks for
  Plans,         \* lengths of the paid plans, in clock ticks
  TrialLength,   \* 24 hours, in clock ticks
  Handlers,      \* slots for calls in flight (bound on concurrency)
  Width,         \* per user: how many of his calls are in flight at once, at most
  NoUser, NoFeature,  \* of a slot without a call
  MaxTime, MaxSubs  \* bounds on the clock and on the documents

ASSUME NamesAssumption == NoUser \notin Users /\ NoFeature \notin Features
ASSUME PremiumAssumption == Premium \in Features
ASSUME LengthsAssumption == Plans \subseteq Nat \ {0} /\ TrialLength \in Nat \ {0}
ASSUME WidthAssumption == Width \in [Users -> Nat] /\ IsFiniteSet(Handlers)
ASSUME BoundsAssumption == MaxTime \in Nat /\ MaxSubs \in Nat

VARIABLES
  now,        \* the clock
  subs,       \* the subscriptions, in the order in which they were created
  verified,   \* the users with a discordJoinVerifiedAt
  pc,         \* per slot: where the call is
  kind,       \* per slot: createOrExtendSubscription of a "paid" plan or of one that
              \* has become a trial ("orderedTrial"), or activateTrial ("trial")
  user,       \* per slot: for whom
  feature,    \* per slot: for what
  length,     \* per slot: of the period
  stamp       \* per slot: when the last operation was, or startedAt once known

callVars == <<pc, kind, user, feature, length, stamp>>
vars == <<now, subs, verified, pc, kind, user, feature, length, stamp>>

Subscription == [user : Users, feature : Features, startedAt : Nat, expiresAt : Nat,
                 isTrial : BOOLEAN]

InFlight(u) == {h \in Handlers : user[h] = u}

TypeOK ==
  /\ now \in Nat
  /\ subs \in Seq(Subscription)
  /\ verified \in SUBSET Users
  /\ pc \in [Handlers -> {"idle", "trialEver", "trialActive", "trialUser", "active", "create"}]
  /\ kind \in [Handlers -> {"none", "paid", "orderedTrial", "trial"}]
  /\ user \in [Handlers -> Users \cup {NoUser}]
  /\ feature \in [Handlers -> Features \cup {NoFeature}]
  /\ length \in [Handlers -> Nat]
  /\ stamp \in [Handlers -> Nat]

Init ==
  /\ now = 0
  /\ subs = <<>>
  /\ verified = {}
  /\ pc = [h \in Handlers |-> "idle"]
  /\ kind = [h \in Handlers |-> "none"]
  /\ user = [h \in Handlers |-> NoUser]
  /\ feature = [h \in Handlers |-> NoFeature]
  /\ length = [h \in Handlers |-> 0]
  /\ stamp = [h \in Handlers |-> 0]

-----------------------------------------------------------------------------
(* What the calls ask the database.                                        *)

Mine(u) == {i \in DOMAIN subs : subs[i].user = u}

Ends(u, f) == {subs[i].expiresAt : i \in {j \in Mine(u) : subs[j].feature = f}}

\* getActiveSubscription with clock t: the ends of those it may find; it takes the
\* one that expires last.
ActiveEnds(u, f, t) == {e \in Ends(u, f) : e > t}

\* hasAnyTrialEver(u)
HadTrial(u) == \E i \in Mine(u) : subs[i].isTrial

-----------------------------------------------------------------------------
(* Calls.                                                                  *)

\* Bound: a call begins only while a document is left for it to create.
Room == Len(subs) + Cardinality({h \in Handlers : pc[h] # "idle"}) < MaxSubs

Begin(h, k, u, f, len, l) ==
  /\ Room /\ Cardinality(InFlight(u)) < Width[u]
  /\ pc[h] = "idle"
  /\ pc' = [pc EXCEPT ![h] = l]
  /\ kind' = [kind EXCEPT ![h] = k]
  /\ user' = [user EXCEPT ![h] = u]
  /\ feature' = [feature EXCEPT ![h] = f]
  /\ length' = [length EXCEPT ![h] = len]
  /\ stamp' = [stamp EXCEPT ![h] = now]
  /\ UNCHANGED <<now, subs, verified>>

Step(h, from, to, t) ==
  /\ pc[h] = from
  /\ pc' = [pc EXCEPT ![h] = to]
  /\ stamp' = [stamp EXCEPT ![h] = t]
  /\ UNCHANGED <<now, subs, verified, kind, user, feature, length>>

\* The call is over and its locals are gone.
End(h) ==
  /\ pc' = [pc EXCEPT ![h] = "idle"]
  /\ kind' = [kind EXCEPT ![h] = "none"]
  /\ user' = [user EXCEPT ![h] = NoUser]
  /\ feature' = [feature EXCEPT ![h] = NoFeature]
  /\ length' = [length EXCEPT ![h] = 0]
  /\ stamp' = [stamp EXCEPT ![h] = 0]

\* The moments at which the call may have read the clock since its last operation.
Since(h) == stamp[h] .. now

\* createOrExtendSubscription, the plan found and priced: a paid one ...
ExtendBegin(h, u, f, d) == Begin(h, "paid", u, f, d, "active")

\* ... or one that is a trial by now; and activateTrial.
TrialBegin(h, k, u, f) == Begin(h, k, u, f, TrialLength, "trialEver")

Refuse(h, from) == pc[h] = from /\ End(h) /\ UNCHANGED <<now, subs, verified>>

\* Mutant: nobody asks for earlier trials.
TrialEverUnasked(h) == Step(h, "trialEver", "trialActive", now)

TrialEver(h) ==
  \/ HadTrial(user[h]) /\ Refuse(h, "trialEver")
  \/ ~HadTrial(user[h]) /\ Step(h, "trialEver", "trialActive", now)

\* The guard asks for PREMIUM, whatever the trial is for.
TrialActive(h) ==
  \E t \in Since(h) :
    \/ ActiveEnds(user[h], Premium, t) # {} /\ Refuse(h, "trialActive")
    \/ ActiveEnds(user[h], Premium, t) = {} /\ Step(h, "trialActive", "trialUser", now)

\* The Discord requirement; createOrExtendSubscription goes on to its own query.
TrialUser(h) ==
  \/ user[h] \notin verified /\ Refuse(h, "trialUser")
  \/ /\ user[h] \in verified
     /\ Step(h, "trialUser", IF kind[h] = "trial" THEN "create" ELSE "active", now)

\* Mutant: the new period starts now, whatever is active.
StartNow(h, s, t) == s

\* Mutant: it starts where the first one ends.
StartAtFirstEnd(h, s, t) ==
  LET ends == ActiveEnds(user[h], feature[h], t)
  IN  IF kind[h] = "paid" /\ ends # {} THEN Min(ends) ELSE s

\* startedAt, for a first reading s of the clock and a second one, the query's, t: a
\* paid period begins where the active one ends, a trial at once.
StartedAt(h, s, t) ==
  LET ends == ActiveEnds(user[h], feature[h], t)
  IN  IF kind[h] = "paid" /\ ends # {} THEN Max(ends) ELSE s

ExtendActive(h) ==
  \E s \in Since(h) : \E t \in s .. now :
    Step(h, "active", "create", StartedAt(h, s, t))

\* Mutant: the feature is not copied to the document.
CreateBare(h) ==
  /\ pc[h] = "create"
  /\ subs' = Append(subs, [user |-> user[h], feature |-> NoFeature, startedAt |-> stamp[h],
                           expiresAt |-> stamp[h] + length[h], isTrial |-> kind[h] # "paid"])
  /\ End(h)
  /\ UNCHANGED <<now, verified>>

\* subscriptionModel.create, of either call
Create(h) ==
  /\ pc[h] = "create"
  /\ subs' = Append(subs, [user |-> user[h], feature |-> feature[h], startedAt |-> stamp[h],
                           expiresAt |-> stamp[h] + length[h], isTrial |-> kind[h] # "paid"])
  /\ End(h)
  /\ UNCHANGED <<now, verified>>

-----------------------------------------------------------------------------
\* A database operation is rejected, or the process goes down.
Abort(h) == pc[h] # "idle" /\ End(h) /\ UNCHANGED <<now, subs, verified>>

\* Discord's callback found the user on the server.
Verify(u) == verified' = verified \cup {u} /\ UNCHANGED <<now, subs, callVars>>

Tick == now < MaxTime /\ now' = now + 1 /\ UNCHANGED <<subs, verified, callVars>>

Next ==
  \/ \E h \in Handlers, u \in Users, f \in Features :
       \/ \E d \in Plans : ExtendBegin(h, u, f, d)
       \/ \E k \in {"orderedTrial", "trial"} : TrialBegin(h, k, u, f)
  \/ \E h \in Handlers :
       \/ TrialEver(h) \/ TrialActive(h) \/ TrialUser(h)
       \/ ExtendActive(h) \/ Create(h)
       \/ Abort(h)
  \/ \E u \in Users : Verify(u)
  \/ Tick

Spec == Init /\ [][Next]_vars

-----------------------------------------------------------------------------
(* Properties.                                                             *)

UntilOf(u, f) == Max(Ends(u, f) \cup {0})

\* A trial of another feature than PREMIUM is left out: its guard does not look at
\* what it may overlap.
Counts(i) == subs[i].isTrial => subs[i].feature = Premium

\* The periods of u for f that moment m is in.
Covers(u, f, m) ==
  {i \in Mine(u) : /\ subs[i].feature = f /\ Counts(i)
                   /\ subs[i].startedAt <= m /\ m < subs[i].expiresAt}

\* No time to come is sold to a user more often than calls of his were in flight at
\* once: with one call at a time, every period paid for is time that he did not have
\* (subscription.service.ts:267-272).  Past moments are left out: a subscription that
\* expires between the two readings of the clock is not found, and the new period
\* starts a little before its end.
OverlapBounded ==
  \A u \in Users, f \in Features : \A m \in now .. UntilOf(u, f) :
    Cardinality(Covers(u, f, m)) <= Width[u]

Trials(u) == {i \in Mine(u) : subs[i].isTrial}

\* Nobody gets more trials, of whatever features and by either call, than calls of
\* his were in flight at once (subscription.service.ts:248 and :300).
TrialsBounded == \A u \in Users : Cardinality(Trials(u)) <= Width[u]

\* Those whose calls come one after the other; for them the documents add up to the
\* entitlement that was bought (module Entitlement).
Serial == {u \in Users : Width[u] <= 1}
Paid(u, f) == {i \in Mine(u) : subs[i].feature = f /\ ~subs[i].isTrial}

Bought == INSTANCE Entitlement WITH
            Users <- Serial, clock <- now,
            until <- [uf \in Serial \X Features |-> UntilOf(uf[1], uf[2])],
            paid <- [uf \in Serial \X Features |-> Cardinality(Paid(uf[1], uf[2]))],
            tried <- {u \in Serial : HadTrial(u)}

\* Every paid document of a user whose calls do not overlap is a purchase that counts
\* in full, and every trial is his only one, taken while no PREMIUM was left.
EntitlementSpec == Bought!Spec
=============================================================================
