--------------------------- MODULE ExecutorProofs ---------------------------
(***************************************************************************)
(* Proofs about ExecutorSessions, for any number of users, sessions and    *)
(* calls in flight, and any number of failures and crashes.                *)
(***************************************************************************)
EXTENDS ExecutorSessions, FiniteSetTheorems, TLAPS

\* The stricter discipline of a user includes the weaker.
LEMMA AloneIsApart == Alone \subseteq Apart /\ Apart \subseteq Users
BY DEF Alone, Apart

(***************************************************************************)
(* The inductive invariant behind OneActivePerUser: at most one start of a *)
(* user in Apart is in flight, and between its last look (or stop) and its *)
(* save he has no active session, since everything else that may interfere *)
(* only stops sessions, or belongs to somebody else.                       *)
(***************************************************************************)
KindOK ==
  \A h \in Handlers :
    /\ pc[h] \in StartPcs => kind[h] = "start"
    /\ pc[h] \in StopPcs \cup {"finally"} => kind[h] # "start"

OneStart ==
  \A g, h \in Handlers :
    pc[g] \in StartPcs /\ pc[h] \in StartPcs /\ user[g] = user[h] /\ user[h] \in Apart
      => g = h

SaveClear ==
  \A h \in Handlers : pc[h] = "save" /\ user[h] \in Apart => Active(user[h]) = {}

Owned == \A s \in Sessions : status[s] # "none" => owner[s] \in Users

FoundExist == \A s \in found : status[s] # "none"

SessionInv ==
  TypeOK /\ KindOK /\ OneStart /\ SaveClear /\ Owned /\ FoundExist /\ OneActivePerUser

-----------------------------------------------------------------------------
(* What the database operations do to the set of active sessions.          *)

\* stopSession ends a session of its own user or nobody's: it never adds an
\* active session, never changes an owner, and leaves none when there was one.
LEMMA StopOneEffect ==
  ASSUME TypeOK, OneActivePerUser, NEW u \in Users, StopOne(u), UNCHANGED owner
  PROVE  /\ \A v \in Users : Active(v)' \subseteq Active(v)
         /\ u \in Apart => Active(u)' = {}
         /\ status' \in [Sessions -> {"none", "waiting", "running", "stopped"}]
         /\ \A s \in Sessions : status'[s] = "none" <=> status[s] = "none"
<1> USE DEF TypeOK, Active, ActiveStatus
<1>1. CASE Active(u) = {} /\ UNCHANGED status
  BY <1>1
<1>2. ASSUME NEW s \in Active(u), status' = [status EXCEPT ![s] = "stopped"]
      PROVE  /\ \A v \in Users : Active(v)' \subseteq Active(v)
             /\ u \in Apart => Active(u)' = {}
             /\ status' \in [Sessions -> {"none", "waiting", "running", "stopped"}]
             /\ \A t \in Sessions : status'[t] = "none" <=> status[t] = "none"
  <2>1. u \in Apart => \A t \in Active(u) : t = s
    BY <1>2 DEF OneActivePerUser
  <2>2. \A t \in Sessions : status'[t] = IF t = s THEN "stopped" ELSE status[t]
    BY <1>2
  <2>. QED
    BY <1>2, <2>1, <2>2
<1>. QED
  BY <1>1, <1>2 DEF StopOne

\* A start that begins is alone, of its user, among the starts in flight.
LEMMA AdmittedStart ==
  ASSUME TypeOK, KindOK, NEW u \in Apart, Admitted("start", u)
  PROVE  \A g \in Handlers : pc[g] \in StartPcs => user[g] # u
<1>1. SUFFICES ASSUME NEW g \in Handlers, pc[g] \in StartPcs, user[g] = u
               PROVE  FALSE
  OBVIOUS
<1>2. g \in InFlight(u) /\ kind[g] = "start"
  BY <1>1 DEF InFlight, StartPcs, KindOK
<1>3. {"start", "start"} \in MayOverlap[u]
  BY <1>2 DEF Admitted
<1>4. {"start", "start"} = {"start"}
  OBVIOUS
<1>. QED
  BY <1>3, <1>4 DEF Apart

-----------------------------------------------------------------------------
LEMMA InitSessionInv == Init => SessionInv
<1> SUFFICES ASSUME Init PROVE SessionInv
  OBVIOUS
<1>1. TypeOK
  BY DEF Init, TypeOK, Kinds
<1>2. \A u \in Users : Active(u) = {}
  BY DEF Init, Active, ActiveStatus
<1>. QED
  BY <1>1, <1>2, AloneIsApart DEF Init, SessionInv, KindOK, OneStart, SaveClear, Owned, FoundExist,
     OneActivePerUser, StartPcs, StopPcs

\* Steps that move one call along without touching the documents.
LEMMA MoveOn ==
  ASSUME SessionInv, NEW h \in Handlers, NEW l,
         Goto(h, l),
         l \in StartPcs => pc[h] \in StartPcs,
         l \in StopPcs \cup {"finally"} => pc[h] \in StopPcs,
         l \in StartPcs \cup StopPcs \cup {"idle", "finally"},
         \A u \in Users : Active(u)' \subseteq Active(u),
         l = "save" /\ user[h] \in Apart => Active(user[h])' = {},
         timer' \in [Users -> BOOLEAN],
         status' \in [Sessions -> {"none", "waiting", "running", "stopped"}],
         scheduled' \in [Sessions -> BOOLEAN],
         \A s \in Sessions : status'[s] = "none" <=> status[s] = "none",
         fails' \in Nat,
         UNCHANGED <<owner, phase, found, crashes>>
  PROVE  SessionInv'
<1> USE DEF SessionInv
<1>1. TypeOK'
  BY DEF TypeOK, Goto
<1>2. KindOK'
  BY DEF KindOK, TypeOK, Goto, StartPcs, StopPcs
<1>3. OneStart'
  BY DEF OneStart, TypeOK, Goto
<1>4. SaveClear'
  <2> SUFFICES ASSUME NEW g \in Handlers, pc'[g] = "save", user'[g] \in Apart
               PROVE  Active(user[g])' = {}
    BY DEF SaveClear, Goto
  <2>1. CASE g = h
    BY <2>1 DEF TypeOK, Goto
  <2>2. CASE g # h
    BY <2>2 DEF SaveClear, TypeOK, Goto
  <2>. QED
    BY <2>1, <2>2
<1>5. Owned'
  BY DEF Owned
<1>6. FoundExist'
  BY DEF FoundExist, TypeOK
<1>7. OneActivePerUser'
  BY AloneIsApart DEF OneActivePerUser
<1>. QED
  BY <1>1, <1>2, <1>3, <1>4, <1>5, <1>6, <1>7

\* A call that begins, the documents untouched: a start only if it is admitted.
LEMMA BeginCall ==
  ASSUME SessionInv, NEW h \in Handlers, NEW u \in Users,
         NEW k \in Kinds, NEW l, Begin(h, k, u, l),
         \/ k = "start" /\ l = "find" /\ Admitted("start", u)
         \/ k # "start" /\ l = "stop",
         timer' \in [Users -> BOOLEAN], phase' \in {"down", "booting", "up"},
         found' \subseteq found,
         UNCHANGED <<dbVars, fails, crashes>>
  PROVE  SessionInv'
<1> USE DEF SessionInv, dbVars
<1>1. TypeOK'
  BY DEF TypeOK, Begin, StartPcs, StopPcs
<1>2. \A v \in Users : Active(v)' = Active(v)
  BY DEF Active
<1>3. KindOK'
  BY DEF KindOK, TypeOK, Begin, StartPcs, StopPcs
<1>4. OneStart'
  <2>1. CASE k = "start"
    <3>1. u \in Apart => \A g \in Handlers : pc[g] \in StartPcs => user[g] # u
      BY <2>1, AdmittedStart
    <3>. QED
      BY <3>1 DEF OneStart, TypeOK, Begin
  <2>2. CASE l = "stop"
    BY <2>2 DEF OneStart, TypeOK, Begin, StartPcs
  <2>. QED
    BY <2>1, <2>2
<1>5. SaveClear'
  <2> SUFFICES ASSUME NEW g \in Handlers, pc'[g] = "save", user'[g] \in Apart
               PROVE  Active(user[g])' = {}
    BY DEF SaveClear
  <2>1. g # h
    BY DEF TypeOK, Begin
  <2>2. pc[g] = "save" /\ user'[g] = user[g] /\ user[g] \in Users
    BY <2>1 DEF TypeOK, Begin
  <2>. QED
    BY <1>2, <2>2 DEF SaveClear
<1>6. Owned' /\ FoundExist'
  BY DEF Owned, FoundExist
<1>7. OneActivePerUser'
  BY <1>2, AloneIsApart DEF OneActivePerUser
<1>. QED
  BY <1>1, <1>3, <1>4, <1>5, <1>6, <1>7

\* The save of a start: the one step that adds an active session.
LEMMA SaveStep ==
  ASSUME SessionInv, NEW h \in Handlers, CreateSave(h)
  PROVE  SessionInv'
<1> USE DEF SessionInv
<1>0. PICK s \in Sessions :
        /\ status[s] = "none"
        /\ status' = [status EXCEPT ![s] = "running"]
        /\ owner' = [owner EXCEPT ![s] = user[h]]
        /\ scheduled' = [scheduled EXCEPT ![s] = TRUE]
  BY DEF CreateSave, Save
<1>1. /\ pc[h] = "save" /\ pc' = [pc EXCEPT ![h] = "arm"]
      /\ user[h] \in Users
      /\ UNCHANGED <<kind, user, timer, phase, found, fails, crashes>>
  BY DEF CreateSave, At, Goto, bootVars, TypeOK
<1>2. TypeOK'
  BY <1>0, <1>1 DEF TypeOK, StartPcs
<1>3. \A v \in Users : Active(v)' = IF v = user[h] THEN Active(v) \cup {s} ELSE Active(v)
  BY <1>0, <1>1 DEF Active, ActiveStatus, TypeOK
<1>4. user[h] \in Apart => Active(user[h]) = {}
  BY <1>1 DEF SaveClear
<1>5. KindOK'
  BY <1>1 DEF KindOK, TypeOK, StartPcs, StopPcs
<1>6. OneStart'
  BY <1>1 DEF OneStart, TypeOK, StartPcs
<1>7. SaveClear'
  <2> SUFFICES ASSUME NEW g \in Handlers, pc'[g] = "save", user'[g] \in Apart
               PROVE  Active(user[g])' = {}
    BY <1>1 DEF SaveClear
  <2>1. g # h /\ pc[g] = "save" /\ user[g] \in Users
    BY <1>1 DEF TypeOK
  <2>2. user[g] # user[h]
    BY <1>1, <2>1 DEF OneStart, StartPcs
  <2>3. Active(user[g])' = Active(user[g])
    BY <1>1, <1>3, <2>1, <2>2
  <2>. QED
    BY <1>1, <2>1, <2>3 DEF SaveClear
<1>8. Owned' /\ FoundExist'
  BY <1>0, <1>1 DEF Owned, FoundExist, TypeOK
<1>9. OneActivePerUser'
  BY <1>3, <1>4, AloneIsApart DEF OneActivePerUser
<1>. QED
  BY <1>2, <1>5, <1>6, <1>7, <1>8, <1>9

-----------------------------------------------------------------------------
\* Every step of a call keeps the invariant.
LEMMA CallStep ==
  ASSUME SessionInv, NEW h \in Handlers, HandlerStep(h) \/ DbFails(h)
  PROVE  SessionInv'
<1> USE DEF SessionInv, At, SetTimer, dbVars, bootVars
<1>0. user[h] \in Users /\ \A v \in Users : UNCHANGED <<status, owner>> => Active(v)' = Active(v)
  BY DEF TypeOK, Active
<1>1. CASE ReplaceFind(h)
  <2>1. PICK l \in {"cfind", "clear"} : Goto(h, l)
    BY <1>1 DEF ReplaceFind
  <2>. QED
    BY <1>0, <1>1, <2>1, MoveOn DEF ReplaceFind, StartPcs, StopPcs, TypeOK
<1>2. CASE ReplaceClear(h)
  BY <1>0, <1>2, MoveOn DEF ReplaceClear, StartPcs, StopPcs, TypeOK
<1>3. CASE ReplaceStop(h)
  BY <1>0, <1>3, StopOneEffect, MoveOn DEF ReplaceStop, StartPcs, StopPcs, TypeOK
<1>4. CASE CreateFind(h)
  <2>1. PICK l \in {"save", "cstop"} : Goto(h, l) /\ (l = "save" => Active(user[h]) = {})
    BY <1>4 DEF CreateFind
  <2>2. UNCHANGED <<status, owner, scheduled, timer, phase, found, fails, crashes>>
        /\ pc[h] = "cfind"
    BY <1>4 DEF CreateFind
  <2>3. Active(user[h])' = Active(user[h])
    BY <1>0, <2>1, <2>2 DEF Goto
  <2>. QED
    BY <1>0, <2>1, <2>2, <2>3, MoveOn DEF StartPcs, StopPcs, TypeOK
<1>5. CASE CreateStop(h)
  <2>0. PICK u \in Users : u = user[h] /\ u = user'[h]
    BY <1>0, <1>5 DEF CreateStop, Goto
  <2>1. u \in Apart => Active(u)' = {}
    BY <1>5, <2>0, StopOneEffect DEF CreateStop
  <2>. QED
    BY <1>0, <1>5, <2>0, <2>1, StopOneEffect, MoveOn DEF CreateStop, StartPcs, StopPcs, TypeOK
<1>6. CASE CreateSave(h)
  BY <1>6, SaveStep
<1>7. CASE ArmTimer(h)
  BY <1>0, <1>7, MoveOn DEF ArmTimer, StartPcs, StopPcs, TypeOK
<1>8. CASE StopSession(h)
  BY <1>0, <1>8, StopOneEffect, MoveOn DEF StopSession, StartPcs, StopPcs, TypeOK
<1>9. CASE MarkLast(h)
  <2>1. scheduled' \in [Sessions -> BOOLEAN]
    BY <1>9 DEF MarkLast, UnscheduleOne, TypeOK, Active
  <2>2. PICK l \in {"finally", "idle"} : Goto(h, l)
    BY <1>9 DEF MarkLast, AfterCall
  <2>. QED
    BY <1>0, <1>9, <2>1, <2>2, MoveOn DEF MarkLast, StartPcs, StopPcs, TypeOK
<1>10. CASE AutoFinally(h)
  BY <1>0, <1>10, MoveOn DEF AutoFinally, StartPcs, StopPcs, TypeOK
<1>11. CASE DbFails(h)
  <2>1. PICK l \in {"finally", "idle"} :
          Goto(h, l) /\ (l = "finally" => kind[h] = "auto")
    BY <1>11 DEF DbFails, AfterCall
  <2>2. /\ fails' \in Nat /\ l \notin StartPcs
        /\ l = "finally" => pc[h] \in StopPcs
    BY <1>11, <2>1 DEF DbFails, TypeOK, KindOK, DbPcs, StartPcs, StopPcs
  <2>3. UNCHANGED <<status, owner, scheduled, timer, phase, found, crashes>>
    BY <1>11 DEF DbFails
  <2>. QED
    BY <1>0, <2>1, <2>2, <2>3, MoveOn DEF StartPcs, StopPcs, TypeOK
<1>. QED
  BY <1>1, <1>2, <1>3, <1>4, <1>5, <1>6, <1>7, <1>8, <1>9, <1>10, <1>11 DEF HandlerStep

\* Requests, timers, crashes and the restart keep it too.
LEMMA SessionInvStep ==
  ASSUME SessionInv, [Next]_vars
  PROVE  SessionInv'
<1> USE DEF SessionInv
<1>1. ASSUME NEW h \in Handlers, NEW u \in Users, StartRequest(h, u)
      PROVE  SessionInv'
  BY <1>1, BeginCall DEF StartRequest, TypeOK, bootVars, Kinds
<1>2. ASSUME NEW h \in Handlers, NEW u \in Users, StopRequest(h, u)
      PROVE  SessionInv'
  BY <1>2, BeginCall DEF StopRequest, TypeOK, bootVars, SetTimer, Kinds
<1>3. ASSUME NEW h \in Handlers, NEW u \in Users, TimerFires(h, u)
      PROVE  SessionInv'
  BY <1>3, BeginCall DEF TimerFires, TypeOK, bootVars, SetTimer, Kinds
<1>4. ASSUME NEW h \in Handlers, HandlerStep(h) \/ DbFails(h)
      PROVE  SessionInv'
  BY <1>4, CallStep
<1>5. ASSUME UNCHANGED <<status, owner, scheduled, kind, user, fails>>,
             crashes' \in Nat,
             \/ pc' = [h \in Handlers |-> "idle"]
             \/ UNCHANGED pc,
             timer' \in [Users -> BOOLEAN],
             phase' \in {"down", "booting", "up"},
             found' \subseteq Sessions,
             FoundExist'
      PROVE  SessionInv'
  <2>1. \A v \in Users : Active(v)' = Active(v)
    BY <1>5 DEF Active
  <2>2. TypeOK'
    BY <1>5 DEF TypeOK
  <2>3. KindOK' /\ OneStart'
    BY <1>5 DEF KindOK, OneStart, StartPcs, StopPcs
  <2>4. SaveClear'
    BY <1>5, <2>1 DEF SaveClear, TypeOK
  <2>5. Owned' /\ OneActivePerUser'
    BY <1>5, <2>1, AloneIsApart DEF Owned, OneActivePerUser
  <2>. QED
    BY <1>5, <2>2, <2>3, <2>4, <2>5
<1>6. CASE Crash
  BY <1>5, <1>6 DEF Crash, dbVars, TypeOK, FoundExist
<1>7. CASE Boot
  BY <1>5, <1>7 DEF Boot, dbVars, callVars, TypeOK, FoundExist, ActiveStatus
<1>8. CASE BootDone
  BY <1>5, <1>8 DEF BootDone, dbVars, callVars, TypeOK, FoundExist
<1>9. ASSUME NEW s \in Sessions, RehydrateTimer(s)
      PROVE  SessionInv'
  BY <1>5, <1>9 DEF RehydrateTimer, dbVars, callVars, SetTimer, TypeOK, FoundExist
<1>10. ASSUME NEW h \in Handlers, NEW s \in Sessions, RehydrateOverdue(h, s)
       PROVE  SessionInv'
  <2>1. PICK u \in Users : u = owner[s]
    BY <1>10 DEF RehydrateOverdue, FoundExist, Owned
  <2>. QED
    BY <1>10, <2>1, BeginCall DEF RehydrateOverdue, TypeOK, SetTimer, Kinds
<1>11. CASE UNCHANGED vars
  BY <1>5, <1>11 DEF vars, TypeOK, FoundExist
<1>. QED
  BY <1>1, <1>2, <1>3, <1>4, <1>6, <1>7, <1>8, <1>9, <1>10, <1>11 DEF Next, BootStep

-----------------------------------------------------------------------------
TypeInv == TypeOK /\ Owned /\ FoundExist

LEMMA TypeInvStep == TypeInv /\ [Next]_vars => TypeInv'
<1> SUFFICES ASSUME TypeInv, [Next]_vars PROVE TypeInv'
  OBVIOUS
<1> USE DEF TypeInv, TypeOK, Owned, FoundExist, dbVars, callVars, bootVars, Begin, Goto, At,
            SetTimer
<1>1. ASSUME NEW h \in Handlers, NEW u \in Users,
             StartRequest(h, u) \/ StopRequest(h, u) \/ TimerFires(h, u)
      PROVE  TypeInv'
  <2>1. CASE StartRequest(h, u)
    BY <2>1 DEF StartRequest, StartPcs, Kinds
  <2>2. CASE StopRequest(h, u)
    BY <2>2 DEF StopRequest, StopPcs, Kinds
  <2>3. CASE TimerFires(h, u)
    BY <2>3 DEF TimerFires, StopPcs, Kinds
  <2>. QED
    BY <1>1, <2>1, <2>2, <2>3
<1>2. ASSUME NEW h \in Handlers, ReplaceFind(h) \/ ReplaceClear(h) \/ CreateFind(h) \/ ArmTimer(h)
                                 \/ AutoFinally(h)
      PROVE  TypeInv'
  BY <1>2 DEF ReplaceFind, ReplaceClear, CreateFind, ArmTimer, AutoFinally, StartPcs
<1>3. ASSUME NEW h \in Handlers, ReplaceStop(h) \/ CreateStop(h) \/ StopSession(h)
      PROVE  TypeInv'
  BY <1>3 DEF ReplaceStop, CreateStop, StopSession, StopOne, Active, ActiveStatus, StartPcs, StopPcs
<1>4. ASSUME NEW h \in Handlers, CreateSave(h)
      PROVE  TypeInv'
  BY <1>4 DEF CreateSave, Save, StartPcs
<1>5. ASSUME NEW h \in Handlers, MarkLast(h) \/ DbFails(h)
      PROVE  TypeInv'
  <2>1. CASE MarkLast(h)
    <3>1. scheduled' \in [Sessions -> BOOLEAN]
      BY <2>1 DEF MarkLast, UnscheduleOne, Active
    <3>. QED
      BY <2>1, <3>1 DEF MarkLast, AfterCall
  <2>2. CASE DbFails(h)
    BY <2>2 DEF DbFails, AfterCall
  <2>. QED
    BY <1>5, <2>1, <2>2
<1>6. CASE Crash \/ Boot \/ BootDone \/ UNCHANGED vars
  <2>1. CASE Crash
    BY <2>1 DEF Crash
  <2>2. CASE Boot
    BY <2>2 DEF Boot, ActiveStatus
  <2>3. CASE BootDone \/ UNCHANGED vars
    BY <2>3 DEF BootDone, vars
  <2>. QED
    BY <1>6, <2>1, <2>2, <2>3
<1>7. ASSUME NEW s \in Sessions,
             RehydrateTimer(s) \/ \E h \in Handlers : RehydrateOverdue(h, s)
      PROVE  TypeInv'
  BY <1>7 DEF RehydrateTimer, RehydrateOverdue, StopPcs, Kinds
<1>. QED
  BY <1>1, <1>2, <1>3, <1>4, <1>5, <1>6, <1>7 DEF Next, HandlerStep, BootStep

\* Whatever the interleaving of requests, timers, failures, crashes and
\* restarts, every variable of the executor keeps its type.
THEOREM ExecutorTypeOK == Spec => []TypeOK
<1>1. Init => TypeInv
  BY InitSessionInv DEF SessionInv, TypeInv
<1>2. TypeInv /\ [Next]_vars => TypeInv'
  BY TypeInvStep
<1>3. TypeInv => TypeOK
  BY DEF TypeInv
<1>. QED
  BY <1>1, <1>2, <1>3, PTL DEF Spec

\* A user never has two active sessions, whatever stops, timers, failures and
\* restarts do meanwhile, as long as two starts of his do not overlap.
THEOREM AtMostOneSession == Spec => []OneActivePerUser
<1>1. Init => SessionInv
  BY InitSessionInv
<1>2. SessionInv /\ [Next]_vars => SessionInv'
  BY SessionInvStep
<1>3. SessionInv => OneActivePerUser
  BY DEF SessionInv
<1>. QED
  BY <1>1, <1>2, <1>3, PTL DEF Spec

-----------------------------------------------------------------------------
(* The executor implements the lease.                                      *)

\* A step that keeps the documents' status and owners keeps the lease.
LEMMA LeaseStutters ==
  ASSUME UNCHANGED <<status, owner>>
  PROVE  UNCHANGED <<Held, Spent>>
BY DEF Held, Spent, Active

\* When the active sessions of one user change, only what he holds does.
LEMMA HeldUpdate ==
  ASSUME NEW u \in Apart, NEW A,
         \A v \in Apart : Active(v)' = IF v = u THEN A ELSE Active(v)
  PROVE  Held' = [Held EXCEPT ![u] = A]
BY DEF Held

\* stopSession releases the session of its user, or finds nothing to release.
LEMMA StopOneReleases ==
  ASSUME SessionInv, SessionInv', NEW u \in Users, StopOne(u), UNCHANGED owner
  PROVE  [Lease!Next]_(Lease!vars)
<1>1. CASE Active(u) = {} /\ UNCHANGED status
  BY <1>1, LeaseStutters DEF Lease!vars
<1>2. ASSUME u \in Apart, NEW s \in Active(u), status' = [status EXCEPT ![s] = "stopped"]
      PROVE  Lease!Release(u)
  <2>1. Held[u] = {s}
    BY <1>2 DEF Held, SessionInv, OneActivePerUser
  <2>2. Spent' = Spent \cup {s}
    BY <1>2 DEF Spent, SessionInv, TypeOK, Active
  <2>3. \A v \in Apart : Active(v)' = IF v = u THEN {} ELSE Active(v)
    BY <1>2 DEF Active, ActiveStatus, SessionInv, TypeOK, OneActivePerUser
  <2>4. Held' = [Held EXCEPT ![u] = {}]
    BY <1>2, <2>3, HeldUpdate
  <2>. QED
    BY <2>1, <2>2, <2>4 DEF Lease!Release
<1>3. ASSUME u \notin Apart, NEW s \in Active(u), status' = [status EXCEPT ![s] = "stopped"]
      PROVE  UNCHANGED <<Held, Spent>>
  <2>1. \A v \in Apart : Active(v)' = Active(v)
    BY <1>3 DEF Active, SessionInv, TypeOK
  <2>2. Held' = Held
    BY <2>1 DEF Held
  <2>3. Spent' = Spent
    BY <1>3 DEF Spent, Active, SessionInv, TypeOK
  <2>. QED
    BY <2>2, <2>3
<1>. QED
  BY <1>1, <1>2, <1>3 DEF StopOne, Lease!Next, Lease!vars

\* The save of a start grants a session nobody had, to a user who had none, or
\* is none of the lease's business.
LEMMA SaveGrants ==
  ASSUME SessionInv, NEW h \in Handlers, CreateSave(h)
  PROVE  [Lease!Next]_(Lease!vars)
<1>1. PICK u \in Users : u = user[h] /\ Save(u) /\ (u \in Apart => Active(u) = {})
  BY DEF CreateSave, At, SessionInv, SaveClear, TypeOK
<1>2. PICK s \in Sessions :
        /\ status[s] = "none"
        /\ status' = [status EXCEPT ![s] = "running"]
        /\ owner' = [owner EXCEPT ![s] = u]
  BY <1>1 DEF Save
<1>3. s \notin Spent /\ Spent' = Spent
  BY <1>2 DEF Spent, SessionInv, TypeOK
<1>4. \A v \in Apart : Active(v)' = IF v = u THEN Active(u) \cup {s} ELSE Active(v)
  BY <1>1, <1>2 DEF Active, ActiveStatus, SessionInv, TypeOK
<1>5. CASE u \in Apart
  <2>1. Held[u] = {} /\ \A v \in Apart : s \notin Held[v]
    BY <1>1, <1>2, <1>5 DEF Held, Active, ActiveStatus
  <2>2. Held' = [Held EXCEPT ![u] = {s}]
    BY <1>1, <1>4, <1>5, HeldUpdate
  <2>. QED
    BY <1>3, <1>5, <2>1, <2>2 DEF Lease!Grant, Lease!Next
<1>6. CASE u \notin Apart
  <2>1. Held' = Held
    BY <1>4, <1>6 DEF Held
  <2>. QED
    BY <1>3, <2>1 DEF Lease!vars
<1>. QED
  BY <1>5, <1>6

LEMMA StepIsLease ==
  ASSUME SessionInv, SessionInv', [Next]_vars
  PROVE  [Lease!Next]_(Lease!vars)
<1>1. CASE UNCHANGED <<status, owner>>
  BY <1>1, LeaseStutters DEF Lease!vars
<1>2. ASSUME NEW h \in Handlers, ReplaceStop(h) \/ CreateStop(h) \/ StopSession(h)
      PROVE  [Lease!Next]_(Lease!vars)
  <2>1. PICK u \in Users : u = user[h] /\ StopOne(u) /\ UNCHANGED owner
    BY <1>2 DEF ReplaceStop, CreateStop, StopSession, SessionInv, TypeOK
  <2>. QED
    BY <2>1, StopOneReleases
<1>3. ASSUME NEW h \in Handlers, CreateSave(h)
      PROVE  [Lease!Next]_(Lease!vars)
  BY <1>3, SaveGrants
<1>4. \/ UNCHANGED <<status, owner>>
      \/ \E h \in Handlers : \/ ReplaceStop(h) \/ CreateStop(h) \/ StopSession(h)
                             \/ CreateSave(h)
  BY DEF Next, BootStep, HandlerStep, StartRequest, StopRequest, TimerFires, ReplaceFind,
     ReplaceClear, CreateFind, ArmTimer, MarkLast, AutoFinally, DbFails, Crash, Boot,
     BootDone, RehydrateTimer, RehydrateOverdue, dbVars, vars
<1>. QED
  BY <1>1, <1>2, <1>3, <1>4

\* The executor implements the lease: seen from outside, its finds, stops, saves,
\* timers, failures, crashes and restarts grant a user one session at a time and
\* never the same session twice, as long as two starts of his do not overlap.
THEOREM ImplementsLease == Spec => LeaseSpec
<1>1. Init => SessionInv
  BY InitSessionInv
<1>2. SessionInv /\ [Next]_vars => SessionInv'
  BY SessionInvStep
<1>3. Init => Lease!Init
  BY DEF Init, Lease!Init, Held, Spent, Active, ActiveStatus
<1>4. SessionInv /\ SessionInv' /\ [Next]_vars => [Lease!Next]_(Lease!vars)
  BY StepIsLease
<1>. QED
  BY <1>1, <1>2, <1>3, <1>4, PTL DEF Spec, LeaseSpec, Lease!Spec

-----------------------------------------------------------------------------
(***************************************************************************)
(* The users whose starts overlap none of their other calls.  A stop that *)
(* has done its update has stopped everything, so that its mark finds      *)
(* nothing to unschedule, and every active session is watched by a timer,  *)
(* by a call that is about to deal with it, or by the loop of onModuleInit. *)
(***************************************************************************)
StartAlone ==
  \A g, h \in Handlers :
    pc[g] \in StartPcs /\ pc[h] # "idle" /\ user[g] = user[h] /\ user[h] \in Alone
      => g = h

BootQuiet ==
  /\ phase # "up" => \A h \in Handlers : pc[h] \notin StartPcs
  /\ phase = "up" => found = {}

FinallyClear ==
  fails = 0 => \A h \in Handlers :
    pc[h] = "finally" /\ user[h] \in Alone => Active(user[h]) = {}

Watched(u) ==
  \/ timer[u]
  \/ \E h \in Handlers : user[h] = u /\ pc[h] \in {"rstop", "arm", "stop"}
  \/ \E s \in found : owner[s] = u

Watch ==
  phase # "down" /\ fails = 0 => \A u \in Alone : Active(u) # {} => Watched(u)

AloneInv ==
  /\ SessionInv /\ StartAlone /\ BootQuiet
  /\ StopDelivers /\ Recoverable /\ FinallyClear /\ Watch

LEMMA AdmittedAlone ==
  ASSUME SessionInv, NEW u \in Alone, NEW k
  PROVE  /\ Admitted("start", u) => \A g \in Handlers : pc[g] # "idle" => user[g] # u
         /\ Admitted(k, u) => \A g \in Handlers : pc[g] \in StartPcs => user[g] # u
<1>1. ASSUME NEW g \in Handlers, pc[g] # "idle", user[g] = u, Admitted("start", u)
      PROVE  FALSE
  <2>1. {"start", kind[g]} \in MayOverlap[u]
    BY <1>1 DEF Admitted, InFlight
  <2>. QED
    BY <2>1 DEF Alone
<1>2. ASSUME NEW g \in Handlers, pc[g] \in StartPcs, user[g] = u, Admitted(k, u)
      PROVE  FALSE
  <2>1. {k, kind[g]} \in MayOverlap[u] /\ kind[g] = "start"
    BY <1>2 DEF Admitted, InFlight, StartPcs, SessionInv, KindOK
  <2>. QED
    BY <2>1 DEF Alone
<1>. QED
  BY <1>1, <1>2

LEMMA InitAloneInv == Init => AloneInv
<1> SUFFICES ASSUME Init PROVE AloneInv
  OBVIOUS
<1>1. SessionInv
  BY InitSessionInv
<1>. QED
  BY <1>1 DEF Init, AloneInv, StartAlone, BootQuiet, StopDelivers, Recoverable,
     FinallyClear, Watch, StartPcs, ActiveStatus

\* A call that begins.
LEMMA AloneBegin ==
  ASSUME AloneInv, SessionInv', NEW h \in Handlers, NEW u \in Users,
         NEW k \in Kinds, NEW l, Begin(h, k, u, l),
         \/ l = "find" /\ Admitted("start", u) /\ phase = "up" /\ UNCHANGED timer
         \/ /\ l = "stop" /\ timer' = [timer EXCEPT ![u] = FALSE]
            /\ phase = "up" => Admitted(k, u),
         \/ UNCHANGED found
         \/ /\ l = "stop" /\ phase # "up"
            /\ \E s \in found : owner[s] = u /\ found' = found \ {s},
         UNCHANGED <<dbVars, phase, fails, crashes>>
  PROVE  AloneInv'
<1> USE DEF AloneInv, SessionInv, TypeOK, dbVars, Begin
<1>1. \A v \in Users : Active(v)' = Active(v)
  BY DEF Active
<1>2. StartAlone'
  BY AdmittedAlone DEF StartAlone, StartPcs, BootQuiet
<1>3. BootQuiet'
  BY DEF BootQuiet, StartPcs
<1>4. \A g \in Handlers : pc'[g] \in {"mark", "finally"} =>
        pc[g] = pc'[g] /\ user'[g] = user[g]
  OBVIOUS
<1>5. StopDelivers' /\ FinallyClear'
  <2> SUFFICES ASSUME NEW g \in Handlers,
                      pc'[g] = "mark" \/ (pc'[g] = "finally" /\ fails = 0),
                      user'[g] \in Alone
               PROVE  Active(user[g])' = {}
    BY DEF StopDelivers, FinallyClear
  <2>1. Active(user[g]) = {} /\ user'[g] = user[g] /\ user[g] \in Users
    BY <1>4 DEF StopDelivers, FinallyClear
  <2>. QED
    BY <1>1, <2>1
<1>6. Recoverable'
  BY DEF Recoverable
<1>7. Watch'
  <2> SUFFICES ASSUME phase # "down", fails = 0, NEW v \in Alone, Active(v)' # {}
               PROVE  Watched(v)'
    BY DEF Watch
  <2>1. v \in Users /\ Watched(v)
    BY <1>1, AloneIsApart DEF Watch
  <2>2. CASE v = u /\ l = "stop"
    BY <2>2 DEF Watched
  <2>3. CASE v # u \/ l = "find"
    BY <2>1, <2>3 DEF Watched
  <2>. QED
    BY <2>2, <2>3
<1>. QED
  BY <1>2, <1>3, <1>5, <1>6, <1>7

\* A call that moves on: what is left to show of a step of the call of user u.
LEMMA AloneMove ==
  ASSUME AloneInv, SessionInv', NEW h \in Handlers, NEW l, NEW u \in Users,
         Goto(h, l), phase = "up", pc[h] # "idle", user[h] = u,
         l \in StartPcs => pc[h] \in StartPcs,
         \A v \in Users : v # u => Active(v)' \subseteq Active(v) /\ timer'[v] = timer[v],
         \A g \in Handlers : u \in Alone /\ g # h /\ user[g] = u
             /\ pc[g] \in {"mark", "finally"} => Active(u)' \subseteq Active(u),
         u \in Alone /\ (l = "mark" \/ (l = "finally" /\ fails' = 0)) => Active(u)' = {},
         fails' = 0 => fails = 0 /\ (u \in Alone => Active(u)' = {} \/ Watched(u)'),
         Recoverable',
         UNCHANGED <<phase, found>>
  PROVE  AloneInv'
<1> USE DEF AloneInv, SessionInv, TypeOK, Goto
<1>1. StartAlone'
  BY DEF StartAlone
<1>2. BootQuiet'
  BY DEF BootQuiet
<1>3. StopDelivers' /\ FinallyClear'
  <2> SUFFICES ASSUME NEW g \in Handlers,
                      pc'[g] = "mark" \/ (pc'[g] = "finally" /\ fails' = 0),
                      user'[g] \in Alone
               PROVE  Active(user[g])' = {}
    BY DEF StopDelivers, FinallyClear
  <2>0. PICK v \in Users : v = user[g] /\ v = user'[g]
    OBVIOUS
  <2>1. CASE g = h
    BY <2>0, <2>1
  <2>2. CASE g # h
    <3>1. pc[g] = pc'[g] /\ Active(v) = {}
      BY <2>0, <2>2 DEF StopDelivers, FinallyClear
    <3>. QED
      BY <2>0, <2>2, <3>1
  <2>. QED
    BY <2>1, <2>2
<1>4. Watch'
  <2> SUFFICES ASSUME fails' = 0, NEW v \in Alone, Active(v)' # {}
               PROVE  Watched(v)'
    BY DEF Watch
  <2>1. CASE v = u
    BY <2>1
  <2>2. CASE v # u
    <3>1. v \in Users /\ Watched(v)
      BY <2>2, AloneIsApart DEF Watch
    <3>2. \A g \in Handlers : user[g] = v => pc'[g] = pc[g] /\ user'[g] = v
      BY <2>2
    <3>. QED
      BY <2>2, <3>1, <3>2 DEF Watched, BootQuiet
  <2>. QED
    BY <2>1, <2>2
<1>. QED
  BY <1>1, <1>2, <1>3, <1>4

\* While a start is in flight no stop of its user is.
LEMMA AloneInStart ==
  ASSUME StartAlone, NEW h \in Handlers, pc[h] \in StartPcs, user[h] \in Alone
  PROVE  \A g \in Handlers : user[g] = user[h] /\ pc[g] # "idle" => g = h
BY DEF StartAlone

\* Every step of a call keeps the invariant.
LEMMA AloneCallStep ==
  ASSUME AloneInv, SessionInv', NEW h \in Handlers, HandlerStep(h) \/ DbFails(h)
  PROVE  AloneInv'
<1> USE DEF At, SetTimer, dbVars, bootVars
<1>0. PICK u \in Users : u = user[h]
  BY DEF AloneInv, SessionInv, TypeOK
<1>a. /\ SessionInv /\ TypeOK /\ TypeOK' /\ Recoverable /\ StartAlone
      /\ phase = "up" /\ Watch /\ StopDelivers /\ FinallyClear /\ found = {}
  BY DEF AloneInv, SessionInv, HandlerStep, DbFails, BootQuiet, ReplaceFind, ReplaceClear,
     ReplaceStop, CreateFind, CreateStop, CreateSave, ArmTimer, StopSession, MarkLast, AutoFinally
<1>b. UNCHANGED <<status, owner>> => \A v \in Users : Active(v)' = Active(v)
  BY DEF Active
<1>c. UNCHANGED <<status, owner, scheduled>> => Recoverable'
  BY <1>a DEF Recoverable
<1>d. ASSUME StopOne(u), UNCHANGED <<owner, scheduled>>
      PROVE  /\ \A v \in Users : Active(v)' \subseteq Active(v)
             /\ u \in Alone => Active(u)' = {}
             /\ Recoverable'
  <2>1. \A s \in Sessions : status'[s] \in ActiveStatus => status[s] \in ActiveStatus
    BY <1>a, <1>d DEF StopOne, Active, TypeOK, ActiveStatus
  <2>. QED
    BY <1>a, <1>d, <2>1, StopOneEffect, AloneIsApart DEF SessionInv, Recoverable
<1>e. u \in Alone /\ fails = 0 => Active(u) = {} \/ Watched(u)
  BY <1>a DEF Watch
<1>f. u \in Alone /\ pc[h] \in StartPcs =>
        \A g \in Handlers : user[g] = u /\ pc[g] # "idle" => g = h
  BY <1>0, <1>a, AloneInStart
<1>1. CASE ReplaceFind(h)
  <2>1. PICK l \in {"cfind", "clear"} : Goto(h, l)
    BY <1>1 DEF ReplaceFind
  <2>2. u \in Alone /\ fails = 0 => Active(u)' = {} \/ Watched(u)'
    BY <1>0, <1>1, <1>a, <1>b, <1>e DEF ReplaceFind, Watched, Goto, TypeOK
  <2>. QED
    BY <1>0, <1>1, <1>a, <1>b, <1>c, <2>1, <2>2, AloneMove DEF ReplaceFind, StartPcs
<1>2. CASE ReplaceClear(h)
  <2>1. Watched(u)'
    BY <1>0, <1>2, <1>a DEF ReplaceClear, Watched, Goto, TypeOK
  <2>2. \A v \in Users : v # u => timer'[v] = timer[v]
    BY <1>0, <1>2, <1>a DEF ReplaceClear, TypeOK
  <2>3. /\ Goto(h, "rstop") /\ pc[h] # "idle"
        /\ UNCHANGED <<status, owner, scheduled, phase, found, fails>>
        /\ "rstop" \in StartPcs => pc[h] \in StartPcs
    BY <1>2 DEF ReplaceClear, StartPcs
  <2>4. Recoverable' /\ \A v \in Users : Active(v)' = Active(v)
    BY <1>b, <1>c, <2>3
  <2>. QED
    BY <1>0, <1>a, <2>1, <2>2, <2>3, <2>4, AloneMove
<1>3. CASE ReplaceStop(h)
  BY <1>0, <1>3, <1>a, <1>d, AloneMove DEF ReplaceStop, StartPcs
<1>4. CASE CreateFind(h)
  <2>1. PICK l \in {"save", "cstop"} : Goto(h, l)
    BY <1>4 DEF CreateFind
  <2>2. u \in Alone /\ fails = 0 => Active(u)' = {} \/ Watched(u)'
    BY <1>0, <1>4, <1>a, <1>b, <1>e DEF CreateFind, Watched, Goto, TypeOK
  <2>. QED
    BY <1>0, <1>4, <1>a, <1>b, <1>c, <2>1, <2>2, AloneMove DEF CreateFind, StartPcs
<1>5. CASE CreateStop(h)
  BY <1>0, <1>5, <1>a, <1>d, AloneMove DEF CreateStop, StartPcs
<1>6. CASE CreateSave(h)
  <2>1. Watched(u)'
    BY <1>0, <1>6, <1>a DEF CreateSave, Watched, Goto, TypeOK
  <2>2. Recoverable' /\ \A v \in Users : v # u => Active(v)' \subseteq Active(v)
    BY <1>0, <1>6, <1>a DEF CreateSave, Save, Recoverable, Active, TypeOK
  <2>. QED
    BY <1>0, <1>6, <1>a, <1>f, <2>1, <2>2, AloneMove DEF CreateSave, StartPcs
<1>7. CASE ArmTimer(h)
  <2>1. Watched(u)'
    BY <1>0, <1>7, <1>a DEF ArmTimer, Watched, TypeOK
  <2>2. \A v \in Users : v # u => timer'[v] = timer[v]
    BY <1>0, <1>7, <1>a DEF ArmTimer, TypeOK
  <2>3. /\ Goto(h, "idle") /\ pc[h] # "idle"
        /\ UNCHANGED <<status, owner, scheduled, phase, found, fails>>
        /\ "idle" \in StartPcs => pc[h] \in StartPcs
    BY <1>7 DEF ArmTimer, StartPcs
  <2>4. Recoverable' /\ \A v \in Users : Active(v)' = Active(v)
    BY <1>b, <1>c, <2>3
  <2>. QED
    BY <1>0, <1>a, <2>1, <2>2, <2>3, <2>4, AloneMove
<1>8. CASE StopSession(h)
  BY <1>0, <1>8, <1>a, <1>d, AloneMove DEF StopSession, StartPcs
<1>9. CASE MarkLast(h)
  <2>1. PICK l \in {"finally", "idle"} : Goto(h, l)
    BY <1>9 DEF MarkLast, AfterCall
  <2>2. u \in Alone => Active(u) = {} /\ UNCHANGED scheduled
    BY <1>0, <1>9, <1>a DEF MarkLast, UnscheduleOne, StopDelivers
  <2>3. Recoverable'
    <3>1. CASE u \in Alone
      BY <1>9, <1>c, <2>2, <3>1 DEF MarkLast
    <3>2. CASE u \notin Alone
      BY <1>0, <1>9, <1>a, <3>2 DEF MarkLast, UnscheduleOne, Recoverable, Active, TypeOK
    <3>. QED
      BY <3>1, <3>2
  <2>. QED
    BY <1>0, <1>9, <1>a, <1>b, <2>1, <2>2, <2>3, AloneMove DEF MarkLast, StartPcs
<1>10. CASE AutoFinally(h)
  <2>1. u \in Alone /\ fails = 0 => Active(u) = {}
    BY <1>0, <1>10, <1>a DEF AutoFinally, FinallyClear
  <2>2. \A v \in Users : v # u => timer'[v] = timer[v]
    BY <1>0, <1>10, <1>a DEF AutoFinally, TypeOK
  <2>3. /\ Goto(h, "idle") /\ pc[h] # "idle"
        /\ UNCHANGED <<status, owner, scheduled, phase, found, fails>>
        /\ "idle" \in StartPcs => pc[h] \in StartPcs
    BY <1>10 DEF AutoFinally, StartPcs
  <2>4. Recoverable' /\ \A v \in Users : Active(v)' = Active(v)
    BY <1>b, <1>c, <2>3
  <2>. QED
    BY <1>0, <1>a, <2>1, <2>2, <2>3, <2>4, AloneMove
<1>11. CASE DbFails(h)
  <2>1. PICK l \in {"finally", "idle"} : Goto(h, l)
    BY <1>11 DEF DbFails, AfterCall
  <2>2. fails' # 0
    BY <1>11, <1>a DEF DbFails, TypeOK
  <2>3. pc[h] # "idle"
    BY <1>11 DEF DbFails, DbPcs
  <2>. QED
    BY <1>0, <1>11, <1>a, <1>b, <1>c, <2>1, <2>2, <2>3, AloneMove DEF DbFails, StartPcs
<1>. QED
  BY <1>1, <1>2, <1>3, <1>4, <1>5, <1>6, <1>7, <1>8, <1>9, <1>10, <1>11 DEF HandlerStep

LEMMA AloneInvStep ==
  ASSUME AloneInv, [Next]_vars
  PROVE  AloneInv'
<1>0. SessionInv /\ SessionInv' /\ TypeOK
  BY AloneIsApart, SessionInvStep DEF AloneInv, SessionInv
<1>1. ASSUME NEW h \in Handlers, NEW u \in Users, StartRequest(h, u)
      PROVE  AloneInv'
  BY <1>0, <1>1, AloneBegin DEF StartRequest, bootVars, Kinds
<1>2. ASSUME NEW h \in Handlers, NEW u \in Users, StopRequest(h, u)
      PROVE  AloneInv'
  BY <1>0, <1>2, AloneBegin DEF StopRequest, bootVars, SetTimer, Kinds
<1>3. ASSUME NEW h \in Handlers, NEW u \in Users, TimerFires(h, u)
      PROVE  AloneInv'
  BY <1>0, <1>3, AloneBegin DEF TimerFires, bootVars, SetTimer, Kinds
<1>4. ASSUME NEW h \in Handlers, HandlerStep(h) \/ DbFails(h)
      PROVE  AloneInv'
  BY <1>0, <1>4, AloneCallStep
<1>5. ASSUME UNCHANGED dbVars
      PROVE  /\ \A v \in Users : Active(v)' = Active(v)
             /\ Recoverable'
  BY <1>5 DEF dbVars, Active, Recoverable, AloneInv
<1>6. CASE Crash
  <2>1. \A h \in Handlers : pc'[h] = "idle"
    BY <1>6 DEF Crash
  <2>. QED
    BY <1>0, <1>5, <1>6, <2>1 DEF Crash, AloneInv, StartAlone, BootQuiet, StopDelivers,
       FinallyClear, Watch, StartPcs
<1>7. CASE Boot
  <2>1. StartAlone' /\ BootQuiet'
    BY <1>7 DEF Boot, AloneInv, StartAlone, BootQuiet, callVars
  <2>2. StopDelivers' /\ FinallyClear'
    BY <1>0, <1>5, <1>7 DEF Boot, AloneInv, StopDelivers, FinallyClear, callVars, TypeOK
  <2>3. \A v \in Alone : Active(v)' # {} => Watched(v)'
    <3>1. \A v \in Alone : \A s \in Active(v) : s \in found' /\ owner'[s] = v
      BY <1>7 DEF Boot, dbVars, Active, Recoverable, AloneInv
    <3>. QED
      BY <1>5, <1>7, <3>1, AloneIsApart DEF Watched, Boot
  <2>. QED
    BY <1>0, <1>5, <1>7, <2>1, <2>2, <2>3 DEF Boot, AloneInv, Watch
<1>8. CASE BootDone
  <2>1. StartAlone' /\ BootQuiet' /\ StopDelivers' /\ FinallyClear'
    BY <1>0, <1>5, <1>8 DEF BootDone, AloneInv, StartAlone, BootQuiet, StopDelivers,
       FinallyClear, callVars, TypeOK
  <2>2. Watch'
    BY <1>5, <1>8, AloneIsApart DEF BootDone, AloneInv, Watch, Watched, callVars, dbVars
  <2>. QED
    BY <1>0, <1>5, <1>8, <2>1, <2>2 DEF BootDone, AloneInv
<1>9. ASSUME NEW s \in Sessions, RehydrateTimer(s)
      PROVE  AloneInv'
  <2>1. StartAlone' /\ BootQuiet' /\ StopDelivers' /\ FinallyClear'
    BY <1>0, <1>5, <1>9 DEF RehydrateTimer, AloneInv, StartAlone, BootQuiet, StopDelivers,
       FinallyClear, callVars, TypeOK
  <2>2. Watch'
    <3> SUFFICES ASSUME fails = 0, NEW v \in Alone, Active(v) # {}
                 PROVE  Watched(v)'
      BY <1>5, <1>9, AloneIsApart DEF Watch, RehydrateTimer
    <3>1. v \in Users /\ Watched(v)
      BY <1>9, AloneIsApart DEF AloneInv, Watch, RehydrateTimer
    <3>2. CASE owner[s] = v
      BY <1>0, <1>9, <3>1, <3>2 DEF RehydrateTimer, SetTimer, Watched, TypeOK
    <3>3. CASE owner[s] # v
      BY <1>0, <1>9, <3>1, <3>3 DEF RehydrateTimer, SetTimer, Watched, TypeOK, callVars, dbVars
    <3>. QED
      BY <3>2, <3>3
  <2>. QED
    BY <1>0, <1>5, <1>9, <2>1, <2>2 DEF RehydrateTimer, AloneInv
<1>10. ASSUME NEW h \in Handlers, NEW s \in Sessions, RehydrateOverdue(h, s)
       PROVE  AloneInv'
  <2>1. PICK u \in Users : u = owner[s]
    BY <1>0, <1>10 DEF RehydrateOverdue, SessionInv, FoundExist, Owned
  <2>. QED
    BY <1>0, <1>10, <2>1, AloneBegin DEF RehydrateOverdue, SetTimer, Kinds
<1>11. CASE UNCHANGED vars
  <2>1. StartAlone' /\ BootQuiet' /\ StopDelivers' /\ FinallyClear' /\ Watch'
    BY <1>5, <1>11, <1>0, AloneIsApart DEF vars, AloneInv, StartAlone, BootQuiet, StopDelivers,
       FinallyClear, Watch, Watched, dbVars, TypeOK
  <2>. QED
    BY <1>0, <1>5, <1>11, <2>1 DEF vars, dbVars, AloneInv
<1>. QED
  BY <1>1, <1>2, <1>3, <1>4, <1>6, <1>7, <1>8, <1>9, <1>10, <1>11 DEF Next, BootStep

-----------------------------------------------------------------------------
\* Every active session keeps its scheduledStopAt, so that a restart finds it,
\* whatever failed before, as long as a start overlaps no other call of its user.
THEOREM RestartFindsEverySession == Spec => []Recoverable
<1>1. Init => AloneInv
  BY InitAloneInv
<1>2. AloneInv /\ [Next]_vars => AloneInv'
  BY AloneInvStep
<1>3. AloneInv => Recoverable
  BY DEF AloneInv
<1>. QED
  BY <1>1, <1>2, <1>3, PTL DEF Spec

\* A stop that has reached its mark has left its user nothing that runs.
THEOREM StopLeavesNothing == Spec => []StopDelivers
<1>1. Init => AloneInv
  BY InitAloneInv
<1>2. AloneInv /\ [Next]_vars => AloneInv'
  BY AloneInvStep
<1>3. AloneInv => StopDelivers
  BY DEF AloneInv
<1>. QED
  BY <1>1, <1>2, <1>3, PTL DEF Spec

\* While no database operation has failed, a user with a running session and no
\* call in flight has an armed timer, through every start, replacement, stop,
\* crash and restart.
THEOREM IdleSessionIsTimed == Spec => []TimerGuards
<1>1. Init => AloneInv
  BY InitAloneInv
<1>2. AloneInv /\ [Next]_vars => AloneInv'
  BY AloneInvStep
<1>3. AloneInv => TimerGuards
  BY DEF AloneInv, BootQuiet, Watch, Watched, TimerGuards, InFlight
<1>. QED
  BY <1>1, <1>2, <1>3, PTL DEF Spec

-----------------------------------------------------------------------------
(* A stopped session is final: no step writes a document that is stopped.  *)

LEMMA StopOneKeeps ==
  ASSUME TypeOK, NEW u \in Users, StopOne(u), NEW s \in Sessions, status[s] = "stopped"
  PROVE  status'[s] = "stopped"
  BY DEF StopOne, Active, ActiveStatus, TypeOK

\* stopSession and markLastAction write active sessions only, a save a new one
\* (executor.service.ts), whatever calls overlap, fail or are cut short.
THEOREM StoppedStaysStopped == Spec => StoppedIsFinal
<1> DEFINE Final(s) == status'[s] = "stopped" /\ owner'[s] = owner[s] /\ scheduled'[s] = scheduled[s]
<1>1. TypeInv /\ [Next]_vars => [\A s \in Sessions : status[s] = "stopped" =>
                                   /\ status'[s] = "stopped"
                                   /\ owner'[s] = owner[s]
                                   /\ scheduled'[s] = scheduled[s]]_vars
  <2> SUFFICES ASSUME TypeInv, Next, NEW s \in Sessions, status[s] = "stopped"
               PROVE  Final(s)
    OBVIOUS
  <2> USE DEF TypeInv, TypeOK
  <2>1. ASSUME UNCHANGED dbVars PROVE Final(s)
    BY <2>1 DEF dbVars
  <2>2. ASSUME NEW h \in Handlers, NEW u \in Users,
               StartRequest(h, u) \/ StopRequest(h, u) \/ TimerFires(h, u)
        PROVE  Final(s)
    BY <2>1, <2>2 DEF StartRequest, StopRequest, TimerFires
  <2>3. ASSUME NEW h \in Handlers, ReplaceFind(h) \/ ReplaceClear(h) \/ CreateFind(h) \/ ArmTimer(h)
                                   \/ AutoFinally(h) \/ DbFails(h)
        PROVE  Final(s)
    BY <2>1, <2>3 DEF ReplaceFind, ReplaceClear, CreateFind, ArmTimer, AutoFinally, DbFails
  <2>4. ASSUME NEW h \in Handlers, ReplaceStop(h) \/ CreateStop(h) \/ StopSession(h)
        PROVE  Final(s)
    <3>1. StopOne(user[h]) /\ user[h] \in Users /\ UNCHANGED <<owner, scheduled>>
      BY <2>4 DEF ReplaceStop, CreateStop, StopSession
    <3> QED
      BY <3>1, StopOneKeeps
  <2>5. ASSUME NEW h \in Handlers, CreateSave(h) PROVE Final(s)
    BY <2>5 DEF CreateSave, Save
  <2>6. ASSUME NEW h \in Handlers, MarkLast(h) PROVE Final(s)
    BY <2>6 DEF MarkLast, UnscheduleOne, Active, ActiveStatus
  <2>7. CASE Crash \/ Boot \/ BootDone
    BY <2>1, <2>7 DEF Crash, Boot, BootDone
  <2>8. ASSUME NEW t \in Sessions, RehydrateTimer(t) \/ \E h \in Handlers : RehydrateOverdue(h, t)
        PROVE  Final(s)
    BY <2>1, <2>8 DEF RehydrateTimer, RehydrateOverdue
  <2> QED
    BY <2>2, <2>3, <2>4, <2>5, <2>6, <2>7, <2>8 DEF Next, HandlerStep, BootStep
<1>2. Init => TypeInv
  BY InitSessionInv DEF SessionInv, TypeInv
<1> QED
  BY <1>1, <1>2, TypeInvStep, PTL DEF Spec, StoppedIsFinal

-----------------------------------------------------------------------------
(* Overlapping starts.  The active sessions of a user and his calls that   *)
(* will save one more are together no more than the calls in flight.       *)

Saving(u) == {h \in Handlers : pc[h] = "save" /\ user[h] = u}

Counted(u) ==
  /\ IsFiniteSet(Active(u))
  /\ Cardinality(Active(u)) + Cardinality(Saving(u)) <= Cardinality(Handlers)

CountInv == \A u \in Users : Counted(u)

\* Two sets with at most w elements together: they may lose some, ...
LEMMA PairShrinks ==
  ASSUME NEW A, NEW B, IsFiniteSet(A), IsFiniteSet(B), NEW w \in Nat,
         Cardinality(A) + Cardinality(B) <= w, NEW C \in SUBSET A, NEW D \in SUBSET B
  PROVE  IsFiniteSet(C) /\ Cardinality(C) + Cardinality(D) <= w
<1>1. /\ Cardinality(C) <= Cardinality(A) /\ Cardinality(D) <= Cardinality(B)
      /\ IsFiniteSet(C) /\ IsFiniteSet(D)
  BY FS_Subset
<1>2. /\ Cardinality(A) \in Nat /\ Cardinality(B) \in Nat
      /\ Cardinality(C) \in Nat /\ Cardinality(D) \in Nat
  BY <1>1, FS_CardinalityType
<1> QED
  BY <1>1, <1>2

\* ... or lose one in the one and gain one in the other.
LEMMA PairMoves ==
  ASSUME NEW A, NEW B, IsFiniteSet(A), IsFiniteSet(B), NEW w \in Nat,
         Cardinality(A) + Cardinality(B) <= w, NEW x \in A, NEW y,
         NEW C \in SUBSET (A \ {x}), NEW D \in SUBSET (B \cup {y})
  PROVE  IsFiniteSet(C) /\ IsFiniteSet(D) /\ Cardinality(C) + Cardinality(D) <= w
<1>1. /\ IsFiniteSet(A \ {x}) /\ IsFiniteSet(B \cup {y})
      /\ Cardinality(A \ {x}) = Cardinality(A) - 1
      /\ Cardinality(B \cup {y}) = IF y \in B THEN Cardinality(B) ELSE Cardinality(B) + 1
  BY FS_AddElement, FS_RemoveElement
<1>2. Cardinality(A) \in Nat /\ Cardinality(B) \in Nat
  BY FS_CardinalityType
<1>3. Cardinality(A \ {x}) + Cardinality(B \cup {y}) <= w
  BY <1>1, <1>2
<1>4. IsFiniteSet(D)
  BY <1>1, FS_Subset
<1> QED
  BY <1>1, <1>3, <1>4, PairShrinks

LEMMA SlotsAreFinite ==
  ASSUME NEW u
  PROVE  /\ IsFiniteSet(Saving(u)) /\ Cardinality(Handlers) \in Nat
         /\ Cardinality(Saving(u)) <= Cardinality(Handlers)
  BY HandlersAssumption, FS_Subset, FS_CardinalityType DEF Saving

\* A step that adds neither a session nor a call about to save one.
LEMMA CountShrinks ==
  ASSUME CountInv, NEW u \in Users, Active(u)' \subseteq Active(u), Saving(u)' \subseteq Saving(u)
  PROVE  Counted(u)'
<1>1. PICK A, B, C, D : A = Active(u) /\ B = Saving(u) /\ C = Active(u)' /\ D = Saving(u)'
  OBVIOUS
<1>2. /\ IsFiniteSet(A) /\ IsFiniteSet(B) /\ Cardinality(Handlers) \in Nat
      /\ Cardinality(A) + Cardinality(B) <= Cardinality(Handlers)
      /\ C \in SUBSET A /\ D \in SUBSET B
  BY <1>1, SlotsAreFinite DEF CountInv, Counted
<1>3. IsFiniteSet(C) /\ Cardinality(C) + Cardinality(D) <= Cardinality(Handlers)
  BY <1>2, PairShrinks
<1> QED
  BY <1>1, <1>3 DEF Counted

\* A user without an active session has no more calls than slots.
LEMMA CountFromNone ==
  ASSUME NEW u \in Users, Active(u)' = {}
  PROVE  Counted(u)'
<1>1. PICK D : D = Saving(u)'
  OBVIOUS
<1>2. D \in SUBSET Handlers
  BY <1>1 DEF Saving
<1>3. /\ IsFiniteSet(D) /\ Cardinality(D) \in Nat /\ Cardinality(Handlers) \in Nat
      /\ Cardinality(D) <= Cardinality(Handlers)
  BY <1>2, HandlersAssumption, FS_Subset, FS_CardinalityType
<1>4. IsFiniteSet({}) /\ Cardinality({}) = 0
  BY FS_EmptySet
<1> QED
  BY <1>1, <1>3, <1>4 DEF Counted

\* The documents a stop may end, and that no step but a save adds one.
LEMMA StopOneTakes ==
  ASSUME TypeOK, NEW u \in Users, StopOne(u), UNCHANGED owner
  PROVE  /\ \A v \in Users : Active(v)' \subseteq Active(v)
         /\ \/ Active(u)' = {}
            \/ \E s \in Active(u) : Active(u)' \subseteq Active(u) \ {s}
<1> USE DEF TypeOK, Active, ActiveStatus
<1>1. CASE Active(u) = {} /\ UNCHANGED status
  BY <1>1
<1>2. ASSUME NEW s \in Active(u), status' = [status EXCEPT ![s] = "stopped"]
      PROVE  /\ \A v \in Users : Active(v)' \subseteq Active(v)
             /\ Active(u)' \subseteq Active(u) \ {s}
  <2>1. \A t \in Sessions : status'[t] = IF t = s THEN "stopped" ELSE status[t]
    BY <1>2
  <2> QED
    BY <2>1
<1> QED
  BY <1>1, <1>2 DEF StopOne

\* The call in slot h goes on to l, and to save only if no session of its user is
\* active any more or one less is.
LEMMA CountGoto ==
  ASSUME TypeOK, CountInv, NEW h \in Handlers, NEW l, Goto(h, l),
         \A v \in Users : Active(v)' \subseteq Active(v),
         l = "save" => \/ Active(user[h])' = {}
                       \/ \E s \in Active(user[h]) : Active(user[h])' \subseteq Active(user[h]) \ {s}
  PROVE  CountInv'
<1> SUFFICES ASSUME NEW u \in Users PROVE Counted(u)'
  BY DEF CountInv
<1>1. \A g \in Handlers : g # h => (g \in Saving(u)' <=> g \in Saving(u))
  BY DEF Saving, Goto, TypeOK
<1>2. h \in Saving(u)' => l = "save" /\ user[h] = u
  BY DEF Saving, Goto, TypeOK
<1>3. CASE h \notin Saving(u)'
  <2>1. Saving(u)' \subseteq Saving(u)
    BY <1>1, <1>3 DEF Saving
  <2> QED
    BY <2>1, CountShrinks
<1>4. CASE h \in Saving(u)' /\ Active(u)' = {}
  BY <1>4, CountFromNone
<1>5. CASE h \in Saving(u)' /\ Active(u)' # {}
  <2>1. PICK s \in Active(u) : Active(u)' \subseteq Active(u) \ {s}
    <3>1. user[h] = u /\ user'[h] = u
      BY <1>2, <1>5 DEF Goto
    <3>2. Active(user[h])' = Active(u)'
      BY <3>1 DEF Active
    <3> QED
      BY <1>2, <1>5, <3>1, <3>2
  <2>2. Saving(u)' \subseteq Saving(u) \cup {h}
    BY <1>1 DEF Saving
  <2>3. PICK A, B, C, D, w :
          /\ A = Active(u) /\ B = Saving(u) /\ C = Active(u)' /\ D = Saving(u)'
          /\ w = Cardinality(Handlers)
    OBVIOUS
  <2>4. /\ IsFiniteSet(A) /\ IsFiniteSet(B) /\ w \in Nat
        /\ Cardinality(A) + Cardinality(B) <= w
        /\ s \in A /\ C \in SUBSET (A \ {s}) /\ D \in SUBSET (B \cup {h})
    BY <2>1, <2>2, <2>3, SlotsAreFinite DEF CountInv, Counted
  <2>5. IsFiniteSet(C) /\ IsFiniteSet(D) /\ Cardinality(C) + Cardinality(D) <= w
    BY <2>4, PairMoves
  <2> QED
    BY <2>3, <2>5 DEF Counted
<1> QED
  BY <1>3, <1>4, <1>5

LEMMA CountSave ==
  ASSUME TypeOK, CountInv, NEW h \in Handlers, CreateSave(h)
  PROVE  CountInv'
<1> SUFFICES ASSUME NEW u \in Users PROVE Counted(u)'
  BY DEF CountInv
<1>1. PICK s \in Sessions :
        /\ status[s] = "none" /\ status' = [status EXCEPT ![s] = "running"]
        /\ owner' = [owner EXCEPT ![s] = user[h]]
  BY DEF CreateSave, Save
<1>2. pc[h] = "save" /\ pc' = [pc EXCEPT ![h] = "arm"] /\ user' = user
  BY DEF CreateSave, At, Goto
<1>3. Saving(u)' \subseteq Saving(u) \ {h}
  BY <1>2 DEF Saving, TypeOK
<1>4. \A t \in Sessions : t # s => (t \in Active(u)' <=> t \in Active(u))
  BY <1>1 DEF Active, ActiveStatus, TypeOK
<1>5. CASE u = user[h]
  <2>1. h \in Saving(u) /\ Active(u)' \subseteq Active(u) \cup {s}
    BY <1>2, <1>4, <1>5 DEF Saving, Active
  <2>2. PICK A, B, C, D, w :
          /\ A = Active(u) /\ B = Saving(u) /\ C = Active(u)' /\ D = Saving(u)'
          /\ w = Cardinality(Handlers)
    OBVIOUS
  <2>3. /\ IsFiniteSet(A) /\ IsFiniteSet(B) /\ w \in Nat
        /\ Cardinality(A) + Cardinality(B) <= w
        /\ h \in B /\ C \in SUBSET (A \cup {s}) /\ D \in SUBSET (B \ {h})
    BY <1>3, <2>1, <2>2, SlotsAreFinite DEF CountInv, Counted
  <2>4. Cardinality(B) + Cardinality(A) <= w
    BY <2>3, FS_CardinalityType
  <2>5. IsFiniteSet(C) /\ IsFiniteSet(D) /\ Cardinality(D) + Cardinality(C) <= w
    BY <2>3, <2>4, PairMoves
  <2>6. Cardinality(C) + Cardinality(D) <= w
    BY <2>5, FS_CardinalityType
  <2> QED
    BY <2>2, <2>5, <2>6 DEF Counted
<1>6. CASE u # user[h]
  <2>1. s \notin Active(u)'
    BY <1>1, <1>6 DEF Active, TypeOK
  <2>2. Active(u)' \subseteq Active(u)
    BY <1>4, <2>1 DEF Active
  <2> QED
    BY <1>3, <2>2, CountShrinks
<1> QED
  BY <1>5, <1>6

LEMMA CountInit == Init => CountInv
<1> SUFFICES ASSUME Init, NEW u \in Users PROVE Counted(u)
  BY DEF CountInv
<1>1. Active(u) = {} /\ Saving(u) = {}
  BY DEF Init, Active, ActiveStatus, Saving
<1>2. IsFiniteSet({}) /\ Cardinality({}) = 0 /\ Cardinality(Handlers) \in Nat
  BY HandlersAssumption, FS_EmptySet, FS_CardinalityType
<1> QED
  BY <1>1, <1>2 DEF Counted

LEMMA CountNext == TypeOK /\ CountInv /\ [Next]_vars => CountInv'
<1> SUFFICES ASSUME TypeOK, CountInv, [Next]_vars PROVE CountInv'
  OBVIOUS
<1>1. ASSUME UNCHANGED <<status, owner>>,
             \A g \in Handlers : pc'[g] = "save" => pc[g] = "save" /\ user'[g] = user[g]
      PROVE  CountInv'
  <2> SUFFICES ASSUME NEW u \in Users PROVE Counted(u)'
    BY DEF CountInv
  <2>1. Active(u)' \subseteq Active(u) /\ Saving(u)' \subseteq Saving(u)
    BY <1>1 DEF Active, Saving
  <2> QED
    BY <2>1, CountShrinks
<1>2. ASSUME NEW h \in Handlers, NEW k, NEW u, NEW l \in {"find", "stop"}, Begin(h, k, u, l),
             UNCHANGED <<status, owner>>
      PROVE  CountInv'
  <2>1. \A g \in Handlers : pc'[g] = "save" => pc[g] = "save" /\ user'[g] = user[g]
    BY <1>2 DEF Begin, TypeOK
  <2> QED
    BY <1>2, <2>1, <1>1
<1>3. ASSUME NEW h \in Handlers, NEW l, l # "save", Goto(h, l), UNCHANGED <<status, owner>>
      PROVE  CountInv'
  <2>1. \A g \in Handlers : pc'[g] = "save" => pc[g] = "save" /\ user'[g] = user[g]
    BY <1>3 DEF Goto, TypeOK
  <2> QED
    BY <1>3, <2>1, <1>1
<1>4. ASSUME NEW h \in Handlers, HandlerStep(h) PROVE CountInv'
  <2>0. user[h] \in Users
    BY DEF TypeOK
  <2>1. CASE ReplaceFind(h) \/ ReplaceClear(h) \/ ArmTimer(h) \/ MarkLast(h) \/ AutoFinally(h)
    BY <1>3, <2>1
       DEF ReplaceFind, ReplaceClear, ArmTimer, MarkLast, AutoFinally, AfterCall, dbVars
  <2>2. CASE ReplaceStop(h) \/ StopSession(h)
    <3>1. PICK l \in {"cfind", "mark"} : Goto(h, l)
      BY <2>2 DEF ReplaceStop, StopSession
    <3>2. \A v \in Users : Active(v)' \subseteq Active(v)
      BY <2>0, <2>2, StopOneTakes DEF ReplaceStop, StopSession
    <3> QED
      BY <3>1, <3>2, CountGoto
  <2>3. CASE CreateFind(h)
    <3>1. \A v \in Users : Active(v)' = Active(v)
      BY <2>3 DEF CreateFind, Active, dbVars
    <3>2. Goto(h, IF Active(user[h]) = {} THEN "save" ELSE "cstop")
      BY <2>3 DEF CreateFind
    <3>3. Active(user[h]) = {} => Active(user[h])' = {}
      BY <2>3 DEF CreateFind, Active, dbVars, Goto
    <3> QED
      BY <3>1, <3>2, <3>3, CountGoto
  <2>4. CASE CreateStop(h)
    <3>1. PICK u \in Users : u = user[h]
      BY <2>0
    <3>2. /\ \A v \in Users : Active(v)' \subseteq Active(v)
          /\ \/ Active(u)' = {}
             \/ \E s \in Active(u) : Active(u)' \subseteq Active(u) \ {s}
      BY <2>4, <3>1, StopOneTakes DEF CreateStop
    <3>3. Goto(h, "save") /\ user'[h] = user[h]
      BY <2>4 DEF CreateStop, Goto
    <3>4. Active(user[h])' = Active(u)'
      BY <3>1, <3>3 DEF Active
    <3> QED
      BY <3>1, <3>2, <3>3, <3>4, CountGoto
  <2>5. CASE CreateSave(h)
    BY <2>5, CountSave
  <2> QED
    BY <1>4, <2>1, <2>2, <2>3, <2>4, <2>5 DEF HandlerStep
<1>5. ASSUME NEW h \in Handlers, DbFails(h) PROVE CountInv'
  BY <1>3, <1>5 DEF DbFails, AfterCall, dbVars
<1>6. ASSUME NEW h \in Handlers, NEW u \in Users,
             StartRequest(h, u) \/ StopRequest(h, u) \/ TimerFires(h, u)
      PROVE  CountInv'
  BY <1>2, <1>6 DEF StartRequest, StopRequest, TimerFires, dbVars
<1>7. CASE Crash
  BY <1>1, <1>7 DEF Crash, dbVars
<1>8. CASE BootStep
  <2>1. CASE Boot \/ BootDone \/ \E s \in Sessions : RehydrateTimer(s)
    BY <1>1, <2>1 DEF Boot, BootDone, RehydrateTimer, dbVars, callVars
  <2>2. ASSUME NEW s \in Sessions, NEW h \in Handlers, RehydrateOverdue(h, s) PROVE CountInv'
    BY <1>2, <2>2 DEF RehydrateOverdue, dbVars
  <2> QED
    BY <1>8, <2>1, <2>2 DEF BootStep
<1>9. CASE UNCHANGED vars
  BY <1>1, <1>9 DEF vars
<1> QED
  BY <1>4, <1>5, <1>6, <1>7, <1>8, <1>9 DEF Next

\* However many starts of one user overlap (startExecution), his active sessions are
\* never more than the calls that may be in flight.
THEOREM OverlappingStartsAreBounded == Spec => []SessionsBounded
<1>1. CountInv => SessionsBounded
  <2> SUFFICES ASSUME CountInv, NEW u \in Users
               PROVE  Cardinality(Active(u)) <= Cardinality(Handlers)
    BY DEF SessionsBounded
  <2>1. /\ Cardinality(Active(u)) \in Nat /\ Cardinality(Saving(u)) \in Nat
        /\ Cardinality(Handlers) \in Nat
    BY SlotsAreFinite, FS_CardinalityType DEF CountInv, Counted
  <2> QED
    BY <2>1 DEF CountInv, Counted
<1> QED
  BY <1>1, CountInit, CountNext, ExecutorTypeOK, PTL DEF Spec
=============================================================================
