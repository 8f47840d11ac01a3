-------------------------- MODULE ExecutorSessions --------------------------
(***************************************************************************)
(* ExecutorService (src/executor/executor.service.ts): execution sessions  *)
(* in MongoDB, an in-memory map of auto-stop timers, and the asynchronous  *)
(* handlers that work on both.                                             *)
(*                                                                         *)
(* A handler is one call of startExecution or stopExecution.  The process  *)
(* is single threaded, so the code between two awaits is atomic; a         *)
(* database operation takes effect on its own, and the code that follows   *)
(* its await runs later.  Hence one action per database operation, and an  *)
(* action of its own for the code after an await that touches the timers.  *)
(*                                                                         *)
(* lastAction is not kept apart from scheduledStopAt: the two are always   *)
(* written together ('start' with a date, 'stop' with null).  Time is left *)
(* out: an armed timer may fire at any moment, and at a restart any        *)
(* scheduled session may be overdue or not.                                *)
(***************************************************************************)
EXTENDS Naturals, FiniteSets

CONSTANTS
  Users,        \* user ids
  Sessions,     \* the session documents that can ever be created
  Handlers,     \* slots for calls in flight (bound on concurrency)
  NoUser,       \* owner of a document that does not exist
  MayOverlap,   \* per user: which kinds of his calls may be in flight together
  MaxFails,     \* bound on database operations that fail
  MaxCrashes    \* bound on crashes of the process

(***************************************************************************)
(* "start" and "stop" are HTTP requests, "auto" the callback of a timer,   *)
(* "overdue" a stop issued by onModuleInit.                                *)
(***************************************************************************)
Kinds == {"start", "stop", "auto", "overdue"}

ASSUME UsersAssumption == NoUser \notin Users
ASSUME OverlapAssumption ==
  MayOverlap \in [Users -> SUBSET {{a, b} : a, b \in Kinds}]
ASSUME HandlersAssumption == IsFiniteSet(Handlers)
ASSUME BoundsAssumption == MaxFails \in Nat /\ MaxCrashes \in Nat

VARIABLES
  status,     \* per document: "none" before it exists, then the status field
  owner,      \* per document: the userId field
  scheduled,  \* per document: scheduledStopAt is not null
  timer,      \* per user: autoStopTimers holds a timeout
  pc,         \* per slot: where the call is
  kind,       \* per slot: which call it is
  user,       \* per slot: for whom
  phase,      \* "down", "booting" (inside onModuleInit) or "up"
  found,      \* sessions the loop of onModuleInit has still to treat
  fails, crashes

dbVars == <<status, owner, scheduled>>
callVars == <<pc, kind, user>>
bootVars == <<phase, found>>
vars == <<status, owner, scheduled, timer, pc, kind, user, phase, found,
          fails, crashes>>

ActiveStatus == {"waiting", "running"}
Active(u) == {s \in Sessions : owner[s] = u /\ status[s] \in ActiveStatus}
InFlight(u) == {h \in Handlers : pc[h] # "idle" /\ user[h] = u}

\* The users two starts of whom never overlap, and those whose starts overlap
\* nothing: what the code promises depends on it.
Apart == {u \in Users : {"start"} \notin MayOverlap[u]}
Alone == {u \in Users : \A p \in MayOverlap[u] : "start" \notin p}

StartPcs == {"find", "clear", "rstop", "cfind", "cstop", "save", "arm"}
StopPcs == {"stop", "mark"}
DbPcs == {"find", "rstop", "cfind", "cstop", "save", "stop", "mark"}

TypeOK ==
  /\ status \in [Sessions -> {"none", "waiting", "running", "stopped"}]
  /\ owner \in [Sessions -> Users \cup {NoUser}]
  /\ scheduled \in [Sessions -> BOOLEAN]
  /\ timer \in [Users -> BOOLEAN]
  /\ pc \in [Handlers -> StartPcs \cup StopPcs \cup {"idle", "finally"}]
  /\ kind \in [Handlers -> Kinds]
  /\ user \in [Handlers -> Users]
  /\ phase \in {"down", "booting", "up"}
  /\ found \in SUBSET Sessions
  /\ fails \in Nat
  /\ crashes \in Nat

Init ==
  /\ status = [s \in Sessions |-> "none"]
  /\ owner = [s \in Sessions |-> NoUser]
  /\ scheduled = [s \in Sessions |-> FALSE]
  /\ timer = [u \in Users |-> FALSE]
  /\ pc = [h \in Handlers |-> "idle"]
  /\ kind \in [Handlers -> {"start"}]
  /\ user \in [Handlers -> Users]
  /\ phase = "down"
  /\ found = {}
  /\ fails = 0
  /\ crashes = 0

-----------------------------------------------------------------------------
(* The database operations.                                                *)

\* Mutant: the filter of stopSession looks for 'waiting' sessions only.
StopOneWaiting(u) ==
  LET hit == {s \in Active(u) : status[s] = "waiting"} IN
  \/ hit = {} /\ UNCHANGED status
  \/ \E s \in hit : status' = [status EXCEPT ![s] = "stopped"]

\* Mutant: stopSession forgets the user in its filter.
StopOneOfAnyone(u) ==
  LET hit == UNION {Active(v) : v \in Users} IN
  \/ hit = {} /\ UNCHANGED status
  \/ \E s \in hit : status' = [status EXCEPT ![s] = "stopped"]

\* Mutant: stopSession writes a status the schema does not know.
StopOneTypo(u) ==
  \/ Active(u) = {} /\ UNCHANGED status
  \/ \E s \in Active(u) : status' = [status EXCEPT ![s] = "finished"]

\* stopSession: updateOne stops ONE active session of the user, whichever the
\* database finds first, and does nothing when there is none.
StopOne(u) ==
  \/ Active(u) = {} /\ UNCHANGED status
  \/ \E s \in Active(u) : status' = [status EXCEPT ![s] = "stopped"]

\* Mutant: markLastAction forgets the user in its filter.
UnscheduleOneOfAnyone(u) ==
  LET hit == UNION {Active(v) : v \in Users} IN
  \/ hit = {} /\ UNCHANGED scheduled
  \/ \E s \in hit : scheduled' = [scheduled EXCEPT ![s] = FALSE]

\* markLastAction(u, 'stop', null): likewise one active session, whichever.
UnscheduleOne(u) ==
  \/ Active(u) = {} /\ UNCHANGED scheduled
  \/ \E s \in Active(u) : scheduled' = [scheduled EXCEPT ![s] = FALSE]

\* new executorSessionModel({... status: 'running', scheduledStopAt}).save()
Save(u) ==
  \E s \in Sessions :
    /\ status[s] = "none"
    /\ status' = [status EXCEPT ![s] = "running"]
    /\ owner' = [owner EXCEPT ![s] = u]
    /\ scheduled' = [scheduled EXCEPT ![s] = TRUE]

-----------------------------------------------------------------------------
(* Calls: how one begins, moves on and ends.                               *)

\* The callers' discipline, a parameter: with every pair in MayOverlap[u] the
\* calls of u are unrestricted, as the code leaves them.
Admitted(k, u) == \A h \in InFlight(u) : {k, kind[h]} \in MayOverlap[u]

Begin(h, k, u, l) ==
  /\ pc[h] = "idle"
  /\ pc' = [pc EXCEPT ![h] = l]
  /\ kind' = [kind EXCEPT ![h] = k]
  /\ user' = [user EXCEPT ![h] = u]

At(h, l) == phase = "up" /\ pc[h] = l

Goto(h, l) == pc' = [pc EXCEPT ![h] = l] /\ UNCHANGED <<kind, user>>

SetTimer(u, b) == timer' = [timer EXCEPT ![u] = b]

\* Bound: a start begins only while a document is left for it to create.
Room == Cardinality({s \in Sessions : status[s] = "none"}) >
          Cardinality({h \in Handlers : pc[h] # "idle" /\ kind[h] = "start"})

\* A start that has no configuration to run (lines 106-110) throws before it
\* touches anything and is left out.
StartRequest(h, u) ==
  /\ phase = "up"
  /\ Room
  /\ Admitted("start", u)
  /\ Begin(h, "start", u, "find")
  /\ UNCHANGED <<dbVars, timer, bootVars, fails, crashes>>

\* stopExecution runs synchronously up to its first await: the timer goes
\* before the database is asked anything.
StopRequest(h, u) ==
  /\ phase = "up"
  /\ Admitted("stop", u)
  /\ Begin(h, "stop", u, "stop")
  /\ SetTimer(u, FALSE)
  /\ UNCHANGED <<dbVars, bootVars, fails, crashes>>

\* The callback of the timeout calls stopExecution, whose first statement
\* drops the entry of the timeout that is firing.
TimerFires(h, u) ==
  /\ phase = "up"
  /\ timer[u]
  /\ Admitted("auto", u)
  /\ Begin(h, "auto", u, "stop")
  /\ SetTimer(u, FALSE)
  /\ UNCHANGED <<dbVars, bootVars, fails, crashes>>

-----------------------------------------------------------------------------
(* startExecution = replaceExistingSession; createSession; scheduleAutoStop *)

ReplaceFind(h) ==
  /\ At(h, "find")
  /\ Goto(h, IF Active(user[h]) = {} THEN "cfind" ELSE "clear")
  /\ UNCHANGED <<dbVars, timer, bootVars, fails, crashes>>

ReplaceClear(h) ==
  /\ At(h, "clear")
  /\ SetTimer(user[h], FALSE)
  /\ Goto(h, "rstop")
  /\ UNCHANGED <<dbVars, bootVars, fails, crashes>>

ReplaceStop(h) ==
  /\ At(h, "rstop")
  /\ StopOne(user[h])
  /\ Goto(h, "cfind")
  /\ UNCHANGED <<owner, scheduled, timer, bootVars, fails, crashes>>

CreateFind(h) ==
  /\ At(h, "cfind")
  /\ Goto(h, IF Active(user[h]) = {} THEN "save" ELSE "cstop")
  /\ UNCHANGED <<dbVars, timer, bootVars, fails, crashes>>

CreateStop(h) ==
  /\ At(h, "cstop")
  /\ StopOne(user[h])
  /\ Goto(h, "save")
  /\ UNCHANGED <<owner, scheduled, timer, bootVars, fails, crashes>>

CreateSave(h) ==
  /\ At(h, "save")
  /\ Save(user[h])
  /\ Goto(h, "arm")
  /\ UNCHANGED <<timer, bootVars, fails, crashes>>

\* scheduleAutoStop, after the await of the save: replaces the user's timer.
ArmTimer(h) ==
  /\ At(h, "arm")
  /\ SetTimer(user[h], TRUE)
  /\ Goto(h, "idle")
  /\ UNCHANGED <<dbVars, bootVars, fails, crashes>>

-----------------------------------------------------------------------------
(* stopExecution after its synchronous start, and the timer's finally.     *)

StopSession(h) ==
  /\ At(h, "stop")
  /\ StopOne(user[h])
  /\ Goto(h, "mark")
  /\ UNCHANGED <<owner, scheduled, timer, bootVars, fails, crashes>>

\* Where a stop goes when it is over, well or badly: the timer's callback
\* still has its finally block to run.
AfterCall(h) == IF kind[h] = "auto" THEN "finally" ELSE "idle"

MarkLast(h) ==
  /\ At(h, "mark")
  /\ UnscheduleOne(user[h])
  /\ Goto(h, AfterCall(h))
  /\ UNCHANGED <<status, owner, timer, bootVars, fails, crashes>>

AutoFinally(h) ==
  /\ At(h, "finally")
  /\ SetTimer(user[h], FALSE)
  /\ Goto(h, "idle")
  /\ UNCHANGED <<dbVars, bootVars, fails, crashes>>

\* A database operation is rejected: the exception leaves the call.
DbFails(h) ==
  /\ phase = "up"
  /\ pc[h] \in DbPcs
  /\ fails < MaxFails
  /\ fails' = fails + 1
  /\ Goto(h, AfterCall(h))
  /\ UNCHANGED <<dbVars, timer, bootVars, crashes>>

-----------------------------------------------------------------------------
(* The process goes down, and comes up again through onModuleInit.         *)

Crash ==
  /\ phase # "down"
  /\ crashes < MaxCrashes
  /\ crashes' = crashes + 1
  /\ phase' = "down"
  /\ found' = {}
  /\ pc' = [h \in Handlers |-> "idle"]
  /\ timer' = [u \in Users |-> FALSE]
  /\ UNCHANGED <<dbVars, kind, user, fails>>

\* Mutant: onModuleInit does not look for sessions at all.
BootBlind ==
  /\ phase = "down"
  /\ phase' = "booting"
  /\ found' = {}
  /\ UNCHANGED <<dbVars, timer, callVars, fails, crashes>>

\* The find of onModuleInit.
Boot ==
  /\ phase = "down"
  /\ phase' = "booting"
  /\ found' = {s \in Sessions : status[s] \in ActiveStatus /\ scheduled[s]}
  /\ UNCHANGED <<dbVars, timer, callVars, fails, crashes>>

\* One turn of the loop, the session overdue: a stop that is not awaited.
RehydrateOverdue(h, s) ==
  /\ phase = "booting" /\ s \in found
  /\ found' = found \ {s}
  /\ Begin(h, "overdue", owner[s], "stop")
  /\ SetTimer(owner[s], FALSE)
  /\ UNCHANGED <<dbVars, phase, fails, crashes>>

\* One turn of the loop, the session still to run for a while.
RehydrateTimer(s) ==
  /\ phase = "booting" /\ s \in found
  /\ found' = found \ {s}
  /\ SetTimer(owner[s], TRUE)
  /\ UNCHANGED <<dbVars, callVars, phase, fails, crashes>>

\* The loop is synchronous: nothing else runs before it is over.
BootDone ==
  /\ phase = "booting" /\ found = {}
  /\ phase' = "up"
  /\ UNCHANGED <<dbVars, timer, callVars, found, fails, crashes>>

-----------------------------------------------------------------------------
HandlerStep(h) ==
  \/ ReplaceFind(h) \/ ReplaceClear(h) \/ ReplaceStop(h)
  \/ CreateFind(h) \/ CreateStop(h) \/ CreateSave(h) \/ ArmTimer(h)
  \/ StopSession(h) \/ MarkLast(h) \/ AutoFinally(h)

BootStep ==
  \/ Boot \/ BootDone
  \/ \E s \in Sessions : RehydrateTimer(s)
  \/ \E s \in Sessions, h \in Handlers : RehydrateOverdue(h, s)

Next ==
  \/ \E h \in Handlers, u \in Users :
       StartRequest(h, u) \/ StopRequest(h, u) \/ TimerFires(h, u)
  \/ \E h \in Handlers : HandlerStep(h) \/ DbFails(h)
  \/ Crash
  \/ BootStep

(***************************************************************************)
(* The event loop runs the continuation of every settled promise, Node     *)
(* fires an expired timeout, and the process is restarted after a crash.   *)
(* The firing is strongly fair because slots are a bound of the model: no  *)
(* timeout waits for other calls to end.  No request is ever promised.     *)
(***************************************************************************)
Fairness ==
  /\ \A h \in Handlers : WF_vars(HandlerStep(h))
  /\ \A u \in Users : SF_vars(\E h \in Handlers : TimerFires(h, u))
  /\ WF_vars(BootStep)

Spec == Init /\ [][Next]_vars
FairSpec == Spec /\ Fairness

-----------------------------------------------------------------------------
(* Properties.                                                             *)

\* A user never has two active sessions, although nothing in the schema
\* forbids it: startExecution looks for an active session twice and stops it
\* before it creates its own.  Needs that two starts of that user do not overlap;
\* stops, timers, failures, crashes and the calls of others may come at any point.
OneActivePerUser == \A u \in Apart : \A s, t \in Active(u) : s = t

\* Nor do they add up where the starts of a user do overlap: both may look before
\* either saves.  But however often that happens, he has no more active sessions than
\* calls may be in flight: before a start saves, it finds none active or stops one.
SessionsBounded == \A u \in Users : Cardinality(Active(u)) <= Cardinality(Handlers)

\* onModuleInit asks for active sessions whose scheduledStopAt is set: it finds
\* every active one, whatever failed and wherever the process went down, if the
\* user's starts overlap nothing.
Recoverable ==
  \A s \in Sessions : status[s] \in ActiveStatus /\ owner[s] \in Alone => scheduled[s]

\* When no call of the user is in flight, the session he has running is watched
\* by a timer: no path of start, stop, replacement or restart loses it, as long
\* as no database operation failed and his starts overlap nothing.
TimerGuards ==
  phase = "up" /\ fails = 0 =>
    \A u \in Alone : Active(u) # {} /\ InFlight(u) = {} => timer[u]

\* stopExecution answers success only for a user who has nothing running: its
\* updateOne stops one session, and that must have been the only one.
StopDelivers ==
  \A h \in Handlers : pc[h] = "mark" /\ user[h] \in Alone => Active(user[h]) = {}

\* The sessions, timers and calls together are a lease for the users whose starts
\* do not overlap: one session per user, granted once, spent when released
\* (module SessionLease).
Held == [u \in Apart |-> Active(u)]
Spent == {s \in Sessions : status[s] = "stopped" /\ owner[s] \in Apart}
Lease == INSTANCE SessionLease WITH Users <- Apart, held <- Held, spent <- Spent

\* Every step of the executor that starts or ends a session of such a user is a
\* Grant or a Release of the lease; what others do never touches it.
LeaseSpec == Lease!Spec

\* A stopped session is history: no late stop or mark of another call brings it
\* back, hands it to another user or rewrites its schedule.
StoppedIsFinal ==
  [][\A s \in Sessions : status[s] = "stopped" =>
       /\ status'[s] = "stopped"
       /\ owner'[s] = owner[s]
       /\ scheduled'[s] = scheduled[s]]_vars

\* "Auto-stop scheduling (max 180 minutes)", README.md: a running session is
\* stopped in the end, without the user doing anything, unless a database
\* operation fails (an auto-stop that fails is not tried again).
AutoStopped ==
  \A s \in Sessions :
    status[s] = "running" ~> (status[s] = "stopped" \/ fails > 0)

\* The same of the sessions of users whose starts overlap nothing, the timer's
\* callback included.
AutoStoppedAlone ==
  \A s \in Sessions :
    status[s] = "running" /\ owner[s] \in Alone ~> (status[s] = "stopped" \/ fails > 0)
=============================================================================
