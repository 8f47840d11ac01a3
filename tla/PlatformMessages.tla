--------------------------- MODULE PlatformMessages ---------------------------
(***************************************************************************)
(* Whose a message of the executor is: MetricsService                      *)
(* (src/metrics/metrics.service.ts).  A message names a session and an     *)
(* account of the platform.  It belongs to the user whose executor         *)
(* configuration names the session; with the first one that account        *)
(* becomes the user's platformId, which no two users share.  What a        *)
(* message then writes is its handler's business: the two handlers that    *)
(* write one document are here, those of executions in Executions.         *)
(*                                                                         *)
(* One action per database operation.  A user whom the look-up does not    *)
(* find, or an operation that fails, ends the call, and the executor is    *)
(* told success all the same: such a message is lost.                      *)
(*                                                                         *)
(* findUserBySessionOrCsgoId looks first for a user whose platformUserId   *)
(* is the account.  User has no such path and nothing that is saved keeps  *)
(* one, so that this first query finds nobody; it is not a step.  For the  *)
(* same reason a user's data leaves only its display name, and a balance   *)
(* does not say of which account it is.                                    *)
(***************************************************************************)
EXTENDS Naturals, FiniteSets

CONSTANTS
  Users, Accounts, Sessions,  \* users here, accounts there, ids of sessions
  Linked,        \* a function: some users, and the account each brings along
  Handlers,      \* slots for calls in flight (bound on concurrency)
  NoUser, NoAccount, NoSession,
  MaxFails       \* bound on the operations that fail

ASSUME NamesAssumption ==
  NoUser \notin Users /\ NoAccount \notin Accounts /\ NoSession \notin Sessions
ASSUME LinkedAssumption ==
  /\ DOMAIN Linked \subseteq Users
  /\ \A u \in DOMAIN Linked : Linked[u] \in Accounts
  /\ \A u, v \in DOMAIN Linked : Linked[u] = Linked[v] => u = v
ASSUME FailsAssumption == MaxFails \in Nat

VARIABLES
  alive,      \* users whose document exists
  platformId, \* per user: the account stored with it
  sessionId,  \* per user: the session its executor configuration names
  platformDisplayName, \* per user: the account whose name was stored last
  balances,   \* users of whom a balance was recorded
  call,       \* per slot: the message on its way and what was read for it
  fails,
  disturbed   \* history: users two of whose messages, about two accounts, overlapped

docVars == <<alive, platformId, sessionId, platformDisplayName, balances>>
vars == <<alive, platformId, sessionId, platformDisplayName, balances, call, fails, disturbed>>

Kinds == {"userData", "balance", "execution"}

\* A user is due a message when, all the while, no other user had its session, and
\* the user had an account from the start.
Call == [pc : {"idle", "find", "store", "write"}, kind : Kinds,
         session : Sessions \cup {NoSession}, account : Accounts \cup {NoAccount},
         user : Users \cup {NoUser}, due : Users \cup {NoUser}]

Idle == [pc |-> "idle", kind |-> "execution", session |-> NoSession, account |-> NoAccount,
         user |-> NoUser, due |-> NoUser]

\* No two users ever have one account.
TypeOK ==
  /\ alive \in SUBSET Users
  /\ platformId \in [Users -> Accounts \cup {NoAccount}]
  /\ sessionId \in [Users -> Sessions \cup {NoSession}]
  /\ platformDisplayName \in [Users -> Accounts \cup {NoAccount}]
  /\ balances \in SUBSET Users
  /\ call \in [Handlers -> Call]
  /\ fails \in 0 .. MaxFails
  /\ disturbed \in SUBSET Users
  /\ \A u, v \in alive : u # v /\ platformId[u] = platformId[v] => platformId[u] = NoAccount

Init ==
  /\ alive = Users
  /\ platformId = [u \in Users |-> IF u \in DOMAIN Linked THEN Linked[u] ELSE NoAccount]
  /\ sessionId = [u \in Users |-> NoSession]
  /\ platformDisplayName = [u \in Users |-> NoAccount]
  /\ balances = {}
  /\ call = [h \in Handlers |-> Idle]
  /\ fails = 0
  /\ disturbed = {}

At(h, l) == call[h].pc = l
Become(h, c) == call' = [call EXCEPT ![h] = c]

-----------------------------------------------------------------------------
(* The look-up.                                                            *)

WithSession(s) == {u \in alive : sessionId[u] = s}

Due(s) == {u \in Users : WithSession(s) = {u} /\ platformId[u] # NoAccount}

MessageBegin(h, k, s, a) ==
  /\ At(h, "idle")
  /\ Become(h, [pc |-> "find", kind |-> k, session |-> s, account |-> a, user |-> NoUser,
                due |-> IF Due(s) = {} THEN NoUser ELSE CHOOSE u \in Due(s) : TRUE])
  /\ UNCHANGED <<docVars, fails, disturbed>>

Rival(h, u) == {g \in Handlers \ {h} : call[g].user = u /\ call[g].account # call[h].account}

Found(h, u, l) ==
  /\ Become(h, [call[h] EXCEPT !.pc = l, !.user = u])
  /\ disturbed' = IF Rival(h, u) = {} THEN disturbed ELSE disturbed \cup {u}
  /\ UNCHANGED <<docVars, fails>>

\* Mutant: the account is stored whether or not there is one.
FindBySessionStores(h) ==
  LET found == WithSession(call[h].session) IN
  /\ At(h, "find")
  /\ \/ found = {} /\ Become(h, Idle) /\ UNCHANGED <<docVars, fails, disturbed>>
     \/ \E u \in found : Found(h, u, "store")

\* Mutant: only a user without an account is looked for, as if the first query had
\* found the others.
FindBySessionUnlinked(h) ==
  LET found == {u \in WithSession(call[h].session) : platformId[u] = NoAccount} IN
  /\ At(h, "find")
  /\ \/ found = {} /\ Become(h, Idle) /\ UNCHANGED <<docVars, fails, disturbed>>
     \/ \E u \in found : Found(h, u, "store")

\* Sessions are not unique: any user that has this one may come first.
FindBySession(h) ==
  LET found == WithSession(call[h].session) IN
  /\ At(h, "find")
  /\ \/ found = {} /\ Become(h, Idle) /\ UNCHANGED <<docVars, fails, disturbed>>
     \/ \E u \in found : Found(h, u, IF platformId[u] = NoAccount THEN "store" ELSE "write")

\* Mutant: the index is not unique.
StorePlatformIdTwice(h) ==
  LET c == call[h] IN
  /\ At(h, "store")
  /\ Become(h, [c EXCEPT !.pc = "write"])
  /\ platformId' = IF c.user \in alive THEN [platformId EXCEPT ![c.user] = c.account] ELSE platformId
  /\ UNCHANGED <<alive, sessionId, platformDisplayName, balances, fails, disturbed>>

\* The document may be gone by now, which is no error; the unique index refuses the
\* account of another user.
StorePlatformId(h) ==
  LET c == call[h] IN
  /\ At(h, "store")
  /\ IF c.user \in alive /\ \E v \in alive \ {c.user} : platformId[v] = c.account
     THEN Become(h, Idle) /\ UNCHANGED platformId
     ELSE /\ Become(h, [c EXCEPT !.pc = "write"])
          /\ platformId' = IF c.user \in alive THEN [platformId EXCEPT ![c.user] = c.account]
                                               ELSE platformId
  /\ UNCHANGED <<alive, sessionId, platformDisplayName, balances, fails, disturbed>>

-----------------------------------------------------------------------------
(* What the handlers write.                                                *)

HandleUserData(h) ==
  LET c == call[h] IN
  /\ At(h, "write") /\ c.kind = "userData"
  /\ platformDisplayName' = IF c.user \in alive
                            THEN [platformDisplayName EXCEPT ![c.user] = c.account]
                            ELSE platformDisplayName
  /\ Become(h, Idle)
  /\ UNCHANGED <<alive, platformId, sessionId, balances, fails, disturbed>>

\* A balance is created for a user that is gone as well.
HandleBalanceUpdate(h) ==
  /\ At(h, "write") /\ call[h].kind = "balance"
  /\ balances' = balances \cup {call[h].user}
  /\ Become(h, Idle)
  /\ UNCHANGED <<alive, platformId, sessionId, platformDisplayName, fails, disturbed>>

\* The message goes on as Executions says.
HandleExecution(h) ==
  /\ At(h, "write") /\ call[h].kind = "execution"
  /\ Become(h, Idle)
  /\ UNCHANGED <<docVars, fails, disturbed>>

Fails(h) ==
  /\ ~At(h, "idle")
  /\ fails < MaxFails /\ fails' = fails + 1
  /\ Become(h, Idle)
  /\ UNCHANGED <<docVars, disturbed>>

-----------------------------------------------------------------------------
(* The users.                                                              *)

\* The configurations no longer say what the call's due was read from.
Overdue(c, u, s) ==
  IF c.session = s \/ c.due = u THEN [c EXCEPT !.due = NoUser] ELSE c

\* setExecutorConfig; nobody asks whether the session is another user's.
SetExecutorConfig(u, s) ==
  /\ u \in alive /\ sessionId[u] # s
  /\ sessionId' = [sessionId EXCEPT ![u] = s]
  /\ call' = [h \in Handlers |-> Overdue(call[h], u, s)]
  /\ UNCHANGED <<alive, platformId, platformDisplayName, balances, fails, disturbed>>

\* A merge (Accounts) deletes the account that goes; it copies neither its
\* platformId nor its configuration.
Delete(u) ==
  /\ u \in alive
  /\ alive' = alive \ {u}
  /\ call' = [h \in Handlers |-> Overdue(call[h], u, NoSession)]
  /\ UNCHANGED <<platformId, sessionId, platformDisplayName, balances, fails, disturbed>>

HandlerStep(h) ==
  \/ FindBySession(h) \/ StorePlatformId(h)
  \/ HandleUserData(h) \/ HandleBalanceUpdate(h) \/ HandleExecution(h)

Next ==
  \/ \E h \in Handlers : \/ HandlerStep(h) \/ Fails(h)
                         \/ \E k \in Kinds, s \in Sessions, a \in Accounts : MessageBegin(h, k, s, a)
  \/ \E u \in Users : Delete(u) \/ \E s \in Sessions : SetExecutorConfig(u, s)

Spec == Init /\ [][Next]_vars

-----------------------------------------------------------------------------
(* Properties.                                                             *)

\* The account once stored with a user stays ("Store platformId for future fast
\* lookups", metrics.service.ts:89), whatever other accounts its messages name later
\* and whoever takes over the session; messages about two accounts that arrive
\* together, both read before either is stored, are the exception.
PlatformIdSticks ==
  [][\A u \in Users \ disturbed' :
       platformId[u] # NoAccount => platformId'[u] = platformId[u]]_vars

\* "Don't throw - always return success to system" (metrics.service.ts:137): no
\* message is lost that a user was due unless an operation failed.  An account that
\* another user has, and that the index refuses, costs only users who never had one
\* their messages, and an overlap never costs a user the messages of another.
DueIsHeard ==
  [][\A h \in Handlers :
       call[h].due # NoUser /\ call'[h].pc = "idle" /\ fails' = fails =>
         call[h].pc = "write" /\ call[h].user = call[h].due]_vars
=============================================================================
