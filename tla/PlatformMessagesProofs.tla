------------------------ MODULE PlatformMessagesProofs ------------------------
(***************************************************************************)
(* Proofs about PlatformMessages, for any users, accounts, sessions and    *)
(* slots.  The inductive invariant adds to the types what a slot knows of  *)
(* the user it has found: who found the same user for another account      *)
(* makes the user disturbed (Rivals), so that of the others only the       *)
(* account about to be stored can be there already (Stores); and the user  *)
(* a message is due to is the only one its look-up can find (Dues).        *)
(***************************************************************************)
EXTENDS PlatformMessages, TLAPS

Slots ==
  \A h \in Handlers :
    /\ call[h].pc = "idle" => call[h].user = NoUser /\ call[h].due = NoUser
    /\ call[h].pc # "idle" => call[h].session \in Sessions /\ call[h].account \in Accounts
    /\ call[h].pc = "find" => call[h].user = NoUser
    /\ call[h].pc \in {"store", "write"} => call[h].user \in Users

Rivals ==
  \A g, h \in Handlers :
    call[g].user \in Users /\ call[h].user = call[g].user /\ call[h].account # call[g].account =>
      call[g].user \in disturbed

Stores ==
  \A h \in Handlers :
    LET u == call[h].user IN
    call[h].pc = "store" /\ u \notin disturbed /\ platformId[u] # NoAccount =>
      platformId[u] = call[h].account

Dues ==
  \A h \in Handlers :
    LET u == call[h].due IN
    u # NoUser => /\ WithSession(call[h].session) = {u}
                  /\ platformId[u] # NoAccount
                  /\ call[h].pc # "store"
                  /\ call[h].user \in {NoUser, u}

IInv == TypeOK /\ Slots /\ Rivals /\ Stores /\ Dues

\* The steps of Next, one by one.
LEMMA Steps ==
  ASSUME Next
  PROVE  \/ \E h \in Handlers, k \in Kinds, s \in Sessions, a \in Accounts : MessageBegin(h, k, s, a)
         \/ \E h \in Handlers : \/ FindBySession(h) \/ StorePlatformId(h) \/ HandleUserData(h)
                                \/ HandleBalanceUpdate(h) \/ HandleExecution(h) \/ Fails(h)
         \/ \E u \in Users, s \in Sessions : SetExecutorConfig(u, s)
         \/ \E u \in Users : Delete(u)
  BY DEF Next, HandlerStep

LEMMA IdleIsCall == Idle \in Call
  BY DEF Idle, Call, Kinds

LEMMA InitIInv == Init => IInv
<1> SUFFICES ASSUME Init PROVE IInv
  OBVIOUS
<1>1. TypeOK
  BY IdleIsCall, LinkedAssumption, NamesAssumption, FailsAssumption DEF Init, TypeOK
<1>2. Slots /\ Rivals /\ Stores /\ Dues
  BY NamesAssumption DEF Init, Idle, Slots, Rivals, Stores, Dues
<1> QED
  BY <1>1, <1>2 DEF IInv

-----------------------------------------------------------------------------
(* One lemma per action.                                                   *)

LEMMA BeginKeeps ==
  ASSUME IInv, NEW h \in Handlers, NEW k \in Kinds, NEW s \in Sessions, NEW a \in Accounts,
         MessageBegin(h, k, s, a)
  PROVE  IInv'
<1> DEFINE due == IF Due(s) = {} THEN NoUser ELSE CHOOSE u \in Due(s) : TRUE
           c == [pc |-> "find", kind |-> k, session |-> s, account |-> a, user |-> NoUser,
                 due |-> due]
<1>1. /\ call' = [call EXCEPT ![h] = c]
      /\ UNCHANGED <<alive, platformId, sessionId, platformDisplayName, balances, fails, disturbed>>
  BY DEF MessageBegin, Become, docVars
<1>2. due = NoUser \/ due \in Due(s)
  OBVIOUS
<1>3. c \in Call
  BY <1>2 DEF Call, Due
<1> HIDE DEF due
<1>4. TypeOK'
  BY <1>1, <1>3 DEF IInv, TypeOK
<1>5. Slots'
  BY <1>1 DEF IInv, TypeOK, Slots
<1>6. Rivals' /\ Stores'
  BY <1>1, NamesAssumption DEF IInv, TypeOK, Rivals, Stores
<1>7. Dues'
  BY <1>1, <1>2 DEF IInv, TypeOK, Dues, Due, WithSession
<1> QED
  BY <1>4, <1>5, <1>6, <1>7 DEF IInv

LEMMA FindKeeps ==
  ASSUME IInv, NEW h \in Handlers, FindBySession(h)
  PROVE  IInv'
<1>1. CASE call' = [call EXCEPT ![h] = Idle] /\ UNCHANGED <<docVars, fails, disturbed>>
  BY <1>1, IdleIsCall, NamesAssumption
  DEF IInv, TypeOK, Slots, Rivals, Stores, Dues, WithSession, docVars, Idle
<1>2. CASE \E u \in WithSession(call[h].session) :
             Found(h, u, IF platformId[u] = NoAccount THEN "store" ELSE "write")
  <2> PICK u \in WithSession(call[h].session) :
        Found(h, u, IF platformId[u] = NoAccount THEN "store" ELSE "write")
    BY <1>2
  <2> DEFINE l == IF platformId[u] = NoAccount THEN "store" ELSE "write"
  <2>1. /\ call' = [call EXCEPT ![h] = [call[h] EXCEPT !.pc = l, !.user = u]]
        /\ disturbed' = IF Rival(h, u) = {} THEN disturbed ELSE disturbed \cup {u}
        /\ UNCHANGED <<alive, platformId, sessionId, platformDisplayName, balances, fails>>
        /\ u \in Users /\ u \in alive
    BY DEF Found, Become, docVars, WithSession, IInv, TypeOK
  <2>2. call[h].pc = "find"
    BY DEF FindBySession, At
  <2>3. TypeOK'
    <3>1. l \in {"store", "write"} /\ call[h] \in Call
      BY DEF IInv, TypeOK
    <3> HIDE DEF l
    <3>2. [call[h] EXCEPT !.pc = l, !.user = u] \in Call
      BY <2>1, <3>1 DEF Call
    <3>3. disturbed' \in SUBSET Users
      BY <2>1 DEF IInv, TypeOK
    <3> QED
      BY <2>1, <3>2, <3>3 DEF IInv, TypeOK
  <2>4. Slots'
    BY <2>1, <2>2 DEF IInv, TypeOK, Slots, Call
  <2>5. Rivals'
    BY <2>1 DEF IInv, TypeOK, Rivals, Rival, Call
  <2>6. Stores'
    BY <2>1 DEF IInv, TypeOK, Stores, Call
  <2>7. Dues'
    BY <2>1, <2>2 DEF IInv, TypeOK, Dues, WithSession, Call
  <2> QED
    BY <2>3, <2>4, <2>5, <2>6, <2>7 DEF IInv
<1> QED
  BY <1>1, <1>2 DEF FindBySession, Become

LEMMA StoreKeeps ==
  ASSUME IInv, NEW h \in Handlers, StorePlatformId(h)
  PROVE  IInv'
<1> DEFINE c == call[h]
<1>1. /\ c.pc = "store" /\ c.user \in Users /\ c.account \in Accounts /\ c.due = NoUser
      /\ UNCHANGED <<alive, sessionId, platformDisplayName, balances, fails, disturbed>>
  BY DEF StorePlatformId, At, IInv, Slots, Dues
<1>2. CASE call' = [call EXCEPT ![h] = Idle] /\ UNCHANGED platformId
  BY <1>1, <1>2, IdleIsCall, NamesAssumption
  DEF IInv, TypeOK, Slots, Rivals, Stores, Dues, WithSession, Idle
<1>3. CASE /\ ~(c.user \in alive /\ \E v \in alive \ {c.user} : platformId[v] = c.account)
           /\ call' = [call EXCEPT ![h] = [c EXCEPT !.pc = "write"]]
           /\ platformId' = IF c.user \in alive THEN [platformId EXCEPT ![c.user] = c.account]
                                                ELSE platformId
  <2>1. TypeOK'
    BY <1>1, <1>3, NamesAssumption DEF IInv, TypeOK, Call
  <2>2. Slots'
    BY <1>1, <1>3 DEF IInv, TypeOK, Slots, Call
  <2>3. Rivals'
    BY <1>1, <1>3 DEF IInv, TypeOK, Rivals, Call
  <2>4. Stores'
    BY <1>1, <1>3, NamesAssumption DEF IInv, TypeOK, Rivals, Stores, Call
  <2>5. Dues'
    BY <1>1, <1>3, NamesAssumption DEF IInv, TypeOK, Dues, WithSession, Call
  <2> QED
    BY <2>1, <2>2, <2>3, <2>4, <2>5 DEF IInv
<1> QED
  BY <1>2, <1>3 DEF StorePlatformId, Become

\* A handler that has written, or a call that fails, leaves its slot.
LEMMA EndKeeps ==
  ASSUME IInv, NEW h \in Handlers, call' = [call EXCEPT ![h] = Idle],
         UNCHANGED <<alive, platformId, sessionId, disturbed>>,
         platformDisplayName' \in [Users -> Accounts \cup {NoAccount}],
         balances' \in SUBSET Users, fails' \in 0 .. MaxFails
  PROVE  IInv'
  BY IdleIsCall, NamesAssumption DEF IInv, TypeOK, Slots, Rivals, Stores, Dues, WithSession, Idle

\* A message that stays due was read from a configuration that stays.
LEMMA OverdueKeeps ==
  ASSUME IInv, NEW u \in Users, NEW s \in Sessions \cup {NoSession},
         call' = [h \in Handlers |-> Overdue(call[h], u, s)],
         UNCHANGED <<platformId, platformDisplayName, balances, fails, disturbed>>,
         \/ u \in alive /\ s = NoSession /\ alive' = alive \ {u} /\ UNCHANGED sessionId
         \/ s \in Sessions /\ sessionId' = [sessionId EXCEPT ![u] = s] /\ UNCHANGED alive
  PROVE  IInv'
<1>1. ASSUME NEW h \in Handlers
      PROVE  /\ call'[h] \in Call
             /\ call'[h].pc = call[h].pc /\ call'[h].user = call[h].user
             /\ call'[h].account = call[h].account /\ call'[h].session = call[h].session
             /\ call'[h].due = NoUser \/ (call'[h].due = call[h].due /\ call[h].due # u
                                          /\ call[h].session # s)
  BY DEF Overdue, IInv, TypeOK, Call
<1>2. DOMAIN call' = Handlers /\ call' = [h \in Handlers |-> call'[h]]
  OBVIOUS
<1>3. TypeOK'
  BY <1>1, <1>2 DEF IInv, TypeOK
<1>4. Slots'
  BY <1>1 DEF IInv, Slots
<1>5. Rivals' /\ Stores'
  BY <1>1 DEF IInv, Rivals, Stores
<1>6. Dues'
  BY <1>1 DEF IInv, TypeOK, Dues, WithSession
<1> QED
  BY <1>3, <1>4, <1>5, <1>6 DEF IInv

LEMMA NextKeeps == IInv /\ [Next]_vars => IInv'
<1> SUFFICES ASSUME IInv, [Next]_vars PROVE IInv'
  OBVIOUS
<1>1. ASSUME NEW h \in Handlers, NEW k \in Kinds, NEW s \in Sessions, NEW a \in Accounts,
             MessageBegin(h, k, s, a)
      PROVE  IInv'
  BY <1>1, BeginKeeps
<1>2. ASSUME NEW h \in Handlers, FindBySession(h) PROVE IInv'
  BY <1>2, FindKeeps
<1>3. ASSUME NEW h \in Handlers, StorePlatformId(h) PROVE IInv'
  BY <1>3, StoreKeeps
<1>4. ASSUME NEW h \in Handlers, HandleUserData(h) PROVE IInv'
  <2>1. /\ call[h].account \in Accounts
        /\ platformDisplayName \in [Users -> Accounts \cup {NoAccount}]
        /\ balances \in SUBSET Users /\ fails \in 0 .. MaxFails
    BY <1>4 DEF HandleUserData, At, IInv, Slots, TypeOK
  <2> QED
    BY <1>4, <2>1, EndKeeps DEF HandleUserData, Become
<1>5. ASSUME NEW h \in Handlers, HandleBalanceUpdate(h) PROVE IInv'
  <2>1. /\ call[h].user \in Users
        /\ platformDisplayName \in [Users -> Accounts \cup {NoAccount}]
        /\ balances \in SUBSET Users /\ fails \in 0 .. MaxFails
    BY <1>5 DEF HandleBalanceUpdate, At, IInv, Slots, TypeOK
  <2> QED
    BY <1>5, <2>1, EndKeeps DEF HandleBalanceUpdate, Become
<1>6. ASSUME NEW h \in Handlers, HandleExecution(h) \/ Fails(h) PROVE IInv'
  <2>1. /\ platformDisplayName \in [Users -> Accounts \cup {NoAccount}]
        /\ balances \in SUBSET Users /\ fails \in 0 .. MaxFails
    BY DEF IInv, TypeOK
  <2>2. fails' \in 0 .. MaxFails
    BY <1>6, <2>1, FailsAssumption DEF HandleExecution, Fails
  <2> QED
    BY <1>6, <2>1, <2>2, EndKeeps DEF HandleExecution, Fails, Become, docVars
<1>7. ASSUME NEW u \in Users, NEW s \in Sessions, SetExecutorConfig(u, s) PROVE IInv'
  BY <1>7, OverdueKeeps DEF SetExecutorConfig
<1>8. ASSUME NEW u \in Users, Delete(u) PROVE IInv'
  BY <1>8, OverdueKeeps DEF Delete
<1>9. CASE UNCHANGED vars
  BY <1>9 DEF vars, IInv, TypeOK, Slots, Rivals, Stores, Dues, WithSession
<1> QED
  BY <1>1, <1>2, <1>3, <1>4, <1>5, <1>6, <1>7, <1>8, <1>9, Steps

\* The inductive invariant holds.
THEOREM Invariant == Spec => []IInv
  BY InitIInv, NextKeeps, PTL DEF Spec

-----------------------------------------------------------------------------
(* The theorems.                                                           *)

\* The types, and no account with two users, whatever the messages name.
THEOREM MessagesTypeOK == Spec => []TypeOK
<1>1. IInv => TypeOK
  BY DEF IInv
<1> QED
  BY <1>1, Invariant, PTL

LEMMA StepSticks ==
  ASSUME IInv, Next, NEW u \in Users \ disturbed', platformId[u] # NoAccount
  PROVE  platformId'[u] = platformId[u]
<1>1. ASSUME NEW h \in Handlers, StorePlatformId(h) PROVE platformId'[u] = platformId[u]
  BY <1>1 DEF StorePlatformId, At, IInv, TypeOK, Stores, Slots
<1>2. CASE UNCHANGED platformId
  BY <1>2
<1> QED
  BY <1>1, <1>2, Steps
  DEF MessageBegin, FindBySession, Found, HandleUserData, HandleBalanceUpdate, HandleExecution,
      Fails, SetExecutorConfig, Delete, docVars

\* A stored account stays, but for users messages about two accounts of whom overlapped.
THEOREM AccountsStick == Spec => PlatformIdSticks
<1>1. IInv /\ [Next]_vars =>
        [\A u \in Users \ disturbed' :
           platformId[u] # NoAccount => platformId'[u] = platformId[u]]_vars
  BY StepSticks
<1> QED
  BY <1>1, Invariant, PTL DEF Spec, PlatformIdSticks

LEMMA StepHears ==
  ASSUME IInv, Next, NEW h \in Handlers, call[h].due # NoUser, call'[h].pc = "idle", fails' = fails
  PROVE  call[h].pc = "write" /\ call[h].user = call[h].due
<1>1. /\ WithSession(call[h].session) = {call[h].due} /\ call[h].pc # "store"
      /\ call[h].pc # "idle" /\ call[h].user \in {NoUser, call[h].due}
  BY DEF IInv, Dues, Slots
<1>2. call[h].pc = "write" => call[h].user = call[h].due
  BY <1>1, NamesAssumption DEF IInv, Slots
<1>3. SUFFICES call[h].pc = "write"
  BY <1>2
<1>4. SUFFICES ASSUME call[h].pc = "find" PROVE FALSE
  BY <1>1 DEF IInv, TypeOK, Call
<1>5. ASSUME NEW g \in Handlers, \/ FindBySession(g) \/ StorePlatformId(g) \/ HandleUserData(g)
                                 \/ HandleBalanceUpdate(g) \/ HandleExecution(g)
      PROVE  FALSE
  <2>1. g = h
    BY <1>4, <1>5 DEF FindBySession, Found, StorePlatformId, HandleUserData, HandleBalanceUpdate,
                      HandleExecution, Become, IInv, TypeOK
  <2>2. CASE FindBySession(h)
    <3> PICK u \in WithSession(call[h].session) :
          Found(h, u, IF platformId[u] = NoAccount THEN "store" ELSE "write")
      BY <1>1, <2>2 DEF FindBySession
    <3>1. call'[h].pc \in {"store", "write"}
      BY DEF Found, Become, IInv, TypeOK, Call
    <3> QED
      BY <3>1
  <2> QED
    BY <2>1, <2>2, <1>4, <1>5 DEF StorePlatformId, HandleUserData, HandleBalanceUpdate,
                                  HandleExecution, At
<1>6. ASSUME NEW g \in Handlers, Fails(g) PROVE FALSE
  BY <1>6 DEF Fails, IInv, TypeOK
<1>7. ASSUME NEW g \in Handlers, NEW k \in Kinds, NEW s \in Sessions, NEW a \in Accounts,
             MessageBegin(g, k, s, a)
      PROVE  FALSE
  BY <1>4, <1>7 DEF MessageBegin, At, Become, IInv, TypeOK
<1>8. ASSUME NEW u \in Users, Delete(u) \/ \E s \in Sessions : SetExecutorConfig(u, s)
      PROVE  FALSE
  BY <1>4, <1>8 DEF Delete, SetExecutorConfig, Overdue, IInv, TypeOK, Call
<1> QED
  BY <1>5, <1>6, <1>7, <1>8, Steps

\* No message that a user was due is lost unless an operation failed.
THEOREM DueMessagesAreHeard == Spec => DueIsHeard
<1>1. IInv /\ [Next]_vars =>
        [\A h \in Handlers :
           call[h].due # NoUser /\ call'[h].pc = "idle" /\ fails' = fails =>
             call[h].pc = "write" /\ call[h].user = call[h].due]_vars
  BY StepHears
<1> QED
  BY <1>1, Invariant, PTL DEF Spec, DueIsHeard
=============================================================================
