---------------------------- MODULE AccountsProofs ----------------------------
(***************************************************************************)
(* Proofs about Accounts, for any users, addresses, subscriptions, tokens  *)
(* and slots.  First the types and, action by action, where a call goes    *)
(* and whom it concerns (Moves).  Then, on top of what always holds of     *)
(* accounts and merges (Base), one invariant per promise: Merges, Sold,    *)
(* Addressed, Resets and Sessions.                                         *)
(***************************************************************************)
EXTENDS Accounts, TLAPS

\* Where a call is that has nobody yet, one user, or two.
Registering == {"registerName", "registerMail", "registerCreate"}
Single == {"storeSession", "verifySave", "renewSave", "mail", "resetTokenSave", "resetSave",
           "mergePlatform"}
Merging == {"deleteOther", "mergeSave", "list", "transfer"}
Deleting == {"mergeSave", "list", "transfer"}

\* Where it has drawn a token, and where it holds one it was given.
Drawn == {"registerMail", "registerCreate", "renewSave", "resetTokenSave", "mail"}
Holding == {"verifySave", "resetSave"}

Shape(c) ==
  /\ c.pc \in {"idle"} \cup Registering => c.user = NoUser /\ c.other = NoUser
  /\ c.pc \in Single => c.user \in Users /\ c.other = NoUser
  /\ c.pc = "mergeEmail" => c.user = NoUser /\ c.other \in Users
  /\ c.pc \in Merging => c.user \in Users /\ c.other \in Users
  /\ c.pc \in Registering \cup Drawn => c.address \in Emails
  /\ c.pc \in Drawn \cup Holding => c.token # NoToken

RestOK ==
  /\ owner \in [Subs -> Users \cup {NoUser}]
  /\ mailed \in SUBSET (Nat \X Emails)
  /\ issued \in Nat
  /\ fails \in Nat
  /\ opened \in SUBSET Nat
  /\ spent \in SUBSET Nat
  /\ twice \in SUBSET Users
  /\ loggedOut \in SUBSET Users
  /\ successor \in [Users -> Users \cup {NoUser}]
  /\ granted \in [Subs -> Users \cup {NoUser}]

UsersOK == users \in [Users -> Doc \cup {NoDoc}]

TypeInv ==
  /\ UsersOK /\ RestOK
  /\ call \in [Handlers -> Call] /\ disturbed \in SUBSET Users
  /\ \A h \in Handlers : Shape(call[h])

\* What a step of slot h does not touch, and whom it disturbs.
Frame(h) ==
  /\ \A g \in Handlers \ {h} : call'[g] = call[g]
  /\ disturbed \subseteq disturbed'
  /\ \A g \in Handlers \ {h} : Concern(call'[h]) \cap Concern(call[g]) \subseteq disturbed'

\* Slot h goes from l to m, from where it concerns u and s.
Moves(h, l, m, u, s) ==
  /\ call[h].pc = l
  /\ call'[h].pc = m /\ call'[h].user = u /\ call'[h].other = s
  /\ Frame(h)

-----------------------------------------------------------------------------
(* Types.                                                                  *)

LEMMA IdleIs ==
  /\ Idle \in Call /\ Shape(Idle)
  /\ Idle.pc = "idle" /\ Idle.user = NoUser /\ Idle.other = NoUser
<1>1. Idle \in Call /\ Idle.pc = "idle" /\ Idle.user = NoUser /\ Idle.other = NoUser
  BY DEF Idle, Call, NoToken
<1> QED
  BY <1>1 DEF Shape, Registering, Single, Merging, Drawn, Holding

LEMMA Stepped ==
  ASSUME TypeInv, NEW h \in Handlers, NEW c \in Call, Shape(c), Set(h, c), UsersOK', RestOK'
  PROVE  TypeInv' /\ Frame(h) /\ call'[h] = c
<1>1. call' = [call EXCEPT ![h] = c] /\ disturbed' = disturbed \cup (Concern(c) \cap Busy(h))
  BY DEF Set
<1>2. call' \in [Handlers -> Call] /\ call'[h] = c /\ \A g \in Handlers \ {h} : call'[g] = call[g]
  BY <1>1 DEF TypeInv
<1>3. disturbed' \in SUBSET Users
  BY <1>1 DEF TypeInv, Concern
<1>4. \A g \in Handlers \ {h} : Concern(c) \cap Concern(call[g]) \subseteq disturbed'
  BY <1>1 DEF Busy
<1>5. \A g \in Handlers : Shape(call'[g])
  BY <1>2 DEF TypeInv
<1>6. disturbed \subseteq disturbed'
  BY <1>1
<1>7. TypeInv'
  BY <1>2, <1>3, <1>5 DEF TypeInv, Shape
<1> QED
  BY <1>2, <1>4, <1>6, <1>7 DEF Frame

LEMMA Here ==
  ASSUME TypeInv, NEW h \in Handlers
  PROVE  /\ call[h] \in Call /\ Shape(call[h])
         /\ call[h].user \in Users \cup {NoUser} /\ call[h].other \in Users \cup {NoUser}
         /\ call[h].address \in Emails \cup {NoEmail} /\ call[h].token \in Nat
         /\ call[h].left \in SUBSET Subs
<1>1. call[h] \in Call /\ Shape(call[h])
  BY DEF TypeInv
<1> QED
  BY <1>1 DEF Call

LEMMA DocIs ==
  ASSUME TypeInv, NEW u \in Users
  PROVE  /\ u \in Alive => users[u] \in Doc
         /\ u \notin Alive => users[u] = NoDoc
  BY DEF TypeInv, UsersOK, Alive


\* What a step leaves of the accounts, for each of the invariants below.  An account
\* stays or is away, keeps what the merges ask for, and, unless the step concerns it,
\* its address.
Standing(h) ==
  /\ Alive' = Alive
  /\ UNCHANGED successor
  /\ \A u \in Alive : /\ users'[u].platform = users[u].platform
                      /\ users[u].email # NoEmail => users'[u].email # NoEmail
                      /\ users[u].data => users'[u].data
                      /\ u \notin Concern(call'[h]) => users'[u].email = users[u].email

MailStands == \A u \in Alive' : /\ u \in Alive
                                /\ users'[u].email = users[u].email
                                /\ users'[u].vtoken = users[u].vtoken
                                /\ users'[u].verified = users[u].verified

ResetStands == \A u \in Alive' : u \in Alive /\ users'[u].rtoken = users[u].rtoken

SessionStands == \A u \in Alive' : u \in Alive /\ users'[u].session = users[u].session

Stands(h) == Standing(h) /\ MailStands /\ ResetStands /\ SessionStands

LEMMA SameStands ==
  ASSUME UNCHANGED <<users, successor>>, NEW h \in Handlers
  PROVE  Stands(h)
  BY DEF Stands, Standing, MailStands, ResetStands, SessionStands, Alive

-----------------------------------------------------------------------------
(* Calls that begin.                                                       *)

LEMMA RegisterEmailStep ==
  ASSUME TypeInv, NEW h \in Handlers, NEW a \in Emails, RegisterEmail(h, a)
  PROVE  /\ TypeInv' /\ Moves(h, "idle", "registerName", NoUser, NoUser) /\ Stands(h)
         /\ call'[h].address = a
<1> DEFINE c == [Idle EXCEPT !.pc = "registerName", !.address = a]
<1>1. Set(h, c) /\ call[h].pc = "idle" /\ UNCHANGED <<users, successor>>
  BY DEF RegisterEmail, Idle, history
<1>2. c \in Call
  BY <1>1, NamesAssumption DEF Idle, Call, NoToken
<1>3. c.pc = "registerName" /\ c.user = NoUser /\ c.other = NoUser /\ c.address = a
  BY <1>1 DEF Idle
<1>4. UsersOK' /\ RestOK'
  BY DEF RegisterEmail, Send, TypeInv, UsersOK, RestOK, history
<1> HIDE DEF c
<1>5. Shape(c)
  BY <1>1, <1>3, NamesAssumption DEF Shape, Registering, Single, Merging, Drawn, Holding
<1> QED
  BY <1>1, <1>2, <1>3, <1>4, <1>5, Stepped, SameStands DEF Moves

LEMMA LoginStep ==
  ASSUME TypeInv, NEW h \in Handlers, NEW u \in Users, NEW a \in Emails, Login(h, u, a)
  PROVE  /\ TypeInv' /\ Moves(h, "idle", "storeSession", u, NoUser) /\ Stands(h)
<1> DEFINE c == [Idle EXCEPT !.pc = "storeSession", !.user = u]
<1>1. Set(h, c) /\ call[h].pc = "idle" /\ UNCHANGED <<users, successor>>
  BY DEF Login, Idle, history
<1>2. c \in Call
  BY <1>1, NamesAssumption DEF Idle, Call, NoToken
<1>3. c.pc = "storeSession" /\ c.user = u /\ c.other = NoUser
  BY <1>1 DEF Idle
<1>4. UsersOK' /\ RestOK'
  BY DEF Login, Send, TypeInv, UsersOK, RestOK, history
<1> HIDE DEF c
<1>5. Shape(c)
  BY <1>1, <1>3, NamesAssumption DEF Shape, Registering, Single, Merging, Drawn, Holding
<1> QED
  BY <1>1, <1>2, <1>3, <1>4, <1>5, Stepped, SameStands DEF Moves

LEMMA RefreshStep ==
  ASSUME TypeInv, NEW h \in Handlers, NEW u \in Users, Refresh(h, u)
  PROVE  /\ TypeInv' /\ Moves(h, "idle", "storeSession", u, NoUser) /\ Stands(h)
<1> DEFINE c == [Idle EXCEPT !.pc = "storeSession", !.user = u]
<1>1. Set(h, c) /\ call[h].pc = "idle" /\ UNCHANGED <<users, successor>>
  BY DEF Refresh, Idle, history
<1>2. c \in Call
  BY <1>1, NamesAssumption DEF Idle, Call, NoToken
<1>3. c.pc = "storeSession" /\ c.user = u /\ c.other = NoUser
  BY <1>1 DEF Idle
<1>4. UsersOK' /\ RestOK'
  BY DEF Refresh, Send, TypeInv, UsersOK, RestOK, history
<1> HIDE DEF c
<1>5. Shape(c)
  BY <1>1, <1>3, NamesAssumption DEF Shape, Registering, Single, Merging, Drawn, Holding
<1> QED
  BY <1>1, <1>2, <1>3, <1>4, <1>5, Stepped, SameStands DEF Moves

LEMMA VerifyFindStep ==
  ASSUME TypeInv, NEW h \in Handlers, NEW u \in Users, NEW t \in 1 .. MaxTokens, VerifyFind(h, u, t)
  PROVE  /\ TypeInv' /\ Moves(h, "idle", "verifySave", u, NoUser) /\ Stands(h)
         /\ call'[h].token = t
<1> DEFINE c == [Idle EXCEPT !.pc = "verifySave", !.user = u, !.token = t,
                         !.seen = users[u].verified]
<1>0. t \in Nat /\ t # NoToken /\ users[u].verified \in BOOLEAN
  BY BoundsAssumption, DocIs DEF VerifyFind, Doc, NoToken
<1>1. Set(h, c) /\ call[h].pc = "idle" /\ UNCHANGED <<users, successor>>
  BY DEF VerifyFind, Idle, history
<1>2. c \in Call
  BY <1>1, <1>0, NamesAssumption DEF Idle, Call, NoToken
<1>3. c.pc = "verifySave" /\ c.user = u /\ c.other = NoUser /\ c.token = t
  BY <1>1 DEF Idle
<1>4. UsersOK' /\ RestOK'
  BY <1>0 DEF VerifyFind, Send, TypeInv, UsersOK, RestOK, history
<1> HIDE DEF c
<1>5. Shape(c)
  BY <1>1, <1>3, <1>0, NamesAssumption DEF Shape, Registering, Single, Merging, Drawn,
     Holding
<1> QED
  BY <1>1, <1>2, <1>3, <1>4, <1>5, Stepped, SameStands DEF Moves

LEMMA RenewFindStep ==
  ASSUME TypeInv, NEW h \in Handlers, NEW u \in Users, NEW a \in Emails, RenewFind(h, u, a)
  PROVE  /\ TypeInv' /\ Moves(h, "idle", "renewSave", u, NoUser) /\ Stands(h)
         /\ call'[h].address = a
         /\ call'[h].token = issued'
<1> DEFINE c == [Idle EXCEPT !.pc = "renewSave", !.user = u, !.address = a, !.token = issued']
<1>0. issued' \in Nat /\ issued' # NoToken
  BY DEF RenewFind, Fresh, TypeInv, RestOK, NoToken
<1>1. Set(h, c) /\ call[h].pc = "idle" /\ UNCHANGED <<users, successor>>
  BY DEF RenewFind, Idle, history
<1>2. c \in Call
  BY <1>1, <1>0, NamesAssumption DEF Idle, Call, NoToken
<1>3. /\ c.pc = "renewSave" /\ c.user = u /\ c.other = NoUser
      /\ c.address = a /\ c.token = issued'
  BY <1>1 DEF Idle
<1>4. UsersOK' /\ RestOK'
  BY <1>0 DEF RenewFind, Send, TypeInv, UsersOK, RestOK, history
<1> HIDE DEF c
<1>5. Shape(c)
  BY <1>1, <1>3, <1>0, NamesAssumption DEF Shape, Registering, Single, Merging, Drawn,
     Holding
<1> QED
  BY <1>1, <1>2, <1>3, <1>4, <1>5, Stepped, SameStands DEF Moves

LEMMA ResetRequestStep ==
  ASSUME TypeInv, NEW h \in Handlers, NEW u \in Users, NEW a \in Emails, ResetRequest(h, u, a)
  PROVE  /\ TypeInv' /\ Moves(h, "idle", "resetTokenSave", u, NoUser) /\ Stands(h)
         /\ call'[h].address = users[u].email
         /\ call'[h].token = issued'
<1> DEFINE e == users[u].email
           c == [Idle EXCEPT !.pc = "resetTokenSave", !.user = u, !.address = e, !.token = issued']
<1>0. issued' \in Nat /\ issued' # NoToken /\ e \in Emails
  BY MatchesAssumption DEF ResetRequest, WithEmail, Fresh, TypeInv, RestOK, NoToken
<1>1. Set(h, c) /\ call[h].pc = "idle" /\ UNCHANGED <<users, successor>>
  BY DEF ResetRequest, Idle, history
<1>2. c \in Call
  BY <1>1, <1>0, NamesAssumption DEF Idle, Call, NoToken
<1>3. /\ c.pc = "resetTokenSave" /\ c.user = u /\ c.other = NoUser
      /\ c.address = e /\ c.token = issued'
  BY <1>1 DEF Idle
<1>4. UsersOK' /\ RestOK'
  BY <1>0 DEF ResetRequest, Send, TypeInv, UsersOK, RestOK, history
<1> HIDE DEF c, e
<1>5. Shape(c)
  BY <1>1, <1>3, <1>0, NamesAssumption DEF Shape, Registering, Single, Merging, Drawn,
     Holding
<1>6. call'[h].address = e /\ call'[h].token = issued'
  BY <1>1, <1>2, <1>3, <1>4, <1>5, Stepped
<1> QED
  BY <1>1, <1>2, <1>3, <1>4, <1>5, <1>6, Stepped, SameStands DEF Moves, e

LEMMA ResetFindStep ==
  ASSUME TypeInv, NEW h \in Handlers, NEW u \in Users, NEW t \in 1 .. MaxTokens, ResetFind(h, u, t)
  PROVE  /\ TypeInv' /\ Moves(h, "idle", "resetSave", u, NoUser) /\ Stands(h)
         /\ call'[h].token = t
<1> DEFINE c == [Idle EXCEPT !.pc = "resetSave", !.user = u, !.token = t]
<1>0. t \in Nat /\ t # NoToken
  BY BoundsAssumption DEF NoToken
<1>1. Set(h, c) /\ call[h].pc = "idle" /\ UNCHANGED <<users, successor>>
  BY DEF ResetFind, Idle, history
<1>2. c \in Call
  BY <1>1, <1>0, NamesAssumption DEF Idle, Call, NoToken
<1>3. c.pc = "resetSave" /\ c.user = u /\ c.other = NoUser /\ c.token = t
  BY <1>1 DEF Idle
<1>4. UsersOK' /\ RestOK'
  BY <1>0 DEF ResetFind, Send, TypeInv, UsersOK, RestOK, history
<1> HIDE DEF c
<1>5. Shape(c)
  BY <1>1, <1>3, <1>0, NamesAssumption DEF Shape, Registering, Single, Merging, Drawn,
     Holding
<1> QED
  BY <1>1, <1>2, <1>3, <1>4, <1>5, Stepped, SameStands DEF Moves

LEMMA MergeBeginStep ==
  ASSUME TypeInv, NEW h \in Handlers, NEW u \in Users, MergeBegin(h, u)
  PROVE  /\ TypeInv' /\ Moves(h, "idle", "mergeEmail", NoUser, u) /\ Stands(h)
<1> DEFINE c == [Idle EXCEPT !.pc = "mergeEmail", !.other = u]
<1>1. Set(h, c) /\ call[h].pc = "idle" /\ UNCHANGED <<users, successor>>
  BY DEF MergeBegin, Idle, history
<1>2. c \in Call
  BY <1>1, NamesAssumption DEF Idle, Call, NoToken
<1>3. c.pc = "mergeEmail" /\ c.user = NoUser /\ c.other = u
  BY <1>1 DEF Idle
<1>4. UsersOK' /\ RestOK'
  BY DEF MergeBegin, Send, TypeInv, UsersOK, RestOK, history
<1> HIDE DEF c
<1>5. Shape(c)
  BY <1>1, <1>3, NamesAssumption DEF Shape, Registering, Single, Merging, Drawn, Holding
<1> QED
  BY <1>1, <1>2, <1>3, <1>4, <1>5, Stepped, SameStands DEF Moves

LEMMA MergePlatformBeginStep ==
  ASSUME TypeInv, NEW h \in Handlers, NEW u \in Users, MergePlatformBegin(h, u)
  PROVE  /\ TypeInv' /\ Moves(h, "idle", "mergePlatform", u, NoUser) /\ Stands(h)
<1> DEFINE c == [Idle EXCEPT !.pc = "mergePlatform", !.user = u]
<1>1. Set(h, c) /\ call[h].pc = "idle" /\ UNCHANGED <<users, successor>>
  BY DEF MergePlatformBegin, Idle, history
<1>2. c \in Call
  BY <1>1, NamesAssumption DEF Idle, Call, NoToken
<1>3. c.pc = "mergePlatform" /\ c.user = u /\ c.other = NoUser
  BY <1>1 DEF Idle
<1>4. UsersOK' /\ RestOK'
  BY DEF MergePlatformBegin, Send, TypeInv, UsersOK, RestOK, history
<1> HIDE DEF c
<1>5. Shape(c)
  BY <1>1, <1>3, NamesAssumption DEF Shape, Registering, Single, Merging, Drawn, Holding
<1> QED
  BY <1>1, <1>2, <1>3, <1>4, <1>5, Stepped, SameStands DEF Moves

-----------------------------------------------------------------------------
(* Calls that go on and write no document.                                 *)

LEMMA RegisterMailStep ==
  ASSUME TypeInv, NEW h \in Handlers, RegisterMail(h)
  PROVE  /\ TypeInv' /\ Moves(h, "registerMail", "registerCreate", NoUser, NoUser) /\ Stands(h)
         /\ call'[h].address = call[h].address
         /\ call'[h].token = call[h].token
<1> DEFINE c == [call[h] EXCEPT !.pc = "registerCreate"]
<1>0. call[h].token \in Nat /\ call[h].token # NoToken /\ call[h].address \in Emails
  BY Here DEF RegisterMail, Shape, Registering, Single, Merging, Drawn, Holding
<1>1. Set(h, c) /\ call[h].pc = "registerMail" /\ UNCHANGED <<users, successor>>
  BY DEF RegisterMail, Idle, history
<1>2. c \in Call
  BY Here, <1>1, <1>0, NamesAssumption DEF Idle, Call, NoToken
<1>3. /\ c.pc = "registerCreate" /\ c.user = NoUser /\ c.other = NoUser
      /\ c.address = call[h].address /\ c.token = call[h].token
  BY Here, <1>1 DEF Call, Shape, Registering, Single, Merging, Drawn, Holding
<1>4. UsersOK' /\ RestOK'
  BY Here, <1>0 DEF RegisterMail, Send, TypeInv, UsersOK, RestOK, history
<1> HIDE DEF c
<1>5. Shape(c)
  BY Here, <1>1, <1>3, <1>0, NamesAssumption DEF Shape, Registering, Single, Merging,
     Drawn, Holding
<1> QED
  BY <1>1, <1>2, <1>3, <1>4, <1>5, Stepped, SameStands DEF Moves

LEMMA MailStep ==
  ASSUME TypeInv, NEW h \in Handlers, Mail(h)
  PROVE  TypeInv' /\ Moves(h, "mail", "idle", NoUser, NoUser) /\ Stands(h)
<1>1. Set(h, Idle) /\ call[h].pc = "mail" /\ UNCHANGED <<users, successor>>
  BY DEF Mail, history
<1>2. call[h].token \in Nat /\ call[h].address \in Emails
  BY Here, <1>1 DEF Shape, Registering, Single, Merging, Drawn, Holding
<1>3. UsersOK' /\ RestOK'
  BY <1>2 DEF Mail, Send, TypeInv, UsersOK, RestOK, history
<1> QED
  BY <1>1, <1>3, IdleIs, Stepped, SameStands DEF Moves

LEMMA MergeEmailStep ==
  ASSUME TypeInv, NEW h \in Handlers, NEW u \in Users, NEW a \in Emails, MergeEmail(h, u, a)
  PROVE  /\ TypeInv' /\ Moves(h, "mergeEmail", "deleteOther", u, call[h].other) /\ Stands(h)
<1> DEFINE c == [call[h] EXCEPT !.pc = "deleteOther", !.user = u]
<1>1. Set(h, c) /\ call[h].pc = "mergeEmail" /\ UNCHANGED <<users, successor>>
  BY DEF MergeEmail, Idle, history
<1>2. c \in Call
  BY Here, <1>1, NamesAssumption DEF Idle, Call, NoToken
<1>3. c.pc = "deleteOther" /\ c.user = u /\ c.other = call[h].other
  BY Here, <1>1 DEF Call, Shape, Registering, Single, Merging, Drawn, Holding
<1>4. UsersOK' /\ RestOK'
  BY Here DEF MergeEmail, Send, TypeInv, UsersOK, RestOK, history
<1> HIDE DEF c
<1>5. Shape(c)
  BY Here, <1>1, <1>3, NamesAssumption DEF Shape, Registering, Single, Merging, Drawn,
     Holding
<1> QED
  BY <1>1, <1>2, <1>3, <1>4, <1>5, Stepped, SameStands DEF Moves

LEMMA MergePlatformStep ==
  ASSUME TypeInv, NEW h \in Handlers, NEW s \in Users, MergePlatform(h, s)
  PROVE  /\ TypeInv' /\ Moves(h, "mergePlatform", "deleteOther", call[h].user, s) /\ Stands(h)
<1> DEFINE c == [call[h] EXCEPT !.pc = "deleteOther", !.other = s]
<1>1. Set(h, c) /\ call[h].pc = "mergePlatform" /\ UNCHANGED <<users, successor>>
  BY DEF MergePlatform, Idle, history
<1>2. c \in Call
  BY Here, <1>1, NamesAssumption DEF Idle, Call, NoToken
<1>3. c.pc = "deleteOther" /\ c.user = call[h].user /\ c.other = s
  BY Here, <1>1 DEF Call, Shape, Registering, Single, Merging, Drawn, Holding
<1>4. UsersOK' /\ RestOK'
  BY Here DEF MergePlatform, Send, TypeInv, UsersOK, RestOK, history
<1> HIDE DEF c
<1>5. Shape(c)
  BY Here, <1>1, <1>3, NamesAssumption DEF Shape, Registering, Single, Merging, Drawn,
     Holding
<1> QED
  BY <1>1, <1>2, <1>3, <1>4, <1>5, Stepped, SameStands DEF Moves

LEMMA ListSubsStep ==
  ASSUME TypeInv, NEW h \in Handlers, ListSubs(h)
  PROVE  /\ TypeInv' /\ Moves(h, "list", "transfer", call[h].user, call[h].other) /\ Stands(h)
         /\ call'[h].left = {s \in Subs : owner[s] = call[h].other}
<1> DEFINE c == [call[h] EXCEPT !.pc = "transfer",
                             !.left = {s \in Subs : owner[s] = call[h].other}]
<1>1. Set(h, c) /\ call[h].pc = "list" /\ UNCHANGED <<users, successor>>
  BY DEF ListSubs, Idle, history
<1>2. c \in Call
  BY Here, <1>1, NamesAssumption DEF Idle, Call, NoToken
<1>3. /\ c.pc = "transfer" /\ c.user = call[h].user /\ c.other = call[h].other
      /\ c.left = {s \in Subs : owner[s] = call[h].other}
  BY Here, <1>1 DEF Call, Shape, Registering, Single, Merging, Drawn, Holding
<1>4. UsersOK' /\ RestOK'
  BY Here DEF ListSubs, Send, TypeInv, UsersOK, RestOK, history
<1> HIDE DEF c
<1>5. Shape(c)
  BY Here, <1>1, <1>3, NamesAssumption DEF Shape, Registering, Single, Merging, Drawn,
     Holding
<1> QED
  BY <1>1, <1>2, <1>3, <1>4, <1>5, Stepped, SameStands DEF Moves

LEMMA TransferStep ==
  ASSUME TypeInv, NEW h \in Handlers, NEW s \in Subs, Transfer(h, s)
  PROVE  /\ TypeInv' /\ Moves(h, "transfer", "transfer", call[h].user, call[h].other) /\ Stands(h)
         /\ call'[h].left = call[h].left \ {s}
<1> DEFINE c == [call[h] EXCEPT !.left = @ \ {s}]
<1>1. Set(h, c) /\ call[h].pc = "transfer" /\ UNCHANGED <<users, successor>>
  BY DEF Transfer, Idle, history
<1>2. c \in Call
  BY Here, <1>1, NamesAssumption DEF Idle, Call, NoToken
<1>3. /\ c.pc = "transfer" /\ c.user = call[h].user /\ c.other = call[h].other
      /\ c.left = call[h].left \ {s}
  BY Here, <1>1 DEF Call, Shape, Registering, Single, Merging, Drawn, Holding
<1>4. UsersOK' /\ RestOK'
  BY Here DEF Transfer, Send, TypeInv, UsersOK, RestOK, history
<1> HIDE DEF c
<1>5. Shape(c)
  BY Here, <1>1, <1>3, NamesAssumption DEF Shape, Registering, Single, Merging, Drawn,
     Holding
<1> QED
  BY <1>1, <1>2, <1>3, <1>4, <1>5, Stepped, SameStands DEF Moves

LEMMA RegisterNameStep ==
  ASSUME TypeInv, NEW h \in Handlers, RegisterName(h)
  PROVE  /\ TypeInv' /\ Stands(h)
         /\ \/ Moves(h, "registerName", "idle", NoUser, NoUser) /\ UNCHANGED issued
            \/ /\ Moves(h, "registerName", "registerMail", NoUser, NoUser)
               /\ call'[h].address = call[h].address
               /\ Fresh /\ call'[h].token = issued'
<1>1. call[h].pc = "registerName" /\ UNCHANGED <<users, owner, mailed, fails, history>>
  BY DEF RegisterName
<1>2. CASE Set(h, Idle) /\ UNCHANGED issued
  <2>1. UsersOK' /\ RestOK'
    BY <1>1, <1>2 DEF TypeInv, UsersOK, RestOK, history
  <2> QED
    BY <1>1, <1>2, <2>1, IdleIs, Stepped, SameStands DEF Moves, history
<1>3. CASE Fresh /\ Set(h, [call[h] EXCEPT !.pc = "registerMail", !.token = issued'])
  <2> DEFINE c == [call[h] EXCEPT !.pc = "registerMail", !.token = issued']
  <2>1. issued' \in Nat /\ issued' # NoToken
    BY <1>3 DEF Fresh, TypeInv, RestOK, NoToken
  <2>2. c \in Call
    BY <2>1, Here DEF Call
  <2>3. c.pc = "registerMail" /\ c.user = NoUser /\ c.other = NoUser
          /\ c.address = call[h].address /\ c.token = issued' /\ c.address \in Emails
    BY <1>1, Here DEF Call, Shape, Registering
  <2>4. UsersOK' /\ RestOK'
    BY <1>1, <1>3, <2>1 DEF TypeInv, UsersOK, RestOK, history
  <2>5. Set(h, c)
    BY <1>3
  <2> HIDE DEF c
  <2>6. Shape(c)
    BY <2>1, <2>3 DEF Shape, Registering, Single, Merging, Drawn, Holding
  <2> QED
    BY <1>1, <1>3, <2>2, <2>3, <2>4, <2>5, <2>6, Stepped, SameStands DEF Moves, history
<1> QED
  BY <1>2, <1>3 DEF RegisterName

-----------------------------------------------------------------------------
(* Calls that write a document.                                            *)

Others(u) == \A v \in Users \ {u} : users'[v] = users[v]

LEMMA Written ==
  ASSUME TypeInv, NEW u \in Alive, NEW d \in Doc, users' = [users EXCEPT ![u] = d]
  PROVE  UsersOK' /\ users'[u] = d /\ Others(u) /\ Alive' = Alive
<1>1. UsersOK' /\ users'[u] = d /\ Others(u)
  BY DEF TypeInv, UsersOK, Others, Alive
<1> QED
  BY <1>1, NoDocAssumption DEF Others, Alive

LEMMA Saved ==
  ASSUME TypeInv, NEW h, NEW u \in Users, NEW d, NEW c, u \in Alive => d \in Doc, Save(h, u, d, c)
  PROVE  /\ UsersOK' /\ Others(u) /\ Alive' = Alive
         /\ u \in Alive => users'[u] = d /\ Set(h, c)
         /\ u \notin Alive => users' = users /\ Set(h, Idle)
<1>1. CASE u \in Alive
  BY <1>1, Written DEF Save
<1>2. CASE u \notin Alive
  BY <1>2 DEF Save, TypeInv, UsersOK, Others, Alive
<1> QED
  BY <1>1, <1>2

\* A document written by a call of which the address and the merges know nothing.
Same(u) ==
  /\ users'[u].email = users[u].email /\ users'[u].platform = users[u].platform
  /\ users[u].data => users'[u].data

LEMMA WrittenStands ==
  ASSUME NEW h, NEW u \in Users, UNCHANGED successor, Alive' = Alive, Others(u),
         u \in Alive => Same(u)
  PROVE  Standing(h)
  BY DEF Standing, Same, Others, Alive

LEMMA StoreSessionStep ==
  ASSUME TypeInv, NEW h \in Handlers, StoreSession(h)
  PROVE  /\ TypeInv' /\ Moves(h, "storeSession", "idle", NoUser, NoUser)
         /\ Standing(h) /\ MailStands /\ ResetStands /\ Others(call[h].user)
<1> DEFINE u == call[h].user
           d == [users[u] EXCEPT !.session = TRUE]
<1>1. call[h].pc = "storeSession" /\ Set(h, Idle)
        /\ UNCHANGED <<owner, mailed, issued, fails, history>>
  BY DEF StoreSession
<1>2. u \in Users
  BY <1>1, Here DEF Shape, Single
<1>3. ASSUME u \in Alive
      PROVE  d \in Doc /\ d.email = users[u].email /\ d.vtoken = users[u].vtoken
               /\ d.verified = users[u].verified /\ d.rtoken = users[u].rtoken
               /\ d.platform = users[u].platform /\ d.data = users[u].data
  BY <1>2, <1>3, DocIs DEF Doc
<1>4. users' = IF u \in Alive THEN [users EXCEPT ![u] = d] ELSE users
  BY DEF StoreSession
<1> HIDE DEF d
<1>5. UsersOK' /\ Others(u) /\ Alive' = Alive /\ (u \in Alive => users'[u] = d)
  <2>1. CASE u \in Alive
    BY <1>3, <1>4, <2>1, Written
  <2>2. CASE u \notin Alive
    BY <1>4, <2>2 DEF TypeInv, UsersOK, Others, Alive
  <2> QED
    BY <2>1, <2>2
<1>6. Standing(h) /\ MailStands /\ ResetStands
  <2>1. Standing(h)
    BY <1>1, <1>2, <1>3, <1>5, WrittenStands DEF Same, history
  <2> QED
    BY <2>1, <1>3, <1>5 DEF MailStands, ResetStands, Others, Alive
<1>7. RestOK'
  BY <1>1 DEF TypeInv, RestOK, history
<1> QED
  BY <1>1, <1>5, <1>6, <1>7, IdleIs, Stepped DEF Moves

LEMMA VerifySaveStep ==
  ASSUME TypeInv, NEW h \in Handlers, VerifySave(h)
  PROVE  /\ TypeInv' /\ Moves(h, "verifySave", "idle", NoUser, NoUser)
         /\ Standing(h) /\ ResetStands /\ SessionStands
         /\ Others(call[h].user) /\ Alive' = Alive
         /\ call[h].user \in Alive => /\ users'[call[h].user].vtoken = NoToken
                                      /\ users'[call[h].user].email = users[call[h].user].email
<1> DEFINE u == call[h].user
           b == users[u].verified \/ ~call[h].seen
           d == [users[u] EXCEPT !.verified = b, !.vtoken = NoToken]
<1>1. /\ call[h].pc = "verifySave" /\ Save(h, u, d, Idle)
      /\ opened' = opened \cup {call[h].token}
      /\ UNCHANGED <<owner, mailed, issued, fails, spent, twice, loggedOut, successor, granted>>
  BY DEF VerifySave
<1>2. u \in Users /\ call[h].token \in Nat
  BY <1>1, Here DEF Shape, Single
<1>3. ASSUME u \in Alive
      PROVE  d \in Doc /\ d.email = users[u].email /\ d.vtoken = NoToken
               /\ d.rtoken = users[u].rtoken /\ d.session = users[u].session
               /\ d.platform = users[u].platform /\ d.data = users[u].data
  <2>1. b \in BOOLEAN
    OBVIOUS
  <2>2. users[u] \in Doc
    BY <1>2, <1>3, DocIs
  <2> HIDE DEF b, u
  <2>3. d \in Doc
    BY <2>1, <2>2 DEF Doc, NoToken
  <2> QED
    BY <2>2, <2>3 DEF Doc
<1> HIDE DEF d
<1>4. UsersOK' /\ Others(u) /\ Alive' = Alive /\ (u \in Alive => users'[u] = d) /\ Set(h, Idle)
  BY <1>1, <1>2, <1>3, Saved
<1>5. Standing(h)
  BY <1>1, <1>2, <1>3, <1>4, WrittenStands DEF Same
<1>6. ResetStands /\ SessionStands
  BY <1>3, <1>4 DEF ResetStands, SessionStands, Others, Alive
<1>7. RestOK'
  BY <1>1, <1>2 DEF TypeInv, RestOK
<1> QED
  BY <1>1, <1>3, <1>4, <1>5, <1>6, <1>7, IdleIs, Stepped DEF Moves

LEMMA RenewSaveStep ==
  ASSUME TypeInv, NEW h \in Handlers, RenewSave(h)
  PROVE  /\ TypeInv' /\ call[h].user \in Users
         /\ Standing(h) /\ ResetStands /\ SessionStands
         /\ Others(call[h].user) /\ Alive' = Alive
         /\ call[h].user \in Alive =>
              /\ Moves(h, "renewSave", "mail", call[h].user, NoUser)
              /\ call'[h].address = call[h].address /\ call'[h].token = call[h].token
              /\ users'[call[h].user].vtoken = call[h].token
              /\ users'[call[h].user].email = users[call[h].user].email
              /\ users'[call[h].user].verified = users[call[h].user].verified
         /\ call[h].user \notin Alive =>
              Moves(h, "renewSave", "idle", NoUser, NoUser) /\ UNCHANGED users
<1> DEFINE u == call[h].user
           d == [users[u] EXCEPT !.vtoken = call[h].token]
           c == [call[h] EXCEPT !.pc = "mail"]
<1>1. /\ call[h].pc = "renewSave" /\ Save(h, u, d, c)
      /\ UNCHANGED <<owner, mailed, issued, fails, history>>
  BY DEF RenewSave
<1>2. u \in Users /\ call[h].token \in Nat /\ call[h].token # NoToken
        /\ call[h].address \in Emails /\ call[h].other = NoUser /\ call[h] \in Call
  BY <1>1, Here DEF Shape, Single, Drawn
<1>3. ASSUME u \in Alive
      PROVE  d \in Doc /\ d.email = users[u].email /\ d.vtoken = call[h].token
               /\ d.rtoken = users[u].rtoken /\ d.session = users[u].session
               /\ d.verified = users[u].verified
               /\ d.platform = users[u].platform /\ d.data = users[u].data
  BY <1>2, <1>3, DocIs DEF Doc
<1>4. /\ c \in Call /\ c.pc = "mail" /\ c.user = u /\ c.other = NoUser
      /\ c.token = call[h].token /\ c.address = call[h].address
  BY <1>2 DEF Call
<1> HIDE DEF d, c
<1>5. /\ UsersOK' /\ Others(u) /\ Alive' = Alive
      /\ u \in Alive => users'[u] = d /\ Set(h, c)
      /\ u \notin Alive => users' = users /\ Set(h, Idle)
  BY <1>1, <1>2, <1>3, Saved
<1>6. Standing(h)
  BY <1>1, <1>2, <1>3, <1>5, WrittenStands DEF Same, history
<1>7. ResetStands /\ SessionStands
  BY <1>3, <1>5 DEF ResetStands, SessionStands, Others, Alive
<1>8. RestOK'
  BY <1>1 DEF TypeInv, RestOK, history
<1>9. Shape(c)
  BY <1>2, <1>4 DEF Shape, Registering, Single, Merging, Drawn, Holding
<1>10. CASE u \in Alive
  BY <1>1, <1>2, <1>3, <1>4, <1>5, <1>6, <1>7, <1>8, <1>9, <1>10, Stepped DEF Moves
<1>11. CASE u \notin Alive
  BY <1>1, <1>2, <1>5, <1>6, <1>7, <1>8, <1>11, IdleIs, Stepped DEF Moves
<1> QED
  BY <1>10, <1>11

LEMMA SetEmailStep ==
  ASSUME TypeInv, NEW h \in Handlers, NEW u \in Users, NEW a \in Emails, SetEmail(h, u, a)
  PROVE  /\ TypeInv' /\ Moves(h, "idle", "mail", u, NoUser)
         /\ Standing(h) /\ ResetStands /\ SessionStands
         /\ Others(u) /\ Alive' = Alive
         /\ call'[h].address = a /\ call'[h].token = issued'
         /\ users'[u].email = a /\ users'[u].verified = FALSE /\ users'[u].vtoken = issued'
<1> DEFINE d == [users[u] EXCEPT !.email = a, !.verified = FALSE, !.vtoken = issued']
           c == [Idle EXCEPT !.pc = "mail", !.user = u, !.address = a, !.token = issued']
<1>1. /\ call[h].pc = "idle" /\ u \in Alive /\ Fresh /\ Set(h, c)
      /\ users' = [users EXCEPT ![u].email = a, ![u].verified = FALSE, ![u].vtoken = issued']
      /\ UNCHANGED <<owner, mailed, fails, history>>
  BY DEF SetEmail, Idle
<1>2. issued' \in Nat /\ issued' # NoToken
  BY <1>1 DEF Fresh, TypeInv, RestOK, NoToken
<1>3. users[u] \in Doc
  BY <1>1, DocIs
<1>4. users' = [users EXCEPT ![u] = d]
  BY <1>1, <1>3 DEF TypeInv, UsersOK, Doc
<1>5. /\ d \in Doc /\ d.email = a /\ d.vtoken = issued' /\ d.verified = FALSE
      /\ d.rtoken = users[u].rtoken /\ d.session = users[u].session
      /\ d.platform = users[u].platform /\ d.data = users[u].data
  BY <1>2, <1>3 DEF Doc
<1>6. /\ c \in Call /\ c.pc = "mail" /\ c.user = u /\ c.other = NoUser
      /\ c.token = issued' /\ c.address = a
  BY <1>2, NamesAssumption DEF Idle, Call
<1> HIDE DEF d, c
<1>7. UsersOK' /\ users'[u] = d /\ Others(u) /\ Alive' = Alive
  BY <1>1, <1>4, <1>5, Written
<1>8. Shape(c)
  BY <1>2, <1>6 DEF Shape, Registering, Single, Merging, Drawn, Holding
<1>9. RestOK'
  BY <1>1, <1>2 DEF TypeInv, RestOK, history
<1>10. TypeInv' /\ Moves(h, "idle", "mail", u, NoUser) /\ call'[h] = c
  BY <1>1, <1>6, <1>7, <1>8, <1>9, Stepped DEF Moves
<1>11. Concern(call'[h]) = {u}
  BY <1>6, <1>10, NamesAssumption DEF Concern
<1>12. Standing(h)
  <2>1. \A v \in Alive : v # u => users'[v] = users[v]
    BY <1>7 DEF Others, Alive
  <2>2. users'[u].email # NoEmail
    BY <1>5, <1>7, NamesAssumption
  <2> QED
    BY <1>1, <1>5, <1>7, <1>11, <2>1, <2>2 DEF Standing, history
<1>13. ResetStands /\ SessionStands
  BY <1>5, <1>7 DEF ResetStands, SessionStands, Others, Alive
<1> QED
  BY <1>5, <1>6, <1>7, <1>10, <1>12, <1>13

LEMMA ResetTokenSaveStep ==
  ASSUME TypeInv, NEW h \in Handlers, ResetTokenSave(h)
  PROVE  /\ TypeInv' /\ call[h].user \in Users
         /\ Standing(h) /\ MailStands /\ SessionStands
         /\ Others(call[h].user) /\ Alive' = Alive
         /\ call[h].user \in Alive =>
              /\ Moves(h, "resetTokenSave", "mail", call[h].user, NoUser)
              /\ call'[h].address = call[h].address /\ call'[h].token = call[h].token
              /\ users'[call[h].user].rtoken = call[h].token
         /\ call[h].user \notin Alive =>
              Moves(h, "resetTokenSave", "idle", NoUser, NoUser) /\ UNCHANGED users
<1> DEFINE u == call[h].user
           d == [users[u] EXCEPT !.rtoken = call[h].token]
           c == [call[h] EXCEPT !.pc = "mail"]
<1>1. /\ call[h].pc = "resetTokenSave" /\ Save(h, u, d, c)
      /\ UNCHANGED <<owner, mailed, issued, fails, history>>
  BY DEF ResetTokenSave
<1>2. u \in Users /\ call[h].token \in Nat /\ call[h].token # NoToken
        /\ call[h].address \in Emails /\ call[h].other = NoUser /\ call[h] \in Call
  BY <1>1, Here DEF Shape, Single, Drawn
<1>3. ASSUME u \in Alive
      PROVE  d \in Doc /\ d.email = users[u].email /\ d.vtoken = users[u].vtoken
               /\ d.rtoken = call[h].token /\ d.session = users[u].session
               /\ d.verified = users[u].verified
               /\ d.platform = users[u].platform /\ d.data = users[u].data
  BY <1>2, <1>3, DocIs DEF Doc
<1>4. /\ c \in Call /\ c.pc = "mail" /\ c.user = u /\ c.other = NoUser
      /\ c.token = call[h].token /\ c.address = call[h].address
  BY <1>2 DEF Call
<1> HIDE DEF d, c
<1>5. /\ UsersOK' /\ Others(u) /\ Alive' = Alive
      /\ u \in Alive => users'[u] = d /\ Set(h, c)
      /\ u \notin Alive => users' = users /\ Set(h, Idle)
  BY <1>1, <1>2, <1>3, Saved
<1>6. Standing(h)
  BY <1>1, <1>2, <1>3, <1>5, WrittenStands DEF Same, history
<1>7. MailStands /\ SessionStands
  BY <1>3, <1>5 DEF MailStands, SessionStands, Others, Alive
<1>8. RestOK'
  BY <1>1 DEF TypeInv, RestOK, history
<1>9. Shape(c)
  BY <1>2, <1>4 DEF Shape, Registering, Single, Merging, Drawn, Holding
<1>10. CASE u \in Alive
  BY <1>1, <1>2, <1>3, <1>4, <1>5, <1>6, <1>7, <1>8, <1>9, <1>10, Stepped DEF Moves
<1>11. CASE u \notin Alive
  BY <1>1, <1>2, <1>5, <1>6, <1>7, <1>8, <1>11, IdleIs, Stepped DEF Moves
<1> QED
  BY <1>10, <1>11

LEMMA ResetSaveStep ==
  ASSUME TypeInv, NEW h \in Handlers, ResetSave(h)
  PROVE  /\ TypeInv' /\ Moves(h, "resetSave", "idle", NoUser, NoUser)
         /\ Standing(h) /\ MailStands /\ SessionStands
         /\ Others(call[h].user) /\ Alive' = Alive
         /\ call[h].user \in Alive => users'[call[h].user].rtoken = NoToken
<1> DEFINE u == call[h].user
           d == [users[u] EXCEPT !.password = TRUE, !.rtoken = NoToken]
<1>1. /\ call[h].pc = "resetSave" /\ Save(h, u, d, Idle)
      /\ IF u \in Alive THEN Spend(call[h].token, u) ELSE UNCHANGED <<spent, twice>>
      /\ UNCHANGED <<owner, mailed, issued, fails, opened, loggedOut, successor, granted>>
  BY DEF ResetSave
<1>2. u \in Users /\ call[h].token \in Nat
  BY <1>1, Here DEF Shape, Single
<1>3. ASSUME u \in Alive
      PROVE  d \in Doc /\ d.email = users[u].email /\ d.vtoken = users[u].vtoken
               /\ d.rtoken = NoToken /\ d.session = users[u].session
               /\ d.verified = users[u].verified
               /\ d.platform = users[u].platform /\ d.data = users[u].data
  <2>1. users[u] \in Doc
    BY <1>2, <1>3, DocIs
  <2> HIDE DEF u
  <2>2. d \in Doc
    BY <2>1 DEF Doc, NoToken
  <2> QED
    BY <2>1, <2>2 DEF Doc
<1> HIDE DEF d
<1>4. UsersOK' /\ Others(u) /\ Alive' = Alive /\ (u \in Alive => users'[u] = d) /\ Set(h, Idle)
  BY <1>1, <1>2, <1>3, Saved
<1>5. Standing(h)
  BY <1>1, <1>2, <1>3, <1>4, WrittenStands DEF Same
<1>6. MailStands /\ SessionStands
  BY <1>3, <1>4 DEF MailStands, SessionStands, Others, Alive
<1>7. RestOK'
  <2>1. spent' \in SUBSET Nat /\ twice' \in SUBSET Users
    BY <1>1, <1>2 DEF Spend, TypeInv, RestOK
  <2> QED
    BY <1>1, <2>1 DEF TypeInv, RestOK
<1> QED
  BY <1>1, <1>3, <1>4, <1>5, <1>6, <1>7, IdleIs, Stepped DEF Moves

LEMMA MergeSaveStep ==
  ASSUME TypeInv, NEW h \in Handlers, MergeSave(h)
  PROVE  /\ TypeInv' /\ Stands(h) /\ call[h].user \in Users
         /\ call[h].user \in Alive =>
              /\ Moves(h, "mergeSave", "list", call[h].user, call[h].other)
              /\ users'[call[h].user].data = TRUE
         /\ call[h].user \notin Alive => Moves(h, "mergeSave", "idle", NoUser, NoUser)
<1> DEFINE u == call[h].user
           d == [users[u] EXCEPT !.data = TRUE]
           c == [call[h] EXCEPT !.pc = "list"]
<1>1. /\ call[h].pc = "mergeSave" /\ Save(h, u, d, c)
      /\ UNCHANGED <<owner, mailed, issued, fails, history>>
  BY DEF MergeSave
<1>2. u \in Users /\ call[h].other \in Users /\ call[h] \in Call
  BY <1>1, Here DEF Shape, Merging
<1>3. ASSUME u \in Alive
      PROVE  d \in Doc /\ d.email = users[u].email /\ d.vtoken = users[u].vtoken
               /\ d.rtoken = users[u].rtoken /\ d.session = users[u].session
               /\ d.verified = users[u].verified
               /\ d.platform = users[u].platform /\ d.data = TRUE
  BY <1>2, <1>3, DocIs DEF Doc
<1>4. c \in Call /\ c.pc = "list" /\ c.user = u /\ c.other = call[h].other
  BY <1>2 DEF Call
<1> HIDE DEF d, c
<1>5. /\ UsersOK' /\ Others(u) /\ Alive' = Alive
      /\ u \in Alive => users'[u] = d /\ Set(h, c)
      /\ u \notin Alive => users' = users /\ Set(h, Idle)
  BY <1>1, <1>2, <1>3, Saved
<1>6. Standing(h)
  BY <1>1, <1>2, <1>3, <1>5, WrittenStands DEF Same, history
<1>7. MailStands /\ ResetStands /\ SessionStands
  BY <1>3, <1>5 DEF MailStands, ResetStands, SessionStands, Others, Alive
<1>8. RestOK'
  BY <1>1 DEF TypeInv, RestOK, history
<1>9. Shape(c)
  BY <1>2, <1>4 DEF Shape, Registering, Single, Merging, Drawn, Holding
<1>10. CASE u \in Alive
  BY <1>1, <1>2, <1>3, <1>4, <1>5, <1>6, <1>7, <1>8, <1>9, <1>10, Stepped DEF Moves,
     Stands
<1>11. CASE u \notin Alive
  BY <1>1, <1>2, <1>5, <1>6, <1>7, <1>8, <1>11, IdleIs, Stepped DEF Moves, Stands
<1> QED
  BY <1>10, <1>11

-----------------------------------------------------------------------------
(* Accounts that come and go.                                              *)

LEMMA RegisterCreateStep ==
  ASSUME TypeInv, NEW h \in Handlers, NEW u \in Users, RegisterCreate(h, u)
  PROVE  /\ TypeInv' /\ Moves(h, "registerCreate", "storeSession", u, NoUser)
         /\ u \notin Alive /\ successor[u] = NoUser /\ UNCHANGED successor
         /\ Others(u) /\ Alive' = Alive \cup {u}
         /\ users'[u].email = call[h].address /\ users'[u].email # NoEmail
         /\ users'[u].verified = FALSE /\ users'[u].session = FALSE
         /\ users'[u].vtoken = call[h].token /\ users'[u].rtoken = NoToken
<1> DEFINE d == EmailDoc(call[h].address, call[h].token)
           c == [Idle EXCEPT !.pc = "storeSession", !.user = u]
<1>1. /\ call[h].pc = "registerCreate" /\ Set(h, c)
      /\ u \notin Alive /\ successor[u] = NoUser
      /\ users' = [users EXCEPT ![u] = d]
      /\ UNCHANGED <<owner, mailed, issued, fails, history>>
  BY DEF RegisterCreate
<1>2. call[h].address \in Emails /\ call[h].token \in Nat
  BY <1>1, Here DEF Shape, Registering
<1>3. /\ d \in Doc /\ d.email = call[h].address /\ d.vtoken = call[h].token
      /\ d.verified = FALSE /\ d.session = FALSE /\ d.rtoken = NoToken
  BY <1>2 DEF EmailDoc, PlatformDoc, Doc, NoToken
<1>4. c \in Call /\ c.pc = "storeSession" /\ c.user = u /\ c.other = NoUser
  BY NamesAssumption DEF Idle, Call, NoToken
<1> HIDE DEF d, c
<1>5. UsersOK' /\ users'[u] = d /\ Others(u)
  BY <1>1, <1>3 DEF TypeInv, UsersOK, Others
<1>6. Alive' = Alive \cup {u}
  BY <1>3, <1>5, NoDocAssumption DEF Others, Alive
<1>7. RestOK'
  BY <1>1 DEF TypeInv, RestOK, history
<1>8. Shape(c)
  BY <1>4 DEF Shape, Registering, Single, Merging, Drawn, Holding
<1>9. TypeInv' /\ Moves(h, "registerCreate", "storeSession", u, NoUser)
  BY <1>1, <1>4, <1>5, <1>7, <1>8, Stepped DEF Moves
<1> QED
  BY <1>1, <1>2, <1>3, <1>5, <1>6, <1>9, NamesAssumption DEF history

LEMMA DeleteOtherStep ==
  ASSUME TypeInv, NEW h \in Handlers, DeleteOther(h)
  PROVE  /\ TypeInv' /\ Moves(h, "deleteOther", "mergeSave", call[h].user, call[h].other)
         /\ call[h].user \in Users /\ call[h].other \in Users
         /\ MailStands /\ ResetStands /\ SessionStands
         /\ Others(call[h].other) /\ Alive' = Alive \ {call[h].other}
         /\ \A u \in Users \ {call[h].other} : successor'[u] = successor[u]
         /\ successor'[call[h].other] = IF call[h].other \in Alive THEN call[h].user
                                        ELSE successor[call[h].other]
<1> DEFINE s == call[h].other
           c == [call[h] EXCEPT !.pc = "mergeSave"]
<1>1. /\ call[h].pc = "deleteOther" /\ Set(h, c)
      /\ users' = [users EXCEPT ![s] = NoDoc]
      /\ successor' = IF s \in Alive THEN [successor EXCEPT ![s] = call[h].user] ELSE successor
      /\ UNCHANGED <<owner, mailed, issued, fails, opened, spent, twice, loggedOut, granted>>
  BY DEF DeleteOther
<1>2. call[h].user \in Users /\ s \in Users /\ call[h] \in Call
  BY <1>1, Here DEF Shape, Merging
<1>3. c \in Call /\ c.pc = "mergeSave" /\ c.user = call[h].user /\ c.other = s
  BY <1>2 DEF Call
<1> HIDE DEF c
<1>4. UsersOK' /\ users'[s] = NoDoc /\ Others(s)
  BY <1>1, <1>2 DEF TypeInv, UsersOK, Others
<1>5. Alive' = Alive \ {s}
  BY <1>4 DEF Others, Alive
<1>6. MailStands /\ ResetStands /\ SessionStands
  BY <1>4, <1>5 DEF MailStands, ResetStands, SessionStands, Others, Alive
<1>7. /\ successor' \in [Users -> Users \cup {NoUser}]
      /\ \A u \in Users \ {s} : successor'[u] = successor[u]
      /\ successor'[s] = IF s \in Alive THEN call[h].user ELSE successor[s]
  BY <1>1, <1>2 DEF TypeInv, RestOK
<1>8. RestOK'
  BY <1>1, <1>7 DEF TypeInv, RestOK
<1>9. Shape(c)
  BY <1>2, <1>3 DEF Shape, Registering, Single, Merging, Drawn, Holding
<1>10. TypeInv' /\ Moves(h, "deleteOther", "mergeSave", call[h].user, s)
  BY <1>1, <1>3, <1>4, <1>8, <1>9, Stepped DEF Moves
<1> QED
  BY <1>2, <1>4, <1>5, <1>6, <1>7, <1>10

\* The second deletion finds nothing to delete.
LEMMA DeleteByIdStep ==
  ASSUME TypeInv, NEW h \in Handlers, call[h].other \notin Alive, DeleteById(h)
  PROVE  /\ TypeInv' /\ Moves(h, "transfer", "storeSession", call[h].user, NoUser)
         /\ call[h].user \in Users /\ call[h].other \in Users /\ Stands(h)
<1> DEFINE s == call[h].other
           c == [Idle EXCEPT !.pc = "storeSession", !.user = call[h].user]
<1>1. /\ call[h].pc = "transfer" /\ Set(h, c)
      /\ users' = [users EXCEPT ![s] = NoDoc]
      /\ UNCHANGED <<owner, mailed, issued, fails, history>>
  BY DEF DeleteById
<1>2. call[h].user \in Users /\ s \in Users
  BY <1>1, Here DEF Shape, Merging
<1>3. c \in Call /\ c.pc = "storeSession" /\ c.user = call[h].user /\ c.other = NoUser
  BY <1>2, NamesAssumption DEF Idle, Call, NoToken
<1> HIDE DEF c
<1>4. users[s] = NoDoc
  BY <1>2, DocIs
<1>5. UNCHANGED users
  BY <1>1, <1>2, <1>4 DEF TypeInv, UsersOK
<1>6. UsersOK' /\ RestOK'
  BY <1>1, <1>5 DEF TypeInv, UsersOK, RestOK, history
<1>7. Shape(c)
  BY <1>2, <1>3 DEF Shape, Registering, Single, Merging, Drawn, Holding
<1> QED
  BY <1>1, <1>2, <1>3, <1>5, <1>6, <1>7, Stepped, SameStands DEF Moves, history

-----------------------------------------------------------------------------
(* The surroundings.                                                       *)

LEMMA LogoutStep ==
  ASSUME TypeInv, NEW u \in Users, Logout(u)
  PROVE  /\ TypeInv' /\ UNCHANGED <<call, successor>>
         /\ Alive' = Alive /\ MailStands /\ ResetStands /\ Others(u)
         /\ users'[u].session = FALSE
         /\ \A v \in Alive : /\ users'[v].platform = users[v].platform
                             /\ users'[v].email = users[v].email
                             /\ users'[v].data = users[v].data
         /\ loggedOut' = loggedOut \cup {u} /\ u \in Alive
         /\ disturbed \subseteq disturbed'
         /\ \A h \in Handlers : u \in Concern(call[h]) => u \in disturbed'
<1> DEFINE d == [users[u] EXCEPT !.session = FALSE]
<1>1. /\ u \in Alive
      /\ users' = [users EXCEPT ![u].session = FALSE]
      /\ loggedOut' = loggedOut \cup {u}
      /\ disturbed' = disturbed \cup ({u} \cap UNION {Concern(call[g]) : g \in Handlers})
      /\ UNCHANGED <<owner, mailed, issued, call, fails, opened, spent, twice, successor, granted>>
  BY DEF Logout
<1>2. users[u] \in Doc
  BY <1>1, DocIs
<1>3. users' = [users EXCEPT ![u] = d]
  BY <1>1, <1>2 DEF TypeInv, UsersOK, Doc
<1>4. /\ d \in Doc /\ d.email = users[u].email /\ d.vtoken = users[u].vtoken
      /\ d.verified = users[u].verified /\ d.rtoken = users[u].rtoken
      /\ d.session = FALSE
      /\ d.platform = users[u].platform /\ d.data = users[u].data
  BY <1>2 DEF Doc
<1> HIDE DEF d
<1>5. UsersOK' /\ users'[u] = d /\ Others(u) /\ Alive' = Alive
  BY <1>1, <1>3, <1>4, Written
<1>6. \A v \in Alive : v = u \/ users'[v] = users[v]
  BY <1>5 DEF Others, Alive
<1>7. MailStands /\ ResetStands
  BY <1>4, <1>5, <1>6 DEF MailStands, ResetStands
<1>8. disturbed' \in SUBSET Users /\ RestOK'
  BY <1>1 DEF TypeInv, RestOK
<1>9. TypeInv'
  BY <1>1, <1>5, <1>8 DEF TypeInv, Shape
<1>10. \A h \in Handlers : u \in Concern(call[h]) => u \in disturbed'
  BY <1>1
<1> QED
  BY <1>1, <1>4, <1>5, <1>6, <1>7, <1>9, <1>10

LEMMA GrantStep ==
  ASSUME TypeInv, NEW u \in Users, NEW s \in Subs, Grant(u, s)
  PROVE  /\ TypeInv' /\ UNCHANGED <<users, successor, call, mailed, issued, opened, spent, twice,
                                    loggedOut>>
         /\ owner[s] = NoUser /\ owner'[s] = u /\ granted'[s] = u
         /\ \A r \in Subs \ {s} : owner'[r] = owner[r] /\ granted'[r] = granted[r]
         /\ disturbed \subseteq disturbed'
         /\ u \notin disturbed' => u \in Alive
<1>1. UNCHANGED <<users, mailed, issued, call, fails, opened, spent, twice, loggedOut, successor>>
  BY DEF Grant
<1>2. /\ owner' \in [Subs -> Users \cup {NoUser}] /\ granted' \in [Subs -> Users \cup {NoUser}]
      /\ owner[s] = NoUser /\ owner'[s] = u /\ granted'[s] = u
      /\ \A r \in Subs \ {s} : owner'[r] = owner[r] /\ granted'[r] = granted[r]
  BY DEF Grant, TypeInv, RestOK
<1>3. /\ disturbed' \in SUBSET Users /\ disturbed \subseteq disturbed'
      /\ u \notin disturbed' => u \in Alive
  BY DEF Grant, TypeInv
<1>4. UsersOK' /\ RestOK'
  BY <1>1, <1>2 DEF TypeInv, UsersOK, RestOK
<1>5. TypeInv'
  BY <1>1, <1>3, <1>4 DEF TypeInv, Shape
<1> QED
  BY <1>1, <1>2, <1>3, <1>5

LEMMA CallFailsStep ==
  ASSUME TypeInv, NEW h \in Handlers, CallFails(h)
  PROVE  /\ TypeInv' /\ Frame(h) /\ Stands(h) /\ call'[h] = Idle
         /\ Concern(call[h]) \subseteq disturbed'
         /\ UNCHANGED <<users, owner, mailed, issued, history>>
<1>1. /\ fails' = fails + 1
      /\ call' = [call EXCEPT ![h] = Idle]
      /\ disturbed' = disturbed \cup Concern(call[h])
      /\ UNCHANGED <<users, owner, mailed, issued, history>>
  BY DEF CallFails
<1>2. /\ call' \in [Handlers -> Call] /\ call'[h] = Idle
      /\ \A g \in Handlers \ {h} : call'[g] = call[g]
  BY <1>1, IdleIs DEF TypeInv
<1>3. disturbed' \in SUBSET Users /\ UsersOK' /\ RestOK'
  BY <1>1 DEF TypeInv, UsersOK, RestOK, Concern, history
<1>4. \A g \in Handlers : Shape(call'[g])
  BY <1>2, IdleIs DEF TypeInv
<1>5. Concern(Idle) = {}
  BY IdleIs, NamesAssumption DEF Concern
<1>6. TypeInv'
  BY <1>2, <1>3, <1>4 DEF TypeInv, Shape
<1>7. Frame(h)
  BY <1>1, <1>2, <1>5 DEF Frame
<1> QED
  BY <1>1, <1>2, <1>6, <1>7, SameStands DEF history
-----------------------------------------------------------------------------
(* What always holds of accounts and of the calls that merge them.         *)

Known == Alive \cup Deleted

\* What a call may assume of the accounts it has read.
Fits(c) ==
  /\ Concern(c) \subseteq Known
  /\ c.other \in Alive => users[c.other].platform
  /\ c.pc = "mergeEmail" /\ c.other \in Alive \ disturbed => users[c.other].email = NoEmail
  /\ c.pc \in {"mergeEmail", "deleteOther"} => c.other \in Alive \cup disturbed
  /\ c.pc = "mergePlatform" => c.user \in Alive /\ ~users[c.user].platform
  /\ c.pc \in Merging => \/ c.user \in Alive /\ ~users[c.user].platform
                         \/ c.user = c.other /\ c.user \in disturbed
  /\ c.pc \in Deleting => /\ c.other \in Deleted
                          /\ c.other \notin disturbed => successor[c.other] = c.user

\* Two calls have a user in common only if that one counts as disturbed.
Lone ==
  \A g, h \in Handlers : g # h => Concern(call[g]) \cap Concern(call[h]) \subseteq disturbed

Base ==
  /\ Alive \cap Deleted = {}
  /\ \A u \in Alive : users[u].platform \/ users[u].email # NoEmail
  /\ Lone
  /\ \A h \in Handlers : Fits(call[h])

-----------------------------------------------------------------------------
(* One invariant per promise.                                              *)

\* The merge of u is about to be saved in the account that stays.
Saving(h, u) == call[h].pc = "mergeSave" /\ call[h].other = u /\ call[h].user = successor[u]

Merged(u) ==
  /\ successor[u] \in Alive
  /\ ~users[successor[u]].platform
  /\ users[successor[u]].data \/ \E h \in Handlers : Saving(h, u)

Merges == \A u \in Deleted \ disturbed : Merged(u)

\* A merge that will still move subscription s of u.
Carries(h, u, s) ==
  /\ call[h].other = u
  /\ call[h].pc \in {"mergeSave", "list"} \/ (call[h].pc = "transfer" /\ s \in call[h].left)

Follows(u, s) ==
  \/ owner[s] = u /\ (u \in Deleted => \E h \in Handlers : Carries(h, u, s))
  \/ owner[s] = successor[u] /\ u \in Deleted

Listed(c, s) ==
  /\ owner[s] # NoUser
  /\ granted[s] \notin disturbed => granted[s] = c.other

Sold ==
  /\ \A s \in Subs : owner[s] = NoUser <=> granted[s] = NoUser
  /\ \A s \in Subs : granted[s] \in Users \ disturbed => Follows(granted[s], s)
  /\ \A h \in Handlers : call[h].pc = "transfer" => \A s \in call[h].left : Listed(call[h], s)

\* A token that a call has drawn is in nobody's mail, and in no account but the one
\* that the mail is for.
DrawnOK(c) ==
  /\ c.token <= issued
  /\ c.pc # "registerCreate" => c.token \notin Received
  /\ c.pc = "registerCreate" => \A m \in mailed : m[1] = c.token => m[2] = c.address
  /\ \A u \in Alive : users[u].vtoken = c.token => c.pc = "mail" /\ c.user = u

MailedFor(t, e) == \E a \in Emails : <<t, a>> \in mailed /\ Reaches(a, e)

\* Who asked for a mail still has an address that it reaches; whose token came back,
\* one that the mail with it reached.
AskedOK(c) ==
  c.user \in Alive \ disturbed =>
    /\ c.pc \in {"renewSave", "resetTokenSave", "mail"} => Reaches(c.address, users[c.user].email)
    /\ c.pc = "verifySave" => MailedFor(c.token, users[c.user].email)

Addressed ==
  /\ \A m \in mailed : m[1] \in 1 .. issued
  /\ \A u \in Alive : users[u].vtoken <= issued
  /\ \A g, h \in Handlers :
       g # h /\ call[g].pc \in Drawn /\ call[h].pc \in Drawn => call[g].token # call[h].token
  /\ \A h \in Handlers : call[h].pc \in Drawn => DrawnOK(call[h])
  /\ \A h \in Handlers : AskedOK(call[h])
  /\ \A u \in Alive \ disturbed :
       \A m \in mailed : m[1] = users[u].vtoken => Reaches(m[2], users[u].email)
  /\ VerifiedByMail

\* A reset token is in one account at most, and in none as long as the call that has
\* drawn it has not saved it; a call that was given one has the account it is in.
ResetAsked(h) ==
  /\ call[h].token <= issued /\ call[h].token \notin spent
  /\ \A u \in Alive : users[u].rtoken # call[h].token
  /\ \A g \in Handlers \ {h} :
       call[g].pc \in {"resetTokenSave", "resetSave"} => call[g].token # call[h].token

ResetFound(h) ==
  /\ call[h].token <= issued
  /\ \A u \in Alive : users[u].rtoken = call[h].token => u = call[h].user
  /\ call[h].user \in Alive \ disturbed => users[call[h].user].rtoken = call[h].token

Resets ==
  /\ \A u \in Alive : users[u].rtoken <= issued
  /\ \A t \in spent : t <= issued
  /\ \A u, v \in Alive : u # v /\ users[u].rtoken = users[v].rtoken => users[u].rtoken = NoToken
  /\ \A u \in Alive \ disturbed : users[u].rtoken # NoToken => users[u].rtoken \notin spent
  /\ \A h \in Handlers : call[h].pc = "resetTokenSave" => ResetAsked(h)
  /\ \A h \in Handlers : call[h].pc = "resetSave" => ResetFound(h)
  /\ ResetOnce

\* A call that will store a session began after the logout.
Sessions ==
  /\ loggedOut \subseteq Known
  /\ \A h \in Handlers : call[h].pc \in {"storeSession"} \cup Merging =>
       call[h].user \notin loggedOut \ disturbed
  /\ LogoutHolds
-----------------------------------------------------------------------------
(* Base.                                                                   *)

LEMMA Fit ==
  ASSUME TypeInv, NEW h \in Handlers, Base
  PROVE  Fits(call[h])
  BY DEF Base

LEMMA ConcernIs ==
  ASSUME TypeInv, NEW h \in Handlers
  PROVE  /\ \A u \in Users : u \in Concern(call[h]) <=> u = call[h].user \/ u = call[h].other
         /\ Concern(call[h]) \subseteq Users
  BY DEF Concern

LEMMA DeletedIs ==
  ASSUME UNCHANGED successor
  PROVE  Deleted' = Deleted
  BY DEF Deleted

LEMMA LoneKept ==
  ASSUME TypeInv, Lone, NEW h \in Handlers, Frame(h)
  PROVE  Lone'
<1> SUFFICES ASSUME NEW f \in Handlers, NEW g \in Handlers, f # g
             PROVE  Concern(call'[f]) \cap Concern(call'[g]) \subseteq disturbed'
  BY DEF Lone, Concern
<1>1. CASE f = h
  BY <1>1 DEF Frame, Concern
<1>2. CASE g = h
  BY <1>2 DEF Frame, Concern
<1>3. CASE f # h /\ g # h
  BY <1>3 DEF Frame, Lone
<1> QED
  BY <1>1, <1>2, <1>3

\* What the other calls may assume, they still may.
LEMMA OthersFit ==
  ASSUME TypeInv, Base, NEW h \in Handlers, Frame(h), Standing(h), NEW g \in Handlers \ {h}
  PROVE  Fits(call[g])'
<1> DEFINE c == call[g]
<1>1. call'[g] = c /\ Fits(c) /\ disturbed \subseteq disturbed'
  BY DEF Frame, Base
<1>2. Alive' = Alive /\ Deleted' = Deleted /\ Known' = Known /\ successor' = successor
  BY DeletedIs DEF Standing, Known
<1>3. \A u \in Alive : users'[u].platform = users[u].platform
  BY DEF Standing
<1>4. c.pc = "mergeEmail" /\ c.other \in Alive \ disturbed' => users'[c.other].email = NoEmail
  <2> HAVE c.pc = "mergeEmail" /\ c.other \in Alive \ disturbed'
  <2>1. c.other \in Concern(call[g])
    BY DEF Concern, Alive
  <2>2. c.other \notin Concern(call'[h])
    BY <2>1 DEF Frame
  <2>3. users'[c.other].email = users[c.other].email
    BY <2>2 DEF Standing
  <2> QED
    BY <1>1, <2>3 DEF Fits
<1>5. Concern(call'[g]) \subseteq Known'
  BY <1>1, <1>2 DEF Fits
<1> QED
  BY <1>1, <1>2, <1>3, <1>4, <1>5 DEF Fits, Merging, Deleting

LEMMA BaseKept ==
  ASSUME TypeInv, Base, NEW h \in Handlers, Frame(h), Standing(h), Fits(call[h])'
  PROVE  Base'
<1>1. Lone'
  BY LoneKept DEF Base
<1>2. \A g \in Handlers : Fits(call[g])'
  BY OthersFit
<1>3. (Alive \cap Deleted = {})'
  BY DeletedIs DEF Base, Standing
<1>4. (\A u \in Alive : users[u].platform \/ users[u].email # NoEmail)'
  BY DEF Base, Standing
<1> QED
  BY <1>1, <1>2, <1>3, <1>4 DEF Base

\* A call that has nobody, and one that has a user and is no merge.
LEMMA NobodyFits ==
  ASSUME NEW h \in Handlers, NEW m \in {"idle"} \cup Registering,
         call'[h].pc = m, call'[h].user = NoUser, call'[h].other = NoUser
  PROVE  Fits(call[h])'
<1>1. Concern(call[h])' = {}
  BY NamesAssumption DEF Concern
<1>2. NoUser \notin Alive'
  BY NamesAssumption DEF Alive
<1> QED
  BY <1>1, <1>2 DEF Fits, Merging, Deleting, Registering

LEMMA SingleFits ==
  ASSUME NEW h \in Handlers, NEW m \in Single \ {"mergePlatform"}, NEW u \in Users,
         call'[h].pc = m, call'[h].user = u, call'[h].other = NoUser, (u \in Known)'
  PROVE  Fits(call[h])'
<1>1. Concern(call[h])' = {u}
  BY NamesAssumption DEF Concern
<1>2. NoUser \notin Alive'
  BY NamesAssumption DEF Alive
<1> QED
  BY <1>1, <1>2 DEF Fits, Merging, Deleting, Single

\* Steps to where there is nobody, or one user that was found.
LEMMA BaseNobody ==
  ASSUME TypeInv, Base, NEW h \in Handlers, NEW l, NEW m \in {"idle"} \cup Registering,
         Moves(h, l, m, NoUser, NoUser), Standing(h)
  PROVE  Base'
  BY NobodyFits, BaseKept DEF Moves

LEMMA BaseSingle ==
  ASSUME TypeInv, Base, NEW h \in Handlers, NEW l, NEW m \in Single \ {"mergePlatform"},
         NEW u \in Known, Moves(h, l, m, u, NoUser), Standing(h)
  PROVE  Base'
<1>1. (u \in Known)' /\ u \in Users
  BY DeletedIs DEF Standing, Known, Alive, Deleted
<1> QED
  BY <1>1, SingleFits, BaseKept DEF Moves

LEMMA MergingFits ==
  ASSUME NEW h \in Handlers, NEW m \in Merging, NEW u \in Users, NEW s \in Users,
         call'[h].pc = m, call'[h].user = u, call'[h].other = s,
         (u \in Known /\ s \in Known)',
         (s \in Alive => users[s].platform)',
         (m = "deleteOther" => s \in Alive \cup disturbed)',
         ((u \in Alive /\ ~users[u].platform) \/ (u = s /\ u \in disturbed))',
         (m \in Deleting => s \in Deleted /\ (s \notin disturbed => successor[s] = u))'
  PROVE  Fits(call[h])'
<1>1. Concern(call[h])' \subseteq Known'
  BY DEF Concern
<1> QED
  BY <1>1 DEF Fits, Merging, Deleting

LEMMA MergeBeginBase ==
  ASSUME TypeInv, Base, NEW h \in Handlers, NEW s \in Users, MergeBegin(h, s)
  PROVE  Base'
<1>1. Moves(h, "idle", "mergeEmail", NoUser, s) /\ Standing(h) /\ UNCHANGED users
  BY MergeBeginStep DEF MergeBegin, Stands
<1>2. s \in Alive /\ users[s].email = NoEmail /\ users[s].platform
  BY DEF MergeBegin, Base
<1>3. Concern(call[h])' = {s} /\ Alive' = Alive /\ s \in Known'
  BY <1>1, <1>2, NamesAssumption DEF Concern, Moves, Standing, Known
<1>4. Fits(call[h])'
  BY <1>1, <1>2, <1>3 DEF Fits, Moves, Merging, Deleting
<1> QED
  BY <1>1, <1>4, BaseKept DEF Moves

LEMMA MergeEmailBase ==
  ASSUME TypeInv, Base, NEW h \in Handlers, NEW u \in Users, NEW a \in Emails, MergeEmail(h, u, a)
  PROVE  Base'
<1> DEFINE s == call[h].other
<1>1. Moves(h, "mergeEmail", "deleteOther", u, s) /\ Standing(h)
        /\ UNCHANGED <<users, successor>>
  BY MergeEmailStep DEF MergeEmail, Stands, Standing
<1>2. u \in Alive /\ users[u].email # NoEmail /\ (users[u].platform => u = s)
  BY MatchesAssumption, NamesAssumption DEF MergeEmail, MayLogin, WithEmail
<1>3. s \in Users /\ Fits(call[h]) /\ call[h].pc = "mergeEmail"
  BY <1>1, Here, Fit DEF Shape, Moves
<1>4. s \in Known /\ s \in Alive \cup disturbed /\ (s \in Alive => users[s].platform)
  BY <1>3, ConcernIs DEF Fits
<1>5. u = s => u \in disturbed
  BY <1>2, <1>3, NamesAssumption DEF Fits
<1>6. Alive' = Alive /\ Known' = Known /\ disturbed \subseteq disturbed'
  BY <1>1, DeletedIs DEF Known, Standing, Moves, Frame
<1>7. u \in Known' /\ s \in Known' /\ (s \in Alive' => users'[s].platform)
        /\ s \in Alive' \cup disturbed'
  BY <1>1, <1>2, <1>4, <1>6 DEF Known
<1>8. (u \in Alive' /\ ~users'[u].platform) \/ (u = s /\ u \in disturbed')
  BY <1>1, <1>2, <1>5, <1>6
<1> HIDE DEF s
<1>9. Fits(call[h])'
  BY <1>1, <1>3, <1>7, <1>8, MergingFits DEF Moves, Merging, Deleting
<1> QED
  BY <1>1, <1>9, BaseKept DEF Moves

LEMMA MergePlatformBeginBase ==
  ASSUME TypeInv, Base, NEW h \in Handlers, NEW u \in Users, MergePlatformBegin(h, u)
  PROVE  Base'
<1>1. Moves(h, "idle", "mergePlatform", u, NoUser) /\ Standing(h) /\ UNCHANGED users
  BY MergePlatformBeginStep DEF MergePlatformBegin, Stands
<1>2. u \in Alive /\ ~users[u].platform
  BY DEF MergePlatformBegin
<1>3. Concern(call[h])' = {u} /\ Alive' = Alive /\ u \in Known' /\ NoUser \notin Alive'
  BY <1>1, <1>2, NamesAssumption DEF Concern, Moves, Standing, Known, Alive
<1>4. Fits(call[h])'
  BY <1>1, <1>2, <1>3 DEF Fits, Moves, Merging, Deleting
<1> QED
  BY <1>1, <1>4, BaseKept DEF Moves

LEMMA MergePlatformBase ==
  ASSUME TypeInv, Base, NEW h \in Handlers, NEW s \in Users, MergePlatform(h, s)
  PROVE  Base'
<1> DEFINE u == call[h].user
<1>1. Moves(h, "mergePlatform", "deleteOther", u, s) /\ Standing(h)
        /\ UNCHANGED <<users, successor>>
  BY MergePlatformStep DEF MergePlatform, Stands, Standing
<1>2. s \in Alive /\ users[s].platform
  BY DEF MergePlatform
<1>3. u \in Alive /\ u \in Users /\ ~users[u].platform
  BY <1>1, Fit DEF Fits, Moves, Alive
<1>4. Alive' = Alive /\ Known' = Known
  BY <1>1, DeletedIs DEF Known, Standing
<1>5. u \in Known' /\ s \in Known' /\ s \in Alive' /\ users'[s].platform
        /\ u \in Alive' /\ ~users'[u].platform
  BY <1>1, <1>2, <1>3, <1>4 DEF Known
<1> HIDE DEF u
<1>6. Fits(call[h])'
  BY <1>1, <1>3, <1>5, MergingFits DEF Moves, Merging, Deleting
<1> QED
  BY <1>1, <1>6, BaseKept DEF Moves

\* A merge that has deleted one account goes on.
LEMMA GoesOnBase ==
  ASSUME TypeInv, Base, NEW h \in Handlers, NEW l \in Deleting, NEW m \in Deleting,
         Moves(h, l, m, call[h].user, call[h].other), Standing(h)
  PROVE  Base'
<1> DEFINE u == call[h].user
           s == call[h].other
<1>1. u \in Users /\ s \in Users
  BY Here DEF Moves, Shape, Merging, Deleting
<1>2. /\ u \in Known /\ s \in Known /\ s \in Deleted /\ s \notin Alive
      /\ s \notin disturbed => successor[s] = u
      /\ (u \in Alive /\ ~users[u].platform) \/ (u = s /\ u \in disturbed)
  BY <1>1, Fit, ConcernIs DEF Base, Fits, Moves, Merging, Deleting
<1>3. Alive' = Alive /\ Known' = Known /\ Deleted' = Deleted /\ successor' = successor
        /\ disturbed \subseteq disturbed'
        /\ \A v \in Alive : users'[v].platform = users[v].platform
  BY DeletedIs DEF Known, Standing, Moves, Frame
<1>4. /\ u \in Known' /\ s \in Known' /\ s \in Deleted' /\ s \notin Alive'
      /\ s \notin disturbed' => successor'[s] = u
      /\ (u \in Alive' /\ ~users'[u].platform) \/ (u = s /\ u \in disturbed')
  BY <1>2, <1>3
<1>5. call'[h].pc = m /\ call'[h].user = u /\ call'[h].other = s /\ m \in Merging
        /\ m # "deleteOther"
  BY DEF Moves, Merging, Deleting
<1> HIDE DEF u, s
<1>6. Fits(call[h])'
  BY <1>1, <1>4, <1>5, MergingFits
<1> QED
  BY <1>6, BaseKept DEF Moves

LEMMA DeleteByIdBase ==
  ASSUME TypeInv, Base, NEW h \in Handlers, DeleteById(h)
  PROVE  Base' /\ call[h].other \notin Alive
<1>1. call[h].pc = "transfer"
  BY DEF DeleteById
<1>2. call[h].other \in Deleted /\ call[h].other \notin Alive
  BY <1>1, Fit DEF Base, Fits, Deleting
<1>3. Moves(h, "transfer", "storeSession", call[h].user, NoUser) /\ Standing(h)
        /\ call[h].user \in Users
  BY <1>2, DeleteByIdStep DEF Stands
<1>4. call[h].user \in Known
  BY <1>3, Fit, ConcernIs DEF Fits
<1> QED
  BY <1>2, <1>3, <1>4, BaseSingle DEF Single

LEMMA DeleteOtherKnown ==
  ASSUME TypeInv, Base, NEW h \in Handlers, DeleteOther(h)
  PROVE  /\ Alive' = Alive \ {call[h].other}
         /\ Deleted' = Deleted \cup {call[h].other}
         /\ Known' = Known
         /\ \A v \in Alive' : users'[v] = users[v]
<1> DEFINE u == call[h].user
           s == call[h].other
<1>1. /\ Alive' = Alive \ {s} /\ u \in Users /\ s \in Users /\ Others(s)
      /\ \A v \in Users \ {s} : successor'[v] = successor[v]
      /\ successor'[s] = IF s \in Alive THEN u ELSE successor[s]
  BY DeleteOtherStep
<1>2. s \in Alive \/ s \in Deleted
  BY <1>1, Fit, ConcernIs DEF Fits, Known
<1>3. successor'[s] # NoUser
  BY <1>1, <1>2, NamesAssumption DEF Deleted
<1>4. Deleted' = Deleted \cup {s}
  BY <1>1, <1>3 DEF Deleted
<1> QED
  BY <1>1, <1>2, <1>4 DEF Known, Others, Alive

LEMMA DeleteOtherBase ==
  ASSUME TypeInv, Base, NEW h \in Handlers, DeleteOther(h)
  PROVE  Base'
<1> DEFINE u == call[h].user
           s == call[h].other
<1>1. /\ Alive' = Alive \ {s} /\ Deleted' = Deleted \cup {s} /\ Known' = Known
      /\ \A v \in Alive' : users'[v] = users[v]
  BY DeleteOtherKnown
<1>2. /\ call[h].pc = "deleteOther"
      /\ call'[h].pc = "mergeSave" /\ call'[h].user = u /\ call'[h].other = s
      /\ Frame(h) /\ u \in Users /\ s \in Users
      /\ \A v \in Users \ {s} : successor'[v] = successor[v]
      /\ successor'[s] = IF s \in Alive THEN u ELSE successor[s]
  BY DeleteOtherStep DEF Moves
<1>3. /\ s \in Alive => users[s].platform
      /\ s \in Alive \cup disturbed
      /\ (u \in Alive /\ ~users[u].platform) \/ (u = s /\ u \in disturbed)
      /\ u \in Known /\ s \in Known
  BY <1>2, Fit, ConcernIs DEF Fits, Merging
<1>4. disturbed \subseteq disturbed'
  BY <1>2 DEF Frame
<1>5. /\ u \in Known' /\ s \in Known'
      /\ s \in Deleted' /\ s \notin Alive'
      /\ s \notin disturbed' => successor'[s] = u
      /\ (u \in Alive' /\ ~users'[u].platform) \/ (u = s /\ u \in disturbed')
  BY <1>1, <1>2, <1>3, <1>4
<1>6. Fits(call[h])'
  <2>1. call'[h].pc \in Merging /\ call'[h].pc # "deleteOther"
    BY <1>2 DEF Merging
  <2> HIDE DEF u, s
  <2> QED
    BY <1>2, <1>5, <2>1, MergingFits
<1>7. ASSUME NEW g \in Handlers, g # h
      PROVE  Fits(call[g])'
  <2> DEFINE c == call[g]
  <2>1. call'[g] = c /\ Fits(c)
    BY <1>2, <1>7, Fit DEF Frame
  <2>2. s \in Concern(c) => s \in disturbed'
    BY <1>2, <1>7 DEF Frame, Concern
  <2>3. c.other = s => s \in disturbed'
    BY <1>2, <2>2 DEF Concern
  <2>4. \A v \in Alive : ~users[v].platform => v \in Alive'
    BY <1>1, <1>3
  <2>5. Concern(c) \subseteq Known' /\ (c.other \in Alive' => users'[c.other].platform)
    BY <1>1, <2>1 DEF Fits
  <2>6. c.pc = "mergeEmail" /\ c.other \in Alive' \ disturbed' => users'[c.other].email = NoEmail
    BY <1>1, <1>4, <2>1 DEF Fits
  <2>7. c.pc \in {"mergeEmail", "deleteOther"} => c.other \in Alive' \cup disturbed'
    BY <1>1, <1>4, <2>1, <2>3 DEF Fits
  <2>8. c.pc = "mergePlatform" => c.user \in Alive' /\ ~users'[c.user].platform
    BY <1>1, <2>1, <2>4 DEF Fits
  <2>9. c.pc \in Merging => \/ c.user \in Alive' /\ ~users'[c.user].platform
                            \/ c.user = c.other /\ c.user \in disturbed'
    BY <1>1, <1>4, <2>1, <2>4 DEF Fits
  <2>10. c.pc \in Deleting => /\ c.other \in Deleted'
                              /\ c.other \notin disturbed' => successor'[c.other] = c.user
    BY <1>1, <1>2, <1>4, <2>1, <2>3 DEF Fits, Deleted
  <2> QED
    BY <2>1, <2>5, <2>6, <2>7, <2>8, <2>9, <2>10 DEF Fits
<1>8. Lone'
  BY <1>2, LoneKept DEF Base
<1>9. (Alive \cap Deleted = {})'
  BY <1>1 DEF Base
<1>10. (\A v \in Alive : users[v].platform \/ users[v].email # NoEmail)'
  BY <1>1 DEF Base
<1> QED
  BY <1>6, <1>7, <1>8, <1>9, <1>10 DEF Base

LEMMA RegisterCreateBase ==
  ASSUME TypeInv, Base, NEW h \in Handlers, NEW u \in Users, RegisterCreate(h, u)
  PROVE  Base'
<1>1. /\ Moves(h, "registerCreate", "storeSession", u, NoUser)
      /\ u \notin Alive /\ successor[u] = NoUser /\ UNCHANGED successor
      /\ Others(u) /\ Alive' = Alive \cup {u} /\ users'[u].email # NoEmail
  BY RegisterCreateStep
<1>2. Frame(h) /\ disturbed \subseteq disturbed'
  BY <1>1 DEF Moves, Frame
<1>3. Deleted' = Deleted /\ Known' = Known \cup {u} /\ u \notin Known
  BY <1>1, DeletedIs DEF Known, Deleted
<1>4. \A v \in Alive : v # u /\ users'[v] = users[v]
  BY <1>1 DEF Others, Alive
<1>5. Fits(call[h])'
  BY <1>1, <1>3, SingleFits DEF Moves, Single
<1>6. ASSUME NEW g \in Handlers, g # h
      PROVE  Fits(call[g])'
  <2> DEFINE c == call[g]
  <2>1. call'[g] = c /\ Fits(c) /\ c.other # u /\ c.user # u
    BY <1>2, <1>3, <1>6, Fit, ConcernIs DEF Frame, Fits
  <2>2. Concern(c) \subseteq Known' /\ (c.other \in Alive' => c.other \in Alive)
    BY <1>1, <1>3, <2>1 DEF Fits
  <2> QED
    BY <1>1, <1>2, <1>3, <1>4, <2>1, <2>2 DEF Fits, Merging, Deleting
<1>7. Lone'
  BY <1>2, LoneKept DEF Base
<1>8. (Alive \cap Deleted = {})'
  BY <1>1, <1>3 DEF Base, Known
<1>9. (\A v \in Alive : users[v].platform \/ users[v].email # NoEmail)'
  BY <1>1, <1>4 DEF Base
<1> QED
  BY <1>5, <1>6, <1>7, <1>8, <1>9 DEF Base

\* A step of the surroundings, which no call takes.
LEMMA BaseSurroundings ==
  ASSUME Base, UNCHANGED <<call, successor>>, Alive' = Alive, disturbed \subseteq disturbed',
         \A v \in Alive : /\ users'[v].platform = users[v].platform
                          /\ users'[v].email = users[v].email
  PROVE  Base'
<1>1. Deleted' = Deleted /\ Known' = Known
  BY DeletedIs DEF Known
<1>2. Lone'
  BY DEF Base, Lone, Concern
<1>3. ASSUME NEW g \in Handlers
      PROVE  Fits(call[g])'
  <2>1. Fits(call[g]) /\ call'[g] = call[g] /\ Concern(call[g])' = Concern(call[g])
    BY DEF Base, Concern
  <2> QED
    BY <1>1, <2>1 DEF Fits, Merging, Deleting
<1> QED
  BY <1>1, <1>2, <1>3 DEF Base

LEMMA LogoutBase ==
  ASSUME TypeInv, Base, NEW u \in Users, Logout(u)
  PROVE  Base'
  BY LogoutStep, BaseSurroundings

LEMMA GrantBase ==
  ASSUME TypeInv, Base, NEW u \in Users, NEW s \in Subs, Grant(u, s)
  PROVE  Base'
<1>1. UNCHANGED <<users, successor, call>> /\ disturbed \subseteq disturbed'
  BY GrantStep
<1>2. Alive' = Alive
  BY <1>1 DEF Alive
<1> QED
  BY <1>1, <1>2, BaseSurroundings

LEMMA CallFailsBase ==
  ASSUME TypeInv, Base, NEW h \in Handlers, CallFails(h)
  PROVE  Base'
<1>1. Frame(h) /\ Standing(h) /\ call'[h] = Idle
  BY CallFailsStep DEF Stands
<1>2. Fits(call[h])'
  BY <1>1, IdleIs, NobodyFits
<1> QED
  BY <1>1, <1>2, BaseKept

\* The users that the calls find are alive.
LEMMA Found ==
  ASSUME NEW h, NEW u \in Users, NEW a
  PROVE  /\ Login(h, u, a) => u \in Known
         /\ RenewFind(h, u, a) => u \in Known
         /\ ResetRequest(h, u, a) => u \in Known
         /\ SetEmail(h, u, a) => u \in Known
         /\ Refresh(h, u) => u \in Known
         /\ \A t \in 1 .. MaxTokens : /\ VerifyFind(h, u, t) => u \in Known
                                      /\ ResetFind(h, u, t) => u \in Known
  BY DEF Login, MayLogin, WithEmail, RenewFind, ResetRequest, SetEmail, Refresh,
     VerifyFind,
         ResetFind, Known

-----------------------------------------------------------------------------
(* The types and Base are kept.                                            *)

LEMMA TypeNext ==
  ASSUME TypeInv, Base, [Next]_vars
  PROVE  TypeInv'
<1>1. ASSUME NEW h \in Handlers, NEW a \in Emails, RegisterEmail(h, a)
      PROVE  TypeInv'
  BY <1>1, RegisterEmailStep
<1>2. ASSUME NEW h \in Handlers, NEW u \in Users, NEW a \in Emails, Login(h, u, a) \/
            RenewFind(h, u, a) \/ SetEmail(h, u, a) \/ ResetRequest(h, u, a)
      PROVE  TypeInv'
  BY <1>2, LoginStep, RenewFindStep, SetEmailStep, ResetRequestStep
<1>3. ASSUME NEW h \in Handlers, NEW u \in Users, Refresh(h, u) \/ MergeBegin(h, u)
            \/ MergePlatformBegin(h, u)
      PROVE  TypeInv'
  BY <1>3, RefreshStep, MergeBeginStep, MergePlatformBeginStep
<1>4. ASSUME NEW h \in Handlers, NEW u \in Users, NEW t \in 1 .. MaxTokens,
            VerifyFind(h, u, t) \/ ResetFind(h, u, t)
      PROVE  TypeInv'
  BY <1>4, VerifyFindStep, ResetFindStep
<1>5. ASSUME NEW h \in Handlers, RegisterName(h) \/ RegisterMail(h) \/
            StoreSession(h) \/ VerifySave(h)
      PROVE  TypeInv'
  BY <1>5, RegisterNameStep, RegisterMailStep, StoreSessionStep, VerifySaveStep
<1>6. ASSUME NEW h \in Handlers, RenewSave(h) \/ Mail(h) \/ ResetTokenSave(h) \/
            ResetSave(h)
      PROVE  TypeInv'
  BY <1>6, RenewSaveStep, MailStep, ResetTokenSaveStep, ResetSaveStep
<1>7. ASSUME NEW h \in Handlers, DeleteOther(h) \/ MergeSave(h) \/ ListSubs(h)
      PROVE  TypeInv'
  BY <1>7, DeleteOtherStep, MergeSaveStep, ListSubsStep
<1>8. ASSUME NEW h \in Handlers, NEW u \in Users, RegisterCreate(h, u) \/
            MergePlatform(h, u)
      PROVE  TypeInv'
  BY <1>8, RegisterCreateStep, MergePlatformStep
<1>9. ASSUME NEW h \in Handlers, NEW u \in Users, NEW a \in Emails, MergeEmail(h, u,
            a)
      PROVE  TypeInv'
  BY <1>9, MergeEmailStep
<1>10. ASSUME NEW h \in Handlers, NEW s \in Subs, Transfer(h, s)
      PROVE  TypeInv'
  BY <1>10, TransferStep
<1>11. ASSUME NEW h \in Handlers, DeleteById(h)
      PROVE  TypeInv'
  BY <1>11, DeleteByIdBase, DeleteByIdStep
<1>12. ASSUME NEW h \in Handlers, CallFails(h)
      PROVE  TypeInv'
  BY <1>12, CallFailsStep
<1>13. ASSUME NEW u \in Users, Logout(u)
      PROVE  TypeInv'
  BY <1>13, LogoutStep
<1>14. ASSUME NEW u \in Users, NEW s \in Subs, Grant(u, s)
      PROVE  TypeInv'
  BY <1>14, GrantStep
<1>15. CASE UNCHANGED vars
  BY <1>15 DEF vars, history, TypeInv, UsersOK, RestOK, Shape
<1> QED
  BY <1>1, <1>2, <1>3, <1>4, <1>5, <1>6, <1>7, <1>8, <1>9, <1>10, <1>11, <1>12,
     <1>13, <1>14, <1>15 DEF Next, CallBegins, CallStep

LEMMA BaseNext ==
  ASSUME TypeInv, Base, [Next]_vars
  PROVE  Base'
<1>1. ASSUME NEW h \in Handlers, NEW a \in Emails, RegisterEmail(h, a)
      PROVE  Base'
  BY <1>1, RegisterEmailStep, BaseNobody DEF Registering, Stands
<1>2. ASSUME NEW h \in Handlers, RegisterName(h)
      PROVE  Base'
  BY <1>2, RegisterNameStep, BaseNobody DEF Registering, Stands
<1>3. ASSUME NEW h \in Handlers, RegisterMail(h)
      PROVE  Base'
  BY <1>3, RegisterMailStep, BaseNobody DEF Registering, Stands
<1>4. ASSUME NEW h \in Handlers, StoreSession(h)
      PROVE  Base'
  BY <1>4, StoreSessionStep, BaseNobody DEF Stands
<1>5. ASSUME NEW h \in Handlers, VerifySave(h)
      PROVE  Base'
  BY <1>5, VerifySaveStep, BaseNobody DEF Stands
<1>6. ASSUME NEW h \in Handlers, Mail(h)
      PROVE  Base'
  BY <1>6, MailStep, BaseNobody DEF Stands
<1>7. ASSUME NEW h \in Handlers, ResetSave(h)
      PROVE  Base'
  BY <1>7, ResetSaveStep, BaseNobody DEF Stands
<1>8. ASSUME NEW h \in Handlers, NEW u \in Users, NEW a \in Emails, Login(h, u, a)
      PROVE  Base'
  BY <1>8, LoginStep, Found, BaseSingle DEF Single, Stands
<1>9. ASSUME NEW h \in Handlers, NEW u \in Users, Refresh(h, u)
      PROVE  Base'
  BY <1>9, RefreshStep, Found, BaseSingle DEF Single, Stands
<1>10. ASSUME NEW h \in Handlers, NEW u \in Users, NEW t \in 1 .. MaxTokens,
            VerifyFind(h, u, t)
      PROVE  Base'
  BY <1>10, VerifyFindStep, Found, BaseSingle DEF Single, Stands
<1>11. ASSUME NEW h \in Handlers, NEW u \in Users, NEW a \in Emails, RenewFind(h, u,
            a)
      PROVE  Base'
  BY <1>11, RenewFindStep, Found, BaseSingle DEF Single, Stands
<1>12. ASSUME NEW h \in Handlers, NEW u \in Users, NEW a \in Emails, SetEmail(h, u, a)
      PROVE  Base'
  BY <1>12, SetEmailStep, Found, BaseSingle DEF Single, Stands
<1>13. ASSUME NEW h \in Handlers, NEW u \in Users, NEW a \in Emails, ResetRequest(h,
            u, a)
      PROVE  Base'
  BY <1>13, ResetRequestStep, Found, BaseSingle DEF Single, Stands
<1>14. ASSUME NEW h \in Handlers, NEW u \in Users, NEW t \in 1 .. MaxTokens,
            ResetFind(h, u, t)
      PROVE  Base'
  BY <1>14, ResetFindStep, Found, BaseSingle DEF Single, Stands
<1>15. ASSUME NEW h \in Handlers, RenewSave(h)
      PROVE  Base'
  BY <1>15, RenewSaveStep, BaseNobody, BaseSingle DEF Single, Stands, Known
<1>16. ASSUME NEW h \in Handlers, ResetTokenSave(h)
      PROVE  Base'
  BY <1>16, ResetTokenSaveStep, BaseNobody, BaseSingle DEF Single, Stands, Known
<1>17. ASSUME NEW h \in Handlers, ListSubs(h)
      PROVE  Base'
  BY <1>17, ListSubsStep, GoesOnBase DEF Deleting, Stands
<1>18. ASSUME NEW h \in Handlers, NEW s \in Subs, Transfer(h, s)
      PROVE  Base'
  BY <1>18, TransferStep, GoesOnBase DEF Deleting, Stands
<1>19. ASSUME NEW h \in Handlers, MergeSave(h)
      PROVE  Base'
  BY <1>19, MergeSaveStep, GoesOnBase, BaseNobody DEF Deleting, Stands
<1>20. ASSUME NEW h \in Handlers, NEW u \in Users, RegisterCreate(h, u)
      PROVE  Base'
  BY <1>20, RegisterCreateBase
<1>21. ASSUME NEW h \in Handlers, NEW u \in Users, MergeBegin(h, u)
      PROVE  Base'
  BY <1>21, MergeBeginBase
<1>22. ASSUME NEW h \in Handlers, NEW u \in Users, MergePlatformBegin(h, u)
      PROVE  Base'
  BY <1>22, MergePlatformBeginBase
<1>23. ASSUME NEW h \in Handlers, NEW u \in Users, NEW a \in Emails, MergeEmail(h, u,
            a)
      PROVE  Base'
  BY <1>23, MergeEmailBase
<1>24. ASSUME NEW h \in Handlers, NEW u \in Users, MergePlatform(h, u)
      PROVE  Base'
  BY <1>24, MergePlatformBase
<1>25. ASSUME NEW h \in Handlers, DeleteOther(h)
      PROVE  Base'
  BY <1>25, DeleteOtherBase
<1>26. ASSUME NEW h \in Handlers, DeleteById(h)
      PROVE  Base'
  BY <1>26, DeleteByIdBase
<1>27. ASSUME NEW h \in Handlers, CallFails(h)
      PROVE  Base'
  BY <1>27, CallFailsBase
<1>28. ASSUME NEW u \in Users, Logout(u)
      PROVE  Base'
  BY <1>28, LogoutBase
<1>29. ASSUME NEW u \in Users, NEW s \in Subs, Grant(u, s)
      PROVE  Base'
  BY <1>29, GrantBase
<1>30. CASE UNCHANGED vars
  BY <1>30 DEF vars, history, Base, Lone, Fits, Concern, Known, Alive, Deleted
<1> QED
  BY <1>1, <1>2, <1>3, <1>4, <1>5, <1>6, <1>7, <1>8, <1>9, <1>10, <1>11, <1>12,
     <1>13, <1>14, <1>15, <1>16, <1>17, <1>18, <1>19, <1>20, <1>21, <1>22, <1>23,
     <1>24, <1>25, <1>26, <1>27, <1>28, <1>29, <1>30 DEF Next, CallBegins, CallStep

\* Slots, accounts and merges, before anything happens.
LEMMA BaseInit ==
  ASSUME Init
  PROVE  TypeInv /\ Base
<1>1. \A h \in Handlers : call[h] = Idle
  BY DEF Init
<1>2. PlatformDoc \in Doc /\ PlatformDoc.platform = TRUE
  BY DEF PlatformDoc, Doc, NoToken
<1>3. UsersOK
  BY <1>2 DEF Init, UsersOK
<1>4. RestOK
  BY DEF Init, RestOK
<1>5. call \in [Handlers -> Call] /\ disturbed \in SUBSET Users
  BY IdleIs DEF Init
<1>6. TypeInv
  BY <1>1, <1>3, <1>4, <1>5, IdleIs DEF TypeInv
<1>7. Deleted = {}
  BY DEF Init, Deleted
<1>8. \A u \in Alive : users[u].platform
  BY <1>2 DEF Init, Alive
<1>9. NoUser \notin Alive /\ Concern(Idle) = {}
  BY IdleIs, NamesAssumption DEF Concern, Alive
<1>10. Fits(Idle)
  BY <1>9, IdleIs DEF Fits, Merging, Deleting
<1>11. Lone
  BY <1>1, <1>9 DEF Lone
<1> QED
  BY <1>1, <1>6, <1>7, <1>8, <1>10, <1>11 DEF Base

-----------------------------------------------------------------------------
(* Merges.                                                                 *)

LEMMA MergesKept ==
  ASSUME TypeInv, Base, Merges, NEW h \in Handlers, Frame(h), Standing(h),
         call[h].pc # "mergeSave"
  PROVE  Merges'
<1> SUFFICES ASSUME NEW u \in Deleted \ disturbed'
             PROVE  Merged(u)'
  BY DeletedIs DEF Merges, Standing
<1> DEFINE v == successor[u]
<1>1. Merged(u) /\ successor' = successor
  BY DEF Merges, Frame, Standing
<1>2. v \in Alive' /\ ~users'[v].platform /\ (users[v].data => users'[v].data)
  BY <1>1 DEF Merged, Standing
<1>3. ASSUME NEW g \in Handlers, Saving(g, u)
      PROVE  Saving(g, u)'
  BY <1>1, <1>3 DEF Saving, Frame
<1> QED
  BY <1>1, <1>2, <1>3 DEF Merged

LEMMA DeleteOtherMerges ==
  ASSUME TypeInv, Base, Merges, NEW h \in Handlers, DeleteOther(h)
  PROVE  Merges'
<1> DEFINE v == call[h].user
           s == call[h].other
<1>1. /\ Alive' = Alive \ {s} /\ Deleted' = Deleted \cup {s}
      /\ \A w \in Alive' : users'[w] = users[w]
  BY DeleteOtherKnown
<1>2. /\ call[h].pc = "deleteOther"
      /\ call'[h].pc = "mergeSave" /\ call'[h].user = v /\ call'[h].other = s
      /\ Frame(h) /\ v \in Users /\ s \in Users
      /\ \A w \in Users \ {s} : successor'[w] = successor[w]
      /\ successor'[s] = IF s \in Alive THEN v ELSE successor[s]
  BY DeleteOtherStep DEF Moves
<1>3. /\ s \in Alive => users[s].platform
      /\ (v \in Alive /\ ~users[v].platform) \/ (v = s /\ v \in disturbed)
      /\ s \in Alive \/ s \in Deleted
  BY <1>2, Fit, ConcernIs DEF Fits, Merging, Known
<1>4. ASSUME NEW u \in Deleted \ disturbed'
      PROVE  Merged(u)'
  <2>1. Merged(u) /\ u \notin Alive /\ u \in Users
    BY <1>2 DEF Merges, Frame, Base, Deleted
  <2>2. successor'[u] = successor[u]
    BY <1>2, <2>1
  <2>3. successor[u] \in Alive' /\ users'[successor[u]] = users[successor[u]]
    BY <1>1, <1>3, <2>1 DEF Merged
  <2>4. ASSUME NEW g \in Handlers, Saving(g, u)
        PROVE  Saving(g, u)'
    BY <1>2, <2>2, <2>4 DEF Saving, Frame
  <2> QED
    BY <2>1, <2>2, <2>3, <2>4 DEF Merged
<1>5. ASSUME NEW u \in {s} \ disturbed', u \notin Deleted
      PROVE  Merged(u)'
  <2>1. successor'[u] = v /\ v \in Alive' /\ users'[v] = users[v] /\ ~users[v].platform
    BY <1>1, <1>2, <1>3, <1>5 DEF Frame
  <2>2. Saving(h, u)'
    BY <1>2, <2>1 DEF Saving
  <2> QED
    BY <2>1, <2>2 DEF Merged
<1> QED
  BY <1>1, <1>4, <1>5 DEF Merges

LEMMA MergeSaveMerges ==
  ASSUME TypeInv, Base, Merges, NEW h \in Handlers, MergeSave(h)
  PROVE  Merges'
<1> DEFINE v == call[h].user
<1>1. /\ call[h].pc = "mergeSave" /\ Frame(h) /\ Standing(h)
      /\ v \in Alive => users'[v].data = TRUE
  BY MergeSaveStep DEF Moves, Stands, Alive
<1>2. v \in Alive \/ (v = call[h].other /\ v \in disturbed)
  BY <1>1, Fit DEF Fits, Merging
<1> SUFFICES ASSUME NEW u \in Deleted \ disturbed'
             PROVE  Merged(u)'
  BY <1>1, DeletedIs DEF Merges, Standing
<1>3. Merged(u) /\ successor' = successor /\ u \notin disturbed
  BY <1>1 DEF Merges, Frame, Standing
<1>4. /\ successor[u] \in Alive' /\ ~users'[successor[u]].platform
      /\ users[successor[u]].data => users'[successor[u]].data
  BY <1>1, <1>3 DEF Merged, Standing
<1>5. ASSUME NEW g \in Handlers, Saving(g, u), g # h
      PROVE  Saving(g, u)'
  BY <1>1, <1>3, <1>5 DEF Saving, Frame
<1>6. Saving(h, u) => users'[successor[u]].data
  BY <1>1, <1>2, <1>3 DEF Saving
<1> QED
  BY <1>3, <1>4, <1>5, <1>6 DEF Merged

LEMMA RegisterCreateMerges ==
  ASSUME TypeInv, Base, Merges, NEW h \in Handlers, NEW u \in Users, RegisterCreate(h, u)
  PROVE  Merges'
<1>1. /\ call[h].pc = "registerCreate" /\ Frame(h) /\ UNCHANGED successor
      /\ u \notin Alive /\ Others(u) /\ Alive' = Alive \cup {u}
  BY RegisterCreateStep DEF Moves
<1>2. \A v \in Alive : users'[v] = users[v]
  BY <1>1 DEF Others, Alive
<1> SUFFICES ASSUME NEW w \in Deleted \ disturbed'
             PROVE  Merged(w)'
  BY <1>1, DeletedIs DEF Merges
<1>3. Merged(w)
  BY <1>1 DEF Merges, Frame
<1>4. ASSUME NEW g \in Handlers, Saving(g, w)
      PROVE  Saving(g, w)'
  BY <1>1, <1>4 DEF Saving, Frame
<1> QED
  BY <1>1, <1>2, <1>3, <1>4 DEF Merged

LEMMA CallFailsMerges ==
  ASSUME TypeInv, Base, Merges, NEW h \in Handlers, CallFails(h)
  PROVE  Merges'
<1>1. Frame(h) /\ UNCHANGED <<users, successor>> /\ Concern(call[h]) \subseteq disturbed'
  BY CallFailsStep DEF history
<1> SUFFICES ASSUME NEW u \in Deleted \ disturbed'
             PROVE  Merged(u)'
  BY <1>1, DeletedIs DEF Merges
<1>2. Merged(u) /\ u \in Users /\ u \notin Concern(call[h])
  BY <1>1 DEF Merges, Frame, Deleted
<1>3. ASSUME NEW g \in Handlers, Saving(g, u)
      PROVE  Saving(g, u)'
  BY <1>1, <1>2, <1>3, ConcernIs DEF Saving, Frame
<1> QED
  BY <1>1, <1>2, <1>3 DEF Merged, Alive

LEMMA MergesSurroundings ==
  ASSUME Merges, UNCHANGED <<call, successor>>, Alive' = Alive, disturbed \subseteq disturbed',
         \A v \in Alive : /\ users'[v].platform = users[v].platform
                          /\ users'[v].data = users[v].data
  PROVE  Merges'
<1>1. Deleted' = Deleted
  BY DeletedIs
<1> QED
  BY <1>1 DEF Merges, Merged, Saving

LEMMA MergesNext ==
  ASSUME TypeInv, Base, Merges, [Next]_vars
  PROVE  Merges'
<1>1. ASSUME NEW h \in Handlers, NEW a \in Emails, RegisterEmail(h, a)
      PROVE  Merges'
  BY <1>1, RegisterEmailStep, MergesKept DEF Moves, Stands
<1>2. ASSUME NEW h \in Handlers, RegisterName(h) \/ RegisterMail(h) \/
            StoreSession(h) \/ Mail(h)
      PROVE  Merges'
  BY <1>2, RegisterNameStep, RegisterMailStep, StoreSessionStep, MailStep, MergesKept
     DEF Moves, Stands
<1>3. ASSUME NEW h \in Handlers, VerifySave(h) \/ ResetSave(h)
      PROVE  Merges'
  BY <1>3, VerifySaveStep, ResetSaveStep, MergesKept DEF Moves
<1>4. ASSUME NEW h \in Handlers, RenewSave(h) \/ ResetTokenSave(h)
      PROVE  Merges'
  BY <1>4, RenewSaveStep, ResetTokenSaveStep, MergesKept DEF Moves
<1>5. ASSUME NEW h \in Handlers, NEW u \in Users, NEW a \in Emails, Login(h, u, a) \/
            RenewFind(h, u, a) \/ SetEmail(h, u, a) \/ ResetRequest(h, u, a)
      PROVE  Merges'
  BY <1>5, LoginStep, RenewFindStep, SetEmailStep, ResetRequestStep, MergesKept DEF
     Moves, Stands
<1>6. ASSUME NEW h \in Handlers, NEW u \in Users, Refresh(h, u) \/ MergeBegin(h, u)
            \/ MergePlatformBegin(h, u) \/ MergePlatform(h, u)
      PROVE  Merges'
  BY <1>6, RefreshStep, MergeBeginStep, MergePlatformBeginStep, MergePlatformStep,
     MergesKept DEF Moves, Stands
<1>7. ASSUME NEW h \in Handlers, NEW u \in Users, NEW t \in 1 .. MaxTokens,
            VerifyFind(h, u, t) \/ ResetFind(h, u, t)
      PROVE  Merges'
  BY <1>7, VerifyFindStep, ResetFindStep, MergesKept DEF Moves, Stands
<1>8. ASSUME NEW h \in Handlers, NEW u \in Users, NEW a \in Emails, MergeEmail(h, u,
            a)
      PROVE  Merges'
  BY <1>8, MergeEmailStep, MergesKept DEF Moves, Stands
<1>9. ASSUME NEW h \in Handlers, ListSubs(h)
      PROVE  Merges'
  BY <1>9, ListSubsStep, MergesKept DEF Moves, Stands
<1>10. ASSUME NEW h \in Handlers, NEW s \in Subs, Transfer(h, s)
      PROVE  Merges'
  BY <1>10, TransferStep, MergesKept DEF Moves, Stands
<1>11. ASSUME NEW h \in Handlers, DeleteById(h)
      PROVE  Merges'
  BY <1>11, DeleteByIdBase, DeleteByIdStep, MergesKept DEF Moves, Stands
<1>12. ASSUME NEW h \in Handlers, NEW u \in Users, RegisterCreate(h, u)
      PROVE  Merges'
  BY <1>12, RegisterCreateMerges
<1>13. ASSUME NEW h \in Handlers, DeleteOther(h)
      PROVE  Merges'
  BY <1>13, DeleteOtherMerges
<1>14. ASSUME NEW h \in Handlers, MergeSave(h)
      PROVE  Merges'
  BY <1>14, MergeSaveMerges
<1>15. ASSUME NEW h \in Handlers, CallFails(h)
      PROVE  Merges'
  BY <1>15, CallFailsMerges
<1>16. ASSUME NEW u \in Users, Logout(u)
      PROVE  Merges'
  BY <1>16, LogoutStep, MergesSurroundings
<1>17. ASSUME NEW u \in Users, NEW s \in Subs, Grant(u, s)
      PROVE  Merges'
  BY <1>17, GrantStep, MergesSurroundings DEF Alive
<1>18. CASE UNCHANGED vars
  BY <1>18 DEF vars, history, Merges, Merged, Saving, Alive, Deleted
<1> QED
  BY <1>1, <1>2, <1>3, <1>4, <1>5, <1>6, <1>7, <1>8, <1>9, <1>10, <1>11, <1>12,
     <1>13, <1>14, <1>15, <1>16, <1>17, <1>18 DEF Next, CallBegins, CallStep

-----------------------------------------------------------------------------
(* Sold.                                                                   *)

\* A slot that carries nothing may go where it will.
LEMMA SoldKept ==
  ASSUME TypeInv, Sold, NEW h \in Handlers, Frame(h), UNCHANGED <<successor, owner, granted>>,
         \A u \in Users, s \in Subs : ~Carries(h, u, s),
         call'[h].pc # "transfer"
  PROVE  Sold'
<1>1. Deleted' = Deleted /\ disturbed \subseteq disturbed'
  BY DeletedIs DEF Frame
<1>2. ASSUME NEW s \in Subs, granted[s] \in Users \ disturbed'
      PROVE  Follows(granted[s], s)'
  <2>1. Follows(granted[s], s)
    BY <1>1, <1>2 DEF Sold
  <2>2. ASSUME NEW g \in Handlers, Carries(g, granted[s], s)
        PROVE  Carries(g, granted[s], s)'
    BY <1>2, <2>2 DEF Carries, Frame
  <2> QED
    BY <1>1, <2>1, <2>2 DEF Follows
<1>3. ASSUME NEW g \in Handlers, call'[g].pc = "transfer", NEW s \in call'[g].left
      PROVE  Listed(call[g], s)'
  BY <1>1, <1>3 DEF Sold, Frame, Listed
<1>4. (\A s \in Subs : owner[s] = NoUser <=> granted[s] = NoUser)'
  BY DEF Sold
<1> QED
  BY <1>2, <1>3, <1>4 DEF Sold

LEMMA NotCarrying ==
  ASSUME NEW h, call[h].pc \notin Deleting
  PROVE  \A u \in Users, s \in Subs : ~Carries(h, u, s)
  BY DEF Carries, Deleting

LEMMA DeleteOtherSold ==
  ASSUME TypeInv, Base, Sold, NEW h \in Handlers, DeleteOther(h)
  PROVE  Sold'
<1> DEFINE v == call[h].user
           s == call[h].other
<1>1. Deleted' = Deleted \cup {s} /\ UNCHANGED <<owner, granted>>
  BY DeleteOtherKnown DEF DeleteOther
<1>2. /\ call[h].pc = "deleteOther"
      /\ call'[h].pc = "mergeSave" /\ call'[h].other = s
      /\ Frame(h) /\ disturbed \subseteq disturbed' /\ s \in Users
      /\ \A w \in Users \ {s} : successor'[w] = successor[w]
      /\ successor'[s] = IF s \in Alive THEN v ELSE successor[s]
  BY DeleteOtherStep DEF Moves, Frame
<1>3. \A w \in Deleted : w \in Users /\ successor'[w] = successor[w]
  BY <1>2 DEF Deleted, Base
<1>4. ASSUME NEW r \in Subs, granted[r] \in Users \ disturbed'
      PROVE  Follows(granted[r], r)'
  <2> DEFINE u == granted[r]
  <2>1. Follows(u, r) /\ granted'[r] = u /\ owner'[r] = owner[r]
    BY <1>1, <1>2, <1>4 DEF Sold
  <2>2. CASE owner[r] = successor[u] /\ u \in Deleted
    BY <1>1, <1>3, <2>1, <2>2 DEF Follows
  <2>3. CASE owner[r] = u /\ u \in Deleted /\ \E g \in Handlers : Carries(g, u, r)
    <3>1. PICK g \in Handlers : Carries(g, u, r)
      BY <2>3
    <3>2. g # h
      BY <1>2, <3>1 DEF Carries
    <3>3. call'[g] = call[g]
      BY <1>2, <3>2 DEF Frame
    <3>4. Carries(g, granted[r], r)'
      BY <2>1, <3>1, <3>3 DEF Carries
    <3> QED
      BY <2>1, <2>3, <3>4 DEF Follows
  <2>4. CASE owner[r] = u /\ u = s
    <3>1. Carries(h, granted[r], r)'
      BY <1>2, <2>1, <2>4 DEF Carries
    <3> QED
      BY <2>1, <2>4, <3>1 DEF Follows
  <2>5. CASE owner[r] = u /\ u \notin Deleted /\ u # s
    BY <1>1, <2>1, <2>5 DEF Follows
  <2> QED
    BY <2>1, <2>2, <2>3, <2>4, <2>5 DEF Follows
<1>5. ASSUME NEW g \in Handlers, call'[g].pc = "transfer", NEW r \in call'[g].left
      PROVE  Listed(call[g], r)'
  BY <1>1, <1>2, <1>5 DEF Sold, Frame, Listed
<1>6. (\A r \in Subs : owner[r] = NoUser <=> granted[r] = NoUser)'
  BY <1>1 DEF Sold
<1> QED
  BY <1>1, <1>4, <1>5, <1>6 DEF Sold

\* A merge goes on and moves nothing yet.
LEMMA CarryOn ==
  ASSUME TypeInv, Sold, NEW h \in Handlers, Frame(h), UNCHANGED <<successor, owner, granted>>,
         \A u \in Users \ disturbed', s \in Subs :
           Carries(h, u, s) /\ owner[s] = u => Carries(h, u, s)',
         call'[h].pc = "transfer" => \A s \in call'[h].left : Listed(call[h], s)'
  PROVE  Sold'
<1>1. Deleted' = Deleted /\ disturbed \subseteq disturbed'
  BY DeletedIs DEF Frame
<1>2. ASSUME NEW s \in Subs, granted[s] \in Users \ disturbed'
      PROVE  Follows(granted[s], s)'
  <2> DEFINE u == granted[s]
  <2>1. Follows(u, s) /\ granted'[s] = u
    BY <1>1, <1>2 DEF Sold
  <2>2. ASSUME NEW g \in Handlers, Carries(g, u, s), owner[s] = u
        PROVE  Carries(g, granted[s], s)'
    <3>1. CASE g = h
      BY <1>2, <2>1, <2>2, <3>1 DEF Carries
    <3>2. CASE g # h
      BY <2>1, <2>2, <3>2 DEF Carries, Frame
    <3> QED
      BY <3>1, <3>2
  <2> QED
    BY <1>1, <2>1, <2>2 DEF Follows
<1>3. ASSUME NEW g \in Handlers, call'[g].pc = "transfer", NEW s \in call'[g].left
      PROVE  Listed(call[g], s)'
  BY <1>1, <1>3 DEF Sold, Frame, Listed
<1>4. (\A s \in Subs : owner[s] = NoUser <=> granted[s] = NoUser)'
  BY DEF Sold
<1> QED
  BY <1>2, <1>3, <1>4 DEF Sold

LEMMA MergeSaveSold ==
  ASSUME TypeInv, Base, Sold, NEW h \in Handlers, MergeSave(h)
  PROVE  Sold'
<1>1. /\ call[h].pc = "mergeSave" /\ Frame(h) /\ disturbed \subseteq disturbed'
      /\ UNCHANGED <<successor, owner, granted>>
      /\ call'[h].pc # "transfer"
      /\ call[h].user \in Alive => call'[h].pc = "list" /\ call'[h].other = call[h].other
  BY MergeSaveStep DEF Moves, Frame, MergeSave, history
<1>2. call[h].user \in Alive \/ (call[h].user = call[h].other /\ call[h].user \in disturbed)
  BY <1>1, Fit DEF Fits, Merging
<1>3. \A u \in Users \ disturbed', s \in Subs : Carries(h, u, s) => Carries(h, u, s)'
  BY <1>1, <1>2 DEF Carries
<1> QED
  BY <1>1, <1>3, CarryOn

\* What is listed for the account that goes was sold to it: nothing moves into an
\* account that is gone.
LEMMA ListSubsSold ==
  ASSUME TypeInv, Base, Merges, Sold, NEW h \in Handlers, ListSubs(h)
  PROVE  Sold'
<1> DEFINE w == call[h].other
<1>1. /\ call[h].pc = "list" /\ call'[h].pc = "transfer" /\ call'[h].other = w
      /\ call'[h].left = {s \in Subs : owner[s] = w}
      /\ Frame(h) /\ disturbed \subseteq disturbed'
      /\ UNCHANGED <<successor, owner, granted>>
  BY ListSubsStep DEF Moves, Frame, ListSubs, history
<1>2. w \in Users /\ w \in Deleted /\ w \notin Alive
  BY <1>1, Fit, Here DEF Fits, Base, Shape, Merging, Deleting
<1>3. ASSUME NEW u \in Users, NEW s \in Subs, Carries(h, u, s), owner[s] = u
      PROVE  Carries(h, u, s)'
  BY <1>1, <1>3 DEF Carries
<1>4. ASSUME NEW s \in call'[h].left
      PROVE  Listed(call[h], s)'
  <2>1. s \in Subs /\ owner[s] = w /\ owner[s] # NoUser
    BY <1>1, <1>2, <1>4, NamesAssumption
  <2>2. ASSUME granted[s] \notin disturbed'
        PROVE  granted[s] = w
    <3>1. granted[s] \in Users \ disturbed
      BY <1>1, <2>1, <2>2 DEF Sold, TypeInv, RestOK
    <3>2. Follows(granted[s], s)
      BY <2>1, <3>1 DEF Sold
    <3>3. granted[s] \in Deleted => successor[granted[s]] \in Alive
      BY <3>1 DEF Merges, Merged
    <3> QED
      BY <1>2, <2>1, <3>2, <3>3 DEF Follows
  <2> QED
    BY <1>1, <2>1, <2>2 DEF Listed
<1> QED
  BY <1>1, <1>3, <1>4, CarryOn

LEMMA TransferSold ==
  ASSUME TypeInv, Base, Sold, NEW h \in Handlers, NEW s \in Subs, Transfer(h, s)
  PROVE  Sold'
<1> DEFINE v == call[h].user
           w == call[h].other
<1>1. /\ call[h].pc = "transfer" /\ s \in call[h].left /\ Frame(h)
      /\ call'[h].pc = "transfer" /\ call'[h].other = w
      /\ call'[h].left = call[h].left \ {s}
      /\ disturbed \subseteq disturbed' /\ UNCHANGED <<successor, granted>>
  BY TransferStep DEF Moves, Frame, Transfer, history
<1>2. owner'[s] = v /\ \A r \in Subs \ {s} : owner'[r] = owner[r]
  BY DEF Transfer, TypeInv, RestOK
<1>3. v \in Users /\ w \in Users /\ w \in Deleted /\ (w \notin disturbed => successor[w] = v)
        /\ v # NoUser
  BY <1>1, Fit, Here, NamesAssumption DEF Fits, Shape, Merging, Deleting
<1>4. Listed(call[h], s) /\ granted[s] # NoUser
  BY <1>1 DEF Sold, Listed
<1>5. Deleted' = Deleted
  BY <1>1, DeletedIs
<1>6. ASSUME NEW r \in Subs, granted[r] \in Users \ disturbed'
      PROVE  Follows(granted[r], r)'
  <2> DEFINE u == granted[r]
  <2>1. Follows(u, r) /\ granted'[r] = u /\ u \notin disturbed
    BY <1>1, <1>6 DEF Sold
  <2>2. CASE r = s
    <3>1. u = w /\ owner'[r] = successor[u]
      BY <1>2, <1>3, <1>4, <2>1, <2>2 DEF Listed
    <3> QED
      BY <1>1, <1>3, <1>5, <2>1, <3>1 DEF Follows
  <2>3. CASE r # s
    <3>1. owner'[r] = owner[r]
      BY <1>2, <2>3
    <3>2. ASSUME NEW g \in Handlers, Carries(g, u, r)
          PROVE  Carries(g, granted[r], r)'
      <4>1. CASE g = h
        BY <1>1, <2>1, <2>3, <3>2, <4>1 DEF Carries
      <4>2. CASE g # h
        BY <1>1, <2>1, <3>2, <4>2 DEF Carries, Frame
      <4> QED
        BY <4>1, <4>2
    <3> QED
      BY <1>1, <1>5, <2>1, <3>1, <3>2 DEF Follows
  <2> QED
    BY <2>2, <2>3
<1>7. ASSUME NEW g \in Handlers, call'[g].pc = "transfer", NEW r \in call'[g].left
      PROVE  Listed(call[g], r)'
  <2>1. call[g].pc = "transfer" /\ r \in call[g].left /\ call'[g].other = call[g].other
    BY <1>1, <1>7 DEF Frame
  <2>2. Listed(call[g], r) /\ r \in Subs
    BY <2>1, Here DEF Sold
  <2>3. owner'[r] # NoUser
    BY <1>2, <1>3, <2>2 DEF Listed
  <2> QED
    BY <1>1, <2>1, <2>2, <2>3 DEF Listed
<1>8. (\A r \in Subs : owner[r] = NoUser <=> granted[r] = NoUser)'
  BY <1>1, <1>2, <1>3, <1>4 DEF Sold
<1> QED
  BY <1>1, <1>6, <1>7, <1>8 DEF Sold

LEMMA DeleteByIdSold ==
  ASSUME TypeInv, Base, Sold, NEW h \in Handlers, DeleteById(h)
  PROVE  Sold'
<1>1. Frame(h) /\ UNCHANGED <<successor, owner, granted>> /\ call'[h].pc # "transfer"
        /\ call[h].pc = "transfer" /\ call[h].left = {}
  BY DeleteByIdBase, DeleteByIdStep DEF Moves, DeleteById, history
<1>2. \A u \in Users, s \in Subs : ~Carries(h, u, s)
  BY <1>1 DEF Carries
<1> QED
  BY <1>1, <1>2, SoldKept

LEMMA CallFailsSold ==
  ASSUME TypeInv, Base, Sold, NEW h \in Handlers, CallFails(h)
  PROVE  Sold'
<1>1. /\ Frame(h) /\ UNCHANGED <<successor, owner, granted>> /\ call'[h].pc # "transfer"
      /\ Concern(call[h]) \subseteq disturbed'
  BY CallFailsStep, IdleIs DEF history
<1>2. \A u \in Users \ disturbed', s \in Subs : ~Carries(h, u, s)
  BY <1>1, ConcernIs DEF Carries
<1> QED
  BY <1>1, <1>2, CarryOn

LEMMA SoldSurroundings ==
  ASSUME Sold, UNCHANGED <<call, successor, owner, granted>>, disturbed \subseteq disturbed'
  PROVE  Sold'
<1>1. Deleted' = Deleted
  BY DeletedIs
<1> QED
  BY <1>1 DEF Sold, Follows, Carries, Listed

LEMMA GrantSold ==
  ASSUME TypeInv, Base, Sold, NEW u \in Users, NEW s \in Subs, Grant(u, s)
  PROVE  Sold'
<1>1. /\ UNCHANGED <<users, successor, call>> /\ disturbed \subseteq disturbed'
      /\ owner[s] = NoUser /\ owner'[s] = u /\ granted'[s] = u
      /\ \A r \in Subs \ {s} : owner'[r] = owner[r] /\ granted'[r] = granted[r]
      /\ u \notin disturbed' => u \in Alive
  BY GrantStep
<1>2. Deleted' = Deleted /\ u # NoUser
  BY <1>1, DeletedIs, NamesAssumption
<1>3. ASSUME NEW r \in Subs, granted'[r] \in Users \ disturbed'
      PROVE  Follows(granted[r], r)'
  <2>1. CASE r = s
    BY <1>1, <1>2, <1>3, <2>1 DEF Follows, Base
  <2>2. CASE r # s
    <3>1. Follows(granted[r], r) /\ granted'[r] = granted[r] /\ owner'[r] = owner[r]
      BY <1>1, <1>3, <2>2 DEF Sold
    <3> QED
      BY <1>1, <1>2, <3>1 DEF Follows, Carries
  <2> QED
    BY <2>1, <2>2
<1>4. ASSUME NEW g \in Handlers, call'[g].pc = "transfer", NEW r \in call'[g].left
      PROVE  Listed(call[g], r)'
  <2>1. Listed(call[g], r) /\ r \in Subs /\ r # s
    BY <1>1, <1>4, Here DEF Sold, Listed
  <2> QED
    BY <1>1, <2>1 DEF Listed
<1>5. (\A r \in Subs : owner[r] = NoUser <=> granted[r] = NoUser)'
  BY <1>1, <1>2 DEF Sold
<1> QED
  BY <1>3, <1>4, <1>5 DEF Sold

LEMMA SoldNext ==
  ASSUME TypeInv, Base, Merges, Sold, [Next]_vars
  PROVE  Sold'
<1>1. ASSUME NEW h \in Handlers, NEW a \in Emails, RegisterEmail(h, a)
      PROVE  Sold'
  BY <1>1, RegisterEmailStep, SoldKept, NotCarrying DEF Moves, Deleting, history,
     RegisterEmail
<1>2. ASSUME NEW h \in Handlers, RegisterName(h) \/ RegisterMail(h)
      PROVE  Sold'
  BY <1>2, RegisterNameStep, RegisterMailStep, SoldKept, NotCarrying DEF Moves,
     Deleting, history, RegisterName, RegisterMail
<1>3. ASSUME NEW h \in Handlers, StoreSession(h) \/ Mail(h)
      PROVE  Sold'
  BY <1>3, StoreSessionStep, MailStep, SoldKept, NotCarrying DEF Moves, Deleting,
     history, StoreSession, Mail
<1>4. ASSUME NEW h \in Handlers, VerifySave(h) \/ ResetSave(h)
      PROVE  Sold'
  BY <1>4, VerifySaveStep, ResetSaveStep, SoldKept, NotCarrying DEF Moves, Deleting,
     history, VerifySave, ResetSave
<1>5. ASSUME NEW h \in Handlers, RenewSave(h) \/ ResetTokenSave(h)
      PROVE  Sold'
  BY <1>5, RenewSaveStep, ResetTokenSaveStep, SoldKept, NotCarrying DEF Moves, Deleting,
     history, RenewSave, ResetTokenSave
<1>6. ASSUME NEW h \in Handlers, NEW u \in Users, NEW a \in Emails, Login(h, u, a) \/
            RenewFind(h, u, a)
      PROVE  Sold'
  BY <1>6, LoginStep, RenewFindStep, SoldKept, NotCarrying DEF Moves, Deleting, history,
     Login, RenewFind
<1>7. ASSUME NEW h \in Handlers, NEW u \in Users, NEW a \in Emails, SetEmail(h, u, a)
            \/ ResetRequest(h, u, a)
      PROVE  Sold'
  BY <1>7, SetEmailStep, ResetRequestStep, SoldKept, NotCarrying DEF Moves, Deleting,
     history, SetEmail, ResetRequest
<1>8. ASSUME NEW h \in Handlers, NEW u \in Users, Refresh(h, u) \/ MergeBegin(h, u)
      PROVE  Sold'
  BY <1>8, RefreshStep, MergeBeginStep, SoldKept, NotCarrying DEF Moves, Deleting,
     history, Refresh, MergeBegin
<1>9. ASSUME NEW h \in Handlers, NEW u \in Users, MergePlatformBegin(h, u) \/
            MergePlatform(h, u) \/ RegisterCreate(h, u)
      PROVE  Sold'
  BY <1>9, MergePlatformBeginStep, MergePlatformStep, RegisterCreateStep, SoldKept,
     NotCarrying DEF Moves, Deleting, history, MergePlatformBegin, MergePlatform,
     RegisterCreate
<1>10. ASSUME NEW h \in Handlers, NEW u \in Users, NEW t \in 1 .. MaxTokens,
            VerifyFind(h, u, t) \/ ResetFind(h, u, t)
      PROVE  Sold'
  BY <1>10, VerifyFindStep, ResetFindStep, SoldKept, NotCarrying DEF Moves, Deleting,
     history, VerifyFind, ResetFind
<1>11. ASSUME NEW h \in Handlers, NEW u \in Users, NEW a \in Emails, MergeEmail(h, u,
            a)
      PROVE  Sold'
  BY <1>11, MergeEmailStep, SoldKept, NotCarrying DEF Moves, Deleting, history, MergeEmail
<1>12. ASSUME NEW h \in Handlers, DeleteOther(h)
      PROVE  Sold'
  BY <1>12, DeleteOtherSold
<1>13. ASSUME NEW h \in Handlers, MergeSave(h)
      PROVE  Sold'
  BY <1>13, MergeSaveSold
<1>14. ASSUME NEW h \in Handlers, ListSubs(h)
      PROVE  Sold'
  BY <1>14, ListSubsSold
<1>15. ASSUME NEW h \in Handlers, NEW s \in Subs, Transfer(h, s)
      PROVE  Sold'
  BY <1>15, TransferSold
<1>16. ASSUME NEW h \in Handlers, DeleteById(h)
      PROVE  Sold'
  BY <1>16, DeleteByIdSold
<1>17. ASSUME NEW h \in Handlers, CallFails(h)
      PROVE  Sold'
  BY <1>17, CallFailsSold
<1>18. ASSUME NEW u \in Users, NEW s \in Subs, Grant(u, s)
      PROVE  Sold'
  BY <1>18, GrantSold
<1>19. ASSUME NEW u \in Users, Logout(u)
      PROVE  Sold'
  BY <1>19, LogoutStep, SoldSurroundings DEF Logout
<1>20. CASE UNCHANGED vars
  BY <1>20, SoldSurroundings DEF vars, history
<1> QED
  BY <1>1, <1>2, <1>3, <1>4, <1>5, <1>6, <1>7, <1>8, <1>9, <1>10, <1>11, <1>12,
     <1>13, <1>14, <1>15, <1>16, <1>17, <1>18, <1>19, <1>20 DEF Next, CallBegins, CallStep

-----------------------------------------------------------------------------
(* Sessions.                                                               *)

Storing == {"storeSession"} \cup Merging

LEMMA SessionsKept ==
  ASSUME TypeInv, Sessions, NEW h \in Handlers, Frame(h), SessionStands,
         Known \subseteq Known', loggedOut' \subseteq loggedOut,
         call'[h].pc \in Storing => call'[h].user \notin loggedOut' \ disturbed'
  PROVE  Sessions'
<1>1. (loggedOut \subseteq Known)'
  BY DEF Sessions
<1>2. ASSUME NEW g \in Handlers, call'[g].pc \in {"storeSession"} \cup Merging
      PROVE  call'[g].user \notin loggedOut' \ disturbed'
  BY <1>2 DEF Sessions, Frame, Storing
<1>3. LogoutHolds'
  BY DEF Sessions, LogoutHolds, SessionStands, Frame
<1> QED
  BY <1>1, <1>2, <1>3 DEF Sessions

LEMMA KnownStands ==
  ASSUME NEW h, Standing(h)
  PROVE  Known' = Known
  BY DeletedIs DEF Standing, Known

\* Steps to where no session is about to be stored.
LEMMA SessionsQuiet ==
  ASSUME TypeInv, Sessions, NEW h \in Handlers, Frame(h), SessionStands, Standing(h),
         UNCHANGED loggedOut, call'[h].pc \notin Storing
  PROVE  Sessions'
  BY KnownStands, SessionsKept

\* A merge that goes on.
LEMMA SessionsMerging ==
  ASSUME TypeInv, Sessions, NEW h \in Handlers, Frame(h), SessionStands,
         Known' = Known, UNCHANGED loggedOut, call[h].pc \in Merging,
         call'[h].user = call[h].user
  PROVE  Sessions'
<1>1. call'[h].user \notin loggedOut' \ disturbed'
  BY DEF Sessions, Frame
<1> QED
  BY <1>1, SessionsKept

LEMMA LoginSessions ==
  ASSUME TypeInv, Sessions, NEW h \in Handlers, NEW u \in Users, NEW a \in Emails, Login(h, u, a)
  PROVE  Sessions'
<1>1. Moves(h, "idle", "storeSession", u, NoUser) /\ Stands(h) /\ loggedOut' = loggedOut \ {u}
  BY LoginStep DEF Login
<1> QED
  BY <1>1, KnownStands, SessionsKept DEF Moves, Stands

LEMMA RefreshSessions ==
  ASSUME TypeInv, Sessions, NEW h \in Handlers, NEW u \in Users, Refresh(h, u)
  PROVE  Sessions'
<1>1. Moves(h, "idle", "storeSession", u, NoUser) /\ Stands(h) /\ UNCHANGED loggedOut
  BY RefreshStep DEF Refresh, history
<1>2. u \notin loggedOut' \ disturbed'
  BY <1>1 DEF Refresh, Sessions, LogoutHolds, Moves, Frame
<1> QED
  BY <1>1, <1>2, KnownStands, SessionsKept DEF Moves, Stands

LEMMA StoreSessionSessions ==
  ASSUME TypeInv, Sessions, NEW h \in Handlers, StoreSession(h)
  PROVE  Sessions'
<1> DEFINE u == call[h].user
<1>1. /\ Moves(h, "storeSession", "idle", NoUser, NoUser) /\ Standing(h) /\ Others(u)
      /\ UNCHANGED loggedOut
  BY StoreSessionStep DEF StoreSession, history
<1>2. u \notin loggedOut \ disturbed /\ disturbed \subseteq disturbed'
  BY <1>1 DEF Sessions, Moves, Frame
<1>3. (loggedOut \subseteq Known)'
  BY <1>1, KnownStands DEF Sessions
<1>4. ASSUME NEW g \in Handlers, call'[g].pc \in {"storeSession"} \cup Merging
      PROVE  call'[g].user \notin loggedOut' \ disturbed'
  BY <1>1, <1>2, <1>4 DEF Sessions, Moves, Frame, Merging
<1>5. LogoutHolds'
  BY <1>1, <1>2 DEF Sessions, LogoutHolds, Others, Standing, Alive
<1> QED
  BY <1>3, <1>4, <1>5 DEF Sessions

LEMMA RegisterCreateSessions ==
  ASSUME TypeInv, Sessions, NEW h \in Handlers, NEW u \in Users, RegisterCreate(h, u)
  PROVE  Sessions'
<1>1. /\ Moves(h, "registerCreate", "storeSession", u, NoUser)
      /\ u \notin Alive /\ successor[u] = NoUser /\ UNCHANGED successor
      /\ Others(u) /\ Alive' = Alive \cup {u} /\ users'[u].session = FALSE
      /\ UNCHANGED loggedOut
  BY RegisterCreateStep DEF RegisterCreate, history
<1>2. u \notin loggedOut /\ Known \subseteq Known' /\ disturbed \subseteq disturbed'
  BY <1>1, DeletedIs DEF Sessions, Known, Deleted, Moves, Frame
<1>3. ASSUME NEW g \in Handlers, call'[g].pc \in {"storeSession"} \cup Merging
      PROVE  call'[g].user \notin loggedOut' \ disturbed'
  BY <1>1, <1>2, <1>3 DEF Sessions, Moves, Frame
<1>4. LogoutHolds'
  BY <1>1, <1>2 DEF Sessions, LogoutHolds, Others, Alive
<1> QED
  BY <1>1, <1>2, <1>3, <1>4 DEF Sessions

LEMMA MergeEmailSessions ==
  ASSUME TypeInv, Sessions, NEW h \in Handlers, NEW u \in Users, NEW a \in Emails,
         MergeEmail(h, u, a)
  PROVE  Sessions'
<1>1. /\ Moves(h, "mergeEmail", "deleteOther", u, call[h].other) /\ Stands(h)
      /\ loggedOut' = loggedOut \ {u}
  BY MergeEmailStep DEF MergeEmail
<1> QED
  BY <1>1, KnownStands, SessionsKept DEF Moves, Stands

LEMMA MergePlatformSessions ==
  ASSUME TypeInv, Sessions, NEW h \in Handlers, NEW s \in Users, MergePlatform(h, s)
  PROVE  Sessions'
<1>1. /\ Moves(h, "mergePlatform", "deleteOther", call[h].user, s) /\ Stands(h)
      /\ loggedOut' = loggedOut \ {call[h].user}
  BY MergePlatformStep DEF MergePlatform
<1>2. call'[h].user \notin loggedOut'
  BY <1>1 DEF Moves
<1> QED
  BY <1>1, <1>2, KnownStands, SessionsKept DEF Moves, Stands

LEMMA MergeSaveSessions ==
  ASSUME TypeInv, Sessions, NEW h \in Handlers, MergeSave(h)
  PROVE  Sessions'
<1>1. Stands(h) /\ UNCHANGED loggedOut /\ call[h].pc = "mergeSave"
  BY MergeSaveStep DEF MergeSave, history
<1>2. CASE call[h].user \in Alive
  BY <1>1, <1>2, MergeSaveStep, KnownStands, SessionsMerging DEF Moves, Stands, Merging
<1>3. CASE call[h].user \notin Alive
  BY <1>1, <1>3, MergeSaveStep, SessionsQuiet DEF Moves, Stands, Storing, Merging
<1> QED
  BY <1>2, <1>3

LEMMA LogoutSessions ==
  ASSUME TypeInv, Sessions, NEW u \in Users, Logout(u)
  PROVE  Sessions'
<1>1. /\ UNCHANGED <<call, successor>> /\ Alive' = Alive /\ Others(u)
      /\ users'[u].session = FALSE
      /\ loggedOut' = loggedOut \cup {u} /\ u \in Alive
      /\ disturbed \subseteq disturbed'
      /\ \A h \in Handlers : u \in Concern(call[h]) => u \in disturbed'
  BY LogoutStep
<1>2. (loggedOut \subseteq Known)'
  BY <1>1, DeletedIs DEF Sessions, Known
<1>3. ASSUME NEW g \in Handlers, call'[g].pc \in {"storeSession"} \cup Merging
      PROVE  call'[g].user \notin loggedOut' \ disturbed'
  <2>1. call[g].user \in Users /\ call[g].user \notin loggedOut \ disturbed
    BY <1>1, <1>3, Here DEF Sessions, Shape, Single, Merging
  <2> QED
    BY <1>1, <2>1, ConcernIs
<1>4. LogoutHolds'
  BY <1>1 DEF Sessions, LogoutHolds, Others, Alive
<1> QED
  BY <1>2, <1>3, <1>4 DEF Sessions

LEMMA GrantSessions ==
  ASSUME TypeInv, Sessions, NEW u \in Users, NEW s \in Subs, Grant(u, s)
  PROVE  Sessions'
<1>1. UNCHANGED <<users, successor, call, loggedOut>> /\ disturbed \subseteq disturbed'
  BY GrantStep
<1> QED
  BY <1>1 DEF Sessions, LogoutHolds, Known, Alive, Deleted

LEMMA SessionsNext ==
  ASSUME TypeInv, Base, Sessions, [Next]_vars
  PROVE  Sessions'
<1>1. ASSUME NEW h \in Handlers, NEW a \in Emails, RegisterEmail(h, a)
      PROVE  Sessions'
  BY <1>1, RegisterEmailStep, SessionsQuiet DEF Moves, Stands, Storing, Merging,
     history, RegisterEmail
<1>2. ASSUME NEW h \in Handlers, RegisterName(h) \/ RegisterMail(h)
      PROVE  Sessions'
  BY <1>2, RegisterNameStep, RegisterMailStep, SessionsQuiet DEF Moves, Stands, Storing,
     Merging, history, RegisterName, RegisterMail
<1>3. ASSUME NEW h \in Handlers, Mail(h) \/ VerifySave(h)
      PROVE  Sessions'
  BY <1>3, MailStep, VerifySaveStep, SessionsQuiet DEF Moves, Stands, Storing, Merging,
     history, Mail, VerifySave
<1>4. ASSUME NEW h \in Handlers, ResetSave(h)
      PROVE  Sessions'
  BY <1>4, ResetSaveStep, SessionsQuiet DEF Moves, Stands, Storing, Merging, history,
     ResetSave
<1>5. ASSUME NEW h \in Handlers, RenewSave(h) \/ ResetTokenSave(h)
      PROVE  Sessions'
  BY <1>5, RenewSaveStep, ResetTokenSaveStep, SessionsQuiet DEF Moves, Stands, Storing,
     Merging, history, RenewSave, ResetTokenSave
<1>6. ASSUME NEW h \in Handlers, NEW u \in Users, NEW a \in Emails, RenewFind(h, u,
            a) \/ SetEmail(h, u, a)
      PROVE  Sessions'
  BY <1>6, RenewFindStep, SetEmailStep, SessionsQuiet DEF Moves, Stands, Storing,
     Merging, history, RenewFind, SetEmail
<1>7. ASSUME NEW h \in Handlers, NEW u \in Users, NEW a \in Emails, ResetRequest(h,
            u, a)
      PROVE  Sessions'
  BY <1>7, ResetRequestStep, SessionsQuiet DEF Moves, Stands, Storing, Merging, history,
     ResetRequest
<1>8. ASSUME NEW h \in Handlers, NEW u \in Users, MergeBegin(h, u) \/
            MergePlatformBegin(h, u)
      PROVE  Sessions'
  BY <1>8, MergeBeginStep, MergePlatformBeginStep, SessionsQuiet DEF Moves, Stands,
     Storing, Merging, history, MergeBegin, MergePlatformBegin
<1>9. ASSUME NEW h \in Handlers, NEW u \in Users, NEW t \in 1 .. MaxTokens,
            VerifyFind(h, u, t) \/ ResetFind(h, u, t)
      PROVE  Sessions'
  BY <1>9, VerifyFindStep, ResetFindStep, SessionsQuiet DEF Moves, Stands, Storing,
     Merging, history, VerifyFind, ResetFind
<1>10. ASSUME NEW h \in Handlers, DeleteOther(h)
      PROVE  Sessions'
  BY <1>10, DeleteOtherStep, DeleteOtherKnown, SessionsMerging DEF Moves, Merging,
     DeleteOther
<1>11. ASSUME NEW h \in Handlers, ListSubs(h)
      PROVE  Sessions'
  BY <1>11, ListSubsStep, KnownStands, SessionsMerging DEF Moves, Merging, Stands,
     ListSubs, history
<1>12. ASSUME NEW h \in Handlers, NEW s \in Subs, Transfer(h, s)
      PROVE  Sessions'
  BY <1>12, TransferStep, KnownStands, SessionsMerging DEF Moves, Merging, Stands,
     Transfer, history
<1>13. ASSUME NEW h \in Handlers, DeleteById(h)
      PROVE  Sessions'
  BY <1>13, DeleteByIdBase, DeleteByIdStep, KnownStands, SessionsMerging DEF Moves,
     Merging, Stands, DeleteById, history
<1>14. ASSUME NEW h \in Handlers, CallFails(h)
      PROVE  Sessions'
  BY <1>14, CallFailsStep, IdleIs, SessionsQuiet DEF Stands, Storing, Merging, history
<1>15. ASSUME NEW h \in Handlers, NEW u \in Users, NEW a \in Emails, Login(h, u, a)
      PROVE  Sessions'
  BY <1>15, LoginSessions
<1>16. ASSUME NEW h \in Handlers, NEW u \in Users, Refresh(h, u)
      PROVE  Sessions'
  BY <1>16, RefreshSessions
<1>17. ASSUME NEW h \in Handlers, StoreSession(h)
      PROVE  Sessions'
  BY <1>17, StoreSessionSessions
<1>18. ASSUME NEW h \in Handlers, NEW u \in Users, RegisterCreate(h, u)
      PROVE  Sessions'
  BY <1>18, RegisterCreateSessions
<1>19. ASSUME NEW h \in Handlers, NEW u \in Users, NEW a \in Emails, MergeEmail(h, u,
            a)
      PROVE  Sessions'
  BY <1>19, MergeEmailSessions
<1>20. ASSUME NEW h \in Handlers, NEW u \in Users, MergePlatform(h, u)
      PROVE  Sessions'
  BY <1>20, MergePlatformSessions
<1>21. ASSUME NEW h \in Handlers, MergeSave(h)
      PROVE  Sessions'
  BY <1>21, MergeSaveSessions
<1>22. ASSUME NEW u \in Users, Logout(u)
      PROVE  Sessions'
  BY <1>22, LogoutSessions
<1>23. ASSUME NEW u \in Users, NEW s \in Subs, Grant(u, s)
      PROVE  Sessions'
  BY <1>23, GrantSessions
<1>24. CASE UNCHANGED vars
  BY <1>24 DEF vars, history, Sessions, LogoutHolds, Known, Alive, Deleted
<1> QED
  BY <1>1, <1>2, <1>3, <1>4, <1>5, <1>6, <1>7, <1>8, <1>9, <1>10, <1>11, <1>12,
     <1>13, <1>14, <1>15, <1>16, <1>17, <1>18, <1>19, <1>20, <1>21, <1>22, <1>23,
     <1>24 DEF Next, CallBegins, CallStep

-----------------------------------------------------------------------------
(* Resets.                                                                 *)

LEMMA Numbers ==
  ASSUME TypeInv
  PROVE  /\ issued \in Nat /\ spent \subseteq Nat /\ opened \subseteq Nat
         /\ mailed \subseteq Nat \X Emails
         /\ \A u \in Alive : /\ users[u].rtoken \in Nat /\ users[u].vtoken \in Nat
                             /\ users[u] \in Doc
         /\ \A h \in Handlers : call[h].token \in Nat
<1>1. ASSUME NEW u \in Alive
      PROVE  users[u] \in Doc
  BY <1>1, DocIs DEF Alive
<1> QED
  BY <1>1, Here DEF TypeInv, RestOK, Doc

\* Steps that leave the tokens of resets alone.
LEMMA ResetsKept ==
  ASSUME TypeInv, TypeInv', Resets, NEW h \in Handlers, Frame(h), ResetStands,
         issued' \in {issued, issued + 1}, UNCHANGED <<spent, twice>>,
         call'[h].pc \notin {"resetTokenSave", "resetSave"}
  PROVE  Resets'
<1>1. issued \in Nat /\ issued' \in Nat /\ issued <= issued'
  BY DEF TypeInv, RestOK
<1>2. (\A u \in Alive : users[u].rtoken <= issued)'
  BY <1>1, Numbers DEF Resets, ResetStands
<1>3. (\A t \in spent : t <= issued)'
  BY <1>1, Numbers DEF Resets
<1>4. (\A u, v \in Alive : u # v /\ users[u].rtoken = users[v].rtoken
                             => users[u].rtoken = NoToken)'
  BY DEF Resets, ResetStands
<1>5. (\A u \in Alive \ disturbed : users[u].rtoken # NoToken => users[u].rtoken \notin spent)'
  BY DEF Resets, ResetStands, Frame
<1>6. ASSUME NEW g \in Handlers, call'[g].pc = "resetTokenSave"
      PROVE  ResetAsked(g)'
  <2>1. g # h /\ call'[g] = call[g] /\ ResetAsked(g)
    BY <1>6 DEF Resets, Frame
  <2>2. call'[g].token <= issued'
    BY <1>1, <2>1, Numbers DEF ResetAsked
  <2>3. \A f \in Handlers \ {g} :
          call'[f].pc \in {"resetTokenSave", "resetSave"} => call'[f].token # call'[g].token
    BY <2>1 DEF ResetAsked, Frame
  <2> QED
    BY <2>1, <2>2, <2>3 DEF ResetAsked, ResetStands
<1>7. ASSUME NEW g \in Handlers, call'[g].pc = "resetSave"
      PROVE  ResetFound(g)'
  <2>1. g # h /\ call'[g] = call[g] /\ ResetFound(g) /\ disturbed \subseteq disturbed'
    BY <1>7 DEF Resets, Frame
  <2>2. call'[g].token <= issued'
    BY <1>1, <2>1, Numbers DEF ResetFound
  <2> QED
    BY <2>1, <2>2 DEF ResetFound, ResetStands
<1>8. ResetOnce'
  BY DEF Resets, ResetOnce, Frame
<1> QED
  BY <1>2, <1>3, <1>4, <1>5, <1>6, <1>7, <1>8 DEF Resets

LEMMA ResetRequestResets ==
  ASSUME TypeInv, Resets, NEW h \in Handlers, NEW u \in Users, NEW a \in Emails,
         ResetRequest(h, u, a)
  PROVE  Resets'
<1> DEFINE t == issued'
<1>1. /\ call'[h].pc = "resetTokenSave" /\ call'[h].token = t /\ Frame(h)
      /\ t = issued + 1 /\ UNCHANGED <<users, spent, twice>>
  BY ResetRequestStep DEF Moves, ResetRequest, Fresh, history
<1>2. issued \in Nat /\ Alive' = Alive /\ disturbed \subseteq disturbed'
  BY <1>1, Numbers DEF Alive, Frame
<1>3. (\A v \in Alive : users[v].rtoken <= issued)' /\ (\A k \in spent : k <= issued)'
  BY <1>1, <1>2, Numbers DEF Resets
<1>4. t \notin spent /\ \A v \in Alive : users[v].rtoken # t
  BY <1>1, <1>2, Numbers DEF Resets
<1>5. ASSUME NEW g \in Handlers \ {h}, call[g].pc \in {"resetTokenSave", "resetSave"}
      PROVE  call[g].token # t /\ call[g].token <= t
  BY <1>1, <1>2, <1>5, Numbers DEF Resets, ResetAsked, ResetFound
<1>6. ASSUME NEW g \in Handlers, call'[g].pc = "resetTokenSave"
      PROVE  ResetAsked(g)'
  <2>1. CASE g = h
    BY <1>1, <1>2, <1>4, <1>5, <2>1 DEF ResetAsked, Frame
  <2>2. CASE g # h
    <3>1. call'[g] = call[g] /\ ResetAsked(g)
      BY <1>1, <1>6, <2>2 DEF Resets, Frame
    <3>2. \A f \in Handlers \ {g} :
            call'[f].pc \in {"resetTokenSave", "resetSave"} => call'[f].token # call'[g].token
      BY <1>1, <1>5, <1>6, <2>2, <3>1 DEF ResetAsked, Frame
    <3> QED
      BY <1>1, <1>2, <1>5, <1>6, <2>2, <3>1, <3>2 DEF ResetAsked
  <2> QED
    BY <2>1, <2>2
<1>7. ASSUME NEW g \in Handlers, call'[g].pc = "resetSave"
      PROVE  ResetFound(g)'
  <2>1. g # h /\ call'[g] = call[g] /\ ResetFound(g)
    BY <1>1, <1>7 DEF Resets, Frame
  <2> QED
    BY <1>1, <1>2, <1>5, <1>7, <2>1 DEF ResetFound
<1> QED
  BY <1>1, <1>2, <1>3, <1>6, <1>7 DEF Resets, ResetOnce

LEMMA ResetFindResets ==
  ASSUME TypeInv, Resets, NEW h \in Handlers, NEW u \in Users, NEW t \in 1 .. MaxTokens,
         ResetFind(h, u, t)
  PROVE  Resets'
<1>0. t # NoToken
  BY BoundsAssumption DEF NoToken
<1>1. /\ call'[h].pc = "resetSave" /\ call'[h].token = t /\ call'[h].user = u /\ Frame(h)
      /\ UNCHANGED <<users, issued, spent, twice>>
      /\ u \in Alive /\ users[u].rtoken = t
  BY ResetFindStep DEF Moves, ResetFind, history
<1>2. Alive' = Alive /\ disturbed \subseteq disturbed'
  BY <1>1 DEF Alive, Frame
<1>3. ASSUME NEW g \in Handlers, call'[g].pc = "resetTokenSave"
      PROVE  ResetAsked(g)'
  <2>1. g # h /\ call'[g] = call[g] /\ ResetAsked(g)
    BY <1>1, <1>3 DEF Resets, Frame
  <2> QED
    BY <1>1, <1>2, <2>1 DEF ResetAsked, Frame
<1>4. ASSUME NEW g \in Handlers, call'[g].pc = "resetSave"
      PROVE  ResetFound(g)'
  <2>1. CASE g = h
    BY <1>0, <1>1, <1>2, <2>1 DEF ResetFound, Resets
  <2>2. CASE g # h
    <3>1. call'[g] = call[g] /\ ResetFound(g)
      BY <1>1, <1>4, <2>2 DEF Resets, Frame
    <3> QED
      BY <1>1, <1>2, <3>1 DEF ResetFound
  <2> QED
    BY <2>1, <2>2
<1> QED
  BY <1>1, <1>2, <1>3, <1>4 DEF Resets, ResetOnce

LEMMA ResetTokenSaveResets ==
  ASSUME TypeInv, Resets, NEW h \in Handlers, ResetTokenSave(h)
  PROVE  Resets'
<1> DEFINE u == call[h].user
           t == call[h].token
<1>1. /\ TypeInv' /\ u \in Users /\ Alive' = Alive /\ Others(u)
      /\ call[h].pc = "resetTokenSave" /\ UNCHANGED <<issued, spent, twice>>
  BY ResetTokenSaveStep DEF ResetTokenSave, history
<1>2. CASE u \notin Alive
  <2>1. Frame(h) /\ call'[h].pc = "idle" /\ UNCHANGED users
    BY <1>2, ResetTokenSaveStep DEF Moves
  <2>2. ResetStands /\ issued' = issued
    BY <1>1, <2>1, Numbers DEF ResetStands, Alive
  <2> QED
    BY <1>1, <2>1, <2>2, ResetsKept
<1>3. CASE u \in Alive
  <2>1. /\ Frame(h) /\ call'[h].pc = "mail" /\ call'[h].user = u /\ users'[u].rtoken = t
        /\ disturbed \subseteq disturbed'
    BY <1>3, ResetTokenSaveStep DEF Moves, Frame
  <2>2. \A v \in Alive : v # u => users'[v] = users[v]
    BY <1>1 DEF Others, Alive
  <2>3. ResetAsked(h) /\ t \in Nat
    BY <1>1, Numbers DEF Resets
  <2>4. (\A v \in Alive : users[v].rtoken <= issued)' /\ (\A k \in spent : k <= issued)'
    BY <1>1, <2>1, <2>2, <2>3 DEF Resets, ResetAsked
  <2>5. (\A v, w \in Alive : v # w /\ users[v].rtoken = users[w].rtoken
                               => users[v].rtoken = NoToken)'
    BY <1>1, <2>1, <2>2, <2>3 DEF Resets, ResetAsked
  <2>6. (\A v \in Alive \ disturbed : users[v].rtoken # NoToken => users[v].rtoken \notin spent)'
    BY <1>1, <2>1, <2>2, <2>3 DEF Resets, ResetAsked
  <2>7. ASSUME NEW g \in Handlers, call'[g].pc = "resetTokenSave"
        PROVE  ResetAsked(g)'
    <3>1. g # h /\ call'[g] = call[g] /\ ResetAsked(g) /\ call[g].token # t
      BY <1>1, <2>1, <2>3, <2>7 DEF Resets, Frame, ResetAsked
    <3> QED
      BY <1>1, <2>1, <2>2, <3>1 DEF ResetAsked, Frame
  <2>8. ASSUME NEW g \in Handlers, call'[g].pc = "resetSave"
        PROVE  ResetFound(g)'
    <3>1. g # h /\ call'[g] = call[g] /\ ResetFound(g) /\ call[g].token # t
      BY <1>1, <2>1, <2>3, <2>7, <2>8 DEF Resets, Frame, ResetAsked
    <3>2. call[g].user = u => u \in disturbed'
      BY <1>1, <2>1, <3>1 DEF Frame, Concern
    <3> QED
      BY <1>1, <2>1, <2>2, <3>1, <3>2 DEF ResetFound
  <2>9. ResetOnce'
    BY <1>1, <2>1 DEF Resets, ResetOnce
  <2> QED
    BY <2>4, <2>5, <2>6, <2>7, <2>8, <2>9 DEF Resets
<1> QED
  BY <1>2, <1>3

LEMMA ResetSaveResets ==
  ASSUME TypeInv, Base, Resets, NEW h \in Handlers, ResetSave(h)
  PROVE  Resets'
<1> DEFINE u == call[h].user
           t == call[h].token
<1>1. /\ TypeInv' /\ Alive' = Alive /\ Others(u) /\ Frame(h) /\ disturbed \subseteq disturbed'
      /\ call[h].pc = "resetSave" /\ call'[h].pc = "idle" /\ UNCHANGED issued
      /\ u \in Users /\ t # NoToken
  BY ResetSaveStep, Here DEF ResetSave, Moves, Frame, Shape, Single, Drawn, Holding
<1>2. CASE u \notin Alive
  <2>1. UNCHANGED <<spent, twice>>
    BY <1>2 DEF ResetSave
  <2>2. ResetStands /\ issued' = issued
    BY <1>1, <1>2, Numbers DEF ResetStands, Others, Alive
  <2> QED
    BY <1>1, <2>1, <2>2, ResetsKept
<1>3. CASE u \in Alive
  <2>1. users'[u].rtoken = NoToken /\ spent' = spent \cup {t}
          /\ twice' = IF t \in spent THEN twice \cup {u} ELSE twice
    BY <1>3, ResetSaveStep DEF ResetSave, Spend
  <2>2. \A v \in Alive : v # u => users'[v] = users[v]
    BY <1>1 DEF Others, Alive
  <2>3. ResetFound(h) /\ issued \in Nat
    BY <1>1, Numbers DEF Resets
  <2>4. (\A v \in Alive : users[v].rtoken <= issued)' /\ (\A k \in spent : k <= issued)'
    BY <1>1, <2>1, <2>2, <2>3 DEF Resets, ResetFound, NoToken
  <2>5. (\A v, w \in Alive : v # w /\ users[v].rtoken = users[w].rtoken
                               => users[v].rtoken = NoToken)'
    BY <1>1, <2>1, <2>2 DEF Resets
  <2>6. (\A v \in Alive \ disturbed : users[v].rtoken # NoToken => users[v].rtoken \notin spent)'
    BY <1>1, <2>1, <2>2, <2>3 DEF Resets, ResetFound
  <2>7. ASSUME NEW g \in Handlers, call'[g].pc = "resetTokenSave"
        PROVE  ResetAsked(g)'
    <3>1. g # h /\ call'[g] = call[g] /\ ResetAsked(g) /\ call[g].token # t
            /\ call[g].token # NoToken
      BY <1>1, <2>7, Here DEF Resets, Frame, ResetAsked, Shape, Drawn
    <3> QED
      BY <1>1, <2>1, <2>2, <3>1 DEF ResetAsked, Frame
  <2>8. ASSUME NEW g \in Handlers, call'[g].pc = "resetSave"
        PROVE  ResetFound(g)'
    <3>1. g # h /\ call'[g] = call[g] /\ ResetFound(g) /\ call[g].token # NoToken
      BY <1>1, <2>8, Here DEF Resets, Frame, Shape, Holding
    <3>2. call[g].user = u => u \in disturbed
      BY <1>1, <3>1 DEF Base, Lone, Concern
    <3> QED
      BY <1>1, <2>1, <2>2, <3>1, <3>2 DEF ResetFound
  <2>9. ResetOnce'
    <3>1. u \notin disturbed => t \notin spent
      BY <1>1, <1>3, <2>3 DEF Resets, ResetFound
    <3> QED
      BY <1>1, <2>1, <3>1 DEF Resets, ResetOnce
  <2> QED
    BY <2>4, <2>5, <2>6, <2>7, <2>8, <2>9 DEF Resets
<1> QED
  BY <1>2, <1>3

LEMMA RegisterCreateResets ==
  ASSUME TypeInv, Base, Resets, NEW h \in Handlers, NEW u \in Users, RegisterCreate(h, u)
  PROVE  Resets'
<1>1. /\ Frame(h) /\ disturbed \subseteq disturbed' /\ call'[h].pc = "storeSession"
      /\ u \notin Alive /\ successor[u] = NoUser
      /\ Others(u) /\ Alive' = Alive \cup {u} /\ users'[u].rtoken = NoToken
      /\ UNCHANGED <<issued, spent, twice>>
  BY RegisterCreateStep DEF Moves, Frame, RegisterCreate, history
<1>2. \A v \in Alive : users'[v] = users[v]
  BY <1>1 DEF Others, Alive
<1>3. (\A v \in Alive : users[v].rtoken <= issued)' /\ (\A k \in spent : k <= issued)'
  BY <1>1, <1>2, Numbers DEF Resets, NoToken
<1>4. (\A v, w \in Alive : v # w /\ users[v].rtoken = users[w].rtoken
                             => users[v].rtoken = NoToken)'
  BY <1>1, <1>2 DEF Resets
<1>5. (\A v \in Alive \ disturbed : users[v].rtoken # NoToken => users[v].rtoken \notin spent)'
  BY <1>1, <1>2 DEF Resets
<1>6. ASSUME NEW g \in Handlers, call'[g].pc = "resetTokenSave"
      PROVE  ResetAsked(g)'
  <2>1. g # h /\ call'[g] = call[g] /\ ResetAsked(g) /\ call[g].token # NoToken
    BY <1>1, <1>6, Here DEF Resets, Frame, Shape, Drawn
  <2> QED
    BY <1>1, <1>2, <2>1 DEF ResetAsked, Frame
<1>7. ASSUME NEW g \in Handlers, call'[g].pc = "resetSave"
      PROVE  ResetFound(g)'
  <2>1. g # h /\ call'[g] = call[g] /\ ResetFound(g) /\ call[g].token # NoToken
          /\ call[g].user \in Users
    BY <1>1, <1>7, Here DEF Resets, Frame, Shape, Holding, Single
  <2>2. call[g].user # u
    BY <1>1, <2>1, Fit, ConcernIs DEF Fits, Known, Deleted
  <2> QED
    BY <1>1, <1>2, <2>1, <2>2 DEF ResetFound
<1>8. ResetOnce'
  BY <1>1 DEF Resets, ResetOnce
<1> QED
  BY <1>3, <1>4, <1>5, <1>6, <1>7, <1>8 DEF Resets

LEMMA LogoutResets ==
  ASSUME TypeInv, Resets, NEW u \in Users, Logout(u)
  PROVE  Resets'
<1>1. ResetStands /\ Alive' = Alive /\ disturbed \subseteq disturbed'
        /\ UNCHANGED <<call, issued, spent, twice>>
  BY LogoutStep DEF Logout
<1>2. \A h \in Handlers : ResetAsked(h) => ResetAsked(h)'
  BY <1>1 DEF ResetAsked, ResetStands
<1>3. \A h \in Handlers : ResetFound(h) => ResetFound(h)'
  BY <1>1 DEF ResetFound, ResetStands
<1> QED
  BY <1>1, <1>2, <1>3 DEF Resets, ResetStands, ResetOnce

LEMMA GrantResets ==
  ASSUME TypeInv, Resets, NEW u \in Users, NEW s \in Subs, Grant(u, s)
  PROVE  Resets'
<1>1. UNCHANGED <<users, call, issued, spent, twice>> /\ disturbed \subseteq disturbed'
  BY GrantStep
<1>2. \A h \in Handlers : ResetAsked(h) => ResetAsked(h)'
  BY <1>1 DEF ResetAsked, Alive
<1>3. \A h \in Handlers : ResetFound(h) => ResetFound(h)'
  BY <1>1 DEF ResetFound, Alive
<1> QED
  BY <1>1, <1>2, <1>3 DEF Resets, ResetOnce, Alive

LEMMA ResetsNext ==
  ASSUME TypeInv, Base, Resets, [Next]_vars
  PROVE  Resets'
<1>1. ASSUME NEW h \in Handlers, NEW a \in Emails, RegisterEmail(h, a)
      PROVE  Resets'
  BY <1>1, RegisterEmailStep, ResetsKept DEF Moves, Stands, history, Fresh, RegisterEmail
<1>2. ASSUME NEW h \in Handlers, RegisterName(h)
      PROVE  Resets'
  BY <1>2, RegisterNameStep, ResetsKept DEF Moves, Stands, history, Fresh, RegisterName
<1>3. ASSUME NEW h \in Handlers, RegisterMail(h)
      PROVE  Resets'
  BY <1>3, RegisterMailStep, ResetsKept DEF Moves, Stands, history, Fresh, RegisterMail
<1>4. ASSUME NEW h \in Handlers, StoreSession(h) \/ Mail(h)
      PROVE  Resets'
  BY <1>4, StoreSessionStep, MailStep, ResetsKept DEF Moves, Stands, history, Fresh,
     StoreSession, Mail
<1>5. ASSUME NEW h \in Handlers, VerifySave(h)
      PROVE  Resets'
  BY <1>5, VerifySaveStep, ResetsKept DEF Moves, Stands, history, Fresh, VerifySave
<1>6. ASSUME NEW h \in Handlers, RenewSave(h)
      PROVE  Resets'
  BY <1>6, RenewSaveStep, ResetsKept DEF Moves, Stands, history, Fresh, RenewSave
<1>7. ASSUME NEW h \in Handlers, NEW u \in Users, NEW a \in Emails, Login(h, u, a)
      PROVE  Resets'
  BY <1>7, LoginStep, ResetsKept DEF Moves, Stands, history, Fresh, Login
<1>8. ASSUME NEW h \in Handlers, NEW u \in Users, NEW a \in Emails, RenewFind(h, u,
            a)
      PROVE  Resets'
  BY <1>8, RenewFindStep, ResetsKept DEF Moves, Stands, history, Fresh, RenewFind
<1>9. ASSUME NEW h \in Handlers, NEW u \in Users, NEW a \in Emails, SetEmail(h, u, a)
      PROVE  Resets'
  BY <1>9, SetEmailStep, ResetsKept DEF Moves, Stands, history, Fresh, SetEmail
<1>10. ASSUME NEW h \in Handlers, NEW u \in Users, Refresh(h, u) \/ MergeBegin(h, u)
      PROVE  Resets'
  BY <1>10, RefreshStep, MergeBeginStep, ResetsKept DEF Moves, Stands, history, Fresh,
     Refresh, MergeBegin
<1>11. ASSUME NEW h \in Handlers, NEW u \in Users, MergePlatformBegin(h, u) \/
            MergePlatform(h, u)
      PROVE  Resets'
  BY <1>11, MergePlatformBeginStep, MergePlatformStep, ResetsKept DEF Moves, Stands,
     history, Fresh, MergePlatformBegin, MergePlatform
<1>12. ASSUME NEW h \in Handlers, NEW u \in Users, NEW t \in 1 .. MaxTokens,
            VerifyFind(h, u, t)
      PROVE  Resets'
  BY <1>12, VerifyFindStep, ResetsKept DEF Moves, Stands, history, Fresh, VerifyFind
<1>13. ASSUME NEW h \in Handlers, NEW u \in Users, NEW a \in Emails, MergeEmail(h, u,
            a)
      PROVE  Resets'
  BY <1>13, MergeEmailStep, ResetsKept DEF Moves, Stands, history, Fresh, MergeEmail
<1>14. ASSUME NEW h \in Handlers, DeleteOther(h)
      PROVE  Resets'
  BY <1>14, DeleteOtherStep, ResetsKept DEF Moves, Stands, history, Fresh, DeleteOther
<1>15. ASSUME NEW h \in Handlers, MergeSave(h)
      PROVE  Resets'
  BY <1>15, MergeSaveStep, ResetsKept DEF Moves, Stands, history, Fresh, MergeSave
<1>16. ASSUME NEW h \in Handlers, ListSubs(h)
      PROVE  Resets'
  BY <1>16, ListSubsStep, ResetsKept DEF Moves, Stands, history, Fresh, ListSubs
<1>17. ASSUME NEW h \in Handlers, NEW s \in Subs, Transfer(h, s)
      PROVE  Resets'
  BY <1>17, TransferStep, ResetsKept DEF Moves, Stands, history, Fresh, Transfer
<1>18. ASSUME NEW h \in Handlers, DeleteById(h)
      PROVE  Resets'
  BY <1>18, DeleteByIdBase, DeleteByIdStep, ResetsKept DEF Moves, Stands, history,
     Fresh, DeleteById
<1>19. ASSUME NEW h \in Handlers, CallFails(h)
      PROVE  Resets'
  BY <1>19, CallFailsStep, IdleIs, ResetsKept DEF Stands, history
<1>20. ASSUME NEW h \in Handlers, NEW u \in Users, NEW a \in Emails, ResetRequest(h,
            u, a)
      PROVE  Resets'
  BY <1>20, ResetRequestResets
<1>21. ASSUME NEW h \in Handlers, NEW u \in Users, NEW t \in 1 .. MaxTokens,
            ResetFind(h, u, t)
      PROVE  Resets'
  BY <1>21, ResetFindResets
<1>22. ASSUME NEW h \in Handlers, ResetTokenSave(h)
      PROVE  Resets'
  BY <1>22, ResetTokenSaveResets
<1>23. ASSUME NEW h \in Handlers, ResetSave(h)
      PROVE  Resets'
  BY <1>23, ResetSaveResets
<1>24. ASSUME NEW h \in Handlers, NEW u \in Users, RegisterCreate(h, u)
      PROVE  Resets'
  BY <1>24, RegisterCreateResets
<1>25. ASSUME NEW u \in Users, Logout(u)
      PROVE  Resets'
  BY <1>25, LogoutResets
<1>26. ASSUME NEW u \in Users, NEW s \in Subs, Grant(u, s)
      PROVE  Resets'
  BY <1>26, GrantResets
<1>27. CASE UNCHANGED vars
  BY <1>27 DEF vars, history, Resets, ResetOnce, ResetAsked, ResetFound, Alive
<1> QED
  BY <1>1, <1>2, <1>3, <1>4, <1>5, <1>6, <1>7, <1>8, <1>9, <1>10, <1>11, <1>12,
     <1>13, <1>14, <1>15, <1>16, <1>17, <1>18, <1>19, <1>20, <1>21, <1>22, <1>23,
     <1>24, <1>25, <1>26, <1>27 DEF Next, CallBegins, CallStep

-----------------------------------------------------------------------------
(* Addressed.                                                              *)

\* The tokens of two calls differ.
Apart(h) ==
  \A g \in Handlers \ {h} :
    call[g].pc \in Drawn /\ call[h].pc \in Drawn => call[g].token # call[h].token

LEMMA ApartAll ==
  ASSUME NEW h \in Handlers, Frame(h), Addressed, Apart(h)'
  PROVE  (\A f, g \in Handlers :
            f # g /\ call[f].pc \in Drawn /\ call[g].pc \in Drawn
              => call[f].token # call[g].token)'
<1> SUFFICES ASSUME NEW f \in Handlers, NEW g \in Handlers,
                    f # g, call'[f].pc \in Drawn, call'[g].pc \in Drawn
             PROVE  call'[f].token # call'[g].token
  OBVIOUS
<1>1. CASE f = h \/ g = h
  BY <1>1 DEF Apart
<1>2. CASE f # h /\ g # h
  BY <1>2 DEF Addressed, Frame
<1> QED
  BY <1>1, <1>2

\* Steps that mail nothing, and leave addresses, tokens and what is verified.
LEMMA AddressedKept ==
  ASSUME TypeInv, TypeInv', Addressed, NEW h \in Handlers, Frame(h), MailStands,
         issued' \in {issued, issued + 1}, UNCHANGED <<mailed, opened>>,
         Apart(h)', call'[h].pc \in Drawn => DrawnOK(call[h])', AskedOK(call[h])'
  PROVE  Addressed'
<1>1. issued \in Nat /\ issued' \in Nat /\ issued <= issued' /\ Received' = Received
        /\ disturbed \subseteq disturbed'
  BY DEF TypeInv, RestOK, Received, Frame
<1>2. (\A m \in mailed : m[1] \in 1 .. issued)'
  BY <1>1 DEF Addressed
<1>3. (\A u \in Alive : users[u].vtoken <= issued)'
  BY <1>1, Numbers DEF Addressed, MailStands
<1>4. (\A f, g \in Handlers : f # g /\ call[f].pc \in Drawn /\ call[g].pc \in Drawn
                                => call[f].token # call[g].token)'
  BY ApartAll
<1>5. ASSUME NEW g \in Handlers, call'[g].pc \in Drawn
      PROVE  DrawnOK(call[g])'
  <2>1. CASE g = h
    BY <1>5, <2>1
  <2>2. CASE g # h
    <3>1. call'[g] = call[g] /\ DrawnOK(call[g])
      BY <1>5, <2>2 DEF Frame, Addressed
    <3>2. call'[g].token <= issued'
      BY <1>1, <3>1, Numbers DEF DrawnOK
    <3> QED
      BY <1>1, <3>1, <3>2 DEF DrawnOK, MailStands
  <2> QED
    BY <2>1, <2>2
<1>6. ASSUME NEW g \in Handlers
      PROVE  AskedOK(call[g])'
  <2>1. CASE g = h
    BY <2>1
  <2>2. CASE g # h
    <3>1. call'[g] = call[g] /\ AskedOK(call[g])
      BY <2>2 DEF Frame, Addressed
    <3> QED
      BY <1>1, <3>1 DEF AskedOK, MailedFor, MailStands
  <2> QED
    BY <2>1, <2>2
<1>7. (\A u \in Alive \ disturbed :
         \A m \in mailed : m[1] = users[u].vtoken => Reaches(m[2], users[u].email))'
  BY <1>1 DEF Addressed, MailStands
<1>8. VerifiedByMail'
  BY <1>1 DEF Addressed, VerifiedByMail, MailedFor, MailStands
<1> QED
  BY <1>2, <1>3, <1>4, <1>5, <1>6, <1>7, <1>8 DEF Addressed

\* Steps to where there is no token.
LEMMA AddressedQuiet ==
  ASSUME TypeInv, TypeInv', Addressed, NEW h \in Handlers, Frame(h), MailStands,
         UNCHANGED <<mailed, issued, opened>>, call'[h].pc \notin Drawn \cup {"verifySave"}
  PROVE  Addressed'
<1>1. Apart(h)' /\ AskedOK(call[h])'
  BY DEF Apart, AskedOK, Drawn
<1> QED
  BY <1>1, AddressedKept

\* A token that has just been drawn.
LEMMA FreshIs ==
  ASSUME TypeInv, Addressed, Fresh
  PROVE  /\ issued \in Nat /\ issued' \in Nat /\ issued' = issued + 1
         /\ \A m \in mailed : m[1] # issued'
         /\ issued' \notin Received
         /\ \A u \in Alive : users[u].vtoken # issued'
         /\ \A g \in Handlers : call[g].pc \in Drawn => call[g].token # issued'
<1>1. issued \in Nat /\ issued' = issued + 1
  BY DEF Fresh, TypeInv, RestOK
<1>2. \A m \in mailed : m[1] # issued'
  BY <1>1 DEF Addressed
<1>3. \A u \in Alive : users[u].vtoken # issued'
  BY <1>1, Numbers DEF Addressed
<1>4. \A g \in Handlers : call[g].pc \in Drawn => call[g].token # issued'
  BY <1>1, Numbers DEF Addressed, DrawnOK
<1> QED
  BY <1>1, <1>2, <1>3, <1>4 DEF Received

LEMMA DrawsKept ==
  ASSUME TypeInv, TypeInv', Addressed, NEW h \in Handlers, Frame(h), MailStands, Fresh,
         UNCHANGED <<mailed, opened>>, call'[h].pc # "registerCreate", call'[h].token = issued',
         AskedOK(call[h])'
  PROVE  Addressed'
<1>1. Apart(h)'
  BY FreshIs DEF Apart, Frame
<1>2. DrawnOK(call[h])'
  BY FreshIs DEF DrawnOK, Received, MailStands
<1> QED
  BY <1>1, <1>2, FreshIs, AddressedKept

LEMMA RegisterNameAddressed ==
  ASSUME TypeInv, Addressed, NEW h \in Handlers, RegisterName(h)
  PROVE  Addressed'
<1>1. TypeInv' /\ MailStands /\ UNCHANGED <<mailed, opened>>
  BY RegisterNameStep DEF RegisterName, Stands, history
<1>2. CASE Moves(h, "registerName", "idle", NoUser, NoUser) /\ UNCHANGED issued
  BY <1>1, <1>2, AddressedQuiet DEF Moves, Drawn
<1>3. CASE /\ Moves(h, "registerName", "registerMail", NoUser, NoUser)
           /\ Fresh /\ call'[h].token = issued'
  <2>1. AskedOK(call[h])'
    BY <1>3, NamesAssumption DEF AskedOK, Moves, Alive
  <2> QED
    BY <1>1, <1>3, <2>1, DrawsKept DEF Moves
<1> QED
  BY <1>2, <1>3, RegisterNameStep

LEMMA RenewFindAddressed ==
  ASSUME TypeInv, Addressed, NEW h \in Handlers, NEW u \in Users, NEW a \in Emails,
         RenewFind(h, u, a)
  PROVE  Addressed'
<1>1. /\ TypeInv' /\ Moves(h, "idle", "renewSave", u, NoUser) /\ MailStands
      /\ call'[h].address = a /\ call'[h].token = issued' /\ Fresh
      /\ UNCHANGED <<users, mailed, opened>> /\ Reaches(a, users[u].email)
  BY RenewFindStep DEF RenewFind, Stands, history, WithEmail, Reaches
<1>2. AskedOK(call[h])'
  BY <1>1 DEF AskedOK, Moves
<1> QED
  BY <1>1, <1>2, DrawsKept DEF Moves

LEMMA ResetRequestAddressed ==
  ASSUME TypeInv, Addressed, NEW h \in Handlers, NEW u \in Users, NEW a \in Emails,
         ResetRequest(h, u, a)
  PROVE  Addressed'
<1>1. /\ TypeInv' /\ Moves(h, "idle", "resetTokenSave", u, NoUser) /\ MailStands
      /\ call'[h].address = users[u].email /\ call'[h].token = issued' /\ Fresh
      /\ UNCHANGED <<users, mailed, opened>> /\ Reaches(users[u].email, users[u].email)
  BY ResetRequestStep DEF ResetRequest, Stands, history, Reaches
<1>2. AskedOK(call[h])'
  BY <1>1 DEF AskedOK, Moves
<1> QED
  BY <1>1, <1>2, DrawsKept DEF Moves

LEMMA VerifyFindAddressed ==
  ASSUME TypeInv, Addressed, NEW h \in Handlers, NEW u \in Users, NEW t \in 1 .. MaxTokens,
         VerifyFind(h, u, t)
  PROVE  Addressed'
<1>1. /\ TypeInv' /\ Moves(h, "idle", "verifySave", u, NoUser) /\ MailStands
      /\ call'[h].token = t /\ UNCHANGED <<users, mailed, issued, opened>>
      /\ t \in Received /\ users[u].vtoken = t
  BY VerifyFindStep DEF VerifyFind, Stands, history
<1>2. PICK m \in mailed : m[1] = t
  BY <1>1 DEF Received
<1>3. m = <<m[1], m[2]>>
  BY <1>2, Numbers
<1>4. u \in Alive \ disturbed => MailedFor(t, users[u].email)
  BY <1>1, <1>2, <1>3 DEF Addressed, MailedFor, TypeInv, RestOK
<1>5. AskedOK(call[h])' /\ Apart(h)'
  BY <1>1, <1>4 DEF AskedOK, MailedFor, Apart, Drawn, Moves, Frame, Alive
<1> QED
  BY <1>1, <1>5, AddressedKept DEF Moves, Drawn

LEMMA ResetTokenSaveAddressed ==
  ASSUME TypeInv, Addressed, NEW h \in Handlers, ResetTokenSave(h)
  PROVE  Addressed'
<1> DEFINE u == call[h].user
<1>1. /\ TypeInv' /\ MailStands /\ UNCHANGED <<mailed, issued, opened>>
      /\ call[h].pc = "resetTokenSave" /\ Alive' = Alive
  BY ResetTokenSaveStep DEF ResetTokenSave, history
<1>2. CASE u \notin Alive
  BY <1>1, <1>2, ResetTokenSaveStep, AddressedQuiet DEF Moves, Drawn
<1>3. CASE u \in Alive
  <2>1. /\ Frame(h) /\ call'[h].pc = "mail" /\ call'[h].user = u
        /\ call'[h].address = call[h].address /\ call'[h].token = call[h].token
        /\ disturbed \subseteq disturbed'
    BY <1>3, ResetTokenSaveStep DEF Moves, Frame
  <2>2. DrawnOK(call[h]) /\ AskedOK(call[h]) /\ Received' = Received
    BY <1>1 DEF Addressed, Drawn, Received
  <2>3. Apart(h)'
    BY <1>1, <2>1 DEF Addressed, Apart, Frame, Drawn
  <2>4. DrawnOK(call[h])'
    BY <1>1, <2>1, <2>2 DEF DrawnOK, MailStands
  <2>5. AskedOK(call[h])'
    BY <1>1, <1>3, <2>1, <2>2 DEF AskedOK, MailedFor, MailStands
  <2> QED
    BY <1>1, <2>1, <2>3, <2>4, <2>5, AddressedKept
<1> QED
  BY <1>2, <1>3

\* Slot h writes the document of u; the other calls of u count as disturbed.
LEMMA AddressWritten ==
  ASSUME TypeInv, TypeInv', Addressed, NEW h \in Handlers, Frame(h), NEW u \in Alive,
         Others(u), Alive' = Alive, UNCHANGED mailed, opened \subseteq opened',
         issued' \in {issued, issued + 1},
         Apart(h)', call'[h].pc \in Drawn => DrawnOK(call[h])', AskedOK(call[h])',
         users'[u].vtoken <= issued',
         \A m \in mailed : m[1] # users'[u].vtoken,
         u \notin disturbed' /\ users'[u].verified
           => \E t \in opened' : MailedFor(t, users'[u].email),
         \A g \in Handlers \ {h} :
           /\ call[g].pc \in Drawn => call[g].token # users'[u].vtoken
           /\ call[g].user = u => u \in disturbed'
  PROVE  Addressed'
<1>1. issued \in Nat /\ issued' \in Nat /\ issued <= issued' /\ Received' = Received
        /\ disturbed \subseteq disturbed'
  BY DEF TypeInv, RestOK, Received, Frame
<1>2. \A v \in Alive : v # u => users'[v] = users[v]
  BY DEF Others, Alive
<1>3. (\A m \in mailed : m[1] \in 1 .. issued)'
  BY <1>1 DEF Addressed
<1>4. (\A v \in Alive : users[v].vtoken <= issued)'
  BY <1>1, <1>2, Numbers DEF Addressed
<1>5. (\A f, g \in Handlers : f # g /\ call[f].pc \in Drawn /\ call[g].pc \in Drawn
                                => call[f].token # call[g].token)'
  BY ApartAll
<1>6. ASSUME NEW g \in Handlers, call'[g].pc \in Drawn
      PROVE  DrawnOK(call[g])'
  <2>1. CASE g = h
    BY <1>6, <2>1
  <2>2. CASE g # h
    <3>1. call'[g] = call[g] /\ DrawnOK(call[g])
      BY <1>6, <2>2 DEF Frame, Addressed
    <3>2. call'[g].token <= issued'
      BY <1>1, <3>1, Numbers DEF DrawnOK
    <3>3. \A v \in Alive' : users'[v].vtoken = call'[g].token
                              => call'[g].pc = "mail" /\ call'[g].user = v
      BY <1>2, <1>6, <2>2, <3>1 DEF DrawnOK
    <3> QED
      BY <1>1, <3>1, <3>2, <3>3 DEF DrawnOK
  <2> QED
    BY <2>1, <2>2
<1>7. ASSUME NEW g \in Handlers
      PROVE  AskedOK(call[g])'
  <2>1. CASE g = h
    BY <2>1
  <2>2. CASE g # h
    <3>1. call'[g] = call[g] /\ AskedOK(call[g])
      BY <2>2 DEF Frame, Addressed
    <3> QED
      BY <1>1, <1>2, <2>2, <3>1 DEF AskedOK, MailedFor
  <2> QED
    BY <2>1, <2>2
<1>8. (\A v \in Alive \ disturbed :
         \A m \in mailed : m[1] = users[v].vtoken => Reaches(m[2], users[v].email))'
  BY <1>1, <1>2 DEF Addressed
<1>9. VerifiedByMail'
  BY <1>1, <1>2 DEF Addressed, VerifiedByMail, MailedFor
<1> QED
  BY <1>3, <1>4, <1>5, <1>6, <1>7, <1>8, <1>9 DEF Addressed

LEMMA VerifySaveAddressed ==
  ASSUME TypeInv, Base, Addressed, NEW h \in Handlers, VerifySave(h)
  PROVE  Addressed'
<1> DEFINE u == call[h].user
<1>1. /\ TypeInv' /\ Frame(h) /\ Others(u) /\ Alive' = Alive /\ UNCHANGED <<mailed, issued>>
      /\ call[h].pc = "verifySave" /\ call'[h].pc = "idle" /\ call'[h].user = NoUser
      /\ opened' = opened \cup {call[h].token} /\ u \in Users
  BY VerifySaveStep, Here DEF VerifySave, Moves, Shape, Single
<1>2. Apart(h)' /\ AskedOK(call[h])' /\ call'[h].pc \notin Drawn
  BY <1>1 DEF Apart, AskedOK, Drawn
<1>3. CASE u \in Alive
  <2>1. users'[u].vtoken = NoToken /\ users'[u].email = users[u].email
    BY <1>3, VerifySaveStep
  <2>2. users'[u].vtoken <= issued' /\ \A m \in mailed : m[1] # users'[u].vtoken
    BY <1>1, <2>1, Numbers DEF Addressed, NoToken
  <2>3. u \notin disturbed' => \E t \in opened' : MailedFor(t, users'[u].email)
    BY <1>1, <1>3, <2>1 DEF Addressed, AskedOK, MailedFor, Frame
  <2>4. ASSUME NEW g \in Handlers \ {h}
        PROVE  /\ call[g].pc \in Drawn => call[g].token # users'[u].vtoken
               /\ call[g].user = u => u \in disturbed'
    BY <1>1, <1>3, <2>1, Here, ConcernIs DEF Shape, Base, Lone, Frame
  <2> HIDE DEF u
  <2> QED
    BY <1>1, <1>2, <1>3, <2>2, <2>3, <2>4, AddressWritten
<1>4. CASE u \notin Alive
  <2>1. \A v \in Alive : users'[v] = users[v]
    BY <1>1, <1>4 DEF Others, Alive
  <2>2. disturbed \subseteq disturbed' /\ Received' = Received
    BY <1>1 DEF Frame, Received
  <2>3. \A g \in Handlers : call'[g].pc \in Drawn => DrawnOK(call[g])'
    BY <1>1, <1>2, <2>1, <2>2 DEF Addressed, DrawnOK, Frame
  <2>4. ASSUME NEW g \in Handlers
        PROVE  AskedOK(call[g])'
    <3>1. CASE g = h
      BY <1>2, <3>1
    <3>2. CASE g # h
      <4>1. call'[g] = call[g] /\ AskedOK(call[g])
        BY <1>1, <3>2 DEF Frame, Addressed
      <4>2. \A v \in Alive' \ disturbed' : v \in Alive \ disturbed /\ users'[v] = users[v]
        BY <1>1, <2>1, <2>2
      <4> QED
        BY <1>1, <4>1, <4>2 DEF AskedOK, MailedFor
    <3> QED
      BY <3>1, <3>2
  <2>5. VerifiedByMail'
    BY <1>1, <2>1, <2>2 DEF Addressed, VerifiedByMail, MailedFor
  <2>6. (\A f, g \in Handlers : f # g /\ call[f].pc \in Drawn /\ call[g].pc \in Drawn
                                  => call[f].token # call[g].token)'
    BY <1>1, <1>2, ApartAll
  <2> QED
    BY <1>1, <2>1, <2>2, <2>3, <2>4, <2>5, <2>6 DEF Addressed
<1> QED
  BY <1>3, <1>4

LEMMA RenewSaveAddressed ==
  ASSUME TypeInv, Base, Addressed, NEW h \in Handlers, RenewSave(h)
  PROVE  Addressed'
<1> DEFINE u == call[h].user
           t == call[h].token
<1>1. /\ TypeInv' /\ Others(u) /\ Alive' = Alive /\ UNCHANGED <<mailed, issued, opened>>
      /\ call[h].pc = "renewSave"
  BY RenewSaveStep DEF RenewSave, history
<1>2. CASE u \notin Alive
  <2>1. Moves(h, "renewSave", "idle", NoUser, NoUser) /\ UNCHANGED users
    BY <1>2, RenewSaveStep
  <2> QED
    BY <1>1, <2>1, AddressedQuiet DEF Moves, Drawn, MailStands
<1>3. CASE u \in Alive
  <2>1. /\ Frame(h) /\ call'[h].pc = "mail" /\ call'[h].user = u
        /\ call'[h].address = call[h].address /\ call'[h].token = t
        /\ users'[u].vtoken = t /\ users'[u].email = users[u].email
        /\ users'[u].verified = users[u].verified /\ disturbed \subseteq disturbed'
    BY <1>3, RenewSaveStep DEF Moves, Frame
  <2>2. DrawnOK(call[h]) /\ AskedOK(call[h]) /\ Received' = Received
    BY <1>1 DEF Addressed, Drawn, Received
  <2>3. Apart(h)'
    BY <1>1, <2>1 DEF Addressed, Apart, Frame, Drawn
  <2>4. \A v \in Alive : v # u => users'[v] = users[v]
    BY <1>1 DEF Others, Alive
  <2>5. DrawnOK(call[h])'
    BY <1>1, <2>1, <2>2, <2>4 DEF DrawnOK
  <2>6. AskedOK(call[h])'
    BY <1>1, <1>3, <2>1, <2>2 DEF AskedOK, MailedFor
  <2>7. users'[u].vtoken <= issued' /\ \A m \in mailed : m[1] # users'[u].vtoken
    BY <1>1, <2>1, <2>2 DEF DrawnOK, Received
  <2>8. u \notin disturbed' /\ users'[u].verified
          => \E s \in opened' : MailedFor(s, users'[u].email)
    BY <1>1, <1>3, <2>1 DEF Addressed, VerifiedByMail, MailedFor
  <2>9. ASSUME NEW g \in Handlers \ {h}
        PROVE  /\ call[g].pc \in Drawn => call[g].token # users'[u].vtoken
               /\ call[g].user = u => u \in disturbed'
    <3>1. call[g].pc \in Drawn => call[g].token # t
      BY <1>1 DEF Addressed, Drawn
    <3>2. call[g].user = u => u \in disturbed'
      BY <1>3, <2>1, ConcernIs DEF Base, Lone, Alive
    <3> QED
      BY <2>1, <3>1, <3>2
  <2> HIDE DEF u, t
  <2> QED
    BY <1>1, <1>3, <2>1, <2>3, <2>5, <2>6, <2>7, <2>8, <2>9, AddressWritten
<1> QED
  BY <1>2, <1>3

LEMMA SetEmailAddressed ==
  ASSUME TypeInv, Addressed, NEW h \in Handlers, NEW u \in Users, NEW a \in Emails,
         SetEmail(h, u, a)
  PROVE  Addressed'
<1>1. u \in Alive /\ Fresh /\ UNCHANGED <<mailed, opened>>
  BY DEF SetEmail, history
<1>2. issued' \in {issued, issued + 1}
  BY <1>1 DEF Fresh
<1>3. /\ TypeInv' /\ Moves(h, "idle", "mail", u, NoUser) /\ Others(u) /\ Alive' = Alive
      /\ call'[h].address = a /\ call'[h].token = issued'
      /\ users'[u].email = a /\ users'[u].verified = FALSE /\ users'[u].vtoken = issued'
  BY SetEmailStep
<1>4. /\ TypeInv' /\ Frame(h) /\ Others(u) /\ Alive' = Alive
      /\ call'[h].pc = "mail" /\ call'[h].user = u /\ call'[h].address = a
      /\ call'[h].token = issued'
      /\ users'[u].email = a /\ users'[u].verified = FALSE /\ users'[u].vtoken = issued'
  BY <1>3 DEF Moves
<1>5. Apart(h)' /\ AskedOK(call[h])'
  BY <1>1, <1>4, FreshIs DEF Apart, Frame, AskedOK, Reaches
<1>6. \A v \in Alive : v # u => users'[v] = users[v]
  BY <1>4 DEF Others, Alive
<1>7. DrawnOK(call[h])'
  BY <1>1, <1>4, <1>6, FreshIs DEF DrawnOK, Received
<1>8. users'[u].vtoken <= issued' /\ \A m \in mailed : m[1] # users'[u].vtoken
  BY <1>1, <1>4, FreshIs
<1>9. ASSUME NEW g \in Handlers \ {h}
      PROVE  /\ call[g].pc \in Drawn => call[g].token # users'[u].vtoken
             /\ call[g].user = u => u \in disturbed'
  <2>1. call[g].user = u => u \in disturbed'
    BY <1>4 DEF Frame, Concern
  <2> QED
    BY <1>1, <1>4, <2>1, FreshIs
<1> QED
  BY <1>1, <1>2, <1>4, <1>5, <1>7, <1>8, <1>9, AddressWritten

LEMMA RegisterCreateAddressed ==
  ASSUME TypeInv, Base, Addressed, NEW h \in Handlers, NEW u \in Users, RegisterCreate(h, u)
  PROVE  Addressed'
<1> DEFINE t == call[h].token
<1>1. /\ TypeInv' /\ Frame(h) /\ UNCHANGED <<mailed, issued, opened>>
      /\ call[h].pc = "registerCreate" /\ call'[h].pc = "storeSession"
      /\ u \notin Alive /\ u \notin Deleted /\ Alive' = Alive \cup {u}
      /\ users'[u].email = call[h].address /\ users'[u].verified = FALSE
      /\ users'[u].vtoken = t
  BY RegisterCreateStep DEF RegisterCreate, Moves, history, Deleted
<1>2. \A v \in Alive : users'[v] = users[v]
  BY <1>1, RegisterCreateStep DEF Others, Alive
<1>3. Apart(h)' /\ AskedOK(call[h])' /\ DrawnOK(call[h]) /\ Received' = Received
        /\ disturbed \subseteq disturbed'
  BY <1>1 DEF Apart, AskedOK, Drawn, Addressed, Received, Frame
<1>4. (\A v \in Alive : users[v].vtoken <= issued)'
  BY <1>1, <1>2, <1>3 DEF Addressed, DrawnOK
<1>5. (\A f, g \in Handlers : f # g /\ call[f].pc \in Drawn /\ call[g].pc \in Drawn
                                => call[f].token # call[g].token)'
  BY <1>1, <1>3, ApartAll
<1>6. ASSUME NEW g \in Handlers, call'[g].pc \in Drawn
      PROVE  DrawnOK(call[g])'
  <2>1. g # h /\ call'[g] = call[g] /\ DrawnOK(call[g])
    BY <1>1, <1>6 DEF Frame, Addressed, Drawn
  <2>2. call[g].token # t
    BY <1>1, <1>6, <2>1 DEF Addressed, Drawn
  <2> QED
    BY <1>1, <1>2, <1>3, <2>1, <2>2 DEF DrawnOK
<1>7. ASSUME NEW g \in Handlers
      PROVE  AskedOK(call[g])'
  <2>1. CASE g = h
    BY <1>3, <2>1
  <2>2. CASE g # h
    <3>1. call'[g] = call[g] /\ AskedOK(call[g])
      BY <1>1, <2>2 DEF Frame, Addressed
    <3>2. call[g].user # u
      BY <1>1, Fit, ConcernIs DEF Fits, Known
    <3> QED
      BY <1>1, <1>2, <1>3, <3>1, <3>2 DEF AskedOK, MailedFor
  <2> QED
    BY <2>1, <2>2
<1>8. (\A v \in Alive \ disturbed :
         \A m \in mailed : m[1] = users[v].vtoken => Reaches(m[2], users[v].email))'
  BY <1>1, <1>2, <1>3 DEF Addressed, DrawnOK, Reaches
<1>9. VerifiedByMail'
  BY <1>1, <1>2, <1>3 DEF Addressed, VerifiedByMail, MailedFor
<1>10. (\A m \in mailed : m[1] \in 1 .. issued)'
  BY <1>1 DEF Addressed
<1> QED
  BY <1>4, <1>5, <1>6, <1>7, <1>8, <1>9, <1>10 DEF Addressed

\* Slot h mails token t to address a.
LEMMA MailedKept ==
  ASSUME TypeInv, Addressed, NEW h \in Handlers, Frame(h),
         UNCHANGED <<users, issued, opened>>, NEW t \in 1 .. issued, NEW a,
         mailed' = mailed \cup {<<t, a>>},
         \A g \in Handlers \ {h} : call[g].pc \in Drawn => call[g].token # t,
         \A u \in Alive \ disturbed : users[u].vtoken = t => Reaches(a, users[u].email),
         Apart(h)', call'[h].pc \in Drawn => DrawnOK(call[h])', AskedOK(call[h])'
  PROVE  Addressed'
<1>0. Received' = Received \cup {t}
  <2>1. \A m \in mailed' : m \in mailed \/ m[1] = t
    OBVIOUS
  <2>2. <<t, a>> \in mailed' /\ <<t, a>>[1] = t
    OBVIOUS
  <2>3. Received' \subseteq Received \cup {t}
    BY <2>1 DEF Received
  <2>4. Received \cup {t} \subseteq Received'
    BY <2>2 DEF Received
  <2> QED
    BY <2>3, <2>4
<1>1. Alive' = Alive /\ Received' = Received \cup {t} /\ disturbed \subseteq disturbed'
  BY <1>0 DEF Alive, Frame
<1>2. (\A m \in mailed : m[1] \in 1 .. issued)' /\ (\A u \in Alive : users[u].vtoken <= issued)'
  BY <1>1 DEF Addressed
<1>3. (\A f, g \in Handlers : f # g /\ call[f].pc \in Drawn /\ call[g].pc \in Drawn
                                => call[f].token # call[g].token)'
  BY ApartAll
<1>4. ASSUME NEW g \in Handlers, call'[g].pc \in Drawn
      PROVE  DrawnOK(call[g])'
  <2>1. CASE g = h
    BY <1>4, <2>1
  <2>2. CASE g # h
    <3>1. call'[g] = call[g] /\ DrawnOK(call[g]) /\ call[g].token # t
      BY <1>4, <2>2 DEF Frame, Addressed
    <3> QED
      BY <1>1, <3>1 DEF DrawnOK
  <2> QED
    BY <2>1, <2>2
<1>5. ASSUME NEW g \in Handlers
      PROVE  AskedOK(call[g])'
  <2>1. CASE g = h
    BY <2>1
  <2>2. CASE g # h
    <3>1. call'[g] = call[g] /\ AskedOK(call[g])
      BY <2>2 DEF Frame, Addressed
    <3> QED
      BY <1>1, <3>1 DEF AskedOK, MailedFor
  <2> QED
    BY <2>1, <2>2
<1>6. (\A u \in Alive \ disturbed :
         \A m \in mailed : m[1] = users[u].vtoken => Reaches(m[2], users[u].email))'
  BY <1>1 DEF Addressed
<1>7. VerifiedByMail'
  BY <1>1 DEF Addressed, VerifiedByMail, MailedFor
<1> QED
  BY <1>2, <1>3, <1>4, <1>5, <1>6, <1>7 DEF Addressed

LEMMA RegisterMailAddressed ==
  ASSUME TypeInv, Addressed, NEW h \in Handlers, RegisterMail(h)
  PROVE  Addressed'
<1> DEFINE t == call[h].token
           a == call[h].address
<1>1. /\ Frame(h) /\ UNCHANGED <<users, issued, opened>> /\ mailed' = mailed \cup {<<t, a>>}
      /\ call[h].pc = "registerMail" /\ call'[h].pc = "registerCreate"
      /\ call'[h].user = NoUser /\ call'[h].address = a /\ call'[h].token = t
  BY RegisterMailStep DEF RegisterMail, Send, Moves, history
<1>2. DrawnOK(call[h]) /\ t # NoToken /\ t \in Nat /\ issued \in Nat
  BY <1>1, Here, Numbers DEF Addressed, Drawn, Shape
<1>3. t \in 1 .. issued
  BY <1>2 DEF DrawnOK, NoToken
<1>4. \A g \in Handlers \ {h} : call[g].pc \in Drawn => call[g].token # t
  BY <1>1 DEF Addressed, Drawn
<1>5. \A u \in Alive : users[u].vtoken # t
  BY <1>1, <1>2 DEF DrawnOK
<1>6. Apart(h)' /\ AskedOK(call[h])'
  BY <1>1, <1>4, NamesAssumption DEF Apart, Frame, AskedOK, Alive
<1>7. DrawnOK(call[h])'
  BY <1>1, <1>2, <1>5 DEF DrawnOK, Received, Alive
<1> HIDE DEF t, a
<1> QED
  BY <1>1, <1>3, <1>4, <1>5, <1>6, <1>7, MailedKept

LEMMA MailAddressed ==
  ASSUME TypeInv, Addressed, NEW h \in Handlers, Mail(h)
  PROVE  Addressed'
<1> DEFINE t == call[h].token
           a == call[h].address
<1>1. /\ Frame(h) /\ UNCHANGED <<users, issued, opened>> /\ mailed' = mailed \cup {<<t, a>>}
      /\ call[h].pc = "mail" /\ call'[h].pc = "idle"
  BY MailStep DEF Mail, Send, Moves, history
<1>2. DrawnOK(call[h]) /\ AskedOK(call[h]) /\ t # NoToken /\ t \in Nat /\ issued \in Nat
  BY <1>1, Here, Numbers DEF Addressed, Drawn, Shape
<1>3. t \in 1 .. issued
  BY <1>2 DEF DrawnOK, NoToken
<1>4. \A g \in Handlers \ {h} : call[g].pc \in Drawn => call[g].token # t
  BY <1>1 DEF Addressed, Drawn
<1>5. \A u \in Alive \ disturbed : users[u].vtoken = t => Reaches(a, users[u].email)
  BY <1>1, <1>2 DEF DrawnOK, AskedOK
<1>6. Apart(h)' /\ AskedOK(call[h])' /\ call'[h].pc \notin Drawn
  BY <1>1 DEF Apart, AskedOK, Drawn
<1> HIDE DEF t, a
<1> QED
  BY <1>1, <1>3, <1>4, <1>5, <1>6, MailedKept

\* The surroundings, and steps that change nothing here.
LEMMA AddressedSurroundings ==
  ASSUME Addressed, MailStands, UNCHANGED <<call, mailed, issued, opened>>,
         disturbed \subseteq disturbed'
  PROVE  Addressed'
<1>1. Received' = Received
  BY DEF Received
<1>2. \A h \in Handlers : DrawnOK(call[h]) => DrawnOK(call[h])'
  BY <1>1 DEF DrawnOK, MailStands
<1>3. \A h \in Handlers : AskedOK(call[h]) => AskedOK(call[h])'
  BY DEF AskedOK, MailedFor, MailStands
<1>4. VerifiedByMail'
  BY DEF Addressed, VerifiedByMail, MailedFor, MailStands
<1> QED
  BY <1>2, <1>3, <1>4 DEF Addressed, MailStands

LEMMA AddressedNext ==
  ASSUME TypeInv, Base, Addressed, [Next]_vars
  PROVE  Addressed'
<1>1. ASSUME NEW h \in Handlers, NEW a \in Emails, RegisterEmail(h, a)
      PROVE  Addressed'
  BY <1>1, RegisterEmailStep, AddressedQuiet DEF Moves, Stands, history, Drawn,
     RegisterEmail
<1>2. ASSUME NEW h \in Handlers, NEW u \in Users, NEW a \in Emails, Login(h, u, a)
      PROVE  Addressed'
  BY <1>2, LoginStep, AddressedQuiet DEF Moves, Stands, history, Drawn, Login
<1>3. ASSUME NEW h \in Handlers, NEW u \in Users, Refresh(h, u)
      PROVE  Addressed'
  BY <1>3, RefreshStep, AddressedQuiet DEF Moves, Stands, history, Drawn, Refresh
<1>4. ASSUME NEW h \in Handlers, NEW u \in Users, NEW t \in 1 .. MaxTokens,
            ResetFind(h, u, t)
      PROVE  Addressed'
  BY <1>4, ResetFindStep, AddressedQuiet DEF Moves, Stands, history, Drawn, ResetFind
<1>5. ASSUME NEW h \in Handlers, NEW u \in Users, MergeBegin(h, u)
      PROVE  Addressed'
  BY <1>5, MergeBeginStep, AddressedQuiet DEF Moves, Stands, history, Drawn, MergeBegin
<1>6. ASSUME NEW h \in Handlers, NEW u \in Users, MergePlatformBegin(h, u)
      PROVE  Addressed'
  BY <1>6, MergePlatformBeginStep, AddressedQuiet DEF Moves, Stands, history, Drawn,
     MergePlatformBegin
<1>7. ASSUME NEW h \in Handlers, StoreSession(h)
      PROVE  Addressed'
  BY <1>7, StoreSessionStep, AddressedQuiet DEF Moves, Stands, history, Drawn,
     StoreSession
<1>8. ASSUME NEW h \in Handlers, ResetSave(h)
      PROVE  Addressed'
  BY <1>8, ResetSaveStep, AddressedQuiet DEF Moves, Stands, history, Drawn, ResetSave
<1>9. ASSUME NEW h \in Handlers, NEW u \in Users, NEW a \in Emails, MergeEmail(h, u,
            a)
      PROVE  Addressed'
  BY <1>9, MergeEmailStep, AddressedQuiet DEF Moves, Stands, history, Drawn, MergeEmail
<1>10. ASSUME NEW h \in Handlers, NEW u \in Users, MergePlatform(h, u)
      PROVE  Addressed'
  BY <1>10, MergePlatformStep, AddressedQuiet DEF Moves, Stands, history, Drawn,
     MergePlatform
<1>11. ASSUME NEW h \in Handlers, DeleteOther(h)
      PROVE  Addressed'
  BY <1>11, DeleteOtherStep, AddressedQuiet DEF Moves, Stands, history, Drawn, DeleteOther
<1>12. ASSUME NEW h \in Handlers, MergeSave(h)
      PROVE  Addressed'
  BY <1>12, MergeSaveStep, AddressedQuiet DEF Moves, Stands, history, Drawn, MergeSave
<1>13. ASSUME NEW h \in Handlers, ListSubs(h)
      PROVE  Addressed'
  BY <1>13, ListSubsStep, AddressedQuiet DEF Moves, Stands, history, Drawn, ListSubs
<1>14. ASSUME NEW h \in Handlers, NEW s \in Subs, Transfer(h, s)
      PROVE  Addressed'
  BY <1>14, TransferStep, AddressedQuiet DEF Moves, Stands, history, Drawn, Transfer
<1>15. ASSUME NEW h \in Handlers, DeleteById(h)
      PROVE  Addressed'
  BY <1>15, DeleteByIdBase, DeleteByIdStep, AddressedQuiet DEF Moves, Stands, history,
     Drawn, DeleteById
<1>16. ASSUME NEW h \in Handlers, CallFails(h)
      PROVE  Addressed'
  BY <1>16, CallFailsStep, IdleIs, AddressedQuiet DEF Moves, Stands, history, Drawn
<1>17. ASSUME NEW h \in Handlers, RegisterName(h)
      PROVE  Addressed'
  BY <1>17, RegisterNameAddressed
<1>18. ASSUME NEW h \in Handlers, RegisterMail(h)
      PROVE  Addressed'
  BY <1>18, RegisterMailAddressed
<1>19. ASSUME NEW h \in Handlers, NEW u \in Users, RegisterCreate(h, u)
      PROVE  Addressed'
  BY <1>19, RegisterCreateAddressed
<1>20. ASSUME NEW h \in Handlers, NEW u \in Users, NEW t \in 1 .. MaxTokens,
            VerifyFind(h, u, t)
      PROVE  Addressed'
  BY <1>20, VerifyFindAddressed
<1>21. ASSUME NEW h \in Handlers, VerifySave(h)
      PROVE  Addressed'
  BY <1>21, VerifySaveAddressed
<1>22. ASSUME NEW h \in Handlers, NEW u \in Users, NEW a \in Emails, RenewFind(h, u,
            a)
      PROVE  Addressed'
  BY <1>22, RenewFindAddressed
<1>23. ASSUME NEW h \in Handlers, RenewSave(h)
      PROVE  Addressed'
  BY <1>23, RenewSaveAddressed
<1>24. ASSUME NEW h \in Handlers, Mail(h)
      PROVE  Addressed'
  BY <1>24, MailAddressed
<1>25. ASSUME NEW h \in Handlers, NEW u \in Users, NEW a \in Emails, SetEmail(h, u, a)
      PROVE  Addressed'
  BY <1>25, SetEmailAddressed
<1>26. ASSUME NEW h \in Handlers, NEW u \in Users, NEW a \in Emails, ResetRequest(h,
            u, a)
      PROVE  Addressed'
  BY <1>26, ResetRequestAddressed
<1>27. ASSUME NEW h \in Handlers, ResetTokenSave(h)
      PROVE  Addressed'
  BY <1>27, ResetTokenSaveAddressed
<1>28. ASSUME NEW u \in Users, Logout(u)
      PROVE  Addressed'
  BY <1>28, LogoutStep, AddressedSurroundings DEF Logout
<1>29. ASSUME NEW u \in Users, NEW s \in Subs, Grant(u, s)
      PROVE  Addressed'
  BY <1>29, GrantStep, AddressedSurroundings DEF MailStands, Alive
<1>30. CASE UNCHANGED vars
  BY <1>30, AddressedSurroundings DEF vars, history, MailStands, Alive
<1> QED
  BY <1>1, <1>2, <1>3, <1>4, <1>5, <1>6, <1>7, <1>8, <1>9, <1>10, <1>11, <1>12,
     <1>13, <1>14, <1>15, <1>16, <1>17, <1>18, <1>19, <1>20, <1>21, <1>22, <1>23,
     <1>24, <1>25, <1>26, <1>27, <1>28, <1>29, <1>30 DEF Next, CallBegins, CallStep

-----------------------------------------------------------------------------
(* The promises.                                                           *)

IInv == TypeInv /\ Base /\ Merges /\ Sold /\ Addressed /\ Resets /\ Sessions

\* Before anything happens nothing is mailed, sold, merged or logged out.
LEMMA InitIs ==
  ASSUME Init
  PROVE  /\ Deleted = {} /\ mailed = {} /\ spent = {} /\ twice = {} /\ loggedOut = {}
         /\ issued = 0
         /\ \A s \in Subs : owner[s] = NoUser /\ granted[s] = NoUser
         /\ \A h \in Handlers : call[h].pc = "idle" /\ call[h].user = NoUser
         /\ \A u \in Alive : /\ users[u].verified = FALSE
                             /\ users[u].vtoken = NoToken /\ users[u].rtoken = NoToken
<1>1. \A u \in Alive : users[u] = PlatformDoc
  BY DEF Init, Alive
<1>2. /\ PlatformDoc.verified = FALSE
      /\ PlatformDoc.vtoken = NoToken /\ PlatformDoc.rtoken = NoToken
  BY DEF PlatformDoc
<1> QED
  BY <1>1, <1>2, IdleIs DEF Init, Deleted

LEMMA InitInv ==
  ASSUME Init
  PROVE  IInv
<1>0. NoToken <= issued
  <2>1. issued = 0
    BY InitIs
  <2> QED
    BY <2>1 DEF NoToken
<1>1. Merges
  BY InitIs DEF Merges
<1>2. Sold
  BY InitIs, NamesAssumption DEF Sold
<1>3. Addressed
  <2>1. \A h \in Handlers : AskedOK(call[h]) /\ call[h].pc \notin Drawn
    BY InitIs DEF AskedOK, Drawn
  <2>2. \A u \in Alive : users[u].vtoken <= issued /\ ~users[u].verified
    BY <1>0, InitIs
  <2>3. mailed = {}
    BY InitIs
  <2> QED
    BY <2>1, <2>2, <2>3 DEF Addressed, VerifiedByMail
<1>4. Resets
  <2>1. \A u \in Alive : users[u].rtoken <= issued /\ users[u].rtoken = NoToken
    BY <1>0, InitIs
  <2>2. \A h \in Handlers : call[h].pc = "idle"
    BY InitIs
  <2>3. spent = {} /\ twice = {}
    BY InitIs
  <2> QED
    BY <2>1, <2>2, <2>3 DEF Resets, ResetOnce
<1>5. Sessions
  BY InitIs DEF Sessions, LogoutHolds, Merging
<1> QED
  BY <1>1, <1>2, <1>3, <1>4, <1>5, BaseInit DEF IInv

LEMMA NextInv ==
  ASSUME IInv, [Next]_vars
  PROVE  IInv'
  BY TypeNext, BaseNext, MergesNext, SoldNext, AddressedNext, ResetsNext, SessionsNext
     DEF IInv

LEMMA AlwaysInv == Spec => []IInv
  BY InitInv, NextInv, PTL DEF Spec

\* Every account has its fields, every call the locals of the place it is at, whatever
\* calls overlap, fail or are cut short.
THEOREM AccountsTypeOK == Spec => []TypeOK
<1>1. IInv => TypeOK
  BY DEF IInv, TypeInv, UsersOK, RestOK, TypeOK
<1> QED
  BY <1>1, AlwaysInv, PTL

\* mergeAccounts loses nobody: an account that it deleted, and whose user had no other
\* call in between, went into one that lives, and that one ends up with what the
\* platform knew.
THEOREM MergesKeepTheAccount == Spec => []MergedIntoLiving
<1>1. IInv => MergedIntoLiving
  <2> SUFFICES ASSUME IInv, NEW u \in Deleted \ disturbed
               PROVE  /\ users[u] = NoDoc /\ successor[u] \in Alive
                      /\ MergeOf(u) = {} => users[successor[u]].data
    BY DEF MergedIntoLiving
  <2>1. Merged(u)
    BY DEF IInv, Merges
  <2>2. u \in Users /\ u \notin Alive
    BY DEF IInv, Base, Deleted
  <2>3. \A h \in Handlers : Saving(h, u) => h \in MergeOf(u)
    BY DEF Saving, MergeOf
  <2> QED
    BY <2>1, <2>2, <2>3 DEF Merged, Alive
<1> QED
  BY <1>1, AlwaysInv, PTL

\* The transfer in mergeWithEmailAccount and mergeWithPlatformAccount is complete:
\* what a user bought outside of a merge stays or goes where the account went.
THEOREM SubscriptionsAlwaysFollow == Spec => []SubscriptionsFollow
<1>1. IInv => SubscriptionsFollow
  <2> SUFFICES ASSUME IInv, NEW s \in Subs, NEW u, u = granted[s], u # NoUser, u \notin disturbed
               PROVE  /\ owner[s] \in {u, successor[u]} \ {NoUser}
                      /\ u \in Deleted /\ MergeOf(u) = {} => owner[s] = successor[u]
    BY DEF SubscriptionsFollow
  <2>1. u \in Users
    BY DEF IInv, TypeInv, RestOK
  <2>2. Follows(u, s)
    BY <2>1 DEF IInv, Sold
  <2>3. \A h \in Handlers : Carries(h, u, s) => h \in MergeOf(u)
    BY DEF Carries, MergeOf
  <2>4. u \in Deleted => successor[u] # NoUser
    BY DEF Deleted
  <2> QED
    BY <2>2, <2>3, <2>4 DEF Follows
<1> QED
  BY <1>1, AlwaysInv, PTL

\* emailVerified says the truth (verifyAndActivateEmail): if the calls of a user do not
\* overlap, an account is verified only by a token that was mailed to its address, or to
\* a string that findByEmail takes for it.
THEOREM VerifiedAddressesAreRead == Spec => []VerifiedByMail
<1>1. IInv => VerifiedByMail
  BY DEF IInv, Addressed
<1> QED
  BY <1>1, AlwaysInv, PTL

\* A token from a mail of requestPasswordReset sets a password once, if the calls of
\* its user do not overlap (resetPasswordWithToken).
THEOREM TokensResetOnce == Spec => []ResetOnce
<1>1. IInv => ResetOnce
  BY DEF IInv, Resets
<1> QED
  BY <1>1, AlwaysInv, PTL

\* A logout ends the session for good, unless a refresh or a login overlapped it
\* (AuthController.logout).
THEOREM LogoutsHold == Spec => []LogoutHolds
<1>1. IInv => LogoutHolds
  BY DEF IInv, Sessions
<1> QED
  BY <1>1, AlwaysInv, PTL
=============================================================================
