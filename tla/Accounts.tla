------------------------------- MODULE Accounts -------------------------------
(***************************************************************************)
(* The accounts: AuthController, AuthService, UsersService and MailService *)
(* (src/auth, src/users, src/mail).  A user registers, proves an address   *)
(* with a token mailed to it, logs in and out, refreshes the session,      *)
(* resets a forgotten password, and merges the account that a platform     *)
(* login made with the one of an address; the merge moves subscriptions    *)
(* and deletes the platform's account.                                     *)
(*                                                                         *)
(* One action per database operation or mail.  A call that finds nothing,  *)
(* or refuses, changes nothing and is not a step; so does a token that has *)
(* expired.  Of a password and of the stored refresh hash it counts        *)
(* whether there is one: that is what a later call asks (of the hash,      *)
(* because bcrypt compares the first 72 bytes, alike in all tokens of one  *)
(* user).  findByEmail takes what the caller typed for a regular           *)
(* expression, in which '.', '+' and the like are no plain characters and  *)
(* case does not count: which stored addresses a string finds is a         *)
(* parameter.                                                              *)
(***************************************************************************)
EXTENDS Naturals, FiniteSets

CONSTANTS
  Users,         \* ids
  PlatformUsers, \* the accounts that a platform login made, without an address
  Emails,        \* addresses, as stored and as typed
  Matches,       \* the pairs of a string and a stored address that it finds
  Subs,          \* ids of subscriptions
  Handlers,      \* slots for calls in flight (bound on concurrency)
  NoUser, NoEmail, NoDoc,
  MaxTokens, MaxFails   \* bounds on the tokens issued and on the calls cut short

ASSUME NamesAssumption == NoUser \notin Users /\ NoEmail \notin Emails
ASSUME AccountsAssumption == PlatformUsers \subseteq Users
ASSUME MatchesAssumption == Matches \subseteq Emails \X Emails
ASSUME BoundsAssumption == MaxTokens \in Nat /\ MaxFails \in Nat

NoToken == 0
Doc == [email : Emails \cup {NoEmail}, verified : BOOLEAN, password : BOOLEAN,
        platform : BOOLEAN, data : BOOLEAN, session : BOOLEAN, vtoken : Nat, rtoken : Nat]

ASSUME NoDocAssumption == NoDoc \notin Doc

VARIABLES
  users,     \* per id: the document, or NoDoc
  owner,     \* per subscription: its userId, NoUser before it exists
  mailed,    \* every <<token, address>> mailed
  issued,    \* how many tokens were drawn
  call,      \* per slot: the call in flight and its locals
  fails,
  opened,    \* history: the tokens that verified an account
  spent,     \* history: the tokens that reset a password
  twice,     \* history: the users whose password a spent token reset again
  loggedOut, \* history: the users whose last session ended in a logout
  successor, \* history: per deleted account, the one it was merged into
  granted,   \* history: per subscription, its first owner
  disturbed  \* history: the users two of whose calls overlapped, one of whose was
             \* cut short, or who were sold a subscription amid a merge or after it

history == <<opened, spent, twice, loggedOut, successor, granted>>
vars == <<users, owner, mailed, issued, call, fails, opened, spent, twice, loggedOut,
          successor, granted, disturbed>>

Idle == [pc |-> "idle", user |-> NoUser, other |-> NoUser, address |-> NoEmail,
         token |-> NoToken, seen |-> FALSE, left |-> {}]

Call == [pc : {"idle", "registerName", "registerMail", "registerCreate", "storeSession",
               "verifySave", "renewSave", "mail", "resetTokenSave", "resetSave",
               "mergeEmail", "mergePlatform", "deleteOther", "mergeSave", "list", "transfer"},
         user : Users \cup {NoUser}, other : Users \cup {NoUser},
         address : Emails \cup {NoEmail}, token : Nat, seen : BOOLEAN, left : SUBSET Subs]

TypeOK ==
  /\ users \in [Users -> Doc \cup {NoDoc}]
  /\ owner \in [Subs -> Users \cup {NoUser}]
  /\ mailed \in SUBSET (Nat \X Emails)
  /\ issued \in Nat
  /\ call \in [Handlers -> Call]
  /\ fails \in Nat
  /\ opened \in SUBSET Nat
  /\ spent \in SUBSET Nat
  /\ twice \in SUBSET Users
  /\ loggedOut \in SUBSET Users
  /\ successor \in [Users -> Users \cup {NoUser}]
  /\ granted \in [Subs -> Users \cup {NoUser}]
  /\ disturbed \in SUBSET Users

PlatformDoc == [email |-> NoEmail, verified |-> FALSE, password |-> FALSE, platform |-> TRUE,
                data |-> TRUE, session |-> TRUE, vtoken |-> NoToken, rtoken |-> NoToken]

\* A registered account with address a, and t mailed to it.
EmailDoc(a, t) == [PlatformDoc EXCEPT !.email = a, !.password = TRUE, !.platform = FALSE,
                                      !.data = FALSE, !.session = FALSE, !.vtoken = t]

Init ==
  /\ users = [u \in Users |-> IF u \in PlatformUsers THEN PlatformDoc ELSE NoDoc]
  /\ mailed = {}
  /\ owner = [s \in Subs |-> NoUser]
  /\ issued = 0
  /\ call = [h \in Handlers |-> Idle]
  /\ fails = 0
  /\ opened = {}
  /\ spent = {}
  /\ twice = {}
  /\ loggedOut = {}
  /\ successor = [u \in Users |-> NoUser]
  /\ granted = [s \in Subs |-> NoUser]
  /\ disturbed = {}

-----------------------------------------------------------------------------
(* Documents, calls and tokens.                                            *)

Alive == {u \in Users : users[u] # NoDoc}

\* findByEmail(a); several accounts may match, and any of them may come first.
WithEmail(a) == {u \in Alive : <<a, users[u].email>> \in Matches}

Concern(c) == {c.user, c.other} \cap Users
Busy(h) == UNION {Concern(call[g]) : g \in Handlers \ {h}}

Set(h, c) ==
  /\ call' = [call EXCEPT ![h] = c]
  /\ disturbed' = disturbed \cup (Concern(c) \cap Busy(h))

\* save() of the document of u: only what the call changed is written, and a
\* document that is gone is an error.
Save(h, u, d, c) ==
  IF u \in Alive THEN users' = [users EXCEPT ![u] = d] /\ Set(h, c)
                 ELSE users' = users /\ Set(h, Idle)

Fresh == issued < MaxTokens /\ issued' = issued + 1

\* sendVerificationEmail, sendPasswordResetEmail
Send(t, a) == mailed' = mailed \cup {<<t, a>>}
Received == {m[1] : m \in mailed}

-----------------------------------------------------------------------------
(* Registration.                                                           *)

RegisterEmail(h, a) ==
  /\ call[h] = Idle
  /\ WithEmail(a) = {}
  /\ Set(h, [Idle EXCEPT !.pc = "registerName", !.address = a])
  /\ UNCHANGED <<users, owner, mailed, issued, fails, history>>

\* The name may be taken, the password too short.
RegisterName(h) ==
  /\ call[h].pc = "registerName"
  /\ \/ Set(h, Idle) /\ UNCHANGED issued
     \/ Fresh /\ Set(h, [call[h] EXCEPT !.pc = "registerMail", !.token = issued'])
  /\ UNCHANGED <<users, owner, mailed, fails, history>>

\* The mail goes out before there is an account.
RegisterMail(h) ==
  /\ call[h].pc = "registerMail"
  /\ Send(call[h].token, call[h].address)
  /\ Set(h, [call[h] EXCEPT !.pc = "registerCreate"])
  /\ UNCHANGED <<users, owner, issued, fails, history>>

RegisterCreate(h, u) ==
  /\ call[h].pc = "registerCreate"
  /\ u \notin Alive /\ successor[u] = NoUser
  /\ users' = [users EXCEPT ![u] = EmailDoc(call[h].address, call[h].token)]
  /\ Set(h, [Idle EXCEPT !.pc = "storeSession", !.user = u])
  /\ UNCHANGED <<owner, mailed, issued, fails, history>>

-----------------------------------------------------------------------------
(* Sessions.                                                               *)

\* validateUser; the password is the right one.
MayLogin(u, a) == u \in WithEmail(a) /\ users[u].password /\ users[u].verified

Login(h, u, a) ==
  /\ call[h] = Idle
  /\ MayLogin(u, a)
  /\ Set(h, [Idle EXCEPT !.pc = "storeSession", !.user = u])
  /\ loggedOut' = loggedOut \ {u}
  /\ UNCHANGED <<users, owner, mailed, issued, fails, opened, spent, twice, successor, granted>>

\* Mutant: nobody asks whether a session is stored.
RefreshAlways(h, u) ==
  /\ call[h] = Idle
  /\ u \in Alive
  /\ Set(h, [Idle EXCEPT !.pc = "storeSession", !.user = u])
  /\ UNCHANGED <<users, owner, mailed, issued, fails, history>>

Refresh(h, u) ==
  /\ call[h] = Idle
  /\ u \in Alive /\ users[u].session
  /\ Set(h, [Idle EXCEPT !.pc = "storeSession", !.user = u])
  /\ UNCHANGED <<users, owner, mailed, issued, fails, history>>

\* AuthService.login: the hash is stored, whatever is stored by now.
StoreSession(h) ==
  /\ call[h].pc = "storeSession"
  /\ users' = IF call[h].user \in Alive
              THEN [users EXCEPT ![call[h].user].session = TRUE] ELSE users
  /\ Set(h, Idle)
  /\ UNCHANGED <<owner, mailed, issued, fails, history>>

\* The one write of logout, for the user of either token.
Logout(u) ==
  /\ u \in Alive
  /\ users' = [users EXCEPT ![u].session = FALSE]
  /\ loggedOut' = loggedOut \cup {u}
  /\ disturbed' = disturbed \cup ({u} \cap UNION {Concern(call[g]) : g \in Handlers})
  /\ UNCHANGED <<owner, mailed, issued, call, fails, opened, spent, twice, successor, granted>>

-----------------------------------------------------------------------------
(* Addresses.                                                              *)

VerifyFind(h, u, t) ==
  /\ call[h] = Idle
  /\ t \in Received
  /\ u \in Alive /\ users[u].vtoken = t
  /\ Set(h, [Idle EXCEPT !.pc = "verifySave", !.user = u, !.token = t,
                         !.seen = users[u].verified])
  /\ UNCHANGED <<users, owner, mailed, issued, fails, history>>

\* emailVerified is written if the copy was not verified.
VerifySave(h) ==
  LET c == call[h] IN
  /\ c.pc = "verifySave"
  /\ Save(h, c.user, [users[c.user] EXCEPT !.verified = @ \/ ~c.seen, !.vtoken = NoToken], Idle)
  /\ opened' = opened \cup {c.token}
  /\ UNCHANGED <<owner, mailed, issued, fails, spent, twice, loggedOut, successor, granted>>

\* requestVerification will mail to the string that found the account.
RenewFind(h, u, a) ==
  /\ call[h] = Idle
  /\ u \in WithEmail(a) /\ ~users[u].verified
  /\ Fresh
  /\ Set(h, [Idle EXCEPT !.pc = "renewSave", !.user = u, !.address = a, !.token = issued'])
  /\ UNCHANGED <<users, owner, mailed, fails, history>>

RenewSave(h) ==
  LET c == call[h] IN
  /\ c.pc = "renewSave"
  /\ Save(h, c.user, [users[c.user] EXCEPT !.vtoken = c.token], [c EXCEPT !.pc = "mail"])
  /\ UNCHANGED <<owner, mailed, issued, fails, history>>

\* The mail goes to the address that the call has noted.
Mail(h) ==
  /\ call[h].pc = "mail"
  /\ Send(call[h].token, call[h].address)
  /\ Set(h, Idle)
  /\ UNCHANGED <<users, owner, issued, fails, history>>

\* Mutant: a changed address stays verified.
SetEmailVerified(h, u, a) ==
  /\ call[h] = Idle
  /\ u \in Alive
  /\ Fresh
  /\ users' = [users EXCEPT ![u].email = a, ![u].vtoken = issued']
  /\ Set(h, [Idle EXCEPT !.pc = "mail", !.user = u, !.address = a, !.token = issued'])
  /\ UNCHANGED <<owner, mailed, fails, history>>

\* setEmailAndSendVerification; nobody asks whether the address is in use.
SetEmail(h, u, a) ==
  /\ call[h] = Idle
  /\ u \in Alive
  /\ Fresh
  /\ users' = [users EXCEPT ![u].email = a, ![u].verified = FALSE, ![u].vtoken = issued']
  /\ Set(h, [Idle EXCEPT !.pc = "mail", !.user = u, !.address = a, !.token = issued'])
  /\ UNCHANGED <<owner, mailed, fails, history>>

-----------------------------------------------------------------------------
(* Forgotten passwords.                                                    *)

\* requestPasswordReset mails to the address of the account.
ResetRequest(h, u, a) ==
  /\ call[h] = Idle
  /\ u \in WithEmail(a)
  /\ Fresh
  /\ Set(h, [Idle EXCEPT !.pc = "resetTokenSave", !.user = u, !.address = users[u].email,
                         !.token = issued'])
  /\ UNCHANGED <<users, owner, mailed, fails, history>>

ResetTokenSave(h) ==
  LET c == call[h] IN
  /\ c.pc = "resetTokenSave"
  /\ Save(h, c.user, [users[c.user] EXCEPT !.rtoken = c.token], [c EXCEPT !.pc = "mail"])
  /\ UNCHANGED <<owner, mailed, issued, fails, history>>

ResetFind(h, u, t) ==
  /\ call[h] = Idle
  /\ t \in Received
  /\ u \in Alive /\ users[u].rtoken = t
  /\ Set(h, [Idle EXCEPT !.pc = "resetSave", !.user = u, !.token = t])
  /\ UNCHANGED <<users, owner, mailed, issued, fails, history>>

Spend(t, u) ==
  /\ spent' = spent \cup {t}
  /\ twice' = IF t \in spent THEN twice \cup {u} ELSE twice

\* Mutant: the token stays.
ResetSaveKeepsToken(h) ==
  LET c == call[h] IN
  /\ c.pc = "resetSave"
  /\ Save(h, c.user, [users[c.user] EXCEPT !.password = TRUE], Idle)
  /\ IF c.user \in Alive THEN Spend(c.token, c.user) ELSE UNCHANGED <<spent, twice>>
  /\ UNCHANGED <<owner, mailed, issued, fails, opened, loggedOut, successor, granted>>

ResetSave(h) ==
  LET c == call[h] IN
  /\ c.pc = "resetSave"
  /\ Save(h, c.user, [users[c.user] EXCEPT !.password = TRUE, !.rtoken = NoToken], Idle)
  /\ IF c.user \in Alive THEN Spend(c.token, c.user) ELSE UNCHANGED <<spent, twice>>
  /\ UNCHANGED <<owner, mailed, issued, fails, opened, loggedOut, successor, granted>>

-----------------------------------------------------------------------------
(* Merging.  In a call, "user" is the account that stays and "other" the   *)
(* one that goes.                                                          *)

\* mergeWithEmailAccount: the caller's account has no address ...
MergeBegin(h, s) ==
  /\ call[h] = Idle
  /\ s \in Alive /\ users[s].email = NoEmail
  /\ Set(h, [Idle EXCEPT !.pc = "mergeEmail", !.other = s])
  /\ UNCHANGED <<users, owner, mailed, issued, fails, history>>

\* ... and the one with the address no platform id, or the same: then it is the
\* caller's own.
MergeEmail(h, u, a) ==
  /\ call[h].pc = "mergeEmail"
  /\ MayLogin(u, a)
  /\ users[u].platform => u = call[h].other
  /\ Set(h, [call[h] EXCEPT !.pc = "deleteOther", !.user = u])
  /\ loggedOut' = loggedOut \ {u}
  /\ UNCHANGED <<users, owner, mailed, issued, fails, opened, spent, twice, successor, granted>>

\* mergeWithPlatformAccount: the caller's account has no platform id ...
MergePlatformBegin(h, u) ==
  /\ call[h] = Idle
  /\ u \in Alive /\ ~users[u].platform
  /\ Set(h, [Idle EXCEPT !.pc = "mergePlatform", !.user = u])
  /\ UNCHANGED <<users, owner, mailed, issued, fails, history>>

\* ... and the platform's account no address.
MergePlatform(h, s) ==
  /\ call[h].pc = "mergePlatform"
  /\ s \in Alive /\ users[s].platform /\ users[s].email = NoEmail
  /\ Set(h, [call[h] EXCEPT !.pc = "deleteOther", !.other = s])
  /\ loggedOut' = loggedOut \ {call[h].user}
  /\ UNCHANGED <<users, owner, mailed, issued, fails, opened, spent, twice, successor, granted>>

\* mergeAccounts deletes the one account before it saves the other.
DeleteOther(h) ==
  LET c == call[h] IN
  /\ c.pc = "deleteOther"
  /\ users' = [users EXCEPT ![c.other] = NoDoc]
  /\ successor' = IF c.other \in Alive THEN [successor EXCEPT ![c.other] = c.user] ELSE successor
  /\ Set(h, [c EXCEPT !.pc = "mergeSave"])
  /\ UNCHANGED <<owner, mailed, issued, fails, opened, spent, twice, loggedOut, granted>>

\* What the platform knew (external id, avatar, API token, cookies) is copied; the
\* platform id is not.
MergeSave(h) ==
  LET c == call[h] IN
  /\ c.pc = "mergeSave"
  /\ Save(h, c.user, [users[c.user] EXCEPT !.data = TRUE], [c EXCEPT !.pc = "list"])
  /\ UNCHANGED <<owner, mailed, issued, fails, history>>

\* Mutant: the subscriptions of the account that stays are listed.
ListSubsOfUser(h) ==
  /\ call[h].pc = "list"
  /\ Set(h, [call[h] EXCEPT !.pc = "transfer",
                            !.left = {s \in Subs : owner[s] = call[h].user}])
  /\ UNCHANGED <<users, owner, mailed, issued, fails, history>>

ListSubs(h) ==
  /\ call[h].pc = "list"
  /\ Set(h, [call[h] EXCEPT !.pc = "transfer",
                            !.left = {s \in Subs : owner[s] = call[h].other}])
  /\ UNCHANGED <<users, owner, mailed, issued, fails, history>>

\* Mutant: the address is written in the place of the id.
TransferToAddress(h, s) ==
  /\ call[h].pc = "transfer" /\ s \in call[h].left
  /\ owner' = [owner EXCEPT ![s] = call[h].address]
  /\ Set(h, [call[h] EXCEPT !.left = @ \ {s}])
  /\ UNCHANGED <<users, mailed, issued, fails, history>>

Transfer(h, s) ==
  /\ call[h].pc = "transfer" /\ s \in call[h].left
  /\ owner' = [owner EXCEPT ![s] = call[h].user]
  /\ Set(h, [call[h] EXCEPT !.left = @ \ {s}])
  /\ UNCHANGED <<users, mailed, issued, fails, history>>

\* Mutant: the account that stays is deleted.
DeleteByIdUser(h) ==
  /\ call[h].pc = "transfer" /\ call[h].left = {}
  /\ users' = [users EXCEPT ![call[h].user] = NoDoc]
  /\ Set(h, [Idle EXCEPT !.pc = "storeSession", !.user = call[h].user])
  /\ UNCHANGED <<owner, mailed, issued, fails, history>>

\* The account that goes is deleted once more, and a session begins.
DeleteById(h) ==
  /\ call[h].pc = "transfer" /\ call[h].left = {}
  /\ users' = [users EXCEPT ![call[h].other] = NoDoc]
  /\ Set(h, [Idle EXCEPT !.pc = "storeSession", !.user = call[h].user])
  /\ UNCHANGED <<owner, mailed, issued, fails, history>>

-----------------------------------------------------------------------------
(* The surroundings.                                                       *)

\* A paid order or a trial gives u a subscription (module Payments): orders keep
\* the user they were made for, and are not merged.
Grant(u, s) ==
  /\ u \in Alive \/ successor[u] # NoUser
  /\ owner[s] = NoUser
  /\ owner' = [owner EXCEPT ![s] = u]
  /\ granted' = [granted EXCEPT ![s] = u]
  /\ disturbed' = IF u \notin Alive \/ \E h \in Handlers : u \in Concern(call[h])
                  THEN disturbed \cup {u} ELSE disturbed
  /\ UNCHANGED <<users, mailed, issued, call, fails, opened, spent, twice, loggedOut, successor>>

\* A database operation or a mail fails, or the process goes down.
CallFails(h) ==
  /\ call[h] # Idle /\ fails < MaxFails
  /\ fails' = fails + 1
  /\ call' = [call EXCEPT ![h] = Idle]
  /\ disturbed' = disturbed \cup Concern(call[h])
  /\ UNCHANGED <<users, owner, mailed, issued, history>>

CallBegins(h) ==
  \/ \E a \in Emails : RegisterEmail(h, a)
  \/ \E u \in Users : Refresh(h, u) \/ MergeBegin(h, u) \/ MergePlatformBegin(h, u)
  \/ \E u \in Users, a \in Emails :
       Login(h, u, a) \/ RenewFind(h, u, a) \/ SetEmail(h, u, a) \/ ResetRequest(h, u, a)
  \/ \E u \in Users, t \in 1 .. MaxTokens : VerifyFind(h, u, t) \/ ResetFind(h, u, t)

CallStep(h) ==
  \/ RegisterName(h) \/ RegisterMail(h) \/ \E u \in Users : RegisterCreate(h, u)
  \/ StoreSession(h) \/ VerifySave(h) \/ RenewSave(h) \/ Mail(h)
  \/ ResetTokenSave(h) \/ ResetSave(h)
  \/ \E u \in Users, a \in Emails : MergeEmail(h, u, a)
  \/ \E u \in Users : MergePlatform(h, u)
  \/ DeleteOther(h) \/ MergeSave(h) \/ ListSubs(h)
  \/ \E s \in Subs : Transfer(h, s)
  \/ DeleteById(h)

Next ==
  \/ \E h \in Handlers : CallBegins(h) \/ CallStep(h) \/ CallFails(h)
  \/ \E u \in Users : Logout(u) \/ \E s \in Subs : Grant(u, s)

Spec == Init /\ [][Next]_vars

-----------------------------------------------------------------------------
(* Properties.  Each needs that calls of one user do not overlap and are   *)
(* not cut short: of the others, "disturbed" keeps count.                  *)

Deleted == {u \in Users : successor[u] # NoUser}
MergeOf(u) == {h \in Handlers : call[h].other = u}

\* An account goes only into one that lives, and once the merge is over that one
\* has what the platform knew (mergeAccounts, users.service.ts:304): the deletion
\* comes before the save, and nothing undoes it.
MergedIntoLiving ==
  \A u \in Deleted \ disturbed :
    /\ users[u] = NoDoc /\ successor[u] \in Alive
    /\ MergeOf(u) = {} => users[successor[u]].data

\* A subscription stays with the user it was sold to or follows that user into the
\* account it was merged into ("Transfer subscriptions from platform-only user",
\* auth.controller.ts:224), and after the merge none is left with a deleted one.
SubscriptionsFollow ==
  \A s \in Subs :
    LET u == granted[s] IN
    u # NoUser /\ u \notin disturbed =>
      /\ owner[s] \in {u, successor[u]} \ {NoUser}
      /\ u \in Deleted /\ MergeOf(u) = {} => owner[s] = successor[u]

\* A mail to a may carry the token of an account whose address is e.
Reaches(a, e) == a = e \/ <<a, e>> \in Matches

\* A verified account is one whose token came back from a mail to its address, or to
\* a string that finds this address, however often the address was changed, given
\* back or asked for again (verifyAndActivateEmail, auth.service.ts:255): no mail to
\* an earlier address verifies the present one, unless the earlier one finds it.
VerifiedByMail ==
  \A u \in Alive \ disturbed :
    users[u].verified =>
      \E t \in opened, a \in Emails : <<t, a>> \in mailed /\ Reaches(a, users[u].email)

\* A reset token resets one password once (users.service.ts:295).
ResetOnce == twice \subseteq disturbed

\* After a logout no session is stored until the next login
\* (auth.controller.ts:128).
LogoutHolds ==
  \A u \in (loggedOut \cap Alive) \ disturbed : ~users[u].session
=============================================================================
