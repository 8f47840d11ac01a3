----------------------------- MODULE Executions -----------------------------
(***************************************************************************)
(* The records of platform executions: MetricsService                      *)
(* (src/metrics/metrics.service.ts), which the executor tells of every     *)
(* execution once when it begins, once when it ends and later again in a   *)
(* history, and ExecutionManagementService, through which a user corrects  *)
(* what was matched.  A sale is matched, first in first out, to the        *)
(* purchases it sells.                                                     *)
(*                                                                         *)
(* One action per database operation.  What the platform says of an        *)
(* execution (whose it is, its items, its times, its type) is constant; a  *)
(* message may leave out the type.  Amounts are left out: a realizedValue  *)
(* is there or is not.  The manual fields that nothing here reads are left *)
(* out, and removeManualPurchase, which writes only those, with them.      *)
(***************************************************************************)
EXTENDS Naturals, Sequences, FiniteSetsExt, SequencesExt

CONSTANTS
  Users, Ids,    \* users, and execution ids on the platform
  Handlers,      \* slots for calls in flight (bound on concurrency)
  Owner,         \* per id: the user
  Names, ItemNames, \* per id: the names of its items
  TransactionType, \* per id: "INBOUND" (bought) or "OUTBOUND" (sold)
  Initiated, Updated, \* per id: its times
  Similar,       \* pairs of ids alike in price and time, as the history's query
                 \* compares them
  Recorded,      \* ids of which there is a document from the start, and whose
                 \* messages have all been heard
  EndStatus,     \* the statuses that a message of an execution's end may say
  HistoryStatus, \* the statuses that a history may say; of an execution that goes on
                 \* it says that it goes on
  Histories,     \* sets of ids a history may list
  MayPair,       \* pairs of ids a user may match by hand: sale and purchase
  MayCorrect,    \* ids a user may correct in the other ways
  Null, MANUAL_SALE

Types == {"INBOUND", "OUTBOUND"}
FinalStatus == {"COMPLETED_PROTECTED", "CANCELLED"}
\* "OTHER" is whatever else the platform may call an execution that has not ended.
Status == FinalStatus \cup {"JOINED", "OTHER"}

ASSUME NamesAssumption == Null \notin Ids /\ MANUAL_SALE \notin Ids /\ Null # MANUAL_SALE
ASSUME FactsAssumption ==
  /\ Owner \in [Ids -> Users]
  /\ TransactionType \in [Ids -> Types]
  /\ Initiated \in [Ids -> Nat] /\ Updated \in [Ids -> Nat]
  /\ ItemNames \in [Ids -> Seq(Names)]
ASSUME HistoriesAssumption == Histories \subseteq SUBSET Ids
ASSUME StatusAssumption == EndStatus \subseteq FinalStatus /\ HistoryStatus \subseteq Status
ASSUME CorrectionAssumption == MayPair \subseteq Ids \X Ids /\ MayCorrect \subseteq Ids
ASSUME RecordedAssumption == Recorded \subseteq Ids

VARIABLES
  docs,       \* per id: the execution document, of status "none" before it exists
  call,       \* per slot: the call and its locals
  disturbed   \* history: users two calls of whom overlapped, one of whose calls was
              \* cut short, or who matched a purchase that was matched already

vars == <<docs, call, disturbed>>

Doc == [status : Status \cup {"none"}, transactionType : Types,
        isSystemProcessed : BOOLEAN, initiatedAt : Nat,
        matchedToOutboundId : Ids \cup {Null, MANUAL_SALE},
        matchedToInboundId : Ids \cup {Null}, realized : BOOLEAN]

Pcs == {"idle", "find", "create", "update", "reread", "match", "linkBuy", "linkSell",
        "next", "search", "reconcile", "unlinkBuy", "unlinkSell", "clear",
        "sold", "bought", "profit"}

Kinds == {"initial", "final", "history", "manualMatch", "manual"}

\* Of the document a call has read it uses initiatedAt (at) or the two links (in and
\* out); with is the document it is to be linked to or reconciled with, item the
\* next item to match, todo what is left of a history.
Call == [pc : Pcs, kind : Kinds, user : Users \cup {Null}, id : Ids \cup {Null},
         status : Status, transactionType : Types,
         at : Nat, in : Ids \cup {Null}, out : Ids \cup {Null, MANUAL_SALE},
         with : Ids \cup {Null}, item : Nat, todo : SUBSET Ids]

NoDoc == [status |-> "none", transactionType |-> "INBOUND", isSystemProcessed |-> FALSE,
          initiatedAt |-> 0, matchedToOutboundId |-> Null, matchedToInboundId |-> Null,
          realized |-> FALSE]

Idle == [pc |-> "idle", kind |-> "manual", user |-> Null, id |-> Null, status |-> "JOINED",
         transactionType |-> "INBOUND", at |-> 0, in |-> Null, out |-> Null,
         with |-> Null, item |-> 1, todo |-> {}]

TypeOK ==
  /\ docs \in [Ids -> Doc]
  /\ call \in [Handlers -> Call]
  /\ disturbed \in SUBSET Users

New(st, ty, sys, at) ==
  [NoDoc EXCEPT !.status = st, !.transactionType = ty, !.isSystemProcessed = sys,
                !.initiatedAt = at]

Init ==
  /\ docs = [e \in Ids |-> IF e \in Recorded
                           THEN New("COMPLETED_PROTECTED", TransactionType[e], TRUE, Initiated[e])
                           ELSE NoDoc]
  /\ call = [h \in Handlers |-> Idle]
  /\ disturbed = {}

Exists(e) == docs[e].status # "none"

-----------------------------------------------------------------------------
(* Calls.                                                                  *)

At(h, l) == call[h].pc = l
Become(h, c) == call' = [call EXCEPT ![h] = c]
Goto(h, l) == call' = [call EXCEPT ![h].pc = l]
Write(e, d) == docs' = [docs EXCEPT ![e] = d]
Quiet == UNCHANGED disturbed

\* A call of user u begins; bad says that it breaks the rules by itself.
Begin(h, u, c, bad) ==
  /\ At(h, "idle")
  /\ Become(h, [c EXCEPT !.user = u])
  /\ disturbed' = IF bad \/ \E g \in Handlers : call[g].user = u
                  THEN disturbed \cup {u} ELSE disturbed
  /\ UNCHANGED docs

\* What follows a turn of the history's loop, or the end of any other call.
AfterTurn(c) == IF c.todo = {} THEN Idle ELSE [Idle EXCEPT !.pc = "next", !.kind = c.kind,
                                                 !.user = c.user, !.todo = c.todo]

\* A sale that has been completed is matched, unless its copy says it was.
AfterSave(c, d) ==
  IF c.status = "COMPLETED_PROTECTED" /\ d.transactionType = "OUTBOUND"
     /\ d.matchedToInboundId = Null /\ ItemNames[c.id] # <<>>
  THEN [Idle EXCEPT !.pc = "match", !.kind = c.kind, !.user = c.user, !.id = c.id,
                    !.at = d.initiatedAt, !.todo = c.todo]
  ELSE AfterTurn(c)

\* A message may leave out the type; 'INBOUND' is the default.
Told(e) == {TransactionType[e], "INBOUND"}

-----------------------------------------------------------------------------
(* handleExecutionInitial and handleExecutionFinal.                        *)

InitialBegin(h, e, t) ==
  Begin(h, Owner[e], [Idle EXCEPT !.pc = "find", !.kind = "initial", !.id = e,
                                  !.transactionType = t], FALSE)

FinalBegin(h, e, s, t) ==
  Begin(h, Owner[e], [Idle EXCEPT !.pc = "find", !.kind = "final", !.id = e,
                                  !.status = s, !.transactionType = t], FALSE)

Find(h) ==
  LET c == call[h] IN
  /\ At(h, "find")
  /\ IF Exists(c.id) THEN Become(h, IF c.kind = "initial" THEN Idle ELSE [c EXCEPT !.pc = "update"])
                     ELSE Goto(h, "create")
  /\ UNCHANGED docs /\ Quiet

\* The execution is created; the unique index refuses a second one, and the error
\* ends the call, which answers success all the same.
Create(h) ==
  LET c == call[h]
      d == New(IF c.kind = "initial" THEN "JOINED" ELSE c.status, c.transactionType,
               c.kind # "history",
               IF c.kind = "final" THEN Updated[c.id] ELSE Initiated[c.id])
  IN /\ At(h, "create")
     /\ IF Exists(c.id) THEN Become(h, Idle) /\ UNCHANGED docs
                        ELSE Write(c.id, d) /\ Become(h, AfterSave(c, d))
     /\ Quiet

FinalUpdate(h) ==
  LET c == call[h] IN
  /\ At(h, "update")
  /\ Write(c.id, [docs[c.id] EXCEPT !.status = c.status, !.transactionType = c.transactionType])
  /\ Goto(h, "reread") /\ Quiet

FinalReread(h) ==
  /\ At(h, "reread")
  /\ Become(h, AfterSave(call[h], docs[call[h].id]))
  /\ UNCHANGED docs /\ Quiet

-----------------------------------------------------------------------------
(* handleExecutionHistory: one turn of the loop after the other.           *)

HistoryBegin(h, u, es) ==
  /\ es # {} /\ \A e \in es : Owner[e] = u
  /\ Begin(h, u, [Idle EXCEPT !.pc = "next", !.kind = "history", !.todo = es], FALSE)

\* The status is taken as the history says it.
HistoryFind(h, e, s) ==
  LET c == [call[h] EXCEPT !.todo = @ \ {e}] IN
  /\ At(h, "next") /\ e \in call[h].todo
  /\ Become(h, IF Exists(e) THEN AfterTurn(c)
               ELSE [c EXCEPT !.pc = "search", !.id = e, !.status = s,
                              !.transactionType = TransactionType[e]])
  /\ UNCHANGED docs /\ Quiet

\* Mutant: the query does not ask for the status.
IncompleteOrNot(u, e) ==
  {d \in Ids : /\ Owner[d] = u /\ Exists(d) /\ docs[d].isSystemProcessed
               /\ <<e, d>> \in Similar}

\* System executions of the user that never got their final status and look alike.
Incomplete(u, e) ==
  {d \in Ids : /\ Owner[d] = u /\ docs[d].status = "JOINED" /\ docs[d].isSystemProcessed
               /\ <<e, d>> \in Similar}

HistorySearch(h) ==
  LET c == call[h]
      ds == Incomplete(c.user, c.id)
  IN /\ At(h, "search")
     /\ \/ ds = {} /\ Goto(h, "create")
        \/ \E d \in ds : Become(h, [c EXCEPT !.pc = "reconcile", !.with = d])
     /\ UNCHANGED docs /\ Quiet

\* The update asks for the _id only, whatever became of the execution since it was
\* found incomplete.  The document keeps its own executionId.
Reconcile(h) ==
  LET c == call[h] IN
  /\ At(h, "reconcile")
  /\ Write(c.with, [docs[c.with] EXCEPT !.status = c.status, !.transactionType = c.transactionType])
  /\ Become(h, AfterTurn(c)) /\ Quiet

-----------------------------------------------------------------------------
(* matchSellToPurchase: one turn per item of the sale.                     *)

\* Mutant: the query forgets the user.
CandidatesOfAnyone(u, name, t) ==
  {b \in Ids : /\ docs[b].isSystemProcessed
               /\ docs[b].matchedToOutboundId = Null
               /\ Contains(ItemNames[b], name)
               /\ docs[b].initiatedAt < t}

\* The executions the query finds; it does not ask for their type or status.
Candidates(u, name, t) ==
  {b \in Ids : /\ Owner[b] = u
               /\ docs[b].isSystemProcessed
               /\ docs[b].matchedToOutboundId = Null
               /\ Contains(ItemNames[b], name)
               /\ docs[b].initiatedAt < t}

Oldest(es) == {b \in es : \A e \in es : docs[b].initiatedAt <= docs[e].initiatedAt}

AfterItem(c) == IF c.item < Len(ItemNames[c.id]) THEN [c EXCEPT !.pc = "match", !.with = Null, !.item = @ + 1]
                                                 ELSE AfterTurn(c)

MatchFind(h) ==
  LET c == call[h]
      found == Oldest(Candidates(c.user, ItemNames[c.id][c.item], c.at))
  IN /\ At(h, "match")
     /\ \/ found = {} /\ Become(h, AfterItem(c))
        \/ \E b \in found : Become(h, [c EXCEPT !.pc = "linkBuy", !.with = b])
     /\ UNCHANGED docs /\ Quiet

\* Mutant: the purchase is not told.
LinkBuyForgotten(h) == At(h, "linkBuy") /\ Goto(h, "linkSell") /\ UNCHANGED docs /\ Quiet

\* The two updates of a match, automatic or by hand.
LinkBuy(h) ==
  LET c == call[h] IN
  /\ At(h, "linkBuy")
  /\ Write(c.with, [docs[c.with] EXCEPT !.matchedToOutboundId = c.id])
  /\ Goto(h, "linkSell") /\ Quiet

LinkSell(h) ==
  LET c == call[h] IN
  /\ At(h, "linkSell")
  /\ Write(c.id, [docs[c.id] EXCEPT !.matchedToInboundId = c.with, !.realized = TRUE])
  /\ Become(h, IF c.kind = "manualMatch" THEN Idle ELSE AfterItem(c)) /\ Quiet

-----------------------------------------------------------------------------
(* ExecutionManagementService.  Each call first finds the execution, which *)
(* must be the caller's own.                                               *)

\* manualMatchExecutions looks for two executions and at nothing they say.
ManualMatch(h, s, b) ==
  /\ Exists(s) /\ Exists(b) /\ Owner[s] = Owner[b]
  /\ Begin(h, Owner[s], [Idle EXCEPT !.pc = "linkBuy", !.kind = "manualMatch", !.id = s,
                                     !.with = b],
           docs[b].matchedToOutboundId # Null)

Manual(h, e, l) ==
  /\ Exists(e)
  /\ Begin(h, Owner[e], [Idle EXCEPT !.pc = l, !.id = e, !.in = docs[e].matchedToInboundId,
                                  !.out = docs[e].matchedToOutboundId], FALSE)

\* unmatchExecution: the purchase, the sale and the execution itself, each in an
\* update of its own, as the copy says.
Unmatch(h, e) ==
  Manual(h, e, IF docs[e].matchedToInboundId # Null THEN "unlinkBuy"
               ELSE IF docs[e].matchedToOutboundId # Null THEN "unlinkSell" ELSE "clear")

UnlinkBuy(h) ==
  LET c == call[h]
      b == c.in
  IN /\ At(h, "unlinkBuy")
     /\ Write(b, [docs[b] EXCEPT !.matchedToOutboundId = Null])
     /\ Goto(h, IF c.out # Null THEN "unlinkSell" ELSE "clear") /\ Quiet

\* Mutant: the sale keeps its profit.
UnlinkSellKept(h) ==
  LET s == call[h].out IN
  /\ At(h, "unlinkSell")
  /\ IF s \in Ids THEN Write(s, [docs[s] EXCEPT !.matchedToInboundId = Null])
                  ELSE UNCHANGED docs
  /\ Goto(h, "clear") /\ Quiet

\* No document has the id MANUAL_SALE.
UnlinkSell(h) ==
  LET s == call[h].out IN
  /\ At(h, "unlinkSell")
  /\ IF s \in Ids THEN Write(s, [docs[s] EXCEPT !.matchedToInboundId = Null, !.realized = FALSE])
                  ELSE UNCHANGED docs
  /\ Goto(h, "clear") /\ Quiet

Clear(h) ==
  LET e == call[h].id IN
  /\ At(h, "clear")
  /\ Write(e, [docs[e] EXCEPT !.matchedToOutboundId = Null, !.matchedToInboundId = Null,
                              !.realized = FALSE])
  /\ Become(h, Idle) /\ Quiet

\* markAsSold refuses a purchase that is matched.
MarkAsSold(h, e) == docs[e].matchedToOutboundId = Null /\ Manual(h, e, "sold")

\* Mutant: the marker goes into the field of the purchase.
SoldAsPurchase(h) ==
  LET e == call[h].id IN
  /\ At(h, "sold")
  /\ Write(e, [docs[e] EXCEPT !.matchedToInboundId = MANUAL_SALE, !.realized = TRUE])
  /\ Become(h, Idle) /\ Quiet

Sold(h) ==
  LET e == call[h].id IN
  /\ At(h, "sold")
  /\ Write(e, [docs[e] EXCEPT !.matchedToOutboundId = MANUAL_SALE, !.realized = TRUE])
  /\ Become(h, Idle) /\ Quiet

MarkAsManualPurchase(h, e) == Manual(h, e, "bought")

Bought(h) ==
  LET e == call[h].id IN
  /\ At(h, "bought")
  /\ Write(e, [docs[e] EXCEPT !.transactionType = "INBOUND"])
  /\ Become(h, Idle) /\ Quiet

\* updateExecution touches the profit of a sale that is matched, nothing else here.
UpdateExecution(h, e) == docs[e].matchedToInboundId # Null /\ Manual(h, e, "profit")

Profit(h) ==
  LET e == call[h].id IN
  /\ At(h, "profit")
  /\ Write(e, [docs[e] EXCEPT !.realized = TRUE])
  /\ Become(h, Idle) /\ Quiet

-----------------------------------------------------------------------------
\* An operation is rejected, or the process goes down.  An error inside the
\* matching ends the matching only: the history goes on with its next execution.
Fails(h) ==
  LET c == call[h] IN
  /\ c.pc # "idle"
  /\ disturbed' = disturbed \cup {c.user}
  /\ \/ Become(h, Idle)
     \/ /\ c.kind = "history" /\ c.pc \in {"match", "linkBuy", "linkSell"}
        /\ Become(h, AfterTurn(c))
  /\ UNCHANGED docs

HandlerStep(h) ==
  \/ Find(h) \/ Create(h) \/ FinalUpdate(h) \/ FinalReread(h)
  \/ \E e \in Ids, s \in HistoryStatus : HistoryFind(h, e, s)
  \/ HistorySearch(h) \/ Reconcile(h)
  \/ MatchFind(h) \/ LinkBuy(h) \/ LinkSell(h)
  \/ UnlinkBuy(h) \/ UnlinkSell(h) \/ Clear(h)
  \/ Sold(h) \/ Bought(h) \/ Profit(h)

Message(h) ==
  \/ \E e \in Ids \ Recorded : \E t \in Told(e) :
       InitialBegin(h, e, t) \/ \E s \in EndStatus : FinalBegin(h, e, s, t)
  \/ \E u \in Users, es \in Histories : HistoryBegin(h, u, es)

Correction(h) ==
  \/ \E p \in MayPair : ManualMatch(h, p[1], p[2])
  \/ \E e \in MayCorrect : \/ Unmatch(h, e) \/ MarkAsSold(h, e)
                           \/ MarkAsManualPurchase(h, e) \/ UpdateExecution(h, e)

Next == \E h \in Handlers : Message(h) \/ Correction(h) \/ HandlerStep(h) \/ Fails(h)

Spec == Init /\ [][Next]_vars

-----------------------------------------------------------------------------
(* Properties.                                                             *)

\* No link leaves its user: the automatic matching asks for the user, the manual
\* one for two executions of his own, and unmatchExecution, which follows the
\* links without asking, never reaches another user's record.
LinksWithinUser ==
  \A e \in Ids :
    /\ docs[e].matchedToInboundId # Null => Owner[docs[e].matchedToInboundId] = Owner[e]
    /\ docs[e].matchedToOutboundId \in Ids => Owner[docs[e].matchedToOutboundId] = Owner[e]

Settled(u) == u \notin disturbed /\ \A h \in Handlers : call[h].user # u

\* What a sale says it sold says it was sold in that sale, so that no purchase is
\* counted in two sales.  Needs that the calls of a user come one after the other,
\* that none is cut short, and that nobody matches by hand what is matched.
ClaimsAgree ==
  \A s \in Ids :
    Settled(Owner[s]) /\ docs[s].matchedToInboundId # Null =>
      docs[docs[s].matchedToInboundId].matchedToOutboundId = s

\* A profit is realized by a match or by a manual sale, and every match realizes
\* one: none is left behind when a match is taken back.  Needs the same.
ProfitIsEarned ==
  \A e \in Ids :
    Settled(Owner[e]) =>
      /\ docs[e].realized =>
           docs[e].matchedToInboundId # Null \/ docs[e].matchedToOutboundId = MANUAL_SALE
      /\ docs[e].matchedToInboundId # Null => docs[e].realized

\* No message of an execution's beginning or end, however late, and no correction
\* takes back that it has ended.  Only a history can, which says of an execution
\* that looks alike that it goes on, and only if it searched while another call of
\* that user was about to end the one it found (handleExecutionHistory updates by
\* _id what it has found before an await).
OnlyStaleHistoriesReopen ==
  [][\A e \in Ids :
       docs[e].status \in FinalStatus /\ docs'[e].status \notin FinalStatus =>
         /\ Owner[e] \in disturbed
         /\ \E h \in Handlers : At(h, "reconcile") /\ call[h].with = e]_vars

\* "Automatically matches a SELL execution to the oldest unmatched BUY execution"
\* (metrics.service.ts:465): what the matching links to a sale was bought.
MatchesBuys ==
  [][\A h \in Handlers, b \in Ids :
       call[h].pc = "match" /\ call'[h].pc = "linkBuy" /\ call'[h].with = b =>
         docs[b].transactionType = "INBOUND"]_vars
=============================================================================
