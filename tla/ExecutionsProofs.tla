-------------------------- MODULE ExecutionsProofs --------------------------
(***************************************************************************)
(* Proofs about Executions, for any users, executions, times, items and    *)
(* slots.  First what holds whatever overlaps: a call works on records of  *)
(* its own user only (Shape), hence no link leaves its user.  Then what    *)
(* holds of users who are not disturbed: their links agree but for what    *)
(* the one call in flight has still to undo (Books), and profits follow    *)
(* the links.  From both: who can take back that an execution has ended.   *)
(***************************************************************************)
EXTENDS Executions, TLAPS

\* What is true of the locals of a call, wherever it stands.
Shape(c) ==
  /\ c.pc # "idle" => c.user \in Users
  /\ c.pc \notin {"idle", "next"} => c.id \in Ids /\ Owner[c.id] = c.user
  /\ c.pc \in {"linkBuy", "linkSell", "reconcile"} => c.with \in Ids /\ Owner[c.with] = c.user
  /\ c.pc = "unlinkBuy" => c.in # Null
  /\ c.in # Null => Owner[c.in] = c.user
  /\ c.out \in Ids => Owner[c.out] = c.user
  /\ \A e \in c.todo : Owner[e] = c.user
  /\ c.pc = "find" => c.kind \in {"initial", "final"}
  /\ (c.pc = "find" /\ c.kind = "final") \/ c.pc = "update" => c.status \in FinalStatus

TypeInv == TypeOK /\ (\A h \in Handlers : Shape(call[h])) /\ LinksWithinUser

\* The steps of Next, one by one.
LEMMA Steps ==
  ASSUME Next
  PROVE  \E h \in Handlers :
    \/ \E e \in Ids, t \in Types : InitialBegin(h, e, t)
    \/ \E e \in Ids, t \in Types, s \in FinalStatus : FinalBegin(h, e, s, t)
    \/ \E u \in Users, es \in SUBSET Ids : HistoryBegin(h, u, es)
    \/ \E s, b \in Ids : ManualMatch(h, s, b)
    \/ \E e \in Ids : Unmatch(h, e) \/ MarkAsSold(h, e) \/ MarkAsManualPurchase(h, e) \/ UpdateExecution(h, e)
    \/ \E e \in Ids, s \in Status : HistoryFind(h, e, s)
    \/ Find(h) \/ Create(h) \/ FinalUpdate(h) \/ FinalReread(h) \/ HistorySearch(h) \/ Reconcile(h)
    \/ MatchFind(h) \/ LinkBuy(h) \/ LinkSell(h) \/ UnlinkBuy(h) \/ UnlinkSell(h) \/ Clear(h)
    \/ Sold(h) \/ Bought(h) \/ Profit(h) \/ Fails(h)
<1>1. PICK h \in Handlers : Message(h) \/ Correction(h) \/ HandlerStep(h) \/ Fails(h)
  BY DEF Next
<1>2. CASE Message(h)
  <2>1. \A e \in Ids : Told(e) \subseteq Types
    BY FactsAssumption DEF Told, Types
  <2>2. ASSUME NEW e \in Ids \ Recorded, NEW t \in Told(e),
               InitialBegin(h, e, t) \/ \E s \in EndStatus : FinalBegin(h, e, s, t)
        PROVE  \/ \E i \in Ids, k \in Types : InitialBegin(h, i, k)
               \/ \E i \in Ids, k \in Types, s \in FinalStatus : FinalBegin(h, i, s, k)
    <3>1. e \in Ids /\ t \in Types
      BY <2>1
    <3> QED
      BY <2>2, <3>1, StatusAssumption
  <2>3. ASSUME NEW u \in Users, NEW es \in Histories, HistoryBegin(h, u, es)
        PROVE  \E v \in Users, is \in SUBSET Ids : HistoryBegin(h, v, is)
    BY <2>3, HistoriesAssumption
  <2>4. \/ \E e \in Ids, t \in Types : InitialBegin(h, e, t)
        \/ \E e \in Ids, t \in Types, s \in FinalStatus : FinalBegin(h, e, s, t)
        \/ \E u \in Users, es \in SUBSET Ids : HistoryBegin(h, u, es)
    BY <1>2, <2>2, <2>3 DEF Message
  <2> QED
    BY <2>4
<1>3. CASE Correction(h)
  <2>1. ASSUME NEW p \in MayPair, ManualMatch(h, p[1], p[2])
        PROVE \E s, b \in Ids : ManualMatch(h, s, b)
    BY <2>1, CorrectionAssumption
  <2> QED
    BY <1>3, <2>1, CorrectionAssumption DEF Correction
<1>4. CASE HandlerStep(h)
  BY <1>4, StatusAssumption DEF HandlerStep
<1> QED
  BY <1>1, <1>2, <1>3, <1>4

-----------------------------------------------------------------------------
(* Locals.                                                                 *)

LEMMA IdleShape == Idle \in Call /\ Shape(Idle) /\ Idle.pc = "idle" /\ Idle.user = Null
  BY NamesAssumption DEF Idle, Call, Shape, Pcs, Kinds, Types, Status, FinalStatus

LEMMA CallFields ==
  ASSUME NEW c \in Call
  PROVE  /\ c.pc \in Pcs /\ c.kind \in Kinds /\ c.user \in Users \cup {Null}
         /\ c.id \in Ids \cup {Null} /\ c.status \in Status
         /\ c.transactionType \in Types /\ c.at \in Nat /\ c.in \in Ids \cup {Null}
         /\ c.out \in Ids \cup {Null, MANUAL_SALE} /\ c.with \in Ids \cup {Null}
         /\ c.item \in Nat /\ c.todo \in SUBSET Ids
  BY DEF Call

LEMMA AfterTurnShape ==
  ASSUME NEW c \in Call, Shape(c), c.pc # "idle"
  PROVE  AfterTurn(c) \in Call /\ Shape(AfterTurn(c))
<1>1. CASE c.todo = {}
  BY <1>1, IdleShape DEF AfterTurn
<1>2. CASE c.todo # {}
  <2> DEFINE m == [Idle EXCEPT !.pc = "next", !.kind = c.kind, !.user = c.user, !.todo = c.todo]
  <2>1. m \in Call
    BY CallFields DEF Idle, Call, Pcs, Types, Status
  <2>2. m.pc = "next" /\ m.user = c.user /\ m.todo = c.todo /\ m.in = Null /\ m.out = Null
    BY DEF Idle
  <2> HIDE DEF m
  <2>3. Shape(m)
    BY <2>2, NamesAssumption, CallFields DEF Shape
  <2> QED
    BY <1>2, <2>1, <2>3 DEF AfterTurn, m
<1> QED
  BY <1>1, <1>2

LEMMA AfterSaveShape ==
  ASSUME NEW c \in Call, Shape(c), c.pc \notin {"idle", "next"}, NEW d \in Doc
  PROVE  AfterSave(c, d) \in Call /\ Shape(AfterSave(c, d))
<1>1. AfterTurn(c) \in Call /\ Shape(AfterTurn(c))
  BY AfterTurnShape
<1> DEFINE m == [Idle EXCEPT !.pc = "match", !.kind = c.kind, !.user = c.user, !.id = c.id,
                             !.at = d.initiatedAt, !.todo = c.todo]
<1>2. m \in Call
  BY CallFields DEF Idle, Call, Pcs, Types, Status, Doc
<1>3. /\ m.pc = "match" /\ m.user = c.user /\ m.id = c.id /\ m.todo = c.todo
      /\ m.in = Null /\ m.out = Null
  BY DEF Idle
<1> HIDE DEF m
<1>4. Shape(m)
  BY <1>3, NamesAssumption DEF Shape
<1>5. AfterSave(c, d) \in {m, AfterTurn(c)}
  BY DEF AfterSave, m
<1> QED
  BY <1>1, <1>2, <1>4, <1>5

LEMMA AfterItemShape ==
  ASSUME NEW c \in Call, Shape(c), c.pc \notin {"idle", "next"}
  PROVE  AfterItem(c) \in Call /\ Shape(AfterItem(c))
<1>1. AfterTurn(c) \in Call /\ Shape(AfterTurn(c))
  BY AfterTurnShape
<1> DEFINE m == [c EXCEPT !.pc = "match", !.with = Null, !.item = @ + 1]
<1>2. m \in Call
  <2>1. c.item + 1 \in Nat
    BY CallFields
  <2>2. Null \in Ids \cup {Null} /\ "match" \in Pcs
    BY DEF Pcs
  <2> QED
    BY <2>1, <2>2 DEF Call
<1>3. /\ m.pc = "match" /\ m.user = c.user /\ m.id = c.id /\ m.todo = c.todo
      /\ m.in = c.in /\ m.out = c.out
  BY DEF Call
<1> HIDE DEF m
<1>4. Shape(m)
  BY <1>3 DEF Shape
<1>5. AfterItem(c) \in {m, AfterTurn(c)}
  BY DEF AfterItem, m
<1> QED
  BY <1>1, <1>2, <1>4, <1>5

-----------------------------------------------------------------------------
(* What a step must show.                                                  *)

LEMMA CallTypes ==
  ASSUME TypeInv, NEW h \in Handlers, NEW c \in Call, Shape(c), Become(h, c),
         docs' \in [Ids -> Doc], LinksWithinUser', disturbed' \in SUBSET Users
  PROVE  TypeInv'
<1>1. TypeOK'
  BY DEF TypeInv, TypeOK, Become
<1>2. \A g \in Handlers : Shape(call'[g])
  BY DEF TypeInv, TypeOK, Become
<1> QED
  BY <1>1, <1>2 DEF TypeInv, Shape

LEMMA WriteTypes ==
  ASSUME TypeInv, NEW e \in Ids, NEW d \in Doc, Write(e, d),
         d.matchedToInboundId # Null => Owner[d.matchedToInboundId] = Owner[e],
         d.matchedToOutboundId \in Ids => Owner[d.matchedToOutboundId] = Owner[e]
  PROVE  docs' \in [Ids -> Doc] /\ LinksWithinUser'
<1>1. docs' \in [Ids -> Doc]
  BY DEF TypeInv, TypeOK, Write
<1>2. LinksWithinUser'
  BY DEF TypeInv, TypeOK, Write, LinksWithinUser
<1> QED
  BY <1>1, <1>2

\* A document of which only the named fields change is one still.
LEMMA Fields ==
  ASSUME TypeInv, NEW e \in Ids
  PROVE  /\ docs[e] \in Doc
         /\ docs[e].matchedToInboundId \in Ids \cup {Null}
         /\ docs[e].matchedToInboundId # Null => Owner[docs[e].matchedToInboundId] = Owner[e]
         /\ docs[e].matchedToOutboundId \in Ids \cup {Null, MANUAL_SALE}
         /\ docs[e].matchedToOutboundId \in Ids => Owner[docs[e].matchedToOutboundId] = Owner[e]
<1>1. docs[e] \in Doc
  BY DEF TypeInv, TypeOK
<1> QED
  BY <1>1 DEF TypeInv, LinksWithinUser, Doc

LEMMA SameDocs ==
  ASSUME TypeInv, UNCHANGED docs
  PROVE  docs' \in [Ids -> Doc] /\ LinksWithinUser'
  BY DEF TypeInv, TypeOK, LinksWithinUser

\* A call begins with locals c, of user u.
LEMMA BeginTypes ==
  ASSUME TypeInv, NEW h \in Handlers, NEW u \in Users, NEW c, NEW bad,
         [c EXCEPT !.user = u] \in Call, Shape([c EXCEPT !.user = u]), Begin(h, u, c, bad)
  PROVE  TypeInv'
<1>1. docs' \in [Ids -> Doc] /\ LinksWithinUser'
  BY SameDocs DEF Begin
<1>2. disturbed' \in SUBSET Users
  BY DEF Begin, TypeInv, TypeOK
<1> QED
  BY <1>1, <1>2, CallTypes DEF Begin

LEMMA RequestTypes ==
  ASSUME TypeInv, NEW h \in Handlers
  PROVE  /\ \A e \in Ids, t \in Types : InitialBegin(h, e, t) => TypeInv'
         /\ \A e \in Ids, t \in Types, s \in FinalStatus : FinalBegin(h, e, s, t) => TypeInv'
         /\ \A u \in Users, es \in SUBSET Ids : HistoryBegin(h, u, es) => TypeInv'
         /\ \A s, b \in Ids : ManualMatch(h, s, b) => TypeInv'
<1>1. ASSUME NEW e \in Ids, NEW t \in Types, InitialBegin(h, e, t) PROVE TypeInv'
  <2> DEFINE c == [Idle EXCEPT !.pc = "find", !.kind = "initial", !.id = e, !.transactionType = t]
             m == [c EXCEPT !.user = Owner[e]]
  <2>1. m \in Call
    BY FactsAssumption DEF Idle, Call, Pcs, Kinds, Types, Status
  <2>2. m.pc = "find" /\ m.kind = "initial" /\ m.user = Owner[e] /\ m.id = e /\ m.in = Null
        /\ m.out = Null /\ m.todo = {}
    BY DEF Idle
  <2>3. Begin(h, Owner[e], c, FALSE)
    BY <1>1 DEF InitialBegin
  <2> HIDE DEF m
  <2>4. Shape(m)
    BY <2>2, FactsAssumption, NamesAssumption DEF Shape
  <2> QED
    BY <2>1, <2>3, <2>4, BeginTypes, FactsAssumption DEF m
<1>2. ASSUME NEW e \in Ids, NEW t \in Types, NEW s \in FinalStatus, FinalBegin(h, e, s, t) PROVE TypeInv'
  <2> DEFINE c == [Idle EXCEPT !.pc = "find", !.kind = "final", !.id = e, !.status = s,
                               !.transactionType = t]
             m == [c EXCEPT !.user = Owner[e]]
  <2>1. m \in Call
    BY FactsAssumption DEF Idle, Call, Pcs, Kinds, Types, Status
  <2>2. m.pc = "find" /\ m.kind = "final" /\ m.user = Owner[e] /\ m.id = e /\ m.in = Null
        /\ m.out = Null /\ m.todo = {} /\ m.status = s
    BY DEF Idle
  <2>3. Begin(h, Owner[e], c, FALSE)
    BY <1>2 DEF FinalBegin
  <2> HIDE DEF m
  <2>4. Shape(m)
    BY <2>2, FactsAssumption, NamesAssumption DEF Shape
  <2> QED
    BY <2>1, <2>3, <2>4, BeginTypes, FactsAssumption DEF m
<1>3. ASSUME NEW u \in Users, NEW es \in SUBSET Ids, HistoryBegin(h, u, es) PROVE TypeInv'
  <2> DEFINE c == [Idle EXCEPT !.pc = "next", !.kind = "history", !.todo = es]
             m == [c EXCEPT !.user = u]
  <2>1. m \in Call
    BY DEF Idle, Call, Pcs, Kinds, Types, Status
  <2>2. m.pc = "next" /\ m.user = u /\ m.in = Null /\ m.out = Null /\ m.todo = es
    BY DEF Idle
  <2>3. Begin(h, u, c, FALSE) /\ \A e \in es : Owner[e] = u
    BY <1>3 DEF HistoryBegin
  <2> HIDE DEF m
  <2>4. Shape(m)
    BY <2>2, <2>3, NamesAssumption DEF Shape
  <2> QED
    BY <2>1, <2>3, <2>4, BeginTypes DEF m
<1>4. ASSUME NEW s \in Ids, NEW b \in Ids, ManualMatch(h, s, b) PROVE TypeInv'
  <2> DEFINE c == [Idle EXCEPT !.pc = "linkBuy", !.kind = "manualMatch", !.id = s, !.with = b]
             m == [c EXCEPT !.user = Owner[s]]
  <2>1. m \in Call
    BY FactsAssumption DEF Idle, Call, Pcs, Kinds, Types, Status
  <2>2. m.pc = "linkBuy" /\ m.user = Owner[s] /\ m.id = s /\ m.with = b /\ m.in = Null
        /\ m.out = Null /\ m.todo = {}
    BY DEF Idle
  <2>3. Begin(h, Owner[s], c, docs[b].matchedToOutboundId # Null) /\ Owner[s] = Owner[b]
    BY <1>4 DEF ManualMatch
  <2> HIDE DEF m
  <2>4. Shape(m)
    BY <2>2, <2>3, FactsAssumption, NamesAssumption DEF Shape
  <2> QED
    BY <2>1, <2>3, <2>4, BeginTypes, FactsAssumption DEF m
<1> QED
  BY <1>1, <1>2, <1>3, <1>4

LEMMA ManualTypes ==
  ASSUME TypeInv, NEW h \in Handlers, NEW e \in Ids,
         NEW l \in {"unlinkBuy", "unlinkSell", "clear", "sold", "bought", "profit"},
         l = "unlinkBuy" => docs[e].matchedToInboundId # Null, Manual(h, e, l)
  PROVE  TypeInv'
<1> DEFINE c == [Idle EXCEPT !.pc = l, !.id = e, !.in = docs[e].matchedToInboundId,
                             !.out = docs[e].matchedToOutboundId]
           m == [c EXCEPT !.user = Owner[e]]
<1>1. m \in Call
  BY Fields, FactsAssumption DEF Idle, Call, Pcs, Kinds, Types, Status
<1>2. m.pc = l /\ m.user = Owner[e] /\ m.id = e /\ m.in = docs[e].matchedToInboundId
      /\ m.out = docs[e].matchedToOutboundId /\ m.todo = {}
  BY DEF Idle
<1>3. Begin(h, Owner[e], c, FALSE)
  BY DEF Manual
<1> HIDE DEF m
<1>4. Shape(m)
  BY <1>2, Fields, FactsAssumption, NamesAssumption DEF Shape
<1> QED
  BY <1>1, <1>3, <1>4, BeginTypes, FactsAssumption DEF m

LEMMA CorrectionTypes ==
  ASSUME TypeInv, NEW h \in Handlers, NEW e \in Ids,
         Unmatch(h, e) \/ MarkAsSold(h, e) \/ MarkAsManualPurchase(h, e) \/ UpdateExecution(h, e)
  PROVE  TypeInv'
  BY ManualTypes DEF Unmatch, MarkAsSold, MarkAsManualPurchase, UpdateExecution

-----------------------------------------------------------------------------
(* The steps of a call, for the types.                                     *)

LEMMA StepTypes ==
  ASSUME TypeInv, NEW h \in Handlers, NEW c \in Call, Shape(c), Become(h, c), Quiet,
         docs' \in [Ids -> Doc], LinksWithinUser'
  PROVE  TypeInv'
<1>1. disturbed' \in SUBSET Users
  BY DEF Quiet, TypeInv, TypeOK
<1> QED
  BY <1>1, CallTypes

LEMMA Here ==
  ASSUME TypeInv, NEW h \in Handlers
  PROVE  call[h] \in Call /\ Shape(call[h])
  BY DEF TypeInv, TypeOK

LEMMA GotoIs ==
  ASSUME TypeInv, NEW h \in Handlers, NEW l, Goto(h, l)
  PROVE  Become(h, [call[h] EXCEPT !.pc = l])
  BY DEF TypeInv, TypeOK, Goto, Become

LEMMA PcShape ==
  ASSUME NEW c \in Call, Shape(c), c.pc \notin {"idle", "next"},
         NEW l \in {"create", "update", "reread", "linkSell", "unlinkSell", "clear"},
         l = "update" => c.pc = "find" /\ c.kind = "final",
         l = "linkSell" => c.pc = "linkBuy"
  PROVE  [c EXCEPT !.pc = l] \in Call /\ Shape([c EXCEPT !.pc = l])
<1> DEFINE m == [c EXCEPT !.pc = l]
<1>1. m \in Call
  BY DEF Call, Pcs
<1>2. /\ m.pc = l /\ m.kind = c.kind /\ m.user = c.user /\ m.id = c.id /\ m.status = c.status
      /\ m.in = c.in /\ m.out = c.out /\ m.with = c.with /\ m.todo = c.todo
  BY DEF Call
<1> HIDE DEF m
<1>3. Shape(m)
  BY <1>2 DEF Shape
<1> QED
  BY <1>1, <1>3 DEF m

LEMMA SavedDocs ==
  ASSUME TypeInv, NEW e \in Ids, NEW st \in Status, NEW ty \in Types,
         Write(e, [docs[e] EXCEPT !.status = st, !.transactionType = ty])
  PROVE  docs' \in [Ids -> Doc] /\ LinksWithinUser'
<1> DEFINE d == [docs[e] EXCEPT !.status = st, !.transactionType = ty]
<1>1. d \in Doc /\ d.matchedToInboundId = docs[e].matchedToInboundId
      /\ d.matchedToOutboundId = docs[e].matchedToOutboundId
  BY Fields DEF Doc
<1> HIDE DEF d
<1> QED
  BY <1>1, Fields, WriteTypes DEF d

LEMMA CreateTypes ==
  ASSUME TypeInv, NEW h \in Handlers, Create(h)
  PROVE  TypeInv'
<1> DEFINE c == call[h]
           st == IF c.kind = "initial" THEN "JOINED" ELSE c.status
           at == IF c.kind = "final" THEN Updated[c.id] ELSE Initiated[c.id]
           d == New(st, c.transactionType, c.kind # "history", at)
<1>1. c \in Call /\ Shape(c) /\ c.pc = "create"
  BY Here DEF Create, At
<1>2. c.id \in Ids
  BY <1>1 DEF Shape
<1>3. d \in Doc /\ d.matchedToInboundId = Null /\ d.matchedToOutboundId = Null
  <2>1. st \in Status /\ at \in Nat /\ c.transactionType \in Types
    BY <1>1, <1>2, CallFields, FactsAssumption DEF Status
  <2> HIDE DEF st, at
  <2> QED
    BY <2>1 DEF New, NoDoc, Doc
<1>4. CASE Exists(c.id)
  BY <1>4, IdleShape, SameDocs, StepTypes DEF Create
<1>5. CASE ~Exists(c.id)
  <2>1. Write(c.id, d) /\ Become(h, AfterSave(c, d)) /\ Quiet
    BY <1>5 DEF Create
  <2>2. AfterSave(c, d) \in Call /\ Shape(AfterSave(c, d))
    BY <1>1, <1>3, AfterSaveShape
  <2> HIDE DEF d
  <2>3. docs' \in [Ids -> Doc] /\ LinksWithinUser'
    BY <1>2, <1>3, <2>1, NamesAssumption, WriteTypes
  <2> QED
    BY <2>1, <2>2, <2>3, StepTypes
<1> QED
  BY <1>4, <1>5

LEMMA MessageTypes ==
  ASSUME TypeInv, NEW h \in Handlers
  PROVE  /\ Find(h) => TypeInv'
         /\ FinalUpdate(h) => TypeInv'
         /\ FinalReread(h) => TypeInv'
         /\ HistorySearch(h) => TypeInv'
         /\ Reconcile(h) => TypeInv'
         /\ \A e \in Ids, s \in Status : HistoryFind(h, e, s) => TypeInv'
<1> DEFINE c == call[h]
<1>0. c \in Call /\ Shape(c)
  BY Here
<1>1. ASSUME Find(h) PROVE TypeInv'
  <2>1. c.pc = "find" /\ UNCHANGED docs /\ Quiet
    BY <1>1 DEF Find, At
  <2>2. CASE Exists(c.id) /\ c.kind = "initial"
    BY <1>1, <2>1, <2>2, IdleShape, SameDocs, StepTypes DEF Find
  <2>3. CASE Exists(c.id) /\ c.kind # "initial"
    <3>1. Become(h, [c EXCEPT !.pc = "update"])
      BY <1>1, <2>3 DEF Find
    <3>2. c.kind = "final"
      BY <1>0, <2>1, <2>3 DEF Shape
    <3> QED
      BY <1>0, <2>1, <3>1, <3>2, PcShape, SameDocs, StepTypes
  <2>4. CASE ~Exists(c.id)
    <3>1. Become(h, [c EXCEPT !.pc = "create"])
      BY <1>1, <2>4, GotoIs DEF Find
    <3> QED
      BY <1>0, <2>1, <3>1, PcShape, SameDocs, StepTypes
  <2> QED
    BY <2>2, <2>3, <2>4
<1>2. ASSUME FinalUpdate(h) PROVE TypeInv'
  <2>1. c.pc = "update" /\ Quiet
        /\ Write(c.id, [docs[c.id] EXCEPT !.status = c.status, !.transactionType = c.transactionType])
    BY <1>2 DEF FinalUpdate, At
  <2>2. c.id \in Ids /\ c.status \in Status /\ c.transactionType \in Types
    BY <1>0, <2>1, CallFields DEF Shape
  <2>3. docs' \in [Ids -> Doc] /\ LinksWithinUser'
    BY <2>1, <2>2, SavedDocs
  <2>4. Become(h, [c EXCEPT !.pc = "reread"])
    BY <1>2, GotoIs DEF FinalUpdate
  <2> QED
    BY <1>0, <2>1, <2>3, <2>4, PcShape, StepTypes
<1>3. ASSUME FinalReread(h) PROVE TypeInv'
  <2>1. c.pc = "reread" /\ UNCHANGED docs /\ Quiet /\ Become(h, AfterSave(c, docs[c.id]))
    BY <1>3 DEF FinalReread, At
  <2>2. docs[c.id] \in Doc
    BY <1>0, <2>1, Fields DEF Shape
  <2> QED
    BY <1>0, <2>1, <2>2, AfterSaveShape, SameDocs, StepTypes
<1>4. ASSUME HistorySearch(h) PROVE TypeInv'
  <2>1. c.pc = "search" /\ UNCHANGED docs /\ Quiet
    BY <1>4 DEF HistorySearch, At
  <2>2. CASE Goto(h, "create")
    BY <1>0, <2>1, <2>2, GotoIs, PcShape, SameDocs, StepTypes
  <2>3. ASSUME NEW e \in Incomplete(c.user, c.id), Become(h, [c EXCEPT !.pc = "reconcile", !.with = e])
        PROVE TypeInv'
    <3> DEFINE m == [c EXCEPT !.pc = "reconcile", !.with = e]
    <3>1. e \in Ids /\ Owner[e] = c.user
      BY DEF Incomplete
    <3>2. m \in Call
      BY <1>0, <3>1 DEF Call, Pcs
    <3>3. /\ m.pc = "reconcile" /\ m.kind = c.kind /\ m.user = c.user /\ m.id = c.id
          /\ m.status = c.status /\ m.in = c.in /\ m.out = c.out /\ m.with = e /\ m.todo = c.todo
      BY <1>0 DEF Call
    <3> HIDE DEF m
    <3>4. Shape(m)
      BY <1>0, <2>1, <3>1, <3>3 DEF Shape
    <3> QED
      BY <2>1, <2>3, <3>2, <3>4, SameDocs, StepTypes DEF m
  <2> QED
    BY <1>4, <2>2, <2>3 DEF HistorySearch
<1>5. ASSUME Reconcile(h) PROVE TypeInv'
  <2>1. c.pc = "reconcile" /\ Quiet /\ Become(h, AfterTurn(c))
        /\ Write(c.with, [docs[c.with] EXCEPT !.status = c.status, !.transactionType = c.transactionType])
    BY <1>5 DEF Reconcile, At
  <2>2. c.with \in Ids /\ c.status \in Status /\ c.transactionType \in Types
    BY <1>0, <2>1, CallFields DEF Shape
  <2>3. docs' \in [Ids -> Doc] /\ LinksWithinUser'
    BY <2>1, <2>2, SavedDocs
  <2> QED
    BY <1>0, <2>1, <2>3, AfterTurnShape, StepTypes
<1>6. ASSUME NEW e \in Ids, NEW s \in Status, HistoryFind(h, e, s) PROVE TypeInv'
  <2> DEFINE b == [c EXCEPT !.todo = @ \ {e}]
  <2>1. c.pc = "next" /\ e \in c.todo /\ UNCHANGED docs /\ Quiet
    BY <1>6 DEF HistoryFind, At
  <2>2. b \in Call
    BY <1>0 DEF Call
  <2>3. /\ b.pc = "next" /\ b.kind = c.kind /\ b.user = c.user /\ b.in = c.in /\ b.out = c.out
        /\ b.todo = c.todo \ {e}
    BY <1>0, <2>1 DEF Call
  <2>4. Owner[e] = c.user
    BY <1>0, <2>1 DEF Shape
  <2>5. CASE Exists(e)
    <3>1. Become(h, AfterTurn(b))
      BY <1>6, <2>5 DEF HistoryFind
    <3> HIDE DEF b
    <3>2. Shape(b)
      BY <1>0, <2>1, <2>3 DEF Shape
    <3> QED
      BY <2>1, <2>2, <2>3, <3>1, <3>2, AfterTurnShape, SameDocs, StepTypes
  <2>6. CASE ~Exists(e)
    <3> DEFINE m == [b EXCEPT !.pc = "search", !.id = e, !.status = s,
                              !.transactionType = TransactionType[e]]
    <3>1. Become(h, m)
      BY <1>6, <2>6 DEF HistoryFind
    <3> HIDE DEF b
    <3>2. m \in Call
      BY <2>2, FactsAssumption DEF Call, Pcs
    <3>3. /\ m.pc = "search" /\ m.kind = b.kind /\ m.user = b.user /\ m.id = e
          /\ m.status = s /\ m.in = b.in /\ m.out = b.out /\ m.todo = b.todo
      BY <2>2 DEF Call
    <3> HIDE DEF m
    <3>4. Shape(m)
      BY <1>0, <2>1, <2>3, <2>4, <3>3 DEF Shape
    <3> QED
      BY <2>1, <3>1, <3>2, <3>4, SameDocs, StepTypes
  <2> QED
    BY <2>5, <2>6
<1> QED
  BY <1>1, <1>2, <1>3, <1>4, <1>5, <1>6

LEMMA LinkTypes ==
  ASSUME TypeInv, NEW h \in Handlers
  PROVE  /\ MatchFind(h) => TypeInv'
         /\ LinkBuy(h) => TypeInv'
         /\ LinkSell(h) => TypeInv'
<1> DEFINE c == call[h]
<1>0. c \in Call /\ Shape(c)
  BY Here
<1>1. ASSUME MatchFind(h) PROVE TypeInv'
  <2> DEFINE found == Oldest(Candidates(c.user, ItemNames[c.id][c.item], c.at))
  <2>1. c.pc = "match" /\ UNCHANGED docs /\ Quiet
    BY <1>1 DEF MatchFind, At
  <2>2. CASE Become(h, AfterItem(c))
    BY <1>0, <2>1, <2>2, AfterItemShape, SameDocs, StepTypes
  <2>3. ASSUME NEW b \in found, Become(h, [c EXCEPT !.pc = "linkBuy", !.with = b]) PROVE TypeInv'
    <3> DEFINE m == [c EXCEPT !.pc = "linkBuy", !.with = b]
    <3>1. b \in Ids /\ Owner[b] = c.user
      BY DEF Oldest, Candidates
    <3>2. m \in Call
      BY <1>0, <3>1 DEF Call, Pcs
    <3>3. /\ m.pc = "linkBuy" /\ m.user = c.user /\ m.id = c.id /\ m.in = c.in /\ m.out = c.out
          /\ m.with = b /\ m.todo = c.todo
      BY <1>0 DEF Call
    <3> HIDE DEF m, found
    <3>4. Shape(m)
      BY <1>0, <2>1, <3>1, <3>3 DEF Shape
    <3> QED
      BY <2>1, <2>3, <3>2, <3>4, SameDocs, StepTypes DEF m
  <2> QED
    BY <1>1, <2>2, <2>3 DEF MatchFind
<1>2. ASSUME LinkBuy(h) PROVE TypeInv'
  <2> DEFINE d == [docs[c.with] EXCEPT !.matchedToOutboundId = c.id]
  <2>1. c.pc = "linkBuy" /\ Quiet /\ Write(c.with, d) /\ Become(h, [c EXCEPT !.pc = "linkSell"])
    BY <1>2, GotoIs DEF LinkBuy, At
  <2>2. c.id \in Ids /\ c.with \in Ids /\ Owner[c.id] = Owner[c.with]
    BY <1>0, <2>1 DEF Shape
  <2>3. d \in Doc /\ d.matchedToOutboundId = c.id
        /\ d.matchedToInboundId = docs[c.with].matchedToInboundId
    BY <2>2, Fields DEF Doc
  <2> HIDE DEF d
  <2>4. docs' \in [Ids -> Doc] /\ LinksWithinUser'
    BY <2>1, <2>2, <2>3, Fields, WriteTypes
  <2> QED
    BY <1>0, <2>1, <2>4, PcShape, StepTypes
<1>3. ASSUME LinkSell(h) PROVE TypeInv'
  <2> DEFINE d == [docs[c.id] EXCEPT !.matchedToInboundId = c.with, !.realized = TRUE]
  <2>1. c.pc = "linkSell" /\ Quiet /\ Write(c.id, d)
        /\ \/ Become(h, Idle) \/ Become(h, AfterItem(c))
    BY <1>3 DEF LinkSell, At
  <2>2. c.id \in Ids /\ c.with \in Ids /\ Owner[c.id] = Owner[c.with]
    BY <1>0, <2>1 DEF Shape
  <2>3. d \in Doc /\ d.matchedToInboundId = c.with
        /\ d.matchedToOutboundId = docs[c.id].matchedToOutboundId
    BY <2>2, Fields DEF Doc
  <2> HIDE DEF d
  <2>4. docs' \in [Ids -> Doc] /\ LinksWithinUser'
    BY <2>1, <2>2, <2>3, Fields, WriteTypes
  <2> QED
    BY <1>0, <2>1, <2>4, AfterItemShape, IdleShape, StepTypes
<1> QED
  BY <1>1, <1>2, <1>3

LEMMA ManagementTypes ==
  ASSUME TypeInv, NEW h \in Handlers
  PROVE  /\ UnlinkBuy(h) => TypeInv'
         /\ UnlinkSell(h) => TypeInv'
         /\ Clear(h) => TypeInv'
         /\ Sold(h) => TypeInv'
         /\ Bought(h) => TypeInv'
         /\ Profit(h) => TypeInv'
<1> DEFINE c == call[h]
<1>0. c \in Call /\ Shape(c)
  BY Here
<1>1. ASSUME UnlinkBuy(h) PROVE TypeInv'
  <2> DEFINE d == [docs[c.in] EXCEPT !.matchedToOutboundId = Null]
  <2>1. c.pc = "unlinkBuy" /\ Quiet /\ Write(c.in, d)
        /\ \E l \in {"unlinkSell", "clear"} : Become(h, [c EXCEPT !.pc = l])
    BY <1>1, GotoIs DEF UnlinkBuy, At
  <2>2. c.in \in Ids
    BY <1>0, <2>1, CallFields DEF Shape
  <2>3. d \in Doc /\ d.matchedToOutboundId = Null
        /\ d.matchedToInboundId = docs[c.in].matchedToInboundId
    BY <2>2, Fields DEF Doc
  <2> HIDE DEF d
  <2>4. docs' \in [Ids -> Doc] /\ LinksWithinUser'
    BY <2>1, <2>2, <2>3, Fields, NamesAssumption, WriteTypes
  <2> QED
    BY <1>0, <2>1, <2>4, PcShape, StepTypes
<1>2. ASSUME UnlinkSell(h) PROVE TypeInv'
  <2> DEFINE d == [docs[c.out] EXCEPT !.matchedToInboundId = Null, !.realized = FALSE]
  <2>1. c.pc = "unlinkSell" /\ Quiet /\ Become(h, [c EXCEPT !.pc = "clear"])
    BY <1>2, GotoIs DEF UnlinkSell, At
  <2>2. CASE c.out \in Ids
    <3>1. Write(c.out, d)
      BY <1>2, <2>2 DEF UnlinkSell
    <3>2. d \in Doc /\ d.matchedToInboundId = Null
          /\ d.matchedToOutboundId = docs[c.out].matchedToOutboundId
      BY <2>2, Fields DEF Doc
    <3> HIDE DEF d
    <3>3. docs' \in [Ids -> Doc] /\ LinksWithinUser'
      BY <2>2, <3>1, <3>2, Fields, NamesAssumption, WriteTypes
    <3> QED
      BY <1>0, <2>1, <3>3, PcShape, StepTypes
  <2>3. CASE c.out \notin Ids
    <3>1. UNCHANGED docs
      BY <1>2, <2>3 DEF UnlinkSell
    <3> QED
      BY <1>0, <2>1, <3>1, PcShape, SameDocs, StepTypes
  <2> QED
    BY <2>2, <2>3
<1>3. ASSUME Clear(h) PROVE TypeInv'
  <2> DEFINE d == [docs[c.id] EXCEPT !.matchedToOutboundId = Null, !.matchedToInboundId = Null,
                                     !.realized = FALSE]
  <2>1. c.pc = "clear" /\ Quiet /\ Write(c.id, d) /\ Become(h, Idle)
    BY <1>3 DEF Clear, At
  <2>2. c.id \in Ids
    BY <1>0, <2>1 DEF Shape
  <2>3. d \in Doc /\ d.matchedToOutboundId = Null /\ d.matchedToInboundId = Null
    BY <2>2, Fields DEF Doc
  <2> HIDE DEF d
  <2>4. docs' \in [Ids -> Doc] /\ LinksWithinUser'
    BY <2>1, <2>2, <2>3, NamesAssumption, WriteTypes
  <2> QED
    BY <2>1, <2>4, IdleShape, StepTypes
<1>4. ASSUME Sold(h) PROVE TypeInv'
  <2> DEFINE d == [docs[c.id] EXCEPT !.matchedToOutboundId = MANUAL_SALE, !.realized = TRUE]
  <2>1. c.pc = "sold" /\ Quiet /\ Write(c.id, d) /\ Become(h, Idle)
    BY <1>4 DEF Sold, At
  <2>2. c.id \in Ids
    BY <1>0, <2>1 DEF Shape
  <2>3. d \in Doc /\ d.matchedToOutboundId = MANUAL_SALE
        /\ d.matchedToInboundId = docs[c.id].matchedToInboundId
    BY <2>2, Fields DEF Doc
  <2> HIDE DEF d
  <2>4. docs' \in [Ids -> Doc] /\ LinksWithinUser'
    BY <2>1, <2>2, <2>3, Fields, NamesAssumption, WriteTypes
  <2> QED
    BY <2>1, <2>4, IdleShape, StepTypes
<1>5. ASSUME Bought(h) PROVE TypeInv'
  <2> DEFINE d == [docs[c.id] EXCEPT !.transactionType = "INBOUND"]
  <2>1. c.pc = "bought" /\ Quiet /\ Write(c.id, d) /\ Become(h, Idle)
    BY <1>5 DEF Bought, At
  <2>2. c.id \in Ids
    BY <1>0, <2>1 DEF Shape
  <2>3. d \in Doc /\ d.matchedToOutboundId = docs[c.id].matchedToOutboundId
        /\ d.matchedToInboundId = docs[c.id].matchedToInboundId
    BY <2>2, Fields DEF Doc, Types
  <2> HIDE DEF d
  <2>4. docs' \in [Ids -> Doc] /\ LinksWithinUser'
    BY <2>1, <2>2, <2>3, Fields, WriteTypes
  <2> QED
    BY <2>1, <2>4, IdleShape, StepTypes
<1>6. ASSUME Profit(h) PROVE TypeInv'
  <2> DEFINE d == [docs[c.id] EXCEPT !.realized = TRUE]
  <2>1. c.pc = "profit" /\ Quiet /\ Write(c.id, d) /\ Become(h, Idle)
    BY <1>6 DEF Profit, At
  <2>2. c.id \in Ids
    BY <1>0, <2>1 DEF Shape
  <2>3. d \in Doc /\ d.matchedToOutboundId = docs[c.id].matchedToOutboundId
        /\ d.matchedToInboundId = docs[c.id].matchedToInboundId
    BY <2>2, Fields DEF Doc
  <2> HIDE DEF d
  <2>4. docs' \in [Ids -> Doc] /\ LinksWithinUser'
    BY <2>1, <2>2, <2>3, Fields, WriteTypes
  <2> QED
    BY <2>1, <2>4, IdleShape, StepTypes
<1> QED
  BY <1>1, <1>2, <1>3, <1>4, <1>5, <1>6

LEMMA FailTypes ==
  ASSUME TypeInv, NEW h \in Handlers, Fails(h)
  PROVE  TypeInv'
<1> DEFINE c == call[h]
<1>1. c \in Call /\ Shape(c) /\ c.pc # "idle"
  BY Here DEF Fails
<1>2. c.user \in Users
  BY <1>1 DEF Shape
<1>3. disturbed' \in SUBSET Users /\ docs' \in [Ids -> Doc] /\ LinksWithinUser'
  BY <1>2, SameDocs DEF Fails, TypeInv, TypeOK
<1>4. Become(h, Idle) \/ Become(h, AfterTurn(c))
  BY DEF Fails
<1> QED
  BY <1>1, <1>3, <1>4, IdleShape, AfterTurnShape, CallTypes

LEMMA TypeInvNext == TypeInv /\ [Next]_vars => TypeInv'
<1> SUFFICES ASSUME TypeInv, [Next]_vars PROVE TypeInv'
  OBVIOUS
<1>1. CASE UNCHANGED vars
  BY <1>1 DEF vars, TypeInv, TypeOK, LinksWithinUser, Shape
<1>2. CASE Next
  BY <1>2, Steps, RequestTypes, CorrectionTypes, MessageTypes, CreateTypes, LinkTypes,
     ManagementTypes, FailTypes
<1> QED
  BY <1>1, <1>2

LEMMA TypeInvInit == Init => TypeInv
<1> SUFFICES ASSUME Init PROVE TypeInv
  OBVIOUS
<1>1. NoDoc \in Doc /\ NoDoc.matchedToInboundId = Null /\ NoDoc.matchedToOutboundId = Null
  BY DEF NoDoc, Doc, Types
<1>2. ASSUME NEW e \in Ids
      PROVE  LET d == New("COMPLETED_PROTECTED", TransactionType[e], TRUE, Initiated[e])
             IN  d \in Doc /\ d.matchedToInboundId = Null /\ d.matchedToOutboundId = Null
  BY FactsAssumption DEF New, NoDoc, Doc, Status, FinalStatus
<1>3. \A e \in Ids : docs[e] \in Doc /\ docs[e].matchedToInboundId = Null
                      /\ docs[e].matchedToOutboundId = Null
  BY <1>1, <1>2 DEF Init
<1>4. TypeOK
  BY <1>3, IdleShape DEF Init, TypeOK
<1>5. LinksWithinUser
  BY <1>3, NamesAssumption DEF LinksWithinUser
<1>6. \A h \in Handlers : Shape(call[h])
  BY IdleShape DEF Init
<1> QED
  BY <1>4, <1>5, <1>6 DEF TypeInv

\* Every record has its fields and every call its locals.
THEOREM ExecutionsTypeOK == Spec => []TypeOK
<1>1. TypeInv => TypeOK
  BY DEF TypeInv
<1> QED
  BY <1>1, TypeInvInit, TypeInvNext, PTL DEF Spec

\* No link between executions ever leaves its user, whatever messages, histories and
\* corrections overlap (matchSellToPurchase, manualMatchExecutions, unmatchExecution).
THEOREM LinksStayWithinUser == Spec => []LinksWithinUser
<1>1. TypeInv => LinksWithinUser
  BY DEF TypeInv
<1> QED
  BY <1>1, TypeInvInit, TypeInvNext, PTL DEF Spec

-----------------------------------------------------------------------------
(* The books of a user who is not disturbed.  D is docs, before or after a *)
(* step; c the user's call in flight, or Idle.                             *)

Claimed(D, s) ==
  D[s].matchedToInboundId # Null => D[D[s].matchedToInboundId].matchedToOutboundId = s

Earned(D, e) ==
  /\ D[e].realized => D[e].matchedToInboundId # Null \/ D[e].matchedToOutboundId = MANUAL_SALE
  /\ D[e].matchedToInboundId # Null => D[e].realized

\* A record that does not exist yet is linked to nothing.
Blank(D, e) ==
  D[e].status = "none" => /\ ~D[e].isSystemProcessed /\ ~D[e].realized
                          /\ D[e].matchedToInboundId = Null /\ D[e].matchedToOutboundId = Null

\* What a call knows of the records while no other call of its user runs.
Held(D, c) ==
  /\ c.pc \in {"update", "reread", "match", "linkBuy", "linkSell", "unlinkBuy", "unlinkSell",
              "clear", "sold", "bought", "profit"} => D[c.id].status # "none"
  /\ c.pc \in {"linkBuy", "linkSell"} => D[c.with].status # "none"
  /\ c.pc = "reconcile" => D[c.with].status = "JOINED"
  /\ c.pc = "linkBuy" => D[c.with].matchedToOutboundId = Null
  /\ c.pc = "linkSell" => D[c.with].matchedToOutboundId = c.id
  /\ c.pc = "unlinkBuy" => /\ D[c.id].matchedToInboundId = c.in
                           /\ D[c.id].matchedToOutboundId = c.out
  /\ c.pc = "unlinkSell" => D[c.id].matchedToOutboundId \in {c.out, Null}
  /\ c.pc = "clear" => \A s \in Ids :
       Owner[s] = c.user /\ s # c.id => D[s].matchedToInboundId # c.id
  /\ c.pc = "sold" => D[c.id].matchedToOutboundId = Null
  /\ c.pc = "profit" => D[c.id].matchedToInboundId # Null

Undoing == {"unlinkSell", "clear"}

Books(D, u, c) ==
  /\ \A s \in Ids : Owner[s] = u =>
       /\ Claimed(D, s) \/ (c.pc \in Undoing /\ s = c.id)
       /\ Earned(D, s)
       /\ Blank(D, s)
  /\ Held(D, c)

Good(u) ==
  /\ \A g, h \in Handlers :
       call[g].pc # "idle" /\ call[h].pc # "idle" /\ call[g].user = u /\ call[h].user = u => g = h
  /\ \A h \in Handlers : call[h].pc # "idle" /\ call[h].user = u => Books(docs, u, call[h])
  /\ (\A h \in Handlers : call[h].user = u => call[h].pc = "idle") => Books(docs, u, Idle)

GoodInv == \A u \in Users \ disturbed : Good(u)

\* Where no link is being undone, all books are the same but for what the call knows.
LEMMA SameBooks ==
  ASSUME NEW D, NEW u, NEW c, NEW m, Books(D, u, c), c.pc \notin Undoing, Held(D, m)
  PROVE  Books(D, u, m)
  BY DEF Books

\* Records of other users do not show in a user's books.
LEMMA OthersBooks ==
  ASSUME TypeInv, NEW u \in Users, NEW c \in Call, Shape(c), c.pc # "idle" => c.user = u,
         \A e \in Ids : Owner[e] = u => docs'[e] = docs[e], Books(docs, u, c)
  PROVE  Books(docs', u, c)
<1>1. \A s \in Ids : Owner[s] = u =>
        /\ Claimed(docs, s) => Claimed(docs', s)
        /\ Earned(docs, s) => Earned(docs', s)
        /\ Blank(docs, s) => Blank(docs', s)
  BY Fields DEF Claimed, Earned, Blank
<1>2. Held(docs', c)
  BY CallFields DEF Books, Held, Shape
<1> QED
  BY <1>1, <1>2 DEF Books

\* A step of a call of user v: only v's books can change.
LEMMA StepGood ==
  ASSUME TypeInv, GoodInv, NEW h \in Handlers, NEW v \in Users, NEW c \in Call, Become(h, c),
         call[h].pc # "idle" => call[h].user = v,
         c.pc # "idle" => c.user = v,
         disturbed \subseteq disturbed',
         \A e \in Ids : Owner[e] # v => docs'[e] = docs[e],
         v \notin disturbed' =>
           /\ \A g \in Handlers \ {h} : call[g].pc # "idle" => call[g].user # v
           /\ Books(docs', v, c)
  PROVE  GoodInv'
<1>1. /\ call'[h] = c
      /\ \A g \in Handlers \ {h} : call'[g] = call[g]
      /\ \A g \in Handlers : call[g] \in Call /\ Shape(call[g])
  BY Here DEF Become, TypeInv, TypeOK
<1>2. ASSUME v \notin disturbed' PROVE Good(v)'
  <2>1. c.pc = "idle" => Books(docs', v, Idle)
    BY <1>2, SameBooks, IdleShape DEF Held, Undoing
  <2> QED
    BY <1>1, <1>2, <2>1 DEF Good, Become
<1>3. ASSUME NEW u \in Users \ disturbed', u # v PROVE Good(u)'
  <2>1. Good(u)
    BY <1>3 DEF GoodInv
  <2>2. \A e \in Ids : Owner[e] = u => docs'[e] = docs[e]
    BY <1>3
  <2>3. \A g \in Handlers : call'[g].pc # "idle" /\ call'[g].user = u => g # h /\ call'[g] = call[g]
    BY <1>1, <1>3
  <2>4. \A g \in Handlers : call[g].pc # "idle" /\ call[g].user = u => g # h
    BY <1>3
  <2>5. \A g \in Handlers : call'[g].pc # "idle" /\ call'[g].user = u => Books(docs', u, call'[g])
    BY <1>1, <2>1, <2>2, <2>3, OthersBooks DEF Good
  <2>6. (\A g \in Handlers : call'[g].user = u => call'[g].pc = "idle") => Books(docs', u, Idle)
    <3> SUFFICES ASSUME \A g \in Handlers : call'[g].user = u => call'[g].pc = "idle"
                 PROVE  Books(docs', u, Idle)
      OBVIOUS
    <3>1. \A g \in Handlers : call[g].user = u => call[g].pc = "idle"
      BY <1>1, <2>4
    <3>2. Books(docs, u, Idle)
      BY <2>1, <3>1 DEF Good
    <3> QED
      BY <2>2, <3>2, OthersBooks, IdleShape
  <2> QED
    BY <2>1, <2>3, <2>5, <2>6 DEF Good
<1> QED
  BY <1>2, <1>3 DEF GoodInv

\* The same for a step that cannot disturb.
LEMMA QuietGood ==
  ASSUME TypeInv, GoodInv, NEW h \in Handlers, call[h].pc # "idle", NEW m \in Call, Become(h, m), Quiet,
         m.pc # "idle" => m.user = call[h].user,
         \A e \in Ids : Owner[e] # call[h].user => docs'[e] = docs[e],
         Books(docs, call[h].user, call[h]) => Books(docs', call[h].user, m)
  PROVE  GoodInv'
<1> DEFINE u == call[h].user
<1>1. u \in Users
  BY Here DEF Shape
<1>2. disturbed' = disturbed
  BY DEF Quiet
<1>3. ASSUME u \notin disturbed
      PROVE  /\ \A g \in Handlers \ {h} : call[g].pc # "idle" => call[g].user # u
             /\ Books(docs', u, m)
  BY <1>1, <1>3 DEF GoodInv, Good
<1> QED
  BY <1>1, <1>2, <1>3, StepGood

\* A step that only reads, from where nothing is being undone.
LEMMA ReadGood ==
  ASSUME TypeInv, GoodInv, NEW h \in Handlers, call[h].pc \notin Undoing \cup {"idle"},
         NEW m \in Call, Become(h, m), Quiet, UNCHANGED docs,
         m.pc # "idle" => m.user = call[h].user,
         Books(docs, call[h].user, call[h]) => Held(docs, m)
  PROVE  GoodInv'
<1>1. Books(docs, call[h].user, call[h]) => Books(docs', call[h].user, m)
  BY SameBooks
<1> QED
  BY <1>1, QuietGood

\* Where a call can be after a turn, an item or a save.
LEMMA AfterPcs ==
  ASSUME NEW c \in Call
  PROVE  /\ AfterTurn(c).pc \in {"idle", "next"}
         /\ AfterTurn(c).pc = "next" => AfterTurn(c).user = c.user
         /\ AfterItem(c).pc \in {"idle", "next", "match"}
         /\ AfterItem(c).pc # "idle" => AfterItem(c).user = c.user
         /\ AfterItem(c).pc = "match" => AfterItem(c).id = c.id
         /\ \A d : /\ AfterSave(c, d).pc \in {"idle", "next", "match"}
                   /\ AfterSave(c, d).pc # "idle" => AfterSave(c, d).user = c.user
                   /\ AfterSave(c, d).pc = "match" => AfterSave(c, d).id = c.id
<1>1. AfterTurn(c).pc \in {"idle", "next"} /\ (AfterTurn(c).pc = "next" => AfterTurn(c).user = c.user)
  BY DEF AfterTurn, Idle
<1>2. /\ AfterItem(c).pc \in {"idle", "next", "match"}
      /\ AfterItem(c).pc # "idle" => AfterItem(c).user = c.user
      /\ AfterItem(c).pc = "match" => AfterItem(c).id = c.id
  <2> DEFINE m == [c EXCEPT !.pc = "match", !.with = Null, !.item = @ + 1]
  <2>1. m.pc = "match" /\ m.user = c.user /\ m.id = c.id
    BY DEF Call
  <2> QED
    BY <1>1, <2>1 DEF AfterItem
<1>3. ASSUME NEW d
      PROVE  /\ AfterSave(c, d).pc \in {"idle", "next", "match"}
             /\ AfterSave(c, d).pc # "idle" => AfterSave(c, d).user = c.user
             /\ AfterSave(c, d).pc = "match" => AfterSave(c, d).id = c.id
  <2> DEFINE m == [Idle EXCEPT !.pc = "match", !.kind = c.kind, !.user = c.user, !.id = c.id,
                               !.at = d.initiatedAt, !.todo = c.todo]
  <2>1. m.pc = "match" /\ m.user = c.user /\ m.id = c.id
    BY DEF Idle
  <2> QED
    BY <1>1, <2>1 DEF AfterSave
<1> QED
  BY <1>1, <1>2, <1>3

LEMMA Written ==
  ASSUME TypeInv, NEW e \in Ids, NEW d, Write(e, d)
  PROVE  docs'[e] = d /\ \A i \in Ids \ {e} : docs'[i] = docs[i]
  BY DEF TypeInv, TypeOK, Write

\* A write to a user's own record leaves the others' alone.
LEMMA OwnWrite ==
  ASSUME TypeInv, NEW e \in Ids, NEW d, Write(e, d), NEW u, Owner[e] = u
  PROVE  \A i \in Ids : Owner[i] # u => docs'[i] = docs[i]
  BY Written

-----------------------------------------------------------------------------
(* The steps of a call, for the books: messages.                           *)

\* A write that leaves the links and the profit, and does not make a record vanish.
LEMMA SavedBooks ==
  ASSUME TypeInv, NEW u \in Users, NEW c \in Call, Shape(c), c.pc \notin Undoing, c.user = u,
         Books(docs, u, c), NEW e \in Ids, NEW d \in Doc, Write(e, d), docs[e].status # "none",
         d.status # "none",
         d.matchedToInboundId = docs[e].matchedToInboundId,
         d.matchedToOutboundId = docs[e].matchedToOutboundId,
         d.realized = docs[e].realized,
         NEW m, m.pc \in {"idle", "next", "reread"}, m.pc = "reread" => m.id = e
  PROVE  Books(docs', u, m)
<1>1. docs'[e] = d /\ \A i \in Ids \ {e} : docs'[i] = docs[i]
  BY Written
<1>2. \A s \in Ids : Owner[s] = u => Claimed(docs', s) /\ Earned(docs', s) /\ Blank(docs', s)
  BY <1>1, Fields DEF Books, Claimed, Earned, Blank
<1>3. Held(docs', m)
  BY <1>1 DEF Held
<1> QED
  BY <1>2, <1>3 DEF Books

LEMMA MessageGood ==
  ASSUME TypeInv, GoodInv, NEW h \in Handlers
  PROVE  /\ Find(h) => GoodInv'
         /\ FinalUpdate(h) => GoodInv'
         /\ FinalReread(h) => GoodInv'
         /\ HistorySearch(h) => GoodInv'
         /\ Reconcile(h) => GoodInv'
         /\ \A e \in Ids, s \in Status : HistoryFind(h, e, s) => GoodInv'
<1> DEFINE c == call[h]
<1>0. c \in Call /\ Shape(c)
  BY Here
<1>1. ASSUME Find(h) PROVE GoodInv'
  <2>1. c.pc = "find" /\ UNCHANGED docs /\ Quiet
    BY <1>1 DEF Find, At
  <2>2. CASE Exists(c.id) /\ c.kind = "initial"
    <3>1. Become(h, Idle) /\ Held(docs, Idle)
      BY <1>1, <2>2, IdleShape DEF Find, Held
    <3> QED
      BY <2>1, <3>1, IdleShape, ReadGood DEF Undoing
  <2>3. CASE ~(Exists(c.id) /\ c.kind = "initial")
    <3>1. PICK l \in {"update", "create"} :
            Become(h, [c EXCEPT !.pc = l]) /\ (l = "update" => Exists(c.id))
      BY <1>1, <2>3, GotoIs DEF Find
    <3> DEFINE m == [c EXCEPT !.pc = l]
    <3>2. m \in Call /\ m.pc = l /\ m.user = c.user /\ m.id = c.id
      BY <1>0 DEF Call, Pcs
    <3> HIDE DEF m
    <3>3. Held(docs, m)
      BY <3>1, <3>2 DEF Held, Exists
    <3> QED
      BY <2>1, <3>1, <3>2, <3>3, ReadGood DEF Undoing, m
  <2> QED
    BY <2>2, <2>3
<1>2. ASSUME FinalUpdate(h) PROVE GoodInv'
  <2> DEFINE d == [docs[c.id] EXCEPT !.status = c.status, !.transactionType = c.transactionType]
             m == [c EXCEPT !.pc = "reread"]
  <2>1. c.pc = "update" /\ Quiet /\ Write(c.id, d) /\ Become(h, m)
    BY <1>2, GotoIs DEF FinalUpdate, At
  <2>2. c.id \in Ids /\ Owner[c.id] = c.user /\ c.status \in FinalStatus /\ c.transactionType \in Types
    BY <1>0, <2>1, CallFields DEF Shape
  <2>3. /\ d \in Doc /\ d.status # "none"
        /\ d.matchedToInboundId = docs[c.id].matchedToInboundId
        /\ d.matchedToOutboundId = docs[c.id].matchedToOutboundId
        /\ d.realized = docs[c.id].realized
    BY <2>2, Fields DEF Doc, Status, FinalStatus
  <2>4. m \in Call /\ m.pc = "reread" /\ m.user = c.user /\ m.id = c.id
    BY <1>0 DEF Call, Pcs
  <2> HIDE DEF d, m
  <2>5. Books(docs, c.user, c) => docs[c.id].status # "none"
    BY <2>1 DEF Books, Held
  <2>6. Books(docs, c.user, c) => Books(docs', c.user, m)
    BY <1>0, <2>1, <2>2, <2>3, <2>4, <2>5, SavedBooks DEF Undoing, Shape
  <2>7. \A i \in Ids : Owner[i] # c.user => docs'[i] = docs[i]
    BY <2>1, <2>2, OwnWrite
  <2> QED
    BY <2>1, <2>4, <2>6, <2>7, QuietGood
<1>3. ASSUME FinalReread(h) PROVE GoodInv'
  <2> DEFINE m == AfterSave(c, docs[c.id])
  <2>1. c.pc = "reread" /\ UNCHANGED docs /\ Quiet /\ Become(h, m)
    BY <1>3 DEF FinalReread, At
  <2>2. m \in Call
    BY <1>0, <2>1, AfterSaveShape, Fields DEF Shape
  <2>3. m.pc \in {"idle", "next", "match"} /\ (m.pc # "idle" => m.user = c.user)
        /\ (m.pc = "match" => m.id = c.id)
    BY <1>0, AfterPcs
  <2> HIDE DEF m
  <2>4. Books(docs, c.user, c) => Held(docs, m)
    BY <2>1, <2>3 DEF Books, Held
  <2> QED
    BY <2>1, <2>2, <2>3, <2>4, ReadGood DEF Undoing
<1>4. ASSUME HistorySearch(h) PROVE GoodInv'
  <2>1. c.pc = "search" /\ UNCHANGED docs /\ Quiet
    BY <1>4 DEF HistorySearch, At
  <2>2. PICK m : /\ m \in Call /\ Become(h, m) /\ m.user = c.user
                 /\ m.pc = "create" \/ (m.pc = "reconcile" /\ docs[m.with].status = "JOINED")
    <3>1. CASE Goto(h, "create")
      <4> DEFINE m == [c EXCEPT !.pc = "create"]
      <4>1. m \in Call /\ m.pc = "create" /\ m.user = c.user
        BY <1>0 DEF Call, Pcs
      <4> QED
        BY <3>1, <4>1, GotoIs
    <3>2. ASSUME NEW e \in Incomplete(c.user, c.id), Become(h, [c EXCEPT !.pc = "reconcile", !.with = e])
          PROVE  \E m : /\ m \in Call /\ Become(h, m) /\ m.user = c.user
                        /\ m.pc = "create" \/ (m.pc = "reconcile" /\ docs[m.with].status = "JOINED")
      <4> DEFINE m == [c EXCEPT !.pc = "reconcile", !.with = e]
      <4>1. e \in Ids /\ docs[e].status = "JOINED"
        BY DEF Incomplete
      <4>2. m \in Call /\ m.pc = "reconcile" /\ m.user = c.user /\ m.with = e
        BY <1>0, <4>1 DEF Call, Pcs
      <4> QED
        BY <3>2, <4>1, <4>2
    <3> QED
      BY <1>4, <3>1, <3>2 DEF HistorySearch
  <2>3. Held(docs, m)
    BY <2>2 DEF Held
  <2> QED
    BY <2>1, <2>2, <2>3, ReadGood DEF Undoing
<1>5. ASSUME Reconcile(h) PROVE GoodInv'
  <2> DEFINE d == [docs[c.with] EXCEPT !.status = c.status, !.transactionType = c.transactionType]
             m == AfterTurn(c)
  <2>1. c.pc = "reconcile" /\ Quiet /\ Write(c.with, d) /\ Become(h, m)
    BY <1>5 DEF Reconcile, At
  <2>2. c.with \in Ids /\ Owner[c.with] = c.user /\ c.status \in Status /\ c.transactionType \in Types
    BY <1>0, <2>1, CallFields DEF Shape
  <2>3. /\ d \in Doc /\ d.status # "none"
        /\ d.matchedToInboundId = docs[c.with].matchedToInboundId
        /\ d.matchedToOutboundId = docs[c.with].matchedToOutboundId
        /\ d.realized = docs[c.with].realized
    BY <2>2, Fields DEF Doc, Status, FinalStatus
  <2>4. m \in Call /\ m.pc \in {"idle", "next"} /\ (m.pc # "idle" => m.user = c.user)
    BY <1>0, <2>1, AfterTurnShape, AfterPcs
  <2> HIDE DEF d, m
  <2>5. Books(docs, c.user, c) => docs[c.with].status # "none"
    BY <2>1 DEF Books, Held
  <2>6. Books(docs, c.user, c) => Books(docs', c.user, m)
    BY <1>0, <2>1, <2>2, <2>3, <2>4, <2>5, SavedBooks DEF Undoing, Shape
  <2>7. \A i \in Ids : Owner[i] # c.user => docs'[i] = docs[i]
    BY <2>1, <2>2, OwnWrite
  <2> QED
    BY <2>1, <2>4, <2>6, <2>7, QuietGood
<1>6. ASSUME NEW e \in Ids, NEW s \in Status, HistoryFind(h, e, s) PROVE GoodInv'
  <2> DEFINE b == [c EXCEPT !.todo = @ \ {e}]
  <2>1. c.pc = "next" /\ UNCHANGED docs /\ Quiet
    BY <1>6 DEF HistoryFind, At
  <2>2. b \in Call /\ b.pc = "next" /\ b.user = c.user /\ b.in = c.in /\ b.out = c.out
        /\ b.todo = c.todo \ {e}
    BY <1>0, <2>1 DEF Call
  <2>3. CASE Exists(e)
    <3> DEFINE m == AfterTurn(b)
    <3>1. Become(h, m)
      BY <1>6, <2>3 DEF HistoryFind
    <3> HIDE DEF b
    <3>2. Shape(b)
      BY <1>0, <2>1, <2>2 DEF Shape
    <3>3. m \in Call /\ m.pc \in {"idle", "next"} /\ (m.pc # "idle" => m.user = c.user)
      BY <2>2, <3>2, AfterTurnShape, AfterPcs
    <3> HIDE DEF m
    <3>4. Held(docs, m)
      BY <3>3 DEF Held
    <3> QED
      BY <2>1, <3>1, <3>3, <3>4, ReadGood DEF Undoing
  <2>4. CASE ~Exists(e)
    <3> DEFINE m == [b EXCEPT !.pc = "search", !.id = e, !.status = s,
                              !.transactionType = TransactionType[e]]
    <3>1. Become(h, m)
      BY <1>6, <2>4 DEF HistoryFind
    <3> HIDE DEF b
    <3>2. m \in Call /\ m.pc = "search" /\ m.user = c.user
      BY <2>2, FactsAssumption DEF Call, Pcs
    <3> HIDE DEF m
    <3>3. Held(docs, m)
      BY <3>2 DEF Held
    <3> QED
      BY <2>1, <3>1, <3>2, <3>3, ReadGood DEF Undoing
  <2> QED
    BY <2>3, <2>4
<1> QED
  BY <1>1, <1>2, <1>3, <1>4, <1>5, <1>6

LEMMA CreateGood ==
  ASSUME TypeInv, GoodInv, NEW h \in Handlers, Create(h)
  PROVE  GoodInv'
<1> DEFINE c == call[h]
           st == IF c.kind = "initial" THEN "JOINED" ELSE c.status
           at == IF c.kind = "final" THEN Updated[c.id] ELSE Initiated[c.id]
           d == New(st, c.transactionType, c.kind # "history", at)
           m == AfterSave(c, d)
<1>1. c \in Call /\ Shape(c) /\ c.pc = "create" /\ Quiet
  BY Here DEF Create, At
<1>2. c.id \in Ids /\ Owner[c.id] = c.user
  BY <1>1 DEF Shape
<1>3. d \in Doc /\ d.matchedToInboundId = Null /\ d.matchedToOutboundId = Null
      /\ d.realized = FALSE /\ d.status = st
  <2>1. st \in Status /\ at \in Nat /\ c.transactionType \in Types
    BY <1>1, <1>2, CallFields, FactsAssumption DEF Status
  <2> HIDE DEF st, at
  <2> QED
    BY <2>1 DEF New, NoDoc, Doc
<1>4. d.status # "none"
  BY <1>1, <1>3, CallFields DEF Status, FinalStatus
<1>5. CASE Exists(c.id)
  <2>1. Become(h, Idle) /\ UNCHANGED docs
    BY <1>5 DEF Create
  <2>2. Held(docs, Idle)
    BY IdleShape DEF Held
  <2> QED
    BY <1>1, <2>1, <2>2, IdleShape, ReadGood DEF Undoing
<1>6. CASE ~Exists(c.id)
  <2>1. Write(c.id, d) /\ Become(h, m) /\ docs[c.id].status = "none"
    BY <1>6 DEF Create, Exists
  <2>2. m \in Call /\ m.pc \in {"idle", "next", "match"} /\ (m.pc # "idle" => m.user = c.user)
        /\ (m.pc = "match" => m.id = c.id)
    BY <1>1, <1>3, AfterSaveShape, AfterPcs
  <2> HIDE DEF d, m
  <2>3. docs'[c.id] = d /\ \A i \in Ids \ {c.id} : docs'[i] = docs[i]
    BY <1>2, <2>1, Written
  <2>4. ASSUME Books(docs, c.user, c) PROVE Books(docs', c.user, m)
    <3>1. docs[c.id].matchedToOutboundId = Null
      BY <1>2, <2>1, <2>4 DEF Books, Blank
    <3>2. \A s \in Ids : Owner[s] = c.user => Claimed(docs, s) /\ Earned(docs, s) /\ Blank(docs, s)
      BY <1>1, <2>4 DEF Books, Undoing
    <3>3. \A s \in Ids : Owner[s] = c.user => Claimed(docs', s)
      BY <1>3, <2>3, <3>1, <3>2, Fields, NamesAssumption DEF Claimed
    <3>4. \A s \in Ids : Owner[s] = c.user => Earned(docs', s) /\ Blank(docs', s)
      BY <1>3, <1>4, <2>3, <3>2 DEF Earned, Blank
    <3>5. Held(docs', m)
      BY <1>4, <2>2, <2>3 DEF Held
    <3> QED
      BY <3>3, <3>4, <3>5 DEF Books
  <2>5. \A i \in Ids : Owner[i] # c.user => docs'[i] = docs[i]
    BY <1>2, <2>3
  <2> QED
    BY <1>1, <2>1, <2>2, <2>4, <2>5, QuietGood
<1> QED
  BY <1>5, <1>6

-----------------------------------------------------------------------------
(* The steps of a call, for the books: links.                              *)

LEMMA MatchFindGood ==
  ASSUME TypeInv, GoodInv, NEW h \in Handlers, MatchFind(h)
  PROVE  GoodInv'
<1> DEFINE c == call[h]
           found == Oldest(Candidates(c.user, ItemNames[c.id][c.item], c.at))
<1>1. c \in Call /\ Shape(c) /\ c.pc = "match" /\ UNCHANGED docs /\ Quiet
  BY Here DEF MatchFind, At
<1>2. Books(docs, c.user, c) => docs[c.id].status # "none"
  BY <1>1 DEF Books, Held
<1>3. CASE Become(h, AfterItem(c))
  <2> DEFINE m == AfterItem(c)
  <2>1. m \in Call /\ m.pc \in {"idle", "next", "match"} /\ (m.pc # "idle" => m.user = c.user)
        /\ (m.pc = "match" => m.id = c.id)
    BY <1>1, AfterItemShape, AfterPcs
  <2> HIDE DEF m
  <2>2. Books(docs, c.user, c) => Held(docs, m)
    BY <1>2, <2>1 DEF Held
  <2> QED
    BY <1>1, <1>3, <2>1, <2>2, ReadGood DEF Undoing, m
<1>4. ASSUME NEW b \in found, Become(h, [c EXCEPT !.pc = "linkBuy", !.with = b]) PROVE GoodInv'
  <2> DEFINE m == [c EXCEPT !.pc = "linkBuy", !.with = b]
  <2>1. b \in Ids /\ Owner[b] = c.user /\ docs[b].isSystemProcessed /\ docs[b].matchedToOutboundId = Null
    BY DEF Oldest, Candidates
  <2> HIDE DEF found
  <2>4. c \in Call /\ b \in Ids
    BY <1>1, <2>1
  <2>5. m \in Call
    BY <2>4 DEF Call, Pcs
  <2>6. m.pc = "linkBuy" /\ m.user = c.user /\ m.with = b /\ m.id = c.id
    BY <1>1 DEF Call
  <2>2. m \in Call /\ m.pc = "linkBuy" /\ m.user = c.user /\ m.with = b /\ m.id = c.id
    BY <2>5, <2>6
  <2> HIDE DEF m
  <2>3. ASSUME Books(docs, c.user, c) PROVE Held(docs, m)
    <3>1. docs[b].status # "none"
      BY <2>1, <2>3 DEF Books, Blank
    <3> QED
      BY <1>2, <2>1, <2>2, <2>3, <3>1 DEF Held
  <2> QED
    BY <1>1, <1>4, <2>2, <2>3, ReadGood DEF Undoing, m
<1> QED
  BY <1>3, <1>4 DEF MatchFind

\* The purchase had no link: nobody's claim is broken.
LEMMA LinkBuyGood ==
  ASSUME TypeInv, GoodInv, NEW h \in Handlers, LinkBuy(h)
  PROVE  GoodInv'
<1> DEFINE c == call[h]
           d == [docs[c.with] EXCEPT !.matchedToOutboundId = c.id]
           m == [c EXCEPT !.pc = "linkSell"]
<1>1. c \in Call /\ Shape(c) /\ c.pc = "linkBuy" /\ Quiet /\ Write(c.with, d) /\ Become(h, m)
  BY Here, GotoIs DEF LinkBuy, At
<1>2. c.id \in Ids /\ c.with \in Ids /\ Owner[c.id] = c.user /\ Owner[c.with] = c.user
  BY <1>1 DEF Shape
<1>3. d \in Doc /\ d.matchedToOutboundId = c.id /\ d.matchedToInboundId = docs[c.with].matchedToInboundId
      /\ d.realized = docs[c.with].realized /\ d.status = docs[c.with].status
  BY <1>2, Fields DEF Doc
<1>4. m \in Call /\ m.pc = "linkSell" /\ m.user = c.user /\ m.id = c.id /\ m.with = c.with
  BY <1>1 DEF Call, Pcs
<1> HIDE DEF d, m
<1>5. docs'[c.with] = d /\ \A i \in Ids \ {c.with} : docs'[i] = docs[i]
  BY <1>1, <1>2, Written
<1>6. ASSUME Books(docs, c.user, c) PROVE Books(docs', c.user, m)
  <2>1. docs[c.with].matchedToOutboundId = Null /\ docs[c.id].status # "none" /\ docs[c.with].status # "none"
    BY <1>1, <1>6 DEF Books, Held
  <2>2. \A s \in Ids : Owner[s] = c.user => Claimed(docs, s) /\ Earned(docs, s) /\ Blank(docs, s)
    BY <1>1, <1>6 DEF Books, Undoing
  <2>3. \A s \in Ids : Owner[s] = c.user => Claimed(docs', s)
    BY <1>3, <1>5, <2>1, <2>2, Fields, NamesAssumption DEF Claimed
  <2>4. \A s \in Ids : Owner[s] = c.user => Earned(docs', s) /\ Blank(docs', s)
    BY <1>3, <1>5, <2>1, <2>2, NamesAssumption DEF Earned, Blank
  <2>5. Held(docs', m)
    BY <1>2, <1>3, <1>4, <1>5, <2>1 DEF Held
  <2> QED
    BY <2>3, <2>4, <2>5 DEF Books
<1>7. \A i \in Ids : Owner[i] # c.user => docs'[i] = docs[i]
  BY <1>2, <1>5
<1> QED
  BY <1>1, <1>4, <1>6, <1>7, QuietGood

LEMMA LinkSellGood ==
  ASSUME TypeInv, GoodInv, NEW h \in Handlers, LinkSell(h)
  PROVE  GoodInv'
<1> DEFINE c == call[h]
           d == [docs[c.id] EXCEPT !.matchedToInboundId = c.with, !.realized = TRUE]
           m == IF c.kind = "manualMatch" THEN Idle ELSE AfterItem(c)
<1>1. c \in Call /\ Shape(c) /\ c.pc = "linkSell" /\ Quiet /\ Write(c.id, d) /\ Become(h, m)
  BY Here DEF LinkSell, At
<1>2. c.id \in Ids /\ c.with \in Ids /\ Owner[c.id] = c.user /\ Owner[c.with] = c.user
  BY <1>1 DEF Shape
<1>3. d \in Doc /\ d.matchedToInboundId = c.with /\ d.realized = TRUE
      /\ d.matchedToOutboundId = docs[c.id].matchedToOutboundId /\ d.status = docs[c.id].status
  BY <1>2, Fields DEF Doc
<1>4. m \in Call /\ m.pc \in {"idle", "next", "match"} /\ (m.pc # "idle" => m.user = c.user)
      /\ (m.pc = "match" => m.id = c.id)
  BY <1>1, AfterItemShape, AfterPcs, IdleShape
<1> HIDE DEF d, m
<1>5. docs'[c.id] = d /\ \A i \in Ids \ {c.id} : docs'[i] = docs[i]
  BY <1>1, <1>2, Written
<1>6. ASSUME Books(docs, c.user, c) PROVE Books(docs', c.user, m)
  <2>1. docs[c.with].matchedToOutboundId = c.id /\ docs[c.id].status # "none"
    BY <1>1, <1>6 DEF Books, Held
  <2>2. \A s \in Ids : Owner[s] = c.user => Claimed(docs, s) /\ Earned(docs, s) /\ Blank(docs, s)
    BY <1>1, <1>6 DEF Books, Undoing
  <2>3. \A s \in Ids : Owner[s] = c.user => Claimed(docs', s)
    BY <1>2, <1>3, <1>5, <2>1, <2>2, Fields DEF Claimed
  <2>4. \A s \in Ids : Owner[s] = c.user => Earned(docs', s) /\ Blank(docs', s)
    BY <1>2, <1>3, <1>5, <2>1, <2>2, NamesAssumption DEF Earned, Blank
  <2>5. Held(docs', m)
    BY <1>2, <1>3, <1>4, <1>5, <2>1 DEF Held
  <2> QED
    BY <2>3, <2>4, <2>5 DEF Books
<1>7. \A i \in Ids : Owner[i] # c.user => docs'[i] = docs[i]
  BY <1>2, <1>5
<1> QED
  BY <1>1, <1>4, <1>6, <1>7, QuietGood

-----------------------------------------------------------------------------
(* The steps of a call, for the books: corrections.                        *)

\* The purchase was claimed by the execution in hand alone.
LEMMA UnlinkBuyGood ==
  ASSUME TypeInv, GoodInv, NEW h \in Handlers, UnlinkBuy(h)
  PROVE  GoodInv'
<1> DEFINE c == call[h]
           d == [docs[c.in] EXCEPT !.matchedToOutboundId = Null]
           l == IF c.out # Null THEN "unlinkSell" ELSE "clear"
           m == [c EXCEPT !.pc = l]
<1>1. c \in Call /\ Shape(c) /\ c.pc = "unlinkBuy" /\ Quiet /\ Write(c.in, d) /\ Become(h, m)
  BY Here, GotoIs DEF UnlinkBuy, At
<1>2. c.id \in Ids /\ c.in \in Ids /\ Owner[c.id] = c.user /\ Owner[c.in] = c.user
  BY <1>1, CallFields DEF Shape
<1>3. d \in Doc /\ d.matchedToOutboundId = Null /\ d.matchedToInboundId = docs[c.in].matchedToInboundId
      /\ d.realized = docs[c.in].realized /\ d.status = docs[c.in].status
      /\ d.isSystemProcessed = docs[c.in].isSystemProcessed
  BY <1>2, Fields DEF Doc
<1>4. m \in Call /\ m.pc = l /\ m.user = c.user /\ m.id = c.id /\ m.out = c.out
  BY <1>1 DEF Call, Pcs
<1> HIDE DEF d, m
<1>5. docs'[c.in] = d /\ \A i \in Ids \ {c.in} : docs'[i] = docs[i]
  BY <1>1, <1>2, Written
<1>6. ASSUME Books(docs, c.user, c) PROVE Books(docs', c.user, m)
  <2>1. docs[c.id].matchedToInboundId = c.in /\ docs[c.id].matchedToOutboundId = c.out
        /\ docs[c.id].status # "none"
    BY <1>1, <1>6 DEF Books, Held
  <2>2. \A s \in Ids : Owner[s] = c.user => Claimed(docs, s) /\ Earned(docs, s) /\ Blank(docs, s)
    BY <1>1, <1>6 DEF Books, Undoing
  <2>3. docs[c.in].matchedToOutboundId = c.id
    BY <1>2, <2>1, <2>2, NamesAssumption DEF Claimed
  <2>4. \A s \in Ids : Owner[s] = c.user /\ s # c.id => docs[s].matchedToInboundId # c.in
    BY <1>2, <2>2, <2>3, NamesAssumption DEF Claimed
  <2>5. \A s \in Ids : Owner[s] = c.user /\ s # c.id => Claimed(docs', s)
    BY <1>3, <1>5, <2>2, <2>4, Fields DEF Claimed
  <2>6. \A s \in Ids : Owner[s] = c.user => Earned(docs', s) /\ Blank(docs', s)
    BY <1>2, <1>3, <1>5, <2>2, <2>3, NamesAssumption DEF Earned, Blank
  <2>7. c.out = Null =>
          \A s \in Ids : Owner[s] = c.user /\ s # c.id => docs[s].matchedToInboundId # c.id
    BY <1>2, <2>1, <2>2, NamesAssumption DEF Claimed
  <2>8. Held(docs', m)
    BY <1>2, <1>3, <1>4, <1>5, <2>1, <2>7 DEF Held
  <2> QED
    BY <1>4, <2>5, <2>6, <2>8 DEF Books, Undoing
<1>7. \A i \in Ids : Owner[i] # c.user => docs'[i] = docs[i]
  BY <1>2, <1>5
<1> QED
  BY <1>1, <1>4, <1>6, <1>7, QuietGood

\* The sale gives up its claim; nobody else can have claimed the execution in hand.
LEMMA UnlinkSellGood ==
  ASSUME TypeInv, GoodInv, NEW h \in Handlers, UnlinkSell(h)
  PROVE  GoodInv'
<1> DEFINE c == call[h]
           d == [docs[c.out] EXCEPT !.matchedToInboundId = Null, !.realized = FALSE]
           m == [c EXCEPT !.pc = "clear"]
<1>1. c \in Call /\ Shape(c) /\ c.pc = "unlinkSell" /\ Quiet /\ Become(h, m)
  BY Here, GotoIs DEF UnlinkSell, At
<1>2. c.id \in Ids /\ Owner[c.id] = c.user
  BY <1>1 DEF Shape
<1>3. m \in Call /\ m.pc = "clear" /\ m.user = c.user /\ m.id = c.id
  BY <1>1 DEF Call, Pcs
<1> HIDE DEF m
<1>4. ASSUME Books(docs, c.user, c)
      PROVE  /\ docs[c.id].matchedToOutboundId \in {c.out, Null} /\ docs[c.id].status # "none"
             /\ \A s \in Ids : Owner[s] = c.user =>
                  (s # c.id => Claimed(docs, s)) /\ Earned(docs, s) /\ Blank(docs, s)
             /\ \A s \in Ids : Owner[s] = c.user /\ s # c.id /\ s # c.out =>
                  docs[s].matchedToInboundId # c.id
  <2>1. docs[c.id].matchedToOutboundId \in {c.out, Null} /\ docs[c.id].status # "none"
    BY <1>1, <1>4 DEF Books, Held
  <2>2. \A s \in Ids : Owner[s] = c.user =>
          (s # c.id => Claimed(docs, s)) /\ Earned(docs, s) /\ Blank(docs, s)
    BY <1>4 DEF Books
  <2>3. \A s \in Ids : Owner[s] = c.user /\ s # c.id /\ s # c.out => docs[s].matchedToInboundId # c.id
    BY <1>2, <2>1, <2>2, NamesAssumption DEF Claimed
  <2> QED
    BY <2>1, <2>2, <2>3
<1>5. CASE c.out \in Ids
  <2>1. Write(c.out, d) /\ Owner[c.out] = c.user
    BY <1>1, <1>5 DEF UnlinkSell, Shape
  <2>2. /\ d.matchedToInboundId = Null /\ d.matchedToOutboundId = docs[c.out].matchedToOutboundId
        /\ d.realized = FALSE /\ d.status = docs[c.out].status
        /\ d.isSystemProcessed = docs[c.out].isSystemProcessed
    BY <1>5, Fields DEF Doc
  <2> HIDE DEF d
  <2>3. docs'[c.out] = d /\ \A i \in Ids \ {c.out} : docs'[i] = docs[i]
    BY <1>5, <2>1, Written
  <2>4. ASSUME Books(docs, c.user, c) PROVE Books(docs', c.user, m)
    <3>1. \A s \in Ids : Owner[s] = c.user /\ s # c.id => Claimed(docs', s)
      BY <1>4, <1>5, <2>2, <2>3, <2>4, Fields DEF Claimed
    <3>2. \A s \in Ids : Owner[s] = c.user => Earned(docs', s) /\ Blank(docs', s)
      BY <1>4, <2>2, <2>3, <2>4 DEF Earned, Blank
    <3>3. Held(docs', m)
      BY <1>2, <1>3, <1>4, <2>2, <2>3, <2>4, NamesAssumption DEF Held
    <3> QED
      BY <1>3, <3>1, <3>2, <3>3 DEF Books, Undoing
  <2>5. \A i \in Ids : Owner[i] # c.user => docs'[i] = docs[i]
    BY <2>1, <2>3
  <2> QED
    BY <1>1, <1>3, <2>4, <2>5, QuietGood
<1>6. CASE c.out \notin Ids
  <2>1. UNCHANGED docs
    BY <1>6 DEF UnlinkSell
  <2>2. ASSUME Books(docs, c.user, c) PROVE Books(docs', c.user, m)
    <3>1. Held(docs, m)
      BY <1>2, <1>3, <1>4, <1>6, <2>2 DEF Held
    <3>2. Books(docs, c.user, m)
      BY <1>3, <1>4, <2>2, <3>1 DEF Books, Undoing
    <3> QED
      BY <2>1, <3>2
  <2> QED
    BY <1>1, <1>3, <2>1, <2>2, QuietGood
<1> QED
  BY <1>5, <1>6

\* Nobody claims the execution in hand any more, so that it may forget its links.
LEMMA ClearGood ==
  ASSUME TypeInv, GoodInv, NEW h \in Handlers, Clear(h)
  PROVE  GoodInv'
<1> DEFINE c == call[h]
           d == [docs[c.id] EXCEPT !.matchedToOutboundId = Null, !.matchedToInboundId = Null,
                                   !.realized = FALSE]
<1>1. c \in Call /\ Shape(c) /\ c.pc = "clear" /\ Quiet /\ Write(c.id, d) /\ Become(h, Idle)
  BY Here DEF Clear, At
<1>2. c.id \in Ids /\ Owner[c.id] = c.user
  BY <1>1 DEF Shape
<1>3. d.matchedToOutboundId = Null /\ d.matchedToInboundId = Null /\ d.realized = FALSE
      /\ d.status = docs[c.id].status
  BY <1>2, Fields DEF Doc
<1> HIDE DEF d
<1>4. docs'[c.id] = d /\ \A i \in Ids \ {c.id} : docs'[i] = docs[i]
  BY <1>1, <1>2, Written
<1>5. ASSUME Books(docs, c.user, c) PROVE Books(docs', c.user, Idle)
  <2>1. /\ docs[c.id].status # "none"
        /\ \A s \in Ids : Owner[s] = c.user /\ s # c.id => docs[s].matchedToInboundId # c.id
    BY <1>1, <1>5 DEF Books, Held
  <2>2. \A s \in Ids : Owner[s] = c.user =>
          (s # c.id => Claimed(docs, s)) /\ Earned(docs, s) /\ Blank(docs, s)
    BY <1>5 DEF Books
  <2>3. \A s \in Ids : Owner[s] = c.user => Claimed(docs', s)
    BY <1>3, <1>4, <2>1, <2>2, Fields DEF Claimed
  <2>4. \A s \in Ids : Owner[s] = c.user => Earned(docs', s) /\ Blank(docs', s)
    BY <1>3, <1>4, <2>1, <2>2 DEF Earned, Blank
  <2>5. Held(docs', Idle)
    BY IdleShape DEF Held
  <2> QED
    BY <2>3, <2>4, <2>5 DEF Books
<1>6. \A i \in Ids : Owner[i] # c.user => docs'[i] = docs[i]
  BY <1>2, <1>4
<1> QED
  BY <1>1, <1>5, <1>6, IdleShape, QuietGood

LEMMA SoldGood ==
  ASSUME TypeInv, GoodInv, NEW h \in Handlers, Sold(h)
  PROVE  GoodInv'
<1> DEFINE c == call[h]
           d == [docs[c.id] EXCEPT !.matchedToOutboundId = MANUAL_SALE, !.realized = TRUE]
<1>1. c \in Call /\ Shape(c) /\ c.pc = "sold" /\ Quiet /\ Write(c.id, d) /\ Become(h, Idle)
  BY Here DEF Sold, At
<1>2. c.id \in Ids /\ Owner[c.id] = c.user
  BY <1>1 DEF Shape
<1>3. d.matchedToOutboundId = MANUAL_SALE /\ d.matchedToInboundId = docs[c.id].matchedToInboundId
      /\ d.realized = TRUE /\ d.status = docs[c.id].status
  BY <1>2, Fields DEF Doc
<1> HIDE DEF d
<1>4. docs'[c.id] = d /\ \A i \in Ids \ {c.id} : docs'[i] = docs[i]
  BY <1>1, <1>2, Written
<1>5. ASSUME Books(docs, c.user, c) PROVE Books(docs', c.user, Idle)
  <2>1. docs[c.id].matchedToOutboundId = Null /\ docs[c.id].status # "none"
    BY <1>1, <1>5 DEF Books, Held
  <2>2. \A s \in Ids : Owner[s] = c.user => Claimed(docs, s) /\ Earned(docs, s) /\ Blank(docs, s)
    BY <1>1, <1>5 DEF Books, Undoing
  <2>3. \A s \in Ids : Owner[s] = c.user => Claimed(docs', s)
    BY <1>3, <1>4, <2>1, <2>2, Fields, NamesAssumption DEF Claimed
  <2>4. \A s \in Ids : Owner[s] = c.user => Earned(docs', s) /\ Blank(docs', s)
    BY <1>3, <1>4, <2>1, <2>2 DEF Earned, Blank
  <2>5. Held(docs', Idle)
    BY IdleShape DEF Held
  <2> QED
    BY <2>3, <2>4, <2>5 DEF Books
<1>6. \A i \in Ids : Owner[i] # c.user => docs'[i] = docs[i]
  BY <1>2, <1>4
<1> QED
  BY <1>1, <1>5, <1>6, IdleShape, QuietGood

\* markAsManualPurchase writes neither links nor a profit.
LEMMA BoughtGood ==
  ASSUME TypeInv, GoodInv, NEW h \in Handlers, Bought(h)
  PROVE  GoodInv'
<1> DEFINE c == call[h]
           d == [docs[c.id] EXCEPT !.transactionType = "INBOUND"]
<1>1. c \in Call /\ Shape(c) /\ c.pc = "bought" /\ Quiet /\ Write(c.id, d) /\ Become(h, Idle)
  BY Here DEF Bought, At
<1>2. c.id \in Ids /\ Owner[c.id] = c.user
  BY <1>1 DEF Shape
<1>3. d.matchedToOutboundId = docs[c.id].matchedToOutboundId
      /\ d.matchedToInboundId = docs[c.id].matchedToInboundId
      /\ d.realized = docs[c.id].realized /\ d.status = docs[c.id].status
  BY <1>2, Fields DEF Doc
<1> HIDE DEF d
<1>4. docs'[c.id] = d /\ \A i \in Ids \ {c.id} : docs'[i] = docs[i]
  BY <1>1, <1>2, Written
<1>5. ASSUME Books(docs, c.user, c) PROVE Books(docs', c.user, Idle)
  <2>1. docs[c.id].status # "none"
    BY <1>1, <1>5 DEF Books, Held
  <2>2. \A s \in Ids : Owner[s] = c.user => Claimed(docs, s) /\ Earned(docs, s) /\ Blank(docs, s)
    BY <1>1, <1>5 DEF Books, Undoing
  <2>3. \A s \in Ids : Owner[s] = c.user => Claimed(docs', s)
    BY <1>3, <1>4, <2>2, Fields DEF Claimed
  <2>4. \A s \in Ids : Owner[s] = c.user => Earned(docs', s) /\ Blank(docs', s)
    BY <1>3, <1>4, <2>1, <2>2 DEF Earned, Blank
  <2>5. Held(docs', Idle)
    BY IdleShape DEF Held
  <2> QED
    BY <2>3, <2>4, <2>5 DEF Books
<1>6. \A i \in Ids : Owner[i] # c.user => docs'[i] = docs[i]
  BY <1>2, <1>4
<1> QED
  BY <1>1, <1>5, <1>6, IdleShape, QuietGood

LEMMA ProfitGood ==
  ASSUME TypeInv, GoodInv, NEW h \in Handlers, Profit(h)
  PROVE  GoodInv'
<1> DEFINE c == call[h]
           d == [docs[c.id] EXCEPT !.realized = TRUE]
<1>1. c \in Call /\ Shape(c) /\ c.pc = "profit" /\ Quiet /\ Write(c.id, d) /\ Become(h, Idle)
  BY Here DEF Profit, At
<1>2. c.id \in Ids /\ Owner[c.id] = c.user
  BY <1>1 DEF Shape
<1>3. d.matchedToOutboundId = docs[c.id].matchedToOutboundId
      /\ d.matchedToInboundId = docs[c.id].matchedToInboundId
      /\ d.realized = TRUE /\ d.status = docs[c.id].status
  BY <1>2, Fields DEF Doc
<1> HIDE DEF d
<1>4. docs'[c.id] = d /\ \A i \in Ids \ {c.id} : docs'[i] = docs[i]
  BY <1>1, <1>2, Written
<1>5. ASSUME Books(docs, c.user, c) PROVE Books(docs', c.user, Idle)
  <2>1. docs[c.id].status # "none" /\ docs[c.id].matchedToInboundId # Null
    BY <1>1, <1>5 DEF Books, Held
  <2>2. \A s \in Ids : Owner[s] = c.user => Claimed(docs, s) /\ Earned(docs, s) /\ Blank(docs, s)
    BY <1>1, <1>5 DEF Books, Undoing
  <2>3. \A s \in Ids : Owner[s] = c.user => Claimed(docs', s)
    BY <1>3, <1>4, <2>2, Fields DEF Claimed
  <2>4. \A s \in Ids : Owner[s] = c.user => Earned(docs', s) /\ Blank(docs', s)
    BY <1>3, <1>4, <2>1, <2>2 DEF Earned, Blank
  <2>5. Held(docs', Idle)
    BY IdleShape DEF Held
  <2> QED
    BY <2>3, <2>4, <2>5 DEF Books
<1>6. \A i \in Ids : Owner[i] # c.user => docs'[i] = docs[i]
  BY <1>2, <1>4
<1> QED
  BY <1>1, <1>5, <1>6, IdleShape, QuietGood

\* What is cut short disturbs its user.
LEMMA FailGood ==
  ASSUME TypeInv, GoodInv, NEW h \in Handlers, Fails(h)
  PROVE  GoodInv'
<1> DEFINE c == call[h]
<1>1. c \in Call /\ Shape(c) /\ c.pc # "idle" /\ UNCHANGED docs
      /\ disturbed' = disturbed \cup {c.user}
  BY Here DEF Fails
<1>2. c.user \in Users
  BY <1>1 DEF Shape
<1>3. PICK m \in Call : Become(h, m) /\ (m.pc # "idle" => m.user = c.user)
  BY <1>1, IdleShape, AfterTurnShape, AfterPcs DEF Fails
<1> QED
  BY <1>1, <1>2, <1>3, StepGood

-----------------------------------------------------------------------------
(* Calls that begin: a user who is not disturbed has no other in flight.   *)

LEMMA BeginGood ==
  ASSUME TypeInv, GoodInv, NEW h \in Handlers, NEW u \in Users, NEW m \in Call, m.user = u,
         call[h].pc = "idle", Become(h, m), UNCHANGED docs, disturbed \subseteq disturbed',
         u \notin disturbed' => \A g \in Handlers : call[g].user # u,
         u \notin disturbed' /\ Books(docs, u, Idle) => Held(docs, m)
  PROVE  GoodInv'
<1>1. ASSUME u \notin disturbed' PROVE Books(docs', u, m)
  <2>1. Good(u) /\ \A g \in Handlers : call[g].user # u
    BY <1>1 DEF GoodInv
  <2>2. Books(docs, u, Idle)
    BY <2>1 DEF Good
  <2>3. Books(docs, u, m)
    BY <1>1, <2>2, IdleShape, SameBooks DEF Undoing
  <2> QED
    BY <2>3
<1>2. u \notin disturbed' => \A g \in Handlers \ {h} : call[g].pc # "idle" => call[g].user # u
  OBVIOUS
<1> QED
  BY <1>1, <1>2, StepGood

LEMMA RequestGood ==
  ASSUME TypeInv, GoodInv, NEW h \in Handlers
  PROVE  /\ \A e \in Ids, t \in Types : InitialBegin(h, e, t) => GoodInv'
         /\ \A e \in Ids, t \in Types, s \in FinalStatus : FinalBegin(h, e, s, t) => GoodInv'
         /\ \A u \in Users, es \in SUBSET Ids : HistoryBegin(h, u, es) => GoodInv'
         /\ \A s, b \in Ids : ManualMatch(h, s, b) => GoodInv'
<1>1. ASSUME NEW e \in Ids, NEW t \in Types, InitialBegin(h, e, t) PROVE GoodInv'
  <2> DEFINE c == [Idle EXCEPT !.pc = "find", !.kind = "initial", !.id = e, !.transactionType = t]
             m == [c EXCEPT !.user = Owner[e]]
  <2>1. m \in Call
    BY FactsAssumption DEF Idle, Call, Pcs, Kinds, Types, Status
  <2>2. m.pc = "find" /\ m.user = Owner[e]
    BY DEF Idle
  <2>3. /\ call[h].pc = "idle" /\ Become(h, m) /\ UNCHANGED docs /\ disturbed \subseteq disturbed'
        /\ Owner[e] \notin disturbed' => \A g \in Handlers : call[g].user # Owner[e]
    BY <1>1 DEF InitialBegin, Begin, At
  <2> HIDE DEF m
  <2>4. Held(docs, m)
    BY <2>2 DEF Held
  <2> QED
    BY <2>1, <2>2, <2>3, <2>4, BeginGood, FactsAssumption
<1>2. ASSUME NEW e \in Ids, NEW t \in Types, NEW s \in FinalStatus, FinalBegin(h, e, s, t) PROVE GoodInv'
  <2> DEFINE c == [Idle EXCEPT !.pc = "find", !.kind = "final", !.id = e, !.status = s,
                               !.transactionType = t]
             m == [c EXCEPT !.user = Owner[e]]
  <2>1. m \in Call
    BY FactsAssumption DEF Idle, Call, Pcs, Kinds, Types, Status
  <2>2. m.pc = "find" /\ m.user = Owner[e]
    BY DEF Idle
  <2>3. /\ call[h].pc = "idle" /\ Become(h, m) /\ UNCHANGED docs /\ disturbed \subseteq disturbed'
        /\ Owner[e] \notin disturbed' => \A g \in Handlers : call[g].user # Owner[e]
    BY <1>2 DEF FinalBegin, Begin, At
  <2> HIDE DEF m
  <2>4. Held(docs, m)
    BY <2>2 DEF Held
  <2> QED
    BY <2>1, <2>2, <2>3, <2>4, BeginGood, FactsAssumption
<1>3. ASSUME NEW u \in Users, NEW es \in SUBSET Ids, HistoryBegin(h, u, es) PROVE GoodInv'
  <2> DEFINE c == [Idle EXCEPT !.pc = "next", !.kind = "history", !.todo = es]
             m == [c EXCEPT !.user = u]
  <2>1. m \in Call
    BY DEF Idle, Call, Pcs, Kinds, Types, Status
  <2>2. m.pc = "next" /\ m.user = u
    BY DEF Idle
  <2>3. /\ call[h].pc = "idle" /\ Become(h, m) /\ UNCHANGED docs /\ disturbed \subseteq disturbed'
        /\ u \notin disturbed' => \A g \in Handlers : call[g].user # u
    BY <1>3 DEF HistoryBegin, Begin, At
  <2> HIDE DEF m
  <2>4. Held(docs, m)
    BY <2>2 DEF Held
  <2> QED
    BY <2>1, <2>2, <2>3, <2>4, BeginGood
<1>4. ASSUME NEW s \in Ids, NEW b \in Ids, ManualMatch(h, s, b) PROVE GoodInv'
  <2> DEFINE c == [Idle EXCEPT !.pc = "linkBuy", !.kind = "manualMatch", !.id = s, !.with = b]
             m == [c EXCEPT !.user = Owner[s]]
  <2>1. m \in Call
    BY FactsAssumption DEF Idle, Call, Pcs, Kinds, Types, Status
  <2>2. m.pc = "linkBuy" /\ m.user = Owner[s] /\ m.id = s /\ m.with = b
    BY DEF Idle
  <2>3. /\ call[h].pc = "idle" /\ Become(h, m) /\ UNCHANGED docs /\ disturbed \subseteq disturbed'
        /\ Owner[s] \notin disturbed' =>
             docs[b].matchedToOutboundId = Null /\ \A g \in Handlers : call[g].user # Owner[s]
        /\ docs[s].status # "none" /\ docs[b].status # "none"
    BY <1>4 DEF ManualMatch, Begin, At, Exists
  <2> HIDE DEF m
  <2>4. Owner[s] \notin disturbed' => Held(docs, m)
    BY <2>2, <2>3 DEF Held
  <2> QED
    BY <2>1, <2>2, <2>3, <2>4, BeginGood, FactsAssumption
<1> QED
  BY <1>1, <1>2, <1>3, <1>4

\* A correction knows what it has read of the execution, as long as nobody else writes it.
LEMMA ManualGood ==
  ASSUME TypeInv, GoodInv, NEW h \in Handlers, NEW e \in Ids,
         NEW l \in {"unlinkBuy", "unlinkSell", "clear", "sold", "bought", "profit"}, Manual(h, e, l),
         l = "clear" => docs[e].matchedToOutboundId = Null,
         l = "sold" => docs[e].matchedToOutboundId = Null,
         l = "profit" => docs[e].matchedToInboundId # Null
  PROVE  GoodInv'
<1> DEFINE c == [Idle EXCEPT !.pc = l, !.id = e, !.in = docs[e].matchedToInboundId,
                             !.out = docs[e].matchedToOutboundId]
           m == [c EXCEPT !.user = Owner[e]]
<1>1. m \in Call
  BY Fields, FactsAssumption DEF Idle, Call, Pcs, Kinds, Types, Status
<1>2. m.pc = l /\ m.user = Owner[e] /\ m.id = e /\ m.in = docs[e].matchedToInboundId
      /\ m.out = docs[e].matchedToOutboundId
  BY DEF Idle
<1>3. /\ call[h].pc = "idle" /\ Become(h, m) /\ UNCHANGED docs /\ disturbed \subseteq disturbed'
      /\ Owner[e] \notin disturbed' => \A g \in Handlers : call[g].user # Owner[e]
      /\ docs[e].status # "none"
  BY DEF Manual, Begin, At, Exists
<1> HIDE DEF m
<1>4. ASSUME Books(docs, Owner[e], Idle) PROVE Held(docs, m)
  <2>1. l = "clear" => \A s \in Ids : Owner[s] = m.user /\ s # e => docs[s].matchedToInboundId # e
    <3>1. \A s \in Ids : Owner[s] = Owner[e] => Claimed(docs, s)
      BY <1>4, IdleShape DEF Books, Undoing
    <3> QED
      BY <1>2, <3>1, NamesAssumption DEF Claimed
  <2> QED
    BY <1>2, <1>3, <2>1 DEF Held
<1> QED
  BY <1>1, <1>2, <1>3, <1>4, BeginGood, FactsAssumption

LEMMA CorrectionGood ==
  ASSUME TypeInv, GoodInv, NEW h \in Handlers, NEW e \in Ids,
         Unmatch(h, e) \/ MarkAsSold(h, e) \/ MarkAsManualPurchase(h, e) \/ UpdateExecution(h, e)
  PROVE  GoodInv'
  BY ManualGood DEF Unmatch, MarkAsSold, MarkAsManualPurchase, UpdateExecution

-----------------------------------------------------------------------------
(* The books of a user who is not disturbed agree, always.                 *)

LEMMA GoodInvInit == Init => GoodInv
<1> SUFFICES ASSUME Init PROVE GoodInv
  OBVIOUS
<1>1. ASSUME NEW e \in Ids
      PROVE  Claimed(docs, e) /\ Earned(docs, e) /\ Blank(docs, e)
  <2>1. /\ docs[e].matchedToInboundId = Null /\ docs[e].matchedToOutboundId = Null
        /\ docs[e].realized = FALSE
        /\ docs[e].status = "none" => ~docs[e].isSystemProcessed
    BY DEF Init, New, NoDoc
  <2> QED
    BY <2>1 DEF Claimed, Earned, Blank
<1>2. Held(docs, Idle)
  BY IdleShape DEF Held
<1>3. \A u \in Users : Books(docs, u, Idle)
  BY <1>1, <1>2 DEF Books
<1>4. \A h \in Handlers : call[h].pc = "idle"
  BY IdleShape DEF Init
<1> QED
  BY <1>3, <1>4 DEF GoodInv, Good

LEMMA GoodInvNext == TypeInv /\ GoodInv /\ [Next]_vars => GoodInv'
<1> SUFFICES ASSUME TypeInv, GoodInv, [Next]_vars PROVE GoodInv'
  OBVIOUS
<1>1. CASE UNCHANGED vars
  <2>1. docs' = docs /\ call' = call /\ disturbed' = disturbed
    BY <1>1 DEF vars
  <2> QED
    BY <2>1 DEF GoodInv, Good
<1>2. CASE Next
  BY <1>2, Steps, RequestGood, CorrectionGood, MessageGood, CreateGood, MatchFindGood, LinkBuyGood,
     LinkSellGood, UnlinkBuyGood, UnlinkSellGood, ClearGood, SoldGood, BoughtGood, ProfitGood, FailGood
<1> QED
  BY <1>1, <1>2

-----------------------------------------------------------------------------
(* Statuses.                                                               *)

\* What a write does to a status: it keeps it, or it puts an end to it, or there was
\* no document.
LEMMA StatusWritten ==
  ASSUME TypeInv, NEW e \in Ids, NEW d, Write(e, d),
         d.status = docs[e].status \/ d.status \in FinalStatus \/ docs[e].status = "none"
  PROVE  \A i \in Ids : docs[i].status \in FinalStatus => docs'[i].status \in FinalStatus
  BY DEF TypeInv, TypeOK, Write, FinalStatus

\* What begins a call, looks or fails leaves the documents alone.
LEMMA OnlyWrites ==
  ASSUME NEW h \in Handlers
  PROVE  /\ \A e, s, t : InitialBegin(h, e, t) \/ FinalBegin(h, e, s, t) => UNCHANGED docs
         /\ \A u, es : HistoryBegin(h, u, es) => UNCHANGED docs
         /\ \A s, b : ManualMatch(h, s, b) => UNCHANGED docs
         /\ \A e : Unmatch(h, e) \/ MarkAsSold(h, e) \/ MarkAsManualPurchase(h, e)
                     \/ UpdateExecution(h, e) => UNCHANGED docs
         /\ \A e, s : HistoryFind(h, e, s) => UNCHANGED docs
         /\ Find(h) \/ FinalReread(h) \/ HistorySearch(h) \/ MatchFind(h) \/ Fails(h)
              => UNCHANGED docs
<1>1. \A e, s, t : InitialBegin(h, e, t) \/ FinalBegin(h, e, s, t) => UNCHANGED docs
  BY DEF InitialBegin, FinalBegin, Begin
<1>2. \A u, es : HistoryBegin(h, u, es) => UNCHANGED docs
  BY DEF HistoryBegin, Begin
<1>3. \A s, b : ManualMatch(h, s, b) => UNCHANGED docs
  BY DEF ManualMatch, Begin
<1>4. \A e : Unmatch(h, e) \/ MarkAsSold(h, e) \/ MarkAsManualPurchase(h, e)
               \/ UpdateExecution(h, e) => UNCHANGED docs
  BY DEF Unmatch, MarkAsSold, MarkAsManualPurchase, UpdateExecution, Manual, Begin
<1>5. \A e, s : HistoryFind(h, e, s) => UNCHANGED docs
  BY DEF HistoryFind
<1>6. Find(h) \/ FinalReread(h) \/ HistorySearch(h) \/ MatchFind(h) \/ Fails(h) => UNCHANGED docs
  BY DEF Find, FinalReread, HistorySearch, MatchFind, Fails
<1> QED
  BY <1>1, <1>2, <1>3, <1>4, <1>5, <1>6

\* Only a reconciliation can take back that an execution has ended.
LEMMA StatusKept ==
  ASSUME TypeInv, Next, NEW r \in Ids, docs[r].status \in FinalStatus,
         docs'[r].status \notin FinalStatus
  PROVE  \E h \in Handlers : Reconcile(h) /\ call[h].with = r
<1> DEFINE Kept == \A i \in Ids : docs[i].status \in FinalStatus => docs'[i].status \in FinalStatus
<1>1. PICK h \in Handlers :
        \/ UNCHANGED docs
        \/ Create(h) \/ FinalUpdate(h) \/ Reconcile(h) \/ LinkBuy(h) \/ LinkSell(h)
        \/ UnlinkBuy(h) \/ UnlinkSell(h) \/ Clear(h) \/ Sold(h) \/ Bought(h) \/ Profit(h)
  BY Steps, OnlyWrites
<1> DEFINE c == call[h]
<1>0. c \in Call /\ Shape(c) /\ c.id \in Ids \cup {Null} /\ c.in \in Ids \cup {Null}
      /\ \A e \in Ids : docs[e] \in Doc
  BY Here, CallFields, Fields
<1>2. CASE UNCHANGED docs
  BY <1>2
<1>3. CASE Create(h)
  <2>1. UNCHANGED docs \/ (docs[c.id].status = "none" /\ \E d : Write(c.id, d))
    BY <1>3 DEF Create, Exists
  <2>2. c.id \in Ids
    BY <1>0, <1>3 DEF Create, At, Shape
  <2> QED
    BY <2>1, <2>2, StatusWritten
<1>4. CASE FinalUpdate(h)
  <2>1. c.id \in Ids /\ c.status \in FinalStatus
    BY <1>0, <1>4 DEF FinalUpdate, At, Shape
  <2>2. [docs[c.id] EXCEPT !.status = c.status, !.transactionType = c.transactionType].status = c.status
    BY <1>0, <2>1 DEF Doc
  <2> QED
    BY <1>4, <2>1, <2>2, StatusWritten DEF FinalUpdate
<1>5. CASE Reconcile(h) /\ c.with # r
  <2>1. c.with \in Ids
    BY <1>0, <1>5 DEF Reconcile, At, Shape
  <2> QED
    BY <1>5, <2>1 DEF Reconcile, Write, TypeInv, TypeOK
<1>6. ASSUME NEW e \in Ids, NEW d, Write(e, d), d.status = docs[e].status PROVE Kept
  BY <1>6, StatusWritten
<1>7. CASE LinkBuy(h)
  <2>1. c.with \in Ids
    BY <1>0, <1>7 DEF LinkBuy, At, Shape
  <2>2. [docs[c.with] EXCEPT !.matchedToOutboundId = c.id].status = docs[c.with].status
    BY <1>0, <2>1 DEF Doc
  <2> QED
    BY <1>6, <1>7, <2>1, <2>2 DEF LinkBuy
<1>8. CASE LinkSell(h)
  <2>1. c.id \in Ids
    BY <1>0, <1>8 DEF LinkSell, At, Shape
  <2>2. [docs[c.id] EXCEPT !.matchedToInboundId = c.with, !.realized = TRUE].status = docs[c.id].status
    BY <1>0, <2>1 DEF Doc
  <2> QED
    BY <1>6, <1>8, <2>1, <2>2 DEF LinkSell
<1>9. CASE UnlinkBuy(h)
  <2>1. c.in \in Ids
    BY <1>0, <1>9 DEF UnlinkBuy, At, Shape
  <2>2. [docs[c.in] EXCEPT !.matchedToOutboundId = Null].status = docs[c.in].status
    BY <1>0, <2>1 DEF Doc
  <2> QED
    BY <1>6, <1>9, <2>1, <2>2 DEF UnlinkBuy
<1>10. CASE UnlinkSell(h)
  <2>1. CASE c.out \in Ids
    <3>1. [docs[c.out] EXCEPT !.matchedToInboundId = Null, !.realized = FALSE].status = docs[c.out].status
      BY <1>0, <2>1 DEF Doc
    <3> QED
      BY <1>6, <1>10, <2>1, <3>1 DEF UnlinkSell
  <2>2. CASE c.out \notin Ids
    BY <1>2, <1>10, <2>2 DEF UnlinkSell
  <2> QED
    BY <2>1, <2>2
<1>11. CASE Clear(h) \/ Sold(h) \/ Bought(h) \/ Profit(h)
  <2>1. c.id \in Ids
    BY <1>0, <1>11 DEF Clear, Sold, Bought, Profit, At, Shape
  <2>2. /\ [docs[c.id] EXCEPT !.matchedToOutboundId = Null, !.matchedToInboundId = Null,
                             !.realized = FALSE].status = docs[c.id].status
        /\ [docs[c.id] EXCEPT !.matchedToOutboundId = MANUAL_SALE, !.realized = TRUE].status
             = docs[c.id].status
        /\ [docs[c.id] EXCEPT !.transactionType = "INBOUND"].status = docs[c.id].status
        /\ [docs[c.id] EXCEPT !.realized = TRUE].status = docs[c.id].status
    BY <1>0, <2>1 DEF Doc
  <2> QED
    BY <1>6, <1>11, <2>1, <2>2 DEF Clear, Sold, Bought, Profit
<1> QED
  BY <1>1, <1>2, <1>3, <1>4, <1>5, <1>7, <1>8, <1>9, <1>10, <1>11

\* What a call of a user who is not disturbed reconciles is incomplete still.
LEMMA FoundIncomplete ==
  ASSUME TypeInv, GoodInv, NEW h \in Handlers, At(h, "reconcile"), call[h].user \notin disturbed
  PROVE  docs[call[h].with].status = "JOINED"
<1>1. call[h].pc = "reconcile" /\ call[h].user \in Users
  BY Here DEF At, Shape
<1>2. Books(docs, call[h].user, call[h])
  BY <1>1 DEF GoodInv, Good
<1> QED
  BY <1>1, <1>2 DEF Books, Held

\* No message of an execution's beginning or end and no correction, in whatever order
\* they arrive and overlap, takes back that it has ended (handleExecutionInitial,
\* handleExecutionFinal).  Only handleExecutionHistory can, and only for a user whose
\* calls overlapped or were cut short.
THEOREM OnlyHistoriesReopen == Spec => OnlyStaleHistoriesReopen
<1> DEFINE Stale(e) == /\ Owner[e] \in disturbed
                       /\ \E h \in Handlers : At(h, "reconcile") /\ call[h].with = e
           Reopens == \A e \in Ids :
             docs[e].status \in FinalStatus /\ docs'[e].status \notin FinalStatus => Stale(e)
<1>1. ASSUME TypeInv, GoodInv, Next PROVE Reopens
  <2> SUFFICES ASSUME NEW e \in Ids, docs[e].status \in FinalStatus, docs'[e].status \notin FinalStatus
               PROVE  Stale(e)
    OBVIOUS
  <2>1. PICK h \in Handlers : At(h, "reconcile") /\ call[h].with = e
    BY <1>1, StatusKept DEF Reconcile
  <2>2. Owner[e] = call[h].user
    BY <1>1, <2>1, Here DEF At, Shape
  <2>3. docs[e].status # "JOINED"
    BY DEF FinalStatus
  <2> QED
    BY <1>1, <2>1, <2>2, <2>3, FoundIncomplete
<1>2. TypeInv /\ GoodInv /\ [Next]_vars => [Reopens]_vars
  BY <1>1
<1> QED
  BY <1>2, TypeInvInit, TypeInvNext, GoodInvInit, GoodInvNext, PTL DEF Spec, OnlyStaleHistoriesReopen

-----------------------------------------------------------------------------
(* The properties of the books.                                            *)

\* A user who is settled has no call in flight, and so his books are in order.
LEMMA SettledBooks ==
  ASSUME TypeInv, GoodInv, NEW e \in Ids, Settled(Owner[e])
  PROVE  Claimed(docs, e) /\ Earned(docs, e)
<1>1. Good(Owner[e])
  BY FactsAssumption DEF GoodInv, Settled
<1>2. Books(docs, Owner[e], Idle)
  BY <1>1 DEF Good, Settled
<1> QED
  BY <1>2, IdleShape DEF Books, Undoing

\* What a sale says it sold says it was sold in that sale, for every user whose calls
\* (the executor's messages, matchSellToPurchase, ExecutionManagementService) came one
\* after the other, were not cut short and matched by hand only what was free.
THEOREM ClaimsAlwaysAgree == Spec => []ClaimsAgree
<1>1. TypeInv /\ GoodInv => ClaimsAgree
  BY SettledBooks DEF ClaimsAgree, Claimed
<1> QED
  BY <1>1, TypeInvInit, TypeInvNext, GoodInvInit, GoodInvNext, PTL DEF Spec

\* A realized profit belongs to a match or a manual sale, and every match has one, for
\* the same users.
THEOREM ProfitIsAlwaysEarned == Spec => []ProfitIsEarned
<1>1. TypeInv /\ GoodInv => ProfitIsEarned
  BY SettledBooks DEF ProfitIsEarned, Earned
<1> QED
  BY <1>1, TypeInvInit, TypeInvNext, GoodInvInit, GoodInvNext, PTL DEF Spec

=============================================================================
