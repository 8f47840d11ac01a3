---------------------------- MODULE Maintenance ----------------------------
(***************************************************************************)
(* MaintenanceService (src/maintenance/maintenance.service.ts): one        *)
(* settings document, a cached copy of it that is good for CACHE_TTL, the  *)
(* reads (getMaintenanceStatus, also behind every MaintenanceGuard) and    *)
(* the administrator's writes (setMaintenanceMode).                        *)
(*                                                                         *)
(* What a read returns is a VERSION of the settings: history lists them in *)
(* the order in which they took effect, the first being the default that   *)
(* holds while there is no document.  The message travels with the mode    *)
(* and is left out.  findOne returns the oldest document: a document       *)
(* created beside it changes nothing that is read later.                   *)
(***************************************************************************)
EXTENDS Naturals, Sequences

CONSTANTS
  Readers,      \* slots for getMaintenanceStatus calls in flight
  Setters,      \* slots for setMaintenanceMode calls in flight
  TTL,          \* CACHE_TTL, in clock ticks
  InitialDocs,  \* how many settings documents there may be at the start
  MaxTime,      \* bound on the clock
  MaxVersions   \* bound on the versions written

ASSUME TTLAssumption == TTL \in Nat \ {0}
ASSUME SlotsAssumption == Readers \cap Setters = {}
ASSUME DocsAssumption == InitialDocs \subseteq {0, 1}

VARIABLES
  now,        \* Date.now()
  history,    \* the versions: mode, and when it took effect
  docs,       \* number of settings documents
  cache,      \* the version cached, or 0 for null
  cacheTimestamp,
  pc,         \* per slot: where the call is
  asked,      \* per slot: the clock when the call began
  got,        \* per slot: the version the call has read, 0 for no document
  want,       \* per setter: the mode to set
  answer      \* the last status answered: its version, when it was asked for

dbVars == <<history, docs>>
cacheVars == <<cache, cacheTimestamp>>
callVars == <<pc, asked, got, want>>
vars == <<now, history, docs, cache, cacheTimestamp, pc, asked, got, want, answer>>

Slots == Readers \cup Setters
Current == Len(history)
Pcs == {"idle", "find", "create", "fill", "setFind", "setCreate", "setSave", "invalidate"}

TypeOK ==
  /\ now \in Nat
  /\ history \in Seq([mode : BOOLEAN, at : Nat]) /\ history # <<>>
  /\ docs \in Nat
  /\ cache \in 0 .. Current
  /\ cacheTimestamp \in Nat
  /\ pc \in [Slots -> Pcs]
  /\ asked \in [Slots -> Nat]
  /\ got \in [Slots -> 0 .. Current]
  /\ want \in [Slots -> BOOLEAN]
  /\ answer \in [version : 1 .. Current, asked : Nat]

Init ==
  /\ now = 0
  /\ history = <<[mode |-> FALSE, at |-> 0]>>
  /\ docs \in InitialDocs
  /\ cache = 0
  /\ cacheTimestamp = 0
  /\ pc = [c \in Slots |-> "idle"]
  /\ asked = [c \in Slots |-> 0]
  /\ got = [c \in Slots |-> 0]
  /\ want = [c \in Slots |-> FALSE]
  /\ answer = [version |-> 1, asked |-> 0]

Goto(c, l) == pc' = [pc EXCEPT ![c] = l]

\* The call is over and its locals are gone.
End(c) ==
  /\ Goto(c, "idle")
  /\ asked' = [asked EXCEPT ![c] = 0]
  /\ got' = [got EXCEPT ![c] = 0]
  /\ want' = [want EXCEPT ![c] = FALSE]

-----------------------------------------------------------------------------
(* getMaintenanceStatus.                                                   *)

\* The cached copy is still good: the call never waits.
AnswerCached(r) ==
  /\ pc[r] = "idle"
  /\ cache # 0 /\ now < cacheTimestamp + TTL
  /\ answer' = [version |-> cache, asked |-> now]
  /\ UNCHANGED <<now, dbVars, cacheVars, callVars>>

\* The clock is read here, before the database is.
GetBegin(r) ==
  /\ pc[r] = "idle"
  /\ cache = 0 \/ now >= cacheTimestamp + TTL
  /\ Goto(r, "find")
  /\ asked' = [asked EXCEPT ![r] = now]
  /\ UNCHANGED <<now, dbVars, cacheVars, got, want, answer>>

GetFind(r) ==
  /\ pc[r] = "find"
  /\ IF docs = 0 THEN Goto(r, "create") /\ UNCHANGED got
                 ELSE Goto(r, "fill") /\ got' = [got EXCEPT ![r] = Current]
  /\ UNCHANGED <<now, dbVars, cacheVars, asked, want, answer>>

\* The default document: the first one keeps the default in effect, a later one
\* is never read again, but this call returns and caches it.
GetCreate(r) ==
  /\ pc[r] = "create"
  /\ docs' = docs + 1
  /\ got' = [got EXCEPT ![r] = 1]
  /\ Goto(r, "fill")
  /\ UNCHANGED <<now, history, cacheVars, asked, want, answer>>

\* Mutant: the timestamp is taken after the read.
GetFillLate(r) ==
  /\ pc[r] = "fill"
  /\ cache' = got[r]
  /\ cacheTimestamp' = now
  /\ answer' = [version |-> got[r], asked |-> asked[r]]
  /\ End(r)
  /\ UNCHANGED <<now, dbVars>>

GetFill(r) ==
  /\ pc[r] = "fill"
  /\ cache' = got[r]
  /\ cacheTimestamp' = asked[r]
  /\ answer' = [version |-> got[r], asked |-> asked[r]]
  /\ End(r)
  /\ UNCHANGED <<now, dbVars>>

-----------------------------------------------------------------------------
(* setMaintenanceMode.                                                     *)

TakesEffect(m) ==
  /\ Current < MaxVersions
  /\ history' = Append(history, [mode |-> m, at |-> now])

SetBegin(w, m) ==
  /\ pc[w] = "idle"
  /\ Goto(w, "setFind")
  /\ asked' = [asked EXCEPT ![w] = now]
  /\ want' = [want EXCEPT ![w] = m]
  /\ UNCHANGED <<now, dbVars, cacheVars, got, answer>>

SetFind(w) ==
  /\ pc[w] = "setFind"
  /\ IF docs = 0 THEN Goto(w, "setCreate") /\ UNCHANGED got
                 ELSE Goto(w, "setSave") /\ got' = [got EXCEPT ![w] = Current]
  /\ UNCHANGED <<now, dbVars, cacheVars, asked, want, answer>>

\* As with the default: only the first document is ever read.
SetCreate(w) ==
  /\ pc[w] = "setCreate"
  /\ docs' = docs + 1
  /\ IF docs = 0 THEN TakesEffect(want[w]) ELSE UNCHANGED history
  /\ Goto(w, "invalidate")
  /\ UNCHANGED <<now, cacheVars, asked, got, want, answer>>

\* Mutant: the assignment is there, the save is not.
SetSaveForgotten(w) ==
  /\ pc[w] = "setSave"
  /\ Goto(w, "invalidate")
  /\ UNCHANGED <<now, dbVars, cacheVars, asked, got, want, answer>>

\* save() writes the fields that differ from what this call has loaded, and
\* nothing at all when none does, whatever the document holds by now.
SetSave(w) ==
  /\ pc[w] = "setSave"
  /\ IF history[got[w]].mode = want[w] THEN UNCHANGED history ELSE TakesEffect(want[w])
  /\ Goto(w, "invalidate")
  /\ UNCHANGED <<now, docs, cacheVars, asked, got, want, answer>>

\* Mutant: the cache is expired with a timestamp of its own instead.
SetInvalidateByTime(w) ==
  /\ pc[w] = "invalidate"
  /\ cacheTimestamp' = cacheTimestamp - TTL
  /\ End(w)
  /\ UNCHANGED <<now, dbVars, cache, answer>>

SetInvalidate(w) ==
  /\ pc[w] = "invalidate"
  /\ cache' = 0
  /\ End(w)
  /\ UNCHANGED <<now, dbVars, cacheTimestamp, answer>>

-----------------------------------------------------------------------------
\* A database operation is rejected and the call ends.
DbFails(c) ==
  /\ pc[c] \in {"find", "create", "setFind", "setCreate", "setSave"}
  /\ End(c)
  /\ UNCHANGED <<now, dbVars, cacheVars, answer>>

\* The process restarts: calls and cache are lost.
Restart ==
  /\ pc' = [c \in Slots |-> "idle"]
  /\ asked' = [c \in Slots |-> 0]
  /\ got' = [c \in Slots |-> 0]
  /\ want' = [c \in Slots |-> FALSE]
  /\ cache' = 0
  /\ cacheTimestamp' = 0
  /\ UNCHANGED <<now, dbVars, answer>>

Tick ==
  /\ now < MaxTime
  /\ now' = now + 1
  /\ UNCHANGED <<dbVars, cacheVars, callVars, answer>>

Next ==
  \/ \E r \in Readers : \/ AnswerCached(r) \/ GetBegin(r)
                        \/ GetFind(r) \/ GetCreate(r) \/ GetFill(r)
  \/ \E w \in Setters : \/ \E m \in BOOLEAN : SetBegin(w, m)
                        \/ SetFind(w) \/ SetCreate(w) \/ SetSave(w) \/ SetInvalidate(w)
  \/ \E c \in Slots : DbFails(c)
  \/ Restart
  \/ Tick

Spec == Init /\ [][Next]_vars

-----------------------------------------------------------------------------
(* Properties.                                                             *)

\* Version v was in effect at time t or later.
InEffectSince(v, t) == v = Current \/ history[v + 1].at >= t

\* However reads, writes, refills after an invalidation and slow replies
\* interleave, a status that is answered was in effect less than CACHE_TTL before
\* it was asked for, or later: a guard lets nothing through on older settings.
BoundedStaleness ==
  \/ answer.version = Current
  \/ history[answer.version + 1].at + TTL > answer.asked

\* A set that is about to answer success saw its mode in effect at some moment
\* after it was asked, its own write or one that already said the same, although
\* save() may find nothing to write and although sets overlap.  Needs that there is
\* one settings document: two calls that both found none leave two, and what is
\* written into the second is never read.
SetWasInEffect ==
  docs <= 1 =>
    \A w \in Setters : pc[w] = "invalidate" =>
      \E v \in 1 .. Current : history[v].mode = want[w] /\ InEffectSince(v, asked[w])
=============================================================================
