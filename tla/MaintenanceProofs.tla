-------------------------- MODULE MaintenanceProofs --------------------------
(***************************************************************************)
(* Proofs about Maintenance, for any number of calls in flight, any TTL,   *)
(* any clock and any number of versions.                                   *)
(***************************************************************************)
EXTENDS Maintenance, SequenceTheorems, TLAPS

(***************************************************************************)
(* The inductive invariant: a timestamp is never later than the read it    *)
(* stands for, in the calls in flight as in the cache.                     *)
(***************************************************************************)
Clocked ==
  /\ \A v \in 1 .. Current : history[v].at <= now
  /\ \A c \in Slots : asked[c] <= now
  /\ cacheTimestamp <= now
  /\ answer.asked <= now
  /\ docs = 0 => Current = 1 /\ \A c \in Slots : pc[c] # "setSave"

CallsFresh ==
  \A c \in Slots :
    /\ pc[c] \in {"fill", "setSave"} => got[c] # 0 /\ InEffectSince(got[c], asked[c])
    /\ pc[c] = "create" => InEffectSince(1, asked[c])

CacheFresh == cache # 0 => InEffectSince(cache, cacheTimestamp)

StaleInv == TypeOK /\ Clocked /\ CallsFresh /\ CacheFresh /\ BoundedStaleness

-----------------------------------------------------------------------------
LEMMA HistoryTyped ==
  ASSUME TypeOK
  PROVE  Current \in Nat \ {0} /\ \A v \in 1 .. Current : history[v].at \in Nat
<1>1. Current \in Nat \ {0}
  BY DEF TypeOK, Current
<1>2. ASSUME NEW v \in 1 .. Current
      PROVE  history[v].at \in Nat
  <2>1. history[v] \in [mode : BOOLEAN, at : Nat]
    BY ElementOfSeq DEF TypeOK, Current
  <2>. QED
    BY <2>1
<1>. QED
  BY <1>1, <1>2

\* What a version that takes effect does to the versions before it: one that was
\* in effect at time t or later still has been.
LEMMA EffectGrows ==
  ASSUME TypeOK, NEW m \in BOOLEAN, TakesEffect(m)
  PROVE  /\ history' \in Seq([mode : BOOLEAN, at : Nat]) /\ history' # <<>>
         /\ Current' = Current + 1 /\ Current \in Nat \ {0}
         /\ history'[Current'] = [mode |-> m, at |-> now]
         /\ \A v \in 1 .. Current : history'[v] = history[v]
         /\ \A v \in 1 .. Current, t \in Nat :
              t <= now /\ InEffectSince(v, t) => InEffectSince(v, t)'
<1> USE DEF TypeOK, TakesEffect, Current
<1>1. [mode |-> m, at |-> now] \in [mode : BOOLEAN, at : Nat]
  OBVIOUS
<1>2. /\ history' \in Seq([mode : BOOLEAN, at : Nat]) /\ history' # <<>>
      /\ Len(history') = Len(history) + 1 /\ Len(history) \in Nat \ {0}
      /\ history'[Len(history) + 1] = [mode |-> m, at |-> now]
      /\ \A v \in 1 .. Len(history) : history'[v] = history[v]
  BY <1>1
<1>3. ASSUME NEW v \in 1 .. Current, NEW t \in Nat, t <= now, InEffectSince(v, t)
      PROVE  InEffectSince(v, t)'
  <2>1. CASE v = Current
    BY <1>2, <1>3, <2>1 DEF InEffectSince
  <2>2. CASE v # Current
    <3>1. v + 1 \in 1 .. Current
      BY <1>2, <2>2
    <3>. QED
      BY <1>2, <1>3, <2>2, <3>1 DEF InEffectSince
  <2>. QED
    BY <2>1, <2>2
<1>. QED
  BY <1>2, <1>3

LEMMA InitStaleInv == Init => StaleInv
<1> SUFFICES ASSUME Init PROVE StaleInv
  OBVIOUS
<1>0. history \in Seq([mode : BOOLEAN, at : Nat]) /\ Len(history) = 1 /\ history # <<>>
  BY DEF Init
<1>1. TypeOK
  BY <1>0, DocsAssumption DEF Init, TypeOK, Current, Pcs
<1>. QED
  BY <1>0, <1>1 DEF Init, StaleInv, Clocked, CallsFresh, CacheFresh, BoundedStaleness,
     InEffectSince, Current

\* A step of the database: a version takes effect, or none does.  What was known
\* of the calls, the cache and the last answer stays true.
LEMMA HistoryStep ==
  ASSUME StaleInv, \/ UNCHANGED history
                   \/ \E m \in BOOLEAN : TakesEffect(m)
  PROVE  /\ history' \in Seq([mode : BOOLEAN, at : Nat]) /\ history' # <<>>
         /\ Current \in Nat \ {0} /\ Current' \in Nat \ {0} /\ Current <= Current'
         /\ \A v \in 1 .. Current : history'[v] = history[v]
         /\ \A v \in 1 .. Current' : history'[v].at <= now
         /\ \A v \in 1 .. Current, t \in Nat :
              t <= now /\ InEffectSince(v, t) => InEffectSince(v, t)'
         /\ UNCHANGED answer => BoundedStaleness'
<1> USE DEF StaleInv
<1>0. Current \in Nat \ {0}
  BY DEF TypeOK, Current
<1>1. CASE UNCHANGED history
  BY <1>0, <1>1 DEF TypeOK, Clocked, InEffectSince, BoundedStaleness, Current
<1>2. ASSUME NEW m \in BOOLEAN, TakesEffect(m)
      PROVE  /\ history' \in Seq([mode : BOOLEAN, at : Nat]) /\ history' # <<>>
             /\ Current' \in Nat \ {0} /\ Current <= Current'
             /\ \A v \in 1 .. Current : history'[v] = history[v]
             /\ \A v \in 1 .. Current' : history'[v].at <= now
             /\ \A v \in 1 .. Current, t \in Nat :
                  t <= now /\ InEffectSince(v, t) => InEffectSince(v, t)'
             /\ UNCHANGED answer => BoundedStaleness'
  <2>1. /\ history' \in Seq([mode : BOOLEAN, at : Nat]) /\ history' # <<>>
        /\ Current' = Current + 1
        /\ history'[Current'] = [mode |-> m, at |-> now]
        /\ \A v \in 1 .. Current : history'[v] = history[v]
        /\ \A v \in 1 .. Current, t \in Nat :
             t <= now /\ InEffectSince(v, t) => InEffectSince(v, t)'
    BY <1>2, EffectGrows
  <2>2. \A v \in 1 .. Current' : history'[v].at <= now
    <3> SUFFICES ASSUME NEW v \in 1 .. Current'
                 PROVE  history'[v].at <= now
      OBVIOUS
    <3>0. now \in Nat /\ (v = Current' \/ v \in 1 .. Current)
      BY <1>0, <2>1 DEF TypeOK
    <3>1. CASE v = Current'
      BY <2>1, <3>0, <3>1
    <3>2. CASE v \in 1 .. Current
      BY <2>1, <3>2 DEF Clocked
    <3>. QED
      BY <3>0, <3>1, <3>2
  <2>3. ASSUME UNCHANGED answer
        PROVE  BoundedStaleness'
    <3>0. answer.version \in 1 .. Current /\ answer.asked \in Nat /\ answer.asked <= now
      BY DEF TypeOK, Clocked
    <3>1. CASE answer.version = Current
      BY <1>0, <2>1, <2>3, <3>0, <3>1, TTLAssumption DEF BoundedStaleness, TypeOK
    <3>2. CASE answer.version # Current
      <4>1. answer.version + 1 \in 1 .. Current
        BY <1>0, <3>0, <3>2
      <4>. QED
        BY <2>1, <2>3, <3>2, <4>1 DEF BoundedStaleness
    <3>. QED
      BY <3>1, <3>2
  <2>. QED
    BY <1>0, <2>1, <2>2, <2>3
<1>. QED
  BY <1>0, <1>1, <1>2

\* A step of one call: what is left to show of it.
LEMMA CallStep ==
  ASSUME StaleInv, NEW c \in Slots,
         UNCHANGED history \/ \E m \in BOOLEAN : TakesEffect(m),
         pc' \in [Slots -> Pcs], asked' \in [Slots -> Nat], want' \in [Slots -> BOOLEAN],
         got' \in [Slots -> Nat], got'[c] <= Current', asked'[c] <= now,
         \A d \in Slots \ {c} :
           pc'[d] = pc[d] /\ asked'[d] = asked[d] /\ got'[d] = got[d],
         pc'[c] \in {"fill", "setSave"} => got'[c] # 0 /\ InEffectSince(got[c], asked[c])',
         pc'[c] = "create" => InEffectSince(1, asked[c])',
         docs' \in Nat, UNCHANGED now
  PROVE  /\ \A d \in Slots : asked'[d] <= now
         /\ \A v \in 1 .. Current' : history'[v].at <= now
         /\ CallsFresh'
         /\ cache' \in 0 .. Current' /\ cacheTimestamp' \in Nat
            /\ answer' \in [version : 1 .. Current', asked : Nat] => TypeOK'
<1> USE DEF StaleInv
<1>1. /\ history' \in Seq([mode : BOOLEAN, at : Nat]) /\ history' # <<>>
      /\ Current \in Nat \ {0} /\ Current' \in Nat \ {0} /\ Current <= Current'
      /\ \A v \in 1 .. Current' : history'[v].at <= now
      /\ \A v \in 1 .. Current, t \in Nat :
           t <= now /\ InEffectSince(v, t) => InEffectSince(v, t)'
  BY HistoryStep
<1>2. \A d \in Slots : asked'[d] <= now
  BY DEF Clocked, TypeOK
<1>3. CallsFresh'
  <2> SUFFICES ASSUME NEW d \in Slots
               PROVE  /\ pc'[d] \in {"fill", "setSave"} =>
                           got'[d] # 0 /\ InEffectSince(got[d], asked[d])'
                      /\ pc'[d] = "create" => InEffectSince(1, asked[d])'
    BY DEF CallsFresh
  <2>1. CASE d = c
    BY <2>1
  <2>2. CASE d # c
    <3>1. pc'[d] = pc[d] /\ got'[d] = got[d] /\ asked'[d] = asked[d]
      BY <2>2 DEF TypeOK
    <3>2. got[d] \in 0 .. Current /\ asked[d] \in Nat /\ asked[d] <= now
      BY DEF TypeOK, Clocked
    <3>3. 1 \in 1 .. Current /\ (got[d] # 0 => got[d] \in 1 .. Current)
      BY <1>1, <3>2
    <3>4. \A v \in 1 .. Current :
            InEffectSince(v, asked[d]) => (v = Current' \/ history'[v + 1].at >= asked[d])
      BY <1>1, <3>2 DEF InEffectSince
    <3>. QED
      BY <3>1, <3>3, <3>4 DEF InEffectSince, CallsFresh
  <2>. QED
    BY <2>1, <2>2
<1>4. ASSUME cache' \in 0 .. Current', cacheTimestamp' \in Nat,
             answer' \in [version : 1 .. Current', asked : Nat]
      PROVE  TypeOK'
  <2>1. got' \in [Slots -> 0 .. Current']
    <3>1. ASSUME NEW d \in Slots PROVE got'[d] \in 0 .. Current'
      <4>1. CASE d = c
        BY <1>1, <4>1
      <4>2. CASE d # c
        <5>1. got'[d] = got[d] /\ got[d] \in 0 .. Current
          BY <4>2 DEF TypeOK
        <5>. QED
          BY <1>1, <5>1
      <4>. QED
        BY <4>1, <4>2
    <3>. QED
      BY <3>1
  <2>. QED
    BY <1>1, <1>4, <2>1 DEF TypeOK
<1>. QED
  BY <1>1, <1>2, <1>3, <1>4

-----------------------------------------------------------------------------
\* A read keeps the invariant.  GetFill is where the code's order matters: the
\* timestamp it stores was taken before the version it stores was read.
LEMMA ReadStep ==
  ASSUME StaleInv, NEW r \in Readers,
         AnswerCached(r) \/ GetBegin(r) \/ GetFind(r) \/ GetCreate(r) \/ GetFill(r)
  PROVE  StaleInv'
<1> USE DEF StaleInv, Goto, dbVars, cacheVars
<1>0. /\ r \in Slots /\ Current \in Nat \ {0} /\ now \in Nat /\ asked[r] \in Nat
      /\ got[r] \in 0 .. Current /\ want[r] \in BOOLEAN /\ asked[r] <= now
      /\ cache \in 0 .. Current /\ cacheTimestamp \in Nat
      /\ answer \in [version : 1 .. Current, asked : Nat]
      /\ \A v \in 1 .. Current : history[v].at \in Nat
  <2>2. Current \in Nat \ {0} /\ \A v \in 1 .. Current : history[v].at \in Nat
    BY HistoryTyped
  <2>3. /\ r \in Slots /\ now \in Nat /\ asked[r] \in Nat
        /\ got[r] \in 0 .. Current /\ want[r] \in BOOLEAN /\ cache \in 0 .. Current
        /\ cacheTimestamp \in Nat /\ answer \in [version : 1 .. Current, asked : Nat]
    BY DEF TypeOK, Slots
  <2>4. asked[r] <= now
    BY <2>3 DEF Clocked
  <2>. QED
    BY <2>2, <2>3, <2>4
<1>1. /\ pc' \in [Slots -> Pcs] /\ asked' \in [Slots -> Nat] /\ want' \in [Slots -> BOOLEAN]
      /\ got' \in [Slots -> Nat] /\ docs' \in Nat /\ UNCHANGED now
      /\ \A d \in Slots \ {r} :
           pc'[d] = pc[d] /\ asked'[d] = asked[d] /\ got'[d] = got[d]
  <2> USE DEF TypeOK, Pcs
  <2>0. got \in [Slots -> Nat]
    BY <1>0
  <2>1. CASE AnswerCached(r)
    BY <2>0, <2>1 DEF AnswerCached, callVars
  <2>2. CASE GetBegin(r)
    BY <1>0, <2>0, <2>2 DEF GetBegin
  <2>3. CASE GetFind(r)
    <3>1. got' \in [Slots -> Nat]
      BY <1>0, <2>0, <2>3 DEF GetFind
    <3>. QED
      BY <1>0, <2>3, <3>1 DEF GetFind
  <2>4. CASE GetCreate(r)
    BY <1>0, <2>0, <2>4 DEF GetCreate
  <2>5. CASE GetFill(r)
    BY <1>0, <2>0, <2>5 DEF GetFill, End
  <2>. QED
    BY <2>1, <2>2, <2>3, <2>4, <2>5
<1>2. UNCHANGED history =>
        /\ Current' = Current
        /\ \A v, t : InEffectSince(v, t)' <=> InEffectSince(v, t)
  BY DEF Current, InEffectSince
<1>3. CASE AnswerCached(r)
  <2>1. TypeOK' /\ Clocked' /\ CallsFresh' /\ CacheFresh'
    BY <1>0, <1>2, <1>3 DEF AnswerCached, callVars, TypeOK, Clocked, CallsFresh, CacheFresh
  <2>2. BoundedStaleness'
    <3>1. cache \in 1 .. Current /\ InEffectSince(cache, cacheTimestamp)
          /\ now < cacheTimestamp + TTL /\ cacheTimestamp \in Nat
      BY <1>3 DEF AnswerCached, TypeOK, CacheFresh
    <3>2. CASE cache = Current
      BY <1>2, <1>3, <3>2 DEF AnswerCached, BoundedStaleness
    <3>3. CASE cache # Current
      <4>1. cache + 1 \in 1 .. Current /\ history[cache + 1].at >= cacheTimestamp
        BY <1>0, <3>1, <3>3 DEF InEffectSince
      <4>2. history[cache + 1].at \in Nat
        BY <1>0, <4>1
      <4>3. history[cache + 1].at + TTL > now
        BY <1>0, <3>1, <4>1, <4>2, TTLAssumption
      <4>. QED
        BY <1>3, <4>3 DEF AnswerCached, BoundedStaleness
    <3>. QED
      BY <3>2, <3>3
  <2>. QED
    BY <2>1, <2>2
<1>4. CASE GetBegin(r)
  <2>1. /\ pc'[r] = "find" /\ got'[r] = got[r] /\ asked'[r] = now
        /\ UNCHANGED <<history, docs, cache, cacheTimestamp, answer>>
    BY <1>0, <1>4 DEF GetBegin, TypeOK
  <2>2. TypeOK' /\ CallsFresh' /\ \A d \in Slots : asked'[d] <= now
    BY <1>0, <1>1, <1>2, <2>1, CallStep
  <2>. QED
    BY <1>1, <1>2, <2>1, <2>2 DEF Clocked, CacheFresh, BoundedStaleness
<1>5. CASE GetFind(r)
  <2>1. /\ UNCHANGED <<history, docs, cache, cacheTimestamp, answer, asked>>
        /\ \/ /\ docs = 0 /\ pc'[r] = "create" /\ got'[r] = got[r]
           \/ /\ docs # 0 /\ pc'[r] = "fill" /\ got'[r] = Current
    BY <1>0, <1>5 DEF GetFind, TypeOK
  <2>2. docs = 0 => InEffectSince(1, asked[r])'
    BY <1>2, <2>1 DEF Clocked, InEffectSince
  <2>3. docs # 0 => InEffectSince(got[r], asked[r])'
    BY <1>2, <2>1 DEF InEffectSince
  <2>4. TypeOK' /\ CallsFresh'
    BY <1>0, <1>1, <1>2, <2>1, <2>2, <2>3, CallStep
  <2>. QED
    BY <1>1, <1>2, <2>1, <2>4 DEF Clocked, CacheFresh, BoundedStaleness
<1>6. CASE GetCreate(r)
  <2>1. /\ UNCHANGED <<history, cache, cacheTimestamp, answer, asked>>
        /\ pc'[r] = "fill" /\ got'[r] = 1 /\ docs' # 0
    BY <1>0, <1>6 DEF GetCreate, TypeOK
  <2>2. InEffectSince(got[r], asked[r])'
    BY <1>0, <1>2, <1>6, <2>1 DEF GetCreate, CallsFresh, InEffectSince
  <2>3. TypeOK' /\ CallsFresh'
    BY <1>0, <1>1, <1>2, <2>1, <2>2, CallStep
  <2>. QED
    BY <1>1, <1>2, <2>1, <2>3 DEF Clocked, CacheFresh, BoundedStaleness
<1>7. CASE GetFill(r)
  <2>1. got[r] \in 1 .. Current /\ InEffectSince(got[r], asked[r])
    BY <1>0, <1>7 DEF GetFill, CallsFresh
  <2>2. TypeOK' /\ CallsFresh' /\ \A d \in Slots : asked'[d] <= now
    <3>1. pc'[r] = "idle" /\ got'[r] = 0 /\ asked'[r] = 0
          /\ cache' = got[r] /\ cacheTimestamp' = asked[r] /\ UNCHANGED history
          /\ answer' = [version |-> got[r], asked |-> asked[r]]
      BY <1>0, <1>7 DEF GetFill, End, TypeOK
    <3>. QED
      BY <1>0, <1>1, <1>2, <2>1, <3>1, CallStep
  <2>3. Clocked' /\ CacheFresh'
    BY <1>0, <1>2, <1>7, <2>1, <2>2 DEF GetFill, End, Clocked, CacheFresh
  <2>4. BoundedStaleness'
    <3>1. CASE got[r] = Current
      BY <1>2, <1>7, <3>1 DEF GetFill, BoundedStaleness
    <3>2. CASE got[r] # Current
      <4>1. got[r] + 1 \in 1 .. Current /\ history[got[r] + 1].at >= asked[r]
        BY <1>0, <2>1, <3>2 DEF InEffectSince
      <4>2. history[got[r] + 1].at + TTL > asked[r]
        BY <1>0, <4>1, TTLAssumption
      <4>. QED
        BY <1>7, <4>2 DEF GetFill, BoundedStaleness
    <3>. QED
      BY <3>1, <3>2
  <2>. QED
    BY <2>2, <2>3, <2>4
<1>. QED
  BY <1>3, <1>4, <1>5, <1>6, <1>7

-----------------------------------------------------------------------------
\* A write keeps the invariant: the version that takes effect does so now, later
\* than every timestamp taken.
LEMMA WriteStep ==
  ASSUME StaleInv, NEW w \in Setters,
         \/ \E m \in BOOLEAN : SetBegin(w, m)
         \/ SetFind(w) \/ SetCreate(w) \/ SetSave(w) \/ SetInvalidate(w)
  PROVE  StaleInv'
<1> USE DEF StaleInv, Goto, dbVars, cacheVars
<1>0. /\ w \in Slots /\ Current \in Nat \ {0} /\ now \in Nat /\ asked[w] \in Nat
      /\ got[w] \in 0 .. Current /\ want[w] \in BOOLEAN /\ asked[w] <= now
      /\ cache \in 0 .. Current /\ cacheTimestamp \in Nat /\ cacheTimestamp <= now
      /\ answer \in [version : 1 .. Current, asked : Nat] /\ docs \in Nat
  <2>1. Current \in Nat \ {0}
    BY DEF TypeOK, Current
  <2>. QED
    BY <2>1 DEF TypeOK, Slots, Clocked
<1>1. /\ pc' \in [Slots -> Pcs] /\ asked' \in [Slots -> Nat] /\ want' \in [Slots -> BOOLEAN]
      /\ got' \in [Slots -> Nat] /\ docs' \in Nat /\ UNCHANGED <<now, answer>>
      /\ \A d \in Slots \ {w} :
           pc'[d] = pc[d] /\ asked'[d] = asked[d] /\ got'[d] = got[d]
  <2> USE DEF TypeOK, Pcs
  <2>0. got \in [Slots -> Nat]
    BY <1>0
  <2>1. CASE \E m \in BOOLEAN : SetBegin(w, m)
    BY <1>0, <2>0, <2>1 DEF SetBegin
  <2>2. CASE SetFind(w)
    <3>1. got' \in [Slots -> Nat]
      BY <1>0, <2>0, <2>2 DEF SetFind
    <3>. QED
      BY <1>0, <2>2, <3>1 DEF SetFind
  <2>3. CASE SetCreate(w)
    BY <1>0, <2>0, <2>3 DEF SetCreate
  <2>4. CASE SetSave(w)
    BY <1>0, <2>0, <2>4 DEF SetSave
  <2>5. CASE SetInvalidate(w)
    BY <1>0, <2>0, <2>5 DEF SetInvalidate, End
  <2>. QED
    BY <2>1, <2>2, <2>3, <2>4, <2>5
<1>2. UNCHANGED history =>
        /\ Current' = Current
        /\ \A v, t : InEffectSince(v, t)' <=> InEffectSince(v, t)
  BY DEF Current, InEffectSince
<1>3. UNCHANGED history \/ \E m \in BOOLEAN : TakesEffect(m)
  BY <1>0 DEF SetBegin, SetFind, SetCreate, SetSave, SetInvalidate
<1>4. /\ Current' \in Nat /\ Current <= Current'
      /\ \A v \in 1 .. Current, t \in Nat :
           t <= now /\ InEffectSince(v, t) => InEffectSince(v, t)'
      /\ BoundedStaleness'
  BY <1>1, <1>3, HistoryStep
<1>5. /\ got'[w] <= Current' /\ asked'[w] <= now /\ pc'[w] \notin {"fill", "create"}
      /\ pc'[w] = "setSave" => got'[w] # 0 /\ InEffectSince(got[w], asked[w])'
      /\ docs' = 0 => docs = 0 /\ UNCHANGED history /\ pc'[w] # "setSave"
      /\ (cache' = 0 \/ cache' = cache) /\ UNCHANGED cacheTimestamp
  <2>1. CASE \E m \in BOOLEAN : SetBegin(w, m)
    BY <1>0, <1>2, <2>1 DEF SetBegin, TypeOK
  <2>2. CASE SetFind(w)
    BY <1>0, <1>2, <2>2 DEF SetFind, TypeOK, InEffectSince
  <2>3. CASE SetCreate(w)
    BY <1>0, <1>4, <2>3 DEF SetCreate, TypeOK
  <2>4. CASE SetSave(w)
    <3>1. docs # 0
      BY <1>0, <2>4 DEF SetSave, Clocked
    <3>. QED
      BY <1>0, <1>4, <2>4, <3>1 DEF SetSave, TypeOK
  <2>5. CASE SetInvalidate(w)
    BY <1>0, <1>2, <2>5 DEF SetInvalidate, End, TypeOK
  <2>. QED
    BY <2>1, <2>2, <2>3, <2>4, <2>5
<1>6. /\ cache' \in 0 .. Current' /\ cacheTimestamp' \in Nat
      /\ answer' \in [version : 1 .. Current', asked : Nat]
  BY <1>0, <1>1, <1>4, <1>5
<1>7. /\ TypeOK' /\ CallsFresh' /\ \A d \in Slots : asked'[d] <= now
      /\ \A v \in 1 .. Current' : history'[v].at <= now
  BY <1>0, <1>1, <1>3, <1>5, <1>6, CallStep
<1>8. Clocked'
  BY <1>0, <1>1, <1>2, <1>5, <1>7 DEF Clocked
<1>9. CacheFresh'
  BY <1>0, <1>4, <1>5 DEF CacheFresh
<1>. QED
  BY <1>4, <1>7, <1>8, <1>9

-----------------------------------------------------------------------------
\* Failures, restarts and the clock keep it.
LEMMA OtherStep ==
  ASSUME StaleInv, \/ \E c \in Slots : DbFails(c)
                   \/ Restart \/ Tick \/ UNCHANGED vars
  PROVE  StaleInv'
<1> USE DEF StaleInv, Goto, dbVars, cacheVars
<1>0. /\ UNCHANGED <<history, docs, answer>>
      /\ Current' = Current
      /\ \A v, t : InEffectSince(v, t)' <=> InEffectSince(v, t)
  BY DEF DbFails, Restart, Tick, vars, InEffectSince, Current
<1>1. now' \in Nat /\ now \in Nat /\ now <= now'
  BY DEF DbFails, Restart, Tick, vars, TypeOK
<1>2. BoundedStaleness'
  BY <1>0 DEF BoundedStaleness
<1>3. ASSUME NEW c \in Slots, DbFails(c)
      PROVE  StaleInv'
  <2>1. TypeOK'
    BY <1>0, <1>3, HistoryTyped DEF DbFails, End, TypeOK, Pcs
  <2>2. Clocked'
    BY <1>0, <1>1, <1>3 DEF DbFails, End, TypeOK, Clocked
  <2>3. CallsFresh' /\ CacheFresh'
    BY <1>0, <1>3 DEF DbFails, End, TypeOK, CallsFresh, CacheFresh
  <2>. QED
    BY <1>2, <2>1, <2>2, <2>3
<1>4. CASE Restart
  <2>1. TypeOK'
    BY <1>0, <1>4, HistoryTyped DEF Restart, TypeOK, Pcs
  <2>2. Clocked' /\ CallsFresh' /\ CacheFresh'
    BY <1>0, <1>1, <1>4 DEF Restart, Clocked, CallsFresh, CacheFresh
  <2>. QED
    BY <1>2, <2>1, <2>2
<1>5. CASE Tick \/ UNCHANGED vars
  <2>0. UNCHANGED <<cache, cacheTimestamp, pc, asked, got, want>>
    BY <1>5 DEF Tick, callVars, vars
  <2>1. TypeOK' /\ CallsFresh' /\ CacheFresh'
    BY <1>0, <1>1, <2>0 DEF TypeOK, CallsFresh, CacheFresh
  <2>2. Clocked'
    <3>1. \A v \in 1 .. Current : history[v].at \in Nat
      BY HistoryTyped
    <3>2. (\A c \in Slots : asked[c] \in Nat) /\ cacheTimestamp \in Nat /\ answer.asked \in Nat
      BY DEF TypeOK
    <3>. QED
      BY <1>0, <1>1, <2>0, <3>1, <3>2 DEF Clocked
  <2>. QED
    BY <1>2, <2>1, <2>2
<1>. QED
  BY <1>3, <1>4, <1>5

LEMMA StaleInvStep == StaleInv /\ [Next]_vars => StaleInv'
BY ReadStep, WriteStep, OtherStep DEF Next

-----------------------------------------------------------------------------
\* Every variable of the maintenance service keeps its type.
THEOREM MaintenanceTypeOK == Spec => []TypeOK
<1>1. Init => StaleInv
  BY InitStaleInv
<1>2. StaleInv /\ [Next]_vars => StaleInv'
  BY StaleInvStep
<1>3. StaleInv => TypeOK
  BY DEF StaleInv
<1>. QED
  BY <1>1, <1>2, <1>3, PTL DEF Spec

\* A status that is answered was in effect less than CACHE_TTL before it was
\* asked for, or later, whatever reads and writes overlap, replies come late or
\* operations fail: getMaintenanceStatus takes its timestamp before it reads.
THEOREM StalenessIsBounded == Spec => []BoundedStaleness
<1>1. Init => StaleInv
  BY InitStaleInv
<1>2. StaleInv /\ [Next]_vars => StaleInv'
  BY StaleInvStep
<1>3. StaleInv => BoundedStaleness
  BY DEF StaleInv
<1>. QED
  BY <1>1, <1>2, <1>3, PTL DEF Spec

-----------------------------------------------------------------------------
\* The other steps leave a setter that has written alone, so what it wrote stays
\* in the history.
LEMMA WrittenStays ==
  ASSUME StaleInv, NEW w \in Setters,
         UNCHANGED history \/ \E m \in BOOLEAN : TakesEffect(m),
         UNCHANGED <<asked[w], want[w]>>,
         NEW v \in 1 .. Current, history[v].mode = want[w], InEffectSince(v, asked[w])
  PROVE  \E x \in 1 .. Current' : history'[x].mode = want'[w] /\ InEffectSince(x, asked[w])'
<1>2. asked[w] \in Nat /\ asked[w] <= now
  BY DEF StaleInv, TypeOK, Clocked, Slots
<1>3. /\ Current \in Nat /\ Current' \in Nat /\ Current <= Current'
      /\ history'[v] = history[v]
      /\ \A t \in Nat : t <= now /\ InEffectSince(v, t) => InEffectSince(v, t)'
  BY HistoryStep
<1>4. PICK t \in Nat : t = asked[w] /\ t = asked'[w]
  BY <1>2
<1>5. InEffectSince(v, t)'
  BY <1>2, <1>3, <1>4
<1>. QED
  BY <1>3, <1>4, <1>5 DEF InEffectSince

\* What a set has just put into effect, it has seen in effect.
LEMMA JustWritten ==
  ASSUME StaleInv, NEW w \in Setters, UNCHANGED <<asked, want>>, TakesEffect(want[w])
  PROVE  \E v \in 1 .. Current' : history'[v].mode = want'[w] /\ InEffectSince(v, asked[w])'
<1>1. want[w] \in BOOLEAN
  BY DEF StaleInv, TypeOK, Slots
<1>2. /\ history'[Current'] = [mode |-> want[w], at |-> now]
      /\ Current' = Current + 1 /\ Current \in Nat \ {0}
  BY <1>1, EffectGrows DEF StaleInv
<1>3. Current' \in 1 .. Current' /\ InEffectSince(Current, asked[w])'
  BY <1>2 DEF InEffectSince
<1>. QED
  BY <1>2, <1>3

LEMMA SetStep ==
  ASSUME StaleInv, SetWasInEffect, [Next]_vars
  PROVE  SetWasInEffect'
<1> USE DEF dbVars, cacheVars
<1>0. /\ Current \in Nat \ {0} /\ docs \in Nat /\ now \in Nat
      /\ pc \in [Slots -> Pcs] /\ Setters \subseteq Slots
  BY HistoryTyped DEF StaleInv, TypeOK, Slots
<1> SUFFICES ASSUME docs' <= 1, NEW w \in Setters, pc'[w] = "invalidate"
             PROVE  \E v \in 1 .. Current' :
                      history'[v].mode = want'[w] /\ InEffectSince(v, asked[w])'
  BY DEF SetWasInEffect
<1>1. w \in Slots
  BY <1>0
<1>2. docs' = docs \/ docs' = docs + 1
  BY DEF Next, AnswerCached, GetBegin, GetFind, GetCreate, GetFill, SetBegin, SetFind,
     SetCreate, SetSave, SetInvalidate, DbFails, Restart, Tick, vars
<1>3. docs <= 1
  BY <1>0, <1>2
<1>4. CASE pc[w] = "invalidate"
  <2>1. UNCHANGED history \/ \E m \in BOOLEAN : TakesEffect(m)
    BY DEF Next, AnswerCached, GetBegin, GetFind, GetCreate, GetFill, SetBegin, SetFind,
       SetCreate, SetSave, SetInvalidate, DbFails, Restart, Tick, vars, StaleInv, TypeOK, Slots
  <2>2. UNCHANGED <<asked[w], want[w]>>
    BY <1>1, <1>4 DEF Next, AnswerCached, GetBegin, GetFind, GetCreate, GetFill, SetBegin,
       SetFind, SetCreate, SetSave, SetInvalidate, DbFails, Restart, Tick, vars, callVars,
       Goto, End, StaleInv, TypeOK, Slots
  <2>3. PICK v \in 1 .. Current : history[v].mode = want[w] /\ InEffectSince(v, asked[w])
    BY <1>3, <1>4 DEF SetWasInEffect
  <2>. QED
    BY <2>1, <2>2, <2>3, WrittenStays
<1>5. CASE pc[w] # "invalidate"
  <2>1. SetSave(w) \/ SetCreate(w)
    BY <1>0, <1>1, <1>5 DEF Next, AnswerCached, GetBegin, GetFind, GetCreate, GetFill, SetBegin,
       SetFind, SetCreate, SetSave, SetInvalidate, DbFails, Restart, Tick, vars, callVars,
       Goto, End
  <2>2. UNCHANGED <<asked, want>>
    BY <2>1 DEF SetSave, SetCreate
  <2>3. CASE TakesEffect(want[w])
    BY <2>2, <2>3, JustWritten
  <2>4. CASE ~TakesEffect(want[w])
    <3>1. SetSave(w) /\ UNCHANGED history /\ history[got[w]].mode = want[w]
      BY <1>0, <1>2, <2>1, <2>4 DEF SetSave, SetCreate
    <3>2. /\ got[w] \in 1 .. Current /\ InEffectSince(got[w], asked[w])
      BY <1>0, <1>1, <3>1 DEF SetSave, StaleInv, CallsFresh, TypeOK
    <3>. QED
      BY <2>2, <3>1, <3>2, WrittenStays
  <2>. QED
    BY <2>3, <2>4
<1>. QED
  BY <1>4, <1>5

\* As long as there is one settings document, a set that answers success was in
\* effect after it was asked.
THEOREM SetsAreNotLost == Spec => []SetWasInEffect
<1>1. Init => StaleInv /\ SetWasInEffect
  BY InitStaleInv DEF Init, SetWasInEffect, Slots
<1>2. StaleInv /\ SetWasInEffect /\ [Next]_vars => StaleInv' /\ SetWasInEffect'
  BY StaleInvStep, SetStep
<1>. QED
  BY <1>1, <1>2, PTL DEF Spec
=============================================================================
