-------------------------- MODULE ListFilterProofs --------------------------
(***************************************************************************)
(* Proofs about ListFilter, for any number of callers, ids and concurrent  *)
(* requests, any lifetimes and any bounds.                                 *)
(***************************************************************************)
EXTENDS ListFilter, Integers, FiniteSetTheorems, TLAPS

-----------------------------------------------------------------------------
(***************************************************************************)
(* The inductive invariant                                                 *)
(*                                                                         *)
(* Two windows add up: an answer is as old as the deadline of its call     *)
(* lets it be, and an entry lives on after that.  What is out of date in   *)
(* an answer was changed after its request had looked into the cache; what *)
(* is out of date in an entry was changed at most CacheTTL + Timeout       *)
(* before the entry expires.                                               *)
(***************************************************************************)
Window == CacheTTL + Timeout

\* ids still says what s may read, but for what was changed at t or later.
SoundSince(s, ids, t) ==
  \A x \in ids : <<s, x>> \in granted \/ t <= changed[<<s, x>>]

\* ids still has all that s may read, but for what was changed at t or later and
\* for what kacho-iam may have cut off.
FullSince(s, ids, t) ==
  Cardinality(ids) < MaxResults =>
    \A x \in Ids : <<s, x>> \in granted => x \in ids \/ t <= changed[<<s, x>>]

HonestSince(s, ids, t) == SoundSince(s, ids, t) /\ FullSince(s, ids, t)

\* Only a request of somebody calls kacho-iam, and none comes from the future.
RequestInv ==
  \A r \in Requests : /\ asked[r] <= clock
                      /\ pc[r] \in {"call", "answered"} => caller[r] # NoSubject

\* An answer that waits to be received.
AnswerInv ==
  \A r \in Requests : pc[r] = "answered" => HonestSince(caller[r], answer[r], asked[r])

\* An entry of the cache.
CacheInv ==
  \A s \in Cached : /\ cache[s].expires <= clock + CacheTTL
                    /\ HonestSince(s, cache[s].ids, cache[s].expires - Window)

\* A decision of r that lists ids is honest; only an operator's choice lets all pass.
Decided(r) ==
  \/ dec[r].bypass /\ failOpen /\ caller[r] # NoSubject
  \/ dec[r] = Nobody /\ caller[r] = NoSubject
  \/ /\ ~dec[r].bypass /\ caller[r] # NoSubject
     /\ HonestSince(caller[r], dec[r].ids, asked[r] - Window)

\* A decision that the handler has got.
DecisionInv ==
  \A r \in Requests : pc[r] = "decided" => Decided(r)

IInv ==
  /\ TypeOK
  /\ RequestInv
  /\ AnswerInv
  /\ CacheInv
  /\ DecisionInv

\* The cache stays within its bound because it is finite: one entry at a time.
SizeInv == IsFiniteSet(Cached) /\ CacheBounded
-----------------------------------------------------------------------------
(***************************************************************************)
(* Types                                                                   *)
(***************************************************************************)
\* The decisions that the actions make are decisions.
LEMMA DecisionsTyped ==
  /\ Nobody \in Decision /\ AnonymousDecision \in Decision
  /\ [bypass |-> TRUE, ids |-> {}] \in Decision
  /\ \A ids \in SUBSET Ids : [bypass |-> FALSE, ids |-> ids] \in Decision
  BY DEF Decision, Nobody, AnonymousDecision

\* A cached subject has an entry.
LEMMA CachedEntry ==
  ASSUME TypeOK, NEW s \in Cached
  PROVE  /\ s \in Subjects /\ cache[s] \in Entry
         /\ cache[s].ids \subseteq Ids /\ cache[s].expires \in Nat
  BY DEF TypeOK, Cached, Entry

\* Storing an answer yields entries.
LEMMA PutCacheTyped ==
  ASSUME TypeOK, NEW s \in Subjects, NEW ids \in SUBSET Ids, PutCache(s, ids)
  PROVE  cache' \in [Subjects -> Entry \cup {NoEntry}]
  <1> DEFINE e == [ids |-> ids, expires |-> clock + CacheTTL]
  <1>1. e \in Entry
    BY ListFilterAssumption DEF TypeOK, Entry
  <1>2. CASE Victims(s) = {}
    BY <1>1, <1>2 DEF PutCache, TypeOK
  <1>3. CASE Victims(s) # {}
    BY <1>1, <1>3 DEF PutCache, TypeOK
  <1> QED
    BY <1>2, <1>3

\* The variables keep their types; a request that waits for an answer is somebody's,
\* so that only callers get into the cache, and no request comes from the future.
LEMMA TypedInit == Init => TypeOK /\ RequestInv
  BY ListFilterAssumption, DecisionsTyped DEF Init, TypeOK, RequestInv, FirstTime

LEMMA TypedStep == TypeOK /\ RequestInv /\ [Next]_vars => (TypeOK /\ RequestInv)'
  <1> SUFFICES ASSUME TypeOK, RequestInv, [Next]_vars PROVE (TypeOK /\ RequestInv)'
    OBVIOUS
  <1> USE DEF env, request
  <1>1. CASE Tick
    BY <1>1 DEF Tick, TypeOK, RequestInv
  <1>2. ASSUME NEW s \in Subjects, NEW x \in Ids, Grant(s, x) PROVE (TypeOK /\ RequestInv)'
    BY <1>2 DEF Grant, TypeOK, RequestInv
  <1>3. ASSUME NEW s \in Subjects, NEW x \in Ids, Revoke(s, x) PROVE (TypeOK /\ RequestInv)'
    BY <1>3 DEF Revoke, TypeOK, RequestInv
  <1>4. ASSUME NEW r \in Requests, Anonymous(r) PROVE (TypeOK /\ RequestInv)'
    BY <1>4, DecisionsTyped DEF Anonymous, Arrive, Decide, Goto, TypeOK, RequestInv
  <1>5. ASSUME NEW r \in Requests, NEW s \in Subjects, Hit(r, s) PROVE (TypeOK /\ RequestInv)'
    BY <1>5, DecisionsTyped, CachedEntry DEF Hit, Arrive, Decide, Goto, TypeOK, RequestInv
  <1>6. ASSUME NEW r \in Requests, NEW s \in Subjects, Miss(r, s) PROVE (TypeOK /\ RequestInv)'
    BY <1>6, ListFilterAssumption DEF Miss, Arrive, Goto, TypeOK, RequestInv
  <1>7. ASSUME NEW r \in Requests, ListObjects(r) PROVE (TypeOK /\ RequestInv)'
    BY <1>7 DEF ListObjects, Goto, TypeOK, RequestInv
  <1>8. ASSUME NEW r \in Requests, Receive(r) PROVE (TypeOK /\ RequestInv)'
    <2>1. caller[r] \in Subjects
      BY <1>8 DEF Receive, TypeOK, RequestInv
    <2>2. cache' \in [Subjects -> Entry \cup {NoEntry}]
      BY <1>8, <2>1, PutCacheTyped DEF Receive, TypeOK
    <2> QED
      BY <1>8, <2>2, DecisionsTyped DEF Receive, Decide, Goto, TypeOK, RequestInv
  <1>9. ASSUME NEW r \in Requests, Fail(r) PROVE (TypeOK /\ RequestInv)'
    <2>1. CASE failOpen
      BY <1>9, <2>1, DecisionsTyped DEF Fail, FailCache, Decide, Goto, TypeOK, RequestInv
    <2>2. CASE ~failOpen
      BY <1>9, <2>2 DEF Fail, FailCache, Goto, TypeOK, RequestInv
    <2> QED
      BY <2>1, <2>2
  <1>10. ASSUME NEW r \in Requests, Return(r) PROVE (TypeOK /\ RequestInv)'
    BY <1>10, DecisionsTyped DEF Return, Goto, TypeOK, RequestInv
  <1>11. CASE UNCHANGED vars
    BY <1>11 DEF vars, TypeOK, RequestInv
  <1> QED
    BY <1>1, <1>2, <1>3, <1>4, <1>5, <1>6, <1>7, <1>8, <1>9, <1>10, <1>11,
       ListFilterAssumption DEF Next, Serve

THEOREM TypeCorrect == Spec => []TypeOK
  BY TypedInit, TypedStep, PTL DEF Spec

-----------------------------------------------------------------------------
(***************************************************************************)
(* What is out of date                                                     *)
(***************************************************************************)
\* An older bound is a weaker one.
LEMMA HonestEarlier ==
  ASSUME TypeOK, NEW s \in Subjects, NEW ids \in SUBSET Ids, NEW t \in Int, NEW u \in Int,
         u <= t, HonestSince(s, ids, t)
  PROVE  HonestSince(s, ids, u)
  BY DEF HonestSince, SoundSince, FullSince, TypeOK

\* A grant that comes or goes is remembered with its time.
LEMMA HonestAfterChange ==
  ASSUME TypeOK, NEW v \in Subjects, NEW y \in Ids, Grant(v, y) \/ Revoke(v, y),
         NEW s \in Subjects, NEW ids \in SUBSET Ids, NEW t \in Int, t <= clock,
         HonestSince(s, ids, t)
  PROVE  HonestSince(s, ids, t)'
  <1>1. ASSUME NEW x \in Ids, <<s, x>> # <<v, y>>
        PROVE  /\ (<<s, x>> \in granted)' <=> <<s, x>> \in granted
               /\ changed'[<<s, x>>] = changed[<<s, x>>]
    BY <1>1 DEF Grant, Revoke, TypeOK
  <1>2. changed'[<<v, y>>] = clock
    BY DEF Grant, Revoke, TypeOK
  <1>3. SoundSince(s, ids, t)'
    BY <1>1, <1>2 DEF HonestSince, SoundSince
  <1>4. FullSince(s, ids, t)'
    BY <1>1, <1>2 DEF HonestSince, FullSince
  <1> QED
    BY <1>3, <1>4 DEF HonestSince

\* Other steps change neither the grants nor their times.
LEMMA HonestKept ==
  ASSUME UNCHANGED env, NEW s, NEW ids, NEW t, HonestSince(s, ids, t)
  PROVE  HonestSince(s, ids, t)'
  BY DEF HonestSince, SoundSince, FullSince, env

\* What kacho-iam answers was true when it computed it.
LEMMA AnswerHonest ==
  ASSUME TypeOK, NEW r \in Requests, caller[r] \in Subjects, ListObjects(r), NEW t \in Int
  PROVE  HonestSince(caller[r], answer[r], t)'
  <1> DEFINE readable == {x \in Ids : <<caller[r], x>> \in granted}
  <1>1. PICK ids \in SUBSET readable :
           /\ ids = readable \/ Cardinality(ids) = MaxResults
           /\ answer' = [answer EXCEPT ![r] = ids]
    BY DEF ListObjects
  <1>2. answer'[r] = ids /\ UNCHANGED <<granted, changed, caller>>
    BY <1>1 DEF ListObjects, TypeOK, env
  <1>3. \A x \in ids : <<caller[r], x>> \in granted
    OBVIOUS
  <1>4. Cardinality(ids) < MaxResults => ids = readable
    BY <1>1, ListFilterAssumption
  <1> QED
    BY <1>2, <1>3, <1>4 DEF HonestSince, SoundSince, FullSince
-----------------------------------------------------------------------------
(***************************************************************************)
(* Every step keeps the invariant                                          *)
(***************************************************************************)
\* The cache after an answer has been stored: its entry, and others as they were.
LEMMA PutCacheEntries ==
  ASSUME TypeOK, NEW s \in Subjects, NEW ids \in SUBSET Ids, PutCache(s, ids)
  PROVE  /\ cache'[s] = [ids |-> ids, expires |-> clock + CacheTTL]
         /\ \A u \in Cached' : u # s => u \in Cached /\ cache'[u] = cache[u]
  <1>1. CASE Victims(s) = {}
    BY <1>1 DEF PutCache, TypeOK, Cached
  <1>2. CASE Victims(s) # {}
    <2>1. PICK v \in Cached :
            cache' = [cache EXCEPT ![v] = NoEntry, ![s] = [ids |-> ids, expires |-> clock + CacheTTL]]
      BY <1>2 DEF PutCache, Victims
    <2> QED
      BY <2>1 DEF TypeOK, Cached
  <1> QED
    BY <1>1, <1>2

\* A step of one request leaves the others alone.
LEMMA OneRequest ==
  ASSUME AnswerInv, DecisionInv, UNCHANGED env, NEW r \in Requests,
         \A q \in Requests \ {r} :
           /\ pc'[q] = pc[q] /\ caller'[q] = caller[q] /\ asked'[q] = asked[q]
           /\ answer'[q] = answer[q] /\ dec'[q] = dec[q],
         (pc[r] = "answered" => HonestSince(caller[r], answer[r], asked[r]))',
         (pc[r] = "decided" => Decided(r))'
  PROVE  (AnswerInv /\ DecisionInv)'
  <1>1. ASSUME NEW q \in Requests, q # r, pc'[q] = "answered"
        PROVE  HonestSince(caller[q], answer[q], asked[q])'
    BY <1>1 DEF AnswerInv, HonestSince, SoundSince, FullSince, env
  <1>2. ASSUME NEW q \in Requests, q # r, pc'[q] = "decided"
        PROVE  Decided(q)'
    BY <1>2 DEF DecisionInv, Decided, HonestSince, SoundSince, FullSince, env
  <1> QED
    BY <1>1, <1>2 DEF AnswerInv, DecisionInv, Decided

\* Entries that stay in the cache stay honest, and time makes them no younger.
LEMMA CacheStep ==
  ASSUME TypeOK, TypeOK', CacheInv, UNCHANGED env, clock <= clock',
         \A s \in Cached' :
           \/ s \in Cached /\ cache'[s] = cache[s]
           \/ /\ cache'[s].expires <= clock + CacheTTL
              /\ HonestSince(s, cache[s].ids, cache[s].expires - Window)'
  PROVE  CacheInv'
  <1> SUFFICES ASSUME NEW s \in Cached'
               PROVE  /\ cache'[s].expires <= clock' + CacheTTL
                      /\ HonestSince(s, cache[s].ids, cache[s].expires - Window)'
    BY DEF CacheInv
  <1>1. CASE s \in Cached /\ cache'[s] = cache[s]
    BY <1>1, CachedEntry, ListFilterAssumption
       DEF CacheInv, HonestSince, SoundSince, FullSince, env, TypeOK
  <1>2. CASE ~(s \in Cached /\ cache'[s] = cache[s])
    <2>1. cache'[s].expires \in Nat
      BY DEF TypeOK, Cached, Entry
    <2> QED
      BY <1>2, <2>1, ListFilterAssumption DEF TypeOK
  <1> QED
    BY <1>1, <1>2

LEMMA InitIInv == Init => IInv
  BY TypedInit DEF Init, IInv, AnswerInv, CacheInv, DecisionInv, Cached

LEMMA NextIInv == IInv /\ [Next]_vars => IInv'
  <1> SUFFICES ASSUME IInv, [Next]_vars PROVE (AnswerInv /\ CacheInv /\ DecisionInv)'
    BY TypedStep DEF IInv
  <1> USE ListFilterAssumption DEF IInv
  <1>0. /\ TypeOK' /\ RequestInv' /\ Window \in Nat /\ clock \in Nat
        /\ CacheTTL <= Window
    BY TypedStep DEF Window, TypeOK
  <1>1. CASE Tick
    <2>1. UNCHANGED <<env, cache, request>> /\ clock' = clock + 1
      BY <1>1 DEF Tick
    <2>2. AnswerInv' /\ DecisionInv'
      BY <2>1 DEF AnswerInv, DecisionInv, Decided, request, env, HonestSince, SoundSince, FullSince
    <2>3. CacheInv'
      BY <1>0, <2>1, CacheStep DEF Cached
    <2> QED
      BY <2>2, <2>3
  <1>2. ASSUME NEW v \in Subjects, NEW y \in Ids, Grant(v, y) \/ Revoke(v, y)
        PROVE  (AnswerInv /\ CacheInv /\ DecisionInv)'
    <2>1. UNCHANGED <<clock, failOpen, cache, request>>
      BY <1>2 DEF Grant, Revoke
    <2>2. AnswerInv'
      <3> SUFFICES ASSUME NEW r \in Requests, pc[r] = "answered"
                   PROVE  HonestSince(caller[r], answer[r], asked[r])'
        BY <2>1 DEF AnswerInv, request
      <3>1. /\ caller[r] \in Subjects /\ answer[r] \in SUBSET Ids
            /\ asked[r] \in Int /\ asked[r] <= clock
        BY DEF TypeOK, RequestInv
      <3>2. HonestSince(caller[r], answer[r], asked[r])
        BY DEF AnswerInv
      <3> QED
        BY <1>2, <2>1, <3>1, <3>2, HonestAfterChange
           DEF HonestSince, SoundSince, FullSince, request
    <2>3. CacheInv'
      <3> SUFFICES ASSUME NEW s \in Cached
                   PROVE  HonestSince(s, cache[s].ids, cache[s].expires - Window)'
        BY <2>1 DEF CacheInv, Cached
      <3>1. /\ s \in Subjects /\ cache[s].ids \in SUBSET Ids
            /\ cache[s].expires - Window \in Int /\ cache[s].expires - Window <= clock
        BY <1>0, CachedEntry DEF CacheInv
      <3>2. HonestSince(s, cache[s].ids, cache[s].expires - Window)
        BY DEF CacheInv
      <3> QED
        BY <1>2, <2>1, <3>1, <3>2, HonestAfterChange DEF HonestSince, SoundSince, FullSince
    <2>4. DecisionInv'
      <3> SUFFICES ASSUME NEW r \in Requests, pc[r] = "decided", ~dec[r].bypass,
                          caller[r] # NoSubject,
                          HonestSince(caller[r], dec[r].ids, asked[r] - Window)
                   PROVE  HonestSince(caller[r], dec[r].ids, asked[r] - Window)'
        BY <2>1 DEF DecisionInv, Decided, request
      <3>1. /\ caller[r] \in Subjects /\ dec[r].ids \in SUBSET Ids
            /\ asked[r] - Window \in Int /\ asked[r] - Window <= clock
        BY <1>0 DEF TypeOK, RequestInv, Decision
      <3> QED
        BY <1>2, <2>1, <3>1, HonestAfterChange
           DEF HonestSince, SoundSince, FullSince, request
    <2> QED
      BY <2>2, <2>3, <2>4
  <1>3. ASSUME NEW r \in Requests, Anonymous(r) PROVE (AnswerInv /\ CacheInv /\ DecisionInv)'
    <2>1. UNCHANGED <<clock, env, cache, answer>> /\ pc'[r] = "decided"
      BY <1>3 DEF Anonymous, Decide, Goto, TypeOK
    <2>2. Decided(r)'
      BY <1>3 DEF Anonymous, AnonymousDecision, Arrive, Decide, Decided, TypeOK
    <2>3. CacheInv'
      BY <1>0, <2>1, CacheStep DEF Cached
    <2> QED
      BY <1>3, <2>1, <2>2, <2>3, OneRequest DEF Anonymous, Arrive, Decide, Goto, TypeOK
  <1>4. ASSUME NEW r \in Requests, NEW s \in Subjects, Hit(r, s)
        PROVE  (AnswerInv /\ CacheInv /\ DecisionInv)'
    <2>1. UNCHANGED <<clock, env, cache, answer>> /\ pc'[r] = "decided"
      BY <1>4 DEF Hit, Decide, Goto, TypeOK
    <2>2. /\ caller'[r] = s /\ asked'[r] = clock /\ s \in Cached /\ clock <= cache[s].expires
          /\ dec'[r] = [bypass |-> FALSE, ids |-> cache[s].ids]
      BY <1>4 DEF Hit, Arrive, Decide, Fresh, TypeOK
    <2>3. HonestSince(s, cache[s].ids, cache[s].expires - Window)
      BY <2>2 DEF CacheInv
    <2>4. HonestSince(s, cache[s].ids, clock - Window)
      BY <1>0, <2>2, <2>3, CachedEntry, HonestEarlier
    <2>5. Decided(r)'
      BY <2>1, <2>2, <2>4 DEF Decided, HonestSince, SoundSince, FullSince, env
    <2>6. CacheInv'
      BY <1>0, <2>1, CacheStep DEF Cached
    <2> QED
      BY <1>4, <2>1, <2>5, <2>6, OneRequest DEF Hit, Arrive, Decide, Goto, TypeOK
  <1>5. ASSUME NEW r \in Requests, NEW s \in Subjects, Miss(r, s)
        PROVE  (AnswerInv /\ CacheInv /\ DecisionInv)'
    <2>1. UNCHANGED <<clock, env, answer, dec>> /\ pc'[r] = "call"
      BY <1>5 DEF Miss, Goto, TypeOK
    <2>2. CacheInv'
      BY <1>0, <1>5, <2>1, CacheStep DEF Miss, Cached, TypeOK
    <2> QED
      BY <1>5, <2>1, <2>2, OneRequest DEF Miss, Arrive, Goto, TypeOK
  <1>6. ASSUME NEW r \in Requests, ListObjects(r) PROVE (AnswerInv /\ CacheInv /\ DecisionInv)'
    <2>1. UNCHANGED <<clock, env, cache, caller, asked, dec>> /\ pc'[r] = "answered"
      BY <1>6 DEF ListObjects, Goto, TypeOK
    <2>2. caller[r] \in Subjects /\ asked[r] \in Int
      BY <1>6 DEF ListObjects, TypeOK, RequestInv
    <2>3. HonestSince(caller[r], answer[r], asked[r])'
      BY <1>6, <2>1, <2>2, AnswerHonest DEF HonestSince, SoundSince, FullSince
    <2>4. CacheInv'
      BY <1>0, <2>1, CacheStep DEF Cached
    <2> QED
      BY <1>6, <2>1, <2>3, <2>4, OneRequest DEF ListObjects, Goto, TypeOK
  <1>7. ASSUME NEW r \in Requests, Receive(r) PROVE (AnswerInv /\ CacheInv /\ DecisionInv)'
    <2>0. PICK s \in Subjects, ids \in SUBSET Ids : s = caller[r] /\ ids = answer[r]
      BY <1>7 DEF Receive, TypeOK, RequestInv
    <2>1. UNCHANGED <<clock, env, caller, asked>> /\ pc'[r] = "decided"
      BY <1>7 DEF Receive, Decide, Goto, TypeOK
    <2>2. /\ s \in Subjects /\ ids \in SUBSET Ids /\ asked[r] \in Nat
          /\ clock <= asked[r] + Timeout /\ HonestSince(s, ids, asked[r])
      BY <1>7, <2>0 DEF Receive, TypeOK, RequestInv, AnswerInv
    <2>3. HonestSince(s, ids, clock + CacheTTL - Window) /\ HonestSince(s, ids, asked[r] - Window)
      BY <1>0, <2>2, HonestEarlier DEF Window
    <2>4. dec'[r] = [bypass |-> FALSE, ids |-> ids]
      BY <1>7, <2>0 DEF Receive, Decide, TypeOK
    <2>5. Decided(r)'
      BY <2>0, <2>1, <2>2, <2>3, <2>4 DEF Decided, HonestSince, SoundSince, FullSince, env
    <2>6. PutCache(s, ids)
      BY <1>7, <2>0 DEF Receive
    <2>7. /\ cache'[s] = [ids |-> ids, expires |-> clock + CacheTTL]
          /\ \A u \in Cached' : u # s => u \in Cached /\ cache'[u] = cache[u]
      BY <2>6, PutCacheEntries
    <2>8. HonestSince(s, cache[s].ids, cache[s].expires - Window)'
      <3>1. cache'[s].ids = ids /\ cache'[s].expires - Window = clock + CacheTTL - Window
        BY <1>0, <2>7
      <3> QED
        BY <2>1, <2>3, <3>1 DEF HonestSince, SoundSince, FullSince, env
    <2>9. CacheInv'
      BY <1>0, <2>1, <2>7, <2>8, CacheStep
    <2> QED
      BY <1>7, <2>1, <2>5, <2>9, OneRequest DEF Receive, Decide, Goto, TypeOK
  <1>8. ASSUME NEW r \in Requests, Fail(r) PROVE (AnswerInv /\ CacheInv /\ DecisionInv)'
    <2>1. UNCHANGED <<clock, env, cache>> /\ pc'[r] \in {"idle", "decided"}
      BY <1>8 DEF Fail, FailCache, Decide, Goto, TypeOK
    <2>2. (pc[r] = "decided" => Decided(r))'
      BY <1>8 DEF Fail, Decide, Decided, Goto, RequestInv, TypeOK, env
    <2>3. CacheInv'
      BY <1>0, <2>1, CacheStep DEF Cached
    <2> QED
      BY <1>8, <2>1, <2>2, <2>3, OneRequest DEF Fail, Decide, Goto, TypeOK
  <1>9. ASSUME NEW r \in Requests, Return(r) PROVE (AnswerInv /\ CacheInv /\ DecisionInv)'
    <2>1. UNCHANGED <<clock, env, cache, answer>> /\ pc'[r] = "idle"
      BY <1>9 DEF Return, Goto, TypeOK
    <2>2. CacheInv'
      BY <1>0, <2>1, CacheStep DEF Cached
    <2> QED
      BY <1>9, <2>1, <2>2, OneRequest DEF Return, Goto, TypeOK
  <1>10. CASE UNCHANGED vars
    BY <1>10 DEF vars, env, request, AnswerInv, CacheInv, Cached, DecisionInv, Decided,
       HonestSince, SoundSince, FullSince
  <1> QED
    BY <1>1, <1>2, <1>3, <1>4, <1>5, <1>6, <1>7, <1>8, <1>9, <1>10 DEF Next, Serve
\* Decisions that are honest are neither staler nor emptier than promised.
LEMMA DecidedVisible ==
  ASSUME IInv, NEW r \in Requests, pc[r] = "decided"
  PROVE  \/ dec[r].bypass /\ failOpen /\ caller[r] # NoSubject
         \/ Visible(r) = {} /\ caller[r] = NoSubject
         \/ /\ caller[r] # NoSubject /\ caller[r] \in Subjects
            /\ Visible(r) = dec[r].ids /\ dec[r].ids \subseteq Ids
            /\ HonestSince(caller[r], dec[r].ids, asked[r] - Window)
  BY DEF IInv, DecisionInv, Decided, Visible, Nobody, TypeOK, Decision

\* A time within the window of a change.
LEMMA WithinWindow ==
  ASSUME IInv, NEW r \in Requests, NEW g \in Subjects \X Ids, asked[r] - Window <= changed[g]
  PROVE  asked[r] <= changed[g] + CacheTTL + Timeout
  BY ListFilterAssumption DEF IInv, TypeOK, Window

LEMMA IInvStaleness == IInv => StalenessBounded
  <1> SUFFICES ASSUME IInv, NEW r \in Requests, pc[r] = "decided",
                      ~(dec[r].bypass /\ failOpen /\ caller[r] # NoSubject),
                      NEW x \in Visible(r)
               PROVE  /\ caller[r] # NoSubject
                      /\ \/ <<caller[r], x>> \in granted
                         \/ asked[r] <= changed[<<caller[r], x>>] + CacheTTL + Timeout
    BY DEF StalenessBounded
  <1>1. /\ caller[r] # NoSubject /\ caller[r] \in Subjects /\ x \in dec[r].ids /\ x \in Ids
        /\ HonestSince(caller[r], dec[r].ids, asked[r] - Window)
    BY DecidedVisible
  <1>2. <<caller[r], x>> \in granted \/ asked[r] - Window <= changed[<<caller[r], x>>]
    BY <1>1 DEF HonestSince, SoundSince
  <1> QED
    BY <1>1, <1>2, WithinWindow

LEMMA IInvGrants == IInv => GrantsAppear
  <1> SUFFICES ASSUME IInv, NEW r \in Requests, pc[r] = "decided", caller[r] # NoSubject,
                      Cardinality(Visible(r)) < MaxResults,
                      NEW x \in Ids, <<caller[r], x>> \in granted
               PROVE  \/ x \in Visible(r)
                      \/ asked[r] <= changed[<<caller[r], x>>] + CacheTTL + Timeout
    BY DEF GrantsAppear
  <1>1. CASE dec[r].bypass
    BY <1>1 DEF Visible
  <1>2. CASE ~dec[r].bypass
    <2>1. /\ caller[r] \in Subjects /\ Visible(r) = dec[r].ids
          /\ HonestSince(caller[r], dec[r].ids, asked[r] - Window)
      BY <1>2, DecidedVisible
    <2>2. x \in dec[r].ids \/ asked[r] - Window <= changed[<<caller[r], x>>]
      BY <2>1 DEF HonestSince, FullSince
    <2> QED
      BY <2>1, <2>2, WithinWindow
  <1> QED
    BY <1>1, <1>2

LEMMA Invariance == Spec => []IInv
  BY InitIInv, NextIInv, PTL DEF Spec

\* getCache, putCache and ListAllowedIDs: what a list shows is out of date by a call's
\* deadline and an entry's lifetime at the most, however slow answers overwrite newer
\* ones; and only a failure that the operator lets pass shows everything.
THEOREM StalenessIsBounded == Spec => []StalenessBounded
  BY Invariance, IInvStaleness, PTL

\* ... and what was granted is hidden no longer than that, unless kacho-iam cut it off.
THEOREM GrantsDoAppear == Spec => []GrantsAppear
  BY Invariance, IInvGrants, PTL

LEMMA IInvCacheHonest == IInv => CacheHonest
  <1> SUFFICES ASSUME IInv, NEW s \in Cached, NEW x \in cache[s].ids
               PROVE  \/ <<s, x>> \in granted
                      \/ cache[s].expires <= changed[<<s, x>>] + CacheTTL + Timeout
    BY DEF CacheHonest
  <1>1. /\ s \in Subjects /\ x \in Ids /\ cache[s].expires \in Nat
        /\ HonestSince(s, cache[s].ids, cache[s].expires - Window)
    BY CachedEntry DEF IInv, CacheInv
  <1>2. <<s, x>> \in granted \/ cache[s].expires - Window <= changed[<<s, x>>]
    BY <1>1 DEF HonestSince, SoundSince
  <1> QED
    BY <1>1, <1>2, ListFilterAssumption DEF IInv, TypeOK, Window

\* handleErr: a failure that is let pass leaves no trace in the cache, whose entries
\* expire before what they list has been revoked for too long.
THEOREM CacheStaysHonest == Spec => []CacheHonest
  BY Invariance, IInvCacheHonest, PTL

-----------------------------------------------------------------------------
(***************************************************************************)
(* The size of the cache                                                   *)
(***************************************************************************)
\* putCache makes room before it adds a key.
LEMMA PutCacheSize ==
  ASSUME TypeOK, SizeInv, NEW s \in Subjects, NEW ids \in SUBSET Ids, PutCache(s, ids)
  PROVE  SizeInv'
  <1> DEFINE e == [ids |-> ids, expires |-> clock + CacheTTL]
  <1>0. /\ e # NoEntry /\ Cardinality(Cached) \in Nat /\ MaxEntries \in Nat \ {0}
        /\ IsFiniteSet(Cached) /\ Cardinality(Cached) <= MaxEntries
    BY ListFilterAssumption, FS_CardinalityType DEF SizeInv, CacheBounded, TypeOK
  <1>1. CASE Victims(s) = {}
    <2>1. Cached' = Cached \cup {s}
      BY <1>0, <1>1 DEF PutCache, TypeOK, Cached
    <2>2. s \in Cached \/ Cardinality(Cached) < MaxEntries
      <3>1. Cached # {} \/ Cardinality(Cached) < MaxEntries
        BY <1>0, FS_EmptySet
      <3> QED
        BY <1>0, <1>1, <3>1 DEF Victims
    <2>3. IsFiniteSet(Cached \cup {s}) /\ Cardinality(Cached \cup {s}) <= MaxEntries
      <3>1. /\ IsFiniteSet(Cached \cup {s})
            /\ Cardinality(Cached \cup {s}) =
                 IF s \in Cached THEN Cardinality(Cached) ELSE Cardinality(Cached) + 1
        BY <1>0, FS_AddElement
      <3> QED
        BY <1>0, <2>2, <3>1
    <2> QED
      BY <2>1, <2>3 DEF SizeInv, CacheBounded
  <1>2. CASE Victims(s) # {}
    <2>1. PICK v \in Cached : cache' = [cache EXCEPT ![v] = NoEntry, ![s] = e]
      BY <1>2 DEF PutCache, Victims
    <2>2. s \notin Cached
      BY <1>2 DEF Victims
    <2>3. Cached' = (Cached \ {v}) \cup {s}
      BY <1>0, <2>1, <2>2 DEF TypeOK, Cached
    <2>4. IsFiniteSet(Cached \ {v}) /\ Cardinality(Cached \ {v}) = Cardinality(Cached) - 1
      BY <1>0, FS_RemoveElement
    <2>5. /\ IsFiniteSet((Cached \ {v}) \cup {s})
          /\ Cardinality((Cached \ {v}) \cup {s}) = Cardinality(Cached \ {v}) + 1
      <3>1. s \notin Cached \ {v}
        BY <2>2
      <3> QED
        BY <2>4, <3>1, FS_AddElement
    <2> QED
      BY <1>0, <2>3, <2>4, <2>5 DEF SizeInv, CacheBounded
  <1> QED
    BY <1>1, <1>2

LEMMA InitSizeInv == Init => SizeInv
  <1> SUFFICES ASSUME Init PROVE SizeInv
    OBVIOUS
  <1>1. Cached = {}
    BY DEF Init, Cached
  <1> QED
    BY <1>1, FS_EmptySet, ListFilterAssumption DEF SizeInv, CacheBounded

LEMMA NextSizeInv == TypeOK /\ RequestInv /\ SizeInv /\ [Next]_vars => SizeInv'
  <1> SUFFICES ASSUME TypeOK, RequestInv, SizeInv, [Next]_vars PROVE SizeInv'
    OBVIOUS
  <1>1. CASE UNCHANGED cache
    BY <1>1 DEF SizeInv, CacheBounded, Cached
  <1>2. ASSUME NEW r \in Requests, NEW s \in Subjects, Miss(r, s) PROVE SizeInv'
    <2>1. Cached' = Cached \ {s}
      BY <1>2 DEF Miss, Cached, TypeOK
    <2>2. Cardinality(Cached) \in Nat /\ MaxEntries \in Nat
      BY FS_CardinalityType, ListFilterAssumption DEF SizeInv
    <2>3. IsFiniteSet(Cached \ {s}) /\ Cardinality(Cached \ {s}) <= Cardinality(Cached)
      BY FS_Subset DEF SizeInv
    <2> QED
      BY <2>1, <2>2, <2>3, FS_CardinalityType DEF SizeInv, CacheBounded
  <1>3. ASSUME NEW r \in Requests, Receive(r) PROVE SizeInv'
    <2>1. caller[r] \in Subjects /\ answer[r] \in SUBSET Ids /\ PutCache(caller[r], answer[r])
      BY <1>3 DEF Receive, TypeOK, RequestInv
    <2> QED
      BY <2>1, PutCacheSize
  <1> QED
    BY <1>1, <1>2, <1>3 DEF Next, Serve, vars, env, request, Tick, Grant, Revoke, Anonymous, Hit,
       ListObjects, Fail, FailCache, Return

\* However requests interleave, putCache keeps the cache within CacheMaxEntries.
THEOREM CacheStaysBounded == Spec => []CacheBounded
  <1>1. SizeInv => CacheBounded
    BY DEF SizeInv
  <1> QED
    BY <1>1, InitSizeInv, NextSizeInv, TypedInit, TypedStep, PTL DEF Spec
=============================================================================
