----------------------------- MODULE ListFilter -----------------------------
(***************************************************************************)
(* The list filter of kacho-compute: which ids a caller may see, asked of  *)
(* kacho-iam with ListObjects and kept in a cache that all requests share. *)
(*                                                                         *)
(* An entry of the cache expires, is evicted when the cache is full, and   *)
(* is written by whichever request gets its answer last: a slow answer     *)
(* overwrites a newer one.  Grants come and go at any time.                *)
(***************************************************************************)
EXTENDS Naturals, FiniteSets

CONSTANTS
  Ids,          \* resource ids
  Subjects,     \* callers
  Volatile,     \* <<s, x>> whose grant comes and goes; bounds the changes
  Requests,     \* concurrent List requests
  CacheTTL,     \* lifetime of a cache entry
  Timeout,      \* deadline of ListObjects
  MaxResults,   \* the ids that ListObjects returns at most
  MaxEntries,   \* CacheMaxEntries
  MaxTime,      \* a bound on time
  NoSubject,    \* a request without an identity
  NoEntry       \* the subject is not in the cache

ASSUME ListFilterAssumption ==
  /\ CacheTTL \in Nat /\ Timeout \in Nat /\ MaxTime \in Nat
  /\ MaxResults \in Nat \ {0} /\ MaxEntries \in Nat \ {0}
  /\ NoSubject \notin Subjects /\ Volatile \subseteq Subjects \X Ids
  /\ NoEntry \notin [ids : SUBSET Ids, expires : Nat]

VARIABLES
  failOpen,   \* KACHO_COMPUTE_LIST_FILTER_FAIL_OPEN, fixed when the process starts
  clock,      \* time
  granted,    \* <<s, x>>: kacho-iam lets s read x
  changed,    \* history, changed[s, x]: when s was last granted x or lost it
  cache,      \* cache[s]: the cached decision about s
  pc,         \* pc[r]: where request r is
  caller,     \* caller[r]: its subject
  asked,      \* asked[r]: the time at which it looked into the cache
  answer,     \* answer[r]: what kacho-iam has answered
  dec         \* dec[r]: the Decision that the handler gets

env     == <<granted, changed, failOpen>>
request == <<pc, caller, asked, answer, dec>>
vars    == <<clock, env, cache, request>>

-----------------------------------------------------------------------------
\* A decision lets everything pass or lists ids.
Decision == {d \in [bypass : BOOLEAN, ids : SUBSET Ids] : d.bypass => d.ids = {}}
Entry    == [ids : SUBSET Ids, expires : Nat]
Nobody   == [bypass |-> FALSE, ids |-> {}]

TypeOK ==
  /\ failOpen \in BOOLEAN
  /\ clock   \in Nat
  /\ granted \subseteq Subjects \X Ids
  /\ changed \in [Subjects \X Ids -> Nat]
  /\ cache   \in [Subjects -> Entry \cup {NoEntry}]
  /\ pc      \in [Requests -> {"idle", "call", "answered", "decided"}]
  /\ caller  \in [Requests -> Subjects \cup {NoSubject}]
  /\ asked   \in [Requests -> Nat]
  /\ answer  \in [Requests -> SUBSET Ids]
  /\ dec     \in [Requests -> Decision]

\* Time 0 lies before everything that a cache entry can remember.
FirstTime == CacheTTL + Timeout + 1

Init ==
  /\ failOpen \in BOOLEAN
  /\ clock   = FirstTime
  /\ granted \in SUBSET (Subjects \X Ids)
  /\ changed = [g \in Subjects \X Ids |-> 0]
  /\ cache   = [s \in Subjects |-> NoEntry]
  /\ pc      = [r \in Requests |-> "idle"]
  /\ caller  = [r \in Requests |-> NoSubject]
  /\ asked   = [r \in Requests |-> 0]
  /\ answer  = [r \in Requests |-> {}]
  /\ dec     = [r \in Requests |-> Nobody]

-----------------------------------------------------------------------------
(***************************************************************************)
(* Time and grants                                                         *)
(***************************************************************************)
Tick ==
  /\ clock < MaxTime
  /\ clock' = clock + 1
  /\ UNCHANGED <<env, cache, request>>

Grant(s, x) ==
  /\ <<s, x>> \notin granted
  /\ granted' = granted \cup {<<s, x>>}
  /\ changed' = [changed EXCEPT ![<<s, x>>] = clock]
  /\ UNCHANGED <<clock, failOpen, cache, request>>

Revoke(s, x) ==
  /\ <<s, x>> \in granted
  /\ granted' = granted \ {<<s, x>>}
  /\ changed' = [changed EXCEPT ![<<s, x>>] = clock]
  /\ UNCHANGED <<clock, failOpen, cache, request>>

-----------------------------------------------------------------------------
(***************************************************************************)
(* The decision cache                                                      *)
(***************************************************************************)
Cached == {s \in Subjects : cache[s] # NoEntry}

FreshAlways(e) == TRUE   \* mutant: entries do not expire

\* getCache: an entry is used up to its expiry.
Fresh(e) == clock <= e.expires

EvictNever(s) == {}      \* mutant: the bound is ignored

\* putCache: the entries of which one makes room for a new key.
Victims(s) == IF s \notin Cached /\ Cardinality(Cached) >= MaxEntries THEN Cached ELSE {}

\* The answer is stored, with the time at which it is stored.
PutCache(s, ids) ==
  LET e == [ids |-> ids, expires |-> clock + CacheTTL]
  IN  IF Victims(s) = {}
        THEN cache' = [cache EXCEPT ![s] = e]
        ELSE \E v \in Victims(s) : cache' = [cache EXCEPT ![v] = NoEntry, ![s] = e]

-----------------------------------------------------------------------------
(***************************************************************************)
(* A request                                                               *)
(***************************************************************************)
Goto(r, p) == pc' = [pc EXCEPT ![r] = p]

\* ListAllowedIDs returns d.
Decide(r, d) == dec' = [dec EXCEPT ![r] = d] /\ Goto(r, "decided")

Arrive(r, s) ==
  /\ pc[r] = "idle"
  /\ caller' = [caller EXCEPT ![r] = s]
  /\ asked'  = [asked EXCEPT ![r] = clock]

AnonymousMistyped == [bypass |-> TRUE, ids |-> Ids]   \* mutant: a decision that both lists and bypasses

\* resolveListFilter: a request without an identity gets an empty list.
AnonymousDecision == Nobody

Anonymous(r) ==
  /\ Arrive(r, NoSubject)
  /\ Decide(r, AnonymousDecision)
  /\ UNCHANGED <<clock, env, cache, answer>>

\* There is a fresh decision in the cache.
Hit(r, s) ==
  /\ Arrive(r, s)
  /\ s \in Cached
  /\ Fresh(cache[s])
  /\ Decide(r, [bypass |-> FALSE, ids |-> cache[s].ids])
  /\ UNCHANGED <<clock, env, cache, answer>>

\* There is none, or an expired one, which is dropped: ListObjects is called.
Miss(r, s) ==
  /\ Arrive(r, s)
  /\ s \in Cached => ~Fresh(cache[s])
  /\ cache' = [cache EXCEPT ![s] = NoEntry]
  /\ Goto(r, "call")
  /\ UNCHANGED <<clock, env, answer, dec>>

\* kacho-iam computes its answer, which it cuts at MaxResults ids without saying so.
ListObjects(r) ==
  /\ pc[r] = "call"
  /\ LET readable == {x \in Ids : <<caller[r], x>> \in granted}
     IN  \E ids \in SUBSET readable :
           /\ ids = readable \/ Cardinality(ids) = MaxResults
           /\ Cardinality(ids) <= MaxResults
           /\ answer' = [answer EXCEPT ![r] = ids]
  /\ Goto(r, "answered")
  /\ UNCHANGED <<clock, env, cache, caller, asked, dec>>

\* The answer arrives in time, is cached and decides.
Receive(r) ==
  /\ pc[r] = "answered"
  /\ clock <= asked[r] + Timeout
  /\ PutCache(caller[r], answer[r])
  /\ Decide(r, [bypass |-> FALSE, ids |-> answer[r]])
  /\ answer' = [answer EXCEPT ![r] = {}]
  /\ UNCHANGED <<clock, env, caller, asked>>

FailCacheEmpty(s) == PutCache(s, {})   \* mutant: a failure is cached as an empty answer

\* A failure leaves the cache as it is.
FailCache(s) == UNCHANGED cache

\* handleErr: the call fails, before or after kacho-iam has answered, or takes too
\* long; the request is answered with everything or with an error.
Fail(r) ==
  /\ pc[r] \in {"call", "answered"}
  /\ IF failOpen
       THEN Decide(r, [bypass |-> TRUE, ids |-> {}]) /\ UNCHANGED <<caller, asked>>
       ELSE /\ Goto(r, "idle")
            /\ caller' = [caller EXCEPT ![r] = NoSubject]
            /\ asked'  = [asked EXCEPT ![r] = 0]
            /\ UNCHANGED dec
  /\ answer' = [answer EXCEPT ![r] = {}]
  /\ FailCache(caller[r])
  /\ UNCHANGED <<clock, env>>

\* The handler has used the decision, and the request is over.
Return(r) ==
  /\ pc[r] = "decided"
  /\ Goto(r, "idle")
  /\ caller' = [caller EXCEPT ![r] = NoSubject]
  /\ asked'  = [asked EXCEPT ![r] = 0]
  /\ dec'    = [dec EXCEPT ![r] = Nobody]
  /\ UNCHANGED <<clock, env, cache, answer>>

-----------------------------------------------------------------------------
Serve(r) ==
  \/ Anonymous(r)
  \/ \E s \in Subjects : Hit(r, s) \/ Miss(r, s)
  \/ ListObjects(r) \/ Receive(r) \/ Fail(r) \/ Return(r)

Next ==
  \/ Tick
  \/ \E g \in Volatile : Grant(g[1], g[2]) \/ Revoke(g[1], g[2])
  \/ \E r \in Requests : Serve(r)

Spec == Init /\ [][Next]_vars

-----------------------------------------------------------------------------
(***************************************************************************)
(* Properties                                                              *)
(***************************************************************************)
\* What the handler may show to r.
Visible(r) == IF dec[r].bypass THEN Ids ELSE dec[r].ids

\* A revoked id disappears from the lists after the lifetime of an entry and the
\* deadline of a call at the latest, although slow answers overwrite newer ones in
\* the cache and start the lifetime anew.  A request without an identity sees
\* nothing, and all is shown only by an operator's choice to fail open.
StalenessBounded ==
  \A r \in Requests : pc[r] = "decided" =>
    \/ dec[r].bypass /\ failOpen /\ caller[r] # NoSubject
    \/ \A x \in Visible(r) :
          /\ caller[r] # NoSubject
          /\ \/ <<caller[r], x>> \in granted
             \/ asked[r] <= changed[<<caller[r], x>>] + CacheTTL + Timeout

\* A granted id appears in the lists as soon, unless the answer has as many ids as
\* kacho-iam gives at most: an entry that was filled before the grant, or by an
\* answer that the grant has overtaken, hides it no longer than that.
GrantsAppear ==
  \A r \in Requests :
    (pc[r] = "decided" /\ caller[r] # NoSubject /\ Cardinality(Visible(r)) < MaxResults) =>
      \A x \in Ids : <<caller[r], x>> \in granted =>
        x \in Visible(r) \/ asked[r] <= changed[<<caller[r], x>>] + CacheTTL + Timeout

\* Failing open leaves no trace: an entry expires before what it lists has been
\* revoked for longer than its lifetime and a call's deadline.
CacheHonest ==
  \A s \in Cached : \A x \in cache[s].ids :
    <<s, x>> \in granted \/ cache[s].expires <= changed[<<s, x>>] + CacheTTL + Timeout

\* However requests interleave, the cache stays within its bound.
CacheBounded == Cardinality(Cached) <= MaxEntries
=============================================================================
