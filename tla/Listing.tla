------------------------------ MODULE Listing ------------------------------
(***************************************************************************)
(* The List RPCs of kacho-compute: keyset pagination over the resources of *)
(* one kind in one project.                                                *)
(*                                                                         *)
(* Every page is a request of its own: it resolves the caller's allow-list *)
(* (ListFilter models how, and how stale it can be; here every page may    *)
(* get a different one) and then runs one SELECT after the key in the page *)
(* token.  In between rows come and go, rows with an earlier created_at    *)
(* too, since created_at is taken before the row is inserted.              *)
(***************************************************************************)
EXTENDS Naturals, FiniteSets

CONSTANTS
  Ids,          \* resource ids: positive numbers, ordered as the strings are
  Clients,      \* clients that page through the list
  PageSize,     \* page_size
  MaxTime       \* a bound on time

ASSUME ListingAssumption ==
  /\ Ids \subseteq Nat \ {0}
  /\ PageSize \in Nat \ {0} /\ MaxTime \in Nat \ {0}

VARIABLES
  clock,      \* time
  phase,      \* phase[x]: "NONE", "MINTED" (in a Create's memory), "LIVE", "GONE"
  created,    \* created[x]: created_at
  pc,         \* pc[c]: "idle", "ask" (for the next page), "select" or "done"
  dec,        \* dec[c]: the Decision of the request that is being served
  token,      \* token[c]: the page token, a (created_at, id) key
  shown,      \* shown[c][x]: how often x was returned to c
  steady,     \* history, steady[c]: the rows that have existed since c began
  allowed     \* history, allowed[c]: the ids that all allow-lists of c contained

table   == <<clock, phase, created>>
request == <<pc, dec, token, shown, allowed>>
vars    == <<table, request, steady>>

-----------------------------------------------------------------------------
\* A decision lets everything pass or lists ids.
Decision == {d \in [bypass : BOOLEAN, ids : SUBSET Ids] : d.bypass => d.ids = {}}
Nobody   == [bypass |-> FALSE, ids |-> {}]
NoToken  == <<0, 0>>

TypeOK ==
  /\ clock   \in 1 .. MaxTime
  /\ phase   \in [Ids -> {"NONE", "MINTED", "LIVE", "GONE"}]
  /\ created \in [Ids -> 0 .. MaxTime]
  /\ pc      \in [Clients -> {"idle", "ask", "select", "done"}]
  /\ dec     \in [Clients -> Decision]
  /\ token   \in [Clients -> (0 .. MaxTime) \X (Ids \cup {0})]
  /\ shown   \in [Clients -> [Ids -> Nat]]
  /\ steady  \in [Clients -> SUBSET Ids]
  /\ allowed \in [Clients -> SUBSET Ids]

Live(x) == phase[x] = "LIVE"

Init ==
  /\ clock   = 1
  /\ phase   = [x \in Ids |-> "NONE"]
  /\ created = [x \in Ids |-> 0]
  /\ pc      = [c \in Clients |-> "idle"]
  /\ dec     = [c \in Clients |-> Nobody]
  /\ token   = [c \in Clients |-> NoToken]
  /\ shown   = [c \in Clients |-> [x \in Ids |-> 0]]
  /\ steady  = [c \in Clients |-> {}]
  /\ allowed = [c \in Clients |-> {}]

-----------------------------------------------------------------------------
(***************************************************************************)
(* The table                                                               *)
(***************************************************************************)
Tick ==
  /\ clock < MaxTime
  /\ clock' = clock + 1
  /\ UNCHANGED <<phase, created, request, steady>>

\* doCreate makes the id and takes the time ...
Mint(x) ==
  /\ phase[x] = "NONE"
  /\ phase'   = [phase EXCEPT ![x] = "MINTED"]
  /\ created' = [created EXCEPT ![x] = clock]
  /\ UNCHANGED <<clock, request, steady>>

\* ... and the row is inserted later.
Insert(x) ==
  /\ phase[x] = "MINTED"
  /\ phase' = [phase EXCEPT ![x] = "LIVE"]
  /\ UNCHANGED <<clock, created, request, steady>>

Delete(x) ==
  /\ Live(x)
  /\ phase'  = [phase EXCEPT ![x] = "GONE"]
  /\ steady' = [c \in Clients |-> steady[c] \ {x}]
  /\ UNCHANGED <<clock, created, request>>

-----------------------------------------------------------------------------
(***************************************************************************)
(* A page                                                                  *)
(***************************************************************************)
Goto(c, p) == pc' = [pc EXCEPT ![c] = p]

\* A client begins to page.
Start(c) ==
  /\ pc[c] = "idle"
  /\ steady'  = [steady EXCEPT ![c] = {x \in Ids : Live(x)}]
  /\ allowed' = [allowed EXCEPT ![c] = Ids]
  /\ Goto(c, "ask")
  /\ UNCHANGED <<table, dec, token, shown>>

\* resolveListFilter returns some decision: an empty allow-list ends the listing
\* with an empty page and no token, anything else goes on to the SELECT.
Resolve(c, d) ==
  /\ pc[c] = "ask"
  /\ dec'     = [dec EXCEPT ![c] = d]
  /\ allowed' = [allowed EXCEPT ![c] = IF d.bypass THEN @ ELSE @ \cap d.ids]
  /\ Goto(c, IF d = Nobody THEN "done" ELSE "select")
  /\ UNCHANGED <<table, token, shown, steady>>

\* ORDER BY created_at, id
Before(x, y) == created[x] < created[y] \/ (created[x] = created[y] /\ x < y)

\* LIMIT n
First(n, S) == {x \in S : Cardinality({y \in S : Before(y, x)}) < n}

AfterOrAt(x, t) == t[1] < created[x] \/ (t[1] = created[x] /\ t[2] <= x)   \* mutant: >=

\* (created_at, id) > (token)
After(x, t) == t[1] < created[x] \/ (t[1] = created[x] /\ t[2] < x)

\* The rows of the WHERE clause.
Matching(c) ==
  {x \in Ids : Live(x) /\ After(x, token[c]) /\ (dec[c].bypass \/ x \in dec[c].ids)}

\* encodePageToken of the last row of S.
KeyOfLast(S) == LET x == CHOOSE x \in S : \A y \in S \ {x} : Before(y, x) IN <<created[x], x>>

NextTokenExtra(rows) == KeyOfLast(rows)   \* mutant: the key of the extra row

NextTokenSwapped(rows) ==                 \* mutant: the key is packed in the wrong order
  LET k == KeyOfLast(First(PageSize, rows)) IN <<k[2], k[1]>>

\* Of PageSize + 1 rows the first PageSize are returned; the token is the key of their last.
NextToken(rows) == KeyOfLast(First(PageSize, rows))

Select(c) ==
  LET rows == First(PageSize + 1, Matching(c))
      page == First(PageSize, rows)
      more == Cardinality(rows) > PageSize
  IN  /\ pc[c] = "select"
      /\ shown' = [shown EXCEPT ![c] = [x \in Ids |-> IF x \in page THEN @[x] + 1 ELSE @[x]]]
      /\ token' = [token EXCEPT ![c] = IF more THEN NextToken(rows) ELSE @]
      /\ dec'   = [dec EXCEPT ![c] = Nobody]
      /\ Goto(c, IF more THEN "ask" ELSE "done")
      /\ UNCHANGED <<table, steady, allowed>>

\* The filter or the query fails and the client may ask for the same page again.
Fail(c) ==
  /\ pc[c] = "select"
  /\ dec' = [dec EXCEPT ![c] = Nobody]
  /\ Goto(c, "ask")
  /\ UNCHANGED <<table, token, shown, steady, allowed>>

-----------------------------------------------------------------------------
Next ==
  \/ Tick
  \/ \E x \in Ids : Mint(x) \/ Insert(x) \/ Delete(x)
  \/ \E c \in Clients : Start(c) \/ Select(c) \/ Fail(c)
  \/ \E c \in Clients, d \in Decision : Resolve(c, d)

Spec == Init /\ [][Next]_vars

-----------------------------------------------------------------------------
(***************************************************************************)
(* Properties                                                              *)
(***************************************************************************)
\* A client that has read all pages has got every resource that existed all the
\* time and that every page's allow-list contained, whatever was inserted (with an
\* earlier created_at too), deleted or revoked between its pages.
ListComplete ==
  \A c \in Clients : pc[c] = "done" =>
    \A x \in steady[c] \cap allowed[c] : shown[c][x] > 0

\* No resource is on two pages of one listing.
ShownOnce == \A c \in Clients, x \in Ids : shown[c][x] <= 1
=============================================================================
