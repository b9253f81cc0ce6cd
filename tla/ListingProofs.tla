---------------------------- MODULE ListingProofs ----------------------------
(***************************************************************************)
(* Proofs about Listing, for any number of rows (the table may hold any    *)
(* finite number of the ids), clients, page sizes and times.               *)
(***************************************************************************)
EXTENDS Listing, Integers, FiniteSetTheorems, WellFoundedInduction, TLAPS

-----------------------------------------------------------------------------
(***************************************************************************)
(* The order of the rows                                                   *)
(***************************************************************************)
\* A nonempty set of naturals has a least element ...
LEMMA LeastNatural ==
  ASSUME NEW T \in SUBSET Nat, T # {}
  PROVE  \E m \in T : \A k \in T : m <= k
  <1>1. PICK m \in T : \A k \in T : ~ (<<k, m>> \in OpToRel(<, Nat))
    BY WFMin, NatLessThanWellFounded
  <1>2. \A k \in T : ~(k < m)
    BY <1>1 DEF OpToRel
  <1> QED
    BY <1>2

\* ... and if it has a bound, a greatest.
LEMMA GreatestNatural ==
  ASSUME NEW T \in SUBSET Nat, T # {}, NEW b \in Nat, \A k \in T : k <= b
  PROVE  \E m \in T : \A k \in T : k <= m
  <1> DEFINE D == {b - k : k \in T}
  <1>1. D \in SUBSET Nat /\ D # {}
    <2>1. \A k \in T : b - k \in Nat
      OBVIOUS
    <2>2. PICK k \in T : TRUE
      OBVIOUS
    <2> QED
      BY <2>1, <2>2
  <1>2. PICK d \in D : \A e \in D : d <= e
    BY <1>1, LeastNatural
  <1>3. PICK m \in T : d = b - m
    OBVIOUS
  <1>4. \A k \in T : b - m <= b - k
    BY <1>2, <1>3
  <1> QED
    BY <1>4

\* The columns by which rows are ordered.
LEMMA Columns ==
  ASSUME TypeOK, NEW x \in Ids
  PROVE  x \in Nat /\ x > 0 /\ created[x] \in Nat /\ created[x] \in 0 .. MaxTime
  BY ListingAssumption DEF TypeOK

\* ORDER BY created_at, id is a strict total order.
LEMMA BeforeIsTotal ==
  ASSUME TypeOK
  PROVE  /\ \A x \in Ids : ~Before(x, x)
         /\ \A x, y \in Ids : x = y \/ Before(x, y) \/ Before(y, x)
         /\ \A x, y, z \in Ids : Before(x, y) /\ Before(y, z) => Before(x, z)
  BY Columns DEF Before

\* The rows of S that come before x.
Earlier(S, x) == {y \in S : Before(y, x)}
Rank(S, x)    == Cardinality(Earlier(S, x))

\* Ranks follow the order.
LEMMA Ranks ==
  ASSUME TypeOK, NEW S \in SUBSET Ids, IsFiniteSet(S), NEW x \in S
  PROVE  /\ Rank(S, x) \in Nat
         /\ Rank(S, x) < Cardinality(S)
         /\ \A y \in S : Before(y, x) => Rank(S, y) < Rank(S, x)
  <1>1. \A T \in SUBSET S : IsFiniteSet(T) /\ Cardinality(T) \in Nat
    BY FS_Subset, FS_CardinalityType
  <1>2. \A T, U \in SUBSET S : T \subseteq U /\ T # U => Cardinality(T) < Cardinality(U)
    <2> SUFFICES ASSUME NEW T \in SUBSET S, NEW U \in SUBSET S, T \subseteq U, T # U
                 PROVE  Cardinality(T) < Cardinality(U)
      OBVIOUS
    <2>1. Cardinality(T) <= Cardinality(U) /\ (Cardinality(U) = Cardinality(T) => U = T)
      BY <1>1, FS_Subset
    <2> QED
      BY <1>1, <2>1
  <1>3. Earlier(S, x) \in SUBSET S /\ Earlier(S, x) # S
    BY BeforeIsTotal DEF Earlier
  <1>4. ASSUME NEW y \in S, Before(y, x)
        PROVE  Earlier(S, y) \subseteq Earlier(S, x) /\ Earlier(S, y) # Earlier(S, x)
    BY <1>4, BeforeIsTotal DEF Earlier
  <1>5. \A y \in S : Earlier(S, y) \in SUBSET S
    BY DEF Earlier
  <1> QED
    BY <1>1, <1>2, <1>3, <1>4, <1>5 DEF Rank

\* A nonempty set of rows has a first row and, if it is finite, a last one.
LEMMA FirstAndLast ==
  ASSUME TypeOK, NEW S \in SUBSET Ids, IsFiniteSet(S), NEW T \in SUBSET S, T # {}
  PROVE  /\ \E x \in T : \A y \in T : ~Before(y, x)
         /\ \E x \in T : \A y \in T \ {x} : Before(y, x)
  <1> DEFINE R == {Rank(S, x) : x \in T}
  <1>1. R \in SUBSET Nat /\ R # {} /\ Cardinality(S) \in Nat /\ \A k \in R : k <= Cardinality(S)
    BY Ranks, FS_CardinalityType
  <1>2. PICK a \in T : \A y \in T : Rank(S, a) <= Rank(S, y)
    <2>1. PICK m \in R : \A k \in R : m <= k
      BY <1>1, LeastNatural
    <2> QED
      BY <2>1
  <1>3. PICK b \in T : \A y \in T : Rank(S, y) <= Rank(S, b)
    <2>1. PICK m \in R : \A k \in R : k <= m
      BY <1>1, GreatestNatural
    <2> QED
      BY <2>1
  <1>4. \A y \in T : ~Before(y, a)
    BY <1>2, Ranks
  <1>5. \A y \in T \ {b} : Before(y, b)
    BY <1>3, Ranks, BeforeIsTotal
  <1> QED
    BY <1>4, <1>5
-----------------------------------------------------------------------------
(***************************************************************************)
(* A page of a finite table                                                *)
(***************************************************************************)
\* LIMIT n takes a prefix ...
LEMMA FirstIsPrefix ==
  ASSUME TypeOK, NEW S \in SUBSET Ids, IsFiniteSet(S), NEW n \in Nat
  PROVE  /\ First(n, S) \in SUBSET S /\ IsFiniteSet(First(n, S))
         /\ \A x \in First(n, S), y \in S : Before(y, x) => y \in First(n, S)
         /\ \A x \in S : x \in First(n, S) <=> Rank(S, x) < n
  <1>1. First(n, S) = {x \in S : Rank(S, x) < n}
    BY DEF First, Rank, Earlier
  <1>2. First(n, S) \in SUBSET S
    BY <1>1
  <1>3. \A x \in First(n, S), y \in S : Before(y, x) => y \in First(n, S)
    BY <1>1, Ranks
  <1> QED
    BY <1>1, <1>2, <1>3, FS_Subset

\* ... and all of a table with fewer rows, or else n rows at least.
LEMMA FirstIsFull ==
  ASSUME TypeOK, NEW S \in SUBSET Ids, IsFiniteSet(S), NEW n \in Nat,
         Cardinality(First(n, S)) < n
  PROVE  First(n, S) = S
  <1> DEFINE F == First(n, S)
             T == S \ F
  <1>1. SUFFICES ASSUME T # {} PROVE FALSE
    BY FirstIsPrefix
  <1>2. PICK x \in T : \A y \in T : ~Before(y, x)
    BY <1>1, FirstAndLast
  <1>3. Earlier(S, x) \subseteq F
    BY <1>2 DEF Earlier
  <1>4. IsFiniteSet(F) /\ Cardinality(F) \in Nat /\ Rank(S, x) \in Nat /\ ~(Rank(S, x) < n)
    BY FirstIsPrefix, Ranks, FS_CardinalityType
  <1>5. Rank(S, x) <= Cardinality(F)
    BY <1>3, <1>4, FS_Subset DEF Rank
  <1> QED
    BY <1>4, <1>5

\* KeyOfLast is the key of a row, and no row is after it.
LEMMA KeyIsLast ==
  ASSUME TypeOK, NEW S \in SUBSET Ids, IsFiniteSet(S), S # {}
  PROVE  \E x \in S : /\ KeyOfLast(S) = <<created[x], x>>
                      /\ \A y \in S \ {x} : Before(y, x)
  <1> DEFINE x == CHOOSE x \in S : \A y \in S \ {x} : Before(y, x)
  <1>1. \E z \in S : \A y \in S \ {z} : Before(y, z)
    BY FirstAndLast
  <1>2. x \in S /\ \A y \in S \ {x} : Before(y, x)
    BY <1>1
  <1>3. KeyOfLast(S) = <<created[x], x>>
    BY DEF KeyOfLast
  <1> QED
    BY <1>2, <1>3

\* The rows after the key of a row are those that it comes before.
LEMMA AfterKey ==
  ASSUME TypeOK, NEW x \in Ids, NEW y \in Ids
  PROVE  After(y, <<created[x], x>>) <=> Before(x, y)
  BY Columns DEF After, Before

\* A page: what Select takes from the rows M that match, when it finds that there is
\* more and when it finds that there is not.
LEMMA PageOf ==
  ASSUME TypeOK, NEW M \in SUBSET Ids, IsFiniteSet(M), NEW rows, NEW page,
         rows = First(PageSize + 1, M), page = First(PageSize, rows)
  PROVE  /\ page \subseteq M
         /\ ~(Cardinality(rows) > PageSize) => page = M
         /\ Cardinality(rows) > PageSize =>
              \E x \in page : /\ NextToken(rows) = <<created[x], x>>
                              /\ \A y \in page \ {x} : Before(y, x)
                              /\ \A y \in M : y \in page <=> y = x \/ Before(y, x)
  <1> USE ListingAssumption
  <1>1. /\ rows \in SUBSET M /\ IsFiniteSet(rows) /\ rows \in SUBSET Ids
        /\ page \in SUBSET rows /\ IsFiniteSet(page) /\ page \in SUBSET Ids
        /\ Cardinality(rows) \in Nat
    <2>1. rows \in SUBSET M /\ IsFiniteSet(rows) /\ rows \in SUBSET Ids
      <3>1. PageSize + 1 \in Nat
        OBVIOUS
      <3> QED
        BY <3>1, FirstIsPrefix
    <2>2. page \in SUBSET rows /\ IsFiniteSet(page)
      BY <2>1, FirstIsPrefix
    <2> QED
      BY <2>1, <2>2, FS_CardinalityType
  <1>2. ASSUME ~(Cardinality(rows) > PageSize) PROVE page = M
    <2>1. rows = M
      BY <1>1, <1>2, FirstIsFull
    <2>2. \A x \in rows : Rank(rows, x) < PageSize
      BY <1>1, <1>2, Ranks
    <2> QED
      BY <1>1, <2>1, <2>2, FirstIsPrefix
  <1>3. ASSUME Cardinality(rows) > PageSize
        PROVE  \E x \in page : /\ NextToken(rows) = <<created[x], x>>
                               /\ \A y \in page \ {x} : Before(y, x)
                               /\ \A y \in M : y \in page <=> y = x \/ Before(y, x)
    <2>1. page # {}
      <3>1. rows # {}
        BY <1>3, FS_EmptySet
      <3>2. PICK a \in rows : \A y \in rows : ~Before(y, a)
        BY <1>1, <3>1, FirstAndLast
      <3>3. Earlier(rows, a) = {}
        BY <3>2 DEF Earlier
      <3>4. Rank(rows, a) = 0
        BY <3>3, FS_EmptySet DEF Rank
      <3> QED
        BY <1>1, <3>4, FirstIsPrefix
    <2>2. PICK x \in page : /\ KeyOfLast(page) = <<created[x], x>>
                            /\ \A y \in page \ {x} : Before(y, x)
      BY <1>1, <2>1, KeyIsLast
    <2>3. NextToken(rows) = <<created[x], x>>
      BY <2>2 DEF NextToken
    <2>4. ASSUME NEW y \in M, Before(y, x) PROVE y \in page
      <3>1. y \in rows
        BY <1>1, <2>4, FirstIsPrefix
      <3> QED
        BY <1>1, <2>4, <3>1, FirstIsPrefix
    <2> QED
      BY <2>2, <2>3, <2>4
  <1>4. page \subseteq M
    BY <1>1
  <1> QED
    BY <1>2, <1>3, <1>4
-----------------------------------------------------------------------------
(***************************************************************************)
(* The inductive invariant                                                 *)
(*                                                                         *)
(* A token divides the rows: what has been shown is not after it, and what *)
(* was there all the time and is not after it has been shown.              *)
(***************************************************************************)
\* The ids that a Create has taken are finitely many, so that a SELECT has a last row.
Taken == {x \in Ids : phase[x] # "NONE"}
TableInv == IsFiniteSet(Taken)

\* A listing that has not begun.
IdleInv ==
  \A c \in Clients : pc[c] = "idle" =>
    token[c] = NoToken /\ \A x \in Ids : shown[c][x] = 0

\* What was there all the time is there.
SteadyInv == \A c \in Clients : \A x \in steady[c] : Live(x)

\* The allow-list of the page that is being served is one of those seen so far.
AllowInv ==
  \A c \in Clients : pc[c] = "select" => dec[c].bypass \/ allowed[c] \subseteq dec[c].ids

\* Behind the token.
ShownInv ==
  \A c \in Clients : \A x \in Ids : shown[c][x] > 0 =>
    phase[x] \in {"LIVE", "GONE"} /\ (pc[c] = "done" \/ ~After(x, token[c]))

PassedInv ==
  \A c \in Clients : pc[c] \in {"ask", "select"} =>
    \A x \in steady[c] \cap allowed[c] : After(x, token[c]) \/ shown[c][x] > 0

IInv ==
  /\ TypeOK
  /\ TableInv
  /\ IdleInv
  /\ SteadyInv
  /\ AllowInv
  /\ ShownInv
  /\ PassedInv
  /\ ListComplete
  /\ ShownOnce
-----------------------------------------------------------------------------
(***************************************************************************)
(* Types                                                                   *)
(***************************************************************************)
LEMMA NobodyTyped == Nobody \in Decision
  BY DEF Decision, Nobody

\* What Select does: it shows a page of the matching rows, which is all of them or
\* whose last row becomes the token.
LEMMA SelectPage ==
  ASSUME TypeOK, TableInv, NEW c \in Clients, Select(c)
  PROVE  \E page \in SUBSET Matching(c) :
           /\ \A x \in Ids : shown'[c][x] = IF x \in page THEN shown[c][x] + 1 ELSE shown[c][x]
           /\ shown' \in [Clients -> [Ids -> Nat]]
           /\ \/ pc'[c] = "done" /\ token' = token /\ page = Matching(c)
              \/ /\ pc'[c] = "ask"
                 /\ \E x \in page :
                      /\ token' = [token EXCEPT ![c] = <<created[x], x>>]
                      /\ \A y \in page \ {x} : Before(y, x)
                      /\ \A y \in Matching(c) : y \in page <=> y = x \/ Before(y, x)
  <1> DEFINE rows == First(PageSize + 1, Matching(c))
             page == First(PageSize, rows)
             more == Cardinality(rows) > PageSize
  <1>1. Matching(c) \in SUBSET Ids /\ IsFiniteSet(Matching(c))
    <2>1. Matching(c) \in SUBSET Taken
      BY DEF Matching, Live, Taken
    <2> QED
      BY <2>1, FS_Subset DEF TableInv, Matching
  <1>2. /\ page \subseteq Matching(c)
        /\ ~more => page = Matching(c)
        /\ more => \E x \in page : /\ NextToken(rows) = <<created[x], x>>
                                   /\ \A y \in page \ {x} : Before(y, x)
                                   /\ \A y \in Matching(c) : y \in page <=> y = x \/ Before(y, x)
    BY <1>1, PageOf
  <1>3. /\ shown' = [shown EXCEPT ![c] =
                       [x \in Ids |-> IF x \in page THEN shown[c][x] + 1 ELSE shown[c][x]]]
        /\ token' = [token EXCEPT ![c] = IF more THEN NextToken(rows) ELSE token[c]]
        /\ pc' = [pc EXCEPT ![c] = IF more THEN "ask" ELSE "done"]
    BY DEF Select, Goto
  <1> HIDE DEF rows, page, more
  <1>4. /\ \A x \in Ids : shown'[c][x] = IF x \in page THEN shown[c][x] + 1 ELSE shown[c][x]
        /\ shown' \in [Clients -> [Ids -> Nat]]
    BY <1>3 DEF TypeOK
  <1>5. CASE more
    <2>1. PICK x \in page : /\ NextToken(rows) = <<created[x], x>>
                            /\ \A y \in page \ {x} : Before(y, x)
                            /\ \A y \in Matching(c) : y \in page <=> y = x \/ Before(y, x)
      BY <1>2, <1>5
    <2>2. pc'[c] = "ask" /\ token' = [token EXCEPT ![c] = <<created[x], x>>]
      BY <1>3, <1>5, <2>1 DEF TypeOK
    <2> QED
      BY <1>2, <1>4, <2>1, <2>2
  <1>6. CASE ~more
    <2>1. pc'[c] = "done" /\ token' = token
      BY <1>3, <1>6 DEF TypeOK
    <2> QED
      BY <1>2, <1>4, <1>6, <2>1
  <1> QED
    BY <1>5, <1>6

LEMMA InitTyped == Init => TypeOK /\ TableInv
  <1> SUFFICES ASSUME Init PROVE TypeOK /\ TableInv
    OBVIOUS
  <1>1. TypeOK
    BY ListingAssumption, NobodyTyped DEF Init, TypeOK, NoToken
  <1>2. Taken = {}
    BY DEF Init, Taken
  <1> QED
    BY <1>1, <1>2, FS_EmptySet DEF TableInv

LEMMA NextTyped == TypeOK /\ TableInv /\ [Next]_vars => (TypeOK /\ TableInv)'
  <1> SUFFICES ASSUME TypeOK, TableInv, [Next]_vars PROVE (TypeOK /\ TableInv)'
    OBVIOUS
  <1> USE ListingAssumption DEF table, request
  <1>1. CASE Tick
    BY <1>1 DEF Tick, TypeOK, TableInv, Taken
  <1>2. ASSUME NEW x \in Ids, Mint(x) PROVE (TypeOK /\ TableInv)'
    <2>1. TypeOK'
      BY <1>2 DEF Mint, TypeOK
    <2>2. Taken' = Taken \cup {x}
      BY <1>2 DEF Mint, TypeOK, Taken
    <2> QED
      BY <2>1, <2>2, FS_AddElement DEF TableInv
  <1>3. ASSUME NEW x \in Ids, Insert(x) \/ Delete(x) PROVE (TypeOK /\ TableInv)'
    <2>1. TypeOK'
      BY <1>3 DEF Insert, Delete, TypeOK
    <2>2. Taken' = Taken
      BY <1>3 DEF Insert, Delete, Live, TypeOK, Taken
    <2> QED
      BY <2>1, <2>2 DEF TableInv
  <1>4. ASSUME NEW c \in Clients, Start(c) PROVE (TypeOK /\ TableInv)'
    BY <1>4 DEF Start, Goto, TypeOK, TableInv, Taken
  <1>5. ASSUME NEW c \in Clients, NEW d \in Decision, Resolve(c, d) PROVE (TypeOK /\ TableInv)'
    BY <1>5 DEF Resolve, Goto, TypeOK, TableInv, Taken
  <1>6. ASSUME NEW c \in Clients, Select(c) PROVE (TypeOK /\ TableInv)'
    <2>1. UNCHANGED <<clock, phase, created, steady, allowed>>
      BY <1>6 DEF Select
    <2>2. shown' \in [Clients -> [Ids -> Nat]]
      BY <1>6, SelectPage
    <2>3. token' \in [Clients -> (0 .. MaxTime) \X (Ids \cup {0})]
      <3>1. PICK page \in SUBSET Matching(c) :
              \/ token' = token
              \/ \E x \in page : token' = [token EXCEPT ![c] = <<created[x], x>>]
        <4>1. PICK page \in SUBSET Matching(c) :
                \/ token' = token
                \/ \E x \in page :
                     /\ token' = [token EXCEPT ![c] = <<created[x], x>>]
                     /\ \A y \in page \ {x} : Before(y, x)
                     /\ \A y \in Matching(c) : y \in page <=> y = x \/ Before(y, x)
          BY <1>6, SelectPage
        <4> QED
          BY <4>1
      <3>2. \A x \in page : x \in Ids /\ created[x] \in 0 .. MaxTime
        BY Columns DEF Matching
      <3>3. \A x \in page : <<created[x], x>> \in (0 .. MaxTime) \X (Ids \cup {0})
        BY <3>2
      <3>4. token \in [Clients -> (0 .. MaxTime) \X (Ids \cup {0})]
        BY DEF TypeOK
      <3> HIDE DEF TypeOK
      <3> QED
        BY <3>1, <3>3, <3>4
    <2>4. /\ dec' \in [Clients -> Decision]
          /\ pc' \in [Clients -> {"idle", "ask", "select", "done"}]
      BY <1>6, NobodyTyped DEF Select, Goto, TypeOK
    <2> QED
      BY <2>1, <2>2, <2>3, <2>4 DEF TypeOK, TableInv, Taken
  <1>7. ASSUME NEW c \in Clients, Fail(c) PROVE (TypeOK /\ TableInv)'
    BY <1>7, NobodyTyped DEF Fail, Goto, TypeOK, TableInv, Taken
  <1>8. CASE UNCHANGED vars
    BY <1>8 DEF vars, TypeOK, TableInv, Taken
  <1> QED
    BY <1>1, <1>2, <1>3, <1>4, <1>5, <1>6, <1>7, <1>8 DEF Next

\* The variables keep their types: a token is a key of the table.
THEOREM TypeCorrect == Spec => []TypeOK
  BY InitTyped, NextTyped, PTL DEF Spec
-----------------------------------------------------------------------------
(***************************************************************************)
(* Every step keeps the invariant                                          *)
(***************************************************************************)
PagingInv ==
  IdleInv /\ SteadyInv /\ AllowInv /\ ShownInv /\ PassedInv /\ ListComplete /\ ShownOnce

\* Nothing precedes the first key.
LEMMA NothingBeforeNoToken ==
  ASSUME TypeOK, NEW x \in Ids
  PROVE  After(x, NoToken)
  BY Columns DEF After, NoToken

\* A token only moves on: what is not after the old one is not after the new one.
LEMMA TokenMovesOn ==
  ASSUME TypeOK, NEW c \in Clients, NEW x \in Ids, NEW y \in Ids,
         After(y, token[c]), ~After(x, token[c])
  PROVE  ~After(x, <<created[y], y>>)
  <1>1. token[c][1] \in Nat /\ token[c][2] \in Nat
    <2>1. token[c] \in (0 .. MaxTime) \X (Ids \cup {0})
      BY DEF TypeOK
    <2>2. PICK a \in 0 .. MaxTime, b \in Ids \cup {0} : token[c] = <<a, b>>
      BY <2>1
    <2> QED
      BY <2>2, ListingAssumption
  <1> QED
    BY <1>1, Columns DEF After

LEMMA InitIInv == Init => IInv
  BY InitTyped DEF Init, IInv, IdleInv, SteadyInv, AllowInv, ShownInv, PassedInv, ListComplete,
     ShownOnce

\* Steps of the table: a row that was shown or was there all the time keeps its key.
LEMMA TableStep ==
  ASSUME TypeOK, PagingInv, UNCHANGED request,
         \A x \in Ids : phase[x] \in {"LIVE", "GONE"} => created'[x] = created[x]
                                                         /\ phase'[x] \in {"LIVE", "GONE"},
         \A c \in Clients : \A x \in steady'[c] : x \in steady[c] /\ Live(x)'
  PROVE  PagingInv'
  <1> USE DEF request, PagingInv
  <1>1. IdleInv' /\ SteadyInv' /\ AllowInv' /\ ListComplete' /\ ShownOnce'
    BY DEF IdleInv, SteadyInv, AllowInv, ListComplete, ShownOnce
  <1>2. ShownInv'
    BY DEF ShownInv, After
  <1>3. PassedInv'
    BY DEF PassedInv, SteadyInv, Live, After, TypeOK
  <1> QED
    BY <1>1, <1>2, <1>3

\* The page that ends a listing shows the rest of it, any other up to its token.
LEMMA SelectKeeps ==
  ASSUME TypeOK, TableInv, PagingInv, NEW c \in Clients, Select(c)
  PROVE  PagingInv'
  <1> USE DEF PagingInv
  <1>1. PICK page \in SUBSET Matching(c) :
           /\ \A x \in Ids : shown'[c][x] = IF x \in page THEN shown[c][x] + 1 ELSE shown[c][x]
           /\ shown' \in [Clients -> [Ids -> Nat]]
           /\ \/ pc'[c] = "done" /\ token' = token /\ page = Matching(c)
              \/ /\ pc'[c] = "ask"
                 /\ \E x \in page :
                      /\ token' = [token EXCEPT ![c] = <<created[x], x>>]
                      /\ \A y \in page \ {x} : Before(y, x)
                      /\ \A y \in Matching(c) : y \in page <=> y = x \/ Before(y, x)
    BY SelectPage
  <1>2. /\ pc[c] = "select" /\ UNCHANGED <<clock, phase, created, steady, allowed>>
        /\ \A b \in Clients \ {c} : /\ pc'[b] = pc[b] /\ dec'[b] = dec[b]
                                    /\ token'[b] = token[b] /\ shown'[b] = shown[b]
    BY DEF Select, Goto, table, TypeOK
  <1>3. \A x \in Matching(c) : x \in Ids /\ Live(x) /\ After(x, token[c])
    BY DEF Matching
  <1>4. \A x \in Ids : /\ shown[c][x] \in Nat /\ shown'[c][x] \in Nat /\ shown[c][x] <= shown'[c][x]
                       /\ x \in page => shown[c][x] = 0
                       /\ shown'[c][x] > 0 <=> x \in page \/ shown[c][x] > 0
    BY <1>1, <1>2, <1>3 DEF ShownInv, TypeOK
  <1>5. \A x \in steady[c] \cap allowed[c] : shown[c][x] > 0 \/ x \in Matching(c)
    <2> SUFFICES ASSUME NEW x \in steady[c] \cap allowed[c], ~(shown[c][x] > 0)
                 PROVE  x \in Matching(c)
      OBVIOUS
    <2>1. x \in Ids /\ Live(x)
      BY DEF SteadyInv, TypeOK
    <2>2. After(x, token[c])
      BY <1>2 DEF PassedInv
    <2>3. dec[c].bypass \/ x \in dec[c].ids
      BY <1>2 DEF AllowInv
    <2> QED
      BY <2>1, <2>2, <2>3 DEF Matching
  <1>6. ShownOnce'
    <2> SUFFICES ASSUME NEW b \in Clients, NEW x \in Ids PROVE shown'[b][x] <= 1
      BY DEF ShownOnce
    <2>1. CASE b = c
      BY <1>1, <1>4, <2>1 DEF ShownOnce
    <2>2. CASE b # c
      BY <1>2, <2>2 DEF ShownOnce
    <2> QED
      BY <2>1, <2>2
  <1>7. SteadyInv' /\ AllowInv' /\ IdleInv'
    BY <1>1, <1>2 DEF SteadyInv, AllowInv, IdleInv, Live
  <1>8. CASE pc'[c] = "done"
    <2>1. token' = token /\ page = Matching(c)
      BY <1>1, <1>8
    <2>2. ListComplete'
      BY <1>2, <1>4, <1>5, <1>8, <2>1 DEF ListComplete, TypeOK
    <2>3. PassedInv'
      BY <1>2, <1>8, <2>1 DEF PassedInv, After
    <2>4. ShownInv'
      BY <1>2, <1>3, <1>4, <1>8, <2>1 DEF ShownInv, After, Live
    <2> QED
      BY <1>6, <1>7, <2>2, <2>3, <2>4
  <1>9. CASE pc'[c] = "ask"
    <2>1. PICK z \in page : /\ token' = [token EXCEPT ![c] = <<created[z], z>>]
                            /\ \A y \in page \ {z} : Before(y, z)
                            /\ \A y \in Matching(c) : y \in page <=> y = z \/ Before(y, z)
      BY <1>1, <1>9
    <2>2. token'[c] = <<created[z], z>> /\ z \in Ids /\ After(z, token[c])
      BY <1>3, <2>1 DEF TypeOK
    <2>3. \A x \in Ids : x = z \/ Before(x, z) => ~After(x, token[c])'
      BY <1>2, <2>2, AfterKey, BeforeIsTotal DEF After
    <2>4. \A x \in Ids : ~After(x, token[c]) => ~After(x, token[c])'
      BY <1>2, <2>2, TokenMovesOn DEF After
    <2>5. ListComplete'
      BY <1>2, <1>9 DEF ListComplete
    <2>6. ShownInv'
      <3> SUFFICES ASSUME NEW x \in Ids, shown'[c][x] > 0
                   PROVE  phase[x] \in {"LIVE", "GONE"} /\ ~After(x, token[c])'
        BY <1>2 DEF ShownInv, After
      <3>1. CASE x \in page
        BY <1>3, <2>1, <2>3, <3>1 DEF Live
      <3>2. CASE shown[c][x] > 0
        BY <1>2, <2>4, <3>2 DEF ShownInv
      <3> QED
        BY <1>4, <3>1, <3>2
    <2>7. PassedInv'
      <3> SUFFICES ASSUME NEW x \in steady[c] \cap allowed[c]
                   PROVE  After(x, token[c])' \/ shown'[c][x] > 0
        BY <1>2 DEF PassedInv, After
      <3>1. x \in Ids
        BY DEF TypeOK
      <3>2. CASE shown[c][x] > 0
        BY <1>4, <3>1, <3>2
      <3>3. CASE x \in Matching(c) /\ x \notin page
        <4>1. Before(z, x)
          BY <2>1, <2>2, <3>1, <3>3, BeforeIsTotal
        <4> QED
          BY <1>2, <2>2, <3>1, <4>1, AfterKey DEF After
      <3>4. CASE x \in page
        BY <1>4, <3>1, <3>4
      <3> QED
        BY <1>5, <3>2, <3>3, <3>4
    <2> QED
      BY <1>6, <1>7, <2>5, <2>6, <2>7
  <1> QED
    BY <1>1, <1>8, <1>9
LEMMA NextIInv == IInv /\ [Next]_vars => IInv'
  <1> SUFFICES ASSUME TypeOK, TableInv, PagingInv, [Next]_vars PROVE PagingInv'
    BY NextTyped DEF IInv, PagingInv
  <1>1. CASE Tick
    BY <1>1, TableStep DEF Tick, Live, PagingInv, SteadyInv
  <1>2. ASSUME NEW x \in Ids, Mint(x) \/ Insert(x) PROVE PagingInv'
    BY <1>2, TableStep DEF Mint, Insert, Live, PagingInv, SteadyInv, TypeOK
  <1>3. ASSUME NEW x \in Ids, Delete(x) PROVE PagingInv'
    BY <1>3, TableStep DEF Delete, Live, PagingInv, SteadyInv, TypeOK
  <1>4. ASSUME NEW c \in Clients, Start(c) PROVE PagingInv'
    <2>1. /\ pc[c] = "idle" /\ pc'[c] = "ask" /\ UNCHANGED <<phase, created, dec, token, shown>>
          /\ steady'[c] = {x \in Ids : Live(x)}
          /\ \A b \in Clients \ {c} : /\ pc'[b] = pc[b] /\ steady'[b] = steady[b]
                                      /\ allowed'[b] = allowed[b]
      BY <1>4 DEF Start, Goto, table, TypeOK
    <2>2. token[c] = NoToken /\ \A x \in Ids : shown[c][x] = 0
      BY <2>1 DEF PagingInv, IdleInv
    <2>3. IdleInv' /\ SteadyInv' /\ AllowInv' /\ ListComplete' /\ ShownOnce'
      BY <2>1 DEF PagingInv, IdleInv, SteadyInv, AllowInv, ListComplete, ShownOnce, Live
    <2>4. ShownInv'
      BY <2>1, <2>2 DEF PagingInv, ShownInv, After
    <2>5. PassedInv'
      BY <2>1, <2>2, NothingBeforeNoToken DEF PagingInv, PassedInv, After
    <2> QED
      BY <2>3, <2>4, <2>5 DEF PagingInv
  <1>5. ASSUME NEW c \in Clients, NEW d \in Decision, Resolve(c, d) PROVE PagingInv'
    <2>1. /\ pc[c] = "ask" /\ UNCHANGED <<phase, created, token, shown, steady>>
          /\ dec'[c] = d /\ pc'[c] = IF d = Nobody THEN "done" ELSE "select"
          /\ allowed'[c] \subseteq allowed[c] /\ (d.bypass \/ allowed'[c] \subseteq d.ids)
          /\ \A b \in Clients \ {c} : /\ pc'[b] = pc[b] /\ dec'[b] = dec[b]
                                      /\ allowed'[b] = allowed[b]
      <3>1. allowed'[c] = IF d.bypass THEN allowed[c] ELSE allowed[c] \cap d.ids
        BY <1>5 DEF Resolve, TypeOK
      <3> QED
        BY <1>5, <3>1 DEF Resolve, Goto, table, TypeOK
    <2>2. IdleInv' /\ SteadyInv' /\ ShownOnce'
      BY <2>1 DEF PagingInv, IdleInv, SteadyInv, ShownOnce, Live
    <2>3. AllowInv'
      BY <2>1 DEF PagingInv, AllowInv
    <2>4. ShownInv'
      BY <2>1 DEF PagingInv, ShownInv, After
    <2>5. PassedInv'
      BY <2>1 DEF PagingInv, PassedInv, After
    <2>6. ListComplete'
      BY <2>1 DEF PagingInv, ListComplete, Nobody
    <2> QED
      BY <2>2, <2>3, <2>4, <2>5, <2>6 DEF PagingInv
  <1>6. ASSUME NEW c \in Clients, Select(c) PROVE PagingInv'
    BY <1>6, SelectKeeps
  <1>7. ASSUME NEW c \in Clients, Fail(c) PROVE PagingInv'
    <2>1. /\ UNCHANGED <<phase, created, token, shown, steady, allowed>>
          /\ pc[c] = "select" /\ pc'[c] = "ask"
          /\ \A b \in Clients \ {c} : pc'[b] = pc[b] /\ dec'[b] = dec[b]
      BY <1>7 DEF Fail, Goto, table, TypeOK
    <2> QED
      BY <2>1 DEF PagingInv, IdleInv, SteadyInv, AllowInv, ShownInv, PassedInv, ListComplete,
         ShownOnce, Live, After
  <1>8. CASE UNCHANGED vars
    BY <1>8, TableStep DEF vars, table, Live, PagingInv, SteadyInv
  <1> QED
    BY <1>1, <1>2, <1>3, <1>4, <1>5, <1>6, <1>7, <1>8 DEF Next

LEMMA Invariance == Spec => []IInv
  BY InitIInv, NextIInv, PTL DEF Spec

\* List: a client that has read all pages has got what was there, and what it was
\* allowed to see, all the time, whatever came and went between the pages.
THEOREM ListingsAreComplete == Spec => []ListComplete
  BY Invariance, PTL DEF IInv

\* ... and none of it twice.
THEOREM NothingIsShownTwice == Spec => []ShownOnce
  BY Invariance, PTL DEF IInv
=============================================================================
