---------------------------- MODULE OutboxProofs ----------------------------
(***************************************************************************)
(* Proofs about Outbox, for any number of transactions, objects, labels    *)
(* and subscribers, any batch size and any number of attempts.             *)
(***************************************************************************)
EXTENDS Outbox, TLAPS

-----------------------------------------------------------------------------
(***************************************************************************)
(* The inductive invariant                                                 *)
(***************************************************************************)
\* The types of the three groups of variables.
TxTypes ==
  /\ row       \in [Objects -> Row]
  /\ pc        \in [Txs -> {"idle", "begun", "written", "emitted", "committed", "aborted"}]
  /\ mut       \in [Txs -> Mutations \cup {NoMutation}]
  /\ start     \in [Txs -> Nat] /\ ended \in [Txs -> Nat] /\ clock \in Nat
  /\ seq       \in [Txs -> Nat] /\ nextSeq \in Nat
  /\ commits   \in Seq(Txs)

DrainTypes ==
  /\ sent      \subseteq Txs
  /\ attempts  \in [Txs -> 0 .. MaxAttempts]
  /\ mirror    \in [Objects -> Mirror]

WatchTypes ==
  /\ stream    \in [Watchers -> {"closed", "poll", "send", "wait"}]
  /\ batch     \in [Watchers -> SUBSET Txs]
  /\ full      \in [Watchers -> BOOLEAN]
  /\ cursor    \in [Watchers -> Nat]
  /\ delivered \in [Watchers -> Seq(Txs)]

\* A transaction that has begun has a mutation and a time of its own.
BeginInv ==
  \A t \in Txs : pc[t] # "idle" =>
    /\ mut[t] \in Mutations
    /\ 0 < start[t] /\ start[t] <= clock
    /\ \A s \in Txs \ {t} : pc[s] # "idle" => start[s] # start[t]

\* An event has a number of its own.
SeqInv ==
  /\ 0 < nextSeq
  /\ \A t \in Txs : pc[t] \in {"emitted", "committed"} =>
       /\ 0 < seq[t] /\ seq[t] < nextSeq
       /\ \A s \in Txs \ {t} : pc[s] \in {"emitted", "committed"} => seq[s] # seq[t]

\* Two transactions never hold the same row.
LockInv ==
  \A s, t \in Txs : (s # t /\ pc[s] \in {"written", "emitted"} /\ pc[t] \in {"written", "emitted"})
    => mut[s].obj # mut[t].obj

\* What is committed, and when.
CommitInv ==
  \A i \in 1 .. Len(commits) :
    /\ pc[commits[i]] = "committed"
    /\ start[commits[i]] <= ended[commits[i]] /\ ended[commits[i]] <= clock
    /\ \A j \in 1 .. Len(commits) : i < j => ended[commits[i]] <= ended[commits[j]]

\* The events of an object are numbered in the order of their commits, since a
\* transaction takes the number while it holds the row.
OrderInv ==
  \A i \in 1 .. Len(commits) :
    /\ \A t \in Txs : (pc[t] = "emitted" /\ mut[t].obj = mut[commits[i]].obj) => seq[commits[i]] < seq[t]
    /\ \A j \in 1 .. Len(commits) : (i < j /\ mut[commits[i]].obj = mut[commits[j]].obj)
         => seq[commits[i]] < seq[commits[j]]

TxInv == TxTypes /\ BeginInv /\ SeqInv /\ LockInv /\ CommitInv /\ OrderInv

\* The transaction that committed as number i has an intent for x.
IntentAt(i, x) == mut[commits[i]].obj = x /\ HasIntent(commits[i])

\* The row is as t left it.
RowIs(x, t) ==
  /\ row[x].phase = "LIVE" <=> mut[t].kind # "Delete"
  /\ mut[t].kind # "Delete" => row[x].labels = mut[t].labels

\* The row of x is as the last intent says, or has been registered from the start.
RowInv ==
  \A x \in Objects :
    \/ InStep(x) /\ \A i \in 1 .. Len(commits) : ~IntentAt(i, x)
    \/ \E i \in 1 .. Len(commits) :
         /\ IntentAt(i, x) /\ RowIs(x, commits[i])
         /\ \A j \in 1 .. Len(commits) : i < j => ~IntentAt(j, x)

\* The mirror is at least as new as every intent that is sent.
SentInv == \A t \in sent : t \in Intents /\ start[t] <= mirror[mut[t].obj].version

DrainInv == DrainTypes /\ MirrorIsCommitted /\ RowInv /\ SentInv

\* What a subscriber has received lies up to its cursor, and its batch past it.
StreamInv ==
  \A w \in Watchers :
    /\ batch[w] \subseteq Committed /\ \A t \in batch[w] : cursor[w] < seq[t]
    /\ \A i \in 1 .. Len(delivered[w]) :
         /\ delivered[w][i] \in Committed /\ seq[delivered[w][i]] <= cursor[w]
         /\ \A j \in 1 .. Len(delivered[w]) : i < j => seq[delivered[w][i]] < seq[delivered[w][j]]

WatchInv == WatchTypes /\ StreamInv

IInv == TxInv /\ DrainInv /\ WatchInv
-----------------------------------------------------------------------------
(***************************************************************************)
(* The statements of a transaction                                         *)
(***************************************************************************)
\* A mutation has a kind and an object; Inserts and Updates have labels.
LEMMA MutationFields ==
  ASSUME NEW m \in Mutations
  PROVE  /\ m.kind \in {"Insert", "Update", "Touch", "Delete"} /\ m.obj \in Objects
         /\ m.kind \in {"Insert", "Update"} => m.labels \in Labels
  BY DEF Mutations

\* The row that t leaves, one case after the other.
LEMMA RowAfterCases ==
  ASSUME NEW t \in Txs
  PROVE  /\ mut[t].kind = "Touch" => RowAfter(t) = row[mut[t].obj]
         /\ mut[t].kind = "Delete" => RowAfter(t) = [phase |-> "GONE", labels |-> row[mut[t].obj].labels]
         /\ mut[t].kind \notin {"Touch", "Delete"} =>
              RowAfter(t) = [phase |-> "LIVE", labels |-> mut[t].labels]
  BY DEF RowAfter

LEMMA RowAfterTyped ==
  ASSUME TxTypes, NEW t \in Txs, mut[t] \in Mutations
  PROVE  RowAfter(t) \in Row
  <1>1. PICK m \in Mutations : m = mut[t]
    OBVIOUS
  <1>2. /\ m.kind \in {"Insert", "Update", "Touch", "Delete"} /\ m.obj \in Objects
        /\ m.kind \in {"Insert", "Update"} => m.labels \in Labels
    BY MutationFields
  <1>3. row[m.obj] \in Row
    BY <1>2 DEF TxTypes
  <1> QED
    BY <1>1, <1>2, <1>3, RowAfterCases DEF Row

\* COMMIT appends to what is committed.
LEMMA AppendIs ==
  ASSUME NEW S, NEW c \in Seq(S), NEW t \in S
  PROVE  /\ Append(c, t) \in Seq(S) /\ Len(Append(c, t)) = Len(c) + 1 /\ Len(c) \in Nat
         /\ \A i \in 1 .. Len(c) : Append(c, t)[i] = c[i]
         /\ Append(c, t)[Len(c) + 1] = t
         /\ \A i \in 1 .. Len(c) : c[i] \in S
  OBVIOUS

\* Initially nothing has happened.
LEMMA InitTxInv == Init => TxInv
  <1> SUFFICES ASSUME Init PROVE TxInv
    OBVIOUS
  <1>1. AnyOf(Labels) \in Labels
    BY OutboxAssumption DEF AnyOf
  <1>2. TxTypes
    BY <1>1 DEF Init, TxTypes, Row
  <1>3. BeginInv /\ SeqInv /\ LockInv
    BY DEF Init, BeginInv, SeqInv, LockInv
  <1>4. Len(commits) = 0
    BY DEF Init
  <1>5. CommitInv /\ OrderInv
    BY <1>4 DEF CommitInv, OrderInv
  <1> QED
    BY <1>2, <1>3, <1>5 DEF TxInv

-----------------------------------------------------------------------------
(***************************************************************************)
(* Transactions keep their invariant                                       *)
(***************************************************************************)
\* Those that have committed have begun, and their attributes are typed.
LEMMA CommittedFacts ==
  ASSUME TxInv, NEW i \in 1 .. Len(commits)
  PROVE  /\ commits[i] \in Txs /\ pc[commits[i]] = "committed" /\ mut[commits[i]] \in Mutations
         /\ seq[commits[i]] \in Nat /\ start[commits[i]] \in Nat /\ ended[commits[i]] \in Nat
         /\ Len(commits) \in Nat /\ i \in Nat
  BY DEF TxInv, TxTypes, CommitInv, BeginInv

LEMMA BeginKeepsTxInv ==
  ASSUME TxInv, NEW t \in Txs, NEW m \in Mutations, Begin(t, m)
  PROVE  TxInv'
  <1> USE DEF Begin
  <1>1. TxTypes'
    BY DEF TxInv, TxTypes
  <1>2. \A s \in Txs : pc[s] # "idle" =>
          s # t /\ pc'[s] = pc[s] /\ mut'[s] = mut[s] /\ start'[s] = start[s]
    BY DEF TxInv, TxTypes
  <1>3. BeginInv'
    BY <1>2, OutboxAssumption DEF TxInv, TxTypes, BeginInv
  <1>4. \A s \in Txs : pc'[s] \in {"written", "emitted", "committed"} =>
          s # t /\ pc'[s] = pc[s] /\ mut'[s] = mut[s] /\ start'[s] = start[s]
    BY DEF TxInv, TxTypes
  <1>5. SeqInv' /\ LockInv'
    BY <1>4 DEF TxInv, SeqInv, LockInv
  <1>6. CommitInv'
    <2>1. clock \in Nat /\ clock' = clock + 1
      BY DEF TxInv, TxTypes
    <2>2. ASSUME NEW i \in 1 .. Len(commits)
          PROVE  /\ pc'[commits[i]] = "committed" /\ start'[commits[i]] = start[commits[i]]
                 /\ ended[commits[i]] \in Nat /\ ended[commits[i]] <= clock'
      BY <1>2, <2>1, CommittedFacts DEF TxInv, CommitInv
    <2> QED
      BY <2>2 DEF TxInv, CommitInv
  <1>7. OrderInv'
    BY <1>2, <1>4, CommittedFacts DEF TxInv, OrderInv
  <1> QED
    BY <1>1, <1>3, <1>5, <1>6, <1>7 DEF TxInv

LEMMA WriteKeepsTxInv ==
  ASSUME TxInv, NEW t \in Txs, Write(t)
  PROVE  TxInv'
  <1> USE DEF Write
  <1>1. TxTypes'
    BY DEF TxInv, TxTypes
  <1>2. BeginInv' /\ SeqInv'
    BY DEF TxInv, TxTypes, BeginInv, SeqInv
  <1>3. LockInv'
    BY DEF TxInv, TxTypes, LockInv, LockFree
  <1>4. CommitInv'
    BY CommittedFacts DEF TxInv, CommitInv, TxTypes
  <1>5. OrderInv'
    BY CommittedFacts DEF TxInv, OrderInv, TxTypes
  <1> QED
    BY <1>1, <1>2, <1>3, <1>4, <1>5 DEF TxInv

\* The number is greater than all that were taken, and nobody else holds the row.
LEMMA EmitKeepsTxInv ==
  ASSUME TxInv, NEW t \in Txs, EmitEvent(t)
  PROVE  TxInv'
  <1> USE DEF EmitEvent
  <1>1. TxTypes'
    BY DEF TxInv, TxTypes
  <1>2. BeginInv' /\ LockInv'
    BY DEF TxInv, TxTypes, BeginInv, LockInv
  <1>3. SeqInv'
    <2>1. nextSeq \in Nat /\ nextSeq' = nextSeq + 1 /\ seq'[t] = nextSeq
      BY DEF TxInv, TxTypes
    <2>2. \A s \in Txs \ {t} : seq'[s] = seq[s] /\ pc'[s] = pc[s] /\ seq[s] \in Nat
      BY DEF TxInv, TxTypes
    <2> QED
      BY <2>1, <2>2 DEF TxInv, SeqInv
  <1>4. CommitInv'
    BY CommittedFacts DEF TxInv, CommitInv, TxTypes
  <1>5. \A i \in 1 .. Len(commits) :
          commits[i] # t /\ seq'[commits[i]] = seq[commits[i]] /\ seq[commits[i]] < nextSeq
    BY CommittedFacts DEF TxInv, TxTypes, SeqInv
  <1>6. OrderInv'
    BY <1>5, CommittedFacts DEF TxInv, OrderInv, TxTypes
  <1> QED
    BY <1>1, <1>2, <1>3, <1>4, <1>6 DEF TxInv

\* COMMIT comes last, with the number taken under the lock.
LEMMA CommitKeepsTxInv ==
  ASSUME TxInv, NEW t \in Txs, Commit(t)
  PROVE  TxInv'
  <1> USE DEF Commit
  <1>1. mut[t] \in Mutations /\ mut[t].obj \in Objects /\ RowAfter(t) \in Row
    BY RowAfterTyped, MutationFields DEF TxInv, BeginInv
  <1>2. /\ Len(commits) \in Nat /\ Len(commits') = Len(commits) + 1
        /\ commits' \in Seq(Txs) /\ commits'[Len(commits) + 1] = t
    BY AppendIs DEF TxInv, TxTypes
  <1>3. ASSUME NEW i \in 1 .. Len(commits)
        PROVE  /\ commits'[i] = commits[i] /\ commits[i] # t /\ commits[i] \in Txs
               /\ ended'[commits[i]] = ended[commits[i]] /\ pc'[commits[i]] = "committed"
               /\ start[commits[i]] <= ended[commits[i]] /\ ended[commits[i]] <= clock
               /\ ended[commits[i]] \in Nat
    BY AppendIs, CommittedFacts DEF TxInv, TxTypes, CommitInv
  <1>4. /\ pc'[t] = "committed" /\ ended'[t] = clock /\ clock \in Nat /\ start[t] <= clock
    BY DEF TxInv, TxTypes, BeginInv
  <1>5. \A i \in 1 .. Len(commits') : i \in 1 .. Len(commits) \/ i = Len(commits) + 1
    BY <1>2
  <1>6. TxTypes'
    BY <1>1, <1>2 DEF TxInv, TxTypes
  <1>7. BeginInv' /\ SeqInv' /\ LockInv'
    BY DEF TxInv, TxTypes, BeginInv, SeqInv, LockInv
  <1>8. CommitInv'
    <2>1. ASSUME NEW i \in 1 .. Len(commits')
          PROVE  /\ pc'[commits'[i]] = "committed"
                 /\ start[commits'[i]] <= ended'[commits'[i]] /\ ended'[commits'[i]] <= clock
      BY <1>2, <1>3, <1>4, <1>5
    <2>2. ASSUME NEW i \in 1 .. Len(commits'), NEW j \in 1 .. Len(commits'), i < j
          PROVE  ended'[commits'[i]] <= ended'[commits'[j]]
      <3>1. i \in 1 .. Len(commits)
        BY <1>2, <2>2
      <3>2. CASE j \in 1 .. Len(commits)
        BY <1>3, <2>2, <3>1, <3>2 DEF TxInv, CommitInv
      <3>3. CASE j = Len(commits) + 1
        BY <1>2, <1>3, <1>4, <3>1, <3>3
      <3> QED
        BY <1>5, <3>2, <3>3
    <2> QED
      BY <2>1, <2>2 DEF CommitInv
  <1>9. OrderInv'
    <2>1. ASSUME NEW i \in 1 .. Len(commits'), NEW u \in Txs, pc'[u] = "emitted",
                 mut[u].obj = mut[commits'[i]].obj
          PROVE  seq[commits'[i]] < seq[u]
      <3>1. u # t /\ pc[u] = "emitted"
        BY <2>1 DEF TxInv, TxTypes
      <3>2. i # Len(commits) + 1
        BY <1>2, <2>1, <3>1 DEF TxInv, LockInv
      <3> QED
        BY <1>3, <1>5, <2>1, <3>1, <3>2 DEF TxInv, OrderInv
    <2>2. ASSUME NEW i \in 1 .. Len(commits'), NEW j \in 1 .. Len(commits'), i < j,
                 mut[commits'[i]].obj = mut[commits'[j]].obj
          PROVE  seq[commits'[i]] < seq[commits'[j]]
      <3>1. i \in 1 .. Len(commits)
        BY <1>2, <2>2
      <3>2. CASE j \in 1 .. Len(commits)
        BY <1>3, <2>2, <3>1, <3>2 DEF TxInv, OrderInv
      <3>3. CASE j = Len(commits) + 1
        BY <1>2, <1>3, <2>2, <3>1, <3>3 DEF TxInv, OrderInv
      <3> QED
        BY <1>5, <3>2, <3>3
    <2> QED
      BY <2>1, <2>2 DEF OrderInv
  <1> QED
    BY <1>6, <1>7, <1>8, <1>9 DEF TxInv

LEMMA RollbackKeepsTxInv ==
  ASSUME TxInv, NEW t \in Txs, Rollback(t)
  PROVE  TxInv'
  <1> USE DEF Rollback
  <1>1. TxTypes'
    BY DEF TxInv, TxTypes
  <1>2. BeginInv' /\ SeqInv' /\ LockInv'
    BY DEF TxInv, TxTypes, BeginInv, SeqInv, LockInv
  <1>3. CommitInv'
    BY CommittedFacts DEF TxInv, CommitInv, TxTypes
  <1>4. OrderInv'
    BY CommittedFacts DEF TxInv, OrderInv, TxTypes
  <1> QED
    BY <1>1, <1>2, <1>3, <1>4 DEF TxInv

\* A step is one of a transaction, or leaves them all alone.
TxSteps == \E t \in Txs : TxStep(t)

LEMMA StepKinds ==
  ASSUME [Next]_vars
  PROVE  \/ TxSteps /\ UNCHANGED <<drainVars, watchVars>>
         \/ UNCHANGED txVars
  BY DEF Next, vars, TxSteps, TxStep, Begin, Write, EmitEvent, Commit, Rollback, Drain, Deliver, Retry, Poison,
     RedrivePoisoned, WatchStep, Open, Poll, Send, Wake, Close, Quiescent

LEMMA NextTxInv ==
  ASSUME TxInv, [Next]_vars
  PROVE  TxInv'
  <1>1. CASE TxSteps
    BY <1>1, BeginKeepsTxInv, WriteKeepsTxInv, EmitKeepsTxInv, CommitKeepsTxInv, RollbackKeepsTxInv
       DEF TxSteps, TxStep
  <1>2. CASE UNCHANGED txVars
    BY <1>2 DEF txVars, TxInv, TxTypes, BeginInv, SeqInv, LockInv, CommitInv, OrderInv
  <1> QED
    BY <1>1, <1>2, StepKinds

-----------------------------------------------------------------------------
(***************************************************************************)
(* What is committed stays                                                 *)
(***************************************************************************)
LEMMA CommitsStay ==
  ASSUME TxInv, [Next]_vars
  PROVE  /\ Len(commits) \in Nat /\ Len(commits') \in Nat /\ Len(commits) <= Len(commits')
         /\ \A i \in 1 .. Len(commits) :
              /\ commits'[i] = commits[i] /\ mut'[commits[i]] = mut[commits[i]]
              /\ start'[commits[i]] = start[commits[i]] /\ seq'[commits[i]] = seq[commits[i]]
         /\ (\E t \in Txs : Commit(t)) \/ UNCHANGED <<commits, row>>
  <1>1. Len(commits) \in Nat /\ Len(commits') \in Nat
    BY NextTxInv DEF TxInv, TxTypes
  <1>2. ASSUME NEW t \in Txs, Commit(t)
        PROVE  /\ Len(commits) <= Len(commits')
               /\ \A i \in 1 .. Len(commits) :
                    /\ commits'[i] = commits[i] /\ mut'[commits[i]] = mut[commits[i]]
                    /\ start'[commits[i]] = start[commits[i]] /\ seq'[commits[i]] = seq[commits[i]]
    <2>1. /\ Len(commits') = Len(commits) + 1
          /\ \A i \in 1 .. Len(commits) : commits'[i] = commits[i]
      BY <1>2, AppendIs DEF Commit, TxInv, TxTypes
    <2> QED
      BY <1>1, <1>2, <2>1 DEF Commit
  <1>3. ASSUME NEW t \in Txs, NEW i \in 1 .. Len(commits),
               Write(t) \/ EmitEvent(t) \/ Rollback(t) \/ \E m \in Mutations : Begin(t, m)
        PROVE  /\ UNCHANGED <<commits, row>> /\ mut'[commits[i]] = mut[commits[i]]
               /\ start'[commits[i]] = start[commits[i]] /\ seq'[commits[i]] = seq[commits[i]]
    <2>1. commits[i] # t
      BY <1>3, CommittedFacts DEF Begin, Write, EmitEvent, Rollback
    <2> QED
      BY <1>3, <2>1 DEF Begin, Write, EmitEvent, Rollback, TxInv, TxTypes
  <1>4. ASSUME NEW t \in Txs, Write(t) \/ EmitEvent(t) \/ Rollback(t) \/ \E m \in Mutations : Begin(t, m)
        PROVE  UNCHANGED <<commits, row>>
    BY <1>4 DEF Begin, Write, EmitEvent, Rollback
  <1>5. CASE TxSteps
    <2>1. PICK t \in Txs : TxStep(t)
      BY <1>5 DEF TxSteps
    <2>2. CASE Commit(t)
      BY <1>1, <1>2, <2>2
    <2>3. CASE ~Commit(t)
      <3>1. Write(t) \/ EmitEvent(t) \/ Rollback(t) \/ \E m \in Mutations : Begin(t, m)
        BY <2>1, <2>3 DEF TxStep
      <3> QED
        BY <1>1, <1>3, <1>4, <3>1
    <2> QED
      BY <2>2, <2>3
  <1>6. CASE UNCHANGED txVars
    BY <1>1, <1>6 DEF txVars
  <1> QED
    BY <1>5, <1>6, StepKinds

\* The same of the sets that the readers use.
LEMMA CommittedStay ==
  ASSUME TxInv, [Next]_vars
  PROVE  /\ \A t \in Committed : /\ t \in Committed' /\ mut'[t] = mut[t] /\ start'[t] = start[t]
                                 /\ seq'[t] = seq[t]
         /\ \A t \in Intents : t \in Intents'
  <1>1. \A t \in Committed : /\ t \in Committed' /\ mut'[t] = mut[t] /\ start'[t] = start[t]
                             /\ seq'[t] = seq[t]
    <2> SUFFICES ASSUME NEW t \in Committed
                 PROVE  t \in Committed' /\ mut'[t] = mut[t] /\ start'[t] = start[t] /\ seq'[t] = seq[t]
      OBVIOUS
    <2>1. PICK i \in 1 .. Len(commits) : t = commits[i]
      BY DEF Committed
    <2>2. i \in 1 .. Len(commits') /\ commits'[i] = t
      BY <2>1, CommitsStay
    <2> QED
      BY <2>1, <2>2, CommitsStay DEF Committed
  <1> QED
    BY <1>1 DEF Intents, HasIntent

\* A committed transaction is one, and has begun.
LEMMA CommittedIs ==
  ASSUME TxInv, NEW t \in Committed
  PROVE  /\ t \in Txs /\ pc[t] = "committed" /\ mut[t] \in Mutations /\ mut[t].obj \in Objects
         /\ start[t] \in Nat /\ 0 < start[t] /\ seq[t] \in Nat
  <1>1. PICK i \in 1 .. Len(commits) : t = commits[i]
    BY DEF Committed
  <1>2. t \in Txs /\ pc[t] = "committed" /\ mut[t] \in Mutations
    BY <1>1, CommittedFacts
  <1> QED
    BY <1>2, MutationFields DEF TxInv, TxTypes, BeginInv

-----------------------------------------------------------------------------
(***************************************************************************)
(* The drainer and the mirror                                              *)
(***************************************************************************)
\* What kacho-iam makes of an intent.
LEMMA IAMApplyIs ==
  ASSUME TxInv, DrainTypes, NEW t \in Intents, IAMApply(t)
  PROVE  /\ mirror' \in [Objects -> Mirror]
         /\ \A y \in Objects \ {mut[t].obj} : mirror'[y] = mirror[y]
         /\ mirror[mut[t].obj].version <= mirror'[mut[t].obj].version
         /\ start[t] <= mirror'[mut[t].obj].version
         /\ \/ mirror'[mut[t].obj] = mirror[mut[t].obj]
            \/ /\ mirror'[mut[t].obj].version = start[t]
               /\ mirror'[mut[t].obj].live = (mut[t].kind # "Delete")
               /\ mut[t].kind # "Delete" => mirror'[mut[t].obj].labels = mut[t].labels
  <1>1. PICK x \in Objects : x = mut[t].obj
    BY CommittedIs DEF Intents
  <1>2. PICK m \in Mutations : m = mut[t]
    BY CommittedIs DEF Intents
  <1> DEFINE new == [version |-> start[t], live |-> m.kind # "Delete",
                     labels |-> IF m.kind = "Delete" THEN mirror[x].labels ELSE m.labels]
  <1>3. /\ start[t] \in Nat /\ mirror[x] \in Mirror
        /\ mirror' = IF start[t] = 0 \/ start[t] >= mirror[x].version
                     THEN [mirror EXCEPT ![x] = new] ELSE mirror
    BY <1>1, <1>2, CommittedIs DEF IAMApply, SourceVersion, Intents, DrainTypes
  <1>4. 0 < start[t] /\ mirror[x].version \in Nat
    BY <1>3, CommittedIs DEF Mirror, Intents
  <1>5. new \in Mirror
    <2>1. m.kind # "Delete" => m.labels \in Labels
      BY <1>2, MutationFields DEF Intents, HasIntent
    <2> QED
      BY <1>3, <2>1 DEF Mirror
  <1>6. /\ new.version = start[t] /\ new.live = (m.kind # "Delete")
        /\ m.kind # "Delete" => new.labels = m.labels
    OBVIOUS
  <1> HIDE DEF new
  <1>7. CASE start[t] >= mirror[x].version
    <2>1. mirror' = [mirror EXCEPT ![x] = new]
      BY <1>3, <1>7
    <2>2. mirror' \in [Objects -> Mirror] /\ mirror'[x] = new /\ \A y \in Objects \ {x} : mirror'[y] = mirror[y]
      BY <1>5, <2>1 DEF DrainTypes
    <2> QED
      BY <1>1, <1>2, <1>3, <1>4, <1>6, <1>7, <2>2
  <1>8. CASE ~(start[t] >= mirror[x].version)
    <2>1. mirror' = mirror
      BY <1>3, <1>4, <1>8
    <2> QED
      BY <1>1, <1>3, <1>4, <1>8, <2>1 DEF DrainTypes
  <1> QED
    BY <1>7, <1>8

LEMMA InitDrainInv == Init => DrainInv
  <1> SUFFICES ASSUME Init PROVE DrainInv
    OBVIOUS
  <1>1. AnyOf(Labels) \in Labels
    BY OutboxAssumption DEF AnyOf
  <1>2. DrainTypes
    <2>1. \A x \in Objects : (row[x].phase = "LIVE") \in BOOLEAN
      OBVIOUS
    <2> QED
      BY <1>1, <2>1, OutboxAssumption DEF Init, DrainTypes, Mirror
  <1>3. MirrorIsCommitted /\ SentInv
    BY DEF Init, MirrorIsCommitted, SentInv
  <1>4. RowInv
    <2>1. \A x \in Objects : InStep(x)
      BY DEF Init, InStep
    <2>2. Len(commits) = 0
      BY DEF Init
    <2> QED
      BY <2>1, <2>2 DEF RowInv
  <1> QED
    BY <1>2, <1>3, <1>4 DEF DrainInv

\* Without a call of kacho-iam, the mirror stays one of committed states.
LEMMA QuietKeepsMirror ==
  ASSUME TxInv, DrainInv, [Next]_vars, UNCHANGED <<mirror, sent>>
  PROVE  MirrorIsCommitted' /\ SentInv'
  <1>1. \A t \in Intents : t \in Intents' /\ mut'[t] = mut[t] /\ start'[t] = start[t]
    BY CommittedStay DEF Intents
  <1>2. MirrorIsCommitted'
    <2> SUFFICES ASSUME NEW x \in Objects, mirror[x].version # 0
                 PROVE  \E t \in Intents' :
                          /\ mut'[t].obj = x /\ start'[t] = mirror[x].version
                          /\ mirror[x].live = (mut'[t].kind # "Delete")
                          /\ mirror[x].live => mirror[x].labels = mut'[t].labels
      BY DEF MirrorIsCommitted
    <2>1. PICK t \in Intents : /\ mut[t].obj = x /\ start[t] = mirror[x].version
                               /\ mirror[x].live = (mut[t].kind # "Delete")
                               /\ mirror[x].live => mirror[x].labels = mut[t].labels
      BY DEF DrainInv, MirrorIsCommitted
    <2>2. t \in Intents' /\ mut'[t] = mut[t] /\ start'[t] = start[t]
      BY <1>1
    <2> QED
      BY <2>1, <2>2
  <1>3. SentInv'
    BY <1>1 DEF DrainInv, SentInv
  <1> QED
    BY <1>2, <1>3

\* A COMMIT that comes with an intent leaves the row as the intent says, another leaves it alone.
LEMMA CommitKeepsRowInv ==
  ASSUME TxInv, DrainInv, NEW t \in Txs, Commit(t)
  PROVE  RowInv'
  <1> USE DEF Commit
  <1>1. PICK m \in Mutations : m = mut[t]
    BY DEF TxInv, BeginInv
  <1>2. PICK z \in Objects : z = m.obj
    BY MutationFields
  <1>n. PICK n : n = Len(commits) + 1
    OBVIOUS
  <1>3. /\ Len(commits) \in Nat /\ n = Len(commits) + 1 /\ Len(commits') = n /\ commits'[n] = t
        /\ \A i \in 1 .. Len(commits) : commits'[i] = commits[i]
    BY <1>n, AppendIs DEF TxInv, TxTypes
  <1>4. /\ \A i \in 1 .. Len(commits), x \in Objects : IntentAt(i, x)' <=> IntentAt(i, x)
        /\ \A x \in Objects : IntentAt(n, x)' <=> (x = z /\ m.kind # "Touch")
    <2>1. ASSUME NEW i \in 1 .. Len(commits), NEW x \in Objects
          PROVE  IntentAt(i, x)' <=> IntentAt(i, x)
      BY <1>3 DEF IntentAt, HasIntent
    <2>2. ASSUME NEW x \in Objects
          PROVE  IntentAt(n, x)' <=> (x = z /\ m.kind # "Touch")
      BY <1>1, <1>2, <1>3 DEF IntentAt, HasIntent
    <2> QED
      BY <2>1, <2>2
  <1>5. \A x \in Objects \ {z} : row'[x] = row[x]
    BY <1>1, <1>2 DEF TxInv, TxTypes
  <1>6. row'[z] = RowAfter(t)
    BY <1>1, <1>2 DEF TxInv, TxTypes
  <1>7. ASSUME NEW x \in Objects, x # z \/ m.kind = "Touch"
        PROVE  row'[x] = row[x] /\ ~IntentAt(n, x)'
    BY <1>1, <1>2, <1>4, <1>5, <1>6, <1>7, RowAfterCases
  <1>8. ASSUME m.kind # "Touch"
        PROVE  /\ (row'[z].phase = "LIVE") <=> m.kind # "Delete"
               /\ m.kind # "Delete" => row'[z].labels = m.labels
    BY <1>1, <1>6, <1>8, RowAfterCases
  <1>9. ASSUME NEW x \in Objects, x # z \/ m.kind = "Touch"
        PROVE  \/ InStep(x)' /\ \A i \in 1 .. Len(commits') : ~IntentAt(i, x)'
               \/ \E i \in 1 .. Len(commits') :
                    /\ IntentAt(i, x)' /\ RowIs(x, commits[i])'
                    /\ \A j \in 1 .. Len(commits') : i < j => ~IntentAt(j, x)'
    <2>1. row'[x] = row[x] /\ ~IntentAt(n, x)'
      BY <1>7, <1>9
    <2>2. CASE InStep(x) /\ \A i \in 1 .. Len(commits) : ~IntentAt(i, x)
      <3>1. InStep(x)'
        BY <2>1, <2>2 DEF InStep, drainVars
      <3>2. ASSUME NEW i \in 1 .. Len(commits')
            PROVE  ~IntentAt(i, x)'
        BY <1>3, <1>4, <2>1, <2>2, <3>2
      <3> QED
        BY <3>1, <3>2
    <2>3. CASE \E i \in 1 .. Len(commits) :
                 /\ IntentAt(i, x) /\ RowIs(x, commits[i])
                 /\ \A j \in 1 .. Len(commits) : i < j => ~IntentAt(j, x)
      <3>1. PICK i \in 1 .. Len(commits) :
                 /\ IntentAt(i, x) /\ RowIs(x, commits[i])
                 /\ \A j \in 1 .. Len(commits) : i < j => ~IntentAt(j, x)
        BY <2>3
      <3>2. i \in 1 .. Len(commits') /\ IntentAt(i, x)'
        BY <1>3, <1>4, <3>1
      <3>3. RowIs(x, commits[i])'
        BY <1>3, <2>1, <3>1 DEF RowIs
      <3>4. ASSUME NEW j \in 1 .. Len(commits'), i < j
            PROVE  ~IntentAt(j, x)'
        BY <1>3, <1>4, <2>1, <3>1, <3>4
      <3> QED
        BY <3>2, <3>3, <3>4
    <2> QED
      BY <2>2, <2>3 DEF DrainInv, RowInv
  <1>10. ASSUME m.kind # "Touch"
         PROVE  \E i \in 1 .. Len(commits') :
                  /\ IntentAt(i, z)' /\ RowIs(z, commits[i])'
                  /\ \A j \in 1 .. Len(commits') : i < j => ~IntentAt(j, z)'
    <2>1. n \in 1 .. Len(commits') /\ IntentAt(n, z)' /\ \A j \in 1 .. Len(commits') : ~(n < j)
      BY <1>3, <1>4, <1>10
    <2>2. RowIs(z, commits[n])'
      BY <1>1, <1>3, <1>8, <1>10 DEF RowIs
    <2> QED
      BY <2>1, <2>2
  <1> QED
    BY <1>9, <1>10 DEF RowInv

\* Transactions leave sent, attempts and mirror alone.
LEMMA TxStepsKeepDrainInv ==
  ASSUME TxInv, DrainInv, TxSteps, UNCHANGED <<drainVars, watchVars>>, [Next]_vars
  PROVE  DrainInv'
  <1>1. DrainTypes' /\ UNCHANGED <<mirror, sent>>
    BY DEF DrainInv, DrainTypes, drainVars
  <1>2. MirrorIsCommitted' /\ SentInv'
    BY <1>1, QuietKeepsMirror
  <1>3. RowInv'
    <2>1. ASSUME UNCHANGED <<commits, row>>
          PROVE  RowInv'
      <3>1. \A i \in 1 .. Len(commits) : mut'[commits[i]] = mut[commits[i]]
        BY CommitsStay
      <3>2. ASSUME NEW i \in 1 .. Len(commits), NEW x \in Objects
            PROVE  (IntentAt(i, x)' <=> IntentAt(i, x)) /\ (RowIs(x, commits[i])' <=> RowIs(x, commits[i]))
        BY <2>1, <3>1 DEF IntentAt, HasIntent, RowIs
      <3>3. \A x \in Objects : InStep(x)' <=> InStep(x)
        BY <1>1, <2>1 DEF InStep
      <3> QED
        BY <2>1, <3>2, <3>3 DEF RowInv, DrainInv
    <2> QED
      BY <2>1, CommitsStay, CommitKeepsRowInv
  <1> QED
    BY <1>1, <1>2, <1>3 DEF DrainInv

\* A call of kacho-iam for t, whatever becomes of its answer.
LEMMA ApplyKeepsDrainInv ==
  ASSUME TxInv, DrainInv, NEW t \in Intents, IAMApply(t), UNCHANGED txVars,
         sent' \in {sent, sent \cup {t}}, attempts' \in [Txs -> 0 .. MaxAttempts]
  PROVE  DrainInv'
  <1> USE DEF txVars
  <1>1. PICK z \in Objects : z = mut[t].obj
    BY CommittedIs DEF Intents
  <1>2. t \in Txs /\ start[t] \in Nat
    BY CommittedIs DEF Intents
  <1>3. /\ mirror' \in [Objects -> Mirror]
        /\ \A y \in Objects \ {z} : mirror'[y] = mirror[y]
        /\ mirror[z].version <= mirror'[z].version /\ start[t] <= mirror'[z].version
        /\ \/ mirror'[z] = mirror[z]
           \/ /\ mirror'[z].version = start[t] /\ mirror'[z].live = (mut[t].kind # "Delete")
              /\ mut[t].kind # "Delete" => mirror'[z].labels = mut[t].labels
    BY <1>1, IAMApplyIs DEF DrainInv
  <1>4. DrainTypes'
    BY <1>2, <1>3 DEF DrainInv, DrainTypes
  <1>5. Intents' = Intents /\ Committed' = Committed
    BY DEF Intents, Committed, HasIntent
  <1>6. MirrorIsCommitted'
    <2>1. ASSUME NEW x \in Objects, mirror'[x].version # 0
          PROVE  \E u \in Intents :
                   /\ mut[u].obj = x /\ start[u] = mirror'[x].version
                   /\ mirror'[x].live = (mut[u].kind # "Delete")
                   /\ mirror'[x].live => mirror'[x].labels = mut[u].labels
      <3>1. CASE mirror'[x] = mirror[x]
        BY <2>1, <3>1 DEF DrainInv, MirrorIsCommitted
      <3>2. CASE mirror'[x] # mirror[x]
        <4>1. x = z
          BY <1>3, <3>2
        <4> QED
          BY <1>1, <1>3, <3>2, <4>1
      <3> QED
        BY <3>1, <3>2
    <2> QED
      BY <1>5, <2>1 DEF MirrorIsCommitted
  <1>7. RowInv'
    <2>1. \A i \in 1 .. Len(commits), x \in Objects :
            (IntentAt(i, x)' <=> IntentAt(i, x)) /\ (RowIs(x, commits[i])' <=> RowIs(x, commits[i]))
      BY DEF IntentAt, HasIntent, RowIs
    <2>2. PICK k \in 1 .. Len(commits) : IntentAt(k, z)
      BY <1>1 DEF Intents, Committed, IntentAt
    <2>3. \A x \in Objects \ {z} : InStep(x)' <=> InStep(x)
      BY <1>3 DEF InStep
    <2> QED
      BY <2>1, <2>2, <2>3 DEF RowInv, DrainInv
  <1>8. SentInv'
    <2>1. ASSUME NEW u \in sent'
          PROVE  u \in Intents /\ start[u] <= mirror'[mut[u].obj].version
      <3>1. CASE u = t
        BY <1>1, <1>3, <3>1
      <3>2. CASE u # t
        <4>1. u \in sent /\ u \in Intents /\ start[u] <= mirror[mut[u].obj].version
          BY <3>2 DEF DrainInv, SentInv
        <4>2. mut[u].obj \in Objects /\ start[u] \in Nat
          BY <4>1, CommittedIs DEF Intents
        <4>3. mirror[z].version \in Nat /\ mirror'[z].version \in Nat
          BY <1>3 DEF DrainInv, DrainTypes, Mirror
        <4> QED
          BY <1>3, <4>1, <4>2, <4>3
      <3> QED
        BY <3>1, <3>2
    <2> QED
      BY <1>5, <2>1 DEF SentInv
  <1> QED
    BY <1>4, <1>6, <1>7, <1>8 DEF DrainInv

\* Without transactions and calls nothing changes but the counts of attempts.
LEMMA IdleKeepsDrainInv ==
  ASSUME TxInv, DrainInv, UNCHANGED <<txVars, sent, mirror>>, attempts' \in [Txs -> 0 .. MaxAttempts], [Next]_vars
  PROVE  DrainInv'
  <1>1. DrainTypes'
    BY DEF DrainInv, DrainTypes
  <1>2. MirrorIsCommitted' /\ SentInv'
    BY QuietKeepsMirror
  <1>3. RowInv'
    BY DEF DrainInv, RowInv, txVars, IntentAt, HasIntent, RowIs, InStep
  <1> QED
    BY <1>1, <1>2, <1>3 DEF DrainInv

LEMMA NextDrainInv ==
  ASSUME TxInv, DrainInv, [Next]_vars
  PROVE  DrainInv'
  <1>1. CASE TxSteps /\ UNCHANGED <<drainVars, watchVars>>
    BY <1>1, TxStepsKeepDrainInv
  <1>2. ASSUME NEW t \in Txs, Deliver(t) PROVE DrainInv'
    BY <1>2, ApplyKeepsDrainInv DEF Deliver, Claimable, DrainInv, DrainTypes
  <1>3. ASSUME NEW t \in Txs, Retry(t) PROVE DrainInv'
    <2>1. attempts' \in [Txs -> 0 .. MaxAttempts]
      BY <1>3, OutboxAssumption DEF Retry, Claimable, DrainInv, DrainTypes
    <2>2. t \in Intents /\ UNCHANGED <<txVars, sent>> /\ (IAMApply(t) \/ UNCHANGED mirror)
      BY <1>3 DEF Retry, Claimable
    <2> QED
      BY <2>1, <2>2, ApplyKeepsDrainInv, IdleKeepsDrainInv
  <1>4. ASSUME NEW t \in Txs, Poison(t) PROVE DrainInv'
    <2>1. attempts' \in [Txs -> 0 .. MaxAttempts]
      BY <1>4, OutboxAssumption DEF Poison, DrainInv, DrainTypes
    <2> QED
      BY <1>4, <2>1, IdleKeepsDrainInv DEF Poison
  <1>5. CASE RedrivePoisoned
    <2>1. attempts' \in [Txs -> 0 .. MaxAttempts]
      BY <1>5, OutboxAssumption DEF RedrivePoisoned, DrainInv, DrainTypes
    <2> QED
      BY <1>5, <2>1, IdleKeepsDrainInv DEF RedrivePoisoned
  <1>6. CASE UNCHANGED <<txVars, drainVars>>
    BY <1>6, IdleKeepsDrainInv DEF drainVars, DrainInv, DrainTypes
  <1>7. \/ TxSteps /\ UNCHANGED <<drainVars, watchVars>>
        \/ \E t \in Txs : Deliver(t) \/ Retry(t) \/ Poison(t)
        \/ RedrivePoisoned
        \/ UNCHANGED <<txVars, drainVars>>
    BY DEF Next, vars, TxSteps, TxStep, Begin, Write, EmitEvent, Commit, Rollback, Drain, WatchStep, Open, Poll,
       Send, Wake, Close, Quiescent
  <1> QED
    BY <1>1, <1>2, <1>3, <1>4, <1>5, <1>6, <1>7

-----------------------------------------------------------------------------
(***************************************************************************)
(* Watch streams                                                           *)
(***************************************************************************)
\* What the streams' steps leave alone.
Quiet == UNCHANGED <<txVars, drainVars>>

LEMMA QuietKeepsSets ==
  ASSUME Quiet
  PROVE  Committed' = Committed /\ seq' = seq /\ mut' = mut
  BY DEF Quiet, txVars, Committed

LEMMA InitWatchInv == Init => WatchInv
  <1> SUFFICES ASSUME Init PROVE WatchInv
    OBVIOUS
  <1>1. WatchTypes
    BY DEF Init, WatchTypes
  <1>2. \A w \in Watchers : batch[w] = {} /\ Len(delivered[w]) = 0
    BY DEF Init
  <1>3. StreamInv
    BY <1>2 DEF StreamInv
  <1> QED
    BY <1>1, <1>3 DEF WatchInv

\* What other transactions commit does not disturb what was selected and sent.
LEMMA OthersKeepWatchInv ==
  ASSUME TxInv, WatchInv, [Next]_vars, UNCHANGED watchVars
  PROVE  WatchInv'
  <1>1. WatchTypes'
    BY DEF WatchInv, WatchTypes, watchVars
  <1>2. \A t \in Committed : t \in Committed' /\ seq'[t] = seq[t]
    BY CommittedStay
  <1>3. ASSUME NEW w \in Watchers
        PROVE  /\ batch[w] \subseteq Committed' /\ \A t \in batch[w] : cursor[w] < seq'[t]
               /\ \A i \in 1 .. Len(delivered[w]) :
                    /\ delivered[w][i] \in Committed' /\ seq'[delivered[w][i]] <= cursor[w]
                    /\ \A j \in 1 .. Len(delivered[w]) : i < j => seq'[delivered[w][i]] < seq'[delivered[w][j]]
    BY <1>2 DEF WatchInv, StreamInv
  <1>4. StreamInv'
    BY <1>3 DEF StreamInv, watchVars
  <1> QED
    BY <1>1, <1>4 DEF WatchInv

LEMMA PollKeepsWatchInv ==
  ASSUME WatchInv, TxInv, NEW w \in Watchers, Poll(w)
  PROVE  WatchInv'
  <1>1. Committed' = Committed /\ seq' = seq
    BY QuietKeepsSets DEF Poll, Quiet
  <1>2. PICK B \in SUBSET Newer(w) :
          /\ batch'  = [batch EXCEPT ![w] = B]
          /\ full'   = [full EXCEPT ![w] = Cardinality(B) = BatchSize]
          /\ stream' = [stream EXCEPT ![w] = IF B = {} THEN AfterBatch(FALSE) ELSE "send"]
    BY DEF Poll
  <1>3. /\ B \subseteq Committed /\ B \subseteq Txs /\ \A t \in B : cursor[w] < seq[t]
    <2>1. ASSUME NEW t \in B
          PROVE  t \in Committed /\ t \in Txs /\ cursor[w] < seq[t]
      <3>1. t \in Committed /\ seq[t] > cursor[w]
        BY DEF Newer
      <3>2. t \in Txs /\ seq[t] \in Nat /\ cursor[w] \in Nat
        BY <3>1, CommittedIs DEF WatchInv, WatchTypes
      <3> QED
        BY <3>1, <3>2
    <2> QED
      BY <2>1
  <1>4. (Cardinality(B) = BatchSize) \in BOOLEAN
    OBVIOUS
  <1>5. WatchTypes'
    BY <1>2, <1>3, <1>4 DEF WatchInv, WatchTypes, AfterBatch, Poll
  <1>6. StreamInv'
    BY <1>1, <1>2, <1>3 DEF WatchInv, WatchTypes, StreamInv, Poll
  <1> QED
    BY <1>5, <1>6 DEF WatchInv

\* The event with the least number is sent, and the cursor moves up to it.
LEMMA SendKeepsWatchInv ==
  ASSUME WatchInv, TxInv, NEW w \in Watchers, Send(w)
  PROVE  WatchInv'
  <1>1. Committed' = Committed /\ seq' = seq
    BY QuietKeepsSets DEF Send, Quiet
  <1>2. PICK t \in batch[w] :
          /\ \A s \in batch[w] : seq[t] <= seq[s]
          /\ batch'     = [batch EXCEPT ![w] = @ \ {t}]
          /\ cursor'    = [cursor EXCEPT ![w] = seq[t]]
          /\ delivered' = [delivered EXCEPT ![w] = Append(@, t)]
    BY DEF Send
  <1>3. /\ t \in Committed /\ t \in Txs /\ seq[t] \in Nat /\ cursor[w] \in Nat /\ cursor[w] < seq[t]
        /\ delivered[w] \in Seq(Txs)
    BY CommittedIs DEF WatchInv, WatchTypes, StreamInv
  <1>4. /\ delivered'[w] \in Seq(Txs) /\ Len(delivered[w]) \in Nat
        /\ Len(delivered'[w]) = Len(delivered[w]) + 1 /\ delivered'[w][Len(delivered[w]) + 1] = t
        /\ \A i \in 1 .. Len(delivered[w]) : delivered'[w][i] = delivered[w][i]
    <2>1. delivered'[w] = Append(delivered[w], t)
      BY <1>2 DEF WatchInv, WatchTypes
    <2> QED
      BY <1>3, <2>1, AppendIs
  <1>5. WatchTypes'
    <2>1. batch' \in [Watchers -> SUBSET Txs] /\ cursor' \in [Watchers -> Nat]
      BY <1>2, <1>3 DEF WatchInv, WatchTypes
    <2>2. delivered' \in [Watchers -> Seq(Txs)]
      BY <1>2, <1>3, <1>4 DEF WatchInv, WatchTypes
    <2>3. full' \in [Watchers -> BOOLEAN] /\ stream' \in [Watchers -> {"closed", "poll", "send", "wait"}]
      BY DEF WatchInv, WatchTypes, Send, AfterBatch
    <2> QED
      BY <2>1, <2>2, <2>3 DEF WatchTypes
  <1>6. /\ batch'[w] \subseteq Committed /\ \A s \in batch'[w] : cursor'[w] < seq[s]
    <2>1. ASSUME NEW s \in batch[w] \ {t}
          PROVE  s \in Committed /\ seq[t] < seq[s]
      <3>1. s \in Committed
        BY DEF WatchInv, StreamInv
      <3>2. seq[s] # seq[t] /\ seq[s] \in Nat
        BY <1>3, <3>1, CommittedIs DEF TxInv, SeqInv
      <3> QED
        BY <1>2, <1>3, <3>1, <3>2
    <2>2. batch'[w] = batch[w] \ {t} /\ cursor'[w] = seq[t]
      BY <1>2 DEF WatchInv, WatchTypes
    <2> QED
      BY <2>1, <2>2
  <1>7. \A i \in 1 .. Len(delivered'[w]) :
          /\ delivered'[w][i] \in Committed /\ seq[delivered'[w][i]] <= cursor'[w]
          /\ \A j \in 1 .. Len(delivered'[w]) : i < j => seq[delivered'[w][i]] < seq[delivered'[w][j]]
    <2>1. cursor'[w] = seq[t]
      BY <1>2 DEF WatchInv, WatchTypes
    <2>2. ASSUME NEW i \in 1 .. Len(delivered[w])
          PROVE  /\ delivered[w][i] \in Committed /\ seq[delivered[w][i]] < seq[t]
                 /\ seq[delivered[w][i]] \in Nat
      BY <1>3, CommittedIs DEF WatchInv, StreamInv
    <2>3. \A i \in 1 .. Len(delivered'[w]) : i \in 1 .. Len(delivered[w]) \/ i = Len(delivered[w]) + 1
      BY <1>4
    <2>4. ASSUME NEW i \in 1 .. Len(delivered'[w])
          PROVE  delivered'[w][i] \in Committed /\ seq[delivered'[w][i]] <= cursor'[w]
      <3>1. CASE i \in 1 .. Len(delivered[w])
        BY <1>3, <1>4, <2>1, <2>2, <3>1
      <3>2. CASE i = Len(delivered[w]) + 1
        BY <1>3, <1>4, <2>1, <3>2
      <3> QED
        BY <2>3, <3>1, <3>2
    <2>5. ASSUME NEW i \in 1 .. Len(delivered'[w]), NEW j \in 1 .. Len(delivered'[w]), i < j
          PROVE  seq[delivered'[w][i]] < seq[delivered'[w][j]]
      <3>1. i \in 1 .. Len(delivered[w])
        BY <1>4, <2>5
      <3>2. CASE j \in 1 .. Len(delivered[w])
        BY <1>4, <2>5, <3>1, <3>2 DEF WatchInv, StreamInv
      <3>3. CASE j = Len(delivered[w]) + 1
        BY <1>4, <2>2, <3>1, <3>3
      <3> QED
        BY <2>3, <3>2, <3>3
    <2> QED
      BY <2>4, <2>5
  <1>8. \A v \in Watchers \ {w} :
          batch'[v] = batch[v] /\ cursor'[v] = cursor[v] /\ delivered'[v] = delivered[v]
    BY <1>2 DEF WatchInv, WatchTypes
  <1>9. StreamInv'
    BY <1>1, <1>6, <1>7, <1>8 DEF WatchInv, StreamInv
  <1> QED
    BY <1>5, <1>9 DEF WatchInv

\* Opening, waking and closing: at most the batch is dropped.
LEMMA DropKeepsWatchInv ==
  ASSUME WatchInv, NEW w \in Watchers, Open(w) \/ Wake(w) \/ Close(w)
  PROVE  WatchInv'
  <1>1. Committed' = Committed /\ seq' = seq
    BY QuietKeepsSets DEF Open, Wake, Close, Quiet
  <1>2. WatchTypes'
    BY DEF WatchInv, WatchTypes, Open, Wake, Close
  <1>3. /\ \A v \in Watchers : batch'[v] \subseteq batch[v]
        /\ cursor' = cursor /\ delivered' = delivered
    BY DEF WatchInv, WatchTypes, Open, Wake, Close
  <1>4. StreamInv'
    BY <1>1, <1>3 DEF WatchInv, StreamInv
  <1> QED
    BY <1>2, <1>4 DEF WatchInv

LEMMA NextWatchInv ==
  ASSUME TxInv, WatchInv, [Next]_vars
  PROVE  WatchInv'
  <1>1. CASE UNCHANGED watchVars
    BY <1>1, OthersKeepWatchInv
  <1>2. ASSUME NEW w \in Watchers, WatchStep(w) PROVE WatchInv'
    BY <1>2, PollKeepsWatchInv, SendKeepsWatchInv, DropKeepsWatchInv DEF WatchStep
  <1>3. UNCHANGED watchVars \/ \E w \in Watchers : WatchStep(w)
    BY DEF Next, vars, TxStep, Begin, Write, EmitEvent, Commit, Rollback, Drain, Deliver, Retry, Poison,
       RedrivePoisoned, Quiescent
  <1> QED
    BY <1>1, <1>2, <1>3

LEMMA InitIInv == Init => IInv
  BY InitTxInv, InitDrainInv, InitWatchInv DEF IInv

LEMMA NextIInv == IInv /\ [Next]_vars => IInv'
  BY NextTxInv, NextDrainInv, NextWatchInv DEF IInv

LEMMA Invariance == Spec => []IInv
  BY InitIInv, NextIInv, PTL DEF Spec

-----------------------------------------------------------------------------
(***************************************************************************)
(* Theorems                                                                *)
(***************************************************************************)
LEMMA IInvTypeOK == IInv => TypeOK
  BY DEF IInv, TxInv, DrainInv, WatchInv, TxTypes, DrainTypes, WatchTypes, TypeOK

\* The transactions with their two outboxes (emitCompute, emitFGARegisterIntent), the
\* drainer and the streams: every variable has its type.
THEOREM TypeCorrect == Spec => []TypeOK
  BY Invariance, IInvTypeOK, PTL

\* A rolled back writer announces nothing: emitFGARegisterIntent writes in the
\* transaction of the row, so kacho-iam holds only what some transaction committed.
THEOREM MirrorHoldsCommitted == Spec => []MirrorIsCommitted
  BY Invariance, PTL DEF IInv, DrainInv

\* A committed transaction has a place among the commits, and Index is one.
LEMMA IndexIs ==
  ASSUME NEW t \in Committed
  PROVE  Index(t) \in 1 .. Len(commits) /\ commits[Index(t)] = t
  <1>1. \E i \in 1 .. Len(commits) : commits[i] = t
    BY DEF Committed
  <1> QED
    BY <1>1 DEF Index

LEMMA IInvWatchFollowsCommits == IInv => WatchFollowsCommits
  <1> SUFFICES ASSUME IInv, NEW w \in Watchers, NEW i \in 1 .. Len(delivered[w]),
                      NEW j \in 1 .. Len(delivered[w]), i < j,
                      mut[delivered[w][i]].obj = mut[delivered[w][j]].obj
               PROVE  Index(delivered[w][i]) < Index(delivered[w][j])
    BY DEF WatchFollowsCommits
  <1>1. PICK s, t : s = delivered[w][i] /\ t = delivered[w][j]
    OBVIOUS
  <1>2. s \in Committed /\ t \in Committed /\ seq[s] < seq[t] /\ mut[s].obj = mut[t].obj
    BY <1>1 DEF IInv, WatchInv, StreamInv
  <1>3. PICK a \in 1 .. Len(commits), b \in 1 .. Len(commits) :
          a = Index(s) /\ b = Index(t) /\ commits[a] = s /\ commits[b] = t
    BY <1>2, IndexIs
  <1>4. seq[s] \in Nat /\ seq[t] \in Nat /\ Len(commits) \in Nat
    BY <1>2, CommittedIs DEF IInv, TxInv, TxTypes
  <1>5. a # b
    BY <1>2, <1>3, <1>4
  <1>6. ~(b < a)
    <2> SUFFICES ASSUME b < a PROVE FALSE
      OBVIOUS
    <2>1. seq[t] < seq[s]
      BY <1>2, <1>3 DEF IInv, TxInv, OrderInv
    <2> QED
      BY <1>2, <1>4, <2>1
  <1> QED
    BY <1>1, <1>3, <1>4, <1>5, <1>6

\* InternalWatchService and its clients, across batches and reconnects: the events of an
\* object come in the order in which its changes were committed, since the writers of a row
\* take their numbers one after the other.
THEOREM StreamsFollowCommits == Spec => []WatchFollowsCommits
  BY Invariance, IInvWatchFollowsCommits, PTL

\* Of two intents for an object whose intents came one after the other, the one that
\* committed first began first.
LEMMA SequentialOrder ==
  ASSUME TxInv, NEW x \in Objects, Sequential(x), NEW i \in 1 .. Len(commits), NEW j \in 1 .. Len(commits),
         IntentAt(i, x), IntentAt(j, x), i < j, commits[i] # commits[j]
  PROVE  start[commits[i]] < start[commits[j]]
  <1>1. PICK s, t : s = commits[i] /\ t = commits[j]
    OBVIOUS
  <1>2. s \in Intents /\ t \in Intents /\ mut[s].obj = x /\ mut[t].obj = x
    BY <1>1 DEF IntentAt, Intents, Committed
  <1>3. ended[s] < start[t] \/ ended[t] < start[s]
    BY <1>1, <1>2 DEF Sequential
  <1>4. /\ start[s] \in Nat /\ ended[s] \in Nat /\ start[t] \in Nat /\ ended[t] \in Nat
        /\ start[s] <= ended[s] /\ ended[s] <= ended[t]
    BY <1>1, CommittedFacts DEF TxInv, CommitInv
  <1> QED
    BY <1>1, <1>3, <1>4

LEMMA IInvSequentialMirror == IInv => SequentialMirror
  <1> SUFFICES ASSUME IInv, NEW x \in Objects, Sequential(x), Delivered(x)
               PROVE  InStep(x)
    BY DEF SequentialMirror
  <1>1. CASE InStep(x)
    BY <1>1
  <1>2. CASE \E k \in 1 .. Len(commits) :
               /\ IntentAt(k, x) /\ RowIs(x, commits[k])
               /\ \A j \in 1 .. Len(commits) : k < j => ~IntentAt(j, x)
    <2>1. PICK k \in 1 .. Len(commits) :
               /\ IntentAt(k, x) /\ RowIs(x, commits[k])
               /\ \A j \in 1 .. Len(commits) : k < j => ~IntentAt(j, x)
      BY <1>2
    <2>2. PICK last : last = commits[k]
      OBVIOUS
    <2>3. last \in Intents /\ mut[last].obj = x
      BY <2>1, <2>2 DEF IntentAt, Intents, Committed
    <2>4. start[last] <= mirror[x].version /\ start[last] \in Nat /\ 0 < start[last]
      BY <2>3, CommittedIs DEF Delivered, IInv, DrainInv, SentInv, Intents
    <2>5. mirror[x].version \in Nat
      BY DEF IInv, DrainInv, DrainTypes, Mirror
    <2>6. PICK u \in Intents : /\ mut[u].obj = x /\ start[u] = mirror[x].version
                               /\ mirror[x].live = (mut[u].kind # "Delete")
                               /\ mirror[x].live => mirror[x].labels = mut[u].labels
      BY <2>4, <2>5 DEF IInv, DrainInv, MirrorIsCommitted
    <2>7. u = last
      <3> SUFFICES ASSUME u # last PROVE FALSE
        OBVIOUS
      <3>1. PICK i \in 1 .. Len(commits) : u = commits[i]
        BY DEF Intents, Committed
      <3>2. IntentAt(i, x)
        BY <2>6, <3>1 DEF IntentAt, Intents
      <3>3. i < k
        BY <2>1, <2>2, <3>1, <3>2, CommittedFacts DEF IInv
      <3>4. start[u] < start[last]
        BY <2>1, <2>2, <3>1, <3>2, <3>3, SequentialOrder DEF IInv
      <3> QED
        BY <2>4, <2>5, <2>6, <3>4
    <2> QED
      BY <2>1, <2>2, <2>6, <2>7 DEF RowIs, InStep
  <1> QED
    BY <1>1, <1>2 DEF IInv, DrainInv, RowInv

\* Retries, duplicates and replicas of the register-drainer: once the intents of an object
\* are sent, kacho-iam shows it as it is, if its intents came one after the other.
THEOREM SequentialMirrorsAreRight == Spec => []SequentialMirror
  BY Invariance, IInvSequentialMirror, PTL

-----------------------------------------------------------------------------
(***************************************************************************)
(* What a subscriber misses                                                *)
(***************************************************************************)
Received(w, t) == \E i \in 1 .. Len(delivered[w]) : delivered[w][i] = t

\* streamSince loses an event only if its transaction took its number before, and committed
\* after, the transaction of an event that the subscriber has received: where the two did
\* not overlap, nothing is left behind the cursor.
OnlyOvertakenAreMissed ==
  \A w \in Watchers : \A t \in Committed :
    (mut[t].obj \in Interest[w] /\ seq[t] <= cursor[w] /\ ~Received(w, t)) =>
      \E s \in Committed : Received(w, s) /\ seq[t] < seq[s] /\ Index(s) < Index(t)

\* What is past the cursor and not selected is newer than what is, or was committed later.
AheadInv ==
  \A w \in Watchers : \A s \in batch[w] : \A t \in Newer(w) \ batch[w] :
    seq[s] < seq[t] \/ Index(s) < Index(t)

\* The cursor is the number of an event that was received.
CursorInv ==
  \A w \in Watchers :
    cursor[w] = 0 \/ \E i \in 1 .. Len(delivered[w]) : seq[delivered[w][i]] = cursor[w]

MissInv == OnlyOvertakenAreMissed /\ AheadInv /\ CursorInv

\* A transaction commits once: its place among the commits is its own, and stays.
LEMMA IndexUnique ==
  ASSUME TxInv, NEW i \in 1 .. Len(commits)
  PROVE  Index(commits[i]) = i
  <1>1. PICK t : t = commits[i]
    OBVIOUS
  <1>2. t \in Committed
    BY <1>1 DEF Committed
  <1>3. PICK k \in 1 .. Len(commits) : k = Index(t) /\ commits[k] = t
    BY <1>2, IndexIs
  <1>4. seq[t] \in Nat /\ i \in Nat /\ k \in Nat
    BY <1>1, CommittedFacts
  <1>5. ~(i < k) /\ ~(k < i)
    BY <1>1, <1>3, <1>4 DEF TxInv, OrderInv
  <1> QED
    BY <1>1, <1>3, <1>4, <1>5

\* A place found in the sequence after a step is the place.
LEMMA IndexUniqueNext ==
  ASSUME TxInv', NEW i \in 1 .. Len(commits')
  PROVE  \A k \in 1 .. Len(commits') : commits'[k] = commits'[i] => k = i
  <1> SUFFICES ASSUME NEW k \in 1 .. Len(commits'), commits'[k] = commits'[i]
               PROVE  k = i
    OBVIOUS
  <1>1. commits'[i] \in Txs /\ seq'[commits'[i]] \in Nat /\ i \in Nat /\ k \in Nat
    BY DEF TxInv, TxTypes
  <1>2. ~(i < k) /\ ~(k < i)
    BY <1>1 DEF TxInv, OrderInv
  <1> QED
    BY <1>1, <1>2

LEMMA IndexStays ==
  ASSUME TxInv, [Next]_vars, NEW t \in Committed
  PROVE  Index(t)' = Index(t)
  <1>1. PICK k \in 1 .. Len(commits) : k = Index(t) /\ commits[k] = t
    BY IndexIs
  <1>2. k \in 1 .. Len(commits') /\ commits'[k] = t
    BY <1>1, CommitsStay
  <1>3. \A i \in 1 .. Len(commits') : commits'[i] = t => i = k
    BY <1>2, NextTxInv, IndexUniqueNext
  <1>4. Index(t)' = CHOOSE i \in 1 .. Len(commits') : commits'[i] = t
    BY DEF Index
  <1> QED
    BY <1>1, <1>2, <1>3, <1>4

\* A transaction that commits now comes after all that have, with the number it took before.
LEMMA NewlyCommitted ==
  ASSUME TxInv, [Next]_vars, NEW t \in Committed', t \notin Committed
  PROVE  /\ t \in Txs /\ pc[t] = "emitted" /\ seq'[t] = seq[t] /\ mut'[t] = mut[t]
         /\ \A s \in Committed : Index(s)' < Index(t)'
         /\ UNCHANGED watchVars
  <1>1. PICK u \in Txs : Commit(u)
    BY CommitsStay DEF Committed
  <1>2. PICK i \in 1 .. Len(commits') : commits'[i] = t
    BY DEF Committed
  <1>3. /\ Len(commits) \in Nat /\ Len(commits') = Len(commits) + 1 /\ commits'[Len(commits) + 1] = u
        /\ \A k \in 1 .. Len(commits) : commits'[k] = commits[k]
    BY <1>1, AppendIs DEF Commit, TxInv, TxTypes
  <1>4. i = Len(commits) + 1 /\ u = t
    BY <1>2, <1>3 DEF Committed
  <1>5. \A k \in 1 .. Len(commits') : commits'[k] = t => k = i
    BY <1>2, NextTxInv, IndexUniqueNext
  <1>6. Index(t)' = CHOOSE k \in 1 .. Len(commits') : commits'[k] = t
    BY DEF Index
  <1>7. Index(t)' = i
    BY <1>2, <1>5, <1>6
  <1>8. ASSUME NEW s \in Committed
        PROVE  Index(s)' < Index(t)'
    <2>1. Index(s)' = Index(s) /\ Index(s) \in 1 .. Len(commits)
      BY IndexStays, IndexIs
    <2> QED
      BY <1>3, <1>4, <1>7, <2>1
  <1> QED
    BY <1>1, <1>4, <1>8 DEF Commit

LEMMA InitMissInv == Init => MissInv
  <1> SUFFICES ASSUME Init PROVE MissInv
    OBVIOUS
  <1>1. Committed = {} /\ \A w \in Watchers : batch[w] = {} /\ cursor[w] = 0
    BY DEF Init, Committed
  <1> QED
    BY <1>1 DEF MissInv, OnlyOvertakenAreMissed, AheadInv, CursorInv

\* Without a step of a stream, only a COMMIT can leave an event behind a cursor, and the
\* event at the cursor has overtaken it.
LEMMA OthersKeepMissInv ==
  ASSUME IInv, MissInv, [Next]_vars, UNCHANGED watchVars
  PROVE  MissInv'
  <1> USE DEF IInv, watchVars
  <1>1. \A t \in Committed : /\ t \in Committed' /\ mut'[t] = mut[t] /\ seq'[t] = seq[t]
                             /\ Index(t)' = Index(t)
    BY CommittedStay, IndexStays
  <1>2. \A w, t : Received(w, t)' <=> Received(w, t)
    BY DEF Received
  <1>3. \A w \in Watchers : \A i \in 1 .. Len(delivered[w]) : delivered[w][i] \in Committed
    BY DEF WatchInv, StreamInv
  <1>4. CursorInv'
    BY <1>1, <1>3 DEF MissInv, CursorInv
  <1>5. AheadInv'
    <2> SUFFICES ASSUME NEW w \in Watchers, NEW s \in batch[w], NEW t \in Newer(w)', t \notin batch[w]
                 PROVE  seq'[s] < seq'[t] \/ Index(s)' < Index(t)'
      BY DEF AheadInv
    <2>1. s \in Committed
      BY DEF WatchInv, StreamInv
    <2>2. CASE t \in Committed
      <3>1. t \in Newer(w)
        BY <1>1, <2>2 DEF Newer
      <3> QED
        BY <1>1, <2>1, <2>2, <3>1 DEF MissInv, AheadInv
    <2>3. CASE t \notin Committed
      BY <2>1, <2>3, NewlyCommitted DEF Newer
    <2> QED
      BY <2>2, <2>3
  <1>6. OnlyOvertakenAreMissed'
    <2> SUFFICES ASSUME NEW w \in Watchers, NEW t \in Committed',
                        mut'[t].obj \in Interest[w], seq'[t] <= cursor[w], ~Received(w, t)
                 PROVE  \E s \in Committed' : Received(w, s) /\ seq'[t] < seq'[s] /\ Index(s)' < Index(t)'
      BY <1>2 DEF OnlyOvertakenAreMissed
    <2>1. CASE t \in Committed
      <3>1. PICK s \in Committed : Received(w, s) /\ seq[t] < seq[s] /\ Index(s) < Index(t)
        BY <1>1, <2>1 DEF MissInv, OnlyOvertakenAreMissed
      <3> QED
        BY <1>1, <2>1, <3>1
    <2>2. CASE t \notin Committed
      <3>1. /\ t \in Txs /\ pc[t] = "emitted" /\ seq'[t] = seq[t] /\ seq[t] \in Nat /\ 0 < seq[t]
            /\ \A s \in Committed : Index(s)' < Index(t)'
        BY <2>2, NewlyCommitted DEF TxInv, TxTypes, SeqInv
      <3>2. cursor[w] \in Nat /\ cursor[w] # 0
        BY <3>1 DEF WatchInv, WatchTypes
      <3>3. PICK s \in Committed : Received(w, s) /\ seq[s] = cursor[w]
        BY <1>3, <3>2 DEF MissInv, CursorInv, Received
      <3>4. seq[s] # seq[t]
        BY <2>2, <3>1, <3>3, CommittedIs DEF TxInv, SeqInv
      <3>5. seq'[t] < seq'[s]
        BY <1>1, <3>1, <3>2, <3>3, <3>4
      <3> QED
        BY <1>1, <3>1, <3>3, <3>5
    <2> QED
      BY <2>1, <2>2
  <1> QED
    BY <1>4, <1>5, <1>6 DEF MissInv

\* What the streams' steps leave alone, and the places among the commits.
LEMMA QuietKeepsIndexes ==
  ASSUME Quiet
  PROVE  /\ Committed' = Committed /\ seq' = seq /\ mut' = mut
         /\ \A t : Index(t)' = Index(t)
  BY QuietKeepsSets DEF Quiet, txVars, Index

\* A SELECT takes the events with the least numbers of those past the cursor.
LEMMA PollKeepsMissInv ==
  ASSUME IInv, MissInv, NEW w \in Watchers, Poll(w)
  PROVE  MissInv'
  <1>1. /\ Committed' = Committed /\ seq' = seq /\ mut' = mut /\ \A t : Index(t)' = Index(t)
    BY QuietKeepsIndexes DEF Poll, Quiet
  <1>2. cursor' = cursor /\ delivered' = delivered
    BY DEF Poll
  <1>3. PICK B \in SUBSET Newer(w) : FirstRows(B, Newer(w)) /\ batch' = [batch EXCEPT ![w] = B]
    BY DEF Poll
  <1>4. batch'[w] = B /\ \A v \in Watchers \ {w} : batch'[v] = batch[v]
    BY <1>3 DEF IInv, WatchInv, WatchTypes
  <1>5. \A v \in Watchers : Newer(v)' = Newer(v)
    BY <1>1, <1>2 DEF Newer
  <1>6. AheadInv'
    <2> SUFFICES ASSUME NEW v \in Watchers, NEW s \in batch'[v], NEW t \in Newer(v) \ batch'[v]
                 PROVE  seq[s] < seq[t] \/ Index(s) < Index(t)
      BY <1>1, <1>5 DEF AheadInv
    <2>1. CASE v = w
      BY <1>3, <1>4, <2>1 DEF FirstRows
    <2>2. CASE v # w
      BY <1>4, <2>2 DEF MissInv, AheadInv
    <2> QED
      BY <2>1, <2>2
  <1>7. CursorInv' /\ OnlyOvertakenAreMissed'
    BY <1>1, <1>2 DEF MissInv, CursorInv, OnlyOvertakenAreMissed, Received
  <1> QED
    BY <1>6, <1>7 DEF MissInv

\* What the cursor passes without being in the batch was committed after the event that is sent.
LEMMA SendKeepsMissInv ==
  ASSUME IInv, MissInv, NEW w \in Watchers, Send(w)
  PROVE  MissInv'
  <1> USE DEF IInv
  <1>1. /\ Committed' = Committed /\ seq' = seq /\ mut' = mut /\ \A t : Index(t)' = Index(t)
    BY QuietKeepsIndexes DEF Send, Quiet
  <1>2. PICK t \in batch[w] :
          /\ \A s \in batch[w] : seq[t] <= seq[s]
          /\ batch'     = [batch EXCEPT ![w] = @ \ {t}]
          /\ cursor'    = [cursor EXCEPT ![w] = seq[t]]
          /\ delivered' = [delivered EXCEPT ![w] = Append(@, t)]
    BY DEF Send
  <1>3. /\ t \in Committed /\ t \in Txs /\ seq[t] \in Nat /\ cursor[w] \in Nat /\ cursor[w] < seq[t]
        /\ delivered[w] \in Seq(Txs)
    BY <1>2, CommittedIs DEF WatchInv, WatchTypes, StreamInv
  <1>4. /\ batch'[w] = batch[w] \ {t} /\ cursor'[w] = seq[t] /\ delivered'[w] = Append(delivered[w], t)
        /\ \A v \in Watchers \ {w} :
             batch'[v] = batch[v] /\ cursor'[v] = cursor[v] /\ delivered'[v] = delivered[v]
    BY <1>2 DEF WatchInv, WatchTypes
  <1>5. /\ Len(delivered[w]) \in Nat /\ Len(delivered'[w]) = Len(delivered[w]) + 1
        /\ delivered'[w][Len(delivered[w]) + 1] = t
        /\ \A i \in 1 .. Len(delivered[w]) : delivered'[w][i] = delivered[w][i]
    BY <1>3, <1>4, AppendIs
  <1>6. Received(w, t)' /\ \A s : Received(w, s) => Received(w, s)'
    BY <1>5 DEF Received
  <1>7. \A v \in Watchers \ {w} : Newer(v)' = Newer(v) /\ \A s : Received(v, s)' <=> Received(v, s)
    BY <1>1, <1>4 DEF Newer, Received
  <1>8. \A u \in Committed : u \in Txs /\ seq[u] \in Nat /\ (u # t => seq[u] # seq[t])
    BY <1>3, CommittedIs DEF TxInv, SeqInv
  <1>9. CursorInv'
    BY <1>1, <1>4, <1>5 DEF MissInv, CursorInv
  <1>10. AheadInv'
    <2> SUFFICES ASSUME NEW v \in Watchers, NEW s \in batch'[v], NEW u \in Newer(v)', u \notin batch'[v]
                 PROVE  seq[s] < seq[u] \/ Index(s) < Index(u)
      BY <1>1 DEF AheadInv
    <2>1. CASE v = w
      <3>1. u \in Newer(w) /\ u # t
        BY <1>1, <1>3, <1>4, <1>8, <2>1 DEF Newer
      <3> QED
        BY <1>4, <2>1, <3>1 DEF MissInv, AheadInv
    <2>2. CASE v # w
      BY <1>4, <1>7, <2>2 DEF MissInv, AheadInv
    <2> QED
      BY <2>1, <2>2
  <1>11. OnlyOvertakenAreMissed'
    <2> SUFFICES ASSUME NEW v \in Watchers, NEW u \in Committed,
                        mut[u].obj \in Interest[v], seq[u] <= cursor'[v], ~Received(v, u)'
                 PROVE  \E s \in Committed : Received(v, s)' /\ seq[u] < seq[s] /\ Index(s) < Index(u)
      BY <1>1 DEF OnlyOvertakenAreMissed
    <2>1. CASE v = w /\ seq[u] <= cursor[w]
      <3>1. ~Received(w, u)
        BY <1>6, <2>1
      <3>2. PICK s \in Committed : Received(w, s) /\ seq[u] < seq[s] /\ Index(s) < Index(u)
        BY <2>1, <3>1 DEF MissInv, OnlyOvertakenAreMissed
      <3> QED
        BY <1>6, <2>1, <3>2
    <2>2. CASE v = w /\ ~(seq[u] <= cursor[w])
      <3>1. u # t /\ seq[u] < seq[t] /\ u \in Newer(w)
        BY <1>3, <1>4, <1>6, <1>8, <2>2 DEF Newer
      <3>2. u \notin batch[w]
        BY <1>2, <1>3, <1>8, <3>1
      <3>3. Index(t) < Index(u)
        BY <1>3, <1>8, <3>1, <3>2 DEF MissInv, AheadInv
      <3> QED
        BY <1>3, <1>6, <2>2, <3>1, <3>3
    <2>3. CASE v # w
      <3>1. PICK s \in Committed : Received(v, s) /\ seq[u] < seq[s] /\ Index(s) < Index(u)
        BY <1>4, <1>7, <2>3 DEF MissInv, OnlyOvertakenAreMissed
      <3> QED
        BY <1>7, <2>3, <3>1
    <2> QED
      BY <2>1, <2>2, <2>3
  <1> QED
    BY <1>9, <1>10, <1>11 DEF MissInv

LEMMA DropKeepsMissInv ==
  ASSUME IInv, MissInv, NEW w \in Watchers, Open(w) \/ Wake(w) \/ Close(w)
  PROVE  MissInv'
  <1>1. /\ Committed' = Committed /\ seq' = seq /\ mut' = mut /\ \A t : Index(t)' = Index(t)
    BY QuietKeepsIndexes DEF Open, Wake, Close, Quiet
  <1>2. /\ \A v \in Watchers : batch'[v] = batch[v] \/ batch'[v] = {}
        /\ cursor' = cursor /\ delivered' = delivered
    BY DEF IInv, WatchInv, WatchTypes, Open, Wake, Close
  <1>3. \A v \in Watchers : Newer(v)' = Newer(v)
    BY <1>1, <1>2 DEF Newer
  <1>4. AheadInv'
    BY <1>1, <1>2, <1>3 DEF MissInv, AheadInv
  <1>5. CursorInv' /\ OnlyOvertakenAreMissed'
    BY <1>1, <1>2 DEF MissInv, CursorInv, OnlyOvertakenAreMissed, Received
  <1> QED
    BY <1>4, <1>5 DEF MissInv

LEMMA NextMissInv == IInv /\ MissInv /\ [Next]_vars => MissInv'
  <1> SUFFICES ASSUME IInv, MissInv, [Next]_vars PROVE MissInv'
    OBVIOUS
  <1>1. ASSUME NEW w \in Watchers, WatchStep(w) PROVE MissInv'
    BY <1>1, PollKeepsMissInv, SendKeepsMissInv, DropKeepsMissInv DEF WatchStep
  <1>2. UNCHANGED watchVars \/ \E w \in Watchers : WatchStep(w)
    BY DEF Next, vars, TxStep, Begin, Write, EmitEvent, Commit, Rollback, Drain, Deliver, Retry, Poison,
       RedrivePoisoned, Quiescent
  <1> QED
    BY <1>1, <1>2, OthersKeepMissInv

\* streamSince, with writers that overlap, batches and reconnects: how far the promise of its
\* comment holds, that a subscriber gets all the events past its cursor.
THEOREM MissesAreOverlaps == Spec => []OnlyOvertakenAreMissed
  BY Invariance, InitMissInv, NextMissInv, PTL DEF Spec, MissInv
=============================================================================
