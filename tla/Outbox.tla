------------------------------- MODULE Outbox -------------------------------
(***************************************************************************)
(* The two transactional outboxes of kacho-compute and their readers.      *)
(*                                                                         *)
(* Every writer is one transaction: BEGIN, the statement that changes the  *)
(* resource's row (and locks it), an insert into compute_outbox, perhaps   *)
(* an insert into compute_fga_register_outbox, COMMIT.  sequence_no is     *)
(* taken when the event is inserted, source_version is the time of BEGIN,  *)
(* and both become visible only at COMMIT.  Watch streams read             *)
(* compute_outbox by ascending sequence_no; the register-drainer replays   *)
(* the intents to kacho-iam, whose resource_mirror keeps the state with    *)
(* the newest source_version.                                              *)
(***************************************************************************)
EXTENDS Naturals, FiniteSets, Sequences

CONSTANTS
  Objects,      \* instances, disks, images and snapshots
  Txs,          \* transactions: bounds the number of mutations
  Labels,       \* values of `labels'
  Kinds,        \* the mutations that happen
  NoMutation,   \* this transaction has not begun
  Watchers,     \* subscribers of InternalWatchService
  Interest,     \* Interest[w]: the objects of the kinds that w asks for
  MaxStreams,   \* KACHO_COMPUTE_WATCH_MAX_STREAMS
  BatchSize,    \* catchupBatchSize
  MaxAttempts   \* attempts of the drainer before it gives an intent up

\* "Touch" stands for the updates that leave the labels alone.
Mutations ==
  [kind : {"Insert", "Update"}, obj : Objects, labels : Labels]
    \cup [kind : {"Touch", "Delete"}, obj : Objects]

ASSUME OutboxAssumption ==
  /\ MaxStreams \in Nat /\ BatchSize \in Nat \ {0} /\ MaxAttempts \in Nat \ {0}
  /\ Interest \in [Watchers -> SUBSET Objects]
  /\ Labels # {} /\ NoMutation \notin Mutations

VARIABLES
  row,        \* row[x]: the committed row of x
  pc,         \* pc[t]: where transaction t is
  mut,        \* mut[t]: what t does
  start,      \* start[t]: transaction_timestamp() of t
  ended,      \* ended[t]: the time at which t committed
  clock,      \* time, counted in BEGINs
  seq,        \* seq[t]: sequence_no of t's event
  nextSeq,    \* the BIGSERIAL behind sequence_no
  commits,    \* the committed transactions, in the order of their COMMITs
  sent,       \* the intents (named by their transactions) with sent_at set
  attempts,   \* attempts[t]: attempt_count of t's intent
  mirror,     \* mirror[x]: the resource_mirror row of x in kacho-iam
  stream,     \* stream[w]: state of w's Watch stream
  batch,      \* batch[w]: events selected and not yet sent to w
  full,       \* full[w]: the last SELECT returned BatchSize rows
  cursor,     \* cursor[w]: sequence_no of the last event w has received
  delivered   \* delivered[w]: the events w has received

txVars    == <<row, pc, mut, start, ended, clock, seq, nextSeq, commits>>
drainVars == <<sent, attempts, mirror>>
watchVars == <<stream, batch, full, cursor, delivered>>
vars      == <<txVars, drainVars, watchVars>>

-----------------------------------------------------------------------------
Row    == [phase : {"NONE", "LIVE", "GONE"}, labels : Labels]
Mirror == [version : Nat, live : BOOLEAN, labels : Labels]

Committed == {commits[i] : i \in 1 .. Len(commits)}

\* Transactions that register or unregister: labels are not in the mask of a "Touch".
HasIntent(t) == mut[t].kind # "Touch"
Intents == {t \in Committed : HasIntent(t)}

TypeOK ==
  /\ row       \in [Objects -> Row]
  /\ pc        \in [Txs -> {"idle", "begun", "written", "emitted", "committed", "aborted"}]
  /\ mut       \in [Txs -> Mutations \cup {NoMutation}]
  /\ start     \in [Txs -> Nat] /\ ended \in [Txs -> Nat] /\ clock \in Nat
  /\ seq       \in [Txs -> Nat] /\ nextSeq \in Nat
  /\ commits   \in Seq(Txs)
  /\ sent      \subseteq Txs
  /\ attempts  \in [Txs -> 0 .. MaxAttempts]
  /\ mirror    \in [Objects -> Mirror]
  /\ stream    \in [Watchers -> {"closed", "poll", "send", "wait"}]
  /\ batch     \in [Watchers -> SUBSET Txs]
  /\ full      \in [Watchers -> BOOLEAN]
  /\ cursor    \in [Watchers -> Nat]
  /\ delivered \in [Watchers -> Seq(Txs)]

AnyOf(S) == CHOOSE v \in S : TRUE

\* The objects that exist initially are registered with the labels they have.
Init ==
  /\ row       \in [Objects -> [phase : {"NONE", "LIVE"}, labels : {AnyOf(Labels)}]]
  /\ mirror    = [x \in Objects |-> [version |-> 0, live |-> row[x].phase = "LIVE",
                                     labels |-> AnyOf(Labels)]]
  /\ pc        = [t \in Txs |-> "idle"]
  /\ mut       = [t \in Txs |-> NoMutation]
  /\ start     = [t \in Txs |-> 0] /\ ended = [t \in Txs |-> 0] /\ clock = 0
  /\ seq       = [t \in Txs |-> 0] /\ nextSeq = 1
  /\ commits   = <<>>
  /\ sent      = {}
  /\ attempts  = [t \in Txs |-> 0]
  /\ stream    = [w \in Watchers |-> "closed"]
  /\ batch     = [w \in Watchers |-> {}]
  /\ full      = [w \in Watchers |-> FALSE]
  /\ cursor    = [w \in Watchers |-> 0]
  /\ delivered = [w \in Watchers |-> <<>>]

-----------------------------------------------------------------------------
(***************************************************************************)
(* The writers' transactions                                               *)
(***************************************************************************)
\* pool.Begin.  ids.NewID gives every Insert an id of its own.
Begin(t, m) ==
  /\ pc[t] = "idle"
  /\ m.kind \in Kinds
  /\ m.kind = "Insert" =>
       row[m.obj].phase = "NONE" /\ \A s \in Txs : mut[s] # NoMutation => mut[s].obj # m.obj
  /\ clock' = clock + 1
  /\ start' = [start EXCEPT ![t] = clock']
  /\ mut'   = [mut EXCEPT ![t] = m]
  /\ pc'    = [pc EXCEPT ![t] = "begun"]
  /\ UNCHANGED <<row, ended, seq, nextSeq, commits, drainVars, watchVars>>

\* A statement waits for the transaction that holds the row.
LockFree(t) ==
  \A s \in Txs \ {t} : pc[s] \in {"written", "emitted"} => mut[s].obj # mut[t].obj

\* INSERT of a new id, UPDATE or DELETE of the row with the id.
Matches(t) ==
  row[mut[t].obj].phase = IF mut[t].kind = "Insert" THEN "NONE" ELSE "LIVE"

WriteUnlocked(t) ==   \* mutant: a SELECT decides, the row is written later
  /\ pc[t] = "begun" /\ Matches(t)
  /\ pc' = [pc EXCEPT ![t] = "written"]
  /\ UNCHANGED <<row, mut, start, ended, clock, seq, nextSeq, commits, drainVars, watchVars>>

Write(t) ==
  /\ pc[t] = "begun"
  /\ LockFree(t)
  /\ Matches(t)
  /\ pc' = [pc EXCEPT ![t] = "written"]
  /\ UNCHANGED <<row, mut, start, ended, clock, seq, nextSeq, commits, drainVars, watchVars>>

\* emitCompute: nextval() is taken now.
EmitEvent(t) ==
  /\ pc[t] = "written"
  /\ seq'     = [seq EXCEPT ![t] = nextSeq]
  /\ nextSeq' = nextSeq + 1
  /\ pc'      = [pc EXCEPT ![t] = "emitted"]
  /\ UNCHANGED <<row, mut, start, ended, clock, commits, drainVars, watchVars>>

RowAfter(t) ==
  LET x == mut[t].obj
  IN  CASE mut[t].kind = "Touch"  -> row[x]
        [] mut[t].kind = "Delete" -> [phase |-> "GONE", labels |-> row[x].labels]
        [] OTHER                  -> [phase |-> "LIVE", labels |-> mut[t].labels]

\* emitFGARegisterIntent, unseen before COMMIT, and COMMIT.
Commit(t) ==
  /\ pc[t] = "emitted"
  /\ row'     = [row EXCEPT ![mut[t].obj] = RowAfter(t)]
  /\ commits' = Append(commits, t)
  /\ ended'   = [ended EXCEPT ![t] = clock]
  /\ pc'      = [pc EXCEPT ![t] = "committed"]
  /\ UNCHANGED <<mut, start, clock, seq, nextSeq, drainVars, watchVars>>

\* No row matched, a statement failed, the deadline passed or the process died.
\* The sequence_no that was taken is not given back.
Rollback(t) ==
  /\ pc[t] \in {"begun", "written", "emitted"}
  /\ pc' = [pc EXCEPT ![t] = "aborted"]
  /\ UNCHANGED <<row, mut, start, ended, clock, seq, nextSeq, commits, drainVars, watchVars>>

-----------------------------------------------------------------------------
(***************************************************************************)
(* The register-drainer (several replicas of it) and kacho-iam             *)
(***************************************************************************)
\* The rows that the drainer's claim selects.
Claimable(t) == t \in Intents \ sent /\ attempts[t] < MaxAttempts

NoSourceVersion(t) == 0   \* mutant: the payload has no source_version

\* sourceVersionPB: now() of the transaction that wrote the intent.
SourceVersion(t) == start[t]

\* RegisterResource and UnregisterResource: a version older than the mirror's is
\* ignored, and a request without one always applies.
IAMApply(t) ==
  LET x   == mut[t].obj
      new == [version |-> SourceVersion(t), live |-> mut[t].kind # "Delete",
              labels |-> IF mut[t].kind = "Delete" THEN mirror[x].labels ELSE mut[t].labels]
  IN  mirror' = IF SourceVersion(t) = 0 \/ SourceVersion(t) >= mirror[x].version
                THEN [mirror EXCEPT ![x] = new]
                ELSE mirror

DeliverUncommitted(t) ==   \* mutant: IAM is called before COMMIT, without an outbox
  /\ pc[t] \in {"emitted", "committed"} /\ HasIntent(t) /\ t \notin sent
  /\ IAMApply(t)
  /\ sent' = sent \cup {t}
  /\ UNCHANGED <<attempts, txVars, watchVars>>

\* Apply succeeds: sent_at is set.
Deliver(t) ==
  /\ Claimable(t)
  /\ IAMApply(t)
  /\ sent' = sent \cup {t}
  /\ UNCHANGED <<attempts, txVars, watchVars>>

\* A transient error: IAM has applied the intent and the answer is lost, or it has not.
Retry(t) ==
  /\ Claimable(t)
  /\ IAMApply(t) \/ UNCHANGED mirror
  /\ attempts' = [attempts EXCEPT ![t] = @ + 1]
  /\ UNCHANGED <<sent, txVars, watchVars>>

PoisonPast(t) ==   \* mutant: a poisoned intent goes past the last attempt
  /\ Claimable(t)
  /\ attempts' = [attempts EXCEPT ![t] = MaxAttempts + 1]
  /\ UNCHANGED <<sent, mirror, txVars, watchVars>>

\* InvalidArgument is permanent: the intent is not tried again.
Poison(t) ==
  /\ Claimable(t)
  /\ attempts' = [attempts EXCEPT ![t] = MaxAttempts]
  /\ UNCHANGED <<sent, mirror, txVars, watchVars>>

Exhausted(t) == t \in Intents \ sent /\ attempts[t] >= MaxAttempts

RedriveOffByOne ==   \* mutant: only what has more than MaxAttempts is reset
  /\ \E t \in Txs : Exhausted(t) /\ attempts[t] > MaxAttempts
  /\ attempts' = [t \in Txs |-> IF Exhausted(t) THEN 0 ELSE attempts[t]]
  /\ UNCHANGED <<sent, mirror, txVars, watchVars>>

\* The backstop's pass makes the given-up intents claimable again.
RedrivePoisoned ==
  /\ \E t \in Txs : Exhausted(t)
  /\ attempts' = [t \in Txs |-> IF Exhausted(t) THEN 0 ELSE attempts[t]]
  /\ UNCHANGED <<sent, mirror, txVars, watchVars>>

-----------------------------------------------------------------------------
(***************************************************************************)
(* Watch streams                                                           *)
(***************************************************************************)
Open(w) ==
  /\ stream[w] = "closed"
  /\ Cardinality({v \in Watchers : stream[v] # "closed"}) < MaxStreams
  /\ stream' = [stream EXCEPT ![w] = "poll"]
  /\ UNCHANGED <<batch, full, cursor, delivered, txVars, drainVars>>

NewerSkipping(w) ==   \* mutant: the cursor is the next sequence_no, compared with >
  {t \in Committed : mut[t].obj \in Interest[w] /\ seq[t] > cursor[w] + 1}

\* The committed events past the cursor.
Newer(w) == {t \in Committed : mut[t].obj \in Interest[w] /\ seq[t] > cursor[w]}

\* B is the result of the SELECT: the first BatchSize rows of S by sequence_no.
FirstRows(B, S) ==
  /\ Cardinality(B) = IF Cardinality(S) < BatchSize THEN Cardinality(S) ELSE BatchSize
  /\ \A s \in B, t \in S \ B : seq[s] < seq[t]

\* streamSince goes on while its SELECTs are full, then waits for a notification.
AfterBatch(more) == IF more THEN "poll" ELSE "wait"

Poll(w) ==
  /\ stream[w] = "poll"
  /\ \E B \in SUBSET Newer(w) :
       /\ FirstRows(B, Newer(w))
       /\ batch'  = [batch EXCEPT ![w] = B]
       /\ full'   = [full EXCEPT ![w] = Cardinality(B) = BatchSize]
       /\ stream' = [stream EXCEPT ![w] = IF B = {} THEN AfterBatch(FALSE) ELSE "send"]
  /\ UNCHANGED <<cursor, delivered, txVars, drainVars>>

Send(w) ==
  /\ stream[w] = "send"
  /\ \E t \in batch[w] :
       /\ \A s \in batch[w] : seq[t] <= seq[s]
       /\ batch'     = [batch EXCEPT ![w] = @ \ {t}]
       /\ cursor'    = [cursor EXCEPT ![w] = seq[t]]
       /\ delivered' = [delivered EXCEPT ![w] = Append(@, t)]
  /\ stream' = [stream EXCEPT ![w] = IF batch'[w] = {} THEN AfterBatch(full[w]) ELSE "send"]
  /\ UNCHANGED <<full, txVars, drainVars>>

\* A notification, or the 30 s timer.
Wake(w) ==
  /\ stream[w] = "wait"
  /\ stream' = [stream EXCEPT ![w] = "poll"]
  /\ UNCHANGED <<batch, full, cursor, delivered, txVars, drainVars>>

\* The stream ends: the client left, Send failed or the connection was lost.  The
\* client remembers the last event it has received and asks for the rest.
Close(w) ==
  /\ stream[w] # "closed"
  /\ stream' = [stream EXCEPT ![w] = "closed"]
  /\ batch'  = [batch EXCEPT ![w] = {}]
  /\ UNCHANGED <<full, cursor, delivered, txVars, drainVars>>

-----------------------------------------------------------------------------
TxStep(t) ==
  \/ \E m \in Mutations : Begin(t, m)
  \/ Write(t) \/ EmitEvent(t) \/ Commit(t) \/ Rollback(t)

Drain(t) == Deliver(t) \/ Retry(t) \/ Poison(t)

WatchStep(w) == Open(w) \/ Poll(w) \/ Send(w) \/ Wake(w) \/ Close(w)

\* Nothing is under way; clients may never write again.
Quiescent ==
  /\ \A t \in Txs : pc[t] \in {"committed", "aborted"}
  /\ Intents = sent
  /\ \A w \in Watchers : stream[w] = "closed"
  /\ UNCHANGED vars

Next ==
  \/ \E t \in Txs : TxStep(t) \/ Drain(t)
  \/ RedrivePoisoned
  \/ \E w \in Watchers : WatchStep(w)
  \/ Quiescent

Spec == Init /\ [][Next]_vars

\* The drainer retries and IAM answers now and then; the backstop's ticker and the
\* loop of an open stream go on.
Fairness ==
  /\ \A t \in Txs : SF_vars(Deliver(t))
  /\ WF_vars(RedrivePoisoned)
  /\ \A w \in Watchers : WF_vars(Poll(w) \/ Send(w) \/ Wake(w))

FairSpec == Spec /\ Fairness

-----------------------------------------------------------------------------
(***************************************************************************)
(* Properties                                                              *)
(***************************************************************************)
Index(t) == CHOOSE i \in 1 .. Len(commits) : commits[i] = t

\* A subscriber receives the events of one object in the order in which the
\* object's changes were committed, and none of them twice, across reconnects.
WatchFollowsCommits ==
  \A w \in Watchers : \A i, j \in 1 .. Len(delivered[w]) :
    (i < j /\ mut[delivered[w][i]].obj = mut[delivered[w][j]].obj) =>
      Index(delivered[w][i]) < Index(delivered[w][j])

\* What streamSince's comment says: it reads all the events past the cursor.  No
\* committed event that w asked for is left behind w's cursor.
WatchMissesNothing ==
  \A w \in Watchers : \A t \in Committed :
    (mut[t].obj \in Interest[w] /\ seq[t] <= cursor[w]) =>
      \E i \in 1 .. Len(delivered[w]) : delivered[w][i] = t

\* A committed event past the cursor and past the batch under way reaches an open
\* stream, whatever is committed meanwhile.
Ahead(w, t) ==
  /\ stream[w] # "closed"
  /\ t \in Committed /\ mut[t].obj \in Interest[w] /\ seq[t] > cursor[w]
  /\ \A s \in batch[w] : seq[s] < seq[t]
WatchDelivers ==
  \A w \in Watchers, t \in Txs :
    Ahead(w, t) ~> (stream[w] = "closed" \/ \E i \in 1 .. Len(delivered[w]) : delivered[w][i] = t)

\* kacho-iam only ever holds a state that a committed transaction gave the object:
\* what was rolled back is never announced.
MirrorIsCommitted ==
  \A x \in Objects : mirror[x].version # 0 =>
    \E t \in Intents :
      /\ mut[t].obj = x /\ start[t] = mirror[x].version
      /\ mirror[x].live = (mut[t].kind # "Delete")
      /\ mirror[x].live => mirror[x].labels = mut[t].labels

\* The mirror shows x as its row is.
InStep(x) ==
  /\ mirror[x].live = (row[x].phase = "LIVE")
  /\ mirror[x].live => mirror[x].labels = row[x].labels

Delivered(x) == \A t \in Intents : mut[t].obj = x => t \in sent

\* The transactions of x that carry an intent came one after another.
Sequential(x) ==
  \A s, t \in Intents : (s # t /\ mut[s].obj = x /\ mut[t].obj = x) =>
    ended[s] < start[t] \/ ended[t] < start[s]

\* Retries, duplicates and replicas that overtake each other do no harm: the mirror
\* of an object whose mutations were sequential is right once its intents are sent.
SequentialMirror == \A x \in Objects : (Sequential(x) /\ Delivered(x)) => InStep(x)

\* What the comment on the repositories' Update says: the mirror does not go stale,
\* so that a grant on a label is revoked when the label changes.
MirrorConverges == \A x \in Objects : Delivered(x) => InStep(x)

\* Every intent gets to kacho-iam, poisoned and exhausted ones included.
IntentsDelivered == \A t \in Txs : (t \in Intents) ~> (t \in sent)
=============================================================================
