---------------------------- MODULE EmbeddingProofs ----------------------------
(* For any sources, kinds and batches, and any number of models, versions,   *)
(* edits and broken ticks: the safety of Embedding.                          *)
(*                                                                           *)
(* A batch carries three readings of the past into the transaction that      *)
(* stores it: its texts, its label and its model.  BatchInv says what is     *)
(* still true of them: the label is not newer than the version, the model    *)
(* not older than the label, and a row that was worked on because its vector *)
(* was not good is still without a good one.  The last section is the safety *)
(* of Settles.                                                               *)
EXTENDS Embedding, TLAPS, FiniteSetTheorems

Carrying == {"config", "embed", "store"}

\* Why row i was selected with text t: without a vector, of another text, of an
\* earlier version, or after a failure.
NotGood(i, t) ==
  \/ chunk[i] = NoChunk
  \/ chunk[i].hash # t
  \/ chunk[i].state = "done" /\ chunk[i].vec.label < version
  \/ chunk[i].state = "pending"

BatchInv ==
  /\ tick.pc \in {"idle", "find", "reap"} \cup Carrying
  /\ tick.pc \in Carrying =>
       /\ DOMAIN tick.batch \subseteq Items
       /\ \A i \in DOMAIN tick.batch :
            /\ tick.batch[i].text \in Texts /\ tick.batch[i].tries \in Nat
            /\ NotGood(i, tick.batch[i].text)
  /\ tick.pc \in {"embed", "store"} => tick.label \in 1..version
  /\ tick.pc = "store" =>
       /\ tick.model \in 1..model /\ tick.permanent \in BOOLEAN
       /\ tick.label = version => tick.model >= since

\* No vector is labelled ahead of its time.
LabelInv ==
  \A i \in Items :
    chunk[i] # NoChunk /\ chunk[i].state = "done" => chunk[i].vec.label <= version

IInv == TypeOK /\ BatchInv /\ LabelInv /\ NothingFromBefore

USE DEF Idle, Carrying, Here
USE ItemsAssumption, BoundsAssumption, NamesAssumption

\* The bounds are positive numbers.
LEMMA Bounds ==
  /\ BatchSize \in Nat \ {0} /\ MaxAttempts \in Nat \ {0}
  /\ MaxModel \in Nat \ {0} /\ MaxVersion \in Nat \ {0}
  /\ MaxEdits \in Nat /\ MaxBreaks \in Nat
OBVIOUS

\* The initial state satisfies the inductive invariant.
LEMMA InitInv == Init => IInv
BY Bounds DEF Init, IInv, TypeOK, BatchInv, LabelInv, NothingFromBefore, Searchable

\* After a kind comes the next one, or the reaping.
LEMMA AfterKindIs ==
  ASSUME NEW k
  PROVE  AfterKind(k).pc \in {"find", "reap"}
BY DEF AfterKind

\* A tick begins, reads its work, the version or the vectors; a tick breaks.
LEMMA ReadInv ==
  ASSUME IInv, StartTick \/ Find \/ ReadConfig \/ Embed \/ Break
  PROVE  IInv'
<1> USE DEF IInv, Unmoved
<1>1. UNCHANGED <<source, model, version, since, chunk, edits>>
  BY DEF StartTick, Find, ReadConfig, Embed, Break
<1>2. LabelInv' /\ NothingFromBefore'
  BY <1>1 DEF LabelInv, NothingFromBefore, Searchable
<1>3. TypeOK'
  <2>1. due' = due /\ breaks' \in 0..MaxBreaks
    BY Bounds DEF StartTick, Find, ReadConfig, Embed, Break, TypeOK
  <2> QED BY <1>1, <2>1 DEF TypeOK
<1>4. version \in Nat /\ model \in Nat /\ since \in 1..model /\ version >= 1
  BY Bounds DEF TypeOK
<1>5. BatchInv'
  <2>1. CASE StartTick \/ Break
    BY <2>1 DEF StartTick, Break, BatchInv
  <2>2. CASE Find
    <3> DEFINE batch == First(Work(tick.kind))
    <3>1. CASE batch = {}
      BY <2>2, <3>1, AfterKindIs DEF Find, BatchInv
    <3>2. CASE batch # {}
      <4>1. /\ tick'.pc = "config"
            /\ tick'.batch = [i \in batch |-> [text |-> source[i].text, tries |-> Attempts(i)]]
        BY <2>2, <3>2 DEF Find
      <4>2. \A i \in batch : i \in Items /\ Dirty(i)
        BY DEF First, Work
      <4>3. \A i \in batch : source[i].text \in Texts /\ Attempts(i) \in Nat
        BY <4>2 DEF TypeOK, Attempts, Chunks
      <4>4. \A i \in batch : NotGood(i, source[i].text)
        BY <4>2 DEF Dirty, NotGood
      <4> HIDE DEF batch
      <4> QED BY <1>1, <4>1, <4>2, <4>3, <4>4 DEF BatchInv, NotGood
    <3> QED BY <3>1, <3>2
  <2>3. CASE ReadConfig
    BY <1>1, <1>4, <2>3 DEF ReadConfig, BatchInv, NotGood
  <2>4. CASE Embed
    <3>1. /\ tick.pc = "embed" /\ tick'.pc = "store" /\ tick'.batch = tick.batch
          /\ tick'.label = tick.label /\ tick'.model = model /\ tick'.permanent \in BOOLEAN
      BY <2>4 DEF Embed
    <3> QED BY <1>1, <1>4, <3>1 DEF BatchInv, NotGood
  <2> QED BY <2>1, <2>2, <2>3, <2>4
<1> QED BY <1>2, <1>3, <1>5

\* A row that an attempt leaves behind.
LEMMA Attempted ==
  ASSUME IInv, tick.pc = "store", NEW i \in DOMAIN tick.batch
  PROVE  /\ LET e == Embedded(tick.batch[i], tick.label, tick.model)
            IN  /\ e \in Chunks /\ e.state = "done" /\ e.vec # NoVec
                /\ e.vec.label = tick.label /\ e.vec.model = tick.model
                /\ e.hash = tick.batch[i].text
         /\ \A permanent \in BOOLEAN :
              LET f == Failed(tick.batch[i], permanent)
              IN  /\ f \in Chunks /\ f.state \in {"pending", "dead"} /\ f.vec = NoVec
                  /\ f.state = "pending" => f.attempts \in 1..(MaxAttempts - 1)
<1>1. /\ tick.batch[i].text \in Texts /\ tick.batch[i].tries \in Nat
      /\ tick.label \in 1..MaxVersion /\ tick.model \in 1..MaxModel
  BY Bounds DEF IInv, BatchInv, TypeOK
<1>2. [of |-> tick.batch[i].text, model |-> tick.model, label |-> tick.label] \in Vecs
  BY <1>1 DEF Vecs
<1>3. ASSUME NEW permanent \in BOOLEAN
      PROVE  LET f == Failed(tick.batch[i], permanent)
             IN  /\ f \in Chunks /\ f.state \in {"pending", "dead"} /\ f.vec = NoVec
                 /\ f.state = "pending" => f.attempts \in 1..(MaxAttempts - 1)
  BY <1>1, Bounds DEF Failed, Chunks
<1> QED BY <1>2, <1>1, <1>3 DEF Embedded, Chunks

\* A batch is stored.
LEMMA StoreInv ==
  ASSUME IInv, Store
  PROVE  IInv'
<1> USE DEF IInv, Unmoved
<1>1. /\ UNCHANGED <<source, model, version, since, edits, breaks>>
      /\ tick.pc = "store" /\ tick.permanent \in BOOLEAN
  BY DEF Store, BatchInv
<1>2. \A i \in Items :
        \/ chunk'[i] = chunk[i]
        \/ i \in DOMAIN tick.batch /\ chunk'[i] = Embedded(tick.batch[i], tick.label, tick.model)
        \/ i \in DOMAIN tick.batch /\ chunk'[i] = Failed(tick.batch[i], tick.permanent)
  BY DEF Store
<1>3. tick'.pc \in {"find", "reap"}
  BY AfterKindIs DEF Store
<1>4. tick.label \in 1..version /\ (tick.label = version => tick.model >= since)
  BY <1>1 DEF BatchInv
<1>5. TypeOK'
  <2>1. ASSUME NEW i \in Items, chunk'[i] # NoChunk
        PROVE  /\ chunk'[i] \in Chunks
               /\ chunk'[i].vec # NoVec <=> chunk'[i].state = "done"
               /\ chunk'[i].state = "pending" => chunk'[i].attempts \in 1..(MaxAttempts - 1)
    BY <1>1, <1>2, <2>1, Attempted DEF TypeOK
  <2>2. due' \in [Items -> BOOLEAN]
    BY DEF Store, TypeOK
  <2> QED BY <1>1, <2>1, <2>2 DEF TypeOK
<1>6. BatchInv'
  BY <1>3 DEF BatchInv
<1>7. LabelInv' /\ NothingFromBefore'
  <2>1. version \in Nat
    BY Bounds DEF TypeOK
  <2>2. ASSUME NEW i \in Items, chunk'[i] # NoChunk, chunk'[i].state = "done"
        PROVE  chunk'[i].vec.label <= version /\ (chunk'[i].vec.label = version => chunk'[i].vec.model >= since)
    <3>1. CASE chunk'[i] = chunk[i]
      BY <2>2, <3>1 DEF LabelInv, NothingFromBefore, Searchable
    <3>2. CASE i \in DOMAIN tick.batch /\ chunk'[i] = Embedded(tick.batch[i], tick.label, tick.model)
      BY <1>1, <1>4, <2>1, <3>2, Attempted
    <3>3. CASE i \in DOMAIN tick.batch /\ chunk'[i] = Failed(tick.batch[i], tick.permanent)
      BY <1>1, <2>2, <3>3, Attempted
    <3> QED BY <1>2, <3>1, <3>2, <3>3
  <2> QED BY <1>1, <2>2 DEF LabelInv, NothingFromBefore, Searchable
<1> QED BY <1>5, <1>6, <1>7

\* The chunks of one kind's removed sources are deleted.
LEMMA ReapInv ==
  ASSUME IInv, Reap
  PROVE  IInv'
<1> USE DEF IInv, Unmoved
<1>1. UNCHANGED <<source, model, version, since, edits, breaks, due>> /\ tick'.pc \in {"idle", "reap"}
  BY DEF Reap
<1>2. \A i \in Items : chunk'[i] \in {NoChunk, chunk[i]}
  BY DEF Reap
<1>3. TypeOK'
  BY <1>1, <1>2 DEF TypeOK
<1>4. BatchInv'
  BY <1>1 DEF BatchInv
<1>5. LabelInv' /\ NothingFromBefore'
  BY <1>1, <1>2 DEF LabelInv, NothingFromBefore, Searchable
<1> QED BY <1>3, <1>4, <1>5

\* Edits, a new model, a new version, and a backoff that ends.
LEMMA AroundInv ==
  ASSUME IInv, SetAlias \/ Bump \/ \E i \in Items : Elapse(i) \/ Edit(i) \/ Hide(i) \/ Remove(i)
  PROVE  IInv'
<1> USE DEF IInv, Unmoved
<1>1. version \in Nat /\ model \in Nat /\ since \in 1..model /\ version >= 1
  BY Bounds DEF TypeOK
<1>2. CASE SetAlias
  <2>1. UNCHANGED <<source, version, since, chunk, due, tick, edits, breaks>> /\ model' = model + 1 /\ model < MaxModel
    BY <1>2 DEF SetAlias
  <2>2. TypeOK'
    BY <1>1, <2>1, Bounds DEF TypeOK
  <2>3. BatchInv'
    BY <1>1, <2>1 DEF BatchInv, NotGood
  <2> QED BY <2>1, <2>2, <2>3 DEF LabelInv, NothingFromBefore, Searchable
<1>3. CASE Bump
  <2>1. /\ UNCHANGED <<source, model, chunk, due, tick, edits, breaks>>
        /\ version' = version + 1 /\ version < MaxVersion /\ since' = model
    BY <1>3 DEF Bump
  <2>2. TypeOK'
    BY <1>1, <2>1, Bounds DEF TypeOK
  <2>3. \A i \in Items : chunk[i] # NoChunk /\ chunk[i].state = "done" =>
          chunk[i].vec.label \in Nat /\ chunk[i].vec.label < version'
    BY <1>1, <2>1 DEF LabelInv, TypeOK, Chunks, Vecs
  <2>4. BatchInv'
    <3>1. \A i \in Items, t \in Texts : NotGood(i, t) => NotGood(i, t)'
      BY <2>1, <2>3 DEF NotGood
    <3>2. tick.label \in 1..version => tick.label \in 1..version' /\ tick.label # version'
      BY <1>1, <2>1
    <3>3. tick.pc \in Carrying =>
            /\ DOMAIN tick.batch \subseteq Items
            /\ \A i \in DOMAIN tick.batch :
                 /\ tick.batch[i].text \in Texts /\ tick.batch[i].tries \in Nat
                 /\ NotGood(i, tick.batch[i].text)'
      BY <2>1, <3>1 DEF BatchInv
    <3> QED BY <2>1, <3>2, <3>3 DEF BatchInv, NotGood
  <2>5. LabelInv' /\ NothingFromBefore'
    BY <1>1, <2>1, <2>3 DEF LabelInv, NothingFromBefore, Searchable
  <2> QED BY <2>2, <2>4, <2>5
<1>4. ASSUME NEW i \in Items, Elapse(i)
      PROVE  IInv'
  BY <1>4 DEF Elapse, TypeOK, BatchInv, NotGood, LabelInv, NothingFromBefore, Searchable
<1>5. ASSUME NEW i \in Items, Edit(i) \/ Hide(i) \/ Remove(i)
      PROVE  IInv'
  <2>1. UNCHANGED <<model, version, since, chunk, due, tick, breaks>> /\ edits' = edits + 1 /\ edits < MaxEdits
    BY <1>5 DEF Edit, Hide, Remove, Change
  <2>2. source' \in [Items -> [text : Texts, at : {"live", "hidden", "gone"}]]
    BY <1>5 DEF Edit, Hide, Remove, Change, TypeOK
  <2>3. TypeOK'
    BY <2>1, <2>2, Bounds DEF TypeOK
  <2> QED BY <2>1, <2>3 DEF BatchInv, NotGood, LabelInv, NothingFromBefore, Searchable
<1> QED BY <1>2, <1>3, <1>4, <1>5

\* The invariant is inductive.
LEMMA NextInv == IInv /\ [Next]_vars => IInv'
<1>1. ASSUME IInv, UNCHANGED vars
      PROVE  IInv'
  BY <1>1 DEF vars, IInv, TypeOK, BatchInv, NotGood, LabelInv, NothingFromBefore, Searchable
<1> QED BY <1>1, ReadInv, StoreInv, ReapInv, AroundInv DEF Next, Run

THEOREM Invariant == Spec => []IInv
BY InitInv, NextInv, PTL DEF Spec

\* Types; a chunk holds a vector exactly when it is done, and a pending one has tries left.
THEOREM TypeCorrect == Spec => []TypeOK
<1>1. IInv => TypeOK
  BY DEF IInv
<1> QED BY <1>1, Invariant, PTL

\* After the model and then the version have changed, search (hybrid_retrieval.py) finds no
\* vector of an earlier model under the new version.
THEOREM NoEarlierModel == Spec => []NothingFromBefore
<1>1. IInv => NothingFromBefore
  BY DEF IInv
<1> QED BY <1>1, Invariant, PTL

\* A good vector of an unchanged source stays, whatever _process_batch stores and
\* _reap_orphans deletes.
THEOREM GoodVectorsStay == Spec => FreshStays
<1> DEFINE Stays ==
      \A i \in Items :
        Fresh(i) /\ Live(i) /\ source'[i] = source[i] /\ version' = version =>
          \/ chunk'[i] = chunk[i]
          \/ tick.pc = "store" /\ i \in DOMAIN tick.batch /\ tick.batch[i].text # source[i].text
<1>1. ASSUME IInv, Next
      PROVE  Stays
  <2> SUFFICES ASSUME NEW i \in Items, Fresh(i), Live(i)
               PROVE  \/ chunk'[i] = chunk[i]
                      \/ tick.pc = "store" /\ i \in DOMAIN tick.batch /\ tick.batch[i].text # source[i].text
    OBVIOUS
  <2>1. CASE Store
    <3>1. CASE i \in DOMAIN tick.batch
      <4>1. tick.pc = "store" /\ NotGood(i, tick.batch[i].text)
        BY <1>1, <2>1, <3>1 DEF Store, IInv, BatchInv
      <4>2. /\ chunk[i] # NoChunk /\ chunk[i].state = "done"
            /\ chunk[i].vec.label = version /\ chunk[i].hash = source[i].text
        BY DEF Fresh, Searchable
      <4>3. version \in Nat
        BY <1>1, Bounds DEF IInv, TypeOK
      <4>4. chunk[i].hash # tick.batch[i].text
        BY <4>1, <4>2, <4>3 DEF NotGood
      <4> QED BY <3>1, <4>1, <4>2, <4>4
    <3>2. CASE i \notin DOMAIN tick.batch
      BY <2>1, <3>2 DEF Store
    <3> QED BY <3>1, <3>2
  <2>2. CASE Reap
    <3>1. Keeps(i)
      BY DEF Live, Keeps
    <3> QED BY <2>2, <3>1 DEF Reap
  <2>3. CASE StartTick \/ Find \/ ReadConfig \/ Embed \/ Break \/ SetAlias \/ Bump
    BY <2>3 DEF StartTick, Find, ReadConfig, Embed, Break, SetAlias, Bump
  <2>4. CASE \E j \in Items : Elapse(j) \/ Edit(j) \/ Hide(j) \/ Remove(j)
    BY <2>4 DEF Elapse, Edit, Hide, Remove, Change
  <2> QED BY <1>1, <2>1, <2>2, <2>3, <2>4 DEF Next, Run
<1>2. ASSUME IInv, [Next]_vars
      PROVE  [Stays]_vars
  BY <1>1, <1>2
<1> QED BY <1>2, Invariant, PTL DEF Spec, FreshStays
-----------------------------------------------------------------------------
(* The safety half of Settles.  That ticks and backoffs end is fairness;     *)
(* that each of them leaves less to do is not.                               *)

\* Row i of the batch was edited, or the version moved on, since it was read.
Overtaken(i) == tick.batch[i].text # source[i].text \/ tick.label # version

\* A tick takes the first row of its kind that needs work.
Takes(i) == Find /\ i \in Work(tick.kind) /\ (\A j \in Work(tick.kind) : i <= j) => i \in DOMAIN tick'.batch

\* A batch that is stored leaves none of its rows to do, but for those overtaken.
Leaves(i) == Store /\ i \in DOMAIN tick.batch /\ Dirty(i)' => Overtaken(i)

\* Nothing comes back to the work but by an edit, a new version, the end of a backoff,
\* or as such a row.
Returns(i) ==
  ~Dirty(i) /\ Dirty(i)' =>
    \/ source'[i] # source[i] \/ version' # version \/ Elapse(i)
    \/ Store /\ i \in DOMAIN tick.batch /\ Overtaken(i)

WorkShrinks == [][\A i \in Items : Takes(i) /\ Leaves(i) /\ Returns(i)]_vars

\* The first of some rows is in the batch made of them.
LEMMA FirstIsTaken ==
  ASSUME NEW S \in SUBSET Items, NEW i \in S, \A j \in S : i <= j
  PROVE  i \in First(S)
<1>1. {j \in S : j < i} = {}
  <2>1. ASSUME NEW j \in S
        PROVE  ~(j < i)
    <3>1. j \in Nat /\ i \in Nat /\ i <= j
      OBVIOUS
    <3> QED BY <3>1
  <2> QED BY <2>1
<1>2. Cardinality({j \in S : j < i}) < BatchSize
  BY <1>1, FS_EmptySet, Bounds
<1> QED BY <1>2 DEF First

\* A batch leaves its rows to do only where it was overtaken.
LEMMA StoredIsDone ==
  ASSUME IInv, Store, NEW i \in DOMAIN tick.batch, Dirty(i)'
  PROVE  Overtaken(i)
<1> SUFFICES ASSUME tick.batch[i].text = source[i].text, tick.label = version
             PROVE  FALSE
  BY DEF Overtaken
<1>1. tick.pc = "store" /\ i \in Items /\ tick.permanent \in BOOLEAN /\ version \in Nat
  BY Bounds DEF Store, IInv, BatchInv, TypeOK
<1>2. source' = source /\ version' = version /\ due'[i] = FALSE
  BY <1>1 DEF Store, Unmoved
<1>3. CASE chunk'[i] = Embedded(tick.batch[i], tick.label, tick.model)
  <2>1. /\ chunk'[i] # NoChunk /\ chunk'[i].state = "done"
        /\ chunk'[i].hash = source[i].text /\ chunk'[i].vec.label = version
    BY <1>1, <1>3, Attempted DEF Chunks
  <2> QED BY <1>1, <1>2, <2>1 DEF Dirty
<1>4. CASE chunk'[i] = Failed(tick.batch[i], tick.permanent)
  <2>1. chunk'[i] \in Chunks /\ chunk'[i].state \in {"pending", "dead"}
    BY <1>1, <1>4, Attempted
  <2>2. chunk'[i].hash = source[i].text
    BY <1>4 DEF Failed
  <2> QED BY <1>2, <2>1, <2>2 DEF Dirty
<1> QED BY <1>1, <1>3, <1>4 DEF Store

\* The embedding worker's work: what a tick has tried is not tried again before its
\* backoff ends, and failures and broken ticks hide no row from the next one.
THEOREM WorkOnlyShrinks == Spec => WorkShrinks
<1>1. ASSUME NEW i \in Items
      PROVE  Takes(i)
  <2> SUFFICES ASSUME Find, i \in Work(tick.kind), \A j \in Work(tick.kind) : i <= j
               PROVE  i \in DOMAIN tick'.batch
    BY DEF Takes
  <2>1. Work(tick.kind) \in SUBSET Items
    BY DEF Work
  <2>2. i \in First(Work(tick.kind))
    BY <2>1, FirstIsTaken
  <2> QED BY <2>2 DEF Find
<1>2. ASSUME IInv, NEW i \in Items
      PROVE  Leaves(i)
  BY <1>2, StoredIsDone DEF Leaves
<1>3. ASSUME IInv, Next, NEW i \in Items
      PROVE  Returns(i)
  <2> SUFFICES ASSUME ~Dirty(i), Dirty(i)', source'[i] = source[i], version' = version, ~Elapse(i)
               PROVE  Store /\ i \in DOMAIN tick.batch /\ Overtaken(i)
    BY DEF Returns
  <2>1. CASE chunk'[i] = chunk[i] /\ (due'[i] => due[i])
    BY <2>1 DEF Dirty, Live
  <2>2. CASE Store
    <3>1. CASE i \in DOMAIN tick.batch
      BY <1>3, <2>2, <3>1, StoredIsDone
    <3>2. CASE i \notin DOMAIN tick.batch
      BY <2>1, <2>2, <3>2 DEF Store
    <3> QED BY <3>1, <3>2
  <2>3. CASE Reap
    <3>1. Live(i)
      BY DEF Dirty, Live
    <3>2. Keeps(i)
      BY <3>1 DEF Live, Keeps
    <3> QED BY <2>1, <2>3, <3>2 DEF Reap
  <2>4. CASE StartTick \/ Find \/ ReadConfig \/ Embed \/ Break \/ SetAlias \/ Bump
    BY <2>1, <2>4 DEF StartTick, Find, ReadConfig, Embed, Break, SetAlias, Bump
  <2>5. ASSUME NEW j \in Items, Elapse(j)
        PROVE  chunk'[i] = chunk[i] /\ (due'[i] => due[i])
    <3>1. j # i /\ due \in [Items -> BOOLEAN]
      BY <1>3, <2>5 DEF IInv, TypeOK
    <3> QED BY <2>5, <3>1 DEF Elapse
  <2>6. CASE \E j \in Items : Edit(j) \/ Hide(j) \/ Remove(j)
    BY <2>1, <2>6 DEF Edit, Hide, Remove, Change
  <2> QED BY <1>3, <2>1, <2>2, <2>3, <2>4, <2>5, <2>6 DEF Next, Run
<1>4. IInv /\ [Next]_vars => [\A i \in Items : Takes(i) /\ Leaves(i) /\ Returns(i)]_vars
  BY <1>1, <1>2, <1>3
<1> QED BY <1>4, Invariant, PTL DEF Spec, WorkShrinks
================================================================================
