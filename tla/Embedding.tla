------------------------------ MODULE Embedding -----------------------------
(* The embedding worker (backend/services/embedding_worker.py): a tick, every *)
(* two minutes, reconciles messages, entities and lists with kb_chunks, kind  *)
(* by kind, and then deletes the chunks whose source is gone.  Sources are    *)
(* edited, hidden and deleted, the role "embed" is given to another model and *)
(* the embedding version moves on between any two of its statements.  All of  *)
(* the worker's own state is in kb_chunks.                                    *)
EXTENDS Naturals, Sequences, FiniteSets

CONSTANTS Items,                        \* ids, in the order of ORDER BY id
          Kinds,                        \* the kinds in the order a tick takes them
          KindOf,                       \* of an item
          Texts, NoChunk, NoVec,
          BatchSize, MaxAttempts,
          MaxModel, MaxVersion, MaxEdits, MaxBreaks \* bounds on the environment

ASSUME ItemsAssumption == Items \subseteq Nat /\ IsFiniteSet(Items)
ASSUME KindsAssumption ==
  /\ Kinds \in Seq({"message", "entity", "list"}) /\ Kinds # <<>>
  /\ KindOf \in [Items -> {Kinds[k] : k \in DOMAIN Kinds}]
ASSUME BoundsAssumption ==
  /\ {BatchSize, MaxAttempts, MaxModel, MaxVersion} \subseteq Nat \ {0}
  /\ MaxEdits \in Nat /\ MaxBreaks \in Nat

\* A vector says what it is of, which model made it, and its embedding_version.
Vecs == [of : Texts, model : 1..MaxModel, label : 1..MaxVersion]
Chunks == [state : {"done", "pending", "dead"}, hash : Texts, vec : Vecs \cup {NoVec}, attempts : Nat]
ASSUME NamesAssumption == NoVec \notin Vecs /\ NoChunk \notin Chunks

VARIABLES
  source,                               \* text and place: live, hidden (inactive, archived) or gone
  model,                                \* what resolve_role("embed") returns: the 1st, 2nd... model
  version,                              \* embedding_config.version
  since,                                \* the model when that version was set
  chunk,                                \* the kb_chunks row of an item
  due,                                  \* its backoff has elapsed
  tick,                                 \* where the running tick is
  edits, breaks                         \* bounds spent

vars == <<source, model, version, since, chunk, due, tick, edits, breaks>>

Idle == [pc |-> "idle"]
Live(i) == source[i].at = "live"

\* The rows _reap_orphans leaves: a message need only exist.
Keeps(i) == IF KindOf[i] = "message" THEN source[i].at # "gone" ELSE Live(i)

\* Bound: the sources start with one text, as texts of different rows are never compared.
Init ==
  /\ \E t \in Texts : source = [i \in Items |-> [text |-> t, at |-> "live"]]
  /\ model = 1 /\ version = 1 /\ since = 1
  /\ chunk = [i \in Items |-> NoChunk]
  /\ due = [i \in Items |-> FALSE]
  /\ tick = Idle
  /\ edits = 0 /\ breaks = 0

\* Mutant: rows that are up to date are embedded again with every tick.
Dirty_Always(i) == Live(i) /\ (chunk[i] = NoChunk \/ chunk[i].state # "dead")

\* _dirty_predicate.  The hash of a text is the text; a failure always leaves
\* attempts above 0, so a pending row waits for its backoff.
Dirty(i) ==
  /\ Live(i)
  /\ \/ chunk[i] = NoChunk
     \/ chunk[i] # NoChunk /\ chunk[i].hash # source[i].text
     \/ chunk[i] # NoChunk /\ chunk[i].state = "done" /\ chunk[i].vec.label < version
     \/ chunk[i] # NoChunk /\ chunk[i].state = "pending" /\ due[i]

Attempts(i) == IF chunk[i] = NoChunk THEN 0 ELSE chunk[i].attempts
Work(k) == {i \in Items : KindOf[i] = Kinds[k] /\ Dirty(i)}
First(S) == {i \in S : Cardinality({j \in S : j < i}) < BatchSize}
Here(pc, k) == [pc |-> pc, kind |-> k]
AfterKind(k) == IF k = Len(Kinds) THEN Here("reap", 1) ELSE Here("find", k + 1)
Unmoved == UNCHANGED <<source, model, version, since, edits, breaks>>

-----------------------------------------------------------------------------
(* A tick.  The scheduler runs one at a time.                                *)

StartTick == tick = Idle /\ tick' = Here("find", 1) /\ Unmoved /\ UNCHANGED <<chunk, due>>

\* _reconcile_*: texts and attempts are read here, and used until the batch is stored.
Find ==
  /\ tick.pc = "find"
  /\ LET batch == First(Work(tick.kind)) IN
       tick' = IF batch = {} THEN AfterKind(tick.kind)
               ELSE [pc |-> "config", kind |-> tick.kind,
                     batch |-> [i \in batch |-> [text |-> source[i].text, tries |-> Attempts(i)]]]
  /\ Unmoved /\ UNCHANGED <<chunk, due>>

\* _process_batch: the version that the rows will be labelled with.
ReadConfig ==
  /\ tick.pc = "config"
  /\ tick' = [pc |-> "embed", kind |-> tick.kind, batch |-> tick.batch, label |-> version]
  /\ Unmoved /\ UNCHANGED <<chunk, due>>

\* Mutant: the label is read when the vectors are there.
Embed_LabelsLater ==
  /\ tick.pc = "embed"
  /\ \E now \in version..MaxVersion :
       tick' = [pc |-> "store", kind |-> tick.kind, batch |-> tick.batch, label |-> now,
                model |-> model, got |-> DOMAIN tick.batch, permanent |-> FALSE]
  /\ Unmoved /\ UNCHANGED <<chunk, due>>

\* embed_batch resolves the role again, later than the version was read.  It gives all
\* vectors, a short answer, none (down, slow), or a wrong dimension, which is permanent.
Embed ==
  /\ tick.pc = "embed"
  /\ \E got \in SUBSET DOMAIN tick.batch, permanent \in BOOLEAN :
       /\ \A i \in got, j \in DOMAIN tick.batch : j < i => j \in got
       /\ permanent => got = {}
       /\ tick' = [pc |-> "store", kind |-> tick.kind, batch |-> tick.batch, label |-> tick.label,
                   model |-> model, got |-> got, permanent |-> permanent]
  /\ Unmoved /\ UNCHANGED <<chunk, due>>

\* Mutant: the cap is reached one try late.
Failed_OneLate(b, permanent) ==
  [state |-> IF permanent \/ b.tries >= MaxAttempts THEN "dead" ELSE "pending",
   hash |-> b.text, vec |-> NoVec, attempts |-> b.tries + 1]

\* Mutant: a failure does not count, so a row is retried for ever.
Failed_NotCounted(b, permanent) ==
  [state |-> IF permanent THEN "dead" ELSE "pending", hash |-> b.text, vec |-> NoVec, attempts |-> b.tries]

Embedded(b, label, with) ==
  [state |-> "done", hash |-> b.text, attempts |-> 0,
   vec |-> [of |-> b.text, model |-> with, label |-> label]]

Failed(b, permanent) ==
  [state |-> IF permanent \/ b.tries + 1 >= MaxAttempts THEN "dead" ELSE "pending",
   hash |-> b.text, vec |-> NoVec, attempts |-> b.tries + 1]

\* One transaction of upserts, also for a source that was deleted meanwhile.
Store ==
  /\ tick.pc = "store"
  /\ chunk' = [i \in Items |->
       IF i \notin DOMAIN tick.batch THEN chunk[i]
       ELSE IF i \in tick.got THEN Embedded(tick.batch[i], tick.label, tick.model)
       ELSE Failed(tick.batch[i], tick.permanent)]
  /\ due' = [i \in Items |-> due[i] /\ i \notin DOMAIN tick.batch]
  /\ tick' = AfterKind(tick.kind)
  /\ Unmoved

\* Mutant: hidden sources keep their chunks.
Reap_OnlyGone ==
  /\ tick.pc = "reap"
  /\ chunk' = [i \in Items |-> IF KindOf[i] = Kinds[tick.kind] /\ source[i].at = "gone" THEN NoChunk ELSE chunk[i]]
  /\ tick' = IF tick.kind = Len(Kinds) THEN Idle ELSE Here("reap", tick.kind + 1)
  /\ Unmoved /\ UNCHANGED due

\* _reap_orphans: one DELETE per kind.
Reap ==
  /\ tick.pc = "reap"
  /\ chunk' = [i \in Items |-> IF KindOf[i] = Kinds[tick.kind] /\ ~Keeps(i) THEN NoChunk ELSE chunk[i]]
  /\ tick' = IF tick.kind = Len(Kinds) THEN Idle ELSE Here("reap", tick.kind + 1)
  /\ Unmoved /\ UNCHANGED due

\* A statement raises, and run_tick skips what is left of the tick; or a restart.
Break ==
  /\ tick # Idle /\ breaks < MaxBreaks
  /\ tick' = Idle /\ breaks' = breaks + 1
  /\ UNCHANGED <<source, model, version, since, chunk, due, edits>>

-----------------------------------------------------------------------------
(* The environment                                                           *)

\* updated_at < now() - backoff_base * 2 ^ attempts
Elapse(i) ==
  /\ chunk[i] # NoChunk /\ chunk[i].state = "pending" /\ ~due[i]
  /\ due' = [due EXCEPT ![i] = TRUE]
  /\ Unmoved /\ UNCHANGED <<chunk, tick>>

Change(i, s) ==
  /\ edits < MaxEdits
  /\ source' = [source EXCEPT ![i] = s] /\ edits' = edits + 1
  /\ UNCHANGED <<model, version, since, chunk, due, tick, breaks>>

\* A fact is learned anew, a list renamed or given another type.  Messages stay as
\* they are.
Edit(i) ==
  /\ KindOf[i] # "message" /\ source[i].at # "gone"
  /\ KindOf[i] = "entity" => Live(i)
  /\ \E t \in Texts : Change(i, [source[i] EXCEPT !.text = t])

\* An entity is deactivated, a list archived or restored.
Hide(i) ==
  /\ KindOf[i] # "message" /\ source[i].at # "gone"
  /\ KindOf[i] = "entity" => Live(i)
  /\ Change(i, [source[i] EXCEPT !.at = IF @ = "live" THEN "hidden" ELSE "live"])

\* A message goes with its conversation; entities are not deleted.
Remove(i) ==
  /\ KindOf[i] # "entity" /\ source[i].at # "gone"
  /\ Change(i, [source[i] EXCEPT !.at = "gone"])

\* set_model_alias: the role gets another model, and the version stays.
SetAlias ==
  /\ model < MaxModel /\ model' = model + 1
  /\ UNCHANGED <<source, version, since, chunk, due, tick, edits, breaks>>

\* Nothing in the backend writes embedding_config: a migration or an operator does.
Bump ==
  /\ version < MaxVersion /\ version' = version + 1 /\ since' = model
  /\ UNCHANGED <<source, model, chunk, due, tick, edits, breaks>>

Run == StartTick \/ Find \/ ReadConfig \/ Embed \/ Store \/ Reap

Next ==
  \/ Run \/ Break \/ SetAlias \/ Bump
  \/ \E i \in Items : Elapse(i) \/ Edit(i) \/ Hide(i) \/ Remove(i)

Spec == Init /\ [][Next]_vars

\* The scheduler starts ticks, statements and the embedding server answer, fail or
\* time out, and time passes.  Nobody has to edit anything.
FairSpec == Spec /\ WF_vars(Run) /\ \A i \in Items : WF_vars(Elapse(i))

-----------------------------------------------------------------------------
(* Properties                                                                *)

\* A chunk holds a vector exactly when it is done; a pending one has tries left.  An
\* edit does not reset the attempts: a dead row that is edited gets one more try.
TypeOK ==
  /\ source \in [Items -> [text : Texts, at : {"live", "hidden", "gone"}]]
  /\ model \in 1..MaxModel /\ version \in 1..MaxVersion /\ since \in 1..model
  /\ \A i \in Items : chunk[i] # NoChunk =>
       /\ chunk[i] \in Chunks
       /\ chunk[i].vec # NoVec <=> chunk[i].state = "done"
       /\ chunk[i].state = "pending" => chunk[i].attempts \in 1..(MaxAttempts - 1)
  /\ due \in [Items -> BOOLEAN]
  /\ edits \in 0..MaxEdits /\ breaks \in 0..MaxBreaks

\* The vector that search ranks for an item: labelled with the current version.
Searchable(i) == chunk[i] # NoChunk /\ chunk[i].state = "done" /\ chunk[i].vec.label = version

\* When the version moves on, no vector of an earlier model is ranked with the later
\* ones, however the change fell between the reads of a tick under way: "a re-embed
\* wave never mixes vector spaces" for an operator who changes model and then version.
NothingFromBefore == \A i \in Items : Searchable(i) => chunk[i].vec.model >= since

Fresh(i) == Searchable(i) /\ chunk[i].hash = source[i].text
Dead(i) == chunk[i] # NoChunk /\ chunk[i].state = "dead"

\* An up-to-date vector stays until its source or the version changes, whatever
\* batches fail and ticks break.  The exception is a batch that read another text,
\* from before an edit that was taken back: stored late, it puts the row back to work.
FreshStays ==
  [][\A i \in Items :
       Fresh(i) /\ Live(i) /\ source'[i] = source[i] /\ version' = version =>
         \/ chunk'[i] = chunk[i]
         \/ tick.pc = "store" /\ i \in DOMAIN tick.batch /\ tick.batch[i].text # source[i].text]_vars

\* Once the edits stop, every live source is searchable with its current text and
\* version, or was given up: batches, backoff and broken ticks starve nobody.
Settles == \A i \in Items : <>[](Live(i) => Fresh(i) \/ Dead(i))

\* The chunk of a deleted, deactivated or archived source goes, also one that a late
\* batch stores afterwards.
OrphansGo == \A i \in Items : ~Keeps(i) ~> (chunk[i] = NoChunk \/ Keeps(i))
=============================================================================
