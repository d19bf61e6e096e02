---------------------------- MODULE CascadeProofs ----------------------------
(* For any transactions, merchants, categories, runs, thresholds and         *)
(* confidences: the types of Cascade, that what people chose stands, that    *)
(* the decision log is true, and that a shadow run writes nothing.           *)
(*                                                                           *)
(* A run carries a decision that it made from a snapshot, so the properties  *)
(* rest on what the Writer checks when it writes, and on what a decision is  *)
(* when it is carried: GateInv.                                              *)
EXTENDS Cascade, TLAPS

\* A decision that will be written on its own cleared the gate of its tier.
GateInv == \A r \in Runs : run[r].auto => Clears(run[r].d)

\* A transfer flag that a person set is marked as manual.
ManualInv == \A t \in Txns : marked[t] # {} => row[t].manual

\* Whatever settles a row is what a person did to it last.
SettledInv == \A t \in Txns : row[t].override => row[t].by = "human"

IInv ==
  /\ TypeOK /\ GateInv /\ ManualInv /\ SettledInv
  /\ HumanCategoryStands /\ HumanTransferStands /\ LogMatchesRow /\ AppliedClearsItsGate

Numbers == {1, 2, 3, 4, 5}

\* Among a few numbers there is a smallest.
LEMMA SmallestIs ==
  ASSUME NEW S \in SUBSET Numbers, S # {}
  PROVE  Min(S) \in S
<1>1. S \in SUBSET {1, 2, 3, 4, 5}
  BY DEF Numbers
<1>2. \E x \in S : \A y \in S : x <= y
  <2>1. CASE 1 \in S
    BY <1>1, <2>1
  <2>2. CASE 1 \notin S /\ 2 \in S
    BY <1>1, <2>2
  <2>3. CASE 1 \notin S /\ 2 \notin S /\ 3 \in S
    BY <1>1, <2>3
  <2>4. CASE 1 \notin S /\ 2 \notin S /\ 3 \notin S /\ 4 \in S
    BY <1>1, <2>4
  <2>5. CASE S = {5}
    BY <2>5
  <2> QED BY <1>1, <2>1, <2>2, <2>3, <2>4, <2>5
<1> QED BY <1>2 DEF Min

\* Among the first k candidates there is one that none of them beats.
Leads(ds, S, i) ==
  \A j \in S : ds[j].conf < ds[i].conf \/ (ds[j].conf = ds[i].conf /\ j >= i)

LEMMA LeaderJoined ==
  ASSUME NEW ds, NEW S \in SUBSET Numbers, NEW k \in Numbers, \A j \in S : j < k,
         \A j \in S \cup {k} : ds[j].conf \in Int,
         S = {} \/ \E i \in S : Leads(ds, S, i)
  PROVE  \E i \in S \cup {k} : Leads(ds, S \cup {k}, i)
<1>1. CASE S = {}
  BY <1>1 DEF Leads, Numbers
<1>2. ASSUME NEW i \in S, Leads(ds, S, i)
      PROVE  \E n \in S \cup {k} : Leads(ds, S \cup {k}, n)
  <2>3. ds[k].conf \in Int /\ ds[i].conf \in Int
    BY <1>2
  <2>1. CASE ds[k].conf <= ds[i].conf
    <3>1. Leads(ds, S \cup {k}, i)
      BY <1>2, <2>1 DEF Leads, Numbers
    <3> QED BY <3>1
  <2>2. CASE ds[k].conf > ds[i].conf
    <3>1. Leads(ds, S \cup {k}, k)
      BY <1>2, <2>2 DEF Leads, Numbers
    <3> QED BY <3>1
  <2>4. ds[k].conf <= ds[i].conf \/ ds[k].conf > ds[i].conf
    BY <2>3
  <2> QED BY <2>1, <2>2, <2>4
<1> QED BY <1>1, <1>2

LEMMA LeaderExists ==
  ASSUME NEW ds, NEW S \in SUBSET Numbers, S # {}, \A j \in S : ds[j].conf \in Int
  PROVE  \E i \in S : Leads(ds, S, i)
<1> DEFINE Upto(k) == {j \in S : j <= k}
<1> DEFINE Led(k) == Upto(k) = {} \/ \E i \in Upto(k) : Leads(ds, Upto(k), i)
<1>0. \A j \in S : j \in Int /\ 1 <= j /\ j <= 5
  BY DEF Numbers
<1>1. ASSUME NEW k \in 0 .. 4, Led(k) PROVE Led(k + 1)
  <2>1. CASE k + 1 \in S
    <3>3. Upto(k + 1) = Upto(k) \cup {k + 1}
      BY <1>0, <2>1
    <3>1. /\ Upto(k) \in SUBSET Numbers /\ k + 1 \in Numbers
          /\ \A j \in Upto(k) : j < k + 1
          /\ \A j \in Upto(k) \cup {k + 1} : ds[j].conf \in Int
      BY <1>0, <2>1
    <3> HIDE DEF Upto
    <3>2. \E i \in Upto(k) \cup {k + 1} : Leads(ds, Upto(k) \cup {k + 1}, i)
      BY <1>1, <3>1, LeaderJoined
    <3> QED BY <3>2, <3>3
  <2>2. CASE k + 1 \notin S
    <3>1. Upto(k + 1) = Upto(k)
      BY <1>0, <2>2
    <3> QED BY <1>1, <3>1
  <2> QED BY <2>1, <2>2
<1>2. Led(0)
  BY <1>0
<1>3. Upto(5) = S
  BY <1>0
<1> HIDE DEF Led
<1>4. Led(5)
  <2>1. Led(1)
    BY <1>1, <1>2
  <2>2. Led(2)
    BY <1>1, <2>1
  <2>3. Led(3)
    BY <1>1, <2>2
  <2>4. Led(4)
    BY <1>1, <2>3
  <2> QED BY <1>1, <2>4
<1> QED BY <1>3, <1>4 DEF Led

\* What the pipeline returns is a decision of one of its tiers or an abstention, and
\* it is written on its own only if it clears that tier's threshold.
LEMMA PipelineIs ==
  ASSUME NEW ds, DOMAIN ds = Numbers, \A i \in Numbers : ds[i] \in Decisions
  PROVE  /\ Pipeline(ds).d \in Decisions /\ Pipeline(ds).auto \in BOOLEAN
         /\ Pipeline(ds).auto => Clears(Pipeline(ds).d)
<1> DEFINE stop == {i \in DOMAIN ds : Stops(ds[i])}
<1> DEFINE cand == {i \in DOMAIN ds : ds[i].cat # NoCat}
<1> DEFINE best == {i \in cand : \A j \in cand : ds[j].conf < ds[i].conf \/ (ds[j].conf = ds[i].conf /\ j >= i)}
<1>1. CASE stop # {}
  <2>1. Min(stop) \in stop /\ stop \subseteq Numbers
    BY <1>1, SmallestIs
  <2>2. Pipeline(ds) = [d |-> ds[Min(stop)], auto |-> Clears(ds[Min(stop)])]
    BY <1>1 DEF Pipeline
  <2>3. Clears(ds[Min(stop)]) \in BOOLEAN
    BY DEF Clears
  <2> HIDE DEF stop
  <2> QED BY <2>1, <2>2, <2>3
<1>2. CASE stop = {} /\ cand # {}
  <2>1. cand \in SUBSET Numbers /\ \A j \in cand : ds[j].conf \in Int
    BY DEF Decisions
  <2>2. \E i \in cand : Leads(ds, cand, i)
    BY <1>2, <2>1, LeaderExists
  <2>3. best # {}
    BY <2>2 DEF Leads
  <2>4. (CHOOSE i \in best : TRUE) \in Numbers
    BY <2>1, <2>3
  <2>5. Pipeline(ds) = [d |-> ds[CHOOSE i \in best : TRUE], auto |-> FALSE]
    BY <1>2 DEF Pipeline
  <2> HIDE DEF best
  <2> QED BY <2>4, <2>5
<1>3. CASE stop = {} /\ cand = {}
  <2>1. Pipeline(ds) = [d |-> Abstain, auto |-> FALSE]
    BY <1>3 DEF Pipeline
  <2>2. Abstain \in Decisions
    BY DEF Abstain, Decision, Decisions, Tiers
  <2> QED BY <2>1, <2>2
<1> QED BY <1>1, <1>2, <1>3

\* The answers of a tier are decisions.
LEMMA AnswersAre ==
  ASSUME NEW tier \in Tiers
  PROVE  Answers(tier) \subseteq Decisions /\ Abstain \in Decisions
<1>1. Abstain \in Decisions
  BY DEF Abstain, Decision, Decisions, Tiers
<1>2. \A p \in Conf[tier] : p \in 0 .. 100
  BY CascadeAssumption
<1>3. \A p \in Conf[tier] : Decision(tier, NoCat, p, TRUE, p >= Threshold[tier]) \in Decisions
  BY <1>2 DEF Decision, Decisions
<1>4. \A c \in Cats, p \in Conf[tier] : Decision(tier, c, p, FALSE, tier = "rule") \in Decisions
  BY <1>2 DEF Decision, Decisions
<1>5. ASSUME NEW x \in Answers(tier), x # Abstain
      PROVE  x \in Decisions
  <2>1. CASE tier = "transfer"
    <3>1. \E p \in Conf[tier] : x = Decision(tier, NoCat, p, TRUE, p >= Threshold[tier])
      BY <1>5, <2>1, SMT DEF Answers, Decision
    <3> QED BY <1>3, <3>1
  <2>2. CASE tier # "transfer"
    <3>1. \E c \in Cats, p \in Conf[tier] : x = Decision(tier, c, p, FALSE, tier = "rule")
      BY <1>5, <2>2, SMT DEF Answers, Decision
    <3> QED BY <1>4, <3>1
  <2> QED BY <2>1, <2>2
<1> QED BY <1>1, <1>5

LEMMA OutcomesAre ==
  ASSUME NEW x \in BOOLEAN, NEW out \in Outcomes(x)
  PROVE  out.d \in Decisions /\ out.auto \in BOOLEAN /\ (out.auto => Clears(out.d))
<1> DEFINE P(a, b, c, d, e) == Pipeline(<<a, b, c, d, e>>)
<1>6. Outcomes(x) = {P(a, b, c, d, e) :
        a \in IF x THEN Answers("transfer") ELSE {Abstain}, b \in Answers("rule"),
        c \in Answers("merchant_memory"), d \in Answers("embedding_knn"), e \in Answers("llm")}
  BY DEF Outcomes
<1> HIDE DEF P
<1>1. PICK a \in IF x THEN Answers("transfer") ELSE {Abstain}, b \in Answers("rule"),
           c \in Answers("merchant_memory"), d \in Answers("embedding_knn"), e \in Answers("llm") :
        out = P(a, b, c, d, e)
  BY <1>6
<1>2. {a, b, c, d, e} \subseteq Decisions
  BY AnswersAre DEF Tiers
<1> DEFINE ds == <<a, b, c, d, e>>
<1>3. DOMAIN ds = Numbers
  BY DEF Numbers
<1>4. \A i \in Numbers : ds[i] \in Decisions
  BY <1>2 DEF Numbers
<1> HIDE DEF ds
<1>5. /\ Pipeline(ds).d \in Decisions /\ Pipeline(ds).auto \in BOOLEAN
      /\ Pipeline(ds).auto => Clears(Pipeline(ds).d)
  BY <1>3, <1>4, PipelineIs
<1> QED BY <1>1, <1>5 DEF ds, P

-----------------------------------------------------------------------------
LEMMA InitInv == Init => IInv
<1> SUFFICES ASSUME Init PROVE IInv
  OBVIOUS
<1>1. Abstain \in Decisions /\ Abstain.tier = "none"
  BY DEF Abstain, Decision, Decisions, Tiers
<1>2. TypeOK
  BY <1>1 DEF Init, TypeOK, Idle, NoRequest
<1> QED BY <1>1, <1>2 DEF Init, IInv, GateInv, ManualInv, SettledInv, Idle,
             HumanCategoryStands, HumanTransferStands, LogMatchesRow, AppliedClearsItsGate

\* The type of a row and of a run.
RowType == [cat : Cats \cup {NoCat}, override : BOOLEAN, transfer : BOOLEAN, manual : BOOLEAN,
            split : BOOLEAN, by : {"none", "cascade", "legacy", "rule", "human"}]
RunType == [pc : {"idle", "row", "write"}, engine : {"legacy", "shadow", "cascade"},
            todo : SUBSET Txns, manual : SUBSET Txns, txn : SUBSET Txns, d : Decisions, auto : BOOLEAN]

RunIs(v) == v \in RunType /\ (v.pc = "write") = (v.txn # {}) /\ v.txn \cap v.todo = {} /\ (v.auto => Clears(v.d))

\* The type of a request, and what it logs is of its merchant.
BulkType == [pc : {"idle", "seen", "logged"}, of : SUBSET Txns, cat : Cats \cup {NoCat}, rows : SUBSET Txns]

BulkIs(b) == /\ b \in [Requests -> BulkType]
             /\ \A k \in Requests : b[k].rows \subseteq b[k].of /\ (b[k].pc # "idle" => b[k].cat \in Cats)

LEMMA BulkKept == IInv => BulkIs(bulk)
BY DEF IInv, TypeOK, BulkIs, BulkType

LEMMA OutdatedIs ==
  ASSUME IInv, NEW t
  PROVE  BulkIs(Outdated(t))
<1>1. BulkIs(bulk)
  BY BulkKept
<1>2. ASSUME NEW k \in Requests
      PROVE  /\ Outdated(t)[k] \in BulkType
             /\ Outdated(t)[k].rows \subseteq Outdated(t)[k].of
             /\ Outdated(t)[k].pc # "idle" => Outdated(t)[k].cat \in Cats
  <2>1. bulk[k] \in BulkType /\ bulk[k].rows \subseteq bulk[k].of /\ (bulk[k].pc # "idle" => bulk[k].cat \in Cats)
    BY <1>1 DEF BulkIs
  <2>2. CASE bulk[k].pc = "logged"
    <3>1. Outdated(t)[k] = [bulk[k] EXCEPT !.rows = @ \ {t}]
      BY <2>2 DEF Outdated
    <3> QED BY <2>1, <3>1 DEF BulkType
  <2>3. CASE bulk[k].pc # "logged"
    <3>1. Outdated(t)[k] = bulk[k]
      BY <2>3 DEF Outdated
    <3> QED BY <2>1, <3>1
  <2> QED BY <2>2, <2>3
<1> QED BY <1>2 DEF BulkIs, Outdated

\* A run moves and the rows stay.
LEMMA RunStepInv ==
  ASSUME IInv, NEW r \in Runs, NEW v, RunIs(v), run' = [run EXCEPT ![r] = v],
         UNCHANGED <<row, engine, bulk, log, human, marked>>
  PROVE  IInv'
<1>1. \A s \in Runs : run'[s] = IF s = r THEN v ELSE run[s]
  BY DEF IInv, TypeOK
<1>2. run' \in [Runs -> RunType] /\ \A s \in Runs : RunIs(run'[s])
  BY <1>1 DEF IInv, TypeOK, RunIs, RunType, GateInv
<1>3. TypeOK'
  BY <1>2 DEF IInv, TypeOK, RunIs, RunType, log
<1>4. GateInv'
  BY <1>2 DEF GateInv, RunIs, Clears
<1> QED BY <1>3, <1>4 DEF IInv, ManualInv, SettledInv, HumanCategoryStands, HumanTransferStands,
             LogMatchesRow, AppliedClearsItsGate, log

LEMMA RunsAre ==
  ASSUME IInv, NEW r \in Runs
  PROVE  RunIs(run[r])
BY DEF IInv, TypeOK, GateInv, RunIs, RunType

LEMMA StartRunInv ==
  ASSUME IInv, NEW r \in Runs, StartRun(r)
  PROVE  IInv'
<1> DEFINE v == [Idle EXCEPT !.pc = "row", !.engine = engine, !.todo = WorkSet(engine),
                             !.manual = {t \in Txns : row[t].manual}]
<1>1. Abstain \in Decisions
  BY DEF Abstain, Decision, Decisions, Tiers
<1>2. engine \in {"legacy", "shadow", "cascade"} /\ WorkSet(engine) \subseteq Txns
  BY DEF IInv, TypeOK, WorkSet
<1>3. RunIs(v)
  BY <1>1, <1>2 DEF RunIs, RunType, Idle
<1>4. run' = [run EXCEPT ![r] = v] /\ UNCHANGED <<row, engine, bulk, log, human, marked>>
  BY DEF StartRun
<1> HIDE DEF v
<1> QED BY <1>3, <1>4, RunStepInv

LEMMA EndRunInv ==
  ASSUME IInv, NEW r \in Runs, EndRun(r)
  PROVE  IInv'
<1>1. Abstain \in Decisions
  BY DEF Abstain, Decision, Decisions, Tiers
<1>2. RunIs(Idle)
  BY <1>1 DEF RunIs, RunType, Idle
<1> QED BY <1>2, RunStepInv DEF EndRun

LEMMA ClassifyInv ==
  ASSUME IInv, NEW r \in Runs, Classify(r)
  PROVE  IInv'
<1>1. RunIs(run[r]) /\ run[r].pc = "row" /\ UNCHANGED <<row, engine, bulk, log, human, marked>>
  BY RunsAre DEF Classify
<1>2. ASSUME NEW t \in run[r].todo, run' = [run EXCEPT ![r].todo = @ \ {t}]
      PROVE  IInv'
  <2> DEFINE v == [run[r] EXCEPT !.todo = @ \ {t}]
  <2>1. RunIs(v)
    BY <1>1 DEF RunIs, RunType
  <2>2. run' = [run EXCEPT ![r] = v]
    BY <1>2
  <2> HIDE DEF v
  <2> QED BY <1>1, <2>1, <2>2, RunStepInv
<1>3. ASSUME NEW t \in run[r].todo, NEW out, out.d \in Decisions, out.auto \in BOOLEAN,
             out.auto => Clears(out.d),
             run' = [run EXCEPT ![r] = [run[r] EXCEPT !.pc = "write", !.todo = @ \ {t}, !.txn = {t},
                                                 !.d = out.d, !.auto = out.auto]]
      PROVE  IInv'
  <2> DEFINE v == [run[r] EXCEPT !.pc = "write", !.todo = @ \ {t}, !.txn = {t},
                                 !.d = out.d, !.auto = out.auto]
  <2>1. RunIs(v)
    BY <1>1, <1>3 DEF RunIs, RunType
  <2>2. run' = [run EXCEPT ![r] = v]
    BY <1>3
  <2> HIDE DEF v
  <2> QED BY <1>1, <2>1, <2>2, RunStepInv
<1>4. \A out \in AllOutcomes \cup NoTransferOutcomes :
        out.d \in Decisions /\ out.auto \in BOOLEAN /\ (out.auto => Clears(out.d))
  BY OutcomesAre DEF AllOutcomes, NoTransferOutcomes
<1>5. CASE \E t \in run[r].todo : run' = [run EXCEPT ![r].todo = @ \ {t}]
  BY <1>2, <1>5
<1>6. CASE \E t \in run[r].todo : \E out \in AllOutcomes \cup NoTransferOutcomes :
             run' = [run EXCEPT ![r] = [run[r] EXCEPT !.pc = "write", !.todo = @ \ {t}, !.txn = {t},
                                                 !.d = out.d, !.auto = out.auto]]
  BY <1>3, <1>4, <1>6
<1> QED BY <1>5, <1>6 DEF Classify

\* The rows change in the columns that a run may change, nobody's choice does, and
\* what is written is logged.
LEMMA WriteInv ==
  ASSUME IInv, NEW r \in Runs, Write(r)
  PROVE  IInv'
<1> DEFINE v == [run[r] EXCEPT !.pc = "row", !.txn = {}, !.d = Abstain, !.auto = FALSE]
<1>1. PICK t \in run[r].txn :
        /\ row' = [row EXCEPT ![t] =
             IF WritesCategory(r, t) THEN [@ EXCEPT !.cat = run[r].d.cat, !.by = "cascade"]
             ELSE IF WritesTransfer(r, t) THEN [@ EXCEPT !.transfer = TRUE] ELSE @]
        /\ applied' = [applied EXCEPT ![t] = Logged(r, t)]
        /\ flagged' = [flagged EXCEPT ![t] = IF WritesTransfer(r, t) THEN run[r].d ELSE @]
        /\ claimed' = IF WritesCategory(r, t) THEN claimed \ {t} ELSE claimed
        /\ bulk' = IF WritesCategory(r, t) THEN Outdated(t) ELSE bulk
  BY DEF Write
<1>2. run' = [run EXCEPT ![r] = v] /\ UNCHANGED <<engine, human, marked>>
  BY DEF Write
<1>3. RunIs(run[r]) /\ t \in Txns /\ run[r].d \in Decisions
  BY RunsAre DEF RunIs, RunType
<1>4. Abstain \in Decisions
  BY DEF Abstain, Decision, Decisions, Tiers
<1>5. RunIs(v)
  BY <1>3, <1>4 DEF RunIs, RunType
<1> HIDE DEF v
<1>6. run' \in [Runs -> RunType] /\ \A s \in Runs : RunIs(run'[s])
  BY <1>2, <1>5, RunsAre DEF IInv, TypeOK, RunIs, RunType
<1>7. /\ row \in [Txns -> RowType] /\ applied \in [Txns -> Decisions]
      /\ flagged \in [Txns -> Decisions] /\ claimed \subseteq Txns
  BY DEF IInv, TypeOK, RowType
<1>8. \A x \in Txns \ {t} : row'[x] = row[x] /\ applied'[x] = applied[x] /\ flagged'[x] = flagged[x]
  BY <1>1, <1>7
<1>9. GateInv'
  BY <1>6 DEF GateInv, RunIs, Clears
<1>10. CASE WritesCategory(r, t)
  <2>0. ~WritesTransfer(r, t)
    BY <1>10 DEF WritesCategory, WritesTransfer
  <2>1. /\ row' = [row EXCEPT ![t] = [@ EXCEPT !.cat = run[r].d.cat, !.by = "cascade"]]
        /\ flagged' = flagged /\ claimed' = claimed \ {t} /\ bulk' = Outdated(t)
    BY <1>1, <1>7, <1>10, <2>0
  <2>2. row'[t] = [row[t] EXCEPT !.cat = run[r].d.cat, !.by = "cascade"] /\ applied'[t] = run[r].d
    BY <1>1, <1>3, <1>7, <1>10, <2>1 DEF Logged
  <2>3. row' \in [Txns -> RowType] /\ applied' \in [Txns -> Decisions]
    <3>1. row[t] \in RowType /\ run[r].d.cat \in Cats \cup {NoCat}
      BY <1>3, <1>7 DEF Decisions
    <3>2. row'[t] \in RowType /\ applied'[t] \in Decisions
      BY <1>3, <2>2, <3>1 DEF RowType
    <3> QED BY <1>1, <1>3, <1>7, <1>8, <2>1, <3>2
  <2>4. /\ row'[t].cat = run[r].d.cat /\ row'[t].by = "cascade"
        /\ row'[t].manual = row[t].manual /\ row'[t].transfer = row[t].transfer
        /\ row'[t].override = row[t].override /\ ~row[t].override
    BY <1>3, <1>7, <1>10, <2>2 DEF RowType, WritesCategory
  <2>5. Clears(run[r].d)
    BY <1>3, <1>10 DEF WritesCategory, RunIs
  <2>6. BulkIs(bulk')
    BY <2>1, OutdatedIs
  <2>7. TypeOK'
    BY <1>2, <1>6, <1>7, <2>1, <2>3, <2>6 DEF IInv, TypeOK, RunIs, RunType, RowType, BulkIs, BulkType
  <2>8. ManualInv' /\ SettledInv' /\ HumanCategoryStands' /\ HumanTransferStands'
    BY <1>2, <1>8, <2>4 DEF IInv, ManualInv, SettledInv, HumanCategoryStands, HumanTransferStands
  <2>9. LogMatchesRow'
    BY <1>8, <2>1, <2>2, <2>4 DEF IInv, LogMatchesRow
  <2>10. AppliedClearsItsGate'
    BY <1>8, <2>1, <2>2, <2>5 DEF IInv, AppliedClearsItsGate, Clears
  <2> QED BY <1>9, <2>7, <2>8, <2>9, <2>10 DEF IInv
<1>11. CASE ~WritesCategory(r, t) /\ WritesTransfer(r, t)
  <2>1. /\ row' = [row EXCEPT ![t] = [@ EXCEPT !.transfer = TRUE]]
        /\ flagged' = [flagged EXCEPT ![t] = run[r].d] /\ claimed' = claimed /\ bulk' = bulk
    BY <1>1, <1>11
  <2>2. row'[t] = [row[t] EXCEPT !.transfer = TRUE] /\ flagged'[t] = run[r].d /\ applied' = applied
    BY <1>1, <1>3, <1>7, <1>11, <2>1 DEF Logged
  <2>3. row' \in [Txns -> RowType] /\ flagged' \in [Txns -> Decisions]
    <3>1. row[t] \in RowType
      BY <1>3, <1>7
    <3>2. row'[t] \in RowType /\ flagged'[t] \in Decisions
      BY <1>3, <2>2, <3>1 DEF RowType
    <3> QED BY <1>1, <1>3, <1>7, <1>8, <2>1, <3>2
  <2>4. /\ row'[t].cat = row[t].cat /\ row'[t].by = row[t].by
        /\ row'[t].manual = row[t].manual /\ ~row[t].manual
        /\ row'[t].override = row[t].override
    BY <1>3, <1>7, <1>11, <2>2 DEF RowType, WritesTransfer
  <2>5. Clears(run[r].d) /\ run[r].d.xfer
    BY <1>3, <1>11 DEF WritesTransfer, RunIs
  <2>6. TypeOK'
    BY <1>2, <1>6, <2>1, <2>2, <2>3 DEF IInv, TypeOK, RunIs, RunType, RowType
  <2>8. ManualInv' /\ SettledInv' /\ HumanCategoryStands' /\ HumanTransferStands'
    BY <1>2, <1>8, <2>4 DEF IInv, ManualInv, SettledInv, HumanCategoryStands, HumanTransferStands
  <2>9. LogMatchesRow'
    BY <1>8, <2>1, <2>2, <2>4, <2>5 DEF IInv, LogMatchesRow
  <2>10. AppliedClearsItsGate'
    BY <1>8, <2>1, <2>2, <2>5 DEF IInv, AppliedClearsItsGate, Clears
  <2> QED BY <1>9, <2>6, <2>8, <2>9, <2>10 DEF IInv
<1>12. CASE ~WritesCategory(r, t) /\ ~WritesTransfer(r, t)
  <2>1. row' = row /\ applied' = applied /\ flagged' = flagged /\ claimed' = claimed /\ bulk' = bulk
    BY <1>1, <1>7, <1>12 DEF Logged
  <2> QED BY <1>2, <1>5, <2>1, RunStepInv DEF log
<1> QED BY <1>10, <1>11, <1>12

LEMMA LegacyInv ==
  ASSUME IInv, NEW r \in Runs, Legacy(r)
  PROVE  IInv'
<1>1. PICK t \in run[r].todo :
        /\ run' = [run EXCEPT ![r].todo = @ \ {t}]
        /\ \/ UNCHANGED row
           \/ /\ ~row[t].override /\ row[t].cat = NoCat
              /\ \E c \in Cats : row' = [row EXCEPT ![t] = [@ EXCEPT !.cat = c, !.by = "legacy"]]
  BY DEF Legacy
<1> DEFINE v == [run[r] EXCEPT !.todo = @ \ {t}]
<1>2. UNCHANGED <<engine, bulk, log, human, marked>> /\ run[r].pc = "row"
  BY DEF Legacy
<1>3. RunIs(run[r]) /\ t \in Txns
  BY RunsAre DEF RunIs, RunType
<1>4. RunIs(v)
  BY <1>2, <1>3 DEF RunIs, RunType
<1>5. run' = [run EXCEPT ![r] = v]
  BY <1>1
<1> HIDE DEF v
<1>6. CASE UNCHANGED row
  BY <1>2, <1>4, <1>5, <1>6, RunStepInv
<1>7. ASSUME NEW c \in Cats, ~row[t].override,
             row' = [row EXCEPT ![t] = [@ EXCEPT !.cat = c, !.by = "legacy"]]
      PROVE  IInv'
  <2>1. row \in [Txns -> RowType]
    BY DEF IInv, TypeOK, RowType
  <2>2. row' \in [Txns -> RowType]
    BY <1>3, <1>7, <2>1 DEF RowType
  <2>3. /\ \A x \in Txns \ {t} : row'[x] = row[x]
        /\ row'[t].by = "legacy" /\ row'[t].override = row[t].override
        /\ row'[t].manual = row[t].manual /\ row'[t].transfer = row[t].transfer
    BY <1>3, <1>7, <2>1 DEF RowType
  <2>4. run' \in [Runs -> RunType] /\ \A s \in Runs : RunIs(run'[s])
    BY <1>4, <1>5, RunsAre DEF IInv, TypeOK, RunIs, RunType
  <2>5. TypeOK'
    BY <1>2, <2>2, <2>4 DEF IInv, TypeOK, RunIs, RunType, RowType, log
  <2>6. GateInv'
    BY <2>4 DEF GateInv, RunIs, Clears
  <2>7. ManualInv' /\ SettledInv' /\ HumanCategoryStands' /\ HumanTransferStands'
    BY <1>2, <1>7, <2>3 DEF IInv, ManualInv, SettledInv, HumanCategoryStands, HumanTransferStands
  <2>8. LogMatchesRow' /\ AppliedClearsItsGate'
    BY <1>2, <2>3 DEF IInv, LogMatchesRow, AppliedClearsItsGate, log
  <2> QED BY <2>5, <2>6, <2>7, <2>8 DEF IInv
<1> QED BY <1>1, <1>6, <1>7

\* People change rows: what is settled is what was chosen and theirs, only what the
\* cascade wrote, and nobody touched, still counts as its work, and what is logged
\* by hand is on rows that are not its work.
LEMMA PersonInv ==
  ASSUME IInv, UNCHANGED <<run, applied, flagged>>, engine' \in {"legacy", "shadow", "cascade"},
         row' \in [Txns -> RowType], human' \in [Txns -> Cats \cup {NoCat}],
         marked' \in [Txns -> SUBSET BOOLEAN], BulkIs(bulk'), claimed' \subseteq Txns,
         \A t \in Txns : row'[t].override => row'[t].cat = human'[t] /\ row'[t].by = "human",
         \A t \in Txns :
           \/ marked'[t] = {row'[t].transfer} /\ row'[t].manual
           \/ /\ marked'[t] = marked[t]
              /\ row'[t].transfer = row[t].transfer /\ row'[t].manual = row[t].manual,
         \A t \in Txns :
           row'[t].by = "cascade" =>
             row[t].by = "cascade" /\ row[t].cat = row'[t].cat /\ (t \in claimed' => t \in claimed)
  PROVE  IInv'
<1>1. TypeOK'
  BY DEF IInv, TypeOK, RowType, BulkIs, BulkType
<1>2. GateInv' /\ AppliedClearsItsGate'
  BY DEF IInv, GateInv, AppliedClearsItsGate, Clears
<1>3. ManualInv' /\ HumanTransferStands'
  BY DEF IInv, ManualInv, HumanTransferStands
<1>4. HumanCategoryStands' /\ SettledInv'
  BY DEF IInv, HumanCategoryStands, SettledInv
<1>5. LogMatchesRow'
  <2> SUFFICES ASSUME NEW t \in Txns
               PROVE  /\ row'[t].by = "cascade" => applied'[t].cat = row'[t].cat /\ t \notin claimed'
                      /\ row'[t].transfer /\ ~row'[t].manual => flagged'[t].xfer
    BY DEF LogMatchesRow
  <2>1. /\ row[t].by = "cascade" => applied[t].cat = row[t].cat /\ t \notin claimed
        /\ row[t].transfer /\ ~row[t].manual => flagged[t].xfer
    BY DEF IInv, LogMatchesRow
  <2> QED BY <2>1
<1> QED BY <1>1, <1>2, <1>3, <1>4, <1>5 DEF IInv

\* A category is set by hand on some rows.
LEMMA SetByHandInv ==
  ASSUME IInv, NEW ts \in SUBSET Txns, NEW c \in Cats, SetByHand(ts, c),
         UNCHANGED <<engine, run, applied, flagged, marked>>, BulkIs(bulk'), claimed' \subseteq Txns,
         \A t \in claimed' \ claimed : t \in ts \/ row[t].override
  PROVE  IInv'
<1>1. row \in [Txns -> RowType] /\ human \in [Txns -> Cats \cup {NoCat}]
      /\ engine \in {"legacy", "shadow", "cascade"} /\ marked \in [Txns -> SUBSET BOOLEAN]
  BY DEF IInv, TypeOK, RowType
<1>2. \A t \in ts :
        /\ row'[t] = [row[t] EXCEPT !.cat = c, !.override = TRUE, !.by = "human"] /\ human'[t] = c
        /\ row'[t] \in RowType
  <2> SUFFICES ASSUME NEW t \in ts
               PROVE  /\ row'[t] = [row[t] EXCEPT !.cat = c, !.override = TRUE, !.by = "human"] /\ human'[t] = c
                      /\ row'[t] \in RowType
    OBVIOUS
  <2>1. t \in Txns /\ row[t] \in RowType
    BY <1>1
  <2>2. row'[t] = [row[t] EXCEPT !.cat = c, !.override = TRUE, !.by = "human"] /\ human'[t] = c
    BY <2>1 DEF SetByHand
  <2> QED BY <2>1, <2>2 DEF RowType
<1>3. \A t \in Txns \ ts : row'[t] = row[t] /\ human'[t] = human[t]
  BY DEF SetByHand
<1>4. row' \in [Txns -> RowType] /\ human' \in [Txns -> Cats \cup {NoCat}]
  <2>1. \A t \in Txns : row'[t] \in RowType /\ human'[t] \in Cats \cup {NoCat}
    BY <1>1, <1>2, <1>3
  <2> QED BY <2>1 DEF SetByHand
<1>5. \A t \in ts : /\ row'[t].cat = c /\ row'[t].by = "human"
                    /\ row'[t].transfer = row[t].transfer /\ row'[t].manual = row[t].manual
  <2> TAKE t \in ts
  <2>1. row[t] \in RowType /\ row'[t] = [row[t] EXCEPT !.cat = c, !.override = TRUE, !.by = "human"]
    BY <1>1, <1>2
  <2> QED BY <2>1 DEF RowType
<1>6. \A t \in Txns : row'[t].override => row'[t].cat = human'[t] /\ row'[t].by = "human"
  BY <1>2, <1>3, <1>5 DEF IInv, HumanCategoryStands, SettledInv
<1>7. \A t \in Txns :
        /\ marked'[t] = marked[t]
        /\ row'[t].transfer = row[t].transfer /\ row'[t].manual = row[t].manual
        /\ row'[t].by = "cascade" =>
             row[t].by = "cascade" /\ row[t].cat = row'[t].cat /\ (t \in claimed' => t \in claimed)
  BY <1>3, <1>5 DEF IInv, SettledInv
<1> QED BY <1>1, <1>4, <1>6, <1>7, PersonInv

\* A rule is applied to the rows that nobody settled.
LEMMA ApplyRuleInv ==
  ASSUME IInv, NEW m, NEW c \in Cats, ApplyRule(m, c)
  PROVE  IInv'
<1> DEFINE ts == {t \in Unsettled(m) : ~row[t].transfer}
<1>1. row \in [Txns -> RowType] /\ human \in [Txns -> Cats \cup {NoCat}]
      /\ engine \in {"legacy", "shadow", "cascade"} /\ marked \in [Txns -> SUBSET BOOLEAN]
  BY DEF IInv, TypeOK, RowType
<1>2. /\ row' = [t \in Txns |-> IF t \in ts THEN [row[t] EXCEPT !.cat = c, !.by = "rule"] ELSE row[t]]
      /\ UNCHANGED <<engine, run, bulk, log, human, marked>>
  BY DEF ApplyRule
<1>3. \A t \in ts : t \in Txns /\ ~row[t].override
  BY DEF Unsettled
<1> HIDE DEF ts
<1>4. \A t \in ts : row'[t] = [row[t] EXCEPT !.cat = c, !.by = "rule"] /\ row'[t] \in RowType
  <2> SUFFICES ASSUME NEW t \in ts
               PROVE  row'[t] = [row[t] EXCEPT !.cat = c, !.by = "rule"] /\ row'[t] \in RowType
    OBVIOUS
  <2>1. t \in Txns /\ row[t] \in RowType
    BY <1>1, <1>3
  <2>2. row'[t] = [row[t] EXCEPT !.cat = c, !.by = "rule"]
    BY <1>2, <2>1
  <2> QED BY <2>1, <2>2 DEF RowType
<1>5. \A t \in ts :
        /\ ~row'[t].override /\ row'[t].by = "rule"
        /\ row'[t].transfer = row[t].transfer /\ row'[t].manual = row[t].manual
  <2> TAKE t \in ts
  <2>1. /\ row[t] \in RowType /\ ~row[t].override
        /\ row'[t] = [row[t] EXCEPT !.cat = c, !.by = "rule"]
    BY <1>1, <1>3, <1>4
  <2> QED BY <2>1 DEF RowType
<1>6. \A t \in Txns \ ts : row'[t] = row[t]
  BY <1>2
<1>7. row' \in [Txns -> RowType]
  <2>1. \A t \in Txns : row'[t] \in RowType
    BY <1>1, <1>4, <1>6
  <2> QED BY <1>2, <2>1
<1>8. \A t \in Txns : row'[t].override => row'[t].cat = human'[t] /\ row'[t].by = "human"
  BY <1>2, <1>5, <1>6 DEF IInv, HumanCategoryStands, SettledInv
<1>9. \A t \in Txns :
        /\ marked'[t] = marked[t]
        /\ row'[t].transfer = row[t].transfer /\ row'[t].manual = row[t].manual
        /\ row'[t].by = "cascade" => row[t].by = "cascade" /\ row[t].cat = row'[t].cat
  BY <1>2, <1>5, <1>6
<1>10. BulkIs(bulk') /\ UNCHANGED <<applied, flagged, claimed>> /\ claimed \subseteq Txns
  BY <1>2, BulkKept DEF log, IInv, TypeOK
<1> QED BY <1>1, <1>2, <1>7, <1>8, <1>9, <1>10, PersonInv

\* A person changes one row: splits it, takes the split back, or marks a transfer.
LEMMA OneRowInv ==
  ASSUME IInv, NEW t \in Txns, Split(t) \/ Unsplit(t) \/ \E x \in BOOLEAN : MarkTransfer(t, x)
  PROVE  IInv'
<1>1. row \in [Txns -> RowType] /\ human \in [Txns -> Cats \cup {NoCat}]
      /\ engine \in {"legacy", "shadow", "cascade"} /\ marked \in [Txns -> SUBSET BOOLEAN]
  BY DEF IInv, TypeOK, RowType
<1>2. row[t] \in RowType
  BY <1>1
<1>6. BulkIs(bulk) /\ claimed \subseteq Txns
  BY BulkKept DEF IInv, TypeOK
<1>3. CASE Split(t)
  <2> DEFINE v == [row[t] EXCEPT !.cat = NoCat, !.split = TRUE, !.override = TRUE, !.by = "human"]
  <2>1. row' = [row EXCEPT ![t] = v] /\ human' = [human EXCEPT ![t] = NoCat]
        /\ UNCHANGED <<engine, run, bulk, applied, flagged, claimed, marked>>
    BY <1>3 DEF Split, log
  <2>2. v \in RowType /\ v.cat = NoCat /\ v.by = "human" /\ v.transfer = row[t].transfer /\ v.manual = row[t].manual
    BY <1>2 DEF RowType
  <2> HIDE DEF v
  <2>3. row' \in [Txns -> RowType] /\ human' \in [Txns -> Cats \cup {NoCat}]
    BY <1>1, <2>1, <2>2
  <2>4. /\ row'[t] = v /\ human'[t] = NoCat
        /\ \A x \in Txns \ {t} : row'[x] = row[x] /\ human'[x] = human[x]
    BY <1>1, <2>1
  <2>5. \A x \in Txns : row'[x].override => row'[x].cat = human'[x] /\ row'[x].by = "human"
    BY <2>2, <2>4 DEF IInv, HumanCategoryStands, SettledInv
  <2> QED BY <1>1, <1>6, <2>1, <2>2, <2>3, <2>4, <2>5, PersonInv
<1>4. CASE Unsplit(t)
  <2> DEFINE v == [row[t] EXCEPT !.split = FALSE, !.override = FALSE]
  <2>1. row' = [row EXCEPT ![t] = v] /\ human' = [human EXCEPT ![t] = NoCat]
        /\ UNCHANGED <<engine, run, bulk, applied, flagged, claimed, marked>>
    BY <1>4 DEF Unsplit, log
  <2>2. /\ v \in RowType /\ ~v.override /\ v.by = row[t].by /\ v.cat = row[t].cat
        /\ v.transfer = row[t].transfer /\ v.manual = row[t].manual
    BY <1>2 DEF RowType
  <2> HIDE DEF v
  <2>3. row' \in [Txns -> RowType] /\ human' \in [Txns -> Cats \cup {NoCat}]
    BY <1>1, <2>1, <2>2
  <2>4. /\ row'[t] = v
        /\ \A x \in Txns \ {t} : row'[x] = row[x] /\ human'[x] = human[x]
    BY <1>1, <2>1
  <2>5. \A x \in Txns : row'[x].override => row'[x].cat = human'[x] /\ row'[x].by = "human"
    BY <2>2, <2>4 DEF IInv, HumanCategoryStands, SettledInv
  <2> QED BY <1>1, <1>6, <2>1, <2>2, <2>3, <2>4, <2>5, PersonInv
<1>5. ASSUME NEW x \in BOOLEAN, MarkTransfer(t, x)
      PROVE  IInv'
  <2> DEFINE v == [row[t] EXCEPT !.transfer = x, !.manual = TRUE]
  <2>1. row' = [row EXCEPT ![t] = v] /\ marked' = [marked EXCEPT ![t] = {x}]
        /\ UNCHANGED <<engine, run, bulk, applied, flagged, claimed, human>>
    BY <1>5 DEF MarkTransfer, log
  <2>2. /\ v \in RowType /\ v.manual /\ v.transfer = x
        /\ v.override = row[t].override /\ v.cat = row[t].cat /\ v.by = row[t].by
    BY <1>2 DEF RowType
  <2> HIDE DEF v
  <2>3. row' \in [Txns -> RowType] /\ marked' \in [Txns -> SUBSET BOOLEAN]
    BY <1>1, <2>1, <2>2
  <2>4. /\ row'[t] = v /\ marked'[t] = {x}
        /\ \A y \in Txns \ {t} : row'[y] = row[y] /\ marked'[y] = marked[y]
    BY <1>1, <2>1
  <2>5. \A y \in Txns : row'[y].override => row'[y].cat = human'[y] /\ row'[y].by = "human"
    BY <2>1, <2>2, <2>4 DEF IInv, HumanCategoryStands, SettledInv
  <2> QED BY <1>1, <1>6, <2>1, <2>2, <2>3, <2>4, <2>5, PersonInv
<1> QED BY <1>3, <1>4, <1>5

\* Categories are set by hand through the review API and the chat.
LEMMA ByHandInv ==
  ASSUME IInv, NEW c \in Cats,
         \/ \E t \in Txns : Categorize(t, c) \/ ChatCategorize(t, c)
         \/ \E ts \in SUBSET Txns : CommitBulkUpdate(ts, c)
  PROVE  IInv'
<1>1. BulkIs(bulk) /\ claimed \subseteq Txns
  BY BulkKept DEF IInv, TypeOK
<1>2. ASSUME NEW t \in Txns, Categorize(t, c) PROVE IInv'
  <2>1. /\ {t} \in SUBSET Txns /\ SetByHand({t}, c) /\ claimed' = claimed \cup {t}
        /\ UNCHANGED <<engine, run, bulk, applied, flagged, marked>>
    BY <1>2 DEF Categorize
  <2>2. BulkIs(bulk') /\ claimed' \subseteq Txns /\ \A x \in claimed' \ claimed : x \in {t}
    BY <1>1, <2>1
  <2> QED BY <2>1, <2>2, SetByHandInv
<1>3. ASSUME NEW t \in Txns, ChatCategorize(t, c) PROVE IInv'
  <2>1. /\ {t} \in SUBSET Txns /\ SetByHand({t}, c)
        /\ UNCHANGED <<engine, run, bulk, applied, flagged, claimed, marked>>
    BY <1>3 DEF ChatCategorize, log
  <2> QED BY <1>1, <2>1, SetByHandInv
<1>4. ASSUME NEW ts \in SUBSET Txns, CommitBulkUpdate(ts, c) PROVE IInv'
  <2> DEFINE us == {t \in ts : ~row[t].override}
  <2>1. /\ us \in SUBSET Txns /\ SetByHand(us, c)
        /\ UNCHANGED <<engine, run, bulk, applied, flagged, claimed, marked>>
    BY <1>4 DEF CommitBulkUpdate, log
  <2> HIDE DEF us
  <2> QED BY <1>1, <2>1, SetByHandInv
<1> QED BY <1>2, <1>3, <1>4

\* A request that has written nothing yet, or gives up, changes no row and no log.
LEMMA RequestInv ==
  ASSUME IInv, NEW k \in Requests, NEW b, bulk' = [bulk EXCEPT ![k] = b], b \in BulkType,
         b.rows \subseteq b.of, b.pc # "idle" => b.cat \in Cats,
         UNCHANGED <<row, engine, run, log, human, marked>>
  PROVE  IInv'
<1>1. BulkIs(bulk')
  BY BulkKept DEF BulkIs
<1>2. TypeOK'
  BY <1>1 DEF IInv, TypeOK, BulkIs, BulkType, log
<1> QED BY <1>2 DEF IInv, GateInv, Clears, ManualInv, SettledInv, HumanCategoryStands,
             HumanTransferStands, LogMatchesRow, AppliedClearsItsGate, log

\* A category is applied to a merchant: a row that was logged and is settled by
\* somebody else now is not the cascade's.
LEMMA MerchantInv ==
  ASSUME IInv, NEW k \in Requests,
         \/ \E m \in Merchants, c \in Cats : SelectMerchant(k, m, c)
         \/ LogMerchant(k) \/ ApplyMerchant(k) \/ AbortMerchant(k)
  PROVE  IInv'
<1>1. BulkIs(bulk) /\ claimed \subseteq Txns
  BY BulkKept DEF IInv, TypeOK
<1>2. bulk[k] \in BulkType /\ bulk[k].rows \subseteq bulk[k].of /\ (bulk[k].pc # "idle" => bulk[k].cat \in Cats)
  BY <1>1 DEF BulkIs
<1>3. NoRequest \in BulkType /\ NoRequest.rows = {} /\ NoRequest.pc = "idle"
  BY DEF NoRequest, BulkType
<1>4. ASSUME NEW m \in Merchants, NEW c \in Cats, SelectMerchant(k, m, c) PROVE IInv'
  <2> DEFINE b == [pc |-> "seen", of |-> {t \in Txns : Merchant[t] = m}, cat |-> c, rows |-> Unsettled(m)]
  <2>1. bulk' = [bulk EXCEPT ![k] = b] /\ UNCHANGED <<row, engine, run, log, human, marked>>
    BY <1>4 DEF SelectMerchant
  <2>2. b \in BulkType /\ b.rows \subseteq b.of /\ b.cat \in Cats
    BY DEF BulkType, Unsettled
  <2> HIDE DEF b
  <2> QED BY <2>1, <2>2, RequestInv
<1>5. CASE LogMerchant(k)
  <2> DEFINE b == [bulk[k] EXCEPT !.pc = "logged"]
  <2>1. bulk' = [bulk EXCEPT ![k] = b] /\ bulk[k].pc = "seen" /\ UNCHANGED <<row, engine, run, log, human, marked>>
    BY <1>5 DEF LogMerchant
  <2>2. b \in BulkType /\ b.rows \subseteq b.of /\ b.cat \in Cats
    BY <1>2, <2>1 DEF BulkType
  <2> HIDE DEF b
  <2> QED BY <2>1, <2>2, RequestInv
<1>6. CASE AbortMerchant(k)
  <2>1. bulk' = [bulk EXCEPT ![k] = NoRequest] /\ UNCHANGED <<row, engine, run, log, human, marked>>
    BY <1>6 DEF AbortMerchant
  <2> QED BY <1>3, <2>1, RequestInv
<1>7. CASE ApplyMerchant(k)
  <2> DEFINE ts == {t \in bulk[k].of : ~row[t].override}
  <2>1. /\ SetByHand(ts, bulk[k].cat) /\ claimed' = claimed \cup bulk[k].rows
        /\ bulk' = [bulk EXCEPT ![k] = NoRequest] /\ bulk[k].pc = "logged"
        /\ UNCHANGED <<engine, run, applied, flagged, marked>>
    BY <1>7 DEF ApplyMerchant
  <2>2. ts \in SUBSET Txns /\ bulk[k].cat \in Cats /\ claimed' \subseteq Txns
    BY <1>1, <1>2, <2>1 DEF BulkType
  <2>3. \A t \in claimed' \ claimed : t \in ts \/ row[t].override
    BY <1>2, <2>1
  <2>4. BulkIs(bulk')
    BY <1>1, <1>3, <2>1 DEF BulkIs
  <2> HIDE DEF ts
  <2> QED BY <2>1, <2>2, <2>3, <2>4, SetByHandInv
<1> QED BY <1>4, <1>5, <1>6, <1>7

\* Every step keeps the inductive invariant.
LEMMA NextInv == IInv /\ [Next]_vars => IInv'
<1> SUFFICES ASSUME IInv, [Next]_vars PROVE IInv'
  OBVIOUS
<1>1. ASSUME NEW r \in Runs, RunStep(r) PROVE IInv'
  BY <1>1, StartRunInv, ClassifyInv, WriteInv, LegacyInv, EndRunInv DEF RunStep
<1>2. CASE Restart
  <2>1. Abstain \in Decisions
    BY DEF Abstain, Decision, Decisions, Tiers
  <2>2. \A r \in Runs : RunIs(run'[r])
    BY <1>2, <2>1 DEF Restart, RunIs, RunType, Idle
  <2>3. TypeOK'
    BY <1>2, <2>1 DEF Restart, Idle, NoRequest, IInv, TypeOK, log
  <2>4. GateInv'
    BY <2>2 DEF GateInv, RunIs, Clears
  <2> QED BY <1>2, <2>3, <2>4 DEF Restart, log, IInv, ManualInv, SettledInv, HumanCategoryStands,
               HumanTransferStands, LogMatchesRow, AppliedClearsItsGate
<1>3. CASE Person
  <2>1. ASSUME NEW e \in {"legacy", "shadow", "cascade"}, SetEngine(e) PROVE IInv'
    BY <2>1 DEF SetEngine, log, IInv, TypeOK, GateInv, Clears, ManualInv, SettledInv, HumanCategoryStands,
                HumanTransferStands, LogMatchesRow, AppliedClearsItsGate
  <2> QED BY <1>3, <2>1, OneRowInv, ApplyRuleInv, ByHandInv, MerchantInv DEF Person
<1>4. CASE UNCHANGED vars
  BY <1>4 DEF vars, log, IInv, TypeOK, GateInv, Clears, ManualInv, SettledInv, HumanCategoryStands,
              HumanTransferStands, LogMatchesRow, AppliedClearsItsGate
<1> QED BY <1>1, <1>2, <1>3, <1>4 DEF Next

\* A step of a shadow run that writes leaves the rows alone.
LEMMA ShadowStep ==
  ASSUME IInv, [Next]_vars, NEW r \in Runs,
         run[r].engine = "shadow", run[r].pc = "write", run'[r] # run[r]
  PROVE  row' = row
<1>1. row \in [Txns -> RowType] /\ run \in [Runs -> RunType]
  BY DEF IInv, TypeOK, RowType, RunType
<1>2. CASE Write(r)
  BY <1>1, <1>2 DEF Write, WritesCategory, WritesTransfer
<1>3. ASSUME NEW s \in Runs, s # r, RunStep(s)
      PROVE  run'[r] = run[r]
  BY <1>1, <1>3, Zenon DEF RunStep, StartRun, Classify, Write, Legacy, EndRun
<1>4. CASE RunStep(r)
  BY <1>2, <1>4 DEF RunStep, StartRun, Classify, Legacy, EndRun
<1>5. CASE Person
  <2>1. run' = run
    BY <1>5 DEF Person, Split, Unsplit, MarkTransfer, Categorize, ChatCategorize, CommitBulkUpdate,
                SelectMerchant, LogMerchant, ApplyMerchant, AbortMerchant, ApplyRule, SetEngine
  <2> QED BY <2>1
<1> QED BY <1>3, <1>4, <1>5 DEF Next, Restart, vars

-----------------------------------------------------------------------------
\* The inductive invariant of the categorizer and the people who correct it.
THEOREM Invariant == Spec => []IInv
BY InitInv, NextInv, PTL DEF Spec

\* The types of the categorizer's state, whatever thresholds and confidences.
THEOREM TypeCorrect == Spec => []TypeOK
<1>1. IInv => TypeOK
  BY DEF IInv
<1> QED BY <1>1, Invariant, PTL

\* No run, rule or bulk change replaces a category that a person settled.
THEOREM CategoryStands == Spec => []HumanCategoryStands
<1>1. IInv => HumanCategoryStands
  BY DEF IInv
<1> QED BY <1>1, Invariant, PTL

\* No run changes a transfer flag that a person set.
THEOREM TransferStands == Spec => []HumanTransferStands
<1>1. IInv => HumanTransferStands
  BY DEF IInv
<1> QED BY <1>1, Invariant, PTL

\* What the cascade put on a row, a category or a transfer flag, is what the last
\* decision of that kind logged as applied says, with any number of runs and
\* requests at once.
THEOREM LogIsTrue == Spec => []LogMatchesRow
<1>1. IInv => LogMatchesRow
  BY DEF IInv
<1> QED BY <1>1, Invariant, PTL

\* What was written automatically cleared the threshold of its tier.
THEOREM GateIsKept == Spec => []AppliedClearsItsGate
<1>1. IInv => AppliedClearsItsGate
  BY DEF IInv
<1> QED BY <1>1, Invariant, PTL

\* A run that began in shadow mode changes no row.
THEOREM ShadowIsSafe == Spec => ShadowMutatesNothing
<1>1. IInv /\ [Next]_vars =>
        [\A r \in Runs : run[r].engine = "shadow" /\ run[r].pc = "write" /\ run'[r] # run[r] => row' = row]_vars
  BY ShadowStep
<1> QED BY <1>1, Invariant, PTL DEF Spec, ShadowMutatesNothing
==============================================================================
