------------------------------- MODULE Cascade -------------------------------
(* The transaction categorizer and the people who correct it                 *)
(* (backend/services/categorization, routers/finance_review.py,              *)
(* services/category_override.py).                                           *)
(*                                                                           *)
(* A run takes a snapshot of the work-set and then, row by row, asks the     *)
(* tiers in a fixed order and lets the Writer apply the answer.  The tiers   *)
(* await a model and the database, so people edit the same rows in between;  *)
(* a nightly run and one started by hand may overlap.  An edit by a person   *)
(* is one database transaction and one action, but for apply-to-merchant,    *)
(* whose statements each see what has been committed.  Investment rows are   *)
(* outside the work-set and are not in Txns.                                 *)
(*                                                                           *)
(* Of finance.categorization_decision, where rows are only inserted, the     *)
(* module keeps the auto_applied ones that a reversal starts from: applied   *)
(* and flagged are the last of the Writer, claimed the rows for which a      *)
(* category was logged by hand since.  What learning logs is not applied.    *)
EXTENDS Integers, Sequences, FiniteSetsExt

CONSTANTS Txns, Merchants, Cats, NoCat, Runs,
          Requests,                     \* apply-to-merchant requests at once
          Merchant,                     \* the merchant_key of each transaction
          Threshold,                    \* tier -> percent, finance.categorizer_config
          Conf                          \* tier -> confidences it may return, in percent

Tiers == {"transfer", "rule", "merchant_memory", "embedding_knn", "llm"}

ASSUME CascadeAssumption ==
  /\ NoCat \notin Cats
  /\ Merchant \in [Txns -> Merchants]
  /\ Threshold \in [Tiers -> 0 .. 100]
  /\ Conf \in [Tiers -> SUBSET (0 .. 100)]

VARIABLES
  row,                                  \* finance.transactions
  engine,                               \* categorizer_engine
  run,                                  \* the runs in progress
  bulk,                                 \* the apply-to-merchant requests
  applied,                              \* last category the Writer logged as applied
  flagged,                              \* last transfer the Writer logged as applied
  claimed,                              \* rows whose last such category was logged by hand
  human,                                \* history: what a person last chose
  marked                                \* history: is_transfer as a person left it

log == <<applied, flagged, claimed>>
vars == <<row, engine, run, bulk, log, human, marked>>

Decision(tier, cat, conf, xfer, terminal) ==
  [tier |-> tier, cat |-> cat, conf |-> conf, xfer |-> xfer, terminal |-> terminal]
Abstain == Decision("none", NoCat, 0, FALSE, FALSE)
Idle == [pc |-> "idle", engine |-> "legacy", todo |-> {}, manual |-> {}, txn |-> {},
         d |-> Abstain, auto |-> FALSE]
NoRequest == [pc |-> "idle", of |-> {}, cat |-> NoCat, rows |-> {}]

Init ==
  /\ row = [t \in Txns |-> [cat |-> NoCat, override |-> FALSE, transfer |-> FALSE,
                            manual |-> FALSE, split |-> FALSE, by |-> "none"]]
  /\ engine = "legacy"
  /\ run = [r \in Runs |-> Idle]
  /\ bulk = [k \in Requests |-> NoRequest]
  /\ applied = [t \in Txns |-> Abstain]
  /\ flagged = [t \in Txns |-> Abstain]
  /\ claimed = {}
  /\ human = [t \in Txns |-> NoCat]
  /\ marked = [t \in Txns |-> {}]

-----------------------------------------------------------------------------
(* The tiers and the pipeline.                                               *)

\* Mutant: one global threshold, that of the transfer tier left out.
Clears_Global(d) == (d.cat # NoCat \/ d.xfer) /\ d.conf >= 60

\* ConfidenceGate: each decision against the threshold of its own tier.
Clears(d) == (d.cat # NoCat \/ d.xfer) /\ d.conf >= Threshold[d.tier]

\* What ends the loop over the tiers.
Stops(d) == d.xfer \/ (d.cat # NoCat /\ (d.terminal \/ Clears(d)))

\* classify: the first decision that stops the loop; else the most confident
\* candidate, the earliest of equals; else an abstention.
Pipeline(ds) ==
  LET stop == {i \in DOMAIN ds : Stops(ds[i])}
      cand == {i \in DOMAIN ds : ds[i].cat # NoCat}
      best == {i \in cand : \A j \in cand : ds[j].conf < ds[i].conf \/ (ds[j].conf = ds[i].conf /\ j >= i)}
  IN IF stop # {} THEN [d |-> ds[Min(stop)], auto |-> Clears(ds[Min(stop)])]
     ELSE IF cand # {} THEN [d |-> ds[CHOOSE i \in best : TRUE], auto |-> FALSE]
     ELSE [d |-> Abstain, auto |-> FALSE]

\* A tier abstains, or answers with a confidence.  The transfer tier takes no
\* part for a row that was hand-marked when the snapshot was taken; a counterpart
\* or a confirmed payment is terminal, and so is the first rule that matches.
Answers(tier) ==
  {Abstain} \cup
  IF tier = "transfer" THEN {Decision(tier, NoCat, p, TRUE, p >= Threshold[tier]) : p \in Conf[tier]}
  ELSE {Decision(tier, c, p, FALSE, tier = "rule") : c \in Cats, p \in Conf[tier]}

\* Everything the pipeline may return.
Outcomes(transferTier) ==
  {Pipeline(<<a, b, c, d, e>>) :
     a \in IF transferTier THEN Answers("transfer") ELSE {Abstain}, b \in Answers("rule"),
     c \in Answers("merchant_memory"), d \in Answers("embedding_knn"), e \in Answers("llm")}
AllOutcomes == Outcomes(TRUE)
NoTransferOutcomes == Outcomes(FALSE)

-----------------------------------------------------------------------------
(* A run: run_categorizer, run_cascade.                                      *)

WorkSet(e) ==
  {t \in Txns : row[t].cat = NoCat /\ ~row[t].override /\ (e = "legacy" \/ ~row[t].transfer)}

\* The engine is read once, at the start.
StartRun(r) ==
  /\ run[r].pc = "idle" /\ WorkSet(engine) # {}
  /\ run' = [run EXCEPT ![r] =
        [Idle EXCEPT !.pc = "row", !.engine = engine, !.todo = WorkSet(engine),
                     !.manual = {t \in Txns : row[t].manual}]]
  /\ UNCHANGED <<row, engine, bulk, log, human, marked>>

EndRun(r) ==
  /\ run[r].pc = "row" /\ run[r].todo = {}
  /\ run' = [run EXCEPT ![r] = Idle]
  /\ UNCHANGED <<row, engine, bulk, log, human, marked>>

\* Mutant: the row stays in the snapshot.
Classify_Keeps(r) ==
  /\ run[r].pc = "row" /\ run[r].engine # "legacy"
  /\ \E t \in run[r].todo : \E out \in AllOutcomes :
       run' = [run EXCEPT ![r] = [@ EXCEPT !.pc = "write", !.txn = {t}, !.d = out.d, !.auto = out.auto]]
  /\ UNCHANGED <<row, engine, bulk, log, human, marked>>

\* The tiers have answered for the next row of the snapshot; a row whose
\* transaction fails is rolled back and left to the next run.
Classify(r) ==
  /\ run[r].pc = "row" /\ run[r].engine # "legacy"
  /\ \E t \in run[r].todo :
       \/ run' = [run EXCEPT ![r].todo = @ \ {t}]
       \/ \E out \in IF t \in run[r].manual THEN NoTransferOutcomes ELSE AllOutcomes :
            run' = [run EXCEPT ![r] = [run[r] EXCEPT !.pc = "write", !.todo = @ \ {t}, !.txn = {t},
                                                    !.d = out.d, !.auto = out.auto]]
  /\ UNCHANGED <<row, engine, bulk, log, human, marked>>

\* Mutants: the write-time re-check is lost.
WritesCategory_Blind(r, t) == run[r].engine # "shadow" /\ run[r].auto /\ ~run[r].d.xfer
WritesTransfer_Blind(r, t) == run[r].engine # "shadow" /\ run[r].auto /\ run[r].d.xfer

\* Mutant: shadow mode withholds the category only.
WritesTransfer_InShadow(r, t) ==
  run[r].auto /\ run[r].d.xfer /\ ~row[t].transfer /\ ~row[t].manual

\* The guards in the WHERE clauses of the Writer's two UPDATEs.
WritesCategory(r, t) ==
  /\ run[r].engine # "shadow" /\ run[r].auto /\ ~run[r].d.xfer
  /\ ~row[t].override /\ row[t].cat = NoCat /\ ~row[t].split

WritesTransfer(r, t) ==
  /\ run[r].engine # "shadow" /\ run[r].auto /\ run[r].d.xfer
  /\ ~row[t].transfer /\ ~row[t].manual

\* Mutant: the log says what was meant, not what was written.
Logged_Intent(r, t) == IF run[r].auto /\ ~run[r].d.xfer THEN run[r].d ELSE applied[t]

\* auto_applied is true for a decision that wrote the row.
Logged(r, t) == IF WritesCategory(r, t) THEN run[r].d ELSE applied[t]

\* What the requests logged before is no longer the last decision of the row.
Outdated(t) ==
  [k \in Requests |-> IF bulk[k].pc = "logged" THEN [bulk[k] EXCEPT !.rows = @ \ {t}] ELSE bulk[k]]

\* Writer.apply and the commit of the row.
Write(r) ==
  /\ run[r].pc = "write"
  /\ \E t \in run[r].txn :
       /\ row' = [row EXCEPT ![t] =
             IF WritesCategory(r, t) THEN [@ EXCEPT !.cat = run[r].d.cat, !.by = "cascade"]
             ELSE IF WritesTransfer(r, t) THEN [@ EXCEPT !.transfer = TRUE] ELSE @]
       /\ applied' = [applied EXCEPT ![t] = Logged(r, t)]
       /\ flagged' = [flagged EXCEPT ![t] = IF WritesTransfer(r, t) THEN run[r].d ELSE @]
       /\ claimed' = IF WritesCategory(r, t) THEN claimed \ {t} ELSE claimed
       /\ bulk' = IF WritesCategory(r, t) THEN Outdated(t) ELSE bulk
  /\ run' = [run EXCEPT ![r] = [@ EXCEPT !.pc = "row", !.txn = {}, !.d = Abstain, !.auto = FALSE]]
  /\ UNCHANGED <<engine, human, marked>>

\* _run_legacy: the model's answer for one row, or none, straight to an UPDATE.
Legacy(r) ==
  /\ run[r].pc = "row" /\ run[r].engine = "legacy"
  /\ \E t \in run[r].todo :
       /\ run' = [run EXCEPT ![r].todo = @ \ {t}]
       /\ \/ UNCHANGED row
          \/ /\ ~row[t].override /\ row[t].cat = NoCat
             /\ \E c \in Cats : row' = [row EXCEPT ![t] = [@ EXCEPT !.cat = c, !.by = "legacy"]]
  /\ UNCHANGED <<engine, bulk, log, human, marked>>

\* The process stops: rows already written stay, the rest waits for a new run, and
\* the transactions of requests are rolled back.
Restart ==
  /\ (\E r \in Runs : run[r].pc # "idle") \/ \E k \in Requests : bulk[k].pc # "idle"
  /\ run' = [r \in Runs |-> Idle]
  /\ bulk' = [k \in Requests |-> NoRequest]
  /\ UNCHANGED <<row, engine, log, human, marked>>

-----------------------------------------------------------------------------
(* What people do.                                                           *)

\* Set the category of the rows of ts by hand.
SetByHand(ts, c) ==
  /\ row' = [t \in Txns |-> IF t \in ts THEN [row[t] EXCEPT !.cat = c, !.override = TRUE, !.by = "human"]
                            ELSE row[t]]
  /\ human' = [t \in Txns |-> IF t \in ts THEN c ELSE human[t]]

\* categorize_transaction of the review API; bulk_categorize is several of these in
\* one transaction.  Each row is logged as applied by hand.
Categorize(t, c) ==
  /\ SetByHand({t}, c)
  /\ claimed' = claimed \cup {t}
  /\ UNCHANGED <<engine, run, bulk, applied, flagged, marked>>

\* categorize_transaction of the chat: no log.
ChatCategorize(t, c) ==
  /\ SetByHand({t}, c)
  /\ UNCHANGED <<engine, run, bulk, log, marked>>

\* commit_bulk_update of the chat, for the rows ts that its pattern matches: no log.
CommitBulkUpdate(ts, c) ==
  /\ SetByHand({t \in ts : ~row[t].override}, c)
  /\ UNCHANGED <<engine, run, bulk, log, marked>>

Unsettled(m) == {t \in Txns : Merchant[t] = m /\ ~row[t].override}

\* apply_merchant_category, first statement: the rows it will log.
SelectMerchant(k, m, c) ==
  /\ bulk[k].pc = "idle"
  /\ bulk' = [bulk EXCEPT ![k] = [pc |-> "seen", of |-> {t \in Txns : Merchant[t] = m},
                                  cat |-> c, rows |-> Unsettled(m)]]
  /\ UNCHANGED <<row, engine, run, log, human, marked>>

\* Then a decision for each of them, visible when the request commits.
LogMerchant(k) ==
  /\ bulk[k].pc = "seen"
  /\ bulk' = [bulk EXCEPT ![k].pc = "logged"]
  /\ UNCHANGED <<row, engine, run, log, human, marked>>

\* Then the UPDATE, of the rows that are not settled by now, and the commit.
ApplyMerchant(k) ==
  /\ bulk[k].pc = "logged"
  /\ SetByHand({t \in bulk[k].of : ~row[t].override}, bulk[k].cat)
  /\ claimed' = claimed \cup bulk[k].rows
  /\ bulk' = [bulk EXCEPT ![k] = NoRequest]
  /\ UNCHANGED <<engine, run, applied, flagged, marked>>

\* A statement fails, or the caller gives up: the transaction is rolled back.
AbortMerchant(k) ==
  /\ bulk[k].pc # "idle"
  /\ bulk' = [bulk EXCEPT ![k] = NoRequest]
  /\ UNCHANGED <<row, engine, run, log, human, marked>>

\* create_user_rule with apply_to_existing: every matching row that is not settled
\* and not a transfer, whatever category it has.
ApplyRule(m, c) ==
  /\ row' = [t \in Txns |-> IF t \in Unsettled(m) /\ ~row[t].transfer
                            THEN [row[t] EXCEPT !.cat = c, !.by = "rule"] ELSE row[t]]
  /\ UNCHANGED <<engine, run, bulk, log, human, marked>>

\* create_split and unsplit as the categorizer sees them.
Split(t) ==
  /\ ~row[t].transfer
  /\ row' = [row EXCEPT ![t] = [@ EXCEPT !.cat = NoCat, !.split = TRUE, !.override = TRUE, !.by = "human"]]
  /\ human' = [human EXCEPT ![t] = NoCat]
  /\ UNCHANGED <<engine, run, bulk, log, marked>>

Unsplit(t) ==
  /\ row' = [row EXCEPT ![t] = [@ EXCEPT !.split = FALSE, !.override = FALSE]]
  /\ human' = [human EXCEPT ![t] = NoCat]
  /\ UNCHANGED <<engine, run, bulk, log, marked>>

\* The owner sets is_transfer in the data browser and marks it as manual.
MarkTransfer(t, x) ==
  /\ row' = [row EXCEPT ![t] = [@ EXCEPT !.transfer = x, !.manual = TRUE]]
  /\ marked' = [marked EXCEPT ![t] = {x}]
  /\ UNCHANGED <<engine, run, bulk, log, human>>

SetEngine(e) ==
  /\ engine' = e
  /\ UNCHANGED <<row, run, bulk, log, human, marked>>

RunStep(r) == StartRun(r) \/ Classify(r) \/ Write(r) \/ Legacy(r) \/ EndRun(r)

Person ==
  \/ \E t \in Txns : Split(t) \/ Unsplit(t) \/ \E x \in BOOLEAN : MarkTransfer(t, x)
  \/ \E t \in Txns, c \in Cats : Categorize(t, c) \/ ChatCategorize(t, c)
  \/ \E ts \in SUBSET Txns, c \in Cats : CommitBulkUpdate(ts, c)
  \/ \E m \in Merchants, c \in Cats : ApplyRule(m, c) \/ \E k \in Requests : SelectMerchant(k, m, c)
  \/ \E k \in Requests : LogMerchant(k) \/ ApplyMerchant(k) \/ AbortMerchant(k)
  \/ \E e \in {"legacy", "shadow", "cascade"} : SetEngine(e)

Next == Restart \/ Person \/ \E r \in Runs : RunStep(r)

Spec == Init /\ [][Next]_vars

-----------------------------------------------------------------------------
Decisions == [tier : Tiers \cup {"none"}, cat : Cats \cup {NoCat}, conf : 0 .. 100,
              xfer : BOOLEAN, terminal : BOOLEAN]

TypeOK ==
  /\ row \in [Txns -> [cat : Cats \cup {NoCat}, override : BOOLEAN, transfer : BOOLEAN, manual : BOOLEAN,
                       split : BOOLEAN, by : {"none", "cascade", "legacy", "rule", "human"}]]
  /\ engine \in {"legacy", "shadow", "cascade"}
  /\ run \in [Runs -> [pc : {"idle", "row", "write"}, engine : {"legacy", "shadow", "cascade"},
                       todo : SUBSET Txns, manual : SUBSET Txns,
                       txn : SUBSET Txns, d : Decisions, auto : BOOLEAN]]
  /\ \A r \in Runs : (run[r].pc = "write") = (run[r].txn # {}) /\ run[r].txn \cap run[r].todo = {}
  /\ bulk \in [Requests -> [pc : {"idle", "seen", "logged"}, of : SUBSET Txns,
                            cat : Cats \cup {NoCat}, rows : SUBSET Txns]]
  /\ \A k \in Requests : bulk[k].rows \subseteq bulk[k].of /\ (bulk[k].pc # "idle" => bulk[k].cat \in Cats)
  /\ applied \in [Txns -> Decisions] /\ flagged \in [Txns -> Decisions]
  /\ claimed \subseteq Txns
  /\ human \in [Txns -> Cats \cup {NoCat}]
  /\ marked \in [Txns -> SUBSET BOOLEAN]

\* What a person chose stands: no run, whatever it read before, and no bulk
\* change or rule replaces it, and a split parent keeps the category it was
\* given by hand, if any (R3.4, R4.3).
HumanCategoryStands ==
  \A t \in Txns : row[t].override => row[t].cat = human[t]

\* A transfer flag set by hand is not changed by a run that took its snapshot
\* before (M6).
HumanTransferStands == \A t \in Txns : marked[t] # {} => marked[t] = {row[t].transfer}

\* The decision log tells the truth of what the cascade wrote: a category that it
\* put on a row is that of the last category decision logged as applied to the row,
\* of the Writer or by hand, and a flag that it put has its decision, even with
\* runs and requests on the same row, so that it can be reversed (R2.6).
LogMatchesRow ==
  \A t \in Txns :
    /\ row[t].by = "cascade" => applied[t].cat = row[t].cat /\ t \notin claimed
    /\ row[t].transfer /\ ~row[t].manual => flagged[t].xfer

\* Every automatic write, of a category or of the transfer flag, cleared the
\* threshold of the tier that decided it.
AppliedClearsItsGate ==
  \A t \in Txns : \A d \in {applied[t], flagged[t]} : d.tier # "none" => d.conf >= Threshold[d.tier]

\* A run that began in shadow mode mutates no row, even when the engine is
\* switched while it runs (M4).
ShadowMutatesNothing ==
  [][\A r \in Runs : run[r].engine = "shadow" /\ run[r].pc = "write" /\ run'[r] # run[r] => row' = row]_vars
=============================================================================
