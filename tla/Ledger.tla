------------------------------- MODULE Ledger -------------------------------
(* Splits and transfer links of finance.transactions (services/splits.py,    *)
(* services/accounting/transfers.py, migrations 0029 and 0031).              *)
(*                                                                           *)
(* A transaction that carries a value from one statement to the next is      *)
(* modelled statement by statement under READ COMMITTED: a statement sees    *)
(* what was committed when it began, an UPDATE or DELETE waits for the rows  *)
(* other transactions hold, and the effects are seen at the commit.  A link  *)
(* carries nothing over and is one action.                                   *)
EXTENDS Integers, Sequences, FiniteSets

CONSTANTS Base, Kids,                   \* synced rows; ids that children will get
          NoRow,
          Amount, Account,              \* of the synced rows
          Parts,                        \* amounts an allocation may have
          Editors                       \* requests that edit at the same time

Ids == Base \cup Kids

ASSUME LedgerAssumption ==
  /\ NoRow \notin Ids /\ Base \cap Kids = {} /\ IsFiniteSet(Ids)
  /\ Amount \in [Base -> Int] /\ Parts \subseteq Int

VARIABLES
  row,                                  \* the committed rows
  edit,                                 \* the transaction of each editor
  pass                                  \* the nightly link pass

vars == <<row, edit, pass>>

Absent == [live |-> FALSE, parent |-> NoRow, amt |-> 0, split |-> FALSE, transfer |-> FALSE,
           link |-> NoRow, sticky |-> FALSE]
NoEdit == [pc |-> "idle", op |-> "none", txn |-> NoRow, parts |-> <<>>, seen |-> {}]
NoPass == [pc |-> "idle", todo |-> {}, leg |-> NoRow, cand |-> NoRow, home |-> NoRow, amt |-> 0]

Init ==
  /\ row = [i \in Ids |-> IF i \in Base THEN [Absent EXCEPT !.live = TRUE, !.amt = Amount[i]] ELSE Absent]
  /\ edit = [e \in Editors |-> NoEdit]
  /\ pass = NoPass

Live == {i \in Ids : row[i].live}
Children(p) == {i \in Live : row[i].parent = p}
Home(i) == IF i \in Base THEN i ELSE row[i].parent    \* whose account the row is in
Points(S) == {i \in Live : row[i].link \in S}

\* Rows that transactions other than e's have changed and not committed: the children
\* they deleted, then also the counterparts of these, then also the parent.
HeldBut(e) ==
  UNION {CASE edit[d].pc = "null" -> edit[d].seen
           [] edit[d].pc = "update" -> edit[d].seen \cup Points(edit[d].seen)
           [] edit[d].pc = "commit" -> edit[d].seen \cup Points(edit[d].seen) \cup {edit[d].txn}
           [] OTHER -> {} : d \in Editors \ {e}}
Held == HeldBut(NoRow)

SetEdit(e, new) == edit' = [edit EXCEPT ![e] = new]

-----------------------------------------------------------------------------
(* create_split and unsplit.                                                 *)

\* Mutant: the allocations need not add up.
Allowed_AnySum(p, parts) == ~row[p].transfer /\ row[p].link = NoRow /\ row[p].parent = NoRow

\* What create_split checks before its transaction.
Allowed(p, parts) ==
  /\ ~row[p].transfer /\ row[p].link = NoRow /\ row[p].parent = NoRow
  /\ parts[1] + parts[2] = row[p].amt
  /\ \A i \in DOMAIN parts : (parts[i] >= 0) = (row[p].amt >= 0)

BeginSplit(e, p, parts) ==
  /\ edit[e].pc = "idle" /\ p \in Live /\ Allowed(p, parts)
  /\ SetEdit(e, [NoEdit EXCEPT !.pc = "delete", !.op = "split", !.txn = p, !.parts = parts])
  /\ UNCHANGED <<row, pass>>

BeginUnsplit(e, p) ==
  /\ edit[e].pc = "idle" /\ p \in Live
  /\ SetEdit(e, [NoEdit EXCEPT !.pc = "delete", !.op = "unsplit", !.txn = p])
  /\ UNCHANGED <<row, pass>>

\* DELETE ... WHERE parent_id = p begins: these are the children it can see.
Delete(e) ==
  /\ edit[e].pc = "delete"
  /\ SetEdit(e, [edit[e] EXCEPT !.pc = "wait", !.seen = Children(edit[e].txn)])
  /\ UNCHANGED <<row, pass>>

\* It gets those that are still there when nobody else holds them.
Deleted(e) ==
  /\ edit[e].pc = "wait" /\ edit[e].seen \cap HeldBut(e) = {}
  /\ SetEdit(e, [edit[e] EXCEPT !.pc = "null", !.seen = @ \cap Live])
  /\ UNCHANGED <<row, pass>>

\* Still in the DELETE, ON DELETE SET NULL updates the rows that point at them.  Two
\* editors whose children are linked to each other wait here in a circle, until
\* PostgreSQL aborts one of them.
NullLinks(e) ==
  /\ edit[e].pc = "null" /\ Points(edit[e].seen) \cap HeldBut(e) = {}
  /\ SetEdit(e, [edit[e] EXCEPT !.pc = "update"])
  /\ UNCHANGED <<row, pass>>

\* The UPDATE of the parent.
LockParent(e) ==
  /\ edit[e].pc = "update" /\ edit[e].txn \notin HeldBut(e)
  /\ SetEdit(e, [edit[e] EXCEPT !.pc = "commit"])
  /\ UNCHANGED <<row, pass>>

\* Mutant: ON DELETE SET NULL is missing from the foreign key.
AfterDelete_Dangling(i, gone) == IF i \in gone THEN Absent ELSE row[i]

\* The foreign key clears transfer_id of a row whose counterpart is deleted, and
\* leaves transfer_link_manual.
AfterDelete(i, gone) ==
  IF i \in gone THEN Absent
  ELSE IF row[i].link \in gone THEN [row[i] EXCEPT !.link = NoRow] ELSE row[i]

\* The children get fresh ids.
NewKids == {k \in Kids \X Kids : k[1] # k[2] /\ k[1] \notin Live /\ k[2] \notin Live}

CommitSplit(e) ==
  LET p == edit[e].txn
      parts == edit[e].parts
      gone == edit[e].seen
      kid(amt) == [Absent EXCEPT !.live = TRUE, !.parent = p, !.amt = amt]
  IN /\ edit[e].pc = "commit" /\ edit[e].op = "split"
     /\ \E k \in NewKids :
          row' = [i \in Ids |-> IF i = k[1] THEN kid(parts[1])
                                ELSE IF i = k[2] THEN kid(parts[2])
                                ELSE IF i = p THEN [AfterDelete(i, gone) EXCEPT !.split = TRUE]
                                ELSE AfterDelete(i, gone)]
     /\ SetEdit(e, NoEdit) /\ UNCHANGED pass

CommitUnsplit(e) ==
  /\ edit[e].pc = "commit" /\ edit[e].op = "unsplit"
  /\ row' = [i \in Ids |-> LET r == AfterDelete(i, edit[e].seen)
                           IN IF i = edit[e].txn THEN [r EXCEPT !.split = FALSE] ELSE r]
  /\ SetEdit(e, NoEdit) /\ UNCHANGED pass

\* The request or its connection fails, or a circle of waits is broken: the
\* transaction is rolled back.
Rollback(e) ==
  /\ edit[e].pc # "idle"
  /\ SetEdit(e, NoEdit) /\ UNCHANGED <<row, pass>>

-----------------------------------------------------------------------------
(* Links by hand.                                                            *)

\* Mutant: the migration without the partial unique index.
Unique_No(S, T) == TRUE

\* transactions_transfer_id_uniq lets rows of S point at the rows of T: no other row
\* does.
Unique(S, T) == Points(T) \subseteq S

\* link: any two rows that exist; when an index or a check refuses it, the
\* transaction is rolled back and the caller told.
Link(S) ==
  /\ S \subseteq Live /\ Cardinality(S) = 2 /\ S \cap Held = {} /\ Unique(S, S)
  /\ row' = [i \in Ids |->
        IF i \in S THEN [row[i] EXCEPT !.link = CHOOSE j \in S : j # i, !.transfer = TRUE, !.sticky = TRUE]
        ELSE row[i]]
  /\ UNCHANGED <<edit, pass>>

\* unlink: reads the counterpart, if any, and then clears both rows.
BeginUnlink(e, i) ==
  /\ edit[e].pc = "idle" /\ i \in Live
  /\ SetEdit(e, [NoEdit EXCEPT !.pc = "clear", !.op = "unlink", !.txn = i, !.seen = {row[i].link} \ {NoRow}])
  /\ UNCHANGED <<row, pass>>

Clear(e) ==
  LET both == edit[e].seen \cup {edit[e].txn}
  IN /\ edit[e].pc = "clear" /\ both \cap HeldBut(e) = {}
     /\ row' = [i \in Ids |-> IF i \in both \cap Live THEN [row[i] EXCEPT !.link = NoRow, !.sticky = FALSE]
                              ELSE row[i]]
     /\ SetEdit(e, NoEdit) /\ UNCHANGED pass

-----------------------------------------------------------------------------
(* The nightly jobs.                                                         *)

\* backfill_transfer_flags, or the categorizer's Writer, flags a row.
Flag(i) ==
  /\ i \in Live \ Held /\ ~row[i].transfer
  /\ row' = [row EXCEPT ![i].transfer = TRUE]
  /\ UNCHANGED <<edit, pass>>

\* An unlinked leg, and the possible counterparts of row i of an amount in the
\* account of home; dates are within the window and amounts equal.
Legs == {i \in Live : row[i].transfer /\ row[i].link = NoRow /\ ~row[i].sticky}
Candidates(i, home, amt) == {j \in Legs \ {i} : Account[Home(j)] # Account[home] /\ row[j].amt = -amt}

StartPass ==
  /\ pass.pc = "idle" /\ Legs # {}
  /\ pass' = [NoPass EXCEPT !.pc = "look", !.todo = Legs]
  /\ UNCHANGED <<row, edit>>

NextLeg == pass' = [NoPass EXCEPT !.pc = "look", !.todo = pass.todo]

\* The next leg, if it is there and unlinked still and has one candidate, which is
\* read with the values that the next statement matches.
Look(i) ==
  LET cands == Candidates(i, Home(i), row[i].amt)
      goes == i \in Live /\ row[i].link = NoRow /\ Cardinality(cands) = 1
  IN /\ pass.pc = "look" /\ i \in pass.todo
     /\ \/ /\ goes
           /\ \E j \in cands :
                pass' = [pc |-> "back", todo |-> pass.todo \ {i}, leg |-> i,
                         cand |-> j, home |-> Home(j), amt |-> row[j].amt]
        \/ ~goes /\ pass' = [pass EXCEPT !.todo = @ \ {i}]
     /\ UNCHANGED <<row, edit>>

\* The candidate, deleted or not, must have that leg alone as its own candidate.
LookBack ==
  /\ pass.pc = "back"
  /\ IF Candidates(pass.cand, pass.home, pass.amt) = {pass.leg} THEN pass' = [pass EXCEPT !.pc = "set"] ELSE NextLeg
  /\ UNCHANGED <<row, edit>>

\* Mutant: the UPDATEs of _set_link without transfer_id IS NULL.
Unlinked_Blind(S) == S \cap Live

\* The rows of S that the UPDATEs of _set_link change.
Unlinked(S) == {i \in S \cap Live : row[i].link = NoRow}

\* An UPDATE that points a row at one that was deleted fails the foreign key, one
\* that points it at a row another points at the unique index.
Refused(S) == \E i \in Unlinked(S) : \E j \in S \ {i} : j \notin Live \/ ~Unique({i}, {j})

\* _set_link: both sides or, when one was linked or deleted meanwhile, neither.  An
\* error of the database is not caught and ends the pass.
SetLink ==
  LET S == {pass.leg, pass.cand}
  IN /\ pass.pc = "set" /\ S \cap Held = {}
     /\ \/ Refused(S) /\ pass' = NoPass /\ UNCHANGED row
        \/ ~Refused(S) /\ Unlinked(S) # S /\ NextLeg /\ UNCHANGED row
        \/ /\ ~Refused(S) /\ Unlinked(S) = S /\ NextLeg
           /\ row' = [row EXCEPT ![pass.leg].link = pass.cand, ![pass.cand].link = pass.leg]
     /\ UNCHANGED edit

\* The loop is over, or the process stops; what is linked stays linked.
EndPass ==
  /\ pass.pc # "idle"
  /\ pass' = NoPass /\ UNCHANGED <<row, edit>>

EditStep(e) ==
  \/ Delete(e) \/ Deleted(e) \/ NullLinks(e) \/ LockParent(e) \/ CommitSplit(e) \/ CommitUnsplit(e)
  \/ Clear(e) \/ Rollback(e)

PassStep == StartPass \/ (\E i \in Ids : Look(i)) \/ LookBack \/ SetLink \/ EndPass

Next ==
  \/ \E e \in Editors, i \in Ids :
       BeginUnsplit(e, i) \/ BeginUnlink(e, i) \/ \E parts \in Parts \X Parts : BeginSplit(e, i, parts)
  \/ \E e \in Editors : EditStep(e)
  \/ \E S \in SUBSET Live : Link(S)
  \/ \E i \in Ids : Flag(i)
  \/ PassStep

Spec == Init /\ [][Next]_vars

-----------------------------------------------------------------------------
TypeOK ==
  /\ row \in [Ids -> [live : BOOLEAN, parent : Base \cup {NoRow}, amt : Int, split : BOOLEAN,
                      transfer : BOOLEAN, link : Ids \cup {NoRow}, sticky : BOOLEAN]]
  /\ edit \in [Editors -> [pc : {"idle", "delete", "wait", "null", "update", "commit", "clear"},
                           op : {"none", "split", "unsplit", "unlink"}, txn : Ids \cup {NoRow},
                           parts : {<<>>} \cup (Parts \X Parts), seen : SUBSET Ids]]
  /\ pass \in [pc : {"idle", "look", "back", "set"}, todo : SUBSET Ids,
               leg : Ids \cup {NoRow}, cand : Ids \cup {NoRow}, home : Base \cup {NoRow}, amt : Int]
  /\ \A i \in Live : row[i].link \in Live \cup {NoRow}

\* "Children ... sum exactly to the parent": whatever was split, split again,
\* unsplit, abandoned half way or flagged meanwhile, the parts of a split row add
\* up to it, two as they were allocated, and a row that is not split has none.
AddUp(p) ==
  \E k, l \in Children(p) :
    k # l /\ Children(p) = {k, l} /\ row[k].amt + row[l].amt = row[p].amt

SplitSums == \A p \in Live : IF row[p].split THEN AddUp(p) ELSE Children(p) = {}

\* Links never form a chain: the counterpart of a row points back at it or, when
\* an unlink raced with a link, at nothing.
LinksNeverChain ==
  \A a \in Live : LET b == row[a].link IN b # NoRow => row[b].link \in {a, NoRow}

\* "Guarded so a concurrently-linked leg is not clobbered": no step of the nightly
\* pass changes a row that is linked, however old the pass's view of it is.
PassKeepsLinks ==
  [][pass' # pass => \A i \in Ids : row[i].link # NoRow => row'[i] = row[i]]_vars
=============================================================================
