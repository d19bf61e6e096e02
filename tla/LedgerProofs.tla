----------------------------- MODULE LedgerProofs -----------------------------
(* For any rows, allocations and number of editors: the types of Ledger, that *)
(* links never form a chain, and that the nightly pass leaves linked rows    *)
(* alone; and that the parts of a split add up while no two requests edit    *)
(* the split of the same row.                                                *)
(*                                                                           *)
(* That links never chain needs the foreign key (LinkInv: no link dangles)    *)
(* and the unique index; the checks of the code are not enough.             *)
(*                                                                           *)
(* That the parts of a split add up needs the parts of the split in progress *)
(* (EditSum) and that its transaction has got all the children there are,    *)
(* which is so while the requests under way are about different rows         *)
(* (Disjoint): splits, unsplits and rollbacks of other rows, links, flags and *)
(* the nightly pass may come in between.                                     *)
EXTENDS Ledger, FiniteSetTheorems, TLAPS

RowType == [live : BOOLEAN, parent : Base \cup {NoRow}, amt : Int, split : BOOLEAN,
            transfer : BOOLEAN, link : Ids \cup {NoRow}, sticky : BOOLEAN]
EditType == [pc : {"idle", "delete", "wait", "null", "update", "commit", "clear"},
             op : {"none", "split", "unsplit", "unlink"}, txn : Ids \cup {NoRow},
             parts : {<<>>} \cup (Parts \X Parts), seen : SUBSET Ids]
PassType == [pc : {"idle", "look", "back", "set"}, todo : SUBSET Ids,
             leg : Ids \cup {NoRow}, cand : Ids \cup {NoRow}, home : Base \cup {NoRow}, amt : Int]

\* The pass never pairs a leg with itself.
PassIs(p) == p \in PassType /\ (p.pc \in {"back", "set"} => p.leg # p.cand)

Types == row \in [Ids -> RowType] /\ edit \in [Editors -> EditType] /\ PassIs(pass)

\* The foreign key: a link is to a row that exists.
LinkInv == \A i \in Live : row[i].link \in Live \cup {NoRow}

\* Children have a parent, and a split is of a synced row into two parts.
KidInv == \A k \in Kids : row[k].live => row[k].parent # NoRow
Fits(q) == (q.pc # "idle" => q.txn \in Ids) /\ (q.op = "split" => q.txn \in Base /\ q.parts \in Parts \X Parts)
EditInv == \A e \in Editors : Fits(edit[e])

IInv == Types /\ LinkInv /\ KidInv /\ EditInv /\ LinksNeverChain

USE LedgerAssumption
USE DEF RowType

\* TypeOK is part of it.
LEMMA TypesAre == Types /\ LinkInv => TypeOK
BY DEF Types, PassIs, LinkInv, TypeOK, EditType, PassType

\* The rows that stand for nothing.
LEMMA AbsentIs ==
  /\ Absent \in RowType /\ ~Absent.live /\ Absent.link = NoRow
  /\ NoEdit \in EditType /\ Fits(NoEdit) /\ PassIs(NoPass)
BY DEF Absent, NoEdit, NoPass, EditType, PassType, PassIs, Fits

LEMMA InitInv == Init => IInv
<1> SUFFICES ASSUME Init PROVE IInv
  OBVIOUS
<1>1. \A i \in Base : LET r == [Absent EXCEPT !.live = TRUE, !.amt = Amount[i]]
                      IN r \in RowType /\ r.link = NoRow
  BY AbsentIs DEF Absent
<1>2. row \in [Ids -> RowType] /\ \A i \in Ids : row[i].link = NoRow
  BY <1>1, AbsentIs DEF Init
<1>3. Types
  BY <1>2, AbsentIs DEF Init, Types
<1>4. KidInv
  BY AbsentIs DEF Init, KidInv, Ids
<1>5. EditInv
  BY AbsentIs DEF Init, EditInv
<1>6. LinkInv /\ LinksNeverChain
  BY <1>2 DEF LinkInv, LinksNeverChain, Live
<1> QED BY <1>3, <1>4, <1>5, <1>6 DEF IInv

\* Links are only taken away, and none to a row that goes.
LEMMA FewerLinks ==
  ASSUME IInv, \A i \in Live' : row'[i].link = NoRow \/ (i \in Live /\ row'[i].link = row[i].link),
         LinkInv'
  PROVE  LinksNeverChain'
BY DEF IInv, LinkInv, LinksNeverChain, Live

\* Two rows are linked to each other, and no third one points at either.
LEMMA OneMoreLink ==
  ASSUME IInv, NEW a \in Live, NEW b \in Live, Unique({a, b}, {a, b}),
         Live' = Live, row'[a].link = b, row'[b].link = a,
         \A i \in Ids \ {a, b} : row'[i].link = row[i].link
  PROVE  LinkInv' /\ LinksNeverChain'
<1>1. \A x \in Live \ {a, b} : row[x].link \notin {a, b}
  BY DEF Unique, Points
<1>2. Live \subseteq Ids
  BY DEF Live
<1>3. LinkInv'
  BY <1>2 DEF IInv, LinkInv
<1>4. LinksNeverChain'
  BY <1>1, <1>2 DEF IInv, LinkInv, LinksNeverChain
<1> QED BY <1>3, <1>4

\* A step of an editor that changes no row.
LEMMA EditStepInv ==
  ASSUME IInv, NEW e \in Editors, NEW q \in EditType, Fits(q),
         edit' = [edit EXCEPT ![e] = q], UNCHANGED <<row, pass>>
  PROVE  IInv'
<1>1. Types'
  BY DEF IInv, Types
<1>2. EditInv'
  BY DEF IInv, Types, EditInv
<1> QED BY <1>1, <1>2 DEF IInv, LinkInv, KidInv, LinksNeverChain, Live

\* A step of the pass that changes no row.
LEMMA PassStepInv ==
  ASSUME IInv, PassIs(pass'), UNCHANGED <<row, edit>>
  PROVE  IInv'
BY DEF IInv, Types, LinkInv, KidInv, EditInv, LinksNeverChain, Live

\* A step that changes rows in place.
LEMMA RowStepInv ==
  ASSUME IInv, row' \in [Ids -> RowType],
         edit' \in [Editors -> EditType], EditInv', PassIs(pass'),
         \A i \in Ids : row'[i].live = row[i].live /\ row'[i].parent = row[i].parent,
         LinkInv', LinksNeverChain'
  PROVE  IInv'
BY DEF IInv, Types, KidInv, Ids

LEMMA EditsAre ==
  ASSUME IInv, NEW e \in Editors
  PROVE  /\ edit[e] \in EditType /\ Fits(edit[e])
         /\ edit[e].seen \subseteq Ids
         /\ \A new \in EditType : Fits(new) /\ SetEdit(e, new) => edit' \in [Editors -> EditType] /\ EditInv'
<1>1. edit[e] \in EditType /\ Fits(edit[e])
  BY DEF IInv, Types, EditInv
<1>2. edit[e].seen \subseteq Ids
  BY <1>1 DEF EditType
<1>3. ASSUME NEW new \in EditType, Fits(new), SetEdit(e, new)
      PROVE  edit' \in [Editors -> EditType] /\ EditInv'
  BY <1>3 DEF IInv, Types, EditInv, SetEdit
<1> QED BY <1>1, <1>2, <1>3

-----------------------------------------------------------------------------
(* Splits                                                                    *)

\* What a deletion leaves of a row.
LEMMA AfterDeleteIs ==
  ASSUME IInv, NEW i \in Ids, NEW gone \in SUBSET Ids
  PROVE  /\ AfterDelete(i, gone) \in RowType
         /\ AfterDelete(i, gone).live = (row[i].live /\ i \notin gone)
         /\ i \notin gone => AfterDelete(i, gone).parent = row[i].parent
         /\ AfterDelete(i, gone).link = NoRow \/ (i \notin gone /\ AfterDelete(i, gone).link = row[i].link)
         /\ AfterDelete(i, gone).link \notin gone
<1>1. row[i] \in RowType /\ NoRow \notin gone
  BY DEF IInv, Types
<1>2. CASE i \in gone
  BY <1>1, <1>2, AbsentIs DEF AfterDelete
<1>3. CASE i \notin gone /\ row[i].link \in gone
  BY <1>1, <1>3 DEF AfterDelete
<1>4. CASE i \notin gone /\ row[i].link \notin gone
  BY <1>1, <1>4 DEF AfterDelete
<1> QED BY <1>2, <1>3, <1>4

\* The parent's flag is set or cleared.
LEMMA SplitFlag ==
  ASSUME NEW r \in RowType, NEW b \in BOOLEAN
  PROVE  LET v == [r EXCEPT !.split = b]
         IN v \in RowType /\ v.live = r.live /\ v.link = r.link /\ v.parent = r.parent
OBVIOUS

\* A deletion commits: rows of gone are deleted, rows of new are created without links.
LEMMA CommitInv ==
  ASSUME IInv, NEW gone \in SUBSET Ids, NEW new \in SUBSET (Kids \ Live),
         row' \in [Ids -> RowType], pass' = pass,
         edit' \in [Editors -> EditType], EditInv',
         \A i \in new : row'[i].live /\ row'[i].link = NoRow /\ row'[i].parent # NoRow,
         \A i \in Ids \ new : /\ row'[i].live = AfterDelete(i, gone).live
                              /\ row'[i].link = AfterDelete(i, gone).link
                              /\ row'[i].parent = AfterDelete(i, gone).parent
  PROVE  IInv'
<1>1. Types'
  BY DEF IInv, Types
<1>2. \A i \in Ids : row'[i].link = NoRow \/ (i \notin new /\ row'[i].link = row[i].link /\ row'[i].link \notin gone)
  BY AfterDeleteIs
<1>3. \A i \in Ids \ new : row'[i].live => i \in Live /\ i \notin gone
  BY AfterDeleteIs DEF Live
<1>4. \A i \in Live : i \notin gone => i \in Live'
  BY AfterDeleteIs DEF Live
<1>5. LinkInv'
  BY <1>2, <1>3, <1>4 DEF IInv, LinkInv, Live
<1>6. \A i \in Live' : row'[i].link = NoRow \/ (i \in Live /\ row'[i].link = row[i].link)
  BY <1>2, <1>3 DEF Live
<1>7. LinksNeverChain'
  BY <1>5, <1>6, FewerLinks
<1>8. KidInv'
  BY <1>3, AfterDeleteIs DEF IInv, KidInv, Ids
<1> QED BY <1>1, <1>5, <1>7, <1>8 DEF IInv

LEMMA CommitSplitInv ==
  ASSUME IInv, NEW e \in Editors, CommitSplit(e)
  PROVE  IInv'
<1> DEFINE p == edit[e].txn
<1> DEFINE parts == edit[e].parts
<1> DEFINE gone == edit[e].seen
<1> DEFINE kid(amt) == [Absent EXCEPT !.live = TRUE, !.parent = p, !.amt = amt]
<1>1. /\ edit[e].op = "split" /\ SetEdit(e, NoEdit) /\ pass' = pass
  BY DEF CommitSplit
<1>2. p \in Base /\ parts \in Parts \X Parts /\ gone \in SUBSET Ids
  BY <1>1, EditsAre DEF Fits
<1>3. PICK k \in NewKids :
        row' = [i \in Ids |-> IF i = k[1] THEN kid(parts[1])
                              ELSE IF i = k[2] THEN kid(parts[2])
                              ELSE IF i = p THEN [AfterDelete(i, gone) EXCEPT !.split = TRUE]
                              ELSE AfterDelete(i, gone)]
  BY DEF CommitSplit
<1>4. k[1] \in Kids \ Live /\ k[2] \in Kids \ Live
  BY <1>3 DEF NewKids
<1>5. \A amt \in Parts : /\ kid(amt) \in RowType /\ kid(amt).live /\ kid(amt).link = NoRow
                         /\ kid(amt).parent # NoRow
  BY <1>2 DEF Absent, Ids
<1>7. \A i \in Ids : AfterDelete(i, gone) \in RowType
  BY <1>2, AfterDeleteIs
<1>6. \A i \in Ids : LET r == [AfterDelete(i, gone) EXCEPT !.split = TRUE]
                     IN /\ r \in RowType /\ r.live = AfterDelete(i, gone).live
                        /\ r.link = AfterDelete(i, gone).link /\ r.parent = AfterDelete(i, gone).parent
  BY <1>7, SplitFlag
<1>8. parts[1] \in Parts /\ parts[2] \in Parts
  BY <1>2
<1> DEFINE new == {k[1], k[2]}
<1> HIDE DEF kid, p, parts, gone
<1>9. \A i \in Ids : row'[i] \in RowType
  BY <1>3, <1>5, <1>6, <1>7, <1>8
<1>10. row' \in [Ids -> RowType]
  BY <1>3, <1>9
<1>11. \A i \in new : row'[i].live /\ row'[i].link = NoRow /\ row'[i].parent # NoRow
  BY <1>3, <1>4, <1>5, <1>8 DEF Ids
<1>12. \A i \in Ids \ new : /\ row'[i].live = AfterDelete(i, gone).live
                            /\ row'[i].link = AfterDelete(i, gone).link
                            /\ row'[i].parent = AfterDelete(i, gone).parent
  BY <1>3, <1>6
<1>13. edit' \in [Editors -> EditType] /\ EditInv' /\ new \in SUBSET (Kids \ Live)
  BY <1>1, <1>4, AbsentIs, EditsAre
<1> QED BY <1>1, <1>2, <1>10, <1>11, <1>12, <1>13, CommitInv

LEMMA CommitUnsplitInv ==
  ASSUME IInv, NEW e \in Editors, CommitUnsplit(e)
  PROVE  IInv'
<1> DEFINE gone == edit[e].seen
<1>1. SetEdit(e, NoEdit) /\ pass' = pass /\ gone \in SUBSET Ids
  BY EditsAre DEF CommitUnsplit
<1>3. \A i \in Ids : AfterDelete(i, gone) \in RowType
  BY <1>1, AfterDeleteIs
<1>2. \A i \in Ids : LET r == [AfterDelete(i, gone) EXCEPT !.split = FALSE]
                     IN /\ r \in RowType /\ r.live = AfterDelete(i, gone).live
                        /\ r.link = AfterDelete(i, gone).link /\ r.parent = AfterDelete(i, gone).parent
  BY <1>3, SplitFlag
<1>4. row' = [i \in Ids |-> IF i = edit[e].txn THEN [AfterDelete(i, gone) EXCEPT !.split = FALSE]
                            ELSE AfterDelete(i, gone)]
  BY DEF CommitUnsplit
<1> HIDE DEF gone
<1>5. \A i \in Ids : /\ row'[i] \in RowType
                     /\ row'[i].live = AfterDelete(i, gone).live
                     /\ row'[i].link = AfterDelete(i, gone).link
                     /\ row'[i].parent = AfterDelete(i, gone).parent
  BY <1>2, <1>3, <1>4
<1>6. row' \in [Ids -> RowType]
  BY <1>4, <1>5
<1>7. edit' \in [Editors -> EditType] /\ EditInv' /\ {} \in SUBSET (Kids \ Live)
  BY <1>1, AbsentIs, EditsAre
<1> QED BY <1>1, <1>5, <1>6, <1>7, CommitInv

\* The statements before the commit.
LEMMA BeginInv ==
  ASSUME IInv, NEW e \in Editors, NEW i \in Ids,
         \/ BeginUnsplit(e, i) \/ BeginUnlink(e, i)
         \/ \E parts \in Parts \X Parts : BeginSplit(e, i, parts)
  PROVE  IInv'
<1>1. CASE BeginUnsplit(e, i)
  <2> DEFINE q == [NoEdit EXCEPT !.pc = "delete", !.op = "unsplit", !.txn = i]
  <2>1. q \in EditType /\ Fits(q)
    BY DEF NoEdit, EditType, Fits
  <2> QED BY <1>1, <2>1, EditStepInv DEF BeginUnsplit, SetEdit
<1>2. CASE BeginUnlink(e, i)
  <2> DEFINE q == [NoEdit EXCEPT !.pc = "clear", !.op = "unlink", !.txn = i, !.seen = {row[i].link} \ {NoRow}]
  <2>1. row[i].link \in Ids \cup {NoRow}
    BY DEF IInv, Types
  <2>2. q \in EditType /\ Fits(q)
    BY <2>1 DEF NoEdit, EditType, Fits
  <2> QED BY <1>2, <2>2, EditStepInv DEF BeginUnlink, SetEdit
<1>3. ASSUME NEW parts \in Parts \X Parts, BeginSplit(e, i, parts)
      PROVE  IInv'
  <2> DEFINE q == [NoEdit EXCEPT !.pc = "delete", !.op = "split", !.txn = i, !.parts = parts]
  <2>1. i \in Base
    BY <1>3 DEF BeginSplit, Allowed, Live, IInv, KidInv, Ids
  <2>2. q \in EditType /\ Fits(q)
    BY <2>1 DEF NoEdit, EditType, Fits
  <2> QED BY <1>3, <2>2, EditStepInv DEF BeginSplit, SetEdit
<1> QED BY <1>1, <1>2, <1>3

LEMMA StatementInv ==
  ASSUME IInv, NEW e \in Editors, Delete(e) \/ Deleted(e) \/ NullLinks(e) \/ LockParent(e) \/ Rollback(e)
  PROVE  IInv'
<1>1. /\ edit[e] \in EditType /\ Fits(edit[e]) /\ edit[e].seen \subseteq Ids
      /\ Children(edit[e].txn) \subseteq Ids
  BY EditsAre DEF Children, Live
<1>2. CASE Delete(e)
  <2> DEFINE q == [edit[e] EXCEPT !.pc = "wait", !.seen = Children(edit[e].txn)]
  <2>1. q \in EditType /\ Fits(q)
    BY <1>1, <1>2 DEF EditType, Fits, Delete
  <2> QED BY <1>2, <2>1, EditStepInv DEF Delete, SetEdit
<1>3. CASE Deleted(e)
  <2> DEFINE q == [edit[e] EXCEPT !.pc = "null", !.seen = @ \cap Live]
  <2>1. q \in EditType /\ Fits(q)
    BY <1>1, <1>3 DEF EditType, Fits, Deleted
  <2> QED BY <1>3, <2>1, EditStepInv DEF Deleted, SetEdit
<1>6. CASE NullLinks(e)
  <2> DEFINE q == [edit[e] EXCEPT !.pc = "update"]
  <2>1. q \in EditType /\ Fits(q)
    BY <1>1, <1>6 DEF EditType, Fits, NullLinks
  <2> QED BY <1>6, <2>1, EditStepInv DEF NullLinks, SetEdit
<1>4. CASE LockParent(e)
  <2> DEFINE q == [edit[e] EXCEPT !.pc = "commit"]
  <2>1. q \in EditType /\ Fits(q)
    BY <1>1, <1>4 DEF EditType, Fits, LockParent
  <2> QED BY <1>4, <2>1, EditStepInv DEF LockParent, SetEdit
<1>5. CASE Rollback(e)
  BY <1>5, AbsentIs, EditStepInv DEF Rollback, SetEdit
<1> QED BY <1>2, <1>3, <1>4, <1>5, <1>6

-----------------------------------------------------------------------------
(* Links                                                                     *)

\* A set of two rows.
LEMMA TwoRows ==
  ASSUME NEW S \in SUBSET Ids, Cardinality(S) = 2
  PROVE  \E a, b \in S : a # b /\ S = {a, b}
<1>1. IsFiniteSet(S)
  BY FS_Subset
<1>2. PICK a \in S : TRUE
  BY <1>1, FS_EmptySet
<1> DEFINE T == S \ {a}
<1>3. IsFiniteSet(T) /\ Cardinality(T) = 1
  BY <1>1, <1>2, FS_RemoveElement
<1> HIDE DEF T
<1>4. PICK b \in T : TRUE
  BY <1>3, FS_EmptySet
<1>5. IsFiniteSet(T \ {b}) /\ Cardinality(T \ {b}) = 0
  BY <1>3, <1>4, FS_RemoveElement
<1>6. T \ {b} = {}
  BY <1>5, FS_EmptySet
<1> QED BY <1>2, <1>4, <1>6 DEF T

LEMMA LinkByHandInv ==
  ASSUME IInv, NEW S \in SUBSET Live, Link(S)
  PROVE  IInv'
<1>1. S \in SUBSET Ids /\ Cardinality(S) = 2 /\ Unique(S, S) /\ UNCHANGED <<edit, pass>>
  BY DEF Link, Live
<1>2. PICK a, b \in S : a # b /\ S = {a, b}
  BY <1>1, TwoRows
<1>3. (CHOOSE j \in S : j # a) = b /\ (CHOOSE j \in S : j # b) = a
  BY <1>2
<1> DEFINE other(i) == CHOOSE j \in S : j # i
<1>4. row' = [i \in Ids |->
        IF i \in S THEN [row[i] EXCEPT !.link = other(i), !.transfer = TRUE, !.sticky = TRUE] ELSE row[i]]
  BY DEF Link
<1>5. other(a) = b /\ other(b) = a
  BY <1>3
<1> HIDE DEF other
<1>6. a \in Ids /\ b \in Ids /\ row[a] \in RowType /\ row[b] \in RowType /\ row \in [Ids -> RowType]
  BY <1>1, <1>2 DEF IInv, Types
<1>7. /\ row'[a] = [row[a] EXCEPT !.link = b, !.transfer = TRUE, !.sticky = TRUE]
      /\ row'[b] = [row[b] EXCEPT !.link = a, !.transfer = TRUE, !.sticky = TRUE]
      /\ \A i \in Ids \ {a, b} : row'[i] = row[i]
  BY <1>2, <1>4, <1>5, <1>6
<1>8. /\ row'[a] \in RowType /\ row'[a].link = b /\ row'[a].live = row[a].live /\ row'[a].parent = row[a].parent
      /\ row'[b] \in RowType /\ row'[b].link = a /\ row'[b].live = row[b].live /\ row'[b].parent = row[b].parent
  BY <1>6, <1>7
<1>9. \A i \in Ids : /\ row'[i] \in RowType
                     /\ row'[i].live = row[i].live /\ row'[i].parent = row[i].parent
  <2>1. \A i \in Ids \ {a, b} :
          row'[i] \in RowType /\ row'[i].live = row[i].live /\ row'[i].parent = row[i].parent
    <3>1. \A i \in Ids : row[i] \in RowType
      BY <1>6
    <3> HIDE DEF RowType
    <3> QED BY <1>7, <3>1
  <2> HIDE DEF RowType
  <2> QED BY <1>8, <2>1
<1>10. row' \in [Ids -> RowType] /\ Live' = Live
  <2> HIDE DEF RowType
  <2>1. row' \in [Ids -> RowType]
    BY <1>4, <1>9
  <2>2. Live' = Live
    BY <1>9 DEF Live
  <2> QED BY <2>1, <2>2
<1>11. LinkInv' /\ LinksNeverChain'
  <2>1. Unique({a, b}, {a, b}) /\ a \in Live /\ b \in Live
    BY <1>1, <1>2, Zenon
  <2>2. /\ Live' = Live /\ row'[a].link = b /\ row'[b].link = a
        /\ \A i \in Ids \ {a, b} : row'[i].link = row[i].link
    BY <1>7, <1>8, <1>10
  <2> HIDE DEF RowType
  <2> QED BY <2>1, <2>2, OneMoreLink
<1>12. edit' \in [Editors -> EditType] /\ EditInv' /\ PassIs(pass')
  BY <1>1 DEF IInv, Types, EditInv
<1> QED BY <1>9, <1>10, <1>11, <1>12, RowStepInv

LEMMA ClearInv ==
  ASSUME IInv, NEW e \in Editors, Clear(e)
  PROVE  IInv'
<1> DEFINE both == edit[e].seen \cup {edit[e].txn}
<1>1. /\ row' = [i \in Ids |-> IF i \in both \cap Live THEN [row[i] EXCEPT !.link = NoRow, !.sticky = FALSE]
                               ELSE row[i]]
      /\ SetEdit(e, NoEdit) /\ pass' = pass
  BY DEF Clear
<1> HIDE DEF both
<1>2. row \in [Ids -> RowType]
  BY DEF IInv, Types
<1>3. \A i \in Ids : /\ row'[i] \in RowType
                     /\ row'[i].live = row[i].live /\ row'[i].parent = row[i].parent
                     /\ row'[i].link \in {row[i].link, NoRow}
  <2> TAKE i \in Ids
  <2>1. row[i] \in RowType
    BY <1>2
  <2>2. row'[i] = IF i \in both \cap Live THEN [row[i] EXCEPT !.link = NoRow, !.sticky = FALSE] ELSE row[i]
    BY <1>1
  <2> QED BY <2>1, <2>2
<1>4. row' \in [Ids -> RowType] /\ Live' = Live
  BY <1>1, <1>3 DEF Live
<1>5. LinkInv'
  BY <1>3, <1>4 DEF IInv, LinkInv, Live
<1>6. LinksNeverChain'
  BY <1>3, <1>4, <1>5, FewerLinks DEF Live
<1>7. edit' \in [Editors -> EditType] /\ EditInv' /\ PassIs(pass')
  BY <1>1, AbsentIs, EditsAre DEF IInv, Types
<1> QED BY <1>3, <1>4, <1>5, <1>6, <1>7, RowStepInv

LEMMA FlagInv ==
  ASSUME IInv, NEW x \in Ids, Flag(x)
  PROVE  IInv'
<1>1. row' = [row EXCEPT ![x].transfer = TRUE] /\ UNCHANGED <<edit, pass>>
  BY DEF Flag
<1>2. row \in [Ids -> RowType]
  BY DEF IInv, Types
<1>3. row'[x] = [row[x] EXCEPT !.transfer = TRUE] /\ \A i \in Ids \ {x} : row'[i] = row[i]
  BY <1>1, <1>2
<1>4. \A i \in Ids : /\ row'[i] \in RowType
                     /\ row'[i].live = row[i].live /\ row'[i].parent = row[i].parent
                     /\ row'[i].link = row[i].link
  <2>1. row[x] \in RowType
    BY <1>2
  <2>2. /\ row'[x] \in RowType /\ row'[x].link = row[x].link
        /\ row'[x].live = row[x].live /\ row'[x].parent = row[x].parent
    BY <1>3, <2>1
  <2> QED BY <1>2, <1>3, <2>2
<1>5. row' \in [Ids -> RowType] /\ Live' = Live
  BY <1>1, <1>2, <1>4 DEF Live
<1>6. LinkInv' /\ LinksNeverChain'
  BY <1>4, <1>5 DEF IInv, LinkInv, LinksNeverChain, Live
<1>7. edit' \in [Editors -> EditType] /\ EditInv' /\ PassIs(pass')
  BY <1>1 DEF IInv, Types, EditInv
<1> QED BY <1>4, <1>5, <1>6, <1>7, RowStepInv

-----------------------------------------------------------------------------
(* The nightly pass                                                          *)

\* The pass links two rows.
LEMMA SetLinkInv ==
  ASSUME IInv, SetLink
  PROVE  IInv'
<1> DEFINE a == pass.leg
<1> DEFINE b == pass.cand
<1>1. PassIs(pass') /\ edit' = edit
  <2>1. pass \in PassType /\ PassIs(NoPass)
    BY AbsentIs DEF IInv, Types, PassIs
  <2>2. PassIs([NoPass EXCEPT !.pc = "look", !.todo = pass.todo])
    BY <2>1 DEF PassType, PassIs
  <2>3. pass' = NoPass \/ pass' = [NoPass EXCEPT !.pc = "look", !.todo = pass.todo]
    BY DEF SetLink, NextLeg
  <2> QED BY <2>1, <2>2, <2>3 DEF SetLink
<1>2. CASE row' = row
  BY <1>1, <1>2, PassStepInv
<1>3. CASE /\ {a, b} \subseteq Live /\ Unlinked({a, b}) = {a, b} /\ ~Refused({a, b})
           /\ row' = [row EXCEPT ![a].link = b, ![b].link = a]
  <2>1. row \in [Ids -> RowType] /\ a \in Ids /\ b \in Ids /\ a # b
    BY <1>3 DEF IInv, Types, Live, PassIs, SetLink
  <2>2. /\ row'[a].link = b /\ row'[b].link = a
        /\ \A i \in Ids \ {a, b} : row'[i] = row[i]
        /\ \A i \in Ids : row'[i] \in RowType /\ row'[i].live = row[i].live /\ row'[i].parent = row[i].parent
    <3>1. \A i \in Ids : row[i] \in RowType
      BY <2>1
    <3>2. /\ row'[a] = [row[a] EXCEPT !.link = b] /\ row'[b] = [row[b] EXCEPT !.link = a]
          /\ \A i \in Ids \ {a, b} : row'[i] = row[i]
      BY <1>3, <2>1
    <3> QED BY <2>1, <3>1, <3>2
  <2>3. row' \in [Ids -> RowType] /\ Live' = Live
    BY <1>3, <2>1, <2>2 DEF Live
  <2>4. LinkInv' /\ LinksNeverChain'
    <3>1. Unique({a, b}, {a, b})
      <4>1. a \in Unlinked({a, b}) /\ b \in Unlinked({a, b}) /\ b \in {a, b} \ {a} /\ a \in {a, b} \ {b}
        BY <1>3, <2>1
      <4>2. Unique({a}, {b}) /\ Unique({b}, {a})
        BY <1>3, <4>1 DEF Refused
      <4> QED BY <4>2 DEF Unique, Points
    <3> QED BY <1>3, <2>2, <2>3, <3>1, OneMoreLink
  <2>5. edit' \in [Editors -> EditType] /\ EditInv'
    BY <1>1 DEF IInv, Types, EditInv
  <2> QED BY <1>1, <2>2, <2>3, <2>4, <2>5, RowStepInv
<1>4. Unlinked({a, b}) = {a, b} => {a, b} \subseteq Live
  BY DEF Unlinked
<1> QED BY <1>2, <1>3, <1>4 DEF SetLink

LEMMA PassInv ==
  ASSUME IInv, PassStep
  PROVE  IInv'
<1>1. pass \in PassType /\ PassIs(pass) /\ PassIs(NoPass) /\ Legs \subseteq Ids
  BY AbsentIs DEF IInv, Types, PassIs, Legs, Live
<1>2. CASE StartPass
  <2>1. PassIs(pass') /\ UNCHANGED <<row, edit>>
    BY <1>1, <1>2 DEF StartPass, NoPass, PassType, PassIs
  <2> QED BY <2>1, PassStepInv
<1>3. ASSUME NEW i \in Ids, Look(i)
      PROVE  IInv'
  <2>1. \A j \in Candidates(i, Home(i), row[i].amt) : j \in Ids /\ j # i /\ Home(j) \in Base \cup {NoRow} /\ row[j].amt \in Int
    BY DEF Candidates, Legs, Live, Home, IInv, Types
  <2>2. PassIs(pass') /\ UNCHANGED <<row, edit>>
    BY <1>1, <1>3, <2>1 DEF Look, PassType, PassIs
  <2> QED BY <2>2, PassStepInv
<1>4. CASE LookBack
  <2>1. PassIs(pass') /\ UNCHANGED <<row, edit>>
    BY <1>1, <1>4 DEF LookBack, NextLeg, NoPass, PassType, PassIs
  <2> QED BY <2>1, PassStepInv
<1>5. CASE EndPass
  BY <1>1, <1>5, PassStepInv DEF EndPass
<1> QED BY <1>2, <1>3, <1>4, <1>5, SetLinkInv DEF PassStep

\* Every step keeps the inductive invariant.
LEMMA NextInv == IInv /\ [Next]_vars => IInv'
<1> SUFFICES ASSUME IInv, [Next]_vars PROVE IInv'
  OBVIOUS
<1>1. ASSUME NEW e \in Editors, EditStep(e) PROVE IInv'
  BY <1>1, StatementInv, CommitSplitInv, CommitUnsplitInv, ClearInv DEF EditStep
<1>2. CASE UNCHANGED vars
  BY <1>2 DEF vars, IInv, Types, LinkInv, KidInv, EditInv, LinksNeverChain, Live
<1> QED BY <1>1, <1>2, BeginInv, LinkByHandInv, FlagInv, PassInv DEF Next

\* Only SetLink lets the pass change rows, and they were not linked.
LEMMA PassLeavesLinks ==
  ASSUME IInv, [Next]_vars, pass' # pass, NEW i \in Ids, row[i].link # NoRow
  PROVE  row'[i] = row[i]
<1>1. CASE SetLink
  <2>1. row \in [Ids -> RowType]
    BY DEF IInv, Types
  <2> QED BY <1>1, <2>1 DEF SetLink, Unlinked
<1>2. CASE PassStep
  BY <1>1, <1>2 DEF PassStep, StartPass, Look, LookBack, EndPass
<1>3. ASSUME NEW e \in Editors, NEW x \in Ids,
             \/ BeginUnsplit(e, x) \/ BeginUnlink(e, x)
             \/ \E parts \in Parts \X Parts : BeginSplit(e, x, parts)
      PROVE  FALSE
  BY <1>3 DEF BeginUnsplit, BeginUnlink, BeginSplit
<1>4. ASSUME NEW e \in Editors, EditStep(e)
      PROVE  FALSE
  BY <1>4 DEF EditStep, Delete, Deleted, NullLinks, LockParent, CommitSplit, CommitUnsplit, Clear, Rollback
<1> QED BY <1>2, <1>3, <1>4 DEF Next, Link, Flag, vars

-----------------------------------------------------------------------------
(* Sums, when no two requests edit the split of the same row                 *)

Splitting == {e \in Editors : edit[e].op \in {"split", "unsplit"}}
Disjoint == \A d, e \in Splitting : d # e => edit[d].txn # edit[e].txn

\* A split in progress still has the parts of its parent, and has locked or deleted
\* all the children there are.
EditSum(e) ==
  /\ edit[e].op = "split" => edit[e].parts[1] + edit[e].parts[2] = row[edit[e].txn].amt
  /\ edit[e].pc \in {"delete", "wait", "null", "update", "commit"} => e \in Splitting
  /\ edit[e].pc \in {"wait", "null", "update", "commit"} => edit[e].seen = Children(edit[e].txn)

BaseInv == \A i \in Base : row[i].live /\ row[i].parent = NoRow

SumInv == BaseInv /\ SplitSums /\ \A e \in Editors : EditSum(e)

\* What a sum depends on.
SameSum(i) == /\ row'[i].live = row[i].live /\ row'[i].parent = row[i].parent
              /\ row'[i].amt = row[i].amt /\ row'[i].split = row[i].split

LEMMA SumInit == Init => SumInv
<1> SUFFICES ASSUME Init PROVE SumInv
  OBVIOUS
<1>1. \A i \in Base : LET r == [Absent EXCEPT !.live = TRUE, !.amt = Amount[i]]
                      IN r.live /\ r.parent = NoRow /\ ~r.split
  BY DEF Absent
<1>2. /\ \A i \in Base : row[i].live
      /\ \A i \in Live : i \in Base /\ row[i].parent = NoRow /\ ~row[i].split
  BY <1>1, AbsentIs DEF Init, Live, Ids
<1>3. \A p \in Live : Children(p) = {}
  BY <1>2 DEF Live, Children, Ids
<1>4. \A e \in Editors : EditSum(e)
  BY DEF Init, NoEdit, EditSum, Splitting
<1>5. BaseInv
  BY <1>2 DEF BaseInv, Live, Ids
<1> QED BY <1>2, <1>3, <1>4, <1>5 DEF SumInv, SplitSums

\* Nobody is his own parent, and synced rows are nobody's children.
LEMMA ChildrenAre ==
  ASSUME IInv, SumInv, NEW p \in Ids
  PROVE  Children(p) \subseteq Live \cap Kids /\ p \notin Children(p)
<1>1. \A i \in Children(p) : i \in Live /\ row[i].parent = p /\ i \in Ids /\ row[i] \in RowType
  BY DEF Children, Live, IInv, Types
<1>2. p # NoRow
  OBVIOUS
<1>3. \A i \in Children(p) : i \in Kids /\ p \in Base
  BY <1>1, <1>2 DEF SumInv, BaseInv, Ids
<1> QED BY <1>1, <1>3

\* Rows that change in other ways keep all sums.
LEMMA InPlace ==
  ASSUME SumInv, IInv, \A i \in Ids : SameSum(i)
  PROVE  /\ BaseInv' /\ SplitSums'
         /\ \A e \in Editors : edit'[e] = edit[e] \/ edit'[e] = NoEdit => EditSum(e)'
<1>1. Live' = Live /\ \A p : Children(p)' = Children(p)
  BY DEF SameSum, Live, Children
<1>2. BaseInv'
  BY DEF SameSum, SumInv, BaseInv, Ids
<1>3. SplitSums'
  <2>1. \A p \in Live : row'[p].split = row[p].split /\ row'[p].amt = row[p].amt
    BY DEF SameSum, Live
  <2>2. \A p, k : k \in Children(p) => row'[k].amt = row[k].amt
    BY DEF SameSum, Live, Children
  <2>3. ASSUME NEW p \in Live, AddUp(p)  PROVE AddUp(p)'
    <3>1. PICK k, l \in Children(p) :
            k # l /\ Children(p) = {k, l} /\ row[k].amt + row[l].amt = row[p].amt
      BY <2>3 DEF AddUp
    <3>2. Children(p)' = Children(p)
      BY <1>1
    <3>3. row'[k].amt = row[k].amt /\ row'[l].amt = row[l].amt /\ row'[p].amt = row[p].amt
      BY <2>1, <2>2
    <3> QED BY <3>1, <3>2, <3>3 DEF AddUp
  <2> QED BY <1>1, <2>1, <2>3 DEF SumInv, SplitSums
<1>4. ASSUME NEW e \in Editors, edit'[e] = edit[e]  PROVE EditSum(e)'
  <2>1. edit[e].op = "split" => row'[edit[e].txn].amt = row[edit[e].txn].amt
    BY EditsAre DEF Fits, SameSum, Ids
  <2> QED BY <1>1, <1>4, <2>1 DEF SumInv, EditSum, Splitting
<1>5. ASSUME NEW e \in Editors, edit'[e] = NoEdit  PROVE EditSum(e)'
  BY <1>5 DEF EditSum, NoEdit
<1> QED BY <1>2, <1>3, <1>4, <1>5

\* The children of p are replaced by those of new.
LEMMA Replaced ==
  ASSUME IInv, SumInv, NEW p \in Ids, NEW new \in SUBSET (Kids \ Live),
         row' \in [Ids -> RowType],
         \A i \in new : row'[i].live /\ row'[i].parent = p /\ ~row'[i].split,
         \A i \in Children(p) : ~row'[i].live,
         row'[p].live = row[p].live, row'[p].parent = row[p].parent, row'[p].amt = row[p].amt,
         \A i \in Ids \ ({p} \cup new \cup Children(p)) : SameSum(i)
  PROVE  /\ BaseInv'
         /\ Children(p)' = new
         /\ \A q \in Ids \ {p} : Children(q)' = Children(q)
         /\ \A q \in Base : row'[q].amt = row[q].amt
         /\ \A q \in Live' \ {p} : IF row'[q].split THEN AddUp(q)' ELSE Children(q)' = {}
<1>1. Children(p) \subseteq Live \cap Kids /\ p \notin Children(p) /\ new \cap Children(p) = {}
  BY ChildrenAre
<1>2. BaseInv'
  BY <1>1 DEF SumInv, BaseInv, SameSum, Ids
<1>3. p \notin new \/ new = {}
  BY <1>2 DEF BaseInv
<1>4. row[p].parent # p
  BY <1>1 DEF IInv, Types, SumInv, BaseInv, Ids
<1>5. Children(p)' = new
  BY <1>1, <1>4 DEF Children, Live, SameSum, Ids
<1>6. ASSUME NEW q \in Live' \ {p}, q \in new  PROVE ~row'[q].split /\ Children(q)' = {}
  <2>1. q \in Kids /\ q \notin Base
    BY <1>6
  <2>2. \A i \in Ids : row'[i].parent # q
    BY <2>1 DEF Ids
  <2> QED BY <1>6, <2>2 DEF Children, Live
<1>7. ASSUME NEW q \in Live' \ {p}, q \notin new
      PROVE  q \in Live /\ SameSum(q) /\ Children(q)' = Children(q)
  <2>1. q \in Ids /\ q \notin Children(p)
    BY DEF Live
  <2>2. SameSum(q)
    BY <1>7, <2>1
  <2>3. q \in Live
    BY <2>1, <2>2 DEF Live, SameSum
  <2>4. \A i \in Ids : i \in Children(q)' <=> i \in Children(q)
    BY <1>1, <1>3 DEF Children, Live, SameSum
  <2>5. Children(q)' = Children(q)
    BY <2>4 DEF Children, Live
  <2> QED BY <2>2, <2>3, <2>5
<1>8. ASSUME NEW q \in Live' \ {p}, q \notin new
      PROVE  IF row'[q].split THEN AddUp(q)' ELSE Children(q)' = {}
  <2>1. q \in Live /\ SameSum(q) /\ Children(q)' = Children(q)
    BY <1>7, <1>8
  <2>2. \A k \in Children(q) : k \in Ids /\ k \notin Children(p) /\ k \notin new
    BY DEF Children, Live
  <2>3. \A k \in Children(q) : row'[k].amt = row[k].amt
    BY <2>2 DEF SameSum
  <2>4. AddUp(q) => AddUp(q)'
    BY <2>1, <2>3 DEF AddUp, SameSum
  <2> QED BY <2>1, <2>4 DEF SumInv, SplitSums, SameSum
<1>9. ASSUME NEW q \in Ids \ {p}  PROVE Children(q)' = Children(q)
  <2>1. \A i \in Ids : i \in Children(q)' <=> i \in Children(q)
    BY <1>1, <1>3 DEF Children, Live, SameSum
  <2> QED BY <2>1 DEF Children, Live
<1>10. \A q \in Base : row'[q].amt = row[q].amt
  BY <1>1 DEF SameSum, Ids
<1> QED BY <1>2, <1>5, <1>6, <1>8, <1>9, <1>10

\* A commit for one row leaves the other requests the children they have seen.
LEMMA OthersSum ==
  ASSUME IInv, SumInv, Disjoint, NEW e \in Splitting, SetEdit(e, NoEdit),
         \A q \in Ids \ {edit[e].txn} : Children(q)' = Children(q),
         \A q \in Base : row'[q].amt = row[q].amt,
         NEW d \in Editors
  PROVE  EditSum(d)'
<1>1. edit'[d] = IF d = e THEN NoEdit ELSE edit[d]
  BY DEF SetEdit, IInv, Types
<1>2. CASE d = e
  BY <1>1, <1>2 DEF EditSum, NoEdit
<1>3. CASE d # e
  <2>1. edit'[d] = edit[d] /\ EditSum(d) /\ Fits(edit[d])
    BY <1>1, <1>3, EditsAre DEF SumInv
  <2>2. (d \in Splitting)' <=> d \in Splitting
    BY <2>1 DEF Splitting
  <2>3. d \in Splitting => edit[d].txn # edit[e].txn
    BY <1>3 DEF Disjoint
  <2>4. edit[d].pc \in {"wait", "null", "update", "commit"} => edit[d].seen = Children(edit[d].txn)'
    BY <2>1, <2>3 DEF EditSum, Fits
  <2> QED BY <2>1, <2>2, <2>4 DEF EditSum, Fits
<1> QED BY <1>2, <1>3

\* What a deletion leaves of the sums.
LEMMA AfterDeleteSum ==
  ASSUME IInv, NEW i \in Ids, NEW gone \in SUBSET Ids
  PROVE  LET r == AfterDelete(i, gone)
         IN IF i \in gone THEN ~r.live
            ELSE /\ r.live = row[i].live /\ r.parent = row[i].parent
                 /\ r.amt = row[i].amt /\ r.split = row[i].split
<1>1. row[i] \in RowType
  BY DEF IInv, Types
<1> QED BY <1>1, AbsentIs DEF AfterDelete

LEMMA SplitFlagSum ==
  ASSUME NEW r \in RowType, NEW b \in BOOLEAN
  PROVE  LET v == [r EXCEPT !.split = b]
         IN v.live = r.live /\ v.parent = r.parent /\ v.amt = r.amt /\ v.split = b
OBVIOUS

LEMMA CommitSplitSum ==
  ASSUME IInv, SumInv, IInv', Disjoint, NEW e \in Editors, CommitSplit(e)
  PROVE  SumInv'
<1>0. PICK p \in Ids, parts \in Parts \X Parts, gone \in SUBSET Ids :
        p = edit[e].txn /\ parts = edit[e].parts /\ gone = edit[e].seen
  BY EditsAre DEF CommitSplit, Fits, Ids
<1> DEFINE kid(amt) == [Absent EXCEPT !.live = TRUE, !.parent = p, !.amt = amt]
<1>1. edit[e].op = "split" /\ edit[e].pc = "commit" /\ SetEdit(e, NoEdit)
  BY DEF CommitSplit
<1>2. /\ p \in Base /\ p \in Ids /\ parts[1] \in Parts /\ parts[2] \in Parts
      /\ gone = Children(p) /\ gone \in SUBSET Ids
      /\ parts[1] + parts[2] = row[p].amt /\ p \notin gone
  <2>1. p \in Base /\ parts \in Parts \X Parts /\ gone \in SUBSET Ids
    BY <1>0, <1>1, EditsAre DEF Fits
  <2>2. gone = Children(p) /\ parts[1] + parts[2] = row[p].amt
    BY <1>0, <1>1 DEF SumInv, EditSum
  <2> QED BY <2>1, <2>2, ChildrenAre DEF Ids
<1>3. PICK k \in NewKids :
        row' = [i \in Ids |-> IF i = k[1] THEN kid(parts[1])
                              ELSE IF i = k[2] THEN kid(parts[2])
                              ELSE IF i = p THEN [AfterDelete(i, gone) EXCEPT !.split = TRUE]
                              ELSE AfterDelete(i, gone)]
  BY <1>0 DEF CommitSplit
<1>4. k[1] \in Kids \ Live /\ k[2] \in Kids \ Live /\ k[1] # k[2]
  BY <1>3 DEF NewKids
<1>5. \A amt \in Parts : /\ kid(amt).live /\ kid(amt).parent = p
                         /\ ~kid(amt).split /\ kid(amt).amt = amt
  BY DEF Absent
<1>6. \A i \in Ids : LET r == [AfterDelete(i, gone) EXCEPT !.split = TRUE]
                     IN /\ r.live = AfterDelete(i, gone).live /\ r.split
                        /\ r.parent = AfterDelete(i, gone).parent /\ r.amt = AfterDelete(i, gone).amt
  BY <1>2, AfterDeleteIs, SplitFlagSum
<1> DEFINE new == {k[1], k[2]}
<1> HIDE DEF kid
<1>7. /\ row'[k[1]].live /\ row'[k[1]].parent = p /\ ~row'[k[1]].split /\ row'[k[1]].amt = parts[1]
      /\ row'[k[2]].live /\ row'[k[2]].parent = p /\ ~row'[k[2]].split /\ row'[k[2]].amt = parts[2]
  BY <1>2, <1>3, <1>4, <1>5 DEF Ids
<1>8. p \notin new
  BY <1>2, <1>4
<1>9. /\ row'[p].split /\ row'[p].live = row[p].live
      /\ row'[p].parent = row[p].parent /\ row'[p].amt = row[p].amt
  BY <1>2, <1>3, <1>6, <1>8, AfterDeleteSum
<1>10. \A i \in Ids \ ({p} \cup new) : row'[i] = AfterDelete(i, gone)
  BY <1>3
<1>11. \A i \in Ids \ ({p} \cup new \cup Children(p)) : SameSum(i)
  BY <1>2, <1>10, AfterDeleteSum DEF SameSum
<1>12. \A i \in Children(p) : ~row'[i].live
  <2>1. \A i \in Children(p) : i \in Ids /\ i \notin new /\ i # p
    BY <1>2, <1>4, ChildrenAre
  <2> QED BY <1>2, <1>10, <2>1, AfterDeleteSum
<1>13. new \in SUBSET (Kids \ Live) /\ row' \in [Ids -> RowType]
  BY <1>4 DEF IInv, Types
<1>14. /\ BaseInv' /\ Children(p)' = new
       /\ \A q \in Ids \ {p} : Children(q)' = Children(q)
       /\ \A q \in Base : row'[q].amt = row[q].amt
       /\ \A q \in Live' \ {p} : IF row'[q].split THEN AddUp(q)' ELSE Children(q)' = {}
  <2>1. \A i \in new : row'[i].live /\ row'[i].parent = p /\ ~row'[i].split
    BY <1>7
  <2> HIDE DEF new
  <2> QED BY <1>2, <1>9, <1>11, <1>12, <1>13, <2>1, Replaced
<1>15. AddUp(p)'
  <2>1. row'[k[1]].amt + row'[k[2]].amt = row'[p].amt
    BY <1>2, <1>7, <1>9
  <2>2. k[1] \in Children(p)' /\ k[2] \in Children(p)' /\ Children(p)' = {k[1], k[2]}
    BY <1>14
  <2> QED BY <1>4, <2>1, <2>2 DEF AddUp
<1>16. SplitSums'
  BY <1>9, <1>14, <1>15 DEF SplitSums
<1>17. \A d \in Editors : EditSum(d)'
  <2> HIDE DEF new
  <2>1. e \in Splitting
    BY <1>1 DEF Splitting
  <2>2. \A q \in Ids \ {edit[e].txn} : Children(q)' = Children(q)
    BY <1>0, <1>14
  <2> QED BY <1>1, <1>14, <2>1, <2>2, OthersSum
<1> QED BY <1>14, <1>16, <1>17 DEF SumInv

LEMMA CommitUnsplitSum ==
  ASSUME IInv, SumInv, IInv', Disjoint, NEW e \in Editors, CommitUnsplit(e)
  PROVE  SumInv'
<1>0. PICK p \in Ids, gone \in SUBSET Ids : p = edit[e].txn /\ gone = edit[e].seen
  BY EditsAre DEF CommitUnsplit, Fits
<1>1. edit[e].pc = "commit" /\ edit[e].op = "unsplit" /\ SetEdit(e, NoEdit)
  BY DEF CommitUnsplit
<1>2. p \in Ids /\ gone = Children(p) /\ gone \in SUBSET Ids /\ p \notin gone
  <2>1. gone = Children(p)
    BY <1>0, <1>1 DEF SumInv, EditSum
  <2> QED BY <2>1, ChildrenAre
<1>3. row' = [i \in Ids |-> IF i = p THEN [AfterDelete(i, gone) EXCEPT !.split = FALSE]
                            ELSE AfterDelete(i, gone)]
  BY <1>0 DEF CommitUnsplit
<1>4. LET r == [AfterDelete(p, gone) EXCEPT !.split = FALSE]
      IN /\ r.live = AfterDelete(p, gone).live /\ ~r.split
         /\ r.parent = AfterDelete(p, gone).parent /\ r.amt = AfterDelete(p, gone).amt
  BY <1>2, AfterDeleteIs, SplitFlagSum
<1>5. /\ ~row'[p].split /\ row'[p].live = row[p].live
      /\ row'[p].parent = row[p].parent /\ row'[p].amt = row[p].amt
  <2>1. row'[p] = [AfterDelete(p, gone) EXCEPT !.split = FALSE]
    BY <1>3
  <2>2. /\ AfterDelete(p, gone).live = row[p].live /\ AfterDelete(p, gone).parent = row[p].parent
        /\ AfterDelete(p, gone).amt = row[p].amt
    BY <1>2, AfterDeleteSum
  <2> QED BY <1>4, <2>1, <2>2
<1>6. \A i \in Ids \ {p} : row'[i] = AfterDelete(i, gone)
  BY <1>3
<1>7. \A i \in Ids \ ({p} \cup Children(p)) : SameSum(i)
  BY <1>2, <1>6, AfterDeleteSum DEF SameSum
<1>8. \A i \in Children(p) : ~row'[i].live
  BY <1>2, <1>6, AfterDeleteSum
<1>9. {} \in SUBSET (Kids \ Live) /\ row' \in [Ids -> RowType]
  BY DEF IInv, Types
<1>10. /\ BaseInv' /\ Children(p)' = {}
       /\ \A q \in Ids \ {p} : Children(q)' = Children(q)
       /\ \A q \in Base : row'[q].amt = row[q].amt
       /\ \A q \in Live' \ {p} : IF row'[q].split THEN AddUp(q)' ELSE Children(q)' = {}
  BY <1>2, <1>5, <1>7, <1>8, <1>9, Replaced
<1>11. SplitSums'
  BY <1>5, <1>10 DEF SplitSums
<1>12. \A d \in Editors : EditSum(d)'
  <2>1. e \in Splitting
    BY <1>1 DEF Splitting
  <2>2. \A q \in Ids \ {edit[e].txn} : Children(q)' = Children(q)
    BY <1>0, <1>10
  <2> QED BY <1>1, <1>10, <2>1, <2>2, OthersSum
<1> QED BY <1>10, <1>11, <1>12 DEF SumInv

\* A step of the editor that changes no row.
LEMMA QuietSum ==
  ASSUME IInv, SumInv, NEW e \in Editors, NEW q \in EditType, SetEdit(e, q), row' = row,
         q.op = "split" => q.parts[1] + q.parts[2] = row[q.txn].amt,
         q.pc \in {"delete", "wait", "null", "update", "commit"} => q.op \in {"split", "unsplit"},
         q.pc \in {"wait", "null", "update", "commit"} => q.seen = Children(q.txn)
  PROVE  SumInv'
<1>1. BaseInv' /\ SplitSums' /\ \A p : Children(p)' = Children(p)
  BY DEF SumInv, BaseInv, SplitSums, AddUp, Children, Live
<1>2. ASSUME NEW d \in Editors  PROVE EditSum(d)'
  <2>1. edit'[d] = IF d = e THEN q ELSE edit[d]
    BY DEF SetEdit, IInv, Types
  <2>2. CASE d = e
    BY <1>1, <2>1, <2>2 DEF EditSum, Splitting
  <2>3. CASE d # e
    BY <1>1, <2>1, <2>3 DEF EditSum, SumInv, Splitting
  <2> QED BY <2>2, <2>3
<1> QED BY <1>1, <1>2 DEF SumInv

\* The statements before the commit, and requests that give up.
LEMMA StatementSum ==
  ASSUME IInv, SumInv, NEW e \in Editors,
         Delete(e) \/ Deleted(e) \/ NullLinks(e) \/ LockParent(e) \/ Rollback(e)
  PROVE  SumInv'
<1>1. edit[e] \in EditType /\ EditSum(e) /\ Children(edit[e].txn) \subseteq Ids /\ Children(edit[e].txn) \subseteq Live
  BY DEF IInv, Types, SumInv, Children, Live
<1>2. CASE Delete(e)
  <2> DEFINE q == [edit[e] EXCEPT !.pc = "wait", !.seen = Children(edit[e].txn)]
  <2>1. /\ q \in EditType /\ q.op = edit[e].op /\ q.parts = edit[e].parts /\ q.txn = edit[e].txn
        /\ q.seen = Children(edit[e].txn)
    BY <1>1 DEF EditType
  <2>2. SetEdit(e, q) /\ row' = row /\ edit[e].pc = "delete"
    BY <1>2 DEF Delete
  <2> HIDE DEF q
  <2> QED BY <1>1, <2>1, <2>2, QuietSum DEF EditSum, Splitting
<1>3. CASE Deleted(e)
  <2> DEFINE q == [edit[e] EXCEPT !.pc = "null", !.seen = @ \cap Live]
  <2>1. /\ q \in EditType /\ q.op = edit[e].op /\ q.parts = edit[e].parts /\ q.txn = edit[e].txn
        /\ q.seen = edit[e].seen \cap Live
    BY <1>1 DEF EditType
  <2>2. SetEdit(e, q) /\ row' = row /\ edit[e].pc = "wait"
    BY <1>3 DEF Deleted
  <2> HIDE DEF q
  <2>3. q.seen = Children(q.txn)
    BY <1>1, <2>1, <2>2 DEF EditSum
  <2> QED BY <1>1, <2>1, <2>2, <2>3, QuietSum DEF EditSum, Splitting
<1>6. CASE NullLinks(e)
  <2> DEFINE q == [edit[e] EXCEPT !.pc = "update"]
  <2>1. /\ q \in EditType /\ q.op = edit[e].op /\ q.parts = edit[e].parts /\ q.txn = edit[e].txn
        /\ q.seen = edit[e].seen
    BY <1>1 DEF EditType
  <2>2. SetEdit(e, q) /\ row' = row /\ edit[e].pc = "null"
    BY <1>6 DEF NullLinks
  <2> HIDE DEF q
  <2> QED BY <1>1, <2>1, <2>2, QuietSum DEF EditSum, Splitting
<1>4. CASE LockParent(e)
  <2> DEFINE q == [edit[e] EXCEPT !.pc = "commit"]
  <2>1. /\ q \in EditType /\ q.op = edit[e].op /\ q.parts = edit[e].parts /\ q.txn = edit[e].txn
        /\ q.seen = edit[e].seen
    BY <1>1 DEF EditType
  <2>2. SetEdit(e, q) /\ row' = row /\ edit[e].pc = "update"
    BY <1>4 DEF LockParent
  <2> HIDE DEF q
  <2> QED BY <1>1, <2>1, <2>2, QuietSum DEF EditSum, Splitting
<1>5. CASE Rollback(e)
  <2>1. SetEdit(e, NoEdit) /\ row' = row
    BY <1>5 DEF Rollback
  <2>2. NoEdit.op = "none" /\ NoEdit.pc = "idle" /\ NoEdit \in EditType
    BY AbsentIs DEF NoEdit
  <2> HIDE DEF NoEdit
  <2> QED BY <2>1, <2>2, QuietSum
<1> QED BY <1>2, <1>3, <1>4, <1>5, <1>6

LEMMA BeginSum ==
  ASSUME IInv, SumInv, NEW e \in Editors, NEW i \in Ids,
         \/ BeginUnsplit(e, i) \/ BeginUnlink(e, i)
         \/ \E parts \in Parts \X Parts : BeginSplit(e, i, parts)
  PROVE  SumInv'
<1>1. CASE BeginUnsplit(e, i)
  <2> DEFINE q == [NoEdit EXCEPT !.pc = "delete", !.op = "unsplit", !.txn = i]
  <2>1. q \in EditType /\ q.op = "unsplit" /\ q.pc = "delete"
    BY DEF NoEdit, EditType
  <2>2. SetEdit(e, q) /\ row' = row
    BY <1>1 DEF BeginUnsplit
  <2> HIDE DEF q
  <2> QED BY <2>1, <2>2, QuietSum
<1>2. CASE BeginUnlink(e, i)
  <2> DEFINE q == [NoEdit EXCEPT !.pc = "clear", !.op = "unlink", !.txn = i, !.seen = {row[i].link} \ {NoRow}]
  <2>1. {row[i].link} \ {NoRow} \in SUBSET Ids
    BY DEF IInv, Types
  <2>2. q \in EditType /\ q.op = "unlink" /\ q.pc = "clear"
    BY <2>1 DEF NoEdit, EditType
  <2>3. SetEdit(e, q) /\ row' = row
    BY <1>2 DEF BeginUnlink
  <2> HIDE DEF q
  <2> QED BY <2>2, <2>3, QuietSum
<1>3. ASSUME NEW parts \in Parts \X Parts, BeginSplit(e, i, parts)  PROVE SumInv'
  <2> DEFINE q == [NoEdit EXCEPT !.pc = "delete", !.op = "split", !.txn = i, !.parts = parts]
  <2>1. q \in EditType /\ q.op = "split" /\ q.pc = "delete" /\ q.txn = i /\ q.parts = parts
    BY DEF NoEdit, EditType
  <2>2. SetEdit(e, q) /\ row' = row /\ parts[1] + parts[2] = row[i].amt
    BY <1>3 DEF BeginSplit, Allowed
  <2> HIDE DEF q
  <2> QED BY <2>1, <2>2, QuietSum
<1> QED BY <1>1, <1>2, <1>3

\* Steps that change links and flags.
LEMMA OtherSum ==
  ASSUME IInv, SumInv,
         \/ \E e \in Editors : Clear(e)
         \/ \E S \in SUBSET Live : Link(S)
         \/ \E i \in Ids : Flag(i)
         \/ PassStep
  PROVE  SumInv'
<1>1. row \in [Ids -> RowType] /\ edit \in [Editors -> EditType] /\ Live \subseteq Ids
  BY DEF IInv, Types, Live
<1>2. ASSUME NEW e \in Editors, Clear(e)  PROVE SumInv'
  <2>1. \A i \in Ids : SameSum(i)
    BY <1>1, <1>2 DEF Clear, SameSum
  <2>2. \A d \in Editors : edit'[d] = edit[d] \/ edit'[d] = NoEdit
    BY <1>1, <1>2 DEF Clear, SetEdit
  <2> QED BY <2>1, <2>2, InPlace DEF SumInv
<1>3. ASSUME NEW S \in SUBSET Live, Link(S)  PROVE SumInv'
  <2>1. ASSUME NEW i \in Ids  PROVE SameSum(i)
    <3>1. \/ row'[i] = row[i]
          \/ row'[i] = [row[i] EXCEPT !.link = CHOOSE j \in S : j # i, !.transfer = TRUE, !.sticky = TRUE]
      BY <1>3 DEF Link
    <3>2. row[i] \in RowType
      BY <1>1
    <3>3. CASE row'[i] = row[i]
      BY <3>3 DEF SameSum
    <3>4. ASSUME NEW l, row'[i] = [row[i] EXCEPT !.link = l, !.transfer = TRUE, !.sticky = TRUE]
          PROVE  SameSum(i)
      BY <3>2, <3>4 DEF SameSum
    <3> QED BY <3>1, <3>3, <3>4
  <2>2. edit' = edit
    BY <1>3 DEF Link
  <2> QED BY <2>1, <2>2, InPlace DEF SumInv
<1>4. ASSUME NEW i \in Ids, Flag(i)  PROVE SumInv'
  <2>1. \A j \in Ids : SameSum(j)
    BY <1>1, <1>4 DEF Flag, SameSum
  <2>2. edit' = edit
    BY <1>4 DEF Flag
  <2> QED BY <2>1, <2>2, InPlace DEF SumInv
<1>5. CASE PassStep
  <2>1. CASE SetLink
    <3>1. \A j \in Ids : SameSum(j)
      <4>1. CASE row' = [row EXCEPT ![pass.leg].link = pass.cand, ![pass.cand].link = pass.leg]
        BY <1>1, <4>1 DEF SameSum
      <4>2. CASE row' = row
        BY <4>2 DEF SameSum
      <4> QED BY <2>1, <4>1, <4>2 DEF SetLink
    <3>2. edit' = edit
      BY <2>1 DEF SetLink
    <3> QED BY <3>1, <3>2, InPlace DEF SumInv
  <2>2. CASE ~SetLink
    <3>1. row' = row /\ edit' = edit
      BY <1>5, <2>2 DEF PassStep, StartPass, Look, LookBack, EndPass
    <3>2. \A j \in Ids : SameSum(j)
      BY <3>1 DEF SameSum
    <3> QED BY <3>1, <3>2, InPlace DEF SumInv
  <2> QED BY <2>1, <2>2
<1> QED BY <1>2, <1>3, <1>4, <1>5

LEMMA NextSum == IInv /\ SumInv /\ Disjoint /\ [Next]_vars => SumInv'
<1> SUFFICES ASSUME IInv, SumInv, Disjoint, [Next]_vars PROVE SumInv'
  OBVIOUS
<1>1. IInv'
  BY NextInv
<1>2. ASSUME NEW e \in Editors, EditStep(e) PROVE SumInv'
  BY <1>1, <1>2, StatementSum, CommitSplitSum, CommitUnsplitSum, OtherSum DEF EditStep
<1>3. CASE UNCHANGED vars
  BY <1>3 DEF vars, SumInv, BaseInv, SplitSums, AddUp, Children, Live, EditSum, Splitting
<1> QED BY <1>2, <1>3, BeginSum, OtherSum DEF Next

-----------------------------------------------------------------------------
\* The inductive invariant of splits and links.
THEOREM Invariant == Spec => []IInv
BY InitInv, NextInv, PTL DEF Spec

\* The types of the ledger, and that no link dangles, however splits, links and the
\* nightly pass interleave.
THEOREM TypeCorrect == Spec => []TypeOK
<1>1. IInv => TypeOK
  BY TypesAre DEF IInv
<1> QED BY <1>1, Invariant, PTL

\* The transfer links of migration 0029 never form a chain.
THEOREM NoChains == Spec => []LinksNeverChain
<1>1. IInv => LinksNeverChain
  BY DEF IInv
<1> QED BY <1>1, Invariant, PTL

\* link_transfers changes no row that is linked, whatever it read before.
THEOREM PassIsSafe == Spec => PassKeepsLinks
<1>1. IInv /\ [Next]_vars => [pass' # pass => \A i \in Ids : row[i].link # NoRow => row'[i] = row[i]]_vars
  BY PassLeavesLinks
<1> QED BY <1>1, Invariant, PTL DEF Spec, PassKeepsLinks

\* "Children ... sum exactly to the parent", of create_split, for any number of
\* requests at once as long as no two of them edit the split of the same row; run
\* split_race is what happens when two do.
THEOREM PartsAddUp == Spec /\ []Disjoint => []SplitSums
<1>1. IInv /\ SumInv /\ Disjoint /\ [Next]_vars => SumInv'
  BY NextSum
<1>2. SumInv => SplitSums
  BY DEF SumInv
<1> QED BY <1>1, <1>2, SumInit, Invariant, PTL DEF Spec

\* In particular, the parts add up when requests come one at a time, as run ledger
\* has them.
COROLLARY OneEditorAddsUp ==
  ASSUME \A d, e \in Editors : d = e
  PROVE  Spec => []SplitSums
<1>1. Disjoint
  BY DEF Disjoint, Splitting
<1> QED BY <1>1, PartsAddUp, PTL

==============================================================================
