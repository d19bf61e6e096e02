------------------------------ MODULE UndoProofs ------------------------------
(* For any sessions, rows, keys, columns and edits: the types of Undo, that  *)
(* a deletion leaves its key in a log, that a session which has taken back   *)
(* all it did, one request at a time, finds the rows that only its own       *)
(* statements reach as they were, and that without redo its newest deletion  *)
(* can always be taken back.                                                 *)
(*                                                                           *)
(* A row that refers to no other can vanish in three ways: deleted with an   *)
(* entry of its own or of a twin, deleted again by a redo, or deleted        *)
(* without an entry by a request that had found no row when it asked.        *)
(* RequestInv has the reason why each of them leaves an entry: whoever       *)
(* redoes does so from an entry that is still there, or that Clear took, and *)
(* whoever found no row found its key logged.                                *)
EXTENDS Undo, TLAPS

\* Some log has a deletion of the key of r, or had it until its page was left.
Logged(r) ==
  \/ Twins(r) \cap forgotten # {}
  \/ \E s \in Sessions : \E i \in DOMAIN log[s] : log[s][i].op = "delete" /\ log[s][i].row \in Twins(r)

\* Rows that refer to others, which a deletion may take along, are not accounted for.
Apart(r) == \A x \in Rows : r \notin Along(x)
Kept(r) == start[r] = Absent \/ Logged(r)

LogInv ==
  /\ log \in [Sessions -> Seq(Entries)] /\ req \in [Handlers -> Requests]
  /\ \A s \in Sessions : Len(log[s]) <= MaxLog[s]

RequestInv ==
  \A h \in Handlers :
    /\ req[h].op = "delete" /\ req[h].old = Absent =>
         \A x \in Twins(req[h].row) : Apart(x) => Kept(x)
    /\ req[h].op = "redo" /\ req[h].e.op = "delete" => Logged(req[h].e.row)

\* Requests of a session that overlap have been noticed.
OneAtATime ==
  \A g, h \in Handlers :
    Caller[g] = Caller[h] /\ Caller[g] \notin overlapped /\ req[g] # None /\ req[h] # None => g = h

IInv == TypeOK /\ LogInv /\ RequestInv /\ NothingLost /\ OneAtATime

USE ColsAssumption, ValuesAssumption, PatchesAssumption, AbsentAssumption, MaxLogAssumption,
    CallerAssumption
USE DEF None

\* NothingLost, row by row.
LEMMA LostIs == NothingLost <=> \A r \in Rows : row[r] = Absent /\ Apart(r) => Kept(r)
BY DEF NothingLost, Kept, Logged, Apart

\* Twins share what is logged of their key.
LEMMA TwinsIs ==
  ASSUME NEW r, NEW x \in Twins(r)
  PROVE  Twins(x) = Twins(r) /\ (Logged(x) <=> Logged(r))
<1>1. Twins(x) = Twins(r)
  BY DEF Twins
<1> QED BY <1>1 DEF Logged

\* The values of an edit suit their columns.
LEMMA PatchIs ==
  ASSUME NEW p \in Patches
  PROVE  DOMAIN p \subseteq Cols /\ \A c \in DOMAIN p : p[c] \in Domain(c)
BY DEF Domain

\* A row that is changed in some columns is a row.
LEMMA MergeIs ==
  ASSUME NEW v \in Contents, NEW p,
         DOMAIN p \subseteq Cols, \A c \in DOMAIN p : p[c] \in Domain(c)
  PROVE  Merge(v, p) \in Contents
<1>1. \A c \in Cols : Merge(v, p)[c] \in Domain(c)
  BY DEF Merge, Contents
<1>2. \A c \in Cols : Domain(c) \subseteq Vals \cup {Null, Stamp}
  BY DEF Domain
<1> QED BY <1>1, <1>2 DEF Merge, Contents

\* What an undo writes suits its columns too.
LEMMA RevertedIs ==
  ASSUME NEW e \in Entries, e.op = "update"
  PROVE  /\ DOMAIN Reverted(e) \subseteq Cols
         /\ \A c \in DOMAIN Reverted(e) : Reverted(e)[c] \in Domain(c)
<1>1. e.new \in Patches /\ e.old \in Contents
  BY DEF Entries
<1> QED BY <1>1, PatchIs DEF Reverted, Contents

\* The table that an UPDATE leaves: rows change, none comes or goes.
LEMMA PatchedIs ==
  ASSUME row \in [Rows -> Contents \cup {Absent}], NEW r \in Rows, NEW p,
         DOMAIN p \subseteq Cols, \A c \in DOMAIN p : p[c] \in Domain(c)
  PROVE  /\ Patched(r, p) \in [Rows -> Contents \cup {Absent}]
         /\ \A x \in Rows : /\ Patched(r, p)[x] = Absent <=> row[x] = Absent
                            /\ x \notin Twins(r) => Patched(r, p)[x] = row[x]
         /\ Patched(r, p)[r] = (IF row[r] = Absent THEN row[r] ELSE Merge(row[r], p))
<1>1. \A x \in Rows : row[x] # Absent => Merge(row[x], p) \in Contents
  BY MergeIs
<1>2. r \in Twins(r)
  BY DEF Twins
<1> QED BY <1>1, <1>2 DEF Patched

\* The table that a DELETE leaves: the twins are gone and rows that refer to them may be.
LEMMA ErasedIs ==
  ASSUME row \in [Rows -> Contents \cup {Absent}], NEW r \in Rows, NEW f \in Erased(r)
  PROVE  /\ f \in [Rows -> Contents \cup {Absent}]
         /\ \A x \in Rows : /\ x \in Twins(r) => f[x] = Absent
                            /\ x \notin Twins(r) \cup Along(r) => f[x] = row[x]
                            /\ row[x] = Absent => f[x] = Absent
<1>1. PICK g \in [Along(r) -> Contents \cup {Absent}] :
        /\ \A x \in Along(r) : g[x] \in Left(r, x)
        /\ f = [x \in Rows |-> IF x \in Along(r) THEN g[x] ELSE IF x \in Twins(r) THEN Absent ELSE row[x]]
  BY DEF Erased
<1>2. \A x \in Along(r) : x \in Twins(r) \/ row[x] = Absent => g[x] = Absent
  BY <1>1 DEF Left
<1> QED BY <1>1, <1>2

\* TypeOK says of the logs what LogInv says.
LEMMA LogIs ==
  ASSUME NEW l \in [Sessions -> Seq(Entries)], NEW s \in Sessions
  PROVE  \A i \in DOMAIN l[s] : l[s][i] \in Entries
<1>1. l[s] \in Seq(Entries)
  OBVIOUS
<1> QED BY <1>1

\* The initial state satisfies the inductive invariant.
LEMMA InitInv == Init => IInv
<1> SUFFICES ASSUME Init PROVE IInv
  OBVIOUS
<1>1. LogInv
  <2>1. <<>> \in Seq(Entries) /\ Len(<<>>) = 0 /\ None \in Requests
    BY DEF Requests
  <2> QED BY <2>1 DEF Init, LogInv
<1>2. TypeOK
  BY <1>1, LogIs DEF Init, TypeOK, LogInv
<1>3. RequestInv /\ NothingLost /\ OneAtATime
  BY DEF Init, RequestInv, NothingLost, OneAtATime
<1> QED BY <1>1, <1>2, <1>3 DEF IInv

\* What is logged stays so while logs grow, entries are marked and pages are left.
LEMMA LoggedStays ==
  ASSUME forgotten \subseteq forgotten', NEW r,
         \A s \in Sessions : \A i \in DOMAIN log[s] :
           \/ /\ i \in DOMAIN log'[s]
              /\ log'[s][i].op = log[s][i].op /\ log'[s][i].row = log[s][i].row
           \/ log[s][i].op = "delete" => log[s][i].row \in forgotten'
  PROVE  Logged(r) => Logged(r)'
BY DEF Logged, Twins

\* q is what h asks for, and RequestInv holds of it.
Fits(h, q) ==
  /\ Ask(h, q)
  /\ q.op = "delete" /\ q.old = Absent => \A x \in Twins(q.row) : Apart(x) => Kept(x)
  /\ q.op = "redo" /\ q.e.op = "delete" => Logged(q.e.row)

\* What a request asks for.
LEMMA RequestFits ==
  ASSUME IInv, NEW h \in Handlers, Request(h)
  PROVE  \E q \in Requests : q # None /\ Fits(h, q)
<1> USE DEF IInv
<1> DEFINE s == Caller[h]
<1>1. ASSUME NEW r \in Rows, BeginDelete(h, r) PROVE \E q \in Requests : q # None /\ Fits(h, q)
  <2> DEFINE d == [op |-> "delete", row |-> r, old |-> row[r]]
  <2>1. d \in Requests /\ Ask(h, d) /\ Read(r)
    BY <1>1 DEF BeginDelete, Requests, TypeOK
  <2>2. d.op = "delete" /\ d.row = r /\ d.old = row[r] /\ d # None
    OBVIOUS
  <2>3. ASSUME row[r] = Absent, NEW x \in Twins(r), Apart(x) PROVE Kept(x)
    <3>1. x \in Rows /\ row[x] = Absent
      BY <2>1, <2>3 DEF Read, Found, Twins
    <3> QED BY <2>3, <3>1, LostIs
  <2> HIDE DEF d
  <2> QED BY <2>1, <2>2, <2>3 DEF Fits
<1>2. ASSUME NEW r \in Rows, NEW p \in Patches, BeginUpdate(h, r, p)
      PROVE  \E q \in Requests : q # None /\ Fits(h, q)
  <2> DEFINE d == [op |-> "update", row |-> r, new |-> p, old |-> row[r]]
  <2>1. d \in Requests /\ Ask(h, d)
    BY <1>2 DEF BeginUpdate, Requests, TypeOK
  <2>2. d.op = "update" /\ d # None
    OBVIOUS
  <2> HIDE DEF d
  <2> QED BY <2>1, <2>2 DEF Fits
<1>3. ASSUME NEW i \in DOMAIN log[s], NEW op \in {"undo", "redo"}, Reads(h, op, i)
      PROVE  \E q \in Requests : q # None /\ Fits(h, q)
  <2> DEFINE d == [op |-> op, entry |-> i, e |-> log[s][i]]
  <2>1. s \in Sessions /\ i \in Nat \ {0} /\ log[s][i] \in Entries
    BY <1>3 DEF LogInv
  <2>2. d \in Requests /\ Ask(h, d)
    BY <1>3, <2>1 DEF Requests, Reads
  <2>3. d.op = op /\ d.e = log[s][i] /\ d # None
    OBVIOUS
  <2>4. log[s][i].op = "delete" => Logged(log[s][i].row)
    <3>1. log[s][i].row \in Rows
      BY <2>1 DEF Entries
    <3>2. log[s][i].row \in Twins(log[s][i].row)
      BY <3>1 DEF Twins
    <3> QED BY <1>3, <2>1, <3>2 DEF Logged
  <2> HIDE DEF d
  <2> QED BY <2>2, <2>3, <2>4 DEF Fits
<1>4. CASE BeginUndo(h)
  BY <1>3, <1>4 DEF BeginUndo, Standing
<1>5. CASE BeginRedo(h)
  BY <1>3, <1>5 DEF BeginRedo, Undone
<1> QED BY <1>1, <1>2, <1>4, <1>5 DEF Request

\* A request is made.
LEMMA BeginInv ==
  ASSUME IInv, NEW h \in Handlers, Request(h)
  PROVE  IInv'
<1> USE DEF IInv
<1>1. PICK q \in Requests : q # None /\ Fits(h, q)
  BY RequestFits
<1>2. UNCHANGED <<row, start, log, closed, writers, cut, forgotten>>
  BY <1>1 DEF Fits, Ask
<1>3. \A r : (Kept(r) <=> Kept(r)') /\ (Logged(r) <=> Logged(r)')
  BY <1>2 DEF Kept, Logged
<1>4. /\ req' \in [Handlers -> Requests] /\ \A g \in Handlers : req'[g] = IF g = h THEN q ELSE req[g]
      /\ req[h] = None /\ overlapped' = overlapped \cup {s \in {Caller[h]} : Busy(s)}
  BY <1>1 DEF LogInv, Fits, Ask
<1>5. LogInv'
  BY <1>2, <1>4 DEF LogInv
<1>6. TypeOK'
  BY <1>2, <1>4, <1>5, LogIs DEF TypeOK, LogInv
<1>7. RequestInv'
  <2>1. ASSUME NEW g \in Handlers, req'[g].op = "delete", req'[g].old = Absent,
               NEW x \in Twins(req'[g].row), Apart(x)
        PROVE  Kept(x)'
    BY <1>1, <1>3, <1>4, <2>1 DEF RequestInv, Fits
  <2>2. ASSUME NEW g \in Handlers, req'[g].op = "redo", req'[g].e.op = "delete"
        PROVE  Logged(req[g].e.row)'
    <3>1. PICK r : r = req'[g].e.row
      OBVIOUS
    <3>2. Logged(r)
      BY <1>1, <1>4, <2>2, <3>1 DEF RequestInv, Fits
    <3> QED BY <1>2, <3>1, <3>2 DEF Logged
  <2> QED BY <2>1, <2>2 DEF RequestInv, Twins, Apart, Along
<1>8. NothingLost'
  BY <1>2 DEF NothingLost
<1>9. OneAtATime'
  BY <1>4 DEF OneAtATime, Busy
<1> QED BY <1>5, <1>6, <1>7, <1>8, <1>9

\* What all other steps have in common: deletions are logged or forgotten, a request
\* goes on to its mark or is answered, and a row that vanishes is kept somewhere.
LEMMA StepInv ==
  ASSUME IInv, LogInv', start' = start, overlapped' = overlapped,
         row' \in [Rows -> Contents \cup {Absent}], closed' \subseteq Sessions,
         cut' \in BOOLEAN, writers' \subseteq Sessions \cup {Outside},
         forgotten \subseteq forgotten', forgotten' \subseteq Rows,
         \A s \in Sessions : \A i \in DOMAIN log[s] :
           \/ /\ i \in DOMAIN log'[s]
              /\ log'[s][i].op = log[s][i].op /\ log'[s][i].row = log[s][i].row
           \/ log[s][i].op = "delete" => log[s][i].row \in forgotten',
         \A h \in Handlers :
           \/ req'[h] = req[h]
           \/ req'[h].op \in {"none", "mark"} /\ req[h] # None,
         \A r \in Rows : row'[r] = Absent /\ Apart(r) => row[r] = Absent \/ Kept(r)'
  PROVE  IInv'
<1>1. \A r : Logged(r) => Logged(r)'
  BY LoggedStays
<1>2. \A r : Kept(r) => Kept(r)'
  BY <1>1 DEF Kept
<1>3. TypeOK'
  BY LogIs DEF IInv, TypeOK, LogInv
<1>4. RequestInv'
  <2>1. ASSUME NEW g \in Handlers, req'[g].op = "delete", req'[g].old = Absent,
               NEW x \in Twins(req'[g].row), Apart(x)
        PROVE  Kept(x)'
    BY <1>2, <2>1 DEF IInv, RequestInv
  <2>2. ASSUME NEW g \in Handlers, req'[g].op = "redo", req'[g].e.op = "delete"
        PROVE  Logged(req[g].e.row)'
    <3>1. PICK r : r = req'[g].e.row
      OBVIOUS
    <3>2. Logged(r)
      BY <2>2, <3>1 DEF IInv, RequestInv
    <3>3. Logged(r)'
      BY <1>1, <3>2
    <3> QED BY <3>1, <3>3 DEF Logged
  <2> QED BY <2>1, <2>2 DEF RequestInv, Twins, Apart, Along
<1>5. \A r \in Rows : row'[r] = Absent /\ Apart(r) => Kept(r)'
  BY <1>2, LostIs DEF IInv
<1>6. NothingLost'
  BY <1>5 DEF NothingLost, Kept, Logged, Apart
<1>7. OneAtATime'
  BY DEF IInv, OneAtATime
<1> QED BY <1>3, <1>4, <1>6, <1>7 DEF IInv

\* A request that ends in None or in the mark; the log is as it was.
LEMMA RowStepInv ==
  ASSUME IInv, NEW h \in Handlers, NEW q \in Requests, q.op \in {"none", "mark"}, req[h] # None,
         req' = [req EXCEPT ![h] = q], UNCHANGED <<start, log, closed, overlapped, forgotten>>,
         row' \in [Rows -> Contents \cup {Absent}],
         cut' \in BOOLEAN, writers' \subseteq Sessions \cup {Outside},
         \A r \in Rows : row'[r] = Absent /\ Apart(r) => row[r] = Absent \/ Kept(r)
  PROVE  IInv'
<1>1. LogInv'
  BY DEF IInv, LogInv
<1>2. \A g \in Handlers : \/ req'[g] = req[g]
                          \/ req'[g].op \in {"none", "mark"} /\ req[g] # None
  BY DEF IInv, LogInv
<1>3. \A r : Kept(r) => Kept(r)'
  BY DEF Kept, Logged
<1>4. closed' \subseteq Sessions /\ forgotten \subseteq forgotten' /\ forgotten' \subseteq Rows
  BY DEF IInv, TypeOK
<1> QED BY <1>1, <1>2, <1>3, <1>4, StepInv

\* Rows are written: the tables keep their types.
LEMMA SetRowsIs ==
  ASSUME IInv, NEW f \in [Rows -> Contents \cup {Absent}], NEW by \in Sessions \cup {Outside},
         SetRows(f, by)
  PROVE  row' = f /\ writers' \subseteq Sessions \cup {Outside}
BY DEF IInv, TypeOK, SetRows

LEMMA SetRowIs ==
  ASSUME IInv, NEW r \in Rows, NEW v \in Contents, NEW by \in Sessions \cup {Outside},
         SetRow(r, v, by)
  PROVE  /\ row' \in [Rows -> Contents \cup {Absent}]
         /\ writers' \subseteq Sessions \cup {Outside}
         /\ row'[r] = v /\ \A x \in Rows \ {r} : row'[x] = row[x]
<1>1. row \in [Rows -> Contents \cup {Absent}]
  BY DEF IInv, TypeOK
<1>2. [row EXCEPT ![r] = v] \in [Rows -> Contents \cup {Absent}]
  BY <1>1
<1>3. SetRows([row EXCEPT ![r] = v], by)
  BY DEF SetRow
<1>4. row' = [row EXCEPT ![r] = v] /\ writers' \subseteq Sessions \cup {Outside}
  BY <1>2, <1>3, SetRowsIs
<1> QED BY <1>1, <1>2, <1>4

\* The parts of an undo: the rows of the request and what marking asks for.
LEMMA EntryIs ==
  ASSUME IInv, NEW h \in Handlers, req[h].op \in {"undo", "redo"}
  PROVE  /\ req[h].e \in Entries /\ req[h].e.row \in Rows /\ req[h].entry \in Nat \ {0}
         /\ req[h].e.old \in Contents /\ req[h] # None
         /\ req[h].e.op = "update" => req[h].e.new \in Patches
<1>1. req[h] \in Requests
  BY DEF IInv, LogInv
<1>2. req[h].e \in Entries /\ req[h].entry \in Nat \ {0}
  BY <1>1 DEF Requests
<1> QED BY <1>2 DEF Entries

\* The same of the mark that follows.
LEMMA MarkingIs ==
  ASSUME IInv, NEW h \in Handlers, req[h].op \in {"undo", "redo"}, Marking(h)
  PROVE  \E q \in Requests : q.op = "mark" /\ req' = [req EXCEPT ![h] = q]
<1> DEFINE q == [op |-> "mark", entry |-> req[h].entry, undone |-> req[h].op = "undo"]
<1>1. q \in Requests
  BY EntryIs DEF Requests
<1>2. req' = [req EXCEPT ![h] = q]
  BY DEF Marking, IInv, LogInv
<1> QED BY <1>1, <1>2

\* Undoing and redoing an edit change rows and ask for the mark.
LEMMA PatchInv ==
  ASSUME IInv, NEW h \in Handlers, NEW p, req[h].op \in {"undo", "redo"},
         DOMAIN p \subseteq Cols, \A c \in DOMAIN p : p[c] \in Domain(c),
         SetRows(Patched(req[h].e.row, p), Caller[h]), Marking(h),
         UNCHANGED <<start, log, closed, cut, overlapped, forgotten>>
  PROVE  IInv'
<1>1. PICK q \in Requests : q.op = "mark" /\ req' = [req EXCEPT ![h] = q]
  BY MarkingIs
<1>2. PICK r \in Rows : r = req[h].e.row
  BY EntryIs
<1>3. cut' \in BOOLEAN /\ req[h] # None
  BY EntryIs DEF IInv, TypeOK
<1>4. /\ Patched(r, p) \in [Rows -> Contents \cup {Absent}]
      /\ \A x \in Rows : Patched(r, p)[x] = Absent <=> row[x] = Absent
  BY PatchedIs DEF IInv, TypeOK
<1>5. row' = Patched(r, p) /\ writers' \subseteq Sessions \cup {Outside}
  BY <1>2, <1>4, SetRowsIs
<1> QED BY <1>1, <1>3, <1>4, <1>5, RowStepInv

\* UPDATE and DELETE with their entries: an entry is appended and the request ends.
LEMMA EntryAdded ==
  ASSUME IInv, NEW h \in Handlers, NEW s \in Sessions, NEW e \in Entries,
         Record(s, e), Answer(h), req[h] # None
  PROVE  /\ LogInv'
         /\ \A t \in Sessions : \A i \in DOMAIN log[t] :
              /\ i \in DOMAIN log'[t]
              /\ log'[t][i].op = log[t][i].op /\ log'[t][i].row = log[t][i].row
         /\ \A g \in Handlers :
              \/ req'[g] = req[g]
              \/ req'[g].op \in {"none", "mark"} /\ req[g] # None
         /\ \E i \in DOMAIN log'[s] : log'[s][i] = e
<1>1. /\ log[s] \in Seq(Entries) /\ Len(log[s]) \in Nat /\ MaxLog[s] \in Nat
      /\ Len(log[s]) < MaxLog[s]
  BY DEF IInv, LogInv, Record, Room
<1>2. Append(log[s], e) \in Seq(Entries) /\ Len(Append(log[s], e)) = Len(log[s]) + 1
  BY <1>1
<1>3. log'[s] = Append(log[s], e) /\ \A t \in Sessions \ {s} : log'[t] = log[t]
  BY DEF Record, IInv, LogInv
<1>4. /\ log' \in [Sessions -> Seq(Entries)] /\ req' \in [Handlers -> Requests]
      /\ req'[h] = None /\ \A g \in Handlers \ {h} : req'[g] = req[g]
  <2>1. None \in Requests
    BY DEF Requests
  <2> QED BY <1>2, <2>1 DEF Record, Answer, IInv, LogInv
<1>5. \A t \in Sessions : Len(log'[t]) <= MaxLog[t]
  <2>1. Len(log'[s]) <= MaxLog[s]
    BY <1>1, <1>2, <1>3
  <2>2. \A t \in Sessions : Len(log[t]) <= MaxLog[t]
    BY DEF IInv, LogInv
  <2> QED BY <1>3, <2>1, <2>2
<1>6. \A i \in DOMAIN log[s] : i \in DOMAIN log'[s] /\ log'[s][i] = log[s][i]
  BY <1>1, <1>2, <1>3
<1>7. Len(log'[s]) \in DOMAIN log'[s] /\ log'[s][Len(log'[s])] = e
  BY <1>1, <1>2, <1>3
<1>8. LogInv'
  BY <1>4, <1>5 DEF LogInv
<1>9. \A t \in Sessions : \A i \in DOMAIN log[t] :
        /\ i \in DOMAIN log'[t]
        /\ log'[t][i].op = log[t][i].op /\ log'[t][i].row = log[t][i].row
  BY <1>3, <1>6
<1>10. \E i \in DOMAIN log'[s] : log'[s][i] = e
  BY <1>7
<1> QED BY <1>4, <1>8, <1>9, <1>10

\* What an edit or a deletion has read and asks for.
LEMMA AskedIs ==
  ASSUME IInv, NEW h \in Handlers, req[h].op \in {"update", "delete"}
  PROVE  /\ req[h].row \in Rows /\ req[h].old \in Contents \cup {Absent} /\ req[h] # None
         /\ req[h].op = "update" => req[h].new \in Patches
<1>1. req[h] \in Requests
  BY DEF IInv, LogInv
<1> QED BY <1>1 DEF Requests

\* An edit.
LEMMA UpdateInv ==
  ASSUME IInv, NEW h \in Handlers, Update(h)
  PROVE  IInv'
<1> DEFINE q == req[h]
<1> DEFINE s == Caller[h]
<1>1. q.row \in Rows /\ q.new \in Patches /\ q.old \in Contents \cup {Absent} /\ q # None /\ s \in Sessions
  BY AskedIs DEF Update
<1>2. PICK r \in Rows : r = q.row
  BY <1>1
<1>3. /\ Patched(r, q.new) \in [Rows -> Contents \cup {Absent}]
      /\ \A x \in Rows : Patched(r, q.new)[x] = Absent <=> row[x] = Absent
  <2>1. DOMAIN q.new \subseteq Cols /\ \A c \in DOMAIN q.new : q.new[c] \in Domain(c)
    BY <1>1, PatchIs
  <2>2. row \in [Rows -> Contents \cup {Absent}]
    BY DEF IInv, TypeOK
  <2> HIDE DEF q
  <2> QED BY <2>1, <2>2, PatchedIs
<1>4. /\ row' \in [Rows -> Contents \cup {Absent}] /\ writers' \subseteq Sessions \cup {Outside}
      /\ \A x \in Rows : row'[x] = Absent => row[x] = Absent
  <2>1. SetRows(Patched(r, q.new), IF q.old = Absent THEN Outside ELSE s)
    BY <1>2 DEF Update
  <2> QED BY <1>1, <1>3, <2>1, SetRowsIs
<1>5. /\ UNCHANGED <<start, closed, overlapped, forgotten>> /\ Answer(h)
      /\ closed' \subseteq Sessions /\ cut' \in BOOLEAN /\ forgotten' \subseteq Rows
  BY DEF Update, IInv, TypeOK
<1>6. CASE q.old = Absent
  <2>1. None \in Requests /\ None.op = "none" /\ req' = [req EXCEPT ![h] = None] /\ log' = log
    BY <1>5, <1>6 DEF Update, Answer, Requests
  <2> QED BY <1>1, <1>4, <1>5, <2>1, RowStepInv
<1>7. CASE q.old # Absent
  <2> DEFINE e == [op |-> "update", row |-> q.row, old |-> q.old, new |-> q.new, undone |-> FALSE]
  <2>1. e \in Entries /\ Record(s, e)
    BY <1>1, <1>7 DEF Update, Entries
  <2> HIDE DEF e
  <2> QED BY <1>1, <1>4, <1>5, <2>1, EntryAdded, StepInv
<1> QED BY <1>6, <1>7

\* A deletion: the row is logged, or none was found and then they are kept already.
LEMMA DeleteInv ==
  ASSUME IInv, NEW h \in Handlers, Delete(h)
  PROVE  IInv'
<1> DEFINE q == req[h]
<1> DEFINE s == Caller[h]
<1>1. /\ q.op = "delete" /\ q.row \in Rows /\ q.old \in Contents \cup {Absent} /\ q # None
      /\ s \in Sessions /\ (q.old = Absent => \A x \in Twins(q.row) : Apart(x) => Kept(x))
  BY AskedIs DEF Delete, IInv, RequestInv
<1>2. PICK r \in Rows : r = q.row
  BY <1>1
<1>3. PICK f \in Erased(r) : SetRows(f, IF q.old = Absent THEN Outside ELSE s)
  BY <1>2 DEF Delete
<1>4. /\ row' \in [Rows -> Contents \cup {Absent}] /\ writers' \subseteq Sessions \cup {Outside}
      /\ \A x \in Rows : x \notin Twins(r) /\ Apart(x) => row'[x] = row[x]
  <2>1. f \in [Rows -> Contents \cup {Absent}] /\ \A x \in Rows : x \notin Twins(r) \cup Along(r) => f[x] = row[x]
    BY ErasedIs DEF IInv, TypeOK
  <2> QED BY <1>1, <1>3, <2>1, SetRowsIs DEF Apart
<1>5. /\ UNCHANGED <<start, closed, overlapped, forgotten>> /\ Answer(h)
      /\ closed' \subseteq Sessions /\ cut' \in BOOLEAN /\ forgotten' \subseteq Rows
  BY DEF Delete, IInv, TypeOK
<1>6. CASE q.old = Absent
  <2>1. None \in Requests /\ None.op = "none" /\ req' = [req EXCEPT ![h] = None] /\ log' = log
    BY <1>5, <1>6 DEF Delete, Answer, Requests
  <2>2. \A x \in Rows : row'[x] = Absent /\ Apart(x) => row[x] = Absent \/ Kept(x)
    BY <1>1, <1>2, <1>4, <1>6
  <2> QED BY <1>1, <1>4, <1>5, <2>1, <2>2, RowStepInv
<1>7. CASE q.old # Absent
  <2> DEFINE e == [op |-> "delete", row |-> q.row, old |-> q.old, new |-> <<>>, undone |-> FALSE]
  <2>1. e \in Entries /\ Record(s, e) /\ e.op = "delete" /\ e.row = q.row
    BY <1>1, <1>7 DEF Delete, Entries
  <2> HIDE DEF e
  <2>2. PICK i \in DOMAIN log'[s] : log'[s][i] = e
    BY <1>1, <1>5, <2>1, EntryAdded
  <2>3. ASSUME NEW x \in Twins(r) PROVE Kept(x)'
    <3>1. r \in Twins(x)
      BY <2>3 DEF Twins
    <3> QED BY <1>1, <1>2, <2>1, <2>2, <3>1 DEF Kept, Logged
  <2>4. \A x \in Rows : row'[x] = Absent /\ Apart(x) => row[x] = Absent \/ Kept(x)'
    BY <1>4, <2>3
  <2> QED BY <1>1, <1>4, <1>5, <2>1, <2>4, EntryAdded, StepInv
<1> QED BY <1>6, <1>7

\* A deletion is repeated, from an entry that is still logged or was forgotten.
LEMMA RedoDeleteInv ==
  ASSUME IInv, NEW h \in Handlers, RedoDelete(h)
  PROVE  IInv'
<1>1. req[h].op = "redo" /\ req[h].e.op = "delete" /\ Marking(h)
  BY DEF RedoDelete
<1>2. PICK r \in Rows : r = req[h].e.row
  BY <1>1, EntryIs
<1>3. \A x \in Twins(r) : Kept(x)
  <2>1. Logged(r)
    BY <1>1, <1>2 DEF IInv, RequestInv
  <2> QED BY <2>1, TwinsIs DEF Kept
<1>4. PICK q \in Requests : q.op = "mark" /\ req' = [req EXCEPT ![h] = q]
  BY <1>1, MarkingIs
<1>5. UNCHANGED <<start, log, closed, overlapped, forgotten>> /\ cut' \in BOOLEAN /\ req[h] # None
  BY <1>1, EntryIs DEF RedoDelete, IInv, TypeOK
<1>6. CASE ~Found(r)
  <2>1. row' = row /\ writers' = writers
    BY <1>2, <1>6 DEF RedoDelete
  <2> QED BY <1>4, <1>5, <2>1, RowStepInv DEF IInv, TypeOK
<1>7. CASE Found(r)
  <2>1. PICK f \in Erased(r) : SetRows(f, Caller[h])
    BY <1>2, <1>7 DEF RedoDelete
  <2>2. f \in [Rows -> Contents \cup {Absent}] /\ \A x \in Rows : x \notin Twins(r) \cup Along(r) => f[x] = row[x]
    BY ErasedIs DEF IInv, TypeOK
  <2>3. /\ row' \in [Rows -> Contents \cup {Absent}] /\ writers' \subseteq Sessions \cup {Outside}
        /\ \A x \in Rows : row'[x] = Absent /\ Apart(x) => row[x] = Absent \/ Kept(x)
    BY <1>3, <2>1, <2>2, SetRowsIs DEF Apart
  <2> QED BY <1>4, <1>5, <2>3, RowStepInv
<1> QED BY <1>6, <1>7

\* A deleted row is put back.
LEMMA UndoDeleteInv ==
  ASSUME IInv, NEW h \in Handlers, UndoDelete(h)
  PROVE  IInv'
<1>1. req[h].op = "undo" /\ Marking(h) /\ SetRow(req[h].e.row, req[h].e.old, Caller[h])
  BY DEF UndoDelete
<1>2. req[h].e.row \in Rows /\ req[h].e.old \in Contents /\ req[h] # None
  BY <1>1, EntryIs
<1>3. PICK q \in Requests : q.op = "mark" /\ req' = [req EXCEPT ![h] = q]
  BY <1>1, MarkingIs
<1>4. UNCHANGED <<start, log, closed, overlapped, forgotten>> /\ cut' \in BOOLEAN
  BY DEF UndoDelete, IInv, TypeOK
<1>5. /\ row' \in [Rows -> Contents \cup {Absent}] /\ writers' \subseteq Sessions \cup {Outside}
      /\ \A x \in Rows : row'[x] = Absent => row[x] = Absent
  BY <1>1, <1>2, SetRowIs
<1> QED BY <1>2, <1>3, <1>4, <1>5, RowStepInv

\* The entry of an undo or a redo is marked, if it is still there.
LEMMA MarkInv ==
  ASSUME IInv, NEW h \in Handlers, Mark(h)
  PROVE  IInv'
<1> DEFINE n == req[h].entry
<1> DEFINE s == Caller[h]
<1>1. n \in Nat \ {0} /\ req[h].undone \in BOOLEAN /\ req[h] # None /\ s \in Sessions
  <2>1. req[h] \in Requests /\ req[h].op = "mark"
    BY DEF Mark, IInv, LogInv
  <2> QED BY <2>1 DEF Requests
<1>2. None \in Requests /\ None.op = "none" /\ req' = [req EXCEPT ![h] = None]
  BY DEF Mark, Answer, Requests
<1>3. UNCHANGED <<row, start, closed, writers, cut, overlapped, forgotten>>
  BY DEF Mark
<1>4. CASE n \notin DOMAIN log[s]
  <2>1. log' = log
    BY <1>4 DEF Mark
  <2> QED BY <1>1, <1>2, <1>3, <2>1, RowStepInv DEF IInv, TypeOK
<1>5. CASE n \in DOMAIN log[s]
  <2> DEFINE e == [log[s][n] EXCEPT !.undone = req[h].undone]
  <2> DEFINE l == [log[s] EXCEPT ![n] = e]
  <2>1. log' = [log EXCEPT ![s] = l]
    BY <1>5 DEF Mark
  <2>2. log[s] \in Seq(Entries) /\ log[s][n] \in Entries
    BY <1>1, <1>5, LogIs DEF IInv, LogInv
  <2>3. e \in Entries /\ e.op = log[s][n].op /\ e.row = log[s][n].row
    BY <1>1, <2>2 DEF Entries
  <2> HIDE DEF e
  <2>4. l \in Seq(Entries) /\ Len(l) = Len(log[s]) /\ DOMAIN l = DOMAIN log[s]
    BY <1>5, <2>2, <2>3
  <2>5. \A i \in DOMAIN log[s] : l[i].op = log[s][i].op /\ l[i].row = log[s][i].row
    BY <2>2, <2>3
  <2> HIDE DEF l
  <2>6. log'[s] = l /\ \A t \in Sessions \ {s} : log'[t] = log[t]
    BY <1>1, <2>1 DEF IInv, LogInv
  <2>7. /\ log' \in [Sessions -> Seq(Entries)] /\ req' \in [Handlers -> Requests]
        /\ \A t \in Sessions : Len(log'[t]) = Len(log[t])
    BY <1>1, <1>2, <2>1, <2>4, <2>6 DEF IInv, LogInv
  <2>8. LogInv'
    BY <2>7 DEF IInv, LogInv
  <2>9. \A g \in Handlers : req'[g] = req[g] \/ (req'[g].op \in {"none", "mark"} /\ req[g] # None)
    BY <1>1, <1>2 DEF IInv, LogInv
  <2>10. \A t \in Sessions : \A i \in DOMAIN log[t] :
           /\ i \in DOMAIN log'[t]
           /\ log'[t][i].op = log[t][i].op /\ log'[t][i].row = log[t][i].row
    BY <2>4, <2>5, <2>6
  <2> QED BY <1>3, <2>8, <2>9, <2>10, StepInv DEF IInv, TypeOK
<1> QED BY <1>4, <1>5

\* A page is left; its log goes, or stays when nobody heard.
LEMMA ClearInv ==
  ASSUME IInv, NEW s \in Sessions, Clear(s)
  PROVE  IInv'
<1>1. UNCHANGED <<row, start, req, writers, cut, overlapped>> /\ closed' = closed \cup {s}
  BY DEF Clear
<1>2. CASE UNCHANGED <<log, forgotten>>
  BY <1>1, <1>2, StepInv DEF IInv, TypeOK, LogInv
<1>3. CASE /\ log' = [log EXCEPT ![s] = <<>>]
           /\ forgotten' = forgotten \cup {log[s][i].row : i \in {j \in DOMAIN log[s] : log[s][j].op = "delete"}}
  <2>1. <<>> \in Seq(Entries) /\ Len(<<>>) = 0
    OBVIOUS
  <2>2. /\ log' \in [Sessions -> Seq(Entries)]
        /\ \A t \in Sessions : log'[t] = log[t] \/ (t = s /\ log'[t] = <<>>)
    BY <1>3, <2>1 DEF IInv, LogInv
  <2>3. LogInv'
    BY <1>1, <2>1, <2>2 DEF IInv, LogInv
  <2>4. forgotten' \subseteq Rows
    <3>1. \A i \in DOMAIN log[s] : log[s][i].row \in Rows
      BY DEF IInv, TypeOK, Entries
    <3> QED BY <1>3, <3>1 DEF IInv, TypeOK
  <2>5. \A t \in Sessions : \A i \in DOMAIN log[t] :
          \/ /\ i \in DOMAIN log'[t]
             /\ log'[t][i].op = log[t][i].op /\ log'[t][i].row = log[t][i].row
          \/ log[t][i].op = "delete" => log[t][i].row \in forgotten'
    BY <1>3, <2>2
  <2> QED BY <1>1, <1>3, <2>3, <2>4, <2>5, StepInv DEF IInv, TypeOK
<1> QED BY <1>2, <1>3 DEF Clear

\* A request is refused.
LEMMA RefusedInv ==
  ASSUME IInv, NEW h \in Handlers, Refused(h)
  PROVE  IInv'
<1>1. /\ None \in Requests /\ None.op = "none" /\ req' = [req EXCEPT ![h] = None] /\ req[h] # None
      /\ UNCHANGED <<row, start, log, closed, writers, overlapped, forgotten>>
  BY DEF Refused, Answer, Requests
<1>2. cut' \in BOOLEAN
  BY DEF Refused, IInv, TypeOK
<1> QED BY <1>1, <1>2, RowStepInv DEF IInv, TypeOK

\* Somebody creates or edits a row without a log.
LEMMA OutsideInv ==
  ASSUME IInv, NEW r \in Rows, NEW v \in Contents, SetRow(r, v, Outside),
         UNCHANGED <<start, log, req, closed, cut, overlapped, forgotten>>
  PROVE  IInv'
<1>1. /\ row' \in [Rows -> Contents \cup {Absent}] /\ writers' \subseteq Sessions \cup {Outside}
      /\ \A x \in Rows : row'[x] = Absent => row[x] = Absent
  BY SetRowIs
<1>2. LogInv'
  BY DEF IInv, LogInv
<1> QED BY <1>1, <1>2, StepInv DEF IInv, TypeOK

\* Every step keeps the inductive invariant.
LEMMA NextInv == IInv /\ [Next]_vars => IInv'
<1> SUFFICES ASSUME IInv, [Next]_vars PROVE IInv'
  OBVIOUS
<1>1. ASSUME NEW h \in Handlers, Request(h) PROVE IInv'
  BY <1>1, BeginInv
<1>2. ASSUME NEW h \in Handlers, Step(h) PROVE IInv'
  <2>1. CASE UndoUpdate(h)
    <3>1. req[h].op = "undo" /\ req[h].e.op = "update" /\ Marking(h)
          /\ SetRows(Patched(req[h].e.row, Reverted(req[h].e)), Caller[h])
          /\ UNCHANGED <<start, log, closed, cut, overlapped, forgotten>>
      BY <2>1 DEF UndoUpdate
    <3>2. req[h].e \in Entries
      BY <3>1, EntryIs
    <3> QED BY <3>1, <3>2, RevertedIs, PatchInv
  <2>2. CASE RedoUpdate(h)
    <3>1. req[h].op = "redo" /\ req[h].e.op = "update" /\ Marking(h)
          /\ SetRows(Patched(req[h].e.row, req[h].e.new), Caller[h])
          /\ UNCHANGED <<start, log, closed, cut, overlapped, forgotten>>
      BY <2>2 DEF RedoUpdate
    <3>2. req[h].e.new \in Patches
      BY <3>1, EntryIs
    <3> QED BY <3>1, <3>2, PatchIs, PatchInv
  <2> QED BY <1>2, <2>1, <2>2, UpdateInv, DeleteInv, RefusedInv, UndoDeleteInv,
             RedoDeleteInv, MarkInv DEF Step
<1>3. ASSUME NEW s \in Sessions, Clear(s) PROVE IInv'
  BY <1>3, ClearInv
<1>4. ASSUME NEW r \in Rows, NEW v \in Contents, Create(r, v) PROVE IInv'
  BY <1>4, OutsideInv DEF Create
<1>5. ASSUME NEW r \in Rows, NEW c \in Cols, NEW v \in Domain(c), OutsideEdit(r, c, v)
      PROVE  IInv'
  <2>1. row[r] \in Contents
    BY <1>5 DEF OutsideEdit, IInv, TypeOK
  <2>2. [row[r] EXCEPT ![c] = v] \in Contents
    BY <2>1 DEF Contents, Domain
  <2> QED BY <1>5, <2>2, OutsideInv DEF OutsideEdit
<1>6. CASE UNCHANGED vars
  BY <1>6 DEF vars, IInv, TypeOK, LogInv, RequestInv, NothingLost, OneAtATime, Kept, Logged
<1> QED BY <1>1, <1>2, <1>3, <1>4, <1>5, <1>6 DEF Next

-----------------------------------------------------------------------------
\* The inductive invariant of the undo log.
THEOREM Invariant == Spec => []IInv
BY InitInv, NextInv, PTL DEF Spec

\* The types of the undo log's state, whatever edits arrive in whatever order.
THEOREM TypeCorrect == Spec => []TypeOK
<1>1. IInv => TypeOK
  BY DEF IInv
<1> QED BY <1>1, Invariant, PTL

\* Of a row that is gone and refers to no other, a deletion of its first key column is
\* in somebody's log until that page is left: for any number of sessions, requests of
\* one session at once, rows under a key and entries.
THEOREM NothingDeletedIsLost == Spec => []NothingLost
<1>1. IInv => NothingLost
  BY DEF IInv
<1> QED BY <1>1, Invariant, PTL
-----------------------------------------------------------------------------
(* Taking back all that a session did restores the rows that only its own    *)
(* statements reach.  As long as its requests do not overlap, the session is *)
(* at one request, Req(s).                                                   *)
(*                                                                           *)
(* No induction over the log is needed.  For a column c of a row, let T be   *)
(* the entries that touch it.  Whatever was undone and redone,               *)
(*   - if none of T stands, c is as it was at the start;                     *)
(*   - the oldest of T, and the oldest of T that stands, hold the value of   *)
(*     the start as the value to restore.                                    *)
(* An undo takes the newest entry that stands, so the oldest that stands is  *)
(* the last of T to go.  A redo takes the oldest that is undone, so when it  *)
(* becomes the oldest that stands it is the oldest of T.                     *)

Touching(l, r, c) ==
  {i \in DOMAIN l : l[i].row = r /\ (l[i].op = "delete" \/ c \in DOMAIN l[i].new)}
Deleting(l, r) == {i \in DOMAIN l : l[i].row = r /\ l[i].op = "delete"}

\* The oldest entry of T restores x.
Back(l, T, c, x) == \A i \in T : (\A j \in T : i <= j) => l[i].old[c] = x

\* A row r that is v now and was w at the start, when the entries S of l stand.
Fine(l, S, r, v, w) ==
  IF w = Absent
  THEN v = Absent /\ \A i \in DOMAIN l : l[i].row # r
  ELSE /\ v = Absent => Deleting(l, r) \cap S # {}
       /\ \A c \in Cols :
            /\ Touching(l, r, c) \cap S = {} => v[c] = w[c]
            /\ Back(l, Touching(l, r, c), c, w[c])
            /\ Back(l, Touching(l, r, c) \cap S, c, w[c])

\* The request a session is at.
AtWork(S) == CHOOSE q \in S : q # None
Req(s) == IF Busy(s) THEN AtWork({req[h] : h \in {g \in Handlers : Caller[g] = s}}) ELSE None

\* The entries that stand once the mark under way is made.
Stands(s) ==
  IF Req(s).op # "mark" THEN Standing(s)
  ELSE IF Req(s).undone THEN Standing(s) \ {Req(s).entry} ELSE Standing(s) \cup {Req(s).entry}

\* What a request has read is still so.
Fresh(s) ==
  /\ Req(s).op \in {"update", "delete"} => Req(s).old = row[Req(s).row]
  /\ Req(s).op = "undo" =>
       /\ Req(s).entry \in Standing(s) /\ Req(s).e = log[s][Req(s).entry]
       /\ \A j \in Standing(s) : j <= Req(s).entry
  /\ Req(s).op = "redo" =>
       /\ Req(s).entry \in Undone(s) /\ Req(s).e = log[s][Req(s).entry]
       /\ \A j \in Undone(s) : Req(s).entry <= j
  /\ Req(s).op = "mark" => Req(s).entry \in DOMAIN log[s]

Alone(s) == s \notin closed /\ Undisturbed(s)

Restorable(s) == Fresh(s) /\ \A r \in Rows : Plain(r) => Fine(log[s], Stands(s), r, row[r], start[r])

RestoreInv == \A s \in Sessions : Alone(s) => Restorable(s)

USE SessionsAssumption

\* What stands makes no difference to rows without an entry in the difference.
LEMMA FineElsewhere ==
  ASSUME NEW l, NEW m, NEW S, NEW T, NEW r, NEW v, NEW w, Fine(l, S, r, v, w),
         DOMAIN l \subseteq DOMAIN m,
         \A i \in DOMAIN l : m[i].op = l[i].op /\ m[i].row = l[i].row
                            /\ m[i].old = l[i].old /\ m[i].new = l[i].new,
         \A i \in DOMAIN m : m[i].row = r => i \in DOMAIN l /\ (i \in S <=> i \in T)
  PROVE  Fine(m, T, r, v, w)
<1>1. Deleting(m, r) = Deleting(l, r) /\ Deleting(m, r) \cap T = Deleting(l, r) \cap S
  BY DEF Deleting
<1>2. \A c : /\ Touching(m, r, c) = Touching(l, r, c)
             /\ Touching(m, r, c) \cap T = Touching(l, r, c) \cap S
  BY DEF Touching
<1>3. \A c, x, U : U \subseteq DOMAIN l => (Back(m, U, c, x) <=> Back(l, U, c, x))
  BY DEF Back
<1>4. \A c : Touching(l, r, c) \subseteq DOMAIN l /\ Touching(l, r, c) \cap S \subseteq DOMAIN l
  BY DEF Touching
<1> QED BY <1>1, <1>2, <1>3, <1>4 DEF Fine

\* The newest entry that stands is taken back.
LEMMA TakenBack ==
  ASSUME NEW l \in Seq(Entries), NEW S \in SUBSET DOMAIN l, NEW i \in S, \A j \in S : j <= i,
         NEW v \in Contents \cup {Absent}, NEW w \in Contents \cup {Absent},
         NEW u \in Contents \cup {Absent}, Fine(l, S, l[i].row, v, w),
         l[i].op = "update" => u = (IF v = Absent THEN v ELSE Merge(v, Reverted(l[i]))),
         l[i].op = "delete" => u = l[i].old
  PROVE  Fine(l, S \ {i}, l[i].row, u, w)
<1> DEFINE e == l[i]
<1> DEFINE r == e.row
<1>1. e \in Entries /\ DOMAIN l \subseteq Nat
  OBVIOUS
<1>2. e.op \in {"update", "delete"} /\ e.old \in Contents
  BY <1>1 DEF Entries
<1>3. w # Absent
  BY DEF Fine
<1>4. u = Absent => Deleting(l, r) \cap (S \ {i}) # {}
  <2>1. CASE e.op = "delete"
    BY <1>2, <2>1
  <2>2. CASE e.op = "update"
    <3>1. ASSUME u = Absent PROVE v = Absent
      <4>1. e.new \in Patches
        BY <1>1, <2>2 DEF Entries
      <4>2. v \in Contents => Merge(v, Reverted(e)) \in Contents
        BY <1>1, <2>2, RevertedIs, MergeIs
      <4> QED BY <2>2, <3>1, <4>2
    <3>2. i \notin Deleting(l, r)
      BY <2>2 DEF Deleting
    <3> QED BY <1>3, <3>1, <3>2 DEF Fine
  <2> QED BY <1>2, <2>1, <2>2
<1>5. ASSUME NEW c \in Cols
      PROVE  /\ Touching(l, r, c) \cap (S \ {i}) = {} => u[c] = w[c]
             /\ Back(l, Touching(l, r, c), c, w[c])
             /\ Back(l, Touching(l, r, c) \cap (S \ {i}), c, w[c])
  <2> DEFINE T == Touching(l, r, c)
  <2>1. /\ T \cap S = {} => v[c] = w[c]
        /\ Back(l, T, c, w[c]) /\ Back(l, T \cap S, c, w[c])
    BY <1>3 DEF Fine
  <2>2. Back(l, T \cap (S \ {i}), c, w[c])
    <3>1. \A k \in T \cap (S \ {i}) : k <= i /\ k \in T \cap S
      OBVIOUS
    <3> HIDE DEF T
    <3> QED BY <2>1, <3>1 DEF Back
  <2>3. ASSUME T \cap (S \ {i}) = {} PROVE u[c] = w[c]
    <3>1. v = Absent => Deleting(l, r) \cap S \subseteq {i} /\ i \in Deleting(l, r)
      <4>1. Deleting(l, r) \subseteq T
        BY DEF Deleting, Touching
      <4> QED BY <1>3, <2>3, <4>1 DEF Fine
    <3>2. CASE i \in T
      <4>1. i <= i /\ T \cap S = {i}
        BY <1>1, <2>3, <3>2
      <4> HIDE DEF T
      <4>2. e.old[c] = w[c]
        BY <2>1, <4>1 DEF Back
      <4> USE DEF T
      <4>3. CASE e.op = "delete"
        BY <4>2, <4>3
      <4>4. CASE e.op = "update"
        <5>1. v # Absent /\ c \in DOMAIN e.new
          BY <3>1, <3>2, <4>4 DEF Deleting, Touching
        <5> QED BY <4>2, <4>4, <5>1 DEF Merge, Reverted
      <4> QED BY <1>2, <4>3, <4>4
    <3>3. CASE i \notin T
      <4>1. e.op = "update" /\ c \notin DOMAIN e.new
        BY <1>2, <3>3 DEF Touching
      <4>2. v # Absent
        BY <3>1, <4>1 DEF Deleting
      <4>3. T \cap S = {}
        BY <2>3, <3>3
      <4> QED BY <2>1, <4>1, <4>2, <4>3 DEF Merge, Reverted
    <3> QED BY <3>2, <3>3
  <2> QED BY <2>1, <2>2, <2>3
<1> QED BY <1>3, <1>4, <1>5 DEF Fine

\* The oldest entry that is undone is repeated.
LEMMA Repeated ==
  ASSUME NEW l \in Seq(Entries), NEW S \in SUBSET DOMAIN l, NEW i \in DOMAIN l \ S,
         \A j \in DOMAIN l \ S : i <= j,
         NEW v \in Contents \cup {Absent}, NEW w \in Contents \cup {Absent},
         NEW u \in Contents \cup {Absent}, Fine(l, S, l[i].row, v, w),
         l[i].op = "update" => u = (IF v = Absent THEN v ELSE Merge(v, l[i].new)),
         l[i].op = "delete" => u = Absent
  PROVE  Fine(l, S \cup {i}, l[i].row, u, w)
<1> DEFINE e == l[i]
<1> DEFINE r == e.row
<1>1. e \in Entries /\ DOMAIN l \subseteq Nat
  OBVIOUS
<1>2. e.op \in {"update", "delete"} /\ (e.op = "update" => e.new \in Patches)
  BY <1>1 DEF Entries
<1>3. w # Absent
  BY DEF Fine
<1>4. u = Absent => Deleting(l, r) \cap (S \cup {i}) # {}
  <2>1. CASE e.op = "delete"
    BY <2>1 DEF Deleting
  <2>2. CASE e.op = "update"
    <3>1. v \in Contents => Merge(v, e.new) \in Contents
      BY <1>2, <2>2, PatchIs, MergeIs
    <3> QED BY <1>3, <2>2, <3>1 DEF Fine
  <2> QED BY <1>2, <2>1, <2>2
<1>5. ASSUME NEW c \in Cols
      PROVE  /\ Touching(l, r, c) \cap (S \cup {i}) = {} => u[c] = w[c]
             /\ Back(l, Touching(l, r, c), c, w[c])
             /\ Back(l, Touching(l, r, c) \cap (S \cup {i}), c, w[c])
  <2> DEFINE T == Touching(l, r, c)
  <2>1. /\ T \cap S = {} => v[c] = w[c]
        /\ Back(l, T, c, w[c]) /\ Back(l, T \cap S, c, w[c])
    BY <1>3 DEF Fine
  <2>2. ASSUME NEW k \in T \cap (S \cup {i}), \A j \in T \cap (S \cup {i}) : k <= j
        PROVE  l[k].old[c] = w[c]
    <3>1. CASE k # i
      <4>1. k \in T \cap S /\ \A j \in T \cap S : k <= j
        BY <2>2, <3>1
      <4> HIDE DEF T
      <4> QED BY <2>1, <4>1 DEF Back
    <3>2. CASE k = i
      <4>1. \A j \in T : k <= j
        <5>1. T \subseteq DOMAIN l
          BY DEF Touching
        <5> HIDE DEF T
        <5> QED BY <2>2, <3>2, <5>1
      <4>2. k \in T
        OBVIOUS
      <4> HIDE DEF T
      <4> QED BY <2>1, <4>1, <4>2 DEF Back
    <3> QED BY <3>1, <3>2
  <2>3. ASSUME T \cap (S \cup {i}) = {} PROVE u[c] = w[c]
    <3>1. i \notin T /\ T \cap S = {}
      BY <2>3
    <3>2. e.op = "update" /\ c \notin DOMAIN e.new
      BY <1>2, <3>1 DEF Touching
    <3>3. v # Absent
      <4>1. Deleting(l, r) \subseteq T
        BY DEF Deleting, Touching
      <4> QED BY <1>3, <3>1, <4>1 DEF Fine
    <3> QED BY <2>1, <3>1, <3>2, <3>3 DEF Merge
  <2> QED BY <2>1, <2>2, <2>3 DEF Back
<1> QED BY <1>3, <1>4, <1>5 DEF Fine

\* A change is logged.
LEMMA Added ==
  ASSUME NEW l \in Seq(Entries), NEW S \in SUBSET DOMAIN l, NEW e \in Entries,
         NEW v \in Contents, NEW w \in Contents \cup {Absent},
         NEW u \in Contents \cup {Absent}, Fine(l, S, e.row, v, w), e.old = v,
         e.op = "update" => u = Merge(v, e.new),
         e.op = "delete" => u = Absent
  PROVE  Fine(Append(l, e), S \cup {Len(l) + 1}, e.row, u, w)
<1> DEFINE r == e.row
<1> DEFINE n == Len(l) + 1
<1> DEFINE m == Append(l, e)
<1>1. /\ e.op \in {"update", "delete"} /\ (e.op = "update" => e.new \in Patches)
  BY DEF Entries
<1>2. /\ DOMAIN l = 1 .. Len(l) /\ Len(l) \in Nat /\ DOMAIN m = DOMAIN l \cup {n}
      /\ m[n] = e /\ \A i \in DOMAIN l : m[i] = l[i]
      /\ n \notin DOMAIN l /\ \A i \in DOMAIN l : i < n
  OBVIOUS
<1> HIDE DEF m
<1>3. w # Absent
  BY DEF Fine
<1>4. u = Absent => Deleting(m, r) \cap (S \cup {n}) # {}
  <2>1. CASE e.op = "delete"
    BY <1>2, <2>1 DEF Deleting
  <2>2. CASE e.op = "update"
    BY <1>1, <2>2, PatchIs, MergeIs
  <2> QED BY <1>1, <2>1, <2>2
<1>5. ASSUME NEW c \in Cols
      PROVE  /\ Touching(m, r, c) \cap (S \cup {n}) = {} => u[c] = w[c]
             /\ Back(m, Touching(m, r, c), c, w[c])
             /\ Back(m, Touching(m, r, c) \cap (S \cup {n}), c, w[c])
  <2> DEFINE T == Touching(l, r, c)
  <2>1. /\ T \cap S = {} => v[c] = w[c]
        /\ Back(l, T, c, w[c]) /\ Back(l, T \cap S, c, w[c])
    BY <1>3 DEF Fine
  <2>2. /\ T \subseteq DOMAIN l
        /\ Touching(m, r, c) = T \cup (IF e.op = "delete" \/ c \in DOMAIN e.new THEN {n} ELSE {})
    BY <1>2 DEF Touching
  <2> HIDE DEF T
  <2>3. ASSUME NEW U \in SUBSET DOMAIN l, Back(l, U, c, w[c]), U = {} => v[c] = w[c]
        PROVE  Back(m, U, c, w[c]) /\ Back(m, U \cup {n}, c, w[c])
    <3>1. Back(m, U, c, w[c])
      BY <1>2, <2>3 DEF Back
    <3>2. ASSUME NEW k \in U \cup {n}, \A j \in U \cup {n} : k <= j
          PROVE  m[k].old[c] = w[c]
      <4>1. CASE k = n
        <5>1. U = {}
          BY <1>2, <3>2, <4>1
        <5> QED BY <1>2, <2>3, <4>1, <5>1
      <4>2. CASE k # n
        BY <1>2, <2>3, <3>2, <4>2 DEF Back
      <4> QED BY <4>1, <4>2
    <3> QED BY <3>1, <3>2 DEF Back
  <2>4. Back(m, T, c, w[c]) /\ Back(m, T \cup {n}, c, w[c])
    <3>1. T = {} => T \cap S = {}
      OBVIOUS
    <3> QED BY <2>1, <2>2, <2>3, <3>1
  <2>5. Back(m, T \cap S, c, w[c]) /\ Back(m, (T \cap S) \cup {n}, c, w[c])
    BY <2>1, <2>2, <2>3
  <2>6. CASE e.op = "delete" \/ c \in DOMAIN e.new
    <3>1. Touching(m, r, c) = T \cup {n} /\ Touching(m, r, c) \cap (S \cup {n}) = (T \cap S) \cup {n}
      BY <2>2, <2>6
    <3> QED BY <2>4, <2>5, <3>1
  <2>7. CASE ~(e.op = "delete" \/ c \in DOMAIN e.new)
    <3>1. Touching(m, r, c) = T /\ Touching(m, r, c) \cap (S \cup {n}) = T \cap S
      BY <1>2, <2>2, <2>7
    <3>2. u[c] = v[c]
      BY <1>1, <2>7 DEF Merge
    <3> QED BY <2>1, <2>4, <2>5, <3>1, <3>2
  <2> QED BY <2>6, <2>7
<1> QED BY <1>3, <1>4, <1>5 DEF Fine, m

\* The request of a session is that of its one handler at work.
LEMMA ReqIs ==
  ASSUME IInv, NEW s \in Sessions, s \notin overlapped, NEW h \in Handlers, Caller[h] = s, req[h] # None
  PROVE  Req(s) = req[h]
<1>1. \A g \in Handlers : Caller[g] = s /\ req[g] # None => g = h
  BY DEF IInv, OneAtATime
<1>2. Busy(s)
  BY DEF Busy
<1>3. \A q \in {req[g] : g \in {f \in Handlers : Caller[f] = s}} : q # None => q = req[h]
  BY <1>1
<1>4. req[h] \in {req[g] : g \in {f \in Handlers : Caller[f] = s}}
  OBVIOUS
<1> QED BY <1>2, <1>3, <1>4 DEF Req, AtWork

\* A step of a session is one of the request it is at, before and after.
LEMMA ReqStep ==
  ASSUME IInv, IInv', NEW h \in Handlers, Request(h) \/ Step(h), Caller[h] \notin overlapped'
  PROVE  /\ Req(Caller[h]) = req[h] /\ Req(Caller[h])' = req'[h]
         /\ Caller[h] \in Sessions /\ Caller[h] \notin overlapped
<1> DEFINE s == Caller[h]
<1>1. s \in Sessions
  OBVIOUS
<1>2. overlapped \subseteq overlapped'
  BY DEF Request, BeginDelete, BeginUpdate, BeginUndo, BeginRedo, Reads, Ask, Step, Update, Delete,
     Refused, UndoUpdate, UndoDelete, RedoUpdate, RedoDelete, Mark
<1>3. s \notin overlapped
  BY <1>2
<1>4. \A g \in Handlers \ {h} : req'[g] = req[g]
  BY DEF Request, BeginDelete, BeginUpdate, BeginUndo, BeginRedo, Reads, Ask, Step, Update, Delete,
     Refused, UndoUpdate, UndoDelete, RedoUpdate, RedoDelete, Mark, Marking, Answer, IInv, LogInv
<1>5. \A g \in Handlers \ {h} : Caller[g] = s => req[g] = None
  <2>1. CASE Request(h)
    <3>1. req[h] = None /\ overlapped' = overlapped \cup {t \in {s} : Busy(t)}
      BY <2>1 DEF Request, BeginDelete, BeginUpdate, BeginUndo, BeginRedo, Reads, Ask
    <3>2. ~Busy(s)
      BY <3>1
    <3> QED BY <3>2 DEF Busy
  <2>2. CASE Step(h)
    <3>1. req[h] # None
      BY <2>2 DEF Step, Update, Delete, Refused, UndoUpdate, UndoDelete, RedoUpdate, RedoDelete, Mark
    <3> QED BY <1>3, <3>1 DEF IInv, OneAtATime
  <2> QED BY <2>1, <2>2
<1>6. Req(s) = req[h]
  <2>1. CASE req[h] # None
    BY <1>1, <1>3, <2>1, ReqIs
  <2>2. CASE req[h] = None
    BY <1>5, <2>2 DEF Req, Busy
  <2> QED BY <2>1, <2>2
<1>7. Req(s)' = req'[h]
  <2>1. \A g \in Handlers : Caller[g] = s /\ req'[g] # None => g = h
    BY <1>4, <1>5
  <2>2. CASE req'[h] = None
    BY <2>1, <2>2 DEF Req, Busy
  <2>3. CASE req'[h] # None
    <3>1. \A q \in {req'[g] : g \in {f \in Handlers : Caller[f] = s}} : q # None => q = req'[h]
      BY <2>1
    <3>2. req'[h] \in {req'[g] : g \in {f \in Handlers : Caller[f] = s}}
      OBVIOUS
    <3>3. Busy(s)'
      BY <2>3 DEF Busy
    <3> QED BY <2>3, <3>1, <3>2, <3>3 DEF Req, AtWork
  <2> QED BY <2>2, <2>3
<1> QED BY <1>1, <1>3, <1>6, <1>7

\* Other sessions leave the request alone.
LEMMA ReqStays ==
  ASSUME NEW s \in Sessions, \A g \in Handlers : Caller[g] = s => req'[g] = req[g]
  PROVE  Req(s)' = Req(s) /\ (Busy(s)' <=> Busy(s))
<1>1. {req'[h] : h \in {g \in Handlers : Caller[g] = s}} = {req[h] : h \in {g \in Handlers : Caller[g] = s}}
  OBVIOUS
<1>2. Busy(s)' <=> Busy(s)
  BY DEF Busy
<1> QED BY <1>1, <1>2 DEF Req

\* A statement that names a row reaches no other plain row.
LEMMA PlainIs ==
  ASSUME NEW r \in Rows, NEW x \in Rows, Plain(x), x # r
  PROVE  x \notin Twins(r) \cup Along(r)
BY DEF Plain, Twins

\* What a statement leaves of the row it names.
Hit(r, v) == row'[r] = v /\ \A x \in Rows : Plain(x) /\ x # r => row'[x] = row[x]

LEMMA PatchHits ==
  ASSUME IInv, NEW r \in Rows, NEW p, NEW by \in Sessions \cup {Outside}, SetRows(Patched(r, p), by),
         DOMAIN p \subseteq Cols, \A c \in DOMAIN p : p[c] \in Domain(c)
  PROVE  Hit(r, IF row[r] = Absent THEN row[r] ELSE Merge(row[r], p))
<1>1. row \in [Rows -> Contents \cup {Absent}]
  BY DEF IInv, TypeOK
<1>2. row' = Patched(r, p)
  BY DEF SetRows
<1>3. \A x \in Rows : x \notin Twins(r) => row'[x] = row[x]
  BY <1>1, <1>2, PatchedIs
<1> QED BY <1>1, <1>2, <1>3, PatchedIs, PlainIs DEF Hit

LEMMA EraseHits ==
  ASSUME IInv, NEW r \in Rows, NEW f \in Erased(r), NEW by \in Sessions \cup {Outside}, SetRows(f, by)
  PROVE  Hit(r, Absent)
<1>1. r \in Twins(r) /\ row' = f
  BY DEF Twins, SetRows
<1>2. \A x \in Rows : /\ x \in Twins(r) => f[x] = Absent
                      /\ x \notin Twins(r) \cup Along(r) => f[x] = row[x]
  BY ErasedIs DEF IInv, TypeOK
<1> QED BY <1>1, <1>2, PlainIs DEF Hit

\* What is alone was alone before.
LEMMA AloneBefore ==
  ASSUME NEW s \in Sessions, closed \subseteq closed', writers \subseteq writers', cut => cut',
         overlapped \subseteq overlapped', Alone(s)'
  PROVE  Alone(s)
BY DEF Alone, Undisturbed

\* Nothing that s has read or logged changes.
LEMMA OthersStep ==
  ASSUME NEW s \in Sessions, Restorable(s),
         row' = row, start' = start, log'[s] = log[s], Req(s)' = Req(s)
  PROVE  Restorable(s)'
<1>1. Standing(s)' = Standing(s) /\ Undone(s)' = Undone(s)
  BY DEF Standing, Undone
<1>2. Stands(s)' = Stands(s)
  BY <1>1 DEF Stands
<1>3. Fresh(s)'
  BY <1>1 DEF Restorable, Fresh
<1> QED BY <1>2, <1>3 DEF Restorable, Plain, Twins, Along

\* The types of a session's log, and of what stands in it.
LEMMA StandsIs ==
  ASSUME IInv, NEW s \in Sessions, Restorable(s)
  PROVE  log[s] \in Seq(Entries) /\ Stands(s) \in SUBSET DOMAIN log[s]
BY DEF IInv, LogInv, Stands, Standing, Restorable, Fresh

\* A step of h, the one request of its session.
At(h) == Req(Caller[h]) = req[h] /\ Req(Caller[h])' = req'[h]

\* The rows that are not the one an entry is of.
LEMMA OtherRows ==
  ASSUME IInv, NEW s \in Sessions, Restorable(s), start' = start,
         NEW r \in Rows, Plain(r), row'[r] = row[r],
         DOMAIN log[s] \subseteq DOMAIN log'[s],
         \A i \in DOMAIN log[s] :
           /\ log'[s][i].op = log[s][i].op /\ log'[s][i].row = log[s][i].row
           /\ log'[s][i].old = log[s][i].old /\ log'[s][i].new = log[s][i].new,
         \A i \in DOMAIN log'[s] :
           log'[s][i].row = r => i \in DOMAIN log[s] /\ (i \in Stands(s) <=> i \in Stands(s)')
  PROVE  Fine(log'[s], Stands(s)', r, row'[r], start'[r])
<1>1. Fine(log[s], Stands(s), r, row[r], start[r])
  BY DEF Restorable
<1> QED BY <1>1, FineElsewhere

\* A request is made, and what it reads is fresh.
LEMMA BeginRestore ==
  ASSUME IInv, NEW h \in Handlers, NEW s \in Sessions, s = Caller[h], At(h), Restorable(s), Request(h)
  PROVE  Restorable(s)'
<1>1. req[h] = None /\ UNCHANGED <<row, start, log>>
  BY DEF Request, BeginDelete, BeginUpdate, BeginUndo, BeginRedo, Reads, Ask
<1>2. \A q : Ask(h, q) => req'[h] = q
  BY DEF Ask, IInv, LogInv
<1>3. Standing(s)' = Standing(s) /\ Undone(s)' = Undone(s)
  BY <1>1 DEF Standing, Undone
<1>4. Fresh(s)' /\ req'[h].op # "mark"
  <2>1. ASSUME NEW r \in Rows, NEW p \in Patches, BeginUpdate(h, r, p)
        PROVE  req'[h].op = "update" /\ req'[h].old = row[r] /\ req'[h].row = r
    BY <1>2, <2>1 DEF BeginUpdate
  <2>2. ASSUME NEW r \in Rows, BeginDelete(h, r)
        PROVE  req'[h].op = "delete" /\ req'[h].old = row[r] /\ req'[h].row = r
    BY <1>2, <2>2 DEF BeginDelete
  <2>3. ASSUME BeginUndo(h)
        PROVE  /\ req'[h].op = "undo" /\ req'[h].entry \in Standing(s)
               /\ req'[h].e = log[s][req'[h].entry]
               /\ \A j \in Standing(s) : j <= req'[h].entry
    BY <1>2, <2>3 DEF BeginUndo, Reads
  <2>4. ASSUME BeginRedo(h)
        PROVE  /\ req'[h].op = "redo" /\ req'[h].entry \in Undone(s)
               /\ req'[h].e = log[s][req'[h].entry]
               /\ \A j \in Undone(s) : req'[h].entry <= j
    BY <1>2, <2>4 DEF BeginRedo, Reads
  <2>5. Req(s)' = req'[h]
    BY DEF At
  <2>6. CASE \E r \in Rows : BeginDelete(h, r) \/ \E p \in Patches : BeginUpdate(h, r, p)
    BY <1>1, <2>1, <2>2, <2>5, <2>6 DEF Fresh
  <2>7. CASE BeginUndo(h)
    BY <1>1, <1>3, <2>3, <2>5, <2>7 DEF Fresh
  <2>8. CASE BeginRedo(h)
    BY <1>1, <1>3, <2>4, <2>5, <2>8 DEF Fresh
  <2> QED BY <2>6, <2>7, <2>8 DEF Request
<1>5. Stands(s)' = Stands(s)
  <2>1. Req(s).op # "mark" /\ Req(s)'.op # "mark"
    BY <1>1, <1>4 DEF At
  <2> QED BY <1>3, <2>1 DEF Stands
<1> QED BY <1>1, <1>4, <1>5 DEF Restorable, Plain, Twins, Along

\* A change and its entry: the row was read as it is.
LEMMA ChangeRestore ==
  ASSUME IInv, NEW h \in Handlers, NEW s \in Sessions, s = Caller[h], At(h), Restorable(s),
         NEW e \in Entries, ~e.undone,
         req[h].op # "mark", Record(s, e), Answer(h), start' = start,
         row' \in [Rows -> Contents \cup {Absent}], e.old = row[e.row],
         e.op = "update" => Hit(e.row, Merge(row[e.row], e.new)),
         e.op = "delete" => Hit(e.row, Absent)
  PROVE  Restorable(s)'
<1> DEFINE n == Len(log[s]) + 1
<1>1. /\ log[s] \in Seq(Entries) /\ log'[s] = Append(log[s], e)
      /\ Req(s)' = None /\ Stands(s) \in SUBSET DOMAIN log[s] /\ Req(s).op # "mark"
  BY StandsIs DEF IInv, LogInv, Record, Answer, At
<1>2. /\ DOMAIN log'[s] = DOMAIN log[s] \cup {n} /\ n \notin DOMAIN log[s]
      /\ log'[s][n] = e /\ \A i \in DOMAIN log[s] : log'[s][i] = log[s][i]
  BY <1>1
<1>3. Stands(s)' = Stands(s) \cup {n}
  BY <1>1, <1>2 DEF Stands, Standing
<1>4. e.row \in Rows /\ e.old \in Contents /\ e.op \in {"update", "delete"}
  BY DEF Entries
<1>5. ASSUME NEW r \in Rows, r # e.row, Plain(r)
      PROVE  Fine(log'[s], Stands(s)', r, row'[r], start'[r])
  <2>1. row'[r] = row[r]
    BY <1>4, <1>5 DEF Hit
  <2> QED BY <1>1, <1>2, <1>3, <1>5, <2>1, OtherRows
<1>6. start[e.row] \in Contents \cup {Absent} /\ row'[e.row] \in Contents \cup {Absent}
  BY <1>4 DEF IInv, TypeOK
<1>7. ASSUME Plain(e.row) PROVE Fine(log'[s], Stands(s)', e.row, row'[e.row], start'[e.row])
  <2>1. row[e.row] \in Contents /\ Fine(log[s], Stands(s), e.row, row[e.row], start[e.row])
    BY <1>4, <1>7 DEF Restorable
  <2>2. /\ e.op = "update" => row'[e.row] = Merge(row[e.row], e.new)
        /\ e.op = "delete" => row'[e.row] = Absent
    BY DEF Hit
  <2>3. Fine(Append(log[s], e), Stands(s) \cup {Len(log[s]) + 1}, e.row, row'[e.row], start[e.row])
    BY <1>1, <1>6, <2>1, <2>2, Added
  <2> QED BY <1>1, <1>3, <2>3
<1>8. Fresh(s)'
  BY <1>1 DEF Fresh
<1> QED BY <1>5, <1>7, <1>8 DEF Restorable, Plain, Twins, Along

\* A change of which no row was read: nobody else wrote, so there is still none.
LEMMA NothingChanged ==
  ASSUME IInv, NEW h \in Handlers, NEW s \in Sessions, s = Caller[h], At(h), Restorable(s),
         req[h].op # "mark", Answer(h), UNCHANGED <<row, start, log>>
  PROVE  Restorable(s)'
<1>1. Req(s)' = None /\ Req(s).op # "mark"
  BY DEF Answer, At, IInv, LogInv
<1>2. Stands(s)' = Stands(s) /\ Fresh(s)'
  BY <1>1 DEF Stands, Standing, Fresh
<1> QED BY <1>2 DEF Restorable, Plain, Twins, Along

\* Whoever writes is one of the writers.
LEMMA WriterIs ==
  ASSUME NEW f, NEW by, SetRows(f, by), by \notin writers'
  PROVE  row' = row
BY DEF SetRows

LEMMA UpdateRestore ==
  ASSUME IInv, IInv', NEW h \in Handlers, NEW s \in Sessions, s = Caller[h], At(h), Restorable(s),
         Update(h), writers' \subseteq {s}
  PROVE  Restorable(s)'
<1> DEFINE q == req[h]
<1>1. q.op = "update" /\ q.row \in Rows /\ q.new \in Patches /\ q.old = row[q.row] /\ q.old \in Contents \cup {Absent}
  <2>1. q.op = "update" /\ q.old = row[q.row]
    BY DEF Update, Restorable, Fresh, At
  <2> QED BY <2>1, AskedIs
<1>2. /\ start' = start /\ Answer(h) /\ row' \in [Rows -> Contents \cup {Absent}]
      /\ SetRows(Patched(q.row, q.new), IF q.old = Absent THEN Outside ELSE s)
  BY DEF Update, IInv, TypeOK
<1>3. CASE q.old = Absent
  <2>1. Outside \notin writers'
    OBVIOUS
  <2>2. row' = row /\ log' = log
    BY <1>2, <1>3, <2>1, WriterIs DEF Update
  <2> QED BY <1>1, <1>2, <2>2, NothingChanged
<1>4. CASE q.old # Absent
  <2> DEFINE e == [op |-> "update", row |-> q.row, old |-> q.old, new |-> q.new, undone |-> FALSE]
  <2>1. /\ e \in Entries /\ ~e.undone /\ e.row = q.row /\ e.old = q.old /\ e.new = q.new /\ e.op = "update"
    BY <1>1, <1>4 DEF Entries
  <2>2. Record(s, e)
    BY <1>4 DEF Update
  <2> HIDE DEF e
  <2>3. DOMAIN q.new \subseteq Cols /\ \A c \in DOMAIN q.new : q.new[c] \in Domain(c)
    BY <1>1, PatchIs
  <2>4. PICK r \in Rows : r = q.row
    BY <1>1
  <2>5. PICK p : p = q.new
    OBVIOUS
  <2>6. SetRows(Patched(r, p), s)
    BY <1>2, <1>4, <2>4, <2>5
  <2>7. Hit(r, IF row[r] = Absent THEN row[r] ELSE Merge(row[r], p))
    BY <2>3, <2>5, <2>6, PatchHits
  <2>8. Hit(e.row, Merge(row[e.row], e.new))
    BY <1>1, <1>4, <2>1, <2>4, <2>5, <2>7
  <2> QED BY <1>1, <1>2, <2>1, <2>2, <2>8, ChangeRestore
<1> QED BY <1>3, <1>4

LEMMA DeleteRestore ==
  ASSUME IInv, IInv', NEW h \in Handlers, NEW s \in Sessions, s = Caller[h], At(h), Restorable(s),
         Delete(h), writers' \subseteq {s}
  PROVE  Restorable(s)'
<1> DEFINE q == req[h]
<1>1. q.op = "delete" /\ q.row \in Rows /\ q.old = row[q.row] /\ q.old \in Contents \cup {Absent}
  <2>1. q.op = "delete" /\ q.old = row[q.row]
    BY DEF Delete, Restorable, Fresh, At
  <2> QED BY <2>1, AskedIs
<1>2. PICK r \in Rows : r = q.row
  BY <1>1
<1>3. start' = start /\ Answer(h) /\ row' \in [Rows -> Contents \cup {Absent}]
  BY DEF Delete, IInv, TypeOK
<1>4. PICK f \in Erased(r) : SetRows(f, IF q.old = Absent THEN Outside ELSE s)
  BY <1>2 DEF Delete
<1>5. CASE q.old = Absent
  <2>1. Outside \notin writers'
    OBVIOUS
  <2>2. row' = row /\ log' = log
    BY <1>4, <1>5, <2>1, WriterIs DEF Delete
  <2> QED BY <1>1, <1>3, <2>2, NothingChanged
<1>6. CASE q.old # Absent
  <2> DEFINE e == [op |-> "delete", row |-> q.row, old |-> q.old, new |-> <<>>, undone |-> FALSE]
  <2>1. e \in Entries /\ ~e.undone /\ e.row = q.row /\ e.old = q.old /\ e.op = "delete"
    BY <1>1, <1>6 DEF Entries
  <2>2. Record(s, e)
    BY <1>6 DEF Delete
  <2> HIDE DEF e
  <2>3. Hit(r, Absent)
    BY <1>4, <1>6, EraseHits
  <2>4. Hit(e.row, Absent)
    BY <1>2, <2>1, <2>3
  <2> QED BY <1>1, <1>3, <2>1, <2>2, <2>4, ChangeRestore
<1> QED BY <1>5, <1>6

\* What an undo or a redo makes of the row of its entry.
Reversal(h) ==
  LET e == req[h].e
      v == row[e.row]
      u == row'[e.row] IN
  /\ req[h].op = "undo" /\ e.op = "update" => u = (IF v = Absent THEN v ELSE Merge(v, Reverted(e)))
  /\ req[h].op = "undo" /\ e.op = "delete" => u = e.old
  /\ req[h].op = "redo" /\ e.op = "update" => u = (IF v = Absent THEN v ELSE Merge(v, e.new))
  /\ req[h].op = "redo" /\ e.op = "delete" => u = Absent

\* An undo or a redo changes the row of its entry and asks for the mark.
LEMMA ReverseRestore ==
  ASSUME IInv, NEW h \in Handlers, NEW s \in Sessions, s = Caller[h], At(h), Restorable(s),
         req[h].op \in {"undo", "redo"},
         Marking(h), UNCHANGED <<start, log>>,
         row' \in [Rows -> Contents \cup {Absent}],
         \A x \in Rows : Plain(x) /\ x # req[h].e.row => row'[x] = row[x],
         Reversal(h)
  PROVE  Restorable(s)'
<1> DEFINE n == req[h].entry
<1> DEFINE r == req[h].e.row
<1>0. Req(s) = req[h] /\ Req(s)' = req'[h]
  BY DEF At
<1>1. /\ log[s] \in Seq(Entries) /\ Stands(s) = Standing(s) /\ Standing(s) \in SUBSET DOMAIN log[s]
      /\ Undone(s) = DOMAIN log[s] \ Standing(s)
  BY <1>0 DEF IInv, LogInv, Stands, Standing, Undone
<1>2. /\ req'[h].op = "mark" /\ req'[h].entry = n /\ req'[h].undone = (req[h].op = "undo")
      /\ Standing(s)' = Standing(s)
  BY DEF Marking, IInv, LogInv, Standing
<1>3. req[h].e = log[s][n] /\ n \in DOMAIN log[s]
  BY <1>0, <1>1 DEF Restorable, Fresh
<1>4. Fresh(s)'
  BY <1>0, <1>2, <1>3 DEF Fresh
<1>5. /\ Stands(s)' = (IF req[h].op = "undo" THEN Standing(s) \ {n} ELSE Standing(s) \cup {n})
      /\ \A i \in DOMAIN log[s] : i # n => (i \in Stands(s) <=> i \in Stands(s)')
  BY <1>0, <1>1, <1>2 DEF Stands
<1>6. ASSUME NEW x \in Rows, x # r, Plain(x)
      PROVE  Fine(log'[s], Stands(s)', x, row'[x], start'[x])
  <2>1. \A i \in DOMAIN log[s] : log[s][i].row = x => i # n
    BY <1>3, <1>6
  <2> QED BY <1>5, <1>6, <2>1, OtherRows
<1>7. /\ r \in Rows /\ row[r] \in Contents \cup {Absent} /\ row'[r] \in Contents \cup {Absent}
      /\ start[r] \in Contents \cup {Absent}
  BY EntryIs DEF IInv, TypeOK
<1> DEFINE e == log[s][n]
<1>8. e.row = r /\ (Plain(r) => Fine(log[s], Standing(s), log[s][n].row, row[r], start[r]))
  BY <1>1, <1>3, <1>7 DEF Restorable
<1>9. CASE req[h].op = "undo"
  <2>1. n \in Standing(s) /\ \A j \in Standing(s) : j <= n
    BY <1>0, <1>9 DEF Restorable, Fresh
  <2>2. /\ e.op = "update" => row'[r] = (IF row[r] = Absent THEN row[r] ELSE Merge(row[r], Reverted(e)))
        /\ e.op = "delete" => row'[r] = e.old
    BY <1>3, <1>9 DEF Reversal
  <2> HIDE DEF n, r
  <2>3. Plain(r) => Fine(log[s], Standing(s) \ {n}, log[s][n].row, row'[r], start[r])
    BY <1>1, <1>7, <1>8, <2>1, <2>2, TakenBack
  <2>4. ASSUME NEW x \in Rows, x = r, Plain(x)
        PROVE  Fine(log'[s], Stands(s)', x, row'[x], start'[x])
    <3>1. log[s][n].row = x /\ log' = log /\ start' = start
      BY <1>8, <2>4
    <3>2. Stands(s)' = Standing(s) \ {n}
      BY <1>5, <1>9
    <3> HIDE DEF e
    <3> QED BY <2>3, <2>4, <3>1, <3>2
  <2> QED BY <1>4, <1>6, <2>4 DEF Restorable
<1>10. CASE req[h].op = "redo"
  <2>1. n \in DOMAIN log[s] \ Standing(s) /\ \A j \in DOMAIN log[s] \ Standing(s) : n <= j
    BY <1>0, <1>1, <1>10 DEF Restorable, Fresh
  <2>2. /\ e.op = "update" => row'[r] = (IF row[r] = Absent THEN row[r] ELSE Merge(row[r], e.new))
        /\ e.op = "delete" => row'[r] = Absent
    BY <1>3, <1>10 DEF Reversal
  <2> HIDE DEF n, r
  <2>3. Plain(r) => Fine(log[s], Standing(s) \cup {n}, log[s][n].row, row'[r], start[r])
    BY <1>1, <1>7, <1>8, <2>1, <2>2, Repeated
  <2>4. ASSUME NEW x \in Rows, x = r, Plain(x)
        PROVE  Fine(log'[s], Stands(s)', x, row'[x], start'[x])
    <3>1. log[s][n].row = x /\ log' = log /\ start' = start
      BY <1>8, <2>4
    <3>2. Stands(s)' = Standing(s) \cup {n}
      BY <1>5, <1>10
    <3> HIDE DEF e
    <3> QED BY <2>3, <2>4, <3>1, <3>2
  <2> QED BY <1>4, <1>6, <2>4 DEF Restorable
<1> QED BY <1>9, <1>10

\* The four ways to reverse or repeat a change.
LEMMA UndoRedoRestore ==
  ASSUME IInv, IInv', NEW h \in Handlers, NEW s \in Sessions, s = Caller[h], At(h), Restorable(s),
         UndoUpdate(h) \/ UndoDelete(h) \/ RedoUpdate(h) \/ RedoDelete(h)
  PROVE  Restorable(s)'
<1> DEFINE e == req[h].e
<1>1. /\ req[h].op \in {"undo", "redo"} /\ Marking(h) /\ UNCHANGED <<start, log>>
      /\ row' \in [Rows -> Contents \cup {Absent}] /\ row \in [Rows -> Contents \cup {Absent}]
  BY DEF UndoUpdate, UndoDelete, RedoUpdate, RedoDelete, IInv, TypeOK
<1>2. /\ e \in Entries /\ e.old \in Contents /\ (e.op = "update" => e.new \in Patches) /\ e.row \in Rows
  BY <1>1, EntryIs
<1>3. PICK r \in Rows : r = e.row
  BY <1>2
<1>4. ASSUME NEW p, SetRows(Patched(r, p), s), DOMAIN p \subseteq Cols, \A c \in DOMAIN p : p[c] \in Domain(c)
      PROVE  Hit(r, IF row[r] = Absent THEN row[r] ELSE Merge(row[r], p))
  BY <1>4, PatchHits
<1>5. CASE UndoUpdate(h)
  <2>1. req[h].op = "undo" /\ e.op = "update"
    BY <1>5 DEF UndoUpdate
  <2>2. PICK p : p = Reverted(e)
    OBVIOUS
  <2>3. SetRows(Patched(r, p), s)
    BY <1>3, <1>5, <2>2 DEF UndoUpdate
  <2>4. Hit(r, IF row[r] = Absent THEN row[r] ELSE Merge(row[r], p))
    <3>1. DOMAIN p \subseteq Cols /\ \A c \in DOMAIN p : p[c] \in Domain(c)
      BY <1>2, <2>1, <2>2, RevertedIs
    <3> QED BY <1>4, <2>3, <3>1
  <2> QED BY <1>1, <1>3, <2>1, <2>2, <2>4, ReverseRestore DEF Hit, Reversal
<1>6. CASE RedoUpdate(h)
  <2>1. req[h].op = "redo" /\ e.op = "update"
    BY <1>6 DEF RedoUpdate
  <2>2. PICK p : p = e.new
    OBVIOUS
  <2>3. SetRows(Patched(r, p), s)
    BY <1>3, <1>6, <2>2 DEF RedoUpdate
  <2>4. Hit(r, IF row[r] = Absent THEN row[r] ELSE Merge(row[r], p))
    <3>1. DOMAIN p \subseteq Cols /\ \A c \in DOMAIN p : p[c] \in Domain(c)
      BY <1>2, <2>1, <2>2, PatchIs
    <3> QED BY <1>4, <2>3, <3>1
  <2> QED BY <1>1, <1>3, <2>1, <2>2, <2>4, ReverseRestore DEF Hit, Reversal
<1>7. CASE UndoDelete(h)
  <2>1. req[h].op = "undo" /\ e.op = "delete" /\ SetRow(e.row, e.old, s)
    BY <1>7 DEF UndoDelete
  <2>2. row'[e.row] = e.old /\ \A x \in Rows \ {e.row} : row'[x] = row[x]
    BY <1>2, <2>1, SetRowIs
  <2> QED BY <1>1, <2>1, <2>2, ReverseRestore DEF Reversal
<1>8. CASE RedoDelete(h)
  <2>1. req[h].op = "redo" /\ e.op = "delete"
    BY <1>8 DEF RedoDelete
  <2>2. Hit(r, Absent)
    <3>1. CASE Found(r)
      <4>1. PICK f \in Erased(r) : SetRows(f, s)
        BY <1>3, <1>8, <3>1 DEF RedoDelete
      <4> QED BY <4>1, EraseHits
    <3>2. CASE ~Found(r)
      <4>1. row' = row
        BY <1>3, <1>8, <3>2 DEF RedoDelete
      <4>2. row[r] = Absent
        BY <3>2 DEF Found, Twins
      <4> QED BY <4>1, <4>2 DEF Hit
    <3> QED BY <3>1, <3>2
  <2> QED BY <1>1, <1>3, <2>1, <2>2, ReverseRestore DEF Hit, Reversal
<1> QED BY <1>5, <1>6, <1>7, <1>8

\* The mark makes the log say what stands already.
LEMMA MarkRestore ==
  ASSUME IInv, NEW h \in Handlers, NEW s \in Sessions, s = Caller[h], At(h), Restorable(s), Mark(h)
  PROVE  Restorable(s)'
<1> DEFINE n == req[h].entry
<1> DEFINE b == req[h].undone
<1>0. Req(s) = req[h] /\ Req(s)' = req'[h]
  BY DEF At
<1>1. req[h].op = "mark" /\ n \in DOMAIN log[s] /\ b \in BOOLEAN
  <2>1. req[h] \in Requests /\ req[h].op = "mark"
    BY DEF Mark, IInv, LogInv
  <2> QED BY <1>0, <2>1 DEF Requests, Restorable, Fresh
<1>2. Req(s)' = None /\ row' = row /\ start' = start
  BY <1>0 DEF Mark, Answer, IInv, LogInv
<1>3. log[s] \in Seq(Entries) /\ log[s][n] \in Entries
  BY <1>1, LogIs DEF IInv, LogInv
<1> DEFINE e == [log[s][n] EXCEPT !.undone = b]
<1>4. /\ e.undone = b /\ e.op = log[s][n].op /\ e.row = log[s][n].row
      /\ e.old = log[s][n].old /\ e.new = log[s][n].new
  BY <1>3 DEF Entries
<1>5. log'[s] = [log[s] EXCEPT ![n] = e]
  BY <1>1 DEF Mark, IInv, LogInv
<1> HIDE DEF e
<1>6. /\ DOMAIN log'[s] = DOMAIN log[s] /\ log'[s][n] = e
      /\ \A i \in DOMAIN log[s] \ {n} : log'[s][i] = log[s][i]
  BY <1>1, <1>3, <1>5
<1>7. Stands(s)' = Stands(s)
  <2>1. Stands(s)' = {i \in DOMAIN log[s] : ~log'[s][i].undone}
    BY <1>2, <1>6 DEF Stands, Standing
  <2>2. Stands(s) = IF b THEN Standing(s) \ {n} ELSE Standing(s) \cup {n}
    BY <1>0, <1>1 DEF Stands
  <2> QED BY <1>1, <1>4, <1>6, <2>1, <2>2 DEF Standing
<1>8. ASSUME NEW r \in Rows, Plain(r) PROVE Fine(log'[s], Stands(s)', r, row'[r], start'[r])
  <2>1. \A i \in DOMAIN log[s] :
          /\ log'[s][i].op = log[s][i].op /\ log'[s][i].row = log[s][i].row
          /\ log'[s][i].old = log[s][i].old /\ log'[s][i].new = log[s][i].new
    BY <1>4, <1>6
  <2> QED BY <1>2, <1>6, <1>7, <1>8, <2>1, OtherRows
<1>9. Fresh(s)'
  BY <1>2 DEF Fresh
<1> QED BY <1>8, <1>9 DEF Restorable

\* A refused request changes nothing; a mark that is lost is not claimed about.
LEMMA RefusedRestore ==
  ASSUME IInv, NEW h \in Handlers, NEW s \in Sessions, s = Caller[h], At(h), Restorable(s), Refused(h), ~cut'
  PROVE  Restorable(s)'
BY NothingChanged DEF Refused

\* A step of another session that is not one of the writers changes no row.
LEMMA OtherChangesNothing ==
  ASSUME IInv, NEW s \in Sessions, NEW h \in Handlers, Caller[h] # s, Request(h) \/ Step(h),
         writers' \subseteq {s}
  PROVE  /\ UNCHANGED <<row, start>> /\ log'[s] = log[s]
         /\ Req(s)' = Req(s) /\ (Busy(s)' <=> Busy(s))
<1>1. Caller[h] \in Sessions /\ Caller[h] \notin writers' /\ Outside \notin writers'
  OBVIOUS
<1>2. \A f, by : SetRows(f, by) /\ by \in {Caller[h], Outside} => row' = row
  BY <1>1, WriterIs
<1>3. row' = row
  <2>1. CASE Request(h) \/ Refused(h) \/ Mark(h)
    BY <2>1 DEF Request, BeginDelete, BeginUpdate, BeginUndo, BeginRedo, Reads, Ask, Refused, Mark
  <2>2. CASE Update(h)
    <3>1. \E f : SetRows(f, IF req[h].old = Absent THEN Outside ELSE Caller[h])
      BY <2>2 DEF Update
    <3> QED BY <1>2, <3>1
  <2>3. CASE Delete(h)
    <3>1. \E f : SetRows(f, IF req[h].old = Absent THEN Outside ELSE Caller[h])
      BY <2>3 DEF Delete
    <3> QED BY <1>2, <3>1
  <2>4. CASE UndoUpdate(h) \/ RedoUpdate(h) \/ UndoDelete(h)
    <3>1. \E f : SetRows(f, Caller[h])
      BY <2>4 DEF UndoUpdate, RedoUpdate, UndoDelete, SetRow
    <3> QED BY <1>2, <3>1
  <2>5. CASE RedoDelete(h)
    <3>1. row' = row \/ \E f : SetRows(f, Caller[h])
      BY <2>5 DEF RedoDelete
    <3> QED BY <1>2, <3>1
  <2> QED BY <2>1, <2>2, <2>3, <2>4, <2>5 DEF Step
<1>4. start' = start /\ log'[s] = log[s]
  BY <1>1 DEF Request, BeginDelete, BeginUpdate, BeginUndo, BeginRedo, Reads, Ask, Step, Update, Delete,
     Refused, UndoUpdate, UndoDelete, RedoUpdate, RedoDelete, Mark, Record, IInv, LogInv
<1>5. \A g \in Handlers : Caller[g] = s => req'[g] = req[g]
  BY DEF Request, BeginDelete, BeginUpdate, BeginUndo, BeginRedo, Reads, Ask, Step, Update, Delete,
     Refused, UndoUpdate, UndoDelete, RedoUpdate, RedoDelete, Mark, Marking, Answer, IInv, LogInv
<1> QED BY <1>3, <1>4, <1>5, ReqStays

\* What a session has done stays on record.
LEMMA OnlyMore ==
  ASSUME IInv,
         \/ \E h \in Handlers : Request(h) \/ Step(h)
         \/ \E s \in Sessions : Clear(s)
  PROVE  /\ closed \subseteq closed' /\ writers \subseteq writers' /\ (cut => cut')
         /\ overlapped \subseteq overlapped'
<1>1. \A f, by : SetRows(f, by) => writers \subseteq writers'
  BY DEF SetRows
<1>2. ASSUME NEW h \in Handlers, Request(h) \/ Refused(h) \/ Mark(h)
      PROVE  /\ closed \subseteq closed' /\ writers \subseteq writers' /\ (cut => cut')
             /\ overlapped \subseteq overlapped'
  <2>1. CASE Request(h)
    <3>1. PICK q : Ask(h, q)
      BY <2>1, RequestFits DEF Fits
    <3> QED BY <3>1 DEF Ask, IInv, TypeOK
  <2>2. CASE Refused(h)
    BY <2>2 DEF Refused, IInv, TypeOK
  <2>3. CASE Mark(h)
    BY <2>3 DEF Mark, IInv, TypeOK
  <2> QED BY <1>2, <2>1, <2>2, <2>3
<1>3. ASSUME NEW h \in Handlers, Update(h) \/ Delete(h)
      PROVE  /\ closed \subseteq closed' /\ writers \subseteq writers' /\ (cut => cut')
             /\ overlapped \subseteq overlapped'
  <2>1. \E f, by : SetRows(f, by)
    BY <1>3 DEF Update, Delete
  <2> QED BY <1>1, <1>3, <2>1 DEF Update, Delete
<1>4. ASSUME NEW h \in Handlers, UndoUpdate(h) \/ UndoDelete(h) \/ RedoUpdate(h) \/ RedoDelete(h)
      PROVE  /\ closed \subseteq closed' /\ writers \subseteq writers' /\ (cut => cut')
             /\ overlapped \subseteq overlapped'
  <2>1. writers' = writers \/ \E f, by : SetRows(f, by)
    BY <1>4 DEF UndoUpdate, UndoDelete, RedoUpdate, RedoDelete, SetRow
  <2> QED BY <1>1, <1>4, <2>1 DEF UndoUpdate, UndoDelete, RedoUpdate, RedoDelete
<1>5. ASSUME NEW s \in Sessions, Clear(s)
      PROVE  /\ closed \subseteq closed' /\ writers \subseteq writers' /\ (cut => cut')
             /\ overlapped \subseteq overlapped'
  BY <1>5 DEF Clear
<1> QED BY <1>2, <1>3, <1>4, <1>5 DEF Step

\* A page of another session is left.
LEMMA OtherCleared ==
  ASSUME IInv, NEW s \in Sessions, NEW t \in Sessions \ {s}, Clear(t)
  PROVE  /\ UNCHANGED <<row, start>> /\ log'[s] = log[s]
         /\ Req(s)' = Req(s) /\ (Busy(s)' <=> Busy(s))
BY ReqStays DEF Clear, IInv, LogInv

LEMMA RestoreInit == Init => RestoreInv
<1> SUFFICES ASSUME Init, NEW s \in Sessions PROVE Restorable(s)
  BY DEF RestoreInv
<1>1. log[s] = <<>> /\ Req(s) = None /\ start = row
  BY DEF Init, Req, Busy
<1>2. Fresh(s)
  BY <1>1 DEF Fresh
<1>3. ASSUME NEW r \in Rows PROVE Fine(log[s], Stands(s), r, row[r], start[r])
  <2>1. \A c : Touching(log[s], r, c) = {}
    BY <1>1 DEF Touching
  <2>2. row[r] = Absent \/ row[r] # Absent
    OBVIOUS
  <2> QED BY <1>1, <2>1 DEF Fine, Back
<1> QED BY <1>2, <1>3 DEF Restorable

LEMMA RestoreNext == IInv /\ RestoreInv /\ [Next]_vars => RestoreInv'
<1> SUFFICES ASSUME IInv, RestoreInv, [Next]_vars, NEW s \in Sessions, Alone(s)'
             PROVE  Restorable(s)'
  BY DEF RestoreInv
<1>1. IInv'
  BY NextInv
<1>2. s \notin closed' /\ writers' \subseteq {s} /\ ~cut' /\ s \notin overlapped'
  BY DEF Alone, Undisturbed
<1>3. ASSUME \/ \E h \in Handlers : Request(h) \/ Step(h)
             \/ \E t \in Sessions : Clear(t)
      PROVE  Restorable(s)
  BY <1>3, OnlyMore, AloneBefore DEF RestoreInv
<1>4. ASSUME NEW h \in Handlers, Request(h) \/ Step(h) PROVE Restorable(s)'
  <2>1. Restorable(s)
    BY <1>3, <1>4
  <2>2. CASE Caller[h] # s
    BY <1>2, <1>4, <2>1, <2>2, OtherChangesNothing, OthersStep
  <2>3. CASE Caller[h] = s
    <3>1. At(h) /\ s = Caller[h]
      BY <1>1, <1>2, <1>4, <2>3, ReqStep DEF At
    <3> QED BY <1>1, <1>2, <1>4, <2>1, <3>1, BeginRestore, UpdateRestore, DeleteRestore,
               UndoRedoRestore, MarkRestore, RefusedRestore DEF Step
  <2> QED BY <2>2, <2>3
<1>5. ASSUME NEW t \in Sessions, Clear(t) PROVE Restorable(s)'
  <2>1. t # s
    BY <1>2, <1>5 DEF Clear
  <2> QED BY <1>3, <1>5, <2>1, OtherCleared, OthersStep
<1>6. ASSUME NEW r \in Rows, NEW v \in Contents, SetRow(r, v, Outside), row[r] # v PROVE FALSE
  <2>1. row' = row
    BY <1>2, <1>6, WriterIs DEF SetRow
  <2>2. row'[r] = v
    BY <1>6, SetRowIs
  <2> QED BY <1>6, <2>1, <2>2
<1>7. ASSUME row' = row, writers' = writers, UNCHANGED <<start, log, req, closed, cut, overlapped>>
      PROVE  Restorable(s)'
  <2>1. Restorable(s)
    BY <1>7 DEF RestoreInv, Alone, Undisturbed
  <2>2. Req(s)' = Req(s)
    BY <1>7, ReqStays
  <2> QED BY <1>7, <2>1, <2>2, OthersStep
<1>8. ASSUME NEW r \in Rows, NEW v \in Contents, SetRow(r, v, Outside),
             UNCHANGED <<start, log, req, closed, cut, overlapped>>
      PROVE  Restorable(s)'
  <2>1. row[r] = v
    BY <1>6, <1>8
  <2>2. [row EXCEPT ![r] = v] = row
    BY <2>1 DEF IInv, TypeOK
  <2> QED BY <1>7, <1>8, <2>2 DEF SetRow, SetRows
<1>9. ASSUME NEW r \in Rows, NEW c \in Cols, NEW v \in Domain(c), OutsideEdit(r, c, v)
      PROVE  Restorable(s)'
  <2>1. row[r] \in Contents
    BY <1>9 DEF OutsideEdit, IInv, TypeOK
  <2>2. [row[r] EXCEPT ![c] = v] \in Contents
    BY <2>1 DEF Contents, Domain
  <2> QED BY <1>8, <1>9, <2>2 DEF OutsideEdit
<1>10. CASE UNCHANGED vars
  BY <1>7, <1>10 DEF vars
<1> QED BY <1>4, <1>5, <1>8, <1>9, <1>10 DEF Next, Create

\* "Multiple undos in sequence restore the state step by step": a session that alone
\* wrote the tables, one request at a time, and has taken back all it did finds each row
\* that its first key column identifies and that refers to no other as it was, for any
\* rows, columns and number of edits, undos and redos.
THEOREM AllRestored == Spec => []UndoAllRestores
<1>1. IInv /\ RestoreInv => UndoAllRestores
  <2> SUFFICES ASSUME IInv, RestoreInv, NEW s \in Sessions, ~Busy(s), Alone(s),
                      Standing(s) = {}, NEW r \in Rows, Plain(r)
               PROVE  row[r] = start[r]
    BY DEF UndoAllRestores, Alone
  <2>1. Stands(s) = {}
    BY DEF Stands, Req
  <2>2. Fine(log[s], {}, r, row[r], start[r])
    BY <2>1 DEF RestoreInv, Restorable
  <2>3. row[r] \in Contents \cup {Absent} /\ start[r] \in Contents \cup {Absent}
    BY DEF IInv, TypeOK
  <2>4. CASE start[r] # Absent
    <3>1. row[r] \in Contents /\ start[r] \in Contents /\ \A c \in Cols : row[r][c] = start[r][c]
      BY <2>2, <2>3, <2>4 DEF Fine
    <3> QED BY <3>1 DEF Contents
  <2> QED BY <2>2, <2>4 DEF Fine
<1> QED BY <1>1, RestoreInit, RestoreNext, Invariant, PTL DEF Spec

-----------------------------------------------------------------------------
(* Without redo, the newest deletion can always be taken back.               *)

NoRedo == [][\A h \in Handlers : ~BeginRedo(h)]_vars

\* The entries that stand, of which one deletes r.
Gone(s, r) == Deleting(log[s], r) \cap Stands(s)

\* A row has one deletion that stands, and is absent.  The log of a page that was
\* left may be gone while an undo is under way.
DeletedOnce(s) ==
  /\ Req(s).op \in {"update", "delete"} => Req(s).old = row[Req(s).row]
  /\ Req(s).op = "undo" =>
       \/ log[s] = <<>>
       \/ Req(s).entry \in Standing(s) /\ Req(s).e = log[s][Req(s).entry]
  /\ Req(s).op = "mark" =>
       Req(s).undone /\ (log[s] = <<>> \/ Req(s).entry \in DOMAIN log[s])
  /\ \A r \in Rows : /\ Gone(s, r) # {} => row[r] = Absent
                     /\ \A i, j \in Gone(s, r) : i = j

NewestInv ==
  /\ \A h \in Handlers : req[h].op # "redo"
  /\ \A s \in Sessions : Undisturbed(s) => DeletedOnce(s)

\* Nothing that s has read or logged changes.
LEMMA OthersOnce ==
  ASSUME NEW s \in Sessions, DeletedOnce(s), row' = row, log'[s] = log[s], Req(s)' = Req(s)
  PROVE  DeletedOnce(s)'
<1>1. Standing(s)' = Standing(s)
  BY DEF Standing
<1>2. Stands(s)' = Stands(s)
  BY <1>1 DEF Stands
<1>3. \A r : Gone(s, r)' = Gone(s, r)
  BY <1>2 DEF Gone, Deleting
<1> QED BY <1>1, <1>3 DEF DeletedOnce

\* Requests other than redo.
LEMMA BeginOnce ==
  ASSUME IInv, NEW h \in Handlers, NEW s \in Sessions, s = Caller[h], At(h), DeletedOnce(s),
         Request(h), ~BeginRedo(h)
  PROVE  DeletedOnce(s)'
<1>1. req[h] = None /\ UNCHANGED <<row, log>>
  BY DEF Request, BeginDelete, BeginUpdate, BeginUndo, BeginRedo, Reads, Ask
<1>2. \A q : Ask(h, q) => req'[h] = q
  BY DEF Ask, IInv, LogInv
<1>3. /\ req'[h].op \in {"update", "delete", "undo"}
      /\ req'[h].op \in {"update", "delete"} => req'[h].old = row[req'[h].row]
      /\ req'[h].op = "undo" => /\ req'[h].entry \in Standing(s)
                               /\ req'[h].e = log[s][req'[h].entry]
  <2>1. ASSUME NEW r \in Rows, NEW p \in Patches, BeginUpdate(h, r, p)
        PROVE  req'[h].op = "update" /\ req'[h].old = row[r] /\ req'[h].row = r
    BY <1>2, <2>1 DEF BeginUpdate
  <2>2. ASSUME NEW r \in Rows, BeginDelete(h, r)
        PROVE  req'[h].op = "delete" /\ req'[h].old = row[r] /\ req'[h].row = r
    BY <1>2, <2>2 DEF BeginDelete
  <2>3. ASSUME BeginUndo(h)
        PROVE  /\ req'[h].op = "undo" /\ req'[h].entry \in Standing(s)
               /\ req'[h].e = log[s][req'[h].entry]
    BY <1>2, <2>3 DEF BeginUndo, Reads
  <2> QED BY <2>1, <2>2, <2>3 DEF Request
<1>4. Standing(s)' = Standing(s) /\ Req(s) = None /\ Req(s)' = req'[h]
  BY <1>1 DEF Standing, At
<1>5. Stands(s)' = Stands(s)
  BY <1>3, <1>4 DEF Stands
<1>6. \A r : Gone(s, r)' = Gone(s, r)
  BY <1>1, <1>5 DEF Gone, Deleting
<1> QED BY <1>1, <1>3, <1>4, <1>6 DEF DeletedOnce

\* A change of a row that is there.
LEMMA ChangeOnce ==
  ASSUME IInv, NEW h \in Handlers, NEW s \in Sessions, s = Caller[h], At(h), DeletedOnce(s),
         Update(h) \/ Delete(h), writers' \subseteq {s}
  PROVE  DeletedOnce(s)'
<1> DEFINE q == req[h]
<1>1. /\ q.row \in Rows /\ q.old = row[q.row] /\ q.op \in {"update", "delete"}
      /\ q.old \in Contents \cup {Absent} /\ (q.op = "update" => q.new \in Patches)
  <2>1. q.op \in {"update", "delete"}
    BY DEF Update, Delete
  <2> QED BY <2>1, AskedIs DEF DeletedOnce, At
<1>2. PICK r \in Rows : r = q.row
  BY <1>1
<1>3. Req(s).op # "mark" /\ Req(s)' = None /\ Answer(h)
  BY <1>1 DEF Update, Delete, Answer, IInv, LogInv, At
<1>4. /\ \A x \in Rows : row[x] = Absent => row'[x] = Absent
      /\ q.op = "delete" => row'[r] = Absent
  <2>1. CASE Update(h)
    <3>1. q.op = "update" /\ row' = Patched(r, q.new)
      BY <1>2, <2>1 DEF Update, SetRows
    <3> QED BY <3>1 DEF Patched
  <2>2. CASE Delete(h)
    <3>1. \E f \in Erased(r) : row' = f
      BY <1>2, <2>2 DEF Delete, SetRows
    <3>2. r \in Twins(r)
      BY DEF Twins
    <3> QED BY <3>1, <3>2, ErasedIs DEF IInv, TypeOK
  <2> QED BY <2>1, <2>2
<1>5. CASE q.old = Absent
  <2>1. \E f : SetRows(f, Outside)
    BY <1>5 DEF Update, Delete
  <2>2. row' = row /\ log' = log
    BY <1>5, <2>1, WriterIs, SessionsAssumption DEF Update, Delete
  <2>3. Stands(s)' = Stands(s)
    BY <1>3, <2>2 DEF Stands, Standing
  <2>4. \A x : Gone(s, x)' = Gone(s, x)
    BY <2>2, <2>3 DEF Gone, Deleting
  <2> QED BY <1>3, <2>2, <2>4 DEF DeletedOnce
<1>6. CASE q.old # Absent
  <2>1. PICK e : e.op = q.op /\ e.row = q.row /\ e.undone = FALSE /\ Record(s, e)
    BY <1>6 DEF Update, Delete
  <2> DEFINE n == Len(log[s]) + 1
  <2>2. log[s] \in Seq(Entries) /\ log'[s] = Append(log[s], e)
    BY <2>1 DEF IInv, LogInv, Record
  <2>3. /\ DOMAIN log'[s] = DOMAIN log[s] \cup {n} /\ n \notin DOMAIN log[s]
        /\ log'[s][n] = e /\ \A i \in DOMAIN log[s] : log'[s][i] = log[s][i]
    BY <2>2
  <2> HIDE DEF n
  <2>4. Stands(s) \subseteq DOMAIN log[s] /\ Stands(s)' = Stands(s) \cup {n}
    BY <1>3, <2>1, <2>2, <2>3 DEF Stands, Standing
  <2>5. ASSUME NEW x \in Rows
        PROVE  Gone(s, x)' = Gone(s, x) \cup (IF q.op = "delete" /\ x = q.row THEN {n} ELSE {})
    BY <2>1, <2>3, <2>4 DEF Gone, Deleting
  <2>6. Gone(s, r) = {}
    BY <1>1, <1>2, <1>6 DEF DeletedOnce
  <2>7. ASSUME NEW x \in Rows
        PROVE  (Gone(s, x)' # {} => row'[x] = Absent) /\ \A i, j \in Gone(s, x)' : i = j
    BY <1>2, <1>4, <2>5, <2>6 DEF DeletedOnce
  <2> QED BY <1>3, <2>7 DEF DeletedOnce
<1> QED BY <1>5, <1>6

\* The entry that is taken back no longer stands, so its row may come back.
LEMMA UndoOnce ==
  ASSUME IInv, NEW h \in Handlers, NEW s \in Sessions, s = Caller[h], At(h), DeletedOnce(s),
         UndoUpdate(h) \/ UndoDelete(h)
  PROVE  DeletedOnce(s)'
<1> DEFINE n == req[h].entry
<1> DEFINE e == req[h].e
<1>1. req[h].op = "undo" /\ Marking(h) /\ log' = log
  BY DEF UndoUpdate, UndoDelete
<1>2. e \in Entries /\ e.row \in Rows
  BY <1>1, EntryIs
<1>3. Req(s)'.op = "mark" /\ Req(s)'.entry = n /\ Req(s)'.undone
  <2>1. req'[h].op = "mark" /\ req'[h].entry = n /\ req'[h].undone
    BY <1>1 DEF Marking, IInv, LogInv
  <2> QED BY <2>1 DEF At
<1>4. Stands(s) = Standing(s) /\ Stands(s)' = Standing(s) \ {n}
  <2>1. Standing(s)' = Standing(s)
    BY <1>1 DEF Standing
  <2> QED BY <1>1, <1>3, <2>1 DEF Stands, At
<1>5. log[s] = <<>> \/ (n \in Standing(s) /\ e = log[s][n])
  BY <1>1 DEF DeletedOnce, At
<1>6. log[s] = <<>> \/ n \in DOMAIN log[s]
  BY <1>5 DEF Standing
<1>7. \A r \in Rows : Gone(s, r)' = Gone(s, r) \ {n}
  BY <1>1, <1>4 DEF Gone, Deleting
<1>8. CASE UndoUpdate(h)
  <2>1. row' = Patched(e.row, Reverted(e))
    BY <1>8 DEF UndoUpdate, SetRows
  <2>2. \A r \in Rows : row[r] = Absent => row'[r] = Absent
    BY <2>1 DEF Patched
  <2> QED BY <1>1, <1>3, <1>6, <1>7, <2>2 DEF DeletedOnce
<1>9. CASE UndoDelete(h)
  <2>1. PICK p \in Rows : p = e.row
    BY <1>2
  <2>2. row' = [row EXCEPT ![p] = e.old] /\ e.op = "delete"
    BY <1>9, <2>1 DEF UndoDelete, SetRow, SetRows
  <2>3. \A r \in Rows \ {p} : row'[r] = row[r]
    BY <2>2 DEF IInv, TypeOK
  <2> HIDE DEF e, n
  <2>4. Gone(s, p)' = Gone(s, p) \ {n} /\ \A i, j \in Gone(s, p) : i = j
    BY <1>7 DEF DeletedOnce
  <2>5. Gone(s, p)' = {}
    <3>1. CASE log[s] = <<>>
      <4>1. DOMAIN log[s] = {}
        BY <3>1
      <4> QED BY <2>4, <4>1 DEF Gone, Deleting
    <3>2. CASE n \in Standing(s) /\ e = log[s][n]
      <4>1. n \in Gone(s, p)
        BY <1>4, <2>1, <2>2, <3>2 DEF Gone, Deleting, Standing
      <4> QED BY <2>4, <4>1
    <3> QED BY <1>5, <3>1, <3>2
  <2>6. ASSUME NEW r \in Rows
        PROVE  (Gone(s, r)' # {} => row'[r] = Absent) /\ \A i, j \in Gone(s, r)' : i = j
    <3>1. CASE r = p
      BY <2>5, <3>1
    <3>2. CASE r # p
      <4>1. Gone(s, r)' = Gone(s, r) \ {n} /\ row'[r] = row[r]
        BY <1>7, <2>3, <3>2
      <4> QED BY <4>1 DEF DeletedOnce
    <3> QED BY <3>1, <3>2
  <2> QED BY <1>1, <1>3, <1>6, <2>6 DEF DeletedOnce
<1> QED BY <1>8, <1>9

LEMMA MarkOnce ==
  ASSUME IInv, NEW h \in Handlers, NEW s \in Sessions, s = Caller[h], At(h), DeletedOnce(s), Mark(h)
  PROVE  DeletedOnce(s)'
<1> DEFINE n == req[h].entry
<1>0. Req(s) = req[h] /\ Req(s)' = req'[h]
  BY DEF At
<1>1. req[h].op = "mark" /\ req[h].undone /\ (log[s] = <<>> \/ n \in DOMAIN log[s])
  BY <1>0 DEF Mark, DeletedOnce
<1>2. Req(s)' = None /\ row' = row
  BY <1>0 DEF Mark, Answer, IInv, LogInv
<1>3. /\ DOMAIN log'[s] = DOMAIN log[s]
      /\ \A i \in DOMAIN log[s] :
           /\ log'[s][i].op = log[s][i].op /\ log'[s][i].row = log[s][i].row
           /\ log'[s][i].undone = (IF i = n THEN req[h].undone ELSE log[s][i].undone)
  <2>1. CASE n \in DOMAIN log[s]
    <3>1. log'[s] = [log[s] EXCEPT ![n] = [log[s][n] EXCEPT !.undone = req[h].undone]]
      BY <2>1 DEF Mark, IInv, LogInv
    <3>2. log[s] \in Seq(Entries) /\ log[s][n] \in Entries
      BY <2>1, LogIs DEF IInv, LogInv
    <3> DEFINE e == [log[s][n] EXCEPT !.undone = req[h].undone]
    <3>3. e.op = log[s][n].op /\ e.row = log[s][n].row /\ e.undone = req[h].undone
      BY <3>2 DEF Entries
    <3> HIDE DEF e
    <3> QED BY <2>1, <3>1, <3>2, <3>3 DEF e
  <2>2. CASE n \notin DOMAIN log[s]
    BY <2>2 DEF Mark
  <2> QED BY <2>1, <2>2
<1>4. Stands(s)' = {i \in DOMAIN log[s] : ~log'[s][i].undone}
  BY <1>2, <1>3 DEF Stands, Standing
<1>5. Stands(s) = Standing(s) \ {n}
  BY <1>0, <1>1 DEF Stands
<1>6. Stands(s)' = Stands(s)
  <2>1. ASSUME NEW i \in DOMAIN log[s]
        PROVE  i \in Stands(s)' <=> i \in Stands(s)
    <3> HIDE DEF n
    <3>1. CASE i = n
      <4>1. log'[s][i].undone
        BY <1>1, <1>3, <3>1
      <4> QED BY <1>4, <1>5, <3>1, <4>1
    <3>2. CASE i # n
      <4>1. log'[s][i].undone = log[s][i].undone
        BY <1>3, <3>2
      <4> QED BY <1>4, <1>5, <3>2, <4>1 DEF Standing
    <3> QED BY <3>1, <3>2
  <2> QED BY <1>4, <1>5, <2>1 DEF Standing
<1>7. \A r \in Rows : Gone(s, r)' = Gone(s, r)
  BY <1>3, <1>6 DEF Gone, Deleting
<1> QED BY <1>2, <1>7 DEF DeletedOnce

LEMMA RefusedOnce ==
  ASSUME IInv, NEW h \in Handlers, NEW s \in Sessions, s = Caller[h], At(h), DeletedOnce(s),
         Refused(h), ~cut'
  PROVE  DeletedOnce(s)'
<1>1. Req(s).op # "mark" /\ Req(s)' = None /\ row' = row /\ log' = log
  BY DEF Refused, Answer, IInv, LogInv, At
<1>2. Stands(s)' = Stands(s)
  BY <1>1 DEF Stands, Standing
<1>3. \A x : Gone(s, x)' = Gone(s, x)
  BY <1>1, <1>2 DEF Gone, Deleting
<1> QED BY <1>1, <1>3 DEF DeletedOnce

LEMMA ClearOnce ==
  ASSUME IInv, NEW s \in Sessions, NEW t \in Sessions, DeletedOnce(s), Clear(t)
  PROVE  DeletedOnce(s)'
<1>1. row' = row /\ req' = req /\ (log'[s] = log[s] \/ log'[s] = <<>>)
  BY DEF Clear, IInv, LogInv
<1>2. Req(s)' = Req(s)
  BY <1>1, ReqStays
<1>3. CASE log'[s] = log[s]
  BY <1>1, <1>2, <1>3, OthersOnce
<1>4. CASE log'[s] = <<>>
  <2>1. \A r \in Rows : Gone(s, r)' = {}
    BY <1>4 DEF Gone, Deleting
  <2> QED BY <1>1, <1>2, <1>4, <2>1 DEF DeletedOnce
<1> QED BY <1>1, <1>3, <1>4

LEMMA NewestInit == Init => NewestInv
<1> SUFFICES ASSUME Init PROVE NewestInv
  OBVIOUS
<1>1. ASSUME NEW s \in Sessions PROVE DeletedOnce(s)
  <2>1. log[s] = <<>> /\ Req(s).op = "none"
    BY DEF Init, Req, Busy
  <2>2. \A r : Gone(s, r) = {}
    BY <2>1 DEF Gone, Deleting
  <2> QED BY <2>1, <2>2 DEF DeletedOnce
<1> QED BY <1>1 DEF Init, NewestInv

LEMMA NewestNext ==
  ASSUME IInv, NewestInv, [Next]_vars, [\A h \in Handlers : ~BeginRedo(h)]_vars
  PROVE  NewestInv'
<1>1. IInv'
  BY NextInv
<1>2. ASSUME NEW s \in Sessions, Req(s)' = Req(s), row' = row, log'[s] = log[s], DeletedOnce(s)
      PROVE  DeletedOnce(s)'
  BY <1>2, OthersOnce
<1>3. CASE UNCHANGED vars
  <2>1. \A s \in Sessions : Req(s)' = Req(s)
    BY <1>3, ReqStays DEF vars
  <2> QED BY <1>2, <1>3, <2>1 DEF vars, NewestInv, Undisturbed
<1>4. CASE Next /\ \A h \in Handlers : ~BeginRedo(h)
  <2>1. ASSUME NEW g \in Handlers PROVE req'[g].op # "redo"
    <3>1. ASSUME NEW h \in Handlers, Request(h) PROVE req'[g].op # "redo"
      <4>1. \A q : Ask(h, q) => \A f \in Handlers : req'[f] = IF f = h THEN q ELSE req[f]
        BY DEF Ask, IInv, LogInv
      <4>2. PICK q : Ask(h, q) /\ q.op # "redo"
        <5>1. CASE BeginUndo(h)
          BY <5>1 DEF BeginUndo, Reads
        <5>2. ASSUME NEW r \in Rows, BeginDelete(h, r) PROVE \E q : Ask(h, q) /\ q.op # "redo"
          BY <5>2 DEF BeginDelete
        <5>3. ASSUME NEW r \in Rows, NEW p \in Patches, BeginUpdate(h, r, p)
              PROVE  \E q : Ask(h, q) /\ q.op # "redo"
          BY <5>3 DEF BeginUpdate
        <5> QED BY <1>4, <3>1, <5>1, <5>2, <5>3 DEF Request
      <4> QED BY <4>1, <4>2 DEF NewestInv
    <3>2. ASSUME NEW h \in Handlers, Step(h) PROVE req'[g].op # "redo"
      <4>1. Answer(h) \/ Marking(h)
        BY <3>2 DEF Step, Update, Delete, Refused, UndoUpdate, UndoDelete, RedoUpdate, RedoDelete, Mark
      <4> QED BY <4>1 DEF Marking, Answer, NewestInv, IInv, LogInv
    <3>3. CASE req' = req
      BY <3>3 DEF NewestInv
    <3> QED BY <1>4, <3>1, <3>2, <3>3 DEF Next, Create, OutsideEdit, Clear
  <2>2. ASSUME NEW s \in Sessions, Undisturbed(s)' PROVE DeletedOnce(s)'
    <3>1. writers' \subseteq {s} /\ ~cut' /\ s \notin overlapped'
      BY <2>2 DEF Undisturbed
    <3>2. ASSUME \/ \E h \in Handlers : Request(h) \/ Step(h)
                 \/ \E t \in Sessions : Clear(t)
          PROVE  DeletedOnce(s)
      BY <3>1, <3>2, OnlyMore DEF NewestInv, Undisturbed
    <3>3. ASSUME NEW h \in Handlers, Request(h) \/ Step(h) PROVE DeletedOnce(s)'
      <4>1. DeletedOnce(s)
        BY <3>2, <3>3
      <4>2. CASE Caller[h] # s
        BY <3>1, <3>3, <4>1, <4>2, OtherChangesNothing, OthersOnce
      <4>3. CASE Caller[h] = s
        <5>1. At(h) /\ s = Caller[h]
          BY <1>1, <3>1, <3>3, <4>3, ReqStep DEF At
        <5>2. ~BeginRedo(h) /\ ~RedoUpdate(h) /\ ~RedoDelete(h)
          BY <1>4 DEF NewestInv, RedoUpdate, RedoDelete
        <5> QED BY <3>1, <3>3, <4>1, <5>1, <5>2, BeginOnce, ChangeOnce, UndoOnce, MarkOnce, RefusedOnce DEF Step
      <4> QED BY <4>2, <4>3
    <3>4. ASSUME NEW t \in Sessions, Clear(t) PROVE DeletedOnce(s)'
      BY <3>2, <3>4, ClearOnce
    <3>5. ASSUME NEW f, SetRows(f, Outside), UNCHANGED <<log, req, cut, overlapped>> PROVE DeletedOnce(s)'
      <4>1. row' = row
        BY <3>1, <3>5, WriterIs, SessionsAssumption
      <4>2. Req(s)' = Req(s)
        BY <3>5, ReqStays
      <4>3. Undisturbed(s)
        BY <3>1, <3>5 DEF Undisturbed, SetRows
      <4> QED BY <3>5, <4>1, <4>2, <4>3, OthersOnce DEF NewestInv
    <3> QED BY <1>4, <3>3, <3>4, <3>5 DEF Next, Create, OutsideEdit, SetRow
  <2> QED BY <2>1, <2>2 DEF NewestInv
<1> QED BY <1>3, <1>4

\* "Undo the last non-undone operation for the current session": as long as nobody
\* asks for a redo, a session that alone writes, one request at a time, finds the row
\* of its newest standing deletion absent, whatever shares its key or refers to it.
\* What breaks the promise is the order of POST /redo alone, the oldest undone entry
\* first, and no sequence of edits, undos and refusals.
THEOREM NewestWithoutRedo == Spec /\ NoRedo => []NewestCanBeUndone
<1>1. IInv /\ NewestInv => NewestCanBeUndone
  <2> SUFFICES ASSUME IInv, NewestInv, NEW s \in Sessions, ~Busy(s), Undisturbed(s),
                      NEW i \in Standing(s), log[s][i].op = "delete"
               PROVE  row[log[s][i].row] = Absent
    BY DEF NewestCanBeUndone
  <2>1. Stands(s) = Standing(s) /\ DeletedOnce(s)
    BY DEF Stands, NewestInv, Req
  <2>2. i \in DOMAIN log[s] /\ log[s][i].row \in Rows
    <3>1. i \in DOMAIN log[s]
      BY DEF Standing
    <3>2. log[s][i] \in Entries
      BY <3>1 DEF IInv, TypeOK
    <3> QED BY <3>1, <3>2 DEF Entries
  <2>3. i \in Gone(s, log[s][i].row)
    BY <2>1, <2>2 DEF Gone, Deleting
  <2> QED BY <2>1, <2>2, <2>3 DEF DeletedOnce
<1>2. IInv /\ NewestInv /\ [Next]_vars /\ [\A h \in Handlers : ~BeginRedo(h)]_vars => NewestInv'
  BY NewestNext
<1> QED BY <1>1, <1>2, NewestInit, Invariant, PTL DEF Spec, NoRedo
=============================================================================
