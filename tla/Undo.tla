-------------------------------- MODULE Undo --------------------------------
(* The undo log of the data browser (backend/routers/db_browser.py): edits   *)
(* and deletions are logged with the values they replaced, POST /undo takes  *)
(* back the newest entry of the session that stands and POST /redo repeats   *)
(* the oldest that does not.  A change and its entry are one transaction; an *)
(* undo reads its entry, reverses it and marks it in three.                  *)
(*                                                                           *)
(* Every statement names its row by the first primary-key column alone, so   *)
(* it reaches all the rows that share it; one of them is read and logged. A  *)
(* deletion also reaches the rows that refer to a deleted one, unlogged.     *)
(* Nothing keeps the requests of a session apart.                            *)
EXTENDS Naturals, Sequences

CONSTANTS Sessions, Rows,
          Key,                          \* table and first primary-key column of each row
          Referrers,                    \* rows with a foreign key to a row, directly or not
          Cols, StampCols,              \* StampCols: dates, refused as JSON text
          Vals, Null, Stamp, Absent,
          Patches,                      \* the columns and values of an edit, no key among them
          Handlers, Caller,             \* requests that may be under way, each of one session
          MaxLog                        \* bound: how many entries a session makes

ASSUME ColsAssumption == StampCols \subseteq Cols
ASSUME ValuesAssumption == Null \notin Vals /\ Stamp \notin Vals \cup {Null}
ASSUME PatchesAssumption ==
  \A p \in Patches :
    /\ DOMAIN p \subseteq Cols /\ DOMAIN p # {}
    /\ \A c \in DOMAIN p : p[c] \in (IF c \in StampCols THEN {Null} ELSE Vals \cup {Null})
Outside == "outside"                    \* requests without a session, and every other writer
ASSUME SessionsAssumption == Outside \notin Sessions
ASSUME CallerAssumption == Caller \in [Handlers -> Sessions]
ASSUME MaxLogAssumption == MaxLog \in [Sessions -> Nat]

\* A Stamp is some date: which date, a trigger like update_updated_at decides.
Domain(c) == IF c \in StampCols THEN {Null, Stamp} ELSE Vals \cup {Null}
Contents == {v \in [Cols -> Vals \cup {Null, Stamp}] : \A c \in Cols : v[c] \in Domain(c)}

ASSUME AbsentAssumption == Absent \notin Contents

VARIABLES
  row,                                  \* the edited rows: contents or Absent
  start,                                \* history: the same before the first edit
  log,                                  \* per session, oldest entry first
  req,                                  \* what each handler is at
  closed,                               \* sessions whose page was left
  writers,                              \* history: who has changed a row
  cut,                                  \* history: an undo or redo was not marked
  overlapped,                           \* history: sessions with two requests under way
  forgotten                             \* history: rows whose deletions Clear took from a log

vars == <<row, start, log, req, closed, writers, cut, overlapped, forgotten>>

None == [op |-> "none"]

\* The parameters of a statement that come from JSON: no date among them.
Sendable(v) == \A c \in DOMAIN v : v[c] # Stamp

Init ==
  /\ row \in [Rows -> Contents \cup {Absent}]
  /\ start = row
  /\ log = [s \in Sessions |-> <<>>]
  /\ req = [h \in Handlers |-> None]
  /\ closed = {} /\ writers = {} /\ cut = FALSE /\ overlapped = {} /\ forgotten = {}

Busy(s) == \E h \in Handlers : Caller[h] = s /\ req[h] # None
Room(s) == Len(log[s]) < MaxLog[s]
Answer(h) == req' = [req EXCEPT ![h] = None]

\* A session sends a request, whether or not another of its own is under way.
Ask(h, q) ==
  /\ req[h] = None /\ Caller[h] \notin closed
  /\ req' = [req EXCEPT ![h] = q]
  /\ overlapped' = overlapped \cup {s \in {Caller[h]} : Busy(s)}
  /\ UNCHANGED <<row, start, log, closed, writers, cut, forgotten>>

\* The rows that WHERE <first key column> = $1 finds for r, and whether it finds any.
Twins(r) == {x \in Rows : Key[x] = Key[r]}
Found(r) == \E x \in Twins(r) : row[x] # Absent

Along(r) == UNION {Referrers[x] : x \in Twins(r)}

Merge(old, patch) == [c \in Cols |-> IF c \in DOMAIN patch THEN patch[c] ELSE old[c]]
Record(s, e) == Room(s) /\ log' = [log EXCEPT ![s] = Append(@, e)]
SetRows(f, by) == row' = f /\ writers' = IF f = row THEN writers ELSE writers \cup {by}
SetRow(r, v, by) == SetRows([row EXCEPT ![r] = v], by)

\* UPDATE ... SET p WHERE <first key column> = that of r.
Patched(r, p) == [x \in Rows |-> IF x \in Twins(r) /\ row[x] # Absent THEN Merge(row[x], p) ELSE row[x]]

\* What DELETE ... WHERE <first key column> = that of r may leave: ON DELETE CASCADE
\* removes a row that refers to a deleted one and SET NULL clears a column of it.
Left(r, x) ==
  IF x \in Twins(r) \/ row[x] = Absent THEN {Absent}
  ELSE {row[x], Absent} \cup {[row[x] EXCEPT ![c] = Null] : c \in Cols}
Erased(r) ==
  {[x \in Rows |-> IF x \in Along(r) THEN f[x] ELSE IF x \in Twins(r) THEN Absent ELSE row[x]] :
     f \in {g \in [Along(r) -> Contents \cup {Absent}] : \A x \in Along(r) : g[x] \in Left(r, x)}}

-----------------------------------------------------------------------------
(* Edits and deletions; a bulk request is one of these per id.               *)

\* The row that is read before the transaction: one of those found, or none.
Read(r) == row[r] # Absent \/ ~Found(r)

\* update_row, bulk_edit: the values to restore are those of the row that was read.
BeginUpdate(h, r, p) == Read(r) /\ Ask(h, [op |-> "update", row |-> r, new |-> p, old |-> row[r]])

\* UPDATE and the entry commit together; where no row was found before, one that is
\* there now is updated without an entry.  404 when there is none.
Update(h) ==
  /\ req[h].op = "update"
  /\ LET q == req[h]
         s == Caller[h] IN
       /\ Found(q.row)
       /\ SetRows(Patched(q.row, q.new), IF q.old = Absent THEN Outside ELSE s)
       /\ IF q.old = Absent THEN UNCHANGED log
            ELSE Record(s, [op |-> "update", row |-> q.row, old |-> q.old, new |-> q.new, undone |-> FALSE])
  /\ Answer(h)
  /\ UNCHANGED <<start, closed, cut, overlapped, forgotten>>

BeginDelete(h, r) == Read(r) /\ Ask(h, [op |-> "delete", row |-> r, old |-> row[r]])

\* Mutant: the entry is written in a transaction of its own, which may not come.
Delete_EntryLater(h) ==
  /\ req[h].op = "delete"
  /\ Found(req[h].row)
  /\ \E f \in Erased(req[h].row) : SetRows(f, Caller[h])
  /\ Answer(h)
  /\ UNCHANGED <<start, log, closed, cut, overlapped, forgotten>>

Delete(h) ==
  /\ req[h].op = "delete"
  /\ LET q == req[h]
         s == Caller[h] IN
       /\ Found(q.row)
       /\ \E f \in Erased(q.row) : SetRows(f, IF q.old = Absent THEN Outside ELSE s)
       /\ IF q.old = Absent THEN UNCHANGED log
            ELSE Record(s, [op |-> "delete", row |-> q.row, old |-> q.old, new |-> <<>>, undone |-> FALSE])
  /\ Answer(h)
  /\ UNCHANGED <<start, closed, cut, overlapped, forgotten>>

\* 404, a constraint, a value the statement refuses, a lost connection: rolled back.
Refused(h) ==
  /\ req[h] # None
  /\ Answer(h)
  /\ cut' = (cut \/ req[h].op = "mark")
  /\ UNCHANGED <<row, start, log, closed, writers, overlapped, forgotten>>

\* create_row, import_csv and writers outside the browser: nothing is logged.
\* Bound: one such write, and none of them deletes a row.
Create(r, v) ==
  /\ row[r] = Absent /\ Outside \notin writers
  /\ SetRow(r, v, Outside)
  /\ UNCHANGED <<start, log, req, closed, cut, overlapped, forgotten>>

OutsideEdit(r, c, v) ==
  /\ row[r] # Absent /\ Outside \notin writers
  /\ SetRow(r, [row[r] EXCEPT ![c] = v], Outside)
  /\ UNCHANGED <<start, log, req, closed, cut, overlapped, forgotten>>

-----------------------------------------------------------------------------
(* Undo and redo                                                             *)

Standing(s) == {i \in DOMAIN log[s] : ~log[s][i].undone}
Undone(s) == {i \in DOMAIN log[s] : log[s][i].undone}

Reads(h, op, i) == Ask(h, [op |-> op, entry |-> i, e |-> log[Caller[h]][i]])

\* Mutant: the entry that stands longest is taken back first.
BeginUndo_Oldest(h) ==
  \E i \in Standing(Caller[h]) : (\A j \in Standing(Caller[h]) : j >= i) /\ Reads(h, "undo", i)

\* ORDER BY created_at DESC, id DESC among the entries that stand.
BeginUndo(h) ==
  \E i \in Standing(Caller[h]) : (\A j \in Standing(Caller[h]) : j <= i) /\ Reads(h, "undo", i)

\* ORDER BY created_at ASC, id ASC among the undone entries.
BeginRedo(h) ==
  \E i \in Undone(Caller[h]) : (\A j \in Undone(Caller[h]) : i <= j) /\ Reads(h, "redo", i)

Marking(h) == req' = [req EXCEPT ![h] = [op |-> "mark", entry |-> @.entry, undone |-> @.op = "undo"]]

\* Only the columns of new_values go back to previous_values.
Reverted(e) == [c \in DOMAIN e.new |-> e.old[c]]

\* An UPDATE of a row that is gone changes nothing and raises nothing.
UndoUpdate(h) ==
  /\ req[h].op = "undo" /\ req[h].e.op = "update"
  /\ Sendable(Reverted(req[h].e))
  /\ SetRows(Patched(req[h].e.row, Reverted(req[h].e)), Caller[h])
  /\ Marking(h)
  /\ UNCHANGED <<start, log, closed, cut, overlapped, forgotten>>

\* INSERT of the logged row; 409, and no mark, when there is a row already.
UndoDelete(h) ==
  /\ req[h].op = "undo" /\ req[h].e.op = "delete"
  /\ row[req[h].e.row] = Absent /\ Sendable(req[h].e.old)
  /\ SetRow(req[h].e.row, req[h].e.old, Caller[h])
  /\ Marking(h)
  /\ UNCHANGED <<start, log, closed, cut, overlapped, forgotten>>

RedoUpdate(h) ==
  /\ req[h].op = "redo" /\ req[h].e.op = "update"
  /\ SetRows(Patched(req[h].e.row, req[h].e.new), Caller[h])
  /\ Marking(h)
  /\ UNCHANGED <<start, log, closed, cut, overlapped, forgotten>>

\* DELETE, of whatever the row and its twins have become, or of nothing.
RedoDelete(h) ==
  /\ req[h].op = "redo" /\ req[h].e.op = "delete"
  /\ IF Found(req[h].e.row) THEN \E f \in Erased(req[h].e.row) : SetRows(f, Caller[h])
       ELSE UNCHANGED <<row, writers>>
  /\ Marking(h)
  /\ UNCHANGED <<start, log, closed, cut, overlapped, forgotten>>

\* Mutant: an undo leaves its request open behind the mark.
Mark_Keeps(h) ==
  /\ req[h].op = "mark"
  /\ req' = [req EXCEPT ![h] = [op |-> "marked"]]
  /\ UNCHANGED <<row, start, log, closed, writers, cut, overlapped, forgotten>>

\* A statement of its own; the entry may have been cleared meanwhile.
Mark(h) ==
  /\ req[h].op = "mark"
  /\ LET s == Caller[h] IN
       log' = IF req[h].entry \in DOMAIN log[s]
                THEN [log EXCEPT ![s][req[h].entry].undone = req[h].undone] ELSE log
  /\ Answer(h)
  /\ UNCHANGED <<row, start, closed, writers, cut, overlapped, forgotten>>

\* The page is left while a request may still be under way; its id is not used again.
Clear(s) ==
  /\ s \notin closed
  /\ closed' = closed \cup {s}
  /\ \/ UNCHANGED <<log, forgotten>>
     \/ /\ log' = [log EXCEPT ![s] = <<>>]
        /\ forgotten' = forgotten \cup {log[s][i].row : i \in {j \in DOMAIN log[s] : log[s][j].op = "delete"}}
  /\ UNCHANGED <<row, start, req, writers, cut, overlapped>>

Request(h) ==
  \/ \E r \in Rows : BeginDelete(h, r) \/ \E p \in Patches : BeginUpdate(h, r, p)
  \/ BeginUndo(h) \/ BeginRedo(h)

Step(h) ==
  \/ Update(h) \/ Delete(h) \/ Refused(h)
  \/ UndoUpdate(h) \/ UndoDelete(h) \/ RedoUpdate(h) \/ RedoDelete(h) \/ Mark(h)

Next ==
  \/ \E h \in Handlers : Request(h) \/ Step(h)
  \/ \E s \in Sessions : Clear(s)
  \/ \E r \in Rows :
       \/ \E v \in Contents : Create(r, v)
       \/ \E c \in Cols : \E v \in Domain(c) : OutsideEdit(r, c, v)

Spec == Init /\ [][Next]_vars

-----------------------------------------------------------------------------
(* Properties                                                                *)

Entries ==
  [op : {"update"}, row : Rows, old : Contents, new : Patches, undone : BOOLEAN]
    \cup [op : {"delete"}, row : Rows, old : Contents, new : {<<>>}, undone : BOOLEAN]

Requests ==
  {None}
    \cup [op : {"update"}, row : Rows, new : Patches, old : Contents \cup {Absent}]
    \cup [op : {"delete"}, row : Rows, old : Contents \cup {Absent}]
    \cup [op : {"undo", "redo"}, entry : Nat \ {0}, e : Entries]
    \cup [op : {"mark"}, entry : Nat \ {0}, undone : BOOLEAN]

TypeOK ==
  /\ row \in [Rows -> Contents \cup {Absent}]
  /\ start \in [Rows -> Contents \cup {Absent}]
  /\ \A s \in Sessions : Len(log[s]) <= MaxLog[s] /\ \A i \in DOMAIN log[s] : log[s][i] \in Entries
  /\ \A h \in Handlers : req[h] \in Requests
  /\ closed \subseteq Sessions /\ overlapped \subseteq Sessions /\ cut \in BOOLEAN
  /\ forgotten \subseteq Rows
  /\ writers \subseteq Sessions \cup {Outside}

\* A row that no statement reaches but those that name it.
Plain(r) == Twins(r) = {r} /\ \A x \in Rows \ {r} : r \notin Along(x)

\* A session that alone wrote the tables, one request at a time.
Undisturbed(s) == writers \subseteq {s} /\ ~cut /\ s \notin overlapped

\* "Multiple undos in sequence restore the state step by step": when everything a
\* session did is taken back, each row that its first key column identifies and that
\* refers to no other is as it was, also after redos out of order and refused requests.
\* The log restores no other rows, and nothing if requests of the session overlapped.
UndoAllRestores ==
  \A s \in Sessions :
    ~Busy(s) /\ s \notin closed /\ Undisturbed(s) /\ Standing(s) = {} =>
      \A r \in Rows : Plain(r) => row[r] = start[r]

\* A row that is gone has a deletion of its key in a log, until the page that deleted it
\* is left: not when requests overlap, an undo or a redo is cut short, or the row is
\* created again in between.  A row alone under its key is the one that is logged; of
\* rows that refer to a deleted one nothing is.
NothingLost ==
  \A r \in Rows :
    row[r] = Absent /\ start[r] # Absent /\ (\A x \in Rows : r \notin Along(x)) =>
      \/ Twins(r) \cap forgotten # {}
      \/ \E s \in Sessions : \E i \in DOMAIN log[s] : log[s][i].op = "delete" /\ log[s][i].row \in Twins(r)

\* "Undo the last non-undone operation for the current session": of a session that
\* alone writes, one request at a time, a deletion that stands newest can be taken back.
NewestCanBeUndone ==
  \A s \in Sessions :
    ~Busy(s) /\ Undisturbed(s) =>
      \A i \in Standing(s) :
        (\A j \in Standing(s) : j <= i) /\ log[s][i].op = "delete" => row[log[s][i].row] = Absent
=============================================================================
