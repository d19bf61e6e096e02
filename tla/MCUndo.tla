------------------------------- MODULE MCUndo -------------------------------
(* One session whose requests may overlap, beside another that makes fewer   *)
(* changes.  Of the rows, one is alone under its key and another refers to   *)
(* it; the latter shares its first key column with a third.                  *)
EXTENDS Undo, FiniteSets, TLC

CONSTANTS s1, s2, h1, h2, h3, parent, child, twin, Most, Fewer, a, d

MCCaller == [h \in Handlers |-> IF h = h3 THEN s2 ELSE s1]
MCKey == [r \in Rows |-> IF r = twin THEN child ELSE r]
MCReferrers == [r \in Rows |-> IF r = parent THEN Rows \cap {child} ELSE {}]

MCPatches == {[c \in {a, d} |-> Null]}
MCPlainPatches == {[c \in {a} |-> Null], [c \in {a} |-> 1]}

MCMaxLog == [s \in Sessions |-> IF s = s1 THEN Most ELSE Fewer]

\* All rows are there at the start, with a date where a row has a twin only.
MCInit ==
  Init /\ row = [r \in Rows |-> [c \in Cols |-> IF c \notin StampCols THEN 0 ELSE IF r = twin THEN Stamp ELSE Null]]
MCSpec == MCInit /\ [][Next]_vars

\* Bound: one of the following in any behaviour: a write from outside, requests of the
\* second session, requests of a session that overlap, an undo or redo that is not
\* marked, a page that is left.
Second == s2 \in Sessions /\ (req[h3] # None \/ log[s2] # <<>> \/ s2 \in writers)
Disturbances ==
  Cardinality(overlapped) + Cardinality(closed)
    + Cardinality({b \in {1, 2, 3} : <<cut, Outside \in writers, Second>>[b]})
MCBound == Disturbances <= 1 /\ Len(log[s1]) + (IF Second THEN Len(log[s2]) ELSE 0) <= 2

Symmetry == Permutations({h1, h2})
=============================================================================
