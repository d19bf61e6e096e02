--------------------------- MODULE MCStreamFanout ---------------------------
(* Three devices and two concurrent events, all interchangeable.             *)
EXTENDS StreamFanout, TLC

Symmetry == Permutations(Sockets) \cup Permutations(Events)

Lists == UNION {[1 .. n -> Sockets] : n \in 0 .. 3}

\* Without is what removing the sockets one by one leaves.
ASSUME WithoutIsRemoval ==
  \A list \in Lists, gone \in SUBSET Sockets :
    Without(list, gone) = SelectSeq(list, LAMBDA s : s \notin gone)
=============================================================================
