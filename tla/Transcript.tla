----------------------------- MODULE Transcript -----------------------------
(* What the chat history promises, whatever the tasks behind it do: the row  *)
(* of a message is stored once, and after it at most one assistant row,      *)
(* either the reply or the "_(response cancelled)_" marker.  Rows are only   *)
(* ever appended.  ChatTasks is shown to implement this specification.       *)
EXTENDS Sequences

CONSTANT Msgs                           \* one element per message a user sent

VARIABLE rows                           \* rows[m]: the stored rows caused by m

Init == rows = [m \in Msgs |-> <<>>]

Store(m, kind) == rows' = [rows EXCEPT ![m] = Append(@, kind)]

Ask(m) == rows[m] = <<>> /\ Store(m, "user")

Answer(m) == rows[m] = <<"user">> /\ \E kind \in {"reply", "cancelled"} : Store(m, kind)

Next == \E m \in Msgs : Ask(m) \/ Answer(m)

Spec == Init /\ [][Next]_rows
=============================================================================
