----------------------------- MODULE OncePerKey -----------------------------
(* What the idempotency guard of smart capture promises: a key gets at most  *)
(* one recorded result, and whoever is told that the commit of a key went    *)
(* well is told that result.  Capture is shown to implement it.              *)
CONSTANTS Keys, Calls, NoCall

VARIABLES stored,                       \* stored[k]: the call whose result k has
          told                          \* <<c, k, w>>: c was told the result of w for k

Init == stored = [k \in Keys |-> NoCall] /\ told = {}

\* The call that records the result may not live to answer with it.
Record(k, c) ==
  /\ stored[k] = NoCall
  /\ stored' = [stored EXCEPT ![k] = c]
  /\ told' \in {told, told \cup {<<c, k, c>>}}

Tell(k, c) ==
  /\ stored[k] # NoCall
  /\ told' = told \cup {<<c, k, stored[k]>>}
  /\ UNCHANGED stored

Next == \E k \in Keys, c \in Calls : Record(k, c) \/ Tell(k, c)

Spec == Init /\ [][Next]_<<stored, told>>
=============================================================================
