---------------------------- MODULE MCEmbedding ----------------------------
(* Two lists, which can be edited, archived, restored and deleted, and       *)
(* batches of one: the second waits for the first.                          *)
EXTENDS Embedding

MCItems == {1, 2}
MCKinds == <<"list">>
MCKindOf == [i \in MCItems |-> "list"]
=============================================================================
