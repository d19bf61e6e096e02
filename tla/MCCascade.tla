------------------------------ MODULE MCCascade ------------------------------
(* Two overlapping runs, a request that applies a category to a merchant and *)
(* every other edit by a person; at most two of the three are in flight at   *)
(* once.  Transfers are answered on both sides of their threshold, rules and *)
(* merchant memory above theirs, nearest neighbours below; the llm tier      *)
(* abstains, its answers being more of the same.  All five tiers, on both    *)
(* sides of their thresholds, are in PipelineIsTheLoop.                      *)
EXTENDS Cascade, TLC

MCMerchant == [t \in Txns |-> CHOOSE m \in Merchants : TRUE]
MCThreshold == [transfer |-> 90, rule |-> 100, merchant_memory |-> 80, embedding_knn |-> 70, llm |-> 60]
MCConf == [transfer |-> {50, 98}, rule |-> {100}, merchant_memory |-> {85},
           embedding_knn |-> {65}, llm |-> {}]

\* The loop over the tiers as the program has it, one decision at a time.
PipelineLoop(ds) ==
  LET f[i \in 0 .. Len(ds)] ==
        IF i = 0 THEN [stop |-> FALSE, d |-> Abstain]
        ELSE LET s == f[i - 1]
                 d == ds[i]
             IN IF s.stop THEN s
                ELSE IF Stops(d) THEN [stop |-> TRUE, d |-> d]
                ELSE IF d.cat # NoCat /\ (s.d.cat = NoCat \/ d.conf > s.d.conf) THEN [stop |-> FALSE, d |-> d]
                ELSE s
      s == f[Len(ds)]
  IN [d |-> s.d, auto |-> s.stop /\ Clears(s.d)]

\* What the pipeline is said to return is what the loop computes.
Given(tier, confs) == {Abstain} \cup {Decision(tier, c, p, FALSE, tier = "rule") : c \in Cats, p \in confs}
ASSUME PipelineIsTheLoop ==
  \A a \in Answers("transfer"), b \in Given("rule", {90, 100}), c \in Given("merchant_memory", {65, 85}),
     d \in Given("embedding_knn", {65, 75}), e \in Given("llm", {50, 65, 90}) :
       Pipeline(<<a, b, c, d, e>>) = PipelineLoop(<<a, b, c, d, e>>)

MCBound ==
  Cardinality({r \in Runs : run[r].pc # "idle"}) + Cardinality({k \in Requests : bulk[k].pc # "idle"}) <= 2

Symmetry == Permutations(Txns) \cup Permutations(Cats) \cup Permutations(Runs)
=============================================================================
