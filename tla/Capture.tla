------------------------------- MODULE Capture ------------------------------
(* commit_native (backend/services/smart_capture/commit.py): concurrent and  *)
(* repeated commits of the same extracted intent.  A key of bh_smart_        *)
(* capture_commits is claimed before the committer runs.  For a DB domain    *)
(* the claim, the row and the result are one transaction; for a domain       *)
(* served by another service each is a statement of its own.  run_commit     *)
(* holds a pool connection for the whole call and the service takes another. *)
EXTENDS Naturals, FiniteSets

CONSTANTS DbKeys, ServiceKeys,          \* dedup keys, by the kind of their domain
          Calls,                        \* requests, retries included
          NoCall, NoKey,
          PoolSize,                     \* max_size of the asyncpg pool
          MayCrash                      \* the process may die and restart

ASSUME KeysAssumption == DbKeys \cap ServiceKeys = {}
ASSUME NamesAssumption == NoCall \notin Calls /\ NoKey \notin DbKeys \cup ServiceKeys

Keys == DbKeys \cup ServiceKeys

VARIABLES
  pc,                                   \* the statement a call is about to run, or its end
  key,                                  \* the dedup key of a call
  guard,                                \* free: no committed row; claimed: no result; done
  stored,                               \* the call whose result the row of a key has
  writes,                               \* rows inserted, or effects of the service, per key
  told                                  \* <<c, k, w>>: c answered ok, for key k, with w's result

vars == <<pc, key, guard, stored, writes, told>>

InTxn == {"write", "record", "commit"}             \* holds the uncommitted row
InService == {"work", "effect", "save", "release"} \* claimed the key, not done with it
Ends == {"ok", "failed", "busy", "gone"}           \* gone: cancelled or crashed
Pcs == {"idle", "claim", "replay"} \cup InTxn \cup InService \cup Ends

Init ==
  /\ pc = [c \in Calls |-> "idle"]
  /\ key = [c \in Calls |-> NoKey]
  /\ guard = [k \in Keys |-> "free"]
  /\ stored = [k \in Keys |-> NoCall]
  /\ writes = [k \in Keys |-> 0]
  /\ told = {}

InFlight == {c \in Calls : pc[c] \notin Ends \cup {"idle"}}

\* Mutant: the connection of a call that has ended is not given back.
Used_Leaks == Cardinality({c \in Calls : pc[c] # "idle"}) + Cardinality({c \in Calls : pc[c] = "effect"})

Used == Cardinality(InFlight) + Cardinality({c \in Calls : pc[c] = "effect"})
Holders(k) == {c \in Calls : key[c] = k /\ pc[c] \in InTxn}
IsDb(c) == key[c] \in DbKeys
Goto(c, p) == pc' = [pc EXCEPT ![c] = p]

-----------------------------------------------------------------------------
(* Every domain                                                              *)

\* run_commit, and verify: an expired or foreign token is refused.
Begin(c, k) ==
  /\ pc[c] = "idle"
  /\ Used < PoolSize
  /\ key' = [key EXCEPT ![c] = k]
  /\ \E valid \in BOOLEAN : Goto(c, IF valid THEN "claim" ELSE "failed")
  /\ UNCHANGED <<guard, stored, writes, told>>

\* Mutant: the table has no unique key, so the INSERT waits for nobody.
Claimable_NoWait(c) == pc[c] = "claim"

\* INSERT ... ON CONFLICT DO NOTHING waits for a transaction that inserted the key.
Claimable(c) == pc[c] = "claim" /\ Holders(key[c]) = {}

\* No row was inserted: read what the earlier commit left.
Conflict(c) ==
  /\ Claimable(c)
  /\ guard[key[c]] # "free"
  /\ Goto(c, "replay")
  /\ UNCHANGED <<key, guard, stored, writes, told>>

\* Mutant: a replay answers ok without looking for the result.
Replay_Ok(c) ==
  /\ pc[c] = "replay"
  /\ Goto(c, "ok")
  /\ told' = told \cup {<<c, key[c], stored[key[c]]>>}
  /\ UNCHANGED <<key, guard, stored, writes>>

\* _replay: the stored result, or "duplicate commit already in progress".
Replay(c) ==
  /\ pc[c] = "replay"
  /\ IF stored[key[c]] # NoCall
       THEN Goto(c, "ok") /\ told' = told \cup {<<c, key[c], stored[key[c]]>>}
       ELSE Goto(c, "busy") /\ UNCHANGED told
  /\ UNCHANGED <<key, guard, stored, writes>>

-----------------------------------------------------------------------------
(* A DB domain: one transaction, whose writes appear when it commits.        *)

\* Mutant: the claim ignores a committed row.
DbClaim_Again(c) ==
  /\ Claimable(c) /\ IsDb(c)
  /\ Goto(c, "write")
  /\ UNCHANGED <<key, guard, stored, writes, told>>

DbClaim(c) ==
  /\ Claimable(c) /\ IsDb(c)
  /\ guard[key[c]] = "free"
  /\ Goto(c, "write")
  /\ UNCHANGED <<key, guard, stored, writes, told>>

\* Mutant: the claim is committed on its own, before the row.
DbWrite_ClaimsFirst(c) ==
  /\ pc[c] = "write" /\ Goto(c, "record")
  /\ guard' = [guard EXCEPT ![key[c]] = "claimed"]
  /\ UNCHANGED <<key, stored, writes, told>>

\* The committer inserts the row and its asset link.
DbWrite(c) ==
  /\ pc[c] = "write" /\ Goto(c, "record")
  /\ UNCHANGED <<key, guard, stored, writes, told>>

DbRecord(c) ==
  /\ pc[c] = "record" /\ Goto(c, "commit")
  /\ UNCHANGED <<key, guard, stored, writes, told>>

\* Mutant: the transaction ends before the result is stored with the claim.
DbCommit_NoResult(c) ==
  /\ pc[c] = "commit" /\ Goto(c, "ok")
  /\ guard' = [guard EXCEPT ![key[c]] = "done"]
  /\ writes' = [writes EXCEPT ![key[c]] = @ + 1]
  /\ told' = told \cup {<<c, key[c], c>>}
  /\ UNCHANGED <<key, stored>>

\* COMMIT; the connection may break, or the call be cancelled, before it is heard.
DbCommit(c) ==
  /\ pc[c] = "commit"
  /\ guard' = [guard EXCEPT ![key[c]] = "done"]
  /\ stored' = [stored EXCEPT ![key[c]] = c]
  /\ writes' = [writes EXCEPT ![key[c]] = @ + 1]
  /\ \/ Goto(c, "ok") /\ told' = told \cup {<<c, key[c], c>>}
     \/ \E end \in {"failed", "gone"} : Goto(c, end) /\ UNCHANGED told
  /\ UNCHANGED key

\* The committer refuses, or a statement raises: everything is rolled back.
DbFail(c) ==
  /\ IsDb(c) /\ pc[c] \in {"claim", "replay"} \cup InTxn
  /\ Goto(c, "failed")
  /\ UNCHANGED <<key, guard, stored, writes, told>>

-----------------------------------------------------------------------------
(* A domain served by another service: statements that commit one by one.    *)

\* The claim stays even when its caller does not live to see it.
SvcClaim(c) ==
  /\ Claimable(c) /\ ~IsDb(c)
  /\ guard[key[c]] = "free"
  /\ guard' = [guard EXCEPT ![key[c]] = "claimed"]
  /\ Goto(c, "work") \/ Goto(c, "failed") \/ Goto(c, "gone")
  /\ UNCHANGED <<key, stored, writes, told>>

\* list_router, knowledge_graph: a second connection of the same pool.
SvcAcquire(c) ==
  /\ pc[c] = "work"
  /\ Used < PoolSize
  /\ Goto(c, "effect")
  /\ UNCHANGED <<key, guard, stored, writes, told>>

\* The committer returns, refuses or raises, or is cancelled, its effect made or
\* not: an ok result may also mean that the service knew the fact already.
SvcEffect(c) ==
  /\ pc[c] = "effect"
  /\ Goto(c, "save") \/ Goto(c, "release") \/ Goto(c, "gone")
  /\ \E n \in {0, 1} : writes' = [writes EXCEPT ![key[c]] = @ + n]
  /\ UNCHANGED <<key, guard, stored, told>>

\* UPDATE ... SET result_json; the answer may be lost afterwards.
SvcSave(c) ==
  /\ pc[c] = "save"
  /\ guard' = [guard EXCEPT ![key[c]] = "done"]
  /\ stored' = [stored EXCEPT ![key[c]] = c]
  /\ \/ Goto(c, "ok") /\ told' = told \cup {<<c, key[c], c>>}
     \/ \E end \in {"failed", "gone"} : Goto(c, end) /\ UNCHANGED told
  /\ UNCHANGED <<key, writes>>

\* DELETE ... WHERE dedup_key = $1 AND result_json IS NULL.
SvcRelease(c) ==
  /\ pc[c] = "release"
  /\ guard' = [guard EXCEPT ![key[c]] = IF @ = "claimed" THEN "free" ELSE @]
  /\ Goto(c, "failed") \/ Goto(c, "gone")
  /\ UNCHANGED <<key, stored, writes, told>>

\* A statement on the guard raises: no handler of commit_native sees it.
SvcFail(c) ==
  /\ ~IsDb(c) /\ pc[c] \in {"claim", "replay", "save", "release"}
  /\ Goto(c, "failed")
  /\ UNCHANGED <<key, guard, stored, writes, told>>

-----------------------------------------------------------------------------
\* "cancel" in the chat, or a closed HTTP request: CancelledError passes every
\* `except Exception`; an open transaction is rolled back, a claim stays.
Cancel(c) ==
  /\ c \in InFlight
  /\ Goto(c, "gone")
  /\ UNCHANGED <<key, guard, stored, writes, told>>

\* The process dies: every call with it.  The guard table remains.
Crash ==
  /\ MayCrash /\ InFlight # {}
  /\ pc' = [c \in Calls |-> IF c \in InFlight THEN "gone" ELSE pc[c]]
  /\ UNCHANGED <<key, guard, stored, writes, told>>

Step(c) ==
  \/ Conflict(c) \/ Replay(c)
  \/ DbClaim(c) \/ DbWrite(c) \/ DbRecord(c) \/ DbCommit(c)
  \/ SvcClaim(c) \/ SvcAcquire(c) \/ SvcEffect(c) \/ SvcSave(c) \/ SvcRelease(c)

Next ==
  \/ \E c \in Calls, k \in Keys : Begin(c, k)
  \/ \E c \in Calls : Step(c) \/ DbFail(c) \/ SvcFail(c) \/ Cancel(c)
  \/ Crash

Spec == Init /\ [][Next]_vars

\* Statements and services answer, or fail by a timeout; a freed connection and
\* a released row lock reach the calls that wait.  Nobody has to make a call.
FairSpec == Spec /\ \A c \in Calls : WF_vars(Step(c))

-----------------------------------------------------------------------------
(* Properties                                                                *)

TypeOK ==
  /\ pc \in [Calls -> Pcs]
  /\ key \in [Calls -> Keys \cup {NoKey}]
  /\ guard \in [Keys -> {"free", "claimed", "done"}]
  /\ stored \in [Keys -> Calls \cup {NoCall}]
  /\ writes \in [Keys -> Nat]
  /\ told \subseteq Calls \X Keys \X Calls

\* A replay, a concurrent duplicate and a retry after a crash or a lost answer
\* add no second row to a DB domain, and the row is there exactly when the
\* guard says so ("the guard row, the write, and the result-record are one
\* transaction").
OneRowPerKey == \A k \in DbKeys : writes[k] = IF guard[k] = "done" THEN 1 ELSE 0

\* No two calls are inside the committer for one key, whatever the domain.
OneAtATime ==
  \A c, d \in Calls :
    key[c] = key[d] /\ pc[c] \in InTxn \cup InService /\ pc[d] \in InTxn \cup InService
      => c = d

\* A commit of a DB domain is never turned away as "already in progress": its
\* claim waits for the other transaction and finds either nothing or a result.
DbNeverBusy == \A c \in Calls : pc[c] = "busy" => ~IsDb(c)

\* A recorded result ends the story of its key: no later call, late release or
\* late save changes it or makes the effect again.
DoneIsFinal ==
  [][\A k \in Keys : guard[k] = "done" =>
       guard'[k] = "done" /\ stored'[k] = stored[k] /\ writes'[k] = writes[k]]_vars

\* Every call is answered, while there are more connections than service keys in
\* use: with as many, each holds one and waits for its second for ever.
CallsEnd == \A c \in Calls : (pc[c] = "claim") ~> (pc[c] \in Ends)

\* One result per key, and every ok answer for the key is that result.
Once == INSTANCE OncePerKey
OncePerKeySpec == Once!Spec

\* What "duplicate commit already in progress" tells the caller, and what the
\* comment "release the guard so a retry can proceed" is for: a claim without a
\* result belongs to a call that is still working on it.
ClaimHasOwner ==
  \A k \in Keys : guard[k] = "claimed" => \E c \in Calls : key[c] = k /\ pc[c] \in InService
=============================================================================
