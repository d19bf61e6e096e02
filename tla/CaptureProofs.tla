---------------------------- MODULE CaptureProofs ----------------------------
(* For any set of calls and keys, any pool and any crashes: the safety of    *)
(* Capture, and that it implements OncePerKey.                               *)
(*                                                                           *)
(* That two calls are never inside the committer for one key rests on what   *)
(* the guard says of a call that is: its key is still free in the table when *)
(* an open transaction holds it, and claimed when a service does.  Only the  *)
(* owner changes that, so the next one is kept out until it has.             *)
EXTENDS Capture, FiniteSetTheorems, TLAPS

\* A call inside the committer owns its key.
OwnerInv ==
  \A c \in Calls :
    /\ pc[c] # "idle" => key[c] \in Keys
    /\ pc[c] \in InTxn => key[c] \in DbKeys /\ guard[key[c]] = "free"
    /\ pc[c] \in InService => key[c] \in ServiceKeys /\ guard[key[c]] = "claimed"
    /\ pc[c] = "replay" /\ key[c] \in DbKeys => guard[key[c]] = "done"

\* The guard of a key and its result; a DB domain has no claim without one.
GuardInv ==
  \A k \in Keys :
    /\ guard[k] = "done" <=> stored[k] # NoCall
    /\ k \in DbKeys => guard[k] # "claimed"

IInv == TypeOK /\ OwnerInv /\ GuardInv /\ OneAtATime /\ OneRowPerKey /\ DbNeverBusy

USE DEF Keys, InTxn, InService, Ends, Pcs, IsDb, Goto
USE KeysAssumption, NamesAssumption

\* The initial state satisfies the inductive invariant.
LEMMA InitInv == Init => IInv
BY DEF Init, IInv, TypeOK, OwnerInv, GuardInv, OneAtATime, OneRowPerKey, DbNeverBusy

\* A call that starts, waits, replays or fails without touching the guard.
LEMMA QuietInv ==
  ASSUME IInv, NEW c \in Calls,
         \/ \E k \in Keys : Begin(c, k)
         \/ Conflict(c) \/ Replay(c) \/ DbWrite(c) \/ DbRecord(c) \/ DbFail(c)
         \/ SvcAcquire(c) \/ SvcFail(c) \/ Cancel(c)
  PROVE  IInv'
<1> USE DEF IInv
<1>1. ASSUME NEW k \in Keys, Begin(c, k)
      PROVE  IInv'
  BY <1>1 DEF Begin, TypeOK, OwnerInv, GuardInv, OneAtATime, OneRowPerKey, DbNeverBusy
<1>2. CASE Conflict(c)
  BY <1>2 DEF Conflict, Claimable, TypeOK, OwnerInv, GuardInv, OneAtATime, OneRowPerKey, DbNeverBusy
<1>3. CASE Replay(c)
  <2>1. key[c] \in Keys /\ stored[key[c]] \in Calls \cup {NoCall}
    BY <1>3 DEF Replay, TypeOK, OwnerInv
  <2>2. TypeOK'
    BY <1>3, <2>1 DEF Replay, TypeOK
  <2>3. (OwnerInv /\ GuardInv /\ OneAtATime /\ OneRowPerKey)'
    BY <1>3, <2>1 DEF Replay, TypeOK, OwnerInv, GuardInv, OneAtATime, OneRowPerKey
  <2>4. DbNeverBusy'
    BY <1>3, <2>1 DEF Replay, TypeOK, OwnerInv, GuardInv, DbNeverBusy
  <2> QED BY <2>2, <2>3, <2>4
<1>4. CASE DbWrite(c) \/ DbRecord(c)
  BY <1>4 DEF DbWrite, DbRecord, TypeOK, OwnerInv, GuardInv, OneAtATime, OneRowPerKey, DbNeverBusy
<1>5. CASE DbFail(c) \/ SvcFail(c) \/ Cancel(c)
  BY <1>5 DEF DbFail, SvcFail, Cancel, InFlight, TypeOK, OwnerInv, GuardInv, OneAtATime,
              OneRowPerKey, DbNeverBusy
<1>6. CASE SvcAcquire(c)
  BY <1>6 DEF SvcAcquire, TypeOK, OwnerInv, GuardInv, OneAtATime, OneRowPerKey, DbNeverBusy
<1> QED BY <1>1, <1>2, <1>3, <1>4, <1>5, <1>6

\* A claim: nobody else is inside the committer for the key.
LEMMA ClaimInv ==
  ASSUME IInv, NEW c \in Calls, DbClaim(c) \/ SvcClaim(c)
  PROVE  IInv'
<1> USE DEF IInv
<1>1. key[c] \in Keys /\ pc[c] = "claim" /\ guard[key[c]] = "free"
  BY DEF DbClaim, SvcClaim, Claimable, OwnerInv
<1>2. \A d \in Calls : key[d] = key[c] => pc[d] \notin InTxn \cup InService
  BY <1>1 DEF DbClaim, SvcClaim, Claimable, Holders, OwnerInv
<1>3. CASE DbClaim(c)
  BY <1>1, <1>2, <1>3 DEF DbClaim, TypeOK, OwnerInv, GuardInv, OneAtATime, OneRowPerKey, DbNeverBusy
<1>4. CASE SvcClaim(c)
  <2>1. TypeOK' /\ GuardInv' /\ OneRowPerKey' /\ DbNeverBusy'
    BY <1>1, <1>4 DEF SvcClaim, TypeOK, GuardInv, OneRowPerKey, DbNeverBusy
  <2>2. OwnerInv'
    BY <1>1, <1>2, <1>4 DEF SvcClaim, TypeOK, OwnerInv
  <2>3. OneAtATime'
    BY <1>1, <1>2, <1>4 DEF SvcClaim, TypeOK, OneAtATime
  <2> QED BY <2>1, <2>2, <2>3
<1> QED BY <1>3, <1>4

\* The steps of an owner that change the guard or the rows.
LEMMA OwnerStepInv ==
  ASSUME IInv, NEW c \in Calls, DbCommit(c) \/ SvcEffect(c) \/ SvcSave(c) \/ SvcRelease(c)
  PROVE  IInv'
<1> USE DEF IInv
<1>1. CASE DbCommit(c)
  <2>1. key[c] \in DbKeys /\ guard[key[c]] = "free" /\ writes[key[c]] = 0
    BY <1>1 DEF DbCommit, OwnerInv, OneRowPerKey
  <2>2. \A d \in Calls \ {c} : key[d] = key[c] => pc[d] \notin InTxn \cup InService
    BY <1>1 DEF DbCommit, OneAtATime
  <2>3. TypeOK'
    BY <1>1, <2>1 DEF DbCommit, TypeOK
  <2>4. OwnerInv'
    BY <1>1, <2>1, <2>2 DEF DbCommit, TypeOK, OwnerInv
  <2>5. GuardInv' /\ OneRowPerKey'
    BY <1>1, <2>1 DEF DbCommit, TypeOK, GuardInv, OneRowPerKey
  <2>6. OneAtATime' /\ DbNeverBusy'
    BY <1>1 DEF DbCommit, TypeOK, OneAtATime, DbNeverBusy
  <2> QED BY <2>3, <2>4, <2>5, <2>6
<1>2. CASE SvcEffect(c)
  <2>1. key[c] \in ServiceKeys /\ key[c] \notin DbKeys
    BY <1>2 DEF SvcEffect, OwnerInv
  <2>2. TypeOK' /\ OneRowPerKey'
    BY <1>2, <2>1 DEF SvcEffect, TypeOK, OneRowPerKey
  <2>3. OwnerInv' /\ GuardInv' /\ OneAtATime' /\ DbNeverBusy'
    BY <1>2 DEF SvcEffect, TypeOK, OwnerInv, GuardInv, OneAtATime, DbNeverBusy
  <2> QED BY <2>2, <2>3
<1>3. CASE SvcSave(c) \/ SvcRelease(c)
  <2>1. key[c] \in ServiceKeys /\ key[c] \notin DbKeys /\ guard[key[c]] = "claimed"
    BY <1>3 DEF SvcSave, SvcRelease, OwnerInv
  <2>2. \A d \in Calls \ {c} : key[d] = key[c] => pc[d] \notin InTxn \cup InService
    BY <1>3 DEF SvcSave, SvcRelease, OneAtATime
  <2>3. TypeOK'
    BY <1>3, <2>1 DEF SvcSave, SvcRelease, TypeOK
  <2>4. OwnerInv'
    BY <1>3, <2>1, <2>2 DEF SvcSave, SvcRelease, TypeOK, OwnerInv
  <2>5. GuardInv' /\ OneRowPerKey'
    BY <1>3, <2>1 DEF SvcSave, SvcRelease, TypeOK, GuardInv, OneRowPerKey
  <2>6. OneAtATime' /\ DbNeverBusy'
    BY <1>3 DEF SvcSave, SvcRelease, TypeOK, OneAtATime, DbNeverBusy
  <2> QED BY <2>3, <2>4, <2>5, <2>6
<1> QED BY <1>1, <1>2, <1>3

\* A restart keeps the guard table and ends the calls.
LEMMA CrashInv ==
  ASSUME IInv, Crash
  PROVE  IInv'
BY DEF IInv, Crash, InFlight, TypeOK, OwnerInv, GuardInv, OneAtATime, OneRowPerKey, DbNeverBusy

\* The inductive invariant of commit_native holds in every reachable state.
THEOREM Invariant == Spec => []IInv
<1>1. IInv /\ [Next]_vars => IInv'
  <2> SUFFICES ASSUME IInv, [Next]_vars PROVE IInv'
    OBVIOUS
  <2>1. ASSUME NEW c \in Calls, NEW k \in Keys, Begin(c, k)
        PROVE  IInv'
    BY <2>1, QuietInv
  <2>2. ASSUME NEW c \in Calls, Step(c) \/ DbFail(c) \/ SvcFail(c) \/ Cancel(c)
        PROVE  IInv'
    BY <2>2, QuietInv, ClaimInv, OwnerStepInv DEF Step
  <2>3. CASE Crash
    BY <2>3, CrashInv
  <2>4. CASE UNCHANGED vars
    BY <2>4 DEF vars, IInv, TypeOK, OwnerInv, GuardInv, OneAtATime, OneRowPerKey, DbNeverBusy
  <2> QED BY <2>1, <2>2, <2>3, <2>4 DEF Next
<1> QED BY InitInv, <1>1, PTL DEF Spec

\* The variables keep their types: in particular an ok answer always carries the
\* result of some call, never an empty one.
THEOREM TypeCorrect == Spec => []TypeOK
BY Invariant, PTL DEF IInv

\* Replays, duplicates and retries never add a second row to a DB domain.
THEOREM OneRow == Spec => []OneRowPerKey
BY Invariant, PTL DEF IInv

\* The committer runs for a key in one call at a time.
THEOREM Exclusive == Spec => []OneAtATime
BY Invariant, PTL DEF IInv

\* A commit of a DB domain is never answered "already in progress".
THEOREM NeverBusy == Spec => []DbNeverBusy
BY Invariant, PTL DEF IInv

\* After the result of a key is recorded nothing changes it or repeats its effect.
THEOREM Final == Spec => DoneIsFinal
<1>1. IInv /\ [Next]_vars =>
        [\A k \in Keys : guard[k] = "done" =>
           guard'[k] = "done" /\ stored'[k] = stored[k] /\ writes'[k] = writes[k]]_vars
  <2> SUFFICES ASSUME IInv, Next, NEW k \in Keys, guard[k] = "done"
               PROVE  guard'[k] = "done" /\ stored'[k] = stored[k] /\ writes'[k] = writes[k]
    BY DEF vars
  <2>1. ASSUME NEW c \in Calls, pc[c] \in InTxn \cup InService
        PROVE  key[c] # k
    BY <2>1 DEF IInv, OwnerInv
  <2>2. ASSUME NEW c \in Calls, DbCommit(c) \/ SvcEffect(c) \/ SvcSave(c) \/ SvcRelease(c)
        PROVE  guard'[k] = "done" /\ stored'[k] = stored[k] /\ writes'[k] = writes[k]
    BY <2>1, <2>2 DEF DbCommit, SvcEffect, SvcSave, SvcRelease, IInv, TypeOK
  <2>3. ASSUME NEW c \in Calls, SvcClaim(c)
        PROVE  guard'[k] = "done" /\ stored'[k] = stored[k] /\ writes'[k] = writes[k]
    BY <2>3 DEF SvcClaim, IInv, TypeOK
  <2>4. CASE UNCHANGED <<guard, stored, writes>>
    BY <2>4
  <2> QED
    BY <2>2, <2>3, <2>4 DEF Next, Step, Begin, Conflict, Replay, DbClaim, DbWrite, DbRecord,
                            DbFail, SvcAcquire, SvcFail, Cancel, Crash
<1> QED BY <1>1, Invariant, PTL DEF Spec, DoneIsFinal

\* commit_native implements the guard it promises: one result per key, and every
\* ok answer is that result.
THEOREM ImplementsOncePerKey == Spec => OncePerKeySpec
<1>1. Init => Once!Init
  BY DEF Init, Once!Init
<1>2. IInv /\ [Next]_vars => [Once!Next]_<<stored, told>>
  <2> SUFFICES ASSUME IInv, Next, ~UNCHANGED <<stored, told>> PROVE Once!Next
    BY DEF vars
  <2>1. ASSUME NEW c \in Calls, DbCommit(c) \/ SvcSave(c)
        PROVE  key[c] \in Keys /\ Once!Record(key[c], c)
    BY <2>1 DEF DbCommit, SvcSave, IInv, OwnerInv, GuardInv, Once!Record
  <2>2. ASSUME NEW c \in Calls, Replay(c)
        PROVE  key[c] \in Keys /\ Once!Tell(key[c], c)
    BY <2>2 DEF Replay, IInv, OwnerInv, Once!Tell
  <2> QED
    BY <2>1, <2>2 DEF Next, Step, Begin, Conflict, DbClaim, DbWrite, DbRecord, DbFail, SvcClaim,
                      SvcAcquire, SvcEffect, SvcRelease, SvcFail, Cancel, Crash, Once!Next
<1> QED BY <1>1, <1>2, Invariant, PTL DEF Spec, OncePerKeySpec, Once!Spec

-----------------------------------------------------------------------------
(* The pool                                                                  *)

\* A call can run its next statement: no other transaction holds its key, and when
\* it needs a second connection there is one.
CanStep(c) ==
  \/ Claimable(c)
  \/ pc[c] \in {"replay", "effect", "save", "release"} \cup InTxn
  \/ pc[c] = "work" /\ Used < PoolSize

\* The keys that calls have claimed for a service.
Serving == {key[c] : c \in {d \in Calls : pc[d] \in InService}}

\* Not everybody waits for everybody.
NoPoolDeadlock ==
  InFlight # {} /\ Cardinality(Serving) < PoolSize => \E c \in InFlight : CanStep(c)

\* When every call in flight waits for a second connection, as many keys are being
\* served as connections are in use, since no two of the calls have the same key.
LEMMA AllAtWork ==
  ASSUME IInv, IsFiniteSet(Calls), \A c \in InFlight : pc[c] = "work"
  PROVE  Used = Cardinality(Serving)
<1>1. InFlight = {c \in Calls : pc[c] \in InService}
  BY DEF InFlight
<1>2. {c \in Calls : pc[c] = "effect"} = {}
  BY DEF InFlight
<1> DEFINE f == [c \in InFlight |-> key[c]]
<1>3. f \in Surjection(InFlight, Serving)
  BY <1>1 DEF Surjection, Serving
<1>4. f \in Injection(InFlight, Serving)
  <2>1. \A c, d \in InFlight : key[c] = key[d] => c = d
    BY <1>1 DEF IInv, OneAtATime
  <2> QED BY <1>3, <2>1 DEF Injection, IsInjective, Surjection
<1>5. IsFiniteSet(InFlight)
  BY FS_Subset DEF InFlight
<1>6. Cardinality(Serving) = Cardinality(InFlight)
  BY <1>3, <1>4, <1>5, FS_Surjection
<1>7. Cardinality(InFlight) \in Nat
  BY <1>5, FS_CardinalityType
<1> QED BY <1>2, <1>6, <1>7, FS_EmptySet DEF Used

\* A request that runs on a service holds one connection and waits for another.  As
\* long as fewer keys are served at once than the pool has connections, some call in
\* flight can take its next statement, however many calls there are and whatever
\* they wait for: a replay or a DB domain never closes the circle.
THEOREM PoolNeverDeadlocks ==
  ASSUME IsFiniteSet(Calls), PoolSize \in Nat
  PROVE  Spec => []NoPoolDeadlock
<1>1. IInv => NoPoolDeadlock
  <2> SUFFICES ASSUME IInv, InFlight # {}, Cardinality(Serving) < PoolSize,
                      \A c \in InFlight : ~CanStep(c)
               PROVE  FALSE
    BY DEF NoPoolDeadlock
  <2>1. \A c \in Calls : pc[c] \in InTxn => c \in InFlight
    BY DEF InFlight
  <2>2. \A k : Holders(k) = {}
    BY <2>1 DEF Holders, CanStep
  <2>3. \A c \in InFlight : pc[c] = "work"
    BY <2>2 DEF IInv, TypeOK, InFlight, CanStep, Claimable
  <2>4. Used < PoolSize
    BY <2>3, AllAtWork
  <2> QED BY <2>3, <2>4 DEF CanStep
<1> QED BY <1>1, Invariant, PTL

-----------------------------------------------------------------------------
(* The owner of a claim                                                      *)

\* No call is cancelled or dies with the process, no claim is made that its caller
\* does not hear of, and no statement that settles a claim fails.
NobodyLost ==
  [][\A c \in Calls :
       /\ pc'[c] = "gone" => pc[c] = "gone"
       /\ SvcClaim(c) => pc'[c] = "work"
       /\ SvcFail(c) => pc[c] \in {"claim", "replay"}]_vars

\* "Release the guard so a retry can proceed": whatever the service answers, and
\* however many duplicates, replays and refusals there are, a claim without a result
\* belongs to a call at work.  What run capture_claim finds needs a cancelled call, a
\* restart, or a statement on the guard that fails.
THEOREM ClaimKeepsOwner == Spec /\ NobodyLost => []ClaimHasOwner
<1> DEFINE Undisturbed == \A c \in Calls : /\ pc'[c] = "gone" => pc[c] = "gone"
                                           /\ SvcClaim(c) => pc'[c] = "work"
                                           /\ SvcFail(c) => pc[c] \in {"claim", "replay"}
<1>1. Init => ClaimHasOwner
  BY DEF Init, ClaimHasOwner
<1>2. IInv /\ ClaimHasOwner /\ [Next]_vars /\ [Undisturbed]_vars => ClaimHasOwner'
  <2> SUFFICES ASSUME IInv, ClaimHasOwner, Next, Undisturbed, NEW k \in Keys, guard'[k] = "claimed"
               PROVE  \E c \in Calls : key'[c] = k /\ pc'[c] \in InService
    BY DEF ClaimHasOwner, vars
  <2>1. ASSUME NEW c \in Calls, SvcClaim(c), key[c] = k
        PROVE  key'[c] = k /\ pc'[c] \in InService
    BY <2>1 DEF SvcClaim
  <2>2. ASSUME guard[k] = "claimed"
        PROVE  \E c \in Calls : key'[c] = k /\ pc'[c] \in InService
    <3>1. PICK o \in Calls : key[o] = k /\ pc[o] \in InService
      BY <2>2 DEF ClaimHasOwner
    <3>2. ASSUME NEW c \in Calls, \/ \E j \in Keys : Begin(c, j)
                                  \/ Step(c) \/ DbFail(c) \/ SvcFail(c) \/ Cancel(c)
          PROVE  key'[o] = k /\ pc'[o] \in InService
      <4>1. CASE c # o
        BY <3>1, <3>2, <4>1 DEF Begin, Step, Conflict, Replay, DbClaim, DbWrite, DbRecord, DbCommit,
           SvcClaim, SvcAcquire, SvcEffect, SvcSave, SvcRelease, DbFail, SvcFail, Cancel, IInv, TypeOK
      <4>2. CASE c = o
        <5>1. ~SvcSave(o) /\ ~SvcRelease(o)
          BY <2>2, <3>1 DEF SvcSave, SvcRelease, IInv, TypeOK
        <5>2. ~SvcFail(o) /\ ~Cancel(o)
          BY <3>1 DEF SvcFail, Cancel, IInv, TypeOK
        <5>3. SvcAcquire(o) \/ SvcEffect(o)
          BY <3>1, <3>2, <4>2, <5>1, <5>2 DEF Begin, Step, Conflict, Replay, Claimable, DbClaim, DbWrite,
             DbRecord, DbCommit, SvcClaim, DbFail
        <5> QED BY <3>1, <5>3 DEF SvcAcquire, SvcEffect, IInv, TypeOK
      <4> QED BY <4>1, <4>2
    <3>3. ~Crash
      BY <3>1 DEF Crash, InFlight
    <3> QED BY <3>2, <3>3 DEF Next
  <2>3. ASSUME guard[k] # "claimed"
        PROVE  \E c \in Calls : SvcClaim(c) /\ key[c] = k
    BY <2>3 DEF Next, Begin, Step, Conflict, Replay, DbClaim, DbWrite, DbRecord, DbCommit,
       SvcClaim, SvcAcquire, SvcEffect, SvcSave, SvcRelease, DbFail, SvcFail, Cancel, Crash, IInv, TypeOK
  <2> QED BY <2>1, <2>2, <2>3
<1> QED BY <1>1, <1>2, Invariant, PTL DEF Spec, NobodyLost

-----------------------------------------------------------------------------
(* The way of a call                                                         *)

Place(p) ==
  CASE p = "idle" -> 0
    [] p = "claim" -> 1
    [] p \in {"write", "work"} -> 2
    [] p \in {"record", "effect"} -> 3
    [] p \in {"replay", "commit", "save", "release"} -> 4
    [] OTHER -> 5

LEMMA PlaceIs ==
  /\ Place("idle") = 0 /\ Place("claim") = 1
  /\ Place("write") = 2 /\ Place("work") = 2 /\ Place("record") = 3 /\ Place("effect") = 3
  /\ \A p \in {"replay", "commit", "save", "release"} : Place(p) = 4
  /\ \A p \in Ends : Place(p) = 5
  /\ \A p \in Pcs : Place(p) \in 0 .. 5
BY DEF Place

LEMMA StepAdvances ==
  ASSUME IInv, NEW c \in Calls, Step(c)
  PROVE  Place(pc[c]) < Place(pc'[c])
<1>1. pc \in [Calls -> Pcs]
  BY DEF IInv, TypeOK
<1>2. CASE Conflict(c) \/ Replay(c)
  BY <1>1, <1>2, PlaceIs DEF Conflict, Replay, Claimable
<1>3. CASE DbClaim(c) \/ DbWrite(c) \/ DbRecord(c) \/ DbCommit(c)
  BY <1>1, <1>3, PlaceIs DEF DbClaim, DbWrite, DbRecord, DbCommit, Claimable
<1>4. CASE SvcClaim(c) \/ SvcAcquire(c) \/ SvcEffect(c)
  BY <1>1, <1>4, PlaceIs DEF SvcClaim, SvcAcquire, SvcEffect, Claimable
<1>5. CASE SvcSave(c) \/ SvcRelease(c)
  BY <1>1, <1>5, PlaceIs DEF SvcSave, SvcRelease
<1> QED BY <1>2, <1>3, <1>4, <1>5 DEF Step

\* A statement always brings its call forward and nothing sends a call back: of
\* CallsEnd this is the part that does not depend on fairness, as no call loops.
THEOREM CallsAdvance ==
  Spec => [][\A c \in Calls : /\ Place(pc[c]) <= Place(pc'[c])
                              /\ Step(c) => Place(pc[c]) < Place(pc'[c])]_vars
<1>1. ASSUME IInv, Next, NEW c \in Calls
      PROVE  Place(pc[c]) <= Place(pc'[c]) /\ (Step(c) => Place(pc[c]) < Place(pc'[c]))
  <2>1. pc \in [Calls -> Pcs]
    BY <1>1 DEF IInv, TypeOK
  <2>2. Place(pc[c]) \in 0 .. 5
    BY <2>1, PlaceIs
  <2>3. CASE Step(c)
    <3>1. Place(pc[c]) < Place(pc'[c])
      BY <1>1, <2>3, StepAdvances
    <3>2. pc'[c] \in Pcs
      BY <2>1, <2>3 DEF Step, Conflict, Replay, DbClaim, DbWrite, DbRecord, DbCommit, SvcClaim,
         SvcAcquire, SvcEffect, SvcSave, SvcRelease
    <3>3. Place(pc'[c]) \in 0 .. 5
      BY <3>2, PlaceIs
    <3> QED BY <2>2, <3>1, <3>3
  <2>4. CASE ~Step(c)
    <3>1. \/ pc'[c] = pc[c]
          \/ pc'[c] \in Ends
          \/ pc[c] = "idle" /\ pc'[c] = "claim"
      <4>1. ASSUME NEW d \in Calls, \/ \E j \in Keys : Begin(d, j)
                                    \/ DbFail(d) \/ SvcFail(d) \/ Cancel(d)
            PROVE  pc'[c] = pc[c] \/ pc'[c] \in Ends \/ (pc[c] = "idle" /\ pc'[c] = "claim")
        BY <2>1, <4>1 DEF Begin, DbFail, SvcFail, Cancel
      <4>2. ASSUME NEW d \in Calls, Step(d)
            PROVE  pc'[c] = pc[c]
        <5>1. d # c
          BY <2>4, <4>2
        <5> QED BY <2>1, <4>2, <5>1 DEF Step, Conflict, Replay, DbClaim, DbWrite, DbRecord, DbCommit,
               SvcClaim, SvcAcquire, SvcEffect, SvcSave, SvcRelease
      <4>3. CASE Crash
        BY <2>1, <4>3 DEF Crash
      <4> QED BY <1>1, <4>1, <4>2, <4>3 DEF Next
    <3> QED BY <2>2, <2>4, <3>1, PlaceIs
  <2> QED BY <2>3, <2>4
<1>2. IInv /\ [Next]_vars =>
        [\A c \in Calls : /\ Place(pc[c]) <= Place(pc'[c])
                          /\ Step(c) => Place(pc[c]) < Place(pc'[c])]_vars
  BY <1>1
<1> QED BY <1>2, Invariant, PTL DEF Spec
=============================================================================
