-------------------------- MODULE StreamFanoutProofs --------------------------
(* For any finite or infinite sets of connections and events: the safety of  *)
(* StreamFanout.                                                             *)
(*                                                                           *)
(* AtMostOnce is not inductive: it does not say that who was sent an event   *)
(* is behind the place the walk has come to.  WalkInv does, and it survives  *)
(* a removal because sockets only ever move towards the front (WithoutIs).   *)
EXTENDS StreamFanout, TLAPS, FiniteSetTheorems, SequenceTheorems

Walks == [pc : {"idle", "send", "done", "aborted"}, gen : Nat, next : Nat \ {0},
          ws : SUBSET Sockets, dead : SUBSET Sockets, start : SUBSET Sockets]

\* What a walk still has to visit: the places from next on of the list it holds.
Ahead(w) == {i \in DOMAIN conns : w.gen = gen /\ w.next <= i}

SockInv(e) ==
  \A s \in Sockets :
    /\ got[e][s] > 0 => sock[s] # "new" /\ walk[e].pc # "idle"
    /\ s \in walk[e].ws => sock[s] # "new"
    /\ s \in walk[e].dead => sock[s] \in {"lost", "ended"}

\* Nobody who is ahead of a walk was sent the event, nor is being sent it.
WalkInv(e) ==
  walk[e].pc = "send" =>
    /\ walk[e].gen <= gen
    /\ \E s \in Sockets : walk[e].ws = {s} /\ got[e][s] = 0
    /\ \A i \in Ahead(walk[e]) : got[e][conns[i]] = 0 /\ conns[i] \notin walk[e].ws

\* Who was listed at the start is done with, or still to come.
StartInv(e) ==
  walk[e].pc = "send" /\ ~disturbed[e] =>
    /\ walk[e].gen = gen
    /\ \A s \in walk[e].start :
         \/ got[e][s] = 1
         \/ s \in walk[e].dead \cup walk[e].ws
         \/ \E i \in Ahead(walk[e]) : conns[i] = s

Once(e) == \A s \in Sockets : got[e][s] <= 1

Complete(e) ==
  walk[e].pc = "done" /\ ~disturbed[e] =>
    \A s \in walk[e].start : got[e][s] = 1 \/ s \in walk[e].dead

Sound(e) == SockInv(e) /\ WalkInv(e) /\ StartInv(e) /\ Once(e) /\ Complete(e)

IInv == TypeOK /\ ListIsExact /\ \A e \in Events : Sound(e)

-----------------------------------------------------------------------------
(* The list that is left.                                                    *)

\* The members of a set of numbers are the first, the second, ... of it, and the
\* j-th of them is no smaller than j.
LEMMA PlacesAreFilled ==
  ASSUME NEW n \in Nat, NEW kept \in SUBSET (1 .. n)
  PROVE  /\ IsFiniteSet(kept) /\ Cardinality(kept) \in Nat /\ Cardinality(kept) <= n
         /\ \A i \in kept : Cardinality({k \in kept : k <= i}) \in 1 .. Cardinality(kept)
         /\ \A i \in kept : Cardinality({k \in kept : k <= i}) <= i
         /\ \A j \in 1 .. Cardinality(kept) :
              \E i \in kept : Cardinality({k \in kept : k <= i}) = j
         /\ \A i, l \in kept :
              Cardinality({k \in kept : k <= i}) = Cardinality({k \in kept : k <= l}) => i = l
<1> DEFINE Upto(i) == {k \in kept : k <= i}
           Place == [i \in kept |-> Cardinality(Upto(i))]
           c == Cardinality(kept)
<1>1. /\ IsFiniteSet(1 .. n) /\ Cardinality(1 .. n) = n
      /\ \A k \in kept : k \in Nat /\ 1 <= k
  BY FS_Interval
<1>2. IsFiniteSet(kept) /\ c \in Nat /\ c <= n
  BY <1>1, FS_Subset, FS_CardinalityType
<1>3. ASSUME NEW i \in kept
      PROVE  /\ IsFiniteSet(Upto(i)) /\ Cardinality(Upto(i)) \in 1 .. c
             /\ Cardinality(Upto(i)) <= i
  <2>1. Upto(i) \in SUBSET kept /\ Upto(i) # {} /\ i \in Nat /\ i \in Int /\ 1 \in Int
    BY <1>1
  <2>2. IsFiniteSet(Upto(i)) /\ Cardinality(Upto(i)) <= c /\ Cardinality(Upto(i)) \in Nat
    BY <1>2, <2>1, FS_Subset, FS_CardinalityType
  <2>3. Cardinality(Upto(i)) # 0
    BY <2>1, <2>2, FS_EmptySet
  <2>4. IsFiniteSet(1 .. i) /\ Cardinality(1 .. i) = i
    BY <2>1, FS_Interval
  <2>5. Upto(i) \in SUBSET (1 .. i)
    <3>1. \A k \in Upto(i) : k \in Nat /\ 1 <= k /\ k <= i
      BY <1>1
    <3>2. \A k \in Upto(i) : k \in 1 .. i
      BY <2>1, <3>1
    <3> QED
      BY <3>2
  <2>6. Cardinality(Upto(i)) <= i
    BY <2>4, <2>5, FS_Subset
  <2> QED
    BY <1>2, <2>2, <2>3, <2>6
<1>4. ASSUME NEW i \in kept, NEW k \in kept, i < k
      PROVE  Cardinality(Upto(i)) # Cardinality(Upto(k))
  <2>1. \A l \in kept : l <= i => l <= k
    BY <1>1, <1>4
  <2>2. k <= k /\ ~(k <= i)
    BY <1>1, <1>4
  <2>3. Upto(i) \in SUBSET Upto(k) /\ k \in Upto(k) /\ k \notin Upto(i)
    BY <2>1, <2>2
  <2> QED
    BY <1>3, <2>3, FS_Subset
<1>5. Place \in Injection(kept, 1 .. c)
  <2>1. Place \in [kept -> 1 .. c]
    BY <1>3
  <2>2. ASSUME NEW i \in kept, NEW k \in kept, Place[i] = Place[k]  PROVE  i = k
    <3>1. i \in Nat /\ k \in Nat
      BY <1>1
    <3>2. i < k \/ k < i \/ i = k
      BY <3>1
    <3> QED
      BY <1>4, <2>2, <3>2
  <2> QED
    BY <2>1, <2>2 DEF Injection, IsInjective
<1>6. IsFiniteSet(1 .. c) /\ Cardinality(1 .. c) = c
  BY <1>2, FS_Interval
<1>7. Place \in Surjection(kept, 1 .. c)
  BY <1>2, <1>5, <1>6, FS_Injection
<1>8. \A j \in 1 .. c : \E i \in kept : Place[i] = j
  BY <1>7 DEF Surjection
<1>9. \A i, l \in kept : Place[i] = Place[l] => i = l
  BY <1>5 DEF Injection, IsInjective
<1> QED
  BY <1>2, <1>3, <1>8, <1>9

\* Removal keeps exactly the others, each once, and none moves back.
LEMMA WithoutIs ==
  ASSUME NEW list \in Seq(Sockets), IsInjective(list), NEW gone
  PROVE  LET left == Without(list, gone)
         IN  /\ left \in Seq(Sockets) /\ IsInjective(left) /\ Len(left) <= Len(list)
             /\ \A j \in DOMAIN left :
                  left[j] \notin gone /\ \E i \in DOMAIN list : j <= i /\ list[i] = left[j]
             /\ \A i \in DOMAIN list :
                  list[i] \notin gone => \E j \in DOMAIN left : left[j] = list[i]
<1> DEFINE n == Len(list)
           kept == {i \in DOMAIN list : list[i] \notin gone}
           Place(i) == Cardinality({k \in kept : k <= i})
           c == Cardinality(kept)
           at == [j \in 1 .. c |-> CHOOSE i \in kept : Place(i) = j]
           left == Without(list, gone)
<1>1. n \in Nat /\ DOMAIN list = 1 .. n /\ kept \in SUBSET (1 .. n)
      /\ \A i \in 1 .. n : list[i] \in Sockets
  OBVIOUS
<1>2. /\ c \in Nat /\ c <= n
      /\ \A i \in kept : Place(i) \in 1 .. c /\ Place(i) <= i
      /\ \A j \in 1 .. c : \E i \in kept : Place(i) = j
      /\ \A i, k \in kept : Place(i) = Place(k) => i = k
  BY <1>1, PlacesAreFilled
<1>3. \A j \in 1 .. c : at[j] \in kept /\ Place(at[j]) = j
  BY <1>2
<1>4. left = [j \in 1 .. c |-> list[at[j]]]
  BY DEF Without
<1> HIDE DEF Place, at, left, kept, c
<1>5. \A i \in kept : i \in DOMAIN list /\ list[i] \notin gone
  BY DEF kept
<1>6. left \in Seq(Sockets) /\ Len(left) = c /\ DOMAIN left = 1 .. c
  <2>1. left \in [1 .. c -> Sockets]
    BY <1>1, <1>3, <1>4, <1>5
  <2> QED
    BY <1>2, <2>1, LenProperties
<1>7. ASSUME NEW j \in 1 .. c
      PROVE  left[j] \notin gone /\ \E i \in DOMAIN list : j <= i /\ list[i] = left[j]
  BY <1>2, <1>3, <1>4, <1>5
<1>8. ASSUME NEW j \in 1 .. c, NEW k \in 1 .. c, left[j] = left[k]  PROVE  j = k
  <2>1. at[j] = at[k]
    BY <1>3, <1>4, <1>5, <1>8 DEF IsInjective
  <2> QED
    BY <1>3, <2>1
<1>9. ASSUME NEW i \in DOMAIN list, list[i] \notin gone
      PROVE  \E j \in 1 .. c : left[j] = list[i]
  <2>1. i \in kept
    BY <1>9 DEF kept
  <2>2. Place(i) \in 1 .. c
    BY <1>2, <2>1
  <2>3. at[Place(i)] = i
    BY <1>2, <1>3, <2>1, <2>2
  <2> QED
    BY <1>4, <2>2, <2>3
<1> QED
  BY <1>2, <1>6, <1>7, <1>8, <1>9 DEF IsInjective, left

\* Without somebody who is listed nothing changes.
LEMMA WithoutNobody ==
  ASSUME NEW list \in Seq(Sockets), IsInjective(list), NEW gone,
         \A i \in DOMAIN list : list[i] \notin gone
  PROVE  Without(list, gone) = list
<1> DEFINE n == Len(list)
           kept == {i \in DOMAIN list : list[i] \notin gone}
           Place(i) == Cardinality({k \in kept : k <= i})
<1>1. n \in Nat /\ DOMAIN list = 1 .. n /\ kept = 1 .. n /\ list = [i \in 1 .. n |-> list[i]]
  BY LenProperties
<1>2. Cardinality(kept) = n
  <2>1. Cardinality(1 .. n) = n
    BY <1>1, FS_Interval
  <2> QED
    BY <1>1, <2>1
<1>3. ASSUME NEW i \in 1 .. n  PROVE  Place(i) = i
  <2>1. i \in Nat /\ i \in Int /\ 1 \in Int
    BY <1>1
  <2>2. {k \in kept : k <= i} = 1 .. i
    BY <1>1, <2>1
  <2>3. Cardinality(1 .. i) = i
    BY <2>1, FS_Interval
  <2> QED
    BY <2>2, <2>3
<1>4. ASSUME NEW j \in 1 .. n  PROVE  (CHOOSE i \in kept : Place(i) = j) = j
  BY <1>1, <1>3
<1>5. Without(list, gone) = [j \in 1 .. n |-> list[CHOOSE i \in kept : Place(i) = j]]
  BY <1>2 DEF Without
<1> HIDE DEF Place, kept
<1> QED
  BY <1>1, <1>4, <1>5

-----------------------------------------------------------------------------
(* The steps.                                                                *)

LEMMA InitInv == Init => IInv
<1> SUFFICES ASSUME Init  PROVE IInv
  OBVIOUS
<1>1. TypeOK
  BY DEF Init, TypeOK, Idle, IsInjective
<1>2. ListIsExact
  BY DEF Init, ListIsExact, Registered, Range
<1>3. ASSUME NEW e \in Events  PROVE Sound(e)
  BY DEF Init, Idle, Sound, SockInv, WalkInv, StartInv, Once, Complete
<1> QED
  BY <1>1, <1>2, <1>3 DEF IInv

\* What disconnect does to the list: who is left is at the same place or nearer
\* the front.
LEMMA DisconnectIs ==
  ASSUME TypeOK, NEW gone, NEW others, Disconnect(gone, others)
  PROVE  /\ conns' \in Seq(Sockets) /\ IsInjective(conns')
         /\ gen' \in Nat /\ gen <= gen'
         /\ disturbed' \in [Events -> BOOLEAN]
         /\ \A j \in DOMAIN conns' : \E i \in DOMAIN conns : j <= i /\ conns[i] = conns'[j]
         /\ \A s : s \in Registered' <=> s \in Registered /\ s \notin gone
         /\ gone \cap Registered = {} => conns' = conns /\ gen' = gen
         /\ \A e \in Events \ others : disturbed'[e] = disturbed[e]
         /\ \A e \in Events : disturbed[e] => disturbed'[e]
         /\ \A e \in Events \cap others :
              walk[e].pc = "send" /\ ~disturbed'[e] => gone \cap Registered = {}
<1> USE DEF TypeOK
<1>1. conns' = Without(conns, gone)
  BY DEF Disconnect
<1>2. /\ conns' \in Seq(Sockets) /\ IsInjective(conns')
      /\ \A j \in DOMAIN conns' :
           conns'[j] \notin gone /\ \E i \in DOMAIN conns : j <= i /\ conns[i] = conns'[j]
      /\ \A i \in DOMAIN conns : conns[i] \notin gone => \E j \in DOMAIN conns' : conns'[j] = conns[i]
  BY <1>1, WithoutIs
<1>3. \A s : s \in Registered' <=> s \in Registered /\ s \notin gone
  BY <1>2 DEF Registered, Range
<1>4. gen' \in Nat /\ gen <= gen' /\ (gone \cap Registered = {} => gen' = gen)
  <2>1. gen' = IF conns # <<>> /\ Registered \subseteq gone THEN gen + 1 ELSE gen
    BY DEF Disconnect
  <2>2. ASSUME conns # <<>>, Registered \subseteq gone  PROVE gone \cap Registered # {}
    <3>1. Len(conns) \in Nat \ {0} /\ DOMAIN conns = 1 .. Len(conns)
      BY <2>2, EmptySeq, LenProperties
    <3>2. 1 \in DOMAIN conns
      BY <3>1
    <3>3. conns[1] \in Registered
      BY <3>2 DEF Registered, Range
    <3> QED
      BY <2>2, <3>3
  <2> QED
    BY <2>1, <2>2
<1>5. ASSUME gone \cap Registered = {}  PROVE conns' = conns
  <2>1. \A i \in DOMAIN conns : conns[i] \notin gone
    BY <1>5 DEF Registered, Range
  <2> QED
    BY <1>1, <2>1, WithoutNobody
<1>6. disturbed' = [e \in Events |->
        \/ disturbed[e]
        \/ e \in others /\ walk[e].pc = "send" /\ gone \cap Registered # {}]
  BY DEF Disconnect
<1> QED
  BY <1>2, <1>3, <1>4, <1>5, <1>6

\* A walk that only sees others come and go stays sound.
LEMMA OthersSound ==
  ASSUME TypeOK, NEW x \in Events, Sound(x), NEW gone, NEW others, Disconnect(gone, others),
         x \in others \/ gone \cap Registered = {},
         walk'[x] = walk[x], got'[x] = got[x],
         \A s \in Sockets : sock'[s] = sock[s] \/ (sock[s] = "lost" /\ sock'[s] = "ended")
  PROVE  Sound(x)'
<1> USE DEF TypeOK
<1>1. SockInv(x)'
  BY DEF Sound, SockInv
<1>2. WalkInv(x)'
  <2> SUFFICES ASSUME walk[x].pc = "send"
               PROVE  /\ walk[x].gen <= gen'
                      /\ \E s \in Sockets : walk[x].ws = {s} /\ got[x][s] = 0
                      /\ \A i \in Ahead(walk[x])' :
                           got[x][conns'[i]] = 0 /\ conns'[i] \notin walk[x].ws
    BY DEF WalkInv, Ahead
  <2>1. walk[x].gen <= gen /\ walk[x].gen \in Nat /\ walk[x].next \in Nat
    BY DEF Sound, WalkInv
  <2>2. ASSUME NEW j \in Ahead(walk[x])'
        PROVE  \E i \in Ahead(walk[x]) : conns[i] = conns'[j]
    <3>1. j \in DOMAIN conns' /\ walk[x].gen = gen' /\ walk[x].next <= j
      BY <2>2 DEF Ahead
    <3>2. walk[x].gen = gen
      BY <2>1, <3>1, DisconnectIs
    <3>3. PICK i \in DOMAIN conns : j <= i /\ conns[i] = conns'[j]
      BY <3>1, DisconnectIs
    <3>4. i \in Nat /\ j \in Nat
      BY <3>1, <3>3, DisconnectIs, LenProperties
    <3> QED
      BY <2>1, <3>1, <3>2, <3>3, <3>4 DEF Ahead
  <2>3. walk[x].gen <= gen' /\ \E s \in Sockets : walk[x].ws = {s} /\ got[x][s] = 0
    BY <2>1, DisconnectIs DEF Sound, WalkInv
  <2>4. \A i \in Ahead(walk[x]) : got[x][conns[i]] = 0 /\ conns[i] \notin walk[x].ws
    BY DEF Sound, WalkInv
  <2> QED
    BY <2>2, <2>3, <2>4
<1>3. StartInv(x)'
  <2> SUFFICES ASSUME walk[x].pc = "send", ~disturbed'[x]  PROVE StartInv(x)'
    BY DEF StartInv
  <2>1. gone \cap Registered = {} /\ ~disturbed[x]
    BY DisconnectIs
  <2>2. conns' = conns /\ gen' = gen
    BY <2>1, DisconnectIs
  <2> QED
    BY <2>1, <2>2 DEF Sound, StartInv, Ahead
<1>4. Once(x)' /\ Complete(x)'
  BY DisconnectIs DEF Sound, Once, Complete
<1> QED
  BY <1>1, <1>2, <1>3, <1>4 DEF Sound

\* What a walk must be like when it looks for its next place.
Ready(e, w) ==
  /\ w \in Walks /\ w.gen <= gen
  /\ got' \in [Events -> [Sockets -> Nat]]
  /\ \A x \in Events \ {e} : got'[x] = got[x]
  /\ \A s \in Sockets : /\ got'[e][s] <= 1
                        /\ got'[e][s] > 0 => sock[s] # "new"
                        /\ s \in w.dead => sock[s] \in {"lost", "ended"}
  /\ \A i \in Ahead(w) : got'[e][conns[i]] = 0
  /\ ~disturbed[e] =>
       /\ w.gen = gen
       /\ \A s \in w.start :
            got'[e][s] = 1 \/ s \in w.dead \/ \E i \in Ahead(w) : conns[i] = s

\* The records the program makes of a walk, and their fields.
SendTo(w, s) == [w EXCEPT !.pc = "send", !.ws = {s}, !.next = @ + 1]
FoundDead(w, s) == [w EXCEPT !.dead = @ \cup {s}]
Ended(w) == [Idle EXCEPT !.pc = "done", !.start = w.start, !.dead = w.dead]
Begun == [Idle EXCEPT !.gen = gen, !.start = Registered]

LEMMA SendToIs ==
  ASSUME NEW w \in Walks, NEW s \in Sockets
  PROVE  /\ SendTo(w, s) \in Walks
         /\ SendTo(w, s).pc = "send" /\ SendTo(w, s).ws = {s}
         /\ SendTo(w, s).next = w.next + 1 /\ SendTo(w, s).gen = w.gen
         /\ SendTo(w, s).dead = w.dead /\ SendTo(w, s).start = w.start
<1>1. {s} \in SUBSET Sockets /\ w.next + 1 \in Nat \ {0}
  BY DEF Walks
<1> QED
  BY <1>1 DEF Walks, SendTo

LEMMA FoundDeadIs ==
  ASSUME NEW w \in Walks, NEW s \in Sockets
  PROVE  /\ FoundDead(w, s) \in Walks
         /\ FoundDead(w, s).gen = w.gen /\ FoundDead(w, s).next = w.next
         /\ FoundDead(w, s).start = w.start /\ FoundDead(w, s).dead = w.dead \cup {s}
<1>1. w.dead \cup {s} \in SUBSET Sockets
  BY DEF Walks
<1> QED
  BY <1>1 DEF Walks, FoundDead

LEMMA EndedIs ==
  ASSUME NEW w \in Walks
  PROVE  /\ Ended(w) \in Walks /\ Ended(w).pc = "done" /\ Ended(w).ws = {}
         /\ Ended(w).start = w.start /\ Ended(w).dead = w.dead
<1>1. w.start \in SUBSET Sockets /\ w.dead \in SUBSET Sockets /\ {} \in SUBSET Sockets
  BY DEF Walks
<1>2. Idle \in Walks /\ Idle.ws = {}
  BY <1>1 DEF Walks, Idle
<1> QED
  BY <1>1, <1>2 DEF Walks, Ended

LEMMA BegunIs ==
  ASSUME gen \in Nat, Registered \in SUBSET Sockets
  PROVE  /\ Begun \in Walks /\ Begun.gen = gen /\ Begun.start = Registered
         /\ Begun.dead = {} /\ Begun.next = 1
<1>1. {} \in SUBSET Sockets
  OBVIOUS
<1>2. Idle \in Walks /\ Idle.dead = {} /\ Idle.next = 1
  BY <1>1 DEF Walks, Idle
<1> QED
  BY <1>1, <1>2 DEF Walks, Begun

\* On to the next socket, or to the end: all walks stay sound.
LEMMA ProceedInv ==
  ASSUME IInv, NEW e \in Events, NEW w, Ready(e, w), Proceed(e, w), sock' = sock
  PROVE  IInv'
<1> USE DEF TypeOK, IInv
<1>1. w \in Walks /\ w.next \in Nat \ {0} /\ w.gen \in Nat
  BY DEF Ready, Walks
<1>2. CASE w.next <= Len(conns) /\ w.gen = gen
  <2> DEFINE s == conns[w.next]
             v == SendTo(w, s)
  <2>1. walk' = [walk EXCEPT ![e] = v] /\ UNCHANGED <<conns, gen, disturbed>>
    BY <1>2 DEF Proceed, SendTo
  <2>2. w.next \in DOMAIN conns /\ w.next \in Ahead(w) /\ s \in Sockets /\ s \in Registered
    BY <1>1, <1>2, LenProperties DEF Ahead, Registered, Range
  <2>3. /\ v \in Walks /\ v.pc = "send" /\ v.ws = {s} /\ v.next = w.next + 1
        /\ v.gen = w.gen /\ v.dead = w.dead /\ v.start = w.start
    BY <1>1, <2>2, SendToIs
  <2> HIDE DEF v
  <2>4. walk'[e] = v
    BY <2>1
  <2>5. TypeOK'
    BY <2>1, <2>3 DEF Ready, Walks
  <2>6. ListIsExact'
    BY <2>1 DEF ListIsExact, Registered
  <2>7. ASSUME NEW i \in DOMAIN conns, w.next <= i
        PROVE  i = w.next \/ (i \in Ahead(v) /\ conns[i] # s)
    <3>1. i \in Nat /\ w.next \in Nat
      BY <1>1, LenProperties
    <3> QED
      BY <1>2, <2>2, <2>3, <2>7, <3>1 DEF Ahead, IsInjective
  <2>8. ASSUME NEW i \in Ahead(v)
        PROVE  i \in Ahead(w) /\ conns[i] # s
    <3>1. i \in Nat /\ i \in DOMAIN conns /\ w.next + 1 <= i
      BY <2>3, <2>8, LenProperties DEF Ahead
    <3>2. w.next <= i /\ w.next # i
      BY <1>1, <3>1
    <3> QED
      BY <1>2, <2>2, <3>1, <3>2 DEF Ahead, IsInjective
  <2>9. SockInv(e)'
    <3>1. sock[s] # "new"
      BY <2>2 DEF ListIsExact
    <3> QED
      BY <2>3, <2>4, <3>1 DEF SockInv, Ready
  <2>10. WalkInv(e)'
    <3>1. got'[e][s] = 0
      BY <2>2 DEF Ready
    <3>2. \A i \in Ahead(v) : got'[e][conns[i]] = 0 /\ conns[i] \notin v.ws
      BY <2>3, <2>8 DEF Ready
    <3>3. Ahead(v)' = Ahead(v)
      BY <2>1 DEF Ahead, v
    <3> QED
      BY <2>1, <2>2, <2>3, <2>4, <3>1, <3>2, <3>3 DEF WalkInv, Ready, Ahead
  <2>11. StartInv(e)'
    <3> SUFFICES ASSUME ~disturbed[e]
                 PROVE  /\ v.gen = gen
                        /\ \A r \in v.start : \/ got'[e][r] = 1
                                              \/ r \in v.dead \cup v.ws
                                              \/ \E i \in Ahead(v) : conns[i] = r
      BY <2>1, <2>4 DEF StartInv, Ahead
    <3>1. ASSUME NEW i \in Ahead(w)
          PROVE  conns[i] \in v.ws \/ \E k \in Ahead(v) : conns[k] = conns[i]
      <4>1. i \in DOMAIN conns /\ w.next <= i
        BY <3>1 DEF Ahead
      <4>2. CASE i = w.next
        BY <2>3, <4>2
      <4>3. CASE i \in Ahead(v)
        BY <4>3
      <4> QED
        BY <2>7, <4>1, <4>2, <4>3
    <3>2. /\ w.gen = gen
          /\ \A r \in w.start :
               got'[e][r] = 1 \/ r \in w.dead \/ \E i \in Ahead(w) : conns[i] = r
      BY DEF Ready
    <3>3. ASSUME NEW r \in v.start, NEW i \in Ahead(w), conns[i] = r
          PROVE  r \in v.dead \cup v.ws \/ \E k \in Ahead(v) : conns[k] = r
      BY <3>1, <3>3
    <3>4. v.gen = gen /\ v.start = w.start /\ v.dead = w.dead
      BY <2>3, <3>2
    <3> HIDE DEF TypeOK, IInv
    <3> QED
      BY <3>2, <3>3, <3>4
  <2>12. Once(e)' /\ Complete(e)'
    BY <2>3, <2>4 DEF Ready, Once, Complete
  <2>13. ASSUME NEW x \in Events \ {e}  PROVE Sound(x)'
    <3>1. walk'[x] = walk[x] /\ got'[x] = got[x]
      BY <2>1 DEF Ready
    <3> QED
      BY <2>1, <3>1 DEF Sound, SockInv, WalkInv, StartInv, Once, Complete, Ahead
  <2> QED
    BY <2>5, <2>6, <2>9, <2>10, <2>11, <2>12, <2>13 DEF Sound
<1>3. CASE ~(w.next <= Len(conns) /\ w.gen = gen)
  <2> DEFINE v == Ended(w)
  <2>1. walk' = [walk EXCEPT ![e] = v] /\ Disconnect(w.dead, Events \ {e})
    BY <1>3 DEF Proceed, CleanUp, Ended
  <2>2. v \in Walks /\ v.pc = "done" /\ v.ws = {} /\ v.start = w.start /\ v.dead = w.dead
    BY <1>1, EndedIs
  <2> HIDE DEF v
  <2>3. walk'[e] = v
    BY <2>1
  <2>4. TypeOK'
    BY <2>1, <2>2, DisconnectIs DEF Ready, Walks
  <2>5. ListIsExact'
    <3>1. \A s \in Sockets : s \in w.dead => sock[s] \in {"lost", "ended"}
      BY DEF Ready
    <3> QED
      BY <2>1, <3>1, DisconnectIs DEF ListIsExact
  <2>6. Ahead(w) = {}
    BY <1>1, <1>3, LenProperties DEF Ahead
  <2>7. ~disturbed'[e] => ~disturbed[e]
    BY <2>1, DisconnectIs
  <2>8. SockInv(e)' /\ WalkInv(e)' /\ StartInv(e)' /\ Once(e)'
    BY <2>2, <2>3 DEF SockInv, WalkInv, StartInv, Once, Ready
  <2>9. Complete(e)'
    BY <2>2, <2>3, <2>6, <2>7 DEF Complete, Ready
  <2>10. ASSUME NEW x \in Events \ {e}  PROVE Sound(x)'
    <3>1. walk'[x] = walk[x] /\ got'[x] = got[x]
      BY <2>1 DEF Ready
    <3> QED
      BY <2>1, <3>1, OthersSound
  <2> QED
    BY <2>4, <2>5, <2>8, <2>9, <2>10 DEF Sound
<1> QED
  BY <1>2, <1>3

LEMMA BeginInv ==
  ASSUME IInv, NEW e \in Events, Begin(e)  PROVE IInv'
<1> DEFINE w == Begun
<1> USE DEF TypeOK, IInv
<1>1. walk[e].pc = "idle" /\ Proceed(e, w) /\ sock' = sock /\ got' = got
  BY DEF Begin, Begun
<1>2. /\ w \in Walks /\ w.gen = gen /\ w.start = Registered /\ w.dead = {} /\ w.next = 1
      /\ Registered \subseteq Sockets
  <2>1. Registered \subseteq Sockets
    BY LenProperties DEF Registered, Range
  <2> QED
    BY <2>1, BegunIs
<1> HIDE DEF w
<1>3. \A s \in Sockets : got[e][s] = 0
  BY <1>1 DEF Sound, SockInv
<1>4. \A i \in DOMAIN conns : i \in Ahead(w) /\ conns[i] \in Sockets
  BY <1>2, LenProperties DEF Ahead
<1>5. \A s \in Registered : \E i \in Ahead(w) : conns[i] = s
  BY <1>4 DEF Registered, Range
<1>6. Ready(e, w)
  BY <1>1, <1>2, <1>3, <1>4, <1>5 DEF Ready, Ahead
<1> QED
  BY <1>1, <1>6, ProceedInv

LEMMA SendInv ==
  ASSUME IInv, NEW e \in Events, Send(e)  PROVE IInv'
<1> USE DEF TypeOK, IInv
<1>1. PICK s \in walk[e].ws :
        \/ got' = [got EXCEPT ![e][s] = @ + 1] /\ Proceed(e, walk[e])
        \/ /\ sock[s] # "open"
           /\ Proceed(e, FoundDead(walk[e], s))
           /\ UNCHANGED got
  BY DEF Send, FoundDead
<1>2. walk[e].pc = "send" /\ sock' = sock
  BY DEF Send
<1>3. /\ walk[e] \in Walks /\ walk[e].gen <= gen
      /\ s \in Sockets /\ walk[e].ws = {s} /\ got[e][s] = 0 /\ sock[s] # "new"
      /\ \A i \in Ahead(walk[e]) : got[e][conns[i]] = 0 /\ conns[i] # s /\ conns[i] \in Sockets
  <2>1. walk[e] \in Walks
    BY DEF Walks
  <2>2. \A i \in Ahead(walk[e]) : conns[i] \in Sockets
    BY LenProperties DEF Ahead
  <2> QED
    BY <1>1, <1>2, <2>1, <2>2 DEF Sound, WalkInv, SockInv
<1>4. \A r \in Sockets :
        /\ got[e][r] <= 1 /\ (got[e][r] > 0 => sock[r] # "new")
        /\ r \in walk[e].dead => sock[r] \in {"lost", "ended"}
  BY DEF Sound, SockInv, Once
<1>5. ~disturbed[e] =>
        /\ walk[e].gen = gen
        /\ \A r \in walk[e].start :
             \/ got[e][r] = 1 \/ r \in walk[e].dead \/ r = s
             \/ \E i \in Ahead(walk[e]) : conns[i] = r
  BY <1>2, <1>3 DEF Sound, StartInv
<1>6. CASE got' = [got EXCEPT ![e][s] = @ + 1] /\ Proceed(e, walk[e])
  <2>1. /\ got' \in [Events -> [Sockets -> Nat]]
        /\ \A x \in Events \ {e} : got'[x] = got[x]
        /\ got'[e][s] = 1
        /\ \A r \in Sockets \ {s} : got'[e][r] = got[e][r]
    <3>1. got \in [Events -> [Sockets -> Nat]] /\ got[e] \in [Sockets -> Nat]
      OBVIOUS
    <3>2. got' = [got EXCEPT ![e] = [got[e] EXCEPT ![s] = 1]]
      BY <1>3, <1>6
    <3>3. [got[e] EXCEPT ![s] = 1] \in [Sockets -> Nat]
      BY <3>1
    <3> QED
      BY <1>3, <3>1, <3>2, <3>3
  <2>2. \A r \in Sockets : got'[e][r] <= 1 /\ (got'[e][r] > 0 => sock[r] # "new")
    <3>1. \A r \in Sockets \ {s} : got'[e][r] <= 1 /\ (got'[e][r] > 0 => sock[r] # "new")
      BY <1>4, <2>1
    <3>2. got'[e][s] <= 1 /\ sock[s] # "new"
      BY <1>3, <2>1
    <3> QED
      BY <3>1, <3>2
  <2>3. \A i \in Ahead(walk[e]) : got'[e][conns[i]] = 0
    BY <1>3, <2>1
  <2>4. ~disturbed[e] =>
          /\ walk[e].gen = gen
          /\ \A r \in walk[e].start :
               got'[e][r] = 1 \/ r \in walk[e].dead \/ \E i \in Ahead(walk[e]) : conns[i] = r
    BY <1>3, <1>5, <2>1 DEF Walks
  <2>5. Ready(e, walk[e])
    BY <1>3, <1>4, <2>1, <2>2, <2>3, <2>4 DEF Ready
  <2> QED
    BY <1>2, <1>6, <2>5, ProceedInv
<1>7. CASE sock[s] # "open" /\ Proceed(e, FoundDead(walk[e], s)) /\ got' = got
  <2> DEFINE w == FoundDead(walk[e], s)
  <2>1. /\ w \in Walks /\ w.gen = walk[e].gen /\ w.next = walk[e].next /\ w.start = walk[e].start
        /\ w.dead = walk[e].dead \cup {s}
    BY <1>3, FoundDeadIs
  <2>2. sock[s] \in {"lost", "ended"}
    BY <1>3, <1>7
  <2> HIDE DEF w
  <2>3. Ahead(w) = Ahead(walk[e])
    BY <2>1 DEF Ahead
  <2>4. Ready(e, w)
    BY <1>3, <1>4, <1>5, <1>7, <2>1, <2>2, <2>3 DEF Ready
  <2> QED
    BY <1>2, <1>7, <2>4, ProceedInv DEF w
<1> QED
  BY <1>1, <1>6, <1>7

LEMMA ConnectInv ==
  ASSUME IInv, NEW s \in Sockets, Connect(s)  PROVE IInv'
<1> USE DEF TypeOK, IInv
<1>1. /\ sock[s] = "new" /\ sock' = [sock EXCEPT ![s] = "open"]
      /\ conns' = Append(conns, s) /\ UNCHANGED <<gen, walk, got, disturbed>>
  BY DEF Connect
<1>2. s \notin Registered
  BY <1>1 DEF ListIsExact
<1>3. /\ conns' \in Seq(Sockets) /\ DOMAIN conns' = DOMAIN conns \cup {Len(conns) + 1}
      /\ Len(conns) + 1 \notin DOMAIN conns
      /\ \A i \in DOMAIN conns : conns'[i] = conns[i] /\ conns[i] # s /\ conns[i] \in Sockets
      /\ conns'[Len(conns) + 1] = s
  <2>1. /\ conns' \in Seq(Sockets) /\ Len(conns') = Len(conns) + 1
        /\ \A i \in 1 .. Len(conns) : conns'[i] = conns[i]
        /\ conns'[Len(conns) + 1] = s
    BY <1>1, AppendProperties
  <2>2. DOMAIN conns = 1 .. Len(conns) /\ DOMAIN conns' = 1 .. Len(conns') /\ Len(conns) \in Nat
    BY <2>1, LenProperties
  <2>3. \A i \in DOMAIN conns : conns[i] # s /\ conns[i] \in Sockets
    BY <1>2, LenProperties DEF Registered, Range
  <2> QED
    BY <2>1, <2>2, <2>3
<1>4. TypeOK'
  <2>1. IsInjective(conns')
    BY <1>3 DEF IsInjective
  <2> QED
    BY <1>1, <1>3, <2>1
<1>5. ListIsExact'
  <2>1. \A r : r \in Registered' <=> r \in Registered \/ r = s
    BY <1>3 DEF Registered, Range
  <2> QED
    BY <1>1, <2>1 DEF ListIsExact
<1>6. ASSUME NEW e \in Events  PROVE Sound(e)'
  <2>1. \A r \in Sockets : sock'[r] = sock[r] \/ (r = s /\ sock'[r] = "open")
    BY <1>1
  <2>2. SockInv(e)' /\ Once(e)' /\ Complete(e)'
    BY <1>1, <2>1 DEF Sound, SockInv, Once, Complete
  <2>3. got[e][s] = 0 /\ s \notin walk[e].ws
    BY <1>1 DEF Sound, SockInv
  <2>4. WalkInv(e)'
    <3> SUFFICES ASSUME walk[e].pc = "send"
                 PROVE  /\ walk[e].gen <= gen
                        /\ \E r \in Sockets : walk[e].ws = {r} /\ got[e][r] = 0
                        /\ \A i \in Ahead(walk[e])' :
                             got[e][conns'[i]] = 0 /\ conns'[i] \notin walk[e].ws
      BY <1>1 DEF WalkInv, Ahead
    <3>1. \A i \in Ahead(walk[e])' : i \in Ahead(walk[e]) \/ conns'[i] = s
      BY <1>1, <1>3 DEF Ahead
    <3>2. \A i \in Ahead(walk[e]) : i \in DOMAIN conns
      BY DEF Ahead
    <3> QED
      BY <1>3, <2>3, <3>1, <3>2 DEF Sound, WalkInv
  <2>5. StartInv(e)'
    <3> SUFFICES ASSUME walk[e].pc = "send", ~disturbed[e]
                 PROVE  /\ walk[e].gen = gen
                        /\ \A r \in walk[e].start :
                             \/ got[e][r] = 1
                             \/ r \in walk[e].dead \cup walk[e].ws
                             \/ \E i \in Ahead(walk[e])' : conns'[i] = r
      BY <1>1 DEF StartInv, Ahead
    <3>1. \A i \in Ahead(walk[e]) : i \in Ahead(walk[e])' /\ conns'[i] = conns[i]
      BY <1>1, <1>3 DEF Ahead
    <3> QED
      <4>1. walk[e].gen = gen /\ StartInv(e)
        BY DEF Sound, StartInv
      <4> HIDE DEF TypeOK, IInv
      <4> QED
        BY <3>1, <4>1 DEF StartInv
  <2> QED
    BY <2>2, <2>4, <2>5 DEF Sound
<1> QED
  BY <1>4, <1>5, <1>6

LEMMA LoseInv ==
  ASSUME IInv, NEW s \in Sockets, Lose(s)  PROVE IInv'
<1> USE DEF TypeOK, IInv
<1>1. /\ sock[s] = "open" /\ sock' = [sock EXCEPT ![s] = "lost"]
      /\ UNCHANGED <<conns, gen, walk, got, disturbed>>
  BY DEF Lose
<1>2. \A r \in Sockets : sock'[r] = sock[r] \/ (r = s /\ sock'[r] = "lost")
  BY <1>1
<1>3. TypeOK'
  BY <1>1
<1>4. ListIsExact'
  BY <1>1, <1>2 DEF ListIsExact, Registered
<1>5. ASSUME NEW e \in Events  PROVE Sound(e)'
  BY <1>1, <1>2 DEF Sound, SockInv, WalkInv, StartInv, Once, Complete, Ahead
<1> QED
  BY <1>3, <1>4, <1>5

LEMMA HandlerEndsInv ==
  ASSUME IInv, NEW s \in Sockets, HandlerEnds(s)  PROVE IInv'
<1> USE DEF TypeOK, IInv
<1>1. /\ sock[s] = "lost" /\ sock' = [sock EXCEPT ![s] = "ended"]
      /\ Disconnect({s}, Events) /\ UNCHANGED <<walk, got>>
  BY DEF HandlerEnds
<1>2. \A r \in Sockets : sock'[r] = IF r = s THEN "ended" ELSE sock[r]
  BY <1>1
<1>3. TypeOK'
  BY <1>1, DisconnectIs
<1>4. ListIsExact'
  BY <1>1, <1>2, DisconnectIs DEF ListIsExact
<1>5. ASSUME NEW e \in Events  PROVE Sound(e)'
  BY <1>1, <1>2, OthersSound
<1> QED
  BY <1>3, <1>4, <1>5

LEMMA AbortInv ==
  ASSUME IInv, NEW e \in Events, Abort(e)  PROVE IInv'
<1> USE DEF TypeOK, IInv
<1> DEFINE v == [Idle EXCEPT !.pc = "aborted"]
<1>1. walk' = [walk EXCEPT ![e] = v] /\ UNCHANGED <<conns, gen, sock, got, disturbed>>
  BY DEF Abort
<1>2. walk[e].pc = "send"
  BY DEF Abort
<1>3. v \in Walks /\ v.pc = "aborted" /\ v.ws = {} /\ v.dead = {}
  <2>1. Idle \in Walks /\ Idle.ws = {} /\ Idle.dead = {}
    BY DEF Walks, Idle
  <2> QED
    BY <2>1 DEF Walks
<1> HIDE DEF v
<1>4. TypeOK'
  BY <1>1, <1>3 DEF Walks
<1>5. ListIsExact'
  BY <1>1 DEF ListIsExact, Registered
<1>6. ASSUME NEW x \in Events  PROVE Sound(x)'
  <2>1. CASE x = e
    BY <1>1, <1>2, <1>3, <2>1 DEF Sound, SockInv, WalkInv, StartInv, Once, Complete
  <2>2. CASE x # e
    <3>1. walk'[x] = walk[x]
      BY <1>1, <2>2
    <3>2. Ahead(walk[x])' = Ahead(walk[x])
      BY <1>1, <3>1 DEF Ahead
    <3>3. SockInv(x)' /\ Once(x)' /\ Complete(x)'
      BY <1>1, <3>1 DEF Sound, SockInv, Once, Complete
    <3>4. WalkInv(x)' /\ StartInv(x)'
      <4>1. WalkInv(x) /\ StartInv(x)
        BY DEF Sound
      <4> HIDE DEF TypeOK, IInv
      <4> QED
        BY <1>1, <3>1, <3>2, <4>1 DEF WalkInv, StartInv
    <3> QED
      BY <3>3, <3>4 DEF Sound
  <2> QED
    BY <2>1, <2>2
<1> QED
  BY <1>4, <1>5, <1>6

\* IInv holds in every reachable state.
THEOREM Invariant == Spec => []IInv
<1>1. IInv /\ [Next]_vars => IInv'
  <2> SUFFICES ASSUME IInv, [Next]_vars  PROVE IInv'
    OBVIOUS
  <2>1. CASE \E s \in Sockets : Connect(s) \/ Lose(s) \/ HandlerEnds(s)
    BY <2>1, ConnectInv, LoseInv, HandlerEndsInv
  <2>2. CASE \E e \in Events : Begin(e) \/ Send(e) \/ Abort(e)
    BY <2>2, BeginInv, SendInv, AbortInv
  <2>3. CASE UNCHANGED vars
    BY <2>3 DEF vars, IInv, TypeOK, ListIsExact, Registered, Sound, SockInv, WalkInv,
                StartInv, Once, Complete, Ahead
  <2> QED
    BY <2>1, <2>2, <2>3 DEF Next
<1> QED
  BY <1>1, InitInv, PTL DEF Spec

\* The variables keep their types: a connection is never listed twice.
THEOREM TypeCorrect == Spec => []TypeOK
<1>1. IInv => TypeOK
  BY DEF IInv
<1> QED
  BY <1>1, Invariant, PTL

\* No device is sent an event twice, however the list shifts under the walk.
THEOREM SentOnce == Spec => []AtMostOnce
<1>1. IInv => AtMostOnce
  BY DEF IInv, Sound, Once, AtMostOnce
<1> QED
  BY <1>1, Invariant, PTL

\* The list holds every device with a peer and none whose handler has ended.
THEOREM ListStaysExact == Spec => []ListIsExact
<1>1. IInv => ListIsExact
  BY DEF IInv
<1> QED
  BY <1>1, Invariant, PTL

\* A walk under which nobody else removed a socket reached all it began with.
THEOREM UndisturbedIsComplete == Spec => []CompleteWhenUndisturbed
<1>1. IInv => CompleteWhenUndisturbed
  BY DEF IInv, Sound, Complete, CompleteWhenUndisturbed
<1> QED
  BY <1>1, Invariant, PTL
=============================================================================
