---------------------------- MODULE RemindersProofs ----------------------------
(* For any reminders, people, devices and batches: the safety of Reminders.  *)
(*                                                                           *)
(* OnceEach is not inductive: it does not say that a reminder which is still *)
(* to be delivered has not been sent.  RestInv does, for the reminders the   *)
(* job has not come to, and HereInv for the channels that are still to come  *)
(* of the one it is at.  The last section is the safety of AllDelivered.     *)
EXTENDS Reminders, TLAPS, FiniteSetTheorems, WellFoundedInduction

Places ==
  [pc : {"prefs", "pushover", "mark"}, r : Reminders, todo : SUBSET Reminders]
    \cup [pc : {"push"}, r : Reminders, todo : SUBSET Reminders, devices : SUBSET Devices]

TickInv ==
  /\ tick \in {Idle} \cup Places
  /\ tick # Idle => tick.r \notin tick.todo

\* What is pending, or waits in the batch, was sent once per cut at most.
RestInv ==
  \A r \in Reminders, c \in Channels :
    /\ tick = Idle \/ tick.r # r
    /\ row[r] \in {"none", "pending"} \/ (tick # Idle /\ r \in tick.todo)
    => reached[r][c] <= cuts[r]

\* So were the channels still to come of the reminder under way.
HereInv ==
  tick # Idle =>
    \A c \in Channels :
      \/ tick.pc = "prefs"
      \/ tick.pc = "push" /\ (c \in tick.devices \/ c = Phone)
      \/ tick.pc = "pushover" /\ c = Phone
      => reached[tick.r][c] <= cuts[tick.r]

Tried(r) == r \in missed \/ \E c \in Channels : reached[r][c] > 0

\* Who is about to be marked was sent or tried.
TriedInv ==
  /\ tick # Idle
  /\ \/ tick.pc = "mark"
     \/ tick.pc = "push" /\ tick.devices = {} /\ OwnerOf[tick.r] \notin Opted
  => Tried(tick.r)

IInv == TypeOK /\ TickInv /\ RestInv /\ HereInv /\ OnceEach /\ TriedInv /\ MarkedWasSent

USE DEF Idle, Channels, Phone
USE UsersAssumption, BoundsAssumption, DevicesAssumption

\* Reminders are natural numbers.
LEMMA RemindersAreNaturals == Reminders \subseteq Nat /\ Cardinality(Reminders) \in Nat
BY RemindersAssumption, FS_CardinalityType

\* The earliest of some reminders is one of them, and none is earlier.
LEMMA EarliestIsFirst ==
  ASSUME NEW S \in SUBSET Reminders, S # {}
  PROVE  Earliest(S) \in S /\ \A q \in S : Earliest(S) <= q
<1> DEFINE Less == OpToRel(<, Nat)
<1>1. S \subseteq Nat
  BY RemindersAreNaturals
<1>2. IsWellFoundedOn(Less, Nat)
  BY NatLessThanWellFounded
<1>3. \A q, p \in Nat : q < p => <<q, p>> \in Less
  BY DEF OpToRel
<1> HIDE DEF Less
<1>4. PICK r \in S : \A q \in S : <<q, r>> \notin Less
  BY <1>1, <1>2, WFMin, Zenon
<1>5. \A q \in S : r <= q
  <2> TAKE q \in S
  <2>1. q \in Nat /\ r \in Nat
    BY <1>1
  <2>2. ~(q < r)
    BY <1>3, <1>4, <2>1, Zenon
  <2> QED BY <2>1, <2>2
<1> QED BY <1>5 DEF Earliest

\* What the job does after a reminder: nothing, or the earliest that is left.
LEMMA RestIs ==
  ASSUME NEW S \in SUBSET Reminders
  PROVE  \/ Rest(S) = Idle
         \/ \E r \in S : /\ Rest(S) = [pc |-> "prefs", r |-> r, todo |-> S \ {r}]
                        /\ \A q \in S \ {r} : r < q
<1>1. CASE S = {}
  BY <1>1 DEF Rest
<1>2. CASE S # {}
  <2>1. Earliest(S) \in S /\ \A q \in S : Earliest(S) <= q
    BY <1>2, EarliestIsFirst
  <2>2. ASSUME NEW q \in S \ {Earliest(S)}
        PROVE  Earliest(S) < q
    <3>1. q \in Nat /\ Earliest(S) \in Nat /\ Earliest(S) <= q /\ q # Earliest(S)
      BY <2>1, RemindersAreNaturals
    <3> QED BY <3>1
  <2>3. Rest(S) = [pc |-> "prefs", r |-> Earliest(S), todo |-> S \ {Earliest(S)}]
    BY <1>2 DEF Rest
  <2> QED BY <2>1, <2>2, <2>3
<1> QED BY <1>1, <1>2

\* The initial state satisfies the inductive invariant.
LEMMA InitInv == Init => IInv
BY RemindersAreNaturals
   DEF Init, IInv, TypeOK, TickInv, RestInv, HereInv, OnceEach, TriedInv, MarkedWasSent

\* The job takes its batch, or turns to the next reminder of it.
LEMMA NextOneInv ==
  ASSUME IInv, NEW S \in SUBSET Reminders, tick' = Rest(S),
         UNCHANGED <<world, reached, missed, cuts>>,
         row' \in [Reminders -> {"none", "pending", "delivered", "cleared"}],
         \A q \in S : q <= clock /\ row'[q] \in {"pending", "cleared"},
         \A q \in S, c \in Channels : reached[q][c] <= cuts[q],
         \A r \in Reminders, c \in Channels : row'[r] \in {"none", "pending"} => reached[r][c] <= cuts[r],
         \A r \in Reminders : row'[r] = "delivered" => Tried(r)
  PROVE  IInv'
<1> USE DEF IInv, world
<1>1. clock' = clock /\ subs' = subs /\ awake' = awake /\ reached' = reached /\ missed' = missed /\ cuts' = cuts
  OBVIOUS
<1>2. OnceEach' /\ MarkedWasSent'
  BY <1>1 DEF OnceEach, MarkedWasSent, Tried
<1>3. CASE tick' = Idle
  <2>1. TypeOK' /\ TickInv'
    BY <1>1, <1>3 DEF TypeOK, TickInv
  <2>2. RestInv' /\ HereInv' /\ TriedInv'
    BY <1>1, <1>3 DEF RestInv, HereInv, TriedInv
  <2> QED BY <1>2, <2>1, <2>2
<1>4. ASSUME NEW r \in S, tick' = [pc |-> "prefs", r |-> r, todo |-> S \ {r}],
             \A q \in S \ {r} : r < q
      PROVE  IInv'
  <2>1. tick'.pc = "prefs" /\ tick'.r = r /\ tick'.todo = S \ {r} /\ tick' # Idle
    BY <1>4
  <2>2. TypeOK'
    <3>1. tick'.r <= clock' /\ row'[tick'.r] # "none"
      BY <1>1, <2>1
    <3>2. \A q \in tick'.todo : tick'.r < q /\ q <= clock' /\ row'[q] \in {"pending", "cleared"}
      BY <1>1, <1>4, <2>1
    <3> QED BY <1>1, <2>1, <3>1, <3>2 DEF TypeOK
  <2>3. TickInv'
    BY <1>4 DEF TickInv, Places
  <2>4. RestInv'
    BY <1>1, <2>1 DEF RestInv
  <2>5. HereInv' /\ TriedInv'
    BY <1>1, <2>1 DEF HereInv, TriedInv
  <2> QED BY <1>2, <2>2, <2>3, <2>4, <2>5
<1> QED BY <1>3, <1>4, RestIs

Skip == Prefs /\ OwnerOf[tick.r] \notin awake

\* The job starts, skips an owner in quiet hours, or marks.
LEMMA TurnInv ==
  ASSUME IInv, Fetch \/ Skip \/ Mark
  PROVE  IInv'
<1> USE DEF IInv, world
<1>1. \A r \in Reminders, c \in Channels :
        row[r] \in {"none", "pending"} /\ (tick = Idle \/ tick.pc = "prefs" \/ tick.r # r)
          => reached[r][c] <= cuts[r]
  BY DEF RestInv, HereInv, TickInv, Places
<1>2. CASE Fetch
  <2>1. tick' = Rest(First({r \in Reminders : Due(r)})) /\ tick = Idle
    BY <1>2 DEF Fetch
  <2> DEFINE S == First({r \in Reminders : Due(r)})
  <2>2. S \in SUBSET Reminders /\ \A q \in S : row[q] = "pending" /\ q <= clock
    BY DEF First, Due
  <2>3. UNCHANGED <<world, row, reached, missed, cuts>>
    BY <1>2 DEF Fetch
  <2>4. \A q \in S, c \in Channels : reached[q][c] <= cuts[q]
    BY <1>1, <2>1, <2>2
  <2>5. \A r \in Reminders : row[r] = "delivered" => Tried(r)
    BY DEF MarkedWasSent, Tried
  <2>6. row \in [Reminders -> {"none", "pending", "delivered", "cleared"}]
    BY DEF TypeOK
  <2> HIDE DEF S, IInv
  <2> QED BY <1>1, <2>1, <2>2, <2>3, <2>4, <2>5, <2>6, NextOneInv DEF S
<1>3. tick # Idle => /\ tick.r \in Reminders /\ tick.todo \in SUBSET Reminders /\ tick.r \notin tick.todo
                    /\ \A q \in tick.todo : q <= clock /\ row[q] \in {"pending", "cleared"}
  BY DEF TickInv, Places, TypeOK
<1>4. tick # Idle => \A q \in tick.todo, c \in Channels : reached[q][c] <= cuts[q]
  BY <1>3 DEF RestInv
<1>5. CASE Skip
  <2>1. tick' = Rest(tick.todo) /\ tick.pc = "prefs" /\ tick # Idle
    BY <1>5 DEF Skip, Prefs
  <2>2. UNCHANGED <<world, row, reached, missed, cuts>>
    BY <1>5 DEF Skip, Prefs
  <2>3. \A r \in Reminders, c \in Channels : row[r] \in {"none", "pending"} => reached[r][c] <= cuts[r]
    BY <1>1, <2>1
  <2>4. \A r \in Reminders : row[r] = "delivered" => Tried(r)
    BY DEF MarkedWasSent, Tried
  <2>5. row \in [Reminders -> {"none", "pending", "delivered", "cleared"}]
    BY DEF TypeOK
  <2> HIDE DEF IInv
  <2> QED BY <1>3, <1>4, <2>1, <2>2, <2>3, <2>4, <2>5, NextOneInv
<1>6. CASE Mark
  <2>1. tick' = Rest(tick.todo) /\ tick.pc = "mark" /\ tick # Idle
    BY <1>6 DEF Mark
  <2>2. /\ UNCHANGED <<world, reached, missed, cuts>>
        /\ row' = [row EXCEPT ![tick.r] = IF @ = "pending" THEN "delivered" ELSE @]
    BY <1>6 DEF Mark
  <2>3. row' \in [Reminders -> {"none", "pending", "delivered", "cleared"}]
    BY <1>3, <2>1, <2>2 DEF TypeOK
  <2>4. \A q \in tick.todo : q <= clock /\ row'[q] \in {"pending", "cleared"}
    BY <1>3, <2>1, <2>2 DEF TypeOK
  <2>5. \A r \in Reminders, c \in Channels : row'[r] \in {"none", "pending"} => reached[r][c] <= cuts[r]
    BY <1>1, <1>3, <2>1, <2>2 DEF TypeOK
  <2>6. \A r \in Reminders : row'[r] = "delivered" => Tried(r)
    BY <1>3, <2>1, <2>2 DEF TypeOK, MarkedWasSent, TriedInv, Tried
  <2> HIDE DEF IInv
  <2> QED BY <1>3, <1>4, <2>1, <2>2, <2>3, <2>4, <2>5, <2>6, NextOneInv
<1> QED BY <1>2, <1>5, <1>6

\* One more push of the reminder under way to one channel.
LEMMA ReachIs ==
  ASSUME reached \in [Reminders -> [Channels -> Nat]], tick.r \in Reminders,
         NEW c \in Channels, Reach(c)
  PROVE  /\ reached' \in [Reminders -> [Channels -> Nat]]
         /\ \A r \in Reminders, d \in Channels :
              reached'[r][d] = IF r = tick.r /\ d = c THEN reached[r][d] + 1 ELSE reached[r][d]
<1> DEFINE here == [reached[tick.r] EXCEPT ![c] = @ + 1]
<1>1. reached' = [reached EXCEPT ![tick.r] = here]
  BY DEF Reach
<1>2. here \in [Channels -> Nat] /\ \A d \in Channels : here[d] = IF d = c THEN reached[tick.r][c] + 1 ELSE reached[tick.r][d]
  OBVIOUS
<1> HIDE DEF here
<1> QED BY <1>1, <1>2

\* The job finds the owner awake, or goes on with the devices and the phone.
LEMMA SendInv ==
  ASSUME IInv, (Prefs /\ ~Skip) \/ Push \/ PushDone \/ Pushover
  PROVE  IInv'
<1> USE DEF IInv, world
<1>1. tick # Idle /\ tick \in Places
  BY DEF Prefs, Push, PushDone, Pushover, TickInv
<1>2. /\ tick.r \in Reminders /\ tick.todo \in SUBSET Reminders /\ tick.r \notin tick.todo
      /\ row' = row /\ clock' = clock /\ cuts' = cuts /\ awake' = awake
  BY <1>1 DEF Prefs, Push, PushDone, Pushover, TickInv, Places
<1>3. /\ tick' # Idle /\ tick' \in Places /\ tick'.r = tick.r /\ tick'.todo = tick.todo
      /\ tick'.pc \in {"push", "pushover", "mark"}
      /\ tick'.pc = "push" => tick'.devices \subseteq Devices
  <2>1. CASE Prefs /\ ~Skip
    BY <1>1, <1>2, <2>1 DEF Prefs, Skip, Places, TypeOK
  <2>2. CASE Push
    BY <1>1, <1>2, <2>2 DEF Push, PushOk, PushExpired, PushFails, Pushed, AfterPush, At, Places
  <2>3. CASE PushDone
    BY <1>1, <1>2, <2>3 DEF PushDone, AfterPush, At, Places
  <2>4. CASE Pushover
    BY <1>1, <1>2, <2>4 DEF Pushover, At, Places
  <2> QED BY <2>1, <2>2, <2>3, <2>4
<1>4. /\ missed \subseteq missed' /\ missed' \subseteq Reminders
      /\ subs' \in [Users -> SUBSET Devices]
  <2>1. CASE Push
    BY <1>1, <1>2, <2>1 DEF Push, PushOk, PushExpired, PushFails, TypeOK
  <2>2. CASE (Prefs /\ ~Skip) \/ PushDone \/ Pushover
    BY <1>2, <2>2 DEF Prefs, PushDone, Pushover, TypeOK
  <2> QED BY <2>1, <2>2
<1>5. \/ reached' = reached
      \/ \E c \in Channels :
           /\ Reach(c)
           /\ \/ tick.pc = "push" /\ c \in tick.devices /\ tick' = Pushed(c)
              \/ tick.pc = "pushover" /\ c = Phone /\ tick'.pc = "mark"
  <2>1. CASE Push
    BY <1>1, <2>1 DEF Push, PushOk, PushExpired, PushFails, Places
  <2>2. CASE Pushover
    BY <2>2 DEF Pushover, At
  <2>3. CASE (Prefs /\ ~Skip) \/ PushDone
    BY <2>3 DEF Prefs, PushDone
  <2> QED BY <2>1, <2>2, <2>3
<1> DEFINE Counted(c) ==
      \A r \in Reminders, d \in Channels :
        reached'[r][d] = IF r = tick.r /\ d = c THEN reached[r][d] + 1 ELSE reached[r][d]
<1>6. /\ reached' \in [Reminders -> [Channels -> Nat]]
      /\ \/ reached' = reached
         \/ \E c \in Channels :
              /\ Counted(c)
              /\ \/ tick.pc = "push" /\ c \in tick.devices /\ tick' = Pushed(c)
                 \/ tick.pc = "pushover" /\ c = Phone /\ tick'.pc = "mark"
  <2>1. reached \in [Reminders -> [Channels -> Nat]]
    BY DEF TypeOK
  <2> QED BY <1>2, <1>5, <2>1, ReachIs
<1>7. TypeOK' /\ TickInv'
  <2>1. UNCHANGED <<clock, awake>>
    BY <1>2
  <2>2. TickInv'
    BY <1>2, <1>3 DEF TickInv
  <2>3. TypeOK'
    BY <1>1, <1>2, <1>3, <1>4, <1>6 DEF TypeOK, Places
  <2> QED BY <2>2, <2>3
<1>8. CASE reached' = reached
  <2>1. RestInv' /\ OnceEach' /\ MarkedWasSent'
    BY <1>1, <1>2, <1>3, <1>4, <1>8 DEF RestInv, OnceEach, MarkedWasSent
  <2>2. HereInv' /\ TriedInv'
    <3>1. CASE Prefs /\ ~Skip
      <4>1. tick.pc = "prefs" /\ tick' = [pc |-> "push", r |-> tick.r, todo |-> tick.todo, devices |-> subs[OwnerOf[tick.r]]]
        BY <3>1 DEF Prefs, Skip
      <4>2. subs[OwnerOf[tick.r]] = {} /\ OwnerOf[tick.r] \notin Opted => tick.r \in missed'
        BY <3>1 DEF Prefs, Skip
      <4>3. HereInv'
        BY <1>1, <1>2, <1>8, <4>1 DEF HereInv
      <4>4. TriedInv'
        BY <4>1, <4>2 DEF TriedInv, Tried
      <4> QED BY <4>3, <4>4
    <3>2. \A c \in Channels : ~Reach(c)
      <4> SUFFICES ASSUME NEW c \in Channels, Reach(c)
                   PROVE  FALSE
        OBVIOUS
      <4>1. reached \in [Reminders -> [Channels -> Nat]]
        BY DEF TypeOK
      <4>2. reached'[tick.r][c] = reached[tick.r][c] + 1
        BY <1>2, <4>1, ReachIs
      <4>3. reached[tick.r][c] \in Nat
        BY <1>2, <4>1
      <4> QED BY <1>8, <4>2, <4>3
    <3>3. CASE Push
      <4>1. PICK d \in tick.devices : PushExpired(d) \/ PushFails
        BY <1>1, <3>2, <3>3 DEF Push, PushOk, Places
      <4>2. tick.pc = "push" /\ tick.r \in missed'
        BY <3>3, <4>1 DEF Push, PushExpired, PushFails
      <4>3. TriedInv'
        BY <1>3, <4>2 DEF TriedInv, Tried
      <4>4. tick'.pc # "push" \/ tick' = Pushed(d)
        BY <4>1 DEF PushExpired, PushFails, AfterPush, At
      <4>5. HereInv'
        BY <1>1, <1>2, <1>3, <1>8, <4>2, <4>4 DEF HereInv, Pushed, Places
      <4> QED BY <4>3, <4>5
    <3>4. CASE PushDone
      <4>1. /\ tick.pc = "push" /\ tick.devices = {} /\ missed' = missed
            /\ tick' = IF OwnerOf[tick.r] \in Opted THEN At("pushover") ELSE At("mark")
        BY <3>4 DEF PushDone, AfterPush
      <4>2. HereInv'
        BY <1>1, <1>2, <1>3, <1>8, <4>1 DEF HereInv, At
      <4>3. TriedInv'
        BY <1>1, <1>3, <1>8, <4>1 DEF TriedInv, Tried, At
      <4> QED BY <4>2, <4>3
    <3>5. CASE Pushover
      <4>1. tick'.pc = "mark" /\ tick.r \in missed'
        BY <3>2, <3>5 DEF Pushover, At
      <4> QED BY <1>3, <4>1 DEF HereInv, TriedInv, Tried
    <3> QED BY <3>1, <3>3, <3>4, <3>5
  <2> QED BY <1>7, <2>1, <2>2
<1>9. ASSUME NEW c \in Channels, Counted(c),
             \/ tick.pc = "push" /\ c \in tick.devices /\ tick' = Pushed(c)
             \/ tick.pc = "pushover" /\ c = Phone /\ tick'.pc = "mark"
      PROVE  IInv'
  <2>1. reached[tick.r][c] <= cuts[tick.r]
    BY <1>1, <1>9 DEF HereInv
  <2>2. \A r \in Reminders, d \in Channels : reached[r][d] \in Nat /\ reached'[r][d] \in Nat /\ cuts[r] \in Nat
    BY <1>6 DEF TypeOK
  <2>3. RestInv' /\ OnceEach'
    BY <1>1, <1>2, <1>3, <1>9, <2>1, <2>2 DEF RestInv, OnceEach
  <2>4. HereInv'
    <3>1. CASE tick.pc = "push"
      <4>1. tick'.pc = "push" /\ tick'.devices = tick.devices \ {c} /\ c # Phone
        BY <1>1, <1>9, <3>1 DEF Pushed, Places
      <4> QED BY <1>1, <1>2, <1>3, <1>9, <3>1, <4>1 DEF HereInv
    <3>2. CASE tick.pc = "pushover"
      BY <1>9, <3>2 DEF HereInv
    <3> QED BY <1>9, <3>1, <3>2
  <2>5. reached'[tick.r][c] > 0
    BY <1>2, <1>9, <2>2
  <2>6. TriedInv'
    BY <1>2, <1>3, <2>5 DEF TriedInv, Tried
  <2>7. MarkedWasSent'
    BY <1>2, <1>4, <1>9, <2>2 DEF MarkedWasSent
  <2> QED BY <1>7, <2>3, <2>4, <2>6, <2>7
<1> QED BY <1>6, <1>8, <1>9

\* A cut; people, devices and the clock.
LEMMA AroundInv ==
  ASSUME IInv,
         \/ Cut \/ Clock
         \/ \E r \in Reminders : Remind(r)
         \/ \E u \in Users : Clear(u) \/ Sleep(u) \/ Wake(u) \/ \E d \in Devices : Plug(u, d)
  PROVE  IInv'
<1> USE DEF IInv, world
<1>1. CASE Cut
  <2>1. tick.r \in Reminders /\ tick' = Idle /\ cuts' = [cuts EXCEPT ![tick.r] = @ + 1] /\ tick # Idle
    BY <1>1 DEF Cut, TickInv, Places
  <2>2. TypeOK'
    <3>1. MaxCuts \in Nat /\ cuts[tick.r] \in Nat /\ cuts[tick.r] < MaxCuts
      BY <1>1, <2>1 DEF Cut, TypeOK
    <3>2. cuts' \in [Reminders -> 0..MaxCuts]
      BY <2>1, <3>1 DEF TypeOK
    <3> QED BY <1>1, <2>1, <3>2 DEF Cut, TypeOK
  <2>3. \A r \in Reminders, c \in Channels :
          /\ reached[r][c] \in Nat /\ cuts[r] \in Nat /\ cuts'[r] \in Nat
          /\ cuts'[r] = IF r = tick.r THEN cuts[r] + 1 ELSE cuts[r]
    BY <2>1 DEF TypeOK
  <2>4. RestInv' /\ OnceEach'
    BY <1>1, <2>1, <2>3 DEF Cut, RestInv, OnceEach
  <2> QED BY <1>1, <2>1, <2>2, <2>4 DEF Cut, TickInv, HereInv, TriedInv, MarkedWasSent
<1>2. CASE Clock
  <2>1. clock \in Nat /\ clock' = clock + 1 /\ clock' \in 0..Cardinality(Reminders)
    BY <1>2, RemindersAssumption, RemindersAreNaturals DEF Clock, TypeOK
  <2>2. TypeOK'
    <3>1. tick' = tick /\ row' = row
      BY <1>2 DEF Clock
    <3>2. tick # Idle => \A q \in tick.todo \cup {tick.r} : q \in Nat
      BY RemindersAreNaturals DEF TickInv, Places
    <3>3. tick # Idle => tick.r <= clock' /\ \A q \in tick.todo : q <= clock'
      BY <2>1, <3>2 DEF TypeOK
    <3> QED BY <1>2, <2>1, <3>1, <3>3 DEF Clock, TypeOK
  <2> QED BY <1>2, <2>2 DEF Clock, TickInv, RestInv, HereInv, OnceEach, TriedInv, MarkedWasSent, Tried
<1>3. ASSUME NEW r \in Reminders, Remind(r)
      PROVE  IInv'
  <2>1. TypeOK'
    <3>1. row' = [row EXCEPT ![r] = "pending"] /\ row[r] = "none"
      BY <1>3 DEF Remind
    <3>2. UNCHANGED <<clock, subs, awake, tick, reached, missed, cuts>>
      BY <1>3 DEF Remind
    <3>3. tick # Idle => /\ row'[tick.r] # "none"
                        /\ \A q \in tick.todo : row'[q] \in {"pending", "cleared"}
      BY <3>1 DEF TypeOK, TickInv, Places
    <3>4. row' \in [Reminders -> {"none", "pending", "delivered", "cleared"}]
      BY <3>1 DEF TypeOK
    <3> QED BY <3>2, <3>3, <3>4 DEF TypeOK
  <2> QED BY <1>3, <2>1 DEF Remind, TypeOK, TickInv, RestInv, HereInv, OnceEach, TriedInv, MarkedWasSent, Tried
<1>4. ASSUME NEW u \in Users, Clear(u)
      PROVE  IInv'
  <2>1. TypeOK'
    <3>1. row' = [r \in Reminders |-> IF OwnerOf[r] = u /\ row[r] = "pending" THEN "cleared" ELSE row[r]]
      BY <1>4 DEF Clear
    <3>2. UNCHANGED <<clock, subs, awake, tick, reached, missed, cuts>>
      BY <1>4 DEF Clear
    <3>3. tick # Idle => /\ row'[tick.r] # "none"
                        /\ \A q \in tick.todo : row'[q] \in {"pending", "cleared"}
      BY <3>1 DEF TypeOK, TickInv, Places
    <3>4. row' \in [Reminders -> {"none", "pending", "delivered", "cleared"}]
      BY <3>1 DEF TypeOK
    <3> QED BY <3>2, <3>3, <3>4 DEF TypeOK
  <2> QED BY <1>4, <2>1 DEF Clear, TypeOK, TickInv, RestInv, HereInv, OnceEach, TriedInv, MarkedWasSent, Tried
<1>5. ASSUME NEW u \in Users, Sleep(u) \/ Wake(u)
      PROVE  IInv'
  BY <1>5 DEF Sleep, Wake, TypeOK, TickInv, RestInv, HereInv, OnceEach, TriedInv, MarkedWasSent, Tried
<1>6. ASSUME NEW u \in Users, NEW d \in Devices, Plug(u, d)
      PROVE  IInv'
  <2>1. subs' \in [Users -> SUBSET Devices]
    BY <1>6 DEF Plug, TypeOK
  <2>2. TypeOK'
    BY <1>6, <2>1 DEF Plug, TypeOK
  <2> QED BY <1>6, <2>2 DEF Plug, TickInv, RestInv, HereInv, OnceEach, TriedInv, MarkedWasSent, Tried
<1> QED BY <1>1, <1>2, <1>3, <1>4, <1>5, <1>6

\* The invariant is inductive.
THEOREM Invariant == Spec => []IInv
<1>1. IInv /\ [Next]_vars => IInv'
  <2>1. ASSUME IInv, UNCHANGED vars
        PROVE  IInv'
    BY <2>1 DEF vars, IInv, TypeOK, TickInv, RestInv, HereInv, OnceEach, TriedInv, MarkedWasSent, Tried
  <2> QED BY <2>1, TurnInv, SendInv, AroundInv DEF Next, Deliver, Skip
<1> QED BY <1>1, InitInv, PTL DEF Spec

\* Types: batches hold due reminders, in order, that were set before.
THEOREM TypeCorrect == Spec => []TypeOK
<1>1. IInv => TypeOK
  BY DEF IInv
<1> QED BY <1>1, Invariant, PTL

\* check_reminders sends a reminder to a device, or the phone, once and once more for
\* every time it was cut at it.
THEOREM SentOnce == Spec => []OnceEach
<1>1. IInv => OnceEach
  BY DEF IInv
<1> QED BY <1>1, Invariant, PTL

\* A reminder with delivered_at was sent, or a channel of its owner failed, or there
\* was none.
THEOREM MarkedIsTried == Spec => []MarkedWasSent
<1>1. IInv => MarkedWasSent
  BY DEF IInv
<1> QED BY <1>1, Invariant, PTL

\* A reminder deleted by /remind --clear does not come back when the delivery it fell
\* into ends.
THEOREM ClearedForGood == Spec => ClearedStays
<1>1. IInv /\ [Next]_vars => [\A r \in Reminders : row[r] = "cleared" => row'[r] = "cleared"]_vars
  <2> SUFFICES ASSUME IInv, Next, NEW r \in Reminders, row[r] = "cleared"
               PROVE  row'[r] = "cleared"
    OBVIOUS
  <2>1. row \in [Reminders -> {"none", "pending", "delivered", "cleared"}]
    BY DEF IInv, TypeOK
  <2>2. CASE Deliver \/ Cut \/ Clock
    BY <2>1, <2>2 DEF Deliver, Fetch, Prefs, Push, PushDone, Pushover, Mark, Cut, Clock, world
  <2>3. CASE \E q \in Reminders : Remind(q)
    BY <2>1, <2>3 DEF Remind
  <2>4. CASE \E u \in Users : Clear(u) \/ Sleep(u) \/ Wake(u) \/ \E d \in Devices : Plug(u, d)
    BY <2>1, <2>4 DEF Clear, Sleep, Wake, Plug
  <2> QED BY <2>2, <2>3, <2>4 DEF Next
<1> QED BY <1>1, Invariant, PTL DEF Spec, ClearedStays
-----------------------------------------------------------------------------
(* The safety half of AllDelivered.  That the job runs again and again, and  *)
(* that quiet hours end, is fairness; that no tick passes over a reminder    *)
(* which is due is not.                                                      *)

Alone(r) == \A q \in Reminders : Due(q) /\ q < r => OwnerOf[q] \in Sleepless

\* The batch holds the first due reminder whose owner ever wakes; it is worked off to
\* the end unless it is cut; and who had their turn is marked, cleared or in quiet hours.
NoneSkipped ==
  [][/\ Fetch =>
          \A r \in Reminders :
            Due(r) /\ OwnerOf[r] \notin Sleepless /\ Alone(r) => tick'.r = r \/ r \in tick'.todo
     /\ tick # Idle /\ ~Cut /\ tick.todo # {} =>
          tick' # Idle /\ tick.todo \subseteq tick'.todo \cup {tick'.r}
     /\ tick # Idle /\ ~Cut /\ (tick' = Idle \/ tick'.r # tick.r) =>
          row'[tick.r] # "pending" \/ (tick.pc = "prefs" /\ OwnerOf[tick.r] \notin awake)]_vars

\* Nothing of a batch is lost when the job turns to its next reminder.
LEMMA RestKeeps ==
  ASSUME NEW S \in SUBSET Reminders, S # {}
  PROVE  Rest(S) # Idle /\ Rest(S).r \in S /\ Rest(S).todo = S \ {Rest(S).r}
BY EarliestIsFirst DEF Rest

\* A due reminder behind none but held ones is within the limit of the SELECT.
LEMMA WithinLimit ==
  ASSUME NEW r \in Reminders, Due(r), Alone(r)
  PROVE  r \in First({q \in Reminders : Due(q)})
<1> DEFINE Before == {q \in {p \in Reminders : Due(p)} : q < r}
           Held == {q \in Reminders : OwnerOf[q] \in Sleepless}
<1>1. Before \subseteq Held
  BY DEF Alone
<1>2. IsFiniteSet(Held)
  BY RemindersAssumption, FS_Subset
<1> HIDE DEF Held
<1>3. IsFiniteSet(Before) /\ Cardinality(Before) <= Cardinality(Held)
  BY <1>1, <1>2, FS_Subset
<1>4. Cardinality(Before) \in Nat /\ Cardinality(Held) \in Nat
  BY <1>2, <1>3, FS_CardinalityType
<1>5. Cardinality(Held) < Limit
  BY HeldFit DEF Held
<1>6. Cardinality(Before) < Limit
  BY <1>3, <1>4, <1>5
<1> QED BY <1>6 DEF First

\* check_reminders passes over no reminder: as long as those held for ever leave room
\* in the batch, the next one that can be delivered has its turn in every tick that is
\* not cut before it.
THEOREM BatchReachesAll == Spec => NoneSkipped
<1> DEFINE Takes == Fetch =>
                      \A r \in Reminders :
                        Due(r) /\ OwnerOf[r] \notin Sleepless /\ Alone(r) => tick'.r = r \/ r \in tick'.todo
           Goes == tick # Idle /\ ~Cut /\ tick.todo # {} =>
                     tick' # Idle /\ tick.todo \subseteq tick'.todo \cup {tick'.r}
           Turns == tick # Idle /\ ~Cut /\ (tick' = Idle \/ tick'.r # tick.r) =>
                      row'[tick.r] # "pending" \/ (tick.pc = "prefs" /\ OwnerOf[tick.r] \notin awake)
<1>1. Takes
  <2> SUFFICES ASSUME Fetch, NEW r \in Reminders, Due(r), Alone(r)
               PROVE  tick'.r = r \/ r \in tick'.todo
    OBVIOUS
  <2> DEFINE S == First({q \in Reminders : Due(q)})
  <2>1. r \in S /\ S \in SUBSET Reminders
    BY WithinLimit DEF First
  <2>2. tick' = Rest(S)
    BY DEF Fetch
  <2> HIDE DEF S
  <2> QED BY <2>1, <2>2, RestKeeps
<1>2. ASSUME IInv, Next
      PROVE  Goes /\ Turns
  <2> SUFFICES ASSUME tick # Idle, ~Cut
               PROVE  /\ tick.todo # {} => tick' # Idle /\ tick.todo \subseteq tick'.todo \cup {tick'.r}
                      /\ tick' = Idle \/ tick'.r # tick.r =>
                           row'[tick.r] # "pending" \/ (tick.pc = "prefs" /\ OwnerOf[tick.r] \notin awake)
    OBVIOUS
  <2>1. tick \in Places /\ tick.r \in Reminders /\ tick.todo \in SUBSET Reminders
    BY <1>2 DEF IInv, TickInv, Places
  <2>2. row \in [Reminders -> {"none", "pending", "delivered", "cleared"}]
    BY <1>2 DEF IInv, TypeOK
  <2>3. CASE tick' = Rest(tick.todo) /\ (Skip \/ Mark)
    <3>1. tick.todo # {} => tick' # Idle /\ tick.todo \subseteq tick'.todo \cup {tick'.r}
      BY <2>1, <2>3, RestKeeps
    <3>2. row'[tick.r] # "pending" \/ (tick.pc = "prefs" /\ OwnerOf[tick.r] \notin awake)
      BY <2>1, <2>2, <2>3 DEF Skip, Prefs, Mark
    <3> QED BY <3>1, <3>2
  <2>4. CASE tick' # Idle /\ tick'.r = tick.r /\ tick'.todo = tick.todo
    BY <2>4
  <2>5. \/ tick' = Rest(tick.todo) /\ (Skip \/ Mark)
        \/ tick' # Idle /\ tick'.r = tick.r /\ tick'.todo = tick.todo
    <3>1. CASE Prefs
      BY <3>1 DEF Prefs, Skip
    <3>2. CASE Push
      BY <2>1, <3>2 DEF Push, PushOk, PushExpired, PushFails, Pushed, AfterPush, At, Places
    <3>3. CASE PushDone \/ Pushover
      BY <3>3 DEF PushDone, Pushover, AfterPush, At
    <3>4. CASE Mark
      BY <3>4 DEF Mark
    <3>5. CASE Clock
      BY <3>5 DEF Clock
    <3>6. CASE \/ \E r \in Reminders : Remind(r)
               \/ \E u \in Users : Clear(u) \/ Sleep(u) \/ Wake(u) \/ \E d \in Devices : Plug(u, d)
      BY <3>6 DEF Remind, Clear, Sleep, Wake, Plug
    <3> QED BY <1>2, <3>1, <3>2, <3>3, <3>4, <3>5, <3>6 DEF Next, Deliver, Fetch
  <2> QED BY <2>3, <2>4, <2>5
<1> HIDE DEF Takes, Goes, Turns
<1>3. IInv /\ [Next]_vars => [Takes /\ Goes /\ Turns]_vars
  BY <1>1, <1>2
<1> QED BY <1>3, Invariant, PTL DEF Spec, NoneSkipped, Takes, Goes, Turns
================================================================================
