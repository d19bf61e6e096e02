----------------------------- MODULE Reminders -----------------------------
(* Timed reminders: /remind and /remind --clear (router_engine.py), the job   *)
(* that delivers what is due every minute (alerts.py, check_reminders), and   *)
(* the notification service it calls, with quiet hours, a web push to every   *)
(* device of the owner and the shared Pushover account (notifications.py).    *)
(* People set, clear, sleep and come and go with their devices between any    *)
(* two awaits of a delivery.                                                  *)
EXTENDS Naturals, FiniteSets

CONSTANTS Reminders,                    \* in the order of deliver_at
          Users, OwnerOf, Devices,
          Opted,                        \* the users with Pushover switched on
          Sleepless,                    \* the users whose quiet hours never end
          Limit,                        \* of check_reminders' SELECT
          MaxSleeps, MaxCuts, MaxPlugs  \* bounds on the environment

ASSUME RemindersAssumption == IsFiniteSet(Reminders) /\ Reminders = 1..Cardinality(Reminders)
ASSUME UsersAssumption ==
  /\ OwnerOf \in [Reminders -> Users] /\ Opted \subseteq Users /\ Sleepless \subseteq Users
ASSUME BoundsAssumption ==
  Limit \in Nat \ {0} /\ {MaxSleeps, MaxCuts, MaxPlugs} \subseteq Nat

\* Reminders that are held for ever leave room in the batch for the others.
ASSUME HeldFit == Cardinality({r \in Reminders : OwnerOf[r] \in Sleepless}) < Limit

VARIABLES
  row,                                  \* of bh_reminders: none, pending, delivered or cleared
  clock,                                \* reminders 1..clock have come due
  subs,                                 \* bh_push_subscriptions: the devices of a user
  awake,                                \* the users outside their quiet hours
  tick,                                 \* where the running job is
  reached,                              \* how often a reminder came to a device or the shared phone
  missed,                               \* reminders with a channel that failed, or without any
  cuts, sleeps, plugs                   \* interrupted deliveries; bounds spent

vars == <<row, clock, subs, awake, tick, reached, missed, cuts, sleeps, plugs>>
world == <<clock, subs, awake, sleeps, plugs>>

Phone == "phone"
Channels == Devices \cup {Phone}
ASSUME DevicesAssumption == Phone \notin Devices
Idle == [pc |-> "idle"]
Due(r) == row[r] = "pending" /\ r <= clock

Init ==
  /\ row = [r \in Reminders |-> "none"] /\ clock = 0
  /\ subs \in [Users -> SUBSET Devices]
  /\ \A u, v \in Users : u # v => subs[u] \cap subs[v] = {}
  /\ awake = Users \ Sleepless
  /\ tick = Idle
  /\ reached = [r \in Reminders |-> [c \in Channels |-> 0]]
  /\ missed = {}
  /\ cuts = [r \in Reminders |-> 0] /\ sleeps = 0 /\ plugs = 0

-----------------------------------------------------------------------------
(* The job.  The scheduler runs one at a time.                               *)

First(S) == {r \in S : Cardinality({q \in S : q < r}) < Limit}
Earliest(S) == CHOOSE r \in S : \A q \in S : r <= q
Rest(todo) == IF todo = {} THEN Idle ELSE [pc |-> "prefs", r |-> Earliest(todo), todo |-> todo \ {Earliest(todo)}]
At(pc) == [pc |-> pc, r |-> tick.r, todo |-> tick.todo]

\* Mutant: delivered rows are selected again.
Fetch_All == tick = Idle /\ tick' = Rest(First({r \in 1..clock : row[r] \in {"pending", "delivered"}}))
             /\ tick' # Idle /\ UNCHANGED <<world, row, reached, missed, cuts>>

\* check_reminders: the ten earliest rows that are due and not delivered.
Fetch ==
  /\ tick = Idle
  /\ tick' = Rest(First({r \in Reminders : Due(r)})) /\ tick' # Idle
  /\ UNCHANGED <<world, row, reached, missed, cuts>>

\* Mutant: a user in quiet hours counts as attempted.
Prefs_Quiet ==
  LET owner == OwnerOf[tick.r] IN
  /\ tick.pc = "prefs"
  /\ IF owner \in awake
       THEN /\ tick' = [pc |-> "push", r |-> tick.r, todo |-> tick.todo, devices |-> subs[owner]]
            /\ missed' = IF subs[owner] = {} /\ owner \notin Opted THEN missed \cup {tick.r} ELSE missed
       ELSE tick' = At("mark") /\ UNCHANGED missed
  /\ UNCHANGED <<world, row, reached, cuts>>

\* Mutant: one held reminder ends the tick.
Prefs_Stops ==
  LET owner == OwnerOf[tick.r] IN
  /\ tick.pc = "prefs"
  /\ IF owner \in awake
       THEN /\ tick' = [pc |-> "push", r |-> tick.r, todo |-> tick.todo, devices |-> subs[owner]]
            /\ missed' = IF subs[owner] = {} /\ owner \notin Opted THEN missed \cup {tick.r} ELSE missed
       ELSE tick' = Idle /\ UNCHANGED missed
  /\ UNCHANGED <<world, row, reached, cuts>>

\* notify_users: an owner in quiet hours is skipped and the reminder held for a
\* later tick; otherwise the owner's devices are read.
Prefs ==
  LET owner == OwnerOf[tick.r] IN
  /\ tick.pc = "prefs"
  /\ IF owner \in awake
       THEN /\ tick' = [pc |-> "push", r |-> tick.r, todo |-> tick.todo, devices |-> subs[owner]]
            /\ missed' = IF subs[owner] = {} /\ owner \notin Opted THEN missed \cup {tick.r} ELSE missed
       ELSE tick' = Rest(tick.todo) /\ UNCHANGED missed
  /\ UNCHANGED <<world, row, reached, cuts>>

Reach(c) == reached' = [reached EXCEPT ![tick.r][c] = @ + 1]
AfterPush == IF OwnerOf[tick.r] \in Opted THEN At("pushover") ELSE At("mark")
Pushed(d) == [tick EXCEPT !.devices = @ \ {d}]

\* _send_web_push, one device: taken, expired and unsubscribed, or an error, which
\* leaves the devices after it without the push.  (The pushes are one step of the
\* event loop unless one has expired; here each is a step of its own.)
PushOk(d) ==
  /\ Reach(d) /\ tick' = Pushed(d) /\ UNCHANGED <<subs, missed>>
PushExpired(d) ==
  /\ subs' = [subs EXCEPT ![OwnerOf[tick.r]] = @ \ {d}]
  /\ tick' = Pushed(d) /\ missed' = missed \cup {tick.r} /\ UNCHANGED reached
PushFails ==
  /\ tick' = AfterPush /\ missed' = missed \cup {tick.r} /\ UNCHANGED <<subs, reached>>

Push ==
  /\ tick.pc = "push" /\ tick.devices # {}
  /\ \E d \in tick.devices : PushOk(d) \/ PushExpired(d) \/ PushFails
  /\ UNCHANGED <<row, clock, awake, sleeps, plugs, cuts>>

PushDone ==
  /\ tick.pc = "push" /\ tick.devices = {}
  /\ tick' = AfterPush
  /\ UNCHANGED <<world, row, reached, missed, cuts>>

\* send_pushover: the shared account, when the owner wants it.
Pushover ==
  /\ tick.pc = "pushover"
  /\ \/ Reach(Phone) /\ UNCHANGED missed
     \/ missed' = missed \cup {tick.r} /\ UNCHANGED reached
  /\ tick' = At("mark")
  /\ UNCHANGED <<world, row, cuts>>

\* Mutant: the row is written back as it was read, also when it was cleared since.
Mark_Upsert ==
  /\ tick.pc = "mark"
  /\ row' = [row EXCEPT ![tick.r] = "delivered"]
  /\ tick' = Rest(tick.todo)
  /\ UNCHANGED <<world, reached, missed, cuts>>

\* attempted > 0: delivered_at is set, whatever the channels answered.
Mark ==
  /\ tick.pc = "mark"
  /\ row' = [row EXCEPT ![tick.r] = IF @ = "pending" THEN "delivered" ELSE @]
  /\ tick' = Rest(tick.todo)
  /\ UNCHANGED <<world, reached, missed, cuts>>

\* A query raises, or the process restarts: the job is over, and the reminder it was
\* at stays pending.
Cut ==
  /\ tick # Idle /\ cuts[tick.r] < MaxCuts
  /\ cuts' = [cuts EXCEPT ![tick.r] = @ + 1]
  /\ tick' = Idle
  /\ UNCHANGED <<world, row, reached, missed>>

-----------------------------------------------------------------------------
(* People and time                                                           *)

\* /remind: the parser only gives times that are still to come.
Remind(r) ==
  /\ row[r] = "none" /\ r > clock
  /\ row' = [row EXCEPT ![r] = "pending"]
  /\ UNCHANGED <<world, tick, reached, missed, cuts>>

\* /remind --clear deletes all that is not delivered, due or not.
Clear(u) ==
  /\ \E r \in Reminders : OwnerOf[r] = u /\ row[r] = "pending"
  /\ row' = [r \in Reminders |-> IF OwnerOf[r] = u /\ row[r] = "pending" THEN "cleared" ELSE row[r]]
  /\ UNCHANGED <<world, tick, reached, missed, cuts>>

Clock ==
  /\ clock + 1 \in Reminders /\ clock' = clock + 1
  /\ UNCHANGED <<row, subs, awake, sleeps, plugs, tick, reached, missed, cuts>>

Sleep(u) ==
  /\ u \in awake /\ sleeps < MaxSleeps
  /\ awake' = awake \ {u} /\ sleeps' = sleeps + 1
  /\ UNCHANGED <<row, clock, subs, plugs, tick, reached, missed, cuts>>

Wake(u) ==
  /\ u \notin awake /\ u \notin Sleepless
  /\ awake' = awake \cup {u}
  /\ UNCHANGED <<row, clock, subs, sleeps, plugs, tick, reached, missed, cuts>>

\* push_subscribe and push_unsubscribe of one device.
Plug(u, d) ==
  /\ plugs < MaxPlugs /\ plugs' = plugs + 1
  /\ \A v \in Users \ {u} : d \notin subs[v]
  /\ subs' = [subs EXCEPT ![u] = IF d \in @ THEN @ \ {d} ELSE @ \cup {d}]
  /\ UNCHANGED <<row, clock, awake, sleeps, tick, reached, missed, cuts>>

Deliver == Fetch \/ Prefs \/ Push \/ PushDone \/ Pushover \/ Mark

Next ==
  \/ Deliver \/ Cut \/ Clock
  \/ \E r \in Reminders : Remind(r)
  \/ \E u \in Users : Clear(u) \/ Sleep(u) \/ Wake(u) \/ \E d \in Devices : Plug(u, d)

Spec == Init /\ [][Next]_vars

\* The job runs every minute and each of its calls returns, time passes, and quiet
\* hours end, but for the sleepless.  Nobody has to set or clear anything.
FairSpec ==
  /\ Spec /\ WF_vars(Deliver) /\ WF_vars(Clock)
  /\ \A u \in Users : WF_vars(Wake(u))

-----------------------------------------------------------------------------
(* Properties                                                                *)

TypeOK ==
  /\ row \in [Reminders -> {"none", "pending", "delivered", "cleared"}]
  /\ clock \in 0..Cardinality(Reminders)
  /\ subs \in [Users -> SUBSET Devices] /\ awake \subseteq Users
  /\ \/ tick = Idle
     \/ /\ tick.pc \in {"prefs", "push", "pushover", "mark"}
        /\ tick.r <= clock /\ row[tick.r] # "none"
        /\ \A q \in tick.todo : tick.r < q /\ q <= clock /\ row[q] \in {"pending", "cleared"}
        /\ tick.pc = "push" => tick.devices \subseteq Devices
  /\ reached \in [Reminders -> [Channels -> Nat]]
  /\ missed \subseteq Reminders /\ cuts \in [Reminders -> 0..MaxCuts]

\* A reminder comes to a device, or to the shared phone, once, and once more for each
\* time the job was cut at it: ticks, held reminders and devices that come and go
\* while it runs repeat nothing.
OnceEach == \A r \in Reminders, c \in Channels : reached[r][c] <= 1 + cuts[r]

\* A reminder that is marked delivered, and left out of every later tick, came to
\* someone, or a channel failed, or its owner has none.
MarkedWasSent ==
  \A r \in Reminders :
    row[r] = "delivered" =>
      \/ r \in missed
      \/ \E c \in Channels : reached[r][c] > 0

\* What was cleared is not brought back by the delivery it fell into.
ClearedStays == [][\A r \in Reminders : row[r] = "cleared" => row'[r] = "cleared"]_vars

\* "Deliver any reminders whose time has come": the owner is reached or at least
\* tried, however long the reminders of others are held, as long as they leave room
\* in the batch (HeldFit).
AllDelivered == \A r \in Reminders : OwnerOf[r] \notin Sleepless => (Due(r) ~> ~Due(r))
=============================================================================
