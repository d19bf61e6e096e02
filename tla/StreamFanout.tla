---------------------------- MODULE StreamFanout ----------------------------
(* WebSocketManager (backend/websocket/manager.py): the connections of one   *)
(* user and the events streamed to them.  stream_to_user walks the live list *)
(* self.connections[user_id] by position and awaits each send, so sockets    *)
(* come and go under it.  A list that becomes empty is deleted from the      *)
(* dictionary; a walk that still holds it finds nothing more in it.          *)
EXTENDS Naturals, Sequences, FiniteSets, Functions

CONSTANTS Sockets,                      \* connections a user opens, each one once
          Events                        \* calls of stream_to_user

VARIABLES
  conns,                                \* connections[user_id], <<>> when absent
  gen,                                  \* which list object that is
  sock,                                 \* new, open, lost (peer gone), ended (finally ran)
  walk,                                 \* the progress of each call
  got,                                  \* got[e][s]: times s was sent e
  disturbed                             \* disturbed[e]: others removed a socket while e walked

vars == <<conns, gen, sock, walk, got, disturbed>>

Idle == [pc |-> "idle", gen |-> 0, next |-> 1, ws |-> {}, dead |-> {}, start |-> {}]

Init ==
  /\ conns = <<>> /\ gen = 0
  /\ sock = [s \in Sockets |-> "new"]
  /\ walk = [e \in Events |-> Idle]
  /\ got = [e \in Events |-> [s \in Sockets |-> 0]]
  /\ disturbed = [e \in Events |-> FALSE]

Registered == Range(conns)

\* Mutant: a new device is put first.
Connect_First(s) ==
  /\ sock[s] = "new"
  /\ sock' = [sock EXCEPT ![s] = "open"]
  /\ conns' = <<s>> \o conns
  /\ UNCHANGED <<gen, walk, got, disturbed>>

\* Mutant: manager.connect() appends it, and so does the handler.
Connect_Twice(s) ==
  /\ sock[s] = "new"
  /\ sock' = [sock EXCEPT ![s] = "open"]
  /\ conns' = conns \o <<s, s>>
  /\ UNCHANGED <<gen, walk, got, disturbed>>

\* connections.setdefault(user_id, []).append(websocket), after the auth message.
Connect(s) ==
  /\ sock[s] = "new"
  /\ sock' = [sock EXCEPT ![s] = "open"]
  /\ conns' = Append(conns, s)
  /\ UNCHANGED <<gen, walk, got, disturbed>>

\* The peer is gone: sends to it may fail from now on.
Lose(s) ==
  /\ sock[s] = "open"
  /\ sock' = [sock EXCEPT ![s] = "lost"]
  /\ UNCHANGED <<conns, gen, walk, got, disturbed>>

\* list.remove() of each socket of gone that is listed: place j of the list that
\* is left has the j-th of the sockets that stay.
Without(list, gone) ==
  LET kept == {i \in DOMAIN list : list[i] \notin gone}
      Place(i) == Cardinality({k \in kept : k <= i})
  IN [j \in 1 .. Cardinality(kept) |-> list[CHOOSE i \in kept : Place(i) = j]]

\* disconnect() of each socket of gone, under the walks of `others`; a list that
\* is emptied is deleted.
Disconnect(gone, others) ==
  /\ conns' = Without(conns, gone)
  /\ gen' = IF conns # <<>> /\ Registered \subseteq gone THEN gen + 1 ELSE gen
  /\ disturbed' = [e \in Events |->
        \/ disturbed[e]
        \/ e \in others /\ walk[e].pc = "send" /\ gone \cap Registered # {}]

\* The finally of websocket_chat_handler.
HandlerEnds(s) ==
  /\ sock[s] = "lost"
  /\ sock' = [sock EXCEPT ![s] = "ended"]
  /\ Disconnect({s}, Events)
  /\ UNCHANGED <<walk, got>>

\* Mutant: a failed send drops whoever stands first by the time of the cleanup.
CleanUp_ByPosition(e, dead) ==
  Disconnect(IF dead = {} \/ conns = <<>> THEN {} ELSE {conns[1]}, Events \ {e})

\* After the loop, what e found dead is disconnected.
CleanUp(e, dead) == Disconnect(dead, Events \ {e})

\* Mutant: the last position is left out.
Proceed_Short(e, w) ==
  IF w.next < Len(conns) /\ w.gen = gen
  THEN /\ walk' = [walk EXCEPT ![e] =
             [w EXCEPT !.pc = "send", !.ws = {conns[w.next]}, !.next = @ + 1]]
       /\ UNCHANGED <<conns, gen, disturbed>>
  ELSE /\ walk' = [walk EXCEPT ![e] =
             [Idle EXCEPT !.pc = "done", !.start = w.start, !.dead = w.dead]]
       /\ CleanUp(e, w.dead)

\* The for loop: on to the socket at the next position of the list it holds,
\* or, past the end of it, the dead connections are disconnected.
Proceed(e, w) ==
  IF w.next <= Len(conns) /\ w.gen = gen
  THEN /\ walk' = [walk EXCEPT ![e] =
             [w EXCEPT !.pc = "send", !.ws = {conns[w.next]}, !.next = @ + 1]]
       /\ UNCHANGED <<conns, gen, disturbed>>
  ELSE /\ walk' = [walk EXCEPT ![e] =
             [Idle EXCEPT !.pc = "done", !.start = w.start, !.dead = w.dead]]
       /\ CleanUp(e, w.dead)

Begin(e) ==
  /\ walk[e].pc = "idle"
  /\ Proceed(e, [Idle EXCEPT !.gen = gen, !.start = Registered])
  /\ UNCHANGED <<sock, got>>

\* send_json returns, or raises when the peer is gone.
Send(e) ==
  /\ walk[e].pc = "send"
  /\ \E s \in walk[e].ws :
       \/ got' = [got EXCEPT ![e][s] = @ + 1] /\ Proceed(e, walk[e])
       \/ /\ sock[s] # "open"
          /\ Proceed(e, [walk[e] EXCEPT !.dead = @ \cup {s}])
          /\ UNCHANGED got
  /\ UNCHANGED sock

\* The task that streams is cancelled in the await of send_json: the except
\* Exception does not catch it and nothing is cleaned up.
Abort(e) ==
  /\ walk[e].pc = "send"
  /\ walk' = [walk EXCEPT ![e] = [Idle EXCEPT !.pc = "aborted"]]
  /\ UNCHANGED <<conns, gen, sock, got, disturbed>>

Next ==
  \/ \E s \in Sockets : Connect(s) \/ Lose(s) \/ HandlerEnds(s)
  \/ \E e \in Events : Begin(e) \/ Send(e) \/ Abort(e)

Spec == Init /\ [][Next]_vars

-----------------------------------------------------------------------------
TypeOK ==
  /\ conns \in Seq(Sockets) /\ IsInjective(conns) /\ gen \in Nat
  /\ sock \in [Sockets -> {"new", "open", "lost", "ended"}]
  /\ walk \in [Events -> [pc : {"idle", "send", "done", "aborted"},
                          gen : Nat, next : Nat \ {0}, ws : SUBSET Sockets,
                          dead : SUBSET Sockets, start : SUBSET Sockets]]
  /\ got \in [Events -> [Sockets -> Nat]]
  /\ disturbed \in [Events -> BOOLEAN]

\* However the list changes under a walk, no device is sent an event twice (a
\* token twice would garble the streamed text).
AtMostOnce == \A e \in Events, s \in Sockets : got[e][s] <= 1

\* The list is exact for the devices that still have a peer, and forgets a
\* socket for good when its handler ended, even when a walk that found it dead
\* cleans up later.
ListIsExact ==
  \A s \in Sockets :
    /\ sock[s] = "open" => s \in Registered
    /\ sock[s] \in {"new", "ended"} => s \notin Registered

\* As long as no socket is removed under it, a walk has sent the event to every
\* device that was listed when it began, or found it dead.
CompleteWhenUndisturbed ==
  \A e \in Events :
    walk[e].pc = "done" /\ ~disturbed[e] =>
      \A s \in walk[e].start : got[e][s] = 1 \/ s \in walk[e].dead
=============================================================================
