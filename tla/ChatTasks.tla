------------------------------ MODULE ChatTasks ------------------------------
(* The chat sockets of one user and the response tasks they start            *)
(* (backend/websocket/handlers.py).                                          *)
(*                                                                           *)
(* The program is one asyncio process: code between two awaits is atomic, so *)
(* an action runs from one await to the next.  A task that is cancelled sees *)
(* the CancelledError when it next runs, at the await it is suspended in.    *)
(* Done callbacks are scheduled when a task ends and run later.  Keys of     *)
(* _active_tasks hold the user id, so the tasks of two users never meet and  *)
(* one user is enough.                                                       *)
EXTENDS Naturals, Sequences

CONSTANTS Sockets,                      \* the devices of the user
          Convs,                        \* conversations that exist
          NoConv,                       \* conversation_id missing, or of no row
          MaxTasks                      \* bound: messages dispatched in a behaviour

ASSUME NoConvAssumption == NoConv \notin Convs
ASSUME MaxTasksAssumption == MaxTasks \in Nat

VARIABLES
  sock,                                 \* where the receive loop of a socket is
  pend,                                 \* the message it is holding
  active,                               \* _active_tasks of this user
  used,                                 \* tasks created so far
  conv, pc, cancel,                     \* a task's conversation, await, pending cancel()
  inner,                                \* its shielded _persist_and_notify()
  rows,                                 \* its rows in bh_messages
  sent                                  \* its events on the sockets

sockVars == <<sock, pend>>
taskVars == <<conv, pc, cancel, inner, rows, sent>>
vars == <<sock, pend, active, used, conv, pc, cancel, inner, rows, sent>>

Tasks == 1 .. MaxTasks
NoTask == 0
Awaiting == {"ready", "load", "saveUser", "route", "persist",
             "saveReply", "complete", "hooks"}
Done == {"finished", "gone"}            \* gone: the done callback ran too
Pcs == {"unused"} \cup Awaiting \cup Done

TypeOK ==
  /\ sock \in [Sockets -> {"closed", "open", "reload"}]
  /\ pend \in [Sockets -> Convs \cup {NoConv}]
  /\ active \in [Convs -> Tasks \cup {NoTask}]
  /\ used \in 0 .. MaxTasks
  /\ conv \in [Tasks -> Convs \cup {NoConv}]
  /\ pc \in [Tasks -> Pcs]
  /\ cancel \in [Tasks -> BOOLEAN]
  /\ inner \in [Tasks -> {"none", "insert", "notify", "done", "failed"}]
  /\ rows \in [Tasks -> {<<>>, <<"user">>, <<"user", "reply">>, <<"user", "cancelled">>}]
  /\ sent \in [Tasks -> SUBSET {"typing", "complete", "error", "cancelled", "hooks"}]

Init ==
  /\ sock = [s \in Sockets |-> "closed"]
  /\ pend = [s \in Sockets |-> NoConv]
  /\ active = [c \in Convs |-> NoTask]
  /\ used = 0
  /\ conv = [t \in Tasks |-> NoConv]
  /\ pc = [t \in Tasks |-> "unused"]
  /\ cancel = [t \in Tasks |-> FALSE]
  /\ inner = [t \in Tasks |-> "none"]
  /\ rows = [t \in Tasks |-> <<>>]
  /\ sent = [t \in Tasks |-> {}]

-----------------------------------------------------------------------------
(* The receive loop of a socket.                                             *)

\* First message: the token is valid and the user is active, or the socket
\* is closed again at once, which leaves the state as it was.
Connect(s) ==
  /\ sock[s] = "closed"
  /\ sock' = [sock EXCEPT ![s] = "open"]
  /\ UNCHANGED <<pend, active, used, taskVars>>

\* The client goes away, or sends what is not JSON: the handler ends, and the
\* tasks it started run on.
Disconnect(s) ==
  /\ sock[s] = "open"
  /\ sock' = [sock EXCEPT ![s] = "closed"]
  /\ UNCHANGED <<pend, active, used, taskVars>>

\* A "message" arrives: the loop waits for get_user_by_id.
Receive(s, c) ==
  /\ sock[s] = "open"
  /\ sock' = [sock EXCEPT ![s] = "reload"]
  /\ pend' = [pend EXCEPT ![s] = c]
  /\ UNCHANGED <<active, used, taskVars>>

\* The user is gone or deactivated by now: the socket is closed.
Refuse(s) ==
  /\ sock[s] = "reload"
  /\ sock' = [sock EXCEPT ![s] = "closed"]
  /\ pend' = [pend EXCEPT ![s] = NoConv]
  /\ UNCHANGED <<active, used, taskVars>>

\* The task this conversation is answering with, if it is not done.
Running(c) == {t \in Tasks : c \in Convs /\ active[c] = t /\ pc[t] \notin Done}

\* Replace the task of the conversation: pop it, cancel it, start the new one
\* and remember it.  A message with no conversation starts an unknown task.
Dispatch(s) ==
  /\ sock[s] = "reload" /\ used < MaxTasks
  /\ LET c == pend[s]
         t == used + 1
     IN /\ used' = t
        /\ pc' = [pc EXCEPT ![t] = "ready"]
        /\ conv' = [conv EXCEPT ![t] = c]
        /\ cancel' = [u \in Tasks |-> cancel[u] \/ u \in Running(c)]
        /\ active' = [d \in Convs |-> IF d = c THEN t ELSE active[d]]
  /\ sock' = [sock EXCEPT ![s] = "open"]
  /\ pend' = [pend EXCEPT ![s] = NoConv]
  /\ UNCHANGED <<inner, rows, sent>>

\* A "cancel" message; when nothing runs the answer says so.
Cancel(s, c) ==
  /\ sock[s] = "open" /\ Running(c) # {}
  /\ cancel' = [t \in Tasks |-> cancel[t] \/ t \in Running(c)]
  /\ UNCHANGED <<sockVars, active, used, conv, pc, inner, rows, sent>>

-----------------------------------------------------------------------------
(* handle_chat_message, from one await to the next.                          *)

At(t, p) == pc[t] = p /\ ~cancel[t]
Goto(t, p) == pc' = [pc EXCEPT ![t] = p]
Emit(t, e) == sent' = [sent EXCEPT ![t] = @ \cup {e}]
StoreRow(t, kind) == rows' = [rows EXCEPT ![t] = Append(@, kind)]
Fixed == UNCHANGED <<sockVars, active, used, conv, cancel>>

\* Empty or too long content is answered with an error.
Start(t) ==
  /\ At(t, "ready")
  /\ \/ Goto(t, "load") /\ Emit(t, "typing")
     \/ Goto(t, "finished") /\ Emit(t, "error")
  /\ Fixed /\ UNCHANGED <<inner, rows>>

\* Conversation and workspace rows.
Load(t) ==
  /\ At(t, "load")
  /\ \/ conv[t] # NoConv /\ Goto(t, "saveUser") /\ UNCHANGED sent
     \/ Goto(t, "finished") /\ Emit(t, "error")
  /\ Fixed /\ UNCHANGED <<inner, rows>>

SaveUser(t) ==
  /\ At(t, "saveUser") /\ Goto(t, "route") /\ StoreRow(t, "user")
  /\ Fixed /\ UNCHANGED <<inner, sent>>

\* Mutant: the reply is sent before it is stored.
Route_SendsFirst(t) ==
  /\ At(t, "route") /\ Goto(t, "complete")
  /\ Fixed /\ UNCHANGED <<inner, rows, sent>>

\* router.route returns a result, or raises and the user is told.
Route(t) ==
  /\ At(t, "route")
  /\ \/ Goto(t, "saveReply") /\ UNCHANGED sent
     \/ Goto(t, "finished") /\ Emit(t, "error")
  /\ Fixed /\ UNCHANGED <<inner, rows>>

SaveReply(t) ==
  /\ At(t, "saveReply") /\ Goto(t, "complete") /\ StoreRow(t, "reply")
  /\ Fixed /\ UNCHANGED <<inner, sent>>

Complete(t) ==
  /\ At(t, "complete") /\ Goto(t, "hooks") /\ Emit(t, "complete")
  /\ Fixed /\ UNCHANGED <<inner, rows>>

Hooks(t) ==
  /\ At(t, "hooks") /\ Goto(t, "finished") /\ Emit(t, "hooks")
  /\ Fixed /\ UNCHANGED <<inner, rows>>

\* The INSERT a task waits for commits on its own: when the wait is cut short, its
\* row may be stored or not.
Interrupted(t) ==
  \/ UNCHANGED rows
  \/ pc[t] = "saveUser" /\ StoreRow(t, "user")
  \/ pc[t] = "saveReply" /\ StoreRow(t, "reply")

\* A database error outside the try around route ends the task silently; the
\* UPDATE after the INSERT of the user's row, or an INSERT's answer, may be what fails.
DbError(t) ==
  /\ ~cancel[t] /\ pc[t] \in {"load", "saveUser", "saveReply"}
  /\ Goto(t, "finished") /\ Interrupted(t)
  /\ Fixed /\ UNCHANGED <<inner, sent>>

\* Mutant: the try covers the INSERT of the reply too.
CancelRoute_Wide(t) ==
  /\ cancel[t] /\ pc[t] \in {"route", "saveReply"}
  /\ Goto(t, "persist")
  /\ inner' = [inner EXCEPT ![t] = "insert"]
  /\ cancel' = [cancel EXCEPT ![t] = FALSE]
  /\ UNCHANGED rows \/ (pc[t] = "saveReply" /\ StoreRow(t, "reply"))
  /\ UNCHANGED <<sockVars, active, used, conv, sent>>

\* CancelledError in the await of router.route: the marker is persisted by a
\* shielded task of its own, which the routing task waits for.
CancelRoute(t) ==
  /\ cancel[t] /\ pc[t] = "route"
  /\ Goto(t, "persist")
  /\ inner' = [inner EXCEPT ![t] = "insert"]
  /\ cancel' = [cancel EXCEPT ![t] = FALSE]
  /\ UNCHANGED <<sockVars, active, used, conv, rows, sent>>

\* Mutant: no asyncio.shield, so a second cancel stops the marker too.
CancelElsewhere_Unshielded(t) ==
  /\ cancel[t] /\ pc[t] \in Awaiting \ {"route"}
  /\ Goto(t, "finished")
  /\ cancel' = [cancel EXCEPT ![t] = FALSE]
  /\ inner' = [inner EXCEPT ![t] = IF @ = "insert" THEN "none" ELSE @]
  /\ UNCHANGED <<sockVars, active, used, conv, rows, sent>>

\* CancelledError anywhere else ends the task.
CancelElsewhere(t) ==
  /\ cancel[t] /\ pc[t] \in Awaiting \ {"route"}
  /\ Goto(t, "finished")
  /\ cancel' = [cancel EXCEPT ![t] = FALSE]
  /\ Interrupted(t)
  /\ UNCHANGED <<sockVars, active, used, conv, inner, sent>>

InnerInsert(t) ==
  /\ inner[t] = "insert"
  /\ inner' = [inner EXCEPT ![t] = "notify"]
  /\ StoreRow(t, "cancelled")
  /\ Fixed /\ UNCHANGED <<pc, sent>>

InnerError(t) ==
  /\ inner[t] = "insert"
  /\ inner' = [inner EXCEPT ![t] = "failed"]
  /\ Fixed /\ UNCHANGED <<pc, rows, sent>>

InnerNotify(t) ==
  /\ inner[t] = "notify"
  /\ inner' = [inner EXCEPT ![t] = "done"]
  /\ Emit(t, "cancelled")
  /\ Fixed /\ UNCHANGED <<pc, rows>>

\* Mutant: a failed INSERT of the marker is not caught.
PersistReturns_OnlyDone(t) ==
  /\ At(t, "persist") /\ inner[t] = "done"
  /\ Goto(t, "finished")
  /\ Fixed /\ UNCHANGED <<inner, rows, sent>>

\* The shield returns or raises; either way the CancelledError goes on.
PersistReturns(t) ==
  /\ At(t, "persist") /\ inner[t] \in {"done", "failed"}
  /\ Goto(t, "finished")
  /\ Fixed /\ UNCHANGED <<inner, rows, sent>>

\* Mutant: no done callback.
DoneCallback_None(t) ==
  /\ pc[t] = "finished" /\ Goto(t, "gone")
  /\ Fixed /\ UNCHANGED <<inner, rows, sent>>

\* add_done_callback(lambda t: _active_tasks.pop(key, None)): whatever task
\* the key names by now is forgotten.  Tasks with no key have no callback.
DoneCallback(t) ==
  /\ pc[t] = "finished" /\ Goto(t, "gone")
  /\ active' = [c \in Convs |-> IF c = conv[t] THEN NoTask ELSE active[c]]
  /\ UNCHANGED <<sockVars, used, conv, cancel, inner, rows, sent>>

TaskStep(t) ==
  \/ Start(t) \/ Load(t) \/ SaveUser(t) \/ Route(t) \/ SaveReply(t)
  \/ Complete(t) \/ Hooks(t) \/ CancelRoute(t) \/ CancelElsewhere(t)
  \/ PersistReturns(t) \/ DoneCallback(t)

InnerStep(t) == InnerInsert(t) \/ InnerError(t) \/ InnerNotify(t)

Next ==
  \/ \E s \in Sockets : Connect(s) \/ Disconnect(s) \/ Refuse(s) \/ Dispatch(s)
  \/ \E s \in Sockets, c \in Convs \cup {NoConv} : Receive(s, c) \/ Cancel(s, c)
  \/ \E t \in Tasks : TaskStep(t) \/ InnerStep(t) \/ DbError(t)

Spec == Init /\ [][Next]_vars

\* The event loop resumes what is ready, and every await of the program returns
\* (an HTTP client times out; a database that hangs is outside the model).
\* Nothing is assumed of the user, of who sends what, or of the failures.
Fairness == \A t \in Tasks : WF_vars(TaskStep(t)) /\ WF_vars(InnerStep(t))

FairSpec == Spec /\ Fairness

-----------------------------------------------------------------------------
(* Properties.                                                               *)

\* What the user sees in the chat is what a reload shows: a complete event, and
\* the message_received hooks, come after the stored reply, and a cancelled
\* event sent by the task comes after the stored marker, even when a second
\* cancel interrupts the shielded wait.
ShownIsStored ==
  \A t \in Tasks :
    /\ sent[t] \cap {"complete", "hooks"} # {} => rows[t] = <<"user", "reply">>
    /\ "cancelled" \in sent[t] => rows[t] = <<"user", "cancelled">>

\* _active_tasks names the newest task of the conversation or none: a "cancel"
\* never finds an earlier response, nor one whose done callback has run.
TableNamesNewest ==
  \A c \in Convs : active[c] # NoTask =>
    /\ conv[active[c]] = c /\ pc[active[c]] # "gone"
    /\ \A t \in 1 .. used : conv[t] = c => t <= active[c]

\* "If a previous response is still running for this conversation, cancel it so
\* we don't end up with overlapping responses."
Producing(t) == pc[t] \in Awaiting \ {"persist", "hooks"} /\ ~cancel[t]
NoOverlap ==
  \A t, u \in Tasks : Producing(t) /\ Producing(u) /\ conv[t] = conv[u] /\ conv[t] # NoConv => t = u

\* A response cancelled while it was routing leaves the marker in the history,
\* unless the INSERT itself fails: a second cancel cannot undo the first.
CancelLeavesMarker ==
  \A t \in Tasks : (pc[t] = "persist") ~> ("cancelled" \in sent[t] \/ inner[t] = "failed")

\* Every response comes to its end and its table entry is released.
ResponsesEnd == \A t \in Tasks : (pc[t] = "ready") ~> (pc[t] = "gone")

\* The history of every message is that of the abstract transcript.
History == INSTANCE Transcript WITH Msgs <- Tasks
TranscriptSpec == History!Spec
=============================================================================
