--------------------------- MODULE ChatTasksProofs ---------------------------
(* For any number of devices, conversations and messages: the types of       *)
(* ChatTasks, what is shown is stored, the task table, and the refinement of *)
(* Transcript; then what it takes for two responses to overlap, and the      *)
(* safety that the liveness properties rest on.                              *)
(*                                                                           *)
(* The types alone are not inductive: that the second row of a message is an *)
(* answer needs to know how far its task and its shielded insert have come.  *)
(* RowsInv ties the stored rows to the two program counters, and TableInv    *)
(* bounds the table by the tasks that exist.                                 *)
EXTENDS ChatTasks, SequenceTheorems, TLAPS

\* The rows of a task and the place of its code.
RowsInv ==
  \A t \in Tasks :
    /\ t > used => pc[t] = "unused"
    /\ pc[t] \in {"unused", "ready", "load", "saveUser"} => rows[t] = <<>> /\ inner[t] = "none"
    /\ pc[t] \in {"route", "saveReply"} => rows[t] = <<"user">> /\ inner[t] = "none"
    /\ pc[t] \in {"complete", "hooks"} => rows[t] = <<"user", "reply">> /\ inner[t] = "none"
    /\ inner[t] = "insert" => rows[t] = <<"user">>
    /\ inner[t] \in {"notify", "done"} => rows[t] = <<"user", "cancelled">>

TableInv == \A c \in Convs : active[c] # NoTask => active[c] <= used

IInv == TypeOK /\ RowsInv /\ ShownIsStored /\ TableInv /\ TableNamesNewest

USE DEF Tasks, NoTask, Awaiting, Done, Pcs

\* The initial state satisfies the inductive invariant.
LEMMA InitInv == Init => IInv
BY MaxTasksAssumption, NoConvAssumption, SMT
   DEF Init, IInv, TypeOK, RowsInv, ShownIsStored, TableInv, TableNamesNewest

\* Every step of a socket's receive loop preserves it.
LEMMA SocketStepInv ==
  ASSUME IInv, NEW s \in Sockets,
         \/ Connect(s) \/ Disconnect(s) \/ Refuse(s) \/ Dispatch(s)
         \/ \E c \in Convs \cup {NoConv} : Receive(s, c) \/ Cancel(s, c)
  PROVE  IInv'
<1> USE DEF IInv
<1>1. CASE Connect(s)
  BY <1>1, SMT DEF Connect, taskVars, TypeOK, RowsInv, ShownIsStored, TableInv, TableNamesNewest
<1>2. CASE Disconnect(s)
  BY <1>2, SMT DEF Disconnect, taskVars, TypeOK, RowsInv, ShownIsStored, TableInv, TableNamesNewest
<1>3. CASE Refuse(s)
  BY <1>3, NoConvAssumption, SMT DEF Refuse, taskVars, TypeOK, RowsInv, ShownIsStored, TableInv, TableNamesNewest
<1>4. CASE Dispatch(s)
  <2> DEFINE c == pend[s]
             t == used + 1
  <2>1. t \in Tasks /\ c \in Convs \cup {NoConv} /\ pc[t] = "unused"
    BY <1>4, MaxTasksAssumption, SMT DEF Dispatch, TypeOK, RowsInv
  <2>2. TypeOK'
    BY <1>4, <2>1, MaxTasksAssumption, SMT DEF Dispatch, TypeOK
  <2>3. RowsInv'
    BY <1>4, <2>1, MaxTasksAssumption, SMT DEF Dispatch, TypeOK, RowsInv
  <2>4. ShownIsStored'
    BY <1>4, SMT DEF Dispatch, ShownIsStored
  <2>5. TableInv'
    BY <1>4, <2>1, MaxTasksAssumption, SMT DEF Dispatch, TypeOK, TableInv
  <2>6. TableNamesNewest'
    BY <1>4, <2>1, MaxTasksAssumption, NoConvAssumption, SMT DEF Dispatch, TypeOK, TableInv, TableNamesNewest
  <2> QED BY <2>2, <2>3, <2>4, <2>5, <2>6
<1>5. CASE \E c \in Convs \cup {NoConv} : Receive(s, c)
  BY <1>5, SMT DEF Receive, taskVars, TypeOK, RowsInv, ShownIsStored, TableInv, TableNamesNewest
<1>6. CASE \E c \in Convs \cup {NoConv} : Cancel(s, c)
  BY <1>6, SMT DEF Cancel, Running, sockVars, TypeOK, RowsInv, ShownIsStored, TableInv, TableNamesNewest
<1> QED BY <1>1, <1>2, <1>3, <1>4, <1>5, <1>6

\* The rows a task may append, and that none of them is the empty sequence.
LEMMA Appended ==
  /\ Append(<<>>, "user") = <<"user">>
  /\ Append(<<"user">>, "reply") = <<"user", "reply">>
  /\ Append(<<"user">>, "cancelled") = <<"user", "cancelled">>
  /\ <<>> # <<"user", "reply">> /\ <<>> # <<"user", "cancelled">>
<1>1. ASSUME NEW kind \in {"reply", "cancelled"}
      PROVE  Append(<<"user">>, kind) = <<"user", kind>>
  <2> DEFINE s == Append(<<"user">>, kind)
  <2>1. s \in Seq({"user", kind}) /\ Len(s) = 2 /\ s[1] = "user" /\ s[2] = kind
    OBVIOUS
  <2>2. <<"user", kind>> \in Seq({"user", kind}) /\ Len(<<"user", kind>>) = 2
    OBVIOUS
  <2>3. <<"user", kind>>[1] = "user" /\ <<"user", kind>>[2] = kind
    OBVIOUS
  <2> HIDE DEF s
  <2>4. \A i \in 1 .. 2 : s[i] = <<"user", kind>>[i]
    BY <2>1, <2>3
  <2>5. s = <<"user", kind>>
    BY <2>1, <2>2, <2>4, SeqEqual
  <2> QED BY <2>5 DEF s
<1>2. Append(<<>>, "user") = <<"user">>
  OBVIOUS
<1> QED BY <1>1, <1>2

\* Every step of a task preserves the invariant.
LEMMA TaskStepInv ==
  ASSUME IInv, NEW t \in Tasks, TaskStep(t) \/ DbError(t)
  PROVE  IInv'
<1> USE DEF IInv
<1>1. CASE Start(t)
  <2>1. CASE Goto(t, "load") /\ Emit(t, "typing")
    <3>1. TypeOK'
      BY <1>1, <2>1, SMT DEF Start, At, Goto, Emit, Fixed, sockVars, TypeOK, RowsInv
    <3>2. RowsInv'
      BY <1>1, <2>1, SMT DEF Start, At, Goto, Emit, Fixed, sockVars, TypeOK, RowsInv
    <3>3. ShownIsStored'
      BY <1>1, <2>1, SMT DEF Start, At, Goto, Emit, Fixed, sockVars, TypeOK, RowsInv, ShownIsStored
    <3>4. TableInv' /\ TableNamesNewest'
      BY <1>1, <2>1, SMT DEF Start, At, Goto, Emit, Fixed, sockVars, TypeOK, TableInv, TableNamesNewest
    <3> QED BY <3>1, <3>2, <3>3, <3>4
  <2>2. CASE Goto(t, "finished") /\ Emit(t, "error")
    <3>1. TypeOK'
      BY <1>1, <2>2, SMT DEF Start, At, Goto, Emit, Fixed, sockVars, TypeOK, RowsInv
    <3>2. RowsInv'
      BY <1>1, <2>2, SMT DEF Start, At, Goto, Emit, Fixed, sockVars, TypeOK, RowsInv
    <3>3. ShownIsStored'
      BY <1>1, <2>2, SMT DEF Start, At, Goto, Emit, Fixed, sockVars, TypeOK, RowsInv, ShownIsStored
    <3>4. TableInv' /\ TableNamesNewest'
      BY <1>1, <2>2, SMT DEF Start, At, Goto, Emit, Fixed, sockVars, TypeOK, TableInv, TableNamesNewest
    <3> QED BY <3>1, <3>2, <3>3, <3>4
  <2> QED BY <1>1, <2>1, <2>2 DEF Start
<1>2. CASE Load(t)
  <2>1. CASE conv[t] # NoConv /\ Goto(t, "saveUser") /\ UNCHANGED sent
    <3>1. TypeOK'
      BY <1>2, <2>1, SMT DEF Load, At, Goto, Emit, Fixed, sockVars, TypeOK, RowsInv
    <3>2. RowsInv'
      BY <1>2, <2>1, SMT DEF Load, At, Goto, Emit, Fixed, sockVars, TypeOK, RowsInv
    <3>3. ShownIsStored'
      BY <1>2, <2>1, SMT DEF Load, At, Goto, Emit, Fixed, sockVars, TypeOK, RowsInv, ShownIsStored
    <3>4. TableInv' /\ TableNamesNewest'
      BY <1>2, <2>1, SMT DEF Load, At, Goto, Emit, Fixed, sockVars, TypeOK, TableInv, TableNamesNewest
    <3> QED BY <3>1, <3>2, <3>3, <3>4
  <2>2. CASE Goto(t, "finished") /\ Emit(t, "error")
    <3>1. TypeOK'
      BY <1>2, <2>2, SMT DEF Load, At, Goto, Emit, Fixed, sockVars, TypeOK, RowsInv
    <3>2. RowsInv'
      BY <1>2, <2>2, SMT DEF Load, At, Goto, Emit, Fixed, sockVars, TypeOK, RowsInv
    <3>3. ShownIsStored'
      BY <1>2, <2>2, SMT DEF Load, At, Goto, Emit, Fixed, sockVars, TypeOK, RowsInv, ShownIsStored
    <3>4. TableInv' /\ TableNamesNewest'
      BY <1>2, <2>2, SMT DEF Load, At, Goto, Emit, Fixed, sockVars, TypeOK, TableInv, TableNamesNewest
    <3> QED BY <3>1, <3>2, <3>3, <3>4
  <2> QED BY <1>2, <2>1, <2>2 DEF Load
<1>3. CASE SaveUser(t)
  <2>1. rows[t] = <<>> /\ rows' = [rows EXCEPT ![t] = <<"user">>]
    BY <1>3, Appended DEF SaveUser, At, Goto, Emit, Fixed, sockVars, StoreRow, RowsInv
  <2>2. TypeOK'
    BY <1>3, <2>1, SMT DEF SaveUser, At, Goto, Emit, Fixed, sockVars, TypeOK, RowsInv
  <2>3. RowsInv'
    BY <1>3, <2>1, SMT DEF SaveUser, At, Goto, Emit, Fixed, sockVars, TypeOK, RowsInv
  <2>4. ShownIsStored'
    BY <1>3, <2>1, Appended, SMT DEF SaveUser, At, Goto, Emit, Fixed, sockVars, TypeOK, RowsInv, ShownIsStored
  <2>5. TableInv' /\ TableNamesNewest'
    BY <1>3, <2>1, SMT DEF SaveUser, At, Goto, Emit, Fixed, sockVars, TypeOK, TableInv, TableNamesNewest
  <2> QED BY <2>2, <2>3, <2>4, <2>5
<1>4. CASE Route(t)
  <2>1. CASE Goto(t, "saveReply") /\ UNCHANGED sent
    <3>1. TypeOK'
      BY <1>4, <2>1, SMT DEF Route, At, Goto, Emit, Fixed, sockVars, TypeOK, RowsInv
    <3>2. RowsInv'
      BY <1>4, <2>1, SMT DEF Route, At, Goto, Emit, Fixed, sockVars, TypeOK, RowsInv
    <3>3. ShownIsStored'
      BY <1>4, <2>1, SMT DEF Route, At, Goto, Emit, Fixed, sockVars, TypeOK, RowsInv, ShownIsStored
    <3>4. TableInv' /\ TableNamesNewest'
      BY <1>4, <2>1, SMT DEF Route, At, Goto, Emit, Fixed, sockVars, TypeOK, TableInv, TableNamesNewest
    <3> QED BY <3>1, <3>2, <3>3, <3>4
  <2>2. CASE Goto(t, "finished") /\ Emit(t, "error")
    <3>1. TypeOK'
      BY <1>4, <2>2, SMT DEF Route, At, Goto, Emit, Fixed, sockVars, TypeOK, RowsInv
    <3>2. RowsInv'
      BY <1>4, <2>2, SMT DEF Route, At, Goto, Emit, Fixed, sockVars, TypeOK, RowsInv
    <3>3. ShownIsStored'
      BY <1>4, <2>2, SMT DEF Route, At, Goto, Emit, Fixed, sockVars, TypeOK, RowsInv, ShownIsStored
    <3>4. TableInv' /\ TableNamesNewest'
      BY <1>4, <2>2, SMT DEF Route, At, Goto, Emit, Fixed, sockVars, TypeOK, TableInv, TableNamesNewest
    <3> QED BY <3>1, <3>2, <3>3, <3>4
  <2> QED BY <1>4, <2>1, <2>2 DEF Route
<1>5. CASE SaveReply(t)
  <2>1. rows[t] = <<"user">> /\ rows' = [rows EXCEPT ![t] = <<"user", "reply">>]
    BY <1>5, Appended DEF SaveReply, At, Goto, Emit, Fixed, sockVars, StoreRow, RowsInv
  <2>2. TypeOK'
    BY <1>5, <2>1, SMT DEF SaveReply, At, Goto, Emit, Fixed, sockVars, TypeOK, RowsInv
  <2>3. RowsInv'
    BY <1>5, <2>1, SMT DEF SaveReply, At, Goto, Emit, Fixed, sockVars, TypeOK, RowsInv
  <2>4. ShownIsStored'
    BY <1>5, <2>1, SMT DEF SaveReply, At, Goto, Emit, Fixed, sockVars, TypeOK, RowsInv, ShownIsStored
  <2>5. TableInv' /\ TableNamesNewest'
    BY <1>5, <2>1, SMT DEF SaveReply, At, Goto, Emit, Fixed, sockVars, TypeOK, TableInv, TableNamesNewest
  <2> QED BY <2>2, <2>3, <2>4, <2>5
<1>6. CASE Complete(t)
  <2>1. TypeOK'
    BY <1>6, SMT DEF Complete, At, Goto, Emit, Fixed, sockVars, TypeOK, RowsInv
  <2>2. RowsInv'
    BY <1>6, SMT DEF Complete, At, Goto, Emit, Fixed, sockVars, TypeOK, RowsInv
  <2>3. ShownIsStored'
    BY <1>6, SMT DEF Complete, At, Goto, Emit, Fixed, sockVars, TypeOK, RowsInv, ShownIsStored
  <2>4. TableInv' /\ TableNamesNewest'
    BY <1>6, SMT DEF Complete, At, Goto, Emit, Fixed, sockVars, TypeOK, TableInv, TableNamesNewest
  <2> QED BY <2>1, <2>2, <2>3, <2>4
<1>7. CASE Hooks(t)
  <2>1. TypeOK'
    BY <1>7, SMT DEF Hooks, At, Goto, Emit, Fixed, sockVars, TypeOK, RowsInv
  <2>2. RowsInv'
    BY <1>7, SMT DEF Hooks, At, Goto, Emit, Fixed, sockVars, TypeOK, RowsInv
  <2>3. ShownIsStored'
    BY <1>7, SMT DEF Hooks, At, Goto, Emit, Fixed, sockVars, TypeOK, RowsInv, ShownIsStored
  <2>4. TableInv' /\ TableNamesNewest'
    BY <1>7, SMT DEF Hooks, At, Goto, Emit, Fixed, sockVars, TypeOK, TableInv, TableNamesNewest
  <2> QED BY <2>1, <2>2, <2>3, <2>4
<1>8. CASE CancelRoute(t)
  <2>1. TypeOK'
    BY <1>8, SMT DEF CancelRoute, At, Goto, Emit, Fixed, sockVars, TypeOK, RowsInv
  <2>2. RowsInv'
    BY <1>8, SMT DEF CancelRoute, At, Goto, Emit, Fixed, sockVars, TypeOK, RowsInv
  <2>3. ShownIsStored'
    BY <1>8, SMT DEF CancelRoute, At, Goto, Emit, Fixed, sockVars, TypeOK, RowsInv, ShownIsStored
  <2>4. TableInv' /\ TableNamesNewest'
    BY <1>8, SMT DEF CancelRoute, At, Goto, Emit, Fixed, sockVars, TypeOK, TableInv, TableNamesNewest
  <2> QED BY <2>1, <2>2, <2>3, <2>4
<1>9. CASE CancelElsewhere(t)
  <2>1. CASE UNCHANGED rows
    <3>1. TypeOK'
      BY <1>9, <2>1, SMT DEF CancelElsewhere, Goto, sockVars, TypeOK, RowsInv
    <3>2. RowsInv'
      BY <1>9, <2>1, SMT DEF CancelElsewhere, Goto, sockVars, TypeOK, RowsInv
    <3>3. ShownIsStored'
      BY <1>9, <2>1, SMT DEF CancelElsewhere, Goto, sockVars, TypeOK, RowsInv, ShownIsStored
    <3>4. TableInv' /\ TableNamesNewest'
      BY <1>9, <2>1, SMT DEF CancelElsewhere, Goto, sockVars, TypeOK, TableInv, TableNamesNewest
    <3> QED BY <3>1, <3>2, <3>3, <3>4
  <2>2. CASE pc[t] = "saveUser" /\ StoreRow(t, "user")
    <3>1. rows[t] = <<>> /\ rows' = [rows EXCEPT ![t] = <<"user">>]
      BY <2>2, Appended DEF StoreRow, RowsInv
    <3>2. TypeOK'
      BY <1>9, <2>2, <3>1, SMT DEF CancelElsewhere, Goto, sockVars, TypeOK, RowsInv
    <3>3. RowsInv'
      BY <1>9, <2>2, <3>1, SMT DEF CancelElsewhere, Goto, sockVars, TypeOK, RowsInv
    <3>4. ShownIsStored'
      <4>1. sent[t] \cap {"complete", "hooks"} = {} /\ "cancelled" \notin sent[t]
        BY <3>1, Appended DEF ShownIsStored
      <4> QED BY <1>9, <3>1, <4>1 DEF CancelElsewhere, Goto, sockVars, TypeOK, ShownIsStored
    <3>5. TableInv' /\ TableNamesNewest'
      BY <1>9, <2>2, <3>1, SMT DEF CancelElsewhere, Goto, sockVars, TypeOK, TableInv, TableNamesNewest
    <3> QED BY <3>2, <3>3, <3>4, <3>5
  <2>3. CASE pc[t] = "saveReply" /\ StoreRow(t, "reply")
    <3>1. rows[t] = <<"user">> /\ rows' = [rows EXCEPT ![t] = <<"user", "reply">>]
      BY <2>3, Appended DEF StoreRow, RowsInv
    <3>2. TypeOK'
      BY <1>9, <2>3, <3>1, SMT DEF CancelElsewhere, Goto, sockVars, TypeOK, RowsInv
    <3>3. RowsInv'
      BY <1>9, <2>3, <3>1, SMT DEF CancelElsewhere, Goto, sockVars, TypeOK, RowsInv
    <3>4. ShownIsStored'
      BY <1>9, <2>3, <3>1, SMT DEF CancelElsewhere, Goto, sockVars, TypeOK, RowsInv, ShownIsStored
    <3>5. TableInv' /\ TableNamesNewest'
      BY <1>9, <2>3, <3>1, SMT DEF CancelElsewhere, Goto, sockVars, TypeOK, TableInv, TableNamesNewest
    <3> QED BY <3>2, <3>3, <3>4, <3>5
  <2> QED BY <1>9, <2>1, <2>2, <2>3 DEF CancelElsewhere, Interrupted
<1>10. CASE PersistReturns(t)
  <2>1. TypeOK'
    BY <1>10, SMT DEF PersistReturns, At, Goto, Emit, Fixed, sockVars, TypeOK, RowsInv
  <2>2. RowsInv'
    BY <1>10, SMT DEF PersistReturns, At, Goto, Emit, Fixed, sockVars, TypeOK, RowsInv
  <2>3. ShownIsStored'
    BY <1>10, SMT DEF PersistReturns, At, Goto, Emit, Fixed, sockVars, TypeOK, RowsInv, ShownIsStored
  <2>4. TableInv' /\ TableNamesNewest'
    BY <1>10, SMT DEF PersistReturns, At, Goto, Emit, Fixed, sockVars, TypeOK, TableInv, TableNamesNewest
  <2> QED BY <2>1, <2>2, <2>3, <2>4
<1>11. CASE DoneCallback(t)
  <2>1. TypeOK'
    BY <1>11, SMT DEF DoneCallback, Goto, sockVars, TypeOK, RowsInv
  <2>2. RowsInv'
    BY <1>11, SMT DEF DoneCallback, Goto, sockVars, TypeOK, RowsInv
  <2>3. ShownIsStored'
    BY <1>11, SMT DEF DoneCallback, Goto, sockVars, TypeOK, RowsInv, ShownIsStored
  <2>4. TableInv' /\ TableNamesNewest'
    BY <1>11, SMT DEF DoneCallback, Goto, sockVars, TypeOK, TableInv, TableNamesNewest
  <2> QED BY <2>1, <2>2, <2>3, <2>4
<1>12. CASE DbError(t)
  <2>1. CASE UNCHANGED rows
    <3>1. TypeOK'
      BY <1>12, <2>1, SMT DEF DbError, Fixed, Goto, sockVars, TypeOK, RowsInv
    <3>2. RowsInv'
      BY <1>12, <2>1, SMT DEF DbError, Fixed, Goto, sockVars, TypeOK, RowsInv
    <3>3. ShownIsStored'
      BY <1>12, <2>1, SMT DEF DbError, Fixed, Goto, sockVars, TypeOK, RowsInv, ShownIsStored
    <3>4. TableInv' /\ TableNamesNewest'
      BY <1>12, <2>1, SMT DEF DbError, Fixed, Goto, sockVars, TypeOK, TableInv, TableNamesNewest
    <3> QED BY <3>1, <3>2, <3>3, <3>4
  <2>2. CASE pc[t] = "saveUser" /\ StoreRow(t, "user")
    <3>1. rows[t] = <<>> /\ rows' = [rows EXCEPT ![t] = <<"user">>]
      BY <2>2, Appended DEF StoreRow, RowsInv
    <3>2. TypeOK'
      BY <1>12, <2>2, <3>1, SMT DEF DbError, Fixed, Goto, sockVars, TypeOK, RowsInv
    <3>3. RowsInv'
      BY <1>12, <2>2, <3>1, SMT DEF DbError, Fixed, Goto, sockVars, TypeOK, RowsInv
    <3>4. ShownIsStored'
      <4>1. sent[t] \cap {"complete", "hooks"} = {} /\ "cancelled" \notin sent[t]
        BY <3>1, Appended DEF ShownIsStored
      <4> QED BY <1>12, <3>1, <4>1 DEF DbError, Fixed, Goto, sockVars, TypeOK, ShownIsStored
    <3>5. TableInv' /\ TableNamesNewest'
      BY <1>12, <2>2, <3>1, SMT DEF DbError, Fixed, Goto, sockVars, TypeOK, TableInv, TableNamesNewest
    <3> QED BY <3>2, <3>3, <3>4, <3>5
  <2>3. CASE pc[t] = "saveReply" /\ StoreRow(t, "reply")
    <3>1. rows[t] = <<"user">> /\ rows' = [rows EXCEPT ![t] = <<"user", "reply">>]
      BY <2>3, Appended DEF StoreRow, RowsInv
    <3>2. TypeOK'
      BY <1>12, <2>3, <3>1, SMT DEF DbError, Fixed, Goto, sockVars, TypeOK, RowsInv
    <3>3. RowsInv'
      BY <1>12, <2>3, <3>1, SMT DEF DbError, Fixed, Goto, sockVars, TypeOK, RowsInv
    <3>4. ShownIsStored'
      BY <1>12, <2>3, <3>1, SMT DEF DbError, Fixed, Goto, sockVars, TypeOK, RowsInv, ShownIsStored
    <3>5. TableInv' /\ TableNamesNewest'
      BY <1>12, <2>3, <3>1, SMT DEF DbError, Fixed, Goto, sockVars, TypeOK, TableInv, TableNamesNewest
    <3> QED BY <3>2, <3>3, <3>4, <3>5
  <2> QED BY <1>12, <2>1, <2>2, <2>3 DEF DbError, Interrupted
<1> QED BY <1>1, <1>2, <1>3, <1>4, <1>5, <1>6, <1>7, <1>8, <1>9, <1>10, <1>11, <1>12 DEF TaskStep

\* Every step of a shielded insert preserves it.
LEMMA InnerStepInv ==
  ASSUME IInv, NEW t \in Tasks, InnerStep(t)
  PROVE  IInv'
<1> USE DEF IInv
<1>1. CASE InnerInsert(t)
  <2>1. rows[t] = <<"user">> /\ rows' = [rows EXCEPT ![t] = <<"user", "cancelled">>]
    BY <1>1, Appended DEF InnerInsert, Fixed, sockVars, StoreRow, RowsInv
  <2>2. TypeOK'
    BY <1>1, <2>1, SMT DEF InnerInsert, Fixed, sockVars, TypeOK, RowsInv
  <2>3. RowsInv'
    BY <1>1, <2>1, SMT DEF InnerInsert, Fixed, sockVars, TypeOK, RowsInv
  <2>4. ShownIsStored'
    BY <1>1, <2>1, SMT DEF InnerInsert, Fixed, sockVars, TypeOK, RowsInv, ShownIsStored
  <2>5. TableInv' /\ TableNamesNewest'
    BY <1>1, <2>1, SMT DEF InnerInsert, Fixed, sockVars, TypeOK, TableInv, TableNamesNewest
  <2> QED BY <2>2, <2>3, <2>4, <2>5
<1>2. CASE InnerError(t)
  <2>1. TypeOK'
    BY <1>2, SMT DEF InnerError, Emit, Fixed, sockVars, TypeOK, RowsInv
  <2>2. RowsInv'
    BY <1>2, SMT DEF InnerError, Emit, Fixed, sockVars, TypeOK, RowsInv
  <2>3. ShownIsStored'
    BY <1>2, SMT DEF InnerError, Emit, Fixed, sockVars, TypeOK, RowsInv, ShownIsStored
  <2>4. TableInv' /\ TableNamesNewest'
    BY <1>2, SMT DEF InnerError, Emit, Fixed, sockVars, TypeOK, TableInv, TableNamesNewest
  <2> QED BY <2>1, <2>2, <2>3, <2>4
<1>3. CASE InnerNotify(t)
  <2>1. TypeOK'
    BY <1>3, SMT DEF InnerNotify, Emit, Fixed, sockVars, TypeOK, RowsInv
  <2>2. RowsInv'
    BY <1>3, SMT DEF InnerNotify, Emit, Fixed, sockVars, TypeOK, RowsInv
  <2>3. ShownIsStored'
    BY <1>3, SMT DEF InnerNotify, Emit, Fixed, sockVars, TypeOK, RowsInv, ShownIsStored
  <2>4. TableInv' /\ TableNamesNewest'
    BY <1>3, SMT DEF InnerNotify, Emit, Fixed, sockVars, TypeOK, TableInv, TableNamesNewest
  <2> QED BY <2>1, <2>2, <2>3, <2>4
<1> QED BY <1>1, <1>2, <1>3 DEF InnerStep

\* The inductive invariant holds in every state, for any number of devices,
\* conversations and messages.
THEOREM Invariant == Spec => []IInv
<1>1. IInv /\ [Next]_vars => IInv'
  <2> SUFFICES ASSUME IInv, [Next]_vars PROVE IInv'
    OBVIOUS
  <2>1. ASSUME NEW s \in Sockets, Connect(s) \/ Disconnect(s) \/ Refuse(s) \/ Dispatch(s)
        PROVE  IInv'
    BY <2>1, SocketStepInv
  <2>2. ASSUME NEW s \in Sockets, NEW c \in Convs \cup {NoConv}, Receive(s, c) \/ Cancel(s, c)
        PROVE  IInv'
    BY <2>2, SocketStepInv
  <2>3. ASSUME NEW t \in Tasks, TaskStep(t) \/ DbError(t)
        PROVE  IInv'
    BY <2>3, TaskStepInv
  <2>4. ASSUME NEW t \in Tasks, InnerStep(t)
        PROVE  IInv'
    BY <2>4, InnerStepInv
  <2>5. CASE UNCHANGED vars
    BY <2>5 DEF vars, IInv, TypeOK, RowsInv, ShownIsStored, TableInv, TableNamesNewest
  <2> QED BY <2>1, <2>2, <2>3, <2>4, <2>5 DEF Next
<1> QED BY InitInv, <1>1, PTL DEF Spec

\* The variables keep their types; in particular a message has at most two rows
\* in bh_messages, its own and then one answer.
THEOREM TypeCorrect == Spec => []TypeOK
BY Invariant, PTL DEF IInv

\* A complete event, the hooks and a cancelled event are seen only after the
\* row they tell of is stored.
THEOREM ShownIsAlwaysStored == Spec => []ShownIsStored
BY Invariant, PTL DEF IInv

\* _active_tasks never names an earlier response of a conversation, or one whose
\* done callback has run.
THEOREM TableIsCurrent == Spec => []TableNamesNewest
BY Invariant, PTL DEF IInv

\* handle_chat_message implements the transcript: each of its steps stores the
\* user's row, or one answer to it, or nothing.
THEOREM ImplementsTranscript == Spec => TranscriptSpec
<1>1. Init => History!Init
  BY DEF Init, History!Init
<1>2. IInv /\ [Next]_vars => [History!Next]_rows
  <2> SUFFICES ASSUME IInv, [Next]_vars PROVE [History!Next]_rows
    OBVIOUS
  <2> USE DEF History!Store, StoreRow
  <2>1. ASSUME NEW t \in Tasks, SaveUser(t)
        PROVE  History!Ask(t)
    BY <2>1 DEF SaveUser, At, IInv, RowsInv, History!Ask
  <2>2. ASSUME NEW t \in Tasks, SaveReply(t)
        PROVE  History!Answer(t)
    BY <2>2 DEF SaveReply, At, IInv, RowsInv, History!Answer
  <2>3. ASSUME NEW t \in Tasks, InnerInsert(t)
        PROVE  History!Answer(t)
    BY <2>3 DEF InnerInsert, IInv, RowsInv, History!Answer
  <2>4. ASSUME NEW t \in Tasks, CancelElsewhere(t) \/ DbError(t)
        PROVE  UNCHANGED rows \/ History!Ask(t) \/ History!Answer(t)
    BY <2>4 DEF CancelElsewhere, DbError, Interrupted, IInv, RowsInv, History!Ask, History!Answer
  <2>5. ASSUME NEW t \in Tasks,
               TaskStep(t) \/ InnerStep(t),
               ~SaveUser(t), ~SaveReply(t), ~InnerInsert(t), ~CancelElsewhere(t)
        PROVE  UNCHANGED rows
    BY <2>5 DEF TaskStep, InnerStep, Start, Load, Route, Complete, Hooks, CancelRoute,
                PersistReturns, DoneCallback, InnerError, InnerNotify
  <2>6. ASSUME NEW s \in Sockets, Connect(s) \/ Disconnect(s) \/ Refuse(s) \/ Dispatch(s)
        PROVE  UNCHANGED rows
    BY <2>6 DEF Connect, Disconnect, Refuse, Dispatch, taskVars
  <2>7. ASSUME NEW s \in Sockets, NEW c \in Convs \cup {NoConv}, Receive(s, c) \/ Cancel(s, c)
        PROVE  UNCHANGED rows
    BY <2>7 DEF Receive, Cancel, taskVars
  <2>8. CASE UNCHANGED vars
    BY <2>8 DEF vars
  <2> QED BY <2>1, <2>2, <2>3, <2>4, <2>5, <2>6, <2>7, <2>8 DEF Next, TaskStep, InnerStep, History!Next
<1> QED BY <1>1, <1>2, Invariant, PTL DEF Spec, TranscriptSpec, History!Spec

-----------------------------------------------------------------------------
(* Overlapping responses                                                     *)

\* A done callback finds the table naming its own task, or none.
CallbackIsOwn(t) == DoneCallback(t) => \A c \in Convs : c = conv[t] => active[c] \in {t, NoTask}
CallbacksAreOwn == [][\A t \in Tasks : CallbackIsOwn(t)]_vars

\* Whoever produces a response is in the table.
ProducerInv == \A t \in Tasks : Producing(t) /\ conv[t] # NoConv => active[conv[t]] = t

LEMMA ProducerSocket ==
  ASSUME IInv, ProducerInv, NEW s \in Sockets,
         \/ Connect(s) \/ Disconnect(s) \/ Refuse(s) \/ Dispatch(s)
         \/ \E c \in Convs \cup {NoConv} : Receive(s, c) \/ Cancel(s, c)
  PROVE  ProducerInv'
<1>1. CASE Dispatch(s)
  <2> DEFINE new == used + 1
  <2>1. new \in Tasks /\ pc[new] = "unused" /\ pend[s] \in Convs \cup {NoConv}
    BY <1>1, MaxTasksAssumption DEF Dispatch, IInv, TypeOK, RowsInv
  <2>2. SUFFICES ASSUME NEW t \in Tasks, Producing(t)', conv'[t] # NoConv
                 PROVE  active'[conv'[t]] = t
    BY DEF ProducerInv
  <2>3. CASE t = new
    BY <1>1, <2>1, <2>2, <2>3 DEF Dispatch, IInv, TypeOK
  <2>4. CASE t # new
    <3>1. pc'[t] = pc[t] /\ conv'[t] = conv[t] /\ conv[t] \in Convs /\ ~cancel'[t]
      BY <1>1, <2>1, <2>2, <2>4 DEF Dispatch, IInv, TypeOK, Producing
    <3>2. ~cancel[t] /\ t \notin Running(pend[s])
      BY <1>1, <3>1 DEF Dispatch
    <3>3. active[conv[t]] = t
      BY <2>2, <3>1, <3>2 DEF ProducerInv, Producing
    <3>4. conv[t] # pend[s]
      BY <2>2, <3>1, <3>2, <3>3 DEF Running, Producing
    <3> QED BY <1>1, <3>1, <3>3, <3>4 DEF Dispatch
  <2> QED BY <2>3, <2>4
<1>2. CASE ~Dispatch(s)
  <2>1. UNCHANGED <<active, conv, pc>> /\ \A t \in Tasks : cancel[t] => cancel'[t]
    BY <1>2 DEF Connect, Disconnect, Refuse, Receive, Cancel, sockVars, taskVars
  <2> QED BY <2>1 DEF ProducerInv, Producing
<1> QED BY <1>1, <1>2

LEMMA ProducerTask ==
  ASSUME IInv, ProducerInv, NEW t \in Tasks, TaskStep(t) \/ InnerStep(t) \/ DbError(t),
         CallbackIsOwn(t)
  PROVE  ProducerInv'
<1>1. conv' = conv
  BY DEF TaskStep, InnerStep, Start, Load, SaveUser, Route, SaveReply, Complete, Hooks, CancelRoute,
         CancelElsewhere, PersistReturns, DoneCallback, DbError, InnerInsert, InnerError, InnerNotify, Fixed
<1>2. \A u \in Tasks \ {t} : pc'[u] = pc[u] /\ cancel'[u] = cancel[u]
  BY DEF TaskStep, InnerStep, Start, Load, SaveUser, Route, SaveReply, Complete, Hooks, CancelRoute,
         CancelElsewhere, PersistReturns, DoneCallback, DbError, InnerInsert, InnerError, InnerNotify,
         Goto, Fixed, IInv, TypeOK
<1>3. Producing(t)' => Producing(t)
  BY DEF TaskStep, InnerStep, Start, Load, SaveUser, Route, SaveReply, Complete, Hooks, CancelRoute,
         CancelElsewhere, PersistReturns, DoneCallback, DbError, InnerInsert, InnerError, InnerNotify,
         Goto, At, Fixed, IInv, TypeOK, Producing
<1>4. \A u \in Tasks : Producing(u)' => Producing(u)
  BY <1>2, <1>3 DEF Producing
<1>5. CASE DoneCallback(t)
  <2>1. \A c \in Convs : active'[c] # active[c] => active[c] = t
    BY <1>5 DEF DoneCallback, CallbackIsOwn
  <2>2. ~Producing(t)
    BY <1>5 DEF DoneCallback, Producing
  <2> QED BY <1>1, <1>4, <2>1, <2>2 DEF ProducerInv, IInv, TypeOK
<1>6. CASE ~DoneCallback(t)
  <2>1. active' = active
    BY <1>6 DEF TaskStep, InnerStep, Start, Load, SaveUser, Route, SaveReply, Complete, Hooks, CancelRoute,
       CancelElsewhere, PersistReturns, DbError, InnerInsert, InnerError, InnerNotify, Fixed
  <2> QED BY <1>1, <1>4, <2>1 DEF ProducerInv
<1> QED BY <1>5, <1>6

\* "Cancel it so we don't end up with overlapping responses": no conversation ever
\* has two responses being produced, as long as no done callback removes the entry
\* of a task that is not its own.  That callback is the whole cause of what run
\* chat_overlap shows: the cancellation, the shielded marker and the order of
\* dispatches are not part of it.
THEOREM OverlapNeedsForeignCallback == Spec /\ CallbacksAreOwn => []NoOverlap
<1>1. Init => ProducerInv
  BY DEF Init, ProducerInv, Producing
<1>2. IInv /\ ProducerInv /\ [Next]_vars /\ [\A t \in Tasks : CallbackIsOwn(t)]_vars => ProducerInv'
  <2> SUFFICES ASSUME IInv, ProducerInv, [Next]_vars, [\A t \in Tasks : CallbackIsOwn(t)]_vars
               PROVE  ProducerInv'
    OBVIOUS
  <2>1. CASE UNCHANGED vars
    BY <2>1 DEF vars, ProducerInv, Producing
  <2>2. CASE Next /\ \A t \in Tasks : CallbackIsOwn(t)
    BY <2>2, ProducerSocket, ProducerTask DEF Next
  <2> QED BY <2>1, <2>2
<1>3. IInv /\ ProducerInv => NoOverlap
  BY DEF IInv, TypeOK, ProducerInv, NoOverlap
<1> QED BY <1>1, <1>2, <1>3, Invariant, PTL DEF Spec, CallbacksAreOwn

-----------------------------------------------------------------------------
(* The way of a response                                                     *)

Place(p) ==
  CASE p = "unused" -> 0
    [] p = "ready" -> 1
    [] p = "load" -> 2
    [] p = "saveUser" -> 3
    [] p = "route" -> 4
    [] p \in {"saveReply", "persist"} -> 5
    [] p = "complete" -> 6
    [] p = "hooks" -> 7
    [] p = "finished" -> 8
    [] OTHER -> 9

LEMMA PlaceIs ==
  /\ Place("unused") = 0 /\ Place("ready") = 1 /\ Place("load") = 2 /\ Place("saveUser") = 3
  /\ Place("route") = 4 /\ Place("saveReply") = 5 /\ Place("persist") = 5 /\ Place("complete") = 6
  /\ Place("hooks") = 7 /\ Place("finished") = 8 /\ Place("gone") = 9
  /\ \A p \in Pcs : Place(p) \in 0 .. 9
BY DEF Place

\* Every step of a task brings it forward.
LEMMA TaskAdvances ==
  ASSUME IInv, NEW t \in Tasks, TaskStep(t) \/ DbError(t)
  PROVE  Place(pc[t]) < Place(pc'[t]) /\ pc'[t] \in Pcs
<1>1. pc \in [Tasks -> Pcs]
  BY DEF IInv, TypeOK
<1>2. \/ pc[t] = "ready" /\ pc'[t] \in {"load", "finished"}
      \/ pc[t] = "load" /\ pc'[t] \in {"saveUser", "finished"}
      \/ pc[t] = "saveUser" /\ pc'[t] \in {"route", "finished"}
      \/ pc[t] = "route" /\ pc'[t] \in {"saveReply", "persist", "finished"}
      \/ pc[t] \in {"saveReply", "persist"} /\ pc'[t] \in {"complete", "finished"}
      \/ pc[t] = "complete" /\ pc'[t] \in {"hooks", "finished"}
      \/ pc[t] = "hooks" /\ pc'[t] = "finished"
      \/ pc[t] = "finished" /\ pc'[t] = "gone"
  <2>1. CASE CancelElsewhere(t)
    BY <1>1, <2>1 DEF CancelElsewhere, Goto
  <2>2. CASE DoneCallback(t) \/ DbError(t) \/ CancelRoute(t)
    BY <1>1, <2>2 DEF DoneCallback, DbError, CancelRoute, Goto
  <2>3. CASE Start(t) \/ Load(t) \/ SaveUser(t) \/ Route(t)
    BY <1>1, <2>3 DEF Start, Load, SaveUser, Route, At, Goto
  <2>4. CASE SaveReply(t) \/ Complete(t) \/ Hooks(t) \/ PersistReturns(t)
    BY <1>1, <2>4 DEF SaveReply, Complete, Hooks, PersistReturns, At, Goto
  <2> QED BY <2>1, <2>2, <2>3, <2>4 DEF TaskStep
<1> QED BY <1>2, PlaceIs

\* A response never goes back, whoever cancels it and how often: every step of its
\* own brings it nearer to its done callback, and no other step moves it except its
\* dispatch.  Of ResponsesEnd this is the part that does not depend on fairness.
THEOREM ResponsesAdvance ==
  Spec => [][\A t \in Tasks : /\ Place(pc[t]) <= Place(pc'[t])
                              /\ TaskStep(t) => Place(pc[t]) < Place(pc'[t])]_vars
<1>1. ASSUME IInv, Next, NEW t \in Tasks
      PROVE  Place(pc[t]) <= Place(pc'[t]) /\ (TaskStep(t) => Place(pc[t]) < Place(pc'[t]))
  <2>1. pc \in [Tasks -> Pcs] /\ Place(pc[t]) \in 0 .. 9
    BY <1>1, PlaceIs DEF IInv, TypeOK
  <2>2. CASE TaskStep(t) \/ DbError(t)
    <3>1. Place(pc[t]) < Place(pc'[t]) /\ Place(pc'[t]) \in 0 .. 9
      BY <1>1, <2>2, TaskAdvances, PlaceIs
    <3> QED BY <2>1, <3>1
  <2>3. CASE ~TaskStep(t) /\ ~DbError(t)
    <3>1. ASSUME NEW u \in Tasks \ {t}, TaskStep(u) \/ DbError(u)
          PROVE  pc'[t] = pc[t]
      BY <2>1, <3>1 DEF TaskStep, Start, Load, SaveUser, Route, SaveReply, Complete, Hooks, CancelRoute,
         CancelElsewhere, PersistReturns, DoneCallback, DbError, Goto
    <3>2. ASSUME NEW u \in Tasks, InnerStep(u)
          PROVE  pc'[t] = pc[t]
      BY <3>2 DEF InnerStep, InnerInsert, InnerError, InnerNotify
    <3>3. ASSUME NEW s \in Sockets, Dispatch(s)
          PROVE  pc'[t] = pc[t] \/ (pc[t] = "unused" /\ pc'[t] = "ready")
      <4>1. used + 1 \in Tasks /\ pc[used + 1] = "unused"
        BY <1>1, <3>3, MaxTasksAssumption DEF Dispatch, IInv, TypeOK, RowsInv
      <4> QED BY <2>1, <3>3, <4>1 DEF Dispatch
    <3>4. ASSUME NEW s \in Sockets,
                 \/ Connect(s) \/ Disconnect(s) \/ Refuse(s)
                 \/ \E c \in Convs \cup {NoConv} : Receive(s, c) \/ Cancel(s, c)
          PROVE  pc'[t] = pc[t]
      BY <3>4 DEF Connect, Disconnect, Refuse, Receive, Cancel, taskVars
    <3>5. pc'[t] = pc[t] \/ (pc[t] = "unused" /\ pc'[t] = "ready")
      BY <1>1, <2>3, <3>1, <3>2, <3>3, <3>4 DEF Next
    <3> QED BY <2>1, <2>3, <3>5, PlaceIs
  <2> QED BY <2>2, <2>3
<1>2. IInv /\ [Next]_vars =>
        [\A t \in Tasks : /\ Place(pc[t]) <= Place(pc'[t])
                          /\ TaskStep(t) => Place(pc[t]) < Place(pc'[t])]_vars
  BY <1>1
<1> QED BY <1>2, Invariant, PTL DEF Spec

-----------------------------------------------------------------------------
(* The marker of a cancelled response                                        *)

\* Who waits for the marker has one under way, or is told of it; a marker that was
\* announced was sent.
MarkerInv ==
  \A t \in Tasks :
    /\ pc[t] = "persist" => inner[t] # "none"
    /\ inner[t] = "done" => "cancelled" \in sent[t]

\* Nothing but the shielded insert moves a marker that is under way.
MarkerIsShielded == [][\A t \in Tasks : inner[t] # "none" => inner'[t] = inner[t] \/ InnerStep(t)]_vars

\* Every step but those of the shielded insert leaves a marker under way alone.
LEMMA MarkerStep ==
  ASSUME IInv, Next, NEW t \in Tasks, inner[t] # "none"
  PROVE  inner'[t] = inner[t] \/ InnerStep(t)
<1>1. inner \in [Tasks -> {"none", "insert", "notify", "done", "failed"}]
  BY DEF IInv, TypeOK
<1>2. ASSUME NEW u \in Tasks, TaskStep(u) \/ DbError(u)
      PROVE  inner'[t] = inner[t]
  <2>1. CASE CancelRoute(u)
    <3>1. u # t
      BY <2>1 DEF CancelRoute, IInv, RowsInv
    <3> QED BY <1>1, <2>1, <3>1 DEF CancelRoute
  <2>2. CASE ~CancelRoute(u)
    BY <1>2, <2>2 DEF TaskStep, Start, Load, SaveUser, Route, SaveReply, Complete, Hooks,
       CancelElsewhere, PersistReturns, DoneCallback, DbError
  <2> QED BY <2>1, <2>2
<1>3. ASSUME NEW u \in Tasks, InnerStep(u), u # t
      PROVE  inner'[t] = inner[t]
  BY <1>1, <1>3 DEF InnerStep, InnerInsert, InnerError, InnerNotify
<1>4. ASSUME NEW s \in Sockets,
             \/ Connect(s) \/ Disconnect(s) \/ Refuse(s) \/ Dispatch(s)
             \/ \E c \in Convs \cup {NoConv} : Receive(s, c) \/ Cancel(s, c)
      PROVE  inner' = inner
  BY <1>4 DEF Connect, Disconnect, Refuse, Dispatch, Receive, Cancel, taskVars
<1> QED BY <1>2, <1>3, <1>4 DEF Next

\* The next state has what MarkerInv says.
LEMMA MarkerNext ==
  ASSUME IInv, MarkerInv, Next
  PROVE  MarkerInv'
<1> SUFFICES ASSUME NEW t \in Tasks
             PROVE  /\ pc'[t] = "persist" => inner'[t] # "none"
                    /\ inner'[t] = "done" => "cancelled" \in sent'[t]
  BY DEF MarkerInv
<1>1. /\ pc \in [Tasks -> Pcs] /\ inner \in [Tasks -> {"none", "insert", "notify", "done", "failed"}]
      /\ sent \in [Tasks -> SUBSET {"typing", "complete", "error", "cancelled", "hooks"}]
  BY DEF IInv, TypeOK
<1>2. inner[t] # "none" => inner'[t] # "none"
  <2> SUFFICES ASSUME inner[t] # "none"
               PROVE  inner'[t] # "none"
    OBVIOUS
  <2>1. CASE InnerStep(t)
    BY <1>1, <2>1 DEF InnerStep, InnerInsert, InnerError, InnerNotify
  <2> QED BY <2>1, MarkerStep
<1>3. sent[t] \subseteq sent'[t]
  <2>1. ASSUME NEW u \in Tasks, TaskStep(u) \/ InnerStep(u) \/ DbError(u)
        PROVE  sent[t] \subseteq sent'[t]
    <3>1. sent' = sent \/ \E e : Emit(u, e)
      <4>1. CASE Start(u) \/ Load(u) \/ Route(u)
        BY <4>1 DEF Start, Load, Route
      <4>2. CASE Complete(u) \/ Hooks(u) \/ InnerNotify(u)
        BY <4>2 DEF Complete, Hooks, InnerNotify
      <4>3. CASE \/ SaveUser(u) \/ SaveReply(u) \/ CancelRoute(u) \/ CancelElsewhere(u)
                 \/ PersistReturns(u) \/ DoneCallback(u) \/ DbError(u)
                 \/ InnerInsert(u) \/ InnerError(u)
        BY <4>3 DEF SaveUser, SaveReply, CancelRoute, CancelElsewhere, PersistReturns, DoneCallback,
           DbError, InnerInsert, InnerError
      <4> QED BY <2>1, <4>1, <4>2, <4>3 DEF TaskStep, InnerStep
    <3>2. ASSUME NEW e, Emit(u, e)
          PROVE  sent[t] \subseteq sent'[t]
      BY <1>1, <3>2 DEF Emit
    <3> QED BY <3>1, <3>2
  <2>2. ASSUME NEW s \in Sockets,
               \/ Connect(s) \/ Disconnect(s) \/ Refuse(s) \/ Dispatch(s)
               \/ \E c \in Convs \cup {NoConv} : Receive(s, c) \/ Cancel(s, c)
        PROVE  sent' = sent
    BY <2>2 DEF Connect, Disconnect, Refuse, Dispatch, Receive, Cancel, taskVars
  <2> QED BY <2>1, <2>2 DEF Next
<1>4. pc'[t] = "persist" => pc[t] = "persist" \/ inner'[t] = "insert"
  <2>1. ASSUME NEW u \in Tasks, TaskStep(u) \/ InnerStep(u) \/ DbError(u)
        PROVE  pc'[t] = "persist" => pc[t] = "persist" \/ inner'[t] = "insert"
    BY <1>1, <2>1 DEF TaskStep, InnerStep, Start, Load, SaveUser, Route, SaveReply, Complete, Hooks,
       CancelRoute, CancelElsewhere, PersistReturns, DoneCallback, DbError, InnerInsert, InnerError,
       InnerNotify, Goto
  <2>2. ASSUME NEW s \in Sockets,
               \/ Connect(s) \/ Disconnect(s) \/ Refuse(s) \/ Dispatch(s)
               \/ \E c \in Convs \cup {NoConv} : Receive(s, c) \/ Cancel(s, c)
        PROVE  pc'[t] = "persist" => pc[t] = "persist"
    BY <1>1, <2>2 DEF Connect, Disconnect, Refuse, Dispatch, Receive, Cancel, taskVars
  <2> QED BY <2>1, <2>2 DEF Next
<1>5. inner'[t] = "done" => inner[t] = "done" \/ "cancelled" \in sent'[t]
  <2>1. CASE inner[t] = "none"
    <3>1. ASSUME NEW u \in Tasks, TaskStep(u) \/ InnerStep(u) \/ DbError(u)
          PROVE  inner'[t] # "done"
      BY <1>1, <2>1, <3>1 DEF TaskStep, InnerStep, Start, Load, SaveUser, Route, SaveReply, Complete, Hooks,
         CancelRoute, CancelElsewhere, PersistReturns, DoneCallback, DbError, InnerInsert, InnerError, InnerNotify
    <3>2. ASSUME NEW s \in Sockets,
                 \/ Connect(s) \/ Disconnect(s) \/ Refuse(s) \/ Dispatch(s)
                 \/ \E c \in Convs \cup {NoConv} : Receive(s, c) \/ Cancel(s, c)
          PROVE  inner' = inner
      BY <3>2 DEF Connect, Disconnect, Refuse, Dispatch, Receive, Cancel, taskVars
    <3> QED BY <2>1, <3>1, <3>2 DEF Next
  <2>2. CASE InnerStep(t)
    BY <1>1, <2>2 DEF InnerStep, InnerInsert, InnerError, InnerNotify, Emit
  <2> QED BY <2>1, <2>2, MarkerStep
<1> QED BY <1>2, <1>3, <1>4, <1>5 DEF MarkerInv

\* _persist_and_notify is out of reach of every later cancel: from the moment a response
\* is cancelled while routing, its marker is inserted and announced, or its INSERT fails,
\* and whoever waits for it waits for one of the two.  Of CancelLeavesMarker this is the
\* part that does not depend on fairness.
THEOREM MarkerIsUndisturbed == Spec => []MarkerInv /\ MarkerIsShielded
<1>1. Init => MarkerInv
  BY DEF Init, MarkerInv
<1>2. IInv /\ MarkerInv /\ [Next]_vars => MarkerInv'
  <2>1. UNCHANGED vars /\ MarkerInv => MarkerInv'
    BY DEF vars, MarkerInv
  <2> QED BY <2>1, MarkerNext
<1>3. IInv /\ [Next]_vars => [\A t \in Tasks : inner[t] # "none" => inner'[t] = inner[t] \/ InnerStep(t)]_vars
  BY MarkerStep
<1> QED BY <1>1, <1>2, <1>3, Invariant, PTL DEF Spec, MarkerIsShielded
=============================================================================
