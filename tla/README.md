# BowersHub AI: TLA+ models and proofs

BowersHub AI (`src/bowershub-ai`) is a household assistant: a FastAPI backend on
PostgreSQL, with chat over WebSockets, personal finance with automatic
categorization, smart capture of notes and receipts, scheduled prompts, and a
React frontend. It runs as **one asyncio process**; code between two awaits is
atomic, and what interleaves is (a) the coroutines of that process at their
awaits, (b) database transactions under PostgreSQL's READ COMMITTED, and (c) a
process that stops and starts again. The models are about these three.

## 1. Inventory

Paths are relative to `src/bowershub-ai/backend` unless they say otherwise.

| Component | State | Operations | Hard behaviour | What makes it correct |
|---|---|---|---|---|
| Chat handler `websocket/handlers.py` | `_active_tasks`, a task and its await per message, rows of `bh_messages` | auth, message, cancel, disconnect, `handle_chat_message` | several devices, replaced and cancelled tasks, done callbacks that run late, a shielded insert | one response at a time, history agrees with what was shown, every response ends |
| WebSocket manager `websocket/manager.py` | `connections[user]` lists | connect, disconnect, `stream_to_user` | the list changes under an iteration | each device once, nobody left out, no dead entries |
| Categorizer `services/categorizer.py`, `services/categorization/` | `finance.transactions`, `categorization_decision`, engine gate, thresholds | nightly run, run by hand, tiers, gate, Writer, shadow mode | answers computed from old snapshots, overlapping runs, engine switched meanwhile, restarts | a person's choice stands, the log is true, gates hold |
| Review API and chat corrections `routers/finance_review.py`, `services/category_override.py` | the same rows, `user_rules`, `merchant_memory` | categorize, bulk, apply to merchant, rules over history | they race with the runs | as above |
| Splits `services/splits.py` | parent and child rows | create, replace, unsplit | several statements under READ COMMITTED | the parts add up to the parent |
| Transfer links `services/accounting/transfers.py` | `transfer_id`, `is_transfer`, sticky flag | link, unlink, nightly pass | decides from several reads, writes later | links are pairs, linked rows are left alone |
| Smart capture `services/smart_capture/` | `bh_smart_capture_commits` guard rows | extract, sign, commit, file | retries, crash between guard and result | at most one write per capture; a retry can succeed |
| Authentication `services/auth.py`, `routers/auth.py` | refresh tokens, invites, reset tokens | login, refresh, logout, invite, reset | check and mark are separate statements | one use each; logout ends every session |
| Hooks and scheduled prompts `services/hook_engine.py`, `services/scheduled_prompts.py` | `bh_hooks`, APScheduler's copies, `_running_schedules` | tick, run now, toggle, delete, deliver | stale copies, overlapping runs, select-or-insert | one run at a time, none after delete |
| Embedding worker `services/embedding_worker.py` | `kb_chunks` state, attempts, version | reconcile tick, reap | backoff, dead letters, edits and version bumps in between | every live source is embedded in the end |
| Reminders and alerts `services/alerts.py`, `services/notifications.py` | `bh_reminders`, push subscriptions, quiet hours | `/remind`, `--clear`, the minute job, web push, Pushover | crash between send and mark, quiet hours, clearing under a delivery, LIMIT | every reminder, once unless cut |
| Chat client `frontend/src/services/websocket.ts`, `stores/conversation.ts` | socket, queue, messages on screen | connect, reconnect, send, receive | queue flushed on reconnect, events of another conversation | the screen is what a reload shows |
| Startup, scheduler `main.py` | APScheduler jobs | start, stop | jobs overlap | wiring of the parts above |
| Database `database.py` | pool, applied migrations | run migrations | each in its transaction | each once, in order |
| SimpleFin sync `services/simplefin_sync.py` | accounts, transactions | insert what is new | runs beside everything | never changes a known row |
| Router engine, tools, model providers | none across messages | answer one message | long awaits | outside: a model's output |
| Data browser `routers/db_browser.py` | any table, `bh_db_browser_undo_log` | edit, delete, bulk, undo, redo, leave | two sessions on one row, overlapping requests of one, an undo in three transactions, redo order, statements and foreign keys that reach more rows than are logged | taking back all restores what was logged, a deletion has its entry |
| Lists, knowledge, retrieval, budgets, insights, briefing, notifications, dashboard | rows of their own | CRUD, reads, text | little | left out |
| Frontend pages, theme, service worker; scripts, archive, n8n workflows | - | - | - | left out |

Interactions: the chat handler streams through the manager and awaits the router
engine; the scheduler starts the flagging job, the categorizer and the link pass at
2:15, 2:30 and 2:45, and nothing keeps them from overlapping each other or a person;
the categorizer, the review API, splits and links share the rows of
`finance.transactions` and meet only in the `WHERE` clauses of their UPDATEs.

`PROJECT.json` lists every component with its status, and under `hazards` what in
this code is hard to test, at its line, with the properties that would catch it.

## 2. Modules

| Module | Models | State and actions |
|---|---|---|
| `Transcript` | what the chat history promises | `rows` of each message; `Ask`, `Answer` |
| `ChatTasks` | `handlers.py` | a receive loop per device (`Connect`, `Receive`, `Dispatch`, `Cancel`...), a task per message that moves from one await to the next (`Start` ... `Hooks`), cancellation at the await where it strikes (`CancelRoute`, `CancelElsewhere`), the shielded `_persist_and_notify` (`InnerInsert` ...), and `DoneCallback` |
| `ChatTasksProofs` | - | inductive invariant, theorems |
| `StreamFanout`, `MCStreamFanout` | `manager.py` | the live list `conns`, list identity `gen`, a walk per event; `Begin`, `Send`, `Abort`, `Connect`, `HandlerEnds` |
| `StreamFanoutProofs` | - | inductive invariant, theorems |
| `Cascade`, `MCCascade` | the categorizer and the people who correct it | `row`, `engine`, a snapshot per `run`; `StartRun`, `Classify`, `Write`, `Legacy`, `Restart`, and an action per kind of edit; apply-to-merchant in `bulk` as `SelectMerchant`, `LogMerchant`, `ApplyMerchant`; of the decision log what was last logged as applied (`applied`, `flagged`, `claimed`) |
| `CascadeProofs` | - | inductive invariant, theorems |
| `Ledger`, `MCLedger` | splits and transfer links | committed `row`, a database transaction per editor in `edit`, the nightly `pass` |
| `LedgerProofs` | - | inductive invariant, theorems |
| `OncePerKey` | what the capture guard promises | the result `stored` for a key, and who was `told` it; `Record`, `Tell` |
| `Capture` | `smart_capture/commit.py`, its connections | a program counter per call; `Db...` actions are the statements of one transaction, `Svc...` actions commit one by one; `Cancel`, `Crash` |
| `CaptureProofs` | - | inductive invariant, theorems |
| `Undo`, `MCUndo` | the undo log of `db_browser.py` | the `row`s of the edited tables with their first key column (`Key`) and foreign keys (`Referrers`), a `log` per session, the request `req` of each handler; `Begin...` is what a request reads before its transaction, then `Update`, `Delete`, `UndoUpdate` ... and `Mark`; `Create` and `OutsideEdit` log nothing; `Clear` |
| `UndoProofs` | - | inductive invariant, theorems |
| `Embedding`, `MCEmbedding` | `embedding_worker.py`, `embeddings.py` | `source`s and their `chunk` rows, the embed `model` and `version`, the running `tick`; `Find`, `ReadConfig`, `Embed`, `Store` once per kind, then `Reap`; `Break`; edits, `SetAlias`, `Bump`, `Elapse` |
| `EmbeddingProofs` | - | inductive invariant, theorems |
| `Reminders`, `MCReminders` | `alerts.py`, `notifications.py`, `/remind` | `row` per reminder, `subs`criptions, who is `awake`, the running `tick`; `Fetch`, `Prefs`, `Push`, `Pushover`, `Mark` one await at a time; `Cut`; people and the clock |
| `RemindersProofs` | - | inductive invariant, theorems |

Components are abstracted where another module owns the detail. ChatTasks sees the
socket layer as events in `sent`; StreamFanout is what happens inside one such event.
Cascade sees a split as one edit of a row; Ledger has its statements. Ledger sees the
categorizer as `Flag`; Cascade has how it decides.

How code became actions:

* **Awaits.** An action of ChatTasks or StreamFanout runs from one await to the next.
  A cancelled task sees the CancelledError at the await it is in; an INSERT it was
  waiting for may or may not have been committed, and the same is so when the statement after
  it or its answer fails, so `CancelElsewhere` and `DbError` have both outcomes (`Interrupted`).
  `load` stands for several awaits in a row (the typing event and two SELECTs) that differ
  in nothing the properties see. A response without a conversation has no key and no
  callback; it is a task of the conversation `NoConv`, which no row matches.
* **List iteration.** `for ws in self.connections[user]` is a position in a list object
  that others change. An emptied list is deleted from the dictionary and a later connect
  makes a new one, so a walk remembers which list (`gen`) it holds.
* **Tiers.** `Pipeline` picks from a tuple of the tiers' answers and is checked, by the
  assumption `PipelineIsTheLoop` in MCCascade, against the loop of the program for about
  two thousand tuples of answers. What a tier answers is any decision it may return with
  a confidence on either side of its threshold; which it is depends on data.
* **Statements.** In Ledger, transactions that carry a value from one statement to the
  next go statement by statement: a DELETE acts on the children it saw, waits for rows
  others hold, and the effects appear at the commit. A DELETE also locks, through ON DELETE SET
  NULL, the counterparts of the children it deletes (`NullLinks`); two edits whose children are
  linked to each other wait there in a circle, which PostgreSQL breaks by aborting one of them
  (`Rollback`). The rows of one statement are locked together. Single UPDATEs with a guard in the
  WHERE clause, and one row's categorizer transaction, are one action. A rule applied to
  history reads its rows and updates them with a re-check of the override; it is one action.
* **Decision log.** `finance.categorization_decision` only grows; Cascade keeps the last decision of
  a row that claims to have been applied. The review API logs one for each edit, the chat none.
  Apply-to-merchant logs the rows it selected and then updates those that are not overridden by
  then: under READ COMMITTED it may log a row that it does not write, and write one that it did
  not log (`LogMerchant`, `ApplyMerchant`); the UPDATE and the commit are one action. The values
  a row had before, which are logged too, are not modelled.

* **Claims.** In Capture an open transaction shows nothing of its writes: a call is between
  `write` and `commit`, and an INSERT of the same key waits for it (`Claimable`). A service
  claim is committed at once. Each statement may take effect without its caller hearing of it.
  A call whose token is refused ends in `Begin`; what makes a token valid is not modelled.

* **Undo.** A row is a function from columns to values; a date column holds `Stamp` or
  null, because a logged date comes back as JSON text and the statement refuses it
  (`Sendable`). `Stamp` is some date: which one, as after a trigger has set `updated_at`, is not
  compared. The statements of the browser name a row by its *first* primary-key column
  (`db_browser.py:1044`, 1198, 3246, 3413), so in a table with a composite key they change or delete
  all rows that share it (`Twins`), while one of them is read and logged. A deletion also removes the
  rows that refer to a deleted one by ON DELETE CASCADE, or clears a column by SET NULL
  (`Left`); none of that is logged. The log of a session is a sequence and an entry its place in
  it. An undo reads its entry (`BeginUndo`), reverses it (`UndoUpdate`, `UndoDelete`) and marks it
  (`Mark`); any of them may be the last one to happen (`Refused`). Requests without a usable session id
  are the writer `Outside`. A bulk request is a series of single ones under one transaction
  each, as in the code. Neither the page (`stores/db-browser.ts:688`) nor the server waits for one
  request of a session before the next, so a session has as many requests under way as there are
  `Handlers`. Edits of key columns are left out, and the foreign keys that refuse an INSERT
  are among the reasons of `Refused` and bind no other step.
* **Ticks.** APScheduler runs one instance of a job, so `tick` is one program counter. All that
  the worker and the reminder job know between ticks is in their tables, so a restart and an
  error that ends the tick are the same action (`Break`, `Cut`). A text stands for its hash
  and a model for its vector space. `Elapse` is the backoff of one row running out.

Findings made while modelling are runs with `expect: violation`; see section 4.

## 3. Runs

| Run | Instance | Shows |
|---|---|---|
| `chat` | 2 devices, 1 conversation and "no conversation", 2 messages; 53 thousand states | types; a complete, hooks or cancelled event only after its stored row (`ShownIsStored`); the table names the newest task or none (`TableNamesNewest`); a response cancelled while routing leaves its marker unless the INSERT fails (`CancelLeavesMarker`); every response ends (`ResponsesEnd`); the history implements `Transcript` |
| `chat_overlap` | 1 device, 3 messages | violation of `NoOverlap` |
| `fanout` | 3 devices, 2 events, symmetric; 85 thousand states | nobody gets an event twice, though positions shift under a walk (`AtMostOnce`); the list holds who is connected (`ListIsExact`); a walk under which nobody else removed a socket reaches everyone or finds them dead (`CompleteWhenUndisturbed`) |
| `cascade` | 1 row, 2 categories, 2 runs and a request to a merchant, of which 2 are in flight at once; 950 thousand states | a person's category and transfer flag stand against every run, bulk change and rule (`HumanCategoryStands`, `HumanTransferStands`); the last decision logged as applied is that of the row, if the cascade wrote it (`LogMatchesRow`); every automatic write cleared its own gate (`AppliedClearsItsGate`); a run begun in shadow writes nothing (`ShadowMutatesNothing`) |
| `ledger` | 2 synced rows, 4 child ids, 1 editor, the pass and links by hand; 360 thousand states | parts add up in every committed state (`SplitSums`); links never chain (`LinksNeverChain`); the pass changes no linked row (`PassKeepsLinks`) |
| `split_race` | the same with 2 editors | violation of `SplitSums` |
| `capture` | 3 calls, 1 DB key, 2 service keys, a pool of 3; 83 thousand states | one row per recorded DB key (`OneRowPerKey`); one committer at a time (`OneAtATime`); a DB commit is never "already in progress" (`DbNeverBusy`); a recorded result is final (`DoneIsFinal`); every call ends (`CallsEnd`); the guard implements `OncePerKey` |
| `capture_claim` | 2 calls, no crashes | violation of `ClaimHasOwner` |
| `undo` | 2 sessions with 2 entries between them, 3 requests, 3 rows with a plain and a date column: one alone under its key, one that refers to it, and a third that shares the first key column of the second; 160 thousand states | a session that takes back all it did, alone and one request at a time, finds the rows that its first key column identifies and that refer to no other as they were, whatever it redid in between and whatever was refused (`UndoAllRestores`); a deletion has an entry of its key in a log (`NothingLost`) |
| `undo_stuck` | 1 session, 3 changes | violation of `NewestCanBeUndone` |
| `embedding` | 2 lists, batches of 1, 2 tries, 2 edits, 1 new model, 1 new version, 1 broken tick; 480 thousand states | after a version bump no vector of an earlier model is searchable (`NothingFromBefore`); a good vector is not thrown away (`FreshStays`); every source is embedded or given up (`Settles`); chunks of removed sources go (`OrphansGo`) |
| `reminders` | 3 reminders of 2 users, batches of 2, 1 device, 1 cut each; 580 thousand states | nothing repeated but by a cut (`OnceEach`); marked means sent or tried (`MarkedWasSent`); cleared stays cleared (`ClearedStays`); every due reminder is tried in the end (`AllDelivered`) |

Why the bounds are enough. The table of ChatTasks is read and written by the newest
task, the one before it and a late callback: two messages give a replaced and a replacing
task, a third the overlap. Conversations share nothing (a key is one conversation, and one
user), so one is enough beside the missing one. Three devices let a walk stand between a
device before it and one after it; two events clean up one dead device twice. In Cascade
rows meet only in bulk edits, which are guarded row by row, so one row with two runs and
all edits has every race of the guards. Transfers are answered on both sides of their
threshold; rules and merchant memory above theirs, nearest neighbours below; the llm tier abstains,
whose answers would be more of the same. All tiers on both sides of their thresholds are in
`PipelineIsTheLoop`. A row's merchant is fixed: the normalizer sets it once. In Ledger four ids let a split be replaced while the
old children exist, and the amounts let a child pair with a deposit and be deleted under
the pass. In Capture three calls on one key are an owner, one that waits for it and one
that comes later; two service keys with a pool of three let two owners wait for their
second connection beside a third call. With a pool of two `CallsEnd` fails, each owner
holding what the other waits for: a pool of `max_size` 20 needs twenty commits to services
at the same time for that.

In Undo a session with two changes has an older and a newer entry, which is what undo and
redo choose between; the second session supplies the races on the row. The three rows are the ways
in which a statement reaches a row: by its own key, by a shared one, by a reference. `MCBound`
allows a behaviour one disturbance: a writer from outside, the second session, requests of
a session that overlap, an undo that is not marked, or a page that is left; the theorems about
Undo have no such bound. Values are few because only "the same as before" matters. In Embedding two sources and batches of one make one wait
for the other; two tries are a pending and a last one; one new model and one new version can
fall between any two reads of a tick. In Reminders one reminder is held for ever and must
leave the batch of two to the two of another user; with a batch of one they would starve,
which the assumption `HeldFit` excludes. The program's batch is ten, so ten reminders held by
quiet hours delay everybody else's until those hours end.

Deadlock is checked in ChatTasks and Embedding only. In the other modules the people may stop editing,
all jobs be idle, all events be sent or all calls be made, so a state without successors
is no error.

Fairness is assumed in ChatTasks and Capture: weak fairness of every task and of every shielded
insert, that is, the event loop resumes what is ready and awaits return (HTTP calls have
timeouts; a database that never answers is outside the model). Nothing is assumed of
devices, of people, or of errors: `DbError`, `InnerError`, `Cancel` and `Receive` have no
fairness of their own. In Capture the steps of a call are weakly fair (statements and
services answer or time out, a released lock or connection reaches who waits for it), and
`Begin`, the failures, `Cancel` and `Crash` are not.
In Embedding the steps of the worker are weakly fair (the scheduler starts a tick every two
minutes, HTTP calls time out after 60 seconds) and so is the backoff; edits, model and version
changes and broken ticks are not. That a batch *succeeds* is never assumed, which is why
`Settles` ends in "or was given up". In Reminders the job, the clock and the end of quiet
hours are weakly fair, but for the users in `Sleepless`; people and failures are not.

## 4. Findings

* **Overlapping responses** (`chat_overlap`). `handlers.py:134` pops whatever the key names
  when the callback of a replaced task runs, which by then is its successor. The next
  message cancels nothing, and "cancel" says that nothing is in progress.
  `TableNamesNewest` is what remains true: the table may forget a running response, and
  never names an old one.
* **Parts that do not add up** (`split_race`). `splits.py:51` deletes the children it can
  see; with two edits at once (a double click on Save is enough) children of the other survive.
* **A claim nobody works on** (`capture_claim`). `commit.py:100` releases the claim of a
  service-backed capture for an `Exception` only. A commit cancelled in the chat, or whose
  last UPDATE fails, leaves it, and retries hear "duplicate commit already in progress" for
  the rest of the token's thirty minutes.
* **An undo that never comes back** (`undo_stuck`). Redo takes the *oldest* undone entry
  (`db_browser.py:3369`) and a new change does not discard the undone ones. Delete, undo,
  delete again, redo: the first deletion is repeated on nothing, and both stand. Undo puts the
  row back, and the next undo finds it there, answers 409, marks nothing, and blocks every
  older entry of the session.
  `UndoAllRestores` is what remains true of a row alone under its key.

Seen while modelling, and not runs of their own:

* A device that leaves while an event is being sent makes the walk at `manager.py:68` skip the
  device after it for that event; `CompleteWhenUndisturbed` excludes these walks.
* The transfer UPDATE at `pipeline.py:104` does not re-check the override: a row that a person
  categorized or split after the run's snapshot may still be flagged as a transfer.
* `transfers.py:124` reads the counterpart and clears later: an unlink that raced with a link
  leaves a one-sided link. The nightly pass then fails on the unique index for as long as the
  free side has a candidate, and that error ends the pass.
* `set_model_alias` (`routers/admin.py:466`) can give the role `embed` to another model without
  raising `embedding_config.version`; until somebody does, vectors of two models are ranked
  together, against the comment at `hybrid_retrieval.py:13`. Nothing in the backend raises it.
* A dead chunk is not reselected when the version moves on, and one that is edited gets a
  single try, since `attempts` is kept (`embedding_worker.py:211`).
* A late batch of a text from before an edit that was taken back replaces a good vector; it is
  the exception in `FreshStays`.
* A reminder whose every channel failed is marked delivered. `check_budgets` remembers a
  budget as fired before it notifies (`alerts.py:105`), so in quiet hours that alert is lost.
* In a table with a composite key (`bh_workspace_skills`, `recipe_files` and others,
  `0001_baseline.sql:3177`, 2554) an edit or deletion in the data browser reaches all rows with the same
  first key column and logs one of them, and what ON DELETE CASCADE or SET NULL changes is in no
  log: undo does not bring these rows back, against the comment at `db_browser.py:1328`, "never
  leaving a deleted row with no undo record". `UndoAllRestores` and `NothingLost` leave them out.
* Two requests of one session can read the same entry or the same row before either commits, as
  the comment at `db_browser.py:3304` expects; after that its log need not restore the rows.
* An undo that is cut between its reversal and its mark leaves an entry that answers 409 for ever.
* The rows that apply-to-merchant logs as applied are those of its SELECT, and those it writes are those
  of its later UPDATE (`finance_review.py:350`, 360); the docstring says that each rewrite is logged.
* A deletion or an edit that held a date cannot be undone: the logged text is refused.

## 5. Proofs

`ChatTasksProofs` proves, for any sets of devices and conversations and any number of
messages, from `NoConv \notin Convs` and `MaxTasks \in Nat` only:

* `TypeCorrect`: `Spec => []TypeOK`;
* `ShownIsAlwaysStored`: `Spec => []ShownIsStored`;
* `TableIsCurrent`: `Spec => []TableNamesNewest`;
* `ImplementsTranscript`: `Spec => TranscriptSpec`, the refinement.

All rest on `Invariant: Spec => []IInv`. `TypeOK` alone is not inductive: it allows at
most two rows for a message, and that no step appends a third follows only from where
the code is. `RowsInv` says that: before `saveUser` returned there is no row, from `route`
on there is the user's, after `saveReply` the reply too, and the shielded insert has still
to store its marker exactly when the user's row stands alone. It also says that tasks not
yet created are untouched, which `Dispatch` needs. `TableInv` bounds the table by the
tasks that exist, so that a new task is newer than all it names. TLC checked `IInv` on the
instance of run `chat` before the proof. One lemma covers the steps of a receive loop
(`SocketStepInv`), one those of a task (`TaskStepInv`), one those of the shielded insert
(`InnerStepInv`), with one step per action and one below it per conjunct.

Three theorems go beyond the run. `OverlapNeedsForeignCallback` names the cause of finding
`chat_overlap`: in every behaviour in which no done callback removes the entry of another
task (`CallbacksAreOwn`), `NoOverlap` holds. So a callback that first looks whether the
entry is its own is a sufficient repair; `ProducerInv`, whoever produces a response is in
the table, is then inductive. `ResponsesAdvance` and `MarkerIsUndisturbed` are the safety
that `ResponsesEnd` and `CancelLeavesMarker` rest on: each step of a response strictly
raises its `Place` on the way to `gone` and no other step lowers it, and a marker under way
is moved by the shielded insert alone, whatever is cancelled in between.

`CaptureProofs` proves, for any sets of calls and keys, any pool and with or without
crashes, from `DbKeys \cap ServiceKeys = {}`, `NoCall \notin Calls` and `NoKey \notin Keys`:

* `TypeCorrect`, `OneRow`, `Exclusive`, `NeverBusy`: the invariants of run `capture`;
* `Final`: `Spec => DoneIsFinal`, an action property;
* `ImplementsOncePerKey`: `Spec => OncePerKeySpec`.

That two calls are never inside the committer is not inductive: a second claim must be
impossible while a first call is inside. `OwnerInv` says why: its key is still free in the
table while a transaction holds it, and then the INSERT waits, or claimed while a service
has it, and then the INSERT conflicts. `GuardInv` says that a key has a result exactly when
it is done and that a DB key is never seen claimed, which is why a replay of one finds a
result. The lemmas follow the kinds of steps: those that leave the guard alone (`QuietInv`),
claims (`ClaimInv`), the owner's writes (`OwnerStepInv`), and a restart (`CrashInv`).

`PoolNeverDeadlocks` is about the two connections a service commit holds: for finitely many
calls, as long as fewer keys are being served than the pool has connections, some call in
flight can take its next statement. It follows from `OneAtATime`, by which calls that all wait
for a second connection have different keys (`AllAtWork`). When as many commits run as there are
connections they wait for each other, and that is a limit of the code. `ClaimKeepsOwner` says what
finding `capture_claim` needs: without a cancelled call, a restart, a claim its caller does not
hear of and a failing statement on the guard (`NobodyLost`), `ClaimHasOwner` holds, duplicates
and refusals of the service included. `CallsAdvance` is the safety half of `CallsEnd`.

`StreamFanoutProofs` proves all four invariants of run `fanout` (`TypeCorrect`, `SentOnce`,
`ListStaysExact`, `UndisturbedIsComplete`), for any sets of sockets and events, without
assumptions. `WalkInv` is the strengthening: no socket ahead of a walk's position in the list
it holds was sent the event or is being sent it. It survives removals because a socket that stays only moves to
the front (lemma `WithoutIs`), and it is what keeps a shifted list from repeating a device.
`StartInv` and `Complete` add that, undisturbed, whoever was listed at the start is sent,
found dead, being sent to, or still ahead.

`CascadeProofs` proves the four invariants of run `cascade` and the action property
`ShadowMutatesNothing`, for any rows, runs, categories, confidences and thresholds. The
invariant is `TypeOK`, `GateInv` (what a run is about to write cleared the gate of its tier),
`ManualInv` (a transfer flag that a person set is marked as manual in the row, where the WHERE
clauses test it), `SettledInv` (an overridden row was last written by a person, so that the decisions
which apply-to-merchant logged are of rows it writes itself or of rows that are not the cascade's) and
the four invariants themselves. Lemma `PipelineIs` says that the pipeline returns
one of the tiers' answers or abstains.

`LedgerProofs` assumes that there are finitely many row ids and proves, for any number of
editors, `TypeCorrect`, `NoChains` and the action property `PassIsSafe`. That links never
chain rests on the foreign key (`LinkInv`, no link dangles) and the unique index, not on the
checks of the code; `KidInv` and `EditInv` say what a split in progress may be of.

`PartsAddUp` is `SplitSums` for any number of editors, as long as no two splits or unsplits
under way are of the same row (`Disjoint`); `OneEditorAddsUp` is the case of run `ledger`.
When two are of the same row it is false (`split_race`), so that is all the finding needs. The
proof needs `EditSum`: the parts a split is inserting add up to the amount of the parent it
read, and the children it locked are all that the parent has. Nothing is proved of waiting: splits
lock their children, then the counterparts of these, then the parent, and two of them whose
children are linked to each other do wait in a circle.

`UndoProofs` proves `TypeCorrect` and `NothingDeletedIsLost` for any rows, keys and references and any
number of sessions and of requests of one session at once, from the named assumptions of Undo
(the marker of a missing row is no row, null and a date are no other value, a handler serves one
session). `NothingLost` is about rows that no other deletion can take along, and speaks of an entry for the
*key* of a row: with a composite key the entry holds one of the rows that were deleted. `LogInv`
and `RequestInv` relate a request in progress to what it read: who redoes a deletion does so from
an entry that is still logged, or was cleared, and who found no row found its key logged.

`AllRestored` is `UndoAllRestores` for any tables and any number of edits, undos, redos and
refusals, beside rows that share keys or refer to others, and needs no induction over the log. `Fine` says of a column that it holds its value of
the start when no entry that touches it stands, and that the oldest entry that touches it, and the
oldest of those that stand, have that value to restore. An undo takes the newest that stands,
so the oldest is the last to go (`TakenBack`); a redo takes the oldest undone. `Fresh` adds that
what a request has read is still so, since the session is alone and its requests do not overlap. `NewestWithoutRedo` says what
finding `undo_stuck` needs: without a redo (`NoRedo`), `NewestCanBeUndone` holds. It is the order
of `POST /redo`, and no interleaving of edits, undos and refusals, that breaks it; the invariant
(`DeletedOnce`) is that a row has at most one deletion that stands.

`EmbeddingProofs` proves `TypeCorrect`, `NoEarlierModel` and the action property
`GoodVectorsStay`, for any finite set of sources and any batch size, number of tries and number
of changes; `NamesAssumption` says that a missing vector is no vector, and a missing chunk no
chunk. `BatchInv` is the heart: the
version that labels a batch is not ahead of the current one, and if it is the current one, the
model the batch is embedded with is not older than the last bump; rows with a good vector are
in no batch. It holds because the version is read before the model. `WorkOnlyShrinks` is the
safety half of `Settles`: a tick takes the first row of its kind that needs work, a stored batch
leaves none of its rows to do unless the row was edited or the version raised since it was read,
and only an edit, a new version, the end of a backoff or such a row adds to the work.

`RemindersProofs` proves the three invariants of run `reminders` and the action property
`ClearedForGood`, for any reminders, users, devices and batch size. `TickInv`, `RestInv` and
`HereInv` say where the tick is in its batch and in the devices of the reminder at its head, and
that the rest of the batch was not tried in this tick; `OnceEach` then counts one send for each
cut and one more, and `TriedInv` carries what was sent to the moment of `Mark`.
`BatchReachesAll` is the safety half of `AllDelivered`: under `HeldFit` the batch holds the
earliest due reminder whose owner is not held for ever, no step but a cut drops a reminder from
it, and after its turn a reminder is marked or cleared unless its owner is in quiet hours.

Only model-checked: the liveness properties (`CancelLeavesMarker`, `ResponsesEnd`, `CallsEnd`,
`Settles`, `OrphansGo`, `AllDelivered`), as the prover has no rule for fairness here; of all but
`OrphansGo`, whose safety is the body of `Reap`, the part that needs no fairness is proved. And the
two assumptions that TLC evaluates on small data, `PipelineIsTheLoop` (MCCascade) and
`WithoutIsRemoval` (MCStreamFanout), which compare a definition with a recursive one. The theorems with a
condition on the behaviour (`OverlapNeedsForeignCallback`, `ClaimKeepsOwner`, `PartsAddUp`,
`NewestWithoutRedo`) add nothing to the code's promises: the condition is not one the code ensures,
and the run named with each shows what happens without it.

## 6. Not modelled

Texts, prompts, tokens of a streamed answer, attachments and their storage; what models
answer; how tiers compute confidences and what learning does to later ones; investment
rows, which no work-set but the legacy one contains; dates and tolerances of the transfer
match; partial locking of the rows of one statement; row locks held by the categorizer's key normalization within one row's transaction
and deadlocks that PostgreSQL resolves by aborting one side (Ledger's `Rollback` is that
outcome); in Undo, columns that come back from JSON rounded (numerics become floats), edits of key
columns, which date a trigger has set, and deletions by other programs, which no log records; that push_subscribe deletes and inserts in
two statements, so that two at once can leave a device twice; the preference that switches web
push off; entries of `kb_chunks` other than `chunk_index` 0, which nothing writes; `is_transfer_manual` in Ledger (Cascade has it); and the components that
`PROJECT.json` lists as not modelled, each with its reason.

## 7. Plan

1. Done: Transcript, ChatTasks, StreamFanout, Cascade, Ledger, OncePerKey, Capture, Undo,
   Embedding, Reminders, and the proofs of section 5.
2. **Hooks** (`hook_engine.py`, `scheduled_prompts.py`): scheduled copies against rows,
   ticks, run-now, delivery.
3. **Sessions** (`services/auth.py`, `routers/auth.py`, the frontend's single-flight refresh):
   rotation and logout.
4. **ChatClient** (`websocket.ts`, `conversation.ts`) composed with ChatTasks: what is on
   screen against what is stored.
5. Proofs. Done: every safety property of a passing run, the safety halves of the liveness
   properties, and for each finding the condition under which the promise holds. Left: the same for
   Cascade (which writes may follow a transfer flag set after the snapshot), for a walk of StreamFanout
   that others disturb (how many devices it can miss), and the modules of 2 to 4 when they are there.

## 8. How to run

In this directory, with `tla2tools` and the community modules on the path:
`tlc -config <cfg> <module>` for each run of `PROJECT.json`, and `tlapm <module>` for the
proof modules.
