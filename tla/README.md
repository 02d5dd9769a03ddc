# A verification project for colyseus-rs

colyseus-rs is a multiplayer game server: rooms are actors, clients reach them
through a matchmaker that reserves seats and a WebSocket per client.  This
directory holds TLA+ modules translated from the source, TLC configurations
that check them on small instances, and proofs checked by TLAPS.

Paths below are relative to `src/crates/colyseus/src`.

## The system

| Component | State | Operations | Hard part |
|---|---|---|---|
| Room actor (`actor.rs`, `room.rs`, `client.rs`) | client list, reserved seats, reconnection entries, lock, disposal request, timers; `ClientState` of each handle, shared with its socket task | one event of its mailbox at a time, ticks, patches, deadlines; disposal check after each turn | hooks are awaited while handles change; the same client may be dropped, expired, removed, kicked and reconnected |
| Socket transport (`server.rs`, `handle_socket`) | one task per connection, a writer task each | Connect, wait at most 10 s for the answer, forward messages, report the disconnect | answers race the timeout and the room's end |
| Matchmaker (`matchmaker.rs`) | registry of room handles, create locks, idempotency cache, shutdown flag | join_or_create, create, join, join_by_id, reconnect, restore, shutdown | concurrent requests over awaits; registry and listings updated apart |
| Driver (`driver.rs`) | the room listings | insert, update, remove, query with filters, sort and paging | listings are copies of what the actor knows |
| State sync (`state.rs`, `diff.rs`, `RoomContext::broadcast_patch`) | last snapshot sent, per-view snapshots, deferred messages | full state on join, patches, view filters | a patch is relative to what each client has |
| Snapshots (`snapshot.rs`, `RoomContext::snapshot`) | queue to a writer thread, files | save, delete, flush, restore, migrate | crash between request and write; expiries in wall-clock time |
| Commands (`command.rs`) | the dispatcher's queue | dispatch, enqueue, drain | commands enqueue commands; the room may be disposed between two |
| Presence (`presence.rs`), clock (`utils.rs`), protocol (`protocol.rs`) | small | | |
| Admin API (`admin/mod.rs`, `admin_rpc.rs`) | none of its own | sends Kick, SetLocked, Dispose, EditState, RPCs to rooms | acts on handles the sockets also use |
| TypeScript client (`clients/ts/client/src/client.ts`) | its copy of the state | full state, patch, message, reconnect | patches must reach the document they were computed from |
| Trivia demo (`demos/trivia/server/src`) | phase, players, scores, questions, timers | twelve commands, two timers, a task, restore | the same event from several sources; a restart in each phase |
| Admin panel, other demos | | | environment of the server |

Interaction: the HTTP routes call the matchmaker; it spawns rooms, registers
their mailbox and asks them for seats; a WebSocket finds its room in the same
registry and sends events to the mailbox; the actor answers through oneshot
channels, publishes its listing in the driver, and writes frames to the queue of
each connection's writer.

## Modules

| Module | Models |
|---|---|
| `Room` | the actor's handlers over seats, entries, client list, disposal |
| `RoomServer` | `Room` composed with the socket tasks; properties, fairness |
| `SessionLifecycle` | what a room promises about a session, as an abstract specification |
| `RoomProofs` | the invariants of the room that hold in any environment, for every value of the constants |
| `RoomOrderlyProofs` | tokens and replaced connections; the invariants, and the refinement of `SessionLifecycle`, that need an orderly environment |
| `CreateLock` | the matchmaker's map of creation locks |
| `MatchMaker` | concurrent matchmaking requests over the room registry, the driver, the idempotency cache; extends `CreateLock` |
| `MatchMakerProofs` | exclusion of creators, types, the refinement of `CreateLock`, for every value of the constants |
| `MatchMakerRoomProofs` | the matchmaker's invariants about rooms, keys, seats and listings; that no request is stuck |
| `StateSync` | full states, patches, views, messages after a patch and the clients' copies, over any diff |
| `ArrayDiff` | the patch of an array that shifts or changes its length: the table and the walk of `diff_array_lcs`, and the client's splices |
| `JsonDoc` | the algorithms on documents: the rest of `diff.rs`, `applyPatch` of the client, the admin panel's edit; extends `ArrayDiff` |
| `Persistence` | saves, the writer's queue, the disk, the end of the process, restore |
| `DurableRoom` | `StateSync` and `Persistence` composed as in the room's actor; `StateSync` is an instance whose `client` is a function of the sessions' standing |
| `Trivia` | the trivia demo's room: its commands, dispatcher, timers, task and restart |
| `TriviaProofs` | its invariants, the progress of a game and the end of a drain |
| `StateSyncProofs`, `PersistenceProofs`, `DurableProofs` | their invariants, and that `DurableRoom` implements both its parts |
| `MCRoomServer`, `MCMatchMaker`, `MCDurableRoom`, `MCTrivia` | instances for TLC |

### Room and RoomServer

A *connection* is one `Client` handle.  A turn of `RoomActor::run` is one
handler, then the disposal check: `phase` is `idle` while the actor waits in
`select!`, `joining` during the await of `on_join`, `settle` before the check
and `stopped` after `dispose`.  Other hooks change nothing that other tasks
could see half-way, so their handler is one step.

| Variable | Code |
|---|---|
| `clients`, `current` | `ctx.clients`: the set of handles, and for each session the first of its entries (`get_client`); the order of different sessions is not observable |
| `reserved_seats` | `none`; `pending` (neither flag); `consumed`; `waiting` (`waiting_reconnection`) |
| `reconnections`, `manual` | `ctx.reconnections`; a token is generated anew for a handle, so the handle stands for it; `manual` are those with `expires_at: None` |
| `overdue` | `created_at.elapsed() >= seat_reservation_timeout` |
| `mailbox` | the unbounded channel, as one queue per connection; senders are independent tasks, so any interleaving of the queues is an order the channel can have |
| `state` | `ClientInner::state` |
| `closing` | a Close frame is in the connection's outbound queue |
| `reply` | the `respond` channel of Connect |
| `listing` | the room's `RoomListing` in the driver |
| `issued`, `joined`, `left` | history: seats given, `on_join` succeeded, runs of `on_leave` |
| `sock` | where `handle_socket` is |

Actions carry the names of their functions: `ReserveSeat`, `Reconnect`,
`RefuseConnect`, `BeginJoin`, `JoinSucceeds`, `JoinFails` (`on_connect`),
`OnMessage`, `OnLeave` (`on_disconnected`, the Leave message, `leave_client`),
`Kick`, `RoomCode` (injected commands, RPCs, SetLocked, timers, ticks),
`HandleDeadlines`, `Settle` and `DisposeEvent`.  `on_drop` may allow the
reconnection (`HoldSeat`, timed or manual) or not; `on_join` may fail; room code
may lock, unlock, call `disconnect` and `remove_client`.  What a hook does to the
context besides its own outcome is a separate `RoomCode` turn.

Time is abstract: any entry or seat with a deadline may expire at any idle moment,
and the expiry of several at once is one step, as in `handle_deadlines`.

Not in the model: the seat request refused or rejected by `on_auth`, the
reconnection check, Inspect and AdminMessage (they change nothing modelled);
`set_max_clients` at run time; Client::leave called by room code (the same step
as `Kick`, which the switch `Kicks` allows); the state slots.

Three constants switch what the environment may do: `Kicks`, `JoinTimeouts` (an
answer takes longer than ten seconds) and `SecondSockets` (a session id is dialled
again without its token).

### CreateLock and MatchMaker

`CreateLock` is `create_lock` and `release_create_lock`: a map from a key to an
`Arc<Mutex<()>>`.  A lock is named by its allocation, so that a request that still
holds a mutex which is no longer in the map is a state of the model; the strong
count is the number of references.  The count is read once without and once with
the entry locked; a removal needs both, so the model reads once, under the lock.

`MatchMaker` is one process per request.  A step is what the code does between two
awaits, or between two accesses to shared state where another thread may come in;
the release of a mutex is merged with the step before it where nothing shared lies
between.

| Variable | Code |
|---|---|
| `ask` | method, options (`criterion` for `filter_by`, `unique` for `unique_by`), filter, Idempotency-Key of the request; constant |
| `pc`, `found`, `tries`, `reply`, `session` | where the request is, its listing or outcome, its failed attempts, the oneshot answer, the session in the response |
| `create_locks`, `arc`, `stage` | the lock map, each request's local `lock`, and its guard |
| `actor`, `mailbox`, `seats`, `locked`, `maker` | the actor's task, its channel, the sessions with a seat or a client, `ctx.locked`, the options it was made with |
| `registry` | `MatchMakerInner::rooms` |
| `listings` | the `LocalDriver`'s entries: whether there is one, its `clients` and `locked` |
| `shutdown`, `cache` | `shutting_down` and the progress of `shutdown()`; `idempotency` |
| `granted` | history: the seats that were ever given |

Steps follow the code: `Start`, `Replay`, `RefuseRequest` (`matchmake_handler`);
`FindMatch`, `NoMatch` (`find_match`), `GetListing` (`join_by_id`);
`EnterCriteria`, `Recheck`, `Verify`, `Release`, `Leave`, `LeaveWithError`
(`join_or_create_inner`); `EnterUnique`, `FindLive` (`create_room_inner`);
`CreateRoom`, `CreateFails`, `Register`, `Publish` (`spawn_new_room`); `SendReserve`,
`RoomIsGone`, `Reserved`, `NotReserved`, `Denied`, `TimeOut` (`reserve_seat`).  The
future of a route's request may be dropped at each await (`Cancel`).  Actors grant
and refuse seats, lock, lose seats, publish their listing and dispose in three
steps (`BeginDispose`, `RemoveListing`, `Deregister`), in which the registry, the
listing and the channel disagree.

Switches: `EarlyTurns` (the actor, spawned before `Register`, runs at once),
`RoomCode` (hooks fail, rooms lock and dispose themselves, `on_auth` rejects),
`Timeouts` (the five-second seat timeout, dropped requests, cache expiry, the
shutdown's five seconds), `Duplicates` (a key is sent again before its first
request was answered), `Shutdowns`.

Abstractions: one registered room type; the order in which a query's candidates
come is open; which room id a creation gets is fixed (ids are not compared); a
query of the driver is one step, though DashMap iterates shard by shard; the cache
key is the request's key, as the method and room name are part of both.  Not
modelled: `reconnect()`, `query` and statistics, which change nothing;
`restore_room`; the private flag, which excludes a room as the lock does.

### StateSync, ArrayDiff and JsonDoc

| Variable | Code |
|---|---|
| `typed`, `snapshot` | `StateSlot::typed`, `StateSlot::snapshot`; `NoDoc` when the room is not there |
| `filtered`, `views` | whether a view filter is set; `view_snapshots` |
| `client` | the client of each session: joined, away (a held seat), none |
| `notes` | `after_patch`, one queue per client it is for |
| `wire` | the frames that were sent to a client and that it has not taken |
| `copy` | `state` of the client's `Room` object |
| `history`, `skewed` | history: the states the room has had; the clients that the code itself leaves with a state other than the one patches start from |

Actions: `SendFull` (the end of `on_join` and of a reconnection: full state, then what
waited), `PatchTick` (`broadcast_patch` with and without view filter, then the
messages after the patch), `ChangeState` (`state_mut`), `ReplaceState` (`set_state`),
`AdminEdit` (`edit_at_path`), `AfterPatch`, `Receive` (`client.ts`), `SDrop`, `SDepart`,
`Stop` and `Resume` (disposal and restore).  The diff, its application, the view and the
edit are parameters: the module needs only that applying a patch to the document
it starts from gives the document it leads to (`DiffLaw`).

`ArrayDiff` and `JsonDoc` have the code's algorithms as operators.  `ArrayDiff` is
`diff_array_lcs` and what the client makes of its edits; it has recursive functions and
no recursive operators, so that it can be proved about.  `LcsTable` is the table `dp`;
`Round` is one round of the three loops, each of which is a case of it (`Stays`, `Goes`,
or an addition), on a record of `i`, `j`, `cur` and the operations so far; an edit names
its element by number, and `DiffLcs` of `JsonDoc` turns it into an operation with a
path.  `JsonDoc` has `diff_value` with objects, arrays by index, by LCS and by position,
`applyPatch` (missing children, an exception half-way) and `edit_at_path`.  A leaf is
opaque.

### Persistence and DurableRoom

| Variable | Code |
|---|---|
| `process`, `room` | the server process, from the stop signal to the flush; the room's actor |
| `version`, `policy` | `schema_version`; `save_on_dispose`, `delete_on_dispose` |
| `standing`, `token` | seats, clients and `reconnections` with their tokens; `manual` is an entry with `expires_at: None` |
| `issued`, `held` | the tokens made so far; the token that the client has |
| `queue` | the `SnapshotWriter`'s channel: saves, deletes, the flush |
| `store` | the snapshot store's file for the room: a snapshot, nothing, or one that does not decode |
| `saveDue`, `stamp` | `auto_save_interval` has passed; the number of saves requested, for `saved_at` |
| `fault`, `promise` | history: whether the disk failed; what a shutdown in order owes |

A save is requested between two handlers (`PersistNow`, `MaybeAutoSave`, `Dispose`) or by a
hook in the middle of one: `on_join`, `on_reconnect` and `on_drop` run while the seat or
the entry of their session is used up, or not there yet, and its client is not
joined, so that the snapshot knows nothing of that session (`HookMaySave`,
`SnapshotWithout`).  `Depart` is the leave, the two expiries and `remove_client`, which
also takes away a client that is held without a deadline.

`Persistence` has the crash (`ProcessIsCut`, at any moment, with the queue lost), the
shutdown in order (`Shutdown`, `Dispose`, `StopWaiting`, `FlushDone`), a writer whose operations
fail, a file that is spoiled, the restart with another schema version, another
registration of the room type or hooks that fail, and `restore_room` called at
runtime, when the room is not there (`RestoreLive`) or runs (`RestoreRefused`: only a file
that does not decode is moved away before the call is refused).  A save replaces the file by a rename, so it is done or not done.

`DurableRoom` joins the two step by step: the patch timer broadcasts and then saves
automatically; a session that returns is sent the state; the disposal saves the
typed state and cuts every client; a restored room resumes with the state of the
snapshot.

### Trivia

A handler of the room dispatches a command, and the dispatcher runs the queue until it
is empty.  In the model each command is a step (`Execute`) and nothing else happens to
the room meanwhile (`Idle` guards everything else).  `conn` is the framework's view of a
session as far as the room depends on it: module `Room` has the rest.  `pending`,
`in_flight`, `needed` are the fields of `TriviaInternal`; `rounds` and `breaks` count the
armed timers; `task` is the spawned task that will send `QuestionsReady`.  A right answer
gives the same points in a round to everyone, so the count of right answers stands
for the score.  Two sessions may belong to one account (`Accounts`): the second
takes the first over.

### Fairness

For `MatchMaker`: tasks that can run do (`WF` on `Advance`); tokio's mutex is fair to
its waiters (`SF` on `EnterCriteria` and `EnterUnique`); an actor takes its mailbox and a
disposal goes through (`WF` on `Serve`, `Dispose`).  Nothing is assumed of timeouts, of
clients or of room code.  For `Room`:

The mailbox is FIFO and `recv()` comes first in the biased `select!`, so an event
that was sent is taken after finitely many others (`SF` on `TakesEvent(c)`: the
actor is busy in between).  Hooks return (`WF`).  An armed deadline is offered
again by `next_deadline` in every turn and fires once the mailbox is empty (`SF`
per entry and seat); this assumes that clients do not keep the mailbox full for
ever, since the select is biased towards it.  A socket task makes progress (`WF`), and a
connection that was sent a Close frame ends (`WF`).  Nothing is assumed of
clients, of room code or of the admin panel.

For `Trivia`: the dispatcher drains its queue (`WF` on `Execute`).  A timer that is armed
fires and the task's answer is taken (`SF` on `RoundTimer`, `BreakTimer`, `BatchArrives`: the room
is busy in between).  As in `Room` this assumes that clients do not keep the mailbox full
for ever.  `StateSync`, `Persistence` and `DurableRoom` promise nothing in time: no doc of the
code bounds when a patch is sent or a snapshot written.

## Runs

| Run | Instance | Shows |
|---|---|---|
| `room` | three connections of one session, a second session that may hold a seat, two places, all switches on | `ServerTypeOK`, `OnLeaveIsFinal`, `HeldSeatHasEntry`, `ListingAgrees`, `TokenUsedOnce`, `StaleConnectionIgnored` |
| `room_orderly` | two connections of one session, a second session, one place, switches off, fairness | `OneHandlePerSession`, `WithinMaxClients`, `EntryForEachAbsentee`, `NoGhost`, refinement `FollowsLifecycle`, and `ConnectAnswered`, `AbsenteeResolved`, `EmptyRoomDisposed` |
| `room_kick` | kicks on | `EmptyRoomDisposed` fails |
| `room_second_socket` | second sockets on | `OneHandlePerSession` fails |
| `room_rejected` | orderly | `RejectedIsToldToClose` fails |
| `matchmaker` | two requests of every method, early turns, timeouts, duplicates | `MMTypeOK`, `CreateExclusive`, `SeatBehindReservation`, and as an action property `OneRoomPerCriteria`: no second room is made while one can be joined, that is while it runs, is not locked and has a free place in its listing |
| `matchmaker_unique` | two requests for one `unique_by` key, room code, shutdown | `UniqueAlive`, `ListedWhileAlive`, `SeatsPublished` |
| `matchmaker_calm` | two requests, three attempts, one idempotency key, fairness | `OneSeatPerKey`, `RequestEnds` |
| `durable_room` | two sessions, four lists of two to four elements, a view filter or none, two schema versions, all policies, faults | `DurableTypeOK`, `PatchReproduces`, `PatchIsShort`, `CopyFollows`, `NoteAfterState`, `CleanStopKeepsAll`, `OwedCanReturn`, `DeletedStaysDeleted`, `StoreOnlyAdvances`, `NothingLost` |
| `trivia` | three sessions, two players, one spectator, two rounds, one restart | `TriviaTypeOK`, `PhaseHasWayOut`, `AnswersBalance`, `OneScorePerRound`, `PlayersInOrder`, `FinishedIsFinal`, `GameEnds` |
| `matchmaker_full` | joinOrCreate only, rooms of one place | `JoinOrCreateSucceeds` fails |
| `create_lock_leak` | joinOrCreate only | `NoIdleEntry` fails |

Three connections of one session are what the hard cases need: one that was
dropped, one that reconnects with its token, one that carries the same token or
none.  A second session makes room for the capacity and for events that must not
touch another session.  A connection has at most one message under way; handlers
do not depend on how many follow.  The run `room` treats the connections of the
session as interchangeable; `room_orderly` checks liveness and uses no symmetry.

The matchmaker's runs have two requests and two rooms with one place each (two in
`create_lock_leak`): two requests race for a lock, one of them meets a
full, locked, disposing or unlisted room, a second room can be made and a third is
refused as a failed creation.  Two allocations are enough for two mutexes of one
key.  `Attempts` is 2 in the large runs, so that an attempt fails and is repeated and
the last one fails, and 3, as in the code, where requests must end.  Requests are
interchangeable and treated so in the safety runs.

`durable_room` explores the union of three scopes, each named in `MCDurableRoom`, since
their product is too large: `Company`, two clients with and without a view filter
while the room runs; `Alone`, one client over crash, shutdown, restart and restore;
`Empty`, rows of saves, automatic saves and faults of the disk with nobody there.  What
is left out is the second client during a restart, and the proofs below do not depend
on it.  `SmallArray` is 2 and `LcsMaxCells` 9 (8 and 8192 in the code), so that lists of
three elements are diffed by LCS when they shift, and one of four against one of
three by position; both by index when they are aligned.  One frame may be under way
while the next tick adds a patch or a message.  The states are numbered, and 0 is
any document that is not one of them: a wrong patch leads there.

`trivia` has a round that is followed by another and one that is the last, so two of
the code's three rounds are enough.  The third session has an account of its own
and is a second player or a spectator, or has the account of the first session and
takes its player over.  One restart may come in every phase.

### What the failing runs show

* **A kicked client stays for ever** (`room_kick`).  The README of the repository
  says auto-dispose is "immediate after last leave".  `Kick` sets the handle to
  Leaving; when the socket then reports the disconnect, `leave_client` returns at
  once because the handle is Leaving already.  `on_leave` never runs, the client
  stays in `ctx.clients` and in the listing, and the room is not disposed.
* **A held seat admits a second client** (`room_second_socket`).  The comment in
  `on_connect` says a duplicate connection is rejected instead of double-joining.
  Only a consumed seat rejects it; a seat held for reconnection does not.
* **A refused connection is not closed** (`room_rejected`).  The comment in
  `handle_socket` says the error and close frames were queued already; a
  connect refused before `on_join` queues neither, and the task awaits its
  writer for ever.

* **A full room is not passed over** (`matchmaker_full`).  "maxClients=2 → third
  joinOrCreate creates a *new* room", says `tests/integration.rs`.  A room that
  reaches its limit does not lock itself and `find_match` does not look at
  `clients`: the third request is sent to the full room three times and fails,
  unless its filter asks for free places.
* **The lock map keeps entries** (`create_lock_leak`).  Its comment says that an entry
  is dropped once no other task references the lock.  Two requests past their
  guard each count the other's reference, leave the entry and then drop
  theirs.  A failed creation and a dropped future skip the release altogether.

Seen while modelling and allowed by the model, without a run of their own: the
comment in `join_or_create_inner` calls the mismatch of a reused room retryable, but
`listing?` returns it; concurrent duplicates of an Idempotency-Key both reserve; a
room registered after `shutdown()` has walked the registry is not told; a room
that disposes before `Register` leaves its handle in the registry for ever, and its
listing until a request meets it; a test of the trivia demo says that `FinishGame`
"publishes winners and locks the phase" (`commands/round.rs:406`), but `Advance` does not
look at the phase: when every player leaves during a reveal, `FinishGame` runs, and the
break's timer then starts one more round that nobody plays, whose end publishes the
results again (`FinishedIsFinal` excepts rooms without players, so it does not catch
this); a question counts the answers of players
that have left.  Of snapshots: a crash gives a room the entry of the last save, whose
token was replaced since, without a deadline, so that the restored room waits for
somebody who cannot come; a session kept by a restart that was not ready may block the
start of a trivia game for ever, as its entry never expires; `restore_room` at runtime reads the disk
while the last save is still queued; the doc of `apply_snapshot` says that it comes
before `on_restore`, and it comes after.  Of patches: a client that joins a room
without view filter between two ticks holds a newer state than the one the next patch is
computed from, and gets operations whose effect it has already; `set_state` during
play sends no patch at all.

## Proofs

`RoomProofs` proves, for all finite sets of sessions and connections, all
capacities and all settings of the switches:

* `TypeCorrect` : `Spec => []ServerTypeOK`
* `LeaveIsFinal` : `Spec => []OnLeaveIsFinal`
* `HeldSeatIsFreed` : `Spec => []HeldSeatHasEntry`
* `ListingIsCurrent` : `Spec => []ListingAgrees`

`OnLeaveIsFinal` is not inductive: that nothing of a session remains after
`LeaveForGood` depends on the handle being the current one and having no entry,
and on there being at most one entry per session.  `SessionInv` adds this:
`CurrentIsListed` (get_client agrees with the list), `EntriesApart` (one entry per
session, for its current handle), `SeatsMatch` (an unclaimed seat is all there is of
its session; a consumed one belongs to the join under way; a held one to a listed
handle), `JoinUnderWay` and `ListedHasJoined`.  The proof has one lemma per action.
The listing's invariant then follows with two lemmas, for steps that publish
and for steps that change nothing published.

`MatchMakerProofs` first proves `LockExcludes`: `LockSpec => []MutualExclusion`.  A mutex
alone does not give it, as two requests could hold two mutexes of one key.  The
inductive `LockInv` adds `LockIsShared`: who waits for, holds or has just left a lock
refers to the one in the map.  `ReleaseEntry` keeps it because of `ThreeReferences`: a
lock in the map that two requests refer to counts at least three, and is not
removed at two.

It then proves, for all requests, rooms, asks, bounds and switches:

* `MatchMakerTypes` : `MMSpec => []MMTypeOK`
* `UsesLocks` : `MMSpec => LockSpec`: every step of a request, an early return or a
  dropped future included, is a step of the lock protocol or none
* `OneCreatorPerKey` : `MMSpec => []CreateExclusive`, from the two before

Its invariant `MMInv` joins `LockInv`, the types, `UniqueAtLock` (only requests with a
`unique_by` key are at the steps of its lock) and `RoomInTheMaking` (a request that registers a
room has made one); without them `HeldKey` need not be a key nor `found` a room.

`MatchMakerRoomProofs` goes on from `MMInv`.  `BaseInv` adds which request made a room
and what the registry and the listings may name (`RoomsInv`: `Makers`, `Unborn`,
`ListedIsMade`, `FoundIsMade`, `Findable`) and that a lock is held for the request's own
key (`LocksInv`).  From it:

* `RoomsCanBeFound`: `ListedWhileAlive`
* `UniqueKeysAreUnique`: `UniqueAlive`.  `TwinInv` adds that no two requests make a room
  for one `unique_by` key at a time, and what a creator past its check knows
* `ReservationsHaveSeats`: `SeatBehindReservation`.  `SeatInv` follows the answer of
  the room from the mailbox to the response: who has mail is awaited, it has it once,
  and a positive answer has its seat
* `ListingsAreCurrent`: `SeatsPublished`, without `EarlyTurns`
* `CriteriaHaveOneRoom`: `OneRoomPerCriteria`, without `RoomCode`.  What is inductive is
  `NoPeer`: past its second look, under the lock, a creator has no running room of its
  criteria beside it, as `find_match` would have given it that room, a full one too
* `KeysHaveOneSeat`: `OneSeatPerKey`, without `Duplicates` and `Timeouts`

Three more theorems of it are the part of `RequestEnds` that needs no fairness, for any
environment:

* `NobodyWaitsInVain`: a request that awaits an answer is in the mailbox of an actor
  that has not stopped and may run (`AnswerWillCome`, with `WaitInv`)
* `LocksAreOrdered`: no chain of requests that wait for each other's locks is longer than
  two, so none is a circle (`ShortChains`); and a request that searches, asks for a seat
  or is over has no guard and no reference left (`NothingKept`).  `StagesInv` says for each
  step of a request how far it is with each lock
* `RequestsAreShort`: a request takes 17 steps per attempt and 22 more at most; the measure
  `StepsLeft` falls with each

What is left of `RequestEnds` to TLC is that a step that can be taken is taken.

`RoomOrderlyProofs` does the same for the room, in four layers.  Each one assumes more
of the environment, and the switches assumed off are those of the run `room_orderly`;
`room_kick` and `room_second_socket` show what happens otherwise.

* `TokenInv`, for any environment: what a socket has said and may still say
  (`TalkInv`), which handles the room knows (`KnownInv`), and that a used token is gone
  (`SpentInv`).  It gives `TokensAreUsedOnce` (`TokenUsedOnce`) and `ReplacedIsIgnored`
  (`StaleConnectionIgnored`).  On top of it `ConnectsAreHeard`: a connection without an
  answer is in the mailbox or at its `on_join`, or the room is gone, which is the part of
  `ConnectAnswered` that needs no fairness
* `OrderlyInv`, without `SecondSockets`: one first connection per session and one
  successor per token (`OneFirst`, `Rooted`), nobody of the session beside a join under
  way (`JoinerAlone`), an entry belongs to a listed handle (`EntryListed`).  It gives
  `ListedOnce` (`OneHandlePerSession`), `NeverOverfull` (`WithinMaxClients`) and
  `RoomFollowsLifecycle` (`Spec` implements `SessionLifecycle`)
* `AbsentInv`, also without `Kicks`: the last thing a socket says is its disconnect,
  and a handle that was not replaced has a socket, an entry or that event.  It gives
  `AbsenteesAreHeld` (`EntryForEachAbsentee`)
* `GhostInv`, also without `JoinTimeouts`: a connect that is answered is answered to
  somebody.  It gives `NobodyLeftBehind` (`NoGhost`)

Two more theorems of it are the part of `EmptyRoomDisposed` that needs no fairness.
`DisposalIsNotMissed`, for any environment: the actor never waits for its next event with
a reason to dispose of the room (`NothingDue`), as every turn ends in the check of one.
`IdleRoomsAreWanted`, where `GhostInv` holds: an idle room that has been used, or waited for
in vain, still has a held client, a given seat, an open connection or the report of one
that is gone (`RoomIsWanted`).  What is left to TLC is that seats and held clients expire,
and reports are heard.

The lemmas `OtherSteps` and `MemberCases` say once what a handler may do to another
connection and how a member comes and goes; the layers use them instead of the
twelve handlers.

`PersistenceProofs` proves `PersistenceTypes` (`PTypeOK`), and

* `DiskOnlyAdvances` (`StoreOnlyAdvances`): the file is older than every queued save,
  and the queue is in order
* `CleanStopIsComplete` and `TheOwedCanReturn` (`CleanStopKeepsAll`, `OwedCanReturn`):
  `PromiseInv` says what is owed in each stage of a shutdown, in the room, then in the
  last save of the queue, then in the file
* `TheDeletedStayDeleted` (`DeletedStaysDeleted`): once a delete was the last request of
  a disposed room, only flushes follow it

`StateSyncProofs` proves `SyncTypeCorrect`, `CopiesFollow` and `NotesComeAfter` for all
documents and every diff that satisfies `DiffLaw`.  `CopyFollows` only speaks of
clients whose wire is empty; `SyncInv` says that the frames on a wire are a chain of
patches from the client's copy to the document that the next patch starts from
(`Chain`, `EndOf`, `Synced`), and `HistoryInv` that a message on the wire stands behind
the state it refers to.  Patches to a client that `skewed` names are not covered.

That the code's diff satisfies `DiffLaw` is proved for its least obvious branch, for
arrays of any length over any elements.  `ArrayPatches` says that the client that carries out the
edits of `LcsWalk(old, new)` on `old` has `new`, and that there are
`Len(old) + Len(new) - 2 * CommonLength(old, new)` of them, where `CommonLength` is defined
by positions and not by the algorithm.  The argument has four parts:

* recursive functions.  `AllNumbers` gets induction over numbers from the library's `WFMin`,
  which speaks of sets and not of operators; from it `ByRank` and `Recursion`: a set
  that has an element when it has all those of smaller rank has all, and a function
  that defines itself by values of smaller rank exists.  So `LcsTable`, `Rounds` and
  `Patched` satisfy their equations (`TableFilled`, `WalkUnfolds`, `PatchesLead`)
* `TableIsLongest`: each cell is the length of a longest common subsequence of the two
  rests (`CommonGrows`, `CommonSkips`, `CommonEnds`)
* `IsBetween`: after each round the client's array is the part of `new` before `j` and then
  the part of `old` from `i`, and `cur` is `j`; a removal, an addition and a pair
  that stays keep this (`RemovalAdvances`, `AdditionAdvances`, `MatchAdvances`)
* `Balanced`: the edits so far and twice the cell at the start are the elements passed and
  twice the cell reached; each round keeps this by the equations of the table
  (`WalkStep`), and at the end the cell is zero

The theorem does not bound the table: where it is too large the code goes by position.
The whole of `DiffLaw`, with nested documents, paths and the other branches, is what
`PatchReproduces` checks in `durable_room`.

`DurableProofs` proves that the composition implements both its parts
(`DurableIsPersistence`: `DurableSpec => PSpec`; `DurableIsSync`: `DurableSpec => Proved!SSpec`),
so that what holds of each holds of it (`DurableTypes`, `DurableKeepsPromises`,
`DurableCopiesFollow`, `DurableNotesComeAfter`), and `NothingIsLost`
(`NothingLost`), which relates the state of the room to the snapshots.

`TriviaProofs` proves all safety properties of the trivia room with one inductive
invariant, `TriviaInv`, for any sessions, accounts, numbers of rounds and restarts:

* `OneCommand`: the queue holds one command at most.  Each command enqueues at most one
  and is the last to do so; the drain takes it before anything else is dispatched
* `Course`: which timers are armed in which phase, when the task may be under way, and
  for each command of the game in which phases, with which questions and which players
  it can be due.  It is what makes the stale timer and the second `EndRound` harmless
* `Members`, `Places`: who has a connection, a seat, or a command that gives or takes
  it; the players, their order and the owner
* `Answers`: the answers of a round are counted, also when their player has left

It gives `TriviaTypes` (`TriviaTypeOK`), `NoPhaseIsStuck` (`PhaseHasWayOut`),
`AnswersAreCounted` (`AnswersBalance`: the counter is the number of answers kept, those of
players who have left included), `RoundsScoreOnce` (`OneScorePerRound`), `ListsAgree`
(`PlayersInOrder`: accounts, owner, listing, and that nobody is a player and a spectator)
and the action property `DecidedOnce` (`FinishedIsFinal`, for rooms that have a player).  Two more
theorems are the part of `GameEnds` that needs no fairness: `DrainEnds` (each command
that runs lowers `Work`, which is at most 3, so the drain cannot go on forever) and
`NoRoundIsRepeated` (`Position` only rises while a game runs, up to `2 * TotalRounds + 2`).
With `NoPhaseIsStuck`, what is left of `GameEnds` to TLC is that the timers fire.

What is assumed: the named assumptions on the constants (finite sets, bounds that are
natural numbers, values apart from each other), `DiffLaw`, and the switches that a theorem
names.

### What is only model-checked

* Liveness (`ConnectAnswered`, `AbsenteeResolved`, `EmptyRoomDisposed`, `RequestEnds`,
  `GameEnds`): fairness needs ENABLED, which the prover does not treat.
* What the recursive operators of `JsonDoc` compute (`PatchReproduces`, `PatchIsShort`):
  the prover cannot treat a module that declares one.  A patch as a whole recurs over
  nested documents and paths; `ArrayPatches` proves its branch for arrays that shift.
* The properties that fail; a counterexample is their proof.

## Not modelled

* The wire protocol and the encoding of frames and snapshots; logging, metrics,
  configuration, routes without a state of their own.
* Presence: a map behind a lock, whose operations are independent of each other.
* The driver's conditions, sorting and paging: they choose among candidates, and the
  model leaves the choice open.
* The clock (`utils.rs`): moments are abstract.  So the timeout of a room without
  clients that has passed already (`actor.rs:402`) is listed as a hazard only.
* What `on_dispose` changes after the last snapshot was taken, which no file has; and what
  `on_restore` does to seats and entries, which `apply_snapshot` then replaces.
* `restore_room` beside matchmaking requests: `Persistence` has the restore, `MatchMaker`
  the requests, and they are not composed; nor one `restore_room` beside another.
  `reconnect()` of the matchmaker.
* `set_max_clients` at run time; the limit of messages per second; a view filter that
  is set while clients are there.
* The admin panel's pages, and of the TypeScript client everything but its copy of
  the state.
* The trivia demo's chat, accounts and database of results; the other demos.

## What is left

1. `MatchMaker` composed with `Persistence`: a restore beside requests, and a shutdown
   that meets a room that is being registered.
2. `EmptyRoomDisposed` with slow answers allowed.
