----------------------------- MODULE MatchMaker -----------------------------
(***************************************************************************)
(* The matchmaker (src/crates/colyseus/src/matchmaker.rs): concurrent      *)
(* requests that find or create a room of one registered type and reserve  *)
(* a seat in it, the registry of room handles, the listings of the driver, *)
(* the Idempotency-Key cache of the HTTP route (server.rs), and shutdown.  *)
(*                                                                         *)
(* Of a room only what the matchmaker depends on is here: that its actor   *)
(* takes its mailbox in order, grants or refuses a seat, publishes its     *)
(* listing and disposes.  Module Room has the rest.                        *)
(*                                                                         *)
(* Every step of a request is what it does between two awaits, or between  *)
(* two of its accesses to shared state where other tasks may come in.      *)
(***************************************************************************)
EXTENDS CreateLock, Sequences

CONSTANTS
  RoomId,       \* the rooms that can be made (bound)
  NoRoom,
  Criterion,    \* values of the filter_by fields; also the keys of their locks
  Anything,     \* of them: options without these fields
  Unique,       \* values of the unique_by fields; also the keys of their locks
  NoUnique,     \* options without these fields, or no unique_by
  IKey,         \* idempotency keys
  NoKey,
  Asks,         \* what a request may ask for
  MaxClients,   \* max_clients of the rooms
  Attempts,     \* JOIN_OR_CREATE_RETRIES, and 1 + JOIN_RETRIES: 3 in the code
  EarlyTurns,   \* a room's actor may run before the room is registered
  RoomCode,     \* room code may lock and dispose its room, on_auth may reject
  Timeouts,     \* answers take longer than the RPC timeout, requests are dropped
  Duplicates,   \* a request is sent again before it was answered
  Shutdowns     \* the server may be shut down

Method == {"joinOrCreate", "create", "join", "joinById", "createRoom"}

ASSUME MatchMakerAssumption ==
  /\ Criterion \cup Unique \subseteq Key /\ Criterion \cap Unique = {}
  /\ Anything \in Criterion /\ NoUnique \notin Unique
  /\ NoRoom \notin RoomId /\ NoKey \notin IKey /\ "shutdown" \notin Request
  /\ Asks \subseteq [method : Method, criterion : Criterion, filtered : BOOLEAN,
                     unique : Unique \cup {NoUnique}, key : IKey \cup {NoKey}]
  /\ MaxClients \in Nat /\ Attempts \in Nat \ {0}
  /\ {EarlyTurns, RoomCode, Timeouts, Duplicates, Shutdowns} \subseteq BOOLEAN

VARIABLES
  ask,        \* what each request asks for
  pc,         \* where it is
  found,      \* the room it has found or made
  tries,      \* how many of its attempts have failed
  reply,      \* the answer of the room's actor
  session,    \* whose session the answer to the client names
  actor,      \* the life of each room's actor
  maker,      \* the request whose options the room was created with
  locked,     \* the room takes no more reservations
  seats,      \* the requests whose session has a seat in the room
  mailbox,    \* what the actor has not taken yet
  registry,   \* MatchMakerInner::rooms: the rooms with a handle
  listings,   \* the driver's listing of each room
  shutdown,   \* how far shutdown() is
  cache,      \* the reservation stored for each idempotency key
  granted     \* history: the seats that were ever given

requestVars == <<ask, pc, found, tries, reply, session>>
roomVars    == <<actor, maker, locked, seats, mailbox, granted>>
indexVars   == <<registry, listings, shutdown, cache>>
mmVars      == <<lockVars, requestVars, roomVars, indexVars>>

-----------------------------------------------------------------------------
Making == {"register", "publish"}
Leaving == {"leave", "leave_mismatch", "leave_made", "leave_reused", "leave_error"}
Ended == {"done", "expired", "failed", "cancelled"}
Pc == {"start", "find", "get", "lock", "recheck", "ulock", "live", "spawn", "verify",
       "reserve", "waiting"} \cup Making \cup Leaving \cup Ended

Life == {"absent", "alive", "disposing", "unlisted", "stopped"}
Shutdown == "shutdown"

RequestTypeOK ==
  /\ ask \in [Request -> Asks]
  /\ pc \in [Request -> Pc]
  /\ found \in [Request -> RoomId \cup {NoRoom}]
  /\ tries \in [Request -> Nat]
  /\ reply \in [Request -> {"none", "ok", "refused", "denied", "dropped"}]
  /\ session \in [Request -> Request \cup {NoRoom}]
RoomTypeOK ==
  /\ actor \in [RoomId -> Life]
  /\ maker \in [RoomId -> Request \cup {NoRoom}]
  /\ locked \in [RoomId -> BOOLEAN]
  /\ seats \in [RoomId -> SUBSET Request]
  /\ mailbox \in [RoomId -> Seq(Request \cup {Shutdown})]
  /\ granted \in SUBSET (Request \X RoomId)
Listing == [there : BOOLEAN, clients : Nat, locked : BOOLEAN]
IndexTypeOK ==
  /\ registry \in SUBSET RoomId
  /\ listings \in [RoomId -> Listing]
  /\ shutdown \in {"no", "waiting", "ended"}
  /\ cache \in [IKey -> Request \cup {NoRoom}]

\* Every variable has its type.
MMTypeOK == LockTypeOK /\ RequestTypeOK /\ RoomTypeOK /\ IndexTypeOK

NoListing == [there |-> FALSE, clients |-> 0, locked |-> FALSE]
NewListing == [there |-> TRUE, clients |-> 0, locked |-> FALSE]

MMInit ==
  /\ LockInit
  /\ ask \in [Request -> Asks]
  /\ pc = [r \in Request |-> "start"]
  /\ found = [r \in Request |-> NoRoom]
  /\ tries = [r \in Request |-> 0]
  /\ reply = [r \in Request |-> "none"]
  /\ session = [r \in Request |-> NoRoom]
  /\ actor = [m \in RoomId |-> "absent"]
  /\ maker = [m \in RoomId |-> NoRoom]
  /\ locked = [m \in RoomId |-> FALSE]
  /\ seats = [m \in RoomId |-> {}]
  /\ mailbox = [m \in RoomId |-> <<>>]
  /\ registry = {}
  /\ listings = [m \in RoomId |-> NoListing]
  /\ shutdown = "no"
  /\ cache = [i \in IKey |-> NoRoom]
  /\ granted = {}

-----------------------------------------------------------------------------
(* Queries of the driver.                                                  *)

Listed == {m \in RoomId : listings[m].there}
MadeWith(m) == ask[maker[m]]

\* match_conditions: not locked, and the fields the options have.
MatchConditions(r, m) ==
  /\ ~listings[m].locked
  /\ ask[r].criterion \in {Anything, MadeWith(m).criterion}
\* The request's own filter, clients < max_clients.
RequestFilter(r, m) == ask[r].filtered => listings[m].clients < MaxClients

\* The candidates of find_match; which of them is first is up to the room type.
Matches(r) == {m \in Listed : MatchConditions(r, m) /\ RequestFilter(r, m)}

\* The candidates of find_live: unique_conditions only.
\* Mutant: only rooms that can be joined.
UniqueTwinsBug(r) ==
  {m \in Listed : MadeWith(m).unique = ask[r].unique /\ ~listings[m].locked}
UniqueTwins(r) == {m \in Listed : MadeWith(m).unique = ask[r].unique}

IsUnique(r) == ask[r].unique # NoUnique

Unlist(S) == listings' = [m \in RoomId |-> IF m \in S THEN NoListing ELSE listings[m]]

-----------------------------------------------------------------------------
(* Moves of a request.                                                     *)

Goto(r, p) == pc' = [pc EXCEPT ![r] = p]
Aim(r, m) == found' = [found EXCEPT ![r] = m]

\* The request returns an error; or looks again: the listing and the answer
\* channel are gone.
Fail(r, p) ==
  /\ Goto(r, p)
  /\ Aim(r, NoRoom)
  /\ reply' = [reply EXCEPT ![r] = "none"]

\* A seat reservation failed.  create() has one attempt, the others look again.
Retry(r) ==
  LET last == ask[r].method = "create" \/ tries[r] + 1 = Attempts
  IN /\ tries' = [tries EXCEPT ![r] = @ + 1]
     /\ IF last THEN Fail(r, "expired")
        ELSE IF ask[r].method = "joinById"
        THEN Goto(r, "get") /\ reply' = [reply EXCEPT ![r] = "none"] /\ UNCHANGED found
        ELSE Fail(r, "find")

\* The HTTP route answers with the reservation and stores it.
Answer(r) ==
  /\ Goto(r, "done")
  /\ session' = [session EXCEPT ![r] = r]
  /\ reply' = [reply EXCEPT ![r] = "none"]
  /\ cache' = IF ask[r].key = NoKey THEN cache ELSE [cache EXCEPT ![ask[r].key] = r]

\* Where a request goes that has a room: joinOrCreate still holds its criteria's
\* lock, create_room only wanted the room.
HasRoom(r) ==
  CASE ask[r].method = "joinOrCreate" -> "leave"
    [] ask[r].method = "create"       -> "reserve"
    [] OTHER                          -> "done"

\* create_room_inner up to its first await.
EnterCreate(r) ==
  IF IsUnique(r) THEN TakeLock(r, ask[r].unique) /\ Goto(r, "ulock")
                 ELSE Goto(r, "spawn") /\ UNCHANGED lockVars

-----------------------------------------------------------------------------
(* The route: matchmake_handler.                                           *)

ByRoute(r) == ask[r].method # "createRoom"
\* Mutant: the cache is not consulted.
CachedBug(r) == NoRoom
Cached(r) == IF ask[r].key = NoKey THEN NoRoom ELSE cache[ask[r].key]

\* A client that retries with the same key waits for the first answer, or not.
InTurn(r) ==
  \/ Duplicates \/ ask[r].key = NoKey
  \/ \A q \in Request : ask[q].key = ask[r].key => pc[q] \in {"start"} \cup Ended

RefuseRequest(r) ==
  /\ pc[r] = "start" /\ ByRoute(r) /\ shutdown # "no"
  /\ Fail(r, "failed")
  /\ UNCHANGED <<lockVars, ask, tries, session, roomVars, indexVars>>

Replay(r) ==
  /\ pc[r] = "start" /\ InTurn(r) /\ ByRoute(r) /\ shutdown = "no"
  /\ Cached(r) # NoRoom
  /\ Goto(r, "done")
  /\ session' = [session EXCEPT ![r] = Cached(r)]
  /\ UNCHANGED <<lockVars, ask, found, tries, reply, roomVars, indexVars>>

Start(r) ==
  /\ pc[r] = "start" /\ InTurn(r)
  /\ ByRoute(r) => shutdown = "no" /\ Cached(r) = NoRoom
  /\ \/ /\ ask[r].method \in {"joinOrCreate", "join"}
        /\ Goto(r, "find") /\ UNCHANGED <<lockVars, found>>
     \/ /\ ask[r].method = "joinById"
        /\ \E m \in RoomId : Aim(r, m)
        /\ Goto(r, "get") /\ UNCHANGED lockVars
     \/ /\ ask[r].method \in {"create", "createRoom"}
        /\ EnterCreate(r) /\ UNCHANGED found
  /\ UNCHANGED <<ask, tries, reply, session, roomVars, indexVars>>

-----------------------------------------------------------------------------
(* Finding a room.                                                         *)

FindMatch(r) ==
  /\ pc[r] = "find"
  /\ \E m \in Matches(r) : Aim(r, m)
  /\ Goto(r, "reserve")
  /\ UNCHANGED <<lockVars, ask, tries, reply, session, roomVars, indexVars>>

NoMatch(r) ==
  /\ pc[r] = "find" /\ Matches(r) = {}
  /\ IF ask[r].method = "joinOrCreate"
     THEN TakeLock(r, ask[r].criterion) /\ Goto(r, "lock")
     ELSE Goto(r, "failed") /\ UNCHANGED lockVars
  /\ UNCHANGED <<ask, found, tries, reply, session, roomVars, indexVars>>

\* join_by_id
GetListing(r) ==
  /\ pc[r] = "get"
  /\ IF found[r] \in Listed /\ ~listings[found[r]].locked
     THEN Goto(r, "reserve") /\ UNCHANGED <<found, reply>>
     ELSE Fail(r, "failed")
  /\ UNCHANGED <<lockVars, ask, tries, session, roomVars, indexVars>>

EnterCriteria(r) ==
  /\ pc[r] = "lock"
  /\ LockMutex(r, ask[r].criterion)
  /\ Goto(r, "recheck")
  /\ UNCHANGED <<ask, found, tries, reply, session, roomVars, indexVars>>

\* Another request may have created the room meanwhile.
\* Mutant: it is not looked for.
RecheckBug(r) ==
  /\ pc[r] = "recheck"
  /\ EnterCreate(r) /\ UNCHANGED found
  /\ UNCHANGED <<ask, tries, reply, session, roomVars, indexVars>>
Recheck(r) ==
  /\ pc[r] = "recheck"
  /\ \/ /\ \E m \in Matches(r) : Aim(r, m)
        /\ Goto(r, "leave") /\ UnlockMutex(r, ask[r].criterion)
     \/ /\ Matches(r) = {}
        /\ EnterCreate(r) /\ UNCHANGED found
  /\ UNCHANGED <<ask, tries, reply, session, roomVars, indexVars>>

-----------------------------------------------------------------------------
(* Creating a room: create_room_inner, spawn_new_room.                     *)

EnterUnique(r) ==
  /\ pc[r] = "ulock"
  /\ LockMutex(r, ask[r].unique)
  /\ Goto(r, "live")
  /\ UNCHANGED <<ask, found, tries, reply, session, roomVars, indexVars>>

\* Listings of rooms that are gone are removed until a live one is met.
FindLive(r) ==
  /\ pc[r] = "live"
  /\ \/ /\ \E m \in UniqueTwins(r) \cap registry :
             \E S \in SUBSET (UniqueTwins(r) \ registry) : Aim(r, m) /\ Unlist(S)
        /\ Goto(r, "leave_reused") /\ UnlockMutex(r, ask[r].unique)
     \/ /\ UniqueTwins(r) \cap registry = {}
        /\ Unlist(UniqueTwins(r))
        /\ Goto(r, "spawn") /\ UNCHANGED <<lockVars, found>>
  /\ UNCHANGED <<ask, tries, reply, session, roomVars, registry, shutdown,
                 cache>>

UnusedIds == {m \in RoomId : actor[m] = "absent"}

\* on_create succeeded; from here to publish there is no await, but the actor
\* is a task of its own.
CreateRoom(r) ==
  /\ pc[r] = "spawn" /\ UnusedIds # {}
  /\ LET m == CHOOSE n \in UnusedIds : TRUE     \* generate_id
     IN /\ actor' = [actor EXCEPT ![m] = "alive"]
        /\ maker' = [maker EXCEPT ![m] = r]
        /\ Aim(r, m)
  /\ Goto(r, "register")
  /\ UNCHANGED <<lockVars, ask, tries, reply, session, locked, seats, mailbox, granted,
                 indexVars>>

\* on_create failed, or the bound on rooms is reached.  A request without a
\* unique_by lock returns at once, past release_create_lock.
CreateFails(r) ==
  /\ pc[r] = "spawn"
  /\ RoomCode \/ UnusedIds = {}
  /\ IF IsUnique(r)
     THEN /\ Goto(r, "leave_error") /\ UnlockMutex(r, ask[r].unique)
          /\ UNCHANGED <<found, reply>>
     ELSE Fail(r, "failed") /\ Abandon(r)
  /\ UNCHANGED <<ask, tries, session, roomVars, indexVars>>

Register(r) ==
  /\ pc[r] = "register"
  /\ registry' = registry \cup {found[r]}
  /\ Goto(r, "publish")
  /\ UNCHANGED <<lockVars, ask, found, tries, reply, session, roomVars, listings,
                 shutdown, cache>>

\* driver.insert of the listing that was built when the actor was spawned.
Publish(r) ==
  /\ pc[r] = "publish"
  /\ listings' = [listings EXCEPT ![found[r]] = NewListing]
  /\ \/ IsUnique(r) /\ Goto(r, "leave_made") /\ UnlockMutex(r, ask[r].unique)
     \/ /\ ~IsUnique(r) /\ Goto(r, HasRoom(r))
        /\ IF HasRoom(r) = "leave" THEN UnlockMutex(r, ask[r].criterion)
                                   ELSE UNCHANGED lockVars
  /\ UNCHANGED <<ask, found, tries, reply, session, roomVars, registry,
                 shutdown, cache>>

\* A room reused for its unique_by key must be the first find_match offers.
Verify(r) ==
  /\ pc[r] = "verify"
  /\ \/ found[r] \in Matches(r) /\ Goto(r, "leave")
     \/ Matches(r) # {found[r]} /\ Goto(r, "leave_mismatch")
  /\ UnlockMutex(r, ask[r].criterion)
  /\ UNCHANGED <<ask, found, tries, reply, session, roomVars, indexVars>>

HeldKey(r) == IF pc[r] \in {"leave", "leave_mismatch"} THEN ask[r].criterion
                                                       ELSE ask[r].unique

\* A joinOrCreate that was through with the unique_by lock; elsewhere the guard
\* goes with the step before it, which its release cannot be told from.
Unlock(r) ==
  /\ pc[r] = "leave"
  /\ UnlockMutex(r, HeldKey(r))
  /\ UNCHANGED <<requestVars, roomVars, indexVars>>

Release(r) ==
  /\ pc[r] \in Leaving
  /\ ReleaseEntry(r, HeldKey(r))
  /\ UNCHANGED <<requestVars, roomVars, indexVars>>

Leave(r) ==
  /\ pc[r] \in Leaving \ {"leave_error"}
  /\ DropArc(r, HeldKey(r))
  /\ Goto(r, CASE pc[r] = "leave"          -> "reserve"
               [] pc[r] = "leave_mismatch" -> "expired"
               [] pc[r] = "leave_reused" /\ ask[r].method = "joinOrCreate" -> "verify"
               [] OTHER -> HasRoom(r))
  /\ UNCHANGED <<ask, found, tries, reply, session, roomVars, indexVars>>

\* The error of a creation, also past the release of the criteria's lock.
LeaveWithError(r) ==
  /\ pc[r] = "leave_error" /\ stage[r][HeldKey(r)] = "released"
  /\ Abandon(r)
  /\ Fail(r, "failed")
  /\ UNCHANGED <<ask, tries, session, roomVars, indexVars>>

-----------------------------------------------------------------------------
(* reserve_seat.                                                           *)

\* A handle is found and its channel is open.
Reachable(m) == m \in registry /\ actor[m] # "stopped"

SendReserve(r) ==
  /\ pc[r] = "reserve" /\ Reachable(found[r])
  /\ mailbox' = [mailbox EXCEPT ![found[r]] = Append(@, r)]
  /\ reply' = [reply EXCEPT ![r] = "none"]
  /\ Goto(r, "waiting")
  /\ UNCHANGED <<lockVars, ask, found, tries, session, actor, maker, locked, seats,
                 granted, indexVars>>

RoomIsGone(r) ==
  /\ pc[r] = "reserve" /\ ~Reachable(found[r])
  /\ Unlist({found[r]})
  /\ Retry(r)
  /\ UNCHANGED <<lockVars, ask, session, roomVars, registry, shutdown,
                 cache>>

Reserved(r) ==
  /\ pc[r] = "waiting" /\ reply[r] = "ok" /\ found[r] \in Listed
  /\ Answer(r)
  /\ UNCHANGED <<lockVars, ask, found, tries, roomVars, registry, listings,
                 shutdown>>

\* The room is full, locked, disposing or gone: another attempt.
\* Mutant: whatever the failure, the listing is taken for stale and removed.
NotReservedBug(r) ==
  /\ pc[r] = "waiting"
  /\ \/ reply[r] \in {"refused", "dropped"}
     \/ reply[r] = "ok" /\ found[r] \notin Listed
  /\ Retry(r) /\ Unlist({found[r]})
  /\ UNCHANGED <<lockVars, ask, session, roomVars, registry, shutdown, cache>>
NotReserved(r) ==
  /\ pc[r] = "waiting"
  /\ \/ reply[r] \in {"refused", "dropped"}
     \/ reply[r] = "ok" /\ found[r] \notin Listed
  /\ Retry(r)
  /\ UNCHANGED <<lockVars, ask, session, roomVars, indexVars>>

\* on_auth rejected the request: an error that is not retried.
Denied(r) ==
  /\ pc[r] = "waiting" /\ reply[r] = "denied"
  /\ Fail(r, "failed")
  /\ UNCHANGED <<lockVars, ask, tries, session, roomVars, indexVars>>

\* RESERVE_SEAT_RPC_TIMEOUT: given up, the event stays where it is.
\* Mutant: taken for a seat that expired.
TimeOutBug(r) ==
  /\ pc[r] = "waiting" /\ reply[r] = "none" /\ Timeouts
  /\ Retry(r)
  /\ UNCHANGED <<lockVars, ask, session, roomVars, indexVars>>
TimeOut(r) ==
  /\ pc[r] = "waiting" /\ reply[r] = "none" /\ Timeouts
  /\ Fail(r, "failed")
  /\ UNCHANGED <<lockVars, ask, tries, session, roomVars, indexVars>>

\* The client has gone and the route's future is dropped where it awaits.
Cancel(r) ==
  /\ Timeouts /\ ByRoute(r)
  /\ pc[r] \in {"lock", "ulock", "spawn", "waiting"}
  /\ Abandon(r)
  /\ Fail(r, "cancelled")
  /\ UNCHANGED <<ask, tries, session, roomVars, indexVars>>

-----------------------------------------------------------------------------
(* The rooms' actors.                                                      *)

Takes(m) ==
  /\ actor[m] = "alive"
  /\ EarlyTurns \/ \A r \in Request : ~(pc[r] \in Making /\ found[r] = m)

\* sync_listing; a listing that is not there is not made.
\* Mutants: the lock is left out; a seat that ends is taken off once more.
PublishesBug(m) ==
  listings' = IF listings[m].there
              THEN [listings EXCEPT ![m].clients = Cardinality(seats'[m])]
              ELSE listings
PublishesBelowZero(m) ==
  listings' = IF listings[m].there
              THEN [listings EXCEPT ![m].clients = @ + Cardinality(seats'[m])
                                                     - 2 * Cardinality(seats[m])]
              ELSE listings
Publishes(m) ==
  listings' = IF listings[m].there
              THEN [listings EXCEPT ![m] = [there |-> TRUE, locked |-> locked'[m],
                                            clients |-> Cardinality(seats'[m])]]
              ELSE listings

NextEvent(m) == mailbox[m] # <<>> /\ mailbox' = [mailbox EXCEPT ![m] = Tail(@)]
Respond(r, v) == reply' = IF pc[r] = "waiting" THEN [reply EXCEPT ![r] = v] ELSE reply
Closed(m) == locked[m] \/ Cardinality(seats[m]) >= MaxClients

\* on_reserve_seat: the seat is made before anybody knows whether the answer
\* still finds its request.
GrantSeat(m) ==
  /\ Takes(m) /\ NextEvent(m) /\ Head(mailbox[m]) # Shutdown /\ ~Closed(m)
  /\ LET r == Head(mailbox[m])
     IN /\ seats' = [seats EXCEPT ![m] = @ \cup {r}]
        /\ granted' = granted \cup {<<r, m>>}
        /\ Respond(r, "ok")
  /\ UNCHANGED <<lockVars, ask, pc, found, tries, session, actor, maker, locked,
                 registry, shutdown, cache>>
  /\ Publishes(m)

RefuseSeat(m) ==
  /\ Takes(m) /\ NextEvent(m) /\ Head(mailbox[m]) # Shutdown
  /\ \/ Closed(m) /\ Respond(Head(mailbox[m]), "refused")
     \/ ~Closed(m) /\ RoomCode /\ Respond(Head(mailbox[m]), "denied")
  /\ UNCHANGED <<lockVars, ask, pc, found, tries, session, actor, maker, locked, seats,
                 granted, indexVars>>

SetLocked(m) ==
  /\ Takes(m) /\ RoomCode
  /\ locked' = [locked EXCEPT ![m] = ~@]
  /\ UNCHANGED <<lockVars, requestVars, actor, maker, seats, mailbox, granted,
                 registry, shutdown, cache>>
  /\ Publishes(m)

\* A seat expires or its client leaves.
SeatEnds(m) ==
  /\ Takes(m)
  /\ \E r \in seats[m] : seats' = [seats EXCEPT ![m] = @ \ {r}]
  /\ UNCHANGED <<lockVars, requestVars, actor, maker, locked, mailbox, granted,
                 registry, shutdown, cache>>
  /\ Publishes(m)

\* dispose() up to the await of on_dispose.
BeginDispose(m) ==
  /\ actor' = [actor EXCEPT ![m] = "disposing"]
  /\ seats' = [seats EXCEPT ![m] = {}]
  /\ UNCHANGED <<lockVars, requestVars, maker, locked, granted, indexVars>>

ShutdownEvent(m) ==
  /\ Takes(m) /\ NextEvent(m) /\ Head(mailbox[m]) = Shutdown
  /\ BeginDispose(m)

\* By room code, or because the room is empty and has been for long enough.
DisposeItself(m) ==
  /\ Takes(m) /\ (RoomCode \/ seats[m] = {})
  /\ BeginDispose(m) /\ UNCHANGED mailbox

RemoveListing(m) ==
  /\ actor[m] = "disposing"
  /\ actor' = [actor EXCEPT ![m] = "unlisted"]
  /\ Unlist({m})
  /\ UNCHANGED <<lockVars, requestVars, maker, locked, seats, mailbox, granted,
                 registry, shutdown, cache>>

\* The cleanup closure; the context and the channel with whatever is in it go.
\* Mutant: what is left in the channel is kept, unanswered.
DeregisterBug(m) ==
  /\ actor[m] = "unlisted"
  /\ actor' = [actor EXCEPT ![m] = "stopped"]
  /\ registry' = registry \ {m}
  /\ locked' = [locked EXCEPT ![m] = FALSE]
  /\ UNCHANGED <<lockVars, requestVars, maker, seats, mailbox, granted, listings,
                 shutdown, cache>>
Deregister(m) ==
  /\ actor[m] = "unlisted"
  /\ actor' = [actor EXCEPT ![m] = "stopped"]
  /\ registry' = registry \ {m}
  /\ reply' = [r \in Request |->
                IF \E i \in DOMAIN mailbox[m] : mailbox[m][i] = r /\ pc[r] = "waiting"
                THEN "dropped" ELSE reply[r]]
  /\ mailbox' = [mailbox EXCEPT ![m] = <<>>]
  /\ locked' = [locked EXCEPT ![m] = FALSE]
  /\ UNCHANGED <<lockVars, ask, pc, found, tries, session, maker, seats,
                 granted, listings, shutdown, cache>>

-----------------------------------------------------------------------------
(* The server.                                                             *)

\* The rooms in the registry are told; one that is registered later is not.
ShutdownBegins ==
  /\ Shutdowns /\ shutdown = "no"
  /\ shutdown' = "waiting"
  /\ mailbox' = [m \in RoomId |-> IF Reachable(m) THEN Append(mailbox[m], Shutdown)
                                                  ELSE mailbox[m]]
  /\ UNCHANGED <<lockVars, requestVars, actor, maker, locked, seats, granted, registry,
                 listings, cache>>

\* The rooms are gone, or five seconds are.
ShutdownEnds ==
  /\ shutdown = "waiting" /\ (Timeouts \/ registry = {})
  /\ shutdown' = "ended"
  /\ Unlist(RoomId)
  /\ UNCHANGED <<lockVars, requestVars, roomVars, registry, cache>>

\* IDEMPOTENCY_TTL, or the place is needed for another key.
CacheExpires(i) ==
  /\ Timeouts /\ cache[i] # NoRoom
  /\ cache' = [cache EXCEPT ![i] = NoRoom]
  /\ UNCHANGED <<lockVars, requestVars, roomVars, registry, listings, shutdown>>

-----------------------------------------------------------------------------
Advance(r) ==
  \/ RefuseRequest(r) \/ Replay(r) \/ Start(r)
  \/ FindMatch(r) \/ NoMatch(r) \/ GetListing(r) \/ EnterCriteria(r) \/ Recheck(r)
  \/ EnterUnique(r) \/ FindLive(r) \/ CreateRoom(r) \/ CreateFails(r)
  \/ Register(r) \/ Publish(r) \/ Verify(r)
  \/ Unlock(r) \/ Release(r) \/ Leave(r) \/ LeaveWithError(r)
  \/ SendReserve(r) \/ RoomIsGone(r) \/ Reserved(r) \/ NotReserved(r) \/ Denied(r)

Serve(m) == GrantSeat(m) \/ RefuseSeat(m) \/ ShutdownEvent(m)
Dispose(m) == RemoveListing(m) \/ Deregister(m)

MMNext ==
  \/ \E r \in Request : Advance(r) \/ TimeOut(r) \/ Cancel(r)
  \/ \E m \in RoomId :
       Serve(m) \/ Dispose(m) \/ SetLocked(m) \/ SeatEnds(m) \/ DisposeItself(m)
  \/ ShutdownBegins \/ ShutdownEnds
  \/ \E i \in IKey : CacheExpires(i)

MMSpec == MMInit /\ [][MMNext]_mmVars

\* Tasks that can run do run; the mutex is handed over in the order of waiting;
\* the actor takes its mailbox, and a disposal goes through.
MMFairness ==
  /\ \A r \in Request : WF_mmVars(Advance(r)) /\ SF_mmVars(EnterCriteria(r))
                        /\ SF_mmVars(EnterUnique(r))
  /\ \A m \in RoomId : WF_mmVars(Serve(m)) /\ WF_mmVars(Dispose(m))
FairMMSpec == MMSpec /\ MMFairness

-----------------------------------------------------------------------------
(* Properties.                                                             *)

\* At most one request creates rooms for the same criteria, or the same unique
\* key, whatever came and went before (create_lock, release_create_lock).
CreateExclusive == MutualExclusion

\* Rooms of one unique_by key: never two at a time, also when a room is disposed
\* and asked for again meanwhile.  After shutdown() has cleared the driver a
\* request under way may not see the first.
UniqueAlive ==
  shutdown # "ended" =>
    \A m, n \in RoomId :
      /\ {actor[m], actor[n]} \subseteq {"alive", "disposing"}
      /\ MadeWith(m).unique = MadeWith(n).unique
      /\ MadeWith(m).unique # NoUnique
      => m = n

\* A client that is told of a reservation was given a seat in that room, and
\* holds none in another: attempts that failed left nothing behind.
SeatBehindReservation ==
  \A r \in Request : session[r] # NoRoom =>
    LET s == session[r]
    IN /\ <<s, found[s]>> \in granted
       /\ shutdown # "ended" => \A m \in RoomId : s \in seats[m] => m = found[s]

\* A room that runs can be found: it has its handle and its listing from its
\* registration to its disposal, whatever stale entries requests clean up.
ListedWhileAlive ==
  shutdown # "ended" =>
    \A m \in RoomId :
      /\ actor[m] = "alive"
      /\ \A r \in Request : ~(pc[r] \in Making /\ found[r] = m)
      => m \in registry /\ listings[m].there

\* As its actor and the listing have it, a request could join the room: it runs,
\* it is not locked and it has a place.  A room that is about to be listed counts.
CanBeJoined(m) ==
  actor[m] = "alive" /\ ~listings[m].locked /\ listings[m].clients < MaxClients

\* joinOrCreate does not make a room while another joinOrCreate has made one for
\* the same criteria that can be joined: requests that race are serialized by the
\* lock and look again when they have it (find_match_and_create).
OneRoomPerCriteria ==
  [][\A r \in Request, n \in RoomId :
       /\ maker[n] # r /\ maker'[n] = r
       /\ ask[r].method = "joinOrCreate" /\ ~ask[r].filtered /\ shutdown # "ended"
       => ~\E m \in RoomId :
             /\ CanBeJoined(m) /\ MadeWith(m).method = "joinOrCreate"
             /\ MadeWith(m).criterion = ask[r].criterion]_mmVars

\* Duplicates of a request are answered with the one seat of the first.
OneSeatPerKey ==
  \A q, r \in Request :
    /\ ask[q].key = ask[r].key /\ ask[q].key # NoKey
    /\ session[q] # NoRoom /\ session[r] # NoRoom
    => session[q] = session[r]

\* What matchmaking reads of a room is what its actor would decide on.
SeatsPublished ==
  \A m \in RoomId :
    listings[m].there /\ actor[m] = "alive" =>
      /\ listings[m].clients = Cardinality(seats[m])
      /\ listings[m].locked = locked[m]

\* joinOrCreate finds an available room or creates one: it does not run out of
\* attempts on rooms that have no place.
JoinOrCreateSucceeds ==
  \A r \in Request : ask[r].method = "joinOrCreate" => pc[r] # "expired"

\* Every request is answered.
RequestEnds == \A r \in Request : <>(pc[r] \in Ended)
=============================================================================
