-------------------------------- MODULE Room --------------------------------
(***************************************************************************)
(* The room actor: the task that owns one room's client list, reserved     *)
(* seats and reconnection entries, and takes every event that reaches the  *)
(* room from its mailbox, one at a time (src/crates/colyseus/src/actor.rs  *)
(* with the RoomContext of room.rs and the Client handle of client.rs).    *)
(*                                                                         *)
(* A connection stands for one Client handle.  The reconnection token a    *)
(* handle holds is fresh whenever it is given one, so the handle names its *)
(* token: reconnections is the set of handles whose token has an entry.    *)
(*                                                                         *)
(* The mailbox is kept as one queue per connection.  The order of events   *)
(* of different connections is the order in which independent tasks        *)
(* happened to send, so the actor may take any queue's head.               *)
(*                                                                         *)
(* One turn of the actor's loop is a handler (phase "idle", or "idle" and  *)
(* "joining" around the await of on_join) followed by the disposal check   *)
(* (phase "settle"); nothing else of the actor can run in between.         *)
(***************************************************************************)
EXTENDS Integers, Sequences, FiniteSets

CONSTANTS
  Session,       \* the session ids the matchmaker generates
  Conn,          \* the WebSocket connections, each opened at most once
  NoConn,        \* no connection, and no token
  SessionOf,     \* the session id in a connection's URL
  MaxClients,    \* max_clients of the room
  AutoDispose    \* auto_dispose of the room

ASSUME RoomAssumption ==
  /\ IsFiniteSet(Session) /\ IsFiniteSet(Conn)
  /\ NoConn \notin Conn
  /\ SessionOf \in [Conn -> Session]
  /\ MaxClients \in Nat
  /\ AutoDispose \in BOOLEAN

VARIABLES
  phase,            \* where the actor is in its loop
  joiner,           \* the connection whose on_join is running
  clients,          \* the handles in the client list
  current,          \* what get_client returns for a session: its first entry
  reserved_seats,   \* the seat each session holds
  reconnections,    \* the handles whose token may be used to reconnect
  manual,           \* those of them allowed back without a time limit
  had_clients,      \* some on_join has succeeded
  locked,           \* the room takes no more reservations
  request_dispose,  \* ctx.disconnect was called
  overdue,          \* the seat timeout has passed since the room started
  state,            \* ClientState of each handle, shared with its socket task
  mailbox,          \* events a connection has sent and the actor not yet taken
  token,            \* the reconnection token a connection's URL carries
  reply,            \* the actor's answer to a connection's Connect
  closing,          \* a Close frame is queued for the connection
  listing,          \* the room's entry in the driver
  issued,           \* session ids that were given a seat
  joined,           \* sessions whose on_join succeeded
  left              \* how many times on_leave ran for a session

membership == <<clients, current, reserved_seats, reconnections, manual>>
settings   == <<locked, request_dispose, overdue, had_clients>>
history    == <<issued, joined, left>>
roomVars   == <<phase, joiner, membership, settings, state, mailbox, token,
                reply, closing, listing, history>>

-----------------------------------------------------------------------------
ClientState == {"Joining", "Joined", "Reconnecting", "Reconnected", "Leaving",
                "Closed"}
Seat        == {"none", "pending", "consumed", "waiting"}
Event       == {"connect", "data", "leave", "disconnected"}
Phase       == {"idle", "joining", "settle", "stopped"}

\* Every variable has its type.
TypeOK ==
  /\ phase \in Phase
  /\ joiner \in Conn \cup {NoConn}
  /\ clients \in SUBSET Conn
  /\ current \in [Session -> Conn \cup {NoConn}]
  /\ reserved_seats \in [Session -> Seat]
  /\ reconnections \in SUBSET Conn
  /\ manual \in SUBSET Conn
  /\ had_clients \in BOOLEAN
  /\ locked \in BOOLEAN
  /\ request_dispose \in BOOLEAN
  /\ overdue \in BOOLEAN
  /\ state \in [Conn -> ClientState]
  /\ mailbox \in [Conn -> Seq(Event)]
  /\ token \in [Conn -> Conn \cup {NoConn}]
  /\ reply \in [Conn -> {"none", "ok", "err"}]
  /\ closing \in [Conn -> BOOLEAN]
  /\ listing \in [listed : BOOLEAN, clients : Nat, locked : BOOLEAN]
  /\ issued \in SUBSET Session
  /\ joined \in SUBSET Session
  /\ left \in [Session -> Nat]

\* The room as spawn_new_room leaves it: created, spawned and registered.
RoomInit ==
  /\ phase = "idle" /\ joiner = NoConn
  /\ clients = {} /\ current = [s \in Session |-> NoConn]
  /\ reserved_seats = [s \in Session |-> "none"]
  /\ reconnections = {} /\ manual = {}
  /\ had_clients = FALSE /\ locked = FALSE
  /\ request_dispose = FALSE /\ overdue = FALSE
  /\ state = [c \in Conn |-> "Joining"]
  /\ mailbox = [c \in Conn |-> <<>>]
  /\ token = [c \in Conn |-> NoConn]
  /\ reply = [c \in Conn |-> "none"]
  /\ closing = [c \in Conn |-> FALSE]
  /\ listing = [listed |-> TRUE, clients |-> 0, locked |-> FALSE]
  /\ issued = {} /\ joined = {} /\ left = [s \in Session |-> 0]

-----------------------------------------------------------------------------
(* Helpers of RoomContext and Client.                                      *)

HandlesOf(s) == {c \in Conn : SessionOf[c] = s}

\* Client::is_joined
IsJoined(c) == state[c] \in {"Joined", "Reconnected"}

\* Seats waiting for their first connection: those of clients held for
\* reconnection are not counted, their handle is still in the client list.
PendingSeats == {s \in Session : reserved_seats[s] = "pending"}

\* What the listing shows, and what is compared with max_clients.
\* Mutants: the unclaimed seats are forgotten; they are taken off.
ListingClientCountBug == Cardinality(clients)
ListingClientCountBelowZero == Cardinality(clients) - Cardinality(PendingSeats)
ListingClientCount == Cardinality(clients) + Cardinality(PendingSeats)

\* Mutant: one too many.
HasReachedMaxClientsBug == ListingClientCount > MaxClients
HasReachedMaxClients == ListingClientCount >= MaxClients

\* update_by_id finds no entry once the room is removed from the driver.
SyncListing ==
  listing' = IF listing.listed
             THEN [listed |-> TRUE, clients |-> ListingClientCount',
                   locked |-> locked']
             ELSE listing

\* clients.retain(|c| c.session_id() != s), for the sessions in S
RetainOthers(S) ==
  /\ clients' = {c \in clients : SessionOf[c] \notin S}
  /\ current' = [s \in Session |-> IF s \in S THEN NoConn ELSE current[s]]

FreeSeats(S) == [s \in Session |-> IF s \in S THEN "none" ELSE reserved_seats[s]]

\* A handler takes the next event of connection c.
Takes(c, e) ==
  /\ phase = "idle"
  /\ mailbox[c] # <<>> /\ Head(mailbox[c]) = e
  /\ mailbox' = [mailbox EXCEPT ![c] = Tail(@)]

\* The event is from the connection the room knows for the session, not from
\* one that was replaced.  Mutant: any connection of a session that is there.
IsCurrentBug(c) == current[SessionOf[c]] # NoConn
IsCurrent(c) == current[SessionOf[c]] = c

-----------------------------------------------------------------------------
(* Reserving a seat.  A request that finds the room locked or full, or that*)
(* on_auth refuses, is answered with an error and changes nothing.         *)

ReserveSeat(s) ==
  /\ phase = "idle"
  /\ s \notin issued
  /\ ~locked /\ ~HasReachedMaxClients
  /\ reserved_seats' = [reserved_seats EXCEPT ![s] = "pending"]
  /\ issued' = issued \cup {s}
  /\ phase' = "settle"
  /\ UNCHANGED <<joiner, clients, current, reconnections, manual, settings,
                 state, mailbox, token, reply, closing, joined, left>>
  /\ SyncListing

-----------------------------------------------------------------------------
(* Connecting with a reconnection token.                                   *)

TokenValid(c) ==
  token[c] \in reconnections /\ SessionOf[token[c]] = SessionOf[c]

\* The entry and the seat held for it are used up by the reconnection.
\* Mutant: the entry stays.
SpendTokenBug(c) ==
  /\ reconnections' = reconnections
  /\ manual' = manual
  /\ reserved_seats' = FreeSeats({SessionOf[c]})
SpendToken(c) ==
  /\ reconnections' = reconnections \ {token[c]}
  /\ manual' = manual \ {token[c]}
  /\ reserved_seats' = FreeSeats({SessionOf[c]})

\* The new handle takes the place of the session's first entry, or is pushed.
\* Mutant: it is pushed always.
RelistedBug(c) == clients \cup {c}
Relisted(c) == (clients \ {current[SessionOf[c]]}) \cup {c}

Reconnect(c) ==
  /\ Takes(c, "connect")
  /\ token[c] # NoConn /\ TokenValid(c)
  /\ SpendToken(c)
  /\ clients' = Relisted(c)
  /\ current' = [current EXCEPT ![SessionOf[c]] = c]
  /\ state' = [state EXCEPT ![token[c]] = "Reconnected", ![c] = "Reconnected"]
  /\ reply' = [reply EXCEPT ![c] = "ok"]
  /\ phase' = "settle"
  /\ UNCHANGED <<joiner, settings, token, closing, history>>
  /\ SyncListing

\* A refused connection is answered with an error.  No frame is queued.
RefuseConnect(c) ==
  /\ Takes(c, "connect")
  /\ \/ token[c] # NoConn /\ ~TokenValid(c)
     \/ token[c] = NoConn /\ reserved_seats[SessionOf[c]] \in {"none", "consumed"}
  /\ reply' = [reply EXCEPT ![c] = "err"]
  /\ phase' = "settle"
  /\ UNCHANGED <<joiner, membership, settings, state, token, closing, listing,
                 history>>

-----------------------------------------------------------------------------
(* Connecting without a token.  The seat is consumed and the handle listed *)
(* before on_join runs; the seat is dropped once on_join has decided.      *)

BeginJoin(c) ==
  /\ Takes(c, "connect")
  /\ token[c] = NoConn
  /\ reserved_seats[SessionOf[c]] \notin {"none", "consumed"}
  /\ reserved_seats' = [reserved_seats EXCEPT ![SessionOf[c]] = "consumed"]
  /\ clients' = clients \cup {c}
  /\ current' = [current EXCEPT ![SessionOf[c]] = IF @ = NoConn THEN c ELSE @]
  /\ state' = [state EXCEPT ![c] = "Joining"]
  /\ joiner' = c
  /\ phase' = "joining"
  /\ UNCHANGED <<reconnections, manual, settings, token, reply, closing, listing,
                 history>>

\* on_join accepted the client and nothing closed the handle meanwhile.
JoinSucceeds ==
  /\ phase = "joining"
  /\ state[joiner] # "Leaving"
  /\ reserved_seats' = FreeSeats({SessionOf[joiner]})
  /\ state' = [state EXCEPT ![joiner] = "Joined"]
  /\ had_clients' = TRUE
  /\ reply' = [reply EXCEPT ![joiner] = "ok"]
  /\ joined' = joined \cup {SessionOf[joiner]}
  /\ joiner' = NoConn
  /\ phase' = "settle"
  /\ UNCHANGED <<clients, current, reconnections, manual, locked,
                 request_dispose, overdue, mailbox, token, closing, issued, left>>
  /\ SyncListing

\* on_join returned an error, or left the handle Leaving.
JoinFails ==
  /\ phase = "joining"
  /\ reserved_seats' = FreeSeats({SessionOf[joiner]})
  /\ RetainOthers({SessionOf[joiner]})
  /\ state' = [state EXCEPT ![joiner] = "Leaving"]
  /\ closing' = [closing EXCEPT ![joiner] = TRUE]
  /\ reply' = [reply EXCEPT ![joiner] = "err"]
  /\ joiner' = NoConn
  /\ phase' = "settle"
  /\ UNCHANGED <<reconnections, manual, settings, mailbox, token, history>>
  /\ SyncListing

-----------------------------------------------------------------------------
(* Leaving.                                                                *)

\* Mutant: a client that has come back is taken for one that is going.
AlreadyLeavingBug(c) == state[c] \in {"Leaving", "Closed", "Reconnected"}
AlreadyLeaving(c) == state[c] \in {"Leaving", "Closed"}

\* allow_reconnection, called by on_drop: the handle stays listed, its token
\* gets an entry and its session a seat that is held for it.
HoldSeat(c, untimed) ==
  /\ reconnections' = reconnections \cup {c}
  /\ manual' = IF untimed THEN manual \cup {c} ELSE manual
  /\ reserved_seats' = [reserved_seats EXCEPT ![SessionOf[c]] = "waiting"]
  /\ state' = [state EXCEPT ![c] = "Reconnecting"]
  /\ closing' = [closing EXCEPT ![c] = TRUE]
  /\ UNCHANGED <<clients, current, listing, left>>

\* on_leave, then the client is forgotten.  A consented leave ends in
\* Client::leave, which sets Leaving again and queues the Close frame.
LeaveForGood(c, consented) ==
  /\ left' = [left EXCEPT ![SessionOf[c]] = @ + 1]
  /\ RetainOthers({SessionOf[c]})
  /\ state' = [state EXCEPT ![c] = IF consented THEN "Leaving" ELSE "Closed"]
  /\ closing' = [closing EXCEPT ![c] = @ \/ consented]
  /\ UNCHANGED <<reserved_seats, reconnections, manual>>
  /\ SyncListing

\* leave_client, with the outcomes of on_drop
LeaveClient(c, consented) ==
  \/ c \notin reconnections /\ LeaveForGood(c, consented)
  \/ c \notin reconnections /\ ~consented
     /\ \E untimed \in BOOLEAN : HoldSeat(c, untimed)
  \/ c \in reconnections
     /\ state' = [state EXCEPT ![c] = "Leaving"]
     /\ closing' = [closing EXCEPT ![c] = TRUE]
     /\ UNCHANGED <<membership, listing, left>>

OnLeave(c, e) ==
  /\ Takes(c, e)
  /\ phase' = "settle"
  /\ UNCHANGED <<joiner, settings, token, reply, issued, joined>>
  /\ IF IsCurrent(c) /\ ~AlreadyLeaving(c)
     THEN LeaveClient(c, e = "leave")
     ELSE UNCHANGED <<membership, state, closing, listing, left>>

-----------------------------------------------------------------------------
(* What room code and the admin panel can do to the room.                  *)

SetLocked ==
  /\ locked' = ~locked
  /\ UNCHANGED <<membership, request_dispose, state, closing>>
  /\ SyncListing

Disconnect ==
  /\ request_dispose' = TRUE
  /\ UNCHANGED <<membership, locked, state, closing, listing>>

\* Mutant: the reconnection entries of a removed client stay.
EntriesWithoutBug(s) == reconnections
EntriesWithout(s) == reconnections \ HandlesOf(s)

RemoveClient(s) ==
  /\ RetainOthers({s})
  /\ reconnections' = EntriesWithout(s)
  /\ manual' = manual \ HandlesOf(s)
  /\ reserved_seats' = FreeSeats({s})
  /\ UNCHANGED <<locked, request_dispose, state, closing>>
  /\ SyncListing

\* A handler runs on the actor: a message handler, an injected command, an
\* admin RPC, a timer or a tick.
RunHandler ==
  \/ SetLocked
  \/ Disconnect
  \/ \E s \in Session : RemoveClient(s)

RoomCode ==
  /\ phase = "idle"
  /\ RunHandler
  /\ phase' = "settle"
  /\ UNCHANGED <<joiner, had_clients, overdue, mailbox, token, reply, history>>

\* A message runs its handlers only when its connection is the session's
\* current one and joined; it is dropped otherwise.
OnMessage(c) ==
  /\ Takes(c, "data")
  /\ phase' = "settle"
  /\ \/ IsCurrent(c) /\ IsJoined(c) /\ RunHandler
     \/ UNCHANGED <<membership, locked, request_dispose, state, closing, listing>>
  /\ UNCHANGED <<joiner, had_clients, overdue, token, reply, history>>

\* The admin panel's Kick: Client::leave on the session's current handle.
Kick(s) ==
  /\ phase = "idle"
  /\ current[s] # NoConn
  /\ state' = [state EXCEPT ![current[s]] = "Leaving"]
  /\ closing' = [closing EXCEPT ![current[s]] = TRUE]
  /\ phase' = "settle"
  /\ UNCHANGED <<joiner, membership, settings, mailbox, token, reply, listing,
                 history>>

-----------------------------------------------------------------------------
(* Deadlines: reconnection entries and seats that have expired.            *)

\* The entries that may expire.  Mutant: only seats have deadlines.
TimedEntriesBug == {}
TimedEntries == reconnections \ manual

\* Expired entries are removed.  Mutant: they stay, and expire again.
DropEntriesBug(T) == UNCHANGED <<reconnections, manual>>
DropEntries(T) ==
  /\ reconnections' = reconnections \ T
  /\ UNCHANGED manual

\* Mutant: the seats held for the expired entries stay.
SeatsFreedBug(T, S) == S
SeatsFreed(T, S) == {SessionOf[c] : c \in T} \cup S

HandleDeadlines(T, S) ==
  /\ phase = "idle"
  /\ T \cup S # {}
  /\ LET expired == {SessionOf[c] : c \in T}
     IN /\ DropEntries(T)
        /\ reserved_seats' = FreeSeats(SeatsFreed(T, S))
        /\ RetainOthers(expired)
        /\ left' = [s \in Session |->
                      left[s] + Cardinality({c \in T : SessionOf[c] = s})]
  /\ state' = [c \in Conn |-> IF c \in T THEN "Closed" ELSE state[c]]
  /\ phase' = "settle"
  /\ UNCHANGED <<joiner, settings, mailbox, token, reply, closing, issued, joined>>
  /\ SyncListing

SeatTimeoutPasses ==
  /\ phase = "idle" /\ ~overdue
  /\ overdue' = TRUE
  /\ phase' = "settle"
  /\ UNCHANGED <<joiner, membership, locked, request_dispose, had_clients, state,
                 mailbox, token, reply, closing, listing, history>>

-----------------------------------------------------------------------------
(* Disposal.                                                               *)

\* Everyone left, or nobody came in time.  Mutant: only the former counts.
NobodyToWaitForBug == had_clients
NobodyToWaitFor == had_clients \/ overdue

ShouldAutoDispose ==
  /\ AutoDispose
  /\ \A c \in clients : state[c] = "Closed"
  /\ reconnections = {}
  /\ PendingSeats = {}
  /\ NobodyToWaitFor

Dispose ==
  /\ state' = [c \in Conn |-> IF c \in clients THEN "Leaving" ELSE state[c]]
  /\ closing' = [c \in Conn |-> closing[c] \/ c \in clients]
  /\ clients' = {} /\ current' = [s \in Session |-> NoConn]
  /\ reserved_seats' = [s \in Session |-> "none"]
  /\ reconnections' = {} /\ manual' = {}
  /\ request_dispose' = FALSE
  /\ listing' = [listing EXCEPT !.listed = FALSE]
  /\ mailbox' = [c \in Conn |-> <<>>]
  /\ phase' = "stopped"
  /\ UNCHANGED <<joiner, locked, overdue, had_clients, token, reply, history>>

\* The end of a turn of the loop.
Settle ==
  /\ phase = "settle"
  /\ IF request_dispose \/ ShouldAutoDispose
     THEN Dispose
     ELSE phase' = "idle" /\ UNCHANGED <<joiner, membership, settings, state,
            mailbox, token, reply, closing, listing, history>>

\* The admin panel's Dispose, and the matchmaker's Shutdown
DisposeEvent == phase = "idle" /\ Dispose
=============================================================================
