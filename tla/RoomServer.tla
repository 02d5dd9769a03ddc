----------------------------- MODULE RoomServer -----------------------------
(***************************************************************************)
(* The room actor together with the socket tasks that feed it              *)
(* (handle_socket in src/crates/colyseus/src/server.rs).  Each connection  *)
(* has a task of its own: it sends Connect, waits for the actor's answer,  *)
(* then forwards what its client sends and finally reports the disconnect. *)
(* The client handle, and so its ClientState, is shared with the actor.    *)
(***************************************************************************)
EXTENDS Room

CONSTANTS
  Kicks,          \* the admin panel may kick a client
  JoinTimeouts,   \* an answer may take longer than the socket waits for it
  SecondSockets   \* a session may be dialled again without its token

ASSUME ServerAssumption ==
  Kicks \in BOOLEAN /\ JoinTimeouts \in BOOLEAN /\ SecondSockets \in BOOLEAN

VARIABLE sock     \* where each connection's socket task is

vars == <<roomVars, sock>>

Sock == {"idle", "waiting", "open", "rejected", "closed"}

\* Every variable has its type; the listing's count never goes below zero.
ServerTypeOK == TypeOK /\ sock \in [Conn -> Sock]

Init == RoomInit /\ sock = [c \in Conn |-> "idle"]

Goes(c, from, to) ==
  /\ sock[c] = from
  /\ sock' = [sock EXCEPT ![c] = to]

\* Events sent to a room whose actor has stopped are lost.
Sends(c, es) ==
  mailbox' = IF phase = "stopped" THEN mailbox
             ELSE [mailbox EXCEPT ![c] = @ \o es]

-----------------------------------------------------------------------------
(* The socket task.                                                        *)

\* A client dials once with the session id of its reservation, and again
\* with a token that a connection of its session was given.
MayDial(c, t) ==
  IF t = NoConn
  THEN /\ SessionOf[c] \in issued
       /\ SecondSockets \/ \A d \in HandlesOf(SessionOf[c]) :
                             sock[d] # "idle" => token[d] # NoConn
  ELSE reply[t] = "ok" /\ SessionOf[t] = SessionOf[c]

\* ws_handler finds the room's handle and the socket task sends Connect.
Dial(c, t) ==
  /\ phase # "stopped"
  /\ MayDial(c, t)
  /\ Goes(c, "idle", "waiting")
  /\ token' = [token EXCEPT ![c] = t]
  /\ Sends(c, <<"connect">>)
  /\ UNCHANGED <<phase, joiner, membership, settings, state, reply, closing,
                 listing, history>>

Accepted(c) ==
  /\ reply[c] = "ok"
  /\ Goes(c, "waiting", "open")
  /\ UNCHANGED roomVars

Rejected(c) ==
  /\ reply[c] = "err"
  /\ Goes(c, "waiting", "rejected")
  /\ UNCHANGED roomVars

\* writer.await: the writer task stops once it has sent a Close frame.
WriterEnds(c) ==
  /\ closing[c]
  /\ Goes(c, "rejected", "closed")
  /\ UNCHANGED roomVars

\* The wait ends without an answer.  Mutant: it outlives the actor.
NoAnswerComesBug == JoinTimeouts
NoAnswerComes == JoinTimeouts \/ phase = "stopped"

\* No answer in ten seconds, or the actor dropped the responder: the handle
\* is told to leave, and the room is told nothing.
GivesUp(c) ==
  /\ reply[c] = "none"
  /\ NoAnswerComes
  /\ Goes(c, "waiting", "closed")
  /\ state' = [state EXCEPT ![c] = "Leaving"]
  /\ closing' = [closing EXCEPT ![c] = TRUE]
  /\ UNCHANGED <<phase, joiner, membership, settings, mailbox, token, reply,
                 listing, history>>

\* The reader loop. At most one message of a connection is under way.
SendMessage(c) ==
  /\ phase # "stopped" /\ mailbox[c] = <<>>
  /\ Goes(c, "open", "open")
  /\ Sends(c, <<"data">>)
  /\ UNCHANGED <<phase, joiner, membership, settings, state, token, reply,
                 closing, listing, history>>

SendLeave(c) ==
  /\ Goes(c, "open", "closed")
  /\ Sends(c, <<"leave", "disconnected">>)
  /\ UNCHANGED <<phase, joiner, membership, settings, state, token, reply,
                 closing, listing, history>>

\* The stream ends: the client closed it, answered the server's Close frame,
\* or the network failed.
StreamEnds(c) ==
  /\ Goes(c, "open", "closed")
  /\ Sends(c, <<"disconnected">>)
  /\ UNCHANGED <<phase, joiner, membership, settings, state, token, reply,
                 closing, listing, history>>

Socket(c) ==
  \/ \E t \in Conn \cup {NoConn} : Dial(c, t)
  \/ Accepted(c) \/ Rejected(c) \/ WriterEnds(c) \/ GivesUp(c)
  \/ SendMessage(c) \/ SendLeave(c) \/ StreamEnds(c)

-----------------------------------------------------------------------------
(* The actor.                                                              *)

\* The arms of the select! that take an event from the mailbox of c.
TakesEvent(c) ==
  \/ Reconnect(c) \/ RefuseConnect(c) \/ BeginJoin(c)
  \/ OnMessage(c)
  \/ OnLeave(c, "leave") \/ OnLeave(c, "disconnected")

Deadlines ==
  \/ \E T \in SUBSET TimedEntries, S \in SUBSET PendingSeats :
       HandleDeadlines(T, S)
  \/ SeatTimeoutPasses

Actor ==
  \/ \E c \in Conn : TakesEvent(c)
  \/ \E s \in Session : ReserveSeat(s) \/ (Kicks /\ Kick(s))
  \/ JoinSucceeds \/ JoinFails
  \/ RoomCode \/ DisposeEvent
  \/ Deadlines \/ Settle

Next ==
  \/ \E c \in Conn : Socket(c)
  \/ Actor /\ UNCHANGED sock

Spec == Init /\ [][Next]_vars

\* Fairness.  The mailbox is a FIFO and recv() is tried first, so an event that
\* was sent is taken after finitely many others; hooks return; an armed timer
\* fires; a socket task runs on, and a connection that was told to close does.
Fairness ==
  /\ WF_vars(Settle /\ UNCHANGED sock)
  /\ WF_vars((JoinSucceeds \/ JoinFails) /\ UNCHANGED sock)
  /\ \A c \in Conn :
       /\ SF_vars(TakesEvent(c) /\ UNCHANGED sock)
       /\ WF_vars(Accepted(c) \/ Rejected(c) \/ WriterEnds(c) \/ GivesUp(c))
       /\ WF_vars(closing[c] /\ StreamEnds(c))
       /\ SF_vars(\E T \in SUBSET TimedEntries :
                    c \in T /\ HandleDeadlines(T, {}) /\ UNCHANGED sock)
  /\ \A s \in Session :
       SF_vars(\E S \in SUBSET PendingSeats :
                 s \in S /\ HandleDeadlines({}, S) /\ UNCHANGED sock)
  /\ SF_vars(SeatTimeoutPasses /\ UNCHANGED sock)

FairSpec == Spec /\ Fairness

-----------------------------------------------------------------------------
(* Properties that hold whatever the clients and the admin panel do.       *)

\* Nothing of session s is left in the room.
Forgotten(s) ==
  /\ current[s] = NoConn
  /\ clients \cap HandlesOf(s) = {}
  /\ reconnections \cap HandlesOf(s) = {}
  /\ reserved_seats[s] = "none"

\* on_leave runs at most once for a session, only for one whose on_join
\* succeeded, and from then on the room holds nothing of the session: no
\* entry, seat or token by which it could come back (leave_client racing the
\* expiry of the reconnection entry, and both racing a reconnect).
OnLeaveIsFinal ==
  \A s \in Session :
    /\ left[s] <= 1
    /\ left[s] = 1 => s \in joined /\ Forgotten(s)

\* A seat held for a reconnection always has the entry that will free it, by
\* being used or by expiring: seats and entries live in two maps, and the
\* deadline that frees expired seats skips the held ones.
HeldSeatHasEntry ==
  \A s \in Session :
    reserved_seats[s] = "waiting" => reconnections \cap HandlesOf(s) # {}

\* Whenever the actor waits for its next event, the driver's entry shows the
\* room's lock and the number of its clients and unclaimed seats, so that no
\* handler forgets to publish what matchmaking decides on.
ListingAgrees ==
  phase = "idle" =>
    /\ listing.listed
    /\ listing.locked = locked
    /\ listing.clients = Cardinality(clients)
         + Cardinality({s \in Session : reserved_seats[s] = "pending"})

\* A reconnection token admits at most one connection, also when several
\* carry it: the entry is used up by the first.
TokenUsedOnce ==
  \A c, d \in Conn :
    (token[c] = token[d] /\ token[c] # NoConn /\ reply[c] = "ok" /\ reply[d] = "ok")
      => c = d

\* What a connection sends after another one took over its session, or after
\* the session is gone, changes nothing in the room.
StaleConnectionIgnored ==
  [][\A c \in Conn :
       (/\ Len(mailbox'[c]) < Len(mailbox[c])
        /\ phase' = "settle"
        /\ Head(mailbox[c]) # "connect"
        /\ current[SessionOf[c]] # c)
       => UNCHANGED <<membership, locked, request_dispose, left>>]_vars

-----------------------------------------------------------------------------
(* Properties that need a well-behaved environment.                        *)

\* The client list has one handle per session, so that get_client finds the
\* connection that is really in use (needs ~SecondSockets).
OneHandlePerSession ==
  \A c, d \in clients : SessionOf[c] = SessionOf[d] => c = d

\* Clients and unclaimed seats never exceed max_clients, over reservation,
\* join, drop, reconnect and expiry (needs ~SecondSockets: a held seat is not
\* counted, and joining on it adds an entry).
WithinMaxClients ==
  Cardinality(clients)
    + Cardinality({s \in Session : reserved_seats[s] = "pending"}) <= MaxClients

\* A listed handle waits for reconnection exactly when its token has an
\* entry, and the session's seat is held (needs ~Kicks and ~SecondSockets).
EntryForEachAbsentee ==
  phase \in {"idle", "settle"} =>
    /\ reconnections = {c \in clients : state[c] = "Reconnecting"}
    /\ \A c \in reconnections : reserved_seats[SessionOf[c]] = "waiting"

\* When everything a closed connection sent has been taken, its client is no
\* longer listed, unless it is held for reconnection.
NoGhost ==
  \A c \in clients :
    (phase = "idle" /\ sock[c] = "closed" /\ mailbox[c] = <<>>)
      => c \in reconnections

\* A connection the room rejected has the Close frame queued that its socket
\* task waits for.
RejectedIsToldToClose ==
  \A c \in Conn : sock[c] = "rejected" => closing[c]

-----------------------------------------------------------------------------
(* Liveness.                                                               *)

\* Every connection gets an answer or gives up.
ConnectAnswered == \A c \in Conn : sock[c] = "waiting" ~> sock[c] # "waiting"

\* A dropped client with a time limit does not stay listed for ever: it
\* reconnects or leaves for good.
AbsenteeResolved ==
  \A c \in Conn :
    (c \in reconnections /\ c \notin manual) ~> c \notin reconnections

\* Once every connection is closed for good and nobody is held without a time
\* limit, the room is disposed and its listing removed.
EmptyRoomDisposed ==
  <>[](/\ \A c \in Conn : sock[c] \in {"idle", "rejected", "closed"}
       /\ reconnections \cap manual = {})
    => <>(phase = "stopped")

-----------------------------------------------------------------------------
(* The room keeps what SessionLifecycle promises (needs ~SecondSockets).   *)

StageOf(s) ==
  IF s \notin issued THEN "unknown"
  ELSE IF reconnections \cap HandlesOf(s) # {} THEN "away"
  ELSE IF reserved_seats[s] \in {"pending", "consumed"} THEN "seated"
  ELSE IF current[s] # NoConn THEN "present"
  ELSE "gone"

Lifecycle == INSTANCE SessionLifecycle WITH
  life <- [s \in Session |-> StageOf(s)],
  told <- {s \in Session : left[s] > 0},
  open <- phase # "stopped",
  Capacity <- MaxClients

\* Every step of the actor and of the socket tasks is a step of the lifecycle
\* or leaves it alone: seats are given only while there is room, a session
\* never comes back once it is gone, and on_leave runs exactly when a client
\* that was there leaves.
FollowsLifecycle == Lifecycle!LifeSpec
=============================================================================
