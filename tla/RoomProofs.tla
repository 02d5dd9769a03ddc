----------------------------- MODULE RoomProofs -----------------------------
(***************************************************************************)
(* Proofs about the room actor and its socket tasks, for every set of      *)
(* sessions and connections and every setting of the switches: the         *)
(* variables keep their types, and the invariants of RoomServer that do    *)
(* not depend on how clients and the admin panel behave.                   *)
(***************************************************************************)
EXTENDS RoomServer, FiniteSetTheorems, TLAPS

-----------------------------------------------------------------------------
(* Counting.                                                               *)

\* The number of listed clients and unclaimed seats is a natural number.
LEMMA CountIsNat ==
  ASSUME NEW C \in SUBSET Conn, NEW S \in SUBSET Session
  PROVE  Cardinality(C) + Cardinality(S) \in Nat
  <1>1. IsFiniteSet(C) /\ IsFiniteSet(S)
    BY RoomAssumption, FS_Subset
  <1> QED
    BY <1>1, FS_CardinalityType

LEMMA SubsetCountIsNat ==
  ASSUME NEW C \in SUBSET Conn
  PROVE  Cardinality(C) \in Nat
  <1>1. IsFiniteSet(C)
    BY RoomAssumption, FS_Subset
  <1> QED
    BY <1>1, FS_CardinalityType

\* A set of connections in which any two are equal has at most one element.
LEMMA AtMostOne ==
  ASSUME NEW C \in SUBSET Conn, \A c, d \in C : c = d
  PROVE  Cardinality(C) <= 1 /\ (C # {} => Cardinality(C) = 1)
  <1>1. CASE C = {}
    BY <1>1, FS_EmptySet
  <1>2. CASE C # {}
    <2>1. PICK c \in C : TRUE
      BY <1>2
    <2>2. C = {c}
      BY <2>1
    <2>3. Cardinality({c}) = 1
      BY FS_Singleton
    <2> QED
      BY <2>2, <2>3
  <1> QED
    BY <1>1, <1>2

-----------------------------------------------------------------------------
(* Types.                                                                  *)

\* What an action publishes has the listing's type.
LEMMA SyncListingType ==
  ASSUME TypeOK, SyncListing,
         clients' \in SUBSET Conn,
         locked' \in BOOLEAN
  PROVE  listing' \in [listed : BOOLEAN, clients : Nat, locked : BOOLEAN]
  <1>1. ListingClientCount' \in Nat
    BY CountIsNat DEF ListingClientCount, PendingSeats
  <1> QED
    BY <1>1 DEF SyncListing, TypeOK

LEMMA InitType == Init => ServerTypeOK
  <1> SUFFICES ASSUME Init PROVE ServerTypeOK
    OBVIOUS
  <1>1. mailbox \in [Conn -> Seq(Event)]
    BY DEF Init, RoomInit
  <1>2. listing \in [listed : BOOLEAN, clients : Nat, locked : BOOLEAN]
    BY DEF Init, RoomInit
  <1>3. left \in [Session -> Nat]
    BY DEF Init, RoomInit
  <1>4. /\ current \in [Session -> Conn \cup {NoConn}]
        /\ reserved_seats \in [Session -> Seat]
        /\ state \in [Conn -> ClientState]
        /\ token \in [Conn -> Conn \cup {NoConn}]
        /\ reply \in [Conn -> {"none", "ok", "err"}]
        /\ closing \in [Conn -> BOOLEAN]
        /\ sock \in [Conn -> Sock]
    BY DEF Init, RoomInit, Seat, ClientState, Sock
  <1> QED
    BY <1>1, <1>2, <1>3, <1>4
    DEF Init, RoomInit, ServerTypeOK, TypeOK, Phase

\* A mailbox stays a queue of events when one is taken from it ...
LEMMA TakenType ==
  ASSUME TypeOK, NEW c \in Conn, NEW e, Takes(c, e)
  PROVE  mailbox' \in [Conn -> Seq(Event)]
  <1>1. mailbox[c] \in Seq(Event) /\ mailbox[c] # <<>>
    BY DEF TypeOK, Takes
  <1>2. Tail(mailbox[c]) \in Seq(Event)
    BY <1>1
  <1> QED
    BY <1>2 DEF Takes, TypeOK

\* ... and when some are put into it.
LEMMA SentType ==
  ASSUME TypeOK, NEW c \in Conn, NEW es \in Seq(Event), Sends(c, es)
  PROVE  mailbox' \in [Conn -> Seq(Event)]
  <1>1. mailbox[c] \in Seq(Event)
    BY DEF TypeOK
  <1>2. mailbox[c] \o es \in Seq(Event)
    BY <1>1
  <1> QED
    BY <1>2 DEF Sends, TypeOK

LEMMA SocketType ==
  ASSUME ServerTypeOK, NEW c \in Conn, Socket(c)
  PROVE  ServerTypeOK'
  <1> USE DEF ServerTypeOK, Goes, Sock
  <1>0. <<"connect">> \in Seq(Event) /\ <<"data">> \in Seq(Event)
        /\ <<"disconnected">> \in Seq(Event) /\ <<"leave", "disconnected">> \in Seq(Event)
    BY DEF Event
  <1> DEFINE ActorStays == UNCHANGED <<phase, joiner, membership, settings, reply, listing, history>>
  <1>00. ASSUME ActorStays,
                mailbox' \in [Conn -> Seq(Event)], token' \in [Conn -> Conn \cup {NoConn}],
                state' \in [Conn -> ClientState], closing' \in [Conn -> BOOLEAN], sock' \in [Conn -> Sock]
         PROVE  ServerTypeOK'
    BY <1>00 DEF TypeOK, membership, settings, history
  <1>01. /\ mailbox \in [Conn -> Seq(Event)] /\ token \in [Conn -> Conn \cup {NoConn}]
         /\ state \in [Conn -> ClientState] /\ closing \in [Conn -> BOOLEAN] /\ sock \in [Conn -> Sock]
    BY DEF TypeOK
  <1>1. ASSUME NEW t \in Conn \cup {NoConn}, Dial(c, t) PROVE ServerTypeOK'
    <2>1. mailbox' \in [Conn -> Seq(Event)]
      BY <1>0, <1>1, SentType DEF Dial
    <2> QED
      BY <1>00, <1>01, <1>1, <2>1 DEF Dial
  <1>2. CASE Accepted(c) \/ Rejected(c) \/ WriterEnds(c)
    <2>1. ActorStays /\ UNCHANGED <<mailbox, token, state, closing>>
      BY <1>2 DEF Accepted, Rejected, WriterEnds, roomVars
    <2>2. sock' \in [Conn -> Sock]
      BY <1>01, <1>2 DEF Accepted, Rejected, WriterEnds
    <2> QED
      BY <1>00, <1>01, <2>1, <2>2
  <1>3. CASE GivesUp(c)
    BY <1>00, <1>01, <1>3 DEF GivesUp, ClientState
  <1>4. CASE SendMessage(c)
    <2>1. mailbox' \in [Conn -> Seq(Event)]
      BY <1>0, <1>4, SentType DEF SendMessage
    <2> QED
      BY <1>00, <1>01, <1>4, <2>1 DEF SendMessage
  <1>5. CASE SendLeave(c)
    <2>1. mailbox' \in [Conn -> Seq(Event)]
      BY <1>0, <1>5, SentType DEF SendLeave
    <2> QED
      BY <1>00, <1>01, <1>5, <2>1 DEF SendLeave
  <1>6. CASE StreamEnds(c)
    <2>1. mailbox' \in [Conn -> Seq(Event)]
      BY <1>0, <1>6, SentType DEF StreamEnds
    <2> QED
      BY <1>00, <1>01, <1>6, <2>1 DEF StreamEnds
  <1> QED
    BY <1>1, <1>2, <1>3, <1>4, <1>5, <1>6 DEF Socket

LEMMA ConnectType ==
  ASSUME TypeOK, NEW c \in Conn,
         Reconnect(c) \/ RefuseConnect(c) \/ BeginJoin(c)
  PROVE  TypeOK'
  <1>0. SessionOf[c] \in Session
    BY RoomAssumption
  <1>1. CASE Reconnect(c)
    <2>1. mailbox' \in [Conn -> Seq(Event)]
      BY <1>1, TakenType DEF Reconnect
    <2>2. clients' \in SUBSET Conn /\ locked' \in BOOLEAN
      BY <1>1 DEF Reconnect, Relisted, settings, TypeOK
    <2>3. listing' \in [listed : BOOLEAN, clients : Nat, locked : BOOLEAN]
      BY <1>1, <2>2, SyncListingType DEF Reconnect
    <2>4. reserved_seats' \in [Session -> Seat]
      BY <1>1 DEF Reconnect, SpendToken, FreeSeats, TypeOK, Seat
    <2>5. state' \in [Conn -> ClientState]
      BY <1>1 DEF Reconnect, TypeOK, ClientState
    <2>6. reconnections' \in SUBSET Conn /\ manual' \in SUBSET Conn
      BY <1>1 DEF Reconnect, SpendToken, TypeOK
    <2> QED
      BY <1>0, <1>1, <2>1, <2>2, <2>3, <2>4, <2>5, <2>6
      DEF Reconnect, TypeOK, settings, history, Phase
  <1>2. CASE RefuseConnect(c)
    <2>1. mailbox' \in [Conn -> Seq(Event)]
      BY <1>2, TakenType DEF RefuseConnect
    <2> QED
      BY <1>2, <2>1
      DEF RefuseConnect, TypeOK, membership, settings, history, Phase
  <1>3. CASE BeginJoin(c)
    <2>1. mailbox' \in [Conn -> Seq(Event)]
      BY <1>3, TakenType DEF BeginJoin
    <2>2. current' \in [Session -> Conn \cup {NoConn}]
      BY <1>0, <1>3 DEF BeginJoin, TypeOK
    <2> QED
      BY <1>0, <1>3, <2>1, <2>2
      DEF BeginJoin, TypeOK, settings, history, Phase, Seat, ClientState
  <1> QED
    BY <1>1, <1>2, <1>3

LEMMA RetainType ==
  ASSUME TypeOK, NEW S, RetainOthers(S)
  PROVE  /\ clients' \in SUBSET Conn
         /\ current' \in [Session -> Conn \cup {NoConn}]
  BY DEF RetainOthers, TypeOK

LEMMA FreeSeatsType ==
  ASSUME TypeOK, NEW S
  PROVE  FreeSeats(S) \in [Session -> Seat]
  BY DEF FreeSeats, TypeOK, Seat

LEMMA JoinedType ==
  ASSUME TypeOK, phase = "joining" => joiner \in Conn, JoinSucceeds \/ JoinFails
  PROVE  TypeOK'
  <1>0. joiner \in Conn /\ SessionOf[joiner] \in Session
    BY RoomAssumption DEF JoinSucceeds, JoinFails
  <1>1. CASE JoinSucceeds
    <2>1. listing' \in [listed : BOOLEAN, clients : Nat, locked : BOOLEAN]
      BY <1>1, SyncListingType DEF JoinSucceeds, TypeOK
    <2>2. reserved_seats' \in [Session -> Seat]
      BY <1>1, FreeSeatsType DEF JoinSucceeds
    <2> QED
      BY <1>0, <1>1, <2>1, <2>2 DEF JoinSucceeds, TypeOK, ClientState, Phase
  <1>2. CASE JoinFails
    <2>1. /\ clients' \in SUBSET Conn
          /\ current' \in [Session -> Conn \cup {NoConn}]
      BY <1>2, RetainType DEF JoinFails
    <2>2. listing' \in [listed : BOOLEAN, clients : Nat, locked : BOOLEAN]
      BY <1>2, <2>1, SyncListingType DEF JoinFails, TypeOK, settings
    <2>3. reserved_seats' \in [Session -> Seat]
      BY <1>2, FreeSeatsType DEF JoinFails
    <2> QED
      BY <1>0, <1>2, <2>1, <2>2, <2>3
      DEF JoinFails, TypeOK, settings, history, ClientState, Phase
  <1> QED
    BY <1>1, <1>2

LEMMA OnLeaveType ==
  ASSUME TypeOK, NEW c \in Conn, NEW e, OnLeave(c, e)
  PROVE  TypeOK'
  <1>0. SessionOf[c] \in Session /\ (e = "leave") \in BOOLEAN
    BY RoomAssumption
  <1>1. mailbox' \in [Conn -> Seq(Event)]
    BY TakenType DEF OnLeave
  <1> USE <1>0, <1>1 DEF OnLeave, settings
  <1>2. ASSUME NEW consented \in BOOLEAN, LeaveForGood(c, consented)
        PROVE  TypeOK'
    <2>1. /\ clients' \in SUBSET Conn
          /\ current' \in [Session -> Conn \cup {NoConn}]
      BY <1>2, RetainType DEF LeaveForGood
    <2>2. listing' \in [listed : BOOLEAN, clients : Nat, locked : BOOLEAN]
      BY <1>2, <2>1, SyncListingType DEF LeaveForGood, TypeOK
    <2>3. left' \in [Session -> Nat]
      BY <1>2 DEF LeaveForGood, TypeOK
    <2>4. state' \in [Conn -> ClientState] /\ closing' \in [Conn -> BOOLEAN]
      BY <1>2 DEF LeaveForGood, TypeOK, ClientState
    <2> QED
      BY <1>2, <2>1, <2>2, <2>3, <2>4 DEF LeaveForGood, TypeOK, Phase
  <1>3. ASSUME NEW untimed \in BOOLEAN, HoldSeat(c, untimed)
        PROVE  TypeOK'
    BY <1>3 DEF HoldSeat, TypeOK, Phase, Seat, ClientState
  <1>4. CASE /\ state' = [state EXCEPT ![c] = "Leaving"]
             /\ closing' = [closing EXCEPT ![c] = TRUE]
             /\ UNCHANGED <<membership, listing, left>>
    BY <1>4 DEF TypeOK, Phase, ClientState, membership
  <1>5. CASE UNCHANGED <<membership, state, closing, listing, left>>
    BY <1>5 DEF TypeOK, Phase, membership
  <1> QED
    BY <1>2, <1>3, <1>4, <1>5 DEF LeaveClient

\* What the handlers of the room code may assign.
HandlerTypeOK ==
  /\ clients \in SUBSET Conn
  /\ current \in [Session -> Conn \cup {NoConn}]
  /\ reserved_seats \in [Session -> Seat]
  /\ reconnections \in SUBSET Conn /\ manual \in SUBSET Conn
  /\ locked \in BOOLEAN /\ request_dispose \in BOOLEAN
  /\ state \in [Conn -> ClientState] /\ closing \in [Conn -> BOOLEAN]
  /\ listing \in [listed : BOOLEAN, clients : Nat, locked : BOOLEAN]

LEMMA HandlerType ==
  ASSUME TypeOK, RunHandler
  PROVE  HandlerTypeOK'
  <1>1. CASE SetLocked
    BY <1>1, SyncListingType DEF SetLocked, TypeOK, membership, HandlerTypeOK
  <1>2. CASE Disconnect
    BY <1>2 DEF Disconnect, TypeOK, membership, HandlerTypeOK
  <1>3. ASSUME NEW s \in Session, RemoveClient(s)
        PROVE  HandlerTypeOK'
    <2>1. /\ clients' \in SUBSET Conn
          /\ current' \in [Session -> Conn \cup {NoConn}]
      BY <1>3, RetainType DEF RemoveClient
    <2>2. listing' \in [listed : BOOLEAN, clients : Nat, locked : BOOLEAN]
      BY <1>3, <2>1, SyncListingType DEF RemoveClient, TypeOK
    <2>3. reserved_seats' \in [Session -> Seat]
      BY <1>3, FreeSeatsType DEF RemoveClient
    <2> QED
      BY <1>3, <2>1, <2>2, <2>3
      DEF RemoveClient, EntriesWithout, HandlerTypeOK, TypeOK
  <1> QED
    BY <1>1, <1>2, <1>3 DEF RunHandler

LEMMA RoomCodeType ==
  ASSUME TypeOK, RoomCode \/ \E c \in Conn : OnMessage(c)
  PROVE  TypeOK'
  <1>1. CASE RoomCode
    BY <1>1, HandlerType DEF RoomCode, HandlerTypeOK, TypeOK, Phase, history
  <1>2. ASSUME NEW c \in Conn, OnMessage(c)
        PROVE  TypeOK'
    <2>1. mailbox' \in [Conn -> Seq(Event)]
      BY <1>2, TakenType DEF OnMessage
    <2>2. HandlerTypeOK'
      <3>1. CASE RunHandler
        BY <3>1, HandlerType
      <3>2. CASE UNCHANGED <<membership, locked, request_dispose, state, closing,
                             listing>>
        BY <3>2 DEF HandlerTypeOK, TypeOK, membership
      <3> QED
        BY <1>2, <3>1, <3>2 DEF OnMessage
    <2> QED
      BY <1>2, <2>1, <2>2 DEF OnMessage, HandlerTypeOK, TypeOK, Phase, history
  <1> QED
    BY <1>1, <1>2

LEMMA DeadlineType ==
  ASSUME TypeOK, NEW T \in SUBSET TimedEntries, NEW S \in SUBSET PendingSeats,
         HandleDeadlines(T, S)
  PROVE  TypeOK'
  <1>0. T \in SUBSET Conn
    BY DEF TimedEntries, TypeOK
  <1>1. /\ clients' \in SUBSET Conn
        /\ current' \in [Session -> Conn \cup {NoConn}]
    BY RetainType DEF HandleDeadlines
  <1>2. listing' \in [listed : BOOLEAN, clients : Nat, locked : BOOLEAN]
    BY <1>1, SyncListingType DEF HandleDeadlines, TypeOK, settings
  <1>3. reserved_seats' \in [Session -> Seat]
    BY FreeSeatsType DEF HandleDeadlines
  <1>4. left' \in [Session -> Nat]
    <2> DEFINE E(s) == {c \in T : SessionOf[c] = s}
               n(s) == Cardinality(E(s))
    <2>1. \A s \in Session : E(s) \in SUBSET Conn
      BY <1>0
    <2>2. left' = [s \in Session |-> left[s] + n(s)]
      BY DEF HandleDeadlines
    <2> HIDE DEF E
    <2>3. \A s \in Session : n(s) \in Nat
      BY <2>1, SubsetCountIsNat
    <2>4. left \in [Session -> Nat]
      BY DEF TypeOK
    <2> HIDE DEF n
    <2> QED
      BY <2>2, <2>3, <2>4
  <1>5. state' \in [Conn -> ClientState]
    BY DEF HandleDeadlines, TypeOK, ClientState
  <1> QED
    BY <1>1, <1>2, <1>3, <1>4, <1>5
    DEF HandleDeadlines, DropEntries, TypeOK, settings, Phase

LEMMA DisposeType ==
  ASSUME TypeOK, Dispose
  PROVE  TypeOK'
  <1>1. mailbox' \in [Conn -> Seq(Event)]
    BY DEF Dispose
  <1>2. listing' \in [listed : BOOLEAN, clients : Nat, locked : BOOLEAN]
    BY DEF Dispose, TypeOK
  <1>3. /\ state' \in [Conn -> ClientState]
        /\ closing' \in [Conn -> BOOLEAN]
        /\ reserved_seats' \in [Session -> Seat]
        /\ current' \in [Session -> Conn \cup {NoConn}]
    BY DEF Dispose, TypeOK, ClientState, Seat
  <1> QED
    BY <1>1, <1>2, <1>3 DEF Dispose, TypeOK, Phase, history

-----------------------------------------------------------------------------
(* One case per action.  The socket tasks act alone; an action of the      *)
(* actor leaves them alone.                                                *)

LEMMA ActorCases ==
  ASSUME Actor
  PROVE  \/ \E c \in Conn : Reconnect(c) \/ RefuseConnect(c) \/ BeginJoin(c)
         \/ \E c \in Conn, e \in {"leave", "disconnected"} : OnLeave(c, e)
         \/ RoomCode \/ \E c \in Conn : OnMessage(c)
         \/ \E s \in Session : ReserveSeat(s)
         \/ \E s \in Session : Kick(s)
         \/ JoinSucceeds \/ JoinFails
         \/ DisposeEvent
         \/ \E T \in SUBSET TimedEntries, S \in SUBSET PendingSeats :
              HandleDeadlines(T, S)
         \/ SeatTimeoutPasses
         \/ Settle
  BY DEF Actor, TakesEvent, Deadlines

JoinerOK == phase = "joining" => joiner \in Conn

LEMMA ActorType ==
  ASSUME TypeOK, JoinerOK, Actor
  PROVE  TypeOK'
  <1>1. ASSUME NEW s \in Session, ReserveSeat(s)
        PROVE  TypeOK'
    <2>1. listing' \in [listed : BOOLEAN, clients : Nat, locked : BOOLEAN]
      BY <1>1, SyncListingType DEF ReserveSeat, TypeOK, settings
    <2> QED
      BY <1>1, <2>1 DEF ReserveSeat, TypeOK, settings, Seat, Phase
  <1>2. ASSUME NEW s \in Session, Kick(s)
        PROVE  TypeOK'
    BY <1>2 DEF Kick, TypeOK, membership, settings, history, ClientState, Phase
  <1>3. CASE SeatTimeoutPasses
    BY <1>3 DEF SeatTimeoutPasses, TypeOK, membership, history, Phase
  <1>4. CASE DisposeEvent
    BY <1>4, DisposeType DEF DisposeEvent
  <1>5. CASE Settle
    <2>1. CASE Dispose
      BY <2>1, DisposeType
    <2>2. CASE phase' = "idle" /\ UNCHANGED <<joiner, membership, settings, state,
                 mailbox, token, reply, closing, listing, history>>
      BY <2>2 DEF TypeOK, membership, settings, history, Phase
    <2> QED
      BY <1>5, <2>1, <2>2 DEF Settle
  <1> QED
    BY <1>1, <1>2, <1>3, <1>4, <1>5, ActorCases, ConnectType, OnLeaveType,
       RoomCodeType, JoinedType, DeadlineType DEF JoinerOK

\* While on_join runs there is a connection that joins.
LEMMA StepJoiner ==
  ASSUME ServerTypeOK, JoinerOK, [Next]_vars
  PROVE  JoinerOK'
  <1>1. ASSUME NEW c \in Conn, Socket(c)
        PROVE  UNCHANGED <<phase, joiner>>
    BY <1>1 DEF Socket, Dial, Accepted, Rejected, WriterEnds, GivesUp,
                SendMessage, SendLeave, StreamEnds, roomVars
  <1>2. CASE Actor
    <2>1. phase' = "joining" => joiner' \in Conn
      BY <1>2, ActorCases DEF Reconnect, RefuseConnect, BeginJoin, OnLeave,
         RoomCode, OnMessage, ReserveSeat, Kick, JoinSucceeds, JoinFails,
         DisposeEvent, Dispose, HandleDeadlines, SeatTimeoutPasses, Settle
    <2> QED
      BY <2>1 DEF JoinerOK
  <1>3. CASE UNCHANGED vars
    BY <1>3 DEF vars, roomVars, JoinerOK
  <1> QED
    BY <1>1, <1>2, <1>3 DEF Next, JoinerOK

LEMMA StepType ==
  ASSUME ServerTypeOK, JoinerOK, [Next]_vars
  PROVE  ServerTypeOK'
  <1>1. CASE Actor /\ UNCHANGED sock
    BY <1>1, ActorType DEF ServerTypeOK
  <1>2. CASE UNCHANGED vars
    BY <1>2 DEF vars, roomVars, membership, settings, history, ServerTypeOK, TypeOK
  <1> QED
    BY <1>1, <1>2, SocketType DEF Next

\* Every variable keeps its type: in particular the listing never shows a
\* negative number of clients, whatever is reserved, joined, dropped, expired
\* or removed in between (listing_client_count, sync_listing).
THEOREM TypeCorrect == Spec => []ServerTypeOK
  <1>1. Init => ServerTypeOK /\ JoinerOK
    BY InitType DEF Init, RoomInit, JoinerOK
  <1>2. ServerTypeOK /\ JoinerOK /\ [Next]_vars => (ServerTypeOK /\ JoinerOK)'
    BY StepType, StepJoiner
  <1> QED
    BY <1>1, <1>2, PTL DEF Spec

-----------------------------------------------------------------------------
(* The inductive invariant.                                                *)

\* get_client finds a handle of the session exactly when one is listed.
CurrentIsListed ==
  /\ \A s \in Session : current[s] # NoConn =>
       current[s] \in clients /\ SessionOf[current[s]] = s
  /\ \A c \in clients : current[SessionOf[c]] # NoConn

\* A session has at most one entry, whose handle is the session's current one
\* unless a failed second join has removed it from the list.
EntriesApart ==
  /\ \A t \in reconnections :
       current[SessionOf[t]] \in {t, NoConn} /\ SessionOf[t] \in joined
  /\ \A t, u \in reconnections : SessionOf[t] = SessionOf[u] => t = u

\* An unclaimed seat is all there is of its session, and a consumed one
\* belongs to the join that is under way.  While a seat is held, the handle it
\* is held for is listed.
SeatsMatch ==
  \A s \in Session :
    /\ reserved_seats[s] = "pending" =>
         current[s] = NoConn /\ reconnections \cap HandlesOf(s) = {}
    /\ reserved_seats[s] = "consumed" =>
         phase = "joining" /\ SessionOf[joiner] = s
    /\ reserved_seats[s] = "waiting" => current[s] # NoConn
    /\ reserved_seats[s] # "none" => s \in issued

JoinUnderWay ==
  phase = "joining" =>
    /\ reserved_seats[SessionOf[joiner]] = "consumed"
    /\ current[SessionOf[joiner]] # NoConn

\* Who is listed has joined, or is joining.
ListedHasJoined ==
  /\ joined \subseteq issued
  /\ \A c \in clients :
       SessionOf[c] \in joined \/ (phase = "joining" /\ joiner = c)

SessionInv ==
  /\ CurrentIsListed /\ EntriesApart /\ SeatsMatch
  /\ JoinUnderWay /\ ListedHasJoined
  /\ HeldSeatHasEntry /\ OnLeaveIsFinal

LEMMA InitSession == Init => SessionInv
  BY RoomAssumption
  DEF Init, RoomInit, SessionInv, CurrentIsListed, EntriesApart, SeatsMatch,
      JoinUnderWay, ListedHasJoined, HeldSeatHasEntry, OnLeaveIsFinal

\* What SessionInv speaks of, apart from the join that is under way.
sessionVars == <<clients, current, reserved_seats, reconnections, history>>

\* Steps that touch none of it.
LEMMA QuietStep ==
  ASSUME SessionInv, UNCHANGED sessionVars,
         \/ UNCHANGED <<phase, joiner>>
         \/ phase # "joining" /\ phase' # "joining"
  PROVE  SessionInv'
  BY DEF sessionVars, history, SessionInv, CurrentIsListed, EntriesApart,
         SeatsMatch, JoinUnderWay, ListedHasJoined, HeldSeatHasEntry,
         OnLeaveIsFinal, Forgotten, HandlesOf

LEMMA ReserveSession ==
  ASSUME TypeOK, SessionInv, NEW s \in Session, ReserveSeat(s)
  PROVE  SessionInv'
  <1> USE RoomAssumption DEF ReserveSeat, TypeOK, settings, HandlesOf
  <1>0. current[s] = NoConn /\ reconnections \cap HandlesOf(s) = {} /\ left[s] # 1
    BY DEF SessionInv, CurrentIsListed, EntriesApart, ListedHasJoined,
           OnLeaveIsFinal
  <1>1. CurrentIsListed' /\ EntriesApart'
    BY DEF SessionInv, CurrentIsListed, EntriesApart
  <1>2. SeatsMatch' /\ JoinUnderWay' /\ ListedHasJoined'
    BY <1>0 DEF SessionInv, SeatsMatch, JoinUnderWay, ListedHasJoined
  <1>3. HeldSeatHasEntry'
    BY DEF SessionInv, HeldSeatHasEntry
  <1>4. OnLeaveIsFinal'
    BY <1>0 DEF SessionInv, OnLeaveIsFinal, Forgotten
  <1> QED
    BY <1>1, <1>2, <1>3, <1>4 DEF SessionInv

LEMMA ReconnectSession ==
  ASSUME TypeOK, SessionInv, NEW c \in Conn, Reconnect(c)
  PROVE  SessionInv'
  <1> DEFINE s == SessionOf[c]
             t == token[c]
  <1> USE RoomAssumption
      DEF Reconnect, Takes, TokenValid, SpendToken, FreeSeats, TypeOK, settings,
          history, HandlesOf
  <1>0. /\ s \in Session /\ t \in reconnections /\ SessionOf[t] = s
        /\ current[s] \in {t, NoConn} /\ s \in joined /\ left[s] # 1
        /\ \A u \in reconnections : SessionOf[u] = s => u = t
    BY DEF SessionInv, EntriesApart, OnLeaveIsFinal, Forgotten
  <1>1. CurrentIsListed'
    <2>1. current' = [current EXCEPT ![s] = c] /\ clients' = (clients \ {current[s]}) \cup {c}
      BY DEF Relisted
    <2>2. \A r \in Session : current'[r] # NoConn => current'[r] \in clients' /\ SessionOf[current'[r]] = r
      <3> TAKE r \in Session
      <3>1. CASE r = s
        BY <1>0, <2>1, <3>1
      <3>2. CASE r # s
        BY <1>0, <2>1, <3>2 DEF SessionInv, CurrentIsListed
      <3> QED
        BY <3>1, <3>2
    <2>3. \A d \in clients' : current'[SessionOf[d]] # NoConn
      BY <1>0, <2>1 DEF SessionInv, CurrentIsListed
    <2> QED
      BY <2>2, <2>3 DEF CurrentIsListed
  <1>2. EntriesApart'
    BY <1>0 DEF SessionInv, EntriesApart
  <1>3. SeatsMatch' /\ JoinUnderWay'
    BY <1>0 DEF SessionInv, SeatsMatch, JoinUnderWay
  <1>4. ListedHasJoined'
    BY <1>0 DEF SessionInv, ListedHasJoined, Relisted
  <1>5. HeldSeatHasEntry'
    BY <1>0 DEF SessionInv, HeldSeatHasEntry
  <1>6. OnLeaveIsFinal'
    BY <1>0 DEF SessionInv, OnLeaveIsFinal, Forgotten, Relisted
  <1> QED
    BY <1>1, <1>2, <1>3, <1>4, <1>5, <1>6 DEF SessionInv

LEMMA BeginJoinSession ==
  ASSUME TypeOK, SessionInv, NEW c \in Conn, BeginJoin(c)
  PROVE  SessionInv'
  <1> DEFINE s == SessionOf[c]
  <1> USE RoomAssumption
      DEF BeginJoin, Takes, TypeOK, settings, history, HandlesOf
  <1>a. s \in Session /\ reserved_seats[s] \in {"pending", "waiting"}
    BY DEF Seat
  <1>0. /\ s \in Session /\ s \in issued /\ left[s] # 1
        /\ reserved_seats[s] \in {"pending", "waiting"}
        /\ current[s] = NoConn => \A t \in reconnections : SessionOf[t] # s
    BY <1>a DEF SessionInv, SeatsMatch, OnLeaveIsFinal, Forgotten
  <1>1. CurrentIsListed'
    BY <1>0 DEF SessionInv, CurrentIsListed
  <1>2. EntriesApart'
    BY <1>0 DEF SessionInv, EntriesApart, SeatsMatch
  <1>3. SeatsMatch' /\ JoinUnderWay'
    BY <1>0 DEF SessionInv, SeatsMatch, JoinUnderWay
  <1>4. ListedHasJoined'
    BY <1>0 DEF SessionInv, ListedHasJoined
  <1>5. HeldSeatHasEntry'
    BY <1>0 DEF SessionInv, HeldSeatHasEntry
  <1>6. OnLeaveIsFinal'
    BY <1>0 DEF SessionInv, OnLeaveIsFinal, Forgotten
  <1> QED
    BY <1>1, <1>2, <1>3, <1>4, <1>5, <1>6 DEF SessionInv

LEMMA JoinedSession ==
  ASSUME TypeOK, JoinerOK, SessionInv, JoinSucceeds \/ JoinFails
  PROVE  SessionInv'
  <1> DEFINE c == joiner
             s == SessionOf[c]
  <1> USE RoomAssumption DEF TypeOK, FreeSeats, HandlesOf
  <1>0. /\ c \in Conn /\ s \in Session /\ s \in issued /\ left[s] # 1
        /\ reserved_seats[s] = "consumed" /\ current[s] # NoConn
        /\ phase = "joining"
    BY DEF JoinerOK, JoinSucceeds, JoinFails, SessionInv, SeatsMatch, JoinUnderWay,
           OnLeaveIsFinal, Forgotten
  <1>1. CASE JoinSucceeds
    <2> USE <1>1 DEF JoinSucceeds
    <2>1. CurrentIsListed' /\ EntriesApart'
      BY <1>0 DEF SessionInv, CurrentIsListed, EntriesApart
    <2>2. SeatsMatch' /\ JoinUnderWay' /\ ListedHasJoined'
      BY <1>0 DEF SessionInv, SeatsMatch, JoinUnderWay, ListedHasJoined
    <2>3. HeldSeatHasEntry'
      BY <1>0 DEF SessionInv, HeldSeatHasEntry
    <2>4. OnLeaveIsFinal'
      BY <1>0 DEF SessionInv, OnLeaveIsFinal, Forgotten
    <2> QED
      BY <2>1, <2>2, <2>3, <2>4 DEF SessionInv
  <1>2. CASE JoinFails
    <2> USE <1>2 DEF JoinFails, RetainOthers, settings, history
    <2>1. CurrentIsListed' /\ EntriesApart'
      BY <1>0 DEF SessionInv, CurrentIsListed, EntriesApart
    <2>2. SeatsMatch' /\ JoinUnderWay' /\ ListedHasJoined'
      BY <1>0 DEF SessionInv, SeatsMatch, JoinUnderWay, ListedHasJoined
    <2>3. HeldSeatHasEntry'
      BY <1>0 DEF SessionInv, HeldSeatHasEntry
    <2>4. OnLeaveIsFinal'
      BY <1>0 DEF SessionInv, OnLeaveIsFinal, Forgotten
    <2> QED
      BY <2>1, <2>2, <2>3, <2>4 DEF SessionInv
  <1> QED
    BY <1>1, <1>2

\* The only leave that on_leave is run for by leave_client: the client is the
\* session's current one and has no entry, so nothing of it remains.
LEMMA LeaveSession ==
  ASSUME TypeOK, SessionInv, NEW c \in Conn, NEW consented \in BOOLEAN,
         phase = "idle", phase' = "settle", UNCHANGED <<issued, joined>>,
         IsCurrent(c), c \notin reconnections, LeaveForGood(c, consented)
  PROVE  SessionInv'
  <1> DEFINE s == SessionOf[c]
  <1> USE RoomAssumption DEF TypeOK, IsCurrent, HandlesOf
  <1>1. s \in Session /\ current[s] = c /\ c # NoConn /\ c \in clients
    BY DEF SessionInv, CurrentIsListed
  <1>2. s \in joined /\ left[s] = 0
    <2>1. s \in joined
      BY <1>1 DEF SessionInv, ListedHasJoined
    <2>2. left[s] \in Nat /\ left[s] <= 1 /\ left[s] # 1
      BY <1>1 DEF SessionInv, OnLeaveIsFinal, Forgotten
    <2> QED
      BY <2>1, <2>2
  <1>3. \A t \in reconnections : SessionOf[t] # s
    BY <1>1 DEF SessionInv, EntriesApart
  <1>4. reserved_seats[s] = "none"
    <2>1. reserved_seats[s] \in Seat
      BY <1>1
    <2>2. reserved_seats[s] # "waiting"
      BY <1>1, <1>3 DEF SessionInv, HeldSeatHasEntry
    <2>3. reserved_seats[s] \notin {"pending", "consumed"}
      BY <1>1 DEF SessionInv, SeatsMatch
    <2> QED
      BY <2>1, <2>2, <2>3 DEF Seat
  <1> USE DEF LeaveForGood, RetainOthers
  <1>5. CurrentIsListed' /\ EntriesApart'
    BY <1>1, <1>3 DEF SessionInv, CurrentIsListed, EntriesApart
  <1>6. SeatsMatch' /\ JoinUnderWay' /\ ListedHasJoined'
    BY <1>1, <1>4 DEF SessionInv, SeatsMatch, JoinUnderWay, ListedHasJoined
  <1>7. HeldSeatHasEntry'
    BY DEF SessionInv, HeldSeatHasEntry
  <1>8. OnLeaveIsFinal'
    BY <1>1, <1>2, <1>3, <1>4 DEF SessionInv, OnLeaveIsFinal, Forgotten
  <1> QED
    BY <1>5, <1>6, <1>7, <1>8 DEF SessionInv

LEMMA HoldSession ==
  ASSUME TypeOK, SessionInv, NEW c \in Conn, NEW untimed \in BOOLEAN,
         phase = "idle", phase' = "settle", UNCHANGED <<issued, joined>>,
         IsCurrent(c), c \notin reconnections, HoldSeat(c, untimed)
  PROVE  SessionInv'
  <1> DEFINE s == SessionOf[c]
  <1> USE RoomAssumption DEF TypeOK, IsCurrent, HandlesOf
  <1>1. s \in Session /\ current[s] = c /\ c # NoConn /\ c \in clients
    BY DEF SessionInv, CurrentIsListed
  <1>2. s \in joined /\ s \in issued /\ left[s] # 1
    BY <1>1 DEF SessionInv, ListedHasJoined, OnLeaveIsFinal, Forgotten
  <1>3. \A t \in reconnections : SessionOf[t] # s
    BY <1>1 DEF SessionInv, EntriesApart
  <1> USE DEF HoldSeat
  <1>4. CurrentIsListed' /\ EntriesApart'
    BY <1>1, <1>2, <1>3 DEF SessionInv, CurrentIsListed, EntriesApart
  <1>5. SeatsMatch' /\ JoinUnderWay' /\ ListedHasJoined'
    BY <1>1, <1>2 DEF SessionInv, SeatsMatch, JoinUnderWay, ListedHasJoined
  <1>6. HeldSeatHasEntry'
    BY <1>1 DEF SessionInv, HeldSeatHasEntry
  <1>7. OnLeaveIsFinal'
    BY <1>1, <1>2 DEF SessionInv, OnLeaveIsFinal, Forgotten
  <1> QED
    BY <1>4, <1>5, <1>6, <1>7 DEF SessionInv

LEMMA OnLeaveSession ==
  ASSUME TypeOK, SessionInv, NEW c \in Conn, NEW e, OnLeave(c, e)
  PROVE  SessionInv'
  <1> USE DEF OnLeave, Takes
  <1>0. /\ phase = "idle" /\ phase' = "settle" /\ UNCHANGED <<issued, joined>>
        /\ (e = "leave") \in BOOLEAN
    OBVIOUS
  <1>1. CASE IsCurrent(c) /\ c \notin reconnections /\ LeaveForGood(c, e = "leave")
    BY <1>0, <1>1, LeaveSession
  <1>2. ASSUME NEW untimed \in BOOLEAN,
               IsCurrent(c), c \notin reconnections, HoldSeat(c, untimed)
        PROVE  SessionInv'
    BY <1>0, <1>2, HoldSession
  <1>3. CASE UNCHANGED <<membership, left>>
    BY <1>0, <1>3, QuietStep DEF sessionVars, membership, history
  <1> QED
    BY <1>1, <1>2, <1>3 DEF LeaveClient

LEMMA RemoveSession ==
  ASSUME TypeOK, SessionInv, NEW s \in Session, RemoveClient(s),
         phase = "idle", phase' = "settle", UNCHANGED history
  PROVE  SessionInv'
  <1> USE RoomAssumption
      DEF TypeOK, RemoveClient, RetainOthers, EntriesWithout, FreeSeats,
          HandlesOf, history
  <1>1. CurrentIsListed' /\ EntriesApart'
    BY DEF SessionInv, CurrentIsListed, EntriesApart
  <1>2. SeatsMatch' /\ JoinUnderWay' /\ ListedHasJoined'
    BY DEF SessionInv, SeatsMatch, JoinUnderWay, ListedHasJoined
  <1>3. HeldSeatHasEntry'
    BY DEF SessionInv, HeldSeatHasEntry
  <1>4. OnLeaveIsFinal'
    BY DEF SessionInv, OnLeaveIsFinal, Forgotten
  <1> QED
    BY <1>1, <1>2, <1>3, <1>4 DEF SessionInv

LEMMA RoomCodeSession ==
  ASSUME TypeOK, SessionInv, RoomCode \/ \E c \in Conn : OnMessage(c)
  PROVE  SessionInv'
  <1>0. phase = "idle" /\ phase' = "settle" /\ UNCHANGED history
    BY DEF RoomCode, OnMessage, Takes
  <1>1. CASE RunHandler
    BY <1>0, <1>1, RemoveSession, QuietStep
    DEF RunHandler, SetLocked, Disconnect, sessionVars, membership
  <1>2. CASE UNCHANGED membership
    BY <1>0, <1>2, QuietStep DEF sessionVars, membership
  <1> QED
    BY <1>1, <1>2 DEF RoomCode, OnMessage

LEMMA DeadlineSession ==
  ASSUME TypeOK, SessionInv,
         NEW T \in SUBSET TimedEntries, NEW S \in SUBSET PendingSeats,
         HandleDeadlines(T, S)
  PROVE  SessionInv'
  <1> DEFINE X == {SessionOf[c] : c \in T}
             E(s) == {c \in T : SessionOf[c] = s}
  <1>0. /\ phase = "idle" /\ phase' = "settle" /\ UNCHANGED <<issued, joined>>
        /\ T \subseteq reconnections /\ T \subseteq Conn
        /\ S \subseteq Session /\ X \subseteq Session
        /\ \A s \in S : reserved_seats[s] = "pending"
        /\ reconnections' = reconnections \ T
        /\ clients' = {c \in clients : SessionOf[c] \notin X}
        /\ current' = [s \in Session |-> IF s \in X THEN NoConn ELSE current[s]]
        /\ reserved_seats' = [s \in Session |->
              IF s \in X \cup S THEN "none" ELSE reserved_seats[s]]
    BY RoomAssumption
    DEF HandleDeadlines, DropEntries, SeatsFreed, FreeSeats, RetainOthers,
        TimedEntries, PendingSeats, TypeOK
  <1>1. \A s \in X : /\ s \in joined /\ left[s] = 0
                     /\ \A t \in reconnections : SessionOf[t] = s => t \in T
    <2>1. ASSUME NEW c \in T
          PROVE  /\ SessionOf[c] \in joined
                 /\ \A t \in reconnections : SessionOf[t] = SessionOf[c] => t \in T
      BY <1>0 DEF SessionInv, EntriesApart
    <2>2. ASSUME NEW c \in T
          PROVE  left[SessionOf[c]] = 0
      <3>1. SessionOf[c] \in Session /\ ~Forgotten(SessionOf[c])
        BY <1>0, RoomAssumption DEF Forgotten, HandlesOf
      <3>2. /\ left[SessionOf[c]] \in Nat
            /\ left[SessionOf[c]] <= 1 /\ left[SessionOf[c]] # 1
        BY <3>1 DEF SessionInv, OnLeaveIsFinal, TypeOK
      <3> QED
        BY <3>2
    <2> QED
      BY <2>1, <2>2
  <1>2. \A s \in Session : left'[s] = left[s] + (IF s \in X THEN 1 ELSE 0)
    <2>1. \A s \in Session :
            /\ E(s) \in SUBSET Conn
            /\ \A c, d \in E(s) : c = d
            /\ E(s) # {} <=> s \in X
      BY <1>0 DEF SessionInv, EntriesApart
    <2>2. \A s \in Session : left'[s] = left[s] + Cardinality(E(s))
      BY DEF HandleDeadlines
    <2> HIDE DEF E, X
    <2>3. ASSUME NEW s \in Session
          PROVE  Cardinality(E(s)) = IF s \in X THEN 1 ELSE 0
      <3>1. CASE s \in X
        BY <2>1, <3>1, AtMostOne
      <3>2. CASE s \notin X
        BY <2>1, <3>2, FS_EmptySet
      <3> QED
        BY <3>1, <3>2
    <2> QED
      BY <2>2, <2>3
  <1> HIDE DEF X, E
  <1>3. CurrentIsListed' /\ EntriesApart'
    BY <1>0, RoomAssumption
    DEF SessionInv, CurrentIsListed, EntriesApart, TypeOK
  <1>4. SeatsMatch' /\ JoinUnderWay' /\ ListedHasJoined'
    BY <1>0, RoomAssumption
    DEF SessionInv, SeatsMatch, JoinUnderWay, ListedHasJoined, TypeOK, HandlesOf
  <1>5. HeldSeatHasEntry'
    BY <1>0 DEF SessionInv, HeldSeatHasEntry, HandlesOf, X
  <1>6. OnLeaveIsFinal'
    <2>1. ASSUME NEW s \in Session, s \in X
          PROVE  left'[s] = 1 /\ s \in joined' /\ Forgotten(s)'
      BY <1>0, <1>1, <1>2, <2>1 DEF Forgotten, HandlesOf
    <2>2. ASSUME NEW s \in Session, s \notin X
          PROVE  /\ left'[s] <= 1
                 /\ left'[s] = 1 => s \in joined' /\ Forgotten(s)'
      BY <1>0, <1>2, <2>2
      DEF SessionInv, OnLeaveIsFinal, Forgotten, HandlesOf, TypeOK
    <2> QED
      BY <2>1, <2>2 DEF OnLeaveIsFinal
  <1> QED
    BY <1>3, <1>4, <1>5, <1>6 DEF SessionInv

LEMMA DisposeSession ==
  ASSUME TypeOK, SessionInv, Dispose
  PROVE  SessionInv'
  BY DEF Dispose, history, SessionInv, CurrentIsListed, EntriesApart, SeatsMatch,
         JoinUnderWay, ListedHasJoined, HeldSeatHasEntry, OnLeaveIsFinal,
         Forgotten, HandlesOf, TypeOK

LEMMA StepSession ==
  ASSUME ServerTypeOK, JoinerOK, SessionInv, [Next]_vars
  PROVE  SessionInv'
  <1> USE DEF sessionVars, membership, history
  <1>1. ASSUME NEW c \in Conn, Socket(c)
        PROVE  SessionInv'
    <2>1. UNCHANGED <<phase, joiner, sessionVars>>
      BY <1>1 DEF Socket, Dial, Accepted, Rejected, WriterEnds, GivesUp,
                  SendMessage, SendLeave, StreamEnds, roomVars
    <2> QED
      BY <2>1, QuietStep
  <1>2. CASE Actor
    <2>0. TypeOK
      BY DEF ServerTypeOK
    <2>1. ASSUME NEW c \in Conn, RefuseConnect(c)
          PROVE  SessionInv'
      BY <2>1, QuietStep DEF RefuseConnect, Takes
    <2>2. ASSUME NEW s \in Session, Kick(s)
          PROVE  SessionInv'
      BY <2>2, QuietStep DEF Kick
    <2>3. CASE SeatTimeoutPasses
      BY <2>3, QuietStep DEF SeatTimeoutPasses
    <2>4. CASE Settle \/ DisposeEvent
      BY <2>0, <2>4, QuietStep, DisposeSession DEF Settle, DisposeEvent
    <2> QED
      BY <1>2, <2>0, <2>1, <2>2, <2>3, <2>4, ActorCases, ReconnectSession,
         BeginJoinSession, OnLeaveSession, RoomCodeSession, ReserveSession,
         JoinedSession, DeadlineSession
  <1>3. CASE UNCHANGED vars
    BY <1>3, QuietStep DEF vars, roomVars
  <1> QED
    BY <1>1, <1>2, <1>3 DEF Next

\* The session invariant holds in every run.
LEMMA SessionInvariant == Spec => []SessionInv
  <1>1. Init => ServerTypeOK /\ JoinerOK /\ SessionInv
    BY InitType, InitSession DEF Init, RoomInit, JoinerOK
  <1>2. ServerTypeOK /\ JoinerOK /\ SessionInv /\ [Next]_vars
          => (ServerTypeOK /\ JoinerOK /\ SessionInv)'
    BY StepType, StepJoiner, StepSession
  <1> QED
    BY <1>1, <1>2, PTL DEF Spec

\* on_leave runs at most once per session, only after a join, and leaves
\* nothing behind, whatever drops, reconnects, expiries, kicks, duplicate
\* sockets and removals are interleaved (leave_client, handle_deadlines).
THEOREM LeaveIsFinal == Spec => []OnLeaveIsFinal
  <1>1. SessionInv => OnLeaveIsFinal
    BY DEF SessionInv
  <1> QED
    BY <1>1, SessionInvariant, PTL

\* A seat held for reconnection is never left without the entry whose use or
\* expiry frees it (allow_reconnection, on_connect, handle_deadlines).
THEOREM HeldSeatIsFreed == Spec => []HeldSeatHasEntry
  <1>1. SessionInv => HeldSeatHasEntry
    BY DEF SessionInv
  <1> QED
    BY <1>1, SessionInvariant, PTL

-----------------------------------------------------------------------------
(* The listing.                                                            *)

\* The listing also agrees when the actor is about to check for disposal; it
\* may only lag while on_join runs.
ListingInv ==
  /\ phase # "stopped" => listing.listed
  /\ phase \in {"idle", "settle"} =>
       listing.locked = locked /\ listing.clients = ListingClientCount

\* A step that publishes makes it agree ...
LEMMA Publishes ==
  ASSUME TypeOK, ListingInv, phase # "stopped", SyncListing
  PROVE  ListingInv'
  BY DEF SyncListing, ListingInv

\* ... and one that changes nothing it shows leaves it so.
LEMMA NothingToPublish ==
  ASSUME ListingInv, UNCHANGED <<clients, PendingSeats, locked, listing>>,
         \/ phase \in {"idle", "settle"} /\ phase' # "stopped"
         \/ phase' \in {"joining", "stopped"} /\ (phase = "stopped" => phase' = "stopped")
         \/ UNCHANGED phase
  PROVE  ListingInv'
  BY DEF ListingInv, ListingClientCount

LEMMA StepListing ==
  ASSUME ServerTypeOK, JoinerOK, SessionInv, ListingInv, [Next]_vars
  PROVE  ListingInv'
  <1> USE DEF membership, settings, PendingSeats
  <1>0. TypeOK
    BY DEF ServerTypeOK
  <1>1. ASSUME NEW c \in Conn, Socket(c)
        PROVE  ListingInv'
    <2>1. UNCHANGED <<phase, clients, reserved_seats, locked, listing>>
      BY <1>1 DEF Socket, Dial, Accepted, Rejected, WriterEnds, GivesUp,
                  SendMessage, SendLeave, StreamEnds, roomVars
    <2> QED
      BY <2>1, NothingToPublish
  <1>2. CASE Actor
    <2>1. ASSUME NEW c \in Conn, Reconnect(c) \/ RefuseConnect(c) \/ BeginJoin(c)
          PROVE  ListingInv'
      <3>1. CASE Reconnect(c)
        BY <1>0, <3>1, Publishes DEF Reconnect, Takes
      <3>2. CASE RefuseConnect(c)
        BY <3>2, NothingToPublish DEF RefuseConnect, Takes
      <3>3. CASE BeginJoin(c)
        BY <3>3 DEF BeginJoin, Takes, ListingInv
      <3> QED
        BY <2>1, <3>1, <3>2, <3>3
    <2>2. ASSUME NEW c \in Conn, NEW e, OnLeave(c, e)
          PROVE  ListingInv'
      <3> USE <2>2 DEF OnLeave, Takes
      <3>1. CASE LeaveForGood(c, e = "leave")
        BY <1>0, <3>1, Publishes DEF LeaveForGood
      <3>2. ASSUME NEW untimed \in BOOLEAN, IsCurrent(c), HoldSeat(c, untimed)
            PROVE  ListingInv'
        <4>1. SessionOf[c] \in Session /\ current[SessionOf[c]] # NoConn
          BY <3>2, RoomAssumption DEF IsCurrent
        <4>2. UNCHANGED PendingSeats
          BY <1>0, <3>2, <4>1 DEF HoldSeat, SessionInv, SeatsMatch, TypeOK
        <4> QED
          BY <3>2, <4>2, NothingToPublish DEF HoldSeat
      <3>3. CASE UNCHANGED <<membership, listing>>
        BY <3>3, NothingToPublish
      <3> QED
        BY <3>1, <3>2, <3>3 DEF LeaveClient
    <2>3. CASE RoomCode \/ \E c \in Conn : OnMessage(c)
      <3>0. phase = "idle" /\ phase' = "settle"
        BY <2>3 DEF RoomCode, OnMessage, Takes
      <3>1. CASE SetLocked \/ \E s \in Session : RemoveClient(s)
        BY <1>0, <3>0, <3>1, Publishes DEF SetLocked, RemoveClient
      <3>2. CASE UNCHANGED <<membership, locked, listing>>
        BY <3>0, <3>2, NothingToPublish
      <3> QED
        BY <2>3, <3>1, <3>2 DEF RoomCode, OnMessage, RunHandler, Disconnect
    <2>4. ASSUME NEW s \in Session, ReserveSeat(s) \/ Kick(s)
          PROVE  ListingInv'
      BY <1>0, <2>4, Publishes, NothingToPublish DEF ReserveSeat, Kick
    <2>5. CASE JoinSucceeds \/ JoinFails
      BY <1>0, <2>5, Publishes DEF JoinSucceeds, JoinFails
    <2>6. ASSUME NEW T \in SUBSET TimedEntries, NEW S \in SUBSET PendingSeats,
                 HandleDeadlines(T, S)
          PROVE  ListingInv'
      BY <1>0, <2>6, Publishes DEF HandleDeadlines
    <2>7. CASE SeatTimeoutPasses
      BY <2>7, NothingToPublish DEF SeatTimeoutPasses
    <2>8. CASE Settle \/ DisposeEvent
      <3>1. CASE Dispose
        BY <3>1 DEF Dispose, ListingInv
      <3>2. CASE phase' = "idle" /\ phase = "settle"
                 /\ UNCHANGED <<membership, settings, listing>>
        BY <3>2, NothingToPublish
      <3> QED
        BY <2>8, <3>1, <3>2 DEF Settle, DisposeEvent
    <2> QED
      BY <1>2, <2>1, <2>2, <2>3, <2>4, <2>5, <2>6, <2>7, <2>8, ActorCases
  <1>3. CASE UNCHANGED vars
    BY <1>3, NothingToPublish DEF vars, roomVars
  <1> QED
    BY <1>1, <1>2, <1>3 DEF Next

\* Whenever the actor waits for an event, matchmaking finds in the driver the
\* room's lock and its number of clients and unclaimed seats (sync_listing).
THEOREM ListingIsCurrent == Spec => []ListingAgrees
  <1>1. Init => ServerTypeOK /\ JoinerOK /\ SessionInv /\ ListingInv
    <2>1. ASSUME Init PROVE ListingInv
      <3>1. clients = {} /\ PendingSeats = {}
        BY <2>1 DEF Init, RoomInit, PendingSeats
      <3>2. ListingClientCount = 0
        BY <3>1, FS_EmptySet DEF ListingClientCount
      <3> QED
        BY <2>1, <3>2 DEF Init, RoomInit, ListingInv
    <2> QED
      BY <2>1, InitType, InitSession DEF Init, RoomInit, JoinerOK
  <1>2. ServerTypeOK /\ JoinerOK /\ SessionInv /\ ListingInv /\ [Next]_vars
          => (ServerTypeOK /\ JoinerOK /\ SessionInv /\ ListingInv)'
    BY StepType, StepJoiner, StepSession, StepListing
  <1>3. ListingInv => ListingAgrees
    BY DEF ListingInv, ListingAgrees, ListingClientCount, PendingSeats
  <1> QED
    BY <1>1, <1>2, <1>3, PTL DEF Spec
=============================================================================
