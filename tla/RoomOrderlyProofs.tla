--------------------------- MODULE RoomOrderlyProofs ---------------------------
(***************************************************************************)
(* Proofs about the connections of a room, for every set of sessions and   *)
(* connections.  Whatever happens, a reconnection token is used once and   *)
(* a connection that was replaced changes nothing.  If a session is not    *)
(* dialled twice without its token, the client list has one handle per     *)
(* session, the room is never overfull and it implements SessionLifecycle. *)
(* If moreover nobody is kicked, a seat is held exactly for those that are *)
(* away, and if no answer comes late, nobody else who is gone is listed.   *)
(*                                                                         *)
(* Each part has its own inductive invariant on top of SessionInv.         *)
(***************************************************************************)
EXTENDS RoomProofs

\* What RoomProofs knows of every state.
RoomInv == ServerTypeOK /\ JoinerOK /\ SessionInv

LEMMA RoomInvHolds ==
  /\ Init => RoomInv
  /\ RoomInv /\ [Next]_vars => RoomInv'
  BY InitType, InitSession, StepType, StepJoiner, StepSession DEF Init, RoomInit, JoinerOK, RoomInv

-----------------------------------------------------------------------------
(* Events and answers.                                                     *)

\* Connection c has sent Connect and the room has not taken it.
Knocks(c) == \E i \in DOMAIN mailbox[c] : mailbox[c][i] = "connect"

\* What a connection says besides: its socket is open, and closes with the last.
Words == {<<"data">>, <<"leave", "disconnected">>, <<"disconnected">>}

\* A step of a socket task is its own.
OwnSocket(c) ==
  /\ UNCHANGED <<phase, joiner, membership, settings, reply, listing, history>>
  /\ \A d \in Conn : d # c =>
       sock'[d] = sock[d] /\ token'[d] = token[d] /\ mailbox'[d] = mailbox[d] /\ state'[d] = state[d]

\* It dials; it speaks; or it goes on without a word.
Dials(c, t) ==
  /\ MayDial(c, t) /\ phase # "stopped"
  /\ sock[c] = "idle" /\ sock'[c] = "waiting" /\ token'[c] = t /\ state'[c] = state[c]
  /\ mailbox'[c] = mailbox[c] \o <<"connect">>
Speaks(c) ==
  /\ sock[c] = "open" /\ token'[c] = token[c] /\ state'[c] = state[c]
  /\ \/ \E w \in Words : mailbox'[c] = mailbox[c] \o w /\ phase # "stopped"
                         /\ IF w = <<"data">> THEN sock'[c] = "open" /\ mailbox[c] = <<>>
                                              ELSE sock'[c] = "closed"
     \/ mailbox'[c] = mailbox[c] /\ phase = "stopped" /\ sock'[c] \in {"open", "closed"}
GoesOn(c) ==
  /\ token'[c] = token[c] /\ mailbox'[c] = mailbox[c]
  /\ \/ sock[c] = "waiting" /\ reply[c] = "ok" /\ sock'[c] = "open" /\ state'[c] = state[c]
     \/ sock[c] = "waiting" /\ reply[c] = "err" /\ sock'[c] = "rejected" /\ state'[c] = state[c]
     \/ sock[c] = "rejected" /\ sock'[c] = "closed" /\ state'[c] = state[c]
     \/ sock[c] = "waiting" /\ reply[c] = "none" /\ NoAnswerComes /\ sock'[c] = "closed"
        /\ state'[c] = "Leaving"

LEMMA SocketCases ==
  ASSUME ServerTypeOK, NEW c \in Conn, Socket(c)
  PROVE  /\ OwnSocket(c)
         /\ (\E t \in Conn \cup {NoConn} : Dials(c, t)) \/ Speaks(c) \/ GoesOn(c)
  <1> USE DEF ServerTypeOK, TypeOK, Goes, Sends, OwnSocket
  <1>1. ASSUME NEW t \in Conn \cup {NoConn}, Dial(c, t)
        PROVE  OwnSocket(c) /\ Dials(c, t)
    BY <1>1 DEF Dial, Dials
  <1>2. CASE Accepted(c) \/ Rejected(c) \/ WriterEnds(c)
    BY <1>2 DEF Accepted, Rejected, WriterEnds, GoesOn, roomVars
  <1>3. CASE GivesUp(c)
    BY <1>3 DEF GivesUp, GoesOn
  <1>4. CASE SendMessage(c)
    BY <1>4 DEF SendMessage, Speaks, Words
  <1>5. CASE SendLeave(c)
    BY <1>5 DEF SendLeave, Speaks, Words
  <1>6. CASE StreamEnds(c)
    BY <1>6 DEF StreamEnds, Speaks, Words
  <1> QED
    BY <1>1, <1>2, <1>3, <1>4, <1>5, <1>6 DEF Socket

\* What is in a mailbox when something was appended to it.
LEMMA MailGrows ==
  ASSUME NEW q \in Seq(Event), NEW w \in Words \cup {<<"connect">>}
  PROVE  /\ \A i \in DOMAIN q : i \in DOMAIN (q \o w) /\ (q \o w)[i] = q[i]
         /\ \A i \in DOMAIN (q \o w) : \/ i \in DOMAIN q /\ (q \o w)[i] = q[i]
                                       \/ i \notin DOMAIN q /\ \E k \in DOMAIN w : (q \o w)[i] = w[k]
         /\ q \o w # <<>>
         /\ (q \o w)[Len(q \o w)] = w[Len(w)]
         /\ q = <<>> => q \o w = w
  <1>1. w \in Seq(Event) /\ Len(w) \in {1, 2}
    <2>1. CASE w = <<"leave", "disconnected">>
      BY <2>1 DEF Event
    <2>2. CASE w = <<"data">>
      BY <2>2 DEF Event
    <2>3. CASE w = <<"disconnected">>
      BY <2>3 DEF Event
    <2>4. CASE w = <<"connect">>
      BY <2>4 DEF Event
    <2> QED
      BY <2>1, <2>2, <2>3, <2>4 DEF Words
  <1>2. /\ q \o w \in Seq(Event) /\ Len(q \o w) = Len(q) + Len(w)
        /\ \A i \in 1 .. Len(q \o w) : (q \o w)[i] = IF i <= Len(q) THEN q[i] ELSE w[i - Len(q)]
    BY <1>1
  <1>3. DOMAIN q = 1 .. Len(q) /\ DOMAIN w = 1 .. Len(w) /\ DOMAIN (q \o w) = 1 .. Len(q \o w)
    BY <1>1, <1>2
  <1>4. Len(q) \in Nat
    OBVIOUS
  <1>5. \A i \in DOMAIN (q \o w) : i \notin DOMAIN q => i - Len(q) \in DOMAIN w /\ (q \o w)[i] = w[i - Len(q)]
    BY <1>1, <1>2, <1>3, <1>4
  <1>6. \A i \in DOMAIN q : i \in DOMAIN (q \o w) /\ (q \o w)[i] = q[i]
    BY <1>1, <1>2, <1>3, <1>4
  <1>7. q \o w # <<>> /\ (q \o w)[Len(q \o w)] = w[Len(w)]
    BY <1>1, <1>2, <1>3, <1>4
  <1>8. q = <<>> => q \o w = w
    BY <1>1
  <1> QED
    BY <1>5, <1>6, <1>7, <1>8

\* What is left in it when the first event was taken.
LEMMA MailShrinks ==
  ASSUME TypeOK, NEW c \in Conn, NEW e, Takes(c, e)
  PROVE  /\ \A d \in Conn : d # c => mailbox'[d] = mailbox[d]
         /\ mailbox'[c] = Tail(mailbox[c]) /\ phase = "idle"
         /\ 1 \in DOMAIN mailbox[c] /\ mailbox[c][1] = e /\ e \in Event
         /\ Len(mailbox[c]) \in Nat \ {0} /\ Len(mailbox'[c]) = Len(mailbox[c]) - 1
         /\ DOMAIN mailbox'[c] = 1 .. Len(mailbox'[c]) /\ DOMAIN mailbox[c] = 1 .. Len(mailbox[c])
         /\ \A i \in DOMAIN mailbox'[c] :
              i \in Nat /\ i + 1 \in DOMAIN mailbox[c] /\ mailbox'[c][i] = mailbox[c][i + 1]
  <1>1. mailbox[c] \in Seq(Event) /\ mailbox[c] # <<>> /\ mailbox'[c] = Tail(mailbox[c])
        /\ Head(mailbox[c]) = e
    BY DEF Takes, TypeOK
  <1> QED
    BY <1>1 DEF Takes, TypeOK

-----------------------------------------------------------------------------
(* A token is used once.                                                   *)

\* Before it dials a connection has done nothing; it knocks once, before it is
\* answered; the token it carries was given to a connection of its session.
TalkInv ==
  /\ \A c \in Conn : sock[c] = "idle" => mailbox[c] = <<>> /\ reply[c] = "none" /\ token[c] = NoConn
  /\ \A c \in Conn : token[c] # NoConn => reply[token[c]] = "ok" /\ SessionOf[token[c]] = SessionOf[c]
  /\ \A c \in Conn : \A i \in DOMAIN mailbox[c] : mailbox[c][i] = "connect" => i = 1 /\ reply[c] = "none"

\* Who joins has not been answered, everyone else that is listed or may come
\* back has been accepted.
KnownInv ==
  /\ phase = "joining" => /\ reply[joiner] = "none" /\ sock[joiner] # "idle"
                          /\ ~Knocks(joiner) /\ token[joiner] = NoConn
  /\ \A c \in clients : reply[c] = "ok" \/ (phase = "joining" /\ joiner = c)
  /\ \A c \in reconnections : reply[c] = "ok"

\* The token of a connection that was accepted with it is that of a handle which
\* is in no entry, and will not be as it is not the session's any more.
SpentInv ==
  \A c \in Conn : reply[c] = "ok" /\ token[c] # NoConn =>
    token[c] \notin reconnections /\ current[SessionOf[c]] # token[c]

TokenInv == TalkInv /\ KnownInv /\ SpentInv /\ TokenUsedOnce

\* Who has been taken out of a mailbox does not knock any more.
LEMMA KnockTaken ==
  ASSUME TypeOK, TalkInv, NEW c \in Conn, NEW e, Takes(c, e)
  PROVE  /\ ~Knocks(c)'
         /\ e = "connect" => reply[c] = "none"
         /\ sock[c] # "idle"
  <1>1. \A i \in DOMAIN mailbox'[c] : mailbox'[c][i] # "connect"
    BY MailShrinks DEF TalkInv
  <1>2. e = "connect" => reply[c] = "none"
    BY MailShrinks DEF TalkInv
  <1>3. sock[c] # "idle"
    BY DEF Takes, TalkInv
  <1> QED
    BY <1>1, <1>2, <1>3 DEF Knocks

\* A step of the actor answers only who has knocked.
LEMMA AnswersTalk ==
  ASSUME TypeOK, TalkInv, UNCHANGED <<token, sock>>,
         \A d \in Conn : reply'[d] = reply[d] \/ (reply[d] = "none" /\ ~Knocks(d)' /\ sock[d] # "idle"),
         \A d \in Conn : \/ mailbox'[d] = mailbox[d] \/ mailbox'[d] = <<>>
                         \/ ~Knocks(d)' /\ sock[d] # "idle"
  PROVE  TalkInv'
  <1>1. \A c \in Conn : sock[c] = "idle" => mailbox'[c] = <<>> /\ reply'[c] = "none" /\ token[c] = NoConn
    BY DEF TalkInv
  <1>2. \A c \in Conn : token[c] # NoConn => reply'[token[c]] = "ok" /\ SessionOf[token[c]] = SessionOf[c]
    BY DEF TalkInv, TypeOK
  <1>3. ASSUME NEW c \in Conn, NEW i \in DOMAIN mailbox'[c], mailbox'[c][i] = "connect"
        PROVE  i = 1 /\ reply'[c] = "none"
    <2>1. Knocks(c)' /\ mailbox'[c] # <<>>
      BY <1>3 DEF Knocks
    <2> QED
      BY <1>3, <2>1 DEF TalkInv
  <1> QED
    BY <1>1, <1>2, <1>3 DEF TalkInv

LEMMA SocketTokens ==
  ASSUME RoomInv, TokenInv, NEW c \in Conn, Socket(c)
  PROVE  TokenInv'
  <1>0. OwnSocket(c) /\ ServerTypeOK /\ TypeOK
    BY SocketCases DEF RoomInv, ServerTypeOK
  <1>1. ASSUME NEW t \in Conn \cup {NoConn}, Dials(c, t)
        PROVE  TokenInv'
    <2>1. mailbox[c] = <<>> /\ reply[c] = "none" /\ sock[c] = "idle"
      BY <1>1 DEF Dials, TokenInv, TalkInv
    <2>2. mailbox'[c] = <<"connect">>
      BY <1>1, <2>1 DEF Dials
    <2>3. \A i \in DOMAIN mailbox'[c] : i = 1
      BY <2>2
    <2>4. t # NoConn => reply[t] = "ok" /\ SessionOf[t] = SessionOf[c]
      BY <1>1 DEF Dials, MayDial
    <2>5. TalkInv'
      BY <1>0, <1>1, <2>1, <2>3, <2>4 DEF OwnSocket, Dials, TokenInv, TalkInv
    <2>6. KnownInv'
      <3>1. phase = "joining" => joiner # c /\ joiner \in Conn
        BY <2>1 DEF TokenInv, KnownInv, RoomInv, JoinerOK
      <3> QED
        BY <1>0, <3>1 DEF OwnSocket, membership, TokenInv, KnownInv, Knocks
    <2>7. SpentInv'
      BY <1>0, <2>1 DEF OwnSocket, membership, TokenInv, SpentInv
    <2>8. TokenUsedOnce'
      BY <1>0, <2>1 DEF OwnSocket, TokenInv, TokenUsedOnce
    <2> QED
      BY <2>5, <2>6, <2>7, <2>8 DEF TokenInv
  <1>2. CASE Speaks(c) \/ GoesOn(c)
    <2>1. sock[c] # "idle" /\ sock'[c] # "idle" /\ token'[c] = token[c]
      BY <1>2 DEF Speaks, GoesOn
    <2>2. \A i \in DOMAIN mailbox'[c] : mailbox'[c][i] = "connect" =>
            i \in DOMAIN mailbox[c] /\ mailbox[c][i] = "connect"
      <3>1. CASE mailbox'[c] = mailbox[c]
        BY <3>1
      <3>2. ASSUME NEW w \in Words, mailbox'[c] = mailbox[c] \o w
            PROVE  \A i \in DOMAIN mailbox'[c] : mailbox'[c][i] = "connect" =>
                     i \in DOMAIN mailbox[c] /\ mailbox[c][i] = "connect"
        <4>1. mailbox[c] \in Seq(Event)
          BY <1>0 DEF TypeOK
        <4>2. \A k \in DOMAIN w : w[k] # "connect"
          BY DEF Words
        <4> QED
          BY <3>2, <4>1, <4>2, MailGrows
      <3> QED
        BY <1>2, <3>1, <3>2 DEF Speaks, GoesOn
    <2>3. TalkInv'
      BY <1>0, <2>1, <2>2 DEF OwnSocket, TokenInv, TalkInv
    <2>4. KnownInv'
      <3>1. \A d \in Conn : Knocks(d)' => Knocks(d)
        BY <1>0, <2>2 DEF OwnSocket, Knocks
      <3> QED
        BY <1>0, <2>1, <3>1 DEF OwnSocket, membership, TokenInv, KnownInv, RoomInv, JoinerOK
    <2>5. SpentInv' /\ TokenUsedOnce'
      BY <1>0, <2>1 DEF OwnSocket, membership, TokenInv, SpentInv, TokenUsedOnce
    <2> QED
      BY <2>3, <2>4, <2>5 DEF TokenInv
  <1> QED
    BY <1>0, <1>1, <1>2, SocketCases

\* Steps that take an event, or none, and let nobody in.
LEMMA QuietTokens ==
  ASSUME RoomInv, TokenInv, UNCHANGED <<token, sock, reply>>, phase' # "joining",
         phase # "joining",
         mailbox' = mailbox \/ (\E c \in Conn, e \in Event : Takes(c, e))
           \/ \A c \in Conn : mailbox'[c] = <<>>,
         clients' \subseteq clients,
         \A t \in reconnections' : t \in reconnections \/ (t \in Conn /\ IsCurrent(t)),
         \A s \in Session : current'[s] \in {current[s], NoConn}
  PROVE  TokenInv'
  <1>0. TypeOK
    BY DEF RoomInv, ServerTypeOK
  <1>1. TalkInv'
    <2>1. \A d \in Conn : \/ mailbox'[d] = mailbox[d] \/ mailbox'[d] = <<>>
                          \/ ~Knocks(d)' /\ sock[d] # "idle"
      BY <1>0, MailShrinks, KnockTaken DEF TokenInv
    <2> QED
      BY <1>0, <2>1, AnswersTalk DEF TokenInv
  <1>2. \A t \in Conn : IsCurrent(t) => t \in clients /\ SessionOf[t] \in Session
    BY <1>0, RoomAssumption DEF IsCurrent, RoomInv, SessionInv, CurrentIsListed
  <1>3. KnownInv'
    BY <1>2 DEF TokenInv, KnownInv
  <1>4. SpentInv'
    <2> SUFFICES ASSUME NEW c \in Conn, reply[c] = "ok", token[c] # NoConn
                 PROVE  token[c] \notin reconnections' /\ current'[SessionOf[c]] # token[c]
      BY DEF SpentInv
    <2>1. token[c] \notin reconnections /\ current[SessionOf[c]] # token[c]
          /\ SessionOf[token[c]] = SessionOf[c] /\ SessionOf[c] \in Session
      BY RoomAssumption DEF TokenInv, SpentInv, TalkInv
    <2> QED
      BY <2>1 DEF IsCurrent
  <1> QED
    BY <1>1, <1>3, <1>4 DEF TokenInv, TokenUsedOnce

LEMMA ReconnectTokens ==
  ASSUME RoomInv, TokenInv, NEW c \in Conn, Reconnect(c), UNCHANGED sock
  PROVE  TokenInv'
  <1>0. TypeOK /\ Takes(c, "connect") /\ phase = "idle" /\ phase' = "settle"
    BY DEF RoomInv, ServerTypeOK, Reconnect, Takes
  <1>1. ~Knocks(c)' /\ reply[c] = "none" /\ sock[c] # "idle"
    BY <1>0, KnockTaken DEF TokenInv
  <1>2. reply'[c] = "ok" /\ (\A d \in Conn : d # c => reply'[d] = reply[d]) /\ token' = token
    BY <1>0 DEF Reconnect, TypeOK
  <1>3. TalkInv'
    BY <1>0, <1>1, <1>2, MailShrinks, AnswersTalk DEF TokenInv
  <1>4. KnownInv'
    BY <1>0, <1>2 DEF Reconnect, SpendToken, Relisted, TokenInv, KnownInv, TypeOK
  <1>5. SpentInv'
    <2> SUFFICES ASSUME NEW d \in Conn, reply'[d] = "ok", token[d] # NoConn
                 PROVE  token[d] \notin reconnections' /\ current'[SessionOf[d]] # token[d]
      BY <1>2 DEF SpentInv
    <2>1. /\ token[c] \in reconnections /\ reconnections' = reconnections \ {token[c]}
          /\ current' = [current EXCEPT ![SessionOf[c]] = c]
      BY DEF Reconnect, SpendToken, TokenValid
    <2>2. token[d] # c
      BY <1>1 DEF TokenInv, TalkInv
    <2>3. CASE d = c
      BY <1>0, <2>1, <2>2, <2>3, RoomAssumption DEF TypeOK
    <2>4. CASE d # c
      <3>1. token[d] \notin reconnections /\ current[SessionOf[d]] # token[d]
        BY <1>2, <2>4 DEF TokenInv, SpentInv
      <3> QED
        BY <1>0, <2>1, <2>2, <3>1, RoomAssumption DEF TypeOK
    <2> QED
      BY <2>3, <2>4
  <1>6. TokenUsedOnce'
    <2>1. \A d \in Conn : reply[d] = "ok" /\ token[d] # NoConn => token[d] # token[c]
      BY DEF Reconnect, TokenValid, TokenInv, SpentInv
    <2> QED
      BY <1>2, <2>1 DEF TokenInv, TokenUsedOnce
  <1> QED
    BY <1>3, <1>4, <1>5, <1>6 DEF TokenInv

LEMMA BeginJoinTokens ==
  ASSUME RoomInv, TokenInv, NEW c \in Conn, BeginJoin(c), UNCHANGED sock
  PROVE  TokenInv'
  <1>0. TypeOK /\ Takes(c, "connect") /\ phase = "idle" /\ phase' = "joining" /\ joiner' = c
        /\ UNCHANGED <<token, reply>>
    BY DEF RoomInv, ServerTypeOK, BeginJoin, Takes
  <1>1. ~Knocks(c)' /\ reply[c] = "none" /\ sock[c] # "idle"
    BY <1>0, KnockTaken DEF TokenInv
  <1>2. TalkInv'
    BY <1>0, <1>1, MailShrinks, AnswersTalk DEF TokenInv
  <1>3. KnownInv'
    BY <1>0, <1>1 DEF BeginJoin, TokenInv, KnownInv
  <1>4. SpentInv'
    <2>1. \A d \in Conn : token[d] # c
      BY <1>1, RoomAssumption DEF TokenInv, TalkInv
    <2>2. \A s \in Session : current'[s] \in {current[s], c}
      BY <1>0 DEF BeginJoin, TypeOK
    <2> QED
      BY <1>0, <2>1, <2>2, RoomAssumption DEF BeginJoin, TokenInv, SpentInv
  <1> QED
    BY <1>0, <1>2, <1>3, <1>4 DEF TokenInv, TokenUsedOnce

LEMMA JoinedTokens ==
  ASSUME RoomInv, TokenInv, JoinSucceeds \/ JoinFails, UNCHANGED sock
  PROVE  TokenInv'
  <1> DEFINE c == joiner
  <1>0. /\ TypeOK /\ c \in Conn /\ phase = "joining" /\ phase' = "settle"
        /\ UNCHANGED <<token, mailbox, reconnections>>
    BY DEF RoomInv, ServerTypeOK, JoinerOK, JoinSucceeds, JoinFails
  <1>1. /\ reply[c] = "none" /\ sock[c] # "idle" /\ ~Knocks(c)
        /\ \A d \in Conn : d # c => reply'[d] = reply[d]
        /\ reply'[c] = IF JoinSucceeds THEN "ok" ELSE "err"
    BY <1>0 DEF TokenInv, KnownInv, JoinSucceeds, JoinFails, TypeOK
  <1>2. TalkInv'
    BY <1>0, <1>1, AnswersTalk DEF TokenInv, Knocks
  <1>3. KnownInv'
    <2>1. \A t \in reconnections : reply'[t] = "ok"
      BY <1>0, <1>1 DEF TokenInv, KnownInv, TypeOK
    <2>2. \A d \in clients' : d \in clients /\ (d # c \/ JoinSucceeds)
      BY <1>0 DEF JoinSucceeds, JoinFails, RetainOthers
    <2>3. \A d \in clients' : reply'[d] = "ok"
      <3> TAKE d \in clients'
      <3>1. d \in clients /\ d \in Conn
        BY <1>0, <2>2 DEF TypeOK
      <3>2. CASE d = c
        BY <1>1, <2>2, <3>2
      <3>3. CASE d # c
        BY <1>0, <1>1, <3>1, <3>3 DEF TokenInv, KnownInv
      <3> QED
        BY <3>2, <3>3
    <2> QED
      BY <1>0, <2>1, <2>3 DEF KnownInv
  <1>4. SpentInv'
    <2> SUFFICES ASSUME NEW d \in Conn, reply'[d] = "ok", token[d] # NoConn
                 PROVE  token[d] \notin reconnections /\ current'[SessionOf[d]] # token[d]
      BY <1>0 DEF SpentInv
    <2>1. \A s \in Session : current'[s] \in {current[s], NoConn}
      BY <1>0 DEF JoinSucceeds, JoinFails, RetainOthers, TypeOK
    <2>2. d # c
      BY <1>0 DEF TokenInv, KnownInv
    <2>3. token[d] \notin reconnections /\ current[SessionOf[d]] # token[d]
          /\ SessionOf[d] \in Session
      BY <1>1, <2>2, RoomAssumption DEF TokenInv, SpentInv
    <2> QED
      BY <2>1, <2>3
  <1>5. TokenUsedOnce'
    <2>1. token[c] = NoConn
      BY <1>0 DEF TokenInv, KnownInv
    <2> QED
      BY <1>0, <1>1, <2>1 DEF TokenInv, TokenUsedOnce
  <1> QED
    BY <1>2, <1>3, <1>4, <1>5 DEF TokenInv

LEMMA RefusedTokens ==
  ASSUME RoomInv, TokenInv, NEW c \in Conn, RefuseConnect(c), UNCHANGED sock
  PROVE  TokenInv'
  <1>0. TypeOK /\ Takes(c, "connect") /\ phase = "idle" /\ phase' = "settle"
        /\ UNCHANGED <<token, clients, current, reconnections>>
    BY DEF RoomInv, ServerTypeOK, RefuseConnect, Takes, membership
  <1>1. ~Knocks(c)' /\ reply[c] = "none" /\ sock[c] # "idle"
    BY <1>0, KnockTaken DEF TokenInv
  <1>2. reply'[c] = "err" /\ \A d \in Conn : d # c => reply'[d] = reply[d]
    BY <1>0 DEF RefuseConnect, TypeOK
  <1>3. TalkInv'
    BY <1>0, <1>1, <1>2, MailShrinks, AnswersTalk DEF TokenInv
  <1>4. KnownInv'
    BY <1>0, <1>1, <1>2 DEF TokenInv, KnownInv, TypeOK
  <1>5. SpentInv' /\ TokenUsedOnce'
    BY <1>0, <1>1, <1>2 DEF TokenInv, SpentInv, TokenUsedOnce
  <1> QED
    BY <1>3, <1>4, <1>5 DEF TokenInv

\* The other steps of the actor: what they may do to the handles.
LEMMA OtherSteps ==
  ASSUME RoomInv, Actor,
         \A c \in Conn : ~Reconnect(c) /\ ~RefuseConnect(c) /\ ~BeginJoin(c),
         ~JoinSucceeds, ~JoinFails
  PROVE  /\ UNCHANGED <<token, reply>> /\ phase \in {"idle", "settle"} /\ phase' # "joining"
         /\ \/ mailbox' = mailbox
            \/ \E c \in Conn, e \in Event \ {"connect"} : Takes(c, e)
            \/ phase' = "stopped" /\ \A c \in Conn : mailbox'[c] = <<>>
         /\ clients' \subseteq clients
         /\ \A t \in reconnections' : t \in reconnections \/ (t \in Conn /\ IsCurrent(t))
         /\ \A s \in Session : current'[s] \in {current[s], NoConn}
  <1> DEFINE Shrinks ==
               /\ clients' \subseteq clients /\ \A s \in Session : current'[s] \in {current[s], NoConn}
  <1>0. TypeOK
    BY DEF RoomInv, ServerTypeOK
  <1>1. \A S : RetainOthers(S) => Shrinks
    BY DEF RetainOthers
  <1>2. UNCHANGED membership => Shrinks /\ reconnections' = reconnections
    BY DEF membership
  <1>3. ASSUME NEW c \in Conn, NEW e \in {"leave", "disconnected"}, OnLeave(c, e)
        PROVE  /\ UNCHANGED <<token, reply>> /\ phase = "idle" /\ phase' = "settle" /\ Takes(c, e) /\ e \in Event
               /\ Shrinks
               /\ \A t \in reconnections' : t \in reconnections \/ (t \in Conn /\ IsCurrent(t))
    <2>1. UNCHANGED <<token, reply>> /\ phase = "idle" /\ phase' = "settle" /\ Takes(c, e) /\ e \in Event
      BY <1>3 DEF OnLeave, Takes, Event
    <2>2. CASE IsCurrent(c) /\ LeaveForGood(c, e = "leave")
      BY <1>1, <2>1, <2>2 DEF LeaveForGood
    <2>3. ASSUME NEW untimed \in BOOLEAN, IsCurrent(c), HoldSeat(c, untimed)
          PROVE  /\ Shrinks
                 /\ \A t \in reconnections' : t \in reconnections \/ (t \in Conn /\ IsCurrent(t))
      BY <2>3 DEF HoldSeat
    <2>4. CASE UNCHANGED membership
      BY <1>2, <2>1, <2>4
    <2> QED
      BY <1>3, <2>1, <2>2, <2>3, <2>4 DEF OnLeave, LeaveClient
  <1>4. ASSUME RunHandler
        PROVE  Shrinks /\ reconnections' \subseteq reconnections
    BY <1>1, <1>2, <1>4 DEF RunHandler, SetLocked, Disconnect, RemoveClient, EntriesWithout
  <1>5. CASE RoomCode
    BY <1>4, <1>5 DEF RoomCode
  <1>6. ASSUME NEW c \in Conn, OnMessage(c)
        PROVE  /\ UNCHANGED <<token, reply>> /\ phase = "idle" /\ phase' = "settle" /\ Takes(c, "data")
               /\ Shrinks /\ reconnections' \subseteq reconnections
    BY <1>2, <1>4, <1>6 DEF OnMessage, Takes
  <1>7. ASSUME NEW s \in Session, ReserveSeat(s) \/ Kick(s)
        PROVE  /\ UNCHANGED <<token, reply, mailbox>> /\ phase = "idle" /\ phase' = "settle"
               /\ Shrinks /\ reconnections' = reconnections
    BY <1>2, <1>7 DEF ReserveSeat, Kick
  <1>8. CASE SeatTimeoutPasses
    BY <1>2, <1>8 DEF SeatTimeoutPasses
  <1>9. ASSUME NEW T \in SUBSET TimedEntries, NEW S \in SUBSET PendingSeats, HandleDeadlines(T, S)
        PROVE  /\ UNCHANGED <<token, reply, mailbox>> /\ phase = "idle" /\ phase' = "settle"
               /\ Shrinks /\ reconnections' \subseteq reconnections
    BY <1>1, <1>9 DEF HandleDeadlines, DropEntries
  <1>10. ASSUME Dispose
         PROVE  /\ UNCHANGED <<token, reply>> /\ phase' = "stopped" /\ Shrinks
                /\ reconnections' = {} /\ \A c \in Conn : mailbox'[c] = <<>>
    BY <1>10 DEF Dispose
  <1>11. CASE Settle
    BY <1>2, <1>10, <1>11 DEF Settle
  <1>12. CASE DisposeEvent
    BY <1>10, <1>12 DEF DisposeEvent
  <1>13. {"data", "leave", "disconnected"} = Event \ {"connect"}
    BY DEF Event
  <1> QED
    BY <1>3, <1>5, <1>6, <1>7, <1>8, <1>9, <1>11, <1>12, <1>13, ActorCases

LEMMA StepTokens ==
  ASSUME RoomInv, TokenInv, [Next]_vars
  PROVE  TokenInv'
  <1>1. CASE Actor /\ UNCHANGED sock
    <2>1. CASE \E c \in Conn : Reconnect(c) \/ RefuseConnect(c) \/ BeginJoin(c)
      BY <1>1, <2>1, ReconnectTokens, RefusedTokens, BeginJoinTokens
    <2>2. CASE JoinSucceeds \/ JoinFails
      BY <1>1, <2>2, JoinedTokens
    <2> QED
      BY <1>1, <2>1, <2>2, OtherSteps, QuietTokens
  <1>2. CASE UNCHANGED vars
    BY <1>2 DEF vars, roomVars, membership, TokenInv, TalkInv, KnownInv, SpentInv, TokenUsedOnce, Knocks
  <1> QED
    BY <1>1, <1>2, SocketTokens DEF Next

LEMMA InitTokens == Init => TokenInv
  BY DEF Init, RoomInit, TokenInv, TalkInv, KnownInv, SpentInv, TokenUsedOnce

LEMMA TokenInvariant == Spec => [](RoomInv /\ TokenInv)
  <1>1. RoomInv /\ TokenInv /\ [Next]_vars => (RoomInv /\ TokenInv)'
    BY RoomInvHolds, StepTokens
  <1> QED
    BY <1>1, RoomInvHolds, InitTokens, PTL DEF Spec

\* However many connections carry the same token, one is let in with it: its
\* entry is used up, and a later drop gives the session another token
\* (on_connect, allow_reconnection).
THEOREM TokensAreUsedOnce == Spec => []TokenUsedOnce
  <1>1. TokenInv => TokenUsedOnce
    BY DEF TokenInv
  <1> QED
    BY <1>1, TokenInvariant, PTL

-----------------------------------------------------------------------------
(* Connections that wait for an answer.                                    *)

\* Its Connect is in the mailbox, or its on_join is running; or the room is
\* gone, and with it the responder.
AnswerIsDue(c) == Knocks(c) \/ (phase = "joining" /\ joiner = c) \/ phase = "stopped"

ConnectIsHeard ==
  \A c \in Conn : sock[c] = "waiting" /\ reply[c] = "none" => AnswerIsDue(c)

LEMMA SocketHeard ==
  ASSUME RoomInv, ConnectIsHeard, NEW c \in Conn, Socket(c)
  PROVE  ConnectIsHeard'
  <1>0. OwnSocket(c) /\ ServerTypeOK /\ TypeOK
    BY SocketCases DEF RoomInv, ServerTypeOK
  <1>1. \A d \in Conn : d # c => Knocks(d)' = Knocks(d)
    BY <1>0 DEF OwnSocket, Knocks
  <1>2. sock'[c] = "waiting" => Knocks(c)'
    <2>1. sock'[c] = "waiting" => mailbox'[c] = mailbox[c] \o <<"connect">>
      BY <1>0, SocketCases DEF Dials, Speaks, GoesOn
    <2>2. mailbox[c] \in Seq(Event) /\ "connect" \in Event
      BY <1>0 DEF TypeOK, Event
    <2>3. \E i \in DOMAIN (mailbox[c] \o <<"connect">>) : (mailbox[c] \o <<"connect">>)[i] = "connect"
      <3>1. Len(mailbox[c]) + 1 \in DOMAIN (mailbox[c] \o <<"connect">>)
            /\ (mailbox[c] \o <<"connect">>)[Len(mailbox[c]) + 1] = "connect"
        BY <2>2
      <3> QED
        BY <3>1
    <2> QED
      BY <2>1, <2>3 DEF Knocks
  <1> QED
    BY <1>0, <1>1, <1>2 DEF OwnSocket, ConnectIsHeard, AnswerIsDue

\* The actor takes a Connect only to answer it or to run on_join, and what
\* else it takes is not one.
LEMMA ActorHeard ==
  ASSUME RoomInv, TokenInv, ConnectIsHeard, Actor, UNCHANGED sock
  PROVE  ConnectIsHeard'
  <1>0. TypeOK
    BY DEF RoomInv, ServerTypeOK
  <1> SUFFICES ASSUME NEW d \in Conn, sock[d] = "waiting", reply'[d] = "none"
               PROVE  AnswerIsDue(d)'
    BY DEF ConnectIsHeard
  <1>1. ASSUME NEW c \in Conn, Reconnect(c) \/ RefuseConnect(c) \/ BeginJoin(c)
        PROVE  AnswerIsDue(d)'
    <2>1. Takes(c, "connect") /\ phase = "idle"
      BY <1>1 DEF Reconnect, RefuseConnect, BeginJoin, Takes
    <2>2. CASE d = c
      BY <1>0, <1>1, <2>2 DEF Reconnect, RefuseConnect, BeginJoin, AnswerIsDue, TypeOK
    <2>3. CASE d # c
      <3>1. reply[d] = "none" /\ mailbox'[d] = mailbox[d]
        BY <1>0, <1>1, <2>1, <2>3, MailShrinks DEF Reconnect, RefuseConnect, BeginJoin, TypeOK
      <3> QED
        BY <2>1, <3>1 DEF ConnectIsHeard, AnswerIsDue, Knocks
    <2> QED
      BY <2>2, <2>3
  <1>2. CASE JoinSucceeds \/ JoinFails
    <2>1. phase = "joining" /\ joiner \in Conn /\ mailbox' = mailbox
      BY <1>2 DEF JoinSucceeds, JoinFails, RoomInv, JoinerOK
    <2>2. d # joiner /\ reply[d] = "none"
      BY <1>0, <1>2, <2>1 DEF JoinSucceeds, JoinFails, TypeOK
    <2> QED
      BY <2>1, <2>2 DEF ConnectIsHeard, AnswerIsDue, Knocks
  <1>3. CASE /\ \A c \in Conn : ~Reconnect(c) /\ ~RefuseConnect(c) /\ ~BeginJoin(c)
             /\ ~JoinSucceeds /\ ~JoinFails
    <2>1. Knocks(d)
      BY <1>3, OtherSteps DEF ConnectIsHeard, AnswerIsDue
    <2>2. ASSUME NEW c \in Conn, NEW e \in Event \ {"connect"}, Takes(c, e)
          PROVE  mailbox'[d] = mailbox[d]
      <3>1. ~Knocks(c)
        BY <1>0, <2>2, MailShrinks DEF Knocks, TokenInv, TalkInv
      <3> QED
        BY <1>0, <2>1, <2>2, <3>1, MailShrinks
    <2>3. mailbox'[d] = mailbox[d] \/ phase' = "stopped"
      BY <1>3, <2>2, OtherSteps
    <2> QED
      BY <2>1, <2>3 DEF AnswerIsDue, Knocks
  <1> QED
    BY <1>1, <1>2, <1>3

\* Whatever happens in the room, a connection that has no answer yet is in the
\* mailbox or at its on_join, unless the room is gone: no handler loses a
\* Connect or leaves its responder without an answer (on_connect, handle_socket).
THEOREM ConnectsAreHeard == Spec => []ConnectIsHeard
  <1>1. Init => ConnectIsHeard
    BY DEF Init, ConnectIsHeard
  <1>2. RoomInv /\ TokenInv /\ ConnectIsHeard /\ [Next]_vars => ConnectIsHeard'
    <2> SUFFICES ASSUME RoomInv, TokenInv, ConnectIsHeard, [Next]_vars
                 PROVE  ConnectIsHeard'
      OBVIOUS
    <2>1. CASE UNCHANGED vars
      BY <2>1 DEF vars, roomVars, ConnectIsHeard, AnswerIsDue, Knocks
    <2> QED
      BY <2>1, SocketHeard, ActorHeard DEF Next
  <1> QED
    BY <1>1, <1>2, TokenInvariant, PTL DEF Spec

-----------------------------------------------------------------------------
(* Connections that were replaced.                                         *)

StaleIsIgnored ==
  \A c \in Conn :
    (/\ Len(mailbox'[c]) < Len(mailbox[c])
     /\ phase' = "settle"
     /\ Head(mailbox[c]) # "connect"
     /\ current[SessionOf[c]] # c)
    => UNCHANGED <<membership, locked, request_dispose, left>>

LEMMA StepStale ==
  ASSUME ServerTypeOK, [Next]_vars
  PROVE  StaleIsIgnored
  <1>0. TypeOK /\ \A c \in Conn : Len(mailbox[c]) \in Nat
    BY DEF ServerTypeOK, TypeOK
  <1> SUFFICES ASSUME NEW c \in Conn,
                      Len(mailbox'[c]) < Len(mailbox[c]), phase' = "settle",
                      Head(mailbox[c]) # "connect", current[SessionOf[c]] # c
               PROVE  UNCHANGED <<membership, locked, request_dispose, left>>
    BY DEF StaleIsIgnored
  <1>1. mailbox'[c] # mailbox[c]
    BY <1>0
  <1>2. ASSUME NEW d \in Conn, NEW e, Takes(d, e)
        PROVE  d = c /\ e # "connect"
    <2>1. mailbox'[c] # mailbox[c] => d = c
      BY <1>0, <1>2, MailShrinks
    <2> QED
      BY <1>1, <1>2, <2>1 DEF Takes
  <1>3. ASSUME NEW d \in Conn, Socket(d)
        PROVE  FALSE
    <2>1. \E w \in Words \cup {<<"connect">>} : mailbox'[c] = mailbox[c] \o w
      BY <1>1, <1>3, SocketCases DEF OwnSocket, Dials, Speaks, GoesOn
    <2>2. PICK w \in Words \cup {<<"connect">>} : mailbox'[c] = mailbox[c] \o w
      BY <2>1
    <2>3. mailbox[c] \in Seq(Event) /\ w \in Seq(Event)
      <3>1. <<"connect">> \in Seq(Event) /\ <<"data">> \in Seq(Event)
            /\ <<"disconnected">> \in Seq(Event) /\ <<"leave", "disconnected">> \in Seq(Event)
        BY DEF Event
      <3> QED
        BY <1>0, <3>1 DEF TypeOK, Words
    <2> QED
      BY <1>0, <2>2, <2>3
  <1>4. CASE Actor
    <2>1. ASSUME NEW d \in Conn, Reconnect(d) \/ RefuseConnect(d) \/ BeginJoin(d)
          PROVE  FALSE
      BY <1>2, <2>1 DEF Reconnect, RefuseConnect, BeginJoin
    <2>2. ASSUME NEW d \in Conn, NEW e, OnLeave(d, e)
          PROVE  UNCHANGED <<membership, locked, request_dispose, left>>
      BY <1>2, <2>2 DEF OnLeave, IsCurrent, settings
    <2>3. ASSUME NEW d \in Conn, OnMessage(d)
          PROVE  UNCHANGED <<membership, locked, request_dispose, left>>
      BY <1>2, <2>3 DEF OnMessage, IsCurrent, history
    <2>4. ~JoinSucceeds /\ ~JoinFails /\ ~SeatTimeoutPasses /\ ~RoomCode
      BY <1>1 DEF JoinSucceeds, JoinFails, SeatTimeoutPasses, RoomCode
    <2>5. \A s \in Session : ~ReserveSeat(s) /\ ~Kick(s)
      BY <1>1 DEF ReserveSeat, Kick
    <2>6. \A T \in SUBSET TimedEntries, S \in SUBSET PendingSeats : ~HandleDeadlines(T, S)
      BY <1>1 DEF HandleDeadlines
    <2>7. ~DisposeEvent /\ ~Settle
      BY DEF DisposeEvent, Settle, Dispose
    <2> QED
      BY <1>4, <2>1, <2>2, <2>3, <2>4, <2>5, <2>6, <2>7, ActorCases
  <1>5. ~UNCHANGED vars
    BY <1>1 DEF vars, roomVars
  <1> QED
    BY <1>3, <1>4, <1>5 DEF Next

\* What a connection that was replaced, or whose session is gone, still had
\* under way changes neither who is in the room nor what room code may set
\* (on_message, on_leave and on_disconnected compare the handles).
THEOREM ReplacedIsIgnored == Spec => StaleConnectionIgnored
  <1>1. RoomInv /\ [Next]_vars => StaleIsIgnored
    BY StepStale DEF RoomInv
  <1>2. StaleConnectionIgnored <=> [][StaleIsIgnored]_vars
    BY DEF StaleConnectionIgnored, StaleIsIgnored
  <1> QED
    BY <1>1, <1>2, RoomInvHolds, PTL DEF Spec

-----------------------------------------------------------------------------
(* What a step does to the membership, whichever handler it is.            *)

\* Nothing; a seat is given; a client is held, leaves or is removed; entries
\* and seats expire; or everything goes with the room.
Still == UNCHANGED <<membership, history>> /\ phase' # "stopped" /\ phase' # "joining"
Drops(c) == IsCurrent(c) /\ c \notin reconnections /\ UNCHANGED history
            /\ \E untimed \in BOOLEAN : HoldSeat(c, untimed)
Leaves(c) == IsCurrent(c) /\ c \notin reconnections /\ UNCHANGED <<issued, joined>>
             /\ \E consented \in BOOLEAN : LeaveForGood(c, consented)
Removes(s) == RemoveClient(s) /\ UNCHANGED history

Between == phase = "idle" /\ phase' = "settle"

MemberStep ==
  \/ Still
  \/ Between /\ \E s \in Session : ReserveSeat(s) \/ Removes(s)
  \/ Between /\ \E c \in Conn : Drops(c) \/ Leaves(c)
  \/ Between /\ \E T \in SUBSET TimedEntries, S \in SUBSET PendingSeats : HandleDeadlines(T, S)
  \/ Dispose

LEMMA MemberCases ==
  ASSUME Actor,
         \A c \in Conn : ~Reconnect(c) /\ ~BeginJoin(c), ~JoinSucceeds, ~JoinFails
  PROVE  MemberStep /\ phase \in {"idle", "settle"}
  <1>1. ASSUME NEW c \in Conn, RefuseConnect(c)
        PROVE  Still /\ phase = "idle"
    BY <1>1 DEF RefuseConnect, Takes, Still
  <1>2. ASSUME NEW c \in Conn, NEW e, OnLeave(c, e)
        PROVE  phase = "idle" /\ (Still \/ (Between /\ (Drops(c) \/ Leaves(c))))
    <2>0. (e = "leave") \in BOOLEAN
      OBVIOUS
    <2> QED
      BY <1>2, <2>0 DEF OnLeave, Takes, LeaveClient, Drops, Leaves, Between, Still, HoldSeat, history
  <1>3. ASSUME RunHandler, UNCHANGED history, Between
        PROVE  Still \/ \E s \in Session : Removes(s)
    BY <1>3 DEF RunHandler, SetLocked, Disconnect, Removes, Between, Still
  <1>4. CASE RoomCode
    BY <1>3, <1>4 DEF RoomCode, Between, MemberStep
  <1>5. ASSUME NEW c \in Conn, OnMessage(c)
        PROVE  phase = "idle" /\ (Still \/ (Between /\ \E s \in Session : Removes(s)))
    BY <1>3, <1>5 DEF OnMessage, Takes, Between, Still
  <1>6. ASSUME NEW s \in Session, Kick(s)
        PROVE  phase = "idle" /\ Still
    BY <1>6 DEF Kick, Still
  <1>7. ASSUME NEW s \in Session, ReserveSeat(s)
        PROVE  Between
    BY <1>7 DEF ReserveSeat, Between
  <1>8. CASE SeatTimeoutPasses
    BY <1>8 DEF SeatTimeoutPasses, Still, MemberStep
  <1>9. ASSUME NEW T \in SUBSET TimedEntries, NEW S \in SUBSET PendingSeats, HandleDeadlines(T, S)
        PROVE  Between
    BY <1>9 DEF HandleDeadlines, Between
  <1>10. CASE Settle \/ DisposeEvent
    BY <1>10 DEF Settle, DisposeEvent, Still, MemberStep
  <1> QED
    BY <1>1, <1>2, <1>4, <1>5, <1>6, <1>7, <1>8, <1>9, <1>10, ActorCases DEF MemberStep, Between

-----------------------------------------------------------------------------
(* A session that is dialled once without its token.                       *)

\* One connection of a session comes without a token, and whoever was let in
\* is that one or came with a token that goes back to it.
OneFirst ==
  \A c, d \in Conn :
    /\ SessionOf[c] = SessionOf[d]
    /\ sock[c] # "idle" /\ sock[d] # "idle"
    /\ token[c] = NoConn /\ token[d] = NoConn
    => c = d
Rooted ==
  \A d \in Conn : reply[d] = "ok" =>
    \E c \in Conn : SessionOf[c] = SessionOf[d] /\ token[c] = NoConn /\ reply[c] = "ok"

\* So a session's entry is that of the handle that is listed, and who joins is
\* its session's only handle.
EntryListed == \A t \in reconnections : current[SessionOf[t]] = t
JoinerAlone == phase = "joining" => current[SessionOf[joiner]] = joiner

OrderlyInv == OneFirst /\ Rooted /\ EntryListed /\ JoinerAlone /\ OneHandlePerSession

LEMMA SocketOrderly ==
  ASSUME ~SecondSockets, RoomInv, TokenInv, OrderlyInv, NEW c \in Conn, Socket(c)
  PROVE  OrderlyInv'
  <1>0. OwnSocket(c)
    BY SocketCases DEF RoomInv
  <1>1. EntryListed' /\ JoinerAlone' /\ OneHandlePerSession'
    BY <1>0 DEF OwnSocket, membership, OrderlyInv, EntryListed, JoinerAlone, OneHandlePerSession
  <1>2. ASSUME NEW t \in Conn \cup {NoConn}, Dials(c, t)
        PROVE  OneFirst' /\ Rooted'
    <2>1. reply[c] = "none" /\ sock[c] = "idle" /\ token[c] = NoConn /\ token'[c] = t
      BY <1>2 DEF Dials, TokenInv, TalkInv
    <2>2. Rooted'
      BY <1>0, <2>1 DEF OwnSocket, OrderlyInv, Rooted
    <2>3. t = NoConn => \A d \in Conn : SessionOf[d] = SessionOf[c] /\ sock[d] # "idle" => token[d] # NoConn
      BY <1>2 DEF Dials, MayDial, HandlesOf
    <2>4. OneFirst'
      BY <1>0, <2>1, <2>3 DEF OwnSocket, OrderlyInv, OneFirst
    <2> QED
      BY <2>2, <2>4
  <1>3. CASE Speaks(c) \/ GoesOn(c)
    <2>1. sock[c] # "idle" /\ sock'[c] # "idle" /\ token'[c] = token[c]
      BY <1>3 DEF Speaks, GoesOn
    <2>2. \A d \in Conn : token'[d] = token[d] /\ (sock[d] = "idle" => sock'[d] = "idle")
                          /\ (sock'[d] = "idle" => sock[d] = "idle")
      BY <1>0, <2>1 DEF OwnSocket
    <2>3. OneFirst'
      BY <2>2 DEF OrderlyInv, OneFirst
    <2>4. Rooted'
      BY <1>0, <2>2 DEF OwnSocket, OrderlyInv, Rooted
    <2> QED
      BY <1>1, <2>3, <2>4 DEF OrderlyInv
  <1> QED
    BY <1>1, <1>2, <1>3, SocketCases DEF OrderlyInv, RoomInv

\* A connection without a token finds nobody of its session.
LEMMA FirstIsAlone ==
  ASSUME RoomInv, TokenInv, OrderlyInv, NEW c \in Conn, BeginJoin(c)
  PROVE  /\ current[SessionOf[c]] = NoConn /\ SessionOf[c] \in Session
         /\ \A d \in clients : SessionOf[d] # SessionOf[c]
         /\ reserved_seats[SessionOf[c]] = "pending"
  <1>0. /\ TypeOK /\ SessionInv /\ SessionOf[c] \in Session /\ reply[c] = "none" /\ sock[c] # "idle"
        /\ phase = "idle" /\ token[c] = NoConn
    BY KnockTaken, RoomAssumption DEF RoomInv, ServerTypeOK, TokenInv, BeginJoin, Takes
  <1>1. \A d \in clients : SessionOf[d] # SessionOf[c]
    <2> SUFFICES ASSUME NEW d \in clients, SessionOf[d] = SessionOf[c] PROVE FALSE
      OBVIOUS
    <2>1. d \in Conn /\ reply[d] = "ok"
      BY <1>0 DEF TypeOK, TokenInv, KnownInv
    <2>2. PICK e \in Conn : SessionOf[e] = SessionOf[d] /\ token[e] = NoConn /\ reply[e] = "ok"
      BY <2>1 DEF OrderlyInv, Rooted
    <2>3. sock[e] # "idle"
      BY <2>2 DEF TokenInv, TalkInv
    <2> QED
      BY <1>0, <2>2, <2>3 DEF OrderlyInv, OneFirst
  <1>2. current[SessionOf[c]] = NoConn
    BY <1>0, <1>1 DEF SessionInv, CurrentIsListed
  <1>3. reserved_seats[SessionOf[c]] = "pending"
    <2>1. reserved_seats[SessionOf[c]] \in {"pending", "waiting"}
      BY <1>0 DEF BeginJoin, TypeOK, Seat
    <2> QED
      BY <1>0, <1>2, <2>1 DEF SessionInv, SeatsMatch
  <1> QED
    BY <1>0, <1>1, <1>2, <1>3

\* Who joins has no entry.
LEMMA JoinerHasNoEntry ==
  ASSUME RoomInv, TokenInv, OrderlyInv, phase = "joining"
  PROVE  /\ joiner \in Conn /\ SessionOf[joiner] \in Session
         /\ \A t \in reconnections : SessionOf[t] # SessionOf[joiner]
  BY RoomAssumption DEF RoomInv, JoinerOK, TokenInv, KnownInv, OrderlyInv, EntryListed, JoinerAlone

LEMMA ConnectOrderly ==
  ASSUME RoomInv, TokenInv, OrderlyInv, UNCHANGED sock,
         \/ \E c \in Conn : Reconnect(c) \/ BeginJoin(c)
         \/ JoinSucceeds \/ JoinFails
  PROVE  OrderlyInv'
  <1>0. TypeOK /\ SessionInv
    BY DEF RoomInv, ServerTypeOK
  <1>1. ASSUME NEW c \in Conn, Reconnect(c)
        PROVE  OrderlyInv'
    <2>1. /\ token[c] \in reconnections /\ SessionOf[token[c]] = SessionOf[c]
          /\ reconnections' = reconnections \ {token[c]}
          /\ current' = [current EXCEPT ![SessionOf[c]] = c] /\ clients' = Relisted(c)
          /\ reply' = [reply EXCEPT ![c] = "ok"] /\ token' = token /\ phase' = "settle"
      BY <1>1 DEF Reconnect, SpendToken, TokenValid
    <2>2. SessionOf[c] \in Session /\ token[c] \in Conn
          /\ current[SessionOf[c]] = token[c] /\ reply[token[c]] = "ok"
      BY <1>0, <2>1, RoomAssumption DEF TypeOK, OrderlyInv, EntryListed, TokenInv, KnownInv
    <2>3. OneFirst'
      BY <2>1 DEF OrderlyInv, OneFirst
    <2>4. Rooted'
      <3>1. PICK e \in Conn : SessionOf[e] = SessionOf[c] /\ token[e] = NoConn /\ reply[e] = "ok"
        BY <2>1, <2>2 DEF OrderlyInv, Rooted
      <3> QED
        BY <1>0, <2>1, <3>1 DEF OrderlyInv, Rooted, TypeOK
    <2>5. EntryListed'
      <3> SUFFICES ASSUME NEW u \in reconnections, u # token[c]
                   PROVE  current'[SessionOf[u]] = u
        BY <2>1 DEF EntryListed
      <3>1. SessionOf[u] # SessionOf[c] /\ current[SessionOf[u]] = u
        BY <1>0, <2>1 DEF SessionInv, EntriesApart, OrderlyInv, EntryListed
      <3> QED
        BY <1>0, <2>1, <3>1 DEF TypeOK
    <2>6. OneHandlePerSession'
      <3>1. \A d \in clients : SessionOf[d] = SessionOf[c] => d = token[c]
        BY <1>0, <2>1, <2>2, RoomAssumption DEF SessionInv, CurrentIsListed, OrderlyInv, OneHandlePerSession
      <3> QED
        BY <2>1, <2>2, <3>1 DEF Relisted, OrderlyInv, OneHandlePerSession
    <2> QED
      BY <2>1, <2>3, <2>4, <2>5, <2>6 DEF OrderlyInv, JoinerAlone
  <1>2. ASSUME NEW c \in Conn, BeginJoin(c)
        PROVE  OrderlyInv'
    <2>1. /\ clients' = clients \cup {c} /\ current' = [current EXCEPT ![SessionOf[c]] = c]
          /\ joiner' = c /\ UNCHANGED <<token, reply, reconnections>>
      BY <1>2, FirstIsAlone DEF BeginJoin
    <2>2. OneFirst' /\ Rooted'
      BY <2>1 DEF OrderlyInv, OneFirst, Rooted
    <2>3. EntryListed' /\ JoinerAlone'
      BY <1>0, <1>2, <2>1, FirstIsAlone, RoomAssumption DEF OrderlyInv, EntryListed, JoinerAlone, TypeOK
    <2>4. OneHandlePerSession'
      BY <1>2, <2>1, FirstIsAlone DEF OrderlyInv, OneHandlePerSession
    <2> QED
      BY <2>2, <2>3, <2>4 DEF OrderlyInv
  <1>3. CASE JoinSucceeds
    <2>1. /\ phase = "joining" /\ phase' = "settle" /\ UNCHANGED <<clients, current, reconnections, token>>
          /\ reply' = [reply EXCEPT ![joiner] = "ok"]
      BY <1>3 DEF JoinSucceeds
    <2>2. joiner \in Conn /\ token[joiner] = NoConn
      BY <2>1 DEF RoomInv, JoinerOK, TokenInv, KnownInv
    <2>3. Rooted'
      BY <1>0, <2>1, <2>2 DEF OrderlyInv, Rooted, TypeOK
    <2> QED
      BY <2>1, <2>3 DEF OrderlyInv, OneFirst, EntryListed, JoinerAlone, OneHandlePerSession
  <1>4. CASE JoinFails
    <2>1. /\ phase = "joining" /\ phase' = "settle" /\ UNCHANGED <<reconnections, token>>
          /\ reply' = [reply EXCEPT ![joiner] = "err"] /\ RetainOthers({SessionOf[joiner]})
      BY <1>4 DEF JoinFails
    <2>2. joiner \in Conn /\ reply[joiner] = "none"
      BY <2>1 DEF RoomInv, JoinerOK, TokenInv, KnownInv
    <2>3. Rooted'
      BY <1>0, <2>1, <2>2 DEF OrderlyInv, Rooted, TypeOK
    <2>4. EntryListed'
      BY <1>0, <2>1, JoinerHasNoEntry, RoomAssumption DEF OrderlyInv, EntryListed, RetainOthers, TypeOK
    <2> QED
      BY <2>1, <2>3, <2>4 DEF OrderlyInv, OneFirst, JoinerAlone, OneHandlePerSession, RetainOthers
  <1> QED
    BY <1>1, <1>2, <1>3, <1>4

\* An entry stays listed when others leave.
LEMMA EntriesStayListed ==
  ASSUME RoomInv, EntryListed, MemberStep
  PROVE  EntryListed'
  <1>0. TypeOK /\ SessionInv
    BY DEF RoomInv, ServerTypeOK
  <1>1. CASE Still
    BY <1>1 DEF Still, membership, EntryListed
  <1>2. ASSUME NEW s \in Session, ReserveSeat(s)
        PROVE  EntryListed'
    BY <1>2 DEF ReserveSeat, EntryListed
  <1>3. ASSUME NEW s \in Session, Removes(s)
        PROVE  EntryListed'
    BY <1>0, <1>3, RoomAssumption
    DEF Removes, RemoveClient, RetainOthers, EntriesWithout, HandlesOf, EntryListed, TypeOK
  <1>4. ASSUME NEW c \in Conn, Drops(c)
        PROVE  EntryListed'
    BY <1>4 DEF Drops, HoldSeat, IsCurrent, EntryListed
  <1>5. ASSUME NEW c \in Conn, Leaves(c)
        PROVE  EntryListed'
    <2>1. /\ reconnections' = reconnections /\ c \notin reconnections /\ current[SessionOf[c]] = c
          /\ current' = [s \in Session |-> IF s \in {SessionOf[c]} THEN NoConn ELSE current[s]]
      BY <1>5 DEF Leaves, LeaveForGood, RetainOthers, IsCurrent
    <2>2. \A u \in reconnections : SessionOf[u] # SessionOf[c] /\ SessionOf[u] \in Session
      BY <1>0, <2>1, RoomAssumption DEF EntryListed, TypeOK
    <2> QED
      BY <2>1, <2>2 DEF EntryListed
  <1>6. ASSUME NEW T \in SUBSET TimedEntries, NEW S \in SUBSET PendingSeats, HandleDeadlines(T, S)
        PROVE  EntryListed'
    <2>1. /\ reconnections' = reconnections \ T /\ T \subseteq reconnections
          /\ current' = [s \in Session |-> IF s \in {SessionOf[c] : c \in T} THEN NoConn ELSE current[s]]
      BY <1>6 DEF HandleDeadlines, DropEntries, RetainOthers, TimedEntries
    <2> SUFFICES ASSUME NEW u \in reconnections, u \notin T
                 PROVE  current'[SessionOf[u]] = u
      BY <2>1 DEF EntryListed
    <2>2. SessionOf[u] \notin {SessionOf[c] : c \in T}
      BY <1>0, <2>1 DEF SessionInv, EntriesApart
    <2>3. SessionOf[u] \in Session
      BY <1>0, RoomAssumption DEF TypeOK
    <2> QED
      BY <2>1, <2>2, <2>3 DEF EntryListed
  <1>7. CASE Dispose
    BY <1>7 DEF Dispose, EntryListed
  <1> QED
    BY <1>1, <1>2, <1>3, <1>4, <1>5, <1>6, <1>7 DEF MemberStep

LEMMA StepOrderly ==
  ASSUME ~SecondSockets, RoomInv, TokenInv, OrderlyInv, [Next]_vars
  PROVE  OrderlyInv'
  <1>1. ASSUME Actor, UNCHANGED sock, \A c \in Conn : ~Reconnect(c) /\ ~BeginJoin(c),
               ~JoinSucceeds, ~JoinFails
        PROVE  OrderlyInv'
    <2>1. EntryListed'
      BY <1>1, MemberCases, EntriesStayListed DEF OrderlyInv
    <2>2. CASE \E c \in Conn : RefuseConnect(c)
      <3>1. PICK c \in Conn : RefuseConnect(c)
        BY <2>2
      <3>2. reply[c] = "none"
        BY <3>1, KnockTaken DEF RefuseConnect, RoomInv, ServerTypeOK, TokenInv
      <3>3. /\ UNCHANGED <<token, clients>> /\ phase' = "settle"
            /\ \A d \in Conn : d # c => reply'[d] = reply[d]
            /\ reply'[c] = "err"
        BY <3>1 DEF RefuseConnect, membership, RoomInv, ServerTypeOK, TypeOK
      <3> QED
        BY <1>1, <2>1, <3>2, <3>3 DEF OrderlyInv, OneFirst, Rooted, JoinerAlone, OneHandlePerSession
    <2>3. CASE \A c \in Conn : ~RefuseConnect(c)
      <3>1. UNCHANGED <<token, reply>> /\ phase' # "joining" /\ clients' \subseteq clients
        BY <1>1, <2>3, OtherSteps
      <3> QED
        BY <1>1, <2>1, <3>1 DEF OrderlyInv, OneFirst, Rooted, JoinerAlone, OneHandlePerSession
    <2> QED
      BY <2>2, <2>3
  <1>2. CASE UNCHANGED vars
    BY <1>2 DEF vars, roomVars, membership, OrderlyInv, OneFirst, Rooted, EntryListed, JoinerAlone,
                OneHandlePerSession
  <1> QED
    BY <1>1, <1>2, SocketOrderly, ConnectOrderly DEF Next

LEMMA OrderlyInvariant ==
  ASSUME ~SecondSockets
  PROVE  Spec => [](RoomInv /\ TokenInv /\ OrderlyInv)
  <1>1. Init => OrderlyInv
    BY DEF Init, RoomInit, OrderlyInv, OneFirst, Rooted, EntryListed, JoinerAlone, OneHandlePerSession
  <1>2. RoomInv /\ TokenInv /\ OrderlyInv /\ [Next]_vars => (RoomInv /\ TokenInv /\ OrderlyInv)'
    BY RoomInvHolds, StepTokens, StepOrderly
  <1> QED
    BY <1>1, <1>2, RoomInvHolds, InitTokens, PTL DEF Spec

\* A client is listed once, so that get_client, kicks and broadcasts reach the
\* connection in use, when a session is not dialled twice without its token
\* (on_connect pushes a handle without looking for another of the session).
THEOREM ListedOnce ==
  ASSUME ~SecondSockets
  PROVE  Spec => []OneHandlePerSession
  <1>1. OrderlyInv => OneHandlePerSession
    BY DEF OrderlyInv
  <1> QED
    BY <1>1, OrderlyInvariant, PTL

-----------------------------------------------------------------------------
(* Nobody too many.                                                        *)

Seated(C, S) == Cardinality(C) + Cardinality(S)

LEMMA FewerSeated ==
  ASSUME NEW C \in SUBSET Conn, NEW S \in SUBSET Session,
         NEW D \in SUBSET C, NEW R \in SUBSET S
  PROVE  /\ IsFiniteSet(C) /\ IsFiniteSet(S) /\ Cardinality(C) \in Nat /\ Cardinality(S) \in Nat
         /\ Cardinality(D) \in Nat /\ Cardinality(R) \in Nat /\ Seated(D, R) <= Seated(C, S)
  <1>1. IsFiniteSet(C) /\ IsFiniteSet(S)
    BY RoomAssumption, FS_Subset
  <1>2. IsFiniteSet(D) /\ IsFiniteSet(R) /\ Cardinality(D) <= Cardinality(C) /\ Cardinality(R) <= Cardinality(S)
    BY <1>1, FS_Subset
  <1>3. Cardinality(C) \in Nat /\ Cardinality(S) \in Nat /\ Cardinality(D) \in Nat /\ Cardinality(R) \in Nat
    BY <1>1, <1>2, FS_CardinalityType
  <1> QED
    BY <1>1, <1>2, <1>3 DEF Seated

LEMMA GrowsByOne ==
  ASSUME NEW C, IsFiniteSet(C), NEW x
  PROVE  IsFiniteSet(C \cup {x}) /\ Cardinality(C \cup {x}) <= Cardinality(C) + 1
  <1> DEFINE D == C \cup {x}
  <1>1. IsFiniteSet(D) /\ Cardinality(D) = IF x \in C THEN Cardinality(C) ELSE Cardinality(C) + 1
    BY FS_AddElement
  <1>2. Cardinality(C) \in Nat
    BY FS_CardinalityType
  <1> HIDE DEF D
  <1>3. IsFiniteSet(D) /\ Cardinality(D) <= Cardinality(C) + 1
    BY <1>1, <1>2
  <1> QED
    BY <1>3 DEF D

CapacityInv == Seated(clients, PendingSeats) <= MaxClients

LEMMA StepCapacity ==
  ASSUME RoomInv, TokenInv, OrderlyInv, CapacityInv, [Next]_vars
  PROVE  CapacityInv'
  <1>0. TypeOK /\ SessionInv /\ clients \in SUBSET Conn /\ PendingSeats \in SUBSET Session /\ MaxClients \in Nat
    BY RoomAssumption DEF RoomInv, ServerTypeOK, TypeOK, PendingSeats
  <1>00. Cardinality(clients) \in Nat /\ Cardinality(PendingSeats) \in Nat
         /\ IsFiniteSet(clients) /\ IsFiniteSet(PendingSeats)
    BY <1>0, FewerSeated
  <1>1. ASSUME clients' \subseteq clients, PendingSeats' \subseteq PendingSeats
        PROVE  CapacityInv'
    <2>1. /\ Seated(clients', PendingSeats') <= Seated(clients, PendingSeats)
          /\ Cardinality(clients') \in Nat /\ Cardinality(PendingSeats') \in Nat
      BY <1>0, <1>1, FewerSeated
    <2> QED
      BY <1>0, <1>00, <2>1 DEF CapacityInv, Seated
  <1>2. ASSUME NEW S, reserved_seats' = FreeSeats(S)
        PROVE  PendingSeats' \subseteq PendingSeats
    BY <1>2 DEF FreeSeats, PendingSeats
  <1>3. UNCHANGED reserved_seats => PendingSeats' = PendingSeats
    BY DEF PendingSeats
  <1>4. \A S : RetainOthers(S) => clients' \subseteq clients
    BY DEF RetainOthers
  <1>5. ASSUME NEW c \in Conn, Reconnect(c)
        PROVE  CapacityInv'
    <2>1. clients' = Relisted(c) /\ PendingSeats' \subseteq PendingSeats
      BY <1>2, <1>5 DEF Reconnect, SpendToken
    <2>2. current[SessionOf[c]] \in clients
      BY <1>0, <1>5, RoomAssumption DEF Reconnect, TokenValid, OrderlyInv, EntryListed, SessionInv,
         CurrentIsListed, TypeOK
    <2>3. /\ IsFiniteSet(clients \ {current[SessionOf[c]]})
          /\ Cardinality(clients \ {current[SessionOf[c]]}) = Cardinality(clients) - 1
      BY <1>00, <2>2, FS_RemoveElement
    <2>4. Cardinality(clients') <= Cardinality(clients) /\ Cardinality(clients') \in Nat
          /\ Cardinality(PendingSeats') <= Cardinality(PendingSeats) /\ Cardinality(PendingSeats') \in Nat
      <3>1. IsFiniteSet(clients') /\ Cardinality(clients') <= Cardinality(clients)
        BY <1>00, <2>1, <2>3, FS_AddElement DEF Relisted
      <3>2. IsFiniteSet(PendingSeats') /\ Cardinality(PendingSeats') <= Cardinality(PendingSeats)
        BY <1>00, <2>1, FS_Subset
      <3> QED
        BY <3>1, <3>2, FS_CardinalityType
    <2> QED
      BY <1>0, <1>00, <2>4 DEF CapacityInv, Seated
  <1>6. ASSUME NEW c \in Conn, BeginJoin(c)
        PROVE  CapacityInv'
    <2>1. clients' = clients \cup {c} /\ SessionOf[c] \in PendingSeats
          /\ PendingSeats' = PendingSeats \ {SessionOf[c]}
      BY <1>0, <1>6, FirstIsAlone DEF BeginJoin, PendingSeats, TypeOK
    <2>2. /\ IsFiniteSet(clients') /\ Cardinality(clients') <= Cardinality(clients) + 1
          /\ IsFiniteSet(PendingSeats') /\ Cardinality(PendingSeats') = Cardinality(PendingSeats) - 1
      <3>1. IsFiniteSet(clients \cup {c}) /\ Cardinality(clients \cup {c}) <= Cardinality(clients) + 1
        BY <1>00, GrowsByOne
      <3>2. /\ IsFiniteSet(PendingSeats \ {SessionOf[c]})
            /\ Cardinality(PendingSeats \ {SessionOf[c]}) = Cardinality(PendingSeats) - 1
        BY <1>00, <2>1, FS_RemoveElement
      <3> QED
        BY <2>1, <3>1, <3>2
    <2>3. Cardinality(clients') \in Nat /\ Cardinality(PendingSeats') \in Nat
      BY <2>2, FS_CardinalityType
    <2> QED
      BY <1>0, <1>00, <2>2, <2>3 DEF CapacityInv, Seated
  <1>7. CASE JoinSucceeds \/ JoinFails
    BY <1>1, <1>2, <1>4, <1>7 DEF JoinSucceeds, JoinFails
  <1>8. ASSUME NEW s \in Session, ReserveSeat(s)
        PROVE  CapacityInv'
    <2>1. /\ clients' = clients /\ PendingSeats' = PendingSeats \cup {s}
          /\ ~(Cardinality(clients) + Cardinality(PendingSeats) >= MaxClients)
      BY <1>0, <1>8 DEF ReserveSeat, PendingSeats, TypeOK, HasReachedMaxClients, ListingClientCount
    <2>2. IsFiniteSet(PendingSeats') /\ Cardinality(PendingSeats') <= Cardinality(PendingSeats) + 1
      BY <1>00, <2>1, GrowsByOne
    <2>3. Cardinality(PendingSeats') \in Nat
      BY <2>2, FS_CardinalityType
    <2> QED
      BY <1>0, <1>00, <2>1, <2>2, <2>3 DEF CapacityInv, Seated
  <1>9. CASE MemberStep /\ \A s \in Session : ~ReserveSeat(s)
    <2>1. CASE Still
      BY <1>1, <1>3, <2>1 DEF Still, membership
    <2>2. ASSUME NEW s \in Session, Removes(s)
          PROVE  CapacityInv'
      BY <1>1, <1>2, <1>4, <2>2 DEF Removes, RemoveClient
    <2>3. ASSUME NEW c \in Conn, Drops(c)
          PROVE  CapacityInv'
      <3>1. clients' = clients /\ reserved_seats' = [reserved_seats EXCEPT ![SessionOf[c]] = "waiting"]
        BY <2>3 DEF Drops, HoldSeat
      <3>2. PendingSeats' \subseteq PendingSeats
        BY <1>0, <3>1 DEF PendingSeats, TypeOK
      <3> QED
        BY <1>1, <3>1, <3>2
    <2>4. ASSUME NEW c \in Conn, Leaves(c)
          PROVE  CapacityInv'
      BY <1>1, <1>3, <1>4, <2>4 DEF Leaves, LeaveForGood
    <2>5. ASSUME NEW T \in SUBSET TimedEntries, NEW S \in SUBSET PendingSeats, HandleDeadlines(T, S)
          PROVE  CapacityInv'
      BY <1>1, <1>2, <1>4, <2>5 DEF HandleDeadlines
    <2>6. CASE Dispose
      BY <1>1, <2>6 DEF Dispose, PendingSeats
    <2> QED
      BY <1>9, <2>1, <2>2, <2>3, <2>4, <2>5, <2>6 DEF MemberStep
  <1>10. ASSUME NEW c \in Conn, Socket(c)
         PROVE  CapacityInv'
    BY <1>1, <1>3, <1>10, SocketCases DEF OwnSocket, membership, RoomInv
  <1>11. CASE UNCHANGED vars
    BY <1>1, <1>3, <1>11 DEF vars, roomVars, membership
  <1> QED
    BY <1>5, <1>6, <1>7, <1>8, <1>9, <1>10, <1>11, MemberCases DEF Next

\* Clients and unclaimed seats together never exceed max_clients, over any
\* order of reservations, joins, drops, reconnects, expiries and removals: a
\* seat that turns into a client, or a client that is replaced, is counted
\* once (has_reached_max_clients, on_connect).
THEOREM NeverOverfull ==
  ASSUME ~SecondSockets
  PROVE  Spec => []WithinMaxClients
  <1>1. Init => CapacityInv
    <2> SUFFICES ASSUME Init PROVE CapacityInv
      OBVIOUS
    <2>1. clients = {} /\ PendingSeats = {}
      BY DEF Init, RoomInit, PendingSeats
    <2>2. Cardinality({}) = 0 /\ MaxClients \in Nat
      BY FS_EmptySet, RoomAssumption
    <2> QED
      BY <2>1, <2>2 DEF CapacityInv, Seated
  <1>2. RoomInv /\ TokenInv /\ OrderlyInv /\ CapacityInv /\ [Next]_vars => CapacityInv'
    BY StepCapacity
  <1>3. CapacityInv => WithinMaxClients
    BY DEF CapacityInv, Seated, PendingSeats, WithinMaxClients
  <1> QED
    BY <1>1, <1>2, <1>3, OrderlyInvariant, PTL DEF Spec

-----------------------------------------------------------------------------
(* The room implements SessionLifecycle.                                   *)

\* What StageOf asks of a session.
Away(s)    == reconnections \cap HandlesOf(s) # {}
Claimed(s) == reserved_seats[s] \in {"pending", "consumed"}
Here(s)    == current[s] # NoConn

\* In an orderly room at most one answer counts.
StageFacts ==
  \A s \in Session :
    /\ s \notin issued => ~Away(s) /\ ~Claimed(s) /\ ~Here(s)
    /\ ~(Away(s) /\ Claimed(s))
    /\ Away(s) => Here(s)
    /\ reserved_seats[s] = "waiting" => Away(s)

LEMMA StagesApart == RoomInv /\ TokenInv /\ OrderlyInv => StageFacts
  <1> SUFFICES ASSUME RoomInv, TokenInv, OrderlyInv, NEW s \in Session
               PROVE  /\ s \notin issued => ~Away(s) /\ ~Claimed(s) /\ ~Here(s)
                      /\ ~(Away(s) /\ Claimed(s))
                      /\ Away(s) => Here(s)
                      /\ reserved_seats[s] = "waiting" => Away(s)
    BY DEF StageFacts
  <1>0. TypeOK /\ SessionInv
    BY DEF RoomInv, ServerTypeOK
  <1>1. Away(s) => Here(s) /\ s \in issued
    BY <1>0, RoomAssumption
    DEF Away, Here, HandlesOf, OrderlyInv, EntryListed, SessionInv, EntriesApart, ListedHasJoined, TypeOK
  <1>2. Claimed(s) => s \in issued
    BY <1>0 DEF Claimed, SessionInv, SeatsMatch
  <1>3. ~(Away(s) /\ Claimed(s))
    <2>1. reserved_seats[s] = "pending" => ~Away(s)
      BY <1>0 DEF Away, SessionInv, SeatsMatch
    <2>2. reserved_seats[s] = "consumed" => ~Away(s)
      BY <1>0, JoinerHasNoEntry DEF Away, HandlesOf, SessionInv, SeatsMatch
    <2> QED
      BY <2>1, <2>2 DEF Claimed
  <1>4. Here(s) => s \in issued
    <2>1. Here(s) => current[s] \in clients /\ SessionOf[current[s]] = s
      BY <1>0 DEF Here, SessionInv, CurrentIsListed
    <2>2. Here(s) => s \in joined \/ (phase = "joining" /\ SessionOf[joiner] = s)
      BY <1>0, <2>1 DEF SessionInv, ListedHasJoined
    <2>3. phase = "joining" /\ SessionOf[joiner] = s => Claimed(s)
      BY <1>0 DEF Claimed, SessionInv, JoinUnderWay
    <2> QED
      BY <1>0, <1>2, <2>2, <2>3 DEF SessionInv, ListedHasJoined
  <1>5. reserved_seats[s] = "waiting" => Away(s)
    BY <1>0 DEF Away, SessionInv, HeldSeatHasEntry
  <1> QED
    BY <1>1, <1>2, <1>3, <1>4, <1>5

\* The stage of a session of which nothing has changed.
LEMMA SameStage ==
  ASSUME NEW s \in Session, s \in issued' <=> s \in issued, Away(s)' <=> Away(s),
         Claimed(s)' <=> Claimed(s), Here(s)' <=> Here(s)
  PROVE  StageOf(s)' = StageOf(s)
  BY DEF StageOf, Away, Claimed, Here

\* Steps of the lifecycle, from the stages before and after.
LEMMA LifeMoves ==
  ASSUME NEW s \in Session, NEW to,
         phase # "stopped", phase' # "stopped", UNCHANGED left,
         \A x \in Session : StageOf(x)' = IF x = s THEN to ELSE StageOf(x)
  PROVE  Lifecycle!Moves(s, StageOf(s), to)
  BY DEF Lifecycle!Moves

LEMMA LifeStutters ==
  ASSUME phase' = "stopped" <=> phase = "stopped", UNCHANGED left,
         \A x \in Session : StageOf(x)' = StageOf(x)
  PROVE  UNCHANGED Lifecycle!lifeVars
  BY DEF Lifecycle!lifeVars

\* Some sessions go, and A are told.
LEMMA LifeGoes ==
  ASSUME NEW S \in SUBSET Session, NEW A \in SUBSET Session,
         \A x \in Session : StageOf(x)' = IF x \in S THEN "gone" ELSE StageOf(x),
         \A x \in Session : left'[x] > 0 <=> (left[x] > 0 \/ x \in A)
  PROVE  /\ Lifecycle!Gone(S)
         /\ {s \in Session : left'[s] > 0} = {s \in Session : left[s] > 0} \cup A
  <1>1. Lifecycle!Gone(S)
    BY DEF Lifecycle!Gone
  <1> QED
    BY <1>1

LifeStep == Lifecycle!LifeNext \/ UNCHANGED Lifecycle!lifeVars

LEMMA ConnectLife ==
  ASSUME RoomInv, TokenInv, OrderlyInv, StageFacts, StageFacts',
         \/ \E c \in Conn : Reconnect(c) \/ BeginJoin(c)
         \/ JoinSucceeds \/ JoinFails
  PROVE  LifeStep
  <1>0. TypeOK /\ SessionInv
    BY DEF RoomInv, ServerTypeOK
  <1>1. ASSUME NEW c \in Conn, Reconnect(c)
        PROVE  LifeStep
    <2> DEFINE s == SessionOf[c]
    <2>1. /\ s \in Session /\ token[c] \in reconnections /\ SessionOf[token[c]] = s
          /\ reconnections' = reconnections \ {token[c]}
          /\ current' = [current EXCEPT ![s] = c] /\ reserved_seats' = FreeSeats({s})
          /\ phase = "idle" /\ phase' = "settle" /\ UNCHANGED <<issued, left>>
      BY <1>1, RoomAssumption DEF Reconnect, Takes, SpendToken, TokenValid, history
    <2>2. Away(s) /\ ~Away(s)'
      BY <1>0, <2>1 DEF Away, HandlesOf, SessionInv, EntriesApart, TypeOK
    <2>3. Here(s)' /\ ~Claimed(s)'
      BY <1>0, <2>1, RoomAssumption DEF Here, Claimed, FreeSeats, TypeOK
    <2>4. StageOf(s) = "away" /\ StageOf(s)' = "present"
      BY <2>1, <2>2, <2>3 DEF StageOf, StageFacts, Away, Claimed, Here
    <2>5. ASSUME NEW x \in Session, x # s
          PROVE  StageOf(x)' = StageOf(x)
      <3>1. Away(x)' <=> Away(x)
        BY <2>1, <2>5 DEF Away, HandlesOf
      <3>2. (Claimed(x)' <=> Claimed(x)) /\ (Here(x)' <=> Here(x))
        BY <1>0, <2>1, <2>5 DEF Claimed, Here, FreeSeats, TypeOK
      <3> QED
        BY <2>1, <3>1, <3>2, SameStage
    <2>6. Lifecycle!Moves(s, "away", "present")
      BY <2>1, <2>4, <2>5, LifeMoves
    <2> QED
      BY <2>1, <2>6 DEF LifeStep, Lifecycle!LifeNext, Lifecycle!Return
  <1>2. ASSUME NEW c \in Conn, BeginJoin(c)
        PROVE  LifeStep
    <2> DEFINE s == SessionOf[c]
    <2>1. /\ s \in Session /\ reserved_seats[s] = "pending"
          /\ reserved_seats' = [reserved_seats EXCEPT ![s] = "consumed"]
          /\ current' = [current EXCEPT ![s] = c]
          /\ phase = "idle" /\ phase' = "joining" /\ UNCHANGED <<issued, left, reconnections>>
      BY <1>2, FirstIsAlone DEF BeginJoin, Takes, history
    <2>2. Claimed(s) /\ Claimed(s)'
      BY <1>0, <2>1 DEF Claimed, TypeOK
    <2>3. StageOf(s)' = StageOf(s)
      BY <2>1, <2>2 DEF StageOf, StageFacts, Away, Claimed, Here
    <2>4. ASSUME NEW x \in Session, x # s
          PROVE  StageOf(x)' = StageOf(x)
      <3>1. Away(x)' <=> Away(x)
        BY <2>1, <2>4 DEF Away, HandlesOf
      <3>2. (Claimed(x)' <=> Claimed(x)) /\ (Here(x)' <=> Here(x))
        BY <1>0, <2>1, <2>4 DEF Claimed, Here, TypeOK
      <3> QED
        BY <2>1, <3>1, <3>2, SameStage
    <2> QED
      BY <2>1, <2>3, <2>4, LifeStutters DEF LifeStep
  <1>3. ASSUME JoinSucceeds \/ JoinFails
        PROVE  LifeStep
    <2>0. PICK s : s = SessionOf[joiner]
      OBVIOUS
    <2>1. /\ s \in Session /\ joiner \in Conn /\ reserved_seats[s] = "consumed" /\ ~Away(s)
          /\ reserved_seats' = FreeSeats({s})
          /\ phase = "joining" /\ phase' = "settle" /\ UNCHANGED <<issued, left, reconnections>>
      BY <1>0, <1>3, <2>0, JoinerHasNoEntry
      DEF JoinSucceeds, JoinFails, history, SessionInv, JoinUnderWay, Away, HandlesOf
    <2>2. Claimed(s) /\ ~Claimed(s)' /\ ~Away(s)'
      BY <1>0, <2>1 DEF Claimed, FreeSeats, Away, HandlesOf, TypeOK
    <2>3. StageOf(s) = "seated" /\ StageOf(s)' = IF Here(s)' THEN "present" ELSE "gone"
      BY <2>1, <2>2 DEF StageOf, StageFacts, Away, Claimed, Here
    <2>4. ASSUME NEW x \in Session, x # s
          PROVE  StageOf(x)' = StageOf(x)
      <3>1. Away(x)' <=> Away(x)
        BY <2>1 DEF Away, HandlesOf
      <3>2. Claimed(x)' <=> Claimed(x)
        BY <2>1, <2>4 DEF Claimed, FreeSeats
      <3>3. Here(x)' <=> Here(x)
        BY <1>3, <2>0, <2>4 DEF Here, JoinSucceeds, JoinFails, RetainOthers
      <3> QED
        BY <2>1, <3>1, <3>2, <3>3, SameStage
    <2>5. CASE Here(s)'
      <3>1. Lifecycle!Moves(s, "seated", "present")
        BY <2>1, <2>3, <2>4, <2>5, LifeMoves
      <3> QED
        BY <2>1, <3>1 DEF LifeStep, Lifecycle!LifeNext, Lifecycle!Join
    <2>6. CASE ~Here(s)'
      <3>1. \A x \in Session : StageOf(x)' = IF x \in {s} THEN "gone" ELSE StageOf(x)
        BY <2>3, <2>4, <2>6
      <3>2. Lifecycle!Gone({s})
        BY <2>1, <3>1, LifeGoes
      <3>3. s \in Lifecycle!Inside
        BY <2>1, <2>3 DEF Lifecycle!Inside
      <3> QED
        BY <2>1, <3>2, <3>3 DEF LifeStep, Lifecycle!LifeNext, Lifecycle!Forget
    <2> QED
      BY <2>5, <2>6
  <1> QED
    BY <1>1, <1>2, <1>3

\* A place is taken only while the room counts fewer than max_clients: who is
\* inside is listed or has an unclaimed seat.
LEMMA ReserveLife ==
  ASSUME RoomInv, TokenInv, OrderlyInv, StageFacts, StageFacts', NEW s \in Session, ReserveSeat(s)
  PROVE  LifeStep
  <1> DEFINE Held == {SessionOf[c] : c \in clients}
             In == Lifecycle!Inside
  <1>0. TypeOK /\ SessionInv
    BY DEF RoomInv, ServerTypeOK
  <1>1. /\ s \notin issued /\ issued' = issued \cup {s}
        /\ reserved_seats' = [reserved_seats EXCEPT ![s] = "pending"]
        /\ phase = "idle" /\ phase' = "settle" /\ UNCHANGED <<left, reconnections, current>>
        /\ Cardinality(clients) + Cardinality(PendingSeats) < MaxClients
    <2>1. MaxClients \in Nat /\ Cardinality(clients) + Cardinality(PendingSeats) \in Nat
      BY <1>0, RoomAssumption, CountIsNat DEF TypeOK, PendingSeats
    <2> QED
      BY <2>1 DEF ReserveSeat, HasReachedMaxClients, ListingClientCount
  <1>2. Claimed(s)' /\ ~Away(s)
    BY <1>0, <1>1 DEF Claimed, StageFacts, TypeOK
  <1>3. StageOf(s) = "unknown" /\ StageOf(s)' = "seated"
    BY <1>1, <1>2 DEF StageOf, StageFacts, Away, Claimed, Here
  <1>4. ASSUME NEW x \in Session, x # s
        PROVE  StageOf(x)' = StageOf(x)
    <2>1. Away(x)' <=> Away(x)
      BY <1>1 DEF Away, HandlesOf
    <2>2. (Claimed(x)' <=> Claimed(x)) /\ (Here(x)' <=> Here(x))
      BY <1>0, <1>1, <1>4 DEF Claimed, Here, TypeOK
    <2> QED
      BY <1>1, <1>4, <2>1, <2>2, SameStage
  <1>5. In \subseteq Held \cup PendingSeats
    <2> SUFFICES ASSUME NEW x \in Session, StageOf(x) \in {"seated", "present", "away"}, x \notin PendingSeats
                 PROVE  \E c \in clients : SessionOf[c] = x
      BY DEF Lifecycle!Inside
    <2>1. Here(x)
      <3>1. Away(x) \/ Claimed(x) \/ Here(x)
        BY DEF StageOf, Away, Claimed, Here
      <3>2. Claimed(x) => FALSE
        BY <1>0, <1>1 DEF Claimed, PendingSeats, SessionInv, SeatsMatch
      <3> QED
        BY <3>1, <3>2 DEF StageFacts
    <2> QED
      BY <1>0, <2>1 DEF Here, SessionInv, CurrentIsListed
  <1>6. Cardinality(In) <= Cardinality(clients) + Cardinality(PendingSeats) /\ Cardinality(In) \in Nat
    <2>1. IsFiniteSet(clients) /\ IsFiniteSet(PendingSeats)
      BY <1>0, RoomAssumption, FS_Subset DEF TypeOK, PendingSeats
    <2>2. IsFiniteSet(Held) /\ Cardinality(Held) <= Cardinality(clients)
      <3>1. [c \in clients |-> SessionOf[c]] \in Surjection(clients, Held)
        BY DEF Surjection
      <3> QED
        BY <2>1, <3>1, FS_Surjection
    <2>3. IsFiniteSet(Held \cup PendingSeats)
          /\ Cardinality(Held \cup PendingSeats)
               = Cardinality(Held) + Cardinality(PendingSeats) - Cardinality(Held \cap PendingSeats)
          /\ IsFiniteSet(Held \cap PendingSeats)
      BY <2>1, <2>2, FS_Union, FS_Intersection
    <2>4. IsFiniteSet(In) /\ Cardinality(In) <= Cardinality(Held \cup PendingSeats)
      BY <1>5, <2>3, FS_Subset
    <2>5. /\ Cardinality(In) \in Nat /\ Cardinality(Held) \in Nat /\ Cardinality(PendingSeats) \in Nat
          /\ Cardinality(clients) \in Nat /\ Cardinality(Held \cap PendingSeats) \in Nat
          /\ Cardinality(Held \cup PendingSeats) \in Nat
      BY <2>1, <2>2, <2>3, <2>4, FS_CardinalityType
    <2> QED
      BY <2>2, <2>3, <2>4, <2>5
  <1>7. Cardinality(In) < MaxClients
    <2>1. MaxClients \in Nat /\ Cardinality(clients) + Cardinality(PendingSeats) \in Nat
      BY <1>0, RoomAssumption, CountIsNat DEF TypeOK, PendingSeats
    <2> QED
      BY <1>1, <1>6, <2>1
  <1>8. Lifecycle!Moves(s, "unknown", "seated")
    BY <1>1, <1>3, <1>4, LifeMoves
  <1>9. Lifecycle!TakeSeat(s)
    <2>1. Lifecycle!Cardinality(In) = Cardinality(In)
      BY DEF Lifecycle!Cardinality, Cardinality
    <2> QED
      BY <1>7, <1>8, <2>1 DEF Lifecycle!TakeSeat
  <1> QED
    BY <1>9 DEF LifeStep, Lifecycle!LifeNext

LEMMA LeaveLife ==
  ASSUME RoomInv, TokenInv, OrderlyInv, StageFacts, StageFacts', Between,
         NEW c \in Conn, Drops(c) \/ Leaves(c)
  PROVE  LifeStep
  <1> DEFINE s == SessionOf[c]
  <1>0. TypeOK /\ SessionInv /\ s \in Session /\ c # NoConn /\ phase = "idle" /\ phase' = "settle"
    BY RoomAssumption DEF RoomInv, ServerTypeOK, Between
  <1>1. /\ Here(s) /\ ~Away(s) /\ ~Claimed(s) /\ c \notin reconnections /\ current[s] = c
        /\ s \in issued /\ issued' = issued
    <2>1. current[s] = c /\ c \notin reconnections /\ issued' = issued
      BY DEF Drops, Leaves, IsCurrent, history
    <2>2. ~Away(s)
      BY <1>0, <2>1 DEF Away, HandlesOf, OrderlyInv, EntryListed
    <2>3. ~Claimed(s)
      BY <1>0, <2>1 DEF Claimed, SessionInv, SeatsMatch
    <2> QED
      BY <1>0, <2>1, <2>2, <2>3 DEF Here, StageFacts
  <1>2. StageOf(s) = "present"
    BY <1>0, <1>1 DEF StageOf, Away, Claimed, Here
  <1>3. CASE Drops(c)
    <2>1. /\ reconnections' = reconnections \cup {c} /\ UNCHANGED <<left, current>>
          /\ reserved_seats' = [reserved_seats EXCEPT ![s] = "waiting"]
      BY <1>3 DEF Drops, HoldSeat
    <2>2. StageOf(s)' = "away"
      BY <1>0, <1>1, <2>1 DEF StageOf, HandlesOf
    <2>3. ASSUME NEW x \in Session, x # s
          PROVE  StageOf(x)' = StageOf(x)
      <3>1. Away(x)' <=> Away(x)
        BY <2>1, <2>3 DEF Away, HandlesOf
      <3>2. (Claimed(x)' <=> Claimed(x)) /\ (Here(x)' <=> Here(x))
        BY <1>0, <2>1, <2>3 DEF Claimed, Here, TypeOK
      <3> QED
        BY <1>1, <3>1, <3>2, SameStage
    <2>4. Lifecycle!Moves(s, "present", "away")
      BY <1>0, <1>2, <2>1, <2>2, <2>3, LifeMoves
    <2> QED
      BY <1>0, <2>4 DEF LifeStep, Lifecycle!LifeNext, Lifecycle!Drop
  <1>4. CASE Leaves(c)
    <2>1. /\ reconnections' = reconnections /\ reserved_seats' = reserved_seats
          /\ current' = [x \in Session |-> IF x \in {s} THEN NoConn ELSE current[x]]
          /\ left' = [left EXCEPT ![s] = @ + 1]
      BY <1>4 DEF Leaves, LeaveForGood, RetainOthers
    <2>2. ~Away(s)' /\ ~Claimed(s)' /\ ~Here(s)'
      BY <1>0, <1>1, <2>1 DEF Away, Claimed, Here, HandlesOf
    <2>3. StageOf(s)' = "gone"
      BY <1>1, <2>2 DEF StageOf, Away, Claimed, Here
    <2>4. ASSUME NEW x \in Session, x # s
          PROVE  StageOf(x)' = StageOf(x)
      <3>1. Away(x)' <=> Away(x)
        BY <2>1 DEF Away, HandlesOf
      <3>2. (Claimed(x)' <=> Claimed(x)) /\ (Here(x)' <=> Here(x))
        BY <2>1, <2>4 DEF Claimed, Here
      <3> QED
        BY <1>1, <3>1, <3>2, SameStage
    <2>5. \A x \in Session : left'[x] > 0 <=> (left[x] > 0 \/ x \in {s})
      BY <1>0, <2>1 DEF TypeOK
    <2>6. \A x \in Session : StageOf(x)' = IF x \in {s} THEN "gone" ELSE StageOf(x)
      BY <2>3, <2>4
    <2>7. /\ Lifecycle!Gone({s})
          /\ {x \in Session : left'[x] > 0} = {x \in Session : left[x] > 0} \cup {s}
      BY <1>0, <2>5, <2>6, LifeGoes
    <2>8. Lifecycle!Leave(s)
      BY <1>0, <1>2, <2>7 DEF Lifecycle!Leave
    <2> QED
      BY <1>0, <2>8 DEF LifeStep, Lifecycle!LifeNext
  <1> QED
    BY <1>3, <1>4

LEMMA RemoveLife ==
  ASSUME RoomInv, StageFacts, Between, NEW s \in Session, Removes(s)
  PROVE  LifeStep
  <1>0. TypeOK /\ phase = "idle" /\ phase' = "settle"
    BY DEF RoomInv, ServerTypeOK, Between
  <1>1. /\ reconnections' = reconnections \ HandlesOf(s) /\ UNCHANGED <<issued, left>>
        /\ reserved_seats' = [x \in Session |-> IF x \in {s} THEN "none" ELSE reserved_seats[x]]
        /\ current' = [x \in Session |-> IF x \in {s} THEN NoConn ELSE current[x]]
    BY DEF Removes, RemoveClient, RetainOthers, EntriesWithout, FreeSeats, history
  <1>2. ~Away(s)' /\ ~Claimed(s)' /\ ~Here(s)'
    BY <1>1 DEF Away, Claimed, Here, HandlesOf
  <1>3. ASSUME NEW x \in Session, x # s
        PROVE  StageOf(x)' = StageOf(x)
    <2>1. Away(x)' <=> Away(x)
      BY <1>1, <1>3 DEF Away, HandlesOf
    <2>2. (Claimed(x)' <=> Claimed(x)) /\ (Here(x)' <=> Here(x))
      BY <1>1, <1>3 DEF Claimed, Here
    <2> QED
      BY <1>1, <2>1, <2>2, SameStage
  <1>4. CASE StageOf(s) \in {"unknown", "gone"}
    <2>1. StageOf(s)' = StageOf(s)
      BY <1>1, <1>2, <1>4 DEF StageOf, Away, Claimed, Here
    <2> QED
      BY <1>0, <1>1, <1>3, <2>1, LifeStutters DEF LifeStep
  <1>5. CASE StageOf(s) \notin {"unknown", "gone"}
    <2>1. s \in Lifecycle!Inside /\ StageOf(s)' = "gone"
      BY <1>1, <1>2, <1>5 DEF StageOf, Away, Claimed, Here, Lifecycle!Inside
    <2>2. Lifecycle!Gone({s})
      <3>1. \A x \in Session : StageOf(x)' = IF x \in {s} THEN "gone" ELSE StageOf(x)
        BY <1>3, <2>1
      <3> QED
        BY <3>1 DEF Lifecycle!Gone
    <2> QED
      BY <1>0, <1>1, <2>1, <2>2 DEF LifeStep, Lifecycle!LifeNext, Lifecycle!Forget
  <1> QED
    BY <1>4, <1>5

LEMMA LapseLife ==
  ASSUME RoomInv, TokenInv, OrderlyInv, StageFacts, Between,
         NEW T \in SUBSET TimedEntries, NEW S \in SUBSET PendingSeats, HandleDeadlines(T, S)
  PROVE  LifeStep
  <1> DEFINE X == {SessionOf[c] : c \in T}
             E(s) == {c \in T : SessionOf[c] = s}
  <1>0. TypeOK /\ SessionInv /\ phase = "idle" /\ phase' = "settle"
    BY DEF RoomInv, ServerTypeOK, Between
  <1>1. /\ T \subseteq reconnections /\ T \subseteq Conn /\ X \subseteq Session /\ S \subseteq Session
        /\ reconnections' = reconnections \ T /\ issued' = issued
        /\ reserved_seats' = [s \in Session |-> IF s \in X \cup S THEN "none" ELSE reserved_seats[s]]
        /\ current' = [s \in Session |-> IF s \in X THEN NoConn ELSE current[s]]
        /\ left' = [s \in Session |-> left[s] + Cardinality(E(s))]
    BY <1>0, RoomAssumption
    DEF HandleDeadlines, DropEntries, SeatsFreed, RetainOthers, FreeSeats, TimedEntries, PendingSeats, TypeOK
  <1>2. \A s \in Session : s \in X <=> E(s) # {}
    OBVIOUS
  <1>3. \A s \in Session : left'[s] > 0 <=> (left[s] > 0 \/ s \in X)
    <2> SUFFICES ASSUME NEW s \in Session
                 PROVE  left'[s] > 0 <=> (left[s] > 0 \/ E(s) # {})
      BY <1>2
    <2>1. E(s) \in SUBSET Conn /\ left[s] \in Nat /\ left'[s] = left[s] + Cardinality(E(s))
      BY <1>0, <1>1 DEF TypeOK
    <2> HIDE DEF E
    <2>2. IsFiniteSet(E(s))
      BY <2>1, RoomAssumption, FS_Subset
    <2>3. Cardinality(E(s)) \in Nat /\ (Cardinality(E(s)) = 0 <=> E(s) = {})
      BY <2>2, FS_CardinalityType, FS_EmptySet
    <2> QED
      BY <2>1, <2>3
  <1>4. ASSUME NEW s \in X
        PROVE  /\ StageOf(s) = "away"
               /\ ~Away(s)' /\ ~Claimed(s)' /\ ~Here(s)' /\ s \in issued /\ s \in Session
    <2>1. PICK c \in T : SessionOf[c] = s
      BY <1>4
    <2>2. s \in Session /\ Away(s)
      BY <1>1, <2>1 DEF Away, HandlesOf
    <2>3. ~Away(s)'
      BY <1>0, <1>1, <2>1 DEF Away, HandlesOf, SessionInv, EntriesApart
    <2>4. ~Claimed(s)' /\ ~Here(s)'
      BY <1>1, <2>2 DEF Claimed, Here
    <2>5. StageOf(s) = "away" /\ s \in issued
      BY <2>2 DEF StageOf, StageFacts, Away
    <2> QED
      BY <2>2, <2>3, <2>4, <2>5
  <1>5. ASSUME NEW s \in S
        PROVE  /\ StageOf(s) = "seated"
               /\ ~Away(s)' /\ ~Claimed(s)' /\ ~Here(s)' /\ s \in issued /\ s \in Session
    <2>1. s \in Session /\ reserved_seats[s] = "pending" /\ Claimed(s)
      BY <1>1 DEF PendingSeats, Claimed
    <2>2. ~Away(s) /\ ~Here(s) /\ s \in issued
      BY <1>0, <2>1 DEF StageFacts, SessionInv, SeatsMatch, Here
    <2>3. ~Away(s)' /\ ~Claimed(s)' /\ ~Here(s)'
      BY <1>1, <2>1, <2>2 DEF Away, Claimed, Here, HandlesOf
    <2>4. StageOf(s) = "seated"
      BY <2>1, <2>2 DEF StageOf, Away, Claimed
    <2> QED
      BY <2>1, <2>2, <2>3, <2>4
  <1>6. ASSUME NEW s \in Session, s \notin X \cup S
        PROVE  StageOf(s)' = StageOf(s)
    <2>1. Away(s)' <=> Away(s)
      <3>1. \A c \in T : SessionOf[c] # s
        BY <1>6
      <3> HIDE DEF X
      <3> QED
        BY <1>1, <3>1 DEF Away, HandlesOf
    <2>2. (Claimed(s)' <=> Claimed(s)) /\ (Here(s)' <=> Here(s))
      BY <1>1, <1>6 DEF Claimed, Here
    <2> QED
      BY <1>1, <2>1, <2>2, SameStage
  <1> HIDE DEF X, E
  <1>7. \A s \in X \cup S : StageOf(s)' = "gone"
    BY <1>1, <1>4, <1>5 DEF StageOf, Away, Claimed, Here
  <1>8. \A x \in Session : StageOf(x)' = IF x \in X \cup S THEN "gone" ELSE StageOf(x)
    BY <1>6, <1>7
  <1>9. /\ Lifecycle!Gone(X \cup S)
        /\ {x \in Session : left'[x] > 0} = {x \in Session : left[x] > 0} \cup X
    BY <1>1, <1>3, <1>8, LifeGoes
  <1>10. Lifecycle!Lapse(X, S)
    BY <1>0, <1>1, <1>4, <1>5, <1>9 DEF Lifecycle!Lapse
  <1> QED
    BY <1>1, <1>10 DEF LifeStep, Lifecycle!LifeNext

LEMMA CloseLife ==
  ASSUME RoomInv, StageFacts, phase # "stopped", Dispose
  PROVE  LifeStep
  <1>1. /\ reconnections' = {} /\ UNCHANGED <<issued, left>> /\ phase' = "stopped"
        /\ reserved_seats' = [x \in Session |-> "none"] /\ current' = [x \in Session |-> NoConn]
    BY DEF Dispose, history
  <1>2. ASSUME NEW x \in Session
        PROVE  StageOf(x)' = IF x \in Lifecycle!Inside THEN "gone" ELSE StageOf(x)
    <2>1. StageOf(x)' = IF x \in issued THEN "gone" ELSE "unknown"
      BY <1>1 DEF StageOf
    <2>2. x \in Lifecycle!Inside <=> StageOf(x) \in {"seated", "present", "away"}
      BY DEF Lifecycle!Inside
    <2>3. StageOf(x) \in {"seated", "present", "away"} \/ StageOf(x) = IF x \in issued THEN "gone" ELSE "unknown"
      BY DEF StageOf
    <2>4. StageOf(x) \in {"seated", "present", "away"} => x \in issued
      BY DEF StageOf
    <2> QED
      BY <2>1, <2>2, <2>3, <2>4
  <1>3. Lifecycle!Gone(Lifecycle!Inside)
    BY <1>2 DEF Lifecycle!Gone
  <1> QED
    BY <1>1, <1>3 DEF LifeStep, Lifecycle!LifeNext, Lifecycle!Close

Orderly == RoomInv /\ TokenInv /\ OrderlyInv /\ StageFacts

LEMMA StepLife ==
  ASSUME Orderly, Orderly', [Next]_vars
  PROVE  LifeStep
  <1> USE DEF Orderly
  <1>1. ASSUME UNCHANGED <<membership, history>>, phase' = "stopped" <=> phase = "stopped"
        PROVE  LifeStep
    <2>1. \A x \in Session : StageOf(x)' = StageOf(x)
      BY <1>1 DEF membership, history, StageOf, HandlesOf
    <2> QED
      BY <1>1, <2>1, LifeStutters DEF LifeStep, history
  <1>2. ASSUME NEW c \in Conn, Socket(c)
        PROVE  LifeStep
    BY <1>1, <1>2, SocketCases DEF OwnSocket, RoomInv
  <1>3. CASE Actor
    <2>1. CASE MemberStep /\ phase \in {"idle", "settle"}
      BY <1>1, <2>1, ReserveLife, LeaveLife, RemoveLife, LapseLife, CloseLife DEF MemberStep, Still
    <2> QED
      BY <1>3, <2>1, ConnectLife, MemberCases
  <1>4. CASE UNCHANGED vars
    BY <1>1, <1>4 DEF vars, roomVars
  <1> QED
    BY <1>2, <1>3, <1>4 DEF Next

\* Every run of an orderly room is one of the session lifecycle: a place is
\* given while there is one, who left does not come back, and on_leave runs
\* exactly when someone who was there leaves for good.
THEOREM RoomFollowsLifecycle ==
  ASSUME ~SecondSockets
  PROVE  Spec => FollowsLifecycle
  <1>1. Init => Lifecycle!LifeInit
    BY DEF Init, RoomInit, Lifecycle!LifeInit, StageOf
  <1>2. Orderly /\ Orderly' /\ [Next]_vars => [Lifecycle!LifeNext]_(Lifecycle!lifeVars)
    BY StepLife DEF LifeStep
  <1>3. Spec => []Orderly
    BY OrderlyInvariant, StagesApart, PTL DEF Orderly
  <1> QED
    BY <1>1, <1>2, <1>3, PTL DEF Spec, FollowsLifecycle, Lifecycle!LifeSpec

-----------------------------------------------------------------------------
(* Who is away.                                                            *)

\* Nothing follows "disconnected".
LastWord ==
  \A c \in Conn : \A i \in DOMAIN mailbox[c] :
    mailbox[c][i] = "disconnected" => i = Len(mailbox[c]) /\ sock[c] = "closed"

\* Nothing more comes from a connection that is held, and its seat is kept ...
AbsentIsQuiet ==
  \A c \in reconnections :
    /\ mailbox[c] = <<>> /\ sock[c] = "closed" /\ state[c] = "Reconnecting"
    /\ reserved_seats[SessionOf[c]] = "waiting"
\* ... and every listed handle that is Reconnecting is held.
AbsentHasEntry == \A c \in clients : state[c] = "Reconnecting" => c \in reconnections

AbsentInv == LastWord /\ AbsentIsQuiet /\ AbsentHasEntry

LEMMA TakenLastWord ==
  ASSUME TypeOK, LastWord, UNCHANGED sock, NEW c \in Conn, NEW e, Takes(c, e)
  PROVE  /\ LastWord'
         /\ e = "disconnected" => mailbox'[c] = <<>> /\ sock[c] = "closed"
  <1>1. \A i \in DOMAIN mailbox'[c] :
          mailbox'[c][i] = "disconnected" => i = Len(mailbox'[c]) /\ sock[c] = "closed"
    BY MailShrinks DEF LastWord
  <1>2. e = "disconnected" => Len(mailbox[c]) = 1 /\ sock[c] = "closed"
    BY MailShrinks DEF LastWord
  <1>3. LastWord'
    BY <1>1, MailShrinks DEF LastWord
  <1>4. Len(mailbox'[c]) = 0 => mailbox'[c] = <<>>
    <2>1. mailbox'[c] \in Seq(Event)
      BY TakenType
    <2>2. \A q \in Seq(Event) : Len(q) = 0 => q = <<>>
      OBVIOUS
    <2> QED
      BY <2>1, <2>2
  <1> QED
    <2>1. Len(mailbox'[c]) = Len(mailbox[c]) - 1
      BY MailShrinks
    <2>2. e = "disconnected" => Len(mailbox'[c]) = 0
      BY <1>2, <2>1
    <2> QED
      BY <1>2, <1>3, <1>4, <2>2

LEMMA SocketAbsent ==
  ASSUME RoomInv, TokenInv, AbsentInv, NEW c \in Conn, Socket(c)
  PROVE  AbsentInv'
  <1>0. OwnSocket(c) /\ TypeOK /\ mailbox[c] \in Seq(Event)
    BY SocketCases DEF RoomInv, ServerTypeOK, TypeOK
  <1>1. sock[c] # "closed" /\ (state'[c] = state[c] \/ state'[c] = "Leaving")
    BY SocketCases DEF Dials, Speaks, GoesOn, RoomInv
  <1>2. \A i \in DOMAIN mailbox[c] : mailbox[c][i] # "disconnected"
    BY <1>1 DEF AbsentInv, LastWord
  <1>3. \A i \in DOMAIN mailbox'[c] :
          mailbox'[c][i] = "disconnected" => i = Len(mailbox'[c]) /\ sock'[c] = "closed"
    <2>1. CASE mailbox'[c] = mailbox[c]
      BY <1>2, <2>1
    <2>2. ASSUME NEW w \in Words \cup {<<"connect">>}, mailbox'[c] = mailbox[c] \o w
          PROVE  \A i \in DOMAIN mailbox'[c] :
                   mailbox'[c][i] = "disconnected" => i = Len(mailbox'[c])
      <3>1. Len(w) \in Nat /\ DOMAIN w = 1 .. Len(w) /\ w \in Seq(Event)
            /\ \A k \in DOMAIN w : w[k] = "disconnected" => k = Len(w)
        <4>1. CASE w = <<"leave", "disconnected">>
          BY <4>1 DEF Event
        <4>2. CASE w = <<"data">>
          BY <4>2 DEF Event
        <4>3. CASE w = <<"disconnected">>
          BY <4>3 DEF Event
        <4>4. CASE w = <<"connect">>
          BY <4>4 DEF Event
        <4> QED
          BY <4>1, <4>2, <4>3, <4>4 DEF Words
      <3>2. mailbox[c] \in Seq(Event)
        BY <1>0
      <3>3. /\ Len(mailbox'[c]) = Len(mailbox[c]) + Len(w) /\ Len(mailbox[c]) \in Nat
            /\ DOMAIN mailbox[c] = 1 .. Len(mailbox[c]) /\ DOMAIN mailbox'[c] = 1 .. Len(mailbox'[c])
            /\ \A i \in DOMAIN mailbox'[c] :
                 mailbox'[c][i] = IF i <= Len(mailbox[c]) THEN mailbox[c][i] ELSE w[i - Len(mailbox[c])]
        BY <2>2, <3>1, <3>2
      <3> TAKE i \in DOMAIN mailbox'[c]
      <3> DEFINE k == i - Len(mailbox[c])
      <3>4. CASE i <= Len(mailbox[c])
        <4>1. i \in DOMAIN mailbox[c] /\ mailbox'[c][i] = mailbox[c][i]
          BY <3>1, <3>3, <3>4
        <4> QED
          BY <1>2, <4>1
      <3>5. CASE ~(i <= Len(mailbox[c]))
        <4>0. i \in 1 .. Len(mailbox[c]) + Len(w) /\ Len(mailbox[c]) \in Nat /\ Len(w) \in Nat
          BY <3>1, <3>3
        <4>1. k \in DOMAIN w /\ mailbox'[c][i] = w[k]
          <5>1. k \in 1 .. Len(w)
            BY <3>5, <4>0
          <5> QED
            BY <3>1, <3>3, <3>5, <5>1
        <4>2. k = Len(w) => i = Len(mailbox'[c])
          BY <3>1, <3>3
        <4> QED
          BY <3>1, <4>1, <4>2
      <3> QED
        BY <3>4, <3>5
    <2>3. ASSUME NEW w \in Words \cup {<<"connect">>}, mailbox'[c] = mailbox[c] \o w,
                 w = <<"data">> \/ w = <<"connect">> \/ sock'[c] = "closed"
          PROVE  \A i \in DOMAIN mailbox'[c] : mailbox'[c][i] = "disconnected" => sock'[c] = "closed"
      <3>1. (w = <<"data">> \/ w = <<"connect">>) => \A k \in DOMAIN w : w[k] # "disconnected"
        OBVIOUS
      <3> QED
        BY <1>0, <1>2, <2>3, <3>1, MailGrows
    <2>4. CASE Speaks(c) \/ \E t \in Conn \cup {NoConn} : Dials(c, t)
      <3>1. \/ mailbox'[c] = mailbox[c]
            \/ \E w \in Words \cup {<<"connect">>} :
                 mailbox'[c] = mailbox[c] \o w /\ (w = <<"data">> \/ w = <<"connect">> \/ sock'[c] = "closed")
        BY <2>4 DEF Speaks, Dials
      <3> QED
        BY <2>1, <2>2, <2>3, <3>1
    <2> QED
      BY <2>1, <2>4, SocketCases DEF GoesOn, RoomInv
  <1>4. LastWord'
    BY <1>0, <1>3 DEF OwnSocket, AbsentInv, LastWord
  <1>5. AbsentIsQuiet' /\ AbsentHasEntry'
    <2>1. c \notin reconnections
      BY <1>1 DEF AbsentInv, AbsentIsQuiet
    <2> QED
      <3>1. UNCHANGED <<clients, reconnections, reserved_seats>>
            /\ \A d \in Conn : d # c => mailbox'[d] = mailbox[d] /\ sock'[d] = sock[d] /\ state'[d] = state[d]
        BY <1>0 DEF OwnSocket, membership
      <3>2. AbsentIsQuiet'
        <4>1. \A d \in reconnections : d \in Conn /\ d # c
          BY <1>0, <2>1 DEF TypeOK
        <4> QED
          BY <3>1, <4>1 DEF AbsentInv, AbsentIsQuiet
      <3>3. AbsentHasEntry'
        BY <1>0, <1>1, <3>1 DEF TypeOK, AbsentInv, AbsentHasEntry
      <3> QED
        BY <3>2, <3>3
  <1> QED
    BY <1>4, <1>5 DEF AbsentInv

\* What an event that is taken leaves of the invariant, and of the mailboxes of
\* those that are away.
LEMMA TakenAbsent ==
  ASSUME TypeOK, AbsentInv, UNCHANGED sock, NEW c \in Conn, NEW e, Takes(c, e)
  PROVE  /\ LastWord' /\ c \notin reconnections
         /\ \A u \in reconnections : mailbox'[u] = <<>> /\ sock'[u] = "closed"
  <1>1. c \notin reconnections
    BY MailShrinks DEF AbsentInv, AbsentIsQuiet
  <1> QED
    BY <1>1, TakenLastWord, MailShrinks DEF AbsentInv, AbsentIsQuiet, TypeOK

LEMMA ConnectAbsent ==
  ASSUME RoomInv, TokenInv, OrderlyInv, AbsentInv, UNCHANGED sock,
         \/ \E c \in Conn : Reconnect(c) \/ RefuseConnect(c) \/ BeginJoin(c)
         \/ JoinSucceeds \/ JoinFails
  PROVE  AbsentInv'
  <1>0. TypeOK /\ SessionInv /\ reconnections \subseteq Conn /\ clients \subseteq Conn
    BY DEF RoomInv, ServerTypeOK, TypeOK
  <1>1. ASSUME NEW c \in Conn, Reconnect(c)
        PROVE  AbsentInv'
    <2>1. /\ LastWord' /\ c \notin reconnections
          /\ \A u \in reconnections : mailbox'[u] = <<>> /\ sock'[u] = "closed"
      BY <1>0, <1>1, TakenAbsent DEF Reconnect
    <2>2. /\ token[c] \in reconnections /\ reconnections' = reconnections \ {token[c]}
          /\ SessionOf[token[c]] = SessionOf[c]
          /\ clients' = Relisted(c) /\ reserved_seats' = FreeSeats({SessionOf[c]})
          /\ state' = [state EXCEPT ![token[c]] = "Reconnected", ![c] = "Reconnected"]
      BY <1>1 DEF Reconnect, SpendToken, TokenValid
    <2>3. \A u \in reconnections' : SessionOf[u] # SessionOf[c] /\ SessionOf[u] \in Session
                                    /\ state'[u] = state[u] /\ u \in reconnections
      BY <1>0, <2>1, <2>2, RoomAssumption DEF SessionInv, EntriesApart, TypeOK
    <2>4. AbsentIsQuiet'
      <3> SUFFICES ASSUME NEW u \in reconnections'
                   PROVE  /\ mailbox'[u] = <<>> /\ sock'[u] = "closed" /\ state'[u] = "Reconnecting"
                          /\ reserved_seats'[SessionOf[u]] = "waiting"
        BY DEF AbsentIsQuiet
      <3>1. /\ u \in reconnections /\ state'[u] = state[u]
            /\ SessionOf[u] # SessionOf[c] /\ SessionOf[u] \in Session
        BY <2>3
      <3>2. state[u] = "Reconnecting" /\ reserved_seats[SessionOf[u]] = "waiting"
        BY <3>1 DEF AbsentInv, AbsentIsQuiet
      <3> QED
        BY <2>1, <2>2, <3>1, <3>2 DEF FreeSeats
    <2>5. AbsentHasEntry'
      BY <1>0, <2>2 DEF AbsentInv, AbsentHasEntry, Relisted, TypeOK
    <2> QED
      BY <2>1, <2>4, <2>5 DEF AbsentInv
  <1>2. ASSUME NEW c \in Conn, RefuseConnect(c)
        PROVE  AbsentInv'
    BY <1>0, <1>2, TakenAbsent DEF RefuseConnect, membership, AbsentInv, AbsentIsQuiet, AbsentHasEntry
  <1>3. ASSUME NEW c \in Conn, BeginJoin(c)
        PROVE  AbsentInv'
    <2>1. /\ LastWord' /\ c \notin reconnections
          /\ \A u \in reconnections : mailbox'[u] = <<>> /\ sock'[u] = "closed"
      BY <1>0, <1>3, TakenAbsent DEF BeginJoin
    <2>2. /\ reconnections' = reconnections /\ clients' = clients \cup {c}
          /\ state' = [state EXCEPT ![c] = "Joining"]
          /\ reserved_seats' = [reserved_seats EXCEPT ![SessionOf[c]] = "consumed"]
      BY <1>3 DEF BeginJoin
    <2>3. \A u \in reconnections : SessionOf[u] # SessionOf[c] /\ u # c
      BY <1>0, <1>3, <2>1, FirstIsAlone, RoomAssumption DEF OrderlyInv, EntryListed
    <2>4. AbsentIsQuiet' /\ AbsentHasEntry'
      BY <1>0, <2>1, <2>2, <2>3, RoomAssumption DEF AbsentInv, AbsentIsQuiet, AbsentHasEntry, TypeOK
    <2> QED
      BY <2>1, <2>4 DEF AbsentInv
  <1>4. CASE JoinSucceeds \/ JoinFails
    <2>0. PICK j : j = joiner
      OBVIOUS
    <2>1. /\ j \in Conn /\ \A u \in reconnections : SessionOf[u] # SessionOf[j]
          /\ UNCHANGED <<reconnections, mailbox>> /\ clients' \subseteq clients
          /\ reserved_seats' = FreeSeats({SessionOf[j]})
          /\ \E to \in {"Joined", "Leaving"} : state' = [state EXCEPT ![j] = to]
      BY <1>4, <2>0, JoinerHasNoEntry DEF JoinSucceeds, JoinFails, RetainOthers
    <2>2. \A u \in reconnections : u # j /\ SessionOf[u] \in Session
      BY <1>0, <2>1, RoomAssumption
    <2>3. \A u \in Conn : u # j => state'[u] = state[u]
      BY <1>0, <2>1 DEF TypeOK
    <2>4. state'[j] # "Reconnecting"
      BY <1>0, <2>1 DEF TypeOK
    <2>5. LastWord'
      BY <2>1 DEF AbsentInv, LastWord
    <2>6. AbsentIsQuiet'
      BY <1>0, <2>1, <2>2, <2>3 DEF AbsentInv, AbsentIsQuiet, FreeSeats
    <2>7. AbsentHasEntry'
      BY <1>0, <2>1, <2>3, <2>4 DEF AbsentInv, AbsentHasEntry
    <2> QED
      BY <2>5, <2>6, <2>7 DEF AbsentInv
  <1> QED
    BY <1>1, <1>2, <1>3, <1>4

\* The steps of the actor that neither connect nor join, when nobody is kicked.
LEMMA CalmCases ==
  ASSUME ~Kicks, Actor,
         \A c \in Conn : ~Reconnect(c) /\ ~RefuseConnect(c) /\ ~BeginJoin(c),
         ~JoinSucceeds, ~JoinFails
  PROVE  \/ \E c \in Conn, e \in {"leave", "disconnected"} : OnLeave(c, e)
         \/ RoomCode \/ \E c \in Conn : OnMessage(c)
         \/ \E s \in Session : ReserveSeat(s)
         \/ \E T \in SUBSET TimedEntries, S \in SUBSET PendingSeats : HandleDeadlines(T, S)
         \/ SeatTimeoutPasses \/ Settle \/ DisposeEvent
  BY DEF Actor, TakesEvent, Deadlines

\* What a handler does to those that are away: all of a session goes.
LEMMA HandlerAbsent ==
  ASSUME TypeOK, AbsentInv, RunHandler
  PROVE  /\ \A u \in reconnections' : u \in reconnections /\ state'[u] = state[u]
              /\ reserved_seats'[SessionOf[u]] = reserved_seats[SessionOf[u]]
         /\ AbsentHasEntry' /\ clients' \subseteq clients /\ state' = state
  <1>1. CASE SetLocked \/ Disconnect
    BY <1>1 DEF SetLocked, Disconnect, membership, AbsentInv, AbsentHasEntry
  <1>2. ASSUME NEW s \in Session, RemoveClient(s)
        PROVE  /\ \A u \in reconnections' : u \in reconnections /\ state'[u] = state[u]
                    /\ reserved_seats'[SessionOf[u]] = reserved_seats[SessionOf[u]]
               /\ AbsentHasEntry' /\ clients' \subseteq clients /\ state' = state
    <2>1. /\ clients' = {c \in clients : SessionOf[c] \notin {s}}
          /\ reconnections' = reconnections \ HandlesOf(s) /\ reserved_seats' = FreeSeats({s})
          /\ state' = state
      BY <1>2 DEF RemoveClient, RetainOthers, EntriesWithout
    <2>2. \A u \in reconnections' : u \in reconnections /\ SessionOf[u] # s /\ SessionOf[u] \in Session
      BY <2>1, RoomAssumption DEF HandlesOf, TypeOK
    <2>3. AbsentHasEntry'
      BY <2>1 DEF AbsentInv, AbsentHasEntry, HandlesOf
    <2> QED
      BY <2>1, <2>2, <2>3 DEF FreeSeats
  <1> QED
    BY <1>1, <1>2 DEF RunHandler

LEMMA OnLeaveAbsent ==
  ASSUME RoomInv, TokenInv, OrderlyInv, AbsentInv, UNCHANGED sock,
         NEW c \in Conn, NEW e \in {"leave", "disconnected"}, OnLeave(c, e)
  PROVE  /\ AbsentInv' /\ c \notin reconnections
         /\ \/ UNCHANGED <<membership, state>> /\ (~IsCurrent(c) \/ AlreadyLeaving(c))
            \/ IsCurrent(c) /\ LeaveForGood(c, e = "leave")
            \/ IsCurrent(c) /\ \E untimed \in BOOLEAN : HoldSeat(c, untimed)
  <1>0. TypeOK /\ SessionInv /\ Takes(c, e) /\ SessionOf[c] \in Session /\ reconnections \subseteq Conn
    BY RoomAssumption DEF RoomInv, ServerTypeOK, TypeOK, OnLeave
  <1>1. /\ LastWord' /\ c \notin reconnections
        /\ \A u \in reconnections : mailbox'[u] = <<>> /\ sock'[u] = "closed"
    BY <1>0, TakenAbsent
  <1>2. CASE UNCHANGED <<membership, state>> /\ (~IsCurrent(c) \/ AlreadyLeaving(c))
    <2>1. AbsentIsQuiet' /\ AbsentHasEntry'
      BY <1>1, <1>2 DEF membership, AbsentInv, AbsentIsQuiet, AbsentHasEntry
    <2> QED
      BY <1>1, <1>2, <2>1 DEF AbsentInv
  <1>3. CASE IsCurrent(c) /\ LeaveForGood(c, e = "leave")
    <2>1. /\ UNCHANGED <<reconnections, reserved_seats>> /\ clients' = {d \in clients : SessionOf[d] \notin {SessionOf[c]}}
          /\ \E to \in ClientState : state' = [state EXCEPT ![c] = to]
      BY <1>3 DEF LeaveForGood, RetainOthers, ClientState
    <2>2. \A d \in Conn : d # c => state'[d] = state[d]
      BY <1>0, <2>1 DEF TypeOK
    <2>3. AbsentIsQuiet'
      BY <1>0, <1>1, <2>1, <2>2 DEF AbsentInv, AbsentIsQuiet
    <2>4. AbsentHasEntry'
      BY <1>0, <2>1, <2>2 DEF AbsentInv, AbsentHasEntry, TypeOK
    <2> QED
      BY <1>1, <1>3, <2>3, <2>4 DEF AbsentInv
  <1>4. ASSUME NEW untimed \in BOOLEAN, IsCurrent(c), HoldSeat(c, untimed), e = "disconnected"
        PROVE  AbsentInv'
    <2>1. /\ reconnections' = reconnections \cup {c} /\ clients' = clients
          /\ reserved_seats' = [reserved_seats EXCEPT ![SessionOf[c]] = "waiting"]
          /\ state' = [state EXCEPT ![c] = "Reconnecting"]
      BY <1>4 DEF HoldSeat
    <2>2. mailbox'[c] = <<>> /\ sock'[c] = "closed"
      BY <1>0, <1>4, TakenLastWord DEF AbsentInv
    <2>3. \A u \in reconnections : SessionOf[u] # SessionOf[c] /\ u # c
      BY <1>1, <1>4 DEF OrderlyInv, EntryListed, IsCurrent
    <2>4. /\ state'[c] = "Reconnecting" /\ reserved_seats'[SessionOf[c]] = "waiting"
          /\ \A d \in Conn : d # c => state'[d] = state[d]
          /\ \A s \in Session : s # SessionOf[c] => reserved_seats'[s] = reserved_seats[s]
      BY <1>0, <2>1 DEF TypeOK
    <2>5. AbsentIsQuiet'
      BY <1>0, <1>1, <2>1, <2>2, <2>3, <2>4, RoomAssumption DEF AbsentInv, AbsentIsQuiet
    <2>6. AbsentHasEntry'
      BY <1>0, <2>1, <2>4 DEF AbsentInv, AbsentHasEntry, TypeOK
    <2> QED
      BY <1>1, <2>5, <2>6 DEF AbsentInv
  <1> QED
    BY <1>1, <1>2, <1>3, <1>4 DEF OnLeave, LeaveClient

LEMMA CodeAbsent ==
  ASSUME RoomInv, AbsentInv, UNCHANGED sock, RoomCode \/ \E c \in Conn : OnMessage(c)
  PROVE  AbsentInv'
  <1>0. TypeOK /\ reconnections \subseteq Conn
    BY DEF RoomInv, ServerTypeOK, TypeOK
  <1>1. /\ LastWord'
        /\ \A u \in reconnections : mailbox'[u] = <<>> /\ sock'[u] = "closed"
    <2>1. CASE RoomCode
      BY <2>1 DEF RoomCode, AbsentInv, LastWord, AbsentIsQuiet
    <2>2. ASSUME NEW c \in Conn, OnMessage(c)
          PROVE  /\ LastWord'
                 /\ \A u \in reconnections : mailbox'[u] = <<>> /\ sock'[u] = "closed"
      BY <1>0, <2>2, TakenAbsent DEF OnMessage
    <2> QED
      BY <2>1, <2>2
  <1>2. CASE RunHandler
    <2>1. AbsentIsQuiet' /\ AbsentHasEntry'
      BY <1>0, <1>1, <1>2, HandlerAbsent DEF AbsentInv, AbsentIsQuiet
    <2> QED
      BY <1>1, <2>1 DEF AbsentInv
  <1>3. CASE UNCHANGED <<membership, state>>
    BY <1>1, <1>3 DEF membership, AbsentInv, AbsentIsQuiet, AbsentHasEntry
  <1> QED
    BY <1>2, <1>3 DEF RoomCode, OnMessage

LEMMA LapseAbsent ==
  ASSUME RoomInv, AbsentInv, UNCHANGED sock,
         NEW T \in SUBSET TimedEntries, NEW S \in SUBSET PendingSeats, HandleDeadlines(T, S)
  PROVE  AbsentInv' /\ \A d \in clients' : d \in clients /\ d \notin T /\ state'[d] = state[d]
  <1> DEFINE X == {SessionOf[c] : c \in T}
  <1>0. TypeOK /\ SessionInv /\ T \subseteq reconnections /\ reconnections \subseteq Conn /\ clients \subseteq Conn
    BY DEF RoomInv, ServerTypeOK, TypeOK, TimedEntries
  <1>1. /\ reconnections' = reconnections \ T /\ mailbox' = mailbox
        /\ reserved_seats' = [s \in Session |-> IF s \in X \cup S THEN "none" ELSE reserved_seats[s]]
        /\ clients' = {d \in clients : SessionOf[d] \notin X}
        /\ state' = [d \in Conn |-> IF d \in T THEN "Closed" ELSE state[d]]
    BY DEF HandleDeadlines, DropEntries, SeatsFreed, RetainOthers, FreeSeats
  <1>2. \A d \in clients' : d \in clients /\ d \notin T /\ state'[d] = state[d]
    BY <1>0, <1>1
  <1>3. ASSUME NEW u \in reconnections'
        PROVE  /\ u \in reconnections /\ state'[u] = state[u] /\ SessionOf[u] \in Session
               /\ SessionOf[u] \notin X \cup S
    <2>1. u \in reconnections /\ u \notin T /\ SessionOf[u] \in Session
      BY <1>0, <1>1, RoomAssumption
    <2>2. SessionOf[u] \notin X
      BY <1>0, <2>1 DEF SessionInv, EntriesApart
    <2>3. SessionOf[u] \notin S
      BY <2>1 DEF PendingSeats, AbsentInv, AbsentIsQuiet
    <2> QED
      BY <1>0, <1>1, <2>1, <2>2, <2>3
  <1> HIDE DEF X
  <1>4. AbsentIsQuiet'
    BY <1>1, <1>3 DEF AbsentInv, AbsentIsQuiet
  <1>5. AbsentHasEntry' /\ LastWord'
    BY <1>0, <1>1, <1>2 DEF AbsentInv, AbsentHasEntry, LastWord
  <1> QED
    BY <1>2, <1>4, <1>5 DEF AbsentInv

LEMMA StepAbsent ==
  ASSUME ~Kicks, RoomInv, TokenInv, OrderlyInv, AbsentInv, [Next]_vars
  PROVE  AbsentInv'
  <1>0. TypeOK /\ SessionInv /\ reconnections \subseteq Conn
    BY DEF RoomInv, ServerTypeOK, TypeOK
  <1>1. ASSUME UNCHANGED <<membership, state, mailbox, sock>>
        PROVE  AbsentInv'
    BY <1>1 DEF membership, AbsentInv, AbsentIsQuiet, AbsentHasEntry, LastWord
  <1>2. ASSUME NEW s \in Session, ReserveSeat(s), UNCHANGED sock
        PROVE  AbsentInv'
    <2>1. /\ UNCHANGED <<clients, reconnections, state, mailbox>> /\ s \notin issued
          /\ reserved_seats' = [reserved_seats EXCEPT ![s] = "pending"]
      BY <1>2 DEF ReserveSeat
    <2>2. \A u \in reconnections : SessionOf[u] # s
      BY <1>0, <2>1 DEF SessionInv, EntriesApart, ListedHasJoined
    <2>3. \A u \in reconnections : reserved_seats'[SessionOf[u]] = reserved_seats[SessionOf[u]]
      BY <1>0, <2>1, <2>2, RoomAssumption DEF TypeOK
    <2> QED
      BY <1>2, <2>1, <2>3 DEF AbsentInv, AbsentIsQuiet, AbsentHasEntry, LastWord
  <1>3. CASE SeatTimeoutPasses /\ UNCHANGED sock
    BY <1>1, <1>3 DEF SeatTimeoutPasses
  <1>4. CASE (Settle \/ DisposeEvent) /\ UNCHANGED sock
    <2>1. CASE Dispose
      BY <2>1 DEF Dispose, AbsentInv, AbsentIsQuiet, AbsentHasEntry, LastWord
    <2> QED
      BY <1>1, <1>4, <2>1 DEF Settle, DisposeEvent
  <1>5. CASE UNCHANGED vars
    BY <1>1, <1>5 DEF vars, roomVars
  <1>6. CASE Actor /\ UNCHANGED sock
    BY <1>2, <1>3, <1>4, <1>6, CalmCases, ConnectAbsent, OnLeaveAbsent, CodeAbsent, LapseAbsent
  <1> QED
    BY <1>5, <1>6, SocketAbsent DEF Next

LEMMA AbsentInvariant ==
  ASSUME ~SecondSockets, ~Kicks
  PROVE  Spec => [](RoomInv /\ TokenInv /\ OrderlyInv /\ AbsentInv)
  <1>1. Init => AbsentInv
    BY DEF Init, RoomInit, AbsentInv, AbsentIsQuiet, AbsentHasEntry, LastWord
  <1>2. RoomInv /\ TokenInv /\ OrderlyInv /\ AbsentInv /\ [Next]_vars => AbsentInv'
    BY StepAbsent
  <1> QED
    BY <1>1, <1>2, OrderlyInvariant, PTL DEF Spec

\* Those that are waited for are exactly the listed clients that dropped, and
\* each has its seat: client state, entries and seats are kept apart in the
\* code and changed by different handlers (allow_reconnection, on_connect,
\* handle_deadlines, leave_client).
THEOREM AbsenteesAreHeld ==
  ASSUME ~SecondSockets, ~Kicks
  PROVE  Spec => []EntryForEachAbsentee
  <1>1. ASSUME RoomInv, OrderlyInv, AbsentInv
        PROVE  EntryForEachAbsentee
    <2>1. \A t \in reconnections : t \in clients
      BY <1>1, RoomAssumption DEF RoomInv, ServerTypeOK, TypeOK, OrderlyInv, EntryListed, SessionInv, CurrentIsListed
    <2> QED
      BY <1>1, <2>1 DEF EntryForEachAbsentee, AbsentInv, AbsentIsQuiet, AbsentHasEntry
  <1> QED
    BY <1>1, AbsentInvariant, PTL

-----------------------------------------------------------------------------
(* Who is gone.                                                            *)

\* Its socket has reported the end last.
Reported(c) == mailbox[c] # <<>> /\ mailbox[c][Len(mailbox[c])] = "disconnected"

\* A listed handle is not leaving, and when its socket is closed it is held or
\* the room will hear of it; one that knocks or joins is waited for.
GhostInv ==
  /\ phase = "stopped" => clients = {} /\ \A c \in Conn : mailbox[c] = <<>>
  /\ phase = "joining" => sock[joiner] = "waiting"
  /\ \A c \in Conn : Knocks(c) => sock[c] = "waiting"
  /\ \A c \in clients :
       /\ ~AlreadyLeaving(c) /\ sock[c] # "rejected"
       /\ sock[c] = "closed" => c \in reconnections \/ Reported(c)

LEMMA SocketGhost ==
  ASSUME ~JoinTimeouts, RoomInv, TokenInv, GhostInv, NEW c \in Conn, Socket(c)
  PROVE  GhostInv'
  <1> DEFINE Kept ==
               /\ phase = "stopped" => mailbox'[c] = mailbox[c]
               /\ phase = "joining" /\ joiner = c => sock'[c] = "waiting"
               /\ Knocks(c)' => sock'[c] = "waiting"
               /\ c \in clients => /\ state'[c] = state[c] /\ sock'[c] # "rejected"
                                   /\ sock'[c] = "closed" => Reported(c)'
  <1>0. OwnSocket(c) /\ TypeOK /\ mailbox[c] \in Seq(Event) /\ clients \subseteq Conn
    BY SocketCases DEF RoomInv, ServerTypeOK, TypeOK
  <1>1. /\ UNCHANGED <<phase, joiner, clients, reconnections, reply>>
        /\ \A d \in Conn : d # c => /\ sock'[d] = sock[d] /\ mailbox'[d] = mailbox[d] /\ state'[d] = state[d]
                                    /\ (Knocks(d)' <=> Knocks(d)) /\ (Reported(d)' <=> Reported(d))
    BY <1>0 DEF OwnSocket, membership, Knocks, Reported
  <1>2. ASSUME Kept
        PROVE  GhostInv'
    <2>1. phase' = "stopped" => clients' = {} /\ \A d \in Conn : mailbox'[d] = <<>>
      BY <1>1, <1>2 DEF GhostInv
    <2>2. phase' = "joining" => sock'[joiner'] = "waiting"
      BY <1>1, <1>2 DEF GhostInv, RoomInv, JoinerOK
    <2>3. \A d \in Conn : Knocks(d)' => sock'[d] = "waiting"
      BY <1>1, <1>2 DEF GhostInv
    <2>4. ASSUME NEW d \in clients'
          PROVE  /\ ~AlreadyLeaving(d)' /\ sock'[d] # "rejected"
                 /\ sock'[d] = "closed" => d \in reconnections' \/ Reported(d)'
      BY <1>0, <1>1, <1>2, <2>4 DEF GhostInv, AlreadyLeaving
    <2> QED
      BY <2>1, <2>2, <2>3, <2>4 DEF GhostInv
  <1>3. c \in clients => reply[c] = "ok" \/ (phase = "joining" /\ joiner = c)
    BY DEF TokenInv, KnownInv
  <1>4. /\ phase = "stopped" => clients = {}
        /\ phase = "joining" => reply[joiner] = "none"
        /\ Knocks(c) => sock[c] = "waiting" /\ reply[c] = "none"
        /\ c \in clients => sock[c] # "rejected"
    BY DEF TokenInv, KnownInv, TalkInv, GhostInv, Knocks
  <1>5. ASSUME NEW t \in Conn \cup {NoConn}, Dials(c, t)
        PROVE  Kept
    <2>1. sock[c] = "idle" /\ sock'[c] = "waiting" /\ state'[c] = state[c] /\ phase # "stopped"
      BY <1>5 DEF Dials
    <2>2. ~(phase = "joining" /\ joiner = c) /\ c \notin clients
      BY <1>3, <2>1 DEF TokenInv, KnownInv, TalkInv
    <2> QED
      BY <2>1, <2>2
  <1>6. ASSUME Speaks(c)
        PROVE  Kept
    <2>0. sock[c] = "open" /\ state'[c] = state[c] /\ sock'[c] \in {"open", "closed"}
      BY <1>6 DEF Speaks
    <2>1. ~Knocks(c) /\ ~(phase = "joining" /\ joiner = c)
      BY <1>4, <2>0 DEF GhostInv
    <2>2. CASE mailbox'[c] = mailbox[c] /\ phase = "stopped"
      BY <1>4, <2>0, <2>1, <2>2 DEF Knocks
    <2>3. ASSUME NEW w \in Words, mailbox'[c] = mailbox[c] \o w, phase # "stopped",
                 w = <<"data">> => sock'[c] = "open"
          PROVE  ~Knocks(c)' /\ (sock'[c] = "closed" => Reported(c)')
      <3>1. /\ \A i \in DOMAIN mailbox'[c] : \/ i \in DOMAIN mailbox[c] /\ mailbox'[c][i] = mailbox[c][i]
                                             \/ \E k \in DOMAIN w : mailbox'[c][i] = w[k]
            /\ mailbox'[c] # <<>> /\ mailbox'[c][Len(mailbox'[c])] = w[Len(w)]
        BY <1>0, <2>3, MailGrows
      <3>2. (\A k \in DOMAIN w : w[k] # "connect") /\ (w # <<"data">> => w[Len(w)] = "disconnected")
        BY DEF Words
      <3> QED
        BY <2>1, <2>3, <3>1, <3>2 DEF Knocks, Reported
    <2>4. CASE \E w \in Words : mailbox'[c] = mailbox[c] \o w /\ phase # "stopped"
                                /\ (w = <<"data">> => sock'[c] = "open")
      BY <2>0, <2>1, <2>3, <2>4
    <2> QED
      BY <1>6, <2>2, <2>4 DEF Speaks
  <1>7. ASSUME GoesOn(c)
        PROVE  Kept
    <2>1. mailbox'[c] = mailbox[c] /\ (Knocks(c)' <=> Knocks(c))
      BY <1>7 DEF GoesOn, Knocks
    <2>2. CASE sock[c] = "waiting" /\ reply[c] = "ok" /\ sock'[c] = "open" /\ state'[c] = state[c]
      BY <1>4, <2>1, <2>2
    <2>3. CASE sock[c] = "waiting" /\ reply[c] = "err" /\ sock'[c] = "rejected" /\ state'[c] = state[c]
      BY <1>3, <1>4, <2>1, <2>3
    <2>4. CASE sock[c] = "rejected" /\ sock'[c] = "closed" /\ state'[c] = state[c]
      BY <1>4, <2>1, <2>4 DEF GhostInv
    <2>5. CASE sock[c] = "waiting" /\ reply[c] = "none" /\ NoAnswerComes
      <3>1. phase = "stopped" /\ clients = {} /\ ~Knocks(c)
        BY <1>4, <2>5 DEF NoAnswerComes, GhostInv, Knocks
      <3> QED
        BY <2>1, <3>1
    <2> QED
      BY <1>7, <2>2, <2>3, <2>4, <2>5 DEF GoesOn
  <1> QED
    BY <1>2, <1>5, <1>6, <1>7, SocketCases DEF RoomInv

\* What is left of the invariant for the others when an event is taken.
LEMMA TakenGhost ==
  ASSUME TypeOK, TokenInv, GhostInv, UNCHANGED sock, NEW c \in Conn, NEW e, Takes(c, e)
  PROVE  /\ \A d \in Conn : Knocks(d)' => sock'[d] = "waiting"
         /\ e = "connect" => sock[c] = "waiting"
         /\ \A d \in Conn : d # c => (Reported(d)' <=> Reported(d))
         /\ e # "disconnected" /\ Reported(c) => Reported(c)'
  <1>1. ~Knocks(c)' /\ \A d \in Conn : d # c => (Knocks(d)' <=> Knocks(d)) /\ (Reported(d)' <=> Reported(d))
    BY KnockTaken, MailShrinks DEF TokenInv, Knocks, Reported
  <1>2. e = "connect" => Knocks(c)
    BY MailShrinks DEF Knocks
  <1>3. ASSUME e # "disconnected", Reported(c)
        PROVE  Reported(c)'
    <2>0. /\ Len(mailbox'[c]) = Len(mailbox[c]) - 1 /\ Len(mailbox[c]) \in Nat \ {0}
          /\ DOMAIN mailbox'[c] = 1 .. Len(mailbox'[c])
      BY MailShrinks
    <2>1. /\ mailbox[c][1] = e /\ mailbox[c][Len(mailbox[c])] = "disconnected"
          /\ \A i \in DOMAIN mailbox'[c] : mailbox'[c][i] = mailbox[c][i + 1]
      BY <1>3, MailShrinks DEF Reported
    <2>2. Len(mailbox[c]) # 1
      BY <1>3, <2>1
    <2>3. Len(mailbox'[c]) \in DOMAIN mailbox'[c] /\ Len(mailbox'[c]) + 1 = Len(mailbox[c])
      <3>1. \A m \in Nat \ {0} : m # 1 => m - 1 \in 1 .. (m - 1) /\ (m - 1) + 1 = m
        OBVIOUS
      <3> QED
        BY <2>0, <2>2, <3>1
    <2>4. mailbox'[c][Len(mailbox'[c])] = "disconnected"
      BY <2>1, <2>3
    <2>5. mailbox'[c] # <<>>
      BY <2>3
    <2> QED
      BY <2>4, <2>5 DEF Reported
  <1> QED
    BY <1>1, <1>2, <1>3 DEF GhostInv

\* It is enough that those still listed are as they were, or have just come.
LEMMA GhostKept ==
  ASSUME TypeOK, GhostInv, UNCHANGED sock, phase # "stopped", phase' \in {"idle", "settle"},
         \A d \in Conn : Knocks(d)' => sock'[d] = "waiting",
         \A d \in clients' :
           \/ /\ d \in clients /\ state'[d] = state[d]
              /\ d \in reconnections => d \in reconnections'
              /\ Reported(d) => Reported(d)'
           \/ state'[d] \in {"Joined", "Reconnected"} /\ sock[d] = "waiting"
           \/ state'[d] = "Reconnecting" /\ d \in reconnections' /\ sock[d] = "closed"
  PROVE  GhostInv'
  <1>1. ASSUME NEW d \in clients'
        PROVE  /\ ~AlreadyLeaving(d)' /\ sock'[d] # "rejected"
               /\ sock'[d] = "closed" => d \in reconnections' \/ Reported(d)'
    BY <1>1 DEF GhostInv, AlreadyLeaving
  <1> QED
    BY <1>1 DEF GhostInv

LEMMA ConnectGhost ==
  ASSUME RoomInv, TokenInv, OrderlyInv, AbsentInv, GhostInv, UNCHANGED sock,
         \/ \E c \in Conn : Reconnect(c) \/ RefuseConnect(c) \/ BeginJoin(c)
         \/ JoinSucceeds \/ JoinFails
  PROVE  GhostInv'
  <1>0. TypeOK /\ SessionInv /\ clients \subseteq Conn
    BY DEF RoomInv, ServerTypeOK, TypeOK
  <1>1. ASSUME NEW c \in Conn, Reconnect(c)
        PROVE  GhostInv'
    <2>1. /\ Takes(c, "connect") /\ phase = "idle" /\ phase' = "settle"
          /\ token[c] \in reconnections /\ reconnections' = reconnections \ {token[c]}
          /\ SessionOf[token[c]] = SessionOf[c] /\ clients' = Relisted(c)
          /\ state' = [state EXCEPT ![token[c]] = "Reconnected", ![c] = "Reconnected"]
      BY <1>1 DEF Reconnect, Takes, SpendToken, TokenValid
    <2>2. /\ \A d \in Conn : Knocks(d)' => sock'[d] = "waiting"
          /\ sock[c] = "waiting" /\ \A d \in Conn : d # c => (Reported(d)' <=> Reported(d))
      BY <1>0, <2>1, TakenGhost
    <2>3. state'[c] = "Reconnected" /\ \A d \in Conn : d # c /\ d # token[c] => state'[d] = state[d]
      BY <1>0, <2>1 DEF TypeOK
    <2>4. current[SessionOf[c]] = token[c]
      BY <2>1 DEF OrderlyInv, EntryListed
    <2>5. \A d \in clients' : d = c \/ (d \in clients /\ d # c /\ d # token[c])
      BY <2>1, <2>4 DEF Relisted
    <2> QED
      BY <1>0, <2>1, <2>2, <2>3, <2>5, GhostKept
  <1>2. ASSUME NEW c \in Conn, RefuseConnect(c)
        PROVE  GhostInv'
    <2>1. /\ Takes(c, "connect") /\ phase = "idle" /\ phase' = "settle"
          /\ UNCHANGED <<clients, reconnections, state>>
      BY <1>2 DEF RefuseConnect, Takes, membership
    <2>2. /\ \A d \in Conn : Knocks(d)' => sock'[d] = "waiting"
          /\ \A d \in Conn : d # c => (Reported(d)' <=> Reported(d))
      BY <1>0, <2>1, TakenGhost
    <2>3. c \notin clients
      BY <1>0, <2>1, KnockTaken DEF TokenInv, KnownInv
    <2> QED
      BY <1>0, <2>1, <2>2, <2>3, GhostKept
  <1>3. ASSUME NEW c \in Conn, BeginJoin(c)
        PROVE  GhostInv'
    <2>1. /\ Takes(c, "connect") /\ phase = "idle" /\ phase' = "joining" /\ joiner' = c
          /\ clients' = clients \cup {c} /\ reconnections' = reconnections
          /\ state' = [state EXCEPT ![c] = "Joining"]
      BY <1>3 DEF BeginJoin, Takes
    <2>2. /\ \A d \in Conn : Knocks(d)' => sock'[d] = "waiting"
          /\ sock[c] = "waiting" /\ \A d \in Conn : d # c => (Reported(d)' <=> Reported(d))
      BY <1>0, <2>1, TakenGhost
    <2>3. state'[c] = "Joining" /\ \A d \in Conn : d # c => state'[d] = state[d]
      BY <1>0, <2>1 DEF TypeOK
    <2>4. ASSUME NEW d \in clients'
          PROVE  /\ ~AlreadyLeaving(d)' /\ sock'[d] # "rejected"
                 /\ sock'[d] = "closed" => d \in reconnections' \/ Reported(d)'
      BY <1>0, <2>1, <2>2, <2>3, <2>4 DEF GhostInv, AlreadyLeaving
    <2> QED
      BY <2>1, <2>2, <2>4 DEF GhostInv
  <1>4. CASE JoinSucceeds \/ JoinFails
    <2>0. PICK j : j = joiner
      OBVIOUS
    <2>1. /\ j \in Conn /\ phase = "joining" /\ phase' = "settle" /\ sock[j] = "waiting"
          /\ UNCHANGED <<reconnections, mailbox>> /\ clients' \subseteq clients
          /\ \/ state' = [state EXCEPT ![j] = "Joined"]
             \/ state' = [state EXCEPT ![j] = "Leaving"] /\ j \notin clients'
      BY <1>4, <2>0 DEF RoomInv, JoinerOK, JoinSucceeds, JoinFails, RetainOthers, GhostInv
    <2>2. \A d \in Conn : d # j => state'[d] = state[d]
      BY <1>0, <2>1 DEF TypeOK
    <2>3. j \in clients' => state'[j] = "Joined"
      BY <1>0, <2>1 DEF TypeOK
    <2>4. \A d \in Conn : (Reported(d)' <=> Reported(d)) /\ (Knocks(d)' <=> Knocks(d))
      BY <2>1 DEF Reported, Knocks
    <2>5. \A d \in Conn : Knocks(d)' => sock'[d] = "waiting"
      BY <2>4 DEF GhostInv
    <2> QED
      BY <1>0, <2>1, <2>2, <2>3, <2>4, <2>5, GhostKept
  <1> QED
    BY <1>1, <1>2, <1>3, <1>4

LEMMA OnLeaveGhost ==
  ASSUME RoomInv, TokenInv, OrderlyInv, AbsentInv, GhostInv, UNCHANGED sock,
         NEW c \in Conn, NEW e \in {"leave", "disconnected"}, OnLeave(c, e)
  PROVE  GhostInv'
  <1>0. TypeOK /\ SessionInv /\ Takes(c, e) /\ phase = "idle" /\ phase' = "settle" /\ clients \subseteq Conn
    BY DEF RoomInv, ServerTypeOK, TypeOK, OnLeave, Takes
  <1>1. /\ \A d \in Conn : Knocks(d)' => sock'[d] = "waiting"
        /\ \A d \in Conn : d # c => (Reported(d)' <=> Reported(d))
    BY <1>0, TakenGhost
  <1>2. CASE UNCHANGED <<membership, state>> /\ (~IsCurrent(c) \/ AlreadyLeaving(c))
    <2>1. c \notin clients
      <3>1. ASSUME c \in clients
            PROVE  IsCurrent(c) /\ ~AlreadyLeaving(c)
        <4>1. current[SessionOf[c]] # NoConn /\ SessionOf[c] \in Session
          BY <1>0, <3>1, RoomAssumption DEF SessionInv, CurrentIsListed
        <4>2. current[SessionOf[c]] \in clients /\ SessionOf[current[SessionOf[c]]] = SessionOf[c]
          BY <1>0, <4>1 DEF SessionInv, CurrentIsListed
        <4> QED
          BY <3>1, <4>2 DEF OrderlyInv, OneHandlePerSession, IsCurrent, GhostInv
      <3> QED
        BY <1>2, <3>1
    <2> QED
      BY <1>0, <1>1, <1>2, <2>1, GhostKept DEF membership
  <1>3. CASE IsCurrent(c) /\ LeaveForGood(c, e = "leave")
    <2>1. /\ reconnections' = reconnections /\ clients' = {d \in clients : SessionOf[d] \notin {SessionOf[c]}}
          /\ \E to \in ClientState : state' = [state EXCEPT ![c] = to]
      BY <1>3 DEF LeaveForGood, RetainOthers, ClientState
    <2>2. \A d \in clients' : d \in clients /\ d # c /\ state'[d] = state[d]
      BY <1>0, <2>1 DEF TypeOK
    <2> QED
      BY <1>0, <1>1, <2>1, <2>2, GhostKept
  <1>4. ASSUME NEW untimed \in BOOLEAN, IsCurrent(c), HoldSeat(c, untimed)
        PROVE  GhostInv'
    <2>1. /\ reconnections' = reconnections \cup {c} /\ clients' = clients
          /\ state' = [state EXCEPT ![c] = "Reconnecting"]
      BY <1>4 DEF HoldSeat
    <2>2. state'[c] = "Reconnecting" /\ \A d \in Conn : d # c => state'[d] = state[d]
      BY <1>0, <2>1 DEF TypeOK
    <2>3. sock[c] = "closed"
      BY <2>1, OnLeaveAbsent DEF AbsentInv, AbsentIsQuiet
    <2> QED
      BY <1>0, <1>1, <2>1, <2>2, <2>3, GhostKept
  <1> QED
    BY <1>2, <1>3, <1>4, OnLeaveAbsent

LEMMA CodeGhost ==
  ASSUME RoomInv, TokenInv, AbsentInv, GhostInv, UNCHANGED sock, RoomCode \/ \E c \in Conn : OnMessage(c)
  PROVE  GhostInv'
  <1>0. TypeOK /\ phase = "idle" /\ phase' = "settle" /\ clients \subseteq Conn
    BY DEF RoomInv, ServerTypeOK, TypeOK, RoomCode, OnMessage, Takes
  <1>1. /\ \A d \in Conn : Knocks(d)' => sock'[d] = "waiting"
        /\ \A d \in Conn : Reported(d) => Reported(d)'
    <2>1. CASE RoomCode
      BY <2>1 DEF RoomCode, Knocks, Reported, GhostInv
    <2>2. ASSUME NEW c \in Conn, OnMessage(c)
          PROVE  /\ \A d \in Conn : Knocks(d)' => sock'[d] = "waiting"
                 /\ \A d \in Conn : Reported(d) => Reported(d)'
      BY <1>0, <2>2, TakenGhost DEF OnMessage
    <2> QED
      BY <2>1, <2>2
  <1>2. \A d \in clients' : d \in clients /\ state'[d] = state[d] /\ (d \in reconnections => d \in reconnections')
    <2>1. CASE SetLocked \/ Disconnect \/ UNCHANGED <<membership, state>>
      BY <2>1 DEF SetLocked, Disconnect, membership
    <2>2. ASSUME NEW s \in Session, RemoveClient(s)
          PROVE  \A d \in clients' : d \in clients /\ state'[d] = state[d] /\ (d \in reconnections => d \in reconnections')
      BY <2>2 DEF RemoveClient, RetainOthers, EntriesWithout, HandlesOf
    <2> QED
      BY <2>1, <2>2 DEF RoomCode, OnMessage, RunHandler
  <1> QED
    BY <1>0, <1>1, <1>2, GhostKept

LEMMA StepGhost ==
  ASSUME ~Kicks, ~JoinTimeouts, RoomInv, TokenInv, OrderlyInv, AbsentInv, GhostInv, [Next]_vars
  PROVE  GhostInv'
  <1>0. TypeOK /\ clients \subseteq Conn
    BY DEF RoomInv, ServerTypeOK, TypeOK
  <1>1. ASSUME UNCHANGED <<mailbox, sock>>
        PROVE  \A d \in Conn : (Reported(d)' <=> Reported(d)) /\ (Knocks(d)' <=> Knocks(d))
    BY <1>1 DEF Reported, Knocks
  <1>2. ASSUME UNCHANGED <<clients, reconnections, state, mailbox, sock>>,
               phase # "stopped", phase' \in {"idle", "settle"}
        PROVE  GhostInv'
    <2>1. \A d \in Conn : Knocks(d)' => sock'[d] = "waiting"
      BY <1>1, <1>2 DEF GhostInv
    <2> QED
      BY <1>0, <1>1, <1>2, <2>1, GhostKept
  <1>3. ASSUME NEW T \in SUBSET TimedEntries, NEW S \in SUBSET PendingSeats, HandleDeadlines(T, S), UNCHANGED sock
        PROVE  GhostInv'
    <2>1. /\ reconnections' = reconnections \ T /\ mailbox' = mailbox /\ phase = "idle" /\ phase' = "settle"
          /\ \A d \in clients' : d \in clients /\ d \notin T /\ state'[d] = state[d]
      BY <1>3, LapseAbsent DEF HandleDeadlines, DropEntries
    <2>2. \A d \in Conn : Knocks(d)' => sock'[d] = "waiting"
      BY <1>1, <1>3, <2>1 DEF GhostInv
    <2> QED
      BY <1>0, <1>1, <1>3, <2>1, <2>2, GhostKept
  <1>4. CASE Dispose /\ UNCHANGED sock
    BY <1>4 DEF Dispose, GhostInv, Knocks
  <1>5. CASE (\E s \in Session : ReserveSeat(s)) /\ UNCHANGED sock
    BY <1>2, <1>5 DEF ReserveSeat
  <1>6. CASE SeatTimeoutPasses /\ UNCHANGED sock
    BY <1>2, <1>6 DEF SeatTimeoutPasses, membership
  <1>7. CASE (Settle \/ DisposeEvent) /\ UNCHANGED sock
    BY <1>2, <1>4, <1>7 DEF Settle, DisposeEvent, membership
  <1>8. CASE UNCHANGED vars
    <2>1. UNCHANGED <<clients, reconnections, state, mailbox, sock, phase, joiner>>
      BY <1>8 DEF vars, roomVars, membership
    <2> QED
      BY <1>1, <2>1 DEF GhostInv, AlreadyLeaving, Knocks, Reported
  <1>9. CASE Actor /\ UNCHANGED sock
    BY <1>3, <1>5, <1>6, <1>7, <1>9, CalmCases, ConnectGhost, OnLeaveGhost, CodeGhost
  <1> QED
    BY <1>8, <1>9, SocketGhost DEF Next

\* When everything a closed connection said has been heard, its client is
\* listed only if it is held: no leave, drop, refusal, expiry or removal
\* forgets one (handle_socket sends the disconnect last, on_leave and
\* on_disconnected act on it).
THEOREM NobodyLeftBehind ==
  ASSUME ~SecondSockets, ~Kicks, ~JoinTimeouts
  PROVE  Spec => []NoGhost
  <1>1. Init => GhostInv
    BY DEF Init, RoomInit, GhostInv, Knocks
  <1>2. RoomInv /\ TokenInv /\ OrderlyInv /\ AbsentInv /\ GhostInv /\ [Next]_vars => GhostInv'
    BY StepGhost
  <1>3. GhostInv => NoGhost
    BY DEF GhostInv, NoGhost, Reported
  <1> QED
    BY <1>1, <1>2, <1>3, AbsentInvariant, PTL DEF Spec

-----------------------------------------------------------------------------
(* An idle room is wanted.                                                 *)

\* Whenever the actor waits for its next event, it has no reason to dispose of
\* the room: the turn that gave one has ended with the disposal.
NothingDue == phase = "idle" => ~request_dispose /\ ~ShouldAutoDispose

\* An idle room that was visited, or waited for in vain, still has somebody to
\* wait for: a client that is held, a seat that was given, a connection that is
\* there, or the report of one that is gone.
RoomIsWanted ==
  phase = "idle" /\ AutoDispose /\ NobodyToWaitFor =>
    \/ reconnections # {} \/ PendingSeats # {}
    \/ \E c \in clients : sock[c] \in {"waiting", "open"} \/ Reported(c)

LEMMA SocketDue ==
  ASSUME ServerTypeOK, NothingDue, NEW c \in Conn, Socket(c)
  PROVE  NothingDue'
  <1>1. OwnSocket(c) /\ state'[c] \in {state[c], "Leaving"}
    BY SocketCases DEF Dials, Speaks, GoesOn
  <1>2. /\ UNCHANGED <<phase, clients, reconnections, reserved_seats, request_dispose, overdue, had_clients>>
        /\ clients \subseteq Conn
        /\ \A d \in Conn : d # c => state'[d] = state[d]
    BY <1>1 DEF OwnSocket, membership, settings, ServerTypeOK, TypeOK
  <1>3. \A d \in clients : state'[d] = "Closed" => state[d] = "Closed"
    BY <1>1, <1>2
  <1> QED
    BY <1>2, <1>3 DEF NothingDue, ShouldAutoDispose, PendingSeats, NobodyToWaitFor

LEMMA StepDue ==
  ASSUME ServerTypeOK, NothingDue, [Next]_vars
  PROVE  NothingDue'
  <1>1. ASSUME phase' # "idle"
        PROVE  NothingDue'
    BY <1>1 DEF NothingDue
  <1>2. CASE \E c \in Conn : Socket(c)
    BY <1>2, SocketDue
  <1>3. CASE Settle
    <2>1. CASE request_dispose \/ ShouldAutoDispose
      BY <1>1, <1>3, <2>1 DEF Settle, Dispose
    <2>2. CASE ~request_dispose /\ ~ShouldAutoDispose
      BY <1>3, <2>2 DEF Settle, NothingDue, ShouldAutoDispose, PendingSeats, NobodyToWaitFor, membership, settings
    <2> QED
      BY <2>1, <2>2
  <1>4. CASE \E c \in Conn : TakesEvent(c)
    BY <1>1, <1>4 DEF TakesEvent, Reconnect, RefuseConnect, BeginJoin, OnMessage, OnLeave
  <1>5. CASE (\E s \in Session : ReserveSeat(s) \/ (Kicks /\ Kick(s))) \/ JoinSucceeds \/ JoinFails
    BY <1>1, <1>5 DEF ReserveSeat, Kick, JoinSucceeds, JoinFails
  <1>6. CASE RoomCode \/ DisposeEvent \/ Deadlines
    BY <1>1, <1>6 DEF RoomCode, DisposeEvent, Dispose, Deadlines, HandleDeadlines, SeatTimeoutPasses
  <1>7. CASE UNCHANGED vars
    BY <1>7 DEF vars, roomVars, membership, settings, NothingDue, ShouldAutoDispose, PendingSeats, NobodyToWaitFor
  <1> QED
    BY <1>2, <1>3, <1>4, <1>5, <1>6, <1>7 DEF Next, Actor

\* The loop never waits with a disposal due, whatever clients and the admin
\* panel do: every handler ends in the check of request_dispose and of
\* should_auto_dispose.
THEOREM DisposalIsNotMissed == Spec => []NothingDue
  <1>1. Init => NothingDue
    BY DEF Init, RoomInit, NothingDue, ShouldAutoDispose, NobodyToWaitFor
  <1>2. ServerTypeOK /\ NothingDue /\ [Next]_vars => NothingDue'
    BY StepDue
  <1>3. Spec => []ServerTypeOK
    BY TypeCorrect
  <1> QED
    BY <1>1, <1>2, <1>3, PTL DEF Spec

\* A room without clients, seats and absentees does not sit idle: what the
\* room waits for will be heard of, for a socket that is there reports its end,
\* a given seat and a held client expire or are used.
THEOREM IdleRoomsAreWanted ==
  ASSUME ~SecondSockets, ~Kicks, ~JoinTimeouts
  PROVE  Spec => []RoomIsWanted
  <1>1. Init => GhostInv
    BY DEF Init, RoomInit, GhostInv, Knocks
  <1>2. RoomInv /\ TokenInv /\ OrderlyInv /\ AbsentInv /\ GhostInv /\ [Next]_vars => GhostInv'
    BY StepGhost
  <1>3. ASSUME RoomInv, TokenInv, GhostInv, NothingDue
        PROVE  RoomIsWanted
    <2> SUFFICES ASSUME phase = "idle", AutoDispose, NobodyToWaitFor, reconnections = {}, PendingSeats = {}
                 PROVE  \E c \in clients : sock[c] \in {"waiting", "open"} \/ Reported(c)
      BY DEF RoomIsWanted
    <2>1. PICK c \in clients : state[c] # "Closed"
      BY <1>3 DEF NothingDue, ShouldAutoDispose
    <2>2. c \in Conn /\ sock[c] \in Sock
      BY <1>3 DEF RoomInv, ServerTypeOK, TypeOK
    <2>3. sock[c] # "rejected" /\ (sock[c] = "closed" => Reported(c))
      BY <1>3 DEF GhostInv
    <2>4. sock[c] # "idle"
      BY <1>3, <2>2 DEF TokenInv, KnownInv, TalkInv
    <2> QED
      BY <2>2, <2>3, <2>4 DEF Sock
  <1> QED
    BY <1>1, <1>2, <1>3, AbsentInvariant, DisposalIsNotMissed, PTL DEF Spec
=============================================================================
