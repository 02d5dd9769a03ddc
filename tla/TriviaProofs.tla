---------------------------- MODULE TriviaProofs ----------------------------
(***************************************************************************)
(* Proofs about the trivia room, for every set of sessions and accounts,   *)
(* every number of rounds, places and restarts.  No command is executed    *)
(* while another is queued, so that what a command finds is what the one   *)
(* that enqueued it has left: Course says, for each of them, in which      *)
(* phase it may be due and which timers and questions there are then.      *)
(***************************************************************************)
EXTENDS Trivia, FiniteSetTheorems, TLAPS

Player == [ready : BOOLEAN, correct : 0 .. TotalRounds, answered : BOOLEAN]

Commands ==
  [op : {"Join"}, session : Session, wants : BOOLEAN]
  \cup [op : {"Leave", "ToggleReady", "Restart", "StartGame"}, session : Session]
  \cup [op : {"Answer"}, session : Session, right : BOOLEAN]
  \cup [op : {"StartRound"}, round : Nat]
  \cup [op : {"GenerateQuestions", "QuestionsReady", "EndRound", "Advance", "FinishGame"}]

\* There is never more than one command in the queue.
OneCommand == queue = <<>> \/ \E c \in Commands : queue = <<c>>

\* The command that is executed next.
Due(op) == queue # <<>> /\ Head(queue).op = op
DueFor(op, s) == Due(op) /\ Head(queue).session = s

Typed ==
  /\ account = [s \in Session |-> account[s]]
  /\ conn \in [Session -> {"new", "connected", "away", "kept", "gone"}]
  /\ open \in BOOLEAN
  /\ phase \in Phase /\ round \in 0 .. TotalRounds
  /\ owner \in Session \cup {Nobody}
  /\ spectators \subseteq Session /\ winners \subseteq Range(account)
  /\ DOMAIN players \subseteq Session /\ players \in [DOMAIN players -> Player]
  /\ answers_in \in Nat /\ DOMAIN round_answers \subseteq Session
  /\ pending \subseteq 1 .. TotalRounds /\ needed \in 0 .. TotalRounds
  /\ in_flight \in BOOLEAN /\ task \in BOOLEAN
  /\ rounds \in 0 .. 1 /\ breaks \in 0 .. 1
  /\ results \in Nat /\ restarts \in 0 .. MaxRestarts

\* The rounds that are still to come have their questions.
Supplied == round + 1 .. TotalRounds \subseteq pending
Deserted == DOMAIN players = {}

\* At most one timer is armed, and only in the phase that it ends, or when
\* everybody has left since.
Timers ==
  /\ rounds + breaks <= 1
  /\ rounds = 1 => phase = "question" \/ (phase = "finished" /\ Deserted)
  /\ breaks = 1 => phase = "reveal" \/ (phase = "finished" /\ Deserted /\ Supplied)

\* What each phase waits for.
Waiting ==
  /\ phase \in {"lobby", "generating"} => round = 0 /\ pending \in {{}, 1 .. TotalRounds}
  /\ phase = "generating" =>
       \/ Due("StartRound")
       \/ needed = 1 /\ pending = {} /\ (in_flight \/ Due("GenerateQuestions"))
  /\ phase = "question" => (rounds = 1 \/ Due("EndRound")) /\ Supplied
  /\ phase = "reveal" =>
       /\ Supplied
       /\ breaks = 1 \/ Due("Advance") \/ Due("StartRound") \/ Due("FinishGame")

\* The task that makes the questions is the batch in flight.
Batch ==
  /\ in_flight <=> task \/ Due("QuestionsReady")
  /\ Due("QuestionsReady") => ~task

\* When the commands of the game are due.
GameCommands ==
  /\ Due("StartRound") =>
       /\ Head(queue).round = round + 1 /\ round < TotalRounds
       /\ rounds = 0 /\ breaks = 0
       /\ phase = "lobby" \/ (phase \in {"generating", "reveal"} /\ Supplied)
            \/ (phase = "finished" /\ Deserted /\ Supplied)
  /\ Due("Advance") =>
       /\ rounds = 0 /\ breaks = 0 /\ Supplied
       /\ phase = "reveal" \/ (phase = "finished" /\ Deserted)
  /\ Due("FinishGame") =>
       /\ phase # "lobby" /\ (phase \in {"question", "reveal"} => Supplied)
       /\ Deserted \/ (phase = "reveal" /\ rounds = 0 /\ breaks = 0)

Course == Timers /\ Waiting /\ Batch /\ GameCommands

\* Who takes part.  The session that leaves is a player or spectator until its
\* command has run.
Members ==
  /\ DOMAIN players \cap spectators = {}
  /\ \A p, q \in DOMAIN players : account[p] = account[q] => p = q
  /\ IF Deserted THEN owner = Nobody ELSE owner \in DOMAIN players
  /\ \A s \in Session : /\ DueFor("Join", s) => conn[s] = "new"
                        /\ DueFor("Leave", s) => conn[s] = "gone"
                        /\ s \in Present <=> /\ s \in DOMAIN players \cup spectators
                                             /\ ~DueFor("Leave", s)
  /\ \A s \in DOMAIN round_answers : conn[s] # "new"

Places ==
  /\ Cardinality(DOMAIN players) <= MaxPlayers /\ Cardinality(spectators) <= MaxSpectators
  /\ meta.players = Cardinality(DOMAIN players)
  /\ meta.spectators = Cardinality(spectators)

Answers ==
  phase = "question" =>
    /\ {p \in DOMAIN players : players[p].answered} = DOMAIN players \cap DOMAIN round_answers
    /\ answers_in = Cardinality(DOMAIN round_answers)

TriviaInv ==
  OneCommand /\ Typed /\ Course /\ Members /\ Places /\ Answers /\ OneScorePerRound

-----------------------------------------------------------------------------
(* The queue.                                                              *)

LEMMA NothingDue ==
  /\ queue = <<>> => \A op : ~Due(op)
  /\ queue' = <<>> => \A op : ~Due(op)'
  BY DEF Due

LEMMA CommandDue ==
  ASSUME NEW c, queue' = <<c>>
  PROVE  Head(queue') = c /\ \A op : Due(op)' <=> c.op = op
  BY DEF Due

LEMMA DoneNext ==
  ASSUME OneCommand, queue # <<>>
  PROVE  /\ Done(<<>>) => queue' = <<>>
         /\ \A c : Done(<<c>>) => queue' = <<c>>
  <1>1. PICK c \in Commands : queue = <<c>>
    BY DEF OneCommand
  <1>2. Tail(queue) = <<>>
    BY <1>1
  <1>3. <<>> \o <<>> = <<>> /\ \A d : <<>> \o <<d>> = <<d>>
    OBVIOUS
  <1> QED
    BY <1>2, <1>3 DEF Done

\* The command at the head of the queue is executed.
LEMMA ExecuteCases ==
  ASSUME OneCommand, Execute
  PROVE  \/ \E s \in Session, wants \in BOOLEAN : DueFor("Join", s) /\ Join(s, wants)
         \/ \E s \in Session : DueFor("Leave", s) /\ Leave(s)
         \/ \E s \in Session : DueFor("ToggleReady", s) /\ ToggleReady(s)
         \/ \E s \in Session : DueFor("Restart", s) /\ Restart(s)
         \/ \E s \in Session : DueFor("StartGame", s) /\ StartGame(s)
         \/ \E s \in Session, right \in BOOLEAN : DueFor("Answer", s) /\ Answer(s, right)
         \/ Due("GenerateQuestions") /\ GenerateQuestions
         \/ Due("QuestionsReady") /\ QuestionsReady
         \/ \E r \in Nat : Due("StartRound") /\ Head(queue).round = r /\ StartRound(r)
         \/ Due("EndRound") /\ EndRound
         \/ Due("Advance") /\ Advance
         \/ Due("FinishGame") /\ FinishGame
  <1>1. PICK c \in Commands : queue = <<c>>
    BY DEF OneCommand, Execute
  <1>2. queue # <<>> /\ Head(queue) = c
    BY <1>1
  <1>3. CASE c \in [op : {"Join"}, session : Session, wants : BOOLEAN]
    <2>1. c.op = "Join" /\ c.session \in Session /\ c.wants \in BOOLEAN
      BY <1>3
    <2> QED
      BY <1>2, <2>1 DEF Execute, Due, DueFor
  <1>4. CASE c \in [op : {"Leave", "ToggleReady", "Restart", "StartGame"}, session : Session]
    <2>1. c.op \in {"Leave", "ToggleReady", "Restart", "StartGame"} /\ c.session \in Session
      BY <1>4
    <2> QED
      BY <1>2, <2>1 DEF Execute, Due, DueFor
  <1>5. CASE c \in [op : {"Answer"}, session : Session, right : BOOLEAN]
    <2>1. c.op = "Answer" /\ c.session \in Session /\ c.right \in BOOLEAN
      BY <1>5
    <2> QED
      BY <1>2, <2>1 DEF Execute, Due, DueFor
  <1>6. CASE c \in [op : {"StartRound"}, round : Nat]
    <2>1. c.op = "StartRound" /\ c.round \in Nat
      BY <1>6
    <2> QED
      BY <1>2, <2>1 DEF Execute, Due
  <1>7. CASE c \in [op : {"GenerateQuestions", "QuestionsReady", "EndRound", "Advance",
                          "FinishGame"}]
    <2>1. c.op \in {"GenerateQuestions", "QuestionsReady", "EndRound", "Advance", "FinishGame"}
      BY <1>7
    <2> QED
      BY <1>2, <2>1 DEF Execute, Due
  <1> QED
    BY <1>3, <1>4, <1>5, <1>6, <1>7 DEF Commands

-----------------------------------------------------------------------------
(* What a step keeps that leaves a part of the room alone.                 *)

\* The commands that the course of a game depends on.
GameOp == {"GenerateQuestions", "QuestionsReady", "StartRound", "EndRound", "Advance",
           "FinishGame"}
Trigger == {"QuestionsReady", "StartRound", "Advance", "FinishGame"}

LEMMA CourseKept ==
  ASSUME Course, UNCHANGED <<phase, round, questions, timers>>, Deserted => Deserted',
         \A op \in GameOp : ~Due(op), \A op \in Trigger : ~Due(op)'
  PROVE  Course'
  <1> USE DEF questions, timers, GameOp, Trigger
  <1>1. Supplied' = Supplied
    BY DEF Supplied
  <1>2. Timers'
    BY <1>1 DEF Course, Timers
  <1>3. Waiting'
    BY <1>1 DEF Course, Waiting
  <1>4. Batch' /\ GameCommands'
    BY DEF Course, Batch, GameCommands
  <1> QED
    BY <1>2, <1>3, <1>4 DEF Course

LEMMA MembersKept ==
  ASSUME Members, UNCHANGED <<account, conn, owner, spectators>>,
         DOMAIN players' = DOMAIN players,
         DOMAIN round_answers' \subseteq DOMAIN round_answers,
         \A s \in Session : ~DueFor("Leave", s),
         ~Due("Leave")', ~Due("Join")'
  PROVE  Members'
  <1>1. Present' = Present /\ Deserted' = Deserted
    BY DEF Present, Deserted
  <1>2. \A s \in Session : ~DueFor("Join", s)' /\ ~DueFor("Leave", s)'
    BY DEF DueFor
  <1> QED
    BY <1>1, <1>2 DEF Members

LEMMA PlacesKept ==
  ASSUME Places, UNCHANGED spectators, DOMAIN players' = DOMAIN players,
         UNCHANGED meta \/ SyncMeta
  PROVE  Places'
  BY DEF Places, SyncMeta

LEMMA AnswersKept ==
  ASSUME Answers, Typed, OneScorePerRound, phase' = "question" => phase = "question",
         UNCHANGED <<round, players, round_answers, answers_in>>
  PROVE  Answers' /\ OneScorePerRound'
  BY DEF Answers, OneScorePerRound, Typed, Player

\* The sets of sessions are finite.
LEMMA SessionsFinite ==
  ASSUME Typed
  PROVE  /\ IsFiniteSet(DOMAIN players) /\ Cardinality(DOMAIN players) \in Nat
         /\ IsFiniteSet(spectators) /\ Cardinality(spectators) \in Nat
         /\ IsFiniteSet(DOMAIN round_answers) /\ Cardinality(DOMAIN round_answers) \in Nat
  <1>1. \A S \in SUBSET Session : IsFiniteSet(S) /\ Cardinality(S) \in Nat
    BY TriviaAssumption, FS_Subset, FS_CardinalityType
  <1> QED
    BY <1>1 DEF Typed

LEMMA RoundsToCome == \A r, n \in Nat : r + 1 .. n \subseteq 1 .. n
  OBVIOUS

LEMMA LeftFinite ==
  ASSUME NEW S, NEW x, IsFiniteSet(S)
  PROVE  Cardinality(S \ {x}) <= Cardinality(S) /\ Cardinality(S \ {x}) \in Nat
  <1>1. S \ {x} \in SUBSET S
    OBVIOUS
  <1> QED
    BY <1>1, FS_Subset, FS_CardinalityType

LEMMA WithAndWithout ==
  ASSUME NEW f, NEW s, NEW v
  PROVE  /\ DOMAIN With(f, s, v) = DOMAIN f \cup {s}
         /\ \A t \in DOMAIN f \cup {s} : With(f, s, v)[t] = IF t = s THEN v ELSE f[t]
         /\ DOMAIN Without(f, s) = DOMAIN f \ {s}
         /\ \A t \in DOMAIN f \ {s} : Without(f, s)[t] = f[t]
         /\ With(f, s, v) = [t \in DOMAIN f \cup {s} |-> With(f, s, v)[t]]
         /\ Without(f, s) = [t \in DOMAIN f \ {s} |-> Without(f, s)[t]]
  BY DEF With, Without, Restrict

-----------------------------------------------------------------------------
(* The commands of the lobby.                                              *)

\* The session of the new client is nobody's yet.
LEMMA Newcomer ==
  ASSUME TriviaInv, NEW s \in Session, DueFor("Join", s)
  PROVE  /\ conn[s] = "new" /\ s \notin Present
         /\ s \notin DOMAIN players \cup spectators /\ s \notin DOMAIN round_answers
         /\ \A op \in GameOp : ~Due(op)
         /\ \A t \in Session : ~DueFor("Leave", t)
  <1>1. conn[s] = "new" /\ \A t \in Session : ~DueFor("Leave", t)
    BY DEF TriviaInv, Members, DueFor, Due
  <1> QED
    BY <1>1 DEF TriviaInv, Members, Present, GameOp, DueFor, Due

LEMMA TakeOver_Inv ==
  ASSUME TriviaInv, NEW s \in Session, DueFor("Join", s), NEW old \in Stale(s), TakeOver(s, old),
         UNCHANGED <<account, open, phase, round, winners, answers_in, questions, timers,
                     results, restarts>>,
         SyncMeta
  PROVE  TriviaInv'
  <1> USE DEF questions, timers
  <1>1. queue' = <<>> /\ \A op : ~Due(op)'
    BY DoneNext, NothingDue DEF TriviaInv, TakeOver, DueFor, Due
  <1>2. /\ old \in DOMAIN players /\ old # s /\ account[old] = account[s]
        /\ old \in Session
    BY DEF Stale, TriviaInv, Typed

  <1>3. /\ DOMAIN players' = (DOMAIN players \ {old}) \cup {s}
        /\ players'[s] = players[old]
        /\ \A t \in DOMAIN players \ {old, s} : players'[t] = players[t]
        /\ players' = [t \in DOMAIN players' |-> players'[t]]
    <2> DEFINE f == Without(players, old)
    <2>1. players' = [t \in DOMAIN f \cup {s} |-> IF t = s THEN players[old] ELSE f[t]]
      BY DEF TakeOver, With
    <2>2. DOMAIN f = DOMAIN players \ {old} /\ \A t \in DOMAIN players \ {old} : f[t] = players[t]
      BY WithAndWithout
    <2> HIDE DEF f
    <2>3. /\ DOMAIN players' = DOMAIN f \cup {s}
          /\ players' = [t \in DOMAIN f \cup {s} |-> players'[t]]
      BY <2>1
    <2>4. \A t \in DOMAIN f \cup {s} : players'[t] = IF t = s THEN players[old] ELSE f[t]
      BY <2>1
    <2>5. players' = [t \in DOMAIN players' |-> players'[t]]
      BY <2>3
    <2> QED
      BY <2>2, <2>3, <2>4, <2>5
  <1>4. /\ old \in DOMAIN round_answers
             => DOMAIN round_answers' = (DOMAIN round_answers \ {old}) \cup {s}
        /\ old \notin DOMAIN round_answers => round_answers' = round_answers
    <2> DEFINE f == Without(round_answers, old)
    <2>1. CASE old \in DOMAIN round_answers
      <3>1. round_answers' = With(f, s, round_answers[old])
        BY <2>1 DEF TakeOver
      <3>2. DOMAIN f = DOMAIN round_answers \ {old}
        BY WithAndWithout
      <3> HIDE DEF f
      <3>3. DOMAIN With(f, s, round_answers[old]) = DOMAIN f \cup {s}
        BY WithAndWithout
      <3> QED
        BY <2>1, <3>1, <3>2, <3>3
    <2>2. CASE old \notin DOMAIN round_answers
      BY <2>2 DEF TakeOver
    <2> QED
      BY <2>1, <2>2
  <1>5. /\ conn[s] = "new" /\ s \notin Present
        /\ s \notin DOMAIN players \cup spectators /\ s \notin DOMAIN round_answers
        /\ \A op \in GameOp : ~Due(op)
        /\ \A t \in Session : ~DueFor("Leave", t)
    BY Newcomer
  <1>6. OneCommand'
    BY <1>1 DEF OneCommand
  <1>7. Typed'
    <2>1. players' \in [DOMAIN players' -> Player] /\ DOMAIN players' \subseteq Session
      BY <1>2, <1>3 DEF TriviaInv, Typed
    <2>2. DOMAIN round_answers' \subseteq Session
      BY <1>4 DEF TriviaInv, Typed
    <2>3. conn' \in [Session -> {"new", "connected", "away", "kept", "gone"}]
      BY DEF TriviaInv, Typed, TakeOver
    <2>4. owner' \in Session \cup {Nobody} /\ UNCHANGED spectators
      BY DEF TriviaInv, Typed, TakeOver
    <2> QED
      BY <2>1, <2>2, <2>3, <2>4 DEF TriviaInv, Typed
  <1>8. Course'
    <2>1. ~Deserted
      BY <1>2 DEF Deserted
    <2> QED
      BY <1>1, <1>5, <2>1, CourseKept DEF TriviaInv, Trigger
  <1>9. Members'
    <2>1. /\ conn' = [conn EXCEPT ![old] = "gone", ![s] = "connected"]
          /\ owner' = IF owner = old THEN s ELSE owner
          /\ spectators' = spectators
      BY DEF TakeOver
    <2>2. \A t \in Session : t \in Present' <=> t = s \/ (t \in Present /\ t # old)
      BY <1>2, <2>1 DEF Present, TriviaInv, Typed
    <2>3. \A t \in Session : ~DueFor("Join", t)' /\ ~DueFor("Leave", t)'
      BY <1>1 DEF DueFor
    <2>4. ~Deserted /\ ~Deserted'
      BY <1>2, <1>3 DEF Deserted
    <2>5. \A t \in DOMAIN round_answers' : conn'[t] # "new"
      BY <1>2, <1>4, <2>1 DEF TriviaInv, Typed, Members
    <2>6. \A p, q \in DOMAIN players' : account'[p] = account'[q] => p = q
      BY <1>2, <1>3, <1>5 DEF TriviaInv, Members
    <2>7. old \notin spectators
      BY <1>2 DEF TriviaInv, Members
    <2>8. \A t \in Session : t \in Present <=> t \in DOMAIN players \cup spectators
      BY <1>5 DEF TriviaInv, Members
    <2>9. DOMAIN players' \cap spectators' = {} /\ owner' \in DOMAIN players'
      BY <1>2, <1>3, <1>5, <2>1, <2>4 DEF TriviaInv, Members
    <2> QED
      BY <1>3, <1>2, <2>1, <2>2, <2>3, <2>4, <2>5, <2>6, <2>7, <2>8, <2>9 DEF Members
  <1>10. Places'
    <2>1. Cardinality(DOMAIN players') = Cardinality(DOMAIN players)
      <3> DEFINE D == DOMAIN players \ {old}
      <3>1. IsFiniteSet(D) /\ Cardinality(D) = Cardinality(DOMAIN players) - 1
        BY <1>2, SessionsFinite, FS_RemoveElement DEF TriviaInv
      <3>2. s \notin D
        BY <1>5
      <3> HIDE DEF D
      <3>3. Cardinality(D \cup {s}) = Cardinality(D) + 1
        BY <3>1, <3>2, FS_AddElement
      <3> QED
        BY <1>3, <3>1, <3>3, SessionsFinite DEF TriviaInv, D
    <2> QED
      BY <2>1 DEF TriviaInv, Places, SyncMeta, TakeOver
  <1>11. Answers'
    <2> SUFFICES ASSUME phase = "question"
                 PROVE  Answers'
      BY DEF Answers
    <2>1. /\ {p \in DOMAIN players : players[p].answered}
               = DOMAIN players \cap DOMAIN round_answers
          /\ answers_in = Cardinality(DOMAIN round_answers)
      BY DEF TriviaInv, Answers
    <2>2. {p \in DOMAIN players' : players'[p].answered}
            = DOMAIN players' \cap DOMAIN round_answers'
      BY <1>2, <1>3, <1>4, <1>5, <2>1
    <2>3. Cardinality(DOMAIN round_answers') = Cardinality(DOMAIN round_answers)
      <3>1. CASE old \notin DOMAIN round_answers
        BY <1>4, <3>1
      <3>2. CASE old \in DOMAIN round_answers
        <4> DEFINE D == DOMAIN round_answers \ {old}
        <4>1. IsFiniteSet(D) /\ Cardinality(D) = Cardinality(DOMAIN round_answers) - 1
          BY <3>2, SessionsFinite, FS_RemoveElement DEF TriviaInv
        <4>2. s \notin D
          BY <1>5
        <4> HIDE DEF D
        <4>3. Cardinality(D \cup {s}) = Cardinality(D) + 1
          BY <4>1, <4>2, FS_AddElement
        <4> QED
          BY <1>4, <3>2, <4>1, <4>3, SessionsFinite DEF TriviaInv, D
      <3> QED
        BY <3>1, <3>2
    <2> QED
      BY <2>1, <2>2, <2>3 DEF Answers
  <1>12. OneScorePerRound'
    BY <1>2, <1>3 DEF TriviaInv, OneScorePerRound
  <1> QED
    BY <1>6, <1>7, <1>8, <1>9, <1>10, <1>11, <1>12 DEF TriviaInv


LEMMA JoinAsPlayer_Inv ==
  ASSUME TriviaInv, NEW s \in Session, DueFor("Join", s), Stale(s) = {}, CanPlay,
         JoinAsPlayer(s),
         UNCHANGED <<account, open, phase, round, winners, answers_in, questions, timers,
                     results, restarts>>,
         SyncMeta
  PROVE  TriviaInv'
  <1> USE DEF questions, timers
  <1>1. \/ queue' = <<>> /\ \A op : ~Due(op)'
        \/ /\ queue' = <<Command("GenerateQuestions")>>
           /\ \A op : Due(op)' <=> op = "GenerateQuestions"
    <2>1. queue # <<>>
      BY DEF DueFor, Due
    <2>2. queue' = <<>> \/ queue' = <<Command("GenerateQuestions")>>
      BY <2>1, DoneNext DEF TriviaInv, JoinAsPlayer
    <2>3. Command("GenerateQuestions").op = "GenerateQuestions"
      BY DEF Command
    <2> QED
      BY <2>2, <2>3, NothingDue, CommandDue
  <1>2. /\ conn[s] = "new" /\ s \notin Present
        /\ s \notin DOMAIN players \cup spectators /\ s \notin DOMAIN round_answers
        /\ \A op \in GameOp : ~Due(op)
        /\ \A t \in Session : ~DueFor("Leave", t)
    BY Newcomer
  <1>3. /\ DOMAIN players' = DOMAIN players \cup {s}
        /\ players'[s] = NewPlayer
        /\ \A t \in DOMAIN players : players'[t] = players[t]
        /\ players' = [t \in DOMAIN players' |-> players'[t]]
    BY <1>2 DEF JoinAsPlayer, With
  <1>4. phase = "lobby" /\ Cardinality(DOMAIN players) < MaxPlayers
    BY DEF CanPlay
  <1>5. OneCommand'
    <2>1. Command("GenerateQuestions") \in Commands
      BY DEF Command, Commands
    <2> QED
      BY <1>1, <2>1 DEF OneCommand
  <1>6. NewPlayer \in Player /\ ~NewPlayer.answered /\ NewPlayer.correct = 0
    BY TriviaAssumption DEF NewPlayer, Player
  <1>7. Typed'
    <2>1. players' \in [DOMAIN players' -> Player] /\ DOMAIN players' \subseteq Session
      BY <1>3, <1>6 DEF TriviaInv, Typed
    <2>2. conn' \in [Session -> {"new", "connected", "away", "kept", "gone"}]
      BY DEF TriviaInv, Typed, JoinAsPlayer
    <2>3. owner' \in Session \cup {Nobody} /\ spectators' \subseteq Session
      BY DEF TriviaInv, Typed, JoinAsPlayer
    <2> QED
      BY <2>1, <2>2, <2>3 DEF TriviaInv, Typed, JoinAsPlayer
  <1>8. Course'
    <2>1. rounds = 0 /\ breaks = 0
      BY <1>4 DEF TriviaInv, Course, Timers, Typed
    <2>2. Timers'
      BY <2>1 DEF Timers
    <2>3. Waiting'
      BY <1>4 DEF TriviaInv, Course, Waiting
    <2>4. Batch' /\ GameCommands'
      BY <1>1, <1>2 DEF TriviaInv, Course, Batch, GameCommands, GameOp
    <2> QED
      BY <2>2, <2>3, <2>4 DEF Course
  <1>9. Members'
    <2>1. /\ conn' = [conn EXCEPT ![s] = "connected"]
          /\ owner' = IF owner = Nobody THEN s ELSE owner
          /\ spectators' = spectators \ {s}
          /\ UNCHANGED round_answers
      BY DEF JoinAsPlayer
    <2>2. \A t \in Session : t \in Present' <=> t = s \/ t \in Present
      BY <2>1 DEF Present, TriviaInv, Typed
    <2>3. \A t \in Session : ~DueFor("Join", t)' /\ ~DueFor("Leave", t)'
      BY <1>1 DEF DueFor
    <2>4. ~Deserted'
      BY <1>3 DEF Deserted
    <2>5. \A t \in DOMAIN round_answers' : conn'[t] # "new"
      BY <1>2, <2>1 DEF TriviaInv, Typed, Members
    <2>6. \A p, q \in DOMAIN players' : account'[p] = account'[q] => p = q
      BY <1>2, <1>3 DEF TriviaInv, Members, Stale
    <2>7. \A t \in Session : t \in Present <=> t \in DOMAIN players \cup spectators
      BY <1>2 DEF TriviaInv, Members
    <2>8. DOMAIN players' \cap spectators' = {}
      BY <1>2, <1>3, <2>1 DEF TriviaInv, Members
    <2>9. owner' \in DOMAIN players'
      BY <1>3, <2>1, TriviaAssumption DEF TriviaInv, Members, Deserted, Typed
    <2> QED
      BY <1>2, <1>3, <2>1, <2>2, <2>3, <2>4, <2>5, <2>6, <2>7, <2>8, <2>9 DEF Members
  <1>10. Places'
    <2>1. Cardinality(DOMAIN players') = Cardinality(DOMAIN players) + 1
      BY <1>2, <1>3, SessionsFinite, FS_AddElement DEF TriviaInv
    <2>2. spectators' = spectators
      BY <1>2 DEF JoinAsPlayer
    <2> QED
      BY <1>4, <2>1, <2>2, SessionsFinite, TriviaAssumption DEF TriviaInv, Places, SyncMeta
  <1>11. Answers'
    BY <1>4 DEF Answers
  <1>12. OneScorePerRound'
    BY <1>3, <1>4, <1>6 DEF TriviaInv, OneScorePerRound, Course, Waiting
  <1> QED
    BY <1>5, <1>7, <1>8, <1>9, <1>10, <1>11, <1>12 DEF TriviaInv

LEMMA JoinAsSpectator_Inv ==
  ASSUME TriviaInv, NEW s \in Session, DueFor("Join", s), JoinAsSpectator(s),
         UNCHANGED <<account, open, phase, round, winners, answers_in, questions, timers,
                     results, restarts>>,
         SyncMeta
  PROVE  TriviaInv'
  <1> USE DEF questions, timers
  <1>1. queue' = <<>> /\ \A op : ~Due(op)'
    BY DoneNext, NothingDue DEF TriviaInv, JoinAsSpectator, DueFor, Due
  <1>2. /\ conn[s] = "new" /\ s \notin Present
        /\ s \notin DOMAIN players \cup spectators /\ s \notin DOMAIN round_answers
        /\ \A op \in GameOp : ~Due(op)
        /\ \A t \in Session : ~DueFor("Leave", t)
    BY Newcomer
  <1>3. UNCHANGED <<players, owner, round_answers>> /\ Deserted' = Deserted
    BY DEF JoinAsSpectator, Deserted
  <1>4. \/ /\ Cardinality(spectators) < MaxSpectators /\ spectators' = spectators \cup {s}
           /\ conn' = [conn EXCEPT ![s] = "connected"]
        \/ spectators' = spectators /\ conn' = [conn EXCEPT ![s] = "gone"]
    BY DEF JoinAsSpectator
  <1>5. OneCommand' /\ Typed'
    <2>1. conn' \in [Session -> {"new", "connected", "away", "kept", "gone"}]
          /\ spectators' \subseteq Session
      BY <1>4 DEF TriviaInv, Typed
    <2> QED
      BY <1>1, <1>3, <2>1 DEF TriviaInv, OneCommand, Typed
  <1>6. Course'
    BY <1>1, <1>2, <1>3, CourseKept DEF TriviaInv, Trigger
  <1>7. Members'
    <2>1. \A t \in Session : t \in Present' <=> t \in Present \/ (t = s /\ s \in spectators')
      BY <1>2, <1>4 DEF Present, TriviaInv, Typed
    <2>2. \A t \in Session : ~DueFor("Join", t)' /\ ~DueFor("Leave", t)'
      BY <1>1 DEF DueFor
    <2>3. \A t \in DOMAIN round_answers' : conn'[t] # "new"
      BY <1>2, <1>3, <1>4 DEF TriviaInv, Typed, Members
    <2>4. \A t \in Session : t \in Present <=> t \in DOMAIN players \cup spectators
      BY <1>2 DEF TriviaInv, Members
    <2>5. DOMAIN players' \cap spectators' = {}
      BY <1>2, <1>3, <1>4 DEF TriviaInv, Members
    <2> QED
      BY <1>2, <1>3, <1>4, <2>1, <2>2, <2>3, <2>4, <2>5 DEF TriviaInv, Members
  <1>8. Places'
    <2>1. CASE Cardinality(spectators) < MaxSpectators /\ spectators' = spectators \cup {s}
      <3>1. Cardinality(spectators') = Cardinality(spectators) + 1
        BY <1>2, <2>1, SessionsFinite, FS_AddElement DEF TriviaInv
      <3> QED
        BY <1>3, <2>1, <3>1, SessionsFinite, TriviaAssumption DEF TriviaInv, Places, SyncMeta
    <2>2. CASE spectators' = spectators
      BY <1>3, <2>2 DEF TriviaInv, Places, SyncMeta
    <2> QED
      BY <1>4, <2>1, <2>2
  <1>9. Answers' /\ OneScorePerRound'
    BY <1>3, AnswersKept DEF TriviaInv
  <1> QED
    BY <1>5, <1>6, <1>7, <1>8, <1>9 DEF TriviaInv

LEMMA Join_Inv ==
  ASSUME TriviaInv, NEW s \in Session, NEW wants \in BOOLEAN, DueFor("Join", s), Join(s, wants)
  PROVE  TriviaInv'
  <1>1. CASE Stale(s) # {}
    BY <1>1, TakeOver_Inv DEF Join
  <1>2. CASE Stale(s) = {} /\ wants /\ CanPlay
    BY <1>2, JoinAsPlayer_Inv DEF Join
  <1>3. CASE Stale(s) = {} /\ ~(wants /\ CanPlay)
    BY <1>3, JoinAsSpectator_Inv DEF Join
  <1> QED
    BY <1>1, <1>2, <1>3


LEMMA Leave_Inv ==
  ASSUME TriviaInv, NEW s \in Session, DueFor("Leave", s), Leave(s)
  PROVE  TriviaInv'
  <1> USE DEF questions, timers, people
  <1> DEFINE left == DOMAIN players \ {s}
  <1>1. /\ DOMAIN players' = left
        /\ \A t \in left : players'[t] = players[t]
        /\ players' = [t \in DOMAIN players' |-> players'[t]]
        /\ Deserted' = (left = {})
    BY DEF Leave, Deserted, Without, Restrict
  <1>2. /\ conn[s] = "gone"
        /\ \A op \in GameOp : ~Due(op)
        /\ \A t \in Session : DueFor("Leave", t) <=> t = s
    BY DEF TriviaInv, Members, DueFor, Due, GameOp
  <1>3. \/ queue' = <<>> /\ \A op : ~Due(op)'
        \/ /\ queue' = <<Command("EndRound")>> /\ \A op : Due(op)' <=> op = "EndRound"
        \/ /\ queue' = <<Command("FinishGame")>> /\ \A op : Due(op)' <=> op = "FinishGame"
           /\ phase \in InGame /\ left = {}
    <2>1. queue # <<>>
      BY DEF DueFor, Due
    <2>2. \/ Ends(left) = <<>>
          \/ Ends(left) = <<Command("EndRound")>>
          \/ Ends(left) = <<Command("FinishGame")>> /\ phase \in InGame /\ left = {}
      <3>1. \A x : <<x>> \o <<>> = <<x>> /\ <<>> \o <<x>> = <<x>> /\ <<>> \o <<>> = <<>>
        OBVIOUS
      <3> QED
        BY <3>1 DEF Ends
    <2>3. \/ Done(<<>>)
          \/ Done(<<Command("EndRound")>>)
          \/ Done(<<Command("FinishGame")>>) /\ phase \in InGame /\ left = {}
      BY <2>2 DEF Leave
    <2>4. \A op : Command(op).op = op
      BY DEF Command
    <2> QED
      BY <2>1, <2>3, <2>4, DoneNext, NothingDue, CommandDue DEF TriviaInv
  <1>4. OneCommand'
    <2>1. Command("EndRound") \in Commands /\ Command("FinishGame") \in Commands
      BY DEF Command, Commands
    <2> QED
      BY <1>3, <2>1 DEF OneCommand
  <1>5. Typed'
    <2>1. players' \in [DOMAIN players' -> Player] /\ DOMAIN players' \subseteq Session
      BY <1>1 DEF TriviaInv, Typed
    <2>2. owner' \in Session \cup {Nobody} /\ spectators' \subseteq Session
      BY DEF TriviaInv, Typed, Leave
    <2> QED
      BY <2>1, <2>2 DEF TriviaInv, Typed, Leave
  <1>6. Course'
    <2>1. /\ UNCHANGED <<phase, round, questions, timers>> /\ Supplied' = Supplied
          /\ Deserted => Deserted'
      BY <1>1 DEF Leave, Supplied, Deserted
    <2>2. Timers'
      BY <2>1 DEF TriviaInv, Course, Timers
    <2>3. Waiting'
      BY <1>2, <2>1 DEF TriviaInv, Course, Waiting, GameOp
    <2>4. Batch'
      BY <1>2, <1>3, <2>1 DEF TriviaInv, Course, Batch, GameOp
    <2>5. GameCommands'
      <3>1. CASE \A op \in Trigger : ~Due(op)'
        BY <3>1 DEF GameCommands, Trigger
      <3>2. CASE /\ \A op : Due(op)' <=> op = "FinishGame"
                 /\ phase \in InGame /\ left = {}
        <4>1. Deserted' /\ phase' # "lobby"
          BY <1>1, <2>1, <3>2 DEF InGame
        <4>2. phase' \in {"question", "reveal"} => Supplied'
          BY <2>3 DEF Waiting
        <4> QED
          BY <3>2, <4>1, <4>2 DEF GameCommands
      <3> QED
        BY <1>3, <3>1, <3>2 DEF Trigger
    <2> QED
      BY <2>2, <2>3, <2>4, <2>5 DEF Course
  <1>7. Members'
    <2>1. UNCHANGED <<conn, account, round_answers>> /\ spectators' = spectators \ {s}
      BY DEF Leave
    <2>2. Present' = Present
      BY <2>1 DEF Present
    <2>3. \A t \in Session : ~DueFor("Join", t)' /\ ~DueFor("Leave", t)'
      BY <1>3 DEF DueFor
    <2>4. IF Deserted' THEN owner' = Nobody ELSE owner' \in DOMAIN players'
      <3>1. owner' \in IF owner # s THEN {owner} ELSE IF left = {} THEN {Nobody} ELSE left
        BY DEF Leave
      <3>2. IF Deserted THEN owner = Nobody ELSE owner \in DOMAIN players
        BY DEF TriviaInv, Members
      <3> QED
        BY <1>1, <3>1, <3>2, TriviaAssumption DEF Deserted
    <2>5. \A t \in Session : t \in Present
            <=> t \in DOMAIN players \cup spectators /\ t # s
      BY <1>2 DEF TriviaInv, Members
    <2>6. /\ DOMAIN players' \cap spectators' = {}
          /\ \A p, q \in DOMAIN players' : account'[p] = account'[q] => p = q
          /\ \A t \in DOMAIN round_answers' : conn'[t] # "new"
      BY <1>1, <2>1 DEF TriviaInv, Members
    <2> QED
      BY <1>1, <2>1, <2>2, <2>3, <2>4, <2>5, <2>6 DEF Members
  <1>8. Places'
    <2>1. Cardinality(DOMAIN players') <= Cardinality(DOMAIN players)
          /\ Cardinality(DOMAIN players') \in Nat
      BY <1>1, SessionsFinite, LeftFinite DEF TriviaInv
    <2>2. Cardinality(spectators') <= Cardinality(spectators)
          /\ Cardinality(spectators') \in Nat
      BY SessionsFinite, LeftFinite DEF TriviaInv, Leave
    <2> QED
      BY <2>1, <2>2, SessionsFinite, TriviaAssumption DEF TriviaInv, Places, SyncMeta, Leave
  <1>9. Answers'
    BY <1>1 DEF TriviaInv, Answers, Leave
  <1>10. OneScorePerRound'
    BY <1>1 DEF TriviaInv, OneScorePerRound, Leave
  <1> QED
    BY <1>4, <1>5, <1>6, <1>7, <1>8, <1>9, <1>10 DEF TriviaInv

LEMMA ToggleReady_Inv ==
  ASSUME TriviaInv, NEW s \in Session, DueFor("ToggleReady", s), ToggleReady(s)
  PROVE  TriviaInv'
  <1> USE DEF questions, timers, people
  <1>1. queue' = <<>> /\ \A op : ~Due(op)'
    BY DoneNext, NothingDue DEF TriviaInv, ToggleReady, DueFor, Due
  <1>2. /\ DOMAIN players' = DOMAIN players /\ Deserted' = Deserted
        /\ players' \in [DOMAIN players' -> Player]
        /\ \A t \in DOMAIN players : /\ players'[t].answered = players[t].answered
                                     /\ players'[t].correct = players[t].correct
    BY DEF ToggleReady, TriviaInv, Typed, Player, Deserted
  <1>3. \A op \in GameOp \cup {"Leave"} : ~Due(op)
    BY DEF DueFor, Due, GameOp
  <1>4. OneCommand' /\ Typed'
    BY <1>1, <1>2 DEF TriviaInv, OneCommand, Typed, ToggleReady
  <1>5. Course'
    BY <1>1, <1>2, <1>3, CourseKept DEF TriviaInv, Trigger, ToggleReady
  <1>6. Members'
    BY <1>1, <1>2, <1>3, MembersKept DEF TriviaInv, ToggleReady, DueFor
  <1>7. Places'
    BY <1>2, PlacesKept DEF TriviaInv, ToggleReady
  <1>8. Answers'
    BY <1>2 DEF TriviaInv, Answers, ToggleReady
  <1>9. OneScorePerRound'
    BY <1>2 DEF TriviaInv, OneScorePerRound, ToggleReady
  <1> QED
    BY <1>4, <1>5, <1>6, <1>7, <1>8, <1>9 DEF TriviaInv

LEMMA Restart_Inv ==
  ASSUME TriviaInv, NEW s \in Session, DueFor("Restart", s), Restart(s)
  PROVE  TriviaInv'
  <1> USE DEF questions, timers, people
  <1>1. \A op \in GameOp \cup {"Leave"} : ~Due(op)
    BY DEF DueFor, Due, GameOp
  <1>2. queue # <<>>
    BY DEF DueFor, Due
  <1>3. CASE phase # "finished" \/ owner # s
    <2>1. queue' = <<>> /\ \A op : ~Due(op)'
      BY <1>2, <1>3, DoneNext, NothingDue DEF TriviaInv, Restart
    <2>2. UNCHANGED <<people, game, round_answers, questions, timers, meta, results, restarts>>
      BY <1>3 DEF Restart, game
    <2>3. OneCommand' /\ Typed' /\ Deserted' = Deserted
      BY <2>1, <2>2 DEF TriviaInv, OneCommand, Typed, game, Deserted
    <2>4. Course'
      BY <1>1, <2>1, <2>2, <2>3, CourseKept DEF TriviaInv, Trigger, game
    <2>5. Members' /\ Places'
      BY <1>1, <2>1, <2>2, MembersKept, PlacesKept DEF TriviaInv, DueFor, game
    <2>6. Answers' /\ OneScorePerRound'
      BY <2>2, AnswersKept DEF TriviaInv, game
    <2> QED
      BY <2>3, <2>4, <2>5, <2>6 DEF TriviaInv
  <1>4. CASE phase = "finished" /\ owner = s
    <2>1. queue' = <<Command("GenerateQuestions")>>
          /\ \A op : Due(op)' <=> op = "GenerateQuestions"
      <3>1. queue' = <<Command("GenerateQuestions")>>
        BY <1>2, <1>4, DoneNext DEF TriviaInv, Restart
      <3>2. Command("GenerateQuestions").op = "GenerateQuestions"
        BY DEF Command
      <3> QED
        BY <3>1, <3>2, CommandDue
    <2>2. /\ phase' = "lobby" /\ round' = 0 /\ winners' = {} /\ results' = 0
          /\ players' = [p \in DOMAIN players |-> NewPlayer]
          /\ pending' = {}
          /\ UNCHANGED <<people, owner, spectators, answers_in, round_answers, in_flight,
                         needed, task, timers, restarts>>
          /\ SyncMeta
      BY <1>4 DEF Restart
    <2>3. NewPlayer \in Player /\ NewPlayer.correct = 0
      BY TriviaAssumption DEF NewPlayer, Player
    <2>4. DOMAIN players' = DOMAIN players /\ Deserted' = Deserted
      BY <2>2 DEF Deserted
    <2>5. OneCommand'
      BY <2>1 DEF OneCommand, Command, Commands
    <2>6. Typed'
      BY <2>2, <2>3, TriviaAssumption DEF TriviaInv, Typed, Phase
    <2>7. Course'
      <3>1. ~Deserted
        BY <1>4, TriviaAssumption DEF TriviaInv, Members
      <3>2. rounds = 0 /\ breaks = 0
        BY <1>4, <3>1 DEF TriviaInv, Course, Timers, Typed
      <3> QED
        BY <1>1, <2>1, <2>2, <3>2
           DEF TriviaInv, Course, Timers, Waiting, Batch, GameCommands, GameOp
    <2>8. Members'
      BY <1>1, <2>1, <2>2, <2>4, MembersKept DEF TriviaInv, DueFor
    <2>9. Places'
      BY <2>2, <2>4, PlacesKept DEF TriviaInv
    <2>10. Answers' /\ OneScorePerRound'
      BY <2>2, <2>3 DEF Answers, OneScorePerRound
    <2> QED
      BY <2>5, <2>6, <2>7, <2>8, <2>9, <2>10 DEF TriviaInv
  <1> QED
    BY <1>3, <1>4

\* StartGame changes nothing by itself; that the questions are complete is seen to
\* by StartRound.
LEMMA StartGame_Inv ==
  ASSUME TriviaInv, NEW s \in Session, DueFor("StartGame", s), StartGame(s)
  PROVE  TriviaInv'
  <1> USE DEF questions, timers, people
  <1>1. \A op \in GameOp \cup {"Leave"} : ~Due(op)
    BY DEF DueFor, Due, GameOp
  <1>2. UNCHANGED <<people, game, round_answers, questions, timers, meta, results, restarts>>
        /\ Deserted' = Deserted
    BY DEF StartGame, game, Deserted
  <1>3. \/ queue' = <<>> /\ \A op : ~Due(op)'
        \/ /\ phase = "lobby" /\ queue' = <<Start(1)>> /\ Head(queue').round = 1
           /\ \A op : Due(op)' <=> op = "StartRound"
    <2>1. queue # <<>>
      BY DEF DueFor, Due
    <2>2. Done(<<>>) \/ (phase = "lobby" /\ Done(<<Start(1)>>))
      BY DEF StartGame
    <2>3. Start(1).op = "StartRound" /\ Start(1).round = 1
      BY DEF Start
    <2> QED
      BY <2>1, <2>2, <2>3, DoneNext, NothingDue, CommandDue DEF TriviaInv
  <1>4. OneCommand' /\ Typed'
    <2>1. Start(1) \in Commands
      BY DEF Start, Commands
    <2> QED
      BY <1>2, <1>3, <2>1 DEF TriviaInv, OneCommand, Typed, game
  <1>5. Course'
    <2>1. CASE \A op : ~Due(op)'
      BY <1>1, <1>2, <2>1, CourseKept DEF TriviaInv, Trigger, game
    <2>2. CASE /\ phase = "lobby" /\ Head(queue').round = 1
               /\ \A op : Due(op)' <=> op = "StartRound"
      <3>1. phase = "lobby" /\ UNCHANGED <<phase, round, questions, timers>>
        BY <1>2, <2>2 DEF game
      <3>2. rounds = 0 /\ breaks = 0 /\ round = 0 /\ round < TotalRounds
        BY <3>1, TriviaAssumption DEF TriviaInv, Course, Timers, Waiting, Typed
      <3> QED
        BY <1>1, <2>2, <3>1, <3>2
           DEF TriviaInv, Course, Timers, Waiting, Batch, GameCommands, GameOp
    <2> QED
      BY <1>3, <2>1, <2>2
  <1>6. Members' /\ Places'
    BY <1>1, <1>2, <1>3, MembersKept, PlacesKept DEF TriviaInv, DueFor, game
  <1>7. Answers' /\ OneScorePerRound'
    BY <1>2, AnswersKept DEF TriviaInv, game
  <1> QED
    BY <1>4, <1>5, <1>6, <1>7 DEF TriviaInv


-----------------------------------------------------------------------------
(* The commands of the game.                                               *)

LEMMA Answer_Inv ==
  ASSUME TriviaInv, NEW s \in Session, NEW right \in BOOLEAN, DueFor("Answer", s),
         Answer(s, right)
  PROVE  TriviaInv'
  <1> USE DEF questions, timers, people
  <1>1. \A op \in GameOp \cup {"Leave"} : ~Due(op)
    BY DEF DueFor, Due, GameOp
  <1>2. queue # <<>>
    BY DEF DueFor, Due
  <1>3. CASE ~(phase = "question" /\ s \in DOMAIN players /\ ~players[s].answered)
    <2>1. queue' = <<>> /\ \A op : ~Due(op)'
      BY <1>2, <1>3, DoneNext, NothingDue DEF TriviaInv, Answer
    <2>2. UNCHANGED <<people, game, round_answers, questions, timers, meta, results, restarts>>
      BY <1>3 DEF Answer, game
    <2>3. OneCommand' /\ Typed' /\ Deserted' = Deserted
      BY <2>1, <2>2 DEF TriviaInv, OneCommand, Typed, game, Deserted
    <2>4. Course'
      BY <1>1, <2>1, <2>2, <2>3, CourseKept DEF TriviaInv, Trigger, game
    <2>5. Members' /\ Places'
      BY <1>1, <2>1, <2>2, MembersKept, PlacesKept DEF TriviaInv, DueFor, game
    <2>6. Answers' /\ OneScorePerRound'
      BY <2>2, AnswersKept DEF TriviaInv, game
    <2> QED
      BY <2>3, <2>4, <2>5, <2>6 DEF TriviaInv
  <1>4. CASE phase = "question" /\ s \in DOMAIN players /\ ~players[s].answered
    <2>1. \/ queue' = <<>> /\ \A op : ~Due(op)'
          \/ /\ queue' = <<Command("EndRound")>> /\ \A op : Due(op)' <=> op = "EndRound"
      <3>1. Done(<<>>) \/ Done(<<Command("EndRound")>>)
        BY <1>4 DEF Answer
      <3>2. Command("EndRound").op = "EndRound"
        BY DEF Command
      <3> QED
        BY <1>2, <3>1, <3>2, DoneNext, NothingDue, CommandDue DEF TriviaInv
    <2>2. /\ players' = [players EXCEPT ![s].answered = TRUE]
          /\ answers_in' = answers_in + 1
          /\ DOMAIN round_answers' = DOMAIN round_answers \cup {s}
          /\ UNCHANGED <<people, phase, round, owner, spectators, winners, questions, timers,
                         meta, results, restarts>>
      BY <1>4 DEF Answer, With
    <2>3. /\ DOMAIN players' = DOMAIN players /\ Deserted' = Deserted
          /\ players' \in [DOMAIN players' -> Player]
          /\ \A t \in DOMAIN players :
               /\ players'[t].answered = (players[t].answered \/ t = s)
               /\ players'[t].correct = players[t].correct
      BY <1>4, <2>2 DEF TriviaInv, Typed, Player, Deserted
    <2>4. OneCommand' /\ Typed'
      <3>1. Command("EndRound") \in Commands
        BY DEF Command, Commands
      <3> QED
        BY <2>1, <2>2, <2>3, <3>1 DEF TriviaInv, OneCommand, Typed
    <2>5. Course'
      BY <1>1, <2>1, <2>2, <2>3, CourseKept DEF TriviaInv, Trigger
    <2>6. Members'
      <3>1. conn[s] # "new"
        BY <1>1, <1>4 DEF TriviaInv, Members, Present, DueFor
      <3>2. \A t \in Session : ~DueFor("Join", t)' /\ ~DueFor("Leave", t)'
        BY <2>1 DEF DueFor
      <3>3. Present' = Present /\ \A t \in Session : ~DueFor("Leave", t)
        BY <1>1, <2>2 DEF Present, DueFor
      <3> QED
        BY <2>2, <2>3, <3>1, <3>2, <3>3 DEF TriviaInv, Members
    <2>7. Places'
      BY <2>2, <2>3, PlacesKept DEF TriviaInv
    <2>8. Answers'
      <3>1. /\ {p \in DOMAIN players : players[p].answered}
                 = DOMAIN players \cap DOMAIN round_answers
            /\ answers_in = Cardinality(DOMAIN round_answers)
        BY <1>4 DEF TriviaInv, Answers
      <3>2. s \notin DOMAIN round_answers
        BY <1>4, <3>1
      <3>3. answers_in' = Cardinality(DOMAIN round_answers')
        BY <2>2, <3>1, <3>2, SessionsFinite, FS_AddElement DEF TriviaInv
      <3>4. {p \in DOMAIN players' : players'[p].answered}
              = DOMAIN players' \cap DOMAIN round_answers'
        BY <1>4, <2>2, <2>3, <3>1
      <3> QED
        BY <3>3, <3>4 DEF Answers
    <2>9. OneScorePerRound'
      BY <2>2, <2>3 DEF TriviaInv, OneScorePerRound
    <2> QED
      BY <2>4, <2>5, <2>6, <2>7, <2>8, <2>9 DEF TriviaInv
  <1> QED
    BY <1>3, <1>4

\* There are questions already, or else the batch is on its way.
LEMMA GenerateQuestions_Inv ==
  ASSUME TriviaInv, Due("GenerateQuestions"), GenerateQuestions
  PROVE  TriviaInv'
  <1> USE DEF questions, timers, people
  <1>1. queue' = <<>> /\ \A op : ~Due(op)'
    BY DoneNext, NothingDue DEF TriviaInv, GenerateQuestions, Due
  <1>2. \A op \in (GameOp \cup {"Leave"}) \ {"GenerateQuestions"} : ~Due(op)
    BY DEF Due, GameOp
  <1>3. UNCHANGED <<people, game, round_answers, pending, needed, timers, meta, results,
                    restarts>> /\ Deserted' = Deserted /\ Supplied' = Supplied
    BY DEF GenerateQuestions, game, Deserted, Supplied
  <1>4. \/ UNCHANGED <<in_flight, task>> /\ (in_flight \/ Cardinality(pending) >= TotalRounds)
        \/ ~in_flight /\ in_flight' = TRUE /\ task' = TRUE
    BY DEF GenerateQuestions
  <1>5. OneCommand' /\ Typed'
    BY <1>1, <1>3, <1>4 DEF TriviaInv, OneCommand, Typed, game
  <1>6. Course'
    <2>1. Timers' /\ GameCommands'
      BY <1>1, <1>3 DEF TriviaInv, Course, Timers, GameCommands, game
    <2>2. Batch'
      BY <1>1, <1>2, <1>3, <1>4 DEF TriviaInv, Course, Batch, GameOp
    <2>3. Waiting'
      <3>1. pending = {} => in_flight'
        BY <1>3, <1>4, TriviaAssumption, FS_EmptySet DEF TriviaInv, Typed
      <3> QED
        BY <1>1, <1>2, <1>3, <3>1 DEF TriviaInv, Course, Waiting, GameOp, game
    <2> QED
      BY <2>1, <2>2, <2>3 DEF Course
  <1>7. Members' /\ Places'
    BY <1>1, <1>2, <1>3, MembersKept, PlacesKept DEF TriviaInv, DueFor, game
  <1>8. Answers' /\ OneScorePerRound'
    BY <1>3, AnswersKept DEF TriviaInv, game
  <1> QED
    BY <1>5, <1>6, <1>7, <1>8 DEF TriviaInv


\* A game that waits for its questions is started, and nothing else.
LEMMA QuestionsReady_Inv ==
  ASSUME TriviaInv, Due("QuestionsReady"), QuestionsReady
  PROVE  TriviaInv'
  <1> USE DEF questions, timers, people
  <1>1. \A op \in (GameOp \cup {"Leave"}) \ {"QuestionsReady"} : ~Due(op)
    BY DEF Due, GameOp
  <1>2. /\ in_flight' = FALSE /\ pending' = pending \cup 1 .. TotalRounds
        /\ UNCHANGED <<people, game, round_answers, task, timers, meta, results, restarts>>
        /\ Deserted' = Deserted
    BY DEF QuestionsReady, game, Deserted
  <1>3. \/ /\ phase = "generating" /\ needed' = 0
           /\ queue' = <<Start(1)>> /\ Head(queue').round = 1
           /\ \A op : Due(op)' <=> op = "StartRound"
        \/ /\ ~(needed = 1 /\ phase = "generating") /\ UNCHANGED needed
           /\ queue' = <<>> /\ \A op : ~Due(op)'
    <2>1. queue # <<>>
      BY DEF Due
    <2>2. \/ phase = "generating" /\ needed' = 0 /\ Done(<<Start(1)>>)
          \/ ~(needed = 1 /\ phase = "generating") /\ UNCHANGED needed /\ Done(<<>>)
      BY DEF QuestionsReady
    <2>3. Start(1).op = "StartRound" /\ Start(1).round = 1
      BY DEF Start
    <2> QED
      BY <2>1, <2>2, <2>3, DoneNext, NothingDue, CommandDue DEF TriviaInv
  <1>4. OneCommand'
    <2>1. Start(1) \in Commands
      BY DEF Start, Commands
    <2> QED
      BY <1>3, <2>1 DEF OneCommand
  <1>5. pending' = 1 .. TotalRounds /\ Supplied'
    <2>1. pending' = 1 .. TotalRounds
      BY <1>2 DEF TriviaInv, Typed
    <2>2. round' \in Nat /\ TotalRounds \in Nat
      BY <1>2, TriviaAssumption DEF TriviaInv, Typed, game
    <2>3. round' + 1 .. TotalRounds \subseteq 1 .. TotalRounds
      BY <2>2, RoundsToCome
    <2> QED
      BY <2>1, <2>3 DEF Supplied
  <1>6. Typed'
    <2>1. needed' \in 0 .. TotalRounds
      BY <1>3, TriviaAssumption DEF TriviaInv, Typed
    <2> QED
      BY <1>2, <1>5, <2>1 DEF TriviaInv, Typed, game
  <1>7. Course'
    <2>1. Timers'
      BY <1>2, <1>5 DEF TriviaInv, Course, Timers, game
    <2>2. Batch'
      BY <1>2, <1>3 DEF TriviaInv, Course, Batch
    <2>3. Waiting'
      BY <1>1, <1>2, <1>3, <1>5 DEF TriviaInv, Course, Waiting, GameOp, game
    <2>4. GameCommands'
      <3>1. phase = "generating" =>
              round = 0 /\ round < TotalRounds /\ rounds = 0 /\ breaks = 0
        BY TriviaAssumption DEF TriviaInv, Course, Timers, Waiting, Typed
      <3> QED
        BY <1>2, <1>3, <1>5, <3>1 DEF GameCommands, game
    <2> QED
      BY <2>1, <2>2, <2>3, <2>4 DEF Course
  <1>8. Members' /\ Places'
    BY <1>1, <1>2, <1>3, MembersKept, PlacesKept DEF TriviaInv, DueFor, game
  <1>9. Answers' /\ OneScorePerRound'
    BY <1>2, AnswersKept DEF TriviaInv, game
  <1> QED
    BY <1>4, <1>6, <1>7, <1>8, <1>9 DEF TriviaInv

\* The round has its question, or it is the first one and waits for the batch.
LEMMA StartRound_Inv ==
  ASSUME TriviaInv, NEW r \in Nat, Due("StartRound"), Head(queue).round = r, StartRound(r)
  PROVE  TriviaInv'
  <1> USE DEF questions, timers, people
  <1>1. \A op \in (GameOp \cup {"Leave"}) \ {"StartRound"} : ~Due(op)
    BY DEF Due, GameOp
  <1>2. /\ r = round + 1 /\ r \in 1 .. TotalRounds /\ round \in Nat
        /\ rounds = 0 /\ breaks = 0
        /\ phase = "lobby" \/ Supplied
    BY TriviaAssumption DEF TriviaInv, Typed, Course, GameCommands
  <1>3. queue # <<>>
    BY DEF Due
  <1>4. /\ UNCHANGED <<people, owner, spectators, winners, in_flight, task, breaks, results,
                       restarts>>
        /\ SyncMeta
    BY DEF StartRound
  <1>5. CASE r \in pending
    <2>1. /\ pending' = pending \ {r} /\ round_answers' = NoOne
          /\ phase' = "question" /\ round' = r /\ answers_in' = 0
          /\ players' = [p \in DOMAIN players |-> [players[p] EXCEPT !.answered = FALSE]]
          /\ rounds' = 1 /\ UNCHANGED needed
          /\ queue' = <<>>
      BY <1>2, <1>3, <1>5, DoneNext DEF StartRound, TriviaInv
    <2>2. \A op : ~Due(op)'
      BY <2>1, NothingDue
    <2>3. /\ DOMAIN players' = DOMAIN players /\ Deserted' = Deserted
          /\ players' \in [DOMAIN players' -> Player]
          /\ \A t \in DOMAIN players : /\ ~players'[t].answered
                                       /\ players'[t].correct = players[t].correct
      BY <2>1 DEF TriviaInv, Typed, Player, Deserted
    <2>4. DOMAIN round_answers' = {}
      BY <2>1 DEF NoOne
    <2>5. OneCommand' /\ Typed'
      BY <1>2, <1>4, <2>1, <2>3, <2>4 DEF TriviaInv, OneCommand, Typed, Phase
    <2>6. Supplied'
      <3>1. Supplied
        <4> SUFFICES ASSUME phase = "lobby"
                     PROVE  Supplied
          BY <1>2
        <4>1. pending = 1 .. TotalRounds
          BY <1>5 DEF TriviaInv, Course, Waiting
        <4>2. round + 1 .. TotalRounds \subseteq 1 .. TotalRounds
          BY <1>2, RoundsToCome, TriviaAssumption
        <4> QED
          BY <4>1, <4>2 DEF Supplied
      <3> QED
        BY <1>2, <2>1, <3>1 DEF Supplied
    <2>7. Course'
      BY <1>1, <1>2, <1>4, <2>1, <2>2, <2>6
         DEF TriviaInv, Course, Timers, Waiting, Batch, GameCommands, GameOp
    <2>8. Members'
      BY <1>1, <1>4, <2>2, <2>3, <2>4, MembersKept DEF TriviaInv, DueFor
    <2>9. Places'
      BY <1>4, <2>3, PlacesKept DEF TriviaInv
    <2>10. Answers'
      BY <2>1, <2>3, <2>4, FS_EmptySet DEF Answers
    <2>11. OneScorePerRound'
      BY <1>2, <2>1, <2>3 DEF TriviaInv, OneScorePerRound, Typed, Player
    <2> QED
      BY <2>5, <2>7, <2>8, <2>9, <2>10, <2>11 DEF TriviaInv
  <1>6. CASE r \notin pending
    <2>1. /\ phase' = "generating" /\ needed' = r
          /\ UNCHANGED <<pending, round_answers, round, answers_in, players, rounds>>
          /\ Deserted' = Deserted
      BY <1>6 DEF StartRound, Deserted
    <2>2. \/ in_flight /\ queue' = <<>> /\ \A op : ~Due(op)'
          \/ /\ queue' = <<Command("GenerateQuestions")>>
             /\ \A op : Due(op)' <=> op = "GenerateQuestions"
      <3>1. (in_flight /\ Done(<<>>)) \/ Done(<<Command("GenerateQuestions")>>)
        BY <1>6 DEF StartRound
      <3>2. Command("GenerateQuestions").op = "GenerateQuestions"
        BY DEF Command
      <3> QED
        BY <1>3, <3>1, <3>2, DoneNext, NothingDue, CommandDue DEF TriviaInv
    <2>3. phase = "lobby" /\ round = 0 /\ r = 1 /\ pending = {}
      <3>1. ~Supplied
        BY <1>2, <1>6, TriviaAssumption DEF Supplied
      <3>2. phase = "lobby" /\ round = 0 /\ pending \in {{}, 1 .. TotalRounds}
        BY <1>2, <3>1 DEF TriviaInv, Course, Waiting
      <3> QED
        <4>1. r = 1
          BY <1>2, <3>2
        <4>2. pending # 1 .. TotalRounds
          BY <1>2, <1>6
        <4> QED
          BY <3>2, <4>1, <4>2
    <2>4. OneCommand' /\ Typed'
      <3>1. Command("GenerateQuestions") \in Commands
        BY DEF Command, Commands
      <3> QED
        BY <1>2, <1>4, <2>1, <2>2, <3>1 DEF TriviaInv, OneCommand, Typed, Phase
    <2>5. Course'
      BY <1>1, <1>2, <1>4, <2>1, <2>2, <2>3
         DEF TriviaInv, Course, Timers, Waiting, Batch, GameCommands, GameOp
    <2>6. Members'
      BY <1>1, <1>4, <2>1, <2>2, MembersKept DEF TriviaInv, DueFor
    <2>7. Places'
      BY <1>4, <2>1, PlacesKept DEF TriviaInv
    <2>8. Answers' /\ OneScorePerRound'
      BY <2>1, AnswersKept DEF TriviaInv
    <2> QED
      BY <2>4, <2>5, <2>6, <2>7, <2>8 DEF TriviaInv
  <1> QED
    BY <1>5, <1>6

\* The second of two ends of a round finds another phase.
LEMMA EndRound_Inv ==
  ASSUME TriviaInv, Due("EndRound"), EndRound
  PROVE  TriviaInv'
  <1> USE DEF questions, timers, people
  <1>1. queue' = <<>> /\ \A op : ~Due(op)'
    BY DoneNext, NothingDue DEF TriviaInv, EndRound, Due
  <1>2. \A op \in (GameOp \cup {"Leave"}) \ {"EndRound"} : ~Due(op)
    BY DEF Due, GameOp
  <1>3. UNCHANGED <<people, round, owner, spectators, winners, answers_in, questions, meta,
                    results, restarts>> /\ Supplied' = Supplied
    BY DEF EndRound, Supplied
  <1>4. CASE phase # "question"
    <2>1. UNCHANGED <<phase, timers, round_answers, players>> /\ Deserted' = Deserted
      BY <1>4 DEF EndRound, Deserted
    <2>2. OneCommand' /\ Typed'
      BY <1>1, <1>3, <2>1 DEF TriviaInv, OneCommand, Typed
    <2>3. Course'
      BY <1>1, <1>2, <1>3, <1>4, <2>1
         DEF TriviaInv, Course, Timers, Waiting, Batch, GameCommands, GameOp
    <2>4. Members' /\ Places'
      BY <1>1, <1>2, <1>3, <2>1, MembersKept, PlacesKept DEF TriviaInv, DueFor
    <2>5. Answers' /\ OneScorePerRound'
      BY <1>3, <2>1, AnswersKept DEF TriviaInv
    <2> QED
      BY <2>2, <2>3, <2>4, <2>5 DEF TriviaInv
  <1>5. CASE phase = "question"
    <2>1. rounds \in 0 .. 1 /\ breaks = 0 /\ Supplied
      BY <1>5 DEF TriviaInv, Typed, Course, Timers, Waiting
    <2>2. /\ phase' = "reveal" /\ rounds' = 0 /\ breaks' = 1 /\ DOMAIN round_answers' = {}
          /\ players' = [p \in DOMAIN players |->
                           IF p \in DOMAIN round_answers /\ round_answers[p]
                           THEN [players[p] EXCEPT !.correct = @ + 1] ELSE players[p]]
      BY <1>5, <2>1 DEF EndRound, NoOne
    <2>3. DOMAIN players' = DOMAIN players /\ Deserted' = Deserted
      BY <2>2 DEF Deserted
    <2>4. \A t \in DOMAIN players :
            /\ players[t] \in Player
            /\ players[t].correct \in Nat /\ players[t].correct <= round - 1
            /\ round \in Nat /\ round <= TotalRounds /\ TotalRounds \in Nat
      BY <1>5, TriviaAssumption DEF TriviaInv, Typed, Player, OneScorePerRound
    <2>5. \A t \in DOMAIN players : players'[t] \in Player /\ players'[t].correct <= round
      <3> SUFFICES ASSUME NEW t \in DOMAIN players
                   PROVE  players'[t] \in Player /\ players'[t].correct <= round
        OBVIOUS
      <3>1. players'[t] = [players[t] EXCEPT !.correct = @ + 1] \/ players'[t] = players[t]
        BY <2>2
      <3> QED
        BY <2>4, <3>1 DEF Player
    <2>6. OneCommand' /\ Typed'
      <3>1. players' \in [DOMAIN players' -> Player]
        BY <2>2, <2>3, <2>5
      <3> QED
        BY <1>1, <1>3, <2>2, <2>3, <3>1 DEF TriviaInv, OneCommand, Typed, Phase
    <2>7. Course'
      BY <1>1, <1>2, <1>3, <2>1, <2>2
         DEF TriviaInv, Course, Timers, Waiting, Batch, GameCommands, GameOp
    <2>8. Members' /\ Places'
      BY <1>1, <1>2, <1>3, <2>2, <2>3, MembersKept, PlacesKept DEF TriviaInv, DueFor
    <2>9. Answers' /\ OneScorePerRound'
      BY <1>3, <2>2, <2>3, <2>4, <2>5 DEF Answers, OneScorePerRound
    <2> QED
      BY <2>6, <2>7, <2>8, <2>9 DEF TriviaInv
  <1> QED
    BY <1>4, <1>5

LEMMA Advance_Inv ==
  ASSUME TriviaInv, Due("Advance"), Advance
  PROVE  TriviaInv'
  <1> USE DEF questions, timers, people
  <1>1. \A op \in (GameOp \cup {"Leave"}) \ {"Advance"} : ~Due(op)
    BY DEF Due, GameOp
  <1>2. UNCHANGED <<people, game, round_answers, questions, timers, meta, results, restarts>>
        /\ Deserted' = Deserted /\ Supplied' = Supplied
    BY DEF Advance, game, Deserted, Supplied
  <1>3. round \in Nat /\ TotalRounds \in Nat
    BY TriviaAssumption DEF TriviaInv, Typed
  <1>4. \/ /\ queue' = <<Command("FinishGame")>> /\ \A op : Due(op)' <=> op = "FinishGame"
        \/ /\ round < TotalRounds
           /\ queue' = <<Start(round + 1)>> /\ Head(queue').round = round + 1
           /\ \A op : Due(op)' <=> op = "StartRound"
    <2>1. queue # <<>>
      BY DEF Due
    <2>2. \/ Done(<<Command("FinishGame")>>)
          \/ round < TotalRounds /\ Done(<<Start(round + 1)>>)
      BY <1>3 DEF Advance
    <2>3. /\ Start(round + 1).op = "StartRound" /\ Start(round + 1).round = round + 1
          /\ Command("FinishGame").op = "FinishGame"
      BY DEF Start, Command
    <2> QED
      BY <2>1, <2>2, <2>3, DoneNext, CommandDue DEF TriviaInv
  <1>5. OneCommand' /\ Typed'
    <2>1. Command("FinishGame") \in Commands /\ Start(round + 1) \in Commands
      BY <1>3 DEF Start, Command, Commands
    <2> QED
      BY <1>2, <1>4, <2>1 DEF TriviaInv, OneCommand, Typed, game
  <1>6. Course'
    <2>1. /\ rounds = 0 /\ breaks = 0 /\ Supplied
          /\ phase = "reveal" \/ (phase = "finished" /\ Deserted)
      BY DEF TriviaInv, Course, GameCommands
    <2> QED
      BY <1>1, <1>2, <1>4, <2>1
         DEF TriviaInv, Course, Timers, Waiting, Batch, GameCommands, GameOp, game
  <1>7. Members' /\ Places'
    BY <1>1, <1>2, <1>4, MembersKept, PlacesKept DEF TriviaInv, DueFor, game
  <1>8. Answers' /\ OneScorePerRound'
    BY <1>2, AnswersKept DEF TriviaInv, game
  <1> QED
    BY <1>5, <1>6, <1>7, <1>8 DEF TriviaInv

LEMMA FinishGame_Inv ==
  ASSUME TriviaInv, Due("FinishGame"), FinishGame
  PROVE  TriviaInv'
  <1> USE DEF questions, timers, people
  <1>1. queue' = <<>> /\ \A op : ~Due(op)'
    BY DoneNext, NothingDue DEF TriviaInv, FinishGame, Due
  <1>2. \A op \in (GameOp \cup {"Leave"}) \ {"FinishGame"} : ~Due(op)
    BY DEF Due, GameOp
  <1>3. /\ UNCHANGED <<people, round, owner, spectators, players, answers_in, round_answers,
                       questions, timers, restarts>>
        /\ Deserted' = Deserted /\ Supplied' = Supplied
        /\ phase' = "finished"
        /\ UNCHANGED meta \/ SyncMeta
    BY DEF FinishGame, Deserted, Supplied
  <1>4. winners' \subseteq Range(account) /\ results' \in Nat
    <2>1. \A p \in Best : p \in DOMAIN account
      BY DEF Best, TriviaInv, Typed
    <2> QED
      BY <2>1 DEF TriviaInv, Typed, FinishGame, Range
  <1>5. OneCommand' /\ Typed'
    BY <1>1, <1>3, <1>4 DEF TriviaInv, OneCommand, Typed, Phase
  <1>6. Course'
    BY <1>1, <1>2, <1>3
       DEF TriviaInv, Typed, Course, Timers, Waiting, Batch, GameCommands, GameOp
  <1>7. Members' /\ Places'
    BY <1>1, <1>2, <1>3, MembersKept, PlacesKept DEF TriviaInv, DueFor
  <1>8. Answers' /\ OneScorePerRound'
    BY <1>3, AnswersKept DEF TriviaInv
  <1> QED
    BY <1>5, <1>6, <1>7, <1>8 DEF TriviaInv

LEMMA Execute_Inv == TriviaInv /\ Execute => TriviaInv'
  BY ExecuteCases, Join_Inv, Leave_Inv, ToggleReady_Inv, Restart_Inv, StartGame_Inv, Answer_Inv,
     GenerateQuestions_Inv, QuestionsReady_Inv, StartRound_Inv, EndRound_Inv, Advance_Inv,
     FinishGame_Inv DEF TriviaInv


-----------------------------------------------------------------------------
(* Between the handlers.                                                   *)

\* A command is dispatched that is none of the game's.
LEMMA Dispatch_Inv ==
  ASSUME TriviaInv, Idle, NEW c \in Commands, Dispatch(c), c.op \notin Trigger,
         UNCHANGED <<account, open, timers>>,
         conn' \in [Session -> {"new", "connected", "away", "kept", "gone"}], Members'
  PROVE  TriviaInv'
  <1> USE DEF questions
  <1>1. \A op : ~Due(op)
    BY NothingDue DEF Idle
  <1>2. queue' = <<c>> /\ UNCHANGED <<game, round_answers, questions, meta, results, restarts>>
        /\ Deserted' = Deserted
    BY DEF Dispatch, game, Deserted
  <1>3. \A op \in Trigger : ~Due(op)'
    BY <1>2, CommandDue
  <1>4. OneCommand' /\ Typed'
    BY <1>2 DEF OneCommand, TriviaInv, Typed, game, timers
  <1>5. Course'
    BY <1>1, <1>2, <1>3, CourseKept DEF TriviaInv, game
  <1>6. Places' /\ Answers' /\ OneScorePerRound'
    BY <1>2, PlacesKept, AnswersKept DEF TriviaInv, game
  <1> QED
    BY <1>4, <1>5, <1>6 DEF TriviaInv

\* Only what is due changes for the members.
LEMMA MembersTold ==
  ASSUME Members, Idle, UNCHANGED <<account, owner, spectators, players, round_answers>>,
         \A s \in Session : /\ conn'[s] = "new" => conn[s] = "new"
                            /\ DueFor("Join", s)' => conn'[s] = "new"
                            /\ DueFor("Leave", s)' => conn'[s] = "gone"
                            /\ s \in Present' <=> s \in Present /\ ~DueFor("Leave", s)',
         DOMAIN round_answers \subseteq Session
  PROVE  Members'
  <1>1. \A s \in Session : ~DueFor("Leave", s)
    BY NothingDue DEF Idle, DueFor
  <1>2. Deserted' = Deserted
    BY DEF Deserted
  <1> QED
    BY <1>1, <1>2 DEF Members

LEMMA ClientJoins_Inv ==
  ASSUME TriviaInv, NEW s \in Session, NEW wants \in BOOLEAN, ClientJoins(s, wants)
  PROVE  TriviaInv'
  <1> DEFINE c == [op |-> "Join", session |-> s, wants |-> wants]
  <1>1. c \in Commands /\ c.op = "Join" /\ c.session = s
    BY DEF Commands
  <1>2. Idle /\ conn[s] = "new" /\ Dispatch(c) /\ UNCHANGED <<people, timers>>
    BY DEF ClientJoins
  <1> HIDE DEF c
  <1>3. \A op : Due(op)' <=> op = "Join"
    BY <1>1, <1>2, CommandDue DEF Dispatch
  <1>4. \A t \in Session : ~DueFor("Leave", t)' /\ (DueFor("Join", t)' <=> t = s)
    BY <1>1, <1>2, <1>3, CommandDue DEF Dispatch, DueFor
  <1>5. Members'
    BY <1>2, <1>4, MembersTold DEF TriviaInv, Typed, Dispatch, people, game, Present
  <1> QED
    BY <1>1, <1>2, <1>5, Dispatch_Inv DEF Trigger, people, TriviaInv, Typed

LEMMA Message_Inv ==
  ASSUME TriviaInv, NEW s \in Session, Message(s)
  PROVE  TriviaInv'
  <1>1. PICK c \in Commands : Dispatch(c) /\ c.op \in {"ToggleReady", "StartGame", "Restart", "Answer"}
    <2>1. \A op \in {"ToggleReady", "StartGame", "Restart"} :
            From(op, s) \in Commands /\ From(op, s).op = op
      BY DEF From, Commands
    <2>2. \A right \in BOOLEAN : [op |-> "Answer", session |-> s, right |-> right] \in Commands
      BY DEF Commands
    <2> QED
      BY <2>1, <2>2 DEF Message
  <1>2. Idle /\ UNCHANGED <<people, timers>>
    BY DEF Message
  <1>3. \A t \in Session : ~DueFor("Leave", t)' /\ ~DueFor("Join", t)'
    BY <1>1, CommandDue DEF Dispatch, DueFor
  <1>4. Members'
    BY <1>1, <1>2, <1>3, MembersTold DEF TriviaInv, Typed, Dispatch, people, game, Present
  <1> QED
    BY <1>1, <1>2, <1>4, Dispatch_Inv DEF Trigger, people, TriviaInv, Typed

LEMMA GoodBye_Inv ==
  ASSUME TriviaInv, NEW s \in Session, Idle, conn[s] \in {"connected", "away"}, GoodBye(s)
  PROVE  TriviaInv'
  <1>1. From("Leave", s) \in Commands /\ From("Leave", s).op = "Leave" /\ From("Leave", s).session = s
    BY DEF From, Commands
  <1>2. /\ conn' = [conn EXCEPT ![s] = "gone"] /\ Dispatch(From("Leave", s))
        /\ UNCHANGED <<account, open, timers>>
    BY DEF GoodBye
  <1>3. queue' = <<From("Leave", s)>>
        /\ UNCHANGED <<game, round_answers, questions, meta, results, restarts>>
    BY <1>2 DEF Dispatch
  <1>4. \A t \in Session : ~DueFor("Join", t)' /\ (DueFor("Leave", t)' <=> t = s)
    BY <1>1, <1>3, CommandDue DEF DueFor
  <1>5. conn' \in [Session -> {"new", "connected", "away", "kept", "gone"}]
        /\ \A t \in Session : conn'[t] = IF t = s THEN "gone" ELSE conn[t]
    BY <1>2 DEF TriviaInv, Typed
  <1>6. Members'
    <2>1. UNCHANGED <<account, owner, spectators, players, round_answers>>
      BY <1>2, <1>3 DEF game
    <2>2. \A t \in Session : t \in Present' <=> t \in Present /\ t # s
      BY <1>5 DEF Present
    <2> QED
      BY <1>4, <1>5, <2>1, <2>2, MembersTold DEF TriviaInv, Typed
  <1> QED
    BY <1>1, <1>2, <1>5, <1>6, Dispatch_Inv DEF Trigger

\* A client that is away is there for the room.
LEMMA Comings_Inv ==
  ASSUME TriviaInv, Idle, conn' \in [Session -> {"new", "connected", "away", "kept", "gone"}],
         \A s \in Session : /\ conn'[s] = "new" <=> conn[s] = "new"
                            /\ conn'[s] = "gone" <=> conn[s] = "gone",
         open' \in BOOLEAN,
         UNCHANGED <<account, game, round_answers, questions, timers, queue, meta, results,
                     restarts>>
  PROVE  TriviaInv'
  <1> USE DEF questions
  <1>1. queue' = <<>> /\ \A op : ~Due(op) /\ ~Due(op)'
    BY NothingDue DEF Idle
  <1>2. Deserted' = Deserted
    BY DEF Deserted, game
  <1>3. OneCommand' /\ Typed'
    BY <1>1 DEF OneCommand, TriviaInv, Typed, game, timers
  <1>4. Course'
    BY <1>1, <1>2, CourseKept DEF TriviaInv, game
  <1>5. Members'
    <2>1. \A s \in Session : ~DueFor("Leave", s)' /\ ~DueFor("Join", s)'
      BY <1>1 DEF DueFor
    <2>2. Present' = Present
      BY DEF Present, TriviaInv, Typed
    <2> QED
      BY <2>1, <2>2, MembersTold DEF TriviaInv, Typed, game
  <1>6. Places' /\ Answers' /\ OneScorePerRound'
    BY PlacesKept, AnswersKept DEF TriviaInv, game
  <1> QED
    BY <1>3, <1>4, <1>5, <1>6 DEF TriviaInv

LEMMA ClientStep_Inv ==
  ASSUME TriviaInv, NEW s \in Session,
         ClientLeaves(s) \/ Disconnect(s) \/ Return(s) \/ Expire(s)
  PROVE  TriviaInv'
  <1>1. CASE ClientLeaves(s) \/ Expire(s)
    BY <1>1, GoodBye_Inv DEF ClientLeaves, Expire
  <1>2. CASE Disconnect(s)
    <2>1. CASE phase = "lobby"
      BY <1>2, <2>1, GoodBye_Inv DEF Disconnect
    <2>2. CASE phase # "lobby"
      BY <1>2, <2>2, Comings_Inv DEF Disconnect, TriviaInv, Typed
    <2> QED
      BY <2>1, <2>2
  <1>3. CASE Return(s)
    BY <1>3, Comings_Inv DEF Return, TriviaInv, Typed
  <1> QED
    BY <1>1, <1>2, <1>3

LEMMA Timer_Inv ==
  ASSUME TriviaInv, RoundTimer \/ BreakTimer
  PROVE  TriviaInv'
  <1> USE DEF questions, timers, people
  <1>1. Idle /\ \A op : ~Due(op)
    BY NothingDue DEF RoundTimer, BreakTimer, Idle
  <1>2. PICK op \in {"EndRound", "Advance"} :
          /\ Dispatch(Command(op)) /\ UNCHANGED people
          /\ op = "EndRound" => rounds = 1 /\ rounds' = 0 /\ UNCHANGED breaks
          /\ op = "Advance" => breaks = 1 /\ breaks' = 0 /\ UNCHANGED rounds
    BY DEF RoundTimer, BreakTimer, TriviaInv, Typed
  <1>3. /\ queue' = <<Command(op)>>
        /\ UNCHANGED <<game, round_answers, questions, meta, results, restarts>>
        /\ Deserted' = Deserted /\ Supplied' = Supplied
    BY <1>2 DEF Dispatch, game, Deserted, Supplied
  <1>4. Command(op) \in Commands /\ Command(op).op = op
    BY DEF Command, Commands
  <1>5. \A o : Due(o)' <=> o = op
    BY <1>3, <1>4, CommandDue
  <1>6. OneCommand' /\ Typed'
    BY <1>2, <1>3, <1>4 DEF OneCommand, TriviaInv, Typed, game
  <1>7. Course'
    <2>1. Timers' /\ Batch'
      BY <1>1, <1>2, <1>3, <1>5 DEF TriviaInv, Typed, Course, Timers, Batch, game
    <2>2. Waiting'
      BY <1>1, <1>2, <1>3, <1>5 DEF TriviaInv, Typed, Course, Timers, Waiting, game
    <2>3. GameCommands'
      BY <1>2, <1>3, <1>5 DEF TriviaInv, Typed, Course, Timers, Waiting, GameCommands, game
    <2> QED
      BY <2>1, <2>2, <2>3 DEF Course
  <1>8. Members' /\ Places'
    BY <1>1, <1>2, <1>3, <1>5, MembersKept, PlacesKept DEF TriviaInv, DueFor, game
  <1>9. Answers' /\ OneScorePerRound'
    BY <1>3, AnswersKept DEF TriviaInv, game
  <1> QED
    BY <1>6, <1>7, <1>8, <1>9 DEF TriviaInv

LEMMA BatchArrives_Inv ==
  ASSUME TriviaInv, BatchArrives
  PROVE  TriviaInv'
  <1> USE DEF questions, timers, people
  <1>1. Idle /\ \A op : ~Due(op)
    BY NothingDue DEF BatchArrives, Idle
  <1>2. /\ task /\ task' = FALSE /\ queue' = <<Command("QuestionsReady")>>
        /\ UNCHANGED <<people, game, round_answers, pending, in_flight, needed, timers, meta,
                       results, restarts>>
        /\ Deserted' = Deserted /\ Supplied' = Supplied
    BY DEF BatchArrives, game, Deserted, Supplied
  <1>3. Command("QuestionsReady") \in Commands /\ Command("QuestionsReady").op = "QuestionsReady"
    BY DEF Command, Commands
  <1>4. \A o : Due(o)' <=> o = "QuestionsReady"
    BY <1>2, <1>3, CommandDue
  <1>5. OneCommand' /\ Typed'
    BY <1>2, <1>3 DEF OneCommand, TriviaInv, Typed, game
  <1>6. Course'
    BY <1>1, <1>2, <1>4 DEF TriviaInv, Course, Timers, Waiting, Batch, GameCommands, game
  <1>7. Members' /\ Places'
    BY <1>1, <1>2, <1>4, MembersKept, PlacesKept DEF TriviaInv, DueFor, game
  <1>8. Answers' /\ OneScorePerRound'
    BY <1>2, AnswersKept DEF TriviaInv, game
  <1> QED
    BY <1>5, <1>6, <1>7, <1>8 DEF TriviaInv

\* The timers and the task are made again as the phase needs them.
LEMMA ServerRestarts_Inv ==
  ASSUME TriviaInv, ServerRestarts
  PROVE  TriviaInv'
  <1> USE DEF questions, timers, people
  <1>1. Idle /\ \A op : ~Due(op)
    BY NothingDue DEF ServerRestarts, Idle
  <1>2. /\ restarts' \in 0 .. MaxRestarts
        /\ conn' = [s \in Session |-> IF conn[s] = "connected" THEN "kept" ELSE conn[s]]
        /\ rounds' = IF phase = "question" THEN 1 ELSE 0
        /\ breaks' = IF phase = "reveal" THEN 1 ELSE 0
        /\ in_flight' = FALSE /\ task' = FALSE
        /\ UNCHANGED <<account, open, game, round_answers, pending, meta, results>>
        /\ Deserted' = Deserted /\ Supplied' = Supplied
    BY TriviaAssumption DEF ServerRestarts, Resume, game, Deserted, Supplied, TriviaInv, Typed
  <1>3. needed' \in 0 .. TotalRounds /\ (phase = "generating" => needed' = 1)
    BY <1>1, TriviaAssumption DEF ServerRestarts, Resume, TriviaInv, Typed, Course, Waiting
  <1>4. \/ phase # "generating" /\ queue' = <<>> /\ \A op : ~Due(op)'
        \/ /\ phase = "generating" /\ queue' = <<Command("GenerateQuestions")>>
           /\ \A op : Due(op)' <=> op = "GenerateQuestions"
    <2>1. queue' = IF phase = "generating" THEN <<Command("GenerateQuestions")>> ELSE <<>>
      BY DEF ServerRestarts, Resume
    <2>2. Command("GenerateQuestions").op = "GenerateQuestions"
      BY DEF Command
    <2> QED
      BY <2>1, <2>2, NothingDue, CommandDue
  <1>5. OneCommand'
    <2>1. Command("GenerateQuestions") \in Commands
      BY DEF Command, Commands
    <2> QED
      BY <1>4, <2>1 DEF OneCommand
  <1>6. Typed'
    <2>1. conn' \in [Session -> {"new", "connected", "away", "kept", "gone"}]
      BY <1>2 DEF TriviaInv, Typed
    <2>2. rounds' \in 0 .. 1 /\ breaks' \in 0 .. 1
      BY <1>2
    <2> QED
      BY <1>2, <1>3, <2>1, <2>2 DEF TriviaInv, Typed, game
  <1>7. Course'
    BY <1>1, <1>2, <1>3, <1>4 DEF TriviaInv, Course, Timers, Waiting, Batch, GameCommands, game
  <1>8. Members'
    <2>1. \A s \in Session : ~DueFor("Leave", s)' /\ ~DueFor("Join", s)'
      BY <1>4 DEF DueFor
    <2>2. Present' = Present /\ \A s \in Session : conn'[s] = "new" => conn[s] = "new"
      BY <1>2 DEF Present
    <2> QED
      BY <1>1, <1>2, <2>1, <2>2, MembersTold DEF TriviaInv, Typed, game
  <1>9. Places' /\ Answers' /\ OneScorePerRound'
    BY <1>2, PlacesKept, AnswersKept DEF TriviaInv, game
  <1> QED
    BY <1>5, <1>6, <1>7, <1>8, <1>9 DEF TriviaInv

-----------------------------------------------------------------------------
(* The invariant.                                                          *)

LEMMA TriviaInit_Inv == TriviaInit => TriviaInv
  <1> SUFFICES ASSUME TriviaInit PROVE TriviaInv
    OBVIOUS
  <1>1. DOMAIN players = {} /\ DOMAIN round_answers = {} /\ Deserted
    BY DEF TriviaInit, NoOne, Deserted
  <1>2. queue = <<>> /\ \A op : ~Due(op)
    BY NothingDue DEF TriviaInit
  <1>3. OneCommand
    BY <1>2 DEF OneCommand
  <1>4. Typed
    <2>1. account = [s \in Session |-> account[s]]
      BY TriviaAssumption DEF TriviaInit
    <2>2. players \in [DOMAIN players -> Player]
      BY <1>1 DEF TriviaInit, NoOne
    <2>3. conn \in [Session -> {"new", "connected", "away", "kept", "gone"}]
      BY DEF TriviaInit
    <2>4. 0 \in 0 .. TotalRounds /\ 0 \in 0 .. MaxRestarts
      BY TriviaAssumption
    <2>5. DOMAIN players \subseteq Session /\ DOMAIN round_answers \subseteq Session
          /\ winners \subseteq Range(account)
      BY <1>1 DEF TriviaInit
    <2>6. pending \subseteq 1 .. TotalRounds /\ spectators \subseteq Session
      BY DEF TriviaInit
    <2>7. open \in BOOLEAN /\ in_flight \in BOOLEAN /\ task \in BOOLEAN
      BY Zenon DEF TriviaInit
    <2>8. phase \in Phase /\ owner \in Session \cup {Nobody}
      BY DEF TriviaInit, Phase
    <2>9. round \in 0 .. TotalRounds /\ needed \in 0 .. TotalRounds
          /\ restarts \in 0 .. MaxRestarts
      BY <2>4 DEF TriviaInit
    <2>10. rounds \in 0 .. 1 /\ breaks \in 0 .. 1 /\ results \in Nat /\ answers_in \in Nat
      BY DEF TriviaInit
    <2> QED
      BY <2>1, <2>2, <2>3, <2>5, <2>6, <2>7, <2>8, <2>9, <2>10 DEF Typed
  <1>5. Course
    BY <1>2 DEF TriviaInit, Course, Timers, Waiting, Batch, GameCommands
  <1>6. Members
    BY <1>1, <1>2 DEF TriviaInit, Members, Present, DueFor
  <1>7. Places
    BY <1>1, FS_EmptySet, TriviaAssumption DEF TriviaInit, Places
  <1>8. Answers /\ OneScorePerRound
    BY <1>1 DEF TriviaInit, Answers, OneScorePerRound
  <1> QED
    BY <1>3, <1>4, <1>5, <1>6, <1>7, <1>8 DEF TriviaInv

LEMMA TriviaStill_Inv == TriviaInv /\ UNCHANGED triviaVars => TriviaInv'
  <1> SUFFICES ASSUME TriviaInv, UNCHANGED triviaVars PROVE TriviaInv'
    OBVIOUS
  <1> USE DEF triviaVars, people, game, questions, timers
  <1>1. Supplied' = Supplied /\ Deserted' = Deserted /\ Present' = Present
        /\ \A op : Due(op)' <=> Due(op)
    BY DEF Supplied, Deserted, Present, Due
  <1>2. \A op, s : DueFor(op, s)' <=> DueFor(op, s)
    BY <1>1 DEF DueFor
  <1>3. OneCommand' /\ Typed'
    BY DEF TriviaInv, OneCommand, Typed
  <1>4. Course'
    BY <1>1 DEF TriviaInv, Course, Timers, Waiting, Batch, GameCommands
  <1>5. Members'
    BY <1>1, <1>2 DEF TriviaInv, Members
  <1>6. Places' /\ Answers' /\ OneScorePerRound'
    BY PlacesKept, AnswersKept DEF TriviaInv
  <1> QED
    BY <1>3, <1>4, <1>5, <1>6 DEF TriviaInv

LEMMA TriviaNext_Inv == TriviaInv /\ [TriviaNext]_triviaVars => TriviaInv'
  <1> SUFFICES ASSUME TriviaInv, [TriviaNext]_triviaVars PROVE TriviaInv'
    OBVIOUS
  <1>1. CASE Dispose
    BY <1>1, Comings_Inv DEF Dispose, TriviaInv, Typed
  <1> QED
    BY <1>1, Execute_Inv, Timer_Inv, BatchArrives_Inv, ServerRestarts_Inv, ClientJoins_Inv,
       Message_Inv, ClientStep_Inv, TriviaStill_Inv DEF TriviaNext

LEMMA TriviaInvariant == TriviaSpec => []TriviaInv
  BY TriviaInit_Inv, TriviaNext_Inv, PTL DEF TriviaSpec

-----------------------------------------------------------------------------
(* The theorems.                                                           *)

\* The variables keep their types, and players and spectators their places, over
\* every order of commands, takeovers and restarts.
THEOREM TriviaTypes == TriviaSpec => []TriviaTypeOK
  <1>1. TriviaInv => TriviaTypeOK
    <2> SUFFICES ASSUME TriviaInv PROVE TriviaTypeOK
      OBVIOUS
    <2>1. account \in [Session -> Range(account)]
      <3>1. DOMAIN account = Session
        BY DEF TriviaInv, Typed
      <3> QED
        BY <3>1 DEF TriviaInv, Typed, Range
    <2>2. \A p \in DOMAIN players :
            players[p] \in [ready : BOOLEAN, correct : 0 .. TotalRounds, answered : BOOLEAN]
      BY DEF TriviaInv, Typed, Player
    <2> QED
      BY <2>1, <2>2 DEF TriviaInv, Typed, Places, TriviaTypeOK
  <1> QED
    BY <1>1, TriviaInvariant, PTL

\* No phase of a game is left without the one thing that ends it, also after a
\* restart of the server.
THEOREM NoPhaseIsStuck == TriviaSpec => []PhaseHasWayOut
  <1>1. TriviaInv => PhaseHasWayOut
    <2> SUFFICES ASSUME TriviaInv, Idle PROVE PhaseHasWayOut
      BY DEF PhaseHasWayOut
    <2>1. \A op : ~Due(op)
      BY NothingDue DEF Idle
    <2> QED
      BY <2>1 DEF TriviaInv, Typed, Course, Timers, Waiting, Batch, PhaseHasWayOut
  <1> QED
    BY <1>1, TriviaInvariant, PTL

\* Every answer of a round is kept and counted once, through takeovers, departures
\* and restarts.
THEOREM AnswersAreCounted == TriviaSpec => []AnswersBalance
  <1>1. TriviaInv => AnswersBalance
    BY DEF TriviaInv, Answers, AnswersBalance
  <1> QED
    BY <1>1, TriviaInvariant, PTL

\* No round gives a player more than one right answer.
THEOREM RoundsScoreOnce == TriviaSpec => []OneScorePerRound
  <1>1. TriviaInv => OneScorePerRound
    BY DEF TriviaInv
  <1> QED
    BY <1>1, TriviaInvariant, PTL

\* The lists of players and spectators, the owner and the listing agree with who
\* is there.
THEOREM ListsAgree == TriviaSpec => []PlayersInOrder
  <1>1. TriviaInv => PlayersInOrder
    <2> SUFFICES ASSUME TriviaInv, Idle PROVE PlayersInOrder
      BY DEF PlayersInOrder
    <2>1. \A s \in Session : ~DueFor("Leave", s)
      BY NothingDue DEF Idle, DueFor
    <2>2. DOMAIN players \cup spectators \subseteq Session /\ Present \subseteq Session
      BY DEF TriviaInv, Typed, Present
    <2> QED
      BY <2>1, <2>2 DEF TriviaInv, Members, Places, PlayersInOrder, Deserted
  <1> QED
    BY <1>1, TriviaInvariant, PTL


\* A decided game is neither decided nor published again, and only the owner's
\* restart leads out of it, as long as there is a player.
THEOREM DecidedOnce == TriviaSpec => FinishedIsFinal
  <1>1. ASSUME TriviaInv, [TriviaNext]_triviaVars, phase = "finished", players # NoOne
        PROVE  phase' = "lobby" \/ (phase' = "finished" /\ winners' = winners /\ results' = results)
    <2> USE DEF game, people
    <2>1. ~Deserted
      BY <1>1 DEF TriviaInv, Typed, Deserted, NoOne
    <2>2. CASE Execute
      <3>1. ~(Due("StartRound"))
        BY <1>1, <2>1 DEF TriviaInv, Course, GameCommands
      <3>2. \A s \in Session, wants \in BOOLEAN : Join(s, wants) => UNCHANGED <<phase, winners, results>>
        BY DEF Join
      <3>3. \A s \in Session : Leave(s) \/ ToggleReady(s) \/ StartGame(s)
              => UNCHANGED <<phase, winners, results>>
        BY DEF Leave, ToggleReady, StartGame
      <3>4. \A s \in Session : Restart(s)
              => phase' = "lobby" \/ UNCHANGED <<phase, winners, results>>
        BY DEF Restart
      <3>5. \A s \in Session, right \in BOOLEAN : Answer(s, right)
              => UNCHANGED <<phase, winners, results>>
        BY DEF Answer
      <3>6. GenerateQuestions \/ QuestionsReady \/ EndRound \/ Advance \/ FinishGame
              => UNCHANGED <<phase, winners, results>>
        BY <1>1 DEF GenerateQuestions, QuestionsReady, EndRound, Advance, FinishGame
      <3> QED
        BY <1>1, <2>2, <3>1, <3>2, <3>3, <3>4, <3>5, <3>6, ExecuteCases DEF TriviaInv
    <2>3. CASE ~Execute
      <3>1. UNCHANGED <<phase, winners, results>>
        BY <1>1, <2>3 DEF TriviaNext, triviaVars, RoundTimer, BreakTimer, BatchArrives, Dispose,
           ServerRestarts, ClientJoins, Message, ClientLeaves, Disconnect, Return, Expire,
           GoodBye, Dispatch
      <3> QED
        BY <1>1, <3>1
    <2> QED
      BY <2>2, <2>3
  <1> QED
    BY <1>1, TriviaInvariant, PTL DEF TriviaSpec, FinishedIsFinal

\* How many commands are executed at most for a command and for the queue.
WorkOf(op) ==
  IF op \in {"ToggleReady", "GenerateQuestions", "EndRound", "FinishGame"} THEN 1
  ELSE IF op \in {"Join", "Leave", "Restart", "Answer", "StartRound"} THEN 2 ELSE 3
Work == IF queue = <<>> THEN 0 ELSE WorkOf(Head(queue).op)
Drains == Execute => Work' < Work

\* The dispatcher's drain comes to an end: commands enqueue commands, but none more
\* than two others after it, whatever the state of the room.
THEOREM DrainEnds == TriviaSpec => [](Work <= 3) /\ [][Drains]_triviaVars
  <1> USE DEF WorkOf
  <1>1. Work <= 3
    BY DEF Work
  <1>2. \A c : queue' = <<c>> => Work' = WorkOf(c.op)
    BY DEF Work
  <1>3. ASSUME TriviaInv, Execute
        PROVE  Work' < Work
    <2>1. queue # <<>>
      BY <1>3 DEF Execute
    <2>2. Done(<<>>) => Work' < Work
      BY <1>3, <2>1, DoneNext DEF Work, TriviaInv
    <2>3. \A op : Command(op).op = op
      BY DEF Command
    <2>4. \A r : Start(r).op = "StartRound"
      BY DEF Start
    <2>5. /\ \A op \in {"GenerateQuestions", "EndRound", "FinishGame"} :
               Done(<<Command(op)>>) => Work' = 1
          /\ \A r : Done(<<Start(r)>>) => Work' = 2
      BY <1>2, <1>3, <2>1, <2>3, <2>4, DoneNext DEF TriviaInv
    <2>6. ASSUME NEW s \in Session, NEW wants \in BOOLEAN, DueFor("Join", s), Join(s, wants)
          PROVE  Work' < Work
      <3>1. Done(<<>>) \/ Done(<<Command("GenerateQuestions")>>)
        BY <2>6 DEF Join, TakeOver, JoinAsPlayer, JoinAsSpectator
      <3> QED
        BY <2>2, <2>5, <2>6, <3>1 DEF Work, DueFor, Due
    <2>7. ASSUME NEW s \in Session, DueFor("Leave", s), Leave(s)
          PROVE  Work' < Work
      <3>1. \A x : <<x>> \o <<>> = <<x>> /\ <<>> \o <<x>> = <<x>> /\ <<>> \o <<>> = <<>>
        OBVIOUS
      <3>2. Done(<<>>) \/ Done(<<Command("EndRound")>>) \/ Done(<<Command("FinishGame")>>)
        BY <2>7, <3>1 DEF Leave, Ends
      <3> QED
        BY <2>2, <2>5, <2>7, <3>2 DEF Work, DueFor, Due
    <2>8. ASSUME NEW s \in Session, DueFor("Restart", s), Restart(s)
          PROVE  Work' < Work
      BY <2>2, <2>5, <2>8 DEF Work, DueFor, Due, Restart
    <2>9. ASSUME NEW s \in Session, DueFor("StartGame", s), StartGame(s)
          PROVE  Work' < Work
      BY <2>2, <2>5, <2>9 DEF Work, DueFor, Due, StartGame
    <2>10. ASSUME NEW s \in Session, NEW right \in BOOLEAN, DueFor("Answer", s), Answer(s, right)
           PROVE  Work' < Work
      <3>1. Done(<<>>) \/ Done(<<Command("EndRound")>>)
        BY <2>10 DEF Answer
      <3> QED
        BY <2>2, <2>5, <2>10, <3>1 DEF Work, DueFor, Due
    <2>11. CASE (Due("GenerateQuestions") /\ GenerateQuestions)
                \/ (Due("EndRound") /\ EndRound) \/ (Due("FinishGame") /\ FinishGame)
      BY <2>2, <2>11 DEF GenerateQuestions, EndRound, FinishGame
    <2>12. CASE Due("QuestionsReady") /\ QuestionsReady
      BY <2>2, <2>5, <2>12 DEF Work, Due, QuestionsReady
    <2>13. ASSUME NEW r \in Nat, Due("StartRound"), StartRound(r)
           PROVE  Work' < Work
      <3>1. Done(<<>>) \/ Done(<<Command("GenerateQuestions")>>)
        BY <2>13 DEF StartRound
      <3> QED
        BY <2>2, <2>5, <2>13, <3>1 DEF Work, Due
    <2>14. CASE Due("Advance") /\ Advance
      <3>1. Done(<<Command("FinishGame")>>) \/ Done(<<Start(round + 1)>>)
        BY <2>14 DEF Advance
      <3> QED
        BY <2>5, <2>14, <3>1 DEF Work, Due
    <2>15. \A s \in Session : ToggleReady(s) => Work' < Work
      BY <2>2 DEF ToggleReady
    <2> QED
      BY <1>3, <2>6, <2>7, <2>8, <2>9, <2>10, <2>11, <2>12, <2>13, <2>14, <2>15, ExecuteCases
         DEF TriviaInv
  <1>4. TriviaInv => Drains
    BY <1>3 DEF Drains
  <1> QED
    BY <1>1, <1>4, TriviaInvariant, PTL

\* How far a game has come.
Position ==
  IF phase = "lobby" THEN 0
  ELSE IF phase = "generating" THEN 1
  ELSE IF phase = "question" THEN 2 * round
  ELSE IF phase = "reveal" THEN 2 * round + 1
  ELSE 2 * TotalRounds + 2

Forward == phase \in InGame => UNCHANGED <<phase, round>> \/ Position' > Position
GameGoesForward == [][Forward]_triviaVars

\* No command, no timer and no restart of the server repeats a round or takes a game
\* back: it changes its phase at most as often as there are positions.
THEOREM NoRoundIsRepeated ==
  TriviaSpec => [](Position \in 0 .. 2 * TotalRounds + 2) /\ GameGoesForward
  <1>1. TriviaInv => Position \in 0 .. 2 * TotalRounds + 2
    BY TriviaAssumption DEF TriviaInv, Typed, Position
  <1>2. ASSUME TriviaInv, [TriviaNext]_triviaVars, phase \in InGame
        PROVE  Position' > Position \/ UNCHANGED <<phase, round>>
    <2> USE DEF game, people
    <2>1. round \in Nat /\ TotalRounds \in Nat /\ round <= TotalRounds
      BY <1>2, TriviaAssumption DEF TriviaInv, Typed
    <2>2. CASE Execute
      <3>1. \A s \in Session, wants \in BOOLEAN : Join(s, wants) => UNCHANGED <<phase, round>>
        BY DEF Join
      <3>2. \A s \in Session : Leave(s) \/ ToggleReady(s) \/ StartGame(s)
              => UNCHANGED <<phase, round>>
        BY DEF Leave, ToggleReady, StartGame
      <3>3. \A s \in Session : Restart(s) => UNCHANGED <<phase, round>>
        BY <1>2 DEF Restart, InGame
      <3>4. \A s \in Session, right \in BOOLEAN : Answer(s, right) => UNCHANGED <<phase, round>>
        BY DEF Answer
      <3>5. GenerateQuestions \/ QuestionsReady \/ Advance => UNCHANGED <<phase, round>>
        BY DEF GenerateQuestions, QuestionsReady, Advance
      <3>6. EndRound => Position' > Position \/ UNCHANGED <<phase, round>>
        BY <2>1 DEF EndRound, Position
      <3>7. FinishGame => Position' > Position
        BY <1>2, <2>1 DEF FinishGame, Position, InGame
      <3>8. ASSUME NEW r \in Nat, Due("StartRound"), Head(queue).round = r, StartRound(r)
            PROVE  Position' > Position
        <4>1. r = round + 1 /\ r \in pending /\ phase \in {"generating", "reveal"}
          <5>1. /\ r = round + 1 /\ r <= TotalRounds /\ Supplied
                /\ phase \in {"generating", "reveal"}
            BY <1>2, <2>1, <3>8 DEF TriviaInv, Course, GameCommands, InGame
          <5> QED
            BY <2>1, <5>1 DEF Supplied
        <4>2. phase' = "question" /\ round' = round + 1
          BY <3>8, <4>1 DEF StartRound
        <4> QED
          BY <2>1, <4>1, <4>2 DEF Position
      <3> QED
        BY <1>2, <2>2, <3>1, <3>2, <3>3, <3>4, <3>5, <3>6, <3>7, <3>8, ExecuteCases DEF TriviaInv
    <2>3. CASE ~Execute
      BY <1>2, <2>3 DEF TriviaNext, triviaVars, RoundTimer, BreakTimer, BatchArrives, Dispose,
         ServerRestarts, ClientJoins, Message, ClientLeaves, Disconnect, Return, Expire,
         GoodBye, Dispatch
    <2> QED
      BY <2>2, <2>3
  <1> QED
    BY <1>1, <1>2, TriviaInvariant, PTL DEF TriviaSpec, GameGoesForward, Forward
=============================================================================
