------------------------------- MODULE Trivia -------------------------------
(***************************************************************************)
(* The room of the trivia demo (demos/trivia/server): its commands, its    *)
(* timers, the task that asks for questions, and the restore after a       *)
(* restart of the server.  A handler of the room dispatches a command and  *)
(* the queue is run until it is empty (command.rs); here each command is a *)
(* step, and nothing else happens to the room while there are any.         *)
(*                                                                         *)
(* Names, texts and points are left out: a round gives every right answer  *)
(* the same points, so that the number of them stands for the score.  Of   *)
(* an answer the model has whether it is right.                            *)
(***************************************************************************)
EXTENDS Integers, Sequences, FiniteSets, Functions

CONSTANTS
  Session,
  Nobody,         \* no owner
  Accounts,       \* which account each session may belong to
  TotalRounds,    \* TOTAL_ROUNDS
  MaxPlayers,     \* MAX_PLAYERS
  MaxSpectators,  \* MAX_SPECTATORS
  MaxRestarts     \* restarts of the server (bound)

ASSUME TriviaAssumption ==
  /\ IsFiniteSet(Session) /\ Nobody \notin Session
  /\ \A a \in Accounts : a = [s \in Session |-> a[s]]
  /\ TotalRounds \in Nat \ {0}
  /\ {MaxPlayers, MaxSpectators, MaxRestarts} \subseteq Nat

VARIABLES
  account,        \* user_id of each session
  conn,           \* each session's client: new, connected, away for at most 60 s,
                  \* kept for ever, or gone
  open,           \* the room has not been disposed
  phase, round, owner, spectators, winners,
  players,        \* ready, correct_count and answered of each player
  answers_in,
  round_answers,  \* TriviaInternal: who has answered, and whether rightly
  pending,        \* pending_questions: the rounds that have their question
  in_flight,      \* batch_in_flight
  needed,         \* needed_round; 0 for None
  task,           \* the task that waits for the questions is alive
  rounds, breaks, \* how many timers are armed to end a round, and a break
  queue,          \* the dispatcher's
  meta,           \* the listing's metadata
  results,        \* how often the game of now was published
  restarts        \* of the server

people == <<account, conn, open>>
game == <<phase, round, owner, spectators, winners, players, answers_in>>
questions == <<pending, in_flight, needed, task>>
timers == <<rounds, breaks>>
triviaVars == <<people, game, round_answers, questions, timers, queue, meta, results, restarts>>

Phase == {"lobby", "generating", "question", "reveal", "finished"}
InGame == {"question", "reveal", "generating"}
NewPlayer == [ready |-> FALSE, correct |-> 0, answered |-> FALSE]

Present == {s \in Session : conn[s] \in {"connected", "away", "kept"}}
NoOne == [s \in {} |-> NewPlayer]
Without(f, s) == Restrict(f, DOMAIN f \ {s})
With(f, s, v) == [t \in DOMAIN f \cup {s} |-> IF t = s THEN v ELSE f[t]]

TriviaInit ==
  /\ account \in Accounts
  /\ conn = [s \in Session |-> "new"]
  /\ open = TRUE
  /\ phase = "lobby" /\ round = 0 /\ owner = Nobody
  /\ players = NoOne /\ spectators = {} /\ winners = {}
  /\ answers_in = 0 /\ round_answers = NoOne
  /\ pending = {} /\ in_flight = FALSE /\ needed = 0 /\ task = FALSE
  /\ rounds = 0 /\ breaks = 0
  /\ queue = <<>>
  /\ meta = [phase |-> "lobby", round |-> 0, players |-> 0, spectators |-> 0]
  /\ results = 0 /\ restarts = 0

\* sync_meta
SyncMeta ==
  meta' = [phase |-> phase', round |-> round', players |-> Cardinality(DOMAIN players'),
           spectators |-> Cardinality(spectators')]

Command(op) == [op |-> op]
From(op, s) == [op |-> op, session |-> s]
Start(r) == [op |-> "StartRound", round |-> r]

\* A command is done, and has enqueued others.
Done(cs) == queue' = Tail(queue) \o cs

-----------------------------------------------------------------------------
(* Commands of the lobby.                                                  *)

Stale(s) == {old \in DOMAIN players : account[old] = account[s] /\ old # s}

\* The player's entry and answer go to the account's new session, and the old
\* session has left without on_leave (remove_client).  Mutants: the answer stays
\* behind; the old session is only told to leave.
TakeOverNoAnswer(s, old) ==
  /\ conn' = [conn EXCEPT ![old] = "gone", ![s] = "connected"]
  /\ players' = With(Without(players, old), s, players[old])
  /\ owner' = IF owner = old THEN s ELSE owner
  /\ Done(<<>>)
  /\ UNCHANGED <<round_answers, spectators>>
TakeOver(s, old) ==
  /\ conn' = [conn EXCEPT ![old] = "gone", ![s] = "connected"]
  /\ round_answers' = IF old \in DOMAIN round_answers
                      THEN With(Without(round_answers, old), s, round_answers[old])
                      ELSE round_answers
  /\ players' = With(Without(players, old), s, players[old])
  /\ owner' = IF owner = old THEN s ELSE owner
  /\ Done(<<>>)
  /\ UNCHANGED spectators

\* Mutant: without the check of MAX_PLAYERS.
CanPlayBug == phase = "lobby"
CanPlay == phase = "lobby" /\ Cardinality(DOMAIN players) < MaxPlayers

JoinAsPlayer(s) ==
  /\ players' = With(players, s, NewPlayer)
  /\ spectators' = spectators \ {s}
  /\ owner' = IF owner = Nobody THEN s ELSE owner
  /\ conn' = [conn EXCEPT ![s] = "connected"]
  /\ Done(IF DOMAIN players = {} THEN <<Command("GenerateQuestions")>> ELSE <<>>)
  /\ UNCHANGED round_answers

\* on_join fails when there is no place for a spectator either.
JoinAsSpectator(s) ==
  /\ IF Cardinality(spectators) < MaxSpectators
     THEN spectators' = spectators \cup {s} /\ conn' = [conn EXCEPT ![s] = "connected"]
     ELSE conn' = [conn EXCEPT ![s] = "gone"] /\ UNCHANGED spectators
  /\ Done(<<>>)
  /\ UNCHANGED <<players, owner, round_answers>>

Join(s, wants) ==
  /\ UNCHANGED <<account, open, phase, round, winners, answers_in, questions, timers, results, restarts>>
  /\ IF Stale(s) # {} THEN \E old \in Stale(s) : TakeOver(s, old)
     ELSE IF wants /\ CanPlay THEN JoinAsPlayer(s) ELSE JoinAsSpectator(s)
  /\ SyncMeta

\* What the departure of a player ends; its answer is still counted.  Mutant: one
\* player does not go on alone.
EndsBug(left) ==
  (IF phase = "question" /\ left # {} /\ answers_in >= Cardinality(left)
   THEN <<Command("EndRound")>> ELSE <<>>)
  \o (IF Cardinality(left) <= 1 /\ phase \in InGame THEN <<Command("FinishGame")>> ELSE <<>>)
Ends(left) ==
  (IF phase = "question" /\ left # {} /\ answers_in >= Cardinality(left)
   THEN <<Command("EndRound")>> ELSE <<>>)
  \o (IF left = {} /\ phase \in InGame THEN <<Command("FinishGame")>> ELSE <<>>)

\* Mutant: the room keeps its owner.
LeaveBug(s) ==
  LET left == DOMAIN players \ {s}
  IN /\ UNCHANGED <<people, owner, phase, round, winners, answers_in, round_answers, questions,
                    timers, results, restarts>>
     /\ players' = Without(players, s) /\ spectators' = spectators \ {s}
     /\ SyncMeta
     /\ Done(IF s \in DOMAIN players THEN Ends(left) ELSE <<>>)
Leave(s) ==
  LET left == DOMAIN players \ {s}
  IN /\ UNCHANGED <<people, phase, round, winners, answers_in, round_answers, questions, timers,
                    results, restarts>>
     /\ players' = Without(players, s) /\ spectators' = spectators \ {s}
     /\ owner' \in IF owner # s THEN {owner} ELSE IF left = {} THEN {Nobody} ELSE left
     /\ SyncMeta
     /\ Done(IF s \in DOMAIN players THEN Ends(left) ELSE <<>>)

ToggleReady(s) ==
  /\ players' = IF phase = "lobby" /\ s \in DOMAIN players
                THEN [players EXCEPT ![s].ready = ~@] ELSE players
  /\ Done(<<>>)
  /\ UNCHANGED <<people, phase, round, owner, spectators, winners, answers_in, round_answers,
                 questions, timers, meta, results, restarts>>

\* Mutant: the scores stay.
RestartBug(s) ==
  /\ UNCHANGED <<people, owner, spectators, answers_in, round_answers, in_flight, needed, task,
                 timers, restarts>>
  /\ IF phase # "finished" \/ owner # s
     THEN Done(<<>>) /\ UNCHANGED <<phase, round, winners, players, pending, meta, results>>
     ELSE /\ phase' = "lobby" /\ round' = 0 /\ winners' = {} /\ results' = 0
          /\ players' = [p \in DOMAIN players |-> [players[p] EXCEPT !.ready = FALSE]]
          /\ pending' = {}
          /\ Done(<<Command("GenerateQuestions")>>)
          /\ SyncMeta
Restart(s) ==
  /\ UNCHANGED <<people, owner, spectators, answers_in, round_answers, in_flight, needed, task,
                 timers, restarts>>
  /\ IF phase # "finished" \/ owner # s
     THEN Done(<<>>) /\ UNCHANGED <<phase, round, winners, players, pending, meta, results>>
     ELSE /\ phase' = "lobby" /\ round' = 0 /\ winners' = {} /\ results' = 0
          /\ players' = [p \in DOMAIN players |-> NewPlayer]
          /\ pending' = {}
          /\ Done(<<Command("GenerateQuestions")>>)
          /\ SyncMeta

-----------------------------------------------------------------------------
(* Commands of the game.                                                   *)

StartGame(s) ==
  /\ Done(IF /\ phase = "lobby" /\ owner = s /\ DOMAIN players # {}
             /\ \A p \in DOMAIN players : players[p].ready
          THEN <<Start(1)>> ELSE <<>>)
  /\ UNCHANGED <<people, game, round_answers, questions, timers, meta, results, restarts>>

Answer(s, right) ==
  /\ IF phase = "question" /\ s \in DOMAIN players /\ ~players[s].answered
     THEN /\ players' = [players EXCEPT ![s].answered = TRUE]
          /\ answers_in' = answers_in + 1
          /\ round_answers' = With(round_answers, s, right)
          /\ Done(IF answers_in' >= Cardinality(DOMAIN players)
                  THEN <<Command("EndRound")>> ELSE <<>>)
     ELSE Done(<<>>) /\ UNCHANGED <<players, answers_in, round_answers>>
  /\ UNCHANGED <<people, phase, round, owner, spectators, winners, questions, timers, meta,
                 results, restarts>>

GenerateQuestions ==
  /\ IF in_flight \/ Cardinality(pending) >= TotalRounds
     THEN UNCHANGED <<in_flight, task>>
     ELSE in_flight' = TRUE /\ task' = TRUE
  /\ Done(<<>>)
  /\ UNCHANGED <<people, game, round_answers, pending, needed, timers, meta, results, restarts>>

\* Mutant: a game that waits is not started.
QuestionsReadyBug ==
  /\ in_flight' = FALSE /\ pending' = pending \cup 1 .. TotalRounds
  /\ Done(<<>>)
  /\ UNCHANGED <<people, game, round_answers, needed, task, timers, meta, results, restarts>>
QuestionsReady ==
  /\ in_flight' = FALSE /\ pending' = pending \cup 1 .. TotalRounds
  /\ IF needed = 1 /\ phase = "generating"
     THEN needed' = 0 /\ Done(<<Start(1)>>)
     ELSE Done(<<>>) /\ UNCHANGED needed
  /\ UNCHANGED <<people, game, round_answers, task, timers, meta, results, restarts>>

\* Without its question a round waits for the batch, which it asks for.
StartRound(r) ==
  /\ UNCHANGED <<people, owner, spectators, winners, in_flight, task, breaks, results, restarts>>
  /\ IF r \in pending
     THEN /\ pending' = pending \ {r}
          /\ round_answers' = NoOne
          /\ phase' = "question" /\ round' = r /\ answers_in' = 0
          /\ players' = [p \in DOMAIN players |-> [players[p] EXCEPT !.answered = FALSE]]
          /\ rounds' = rounds + 1
          /\ Done(<<>>)
          /\ UNCHANGED needed
     ELSE /\ phase' = "generating" /\ needed' = r
          /\ Done(IF in_flight THEN <<>> ELSE <<Command("GenerateQuestions")>>)
          /\ UNCHANGED <<pending, round_answers, round, answers_in, players, rounds>>
  /\ SyncMeta

EndRound ==
  /\ IF phase = "question"
     THEN /\ phase' = "reveal"
          /\ rounds' = IF rounds > 0 THEN rounds - 1 ELSE 0
          /\ breaks' = breaks + 1
          /\ round_answers' = NoOne
          /\ players' = [p \in DOMAIN players |->
                           IF p \in DOMAIN round_answers /\ round_answers[p]
                           THEN [players[p] EXCEPT !.correct = @ + 1] ELSE players[p]]
     ELSE UNCHANGED <<phase, timers, round_answers, players>>
  /\ Done(<<>>)
  /\ UNCHANGED <<people, round, owner, spectators, winners, answers_in, questions, meta, results,
                 restarts>>

Advance ==
  /\ Done(IF round >= TotalRounds THEN <<Command("FinishGame")>> ELSE <<Start(round + 1)>>)
  /\ UNCHANGED <<people, game, round_answers, questions, timers, meta, results, restarts>>

Best == {p \in DOMAIN players : \A q \in DOMAIN players : players[q].correct <= players[p].correct}

FinishGame ==
  /\ UNCHANGED <<people, round, owner, spectators, players, answers_in, round_answers, questions,
                 timers, restarts>>
  /\ IF phase = "finished" THEN UNCHANGED <<phase, winners, results, meta>>
     ELSE /\ phase' = "finished" /\ winners' = {account[p] : p \in Best}
          /\ results' = results + 1
          /\ SyncMeta
  /\ Done(<<>>)

\* drain: the first command of the queue.
Execute ==
  /\ open /\ queue # <<>>
  /\ LET c == Head(queue)
     IN CASE c.op = "Join"              -> Join(c.session, c.wants)
          [] c.op = "Leave"             -> Leave(c.session)
          [] c.op = "ToggleReady"       -> ToggleReady(c.session)
          [] c.op = "Restart"           -> Restart(c.session)
          [] c.op = "StartGame"         -> StartGame(c.session)
          [] c.op = "Answer"            -> Answer(c.session, c.right)
          [] c.op = "GenerateQuestions" -> GenerateQuestions
          [] c.op = "QuestionsReady"    -> QuestionsReady
          [] c.op = "StartRound"        -> StartRound(c.round)
          [] c.op = "EndRound"          -> EndRound
          [] c.op = "Advance"           -> Advance
          [] OTHER                      -> FinishGame

-----------------------------------------------------------------------------
(* What happens to the room between its handlers.                          *)

Idle == open /\ queue = <<>>

Dispatch(c) == queue' = <<c>> /\ UNCHANGED <<game, round_answers, questions, meta, results, restarts>>

\* on_join, if max_clients allows it.
ClientJoins(s, wants) ==
  /\ Idle /\ conn[s] = "new"
  /\ Cardinality(Present) < MaxPlayers + MaxSpectators
  /\ Dispatch([op |-> "Join", session |-> s, wants |-> wants])
  /\ UNCHANGED <<people, timers>>

\* on_message
Message(s) ==
  /\ Idle /\ conn[s] = "connected"
  /\ \/ \E op \in {"ToggleReady", "StartGame", "Restart"} : Dispatch(From(op, s))
     \/ \E right \in BOOLEAN : Dispatch([op |-> "Answer", session |-> s, right |-> right])
  /\ UNCHANGED <<people, timers>>

GoodBye(s) ==
  /\ conn' = [conn EXCEPT ![s] = "gone"]
  /\ Dispatch(From("Leave", s))
  /\ UNCHANGED <<account, open, timers>>

\* on_leave, consented.
ClientLeaves(s) == Idle /\ conn[s] = "connected" /\ GoodBye(s)

\* on_drop: a seat is held in a game, and not in the lobby.
Disconnect(s) ==
  /\ Idle /\ conn[s] = "connected"
  /\ IF phase = "lobby" THEN GoodBye(s)
     ELSE /\ conn' = [conn EXCEPT ![s] = "away"]
          /\ UNCHANGED <<account, open, game, round_answers, questions, timers, queue, meta,
                         results, restarts>>

Return(s) ==
  /\ Idle /\ conn[s] \in {"away", "kept"}
  /\ conn' = [conn EXCEPT ![s] = "connected"]
  /\ UNCHANGED <<account, open, game, round_answers, questions, timers, queue, meta, results, restarts>>

\* The time to return ends: on_leave.
Expire(s) == Idle /\ conn[s] = "away" /\ GoodBye(s)

RoundTimer ==
  /\ Idle /\ rounds > 0 /\ rounds' = rounds - 1
  /\ Dispatch(Command("EndRound"))
  /\ UNCHANGED <<people, breaks>>

BreakTimer ==
  /\ Idle /\ breaks > 0 /\ breaks' = breaks - 1
  /\ Dispatch(Command("Advance"))
  /\ UNCHANGED <<people, rounds>>

\* generate_batch_or_mock returns a question for every round.
BatchArrives ==
  /\ Idle /\ task /\ task' = FALSE
  /\ queue' = <<Command("QuestionsReady")>>
  /\ UNCHANGED <<people, game, round_answers, pending, in_flight, needed, timers, meta, results,
                 restarts>>

\* The room has nobody who is there or may return.
Dispose ==
  /\ Idle /\ Present = {}
  /\ open' = FALSE
  /\ UNCHANGED <<account, conn, game, round_answers, questions, timers, queue, meta, results, restarts>>

\* on_restore after a shutdown in order (module Persistence): who was connected
\* may return without a deadline; timers and the task are made anew
\* (resume_after_restore).  Mutant: batch_in_flight stays.
ResumeBug ==
  /\ rounds' = IF phase = "question" THEN 1 ELSE 0
  /\ breaks' = IF phase = "reveal" THEN 1 ELSE 0
  /\ task' = FALSE
  /\ needed' = IF phase = "generating" /\ needed = 0 THEN 1 ELSE needed
  /\ queue' = IF phase = "generating" THEN <<Command("GenerateQuestions")>> ELSE <<>>
  /\ UNCHANGED in_flight
Resume ==
  /\ rounds' = IF phase = "question" THEN 1 ELSE 0
  /\ breaks' = IF phase = "reveal" THEN 1 ELSE 0
  /\ in_flight' = FALSE /\ task' = FALSE
  /\ needed' = IF phase = "generating" /\ needed = 0 THEN 1 ELSE needed
  /\ queue' = IF phase = "generating" THEN <<Command("GenerateQuestions")>> ELSE <<>>

ServerRestarts ==
  /\ Idle /\ restarts < MaxRestarts /\ restarts' = restarts + 1
  /\ conn' = [s \in Session |-> IF conn[s] = "connected" THEN "kept" ELSE conn[s]]
  /\ Resume
  /\ UNCHANGED <<account, open, game, round_answers, pending, meta, results>>

TriviaNext ==
  \/ Execute \/ RoundTimer \/ BreakTimer \/ BatchArrives \/ Dispose \/ ServerRestarts
  \/ \E s \in Session :
       \/ \E wants \in BOOLEAN : ClientJoins(s, wants)
       \/ Message(s) \/ ClientLeaves(s) \/ Disconnect(s) \/ Return(s) \/ Expire(s)

\* The queue is drained, timers fire and the task's answer comes; that the
\* clients' messages come first is no obstacle for ever (see the README).
TriviaFairness == WF_triviaVars(Execute) /\ SF_triviaVars(RoundTimer)
                  /\ SF_triviaVars(BreakTimer) /\ SF_triviaVars(BatchArrives)

TriviaSpec == TriviaInit /\ [][TriviaNext]_triviaVars /\ TriviaFairness

-----------------------------------------------------------------------------
(* Properties.                                                             *)

TriviaTypeOK ==
  /\ account \in [Session -> Range(account)]
  /\ conn \in [Session -> {"new", "connected", "away", "kept", "gone"}]
  /\ open \in BOOLEAN
  /\ phase \in Phase /\ round \in 0 .. TotalRounds
  /\ owner \in Session \cup {Nobody}
  /\ spectators \subseteq Session /\ Cardinality(spectators) <= MaxSpectators
  /\ DOMAIN players \subseteq Session /\ Cardinality(DOMAIN players) <= MaxPlayers
  /\ \A p \in DOMAIN players :
       players[p] \in [ready : BOOLEAN, correct : 0 .. TotalRounds, answered : BOOLEAN]
  /\ winners \subseteq Range(account)
  /\ answers_in \in Nat
  /\ DOMAIN round_answers \subseteq Session
  /\ pending \subseteq 1 .. TotalRounds /\ needed \in 0 .. TotalRounds
  /\ in_flight \in BOOLEAN /\ task \in BOOLEAN
  /\ rounds \in 0 .. 1 /\ breaks \in 0 .. 1
  /\ results \in Nat /\ restarts \in 0 .. MaxRestarts

\* Between handlers every phase of a game has exactly one thing that will end
\* it, also after a restart of the server: a question its timer, the reveal its
\* break, and the wait for questions a task that is alive and whose answer starts
\* the round (resume_after_restore, QuestionsReady).
PhaseHasWayOut ==
  Idle => /\ phase = "question" => rounds = 1 /\ breaks = 0
          /\ phase = "reveal" => rounds = 0 /\ breaks = 1
          /\ phase = "generating" => task /\ in_flight /\ needed = 1

\* While a question is open, the answers kept for it are those of the players
\* marked as having answered, and answers_in counts them, through takeovers,
\* departures (which stay counted) and restarts.
AnswersBalance ==
  Idle /\ phase = "question" =>
    /\ {p \in DOMAIN players : players[p].answered} = DOMAIN players \cap DOMAIN round_answers
    /\ answers_in = Cardinality(DOMAIN round_answers)

\* Nobody has more right answers than rounds of this game have ended.
OneScorePerRound ==
  \A p \in DOMAIN players :
    players[p].correct <= round - (IF phase = "question" THEN 1 ELSE 0)

\* The players are one session of each account, the owner is one of them as long
\* as there are any, nobody plays and looks on at once, players and spectators are
\* all who are there, and the listing counts them rightly (Join, Leave, sync_meta).
PlayersInOrder ==
  Idle => /\ \A p, q \in DOMAIN players : account[p] = account[q] => p = q
          /\ IF DOMAIN players = {} THEN owner = Nobody ELSE owner \in DOMAIN players
          /\ DOMAIN players \cap spectators = {}
          /\ DOMAIN players \cup spectators = Present
          /\ meta.players = Cardinality(DOMAIN players)
          /\ meta.spectators = Cardinality(spectators)

\* A game that is finished is not decided or published again, and only its owner's
\* restart leads out of it, as long as a player is there (FinishGame).
FinishedIsFinal ==
  [][phase = "finished" /\ players # NoOne =>
       \/ phase' = "lobby"
       \/ phase' = "finished" /\ winners' = winners /\ results' = results]_triviaVars

\* A game that was started comes to its end, whoever leaves or does not answer,
\* and also when the server is restarted; unless everybody has gone.
GameEnds == phase \in InGame ~> ~open \/ phase \notin InGame
=============================================================================
