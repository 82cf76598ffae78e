-------------------------------- MODULE Rps ---------------------------------
(***************************************************************************)
(* The rock-paper-scissors server and its players (user/src/rps).  A       *)
(* player blocks in Send until the server replies; the server takes        *)
(* requests in the order they were sent and answers both players of a game *)
(* when the second one has moved, or when either wants to quit.  Before it  *)
(* announces a result and after it ended a game it waits for a key at the   *)
(* console, in a busy loop, and takes no request meanwhile.                 *)
(***************************************************************************)
EXTENDS Integers, Sequences, FiniteSets, SequencesExt

CONSTANTS
  Players,       \* those of the four that are started
  MaxGames       \* pairs in all_pairs (100)

ASSUME RpsAssumption ==
  Players \subseteq {"alice", "bob", "charles", "darwin"} /\ MaxGames \in Nat

VARIABLES
  rps_waiting,   \* the set of at most one player waiting for a partner
  games_list,    \* newest first: [p1, p2, progress, m1, m2]
  inbox,         \* requests the server has not received: [tid, action, move]
  player,        \* [at: what it waits for, i: moves made, reply]
  key_wait,      \* what the server does once a key is typed, and to which game
  rps_fault      \* an assertion failed, or a reply reached no blocked player

rpsvars == <<rps_waiting, games_list, inbox, player, key_wait, rps_fault>>

NoMove == "none"
NoAnswer == -1
NoKey == [then |-> "receive", game |-> 0]
\* enum RpsRespEnum; RPS_SIGNUP, also sent as a result, has GAME_STOP's value.
GAME_STOP == 0
GAME_WIN == 1
GAME_LOSE == 2
GAME_DRAW == 3
RPS_SIGNUP == 0

RpsInit ==
  /\ rps_waiting = {} /\ games_list = <<>> /\ inbox = <<>>
  /\ key_wait = NoKey /\ rps_fault = FALSE
  /\ player = [p \in Players |-> [at |-> "new", i |-> 0, reply |-> NoAnswer]]

-----------------------------------------------------------------------------
(* rps_player_main                                                         *)

Moves(p) ==
  CASE p = "alice" -> <<"ROCK", "PAPER">>
    [] p = "bob" -> <<"PAPER">>
    [] p = "charles" -> <<"SCISSOR">>
    [] p = "darwin" -> <<"SCISSOR", "ROCK">>

\* MSG_SEND: what p asks for next; at is also where it waits for the answer.
Request(p, at, i) ==
  /\ player' = [player EXCEPT ![p] = [at |-> at, i |-> i, reply |-> NoAnswer]]
  /\ inbox' = Append(inbox, [tid |-> p, action |-> at,
                             move |-> IF at = "play" THEN Moves(p)[i + 1] ELSE NoMove])
  /\ UNCHANGED <<rps_waiting, games_list, key_wait, rps_fault>>

NextMove(p, i) == Request(p, IF i < Len(Moves(p)) THEN "play" ELSE "quit", i)

SignUp(p) == player[p].at = "new" /\ Request(p, "signup", 0)

\* The answers to sign-up and to quit are asserted; GAME_STOP in answer to a
\* move means signing up again and retrying that move.
OnReply(p) ==
  LET r == player[p].reply
      i == player[p].i
  IN  /\ r # NoAnswer
      /\ CASE player[p].at = "signup" /\ r = RPS_SIGNUP -> NextMove(p, i)
           [] player[p].at = "play" /\ r \in {GAME_WIN, GAME_LOSE, GAME_DRAW} -> NextMove(p, i + 1)
           [] player[p].at = "play" /\ r = GAME_STOP -> Request(p, "signup", i)
           [] player[p].at = "quit" /\ r = GAME_STOP ->
                /\ player' = [player EXCEPT ![p] = [at |-> "done", i |-> i, reply |-> NoAnswer]]
                /\ UNCHANGED <<rps_waiting, games_list, inbox, key_wait, rps_fault>>
           [] OTHER ->
                rps_fault' = TRUE /\ UNCHANGED <<rps_waiting, games_list, inbox, key_wait, player>>

-----------------------------------------------------------------------------
(* rps_server_main                                                         *)

\* The first game of the list that tid_in_game accepts; 0 if there is none.
GameOf(p) ==
  LET at == {g \in DOMAIN games_list : p \in {games_list[g].p1, games_list[g].p2}}
  IN  IF at = {} THEN 0 ELSE CHOOSE g \in at : \A k \in at : g <= k

\* Reply-blocked: its request has been received, by this step at the latest, and
\* not answered.
ReplyBlocked(p) ==
  /\ player[p].at \notin {"new", "done"} /\ player[p].reply = NoAnswer
  /\ \A k \in DOMAIN inbox' : inbox'[k].tid # p

\* MSG_REPLY to both players of a game.
ReplyTo(p1, r1, p2, r2) ==
  /\ player' = [player EXCEPT ![p1].reply = r1, ![p2].reply = r2]
  /\ rps_fault' = (rps_fault \/ ~ReplyBlocked(p1) \/ ~ReplyBlocked(p2) \/ p1 = p2)

NoReply == UNCHANGED <<player, rps_fault>>

calc_game(m1, m2) ==
  IF m1 = m2 THEN GAME_DRAW
  ELSE CASE <<m1, m2>> \in {<<"ROCK", "SCISSOR">>, <<"PAPER", "ROCK">>, <<"SCISSOR", "PAPER">>} -> GAME_WIN
         [] <<m1, m2>> \in {<<"ROCK", "PAPER">>, <<"PAPER", "SCISSOR">>} -> GAME_LOSE
         [] OTHER -> GAME_DRAW      \* SCISSOR against ROCK

Swapped(r) == CASE r = GAME_WIN -> GAME_LOSE [] r = GAME_LOSE -> GAME_WIN [] OTHER -> GAME_DRAW

\* uart_getc(0, 0): the server takes no request until a key is typed.
AwaitKey(why, g) == key_wait' = [then |-> why, game |-> g]
NoWait == UNCHANGED key_wait

\* Both players are told to stop; the game is over once a key is typed.
quit_game(g) ==
  /\ ReplyTo(games_list[g].p1, GAME_STOP, games_list[g].p2, GAME_STOP)
  /\ AwaitKey("end", g)
  /\ UNCHANGED games_list

ServeSignup(p) ==
  /\ NoWait
  /\ IF rps_waiting = {}
       THEN rps_waiting' = {p} /\ NoReply /\ UNCHANGED games_list
       ELSE LET w == CHOOSE w \in rps_waiting : TRUE
            IN  /\ rps_waiting' = {}
                /\ IF Len(games_list) = MaxGames
                     THEN rps_fault' = TRUE /\ UNCHANGED <<games_list, player>>
                     ELSE /\ games_list' = <<[p1 |-> w, p2 |-> p, progress |-> "WAIT_0",
                                              m1 |-> NoMove, m2 |-> NoMove]>> \o games_list
                          /\ ReplyTo(w, RPS_SIGNUP, p, RPS_SIGNUP)

\* With both moves made the result is announced once a key is typed.
ServePlay(p, move) ==
  LET g == GameOf(p)
      old == games_list[g]
      new == IF old.p1 = p THEN [old EXCEPT !.m1 = move] ELSE [old EXCEPT !.m2 = move]
  IN  /\ UNCHANGED rps_waiting
      /\ CASE g = 0 -> rps_fault' = TRUE /\ NoWait /\ UNCHANGED <<games_list, player>>
           [] g # 0 /\ old.progress = "WAIT_0" ->
                /\ games_list' = [games_list EXCEPT ![g] = [new EXCEPT !.progress = "WAIT_1"]]
                /\ NoReply /\ NoWait
           [] g # 0 /\ old.progress = "WAIT_1" ->
                /\ games_list' = [games_list EXCEPT ![g] = [new EXCEPT !.progress = "WAIT_0"]]
                /\ NoReply /\ AwaitKey("result", g)
           [] OTHER -> quit_game(g)

\* Mutant of ServeQuit: a partner that has already moved is not released.
MutServeQuit(p) ==
  LET g == GameOf(p)
  IN  /\ UNCHANGED rps_waiting
      /\ CASE g = 0 -> rps_fault' = TRUE /\ NoWait /\ UNCHANGED <<games_list, player>>
           [] g # 0 /\ games_list[g].progress = "QUIT_PENDING" -> quit_game(g)
           [] OTHER ->
                games_list' = [games_list EXCEPT ![g].progress = "QUIT_PENDING"] /\ NoReply /\ NoWait

\* pair is used without a test for NULL.
ServeQuit(p) ==
  LET g == GameOf(p)
  IN  /\ UNCHANGED rps_waiting
      /\ CASE g = 0 -> rps_fault' = TRUE /\ NoWait /\ UNCHANGED <<games_list, player>>
           [] g # 0 /\ games_list[g].progress \in {"QUIT_PENDING", "WAIT_1"} -> quit_game(g)
           [] OTHER ->
                games_list' = [games_list EXCEPT ![g].progress = "QUIT_PENDING"] /\ NoReply /\ NoWait

RpsServe ==
  /\ key_wait = NoKey
  /\ inbox # <<>>
  /\ inbox' = Tail(inbox)
  /\ LET q == Head(inbox)
     IN  CASE q.action = "signup" -> ServeSignup(q.tid)
           [] q.action = "play" -> ServePlay(q.tid, q.move)
           [] OTHER -> ServeQuit(q.tid)

\* A key is typed and both players are told the result.
AnnounceResult ==
  /\ key_wait.then = "result"
  /\ UNCHANGED <<rps_waiting, games_list, inbox>>
  /\ LET e == games_list[key_wait.game]
         r == calc_game(e.m1, e.m2)
     IN  ReplyTo(e.p1, r, e.p2, Swapped(r))
  /\ key_wait' = NoKey

\* Mutant of DeletePair: the game stays in the list.
MutDeletePair ==
  /\ key_wait.then = "end"
  /\ key_wait' = NoKey
  /\ NoReply /\ UNCHANGED <<games_list, rps_waiting, inbox>>

\* A key is typed and the game that has ended leaves the list.
DeletePair ==
  /\ key_wait.then = "end"
  /\ games_list' = RemoveAt(games_list, key_wait.game)
  /\ key_wait' = NoKey
  /\ NoReply /\ UNCHANGED <<rps_waiting, inbox>>

RpsNext ==
  /\ ~rps_fault
  /\ RpsServe \/ AnnounceResult \/ DeletePair \/ \E p \in Players : SignUp(p) \/ OnReply(p)

\* Every ready task is run again: the kernel is a FIFO within a priority, and
\* all of these tasks block.  That a key is typed is left to whoever sits at the
\* console: AnnounceResult and DeletePair are not fair.
RpsFairness ==
  /\ WF_rpsvars(~rps_fault /\ RpsServe)
  /\ \A p \in Players : WF_rpsvars(~rps_fault /\ (SignUp(p) \/ OnReply(p)))

-----------------------------------------------------------------------------
\* Who is in a game is in one game, with a partner that has neither left nor
\* asked for another one, until the server has told them both to stop; who has
\* asked to stop is answered before it leaves.  No assertion fails, no NULL game
\* is used, and every reply finds the player it is for blocked on it
\* (rps_server_main, quit_game).
PartnersPresent ==
  LET On == {g \in DOMAIN games_list : key_wait # [then |-> "end", game |-> g]}
  IN  /\ ~rps_fault
      /\ \A g, k \in On :
           g # k => {games_list[g].p1, games_list[g].p2} \cap {games_list[k].p1, games_list[k].p2} = {}
      /\ \A g \in On : \A p \in {games_list[g].p1, games_list[g].p2} :
           /\ p \notin rps_waiting
           /\ player[p].at \in {"signup", "play", "quit"}
           /\ player[p].at = "signup" => player[p].reply = RPS_SIGNUP

\* If somebody types a key whenever the server waits for one, then in the end
\* everybody has made all moves and left, but for one player at most, who waits
\* for a partner (rps_server_main, rps_player_main).
AllFinish ==
  []<>(key_wait = NoKey) => <>[](\A p \in Players : player[p].at = "done" \/ p \in rps_waiting)
=============================================================================
