----------------------------- MODULE TurnCombat -----------------------------
(***************************************************************************)
(* The turn-based combat lab (src/gameserver-fundamentals/lab1.2-turn-     *)
(* combat): game::GameServer, game::GameLoop and game::GameState.  Four    *)
(* kinds of thread share the GameState (each of its operations holds its   *)
(* mutex_) and the GameLoop's command queue and running_ flag:             *)
(*   - the main thread, GameServer::run: accept two players, one at a     *)
(*     time, start the battle when the second has joined and spawn the    *)
(*     loop thread, then join every thread;                                *)
(*   - one client thread per player, handle_client: ATTACK enqueues a     *)
(*     Command, QUIT disconnects the player and stops the server, and the *)
(*     end of the connection (peer hang-up, or the socket closed by       *)
(*     stop()) disconnects the player;                                     *)
(*   - the loop thread, GameLoop::run: per tick, swap the command queue   *)
(*     out, apply each attack, advance_tick, broadcast, and stop itself   *)
(*     once the game is over;                                              *)
(*   - the signal handler, SIGINT/SIGTERM -> GameServer::stop.             *)
(* Health is scaled down to MaxHealth and the 5..15 damage roll to the    *)
(* set Damage; names, messages and the tick counter are left out.         *)
(***************************************************************************)
EXTENDS Integers, Sequences

CONSTANTS
    MaxHealth,    \* reset_health(100)
    Damage,       \* the values uniform_int_distribution(5, 15) can draw
    MaxAttacks,   \* bound: ATTACK lines each player types
    MaxSignals    \* bound: signals delivered to the process

ASSUME MaxHealth \in Nat \ {0} /\ Damage \subseteq Nat \ {0}

\* Player ids are players_.size() at accept time, and the accept loop stops
\* at two players.
PlayerIds == 0..1
NoPlayer == -1
Other(p) == 1 - p

VARIABLES
    srvRunning,  \* GameServer::running_
    mainPc,      \* where GameServer::run is
    joined,      \* players_.size()
    connected,   \* GameState players_[p].is_connected()
    health,      \* GameState players_[p].health()
    turn,        \* GameState::current_turn_index_
    gRunning,    \* GameState::running_
    gameOver,    \* GameState::game_over_
    winner,      \* GameState::winner_id_, NoPlayer when empty
    commands,    \* GameLoop::commands_: attacker ids, oldest first
    local,       \* process_inputs' local_queue
    cpc,         \* where each client thread is
    attacks,     \* ATTACK lines each player typed
    lpc,         \* where the loop thread is
    loopFlag,    \* GameLoop::running_
    signals,     \* signals delivered so far
    shown        \* the status line of the last broadcast_state

vars == <<srvRunning, mainPc, joined, connected, health, turn, gRunning,
          gameOver, winner, commands, local, cpc, attacks, lpc, loopFlag,
          signals, shown>>
game == <<connected, health, turn, gRunning, gameOver, winner>>

Init ==
    /\ srvRunning = TRUE
    /\ mainPc = "accept"
    /\ joined = 0
    /\ connected = [p \in PlayerIds |-> FALSE]
    /\ health = [p \in PlayerIds |-> MaxHealth]
    /\ turn = 0
    /\ gRunning = FALSE
    /\ gameOver = FALSE
    /\ winner = NoPlayer
    /\ commands = << >>
    /\ local = << >>
    /\ cpc = [p \in PlayerIds |-> "none"]
    /\ attacks = [p \in PlayerIds |-> 0]
    /\ lpc = "off"
    /\ loopFlag = FALSE
    /\ signals = 0
    /\ shown = [status |-> "NONE", winner |-> NoPlayer]

\* Mutant of Player::apply_damage: health_ - amount, not floored at 0.
apply_damage_NoFloor(h, d) == h - d

\* Player::apply_damage: health_ = max(0, health_ - amount).
apply_damage(h, d) == IF h > d THEN h - d ELSE 0

\* GameState::add_or_update_player(id): connected, full health.
add_or_update_player(p) ==
    /\ connected' = [connected EXCEPT ![p] = TRUE]
    /\ health' = [health EXCEPT ![p] = MaxHealth]

\* Mutant of mark_player_disconnected: game_over_ set, running_ left as is.
mark_player_disconnected_KeepRunning(p) ==
    /\ connected' = [connected EXCEPT ![p] = FALSE]
    /\ IF gRunning /\ ~gameOver
       THEN /\ gameOver' = TRUE
            /\ winner' = IF connected[Other(p)] THEN Other(p) ELSE winner
            /\ UNCHANGED gRunning
       ELSE UNCHANGED <<gRunning, gameOver, winner>>
    /\ UNCHANGED <<health, turn>>

\* GameState::mark_player_disconnected(id): the player goes offline; a
\* battle in progress ends, won by the other player if still connected.
\* (The source assigns the undeclared runner_; running_ is meant.)
mark_player_disconnected(p) ==
    /\ connected' = [connected EXCEPT ![p] = FALSE]
    /\ IF gRunning /\ ~gameOver
       THEN /\ gameOver' = TRUE
            /\ gRunning' = FALSE
            /\ winner' = IF connected[Other(p)] THEN Other(p) ELSE winner
       ELSE UNCHANGED <<gRunning, gameOver, winner>>
    /\ UNCHANGED <<health, turn>>

\* GameState::start_if_ready (declared start_if_game): with two players in
\* players_, all connected, and no battle begun or finished, start one.
start_if_ready ==
    IF ~gRunning /\ ~gameOver /\ joined >= 2 /\ \A p \in PlayerIds : connected[p]
    THEN /\ gRunning' = TRUE
         /\ winner' = NoPlayer
         /\ turn' = 0
         /\ health' = [p \in PlayerIds |-> MaxHealth]
         /\ UNCHANGED <<connected, gameOver>>
    ELSE UNCHANGED game

\* Mutant of apply_attack: the defeated defender recorded as the winner.
apply_attack_WinnerDefender(a) ==
    IF gRunning /\ ~gameOver /\ joined >= 2 /\ a = turn /\ connected[Other(a)]
    THEN \E d \in Damage :
            LET h == apply_damage(health[Other(a)], d)
            IN /\ health' = [health EXCEPT ![Other(a)] = h]
               /\ IF h = 0
                  THEN /\ gameOver' = TRUE /\ gRunning' = FALSE
                       /\ winner' = Other(a) /\ UNCHANGED turn
                  ELSE /\ turn' = Other(a)
                       /\ UNCHANGED <<gameOver, gRunning, winner>>
               /\ UNCHANGED connected
    ELSE UNCHANGED game

\* GameState::apply_attack(attacker): ignored unless a battle runs, it is
\* the attacker's turn and the defender (the next index) is connected; the
\* defender takes a random 5..15 damage, and either dies (the attacker
\* wins) or gets the turn.
apply_attack(a) ==
    IF gRunning /\ ~gameOver /\ joined >= 2 /\ a = turn /\ connected[Other(a)]
    THEN \E d \in Damage :
            LET h == apply_damage(health[Other(a)], d)
            IN /\ health' = [health EXCEPT ![Other(a)] = h]
               /\ IF h = 0
                  THEN /\ gameOver' = TRUE /\ gRunning' = FALSE
                       /\ winner' = a /\ UNCHANGED turn
                  ELSE /\ turn' = Other(a)
                       /\ UNCHANGED <<gameOver, gRunning, winner>>
               /\ UNCHANGED connected
    ELSE UNCHANGED game

\* The first player that is connected and alive, in index order.
FirstStanding ==
    IF \E p \in PlayerIds : connected[p] /\ health[p] > 0
    THEN CHOOSE p \in PlayerIds : connected[p] /\ health[p] > 0
                                  /\ \A q \in PlayerIds : q < p => ~(connected[q] /\ health[q] > 0)
    ELSE winner

\* GameState::advance_tick: a running battle in which someone is offline or
\* dead is ended, won by the first player still connected and alive
\* (winner_id_ is left as it was when there is none).
advance_tick ==
    IF gRunning /\ ~gameOver /\ ~\A p \in PlayerIds : connected[p] /\ health[p] > 0
    THEN /\ gRunning' = FALSE /\ gameOver' = TRUE
         /\ winner' = FirstStanding
         /\ UNCHANGED <<connected, health, turn>>
    ELSE UNCHANGED game

\* GameServer::stop: the first call (running_.exchange(false) was true)
\* stops the loop, closes the listener and shuts every player's socket.
stop ==
    /\ srvRunning' = FALSE
    /\ loopFlag' = IF srvRunning THEN FALSE ELSE loopFlag

-----------------------------------------------------------------------------
(* The main thread: GameServer::run.                                       *)

\* The accept loop: players_.size() is the new player's id; the session is
\* pushed, add_or_update_player marks it connected, its client thread
\* starts.
Accept ==
    /\ mainPc = "accept" /\ srvRunning /\ joined < 2
    /\ add_or_update_player(joined)
    /\ joined' = joined + 1
    /\ cpc' = [cpc EXCEPT ![joined] = "reading"]
    /\ mainPc' = "start"
    /\ UNCHANGED <<srvRunning, turn, gRunning, gameOver, winner, commands,
                   local, attacks, lpc, loopFlag, signals, shown>>

\* After a connect, re-read players_.size(): with two players,
\* start_if_ready and spawn the loop thread unless it exists.
StartBattle ==
    /\ mainPc = "start"
    /\ IF joined = 2
       THEN /\ start_if_ready
            /\ lpc' = IF lpc = "off" THEN "start" ELSE lpc
       ELSE UNCHANGED <<game, lpc>>
    /\ mainPc' = "accept"
    /\ UNCHANGED <<srvRunning, joined, commands, local, cpc, attacks, loopFlag,
                   signals, shown>>

\* The accept loop ends: two players are in (break), or stop() has cleared
\* running_ (the while test, or accept() throwing on the closed listener
\* while running_ is false).
AcceptLoopEnd ==
    /\ mainPc = "accept" /\ (joined >= 2 \/ ~srvRunning)
    /\ mainPc' = "join"
    /\ UNCHANGED <<srvRunning, joined, game, commands, local, cpc, attacks, lpc,
                   loopFlag, signals, shown>>

\* Join every client thread, then the loop thread, then running_ = false.
JoinAll ==
    /\ mainPc = "join"
    /\ \A p \in 0..(joined - 1) : cpc[p] = "done"
    /\ lpc \in {"off", "done"}
    /\ mainPc' = "done"
    /\ srvRunning' = FALSE
    /\ UNCHANGED <<joined, game, commands, local, cpc, attacks, lpc, loopFlag,
                   signals, shown>>

-----------------------------------------------------------------------------
(* The client threads: GameServer::handle_client and handle_command.       *)

\* An ATTACK line: enqueue_command(Command{id, Attack}) under command_mutex_.
SendAttack(p) ==
    /\ cpc[p] = "reading" /\ attacks[p] < MaxAttacks
    /\ commands' = Append(commands, p)
    /\ attacks' = [attacks EXCEPT ![p] = @ + 1]
    /\ UNCHANGED <<srvRunning, mainPc, joined, game, local, cpc, lpc, loopFlag,
                   signals, shown>>

\* A QUIT line, first call: mark_player_disconnected.
Quit(p) ==
    /\ cpc[p] = "reading"
    /\ mark_player_disconnected(p)
    /\ cpc' = [cpc EXCEPT ![p] = "quit"]
    /\ UNCHANGED <<srvRunning, mainPc, joined, commands, local, attacks, lpc,
                   loopFlag, signals, shown>>

\* QUIT, second call: stop(); running_ is now false, so the read loop ends
\* and the thread's closing mark_player_disconnected finds the player
\* already offline.
QuitStop(p) ==
    /\ cpc[p] = "quit"
    /\ stop
    /\ cpc' = [cpc EXCEPT ![p] = "done"]
    /\ UNCHANGED <<mainPc, joined, game, commands, local, attacks, lpc, signals, shown>>

\* The read loop ends and the thread calls mark_player_disconnected: the
\* peer hung up (receive returned 0 or threw).
Hangup(p) ==
    /\ cpc[p] = "reading"
    /\ mark_player_disconnected(p)
    /\ cpc' = [cpc EXCEPT ![p] = "done"]
    /\ UNCHANGED <<srvRunning, mainPc, joined, commands, local, attacks, lpc,
                   loopFlag, signals, shown>>

\* The same, because stop() cleared running_ and shut the socket down.
SocketClosed(p) ==
    /\ cpc[p] = "reading" /\ ~srvRunning
    /\ mark_player_disconnected(p)
    /\ cpc' = [cpc EXCEPT ![p] = "done"]
    /\ UNCHANGED <<srvRunning, mainPc, joined, commands, local, attacks, lpc,
                   loopFlag, signals, shown>>

\* SignalHandler::handle: SIGINT or SIGTERM calls the registered stop().
Signal ==
    /\ signals < MaxSignals
    /\ stop
    /\ signals' = signals + 1
    /\ UNCHANGED <<mainPc, joined, game, commands, local, cpc, attacks, lpc, shown>>

-----------------------------------------------------------------------------
(* The loop thread: GameLoop::run.                                         *)

\* run() begins with running_.store(true).
LoopStart ==
    /\ lpc = "start"
    /\ loopFlag' = TRUE
    /\ lpc' = "head"
    /\ UNCHANGED <<srvRunning, mainPc, joined, game, commands, local, cpc,
                   attacks, signals, shown>>

\* while (running_.load()): another tick, or the closing broadcast_tick.
LoopHead ==
    /\ lpc = "head"
    /\ lpc' = IF loopFlag THEN "process" ELSE "final"
    /\ UNCHANGED <<srvRunning, mainPc, joined, game, commands, local, cpc,
                   attacks, loopFlag, signals, shown>>

\* process_inputs: swap commands_ into local_queue under command_mutex_.
TakeCommands ==
    /\ lpc = "process"
    /\ local' = commands
    /\ commands' = << >>
    /\ lpc' = "apply"
    /\ UNCHANGED <<srvRunning, mainPc, joined, game, cpc, attacks, loopFlag,
                   signals, shown>>

\* process_inputs: apply_attack for the front command, then pop it.
ApplyCommand ==
    /\ lpc = "apply" /\ local # << >>
    /\ apply_attack(Head(local))
    /\ local' = Tail(local)
    /\ UNCHANGED <<srvRunning, mainPc, joined, commands, cpc, attacks, lpc,
                   loopFlag, signals, shown>>

\* The local queue is drained: update() calls advance_tick.
Update ==
    /\ lpc = "apply" /\ local = << >>
    /\ advance_tick
    /\ lpc' = "broadcast"
    /\ UNCHANGED <<srvRunning, mainPc, joined, commands, local, cpc, attacks,
                   loopFlag, signals, shown>>

\* GameState::snapshot: running_, game_over_ and winner_id_ (the players'
\* health and names, the turn marker and last_action_ are left out).
snapshot == [running |-> gRunning, game_over |-> gameOver, winner_id |-> winner]

\* GameServer::broadcast_state: the status word (RUNNING, else FINISHED
\* when game_over, else WAITING) and "Winner: Player n" when game_over
\* and winner_id is set, sent to every client with a valid socket.
broadcast_state(snap) ==
    [status |-> IF snap.running THEN "RUNNING"
                ELSE IF snap.game_over THEN "FINISHED" ELSE "WAITING",
     winner |-> IF snap.game_over THEN snap.winner_id ELSE NoPlayer]

\* GameLoop::broadcast_tick: the broadcaster gets state_.snapshot().
broadcast_tick == shown' = broadcast_state(snapshot)

\* ++tick_counter_ and broadcast_tick.
TickBroadcast ==
    /\ lpc = "broadcast"
    /\ broadcast_tick
    /\ lpc' = "sleep"
    /\ UNCHANGED <<srvRunning, mainPc, joined, game, commands, local, cpc,
                   attacks, loopFlag, signals>>

\* Mutant of the tick's tail: the game-over test is left out.
EndTick_NoGameOverStop ==
    /\ lpc = "sleep"
    /\ lpc' = "head"
    /\ UNCHANGED <<srvRunning, mainPc, joined, game, commands, local, cpc,
                   attacks, loopFlag, signals, shown>>

\* The sleep out of the tick, then running_.store(false) once
\* state_.is_game_over().
EndTick ==
    /\ lpc = "sleep"
    /\ loopFlag' = IF gameOver THEN FALSE ELSE loopFlag
    /\ lpc' = "head"
    /\ UNCHANGED <<srvRunning, mainPc, joined, game, commands, local, cpc,
                   attacks, signals, shown>>

\* Mutant of run()'s end: no closing broadcast_tick.
LoopExit_NoFinalBroadcast ==
    /\ lpc = "final"
    /\ lpc' = "done"
    /\ UNCHANGED <<srvRunning, mainPc, joined, game, commands, local, cpc,
                   attacks, loopFlag, signals, shown>>

\* After the while loop: the closing broadcast_tick, and run() returns.
LoopExit ==
    /\ lpc = "final"
    /\ broadcast_tick
    /\ lpc' = "done"
    /\ UNCHANGED <<srvRunning, mainPc, joined, game, commands, local, cpc,
                   attacks, loopFlag, signals>>

Next ==
    \/ Accept \/ StartBattle \/ AcceptLoopEnd \/ JoinAll
    \/ \E p \in PlayerIds : SendAttack(p) \/ Quit(p) \/ QuitStop(p)
                            \/ Hangup(p) \/ SocketClosed(p)
    \/ Signal
    \/ LoopStart \/ LoopHead \/ TakeCommands \/ ApplyCommand \/ Update
    \/ TickBroadcast \/ EndTick \/ LoopExit

\* Every thread the server runs keeps taking steps: the main thread, the
\* loop thread (it sleeps out the tick and never blocks), a client thread
\* inside handle_command, and a client thread whose socket stop() shut
\* down (its receive fails).  Connecting, typing, hanging up and signals
\* are up to the environment.
Spec ==
    /\ Init /\ [][Next]_vars
    /\ WF_vars(StartBattle) /\ WF_vars(AcceptLoopEnd) /\ WF_vars(JoinAll)
    /\ WF_vars(LoopStart) /\ WF_vars(LoopHead) /\ WF_vars(TakeCommands)
    /\ WF_vars(ApplyCommand) /\ WF_vars(Update) /\ WF_vars(TickBroadcast)
    /\ WF_vars(EndTick)
    /\ WF_vars(LoopExit)
    /\ \A p \in PlayerIds : WF_vars(QuitStop(p)) /\ WF_vars(SocketClosed(p))

-----------------------------------------------------------------------------

TypeOK ==
    /\ srvRunning \in BOOLEAN
    /\ mainPc \in {"accept", "start", "join", "done"}
    /\ joined \in 0..2
    /\ connected \in [PlayerIds -> BOOLEAN]
    /\ health \in [PlayerIds -> 0..MaxHealth]
    /\ turn \in PlayerIds
    /\ gRunning \in BOOLEAN /\ gameOver \in BOOLEAN
    /\ winner \in PlayerIds \cup {NoPlayer}
    /\ commands \in Seq(PlayerIds) /\ local \in Seq(PlayerIds)
    /\ cpc \in [PlayerIds -> {"none", "reading", "quit", "done"}]
    /\ attacks \in [PlayerIds -> 0..MaxAttacks]
    /\ lpc \in {"off", "start", "head", "process", "apply", "broadcast",
                "sleep", "final", "done"}
    /\ loopFlag \in BOOLEAN
    /\ signals \in 0..MaxSignals
    /\ shown \in [status : {"NONE", "RUNNING", "FINISHED", "WAITING"},
                  winner : PlayerIds \cup {NoPlayer}]

\* While GameState says a battle runs, it is not over and both fighters are
\* online and alive: every way a battle ends (a defender's death in
\* apply_attack, a disconnect from a client thread, advance_tick) clears
\* running_ in the same locked step that causes it.
BattleBetweenStanding ==
    gRunning => /\ ~gameOver
                /\ \A p \in PlayerIds : connected[p] /\ health[p] > 0

\* A declared winner is a player still alive, and the battle it won is
\* over: apply_attack names the attacker when the defender dies, and a
\* disconnect names the opponent.
WinnerStillStanding ==
    winner # NoPlayer => gameOver /\ health[winner] > 0

\* Once the game is over the loop thread ends: GameLoop::run stops itself
\* on is_game_over() and sends its closing broadcast.
GameOverEndsLoop ==
    gameOver ~> (lpc = "done")

\* A battle that ends while the server is up is announced: once the loop
\* thread has returned because is_game_over() held, the last line clients
\* were sent says FINISHED and names the real winner, even when the game
\* ended (a player hanging up during the sleep) after that tick's
\* broadcast_tick.
\* Nothing changes the game after it is over, so the closing
\* broadcast_tick of run() is what carries the result.
ResultAnnounced ==
    (lpc = "done" /\ gameOver /\ srvRunning)
        => shown = [status |-> "FINISHED", winner |-> winner]

\* Once stop() has run (QUIT or a signal), GameServer::run returns: the
\* accept loop ends, every client thread and the loop thread are joined.
StopEndsServer ==
    ~srvRunning ~> (mainPc = "done")

=============================================================================
