------------------------------ MODULE MazeGame ------------------------------
(***************************************************************************)
(* The two games that a controller plays over USB, examples/ps5-maze and   *)
(* examples/xbox-maze: how they pick a controller and the endpoint they    *)
(* read, and the loop in which every report of the controller may move the *)
(* player through the maze.                                                *)
(*                                                                         *)
(* xbox-maze moves once for a press: it waits for a report with no         *)
(* direction before the next.  ps5-maze moves as long as a direction is    *)
(* held, 150 ms apart, and keeps a score and the time a power pellet lasts;*)
(* its ghosts are drawn once and never move.  Time is counted in ticks of  *)
(* 50 ms, the sleep between two frames.                                    *)
(***************************************************************************)
EXTENDS Integers, Sequences, FiniteSets

CONSTANTS
  Games,      \* the games: name, height and width of the level, what lies in its cells,
              \* the cells where ghosts are drawn, the start, and a bound: the reports
              \* that move the player
  Plugged,    \* the lists of devices that list_devices may return
  Reports,    \* the reports a controller may send
  FrameTimes, \* ticks from one frame to the next
  MoveDelay,  \* 150 ms
  PowerTime   \* 10 s

VARIABLES
  game,        \* the game that runs
  pc,          \* where it is: "choose", "open", "playing", "failed", "trapped"
  device,      \* the device it chose
  reads,       \* interface_number and endpoint_in
  board,       \* maze
  position,    \* current_pos
  shown,       \* what print_maze printed last
  button_down, \* xbox-maze
  score,       \* ps5-maze, as the four that follow
  power,       \* power_timer
  since_move,  \* now - last_move, up to MoveDelay + 1
  \* Kept to state the properties:
  since_meal,  \* ticks since a power pellet was eaten, up to PowerTime
  since_step,  \* ticks since the player moved, up to MoveDelay + 1
  pace,        \* ticks between the last two moves, up to MoveDelay + 1
  released,    \* what the reports since the last move said: "no" direction let go,
               \* "short", only a report too short to say, or "yes"
  moved,       \* the last report moved the player
  last_read,   \* how the last transfer ended
  moves        \* bound: reports that moved the player

setup == <<game, device, reads>>
maze == [board |-> board, position |-> position]
vars == <<game, pc, device, reads, board, position, shown, button_down, score, power,
          since_move, since_meal, since_step, pace, released, moved, last_read,
          moves>>

-----------------------------------------------------------------------------
(***************************************************************************)
(* The board.                                                              *)
(***************************************************************************)
Cells(g) == (0..g.height - 1) \X (0..g.width - 1)
Interior(g) == (1..g.height - 2) \X (1..g.width - 2)
Tiles == {"wall", "food", "power", "empty", "pacman", "ghost"}
Directions == {"up", "down", "left", "right"}

Row == [up |-> -1, down |-> 1, left |-> 0, right |-> 0]
Column == [up |-> 0, down |-> 0, left |-> -1, right |-> 1]
Neighbour(cell, d) == <<cell[1] + Row[d], cell[2] + Column[d]>>

\* The level as the loop finds it: the ghosts are drawn over what was there.
Drawn(g) == [c \in Cells(g) |-> IF c \in g.ghosts THEN "ghost" ELSE g.level[c]]

\* Slip: a wall does not stop the player.
SteppedAnywhere(m, d) ==
  LET to == Neighbour(m.position, d)
  IN [board |-> [m.board EXCEPT ![m.position] = "empty", ![to] = "pacman"], position |-> to]

\* Slip: the cell that the player leaves is not emptied.
SteppedLeavingTrail(m, d) ==
  LET to == Neighbour(m.position, d)
  IN IF m.board[to] = "wall" THEN m
     ELSE [board |-> [m.board EXCEPT ![to] = "pacman"], position |-> to]

\* A step of the player, which a wall stops.
Stepped(m, d) ==
  LET to == Neighbour(m.position, d)
  IN IF m.board[to] = "wall" THEN m
     ELSE [board |-> [m.board EXCEPT ![m.position] = "empty", ![to] = "pacman"], position |-> to]

IsLevel(g) ==
  /\ g.name \in {"ps5", "xbox"} /\ g.height \in Nat /\ g.width \in Nat /\ g.most \in Nat
  /\ g.start \in Interior(g)
  /\ g.level \in [Cells(g) -> Tiles] /\ g.ghosts \subseteq Cells(g)
  /\ \A c \in Cells(g) \ Interior(g) : g.level[c] = "wall"
  /\ \A c \in Cells(g) : g.level[c] = "pacman" <=> c = g.start
  /\ \A c \in g.ghosts : g.level[c] \notin {"wall", "pacman"}

ASSUME MazeAssumption ==
  /\ \A g \in Games : IsLevel(g)
  /\ FrameTimes \subseteq Nat \ {0} /\ FrameTimes # {}
  /\ MoveDelay \in Nat /\ PowerTime \in Nat \ {0}

-----------------------------------------------------------------------------
(***************************************************************************)
(* What a report says.                                                     *)
(***************************************************************************)
\* The d-pad of the DualSense is a hat switch: eight positions, clockwise from up.
Hat(position8) ==
  {d \in Directions : position8 \in
     [up |-> {7, 0, 1}, right |-> {1, 2, 3}, down |-> {3, 4, 5}, left |-> {5, 6, 7}][d]}

State(pressed, x, y) == [pressed |-> pressed, x |-> x, y |-> y]
Default == State({}, 0, 0)

\* x and y say on which side of the dead zone the left stick is: -1, 0 or 1.
XboxState(r) == IF r.short THEN Default ELSE State(r.buttons, r.x, r.y)
Ps5State(r) == IF r.short \/ r.id # 1 THEN Default ELSE State(Hat(r.hat), r.x, r.y)
Parsed(r) == IF device.kind = "xbox" THEN XboxState(r) ELSE Ps5State(r)

-----------------------------------------------------------------------------
Init ==
  /\ game \in Games
  /\ pc = "choose"
  /\ device = [kind |-> "none"] /\ reads = [interface |-> -1, endpoint |-> -1]
  /\ board = Drawn(game) /\ position = game.start /\ shown = Drawn(game)
  /\ button_down = FALSE
  /\ score = 0 /\ power = 0 /\ since_move = 0
  /\ since_meal = PowerTime /\ since_step = MoveDelay + 1 /\ pace = MoveDelay + 1
  /\ released = "yes" /\ moved = FALSE /\ last_read = "none" /\ moves = 0

playing == <<board, position, shown, button_down, score, power, since_move, since_meal,
             since_step, pace, released, moved, last_read, moves>>

\* The first supported controller of the list is taken.
Choose ==
  /\ pc = "choose"
  /\ \E list \in Plugged :
       LET supported == {i \in DOMAIN list : list[i].kind \in {"xbox", "ps5"}}
       IN IF supported = {} THEN pc' = "failed" /\ UNCHANGED device
          ELSE \E i \in supported :
                 /\ \A j \in supported : i <= j
                 /\ device' = list[i] /\ pc' = "open"
  /\ UNCHANGED <<game, reads>> /\ UNCHANGED playing

\* xbox-maze knows the interface; it gives up when open or claim_interface fails, and not
\* when the transfer that wakes an Xbox controller does.
XboxSetup ==
  /\ pc = "open" /\ game.name = "xbox"
  /\ pc' = "playing"
  /\ reads' = [interface |-> IF device.kind = "xbox" THEN 0 ELSE 3, endpoint |-> 129]
  /\ UNCHANGED <<game, device>> /\ UNCHANGED playing

\* ps5-maze searches: the first interface with an interrupt IN endpoint, and the last such
\* endpoint of it.  An Xbox controller must have shown an interrupt OUT endpoint by then.
\* That reset_device, set_configuration or claim_interface fails does not stop it.
InterruptIn(e) == e.interrupt /\ e.in
LastIn(endpoints, k) ==
  InterruptIn(endpoints[k]) /\ \A l \in DOMAIN endpoints : InterruptIn(endpoints[l]) => l <= k
HasIn(interface) == \E k \in DOMAIN interface.endpoints : InterruptIn(interface.endpoints[k])
HasOut(interface) ==
  \E k \in DOMAIN interface.endpoints : interface.endpoints[k].interrupt /\ ~interface.endpoints[k].in

Ps5Setup ==
  /\ pc = "open" /\ game.name = "ps5"
  /\ \E i \in DOMAIN device.interfaces :
       LET found == device.interfaces[i]
       IN /\ HasIn(found) /\ \A j \in 1..i - 1 : ~HasIn(device.interfaces[j])
          /\ device.kind = "xbox" => \E j \in 1..i : HasOut(device.interfaces[j])
          /\ \E k \in DOMAIN found.endpoints :
               /\ LastIn(found.endpoints, k)
               /\ reads' = [interface |-> found.number, endpoint |-> found.endpoints[k].address]
  /\ pc' = "playing"
  /\ UNCHANGED <<game, device>> /\ UNCHANGED playing

\* open fails, or what the game does not do without: the claim of xbox-maze, the endpoints
\* of ps5-maze, or the transfer of 5 bytes that is made for an Xbox controller.
SetupFails ==
  /\ pc = "open"
  /\ pc' = "failed"
  /\ UNCHANGED setup /\ UNCHANGED playing

-----------------------------------------------------------------------------
(***************************************************************************)
(* The loop of ps5-maze.  A read that fails or times out is a frame too:   *)
(* the clocks run on and the maze is drawn.                                *)
(***************************************************************************)
AtMost(n, limit) == IF n > limit THEN limit ELSE n
Decremented(n, t) == IF n > t THEN n - t ELSE 0

\* Up before down, left and right; the stick counts as the d-pad does.
Pushed(s) ==
  LET Stick(value, d) == IF value THEN {d} ELSE {}
  IN s.pressed \cup Stick(s.y = -1, "up") \cup Stick(s.y = 1, "down")
               \cup Stick(s.x = -1, "left") \cup Stick(s.x = 1, "right")
Rank == [up |-> 1, down |-> 2, left |-> 3, right |-> 4]
Heads(s, d) == d \in Pushed(s) /\ \A e \in Pushed(s) : Rank[d] <= Rank[e]

MayMove(t) == since_move + t > MoveDelay

\* Slip: the food under a ghost is scored.
WorthUnderGhosts(tile) ==
  IF tile \in {"food", "ghost"} THEN 10 ELSE IF tile = "power" THEN 50 ELSE 0

Worth(tile) == IF tile = "food" THEN 10 ELSE IF tile = "power" THEN 50 ELSE 0

\* Slip: the clock of power_timer stands still while the controller is silent.
FadeOnReport(t) ==
  /\ power' = IF last_read' = "report" THEN Decremented(power, t) ELSE power
  /\ since_meal' = AtMost(since_meal + t, PowerTime)

\* What a frame of t ticks does to power_timer.
Fade(t) == power' = Decremented(power, t) /\ since_meal' = AtMost(since_meal + t, PowerTime)

\* A report moves the player to the neighbour in direction d.
Ps5Moves(t, d) ==
  LET eaten == board[Neighbour(position, d)]
      next == Stepped(maze, d)
  IN /\ MayMove(t) /\ eaten # "wall"
     /\ moves < game.most /\ moves' = moves + 1 /\ moved' = TRUE
     /\ board' = next.board /\ position' = next.position
     /\ score' = score + Worth(eaten)
     /\ since_move' = 0
     /\ since_step' = 0 /\ pace' = AtMost(since_step + t, MoveDelay + 1)
     /\ IF eaten = "power" THEN power' = Decremented(PowerTime, t) /\ since_meal' = 0
        ELSE Fade(t)

Ps5Stays(t) ==
  /\ moved' = FALSE
  /\ since_move' = AtMost(since_move + t, MoveDelay + 1)
  /\ since_step' = AtMost(since_step + t, MoveDelay + 1)
  /\ Fade(t)
  /\ UNCHANGED <<board, position, score, pace, moves>>

Ps5Report(t) ==
  /\ last_read' = "report"
  /\ \E r \in Reports[device.kind] :
       LET s == Parsed(r)
       IN \/ \E d \in Directions : Heads(s, d) /\ Ps5Moves(t, d)
          \/ /\ \/ Pushed(s) = {} \/ ~MayMove(t)
                \/ \E d \in Directions : Heads(s, d) /\ board[Neighbour(position, d)] = "wall"
             /\ Ps5Stays(t)

Ps5NoReport(t) == last_read' \in {"timeout", "error"} /\ Ps5Stays(t)

Ps5Frame ==
  /\ pc = "playing" /\ game.name = "ps5"
  /\ \E t \in FrameTimes : Ps5Report(t) \/ Ps5NoReport(t)
  /\ shown' = board'
  /\ UNCHANGED <<pc, button_down, released>> /\ UNCHANGED setup

\* new_transfer is unwrapped: a guest that gets none ends in a trap.
Ps5Traps ==
  /\ pc = "playing" /\ game.name = "ps5"
  /\ pc' = "trapped"
  /\ UNCHANGED setup /\ UNCHANGED playing

-----------------------------------------------------------------------------
(***************************************************************************)
(* The loop of xbox-maze.  The four directions are looked at one after the *)
(* other, so that one report may move the player more than once.           *)
(***************************************************************************)
Turned(m, d, pressed) == IF d \in pressed THEN Stepped(m, d) ELSE m
Walked(m, pressed) ==
  Turned(Turned(Turned(Turned(m, "right", pressed), "left", pressed), "up", pressed), "down", pressed)

\* What the reports since the last move tell of the buttons.
Tells(r) ==
  IF Parsed(r).pressed # {} THEN released
  ELSE IF r.short \/ (device.kind = "ps5" /\ r.id # 1)
       THEN (IF released = "no" THEN "short" ELSE released)
  ELSE "yes"

\* Slip: it is enough that one of the four is up.
HoldsAll(s) == s.pressed = Directions

\* A direction is down; the next report without one lets go.
Holds(s) == s.pressed # {}

\* The maze is printed before the report is looked at.
Printed == board

XboxReport ==
  /\ pc = "playing" /\ game.name = "xbox"
  /\ last_read' = "report"
  /\ \E r \in Reports[device.kind] :
       LET s == Parsed(r)
           next == IF button_down THEN maze ELSE Walked(maze, s.pressed)
       IN /\ shown' = Printed
          /\ button_down' = Holds(s)
          /\ board' = next.board /\ position' = next.position
          /\ moved' = (next # maze)
          /\ next # maze => moves < game.most
          /\ moves' = IF next = maze THEN moves ELSE moves + 1
          /\ released' = IF next = maze THEN Tells(r) ELSE "no"
  /\ UNCHANGED <<pc, score, power, since_move, since_meal, since_step, pace>> /\ UNCHANGED setup

\* A read that fails ends the game, one that times out after a second too.
XboxReadFails ==
  /\ pc = "playing" /\ game.name = "xbox"
  /\ pc' = "failed"
  /\ last_read' \in {"timeout", "error"}
  /\ UNCHANGED <<board, position, shown, button_down, score, power, since_move, since_meal,
                 since_step, pace, released, moved, moves>>
  /\ UNCHANGED setup

-----------------------------------------------------------------------------
Next == \/ Choose \/ XboxSetup \/ Ps5Setup \/ SetupFails
        \/ Ps5Frame \/ Ps5Traps \/ XboxReport \/ XboxReadFails

Spec == Init /\ [][Next]_vars

-----------------------------------------------------------------------------
(***************************************************************************)
(* Properties.                                                             *)
(***************************************************************************)

\* Types.  The player is never on the border, so that every neighbour it looks at is a
\* cell: no index of the code is out of range.
TypeInv ==
  /\ game \in Games
  /\ pc \in {"choose", "open", "playing", "failed", "trapped"}
  /\ board \in [Cells(game) -> Tiles] /\ shown \in [Cells(game) -> Tiles]
  /\ position \in Interior(game)
  /\ button_down \in BOOLEAN /\ moved \in BOOLEAN
  /\ score \in Nat /\ power \in 0..PowerTime /\ moves \in 0..game.most
  /\ since_move \in 0..MoveDelay + 1 /\ since_step \in 0..MoveDelay + 1
  /\ pace \in 0..MoveDelay + 1 /\ since_meal \in 0..PowerTime
  /\ released \in {"no", "short", "yes"}
  /\ last_read \in {"none", "report", "timeout", "error"}

\* However many reports came, in whatever combination: there is one player on the board,
\* where the game believes it to be; no wall is gone and none came; every other cell is
\* as it was drawn or was eaten.
BoardIsIntact ==
  /\ \A c \in Cells(game) : board[c] = "pacman" <=> c = position
  /\ \A c \in Cells(game) : board[c] = "wall" <=> game.level[c] = "wall"
  /\ \A c \in Cells(game) : board[c] \in {Drawn(game)[c], "empty", "pacman"}

\* ps5-maze: what was scored, what is left to eat and what the ghosts stand on add up to
\* what the level holds.  Nothing is scored twice, nothing eaten without a score, and
\* what lies under a ghost is never scored.
Worths(b) ==
  LET Cell(tile) == {c \in DOMAIN b : b[c] = tile}
  IN Worth("food") * Cardinality(Cell("food")) + Worth("power") * Cardinality(Cell("power"))
ScoreAccounts ==
  game.name = "ps5" =>
    score + Worths(board) + Worths([c \in game.ghosts |-> game.level[c]]) = Worths(game.level)

\* ps5-maze: a pellet lasts PowerTime, less at most the frame in which it is eaten, with
\* or without reports in between.
PowerLastsItsTime ==
  /\ power <= PowerTime - since_meal
  /\ \E t \in FrameTimes : power >= PowerTime - since_meal - t

\* ps5-maze: however often the controller reports, two moves are more than MoveDelay apart.
MovesApart == pace > MoveDelay

\* xbox-maze: between two moves, a report came that was read as no direction.
PressMovesOnce == [][game.name = "xbox" /\ board' # board => released # "no"]_vars

\* The screen shows the board; in xbox-maze it misses the move of the last report.
ShownIsTrue == (game.name = "ps5" \/ ~moved) => shown = board

\* Not so: a button that is held moves the player once.  A report too short to parse is
\* read as one in which nothing is pressed, and the next report moves again.
HeldMovesOnce == [][game.name = "xbox" /\ board' # board => released = "yes"]_vars

\* Not so, against the comment "Return if there was an actual communication error": that
\* the controller sent nothing for a second also ends xbox-maze.
EndsOnlyOnError == pc = "failed" /\ last_read # "none" => last_read = "error"
=============================================================================
