--------------------------- MODULE MazeGameProofs ---------------------------
(***************************************************************************)
(* For levels of any size, any devices and any reports: the player stays   *)
(* inside the walls, the board stays whole, and the clocks and buttons do  *)
(* what the games promise (MazeGame).                                      *)
(***************************************************************************)
EXTENDS MazeGame, FiniteSetTheorems, TLAPS

\* A board with the player on it, somewhere in level g.
Whole(g, m) ==
  /\ m.board \in [Cells(g) -> Tiles] /\ m.position \in Interior(g)
  /\ \A c \in Cells(g) : m.board[c] = "pacman" <=> c = m.position
  /\ \A c \in Cells(g) : m.board[c] = "wall" <=> g.level[c] = "wall"
  /\ \A c \in Cells(g) : m.board[c] \in {Drawn(g)[c], "empty", "pacman"}

\* Looking one cell ahead from inside the walls never leaves the level.
LEMMA NeighbourIsCell ==
  ASSUME NEW g, IsLevel(g), NEW c \in Interior(g), NEW d \in Directions
  PROVE  /\ c \in Cells(g)
         /\ Neighbour(c, d) \in Cells(g)
         /\ Neighbour(c, d) # c
  BY DEF IsLevel, Interior, Cells, Directions, Neighbour, Row, Column

\* A step keeps the board whole; it changes something unless a wall is in the way.
LEMMA SteppedWhole ==
  ASSUME NEW g, IsLevel(g), NEW m, Whole(g, m), NEW d \in Directions
  PROVE  Whole(g, Stepped(m, d))
<1> DEFINE to == Neighbour(m.position, d)
<1>1. /\ m.position \in Cells(g) /\ to \in Cells(g) /\ to # m.position
  BY NeighbourIsCell DEF Whole
<1>2. CASE m.board[to] = "wall"
  BY <1>2 DEF Stepped
<1>3. CASE m.board[to] # "wall"
  <2> DEFINE b == [m.board EXCEPT ![m.position] = "empty", ![to] = "pacman"]
  <2>1. Stepped(m, d) = [board |-> b, position |-> to]
    BY <1>3 DEF Stepped
  <2>2. to \in Interior(g)
    BY <1>1, <1>3 DEF Whole, IsLevel
  <2>3. b \in [Cells(g) -> Tiles]
    BY <1>1 DEF Whole, Tiles
  <2>4. \A c \in Cells(g) : b[c] = IF c = to THEN "pacman" ELSE IF c = m.position THEN "empty" ELSE m.board[c]
    BY <1>1 DEF Whole
  <2> HIDE DEF b
  <2>5. m.board[m.position] # "wall" /\ g.level[m.position] # "wall" /\ g.level[to] # "wall"
    BY <1>1, <1>3 DEF Whole
  <2>6. \A c \in Cells(g) : b[c] = "pacman" <=> c = to
    BY <1>1, <2>4 DEF Whole
  <2>7. \A c \in Cells(g) : b[c] = "wall" <=> g.level[c] = "wall"
    BY <1>1, <2>4, <2>5 DEF Whole
  <2>8. \A c \in Cells(g) : b[c] \in {Drawn(g)[c], "empty", "pacman"}
    BY <1>1, <2>4 DEF Whole
  <2>9. QED
    BY <2>1, <2>2, <2>3, <2>6, <2>7, <2>8 DEF Whole
<1>4. QED
  BY <1>2, <1>3

\* So do the moves of a report of xbox-maze, however many buttons are down.
LEMMA WalkedWhole ==
  ASSUME NEW g, IsLevel(g), NEW m, Whole(g, m), NEW pressed
  PROVE  Whole(g, Walked(m, pressed))
<1>1. ASSUME NEW n, Whole(g, n), NEW d \in Directions
      PROVE  Whole(g, Turned(n, d, pressed))
  BY <1>1, SteppedWhole DEF Turned
<1> DEFINE a == Turned(m, "right", pressed)
<1> DEFINE b == Turned(a, "left", pressed)
<1> DEFINE c == Turned(b, "up", pressed)
<1>2. {"right", "left", "up", "down"} \subseteq Directions
  BY DEF Directions
<1>3. Whole(g, a)
  BY <1>1, <1>2
<1> HIDE DEF a
<1>4. Whole(g, b)
  BY <1>1, <1>2, <1>3
<1> HIDE DEF b
<1>5. Whole(g, c)
  BY <1>1, <1>2, <1>4
<1> HIDE DEF c
<1>6. Whole(g, Turned(c, "down", pressed))
  BY <1>1, <1>2, <1>5
<1>7. QED
  BY <1>6 DEF a, b, c, Walked

-----------------------------------------------------------------------------
(***************************************************************************)
(* The invariant.  It adds to the properties what they rest on: since the  *)
(* last move, last_move is no older than the move itself, and a button of  *)
(* xbox-maze that has not been seen up is down.                            *)
(***************************************************************************)
IInv ==
  /\ TypeInv /\ BoardIsIntact /\ ShownIsTrue /\ MovesApart /\ PowerLastsItsTime
  /\ since_move <= since_step
  /\ game.name = "xbox" /\ released = "no" => button_down

LEMMA Levels == ASSUME TypeInv PROVE IsLevel(game)
  BY MazeAssumption DEF TypeInv

LEMMA WholeMaze == ASSUME TypeInv, BoardIsIntact PROVE Whole(game, maze)
  BY DEF TypeInv, BoardIsIntact, Whole, maze

\* The levels are drawn with one player in them and their walls.
LEMMA InitInv == Init => IInv
<1> SUFFICES ASSUME Init PROVE IInv
  OBVIOUS
<1>1. IsLevel(game)
  BY MazeAssumption DEF Init
<1>2. \A c \in Cells(game) : Drawn(game)[c] = IF c \in game.ghosts THEN "ghost" ELSE game.level[c]
  BY DEF Drawn
<1>3. Drawn(game) \in [Cells(game) -> Tiles]
  BY <1>1 DEF Drawn, IsLevel, Tiles
<1>4. /\ \A c \in Cells(game) : board[c] = "pacman" <=> c = position
      /\ \A c \in Cells(game) : board[c] = "wall" <=> game.level[c] = "wall"
      /\ \A c \in Cells(game) : board[c] \in {Drawn(game)[c], "empty", "pacman"}
  BY <1>1, <1>2 DEF Init, IsLevel
<1>5. TypeInv
  <2>1. game.most \in Nat /\ MoveDelay \in Nat /\ PowerTime \in Nat
    BY <1>1, MazeAssumption DEF IsLevel
  <2>2. game \in Games /\ board = Drawn(game) /\ shown = Drawn(game) /\ position \in Interior(game)
    BY <1>1 DEF Init, IsLevel
  <2>3. /\ score = 0 /\ power = 0 /\ moves = 0 /\ since_move = 0 /\ since_meal = PowerTime
        /\ since_step = MoveDelay + 1 /\ pace = MoveDelay + 1
    BY DEF Init
  <2>4. /\ pc = "choose" /\ button_down = FALSE /\ moved = FALSE
        /\ released = "yes" /\ last_read = "none"
    BY DEF Init
  <2>5. button_down \in BOOLEAN /\ moved \in BOOLEAN
    BY DEF Init
  <2>6. /\ score \in Nat /\ power \in 0..PowerTime /\ moves \in 0..game.most
        /\ since_move \in 0..MoveDelay + 1 /\ since_step \in 0..MoveDelay + 1
        /\ pace \in 0..MoveDelay + 1 /\ since_meal \in 0..PowerTime
    BY <2>1, <2>3
  <2>7. QED
    BY <1>3, <2>2, <2>4, <2>5, <2>6 DEF TypeInv
<1>6. MovesApart /\ PowerLastsItsTime
  <2>1. /\ power = 0 /\ since_meal = PowerTime /\ pace = MoveDelay + 1
        /\ MoveDelay \in Nat /\ PowerTime \in Nat
    BY MazeAssumption DEF Init
  <2>2. PICK t \in FrameTimes : t \in Nat
    BY MazeAssumption
  <2>3. power <= PowerTime - since_meal /\ power >= PowerTime - since_meal - t
    BY <2>1, <2>2
  <2>4. QED
    BY <2>1, <2>3 DEF MovesApart, PowerLastsItsTime
<1>7. ShownIsTrue /\ since_move <= since_step /\ released = "yes"
  BY MazeAssumption DEF Init, ShownIsTrue
<1>8. QED
  BY <1>4, <1>5, <1>6, <1>7 DEF IInv, BoardIsIntact

\* Before the loop nothing of the game changes.
LEMMA SetupInv == IInv /\ (Choose \/ XboxSetup \/ Ps5Setup \/ SetupFails \/ Ps5Traps) => IInv'
<1> SUFFICES ASSUME IInv, Choose \/ XboxSetup \/ Ps5Setup \/ SetupFails \/ Ps5Traps PROVE IInv'
  OBVIOUS
<1>1. UNCHANGED playing /\ UNCHANGED game
  BY DEF Choose, XboxSetup, Ps5Setup, SetupFails, Ps5Traps, setup
<1>2. pc' \in {"choose", "open", "playing", "failed", "trapped"}
  BY DEF Choose, XboxSetup, Ps5Setup, SetupFails, Ps5Traps
<1>3. QED
  BY <1>1, <1>2 DEF IInv, TypeInv, BoardIsIntact, ShownIsTrue, MovesApart, PowerLastsItsTime, playing

\* A frame takes the same time off the pellet as it adds to the time since it was eaten.
LEMMA Fades ==
  ASSUME TypeInv, PowerLastsItsTime, NEW t \in FrameTimes, Fade(t)
  PROVE  PowerLastsItsTime' /\ power' \in 0..PowerTime /\ since_meal' \in 0..PowerTime
<1>1. t \in Nat /\ PowerTime \in Nat /\ power \in 0..PowerTime /\ since_meal \in 0..PowerTime
  BY MazeAssumption DEF TypeInv
<1>2. PICK u \in FrameTimes : power >= PowerTime - since_meal - u
  BY DEF PowerLastsItsTime
<1>3. u \in Nat
  BY MazeAssumption
<1>4. power <= PowerTime - since_meal
  BY DEF PowerLastsItsTime
<1>5. /\ power' = IF power > t THEN power - t ELSE 0
      /\ since_meal' = IF since_meal + t > PowerTime THEN PowerTime ELSE since_meal + t
  BY DEF Fade, Decremented, AtMost
<1>6. /\ power' \in 0..PowerTime /\ since_meal' \in 0..PowerTime
      /\ power' <= PowerTime - since_meal' /\ power' >= PowerTime - since_meal' - u
  BY <1>1, <1>2, <1>3, <1>4, <1>5
<1>7. QED
  BY <1>6 DEF PowerLastsItsTime

LEMMA MovesInv ==
  ASSUME IInv, Ps5Frame, NEW t \in FrameTimes, NEW d \in Directions, Ps5Moves(t, d),
         last_read' = "report"
  PROVE  IInv'
<1> DEFINE to == Neighbour(position, d)
<1>1. IsLevel(game) /\ Whole(game, maze)
  BY Levels, WholeMaze DEF IInv
<1>2. Whole(game, Stepped(maze, d))
  BY <1>1, SteppedWhole
<1>3. board' = Stepped(maze, d).board /\ position' = Stepped(maze, d).position
  BY DEF Ps5Moves
<1>4. UNCHANGED <<game, pc, button_down, released>> /\ shown' = board' /\ game.name = "ps5"
  BY DEF Ps5Frame, setup
<1>5. /\ board' \in [Cells(game) -> Tiles] /\ shown' \in [Cells(game) -> Tiles]
      /\ position' \in Interior(game) /\ BoardIsIntact' /\ ShownIsTrue'
  BY <1>2, <1>3, <1>4 DEF Whole, BoardIsIntact, ShownIsTrue
<1>6. /\ t \in Nat /\ t > 0 /\ PowerTime \in Nat /\ MoveDelay \in Nat
      /\ since_move \in 0..MoveDelay + 1 /\ since_step \in 0..MoveDelay + 1
      /\ since_move <= since_step /\ score \in Nat /\ moves \in 0..game.most /\ game.most \in Nat
  BY <1>1, MazeAssumption DEF IInv, TypeInv, IsLevel
<1>7. /\ since_move' = 0 /\ since_step' = 0 /\ moved' = TRUE
      /\ pace' = IF since_step + t > MoveDelay + 1 THEN MoveDelay + 1 ELSE since_step + t
      /\ since_move + t > MoveDelay
      /\ score' = score + Worth(board[to]) /\ moves < game.most /\ moves' = moves + 1
  BY DEF Ps5Moves, AtMost, MayMove
<1>8. /\ pace' \in 0..MoveDelay + 1 /\ MovesApart' /\ since_move' <= since_step'
      /\ since_move' \in 0..MoveDelay + 1 /\ since_step' \in 0..MoveDelay + 1
      /\ moves' \in 0..game.most
  BY <1>6, <1>7 DEF MovesApart
<1>9. score' \in Nat
  BY <1>6, <1>7 DEF Worth
<1>10. PowerLastsItsTime' /\ power' \in 0..PowerTime /\ since_meal' \in 0..PowerTime
  <2>1. CASE board[to] = "power"
    <3>1. power' = (IF PowerTime > t THEN PowerTime - t ELSE 0) /\ since_meal' = 0
      BY <2>1 DEF Ps5Moves, Decremented
    <3>2. power' <= PowerTime - since_meal' /\ power' >= PowerTime - since_meal' - t
      BY <1>6, <3>1
    <3>3. QED
      BY <1>6, <3>1, <3>2 DEF PowerLastsItsTime
  <2>2. CASE board[to] # "power"
    BY <2>2, Fades DEF Ps5Moves, IInv
  <2>3. QED
    BY <2>1, <2>2
<1>11. TypeInv'
  BY <1>4, <1>5, <1>7, <1>8, <1>9, <1>10 DEF IInv, TypeInv
<1>12. QED
  BY <1>4, <1>5, <1>8, <1>10, <1>11 DEF IInv

LEMMA StaysInv ==
  ASSUME IInv, Ps5Frame, NEW t \in FrameTimes, Ps5Stays(t),
         last_read' \in {"report", "timeout", "error"}
  PROVE  IInv'
<1>1. UNCHANGED <<game, pc, button_down, released, board, position, score, pace, moves>>
      /\ shown' = board' /\ game.name = "ps5" /\ moved' = FALSE
  BY DEF Ps5Frame, Ps5Stays, setup
<1>2. PowerLastsItsTime' /\ power' \in 0..PowerTime /\ since_meal' \in 0..PowerTime
  BY Fades DEF Ps5Stays, IInv
<1>3. /\ t \in Nat /\ MoveDelay \in Nat /\ since_move <= since_step
      /\ since_move \in 0..MoveDelay + 1 /\ since_step \in 0..MoveDelay + 1
  BY MazeAssumption DEF IInv, TypeInv
<1>4. /\ since_move' = IF since_move + t > MoveDelay + 1 THEN MoveDelay + 1 ELSE since_move + t
      /\ since_step' = IF since_step + t > MoveDelay + 1 THEN MoveDelay + 1 ELSE since_step + t
  BY DEF Ps5Stays, AtMost
<1>5. /\ since_move' <= since_step'
      /\ since_move' \in 0..MoveDelay + 1 /\ since_step' \in 0..MoveDelay + 1
  BY <1>3, <1>4
<1>6. TypeInv'
  BY <1>1, <1>2, <1>5 DEF IInv, TypeInv
<1>7. BoardIsIntact' /\ ShownIsTrue' /\ MovesApart'
  BY <1>1 DEF IInv, BoardIsIntact, ShownIsTrue, MovesApart
<1>8. QED
  BY <1>1, <1>2, <1>5, <1>6, <1>7 DEF IInv

\* A report that moves the player finds the button up and leaves it down.
LEMMA XboxReportInv == IInv /\ XboxReport => IInv'
<1> SUFFICES ASSUME IInv, XboxReport PROVE IInv'
  OBVIOUS
<1>1. IsLevel(game) /\ Whole(game, maze)
  BY Levels, WholeMaze DEF IInv
<1>2. /\ UNCHANGED <<game, pc, score, power, since_move, since_meal, since_step, pace>>
      /\ shown' = board /\ last_read' = "report"
  BY DEF XboxReport, setup, Printed
<1>3. PICK r \in Reports[device.kind] :
        LET s == Parsed(r)
            next == IF button_down THEN maze ELSE Walked(maze, s.pressed)
        IN /\ button_down' = Holds(s)
           /\ board' = next.board /\ position' = next.position
           /\ moved' = (next # maze)
           /\ next # maze => moves < game.most
           /\ moves' = IF next = maze THEN moves ELSE moves + 1
           /\ released' = IF next = maze THEN Tells(r) ELSE "no"
  BY DEF XboxReport
<1> DEFINE s == Parsed(r)
<1> DEFINE next == IF button_down THEN maze ELSE Walked(maze, s.pressed)
<1>4. Whole(game, next)
  BY <1>1, WalkedWhole
<1>5. next # maze => s.pressed # {}
  BY DEF Walked, Turned
<1>6. /\ board' = next.board /\ position' = next.position /\ moved' = (next # maze)
      /\ button_down' = (s.pressed # {})
      /\ next # maze => moves < game.most
      /\ moves' = IF next = maze THEN moves ELSE moves + 1
      /\ released' = IF next = maze THEN Tells(r) ELSE "no"
  BY <1>3 DEF Holds
<1>7. Tells(r) \in {"no", "short", "yes"} /\ (Tells(r) = "no" => s.pressed # {})
  BY DEF Tells, IInv, TypeInv
<1>8. next = maze => board' = board
  BY <1>6 DEF maze
<1> HIDE DEF s, next
<1>9. /\ board' \in [Cells(game) -> Tiles] /\ position' \in Interior(game) /\ BoardIsIntact'
  BY <1>2, <1>4, <1>6 DEF Whole, BoardIsIntact
<1>10. ShownIsTrue'
  BY <1>2, <1>6, <1>8 DEF ShownIsTrue, XboxReport
<1>11. moves' \in 0..game.most
  BY <1>1, <1>6 DEF IInv, TypeInv, IsLevel
<1>12. /\ released' \in {"no", "short", "yes"} /\ (released' = "no" => button_down')
       /\ moved' \in BOOLEAN /\ button_down' \in BOOLEAN
  BY <1>5, <1>6, <1>7
<1>13. TypeInv'
  BY <1>2, <1>9, <1>11, <1>12 DEF IInv, TypeInv
<1>14. MovesApart' /\ PowerLastsItsTime'
  BY <1>2 DEF IInv, MovesApart, PowerLastsItsTime
<1>15. QED
  BY <1>2, <1>9, <1>10, <1>12, <1>13, <1>14 DEF IInv

LEMMA XboxReadFailsInv == IInv /\ XboxReadFails => IInv'
  BY DEF XboxReadFails, IInv, TypeInv, BoardIsIntact, ShownIsTrue, MovesApart,
         PowerLastsItsTime, setup

LEMMA Ps5FrameInv == IInv /\ Ps5Frame => IInv'
<1> SUFFICES ASSUME IInv, Ps5Frame PROVE IInv'
  OBVIOUS
<1>1. PICK t \in FrameTimes : Ps5Report(t) \/ Ps5NoReport(t)
  BY DEF Ps5Frame
<1>2. CASE Ps5NoReport(t)
  BY <1>2, StaysInv DEF Ps5NoReport
<1>3. CASE Ps5Report(t)
  <2>1. last_read' = "report"
    BY <1>3 DEF Ps5Report
  <2>2. (\E d \in Directions : Ps5Moves(t, d)) \/ Ps5Stays(t)
    BY <1>3 DEF Ps5Report
  <2>3. CASE Ps5Stays(t)
    BY <2>1, <2>3, StaysInv
  <2>4. ASSUME NEW d \in Directions, Ps5Moves(t, d) PROVE IInv'
    BY <2>1, <2>4, MovesInv
  <2>5. QED
    BY <2>2, <2>3, <2>4
<1>4. QED
  BY <1>1, <1>2, <1>3

LEMMA StepInv == IInv /\ [Next]_vars => IInv'
<1> SUFFICES ASSUME IInv, [Next]_vars PROVE IInv'
  OBVIOUS
<1>1. CASE UNCHANGED vars
  BY <1>1 DEF vars, IInv, TypeInv, BoardIsIntact, ShownIsTrue, MovesApart, PowerLastsItsTime
<1>2. CASE Next
  BY <1>2, SetupInv, Ps5FrameInv, XboxReportInv, XboxReadFailsInv DEF Next
<1>3. QED
  BY <1>1, <1>2

-----------------------------------------------------------------------------
\* The games keep their types, and the player stays inside the border (lib.rs:530-546 of
\* ps5-maze, 354-387 of xbox-maze), for every level with a wall around it.
THEOREM TypeCorrect == Spec => []TypeInv
<1>1. IInv => TypeInv
  BY DEF IInv
<1>2. QED
  BY InitInv, StepInv, <1>1, PTL DEF Spec

\* The board has one player, its walls, and nothing that was not drawn (the same lines).
THEOREM BoardIntact == Spec => []BoardIsIntact
<1>1. IInv => BoardIsIntact
  BY DEF IInv
<1>2. QED
  BY InitInv, StepInv, <1>1, PTL DEF Spec

\* A power pellet lasts its time whatever the controller does (ps5-maze lib.rs:553-563).
THEOREM PowerLasts == Spec => []PowerLastsItsTime
<1>1. IInv => PowerLastsItsTime
  BY DEF IInv
<1>2. QED
  BY InitInv, StepInv, <1>1, PTL DEF Spec

\* Moves of ps5-maze are more than the delay apart (lib.rs:519-546).
THEOREM Apart == Spec => []MovesApart
<1>1. IInv => MovesApart
  BY DEF IInv
<1>2. QED
  BY InitInv, StepInv, <1>1, PTL DEF Spec

\* The screen of xbox-maze is at most a report behind (xbox-maze lib.rs:348-352).
THEOREM ShownTrue == Spec => []ShownIsTrue
<1>1. IInv => ShownIsTrue
  BY DEF IInv
<1>2. QED
  BY InitInv, StepInv, <1>1, PTL DEF Spec

\* A press moves the player of xbox-maze once (lib.rs:354-389).
THEOREM MovesOnce == Spec => PressMovesOnce
<1>1. IInv /\ [Next]_vars => [game.name = "xbox" /\ board' # board => released # "no"]_vars
  <2> SUFFICES ASSUME IInv, Next, game.name = "xbox", board' # board PROVE released # "no"
    BY DEF vars
  <2>1. ~button_down
    <3>1. XboxReport
      BY DEF Next, Choose, XboxSetup, Ps5Setup, SetupFails, Ps5Frame, Ps5Traps, XboxReadFails, playing
    <3>2. button_down => board' = board
      BY <3>1 DEF XboxReport, maze
    <3>3. QED
      BY <3>2
  <2>2. QED
    BY <2>1 DEF IInv
<1>2. QED
  BY InitInv, StepInv, <1>1, PTL DEF Spec, PressMovesOnce
-----------------------------------------------------------------------------
(***************************************************************************)
(* The score.  Every cell with food or a pellet is counted; a move takes   *)
(* at most the cell that it enters from either count.                      *)
(***************************************************************************)
Lying(b, tile) == {c \in DOMAIN b : b[c] = tile}

LEMMA WorthsAre ==
  ASSUME NEW b
  PROVE  Worths(b) = 10 * Cardinality(Lying(b, "food")) + 50 * Cardinality(Lying(b, "power"))
<1>1. Worth("food") = 10 /\ Worth("power") = 50
  BY DEF Worth
<1>2. QED
  BY <1>1 DEF Worths, Lying

LEMMA LyingFinite ==
  ASSUME NEW g, IsLevel(g), NEW b, DOMAIN b \subseteq Cells(g), NEW tile
  PROVE  IsFiniteSet(Lying(b, tile)) /\ Cardinality(Lying(b, tile)) \in Nat
<1>1. /\ 0 \in Int /\ g.height - 1 \in Int /\ g.width - 1 \in Int
  BY DEF IsLevel
<1>2. IsFiniteSet(0..g.height - 1) /\ IsFiniteSet(0..g.width - 1)
  BY <1>1, FS_Interval
<1>3. IsFiniteSet(Cells(g))
  BY <1>2, FS_Product DEF Cells
<1>4. Lying(b, tile) \in SUBSET Cells(g)
  BY DEF Lying
<1>5. IsFiniteSet(Lying(b, tile))
  BY <1>3, <1>4, FS_Subset
<1>6. QED
  BY <1>5, FS_CardinalityType

LEMMA OneLess ==
  ASSUME NEW S, IsFiniteSet(S), NEW x \in S
  PROVE  Cardinality(S \ {x}) = Cardinality(S) - 1
  BY FS_RemoveElement

LEMMA SplitInTwo ==
  ASSUME NEW S, NEW T, NEW U, IsFiniteSet(S), IsFiniteSet(T), S \cap T = {}, U = S \cup T
  PROVE  Cardinality(U) = Cardinality(S) + Cardinality(T)
<1>1. /\ Cardinality(S \cup T) = Cardinality(S) + Cardinality(T) - Cardinality(S \cap T)
      /\ Cardinality(S) \in Nat /\ Cardinality(T) \in Nat
  BY FS_Union, FS_CardinalityType
<1>2. Cardinality(S \cap T) = 0
  BY FS_EmptySet
<1>3. QED
  BY <1>1, <1>2

\* What the ghosts stand on is the difference between the level and the board.
LEMMA DrawnWorths ==
  ASSUME NEW g, IsLevel(g)
  PROVE  Worths(Drawn(g)) + Worths([c \in g.ghosts |-> g.level[c]]) = Worths(g.level)
<1> DEFINE under == [c \in g.ghosts |-> g.level[c]]
<1>1. ASSUME NEW tile \in {"food", "power"}
      PROVE  /\ Cardinality(Lying(Drawn(g), tile)) \in Nat
             /\ Cardinality(Lying(under, tile)) \in Nat
             /\ Cardinality(Lying(g.level, tile)) =
                  Cardinality(Lying(Drawn(g), tile)) + Cardinality(Lying(under, tile))
  <2>1. /\ DOMAIN g.level = Cells(g) /\ DOMAIN Drawn(g) = Cells(g) /\ DOMAIN under = g.ghosts
        /\ g.ghosts \subseteq Cells(g)
    BY DEF IsLevel, Drawn
  <2>2. /\ \A c \in Cells(g) \ g.ghosts : Drawn(g)[c] = g.level[c]
        /\ \A c \in g.ghosts : Drawn(g)[c] = "ghost" /\ under[c] = g.level[c]
    BY <2>1 DEF Drawn
  <2>3. tile # "ghost"
    OBVIOUS
  <2> HIDE DEF under
  <2>4. Lying(Drawn(g), tile) \cap Lying(under, tile) = {}
    BY <2>1, <2>2, <2>3 DEF Lying
  <2>5. Lying(g.level, tile) = Lying(Drawn(g), tile) \cup Lying(under, tile)
    BY <2>1, <2>2, <2>3 DEF Lying
  <2>6. /\ IsFiniteSet(Lying(Drawn(g), tile)) /\ Cardinality(Lying(Drawn(g), tile)) \in Nat
        /\ IsFiniteSet(Lying(under, tile)) /\ Cardinality(Lying(under, tile)) \in Nat
    BY <2>1, LyingFinite
  <2>7. QED
    BY <2>4, <2>5, <2>6, SplitInTwo
<1> HIDE DEF under
<1>2. /\ Worths(g.level) =
           10 * Cardinality(Lying(g.level, "food")) + 50 * Cardinality(Lying(g.level, "power"))
      /\ Worths(under) =
           10 * Cardinality(Lying(under, "food")) + 50 * Cardinality(Lying(under, "power"))
      /\ Worths(Drawn(g)) =
           10 * Cardinality(Lying(Drawn(g), "food")) + 50 * Cardinality(Lying(Drawn(g), "power"))
  BY WorthsAre
<1>3. QED
  BY <1>1, <1>2 DEF under

\* A move scores what it takes from the board.
LEMMA MoveWorths ==
  ASSUME NEW g, IsLevel(g), NEW m, Whole(g, m), NEW d \in Directions,
         m.board[Neighbour(m.position, d)] # "wall"
  PROVE  /\ Worths(m.board) \in Nat
         /\ Worths(Stepped(m, d).board) + Worth(m.board[Neighbour(m.position, d)]) =
              Worths(m.board)
<1> DEFINE to == Neighbour(m.position, d)
           b == [m.board EXCEPT ![m.position] = "empty", ![to] = "pacman"]
<1>1. /\ m.position \in Cells(g) /\ to \in Cells(g) /\ to # m.position
  BY NeighbourIsCell DEF Whole
<1>2. Stepped(m, d).board = b
  BY DEF Stepped
<1>3. /\ DOMAIN b = Cells(g) /\ DOMAIN m.board = Cells(g) /\ m.board[m.position] = "pacman"
      /\ b[to] = "pacman" /\ b[m.position] = "empty"
      /\ \A c \in Cells(g) : c # to /\ c # m.position => b[c] = m.board[c]
  BY <1>1 DEF Whole
<1> HIDE DEF b, to
<1>4. ASSUME NEW tile \in {"food", "power"}
      PROVE  /\ Lying(b, tile) = Lying(m.board, tile) \ {to}
             /\ IsFiniteSet(Lying(m.board, tile)) /\ Cardinality(Lying(m.board, tile)) \in Nat
  <2>1. tile # "pacman" /\ tile # "empty"
    OBVIOUS
  <2>2. Lying(b, tile) = Lying(m.board, tile) \ {to}
    BY <1>1, <1>3, <2>1 DEF Lying
  <2>3. QED
    BY <1>3, <2>2, LyingFinite
<1>5. ASSUME NEW tile \in {"food", "power"}, m.board[to] = tile
      PROVE  Cardinality(Lying(b, tile)) = Cardinality(Lying(m.board, tile)) - 1
  <2>1. to \in Lying(m.board, tile)
    BY <1>1, <1>3, <1>5 DEF Lying
  <2>2. QED
    BY <1>4, <2>1, OneLess
<1>6. ASSUME NEW tile \in {"food", "power"}, m.board[to] # tile
      PROVE  Cardinality(Lying(b, tile)) = Cardinality(Lying(m.board, tile))
  <2>1. to \notin Lying(m.board, tile)
    BY <1>6 DEF Lying
  <2>2. Lying(b, tile) = Lying(m.board, tile)
    BY <1>4, <2>1
  <2>3. QED
    BY <2>2
<1>7. /\ Worths(m.board) =
           10 * Cardinality(Lying(m.board, "food")) + 50 * Cardinality(Lying(m.board, "power"))
      /\ Worths(b) = 10 * Cardinality(Lying(b, "food")) + 50 * Cardinality(Lying(b, "power"))
  BY WorthsAre
<1>8. /\ Cardinality(Lying(m.board, "food")) \in Nat /\ Cardinality(Lying(m.board, "power")) \in Nat
  BY <1>4
<1>9. Worths(b) + Worth(m.board[to]) = Worths(m.board)
  <2>1. CASE m.board[to] = "food"
    <3>1. Worth(m.board[to]) = 10 /\ m.board[to] # "power"
      BY <2>1 DEF Worth
    <3>2. /\ Cardinality(Lying(b, "food")) = Cardinality(Lying(m.board, "food")) - 1
          /\ Cardinality(Lying(b, "power")) = Cardinality(Lying(m.board, "power"))
      BY <1>5, <1>6, <2>1, <3>1
    <3>3. QED
      BY <1>7, <1>8, <3>1, <3>2
  <2>2. CASE m.board[to] = "power"
    <3>1. Worth(m.board[to]) = 50 /\ m.board[to] # "food"
      BY <2>2 DEF Worth
    <3>2. /\ Cardinality(Lying(b, "power")) = Cardinality(Lying(m.board, "power")) - 1
          /\ Cardinality(Lying(b, "food")) = Cardinality(Lying(m.board, "food"))
      BY <1>5, <1>6, <2>2, <3>1
    <3>3. QED
      BY <1>7, <1>8, <3>1, <3>2
  <2>3. CASE m.board[to] # "food" /\ m.board[to] # "power"
    <3>1. Worth(m.board[to]) = 0
      BY <2>3 DEF Worth
    <3>2. /\ Cardinality(Lying(b, "power")) = Cardinality(Lying(m.board, "power"))
          /\ Cardinality(Lying(b, "food")) = Cardinality(Lying(m.board, "food"))
      BY <1>6, <2>3
    <3>3. QED
      BY <1>7, <1>8, <3>1, <3>2
  <2>4. QED
    BY <2>1, <2>2, <2>3
<1>10. Worths(m.board) \in Nat
  BY <1>7, <1>8
<1>11. QED
  BY <1>2, <1>9, <1>10 DEF to

LEMMA ScoreInit == Init => ScoreAccounts
<1> SUFFICES ASSUME Init PROVE ScoreAccounts
  OBVIOUS
<1>1. IsLevel(game) /\ board = Drawn(game) /\ score = 0
  BY MazeAssumption DEF Init
<1>2. /\ Worths(Drawn(game)) + Worths([c \in game.ghosts |-> game.level[c]]) = Worths(game.level)
      /\ Worths(Drawn(game)) \in Nat
  <2>1. DOMAIN Drawn(game) = Cells(game)
    BY DEF Drawn
  <2>2. /\ Cardinality(Lying(Drawn(game), "food")) \in Nat
        /\ Cardinality(Lying(Drawn(game), "power")) \in Nat
    BY <1>1, <2>1, LyingFinite
  <2>3. QED
    BY <1>1, <2>2, DrawnWorths, WorthsAre
<1>3. QED
  BY <1>1, <1>2 DEF ScoreAccounts

LEMMA ScoreStep == IInv /\ ScoreAccounts /\ [Next]_vars => ScoreAccounts'
<1> SUFFICES ASSUME IInv, ScoreAccounts, [Next]_vars, game.name = "ps5" PROVE ScoreAccounts'
  BY DEF Next, vars, Choose, XboxSetup, Ps5Setup, SetupFails, Ps5Frame, Ps5Traps, XboxReport,
         XboxReadFails, setup, ScoreAccounts
<1>1. CASE UNCHANGED <<game, board, score>>
  BY <1>1 DEF ScoreAccounts
<1>2. ASSUME NEW t \in FrameTimes, NEW d \in Directions, Ps5Moves(t, d), UNCHANGED game
      PROVE  ScoreAccounts'
  <2> DEFINE eaten == board[Neighbour(position, d)]
             under == Worths([c \in game.ghosts |-> game.level[c]])
  <2>1. IsLevel(game) /\ Whole(game, maze)
    BY Levels, WholeMaze DEF IInv
  <2>2. maze.board = board /\ maze.position = position
    BY DEF maze
  <2>3. eaten # "wall" /\ board' = Stepped(maze, d).board /\ score' = score + Worth(eaten)
    BY <1>2 DEF Ps5Moves
  <2>4. Worths(board) \in Nat /\ Worths(board') + Worth(eaten) = Worths(board)
    BY <2>1, <2>2, <2>3, MoveWorths
  <2>5. /\ score \in Nat /\ score + Worths(board) + under = Worths(game.level)
    BY DEF IInv, TypeInv, ScoreAccounts
  <2>6. Worth(eaten) \in Nat
    BY DEF Worth
  <2>7. Worths(board') \in Int /\ under \in Int
    <3>1. /\ DOMAIN board' = Cells(game) /\ DOMAIN [c \in game.ghosts |-> game.level[c]] \subseteq Cells(game)
      BY <2>1, <2>3, SteppedWhole DEF Whole, IsLevel
    <3>2. QED
      BY <2>1, <3>1, LyingFinite, WorthsAre
  <2> HIDE DEF eaten, under
  <2>8. score' + Worths(board') + under = Worths(game.level)
    BY <2>3, <2>4, <2>5, <2>6, <2>7
  <2>9. QED
    BY <1>2, <2>8 DEF ScoreAccounts, under
<1>3. CASE Ps5Frame
  <2>1. PICK t \in FrameTimes : Ps5Report(t) \/ Ps5NoReport(t)
    BY <1>3 DEF Ps5Frame
  <2>2. UNCHANGED game
    BY <1>3 DEF Ps5Frame, setup
  <2>3. Ps5Stays(t) \/ \E d \in Directions : Ps5Moves(t, d)
    BY <2>1 DEF Ps5Report, Ps5NoReport
  <2>4. QED
    BY <1>1, <1>2, <2>2, <2>3 DEF Ps5Stays
<1>4. QED
  BY <1>1, <1>3 DEF Next, vars, Choose, XboxSetup, Ps5Setup, SetupFails, Ps5Traps, XboxReport,
                    XboxReadFails, setup, playing

\* What is scored, left to eat and under the ghosts adds up to what the level holds
\* (ps5-maze lib.rs:530-551), for every level and every way through it.
THEOREM ScoreAdds == Spec => []ScoreAccounts
<1>1. Spec => []IInv
  BY InitInv, StepInv, PTL DEF Spec
<1>2. QED
  BY <1>1, ScoreInit, ScoreStep, PTL DEF Spec
=============================================================================
