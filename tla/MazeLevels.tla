----------------------------- MODULE MazeLevels -----------------------------
(***************************************************************************)
(* The levels of the two games, without the wall around them: W a wall,    *)
(* f food, P a power pellet, G a ghost, C the player.                      *)
(***************************************************************************)
EXTENDS Integers, Sequences

LOCAL W == "wall"
LOCAL f == "food"
LOCAL P == "power"
LOCAL e == "empty"
LOCAL C == "pacman"
LOCAL G == "ghost"

Ps5Rows ==
  << <<P,f,f,f,f,f,f,f,f,f,f,f,f,W,W,f,f,f,f,f,f,f,f,f,f,f,P,f>>,
     <<f,W,W,W,W,f,W,W,f,W,W,W,W,W,W,W,W,W,W,f,W,W,f,W,W,W,W,f>>,
     <<f,f,f,f,f,f,f,f,f,f,f,f,f,f,f,f,f,f,f,f,f,f,f,f,f,f,f,f>>,
     <<f,W,W,W,W,f,W,W,f,W,W,W,W,W,W,W,W,W,W,f,W,W,f,W,W,W,W,f>>,
     <<f,f,f,f,f,f,W,W,f,f,f,f,f,W,W,e,f,f,f,f,W,W,f,f,f,f,f,f>>,
     <<W,W,f,f,W,W,W,W,W,W,C,e,e,e,e,e,e,e,W,W,W,W,W,W,f,f,W,W>>,
     <<f,f,f,f,f,f,W,W,f,f,f,f,f,f,f,f,f,f,f,f,W,W,f,f,f,f,f,e>>,
     <<f,W,W,W,W,f,W,W,f,W,W,W,W,W,W,W,W,W,W,f,W,W,f,W,W,W,W,f>>,
     <<f,f,f,f,f,f,f,f,f,f,f,f,f,W,W,f,f,f,f,f,f,f,f,f,f,f,f,f>>,
     <<f,W,W,W,W,f,W,W,W,W,W,W,f,f,f,f,W,W,W,W,W,W,f,W,W,W,W,f>>,
     <<f,f,f,f,f,f,f,f,f,f,f,f,f,W,W,f,f,f,f,f,f,f,f,f,f,f,f,f>>,
     <<P,W,W,W,W,f,e,f,f,W,W,f,f,f,f,f,f,W,W,f,f,f,f,W,W,W,W,P>> >>

XboxRows ==
  << <<f,f,f,f,f,f,f,f,f,f,f,f,f,W,W,f,f,f,f,f,f,f,f,f,f,f,f,f>>,
     <<f,W,W,W,W,f,W,W,W,W,W,W,f,W,W,f,W,W,W,W,W,W,f,W,W,W,W,f>>,
     <<f,f,f,f,f,f,f,f,f,f,f,f,f,f,f,f,f,f,f,f,f,f,f,f,f,f,f,f>>,
     <<f,W,W,W,W,f,W,W,f,W,W,W,W,W,W,W,W,W,W,f,W,W,f,W,W,W,W,f>>,
     <<f,f,f,f,f,f,W,W,f,f,f,f,f,W,W,G,f,f,f,f,W,W,f,f,f,f,f,f>>,
     <<W,W,f,f,W,W,W,W,W,W,C,e,e,e,e,e,e,e,W,W,W,W,W,W,f,f,W,W>>,
     <<f,f,f,f,f,f,W,W,f,f,f,f,f,f,f,f,f,f,f,f,W,W,f,f,f,f,f,G>>,
     <<f,W,W,W,W,f,W,W,f,W,W,W,W,W,W,W,W,W,W,f,W,W,f,W,W,W,W,f>>,
     <<f,f,f,f,f,f,f,f,f,f,f,f,f,W,W,f,f,f,f,f,f,f,f,f,f,f,f,f>>,
     <<f,W,W,W,W,f,W,W,W,W,W,W,f,f,f,f,W,W,W,W,W,W,f,W,W,W,W,f>>,
     <<f,f,f,f,f,f,f,f,f,f,f,f,f,W,W,f,f,f,f,f,f,f,f,f,f,f,f,f>>,
     <<f,W,W,W,W,f,G,f,f,W,W,f,f,f,f,f,f,W,W,f,f,f,f,W,W,W,W,f>> >>

\* The cells where ps5-maze draws its ghosts.
Ghosts == {<<5, 16>>, <<7, 28>>, <<5, 2>>}

\* A wall around the rows, from (0, 0) on.
Walled(rows) ==
  [c \in (0..Len(rows) + 1) \X (0..Len(rows[1]) + 1) |->
     IF c[1] \in DOMAIN rows /\ c[2] \in DOMAIN rows[1] THEN rows[c[1]][c[2]] ELSE W]

Game(name, rows, ghosts, start, most) ==
  [name |-> name, height |-> Len(rows) + 2, width |-> Len(rows[1]) + 2,
   level |-> Walled(rows), ghosts |-> ghosts, start |-> start, most |-> most]

Ps5Game(most) == Game("ps5", Ps5Rows, Ghosts, <<6, 11>>, most)
XboxGame(most) == Game("xbox", XboxRows, {}, <<6, 11>>, most)
=============================================================================
