----------------------------- MODULE MCMazeGame -----------------------------
(***************************************************************************)
(* MazeGame for TLC: both games on small levels and on their own.          *)
(***************************************************************************)
EXTENDS MazeGame, MazeLevels

\* Three by three cells that can be eaten empty.
SmallPs5 == Game("ps5",
  << <<"food", "food", "power">>, <<"food", "wall", "food">>, <<"pacman", "empty", "food">> >>,
  {<<1, 2>>}, <<3, 1>>, 9)
SmallXbox == Game("xbox",
  << <<"food", "ghost", "food">>, <<"food", "wall", "empty">>, <<"pacman", "food", "food">> >>,
  {}, <<3, 1>>, 9)
\* The first moves on the levels of the code.
MCGames == {SmallPs5, SmallXbox, Ps5Game(2), XboxGame(4)}

Endpoint(address, in, interrupt) == [address |-> address, in |-> in, interrupt |-> interrupt]
Interface(number, endpoints) == [number |-> number, endpoints |-> endpoints]
\* An audio interface before the one of the buttons.
DualSense == [kind |-> "ps5", interfaces |->
  << Interface(0, <<>>), Interface(2, <<Endpoint(130, TRUE, FALSE)>>),
     Interface(3, <<Endpoint(132, TRUE, TRUE), Endpoint(3, FALSE, TRUE)>>) >>]
XboxOne == [kind |-> "xbox", interfaces |->
  << Interface(0, <<Endpoint(1, FALSE, TRUE), Endpoint(129, TRUE, TRUE)>>) >>]
Disk == [kind |-> "other", interfaces |-> <<Interface(0, <<Endpoint(129, TRUE, FALSE)>>)>>]
MCPlugged == {<<>>, <<Disk>>, <<Disk, DualSense, XboxOne>>, <<XboxOne, DualSense>>}

Ps5Says(short, id, hat, x, y) == [short |-> short, id |-> id, hat |-> hat, x |-> x, y |-> y]
XboxSays(short, buttons, x, y) == [short |-> short, buttons |-> buttons, x |-> x, y |-> y]
MCReports ==
  [ps5 |-> {Ps5Says(FALSE, 1, hat, 0, 0) : hat \in 0..8}
           \cup {Ps5Says(FALSE, 1, 8, x, y) : x, y \in -1..1}
           \cup {Ps5Says(FALSE, 1, 6, 1, 0), Ps5Says(TRUE, 1, 2, 0, 0), Ps5Says(FALSE, 49, 0, 0, 0)},
   xbox |-> {XboxSays(FALSE, buttons, 0, 0) : buttons \in SUBSET Directions}
            \cup {XboxSays(FALSE, {}, x, y) : x, y \in -1..1}
            \cup {XboxSays(FALSE, {"down"}, 1, -1), XboxSays(TRUE, {"up"}, 0, 1)}]
=============================================================================
