--------------------------------- MODULE Go ---------------------------------
(***************************************************************************)
(* The rules of the go app (desktop/app/go/backend): Board and GoGame as   *)
(* operators on a record that holds one game.                              *)
(***************************************************************************)
EXTENDS Integers, FiniteSets

CONSTANT SIZE   \* Board::SIZE, 19 in the code

ASSUME GoAssumption == SIZE \in Nat \ {0}

PASS         == -1
RESIGN       == -2
CLEAR_DEAD   == -3
CONFIRM_DEAD == -4

Line == 0 .. SIZE - 1
Cell == Line \X Line

Stone(grid) == {c \in Cell : grid[c] # "."}
opponent(s) == IF s = "B" THEN "W" ELSE "B"

Adjacent(c) ==
    {d \in Cell : \/ d[1] = c[1] /\ d[2] - c[2] \in {-1, 1}
                  \/ d[2] = c[2] /\ d[1] - c[1] \in {-1, 1}}

\* collectGroup: the stones of one colour connected with the one on c.
Group(grid, c) ==
    LET reach[n \in Nat] ==
          IF n = 0 THEN {c}
          ELSE reach[n - 1] \cup {d \in UNION {Adjacent(b) : b \in reach[n - 1]} :
                                    grid[d] = grid[c]}
    IN reach[Cardinality(Stone(grid))]

\* countLiberties: the empty points next to the group on c.
Liberties(grid, c) ==
    {d \in UNION {Adjacent(b) : b \in Group(grid, c)} : grid[d] = "."}

Put(grid, c, s) == [grid EXCEPT ![c] = s]
Clear(grid, cells) == [d \in Cell |-> IF d \in cells THEN "." ELSE grid[d]]

\* The opponent's neighbours of a stone just put on c that have no liberty left.
Surrounded(grid, c) ==
    {d \in Adjacent(c) : grid[d] = opponent(grid[c]) /\ Liberties(grid, d) = {}}

\* Fault: what a move surrounds stays on the board.
PlaceOnly(grid, c, s) ==
    LET with == Put(grid, c, s)
        ok   == grid[c] = "." /\ (Surrounded(with, c) # {} \/ Liberties(with, c) # {})
    IN [ok |-> ok, grid |-> IF ok THEN with ELSE grid, captured |-> 0]

\* place: the groups a stone surrounds are taken; without one, it needs a liberty.
Place(grid, c, s) ==
    LET with  == Put(grid, c, s)
        taken == UNION {Group(with, d) : d \in Surrounded(with, c)}
        after == Clear(with, taken)
        ok    == grid[c] = "." /\ (taken # {} \/ Liberties(after, c) # {})
    IN [ok |-> ok, grid |-> IF ok THEN after ELSE grid,
        captured |-> IF ok THEN Cardinality(taken) ELSE 0]

\* Fault: a stone without a liberty of its own is refused whatever it captures.
IsLegalNoCapture(grid, c, s) ==
    grid[c] = "." /\ Liberties(Put(grid, c, s), c) # {}

isLegal(grid, c, s) ==
    LET with == Put(grid, c, s)
    IN grid[c] = "." /\ (Surrounded(with, c) # {} \/ Liberties(with, c) # {})

NewGo ==
    [grid |-> [c \in Cell |-> "."], dead |-> {}, turn |-> "B", passes |-> 0,
     over |-> FALSE, marking |-> FALSE, caps |-> [B |-> 0, W |-> 0], history |-> {}]

\* The marking phase: dead stones are marked until they are confirmed.
Mark(g, action) ==
    LET c == <<action \div SIZE, action % SIZE>>
    IN CASE action = CLEAR_DEAD   -> [g EXCEPT !.dead = {}]
         [] action = CONFIRM_DEAD ->
              [g EXCEPT !.grid = Clear(g.grid, g.dead), !.dead = {}, !.marking = FALSE]
         [] action >= 0 /\ c \in Stone(g.grid) ->
              [g EXCEPT !.dead = IF c \in @ THEN @ \ {c} ELSE @ \cup {c}]
         [] OTHER -> g

Pass(g) ==
    IF g.passes = 1
    THEN [g EXCEPT !.passes = 2, !.over = TRUE, !.marking = TRUE]
    ELSE [g EXCEPT !.passes = 1, !.turn = opponent(@)]

\* A stone is played when it is legal, and when no move before led to the
\* position it leads to.  (Positions stand for their hashes.)
Play(g, c) ==
    LET after == Place(g.grid, c, g.turn)
    IN IF ~isLegal(g.grid, c, g.turn) \/ ~after.ok \/ after.grid \in g.history THEN g
       ELSE [g EXCEPT !.grid = after.grid, !.caps[g.turn] = @ + after.captured,
                      !.history = @ \cup {after.grid}, !.passes = 0,
                      !.turn = opponent(@)]

GoTick(g, action) ==
    CASE g.marking                -> Mark(g, action)
      [] ~g.marking /\ g.over     -> g
      [] ~g.over /\ action = RESIGN -> [g EXCEPT !.over = TRUE]
      [] ~g.over /\ action = PASS   -> Pass(g)
      [] ~g.over /\ action \notin {RESIGN, PASS} ->
           IF action \in 0 .. SIZE * SIZE - 1
           THEN Play(g, <<action \div SIZE, action % SIZE>>) ELSE g
=============================================================================
