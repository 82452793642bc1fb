------------------------------- MODULE Arcade -------------------------------
(***************************************************************************)
(* The rules of the gomoku, snake and pacman apps (desktop/app), as        *)
(* operators on a record that holds one game.  Where the program draws at  *)
(* random they give the set of the games that may result.                  *)
(***************************************************************************)
EXTENDS Integers, Sequences, SequencesExt, FiniteSets, FiniteSetsExt

CONSTANTS
    InARow,     \* stones in a row that win gomoku, 5 in the code
    BEAN_COUNT  \* beans of a pacman board, 30 in the code

ASSUME ArcadeAssumption == InARow \in Nat \ {0} /\ BEAN_COUNT \in Nat

-----------------------------------------------------------------------------
(* Directions: 0 to 3 are up, down, left and right; the code casts any other *)
(* number to a direction too, which is nobody's opposite and does not move.  *)

Step(dir) ==
    CASE dir = 0 -> <<0, -1>>
      [] dir = 1 -> <<0, 1>>
      [] dir = 2 -> <<-1, 0>>
      [] dir = 3 -> <<1, 0>>
      [] OTHER   -> <<0, 0>>

applyDir(dir, p) == <<p[1] + Step(dir)[1], p[2] + Step(dir)[2]>>

isOppositeDir(cur, next) == <<cur, next>> \in {<<0, 1>>, <<1, 0>>, <<2, 3>>, <<3, 2>>}

Grid(w, h) == (0 .. w - 1) \X (0 .. h - 1)

-----------------------------------------------------------------------------
(* Gomoku.                                                                 *)

NewGomoku(size) ==
    [size |-> size, cells |-> [c \in Grid(size, size) |-> "."], cur |-> "B",
     over |-> FALSE, winner |-> "."]

\* countDir: how many cells in a row from c on hold what c holds.
countDir(cells, c, d) ==
    LET at(n) == <<c[1] + n * d[1], c[2] + n * d[2]>>
        same == {n \in 1 .. Cardinality(DOMAIN cells) :
                   \A m \in 1 .. n : at(m) \in DOMAIN cells /\ cells[at(m)] = cells[c]}
    IN Cardinality(same)

\* Fault: the second diagonal is forgotten.
CheckWinThree(cells, c) ==
    \E d \in {<<1, 0>>, <<0, 1>>, <<1, 1>>} :
        1 + countDir(cells, c, d) + countDir(cells, c, <<-d[1], -d[2]>>) >= InARow

checkWin(cells, c) ==
    \E d \in {<<1, 0>>, <<0, 1>>, <<1, 1>>, <<1, -1>>} :
        1 + countDir(cells, c, d) + countDir(cells, c, <<-d[1], -d[2]>>) >= InARow

GomokuTick(g, pos) ==
    LET c     == <<pos \div g.size, pos % g.size>>
        cells == [g.cells EXCEPT ![c] = g.cur]
    IN CASE g.over \/ pos < 0 \/ c \notin DOMAIN g.cells -> g
         [] OTHER ->
              CASE g.cells[c] # "." -> g
                [] g.cells[c] = "." /\ checkWin(cells, c) ->
                     [g EXCEPT !.cells = cells, !.over = TRUE, !.winner = g.cur]
                [] OTHER ->
                     IF \E d \in DOMAIN cells : cells[d] = "."
                     THEN [g EXCEPT !.cells = cells, !.cur = IF @ = "B" THEN "W" ELSE "B"]
                     ELSE [g EXCEPT !.cells = cells, !.over = TRUE]

-----------------------------------------------------------------------------
(* Snake.  Food goes anywhere off the snake; on a board that is all snake   *)
(* the search for a place does not end, and no game results.               *)

generateFood(g) == {[g EXCEPT !.food = f] : f \in Grid(g.w, g.h) \ ToSet(g.body)}

\* The snake begins in the middle, with its tail to the left, off the board
\* when the board is narrow.
NewSnake(w, h) ==
    LET x == w \div 2
        y == h \div 2
    IN generateFood([w |-> w, h |-> h, body |-> <<<<x, y>>, <<x - 1, y>>, <<x - 2, y>>>>,
                     dir |-> 3, food |-> <<x, y>>, score |-> 0, over |-> FALSE])

SnakeTick(g, action) ==
    LET dir  == IF isOppositeDir(g.dir, action) THEN g.dir ELSE action
        head == applyDir(dir, g.body[1])
        long == <<head>> \o g.body
        eats == head = g.food
        next == [g EXCEPT !.dir = dir, !.body = IF eats THEN long ELSE Front(long),
                          !.score = IF eats THEN @ + 10 ELSE @]
        crash == head \notin Grid(g.w, g.h) \/ head \in ToSet(Tail(next.body))
    IN CASE g.over        -> {g}
         [] ~g.over /\ eats -> {[n EXCEPT !.over = crash] : n \in generateFood(next)}
         [] OTHER         -> {[next EXCEPT !.over = crash]}

-----------------------------------------------------------------------------
(* Pacman.                                                                 *)

Beans(w, h) == Min({BEAN_COUNT, w * h - 1})

\* generateBeans: as many beans, anywhere but under the player.
NewPacman(w, h) ==
    LET player == <<w \div 2, h \div 2>>
    IN {[w |-> w, h |-> h, player |-> player, beans |-> b, score |-> 0, over |-> FALSE] :
          b \in kSubset(Beans(w, h), Grid(w, h) \ {player})}

PacmanTick(g, action) ==
    LET p    == applyDir(action, g.player)
        left == g.beans \ {p}
    IN CASE g.over -> g
         [] ~g.over /\ p \notin Grid(g.w, g.h) -> [g EXCEPT !.over = TRUE]
         [] OTHER ->
              [g EXCEPT !.player = p, !.beans = left, !.over = left = {},
                        !.score = IF p \in g.beans THEN @ + 10 ELSE @]
=============================================================================
