------------------------------ MODULE GameApp -------------------------------
(***************************************************************************)
(* A game app: the C ABI every game shares (desktop/app/shared/game) around *)
(* one of the games go, gomoku, snake and pacman.                          *)
(***************************************************************************)
EXTENDS Go, Arcade

CONSTANTS
    DefaultSize,    \* the width or height of a board that is asked for with none
    Dim,            \* the widths and heights asked for, 0 for none
    Value,          \* the values of a tick: cells, directions, go's commands, others
    MaxMove         \* bound: stones played in a game of go

ASSUME GameAssumption == DefaultSize \in Nat \ {0} /\ Dim \subseteq Nat

None == [over |-> FALSE]

VARIABLES
    kind,       \* which app it is
    game,       \* ctx->game, None for the null pointer
    paused, done,
    hung        \* the app searches for a place for food for ever

vars == <<kind, game, paused, done, hung>>

NoGame == game = None /\ paused = FALSE /\ done = FALSE /\ hung = FALSE

Init == kind \in {"go", "gomoku", "snake", "pacman"} /\ NoGame

\* GAME_CONSTRUCT.
Construct(w, h) ==
    CASE kind = "go"     -> {NewGo}
      [] kind = "gomoku" -> {NewGomoku(w)}
      [] kind = "snake"  -> NewSnake(w, h)
      [] kind = "pacman" -> NewPacman(w, h)

Tick(v) ==
    CASE kind = "go"     -> {GoTick(game, v)}
      [] kind = "gomoku" -> {GomokuTick(game, v)}
      [] kind = "snake"  -> SnakeTick(game, v)
      [] kind = "pacman" -> {PacmanTick(game, v)}

\* The game becomes one of these; when there are none, the app hangs.
Become(games) ==
    IF games = {} THEN hung' = TRUE /\ UNCHANGED game
    ELSE game' \in games /\ UNCHANGED hung

NewGame ==
    /\ game = None
    /\ \E w, h \in Dim :
         LET size(d) == IF d <= 0 THEN DefaultSize ELSE d
         IN Become(Construct(size(w), size(h)))
    /\ paused' = FALSE /\ done' = FALSE /\ UNCHANGED kind

Input ==
    /\ game # None /\ ~paused
    /\ kind = "go" => Cardinality(game.history) < MaxMove
    /\ \E v \in Value : Become(Tick(v))
    /\ UNCHANGED <<kind, paused, done>>

Pause  == paused' = TRUE /\ UNCHANGED <<kind, game, done, hung>>
Resume == paused' = FALSE /\ UNCHANGED <<kind, game, done, hung>>

\* end_game makes the app done, whether or not there is a game.
EndGame == done' = TRUE /\ game' = None /\ UNCHANGED <<kind, paused, hung>>

\* app_process.  Any other request, and one there is no game for, changes
\* nothing.
Next == ~hung /\ (NewGame \/ Input \/ Pause \/ Resume \/ EndGame)

Spec == Init /\ [][Next]_vars

-----------------------------------------------------------------------------
InGame(k) == kind = k /\ game # None /\ ~hung

\* Until dead stones are removed, no group on a go board lacks a liberty, and
\* the stones played are those on the board and those captured.
GroupsBreathe ==
    InGame("go") /\ (game.over => game.marking \/ game.passes < 2) =>
        /\ \A c \in Stone(game.grid) : Liberties(game.grid, c) # {}
        /\ Cardinality(game.history)
               = Cardinality(Stone(game.grid)) + game.caps["B"] + game.caps["W"]
        /\ game.dead \subseteq Stone(game.grid)

\* isLegal and place, which search the board each in its own way, agree.
LegalityAgrees ==
    InGame("go") =>
        \A c \in Cell, s \in {"B", "W"} :
            isLegal(game.grid, c, s) <=> Place(game.grid, c, s).ok

\* Every line of a gomoku board as long as wins.
Lines(size) ==
    {L \in {{<<c[1] + n * d[1], c[2] + n * d[2]>> : n \in 0 .. InARow - 1} :
              c \in Grid(size, size), d \in {<<1, 0>>, <<0, 1>>, <<1, 1>>, <<1, -1>>}} :
        L \subseteq Grid(size, size)}

\* A game of gomoku is over when one colour, its winner, holds a line or the
\* board is full, and not before; the colours take turns.
GomokuSound ==
    LET holds(s) == \E L \in Lines(game.size) : \A c \in L : game.cells[c] = s
        count(s) == Cardinality({c \in DOMAIN game.cells : game.cells[c] = s})
    IN /\ \A s \in {"B", "W"} : holds(s) <=> game.winner = s
       /\ game.over <=> game.winner # "." \/ count(".") = 0
       /\ count("B") - count("W") =
            IF game.over THEN (IF game.cur = "B" THEN 1 ELSE 0)
            ELSE (IF game.cur = "B" THEN 0 ELSE 1)

\* A snake at large is a path that does not cross itself, as long as what it
\* ate, with food on the board and off the snake.
SnakeSound ==
    /\ ~game.over =>
         /\ Cardinality(ToSet(game.body)) = Len(game.body)
         /\ \A i \in 1 .. Len(game.body) - 1 :
              \E d \in 0 .. 3 : applyDir(d, game.body[i + 1]) = game.body[i]
         /\ game.body[1] \in Grid(game.w, game.h)
    /\ Len(game.body) = 3 + game.score \div 10
    /\ game.food \in Grid(game.w, game.h) \ ToSet(game.body)

\* Every bean is on the board or in the score, and the game goes on only while
\* there is one.
PacmanSound ==
    /\ game.score = 10 * (Beans(game.w, game.h) - Cardinality(game.beans))
    /\ game.player \in Grid(game.w, game.h) \ game.beans
    /\ game.beans = {} /\ game.score > 0 => game.over

\* Each of the other games keeps its own books.
GameSound ==
    /\ InGame("gomoku") => GomokuSound
    /\ InGame("snake")  => SnakeSound
    /\ InGame("pacman") => PacmanSound

=============================================================================
