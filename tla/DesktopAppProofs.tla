-------------------------- MODULE DesktopAppProofs --------------------------
(***************************************************************************)
(* Proofs about an app of the desktop, for any board, any numbers a client *)
(* sends as ticks and any number of commands of a terminal:                *)
(*   - the rules of go, gomoku, snake and pacman keep each game sound;     *)
(*   - a game app holds a sound game or none;                              *)
(*   - a terminal keeps track of its shell and of its descriptor.          *)
(***************************************************************************)
EXTENDS DesktopApp, NaturalSets, FiniteSetTheorems, SequenceTheorems, TLAPS

-----------------------------------------------------------------------------
(* Groups.                                                                 *)

LEMMA CellsFinite == IsFiniteSet(Cell) /\ \A S \in SUBSET Cell : IsFiniteSet(S)
<1>1. IsFiniteSet(Line)
  BY GoAssumption, FS_Interval DEF Line
<1>2. IsFiniteSet(Cell)
  BY <1>1, FS_Product DEF Cell
<1>. QED BY <1>2, FS_Subset

LEMMA AdjacentSymmetric ==
    ASSUME NEW b \in Cell, NEW d \in Adjacent(b)
    PROVE  d \in Cell /\ b \in Adjacent(d)
BY DEF Adjacent, Cell, Line

Grow(grid, c, S) ==
    S \cup {d \in UNION {Adjacent(b) : b \in S} : grid[d] = grid[c]}

\* collectGroup's search, as a function of how far it went.
LEMMA GroupIs ==
    ASSUME NEW grid, NEW c \in Cell
    PROVE  \E f \in [Nat -> SUBSET Cell] :
             /\ f[0] = {c}
             /\ \A n \in Nat : f[n + 1] = Grow(grid, c, f[n])
             /\ Group(grid, c) = f[Cardinality(Stone(grid))]
<1>. DEFINE F == [S \in SUBSET Cell |-> Grow(grid, c, S)]
            Is(f) == f = [n \in Nat |-> IF n = 0 THEN {c}
                            ELSE f[n - 1] \cup {d \in UNION {Adjacent(b) : b \in f[n - 1]} :
                                                  grid[d] = grid[c]}]
<1>1. F \in [SUBSET Cell -> SUBSET Cell]
  BY DEF Grow, Adjacent
<1>2. PICK f \in [Nat -> SUBSET Cell] : f[0] = {c} /\ \A n \in Nat : f[n + 1] = F[f[n]]
  <2>. DEFINE V == SUBSET Cell
              a == {c}
  <2>1. a \in V /\ F \in [V -> V]
    BY <1>1
  <2>2. \E f : Iterates(f, V, F, a)
    <3>. HIDE DEF F, V, a
    <3>. QED BY <2>1, IterationExists
  <2>. QED BY <2>2 DEF Iterates
<1>3. \A n \in Nat : f[n + 1] = Grow(grid, c, f[n])
  BY <1>2
<1>4. Is(f)
  <2>1. ASSUME NEW n \in Nat, n # 0
        PROVE  f[n] = f[n - 1] \cup {d \in UNION {Adjacent(b) : b \in f[n - 1]} :
                                                  grid[d] = grid[c]}
    <3>1. n - 1 \in Nat /\ (n - 1) + 1 = n
      BY <2>1
    <3>. QED BY <1>3, <3>1 DEF Grow
  <2>. QED BY <1>2, <2>1
<1>5. \A g : Is(g) => g[0] = {c} /\ \A n \in Nat : g[n + 1] = Grow(grid, c, g[n])
  <2>. TAKE g
  <2>. SUFFICES ASSUME Is(g)
                PROVE  g[0] = {c} /\ \A n \in Nat : g[n + 1] = Grow(grid, c, g[n])
    OBVIOUS
  <2>1. g[0] = {c}
    OBVIOUS
  <2>2. ASSUME NEW n \in Nat PROVE g[n + 1] = Grow(grid, c, g[n])
    <3>1. n + 1 \in Nat /\ n + 1 # 0 /\ (n + 1) - 1 = n
      OBVIOUS
    <3>. QED BY <3>1 DEF Grow
  <2>. QED BY <2>1, <2>2
<1>. DEFINE g == CHOOSE h : Is(h)
<1>6. Is(g)
  BY <1>4
<1>7. Group(grid, c) = g[Cardinality(Stone(grid))]
  BY DEF Group
<1>. HIDE DEF g
<1>8. g[0] = {c} /\ \A n \in Nat : g[n + 1] = Grow(grid, c, g[n])
  BY <1>5, <1>6
<1>9. g \in [Nat -> SUBSET Cell]
  <2>. DEFINE S == {n \in Nat : g[n] \subseteq Cell}
  <2>1. 0 \in S /\ \A n \in Nat : n \in S => n + 1 \in S
    BY <1>8 DEF Grow, Adjacent
  <2>2. Nat \subseteq S
    <3>. HIDE DEF S
    <3>. QED BY <2>1, SetInduction
  <2>3. DOMAIN g = Nat /\ g = [n \in DOMAIN g |-> g[n]]
    BY <1>6
  <2>. QED BY <2>2, <2>3
<1>. QED BY <1>7, <1>8, <1>9

\* The group of a stone holds it, stones of its colour only, with each stone its
\* neighbours of that colour, and no more than that takes.
Closed(grid, c, S) ==
    \A b \in S, d \in Cell : d \in Adjacent(b) /\ grid[d] = grid[c] => d \in S

LEMMA GroupSound ==
    ASSUME NEW grid, NEW c \in Stone(grid)
    PROVE  /\ c \in Group(grid, c)
           /\ \A d \in Group(grid, c) : d \in Cell /\ grid[d] = grid[c]
           /\ Closed(grid, c, Group(grid, c))
           /\ \A S : c \in S /\ Closed(grid, c, S) => Group(grid, c) \subseteq S
<1>. DEFINE N == Cardinality(Stone(grid))
<1>1. c \in Cell /\ grid[c] # "." /\ IsFiniteSet(Stone(grid)) /\ N \in Nat
  BY CellsFinite, FS_CardinalityType DEF Stone
<1>2. PICK f \in [Nat -> SUBSET Cell] :
             /\ f[0] = {c}
             /\ \A n \in Nat : f[n + 1] = Grow(grid, c, f[n])
             /\ Group(grid, c) = f[N]
  BY <1>1, GroupIs
<1>. HIDE DEF N
<1>3. \A n \in Nat : c \in f[n] /\ \A d \in f[n] : d \in Cell /\ grid[d] = grid[c]
  <2>. DEFINE T == {n \in Nat : c \in f[n] /\ \A d \in f[n] : d \in Cell /\ grid[d] = grid[c]}
  <2>1. 0 \in T
    BY <1>1, <1>2
  <2>2. ASSUME NEW n \in Nat, n \in T PROVE n + 1 \in T
    BY <1>2, <2>2 DEF Grow, Adjacent
  <2>3. Nat \subseteq T
    <3>. HIDE DEF T
    <3>. QED BY <2>1, <2>2, SetInduction
  <2>. QED BY <2>3
<1>4. ASSUME NEW S, c \in S, Closed(grid, c, S) PROVE f[N] \subseteq S
  <2>. DEFINE T == {n \in Nat : f[n] \subseteq S}
  <2>1. 0 \in T
    BY <1>2, <1>4
  <2>2. ASSUME NEW n \in Nat, n \in T PROVE n + 1 \in T
    <3>. SUFFICES ASSUME NEW d \in f[n + 1] PROVE d \in S
      BY <2>2
    <3>1. CASE d \in f[n]
      BY <2>2, <3>1
    <3>2. CASE d \notin f[n]
      <4>1. PICK b \in f[n] : d \in Adjacent(b) /\ grid[d] = grid[c]
        BY <1>2, <3>2 DEF Grow
      <4>2. d \in Cell /\ b \in S
        BY <2>2, <4>1 DEF Adjacent
      <4>. QED BY <1>4, <4>1, <4>2 DEF Closed
    <3>. QED BY <3>1, <3>2
  <2>3. Nat \subseteq T
    <3>. HIDE DEF T
    <3>. QED BY <2>1, <2>2, SetInduction
  <2>. QED BY <1>1, <2>3
<1>5. f[N + 1] = f[N]
  <2>. SUFFICES ASSUME f[N + 1] # f[N] PROVE FALSE
    OBVIOUS
  <2>1. ASSUME NEW n \in Nat, n <= N, f[n + 1] = f[n] PROVE FALSE
    <3>. DEFINE T == {k \in Nat : f[n + k + 1] = f[n + k]}
    <3>1. 0 \in T
      BY <2>1
    <3>2. ASSUME NEW k \in Nat, k \in T PROVE k + 1 \in T
      <4>1. n + k \in Nat /\ n + (k + 1) = (n + k) + 1 /\ (n + k) + 1 \in Nat
        OBVIOUS
      <4>2. f[(n + k) + 1] = f[n + k]
        BY <3>2, <4>1
      <4>3. /\ f[((n + k) + 1) + 1] = Grow(grid, c, f[(n + k) + 1])
            /\ f[(n + k) + 1] = Grow(grid, c, f[n + k])
        BY <1>2, <4>1
      <4>4. f[((n + k) + 1) + 1] = f[(n + k) + 1]
        BY <4>2, <4>3
      <4>5. f[n + (k + 1) + 1] = f[n + (k + 1)]
        BY <4>1, <4>4
      <4>. QED BY <4>5
    <3>3. Nat \subseteq T
      <4>. HIDE DEF T
      <4>. QED BY <3>1, <3>2, SetInduction
    <3>4. N - n \in T /\ n + (N - n) = N
      BY <1>1, <2>1, <3>3
    <3>. QED BY <3>4
  <2>. DEFINE T == {n \in Nat : n <= N => Cardinality(f[n]) >= n + 1}
  <2>2. 0 \in T
    <3>1. Cardinality(f[0]) = 1
      BY <1>2, FS_Singleton
    <3>. QED BY <3>1
  <2>3. ASSUME NEW n \in Nat, n \in T PROVE n + 1 \in T
    <3>. SUFFICES ASSUME n + 1 <= N PROVE Cardinality(f[n + 1]) >= (n + 1) + 1
      OBVIOUS
    <3>1. /\ f[n + 1] # f[n] /\ f[n] \subseteq f[n + 1]
          /\ IsFiniteSet(f[n + 1]) /\ IsFiniteSet(f[n])
      BY <1>1, <1>2, <2>1, CellsFinite DEF Grow
    <3>2. /\ Cardinality(f[n]) \in Nat /\ Cardinality(f[n + 1]) \in Nat
          /\ Cardinality(f[n]) <= Cardinality(f[n + 1])
          /\ Cardinality(f[n]) # Cardinality(f[n + 1])
      BY <3>1, FS_Subset, FS_CardinalityType
    <3>3. Cardinality(f[n]) >= n + 1
      BY <1>1, <2>3
    <3>. QED BY <3>2, <3>3
  <2>4. Nat \subseteq T
    <3>. HIDE DEF T
    <3>. QED BY <2>2, <2>3, SetInduction
  <2>5. Cardinality(f[N]) >= N + 1
    BY <1>1, <2>4
  <2>6. f[N] \in SUBSET Stone(grid)
    BY <1>1, <1>2, <1>3 DEF Stone
  <2>7. Cardinality(f[N]) <= N /\ Cardinality(f[N]) \in Nat
    BY <1>1, <2>6, FS_Subset, FS_CardinalityType DEF N
  <2>. QED BY <1>1, <2>5, <2>7
<1>6. Closed(grid, c, f[N])
  BY <1>1, <1>2, <1>5 DEF Closed, Grow
<1>. QED BY <1>1, <1>2, <1>3, <1>4, <1>6

\* S holds the group of c and nothing next to S is empty.
Stifled(grid, c, S) ==
    /\ c \in S
    /\ \A d \in S : d \in Cell /\ grid[d] = grid[c]
    /\ Closed(grid, c, S)
    /\ \A b \in S, d \in Cell : d \in Adjacent(b) => grid[d] # "."

\* A group has no liberty exactly when there is such an S.
LEMMA NoLiberty ==
    ASSUME NEW grid, NEW c \in Stone(grid)
    PROVE  Liberties(grid, c) = {} <=> \E S : Stifled(grid, c, S)
<1>1. ASSUME Liberties(grid, c) = {} PROVE \E S : Stifled(grid, c, S)
  <2>1. Stifled(grid, c, Group(grid, c))
    BY <1>1, GroupSound DEF Stifled, Liberties
  <2>. QED BY <2>1
<1>2. ASSUME NEW S, Stifled(grid, c, S) PROVE Liberties(grid, c) = {}
  <2>1. Group(grid, c) \subseteq S
    BY <1>2, GroupSound DEF Stifled
  <2>2. ASSUME NEW d \in Liberties(grid, c) PROVE FALSE
    <3>1. PICK b \in Group(grid, c) : d \in Adjacent(b) /\ grid[d] = "."
      BY DEF Liberties
    <3>. QED BY <1>2, <2>1, <3>1 DEF Stifled, Adjacent
  <2>. QED BY <2>2
<1>. QED BY <1>1, <1>2

-----------------------------------------------------------------------------
(* A stone is put on the board.                                            *)

Mark3 == {".", "B", "W"}
Taken(with, c) == UNION {Group(with, d) : d \in Surrounded(with, c)}

LEMMA PutStones ==
    ASSUME NEW grid \in [Cell -> Mark3], NEW c \in Cell, NEW s \in {"B", "W"}
    PROVE  /\ Put(grid, c, s) \in [Cell -> Mark3]
           /\ Put(grid, c, s)[c] = s
           /\ \A d \in Cell : d # c => Put(grid, c, s)[d] = grid[d]
           /\ Stone(Put(grid, c, s)) = Stone(grid) \cup {c}
BY DEF Put, Stone, Mark3

\* What is taken are stones of the other colour.
LEMMA TakenSound ==
    ASSUME NEW with \in [Cell -> Mark3], NEW c \in Cell, with[c] # "."
    PROVE  /\ Taken(with, c) \subseteq {d \in Stone(with) : with[d] = opponent(with[c])}
           /\ \A d \in Surrounded(with, c) : d \in Taken(with, c)
           /\ c \notin Taken(with, c)
<1>1. \A d \in Surrounded(with, c) : d \in Stone(with) /\ with[d] = opponent(with[c])
  BY DEF Surrounded, Adjacent, Stone, opponent, Mark3
<1>2. ASSUME NEW d \in Surrounded(with, c)
      PROVE  /\ d \in Group(with, d)
             /\ Group(with, d) \subseteq {e \in Stone(with) : with[e] = opponent(with[c])}
  BY <1>1, GroupSound DEF Stone
<1>3. opponent(with[c]) # with[c]
  BY DEF opponent, Mark3
<1>. QED BY <1>2, <1>3 DEF Taken

LEMMA ClearStones ==
    ASSUME NEW with \in [Cell -> Mark3], NEW T, T \subseteq Cell
    PROVE  /\ Clear(with, T) \in [Cell -> Mark3]
           /\ \A d \in Cell : Clear(with, T)[d] = IF d \in T THEN "." ELSE with[d]
           /\ Stone(Clear(with, T)) = Stone(with) \ T
BY DEF Clear, Stone, Mark3

\* isLegal and place agree: without a capture nothing is cleared.
LEMMA LegalIffPlaced ==
    ASSUME NEW grid \in [Cell -> Mark3], NEW c \in Cell, NEW s \in {"B", "W"}
    PROVE  isLegal(grid, c, s) <=> Place(grid, c, s).ok
<1>. DEFINE with == Put(grid, c, s)
<1>1. with \in [Cell -> Mark3] /\ with[c] # "."
  BY PutStones
<1>2. Place(grid, c, s).ok
        <=> /\ grid[c] = "."
            /\ Taken(with, c) # {} \/ Liberties(Clear(with, Taken(with, c)), c) # {}
  BY DEF Place, Taken
<1>3. isLegal(grid, c, s)
        <=> grid[c] = "." /\ (Surrounded(with, c) # {} \/ Liberties(with, c) # {})
  BY DEF isLegal
<1>. HIDE DEF with
<1>4. CASE Surrounded(with, c) = {}
  <2>1. Taken(with, c) = {}
    BY <1>4 DEF Taken
  <2>2. Clear(with, {}) = with
    BY <1>1 DEF Clear
  <2>. QED BY <1>2, <1>3, <1>4, <2>1, <2>2
<1>5. CASE Surrounded(with, c) # {}
  <2>1. Taken(with, c) # {}
    BY <1>1, <1>5, TakenSound
  <2>. QED BY <1>2, <1>3, <1>5, <2>1
<1>. QED BY <1>4, <1>5

\* place leaves no group without a liberty on a board that had none.
Breathing(grid) == \A c \in Stone(grid) : Liberties(grid, c) # {}

LEMMA PlaceBreathes ==
    ASSUME NEW grid \in [Cell -> Mark3], NEW c \in Cell, NEW s \in {"B", "W"},
           Breathing(grid), Place(grid, c, s).ok
    PROVE  Breathing(Place(grid, c, s).grid)
<1>. DEFINE with == Put(grid, c, s)
            taken == Taken(with, c)
            after == Clear(with, taken)
<1>1. /\ grid[c] = "." /\ (taken # {} \/ Liberties(after, c) # {})
      /\ Place(grid, c, s).grid = after
  BY DEF Place, Taken
<1>2. /\ with \in [Cell -> Mark3] /\ with[c] = s
      /\ \A d \in Cell : d # c => with[d] = grid[d]
  BY PutStones
<1>. HIDE DEF with
<1>3. /\ \A d \in taken : d \in Cell /\ with[d] = opponent(s)
      /\ \A d \in Surrounded(with, c) : d \in taken
      /\ c \notin taken /\ taken \subseteq Cell
  BY <1>2, TakenSound DEF Stone
<1>4. taken # {} => Surrounded(with, c) # {}
  BY DEF Taken
<1>. HIDE DEF taken
<1>5. /\ after \in [Cell -> Mark3]
      /\ \A d \in Cell : after[d] = IF d \in taken THEN "." ELSE with[d]
  BY <1>2, <1>3, ClearStones
<1>. HIDE DEF after
<1>6. ASSUME NEW e \in Stone(after), Liberties(after, e) = {} PROVE FALSE
  <2>1. PICK G : Stifled(after, e, G)
    BY <1>6, NoLiberty
  <2>2. /\ e \in G
        /\ \A d \in G :
             d \in Cell /\ after[d] = after[e] /\ d \notin taken /\ with[d] = after[e]
        /\ \A b \in G, d \in Cell : d \in Adjacent(b) => d \notin taken /\ after[d] # "."
        /\ \A b \in G, d \in Cell : d \in Adjacent(b) /\ after[d] = after[e] => d \in G
    BY <1>5, <2>1 DEF Stifled, Closed, Stone
  <2>3. after[e] \in {"B", "W"} /\ e \in Cell
    BY <1>5 DEF Stone, Mark3
  <2>4. ASSUME c \in G PROVE FALSE
    <3>1. c \in Stone(after) /\ Stifled(after, c, G)
      BY <2>1, <2>2, <2>3, <2>4 DEF Stifled, Closed, Stone
    <3>2. Liberties(after, c) = {}
      BY <3>1, NoLiberty
    <3>3. PICK d \in Surrounded(with, c) : d \in taken
      BY <1>1, <1>3, <1>4, <3>2
    <3>. QED BY <2>2, <2>4, <3>3 DEF Surrounded, Adjacent
  <2>5. e \in Stone(grid) /\ \A d \in G : grid[d] = grid[e] /\ grid[d] = after[e]
    BY <1>2, <2>2, <2>3, <2>4 DEF Stone
  <2>6. \E b \in G : c \in Adjacent(b)
    <3>. SUFFICES ASSUME \A b \in G : c \notin Adjacent(b) PROVE FALSE
      OBVIOUS
    <3>1. \A b \in G, d \in Cell : d \in Adjacent(b) => grid[d] = after[d]
      BY <1>2, <1>5, <2>2
    <3>2. Stifled(grid, e, G)
      BY <2>2, <2>5, <3>1 DEF Stifled, Closed
    <3>. QED BY <2>5, <3>2, NoLiberty DEF Breathing
  <2>7. PICK b \in G : c \in Adjacent(b)
    BY <2>6
  <2>8. after[e] = opponent(s)
    <3>1. after[c] = s
      BY <1>2, <1>3, <1>5
    <3>. QED BY <2>2, <2>3, <2>4, <2>7, <3>1 DEF opponent
  <2>9. Stifled(with, b, G)
    <3>1. \A a \in G, d \in Cell : d \in Adjacent(a) => with[d] = after[d]
      BY <1>5, <2>2
    <3>. QED BY <2>2, <2>7, <3>1 DEF Stifled, Closed
  <2>10. b \in Surrounded(with, c)
    <3>1. b \in Stone(with) /\ b \in Adjacent(c)
      BY <2>2, <2>3, <2>7, AdjacentSymmetric DEF Stone
    <3>2. Liberties(with, b) = {}
      BY <2>9, <3>1, NoLiberty
    <3>. QED BY <1>2, <2>2, <2>7, <2>8, <3>1, <3>2 DEF Surrounded
  <2>. QED BY <1>3, <2>2, <2>7, <2>10
<1>. QED BY <1>1, <1>6 DEF Breathing

\* What a move adds to the stones on the board and to the stones captured.
LEMMA PlaceCounts ==
    ASSUME NEW grid \in [Cell -> Mark3], NEW c \in Cell, NEW s \in {"B", "W"},
           Place(grid, c, s).ok
    PROVE  LET p == Place(grid, c, s)
           IN /\ p.grid \in [Cell -> Mark3] /\ p.captured \in Nat
              /\ Cardinality(Stone(p.grid)) + p.captured = Cardinality(Stone(grid)) + 1
<1>. DEFINE with == Put(grid, c, s)
            taken == Taken(with, c)
            p == Place(grid, c, s)
<1>1. grid[c] = "." /\ p.grid = Clear(with, taken) /\ p.captured = Cardinality(taken)
  BY DEF Place, Taken
<1>2. /\ with \in [Cell -> Mark3] /\ with[c] = s /\ with[c] # "."
      /\ Stone(with) = Stone(grid) \cup {c}
  BY PutStones
<1>. HIDE DEF p, with
<1>3. taken \subseteq Stone(with) /\ taken \subseteq Cell
  BY <1>2, TakenSound DEF Stone
<1>. HIDE DEF taken
<1>4. p.grid \in [Cell -> Mark3] /\ Stone(p.grid) = Stone(with) \ taken
  BY <1>1, <1>2, <1>3, ClearStones
<1>5. IsFiniteSet(Stone(grid)) /\ IsFiniteSet(Stone(with)) /\ IsFiniteSet(taken)
  BY <1>3, CellsFinite DEF Stone
<1>6. Cardinality(Stone(with)) = Cardinality(Stone(grid)) + 1
  BY <1>1, <1>2, <1>5, FS_AddElement DEF Stone
<1>7. Cardinality(Stone(with) \ taken) = Cardinality(Stone(with)) - Cardinality(taken)
  <2>1. Stone(with) \cap taken = taken
    BY <1>3
  <2>. QED BY SMTT(20), ZenonT(40), <1>5, <2>1, FS_Difference
<1>8. /\ Cardinality(taken) \in Nat /\ Cardinality(Stone(with)) \in Nat
      /\ Cardinality(Stone(grid)) \in Nat
  BY <1>5, FS_CardinalityType
<1>. QED BY <1>1, <1>4, <1>6, <1>7, <1>8 DEF p

-----------------------------------------------------------------------------
(* A game of go.                                                           *)

GoShape(g) ==
    DOMAIN g = {"grid", "dead", "turn", "passes", "over", "marking", "caps", "history"}

GoTypes(g) ==
    /\ GoShape(g)
    /\ g.grid \in [Cell -> Mark3] /\ g.history \subseteq [Cell -> Mark3]
    /\ g.dead \subseteq Cell /\ g.turn \in {"B", "W"} /\ g.passes \in 0 .. 2
    /\ g.caps \in [{"B", "W"} -> Nat]

GoSound(g) ==
    /\ GoTypes(g)
    /\ IsFiniteSet(g.history)
    /\ g.marking => g.over /\ g.passes = 2
    /\ g.passes = 2 => g.over
    /\ ~g.marking => g.dead = {}
    /\ (g.over => g.marking \/ g.passes < 2) =>
         /\ Breathing(g.grid)
         /\ Cardinality(g.history)
                = Cardinality(Stone(g.grid)) + g.caps["B"] + g.caps["W"]
         /\ g.dead \subseteq Stone(g.grid)

\* The number of an action names a cell of the board.
LEMMA CellOf ==
    ASSUME NEW a \in 0 .. SIZE * SIZE - 1
    PROVE  <<a \div SIZE, a % SIZE>> \in Cell
<1>1. SIZE \in Nat /\ SIZE > 0 /\ a \in Nat /\ a < SIZE * SIZE
  BY GoAssumption
<1>. DEFINE q == a \div SIZE
            r == a % SIZE
<1>2. q \in Int /\ r \in 0 .. SIZE - 1 /\ a = SIZE * q + r
  BY <1>1
<1>. HIDE DEF q, r
<1>3. q \in 0 .. SIZE - 1
  <2>1. ASSUME q < 0 PROVE FALSE
    <3>1. SIZE * q <= SIZE * (-1)
      BY <1>1, <1>2, <2>1
    <3>. QED BY <1>1, <1>2, <3>1
  <2>2. ASSUME q >= SIZE PROVE FALSE
    <3>1. SIZE * q >= SIZE * SIZE
      BY <1>1, <1>2, <2>2
    <3>. QED BY <1>1, <1>2, <3>1
  <2>. QED BY <1>1, <1>2, <2>1, <2>2
<1>. QED BY <1>2, <1>3 DEF Cell, Line, q, r

LEMMA NewGoSound == GoSound(NewGo)
<1>1. Stone(NewGo.grid) = {}
  BY DEF NewGo, Stone
<1>2. GoTypes(NewGo)
  BY DEF NewGo, GoTypes, GoShape, Mark3
<1>. QED BY <1>1, <1>2, FS_EmptySet DEF NewGo, GoSound, Breathing

LEMMA PlaySound ==
    ASSUME NEW g, GoSound(g), ~g.over, NEW c \in Cell
    PROVE  GoSound(Play(g, c))
<1>. DEFINE after == Place(g.grid, c, g.turn)
            n == [g EXCEPT !.grid = after.grid, !.caps[g.turn] = @ + after.captured,
                           !.history = @ \cup {after.grid}, !.passes = 0,
                           !.turn = opponent(@)]
<1>1. CASE ~isLegal(g.grid, c, g.turn) \/ ~after.ok \/ after.grid \in g.history
  BY <1>1 DEF Play
<1>2. CASE ~(~isLegal(g.grid, c, g.turn) \/ ~after.ok \/ after.grid \in g.history)
  <2>1. Play(g, c) = n
    BY <1>2 DEF Play
  <2>2. /\ g.grid \in [Cell -> Mark3] /\ g.turn \in {"B", "W"} /\ Breathing(g.grid)
        /\ g.dead = {} /\ IsFiniteSet(g.history)
        /\ g.history \subseteq [Cell -> Mark3]
        /\ g.caps \in [{"B", "W"} -> Nat] /\ ~g.marking
        /\ Cardinality(g.history) = Cardinality(Stone(g.grid)) + g.caps["B"] + g.caps["W"]
    BY DEF GoSound, GoTypes
  <2>3. after.ok /\ after.grid \notin g.history
    BY <1>2
  <2>4. /\ after.grid \in [Cell -> Mark3] /\ after.captured \in Nat
        /\ Cardinality(Stone(after.grid)) + after.captured = Cardinality(Stone(g.grid)) + 1
    BY <2>2, <2>3, PlaceCounts
  <2>5. Breathing(after.grid)
    BY <2>2, <2>3, PlaceBreathes
  <2>. HIDE DEF after
  <2>6. /\ GoShape(n) /\ n.grid = after.grid /\ n.dead = g.dead /\ n.passes = 0
        /\ n.turn = opponent(g.turn) /\ n.over = g.over /\ n.marking = g.marking
        /\ n.caps = [g.caps EXCEPT ![g.turn] = @ + after.captured]
        /\ n.history = g.history \cup {after.grid}
    BY DEF GoSound, GoTypes, GoShape
  <2>. HIDE DEF n
  <2>7. /\ n.caps \in [{"B", "W"} -> Nat]
        /\ n.caps["B"] + n.caps["W"] = g.caps["B"] + g.caps["W"] + after.captured
    BY <2>2, <2>4, <2>6
  <2>8. IsFiniteSet(n.history) /\ Cardinality(n.history) = Cardinality(g.history) + 1
    BY <2>2, <2>3, <2>6, FS_AddElement
  <2>9. /\ Cardinality(Stone(after.grid)) \in Nat /\ Cardinality(Stone(g.grid)) \in Nat
        /\ g.caps["B"] \in Nat /\ g.caps["W"] \in Nat
        /\ n.caps["B"] \in Nat /\ n.caps["W"] \in Nat
    BY <2>2, <2>7, CellsFinite, FS_CardinalityType DEF Stone
  <2>10. GoTypes(n)
    BY <2>2, <2>4, <2>6, <2>7 DEF GoTypes, opponent
  <2>11. Cardinality(n.history) = Cardinality(Stone(n.grid)) + n.caps["B"] + n.caps["W"]
    BY <2>2, <2>4, <2>6, <2>7, <2>8, <2>9
  <2>12. GoSound(n)
    BY <2>2, <2>5, <2>6, <2>8, <2>10, <2>11 DEF GoSound
  <2>. QED BY <2>1, <2>12
<1>. QED BY <1>1, <1>2

LEMMA MarkSound ==
    ASSUME NEW g, GoSound(g), g.marking, NEW action
    PROVE  GoSound(Mark(g, action))
<1>. DEFINE c == <<action \div SIZE, action % SIZE>>
<1>1. CASE Mark(g, action) = g
  BY <1>1
<1>2. ASSUME NEW D, D \subseteq Stone(g.grid), Mark(g, action) = [g EXCEPT !.dead = D]
      PROVE  GoSound(Mark(g, action))
  <2>. DEFINE n == [g EXCEPT !.dead = D]
  <2>1. /\ GoShape(n) /\ n.grid = g.grid /\ n.dead = D /\ n.passes = g.passes
        /\ n.turn = g.turn /\ n.over = g.over /\ n.marking = g.marking
        /\ n.caps = g.caps /\ n.history = g.history
    BY DEF GoSound, GoTypes, GoShape
  <2>. HIDE DEF n
  <2>2. GoSound(n)
    BY <1>2, <2>1 DEF GoSound, GoTypes, Stone
  <2>. QED BY <1>2, <2>2 DEF n
<1>3. CASE action = CONFIRM_DEAD
  <2>. DEFINE grid == Clear(g.grid, g.dead)
              n == [g EXCEPT !.grid = grid, !.dead = {}, !.marking = FALSE]
  <2>1. grid \in [Cell -> Mark3]
    BY ClearStones DEF GoSound, GoTypes
  <2>2. Mark(g, action) = n
    BY <1>3 DEF Mark, CONFIRM_DEAD, CLEAR_DEAD
  <2>. HIDE DEF grid
  <2>3. /\ GoShape(n) /\ n.grid = grid /\ n.dead = {} /\ n.passes = g.passes
        /\ n.turn = g.turn /\ n.over = g.over /\ ~n.marking
        /\ n.caps = g.caps /\ n.history = g.history
    BY DEF GoSound, GoTypes, GoShape
  <2>. HIDE DEF n
  <2>4. GoSound(n)
    BY <2>1, <2>3 DEF GoSound, GoTypes
  <2>. QED BY <2>2, <2>4
<1>4. g.dead \subseteq Stone(g.grid)
  BY DEF GoSound
<1>5. CASE action = CLEAR_DEAD
  <2>1. Mark(g, action) = [g EXCEPT !.dead = {}]
    BY <1>5 DEF Mark, CLEAR_DEAD, CONFIRM_DEAD
  <2>. QED BY <1>2, <2>1
<1>6. CASE action >= 0 /\ c \in Stone(g.grid)
  <2>. DEFINE D == IF c \in g.dead THEN g.dead \ {c} ELSE g.dead \cup {c}
  <2>1. Mark(g, action) = [g EXCEPT !.dead = D]
    BY <1>6 DEF Mark, CLEAR_DEAD, CONFIRM_DEAD, GoSound, GoTypes, GoShape
  <2>2. D \subseteq Stone(g.grid)
    BY <1>4, <1>6
  <2>. HIDE DEF D
  <2>. QED BY <1>2, <2>1, <2>2
<1>7. CASE /\ action # CLEAR_DEAD /\ action # CONFIRM_DEAD
           /\ ~(action >= 0 /\ c \in Stone(g.grid))
  BY <1>1, <1>7 DEF Mark
<1>. QED BY <1>3, <1>5, <1>6, <1>7

LEMMA PassSound ==
    ASSUME NEW g, GoSound(g), ~g.over
    PROVE  GoSound(Pass(g))
<1>. DEFINE n == Pass(g)
<1>1. /\ GoShape(n) /\ n.grid = g.grid /\ n.dead = g.dead /\ n.turn \in {"B", "W"}
      /\ n.caps = g.caps /\ n.history = g.history
      /\ \/ n.passes = 2 /\ n.over /\ n.marking
         \/ n.passes = 1 /\ n.over = g.over /\ n.marking = g.marking
  <2>1. CASE g.passes = 1
    BY <2>1 DEF Pass, GoSound, GoTypes, GoShape
  <2>2. CASE g.passes # 1
    BY <2>2 DEF Pass, GoSound, GoTypes, GoShape, opponent
  <2>. QED BY <2>1, <2>2
<1>. HIDE DEF n
<1>2. GoSound(n)
  BY <1>1 DEF GoSound, GoTypes
<1>. QED BY <1>2 DEF n

LEMMA ResignSound ==
    ASSUME NEW g, GoSound(g), ~g.over
    PROVE  GoSound([g EXCEPT !.over = TRUE])
<1>. DEFINE n == [g EXCEPT !.over = TRUE]
<1>1. /\ GoShape(n) /\ n.grid = g.grid /\ n.dead = g.dead /\ n.passes = g.passes
      /\ n.turn = g.turn /\ n.over /\ n.marking = g.marking
      /\ n.caps = g.caps /\ n.history = g.history
  BY DEF GoSound, GoTypes, GoShape
<1>. HIDE DEF n
<1>2. GoSound(n)
  BY <1>1 DEF GoSound, GoTypes
<1>. QED BY <1>2 DEF n

\* A tick keeps the game sound, whatever number it names.
LEMMA GoTickSound ==
    ASSUME NEW g, GoSound(g), NEW action
    PROVE  GoSound(GoTick(g, action))
<1>1. CASE g.marking
  <2>1. g.over
    BY <1>1 DEF GoSound
  <2>2. GoTick(g, action) = Mark(g, action)
    BY <1>1, <2>1 DEF GoTick
  <2>. QED BY <1>1, <2>2, MarkSound
<1>2. CASE ~g.marking /\ g.over
  BY <1>2 DEF GoTick
<1>3. CASE ~g.over /\ action = RESIGN
  <2>1. ~g.marking
    BY <1>3 DEF GoSound
  <2>2. GoTick(g, action) = [g EXCEPT !.over = TRUE]
    BY <1>3, <2>1 DEF GoTick, RESIGN, PASS
  <2>. QED BY <1>3, <2>2, ResignSound
<1>4. CASE ~g.over /\ action = PASS
  <2>1. ~g.marking
    BY <1>4 DEF GoSound
  <2>. QED BY <1>4, <2>1, PassSound DEF GoTick, RESIGN, PASS
<1>5. CASE ~g.over /\ action \notin {RESIGN, PASS}
  <2>1. ~g.marking
    BY <1>5 DEF GoSound
  <2>2. CASE action \in 0 .. SIZE * SIZE - 1
    <3>1. GoTick(g, action) = Play(g, <<action \div SIZE, action % SIZE>>)
      BY <1>5, <2>1, <2>2 DEF GoTick
    <3>. QED BY <1>5, <2>2, <3>1, CellOf, PlaySound
  <2>3. CASE action \notin 0 .. SIZE * SIZE - 1
    BY <1>5, <2>1, <2>3 DEF GoTick
  <2>. QED BY <2>2, <2>3
<1>. QED BY <1>1, <1>2, <1>3, <1>4, <1>5

-----------------------------------------------------------------------------
(* The boards of the other games.                                         *)

LEMMA GridFinite ==
    ASSUME NEW w \in Int, NEW h \in Int
    PROVE  IsFiniteSet(Grid(w, h)) /\ \A S \in SUBSET Grid(w, h) : IsFiniteSet(S)
<1>1. IsFiniteSet(0 .. w - 1) /\ IsFiniteSet(0 .. h - 1)
  <2>1. 0 \in Int /\ w - 1 \in Int /\ h - 1 \in Int
    OBVIOUS
  <2>. QED BY <2>1, FS_Interval
<1>2. IsFiniteSet(Grid(w, h))
  BY <1>1, FS_Product DEF Grid
<1>. QED BY <1>2, FS_Subset

\* The cell in the middle, where the games put their player, is on the board.
LEMMA Middle ==
    ASSUME NEW n \in Nat \ {0}
    PROVE  n \div 2 \in 0 .. n - 1
OBVIOUS

-----------------------------------------------------------------------------
(* A game of pacman.                                                       *)

PacmanTypes(g) ==
    /\ DOMAIN g = {"w", "h", "player", "beans", "score", "over"}
    /\ g.w \in Nat \ {0} /\ g.h \in Nat \ {0}
    /\ g.player \in Grid(g.w, g.h) /\ g.beans \subseteq Grid(g.w, g.h)

PacmanOk(g) ==
    /\ PacmanTypes(g)
    /\ g.score = 10 * (Beans(g.w, g.h) - Cardinality(g.beans))
    /\ g.player \notin g.beans
    /\ g.beans = {} /\ g.score > 0 => g.over

LEMMA BeansNumber ==
    ASSUME NEW w \in Nat \ {0}, NEW h \in Nat \ {0}
    PROVE  Beans(w, h) \in Int
<1>1. w * h \in Int /\ BEAN_COUNT \in Int
  BY ArcadeAssumption
<1>. DEFINE n == w * h - 1
<1>2. Beans(w, h) = CHOOSE x \in {BEAN_COUNT, n} : \A y \in {BEAN_COUNT, n} : x =< y
  BY DEF Beans, Min
<1>3. n \in Int
  BY <1>1
<1>. HIDE DEF n
<1>4. \E x \in {BEAN_COUNT, n} : \A y \in {BEAN_COUNT, n} : x =< y
  BY <1>1, <1>3
<1>. QED BY <1>1, <1>2, <1>3, <1>4

LEMMA NewPacmanOk ==
    ASSUME NEW w \in Nat \ {0}, NEW h \in Nat \ {0}, NEW g \in NewPacman(w, h)
    PROVE  PacmanOk(g)
<1>. DEFINE player == <<w \div 2, h \div 2>>
<1>1. player \in Grid(w, h)
  BY Middle DEF Grid
<1>. HIDE DEF player
<1>2. PICK b \in SUBSET (Grid(w, h) \ {player}) :
         /\ Cardinality(b) = Beans(w, h)
         /\ g = [w |-> w, h |-> h, player |-> player, beans |-> b, score |-> 0,
                 over |-> FALSE]
  BY DEF NewPacman, kSubset, player
<1>3. Beans(w, h) \in Int
  BY BeansNumber
<1>4. PacmanTypes(g)
  BY <1>1, <1>2 DEF PacmanTypes
<1>. QED BY <1>2, <1>3, <1>4 DEF PacmanOk

LEMMA PacmanTickOk ==
    ASSUME NEW g, PacmanOk(g), NEW action
    PROVE  PacmanOk(PacmanTick(g, action))
<1>. DEFINE p == applyDir(action, g.player)
            left == g.beans \ {p}
            n == [g EXCEPT !.player = p, !.beans = left, !.over = left = {},
                           !.score = IF p \in g.beans THEN @ + 10 ELSE @]
<1>1. CASE g.over
  BY <1>1 DEF PacmanTick
<1>2. CASE ~g.over /\ p \notin Grid(g.w, g.h)
  <2>. DEFINE m == [g EXCEPT !.over = TRUE]
  <2>1. PacmanTick(g, action) = m
    BY <1>2 DEF PacmanTick
  <2>2. /\ DOMAIN m = DOMAIN g /\ m.w = g.w /\ m.h = g.h /\ m.player = g.player
        /\ m.beans = g.beans /\ m.score = g.score /\ m.over
    BY DEF PacmanOk, PacmanTypes
  <2>. HIDE DEF m
  <2>3. PacmanOk(m)
    BY <2>2 DEF PacmanOk, PacmanTypes
  <2>. QED BY <2>1, <2>3
<1>3. CASE ~g.over /\ p \in Grid(g.w, g.h)
  <2>1. PacmanTick(g, action) = n
    BY <1>3 DEF PacmanTick
  <2>. HIDE DEF p
  <2>2. /\ DOMAIN n = DOMAIN g /\ n.w = g.w /\ n.h = g.h /\ n.player = p
        /\ n.beans = g.beans \ {p}
        /\ n.score = IF p \in g.beans THEN g.score + 10 ELSE g.score
        /\ n.over <=> n.beans = {}
    BY DEF PacmanOk, PacmanTypes
  <2>. HIDE DEF n
  <2>3. /\ IsFiniteSet(g.beans) /\ Cardinality(g.beans) \in Nat /\ Beans(g.w, g.h) \in Int
    <3>1. g.w \in Nat \ {0} /\ g.h \in Nat \ {0} /\ g.beans \in SUBSET Grid(g.w, g.h)
      BY DEF PacmanOk, PacmanTypes
    <3>2. IsFiniteSet(g.beans)
      BY <3>1, GridFinite
    <3>3. Beans(g.w, g.h) \in Int
      BY <3>1, BeansNumber
    <3>. QED BY <3>2, <3>3, FS_CardinalityType
  <2>4. Cardinality(n.beans) = IF p \in g.beans THEN Cardinality(g.beans) - 1
                                                ELSE Cardinality(g.beans)
    <3>1. Cardinality(g.beans \ {p}) = IF p \in g.beans THEN Cardinality(g.beans) - 1
                                                        ELSE Cardinality(g.beans)
      BY <2>3, FS_RemoveElement
    <3>. QED BY <2>2, <3>1
  <2>5. g.score = 10 * (Beans(g.w, g.h) - Cardinality(g.beans))
    BY DEF PacmanOk
  <2>6. n.score = 10 * (Beans(n.w, n.h) - Cardinality(n.beans))
    <3>1. CASE p \in g.beans
      BY <2>2, <2>3, <2>4, <2>5, <3>1
    <3>2. CASE p \notin g.beans
      BY <2>2, <2>3, <2>4, <2>5, <3>2
    <3>. QED BY <3>1, <3>2
  <2>7. PacmanTypes(n)
    BY <1>3, <2>2 DEF PacmanOk, PacmanTypes
  <2>8. PacmanOk(n)
    BY <2>2, <2>6, <2>7 DEF PacmanOk
  <2>. QED BY <2>1, <2>8
<1>. QED BY <1>1, <1>2, <1>3

-----------------------------------------------------------------------------
(* A game of snake.                                                        *)

\* The parts of a snake at large: no cell twice, each a step from the next.
Path(body) ==
    /\ \A i, j \in 1 .. Len(body) : body[i] = body[j] => i = j
    /\ \A i \in 1 .. Len(body) - 1 :
         \E d \in 0 .. 3 : applyDir(d, body[i + 1]) = body[i]

SnakeTypes(g) ==
    /\ DOMAIN g = {"w", "h", "body", "dir", "food", "score", "over"}
    /\ g.w \in Nat \ {0} /\ g.h \in Nat \ {0}
    /\ g.body \in Seq(Int \X Int) /\ g.score \in Nat

SnakeOk(g) ==
    /\ SnakeTypes(g)
    /\ ~g.over => Path(g.body) /\ g.body[1] \in Grid(g.w, g.h)
    /\ g.score = 10 * (Len(g.body) - 3) /\ Len(g.body) >= 3
    /\ g.food \in Grid(g.w, g.h) \ ToSet(g.body)

LEMMA DistinctParts ==
    ASSUME NEW S, NEW s \in Seq(S), \A i, j \in 1 .. Len(s) : s[i] = s[j] => i = j
    PROVE  Cardinality(ToSet(s)) = Len(s)
<1>. DEFINE f == [i \in 1 .. Len(s) |-> s[i]]
<1>1. f \in Bijection(1 .. Len(s), ToSet(s))
  BY DEF Bijection, Injection, IsInjective, Surjection, ToSet
<1>2. IsFiniteSet(1 .. Len(s)) /\ Cardinality(1 .. Len(s)) = Len(s)
  <2>1. 1 \in Int /\ Len(s) \in Int /\ Len(s) >= 0
    OBVIOUS
  <2>2. IsFiniteSet(1 .. Len(s))
        /\ Cardinality(1 .. Len(s)) = IF 1 > Len(s) THEN 0 ELSE Len(s) - 1 + 1
    BY <2>1, FS_Interval
  <2>. QED BY <2>1, <2>2
<1>3. ExistsBijection(1 .. Len(s), ToSet(s))
  BY <1>1 DEF ExistsBijection
<1>. QED BY <1>2, <1>3, FS_Bijection

LEMMA SnakeOkSound ==
    ASSUME NEW g, SnakeOk(g)
    PROVE  /\ ~g.over =>
                /\ Cardinality(ToSet(g.body)) = Len(g.body)
                /\ \A i \in 1 .. Len(g.body) - 1 :
                     \E d \in 0 .. 3 : applyDir(d, g.body[i + 1]) = g.body[i]
                /\ g.body[1] \in Grid(g.w, g.h)
           /\ Len(g.body) = 3 + g.score \div 10
           /\ g.food \in Grid(g.w, g.h) \ ToSet(g.body)
<1>1. g.body \in Seq(Int \X Int) /\ Len(g.body) \in Nat
  BY DEF SnakeOk, SnakeTypes
<1>2. ~g.over => Cardinality(ToSet(g.body)) = Len(g.body)
  BY <1>1, DistinctParts DEF SnakeOk, Path
<1>3. Len(g.body) = 3 + g.score \div 10
  <2>1. \A k \in Nat : (10 * k) \div 10 = k
    OBVIOUS
  <2>2. Len(g.body) - 3 \in Nat /\ g.score = 10 * (Len(g.body) - 3)
    BY <1>1 DEF SnakeOk
  <2>3. PICK k \in Nat : k = Len(g.body) - 3
    BY <2>2
  <2>4. g.score \div 10 = k
    BY <2>1, <2>2, <2>3
  <2>. QED BY <1>1, <2>3, <2>4
<1>. QED BY <1>2, <1>3 DEF SnakeOk, Path

LEMMA StepNumbers ==
    ASSUME NEW dir, NEW p \in Int \X Int
    PROVE  /\ applyDir(dir, p) \in Int \X Int
           /\ dir \notin 0 .. 3 => applyDir(dir, p) = p
<1>1. CASE dir \in 0 .. 3
  BY <1>1 DEF applyDir, Step
<1>2. CASE dir \notin 0 .. 3
  BY <1>2 DEF applyDir, Step
<1>. QED BY <1>1, <1>2

LEMMA NewSnakeOk ==
    ASSUME NEW w \in Nat \ {0}, NEW h \in Nat \ {0}, NEW g \in NewSnake(w, h)
    PROVE  SnakeOk(g)
<1>. DEFINE x == w \div 2
            y == h \div 2
            body == <<<<x, y>>, <<x - 1, y>>, <<x - 2, y>>>>
            n == [w |-> w, h |-> h, body |-> body, dir |-> 3, food |-> <<x, y>>,
                  score |-> 0, over |-> FALSE]
<1>1. x \in 0 .. w - 1 /\ y \in 0 .. h - 1
  BY Middle
<1>. HIDE DEF x, y
<1>2. body \in Seq(Int \X Int) /\ Len(body) = 3
  BY <1>1
<1>3. Path(body)
  <2>1. \A i, j \in 1 .. 3 : body[i] = body[j] => i = j
    BY <1>1
  <2>2. \A i \in 1 .. 2 : applyDir(3, body[i + 1]) = body[i]
    BY <1>1 DEF applyDir, Step
  <2>. QED BY <1>2, <2>1, <2>2 DEF Path
<1>4. body[1] \in Grid(w, h)
  BY <1>1 DEF Grid
<1>5. PICK f \in Grid(w, h) \ ToSet(body) : g = [n EXCEPT !.food = f]
  BY DEF NewSnake, generateFood, x, y
<1>. HIDE DEF body
<1>6. /\ DOMAIN g = {"w", "h", "body", "dir", "food", "score", "over"}
      /\ g.w = w /\ g.h = h /\ g.body = body /\ g.score = 0 /\ ~g.over /\ g.food = f
  BY <1>5
<1>7. SnakeTypes(g)
  BY <1>2, <1>6 DEF SnakeTypes
<1>8. g.score = 10 * (Len(g.body) - 3) /\ Len(g.body) >= 3
  <2>1. g.score = 0 /\ Len(g.body) = 3
    BY <1>2, <1>6
  <2>. QED BY <2>1
<1>. QED BY <1>3, <1>4, <1>5, <1>6, <1>7, <1>8 DEF SnakeOk

LEMMA SnakeTickOk ==
    ASSUME NEW g, SnakeOk(g), NEW action, NEW n \in SnakeTick(g, action)
    PROVE  SnakeOk(n)
<1>. DEFINE dir == IF isOppositeDir(g.dir, action) THEN g.dir ELSE action
            head == applyDir(dir, g.body[1])
            long == <<head>> \o g.body
            eats == head = g.food
            body == IF eats THEN long ELSE Front(long)
            next == [g EXCEPT !.dir = dir, !.body = body,
                              !.score = IF eats THEN @ + 10 ELSE @]
            crash == head \notin Grid(g.w, g.h) \/ head \in ToSet(Tail(next.body))
            L == Len(g.body)
<1>0. SnakeTick(g, action) =
        CASE g.over -> {g}
          [] ~g.over /\ eats -> {[m EXCEPT !.over = crash] : m \in generateFood(next)}
          [] OTHER -> {[next EXCEPT !.over = crash]}
  BY DEF SnakeTick
<1>. HIDE DEF dir
<1>1. CASE g.over
  BY <1>0, <1>1
<1>2. CASE ~g.over
  <2>1. /\ g.body \in Seq(Int \X Int) /\ L \in Nat /\ L >= 3 /\ g.score = 10 * (L - 3)
        /\ Path(g.body) /\ g.body[1] \in Int \X Int /\ g.score \in Nat
        /\ g.food \in Grid(g.w, g.h) \ ToSet(g.body)
        /\ g.w \in Nat \ {0} /\ g.h \in Nat \ {0}
    BY <1>2 DEF SnakeOk, SnakeTypes
  <2>2. head \in Int \X Int /\ (dir \notin 0 .. 3 => head = g.body[1])
    BY <2>1, StepNumbers
  <2>. HIDE DEF head
  <2>3. /\ long \in Seq(Int \X Int) /\ Len(long) = L + 1 /\ long[1] = head
        /\ \A i \in 1 .. L : long[i + 1] = g.body[i]
    BY <2>1, <2>2
  <2>. HIDE DEF long, L
  <2>. DEFINE K == IF eats THEN L + 1 ELSE L
  <2>4. /\ body \in Seq(Int \X Int) /\ Len(body) = K
        /\ \A i \in 1 .. K : body[i] = long[i]
    <3>1. CASE eats
      BY <2>1, <2>3, <3>1
    <3>2. CASE ~eats
      <4>1. body = SubSeq(long, 1, L)
        BY <2>1, <2>3, <3>2 DEF Front
      <4>2. \A i \in 1 .. L : long[i] \in Int \X Int
        <5>1. 1 .. L \subseteq 1 .. L + 1
          BY <2>1
        <5>2. \A i \in 1 .. Len(long) : long[i] \in Int \X Int
          BY <2>3
        <5>. QED BY <2>3, <5>1, <5>2
      <4>3. /\ SubSeq(long, 1, L) \in Seq(Int \X Int)
            /\ Len(SubSeq(long, 1, L)) = IF 1 <= L THEN L - 1 + 1 ELSE 0
            /\ \A i \in 1 .. L - 1 + 1 : SubSeq(long, 1, L)[i] = long[1 + i - 1]
        BY <2>1, <4>2, SubSeqProperties
      <4>. QED BY SMTT(20), <2>1, <3>2, <4>1, <4>3
    <3>. QED BY <3>1, <3>2
  <2>5. K \in Nat /\ K >= L /\ K <= L + 1 /\ K >= 3
    BY <2>1
  <2>6. body[1] = head /\ \A i \in 1 .. K - 1 : body[i + 1] = g.body[i]
    <3>1. ASSUME NEW i \in 1 .. K - 1 PROVE body[i + 1] = g.body[i]
      <4>1. i + 1 \in 1 .. K /\ i \in 1 .. L
        BY <2>1, <2>5
      <4>. QED BY <2>3, <2>4, <4>1
    <3>2. 1 \in 1 .. K
      BY <2>5
    <3>. QED BY <2>3, <2>4, <3>1, <3>2
  <2>7. /\ DOMAIN next = DOMAIN g /\ next.w = g.w /\ next.h = g.h /\ next.body = body
        /\ next.food = g.food /\ next.score = IF eats THEN g.score + 10 ELSE g.score
    BY DEF SnakeOk, SnakeTypes
  <2>8. crash <=> head \notin Grid(g.w, g.h) \/ head \in ToSet(Tail(body))
    BY <2>7
  <2>9. DOMAIN next = {"w", "h", "body", "dir", "food", "score", "over"}
    BY <2>7 DEF SnakeOk, SnakeTypes
  <2>. HIDE DEF next, crash, body, K, eats
  <2>10. /\ DOMAIN n = DOMAIN next /\ n.w = g.w /\ n.h = g.h /\ n.body = body
         /\ n.score = next.score /\ (n.over <=> crash)
         /\ n.food \in Grid(g.w, g.h) \ ToSet(body)
    <3>1. CASE eats
      <4>1. PICK f \in Grid(g.w, g.h) \ ToSet(body) :
               n = [[next EXCEPT !.food = f] EXCEPT !.over = crash]
        <5>1. PICK m \in generateFood(next) : n = [m EXCEPT !.over = crash]
          BY <1>0, <1>2, <3>1
        <5>2. PICK f \in Grid(next.w, next.h) \ ToSet(next.body) :
                m = [next EXCEPT !.food = f]
          BY DEF generateFood
        <5>. QED BY <2>7, <5>1, <5>2
      <4>. QED BY <2>7, <2>9, <4>1
    <3>2. CASE ~eats
      <4>1. n = [next EXCEPT !.over = crash]
        BY <1>0, <1>2, <3>2
      <4>2. n.food = g.food /\ head # g.food
        BY <2>7, <2>9, <3>2, <4>1 DEF eats
      <4>3. g.food \notin ToSet(body)
        <5>1. ASSUME NEW i \in 1 .. K, body[i] = g.food PROVE FALSE
          <6>1. i # 1 /\ i - 1 \in 1 .. K - 1 /\ (i - 1) + 1 = i /\ i - 1 \in 1 .. L
            BY SMTT(20), <2>1, <2>5, <2>6, <4>2, <5>1
          <6>2. body[i] = g.body[i - 1]
            BY <2>6, <6>1
          <6>3. i - 1 \in DOMAIN g.body
            BY <2>1, <6>1 DEF L
          <6>. QED BY <2>1, <5>1, <6>2, <6>3 DEF ToSet
        <5>. QED BY <2>4, <5>1 DEF ToSet
      <4>. QED BY <2>1, <2>7, <2>9, <4>1, <4>2, <4>3
    <3>. QED BY <3>1, <3>2
  <2>11. Len(body) >= 3 /\ n.score = 10 * (Len(body) - 3) /\ n.score \in Nat
    <3>1. CASE eats
      BY <2>1, <2>4, <2>7, <2>10, <3>1 DEF K
    <3>2. CASE ~eats
      BY <2>1, <2>4, <2>7, <2>10, <3>2 DEF K
    <3>. QED BY <3>1, <3>2
  <2>12. ASSUME ~crash PROVE Path(body) /\ body[1] \in Grid(g.w, g.h)
    <3>1. head \in Grid(g.w, g.h) /\ \A i \in 2 .. K : body[i] # head
      <4>1. ASSUME NEW i \in 2 .. K, body[i] = head PROVE FALSE
        <5>1. /\ Tail(body) \in Seq(Int \X Int) /\ Len(Tail(body)) = K - 1
              /\ \A k \in 1 .. Len(Tail(body)) : Tail(body)[k] = body[k + 1]
          BY <2>4, <2>5, HeadTailProperties
        <5>2. i - 1 \in DOMAIN Tail(body) /\ (i - 1) + 1 = i /\ i - 1 \in 1 .. K - 1
          BY <2>5, <5>1
        <5>3. Tail(body)[i - 1] = body[i]
          BY <5>1, <5>2
        <5>. QED BY <2>8, <2>12, <4>1, <5>2, <5>3 DEF ToSet
      <4>. QED BY <2>8, <2>12, <4>1
    <3>2. \A i, j \in 1 .. K : body[i] = body[j] => i = j
      <4>1. ASSUME NEW i \in 1 .. K, NEW j \in 1 .. K, body[i] = body[j], i # 1, j # 1
            PROVE  i = j
        <5>1. /\ i - 1 \in 1 .. K - 1 /\ (i - 1) + 1 = i /\ i - 1 \in 1 .. L
              /\ j - 1 \in 1 .. K - 1 /\ (j - 1) + 1 = j /\ j - 1 \in 1 .. L
          BY <2>1, <2>5, <4>1
        <5>2. g.body[i - 1] = g.body[j - 1]
          BY <2>6, <4>1, <5>1
        <5>3. i - 1 = j - 1
          BY <2>1, <5>1, <5>2 DEF Path, L
        <5>. QED BY <5>1, <5>3
      <4>2. \A i \in 1 .. K : i = 1 \/ i \in 2 .. K
        BY <2>5
      <4>. QED BY <2>6, <3>1, <4>1, <4>2
    <3>3. ASSUME NEW i \in 1 .. K - 1
          PROVE  \E d \in 0 .. 3 : applyDir(d, body[i + 1]) = body[i]
      <4>1. CASE i = 1
        <5>1. body[2] = g.body[1] /\ 2 \in 2 .. K /\ 1 + 1 = 2
          BY <2>5, <2>6
        <5>2. dir \in 0 .. 3
          BY <2>2, <3>1, <5>1
        <5>. QED BY <2>6, <4>1, <5>1, <5>2 DEF head
      <4>2. CASE i # 1
        <5>1. /\ i - 1 \in 1 .. K - 1 /\ (i - 1) + 1 = i /\ i - 1 \in 1 .. L - 1
          BY <2>1, <2>5, <4>2
        <5>2. body[i] = g.body[i - 1] /\ body[i + 1] = g.body[i]
          BY <2>6, <5>1
        <5>. QED BY <2>1, <5>1, <5>2 DEF Path, L
      <4>. QED BY <4>1, <4>2
    <3>. QED BY <2>4, <2>6, <3>1, <3>2, <3>3 DEF Path
  <2>13. SnakeTypes(n)
    BY <2>1, <2>4, <2>9, <2>10, <2>11 DEF SnakeTypes
  <2>. QED BY <2>10, <2>11, <2>12, <2>13 DEF SnakeOk
<1>. QED BY <1>1, <1>2

-----------------------------------------------------------------------------
(* A game of gomoku.                                                       *)

\* Numbers that reach down to 1 are counted by the greatest of them.
LEMMA CountedRun ==
    ASSUME NEW N \in Nat, NEW S \in SUBSET (1 .. N),
           \A n \in S : \A m \in 1 .. n : m \in S
    PROVE  Cardinality(S) \in 0 .. N /\ S = 1 .. Cardinality(S)
<1>. DEFINE T == {k \in 0 .. N : S \subseteq 1 .. k}
<1>1. T \in SUBSET Nat /\ T # {}
  OBVIOUS
<1>2. PICK k \in T : \A n \in T : k <= n
  <2>. HIDE DEF T
  <2>. QED BY <1>1, LeastNatural
<1>3. S = 1 .. k
  <2>1. CASE k = 0
    BY <2>1
  <2>2. CASE k # 0
    <3>1. k \in S
      <4>. SUFFICES ASSUME k \notin S PROVE FALSE
        OBVIOUS
      <4>1. k - 1 \in T
        BY <2>2
      <4>. QED BY <1>2, <4>1
    <3>. QED BY <3>1
  <2>. QED BY <2>1, <2>2
<1>4. Cardinality(1 .. k) = k
  <2>1. Cardinality(1 .. k) = IF 1 > k THEN 0 ELSE k - 1 + 1
    BY FS_Interval
  <2>. QED BY <2>1
<1>. QED BY <1>3, <1>4

At(c, n, d) == <<c[1] + n * d[1], c[2] + n * d[2]>>
Back(d)     == <<-d[1], -d[2]>>
Way         == {<<1, 0>>, <<0, 1>>, <<1, 1>>, <<1, -1>>}

LEMMA Move ==
    ASSUME NEW c \in Int \X Int, NEW d \in Way, NEW n \in Int
    PROVE  /\ At(c, n, d) \in Int \X Int
           /\ At(c, n, Back(d)) = At(c, -n, d)
           /\ At(c, 0, d) = c
<1>1. CASE d = <<1, 0>>
  BY <1>1 DEF At, Back
<1>2. CASE d = <<0, 1>>
  BY <1>2 DEF At, Back
<1>3. CASE d = <<1, 1>>
  BY <1>3 DEF At, Back
<1>4. CASE d = <<1, -1>>
  BY <1>4 DEF At, Back
<1>. QED BY <1>1, <1>2, <1>3, <1>4 DEF Way

LEMMA Moves ==
    ASSUME NEW c \in Int \X Int, NEW d \in Way, NEW n \in Int, NEW m \in Int
    PROVE  At(At(c, n, d), m, d) = At(c, n + m, d)
<1>1. CASE d = <<1, 0>>
  BY <1>1 DEF At
<1>2. CASE d = <<0, 1>>
  BY <1>2 DEF At
<1>3. CASE d = <<1, 1>>
  BY <1>3 DEF At
<1>4. CASE d = <<1, -1>>
  BY <1>4 DEF At
<1>. QED BY <1>1, <1>2, <1>3, <1>4 DEF Way

LEMMA Apart ==
    ASSUME NEW c \in Int \X Int, NEW d \in Way, NEW n \in Int, NEW m \in Int
    PROVE  At(c, n, d) = At(c, m, d) => n = m
<1>1. CASE d = <<1, 0>>
  BY <1>1 DEF At
<1>2. CASE d = <<0, 1>>
  BY <1>2 DEF At
<1>3. CASE d = <<1, 1>>
  BY <1>3 DEF At
<1>4. CASE d = <<1, -1>>
  BY <1>4 DEF At
<1>. QED BY <1>1, <1>2, <1>3, <1>4 DEF Way

\* countDir counts how far a colour reaches.
LEMMA Reaches ==
    ASSUME NEW cells, NEW c, NEW d, IsFiniteSet(DOMAIN cells)
    PROVE  /\ countDir(cells, c, d) \in Nat
           /\ \A n \in 1 .. countDir(cells, c, d) :
                At(c, n, d) \in DOMAIN cells /\ cells[At(c, n, d)] = cells[c]
           /\ \A k \in 0 .. Cardinality(DOMAIN cells) :
                (\A n \in 1 .. k :
                   At(c, n, d) \in DOMAIN cells /\ cells[At(c, n, d)] = cells[c])
                  => k <= countDir(cells, c, d)
<1>. DEFINE N == Cardinality(DOMAIN cells)
            S == {n \in 1 .. N : \A m \in 1 .. n : /\ At(c, m, d) \in DOMAIN cells
                                                   /\ cells[At(c, m, d)] = cells[c]}
<1>1. countDir(cells, c, d) = Cardinality(S)
  BY DEF countDir, At
<1>2. N \in Nat
  BY FS_CardinalityType
<1>. HIDE DEF N
<1>3. S \in SUBSET (1 .. N) /\ \A n \in S : \A m \in 1 .. n : m \in S
  BY <1>2
<1>4. Cardinality(S) \in 0 .. N /\ S = 1 .. Cardinality(S)
  <2>. HIDE DEF S
  <2>. QED BY <1>2, <1>3, CountedRun
<1>5. ASSUME NEW n \in 1 .. Cardinality(S)
      PROVE  At(c, n, d) \in DOMAIN cells /\ cells[At(c, n, d)] = cells[c]
  <2>1. n \in S /\ n \in 1 .. n
    BY <1>4
  <2>. QED BY <2>1
<1>6. ASSUME NEW k \in 0 .. N,
             \A n \in 1 .. k : At(c, n, d) \in DOMAIN cells /\ cells[At(c, n, d)] = cells[c]
      PROVE  k <= Cardinality(S)
  <2>1. CASE k = 0
    BY <1>4, <2>1
  <2>2. CASE k # 0
    <3>1. k \in S
      BY <1>2, <1>6, <2>2
    <3>2. k \in 1 .. Cardinality(S)
      BY <1>4, <3>1
    <3>. QED BY <1>4, <3>2
  <2>. QED BY <2>1, <2>2
<1>. HIDE DEF S
<1>. QED BY <1>1, <1>4, <1>5, <1>6 DEF N

Row(b, d) == {At(b, n, d) : n \in 0 .. InARow - 1}

LEMMA LinesAre ==
    ASSUME NEW size, NEW L
    PROVE  L \in Lines(size)
             <=> /\ L \subseteq Grid(size, size)
                 /\ \E b \in Grid(size, size), d \in Way : L = Row(b, d)
BY DEF Lines, Row, At, Way

\* checkWin finds a line of one colour through a stone exactly when there is one.
LEMMA WinIsLine ==
    ASSUME NEW size \in Nat \ {0}, NEW cells \in [Grid(size, size) -> Mark3],
           NEW c \in Grid(size, size)
    PROVE  checkWin(cells, c)
             <=> \E L \in Lines(size) : c \in L /\ \A b \in L : cells[b] = cells[c]
<1>. USE ArcadeAssumption
<1>0. /\ DOMAIN cells = Grid(size, size) /\ IsFiniteSet(DOMAIN cells)
      /\ c \in Int \X Int /\ \A b \in DOMAIN cells : b \in Int \X Int
  BY GridFinite DEF Grid
<1>1. checkWin(cells, c) <=> \E d \in Way :
        1 + countDir(cells, c, d) + countDir(cells, c, Back(d)) >= InARow
  BY DEF checkWin, Way, Back
<1>2. ASSUME NEW d \in Way,
             1 + countDir(cells, c, d) + countDir(cells, c, Back(d)) >= InARow
      PROVE  \E L \in Lines(size) : c \in L /\ \A b \in L : cells[b] = cells[c]
  <2>. DEFINE on == countDir(cells, c, d)
              back == countDir(cells, c, Back(d))
              j == IF back < InARow - 1 THEN back ELSE InARow - 1
              b == At(c, -j, d)
              Same(a) == a \in Grid(size, size) /\ cells[a] = cells[c]
  <2>1. /\ on \in Nat /\ \A n \in 1 .. on : Same(At(c, n, d))
        /\ back \in Nat /\ \A n \in 1 .. back : Same(At(c, n, Back(d)))
    BY <1>0, Reaches
  <2>2. 1 + on + back >= InARow
    BY <1>2
  <2>. HIDE DEF on, back
  <2>3. j \in 0 .. InARow - 1 /\ j <= back /\ InARow - 1 - j <= on
    BY <2>1, <2>2
  <2>. HIDE DEF j
  <2>4. ASSUME NEW n \in 0 .. InARow - 1 PROVE Same(At(b, n, d))
    <3>1. At(b, n, d) = At(c, n - j, d)
      <4>1. -j \in Int /\ n \in Int /\ -j + n = n - j
        BY <2>3
      <4>. QED BY <1>0, <4>1, Moves
    <3>2. CASE n < j
      <4>1. j - n \in 1 .. back /\ -(j - n) = n - j /\ j - n \in Int
        BY <2>1, <2>3, <3>2
      <4>2. At(c, j - n, Back(d)) = At(c, n - j, d)
        BY <1>0, <4>1, Move
      <4>. QED BY <2>1, <3>1, <4>1, <4>2
    <3>3. CASE n = j
      <4>1. At(c, n - j, d) = c
        BY <1>0, <2>3, <3>3, Move
      <4>. QED BY <3>1, <4>1
    <3>4. CASE n > j
      <4>1. n - j \in 1 .. on
        BY <2>1, <2>3, <3>4
      <4>. QED BY <2>1, <3>1, <4>1
    <3>. QED BY <2>3, <3>2, <3>3, <3>4
  <2>5. b \in Grid(size, size)
    <3>1. b \in Int \X Int
      <4>1. -j \in Int
        BY <2>3
      <4>. QED BY <1>0, <4>1, Move
    <3>2. At(b, 0, d) = b
      BY <3>1, Move
    <3>. QED BY <2>3, <2>4, <3>2
  <2>6. c \in Row(b, d)
    <3>1. At(b, j, d) = c
      <4>1. -j \in Int /\ j \in Int /\ -j + j = 0
        BY <2>3
      <4>2. At(b, j, d) = At(c, 0, d)
        BY <1>0, <4>1, Moves
      <4>. QED BY <1>0, <4>1, <4>2, Move
    <3>. QED BY <2>3, <3>1 DEF Row
  <2>. HIDE DEF b
  <2>7. Row(b, d) \in Lines(size)
    BY <2>4, <2>5, LinesAre DEF Row
  <2>. QED BY <2>4, <2>6, <2>7 DEF Row
<1>3. ASSUME NEW L \in Lines(size), c \in L, \A b \in L : cells[b] = cells[c]
      PROVE  checkWin(cells, c)
  <2>1. PICK b \in Grid(size, size), d \in Way : L = Row(b, d)
    BY LinesAre
  <2>2. L \subseteq Grid(size, size) /\ b \in Int \X Int
    BY <1>0, LinesAre
  <2>3. PICK j \in 0 .. InARow - 1 : c = At(b, j, d)
    BY <1>3, <2>1 DEF Row
  <2>. DEFINE N == Cardinality(DOMAIN cells)
              Same(a) == a \in DOMAIN cells /\ cells[a] = cells[c]
  <2>4. \A n \in 0 .. InARow - 1 : Same(At(b, n, d))
    BY <1>0, <1>3, <2>1, <2>2 DEF Row
  <2>5. InARow <= N /\ N \in Nat
    <3>. DEFINE f == [n \in 0 .. InARow - 1 |-> At(b, n, d)]
    <3>1. f \in [0 .. InARow - 1 -> DOMAIN cells]
      BY <2>4
    <3>2. \A n, m \in 0 .. InARow - 1 : f[n] = f[m] => n = m
      <4>. SUFFICES ASSUME NEW n \in 0 .. InARow - 1, NEW m \in 0 .. InARow - 1, f[n] = f[m]
                   PROVE  n = m
        OBVIOUS
      <4>1. n \in Int /\ m \in Int /\ At(b, n, d) = At(b, m, d)
        OBVIOUS
      <4>. QED BY <2>2, <4>1, Apart
    <3>. HIDE DEF f
    <3>3. f \in Injection(0 .. InARow - 1, DOMAIN cells)
      BY <3>1, <3>2 DEF Injection, IsInjective
    <3>4. Cardinality(0 .. InARow - 1) <= Cardinality(DOMAIN cells)
      BY <1>0, <3>3, FS_Injection
    <3>5. Cardinality(0 .. InARow - 1) = InARow
      <4>1. 0 \in Int /\ InARow - 1 \in Int /\ InARow - 1 >= 0
        OBVIOUS
      <4>2. Cardinality(0 .. InARow - 1) = IF 0 > InARow - 1 THEN 0 ELSE InARow - 1 - 0 + 1
        BY <4>1, FS_Interval
      <4>. QED BY <4>1, <4>2
    <3>. QED BY <1>0, <3>4, <3>5, FS_CardinalityType
  <2>6. countDir(cells, c, d) \in Nat /\ countDir(cells, c, d) >= InARow - 1 - j
    <3>1. InARow - 1 - j \in 0 .. N
      BY <2>5
    <3>2. ASSUME NEW n \in 1 .. InARow - 1 - j PROVE Same(At(c, n, d))
      <4>1. At(c, n, d) = At(b, j + n, d) /\ j + n \in 0 .. InARow - 1
        BY <2>2, <2>3, Moves
      <4>. QED BY <2>4, <4>1
    <3>. QED BY <1>0, <3>1, <3>2, Reaches
  <2>7. countDir(cells, c, Back(d)) \in Nat /\ countDir(cells, c, Back(d)) >= j
    <3>1. j \in 0 .. N
      BY <2>5
    <3>2. ASSUME NEW n \in 1 .. j PROVE Same(At(c, n, Back(d)))
      <4>1. n \in Int /\ -n \in Int /\ j \in Int /\ j + (-n) = j - n
        OBVIOUS
      <4>2. At(c, n, Back(d)) = At(c, -n, d)
        BY <1>0, <4>1, Move
      <4>3. At(c, -n, d) = At(b, j - n, d)
        BY <2>2, <2>3, <4>1, Moves
      <4>4. j - n \in 0 .. InARow - 1
        OBVIOUS
      <4>. QED BY <2>4, <4>2, <4>3, <4>4
    <3>. QED BY <1>0, <3>1, <3>2, Reaches
  <2>8. 1 + countDir(cells, c, d) + countDir(cells, c, Back(d)) >= InARow
    BY <2>6, <2>7
  <2>. QED BY <1>1, <2>8
<1>. QED BY <1>1, <1>2, <1>3

Holds(size, cells, s) == \E L \in Lines(size) : \A c \in L : cells[c] = s
Those(cells, s)       == {c \in DOMAIN cells : cells[c] = s}

GomokuTypes(g) ==
    /\ DOMAIN g = {"size", "cells", "cur", "over", "winner"}
    /\ g.size \in Nat \ {0} /\ g.cells \in [Grid(g.size, g.size) -> Mark3]
    /\ g.cur \in {"B", "W"} /\ g.winner \in Mark3

GomokuOk(g) ==
    /\ GomokuTypes(g)
    /\ \A s \in {"B", "W"} : Holds(g.size, g.cells, s) <=> g.winner = s
    /\ g.over <=> g.winner # "." \/ Those(g.cells, ".") = {}
    /\ Cardinality(Those(g.cells, "B")) - Cardinality(Those(g.cells, "W")) =
         IF g.over THEN (IF g.cur = "B" THEN 1 ELSE 0)
         ELSE (IF g.cur = "B" THEN 0 ELSE 1)

LEMMA NewGomokuOk ==
    ASSUME NEW size \in Nat \ {0}
    PROVE  GomokuOk(NewGomoku(size))
<1>. DEFINE g == NewGomoku(size)
<1>1. /\ DOMAIN g = {"size", "cells", "cur", "over", "winner"} /\ g.size = size
      /\ g.cells = [c \in Grid(size, size) |-> "."] /\ g.cur = "B" /\ ~g.over
      /\ g.winner = "."
  BY DEF NewGomoku
<1>. HIDE DEF g
<1>2. ASSUME NEW s \in {"B", "W"}, Holds(size, g.cells, s) PROVE FALSE
  <2>1. PICK L \in Lines(size) : \A c \in L : g.cells[c] = s
    BY <1>2 DEF Holds
  <2>2. L \subseteq Grid(size, size) /\ \E b, d : L = Row(b, d)
    BY LinesAre
  <2>3. 0 \in 0 .. InARow - 1
    BY ArcadeAssumption
  <2>4. L # {}
    BY <2>2, <2>3 DEF Row
  <2>. QED BY <1>1, <2>1, <2>2, <2>4
<1>3. Those(g.cells, "B") = {} /\ Those(g.cells, "W") = {}
  BY <1>1 DEF Those
<1>4. <<0, 0>> \in Those(g.cells, ".")
  BY <1>1 DEF Those, Grid
<1>5. GomokuTypes(g)
  BY <1>1 DEF GomokuTypes, Mark3
<1>. QED BY <1>1, <1>2, <1>3, <1>4, <1>5, FS_EmptySet DEF GomokuOk, g

\* A stone is put on an empty cell of a board without a line.
Putting(size, cells, c, s, put) ==
    /\ size \in Nat \ {0} /\ cells \in [Grid(size, size) -> Mark3]
    /\ c \in Grid(size, size) /\ cells[c] = "." /\ s \in {"B", "W"}
    /\ \A r \in {"B", "W"} : ~Holds(size, cells, r)
    /\ put = [cells EXCEPT ![c] = s]

LEMMA StonePut ==
    ASSUME NEW size, NEW cells, NEW c, NEW s, NEW put, Putting(size, cells, c, s, put)
    PROVE  /\ put \in [Grid(size, size) -> Mark3]
           /\ \A r \in {"B", "W"} : Holds(size, put, r) <=> r = s /\ checkWin(put, c)
           /\ \A r \in {"B", "W"} :
                /\ Cardinality(Those(cells, r)) \in Nat
                /\ Cardinality(Those(put, r))
                     = Cardinality(Those(cells, r)) + (IF r = s THEN 1 ELSE 0)
<1>. USE DEF Putting
<1>1. /\ put \in [Grid(size, size) -> Mark3] /\ put[c] = s
      /\ \A b \in Grid(size, size) : b # c => put[b] = cells[b]
  BY DEF Mark3
<1>. HIDE DEF Putting
<1>0. /\ size \in Nat \ {0} /\ size \in Int /\ cells \in [Grid(size, size) -> Mark3]
      /\ c \in Grid(size, size) /\ cells[c] = "." /\ s \in {"B", "W"}
      /\ \A r \in {"B", "W"} : ~Holds(size, cells, r)
  BY DEF Putting
<1>2. ASSUME NEW r \in {"B", "W"}, Holds(size, put, r) PROVE r = s /\ checkWin(put, c)
  <2>1. PICK L \in Lines(size) : \A b \in L : put[b] = r
    BY <1>2 DEF Holds
  <2>2. L \subseteq Grid(size, size)
    BY LinesAre
  <2>3. c \in L
    <3>. SUFFICES ASSUME c \notin L PROVE FALSE
      OBVIOUS
    <3>1. \A b \in L : cells[b] = r
      BY <1>0, <1>1, <2>1, <2>2
    <3>. QED BY <1>0, <3>1 DEF Holds
  <2>. QED BY <1>0, <1>1, <2>1, <2>3, WinIsLine
<1>3. ASSUME checkWin(put, c) PROVE Holds(size, put, s)
  <2>1. PICK L \in Lines(size) : c \in L /\ \A b \in L : put[b] = put[c]
    BY <1>0, <1>1, <1>3, WinIsLine
  <2>. QED BY <1>0, <1>1, <2>1 DEF Holds
<1>4. ASSUME NEW r \in {"B", "W"}
      PROVE  /\ Cardinality(Those(cells, r)) \in Nat
             /\ Cardinality(Those(put, r))
                  = Cardinality(Those(cells, r)) + (IF r = s THEN 1 ELSE 0)
  <2>1. IsFiniteSet(Those(cells, r)) /\ c \notin Those(cells, r)
    <3>1. IsFiniteSet(Grid(size, size)) /\ DOMAIN cells = Grid(size, size)
      BY <1>0, GridFinite
    <3>2. Those(cells, r) \in SUBSET Grid(size, size)
      BY <3>1 DEF Those
    <3>. QED BY <3>1, <3>2, <1>0, FS_Subset DEF Those
  <2>2. Those(put, r) = IF r = s THEN Those(cells, r) \cup {c} ELSE Those(cells, r)
    BY <1>0, <1>1 DEF Those
  <2>3. Cardinality(Those(cells, r) \cup {c}) = Cardinality(Those(cells, r)) + 1
    BY <2>1, FS_AddElement
  <2>4. Cardinality(Those(cells, r)) \in Nat
    BY <2>1, FS_CardinalityType
  <2>. QED BY <2>2, <2>3, <2>4
<1>. QED BY <1>1, <1>2, <1>3, <1>4

LEMMA GomokuTickOk ==
    ASSUME NEW g, GomokuOk(g), NEW pos
    PROVE  GomokuOk(GomokuTick(g, pos))
<1>. DEFINE c == <<pos \div g.size, pos % g.size>>
            put == [g.cells EXCEPT ![c] = g.cur]
            win == [g EXCEPT !.cells = put, !.over = TRUE, !.winner = g.cur]
            go == [g EXCEPT !.cells = put, !.cur = IF @ = "B" THEN "W" ELSE "B"]
            full == [g EXCEPT !.cells = put, !.over = TRUE]
<1>1. GomokuTick(g, pos) =
        CASE g.over \/ pos < 0 \/ c \notin DOMAIN g.cells -> g
          [] OTHER ->
               CASE g.cells[c] # "." -> g
                 [] g.cells[c] = "." /\ checkWin(put, c) -> win
                 [] OTHER -> IF \E d \in DOMAIN put : put[d] = "." THEN go ELSE full
  BY DEF GomokuTick
<1>. HIDE DEF c
<1>2. CASE g.over \/ pos < 0 \/ c \notin DOMAIN g.cells \/ g.cells[c] # "."
  BY <1>1, <1>2
<1>3. CASE ~g.over /\ ~(pos < 0) /\ c \in DOMAIN g.cells /\ g.cells[c] = "."
  <2>1. /\ g.size \in Nat \ {0} /\ g.cells \in [Grid(g.size, g.size) -> Mark3]
        /\ g.cur \in {"B", "W"} /\ g.winner = "." /\ Those(g.cells, ".") # {}
        /\ \A r \in {"B", "W"} : ~Holds(g.size, g.cells, r)
        /\ Cardinality(Those(g.cells, "B")) - Cardinality(Those(g.cells, "W"))
             = IF g.cur = "B" THEN 0 ELSE 1
        /\ DOMAIN g = {"size", "cells", "cur", "over", "winner"}
        /\ c \in Grid(g.size, g.size) /\ g.cells[c] = "."
    BY <1>3 DEF GomokuOk, GomokuTypes
  <2>2. /\ put \in [Grid(g.size, g.size) -> Mark3]
        /\ \A r \in {"B", "W"} : Holds(g.size, put, r) <=> r = g.cur /\ checkWin(put, c)
        /\ \A r \in {"B", "W"} :
             /\ Cardinality(Those(g.cells, r)) \in Nat
             /\ Cardinality(Those(put, r))
                  = Cardinality(Those(g.cells, r)) + (IF r = g.cur THEN 1 ELSE 0)
    <3>1. Putting(g.size, g.cells, c, g.cur, put)
      BY <2>1 DEF Putting
    <3>. HIDE DEF put
    <3>. QED BY <3>1, StonePut
  <2>. HIDE DEF put
  <2>3. Cardinality(Those(put, "B")) - Cardinality(Those(put, "W"))
          = IF g.cur = "B" THEN 1 ELSE 0
    <3>1. CASE g.cur = "B"
      BY <2>1, <2>2, <3>1
    <3>2. CASE g.cur = "W"
      BY <2>1, <2>2, <3>2
    <3>. QED BY <2>1, <3>1, <3>2
  <2>4. (\E d \in DOMAIN put : put[d] = ".") <=> Those(put, ".") # {}
    BY DEF Those
  <2>5. CASE checkWin(put, c)
    <3>1. GomokuTick(g, pos) = win
      BY <1>1, <1>3, <2>5
    <3>2. /\ DOMAIN win = {"size", "cells", "cur", "over", "winner"} /\ win.size = g.size
          /\ win.cells = put /\ win.cur = g.cur /\ win.over /\ win.winner = g.cur
      BY <2>1
    <3>. HIDE DEF win
    <3>3. GomokuTypes(win)
      BY <2>1, <2>2, <3>2 DEF GomokuTypes, Mark3
    <3>4. GomokuOk(win)
      BY <2>1, <2>2, <2>3, <2>5, <3>2, <3>3 DEF GomokuOk
    <3>. QED BY <3>1, <3>4
  <2>6. CASE ~checkWin(put, c) /\ Those(put, ".") # {}
    <3>1. GomokuTick(g, pos) = go
      BY <1>1, <1>3, <2>4, <2>6
    <3>2. /\ DOMAIN go = {"size", "cells", "cur", "over", "winner"} /\ go.size = g.size
          /\ go.cells = put /\ go.cur = (IF g.cur = "B" THEN "W" ELSE "B")
          /\ go.over = g.over /\ go.winner = g.winner
      BY <2>1
    <3>. HIDE DEF go
    <3>3. GomokuTypes(go)
      BY <2>1, <2>2, <3>2 DEF GomokuTypes, Mark3
    <3>4. GomokuOk(go)
      BY <1>3, <2>1, <2>2, <2>3, <2>6, <3>2, <3>3 DEF GomokuOk
    <3>. QED BY <3>1, <3>4
  <2>7. CASE ~checkWin(put, c) /\ Those(put, ".") = {}
    <3>1. GomokuTick(g, pos) = full
      BY <1>1, <1>3, <2>4, <2>7
    <3>2. /\ DOMAIN full = {"size", "cells", "cur", "over", "winner"} /\ full.size = g.size
          /\ full.cells = put /\ full.cur = g.cur /\ full.over /\ full.winner = g.winner
      BY <2>1
    <3>. HIDE DEF full
    <3>3. GomokuTypes(full)
      BY <2>1, <2>2, <3>2 DEF GomokuTypes, Mark3
    <3>4. GomokuOk(full)
      BY <2>1, <2>2, <2>3, <2>7, <3>2, <3>3 DEF GomokuOk
    <3>. QED BY <3>1, <3>4
  <2>. QED BY <2>5, <2>6, <2>7
<1>. QED BY <1>2, <1>3

-----------------------------------------------------------------------------
(* The app around the games.                                               *)

GameInv ==
    game # None =>
      /\ kind = "go"     => GoSound(game)
      /\ kind = "gomoku" => GomokuOk(game)
      /\ kind = "snake"  => SnakeOk(game)
      /\ kind = "pacman" => PacmanOk(game)

LEMMA GameStep == GameInv /\ [Next]_vars => GameInv'
<1>. SUFFICES ASSUME GameInv, [Next]_vars PROVE GameInv'
  OBVIOUS
<1>1. CASE NewGame
  <2>1. PICK w \in Nat \ {0}, h \in Nat \ {0} : Become(Construct(w, h)) /\ UNCHANGED kind
    BY <1>1, GameAssumption DEF NewGame
  <2>2. game = None
    BY <1>1 DEF NewGame
  <2>. SUFFICES ASSUME game' # None PROVE GameInv'
    BY DEF GameInv
  <2>3. game' \in Construct(w, h) /\ kind' = kind
    BY <2>1, <2>2 DEF Become
  <2>4. CASE kind = "go"
    BY <2>3, <2>4, NewGoSound DEF Construct, GameInv
  <2>5. CASE kind = "gomoku"
    BY <2>3, <2>5, NewGomokuOk DEF Construct, GameInv
  <2>6. CASE kind = "snake"
    BY <2>3, <2>6, NewSnakeOk DEF Construct, GameInv
  <2>7. CASE kind = "pacman"
    BY <2>3, <2>7, NewPacmanOk DEF Construct, GameInv
  <2>. QED BY <2>3, <2>4, <2>5, <2>6, <2>7 DEF GameInv
<1>2. CASE Input
  <2>1. game # None /\ kind' = kind
    BY <1>2 DEF Input
  <2>2. PICK v \in Value : Become(Tick(v))
    BY <1>2 DEF Input
  <2>3. CASE game' = game
    BY <2>1, <2>3 DEF GameInv
  <2>4. CASE game' \in Tick(v)
    <3>1. CASE kind = "go"
      BY <2>1, <2>4, <3>1, GoTickSound DEF Tick, GameInv
    <3>2. CASE kind = "gomoku"
      BY <2>1, <2>4, <3>2, GomokuTickOk DEF Tick, GameInv
    <3>3. CASE kind = "snake"
      BY <2>1, <2>4, <3>3, SnakeTickOk DEF Tick, GameInv
    <3>4. CASE kind = "pacman"
      BY <2>1, <2>4, <3>4, PacmanTickOk DEF Tick, GameInv
    <3>. QED BY <2>1, <3>1, <3>2, <3>3, <3>4 DEF GameInv
  <2>. QED BY <2>2, <2>3, <2>4 DEF Become
<1>3. CASE Pause \/ Resume
  BY <1>3 DEF Pause, Resume, GameInv
<1>4. CASE EndGame
  BY <1>4 DEF EndGame, GameInv
<1>5. CASE UNCHANGED vars
  BY <1>5 DEF vars, GameInv
<1>. QED BY <1>1, <1>2, <1>3, <1>4, <1>5 DEF Next

LEMMA GameHolds == AppSpec => []GameInv
<1>1. AppInit => GameInv
  BY DEF AppInit, Init, NoGame, GameInv
<1>2. GameInv /\ [AppNext]_appVars => GameInv'
  <2>1. [AppNext]_appVars => [Next]_vars
    BY DEF AppNext, appVars
  <2>. QED BY <2>1, GameStep
<1>. QED BY <1>1, <1>2, PTL DEF AppSpec

\* No group on a go board lacks a liberty and every stone played is on the board
\* or counted as captured (Board::place, GoGame::tick), whatever is played, passed
\* and marked, on a board of any size, up to the removal of dead stones.
THEOREM GroupsBreatheHold == AppSpec => []GroupsBreathe
<1>1. GameInv => GroupsBreathe
  <2>. SUFFICES ASSUME GameInv, InGame("go"), game.over => game.marking \/ game.passes < 2
                PROVE  /\ \A c \in Stone(game.grid) : Liberties(game.grid, c) # {}
                       /\ Cardinality(game.history)
                            = Cardinality(Stone(game.grid)) + game.caps["B"] + game.caps["W"]
                       /\ game.dead \subseteq Stone(game.grid)
    BY DEF GroupsBreathe
  <2>. QED BY DEF InGame, GameInv, GoSound, Breathing
<1>. QED BY <1>1, GameHolds, PTL

\* isLegal and place, which judge a move each on a copy of the board of its own
\* (board.cpp), agree on every move of every game.
THEOREM LegalityHolds == AppSpec => []LegalityAgrees
<1>1. GameInv => LegalityAgrees
  <2>. SUFFICES ASSUME GameInv, InGame("go"), NEW c \in Cell, NEW s \in {"B", "W"}
                PROVE  isLegal(game.grid, c, s) <=> Place(game.grid, c, s).ok
    BY DEF LegalityAgrees
  <2>1. game.grid \in [Cell -> Mark3]
    BY DEF InGame, GameInv, GoSound, GoTypes
  <2>. QED BY <2>1, LegalIffPlaced
<1>. QED BY <1>1, GameHolds, PTL

\* The games keep their books, on boards of any size: gomoku's winner has a line
\* and nobody else has (checkWin looks only at the stone put last), a snake at
\* large is a path as long as its score says, with its food off it, and every bean
\* of pacman is on the board or in the score.
THEOREM GamesHold == AppSpec => []GameSound
<1>1. GameInv => GameSound
  <2>. SUFFICES ASSUME GameInv PROVE GameSound
    OBVIOUS
  <2>1. ASSUME InGame("gomoku") PROVE GomokuSound
    <3>1. GomokuOk(game)
      BY <2>1 DEF InGame, GameInv
    <3>2. \A s \in {"B", "W"} :
            (\E L \in Lines(game.size) : \A c \in L : game.cells[c] = s) <=> game.winner = s
      BY <3>1 DEF GomokuOk, Holds
    <3>3. Those(game.cells, ".") = {} <=> Cardinality(Those(game.cells, ".")) = 0
      <4>1. /\ game.size \in Nat \ {0} /\ game.size \in Int
            /\ DOMAIN game.cells = Grid(game.size, game.size)
        BY <3>1 DEF GomokuOk, GomokuTypes
      <4>2. Those(game.cells, ".") \in SUBSET Grid(game.size, game.size)
        BY <4>1 DEF Those
      <4>3. IsFiniteSet(Those(game.cells, "."))
        BY <4>1, <4>2, GridFinite
      <4>. QED BY <4>3, FS_EmptySet
    <3>. QED BY <3>1, <3>2, <3>3 DEF GomokuSound, GomokuOk, Those
  <2>2. ASSUME InGame("snake") PROVE SnakeSound
    BY <2>2, SnakeOkSound DEF InGame, GameInv, SnakeSound
  <2>3. ASSUME InGame("pacman") PROVE PacmanSound
    BY <2>3 DEF InGame, GameInv, PacmanSound, PacmanOk, PacmanTypes
  <2>. QED BY <2>1, <2>2, <2>3 DEF GameSound
<1>. QED BY <1>1, GameHolds, PTL

-----------------------------------------------------------------------------
(* A terminal.                                                             *)

TerminalType ==
    /\ execs \in 0 .. MaxExec
    /\ starting \in {"no", "input", "process"}
    /\ pid \in 0 .. MaxExec /\ fd \in 0 .. MaxExec
    /\ child \in [Command -> {"none", "running", "dead", "reaped"}]
    /\ reads \in Nat /\ ready \in Nat

\* Between start's close and its fork the session has nothing.
NothingWhileStarting ==
    starting # "no" => execs # 0 /\ pid = 0 /\ fd = 0 /\ stream = 0

TerminalInv ==
    /\ TerminalType
    /\ NothingWhileStarting
    /\ ChildrenTracked
    /\ DescriptorsTracked

-----------------------------------------------------------------------------
\* Closing ends the one child that may run, and closes the one descriptor.
LEMMA CloseClears ==
    ASSUME TerminalInv, Close
    PROVE  /\ child' \in [Command -> {"none", "running", "dead", "reaped"}]
           /\ \A n \in Command : child'[n] # "running"
           /\ pid' = 0 /\ fd' = 0 /\ stream' = 0 /\ reads' = 0 /\ ready' = ready
           /\ open' = {}
<1>. USE TerminalAssumption
<1>1. open' = {}
  BY DEF Close, TerminalInv, DescriptorsTracked
<1>2. /\ child' \in [Command -> {"none", "running", "dead", "reaped"}]
      /\ \A n \in Command : child'[n] # "running"
  <2>1. CASE pid = 0
    BY <2>1 DEF Close, Kill, TerminalInv, TerminalType, ChildrenTracked, Command
  <2>2. CASE pid # 0
    <3>1. PICK s \in {"reaped", "dead"} : child' = [child EXCEPT ![pid] = s]
      BY <2>2 DEF Close, Kill
    <3>. QED
      BY <3>1, <2>2 DEF TerminalInv, TerminalType, ChildrenTracked, Command
  <2>. QED BY <2>1, <2>2
<1>. QED BY <1>1, <1>2 DEF Close

LEMMA TerminalInitInv == TerminalInit => TerminalInv
BY TerminalAssumption
   DEF TerminalInit, TerminalInv, TerminalType, NothingWhileStarting, ChildrenTracked,
       DescriptorsTracked, Command

LEMMA TerminalStep == TerminalInv /\ [TerminalNext]_terminalVars => TerminalInv'
<1>. SUFFICES ASSUME TerminalInv, [TerminalNext]_terminalVars PROVE TerminalInv'
  OBVIOUS
<1>. USE TerminalAssumption
<1>1. CASE Exec
  BY <1>1, CloseClears
     DEF Exec, TerminalInv, TerminalType, NothingWhileStarting, ChildrenTracked,
         DescriptorsTracked, Command
<1>2. CASE Fork
  <2>. USE <1>2 DEF Fork
  <2>1. execs \in Command /\ \A n \in Command : child[n] # "running"
    BY DEF TerminalInv, TerminalType, NothingWhileStarting, ChildrenTracked, Command
  <2>2. CASE UNCHANGED <<child, pid, fd, open, stream, reads>>
    BY <2>2 DEF TerminalInv, TerminalType, NothingWhileStarting, ChildrenTracked,
                DescriptorsTracked
  <2>3. CASE /\ child' = [child EXCEPT ![execs] = "running"]
             /\ pid' = execs /\ fd' = execs /\ open' = open \cup {execs}
             /\ stream' = IF starting = "input" THEN execs ELSE 0
             /\ reads' = IF starting = "input" THEN 1 ELSE 0
    <3>1. TerminalType' /\ NothingWhileStarting' /\ ChildrenTracked'
      BY <2>1, <2>3 DEF TerminalInv, TerminalType, NothingWhileStarting, ChildrenTracked,
                        Command
    <3>2. DescriptorsTracked'
      BY <2>1, <2>3 DEF TerminalInv, TerminalType, NothingWhileStarting,
                        DescriptorsTracked, Command
    <3>. QED BY <3>1, <3>2 DEF TerminalInv
  <2>. QED BY <2>2, <2>3
<1>3. CASE Destroy
  BY <1>3, CloseClears
     DEF Destroy, TerminalInv, TerminalType, NothingWhileStarting, ChildrenTracked,
         DescriptorsTracked, Command
<1>4. CASE IsDone
  BY <1>4 DEF IsDone, Free, TerminalInv, TerminalType, NothingWhileStarting,
              ChildrenTracked, DescriptorsTracked, Command
<1>5. ASSUME NEW n \in Command, Exit(n) PROVE TerminalInv'
  BY <1>5 DEF Exit, TerminalInv, TerminalType, NothingWhileStarting, ChildrenTracked,
              DescriptorsTracked, Command
<1>6. CASE ReadDone
  BY <1>6 DEF ReadDone, TerminalInv, TerminalType, NothingWhileStarting, ChildrenTracked,
              DescriptorsTracked
<1>7. CASE PushOutput
  BY <1>7 DEF PushOutput, TerminalInv, TerminalType, NothingWhileStarting,
              ChildrenTracked, DescriptorsTracked
<1>8. CASE ReadFails
  BY <1>8 DEF ReadFails, TerminalInv, TerminalType, NothingWhileStarting,
              ChildrenTracked, DescriptorsTracked
<1>9. CASE UNCHANGED terminalVars
  BY <1>9 DEF terminalVars, TerminalInv, TerminalType, NothingWhileStarting,
              ChildrenTracked, DescriptorsTracked
<1>. QED
  BY <1>1, <1>2, <1>3, <1>4, <1>5, <1>6, <1>7, <1>8, <1>9 DEF TerminalNext

LEMMA AppStep == TerminalInv /\ [AppNext]_appVars => TerminalInv'
<1>. SUFFICES ASSUME TerminalInv, [AppNext]_appVars PROVE [TerminalNext]_terminalVars
  BY TerminalStep
<1>. QED BY DEF AppNext, appVars

LEMMA TerminalHolds == AppSpec => []TerminalInv
<1>1. AppInit => TerminalInv
  BY TerminalInitInv DEF AppInit
<1>. QED BY <1>1, AppStep, PTL DEF AppSpec

-----------------------------------------------------------------------------
\* A running shell is the one the app knows of, and the pid it keeps is never
\* that of a child already reaped: close and isAlive (pty_session.cpp) agree in
\* every order of restarts, exits and polls.
THEOREM ChildrenHold == AppSpec => []ChildrenTracked
<1>1. TerminalInv => ChildrenTracked
  BY DEF TerminalInv
<1>. QED BY <1>1, TerminalHolds, PTL

\* The descriptor the app knows of is the only one it has open, and a shell that
\* runs is read (startReadLoop), however often shells were started and closed.
THEOREM DescriptorsHold == AppSpec => []DescriptorsTracked
<1>1. TerminalInv => DescriptorsTracked
  BY DEF TerminalInv
<1>. QED BY <1>1, TerminalHolds, PTL
=============================================================================
