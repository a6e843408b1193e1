---- MODULE RulesProofs ----
(***************************************************************************)
(* Proofs about the rules of chess of module Rules, from any opening, for  *)
(* either colour and games of any length: that the code's tests of lines,  *)
(* attacks and checks say what the pieces command; that its flags say what *)
(* the history does; that every legal move leads to a sound position; and  *)
(* what follows for the moves it accepts, the results it records and the   *)
(* names it gives.                                                         *)
(***************************************************************************)
EXTENDS Rules, FiniteSetTheorems, TLAPS

-----------------------------------------------------------------------------
(* Squares, pieces and lines *)

Board == [Square -> Piece \cup {Empty}]

\* The coordinates of a square.
LEMMA Squares ==
  ASSUME NEW s \in Square
  PROVE  s = <<s[1], s[2]>> /\ s[1] \in 0 .. 7 /\ s[2] \in 0 .. 7
BY DEF Square

\* What stands on a square: nothing, or a colour and a kind.
LEMMA Pieces ==
  ASSUME NEW x \in Piece \cup {Empty}
  PROVE  /\ x = Empty <=> ColorOf(x) = "UNASSIGNED"
         /\ x = Empty \/ x \in Piece
         /\ x \in Piece <=> ColorOf(x) \in Color
         /\ x \in Piece => x = <<ColorOf(x), KindOf(x)>> /\ KindOf(x) \in Kind
BY DEF Piece, Color, Kind, Empty, ColorOf, KindOf

\* t is n squares from s in direction d, and the squares between are empty.
Along(s, t, d, n) ==
  n \in 1 .. 7 /\ t = <<s[1] + n * d[1], s[2] + n * d[2]>>

Clear(b, s, d, n) ==
  \A i \in 1 .. n - 1 : b[<<s[1] + i * d[1], s[2] + i * d[2]>>] = Empty

\* What a piece sees in a direction, in coordinates.
LEMMA SeesIs ==
  ASSUME NEW b, NEW s \in Square, NEW t \in Square, NEW d
  PROVE  t \in Sees(b, s, d) <=> \E n \in 1 .. 7 : Along(s, t, d, n) /\ Clear(b, s, d, n)
BY DEF Sees, Along, Clear

Directions == Lines \cup Diagonals

\* The steps between two squares of a line.
LEMMA AlongSteps ==
  ASSUME NEW s \in Square, NEW t \in Square, NEW d \in Directions, NEW n, Along(s, t, d, n)
  PROVE  /\ FileStep(s, t) = n * d[1] /\ RankStep(s, t) = n * d[2]
         /\ Sign(FileStep(s, t)) = d[1] /\ Sign(RankStep(s, t)) = d[2]
         /\ (IF Abs(FileStep(s, t)) > Abs(RankStep(s, t)) THEN Abs(FileStep(s, t))
             ELSE Abs(RankStep(s, t))) = n
         /\ d \in Lines => FileStep(s, t) = 0 \/ RankStep(s, t) = 0
         /\ d \in Diagonals => Abs(FileStep(s, t)) = Abs(RankStep(s, t))
         /\ d \in Lines => Abs(FileStep(s, t)) # Abs(RankStep(s, t))
         /\ d \in Diagonals => FileStep(s, t) # 0 /\ RankStep(s, t) # 0
         /\ s # t
<1>0. /\ d \in Lines => \/ d[1] = 0 /\ d[2] \in {-1, 1}
                        \/ d[1] \in {-1, 1} /\ d[2] = 0
      /\ d \in Diagonals => d[1] \in {-1, 1} /\ d[2] \in {-1, 1}
      /\ d \in Lines \/ d \in Diagonals
  BY DEF Directions, Lines, Diagonals
<1>1. d[1] \in {-1, 0, 1} /\ d[2] \in {-1, 0, 1} /\ ~(d[1] = 0 /\ d[2] = 0)
  BY <1>0
<1>2. /\ n \in 1 .. 7 /\ t[1] = s[1] + n * d[1] /\ t[2] = s[2] + n * d[2]
      /\ s[1] \in 0 .. 7 /\ s[2] \in 0 .. 7
  BY Squares DEF Along
<1>3. s[1] # t[1] \/ s[2] # t[2]
  <2>1. d[1] = 1 \/ d[1] = -1 \/ d[2] = 1 \/ d[2] = -1
    BY <1>1
  <2>2. n * 1 = n /\ n * (-1) = -n /\ n # 0
    BY <1>2
  <2>3. CASE d[1] = 1 \/ d[1] = -1
    BY <1>2, <2>2, <2>3
  <2>4. CASE d[2] = 1 \/ d[2] = -1
    BY <1>2, <2>2, <2>4
  <2> QED
    BY <2>1, <2>3, <2>4
<1>4. s # t
  BY <1>3
<1> QED
  BY <1>0, <1>1, <1>2, <1>4 DEF FileStep, RankStep, Sign, Abs

\* Squares of a row, a column or a diagonal are on a line.
LEMMA AlongExists ==
  ASSUME NEW s \in Square, NEW t \in Square, s # t
  PROVE  /\ FileStep(s, t) = 0 \/ RankStep(s, t) = 0 =>
              \E d \in Lines, n \in 1 .. 7 : Along(s, t, d, n)
         /\ Abs(FileStep(s, t)) = Abs(RankStep(s, t)) =>
              \E d \in Diagonals, n \in 1 .. 7 : Along(s, t, d, n)
<1> DEFINE df == t[1] - s[1]  dr == t[2] - s[2]
<1>1. /\ s = <<s[1], s[2]>> /\ t = <<t[1], t[2]>>
      /\ s[1] \in 0 .. 7 /\ s[2] \in 0 .. 7 /\ t[1] \in 0 .. 7 /\ t[2] \in 0 .. 7
  BY Squares
<1>2. df # 0 \/ dr # 0
  BY <1>1
<1>3. ASSUME NEW d \in Directions, NEW n \in 1 .. 7, df = n * d[1], dr = n * d[2]
      PROVE  Along(s, t, d, n)
  BY <1>1, <1>3 DEF Along, Directions, Lines, Diagonals
<1>4. ASSUME FileStep(s, t) = 0 \/ RankStep(s, t) = 0
      PROVE  \E d \in Lines, n \in 1 .. 7 : Along(s, t, d, n)
  <2>1. CASE df > 0
    <3>1. Along(s, t, <<1, 0>>, df)
      BY <1>1, <1>3, <1>4, <2>1 DEF Directions, Lines, FileStep, RankStep
    <3> QED
      BY <3>1 DEF Lines, Along
  <2>2. CASE df < 0
    <3>1. Along(s, t, <<-1, 0>>, -df)
      BY <1>1, <1>3, <1>4, <2>2 DEF Directions, Lines, FileStep, RankStep
    <3> QED
      BY <3>1 DEF Lines, Along
  <2>3. CASE dr > 0
    <3>1. Along(s, t, <<0, 1>>, dr)
      BY <1>1, <1>3, <1>4, <2>3 DEF Directions, Lines, FileStep, RankStep
    <3> QED
      BY <3>1 DEF Lines, Along
  <2>4. CASE dr < 0
    <3>1. Along(s, t, <<0, -1>>, -dr)
      BY <1>1, <1>3, <1>4, <2>4 DEF Directions, Lines, FileStep, RankStep
    <3> QED
      BY <3>1 DEF Lines, Along
  <2> QED
    BY <1>1, <1>2, <2>1, <2>2, <2>3, <2>4
<1>5. ASSUME Abs(FileStep(s, t)) = Abs(RankStep(s, t))
      PROVE  \E d \in Diagonals, n \in 1 .. 7 : Along(s, t, d, n)
  <2>0. df = dr \/ df = -dr
    BY <1>1, <1>5 DEF Abs, FileStep, RankStep
  <2>1. CASE df > 0 /\ dr > 0
    <3>1. Along(s, t, <<1, 1>>, df)
      BY <1>1, <1>3, <2>0, <2>1 DEF Directions, Diagonals
    <3> QED
      BY <3>1 DEF Diagonals, Along
  <2>2. CASE df < 0 /\ dr < 0
    <3>1. Along(s, t, <<-1, -1>>, -df)
      BY <1>1, <1>3, <2>0, <2>2 DEF Directions, Diagonals
    <3> QED
      BY <3>1 DEF Diagonals, Along
  <2>3. CASE df > 0 /\ dr < 0
    <3>1. Along(s, t, <<1, -1>>, df)
      BY <1>1, <1>3, <2>0, <2>3 DEF Directions, Diagonals
    <3> QED
      BY <3>1 DEF Diagonals, Along
  <2>4. CASE df < 0 /\ dr > 0
    <3>1. Along(s, t, <<-1, 1>>, -df)
      BY <1>1, <1>3, <2>0, <2>4 DEF Directions, Diagonals
    <3> QED
      BY <3>1 DEF Diagonals, Along
  <2> QED
    BY <1>1, <1>2, <2>0, <2>1, <2>2, <2>3, <2>4
<1> QED
  BY <1>4, <1>5

\* The loop of the code looks at the squares of the line between the ends.
LEMMA AlongPath ==
  ASSUME NEW b, NEW s \in Square, NEW t \in Square, NEW d \in Directions, NEW n, Along(s, t, d, n)
  PROVE  PathEmpty(b, s, t) <=> Clear(b, s, d, n)
BY AlongSteps DEF PathEmpty, Clear

\* A piece sees along ranks and files what path_clear_straight finds clear.
LEMMA StraightIsSeen ==
  ASSUME NEW b, NEW s \in Square, NEW t \in Square, s # t
  PROVE  PathClearStraight(b, s, t) <=> t \in UNION {Sees(b, s, d) : d \in Lines}
<1>1. ASSUME PathClearStraight(b, s, t)
      PROVE  \E d \in Lines : t \in Sees(b, s, d)
  <2>1. FileStep(s, t) = 0 \/ RankStep(s, t) = 0
    BY <1>1 DEF PathClearStraight
  <2>2. PICK d \in Lines, n \in 1 .. 7 : Along(s, t, d, n)
    BY <2>1, AlongExists
  <2>3. d \in Directions /\ PathEmpty(b, s, t)
    BY <1>1 DEF PathClearStraight, Directions
  <2>4. Clear(b, s, d, n)
    BY <2>2, <2>3, AlongPath
  <2> QED
    BY <2>2, <2>4, SeesIs
<1>2. ASSUME NEW d \in Lines, t \in Sees(b, s, d)
      PROVE  PathClearStraight(b, s, t)
  <2>1. PICK n \in 1 .. 7 : Along(s, t, d, n) /\ Clear(b, s, d, n)
    BY <1>2, SeesIs
  <2>2. d \in Directions
    BY DEF Directions
  <2>3. PathEmpty(b, s, t)
    BY <2>1, <2>2, AlongPath
  <2> QED
    BY <2>1, <2>2, <2>3, AlongSteps DEF PathClearStraight
<1> QED
  BY <1>1, <1>2

\* And along diagonals what path_clear_diagonal finds clear.
LEMMA DiagonalIsSeen ==
  ASSUME NEW b, NEW s \in Square, NEW t \in Square, s # t
  PROVE  PathClearDiagonal(b, s, t) <=> t \in UNION {Sees(b, s, d) : d \in Diagonals}
<1>1. ASSUME PathClearDiagonal(b, s, t)
      PROVE  \E d \in Diagonals : t \in Sees(b, s, d)
  <2>1. Abs(FileStep(s, t)) = Abs(RankStep(s, t))
    BY <1>1 DEF PathClearDiagonal
  <2>2. PICK d \in Diagonals, n \in 1 .. 7 : Along(s, t, d, n)
    BY <2>1, AlongExists
  <2>3. d \in Directions /\ PathEmpty(b, s, t)
    BY <1>1 DEF PathClearDiagonal, Directions
  <2>4. Clear(b, s, d, n)
    BY <2>2, <2>3, AlongPath
  <2> QED
    BY <2>2, <2>4, SeesIs
<1>2. ASSUME NEW d \in Diagonals, t \in Sees(b, s, d)
      PROVE  PathClearDiagonal(b, s, t)
  <2>1. PICK n \in 1 .. 7 : Along(s, t, d, n) /\ Clear(b, s, d, n)
    BY <1>2, SeesIs
  <2>2. d \in Directions
    BY DEF Directions
  <2>3. PathEmpty(b, s, t)
    BY <2>1, <2>2, AlongPath
  <2> QED
    BY <2>1, <2>2, <2>3, AlongSteps DEF PathClearDiagonal
<1> QED
  BY <1>1, <1>2

\* A piece does not see its own square.
LEMMA SeenIsElsewhere ==
  ASSUME NEW b, NEW s \in Square, NEW d \in Directions, NEW t \in Sees(b, s, d)
  PROVE  t \in Square /\ t # s
<1>1. t \in Square
  BY DEF Sees
<1>2. PICK n \in 1 .. 7 : Along(s, t, d, n)
  BY <1>1, SeesIs
<1> QED
  BY <1>1, <1>2, AlongSteps

\* The steps of king, knight and pawn.
LEMMA StepsAre ==
  ASSUME NEW s \in Square, NEW t \in Square, NEW D
  PROVE  t \in Steps(s, D) <=> \E d \in D : t[1] = s[1] + d[1] /\ t[2] = s[2] + d[2]
<1>1. t = <<t[1], t[2]>>
  BY Squares
<1> QED
  BY <1>1 DEF Steps

\* The steps of knight, king and pawn, in the code and as offsets.
LEMMA KnightLeaps ==
  ASSUME NEW s \in Square, NEW t \in Square
  PROVE  KnightStep(s, t) <=> t \in Steps(s, Leaps)
<1> DEFINE df == t[1] - s[1]  dr == t[2] - s[2]
<1>1. /\ s[1] \in 0 .. 7 /\ s[2] \in 0 .. 7 /\ t[1] \in 0 .. 7 /\ t[2] \in 0 .. 7
      /\ df \in Int /\ dr \in Int
  BY Squares
<1>2. KnightStep(s, t) <=> \/ Abs(df) = 1 /\ Abs(dr) = 2
                           \/ Abs(df) = 2 /\ Abs(dr) = 1
  BY DEF KnightStep, FileStep, RankStep
<1>3. t \in Steps(s, Leaps) <=> <<df, dr>> \in Leaps
  <2>1. \A d \in Leaps : d = <<d[1], d[2]>> /\ d[1] \in -2 .. 2 /\ d[2] \in -2 .. 2
    BY DEF Leaps
  <2>2. \A d \in Leaps : t[1] = s[1] + d[1] /\ t[2] = s[2] + d[2] <=> d = <<df, dr>>
    BY <1>1, <2>1
  <2> QED
    BY <2>2, StepsAre
<1>4. <<df, dr>> \in Leaps <=> df \in -2 .. 2 /\ dr \in -2 .. 2 /\ df * df + dr * dr = 5
  BY DEF Leaps
<1>5. df \in -2 .. 2 => df = -2 \/ df = -1 \/ df = 0 \/ df = 1 \/ df = 2
  BY <1>1
<1>6. dr \in -2 .. 2 => dr = -2 \/ dr = -1 \/ dr = 0 \/ dr = 1 \/ dr = 2
  BY <1>1
<1> HIDE DEF df, dr
<1>7. \/ Abs(df) = 1 /\ Abs(dr) = 2
      \/ Abs(df) = 2 /\ Abs(dr) = 1
      <=> df \in -2 .. 2 /\ dr \in -2 .. 2 /\ df * df + dr * dr = 5
  <2>1. ASSUME df \in -2 .. 2, dr \in -2 .. 2
        PROVE  \/ Abs(df) = 1 /\ Abs(dr) = 2
               \/ Abs(df) = 2 /\ Abs(dr) = 1
               <=> df * df + dr * dr = 5
    BY <1>5, <1>6, <2>1 DEF Abs
  <2>2. Abs(df) \in {1, 2} => df \in -2 .. 2
    BY <1>1 DEF Abs
  <2>3. Abs(dr) \in {1, 2} => dr \in -2 .. 2
    BY <1>1 DEF Abs
  <2> QED
    BY <2>1, <2>2, <2>3
<1> QED
  BY <1>2, <1>3, <1>4, <1>7

LEMMA KingSteps ==
  ASSUME NEW s \in Square, NEW t \in Square, s # t
  PROVE  KingStep(s, t) <=> t \in Steps(s, Lines \cup Diagonals)
<1>1. /\ s = <<s[1], s[2]>> /\ t = <<t[1], t[2]>>
      /\ s[1] \in 0 .. 7 /\ s[2] \in 0 .. 7 /\ t[1] \in 0 .. 7 /\ t[2] \in 0 .. 7
  BY Squares
<1>2. s[1] # t[1] \/ s[2] # t[2]
  BY <1>1
<1>3. ASSUME NEW i, NEW j, <<i, j>> \in Lines \cup Diagonals, t[1] = s[1] + i, t[2] = s[2] + j
      PROVE  t \in Steps(s, Lines \cup Diagonals)
  <2>1. <<i, j>>[1] = i /\ <<i, j>>[2] = j
    OBVIOUS
  <2> QED
    BY <1>3, <2>1, StepsAre
<1>4. ASSUME KingStep(s, t) PROVE t \in Steps(s, Lines \cup Diagonals)
  <2> DEFINE i == t[1] - s[1]  j == t[2] - s[2]
  <2>1. i \in {-1, 0, 1} /\ j \in {-1, 0, 1} /\ (i # 0 \/ j # 0)
    BY <1>1, <1>2, <1>4 DEF KingStep, FileStep, RankStep, Abs
  <2>2. t[1] = s[1] + i /\ t[2] = s[2] + j
    BY <1>1
  <2> HIDE DEF i, j
  <2>3. <<i, j>> \in Lines \cup Diagonals
    BY <2>1 DEF Lines, Diagonals
  <2> QED
    BY <1>3, <2>2, <2>3
<1>5. ASSUME t \in Steps(s, Lines \cup Diagonals) PROVE KingStep(s, t)
  <2>1. PICK d \in Lines \cup Diagonals : t[1] = s[1] + d[1] /\ t[2] = s[2] + d[2]
    BY <1>5, StepsAre
  <2>2. d[1] \in {-1, 0, 1} /\ d[2] \in {-1, 0, 1}
    BY DEF Lines, Diagonals
  <2> QED
    BY <1>1, <2>1, <2>2 DEF KingStep, FileStep, RankStep, Abs
<1> QED
  BY <1>4, <1>5

LEMMA PawnSteps ==
  ASSUME NEW s \in Square, NEW t \in Square, NEW f \in {-1, 1}
  PROVE  RankStep(s, t) = f /\ Abs(FileStep(s, t)) = 1 <=> t \in Steps(s, {<<-1, f>>, <<1, f>>})
<1>1. /\ s[1] \in 0 .. 7 /\ s[2] \in 0 .. 7 /\ t[1] \in 0 .. 7 /\ t[2] \in 0 .. 7
  BY Squares
<1>2. t \in Steps(s, {<<-1, f>>, <<1, f>>}) <=>
        \E d \in {<<-1, f>>, <<1, f>>} : t[1] = s[1] + d[1] /\ t[2] = s[2] + d[2]
  <2> DEFINE D == {<<-1, f>>, <<1, f>>}
  <2> HIDE DEF D
  <2>1. t \in Steps(s, D) <=> \E d \in D : t[1] = s[1] + d[1] /\ t[2] = s[2] + d[2]
    BY StepsAre
  <2> QED
    BY <2>1 DEF D
<1>3. t \in Steps(s, {<<-1, f>>, <<1, f>>}) <=>
        \/ t[1] = s[1] + -1 /\ t[2] = s[2] + f
        \/ t[1] = s[1] + 1 /\ t[2] = s[2] + f
  BY <1>2
<1> QED
  BY <1>1, <1>3 DEF RankStep, FileStep, Abs

\* The two colours and their ends of the board.
LEMMA Colors ==
  ASSUME NEW c \in Color
  PROVE  /\ Opposite(c) \in Color /\ Opposite(c) # c /\ Opposite(Opposite(c)) = c
         /\ c # "UNASSIGNED" /\ Forward(c) \in {-1, 1} /\ Forward(Opposite(c)) = -Forward(c)
         /\ BackRank(c) \in 0 .. 7 /\ PawnRank(c) \in 0 .. 7
         /\ \A e \in Color : e = c \/ e = Opposite(c)
BY DEF Color, Opposite, Forward, BackRank, PawnRank

-----------------------------------------------------------------------------
(* Attacks: is_square_attacked is what the pieces command *)

\* A line of is_square_attacked is what the piece commands.
LEMMA AttackIsCommand ==
  ASSUME NEW b \in Board, NEW s \in Square, NEW t \in Square, s # t, b[s] # Empty
  PROVE  AttacksSquare(b, s, t) <=> t \in Commands(b, s)
<1>1. b[s] \in Piece /\ KindOf(b[s]) \in Kind /\ ColorOf(b[s]) \in Color
  BY Pieces DEF Board
<1>2. CASE KindOf(b[s]) = "PAWN"
  <2>1. Forward(ColorOf(b[s])) \in {-1, 1}
    BY <1>1, Colors
  <2> QED
    BY <1>2, <2>1, PawnSteps DEF AttacksSquare, Commands
<1>3. CASE KindOf(b[s]) = "KNIGHT"
  BY <1>3, KnightLeaps DEF AttacksSquare, Commands
<1>4. CASE KindOf(b[s]) = "BISHOP"
  BY <1>4, DiagonalIsSeen DEF AttacksSquare, Commands
<1>5. CASE KindOf(b[s]) = "ROOK"
  BY <1>5, StraightIsSeen DEF AttacksSquare, Commands
<1>6. CASE KindOf(b[s]) = "QUEEN"
  <2>1. t \in UNION {Sees(b, s, d) : d \in Lines \cup Diagonals} <=>
          \/ t \in UNION {Sees(b, s, d) : d \in Lines}
          \/ t \in UNION {Sees(b, s, d) : d \in Diagonals}
    OBVIOUS
  <2> QED
    BY <1>6, <2>1, StraightIsSeen, DiagonalIsSeen DEF AttacksSquare, Commands
<1>7. CASE KindOf(b[s]) = "KING"
  BY <1>7, KingSteps DEF AttacksSquare, Commands
<1> QED
  BY <1>1, <1>2, <1>3, <1>4, <1>5, <1>6, <1>7 DEF Kind

\* Nothing commands the square it stands on, nor one beside the board.
LEMMA CommandsElsewhere ==
  ASSUME NEW b \in Board, NEW s \in Square, b[s] # Empty, NEW t \in Commands(b, s)
  PROVE  t \in Square /\ t # s
<1>1. b[s] \in Piece /\ KindOf(b[s]) \in Kind /\ ColorOf(b[s]) \in Color
  BY Pieces DEF Board
<1>2. ASSUME NEW D, t \in Steps(s, D), \A d \in D : d[1] \in Int /\ d[2] \in Int /\ (d[1] # 0 \/ d[2] # 0)
      PROVE  t \in Square /\ t # s
  <2>1. t \in Square
    BY <1>2 DEF Steps
  <2>2. PICK d \in D : t[1] = s[1] + d[1] /\ t[2] = s[2] + d[2]
    BY <1>2, <2>1, StepsAre
  <2>3. s[1] \in 0 .. 7 /\ s[2] \in 0 .. 7
    BY Squares
  <2>4. t[1] # s[1] \/ t[2] # s[2]
    BY <1>2, <2>2, <2>3
  <2> QED
    BY <2>1, <2>4
<1>3. CASE KindOf(b[s]) = "PAWN"
  <2> DEFINE f == Forward(ColorOf(b[s]))
  <2>1. f \in {-1, 1}
    BY <1>1, Colors
  <2>2. t \in Steps(s, {<<-1, f>>, <<1, f>>})
    BY <1>3 DEF Commands
  <2>3. \A d \in {<<-1, f>>, <<1, f>>} : d[1] \in Int /\ d[2] \in Int /\ (d[1] # 0 \/ d[2] # 0)
    BY <2>1
  <2> QED
    BY <1>2, <2>2, <2>3
<1>4. CASE KindOf(b[s]) = "KNIGHT"
  <2>1. t \in Steps(s, Leaps)
    BY <1>4 DEF Commands
  <2>2. \A d \in Leaps : d[1] \in Int /\ d[2] \in Int /\ (d[1] # 0 \/ d[2] # 0)
    BY DEF Leaps
  <2> QED
    BY <1>2, <2>1, <2>2
<1>5. CASE KindOf(b[s]) = "KING"
  <2>1. t \in Steps(s, Lines \cup Diagonals)
    BY <1>5 DEF Commands
  <2>2. \A d \in Lines \cup Diagonals : d[1] \in Int /\ d[2] \in Int /\ (d[1] # 0 \/ d[2] # 0)
    BY DEF Lines, Diagonals
  <2> QED
    BY <1>2, <2>1, <2>2
<1>6. CASE KindOf(b[s]) \in {"ROOK", "BISHOP", "QUEEN"}
  <2>1. PICK d \in Directions : t \in Sees(b, s, d)
    BY <1>6 DEF Commands, Directions
  <2> QED
    BY <2>1, SeenIsElsewhere
<1> QED
  BY <1>1, <1>3, <1>4, <1>5, <1>6 DEF Kind

\* What stands on the squares of a colour.
LEMMA OccupiedIs ==
  ASSUME NEW b \in Board, NEW c \in Color, NEW s \in Occupied(b, c)
  PROVE  s \in Square /\ b[s] # Empty /\ b[s] \in Piece /\ ColorOf(b[s]) = c
<1>1. s \in Square /\ ColorOf(b[s]) = c
  BY DEF Occupied
<1>2. b[s] \in Piece \cup {Empty} /\ ColorOf(b[s]) # "UNASSIGNED"
  BY <1>1, Colors DEF Board
<1> QED
  BY <1>1, <1>2, Pieces

\* is_square_attacked, for a square the attacker does not hold.
LEMMA AttackedIsCommanded ==
  ASSUME NEW b \in Board, NEW c \in Color, NEW t \in Square, ColorOf(b[t]) # c
  PROVE  IsSquareAttacked(b, t, c) <=> t \in Commanded(b, c)
<1>1. ASSUME NEW s \in Occupied(b, c)
      PROVE  AttacksSquare(b, s, t) <=> t \in Commands(b, s)
  <2>1. s \in Square /\ b[s] # Empty /\ ColorOf(b[s]) = c
    BY OccupiedIs
  <2>2. s # t
    BY <2>1
  <2> QED
    BY <2>1, <2>2, AttackIsCommand
<1> QED
  BY <1>1 DEF IsSquareAttacked, Commanded

\* is_king_in_check is check.
LEMMA CheckIsCheck ==
  ASSUME NEW b \in Board, NEW c \in Color
  PROVE  IsKingInCheck(b, c) <=> InCheck(b, c)
<1>1. ASSUME NEW k \in Square
      PROVE  b[k] = <<c, "KING">> <=> k \in Occupied(b, c) /\ KindOf(b[k]) = "KING"
  <2>1. b[k] \in Piece \cup {Empty}
    BY DEF Board
  <2>2. ASSUME b[k] = <<c, "KING">> PROVE k \in Occupied(b, c) /\ KindOf(b[k]) = "KING"
    BY <2>2 DEF Occupied, ColorOf, KindOf
  <2>3. ASSUME k \in Occupied(b, c), KindOf(b[k]) = "KING" PROVE b[k] = <<c, "KING">>
    <3>1. b[k] \in Piece /\ ColorOf(b[k]) = c
      BY <2>3, OccupiedIs
    <3> QED
      BY <2>1, <2>3, <3>1, Pieces
  <2> QED
    BY <2>2, <2>3
<1>2. ASSUME NEW k \in Square, b[k] = <<c, "KING">>
      PROVE  IsSquareAttacked(b, k, Opposite(c)) <=> k \in Commanded(b, Opposite(c))
  <2>1. ColorOf(b[k]) # Opposite(c) /\ Opposite(c) \in Color
    BY <1>2, Colors DEF ColorOf
  <2> QED
    BY <2>1, AttackedIsCommanded
<1>3. Occupied(b, c) \subseteq Square
  BY DEF Occupied
<1> QED
  BY <1>1, <1>2, <1>3 DEF IsKingInCheck, InCheck

-----------------------------------------------------------------------------
(* What an attack depends on *)

\* The squares between two squares of a line are on the board, and none of them
\* is an end of it.
LEMMA Between ==
  ASSUME NEW s \in Square, NEW t \in Square, NEW d \in Directions, NEW n, Along(s, t, d, n),
         NEW i \in 1 .. n - 1
  PROVE  LET x == <<s[1] + i * d[1], s[2] + i * d[2]>>
         IN  /\ x \in Square /\ x # s /\ x # t
             /\ x[1] = s[1] + i * d[1] /\ x[2] = s[2] + i * d[2]
<1>1. /\ s[1] \in 0 .. 7 /\ s[2] \in 0 .. 7 /\ n \in 1 .. 7 /\ i \in 1 .. 6 /\ i < n
      /\ t[1] = s[1] + n * d[1] /\ t[2] = s[2] + n * d[2]
      /\ t[1] \in 0 .. 7 /\ t[2] \in 0 .. 7
  BY Squares DEF Along
<1>2. /\ d[1] = 0 \/ d[1] = 1 \/ d[1] = -1
      /\ d[2] = 0 \/ d[2] = 1 \/ d[2] = -1
      /\ d[1] # 0 \/ d[2] # 0
  BY DEF Directions, Lines, Diagonals
<1> DEFINE f == s[1] + i * d[1]  r == s[2] + i * d[2]
<1>3. /\ f \in 0 .. 7 /\ (d[1] # 0 => f # s[1] /\ f # t[1])
  <2>1. CASE d[1] = 0
    BY <1>1, <2>1
  <2>2. CASE d[1] = 1
    BY <1>1, <2>2
  <2>3. CASE d[1] = -1
    BY <1>1, <2>3
  <2> QED
    BY <1>2, <2>1, <2>2, <2>3
<1>4. /\ r \in 0 .. 7 /\ (d[2] # 0 => r # s[2] /\ r # t[2])
  <2>1. CASE d[2] = 0
    BY <1>1, <2>1
  <2>2. CASE d[2] = 1
    BY <1>1, <2>2
  <2>3. CASE d[2] = -1
    BY <1>1, <2>3
  <2> QED
    BY <1>2, <2>1, <2>2, <2>3
<1> HIDE DEF f, r
<1>5. /\ <<f, r>> \in Square /\ <<f, r>>[1] = f /\ <<f, r>>[2] = r
  BY <1>3, <1>4 DEF Square
<1>6. <<f, r>> # s /\ <<f, r>> # t
  BY <1>2, <1>3, <1>4, <1>5
<1> QED
  BY <1>5, <1>6 DEF f, r

\* A piece attacks a square on board b2 as on b1 if what it sees on b1 is not in
\* the way of it on b2.
LEMMA AttackMoves ==
  ASSUME NEW b, NEW e, NEW s \in Square, NEW t \in Square, s # t, b[s] = e[s],
         \A d \in Directions, n \in 1 .. 7 : Along(s, t, d, n) /\ Clear(b, s, d, n) => Clear(e, s, d, n),
         AttacksSquare(b, s, t)
  PROVE  AttacksSquare(e, s, t)
<1>1. ASSUME PathClearStraight(b, s, t) PROVE PathClearStraight(e, s, t)
  <2>1. PICK d \in Lines, n \in 1 .. 7 : Along(s, t, d, n)
    BY <1>1, AlongExists DEF PathClearStraight
  <2>2. d \in Directions
    BY DEF Directions
  <2>3. Clear(b, s, d, n)
    BY <1>1, <2>1, <2>2, AlongPath DEF PathClearStraight
  <2>4. Clear(e, s, d, n)
    BY <2>1, <2>2, <2>3
  <2>5. PathEmpty(e, s, t)
    BY <2>1, <2>2, <2>4, AlongPath
  <2> QED
    BY <1>1, <2>5 DEF PathClearStraight
<1>2. ASSUME PathClearDiagonal(b, s, t) PROVE PathClearDiagonal(e, s, t)
  <2>1. PICK d \in Diagonals, n \in 1 .. 7 : Along(s, t, d, n)
    BY <1>2, AlongExists DEF PathClearDiagonal
  <2>2. d \in Directions
    BY DEF Directions
  <2>3. Clear(b, s, d, n)
    BY <1>2, <2>1, <2>2, AlongPath DEF PathClearDiagonal
  <2>4. Clear(e, s, d, n)
    BY <2>1, <2>2, <2>3
  <2>5. PathEmpty(e, s, t)
    BY <2>1, <2>2, <2>4, AlongPath
  <2> QED
    BY <1>2, <2>5 DEF PathClearDiagonal
<1> QED
  BY <1>1, <1>2 DEF AttacksSquare

\* Two boards that differ, if at all, in the kind of pieces of c other than kings.
SameToOthers(b, e, c) ==
  \A s \in Square :
    /\ b[s] = Empty <=> e[s] = Empty
    /\ Opposite(c) \in {ColorOf(b[s]), ColorOf(e[s])} => b[s] = e[s]
    /\ b[s] = <<c, "KING">> <=> e[s] = <<c, "KING">>

LEMMA SameToOthersSym ==
  ASSUME NEW b, NEW e, NEW c, SameToOthers(b, e, c)
  PROVE  SameToOthers(e, b, c)
BY DEF SameToOthers

\* Two boards that are the same to the opponent give the same check.
LEMMA SameCheckHalf ==
  ASSUME NEW b, NEW e, NEW c \in Color, SameToOthers(b, e, c), IsKingInCheck(b, c)
  PROVE  IsKingInCheck(e, c)
<1>1. PICK k \in Square : b[k] = <<c, "KING">> /\ IsSquareAttacked(b, k, Opposite(c))
  BY DEF IsKingInCheck
<1>2. PICK s \in Square : ColorOf(b[s]) = Opposite(c) /\ AttacksSquare(b, s, k)
  BY <1>1 DEF IsSquareAttacked, Occupied
<1>3. e[k] = <<c, "KING">> /\ e[s] = b[s] /\ ColorOf(e[s]) = Opposite(c)
  BY <1>1, <1>2 DEF SameToOthers
<1>4. s # k
  BY <1>1, <1>2, Colors DEF ColorOf
<1>5. ASSUME NEW d \in Directions, NEW n \in 1 .. 7, Along(s, k, d, n), Clear(b, s, d, n)
      PROVE  Clear(e, s, d, n)
  BY <1>5, Between DEF Clear, SameToOthers
<1>6. AttacksSquare(e, s, k)
  BY <1>2, <1>3, <1>4, <1>5, AttackMoves
<1> QED
  BY <1>3, <1>6 DEF IsKingInCheck, IsSquareAttacked, Occupied

\* Whether c is in check is the same on both.
LEMMA SameCheck ==
  ASSUME NEW b, NEW e, NEW c \in Color, SameToOthers(b, e, c)
  PROVE  IsKingInCheck(b, c) <=> IsKingInCheck(e, c)
BY SameCheckHalf, SameToOthersSym

-----------------------------------------------------------------------------
(* The board after a move *)

\* The piece that arrives has the colour of the one that left, and is no new king.
LEMMA PlacedIs ==
  ASSUME NEW x \in Piece, NEW t, NEW q, PromotionFits(x, t, q)
  PROVE  /\ Placed(x, t, q) \in Piece /\ ColorOf(Placed(x, t, q)) = ColorOf(x)
         /\ \A c \in Color : Placed(x, t, q) = <<c, "KING">> <=> x = <<c, "KING">>
         /\ Placed(x, t, q) # Empty
<1>1. x = <<ColorOf(x), KindOf(x)>> /\ ColorOf(x) \in Color /\ KindOf(x) \in Kind
  BY Pieces
<1>2. CASE IsPawnPromotionMove(x, t)
  <2>1. q \in {"QUEEN", "ROOK", "BISHOP", "KNIGHT"} /\ KindOf(x) = "PAWN"
    BY <1>2 DEF PromotionFits, PromotionChoice, Promotion, IsPawnPromotionMove
  <2>2. Placed(x, t, q) = <<ColorOf(x), q>>
    BY <1>2 DEF Placed
  <2>3. Placed(x, t, q) \in Piece /\ ColorOf(Placed(x, t, q)) = ColorOf(x)
    BY <1>1, <2>1, <2>2 DEF Piece, Kind, ColorOf
  <2>4. ASSUME NEW c \in Color PROVE Placed(x, t, q) # <<c, "KING">> /\ x # <<c, "KING">>
    BY <2>1, <2>2 DEF KindOf
  <2>5. Placed(x, t, q) # Empty
    BY <2>3, <1>1, Colors DEF Empty, ColorOf
  <2> QED
    BY <2>3, <2>4, <2>5
<1>3. CASE ~IsPawnPromotionMove(x, t)
  <2>1. Placed(x, t, q) = x
    BY <1>3 DEF Placed
  <2>2. x # Empty
    BY <1>1, Colors DEF Empty, ColorOf
  <2> QED
    BY <2>1, <2>2
<1> QED
  BY <1>2, <1>3

\* A move that is neither taking in passing nor castling.
LEMMA MovedPlain ==
  ASSUME NEW p, NEW s \in Square, NEW t \in Square, NEW q, p.board \in Board, s # t,
         p.board[s] # Empty, PromotionFits(p.board[s], t, q),
         ~IsEnPassantCaptureMove(p, p.board[s], s, t), ~IsCastlingKingMove(p.board[s], s, t)
  PROVE  LET b == p.board
             e == MovedBoard(p, s, t, q)
         IN  /\ e \in Board
             /\ e[s] = Empty /\ e[t] = Placed(b[s], t, q)
             /\ \A x \in Square \ {s, t} : e[x] = b[x]
<1> DEFINE b == p.board
<1>1. MovedBoard(p, s, t, q) = [b EXCEPT ![s] = Empty, ![t] = Placed(b[s], t, q)]
  BY DEF MovedBoard
<1>2. Placed(b[s], t, q) \in Piece
  BY PlacedIs, Pieces DEF Board
<1> HIDE DEF b
<1>3. b \in Board
  BY DEF b
<1> QED
  BY <1>1, <1>2, <1>3 DEF Board, b

\* Taking in passing.
LEMMA MovedPassing ==
  ASSUME NEW p, NEW s \in Square, NEW t \in Square, NEW q, p.board \in Board, s # t,
         p.board[s] # Empty, PromotionFits(p.board[s], t, q),
         IsEnPassantCaptureMove(p, p.board[s], s, t)
  PROVE  LET b == p.board
             e == MovedBoard(p, s, t, q)
             v == <<t[1], s[2]>>
         IN  /\ e \in Board /\ v \in Square /\ v # s /\ v # t
             /\ b[v] = <<Opposite(ColorOf(b[s])), "PAWN">>
             /\ e[s] = Empty /\ e[t] = Placed(b[s], t, q) /\ e[v] = Empty
             /\ \A x \in Square \ {s, t, v} : e[x] = b[x]
<1> DEFINE b == p.board  v == <<t[1], s[2]>>
<1>1. MovedBoard(p, s, t, q) =
        [[b EXCEPT ![s] = Empty, ![t] = Placed(b[s], t, q)] EXCEPT ![v] = Empty]
  BY DEF MovedBoard
<1>2. Placed(b[s], t, q) \in Piece
  BY PlacedIs, Pieces DEF Board
<1>3. /\ s = <<s[1], s[2]>> /\ t = <<t[1], t[2]>>
      /\ s[1] \in 0 .. 7 /\ s[2] \in 0 .. 7 /\ t[1] \in 0 .. 7 /\ t[2] \in 0 .. 7
  BY Squares
<1>4. ColorOf(b[s]) \in Color
  BY Pieces DEF Board
<1>5. t[1] - s[1] # 0 /\ t[2] - s[2] # 0
  BY <1>3, <1>4, Colors DEF IsEnPassantCaptureMove, FileStep, RankStep, Abs
<1>6. v \in Square /\ v[1] = t[1] /\ v[2] = s[2]
  BY <1>3 DEF Square
<1>7. v # s /\ v # t
  BY <1>3, <1>5, <1>6
<1>8. b[v] = <<Opposite(ColorOf(b[s])), "PAWN">>
  BY DEF IsEnPassantCaptureMove
<1> HIDE DEF b, v
<1>9. b \in Board
  BY DEF b
<1>10. /\ MovedBoard(p, s, t, q) \in Board
       /\ MovedBoard(p, s, t, q)[s] = Empty /\ MovedBoard(p, s, t, q)[t] = Placed(b[s], t, q)
       /\ MovedBoard(p, s, t, q)[v] = Empty
       /\ \A x \in Square \ {s, t, v} : MovedBoard(p, s, t, q)[x] = b[x]
  BY <1>1, <1>2, <1>6, <1>7, <1>9 DEF Board
<1> QED
  BY <1>6, <1>7, <1>8, <1>10 DEF b, v

\* The squares of a castling.
Home(c) == <<4, BackRank(c)>>
Corner(c, f) == <<RookFile(f), BackRank(c)>>
Goal(c, f) == <<f, BackRank(c)>>
Hop(c, f) == <<IF f = 6 THEN 5 ELSE 3, BackRank(c)>>

\* Where king and rook stand before and after castling.
LEMMA CastlingSquares ==
  ASSUME NEW c \in Color, NEW f \in {2, 6}
  PROVE  /\ {Home(c), Corner(c, f), Goal(c, f), Hop(c, f)} \subseteq Square
         /\ Home(c) # Corner(c, f) /\ Home(c) # Goal(c, f) /\ Home(c) # Hop(c, f)
         /\ Corner(c, f) # Goal(c, f) /\ Corner(c, f) # Hop(c, f) /\ Goal(c, f) # Hop(c, f)
         /\ Home(c)[1] = 4 /\ Home(c)[2] = BackRank(c)
         /\ Corner(c, f)[1] = RookFile(f) /\ Corner(c, f)[2] = BackRank(c)
         /\ Goal(c, f)[1] = f /\ Goal(c, f)[2] = BackRank(c)
         /\ Hop(c, f)[2] = BackRank(c)
         /\ RookFile(f) \in 0 .. 7
<1>1. BackRank(c) \in 0 .. 7
  BY Colors
<1>2. f = 2 \/ f = 6
  OBVIOUS
<1> QED
  BY <1>1, <1>2 DEF Home, Corner, Goal, Hop, RookFile, Square

\* The board after castling.
LEMMA MovedCastling ==
  ASSUME NEW p, NEW c \in Color, NEW f \in {2, 6}, NEW q, p.board \in Board,
         p.board[Home(c)] = <<c, "KING">>
  PROVE  LET b == p.board
             e == MovedBoard(p, Home(c), Goal(c, f), q)
         IN  /\ e \in Board
             /\ e[Home(c)] = Empty /\ e[Corner(c, f)] = Empty
             /\ e[Goal(c, f)] = <<c, "KING">> /\ e[Hop(c, f)] = b[Corner(c, f)]
             /\ \A x \in Square \ {Home(c), Corner(c, f), Goal(c, f), Hop(c, f)} : e[x] = b[x]
<1> DEFINE b == p.board  s == Home(c)  t == Goal(c, f)
           m == [b EXCEPT ![s] = Empty, ![t] = <<c, "KING">>]
<1>1. ColorOf(b[s]) = c /\ KindOf(b[s]) = "KING"
  BY DEF ColorOf, KindOf
<1>2. IsCastlingKingMove(b[s], s, t)
  BY <1>1 DEF IsCastlingKingMove, Home, Goal
<1>3. ~IsEnPassantCaptureMove(p, b[s], s, t) /\ Placed(b[s], t, q) = <<c, "KING">>
  BY <1>1 DEF IsEnPassantCaptureMove, Placed, IsPawnPromotionMove
<1>4. t[1] = f /\ t[2] = BackRank(c)
  BY CastlingSquares
<1>5. MovedBoard(p, s, t, q) = [m EXCEPT ![Hop(c, f)] = m[Corner(c, f)], ![Corner(c, f)] = Empty]
  BY <1>2, <1>3, <1>4 DEF MovedBoard, Hop, Corner
<1>6. <<c, "KING">> \in Piece
  BY DEF Piece, Kind
<1> HIDE DEF b, s, t
<1>7. b \in Board /\ {s, t, Corner(c, f), Hop(c, f)} \subseteq Square
      /\ s # t /\ s # Corner(c, f) /\ s # Hop(c, f) /\ t # Corner(c, f) /\ t # Hop(c, f)
      /\ Corner(c, f) # Hop(c, f)
  BY CastlingSquares DEF b, s, t
<1>8. m \in Board /\ m[Corner(c, f)] = b[Corner(c, f)] /\ m[s] = Empty /\ m[t] = <<c, "KING">>
      /\ \A x \in Square \ {s, t} : m[x] = b[x]
  BY <1>6, <1>7 DEF Board
<1> HIDE DEF m
<1>9. /\ MovedBoard(p, s, t, q) \in Board
      /\ MovedBoard(p, s, t, q)[s] = Empty /\ MovedBoard(p, s, t, q)[Corner(c, f)] = Empty
      /\ MovedBoard(p, s, t, q)[t] = <<c, "KING">>
      /\ MovedBoard(p, s, t, q)[Hop(c, f)] = b[Corner(c, f)]
      /\ \A x \in Square \ {s, Corner(c, f), t, Hop(c, f)} : MovedBoard(p, s, t, q)[x] = b[x]
  BY <1>5, <1>7, <1>8 DEF Board
<1> QED
  BY <1>9 DEF b, s, t

\* The king that castles does not come under attack: what moves away from the row
\* is nothing it was hidden behind.
LEMMA CastlingIsSafe ==
  ASSUME NEW p, NEW c \in Color, NEW f \in {2, 6}, NEW q, p.board \in Board, OneKing(p.board, c),
         p.board[Home(c)] = <<c, "KING">>, p.board[Corner(c, f)] = <<c, "ROOK">>,
         ~IsSquareAttacked(p.board, Goal(c, f), Opposite(c))
  PROVE  ~IsKingInCheck(MovedBoard(p, Home(c), Goal(c, f), q), c)
<1> DEFINE b == p.board  e == MovedBoard(p, Home(c), Goal(c, f), q)  t == Goal(c, f)
<1> SUFFICES ASSUME IsKingInCheck(e, c)
             PROVE  FALSE
  OBVIOUS
<1>1. /\ e \in Board
      /\ e[Home(c)] = Empty /\ e[Corner(c, f)] = Empty
      /\ e[t] = <<c, "KING">> /\ e[Hop(c, f)] = <<c, "ROOK">>
      /\ \A x \in Square \ {Home(c), Corner(c, f), t, Hop(c, f)} : e[x] = b[x]
  BY MovedCastling
<1>2. PICK k \in Square : e[k] = <<c, "KING">> /\ IsSquareAttacked(e, k, Opposite(c))
  BY DEF IsKingInCheck
<1>3. k = t
  <2>1. k # Home(c) /\ k # Corner(c, f) /\ k # Hop(c, f)
    BY <1>1, <1>2 DEF Empty
  <2>2. CASE k \notin {Home(c), Corner(c, f), t, Hop(c, f)}
    <3>1. b[k] = <<c, "KING">>
      BY <1>1, <1>2, <2>2
    <3>2. Home(c) \in Square
      BY CastlingSquares
    <3> QED
      BY <2>1, <3>1, <3>2 DEF OneKing
  <2> QED
    BY <2>1, <2>2
<1>4. PICK s \in Square : ColorOf(e[s]) = Opposite(c) /\ AttacksSquare(e, s, t)
  BY <1>2, <1>3 DEF IsSquareAttacked, Occupied
<1>5. ColorOf(Empty) = "UNASSIGNED" /\ ColorOf(<<c, "KING">>) = c /\ ColorOf(<<c, "ROOK">>) = c
  BY DEF ColorOf, Empty
<1>6. s \notin {Home(c), Corner(c, f), t, Hop(c, f)} /\ e[s] = b[s] /\ s # t
  <2>1. Opposite(c) # c /\ Opposite(c) # "UNASSIGNED"
    BY Colors
  <2>2. s # Home(c) /\ s # Corner(c, f) /\ s # t /\ s # Hop(c, f)
    BY <1>1, <1>4, <1>5, <2>1
  <2> QED
    BY <1>1, <2>2
<1>7. /\ t \in Square /\ t[1] = f /\ t[2] = BackRank(c) /\ BackRank(c) \in 0 .. 7
      /\ s[1] \in 0 .. 7 /\ s[2] \in 0 .. 7
  BY CastlingSquares, Squares, Colors
<1>8. ASSUME NEW d \in Directions, NEW n \in 1 .. 7, Along(s, t, d, n), Clear(e, s, d, n)
      PROVE  Clear(b, s, d, n)
  <2> SUFFICES ASSUME NEW i \in 1 .. n - 1
               PROVE  b[<<s[1] + i * d[1], s[2] + i * d[2]>>] = Empty
    BY DEF Clear
  <2> DEFINE x == <<s[1] + i * d[1], s[2] + i * d[2]>>
  <2>1. /\ x \in Square /\ x # t /\ x[1] = s[1] + i * d[1] /\ x[2] = s[2] + i * d[2]
        /\ e[x] = Empty
    BY <1>7, <1>8, Between DEF Clear
  <2>2. /\ n \in 1 .. 7 /\ i \in 1 .. 6 /\ i < n
        /\ f = s[1] + n * d[1] /\ BackRank(c) = s[2] + n * d[2]
    BY <1>7, <1>8 DEF Along
  <2>3. /\ d[1] = 0 \/ d[1] = 1 \/ d[1] = -1
        /\ d[2] = 0 \/ d[2] = 1 \/ d[2] = -1
        /\ d[1] # 0 \/ d[2] # 0
    BY DEF Directions, Lines, Diagonals
  <2>4. x # Hop(c, f)
    BY <1>1, <2>1 DEF Empty
  <2>5. ASSUME x[2] = BackRank(c)
        PROVE  d[2] = 0 /\ s[2] = BackRank(c) /\ (d[1] = 1 \/ d[1] = -1)
    BY <1>7, <2>1, <2>2, <2>3, <2>5
  <2>6. x # Corner(c, f)
    <3> SUFFICES ASSUME x = Corner(c, f) PROVE FALSE
      OBVIOUS
    <3>1. x[2] = BackRank(c) /\ x[1] = RookFile(f)
      BY CastlingSquares
    <3>2. d[1] = 1 \/ d[1] = -1
      BY <2>5, <3>1
    <3>3. s[1] + i * d[1] = RookFile(f)
      BY <2>1, <3>1
    <3>4. CASE d[1] = 1
      BY <1>7, <2>2, <3>3, <3>4 DEF RookFile
    <3>5. CASE d[1] = -1
      BY <1>7, <2>2, <3>3, <3>5 DEF RookFile
    <3> QED
      BY <3>2, <3>4, <3>5
  <2>7. x # Home(c)
    <3> SUFFICES ASSUME x = Home(c) PROVE FALSE
      OBVIOUS
    <3>1. x[2] = BackRank(c) /\ x[1] = 4
      BY CastlingSquares
    <3>2. d[2] = 0 /\ s[2] = BackRank(c) /\ (d[1] = 1 \/ d[1] = -1)
      BY <2>5, <3>1
    <3>3. s[1] + i * d[1] = 4
      BY <2>1, <3>1
    <3>4. n = i + 2 /\ s[1] + (i + 1) * d[1] = (IF f = 6 THEN 5 ELSE 3)
      <4>1. CASE d[1] = 1
        BY <1>7, <2>2, <3>3, <4>1
      <4>2. CASE d[1] = -1
        BY <1>7, <2>2, <3>3, <4>2
      <4> QED
        BY <3>2, <4>1, <4>2
    <3>5. s[2] + (i + 1) * d[2] = BackRank(c)
      BY <1>7, <2>2, <3>2
    <3>6. <<s[1] + (i + 1) * d[1], s[2] + (i + 1) * d[2]>> = Hop(c, f)
      BY <3>4, <3>5 DEF Hop
    <3>7. i + 1 \in 1 .. n - 1
      BY <2>2, <3>4
    <3>8. e[Hop(c, f)] = Empty
      BY <1>8, <3>6, <3>7 DEF Clear
    <3> QED
      BY <1>1, <3>8 DEF Empty
  <2>8. e[x] = b[x]
    BY <1>1, <2>1, <2>4, <2>6, <2>7
  <2> QED
    BY <2>1, <2>8
<1> HIDE DEF b, e, t
<1>9. AttacksSquare(b, s, t)
  BY <1>4, <1>6, <1>7, <1>8, AttackMoves
<1>10. IsSquareAttacked(b, t, Opposite(c))
  BY <1>4, <1>6, <1>9 DEF IsSquareAttacked, Occupied
<1> QED
  BY <1>10 DEF b, t

-----------------------------------------------------------------------------
(* Where a piece may go: is_pseudo_legal_move and the targets of chess *)

\* The fields of a position.
LEMMA PositionFields ==
  ASSUME NEW p \in Position
  PROVE  /\ p.board \in Board /\ p.turn \in Color /\ p.castle \subseteq Right
         /\ p.ep \in Square \cup {None} /\ p.halfmove \in 0 .. 100
         /\ p.captured \in [Color -> 0 .. 16] /\ p.outcome \in BoardResult \cup {"NONE"}
         /\ p.last \in (Square \cup {None}) \X (Square \cup {None})
BY DEF Position, Board

LEMMA NoneIsOutside == None \notin Square
BY DEF None, Square

\* A pawn commands the squares diagonally before it.
LEMMA PawnCommands ==
  ASSUME NEW p \in Position, NEW s \in Occupied(p.board, p.turn), KindOf(p.board[s]) = "PAWN",
         NEW t \in Square
  PROVE  t \in Commands(p.board, s) <=>
           RankStep(s, t) = Forward(p.turn) /\ Abs(FileStep(s, t)) = 1
<1>1. /\ s \in Square /\ ColorOf(p.board[s]) = p.turn /\ Forward(p.turn) \in {-1, 1}
  BY OccupiedIs, PositionFields, Colors
<1>2. Commands(p.board, s) = Steps(s, {<<-1, Forward(p.turn)>>, <<1, Forward(p.turn)>>})
  BY <1>1 DEF Commands
<1> QED
  BY <1>1, <1>2, PawnSteps

\* Taking in passing, by the flag of the code and by the last move.
LEMMA PassingIs ==
  ASSUME NEW p \in Position, Chased(p), NEW s \in Occupied(p.board, p.turn),
         KindOf(p.board[s]) = "PAWN", NEW t \in Square
  PROVE  /\ IsEnPassantCaptureMove(p, p.board[s], s, t) <=>
              t \in Commands(p.board, s) /\ t \in Passed(p)
         /\ IsEnPassantCaptureMove(p, p.board[s], s, t) =>
              Runner(p) = {<<t[1], s[2]>>} /\ p.board[t] = Empty /\ s[1] # t[1]
         /\ t \in Passed(p) => p.board[t] = Empty
<1> DEFINE b == p.board  c == p.turn  ep == IsEnPassantCaptureMove(p, b[s], s, t)
<1>1. /\ s \in Square /\ ColorOf(b[s]) = c /\ c \in Color /\ Forward(c) \in {-1, 1}
      /\ Opposite(c) \in Color /\ Forward(Opposite(c)) = -Forward(c)
  BY OccupiedIs, PositionFields, Colors
<1>2. /\ s = <<s[1], s[2]>> /\ t = <<t[1], t[2]>>
      /\ s[1] \in 0 .. 7 /\ s[2] \in 0 .. 7 /\ t[1] \in 0 .. 7 /\ t[2] \in 0 .. 7
  BY <1>1, Squares
<1>3. t \in Commands(b, s) <=> RankStep(s, t) = Forward(c) /\ Abs(FileStep(s, t)) = 1
  BY PawnCommands
<1>4. ep <=> /\ t \in Commands(b, s) /\ p.ep = t
             /\ b[<<t[1], s[2]>>] = <<Opposite(c), "PAWN">>
  BY <1>1, <1>3 DEF IsEnPassantCaptureMove
<1>5. Abs(FileStep(s, t)) = 1 => s[1] # t[1]
  BY <1>2 DEF Abs, FileStep
<1>6. CASE p.ep = None /\ Runner(p) = {}
  <2>1. p.ep # t /\ Passed(p) = {}
    BY <1>6, NoneIsOutside DEF Passed
  <2> QED
    BY <1>4, <2>1
<1>7. ASSUME NEW r \in Square, Runner(p) = {r}, b[r] = <<Opposite(c), "PAWN">>,
             p.ep = <<r[1], r[2] - Forward(Opposite(c))>>, p.ep \in Square, b[p.ep] = Empty
      PROVE  /\ ep <=> t \in Commands(b, s) /\ t \in Passed(p)
             /\ ep => Runner(p) = {<<t[1], s[2]>>} /\ b[t] = Empty /\ s[1] # t[1]
             /\ t \in Passed(p) => b[t] = Empty
  <2>1. r = <<r[1], r[2]>> /\ r[1] \in 0 .. 7 /\ r[2] \in 0 .. 7
    BY Squares
  <2>2. Passed(p) = {p.ep}
    BY <1>7 DEF Passed, ColorOf
  <2>3. ASSUME t \in Commands(b, s), p.ep = t PROVE <<t[1], s[2]>> = r
    <3>1. t[1] = r[1] /\ t[2] = r[2] + Forward(c) /\ t[2] - s[2] = Forward(c)
      BY <1>1, <1>3, <1>7, <2>1, <2>3 DEF RankStep
    <3> QED
      BY <1>1, <1>2, <2>1, <3>1
  <2> QED
    BY <1>3, <1>4, <1>5, <1>7, <2>2, <2>3
<1> QED
  BY <1>6, <1>7 DEF Chased

\* The pseudo-legal moves of a pawn are its targets.
LEMMA PawnTargets ==
  ASSUME NEW p \in Position, Chased(p), NEW s \in Occupied(p.board, p.turn),
         KindOf(p.board[s]) = "PAWN", NEW t \in Square
  PROVE  t \in Targets(p, s) <=> IsPseudoLegalMove(p, p.board[s], s, t)
<1> DEFINE b == p.board  c == p.turn  f == Forward(c)
           one == <<s[1], s[2] + f>>  two == <<s[1], s[2] + 2 * f>>
           ep == IsEnPassantCaptureMove(p, b[s], s, t)
<1>1. /\ s \in Square /\ ColorOf(b[s]) = c /\ b[s] # Empty /\ c \in Color /\ f \in {-1, 1}
      /\ Opposite(c) \in Color /\ Opposite(c) # c /\ c # "UNASSIGNED" /\ b \in Board
      /\ \A e \in Color : e = c \/ e = Opposite(c)
  BY OccupiedIs, PositionFields, Colors
<1>2. /\ s = <<s[1], s[2]>> /\ t = <<t[1], t[2]>>
      /\ s[1] \in 0 .. 7 /\ s[2] \in 0 .. 7 /\ t[1] \in 0 .. 7 /\ t[2] \in 0 .. 7
  BY <1>1, Squares
<1>3. b[t] = Empty <=> ColorOf(b[t]) = "UNASSIGNED"
  BY <1>1, Pieces DEF Board
<1>4. b[t] = Empty \/ ColorOf(b[t]) \in Color
  BY <1>1, Pieces DEF Board
<1>5. t \in Pushes(p, s) <=>
        /\ FileStep(s, t) = 0 /\ b[t] = Empty
        /\ \/ RankStep(s, t) = f
           \/ s[2] = PawnRank(c) /\ RankStep(s, t) = 2 * f /\ b[one] = Empty
  <2>1. t = one <=> FileStep(s, t) = 0 /\ RankStep(s, t) = f
    BY <1>1, <1>2 DEF FileStep, RankStep
  <2>2. t = two <=> FileStep(s, t) = 0 /\ RankStep(s, t) = 2 * f
    BY <1>1, <1>2 DEF FileStep, RankStep
  <2>3. one # two
    BY <1>1, <1>2
  <2>4. t \in Pushes(p, s) <=> /\ t \in {one, two} /\ b[one] = Empty
                               /\ t = two => s[2] = PawnRank(c) /\ b[two] = Empty
    BY <1>1 DEF Pushes
  <2> HIDE DEF one, two, f
  <2> QED
    BY <2>1, <2>2, <2>3, <2>4
<1>6. /\ ep <=> t \in Commands(b, s) /\ t \in Passed(p)
      /\ t \in Passed(p) => b[t] = Empty
      /\ t \in Commands(b, s) <=> RankStep(s, t) = f /\ Abs(FileStep(s, t)) = 1
  BY PassingIs, PawnCommands
<1>7. t \in Targets(p, s) <=>
        \/ t \in Pushes(p, s)
        \/ t \in Commands(b, s) /\ (ColorOf(b[t]) = Opposite(c) \/ t \in Passed(p))
  BY <1>1 DEF Targets, Occupied
<1>8. IsPseudoLegalMove(p, b[s], s, t) <=>
        /\ s # t /\ ColorOf(b[t]) # c
        /\ \/ /\ FileStep(s, t) = 0 /\ b[t] = Empty
              /\ \/ RankStep(s, t) = f
                 \/ s[2] = PawnRank(c) /\ RankStep(s, t) = 2 * f /\ b[one] = Empty
           \/ /\ Abs(FileStep(s, t)) = 1 /\ RankStep(s, t) = f
              /\ b[t] # Empty \/ ep
  BY <1>1 DEF IsPseudoLegalMove, PawnMove
<1>9. RankStep(s, t) \in {f, 2 * f} => s # t
  BY <1>1, <1>2 DEF RankStep
<1>10. /\ ColorOf(b[t]) = Opposite(c) <=> b[t] # Empty /\ ColorOf(b[t]) # c
       /\ b[t] = Empty => ColorOf(b[t]) # c
  <2>1. Opposite(c) # "UNASSIGNED"
    BY <1>1, Colors
  <2> HIDE DEF b, c, f
  <2>2. \A e \in Color : e = c \/ e = Opposite(c)
    BY <1>1
  <2>3. Opposite(c) # c /\ c # "UNASSIGNED"
    BY <1>1
  <2> QED
    BY <1>3, <1>4, <2>1, <2>2, <2>3
<1>11. t \in Pushes(p, s) => s # t /\ ColorOf(b[t]) # c
  BY <1>5, <1>9, <1>10
<1>12. t \in Commands(b, s) => s # t
  BY <1>6, <1>9
<1> DEFINE push == /\ FileStep(s, t) = 0 /\ b[t] = Empty
                   /\ \/ RankStep(s, t) = f
                      \/ s[2] = PawnRank(c) /\ RankStep(s, t) = 2 * f /\ b[one] = Empty
           take == RankStep(s, t) = f /\ Abs(FileStep(s, t)) = 1
<1>13. /\ t \in Pushes(p, s) <=> push
       /\ t \in Commands(b, s) <=> take
       /\ IsPseudoLegalMove(p, b[s], s, t) <=>
            s # t /\ ColorOf(b[t]) # c /\ (push \/ (take /\ (b[t] # Empty \/ ep)))
  BY <1>5, <1>6, <1>8
<1> HIDE DEF b, c, f, one, two, ep, push, take
<1>14. t \in Targets(p, s) <=> IsPseudoLegalMove(p, b[s], s, t)
  BY <1>6, <1>7, <1>10, <1>11, <1>12, <1>13
<1> QED
  BY <1>14 DEF b

\* The squares a piece may go to, castling aside.
LEMMA TargetsArePseudoLegal ==
  ASSUME NEW p \in Position, Chased(p), NEW s \in Occupied(p.board, p.turn), NEW t \in Square
  PROVE  t \in Targets(p, s) <=> /\ IsPseudoLegalMove(p, p.board[s], s, t)
                                 /\ ~IsCastlingKingMove(p.board[s], s, t)
<1> DEFINE b == p.board  c == p.turn
<1>1. /\ s \in Square /\ ColorOf(b[s]) = c /\ b[s] # Empty /\ b[s] \in Piece
      /\ KindOf(b[s]) \in Kind /\ b \in Board /\ c \in Color
  BY OccupiedIs, PositionFields, Pieces
<1>2. CASE KindOf(b[s]) = "PAWN"
  <2>1. ~IsCastlingKingMove(b[s], s, t)
    BY <1>2 DEF IsCastlingKingMove
  <2> QED
    BY <1>2, <2>1, PawnTargets
<1>3. ASSUME KindOf(b[s]) # "PAWN"
      PROVE  t \in Targets(p, s) <=> s # t /\ ColorOf(b[t]) # c /\ AttacksSquare(b, s, t)
  <2>1. t \in Targets(p, s) <=> t \in Commands(b, s) /\ ColorOf(b[t]) # c
    BY <1>1, <1>3 DEF Targets, Occupied
  <2>2. t \in Commands(b, s) => s # t
    BY <1>1, CommandsElsewhere
  <2>3. s # t => (AttacksSquare(b, s, t) <=> t \in Commands(b, s))
    BY <1>1, AttackIsCommand
  <2> QED
    BY <2>1, <2>2, <2>3
<1>4. CASE KindOf(b[s]) = "KING"
  <2>1. AttacksSquare(b, s, t) <=> KingStep(s, t)
    BY <1>4 DEF AttacksSquare
  <2>2. KingStep(s, t) => ~IsCastlingKingMove(b[s], s, t)
    <3>1. /\ s = <<s[1], s[2]>> /\ t = <<t[1], t[2]>>
          /\ s[1] \in 0 .. 7 /\ s[2] \in 0 .. 7 /\ t[1] \in 0 .. 7 /\ t[2] \in 0 .. 7
      BY <1>1, Squares
    <3>2. IsCastlingKingMove(b[s], s, t) => s[1] = 4 /\ t[1] \in {2, 6}
      BY DEF IsCastlingKingMove
    <3> QED
      BY <3>1, <3>2 DEF KingStep, FileStep, Abs
  <2>3. CanCastle(p, c, s, t) => IsCastlingKingMove(b[s], s, t)
    <3>1. t = <<t[1], t[2]>>
      BY Squares
    <3> QED
      BY <1>1, <1>4, <3>1 DEF CanCastle, IsCastlingKingMove
  <2>4. IsPseudoLegalMove(p, b[s], s, t) <=>
          s # t /\ ColorOf(b[t]) # c /\ (KingStep(s, t) \/ CanCastle(p, c, s, t))
    BY <1>1, <1>4 DEF IsPseudoLegalMove
  <2> QED
    BY <1>3, <1>4, <2>1, <2>2, <2>3, <2>4
<1>5. CASE KindOf(b[s]) \notin {"PAWN", "KING"}
  <2>1. ~IsCastlingKingMove(b[s], s, t)
    BY <1>5 DEF IsCastlingKingMove
  <2>2. IsPseudoLegalMove(p, b[s], s, t) <=>
          s # t /\ ColorOf(b[t]) # c /\ AttacksSquare(b, s, t)
    BY <1>1, <1>5 DEF IsPseudoLegalMove
  <2> QED
    BY <1>3, <1>5, <2>1, <2>2
<1> QED
  BY <1>2, <1>4, <1>5

\* Nothing goes off the board.
LEMMA TargetsOnBoard ==
  ASSUME NEW p \in Position, NEW s \in Occupied(p.board, p.turn)
  PROVE  Targets(p, s) \subseteq Square
<1>1. s \in Square /\ p.board[s] # Empty /\ p.board \in Board
  BY OccupiedIs, PositionFields
<1> QED
  BY <1>1, CommandsElsewhere DEF Targets, Pushes

-----------------------------------------------------------------------------
(* The moves of the code are the moves of chess *)

\* The board the code looks for a check on, and the one chess does.
LEMMA AfterIsMoved ==
  ASSUME NEW p \in Position, Chased(p), NEW s \in Occupied(p.board, p.turn),
         NEW t \in Targets(p, s), NEW q, PromotionFits(p.board[s], t, q)
  PROVE  /\ SameToOthers(MovedBoard(p, s, t, q), After(p, s, t), p.turn)
         /\ MovedBoard(p, s, t, q) \in Board /\ After(p, s, t) \in Board
<1> DEFINE b == p.board  c == p.turn  e == MovedBoard(p, s, t, q)  a == After(p, s, t)
           put == Placed(b[s], t, q)
<1>1. /\ s \in Square /\ ColorOf(b[s]) = c /\ b[s] # Empty /\ b[s] \in Piece
      /\ b \in Board /\ c \in Color /\ t \in Square
  BY OccupiedIs, PositionFields, TargetsOnBoard
<1>2. IsPseudoLegalMove(p, b[s], s, t) /\ ~IsCastlingKingMove(b[s], s, t)
  BY <1>1, TargetsArePseudoLegal
<1>3. s # t
  BY <1>2 DEF IsPseudoLegalMove
<1>4. /\ put # Empty /\ put \in Piece /\ ColorOf(put) = c
      /\ put = <<c, "KING">> <=> b[s] = <<c, "KING">>
  BY <1>1, PlacedIs
<1>5. c # Opposite(c)
  BY <1>1, Colors
<1>6. CASE IsEnPassantCaptureMove(p, b[s], s, t)
  <2> DEFINE v == <<t[1], s[2]>>
  <2>1. /\ e \in Board /\ v \in Square /\ v # s /\ v # t
        /\ e[s] = Empty /\ e[t] = put /\ e[v] = Empty
        /\ \A x \in Square \ {s, t, v} : e[x] = b[x]
    <3>1. p.board \in Board /\ s \in Square /\ t \in Square /\ s # t /\ p.board[s] # Empty
      BY <1>1, <1>3
    <3>2. IsEnPassantCaptureMove(p, p.board[s], s, t) /\ PromotionFits(p.board[s], t, q)
      BY <1>6
    <3> QED
      BY <3>1, <3>2, MovedPassing
  <2>2. KindOf(b[s]) = "PAWN"
    BY <1>6 DEF IsEnPassantCaptureMove
  <2>3. Runner(p) = {v} /\ s[1] # t[1] /\ t \in Passed(p)
    BY <1>1, <1>6, <2>2, PassingIs
  <2>4. a = [x \in Square |-> IF x = t THEN b[s] ELSE IF x \in {s} \cup {v} THEN Empty ELSE b[x]]
    BY <2>2, <2>3 DEF After
  <2> HIDE DEF e, a, put, v, b, c
  <2>5. /\ a[s] = Empty /\ a[t] = b[s] /\ a[v] = Empty /\ a \in Board
        /\ \A x \in Square \ {s, t, v} : a[x] = b[x]
    BY <1>1, <1>3, <2>1, <2>4 DEF Board
  <2>6. SameToOthers(e, a, c)
    BY <1>1, <1>4, <1>5, <2>1, <2>5 DEF SameToOthers
  <2> QED
    BY <2>1, <2>5, <2>6 DEF e, a, c
<1>7. CASE ~IsEnPassantCaptureMove(p, b[s], s, t)
  <2>1. /\ e \in Board
        /\ e[s] = Empty /\ e[t] = put
        /\ \A x \in Square \ {s, t} : e[x] = b[x]
    BY <1>1, <1>2, <1>3, <1>7, MovedPlain
  <2>2. ~(KindOf(b[s]) = "PAWN" /\ t \in Passed(p) /\ s[1] # t[1])
    <3> SUFFICES ASSUME KindOf(b[s]) = "PAWN", t \in Passed(p), s[1] # t[1] PROVE FALSE
      OBVIOUS
    <3>1. t \notin Commands(b, s)
      BY <1>1, <1>7, PassingIs
    <3>2. ~(RankStep(s, t) = Forward(c) /\ Abs(FileStep(s, t)) = 1)
      BY <1>1, <3>1, PawnCommands
    <3>3. FileStep(s, t) = 0
      BY <1>1, <1>2, <3>2 DEF IsPseudoLegalMove, PawnMove
    <3>4. s[1] \in 0 .. 7 /\ t[1] \in 0 .. 7
      BY <1>1, Squares
    <3> QED
      BY <3>3, <3>4 DEF FileStep
  <2>3. a = [x \in Square |-> IF x = t THEN b[s] ELSE IF x \in {s} \cup {} THEN Empty ELSE b[x]]
    BY <2>2 DEF After
  <2> HIDE DEF e, a, put, b, c
  <2>4. /\ a[s] = Empty /\ a[t] = b[s] /\ a \in Board
        /\ \A x \in Square \ {s, t} : a[x] = b[x]
    BY <1>1, <1>3, <2>3 DEF Board
  <2>5. SameToOthers(e, a, c)
    BY <1>1, <1>4, <1>5, <2>1, <2>4 DEF SameToOthers
  <2> QED
    BY <2>1, <2>4, <2>5 DEF e, a, c
<1> QED
  BY <1>6, <1>7

\* A move that does not castle is legal if and only if it is one of chess.
LEMMA OrdinaryLegal ==
  ASSUME NEW p \in Position, Chased(p), NEW s \in Occupied(p.board, p.turn),
         NEW t \in Square, NEW q, ~IsCastlingKingMove(p.board[s], s, t)
  PROVE  IsLegalMove(p, p.turn, s, t, q) <=>
           /\ t \in Targets(p, s) /\ PromotionFits(p.board[s], t, q)
           /\ ~InCheck(After(p, s, t), p.turn)
<1>1. ColorOf(p.board[s]) = p.turn /\ p.turn \in Color
  BY OccupiedIs, PositionFields
<1>2. t \in Targets(p, s) <=> IsPseudoLegalMove(p, p.board[s], s, t)
  BY TargetsArePseudoLegal
<1>3. ASSUME t \in Targets(p, s), PromotionFits(p.board[s], t, q)
      PROVE  IsKingInCheck(MovedBoard(p, s, t, q), p.turn) <=> InCheck(After(p, s, t), p.turn)
  <2>1. /\ SameToOthers(MovedBoard(p, s, t, q), After(p, s, t), p.turn)
        /\ After(p, s, t) \in Board
    BY <1>3, AfterIsMoved
  <2> QED
    BY <1>1, <2>1, SameCheck, CheckIsCheck
<1> QED
  BY <1>1, <1>2, <1>3 DEF IsLegalMove

\* A castling right is one of a king and a rook at home.
Homes(p) ==
  \A r \in p.castle :
    /\ p.board[Home(r[1])] = <<r[1], "KING">>
    /\ p.board[Corner(r[1], r[2])] = <<r[1], "ROOK">>

\* The right is there, the way is free, and the king is nowhere attacked on it.
CastlingOpen(p, f) ==
  /\ <<p.turn, f>> \in p.castle
  /\ \A g \in Inside(f) : p.board[<<g, BackRank(p.turn)>>] = Empty
  /\ \A g \in Crossed(f) :
       <<g, BackRank(p.turn)>> \notin Commanded(p.board, Opposite(p.turn))

\* The code accepts castling exactly when right, way and attacks allow it.
LEMMA CastlingLegal ==
  ASSUME NEW p \in Position, Homes(p), OneKing(p.board, p.turn), NEW f \in {2, 6}, NEW q,
         p.board[Home(p.turn)] = <<p.turn, "KING">>
  PROVE  IsLegalMove(p, p.turn, Home(p.turn), Goal(p.turn, f), q) <=>
           q = "NONE" /\ CastlingOpen(p, f)
<1> DEFINE b == p.board  c == p.turn  s == Home(c)  t == Goal(c, f)  row == BackRank(c)
           free == \A g \in Inside(f) : b[<<g, row>>] = Empty
           safe == \A g \in Crossed(f) : ~IsSquareAttacked(b, <<g, row>>, Opposite(c))
           quiet == \A g \in Crossed(f) : <<g, row>> \notin Commanded(b, Opposite(c))
<1>1. /\ c \in Color /\ Opposite(c) \in Color /\ Opposite(c) # c /\ Opposite(c) # "UNASSIGNED"
      /\ b \in Board /\ row \in 0 .. 7
  BY PositionFields, Colors
<1>2. /\ ColorOf(b[s]) = c /\ KindOf(b[s]) = "KING"
  BY DEF ColorOf, KindOf
<1>3. /\ s \in Square /\ t \in Square /\ s # t
      /\ s[1] = 4 /\ s[2] = row /\ t[1] = f /\ t[2] = row
      /\ s = <<4, row>> /\ t = <<f, row>>
  <2>1. s = <<4, row>> /\ t = <<f, row>>
    BY DEF Home, Goal
  <2> HIDE DEF s, t
  <2>2. s \in Square /\ t \in Square /\ s # t
    BY <1>1, CastlingSquares DEF s, t
  <2> QED
    BY <2>1, <2>2
<1>4. PromotionFits(b[s], t, q) <=> q = "NONE"
  BY <1>2, <1>3 DEF PromotionFits, IsPawnPromotionMove
<1>5. CanCastle(p, c, s, t) <=> <<c, f>> \in p.castle /\ free /\ safe
  <2>1. <<c, f>> \in p.castle => b[<<RookFile(f), row>>] = <<c, "ROOK">>
    BY DEF Homes, Corner
  <2> HIDE DEF s, t
  <2> QED
    BY <1>2, <1>3, <2>1 DEF CanCastle
<1>6. free => b[t] = Empty
  BY <1>2, <1>3 DEF Inside
<1>7. ASSUME free PROVE safe <=> quiet
  <2>1. ASSUME NEW g \in Crossed(f)
        PROVE  <<g, row>> \in Square /\ ColorOf(b[<<g, row>>]) # Opposite(c)
    <3>1. g \in 0 .. 7 /\ (g = 4 \/ g \in Inside(f))
      BY DEF Crossed, Inside
    <3>2. <<g, row>> \in Square
      BY <1>1, <3>1 DEF Square
    <3>3. ColorOf(Empty) = "UNASSIGNED"
      BY DEF ColorOf, Empty
    <3> QED
      BY <1>1, <1>2, <1>3, <1>7, <3>1, <3>2, <3>3
  <2> QED
    BY <1>1, <2>1, AttackedIsCommanded
<1>8. ~KingStep(s, t)
  BY <1>2, <1>3 DEF KingStep, FileStep, Abs
<1>9. IsPseudoLegalMove(p, b[s], s, t) <=> ColorOf(b[t]) # c /\ CanCastle(p, c, s, t)
  <2> HIDE DEF s, t
  <2> QED
    BY <1>2, <1>3, <1>8 DEF IsPseudoLegalMove
<1>10. free => ColorOf(b[t]) # c
  <2>1. ColorOf(Empty) = "UNASSIGNED" /\ c # "UNASSIGNED"
    BY <1>1, Colors DEF ColorOf, Empty
  <2> QED
    BY <1>6, <2>1
<1>11. ASSUME <<c, f>> \in p.castle, safe PROVE ~IsKingInCheck(MovedBoard(p, s, t, q), c)
  <2>1. b[Corner(c, f)] = <<c, "ROOK">>
    BY <1>11 DEF Homes
  <2>2. f \in Crossed(f)
    BY DEF Crossed
  <2>3. ~IsSquareAttacked(b, t, Opposite(c))
    BY <1>2, <1>3, <1>11, <2>2
  <2> QED
    BY <1>1, <2>1, <2>3, CastlingIsSafe
<1>12. IsLegalMove(p, c, s, t, q) <=>
         /\ q = "NONE" /\ IsPseudoLegalMove(p, b[s], s, t)
         /\ ~IsKingInCheck(MovedBoard(p, s, t, q), c)
  <2> HIDE DEF s, t
  <2> QED
    BY <1>2, <1>3, <1>4 DEF IsLegalMove
<1> HIDE DEF s, t, free, safe, quiet
<1>13. IsLegalMove(p, c, s, t, q) <=> q = "NONE" /\ <<c, f>> \in p.castle /\ free /\ quiet
  BY <1>5, <1>7, <1>9, <1>10, <1>11, <1>12
<1> QED
  BY <1>13 DEF s, t, free, quiet, CastlingOpen

\* The promotions that fit a move.
LEMMA PromotionsAreChoices ==
  ASSUME NEW x \in Piece, NEW t, NEW q
  PROVE  PromotionFits(x, t, q) <=>
           q \in IF KindOf(x) = "PAWN" /\ t[2] = BackRank(Opposite(ColorOf(x)))
                 THEN PromotionChoice ELSE {"NONE"}
BY DEF PromotionFits, IsPawnPromotionMove

\* A castling right says that its home squares are untouched.
LEMMA HistoryIsRight ==
  ASSUME RightsFollowHistory, NEW c \in Color, NEW f \in {2, 6}
  PROVE  <<c, f>> \in pos.castle <=> {Home(c), Corner(c, f)} \cap touched = {}
<1>1. <<c, f>> \in Right /\ <<c, f>>[1] = c /\ <<c, f>>[2] = f
  BY DEF Right
<1>2. RookHome(<<c, f>>) = Corner(c, f) /\ <<4, BackRank(c)>> = Home(c)
  BY DEF RookHome, Corner, Home
<1> QED
  BY <1>1, <1>2 DEF RightsFollowHistory

\* What a legal move is made of, castling aside.
ChessStep(p, s, t, q) ==
  /\ t \in Targets(p, s) /\ PromotionFits(p.board[s], t, q)
  /\ ~InCheck(After(p, s, t), p.turn)

\* The moves of chess, one by one.
LEMMA ChessMovesAre ==
  ASSUME NEW p \in Position, NEW m
  PROVE  m \in ChessMoves(p) <=>
           \/ \E s \in Occupied(p.board, p.turn), t \in Square, q \in Promotion :
                m = <<s, t, q>> /\ ChessStep(p, s, t, q)
           \/ \E f \in {2, 6} :
                m = <<Home(p.turn), Goal(p.turn, f), "NONE">> /\ CastlingAllowed(p, p.turn, f)
<1> DEFINE c == p.turn
           choices(s, t) == IF KindOf(p.board[s]) = "PAWN" /\ t[2] = BackRank(Opposite(c))
                            THEN PromotionChoice ELSE {"NONE"}
           safe(s) == {t \in Targets(p, s) : ~InCheck(After(p, s, t), c)}
           ordinary == UNION {UNION {{<<s, t, q>> : q \in choices(s, t)} : t \in safe(s)}
                                : s \in Occupied(p.board, c)}
           castlings == {<<<<4, BackRank(c)>>, <<f, BackRank(c)>>, "NONE">>
                           : f \in {g \in {2, 6} : CastlingAllowed(p, c, g)}}
<1>1. ChessMoves(p) = ordinary \cup castlings
  BY DEF ChessMoves
<1>2. ASSUME NEW s \in Occupied(p.board, c), NEW t, NEW q
      PROVE  t \in safe(s) /\ q \in choices(s, t) <=>
               t \in Square /\ q \in Promotion /\ ChessStep(p, s, t, q)
  <2>1. p.board[s] \in Piece /\ ColorOf(p.board[s]) = c
    BY OccupiedIs, PositionFields
  <2>2. PromotionFits(p.board[s], t, q) <=> q \in choices(s, t)
    BY <2>1, PromotionsAreChoices
  <2>3. q \in choices(s, t) => q \in Promotion
    BY DEF PromotionChoice, Promotion
  <2>4. Targets(p, s) \subseteq Square
    BY TargetsOnBoard
  <2> QED
    BY <2>2, <2>3, <2>4 DEF ChessStep
<1>3. m \in ordinary <=>
        \E s \in Occupied(p.board, c) : \E t \in safe(s) : \E q \in choices(s, t) : m = <<s, t, q>>
  OBVIOUS
<1> HIDE DEF safe, choices
<1>4. m \in ordinary <=>
        \E s \in Occupied(p.board, c), t \in Square, q \in Promotion :
          m = <<s, t, q>> /\ ChessStep(p, s, t, q)
  BY <1>2, <1>3
<1>5. m \in castlings <=>
        \E f \in {2, 6} : m = <<Home(c), Goal(c, f), "NONE">> /\ CastlingAllowed(p, c, f)
  BY DEF Home, Goal
<1> HIDE DEF ordinary, castlings
<1> QED
  BY <1>1, <1>4, <1>5

\* A castling move starts and ends at home.
LEMMA CastlingMoveIs ==
  ASSUME NEW x, NEW s, NEW t, IsCastlingKingMove(x, s, t)
  PROVE  /\ s = Home(ColorOf(x)) /\ KindOf(x) = "KING"
         /\ \E f \in {2, 6} : t = Goal(ColorOf(x), f)
BY DEF IsCastlingKingMove, Home, Goal

\* chess_gs_is_legal_move accepts the moves of chess and no other.
LEMMA LegalIsChess ==
  ASSUME pos \in Position, Chased(pos), Homes(pos), OneKing(pos.board, pos.turn),
         RightsFollowHistory
  PROVE  LegalMovesAreChess
<1> DEFINE b == pos.board  c == pos.turn
<1>1. c \in Color /\ b \in Board
  BY PositionFields
<1>2. ASSUME NEW f \in {2, 6}, b[Home(c)] = <<c, "KING">>, NEW q
      PROVE  IsLegalMove(pos, c, Home(c), Goal(c, f), q) <=> q = "NONE" /\ CastlingAllowed(pos, c, f)
  <2>1. IsLegalMove(pos, c, Home(c), Goal(c, f), q) <=> q = "NONE" /\ CastlingOpen(pos, f)
    BY <1>2, CastlingLegal
  <2>2. <<c, f>> \in pos.castle <=> {Home(c), Corner(c, f)} \cap touched = {}
    BY <1>1, HistoryIsRight
  <2>3. Home(c) = <<4, BackRank(c)>> /\ Corner(c, f) = <<RookFile(f), BackRank(c)>>
    BY DEF Home, Corner
  <2> QED
    BY <2>1, <2>2, <2>3 DEF CastlingAllowed, CastlingOpen
<1>3. ASSUME NEW m
      PROVE  m \in LegalMoves(pos) <=> m \in ChessMoves(pos)
  <2>1. m \in LegalMoves(pos) <=>
          \E s \in Occupied(b, c), t \in Square, q \in Promotion :
            m = <<s, t, q>> /\ IsLegalMove(pos, c, s, t, q)
    BY DEF LegalMoves
  <2>2. ASSUME NEW s \in Occupied(b, c), NEW t \in Square, NEW q \in Promotion,
               m = <<s, t, q>>, IsLegalMove(pos, c, s, t, q)
        PROVE  m \in ChessMoves(pos)
    <3>1. CASE IsCastlingKingMove(b[s], s, t)
      <4>1. ColorOf(b[s]) = c /\ b[s] \in Piece
        BY <1>1, OccupiedIs
      <4>2. s = Home(c) /\ b[s] = <<c, "KING">>
        BY <3>1, <4>1, CastlingMoveIs, Pieces
      <4>3. PICK f \in {2, 6} : t = Goal(c, f)
        BY <3>1, <4>1, CastlingMoveIs
      <4>4. q = "NONE" /\ CastlingAllowed(pos, c, f)
        BY <1>2, <2>2, <4>2, <4>3
      <4> QED
        BY <2>2, <4>2, <4>3, <4>4, ChessMovesAre
    <3>2. CASE ~IsCastlingKingMove(b[s], s, t)
      <4>1. ChessStep(pos, s, t, q)
        BY <2>2, <3>2, OrdinaryLegal DEF ChessStep
      <4> QED
        BY <2>2, <4>1, ChessMovesAre
    <3> QED
      BY <3>1, <3>2
  <2>3. ASSUME NEW s \in Occupied(b, c), NEW t \in Square, NEW q \in Promotion,
               m = <<s, t, q>>, ChessStep(pos, s, t, q)
        PROVE  m \in LegalMoves(pos)
    <3>1. ~IsCastlingKingMove(b[s], s, t)
      BY <2>3, TargetsArePseudoLegal DEF ChessStep
    <3>2. IsLegalMove(pos, c, s, t, q)
      BY <2>3, <3>1, OrdinaryLegal DEF ChessStep
    <3> QED
      BY <2>1, <2>3, <3>2
  <2>4. ASSUME NEW f \in {2, 6}, m = <<Home(c), Goal(c, f), "NONE">>, CastlingAllowed(pos, c, f)
        PROVE  m \in LegalMoves(pos)
    <3>1. <<c, f>> \in pos.castle
      <4>1. {Home(c), Corner(c, f)} \cap touched = {}
        BY <2>4 DEF CastlingAllowed, Home, Corner
      <4> QED
        BY <1>1, <4>1, HistoryIsRight
    <3>2. b[Home(c)] = <<c, "KING">>
      BY <3>1 DEF Homes
    <3>3. IsLegalMove(pos, c, Home(c), Goal(c, f), "NONE")
      BY <1>2, <2>4, <3>2
    <3>4. Home(c) \in Square /\ Goal(c, f) \in Square
      BY <1>1, CastlingSquares
    <3>5. Home(c) \in Occupied(b, c) /\ "NONE" \in Promotion
      BY <3>2, <3>4 DEF Occupied, ColorOf, Promotion
    <3> QED
      BY <2>1, <2>4, <3>3, <3>4, <3>5
  <2> QED
    BY <2>1, <2>2, <2>3, <2>4, ChessMovesAre
<1> QED
  BY <1>3 DEF LegalMovesAreChess

-----------------------------------------------------------------------------
(* What a legal move does to the board *)

\* A piece of c leaves s, and something of c stands on t; what stood on t, if
\* anything, is gone.
Lands(p, s, t, q) ==
  LET b == p.board
      e == MovedBoard(p, s, t, q)
  IN  /\ e \in Board /\ s # t
      /\ ColorOf(b[s]) = p.turn /\ ColorOf(b[t]) # p.turn
      /\ e[s] = Empty /\ e[t] \in Piece /\ ColorOf(e[t]) = p.turn
      /\ \A x \in Color : e[t] = <<x, "KING">> <=> b[s] = <<x, "KING">>

Plain(p, s, t, q) ==
  LET b == p.board
      e == MovedBoard(p, s, t, q)
  IN  /\ \A x \in Square \ {s, t} : e[x] = b[x]
      /\ ~IsEnPassantCaptureMove(p, b[s], s, t)
      /\ e[t] = Placed(b[s], t, q)

Passing(p, s, t, q) ==
  LET b == p.board
      e == MovedBoard(p, s, t, q)
      v == <<t[1], s[2]>>
  IN  /\ IsEnPassantCaptureMove(p, b[s], s, t)
      /\ v \in Square /\ v # s /\ v # t /\ e[v] = Empty /\ b[t] = Empty
      /\ b[v] = <<Opposite(p.turn), "PAWN">>
      /\ \A x \in Square \ {s, t, v} : e[x] = b[x]
      /\ e[t] = Placed(b[s], t, q)

Castles(p, s, t, q, f) ==
  LET b == p.board
      e == MovedBoard(p, s, t, q)
      c == p.turn
  IN  /\ s = Home(c) /\ t = Goal(c, f) /\ b[s] = <<c, "KING">>
      /\ e[t] = <<c, "KING">> /\ b[t] = Empty
      /\ b[Corner(c, f)] = <<c, "ROOK">> /\ e[Corner(c, f)] = Empty
      /\ e[Hop(c, f)] = <<c, "ROOK">> /\ b[Hop(c, f)] = Empty
      /\ \A x \in Square \ {s, Corner(c, f), t, Hop(c, f)} : e[x] = b[x]
      /\ <<c, f>> \in p.castle

Move(p, s, t, q) ==
  /\ s \in Occupied(p.board, p.turn) /\ t \in Square /\ IsLegalMove(p, p.turn, s, t, q)

\* What is known of a position.
Sound(p) ==
  /\ p \in Position /\ Chased(p) /\ Homes(p) /\ \A c \in Color : OneKing(p.board, c)
  /\ ~IsKingInCheck(p.board, Opposite(p.turn))

\* The three ways a move changes the board.
LEMMA MoveEffect ==
  ASSUME NEW p, Sound(p), NEW s, NEW t, NEW q, Move(p, s, t, q)
  PROVE  /\ Lands(p, s, t, q)
         /\ Plain(p, s, t, q) \/ Passing(p, s, t, q) \/ \E f \in {2, 6} : Castles(p, s, t, q, f)
<1> DEFINE b == p.board  c == p.turn  e == MovedBoard(p, s, t, q)
<1>1. /\ c \in Color /\ b \in Board /\ s \in Square /\ t \in Square
      /\ ColorOf(b[s]) = c /\ b[s] \in Piece /\ b[s] # Empty /\ p \in Position
      /\ s \in Occupied(b, c)
  BY OccupiedIs, PositionFields DEF Move, Sound
<1>2. /\ PromotionFits(b[s], t, q) /\ s # t /\ ColorOf(b[t]) # c
      /\ IsPseudoLegalMove(p, b[s], s, t)
  BY DEF Move, IsLegalMove, IsPseudoLegalMove
<1>3. /\ Placed(b[s], t, q) \in Piece /\ ColorOf(Placed(b[s], t, q)) = c
      /\ \A x \in Color : Placed(b[s], t, q) = <<x, "KING">> <=> b[s] = <<x, "KING">>
  BY <1>1, <1>2, PlacedIs
<1>4. CASE IsEnPassantCaptureMove(p, b[s], s, t)
  <2> DEFINE v == <<t[1], s[2]>>
  <2>1. /\ e \in Board /\ v \in Square /\ v # s /\ v # t
        /\ b[v] = <<Opposite(ColorOf(b[s])), "PAWN">>
        /\ e[s] = Empty /\ e[t] = Placed(b[s], t, q) /\ e[v] = Empty
        /\ \A x \in Square \ {s, t, v} : e[x] = b[x]
    BY <1>1, <1>2, <1>4, MovedPassing
  <2>2. b[t] = Empty
    <3>1. KindOf(b[s]) = "PAWN"
      BY <1>4 DEF IsEnPassantCaptureMove
    <3> QED
      BY <1>1, <1>4, <3>1, PassingIs DEF Sound
  <2>3. Lands(p, s, t, q)
    BY <1>1, <1>2, <1>3, <2>1 DEF Lands
  <2>4. Passing(p, s, t, q)
    BY <1>1, <1>4, <2>1, <2>2 DEF Passing
  <2> QED
    BY <2>3, <2>4
<1>5. CASE IsCastlingKingMove(b[s], s, t)
  <2>1. s = Home(c) /\ b[s] = <<c, "KING">>
    BY <1>1, <1>5, CastlingMoveIs, Pieces
  <2>2. PICK f \in {2, 6} : t = Goal(c, f)
    BY <1>1, <1>5, CastlingMoveIs
  <2>3. /\ e \in Board /\ e[s] = Empty /\ e[Corner(c, f)] = Empty
        /\ e[t] = <<c, "KING">> /\ e[Hop(c, f)] = b[Corner(c, f)]
        /\ \A x \in Square \ {s, Corner(c, f), t, Hop(c, f)} : e[x] = b[x]
    BY <1>1, <2>1, <2>2, MovedCastling
  <2>4. CastlingOpen(p, f)
    <3>1. OneKing(b, c) /\ Homes(p)
      BY <1>1 DEF Sound
    <3>2. IsLegalMove(p, p.turn, Home(p.turn), Goal(p.turn, f), q)
      BY <2>1, <2>2 DEF Move
    <3> QED
      BY <1>1, <2>1, <3>1, <3>2, CastlingLegal
  <2>5. <<c, f>> \in p.castle /\ b[Corner(c, f)] = <<c, "ROOK">>
    BY <2>4 DEF CastlingOpen, Sound, Homes
  <2>6. b[t] = Empty /\ b[Hop(c, f)] = Empty
    BY <2>2, <2>4 DEF CastlingOpen, Inside, Goal, Hop
  <2>7. Castles(p, s, t, q, f)
    BY <2>1, <2>2, <2>3, <2>5, <2>6 DEF Castles
  <2>8. /\ <<c, "KING">> \in Piece /\ ColorOf(<<c, "KING">>) = c
    BY <1>1 DEF Piece, Kind, ColorOf
  <2>9. Lands(p, s, t, q)
    BY <1>1, <1>2, <2>1, <2>3, <2>8 DEF Lands
  <2> QED
    BY <2>7, <2>9
<1>6. CASE ~IsEnPassantCaptureMove(p, b[s], s, t) /\ ~IsCastlingKingMove(b[s], s, t)
  <2>1. /\ e \in Board
        /\ e[s] = Empty /\ e[t] = Placed(b[s], t, q)
        /\ \A x \in Square \ {s, t} : e[x] = b[x]
    BY <1>1, <1>2, <1>6, MovedPlain
  <2>2. Lands(p, s, t, q)
    BY <1>1, <1>2, <1>3, <2>1 DEF Lands
  <2>3. Plain(p, s, t, q)
    BY <1>6, <2>1 DEF Plain
  <2> QED
    BY <2>2, <2>3
<1> QED
  BY <1>4, <1>5, <1>6

\* No king is ever taken: the side to move would have been giving check.
LEMMA NoKingTaken ==
  ASSUME NEW p, Sound(p), NEW s, NEW t, NEW q, Move(p, s, t, q)
  PROVE  \A x \in Color : p.board[t] # <<x, "KING">>
<1> DEFINE b == p.board  c == p.turn
<1>1. /\ c \in Color /\ b \in Board /\ s \in Square /\ t \in Square
      /\ ColorOf(b[s]) = c /\ b[s] \in Piece /\ Opposite(c) \in Color
      /\ s \in Occupied(b, c) /\ KindOf(b[s]) \in Kind
      /\ \A x \in Color : x = c \/ x = Opposite(c)
      /\ Opposite(Opposite(c)) = c
  BY OccupiedIs, PositionFields, Colors, Pieces DEF Move, Sound
<1>2. ColorOf(b[t]) # c /\ IsPseudoLegalMove(p, b[s], s, t)
  BY DEF Move, IsLegalMove, IsPseudoLegalMove
<1> SUFFICES ASSUME NEW x \in Color, b[t] = <<x, "KING">>
             PROVE  FALSE
  OBVIOUS
<1>3. b[t] = <<Opposite(c), "KING">>
  <2>1. ColorOf(b[t]) = x
    BY DEF ColorOf
  <2> QED
    BY <1>1, <1>2, <2>1
<1>4. b[t] # Empty /\ KindOf(b[t]) = "KING"
  BY <1>3 DEF Empty, KindOf
<1>5. AttacksSquare(b, s, t)
  <2>1. CASE KindOf(b[s]) = "PAWN"
    <3>1. PawnMove(p, b[s], s, t)
      BY <1>2, <2>1 DEF IsPseudoLegalMove
    <3>2. Abs(FileStep(s, t)) = 1 /\ RankStep(s, t) = Forward(ColorOf(b[s]))
      BY <1>4, <3>1 DEF PawnMove
    <3> QED
      BY <2>1, <3>2 DEF AttacksSquare
  <2>2. CASE KindOf(b[s]) = "KING"
    <3>1. ~CanCastle(p, c, s, t)
      <4> SUFFICES ASSUME CanCastle(p, c, s, t) PROVE FALSE
        OBVIOUS
      <4>1. t[2] = BackRank(c) /\ t[1] \in Inside(t[1]) /\ t = <<t[1], t[2]>>
        BY <1>1, Squares DEF CanCastle, Inside
      <4>2. b[<<t[1], BackRank(c)>>] = Empty
        BY <4>1 DEF CanCastle
      <4> QED
        BY <1>4, <4>1, <4>2
    <3>2. KingStep(s, t)
      BY <1>1, <1>2, <2>2, <3>1 DEF IsPseudoLegalMove
    <3> QED
      BY <2>2, <3>2 DEF AttacksSquare
  <2>3. CASE KindOf(b[s]) \notin {"PAWN", "KING"}
    BY <1>2, <2>3 DEF IsPseudoLegalMove
  <2> QED
    BY <2>1, <2>2, <2>3
<1>6. IsKingInCheck(b, Opposite(c))
  BY <1>1, <1>3, <1>5 DEF IsKingInCheck, IsSquareAttacked
<1> QED
  BY <1>6 DEF Sound

-----------------------------------------------------------------------------
(* The position after a move *)

\* Legality looks at the board and at the flags of castling and taking in passing.
LEMMA SameLegal ==
  ASSUME NEW p, NEW o, p.board = o.board, p.castle = o.castle, p.ep = o.ep,
         NEW c, NEW s, NEW t, NEW q
  PROVE  IsLegalMove(p, c, s, t, q) <=> IsLegalMove(o, c, s, t, q)
<1>1. \A x : IsEnPassantCaptureMove(p, x, s, t) <=> IsEnPassantCaptureMove(o, x, s, t)
  BY DEF IsEnPassantCaptureMove
<1>2. \A x : IsPseudoLegalMove(p, x, s, t) <=> IsPseudoLegalMove(o, x, s, t)
  <2>1. \A x : PawnMove(p, x, s, t) <=> PawnMove(o, x, s, t)
    BY <1>1 DEF PawnMove
  <2>2. \A x : CanCastle(p, x, s, t) <=> CanCastle(o, x, s, t)
    BY DEF CanCastle
  <2> QED
    BY <2>1, <2>2 DEF IsPseudoLegalMove
<1>3. MovedBoard(p, s, t, q) = MovedBoard(o, s, t, q)
  BY <1>1 DEF MovedBoard
<1> QED
  BY <1>2, <1>3 DEF IsLegalMove

LEMMA SameMoves ==
  ASSUME NEW p, NEW o, p.board = o.board, p.castle = o.castle, p.ep = o.ep, NEW c
  PROVE  HasAnyLegalMove(p, c) <=> HasAnyLegalMove(o, c)
BY SameLegal DEF HasAnyLegalMove

\* The result of position p with colour c to move, when there was none before.
ResultOf(p, c) ==
  IF p.halfmove >= 100 THEN "FIFTY_MOVE_RULE"
  ELSE IF HasAnyLegalMove(p, c) THEN "NONE"
  ELSE IF ~IsKingInCheck(p.board, c) THEN "STALEMATE"
  ELSE IF c = "WHITE" THEN "CHECKMATE_BLACK_WINS" ELSE "CHECKMATE_WHITE_WINS"

Half(p, s, t) ==
  IF KindOf(p.board[s]) = "PAWN" \/ p.board[t] # Empty THEN 0 ELSE p.halfmove + 1

\* apply_move, field by field: the result is that of the new position.
LEMMA Applied ==
  ASSUME NEW p, p.outcome = "NONE", NEW s, NEW t, NEW q
  PROVE  LET n == ApplyMove(p, s, t, q)
         IN  /\ n.board = MovedBoard(p, s, t, q)
             /\ n.turn = Opposite(p.turn)
             /\ n.castle = CastleRightsAfter(p, s, t)
             /\ n.ep = EnPassantTarget(p.board[s], s, t)
             /\ n.halfmove = Half(p, s, t)
             /\ n.captured = CapturedAfter(p, s, t)
             /\ n.last = <<s, t>>
             /\ n.outcome = ResultOf(n, n.turn)
             /\ n = [board |-> n.board, turn |-> n.turn, castle |-> n.castle, ep |-> n.ep,
                     halfmove |-> n.halfmove, captured |-> n.captured,
                     outcome |-> n.outcome, last |-> n.last]
<1> DEFINE m == [board    |-> MovedBoard(p, s, t, q),
                 turn     |-> Opposite(p.turn),
                 castle   |-> CastleRightsAfter(p, s, t),
                 ep       |-> EnPassantTarget(p.board[s], s, t),
                 halfmove |-> Half(p, s, t),
                 captured |-> CapturedAfter(p, s, t),
                 outcome  |-> p.outcome,
                 last     |-> <<s, t>>]
           n == ApplyMove(p, s, t, q)
<1>1. n = [m EXCEPT !.outcome = BoardOutcome(m, m.turn)]
  BY DEF ApplyMove, Half
<1> HIDE DEF n
<1>2. /\ n.board = m.board /\ n.turn = m.turn /\ n.castle = m.castle /\ n.ep = m.ep
      /\ n.halfmove = m.halfmove /\ n.captured = m.captured /\ n.last = m.last
      /\ n.outcome = BoardOutcome(m, m.turn)
      /\ n = [board |-> n.board, turn |-> n.turn, castle |-> n.castle, ep |-> n.ep,
              halfmove |-> n.halfmove, captured |-> n.captured,
              outcome |-> n.outcome, last |-> n.last]
  BY <1>1
<1>3. m.outcome = "NONE"
  OBVIOUS
<1>4. /\ m.board = MovedBoard(p, s, t, q) /\ m.turn = Opposite(p.turn)
      /\ m.castle = CastleRightsAfter(p, s, t) /\ m.ep = EnPassantTarget(p.board[s], s, t)
      /\ m.halfmove = Half(p, s, t) /\ m.captured = CapturedAfter(p, s, t)
      /\ m.last = <<s, t>>
  OBVIOUS
<1> HIDE DEF m
<1>5. HasAnyLegalMove(m, m.turn) <=> HasAnyLegalMove(n, m.turn)
  BY <1>2, SameMoves
<1>6. BoardOutcome(m, m.turn) = ResultOf(n, n.turn)
  BY <1>2, <1>3, <1>5 DEF BoardOutcome, ResultOf
<1> QED
  BY <1>2, <1>4, <1>6 DEF n

-----------------------------------------------------------------------------
(* Every legal move keeps a sound position sound *)

\* What is known of a sound position and of a legal move in it.
LEMMA CountedFields ==
  ASSUME NEW p, Sound(p), NEW s, NEW t, NEW q, Move(p, s, t, q)
  PROVE  /\ p.turn \in Color /\ Opposite(p.turn) \in Color /\ Opposite(p.turn) # p.turn
         /\ Opposite(Opposite(p.turn)) = p.turn
         /\ \A x \in Color : x = p.turn \/ x = Opposite(p.turn)
         /\ p.board \in Board /\ p.castle \subseteq Right
         /\ s \in Square /\ t \in Square /\ s # t
         /\ p.board[s] \in Piece /\ p.board[s] # Empty /\ ColorOf(p.board[s]) = p.turn
         /\ ColorOf(p.board[t]) # p.turn
         /\ PromotionFits(p.board[s], t, q) /\ IsPseudoLegalMove(p, p.board[s], s, t)
         /\ ColorOf(Empty) = "UNASSIGNED" /\ p.turn # "UNASSIGNED"
         /\ Opposite(p.turn) # "UNASSIGNED"
<1>1. p \in Position /\ s \in Occupied(p.board, p.turn) /\ t \in Square
      /\ IsLegalMove(p, p.turn, s, t, q)
  BY DEF Sound, Move
<1>2. p.turn \in Color /\ p.board \in Board /\ p.castle \subseteq Right
  BY <1>1, PositionFields
<1>3. /\ PromotionFits(p.board[s], t, q) /\ IsPseudoLegalMove(p, p.board[s], s, t)
      /\ s # t /\ ColorOf(p.board[t]) # ColorOf(p.board[s])
  BY <1>1 DEF IsLegalMove, IsPseudoLegalMove
<1>4. /\ s \in Square /\ p.board[s] \in Piece /\ p.board[s] # Empty
      /\ ColorOf(p.board[s]) = p.turn
  BY <1>1, <1>2, OccupiedIs
<1>5. ColorOf(Empty) = "UNASSIGNED"
  BY DEF ColorOf, Empty
<1>6. /\ Opposite(p.turn) \in Color /\ Opposite(p.turn) # p.turn
      /\ Opposite(Opposite(p.turn)) = p.turn
      /\ \A x \in Color : x = p.turn \/ x = Opposite(p.turn)
      /\ p.turn # "UNASSIGNED"
  BY <1>2, Colors
<1>7. Opposite(p.turn) # "UNASSIGNED"
  BY <1>6, Colors
<1> QED
  BY <1>1, <1>2, <1>3, <1>4, <1>5, <1>6, <1>7

\* There is still at most one king of a colour.
LEMMA MoveOneKing ==
  ASSUME NEW p, Sound(p), NEW s, NEW t, NEW q, Move(p, s, t, q), NEW x \in Color
  PROVE  OneKing(MovedBoard(p, s, t, q), x)
<1> DEFINE b == p.board  c == p.turn  e == MovedBoard(p, s, t, q)  K == <<x, "KING">>
<1>1. /\ s \in Square /\ t \in Square /\ s # t /\ c \in Color
  BY CountedFields
<1>2. /\ Lands(p, s, t, q)
      /\ Plain(p, s, t, q) \/ Passing(p, s, t, q) \/ \E f \in {2, 6} : Castles(p, s, t, q, f)
  BY MoveEffect
<1>3. /\ e[s] = Empty
      /\ e[t] = K <=> b[s] = K
  BY <1>2 DEF Lands
<1>4. b[t] # K
  BY NoKingTaken
<1>5. \A j, k \in Square : b[j] = K /\ b[k] = K => j = k
  BY DEF Sound, OneKing
<1>6. Empty # K
  BY DEF Empty
<1>7. ASSUME NEW j \in Square, e[j] = K, j # t
      PROVE  b[j] = K /\ j # s
  <2>1. j # s
    BY <1>3, <1>6, <1>7
  <2>2. CASE Plain(p, s, t, q)
    BY <1>7, <2>1, <2>2 DEF Plain
  <2>3. CASE Passing(p, s, t, q)
    BY <1>6, <1>7, <2>1, <2>3 DEF Passing
  <2>4. ASSUME NEW f \in {2, 6}, Castles(p, s, t, q, f)
        PROVE  b[j] = K
    <3>1. <<c, "ROOK">> # K
      OBVIOUS
    <3>2. j # Corner(c, f) /\ j # Hop(c, f)
      BY <1>6, <1>7, <2>1, <2>4, <3>1 DEF Castles
    <3> QED
      BY <1>7, <2>1, <2>4, <3>2 DEF Castles
  <2> QED
    BY <1>2, <2>1, <2>2, <2>3, <2>4
<1> SUFFICES ASSUME NEW j \in Square, NEW k \in Square, e[j] = K, e[k] = K
             PROVE  j = k
  BY DEF OneKing
<1> HIDE DEF b, e, K
<1>8. CASE j = t
  <2>1. CASE k # t
    BY <1>1, <1>3, <1>5, <1>7, <1>8, <2>1
  <2> QED
    BY <1>8, <2>1
<1>9. CASE j # t
  <2>1. b[j] = K /\ j # s
    BY <1>7, <1>9
  <2>2. k # t
    BY <1>1, <1>3, <1>5, <2>1
  <2>3. b[k] = K
    BY <1>7, <2>2
  <2> QED
    BY <1>5, <2>1, <2>3
<1> QED
  BY <1>8, <1>9

\* A piece that a move neither takes nor moves stays where it is.
LEMMA Undisturbed ==
  ASSUME NEW p, Sound(p), NEW s, NEW t, NEW q, Move(p, s, t, q),
         NEW y \in Square, y \notin {s, t}, p.board[y] # Empty,
         KindOf(p.board[y]) # "PAWN",
         p.board[y] # <<p.turn, "ROOK">> \/ p.board[s] # <<p.turn, "KING">>
  PROVE  MovedBoard(p, s, t, q)[y] = p.board[y]
<1> DEFINE b == p.board  c == p.turn  e == MovedBoard(p, s, t, q)
<1>1. Plain(p, s, t, q) \/ Passing(p, s, t, q) \/ \E f \in {2, 6} : Castles(p, s, t, q, f)
  BY MoveEffect
<1>2. CASE Plain(p, s, t, q)
  BY <1>2 DEF Plain
<1>3. CASE Passing(p, s, t, q)
  <2>1. y # <<t[1], s[2]>>
    BY <1>3 DEF Passing, KindOf
  <2> QED
    BY <1>3, <2>1 DEF Passing
<1>4. ASSUME NEW f \in {2, 6}, Castles(p, s, t, q, f)
      PROVE  e[y] = b[y]
  <2>1. y # Corner(c, f) /\ y # Hop(c, f)
    BY <1>4 DEF Castles
  <2> QED
    BY <1>4, <2>1 DEF Castles
<1> QED
  BY <1>1, <1>2, <1>3, <1>4

\* The squares of a castling right, and the right's colour and side.
LEMMA Rights ==
  ASSUME NEW r \in Right
  PROVE  /\ r[1] \in Color /\ r[2] \in {2, 6} /\ r = <<r[1], r[2]>>
         /\ RookHome(r) = Corner(r[1], r[2])
         /\ Home(r[1]) \in Square /\ Corner(r[1], r[2]) \in Square
         /\ Home(r[1]) # Corner(r[1], r[2])
<1>1. r[1] \in Color /\ r[2] \in {2, 6} /\ r = <<r[1], r[2]>>
  BY DEF Right
<1> QED
  BY <1>1, CastlingSquares DEF RookHome, Corner

\* A right is left exactly when the move touches neither of its home squares.
LEMMA RightIsLeft ==
  ASSUME NEW p, Sound(p), NEW s, NEW t, NEW q, Move(p, s, t, q), NEW r \in p.castle
  PROVE  r \in CastleRightsAfter(p, s, t) <=>
           {Home(r[1]), Corner(r[1], r[2])} \cap {s, t} = {}
<1> DEFINE b == p.board  h == Home(r[1])  k == Corner(r[1], r[2])
<1>1. s \in Square /\ t \in Square /\ r \in Right
  BY CountedFields
<1>2. h \in Square /\ k \in Square /\ h # k /\ RookHome(r) = k /\ r[1] \in Color
  BY <1>1, Rights
<1>3. b[h] = <<r[1], "KING">> /\ b[k] = <<r[1], "ROOK">>
  BY DEF Sound, Homes
<1>4. OneKing(b, r[1])
  BY <1>2 DEF Sound
<1>5. b[s] = <<r[1], "KING">> <=> s = h
  BY <1>1, <1>2, <1>3, <1>4 DEF OneKing
<1>6. t # h
  <2>1. b[t] # <<r[1], "KING">>
    BY <1>2, NoKingTaken
  <2> QED
    BY <1>3, <2>1
<1>7. r \in CastleRightsAfter(p, s, t) <=> s # h /\ s # k /\ t # k
  <2>1. r \in CastleRightsAfter(p, s, t) <=>
          /\ b[s] # <<r[1], "KING">>
          /\ ~(s = RookHome(r) /\ b[s] = <<r[1], "ROOK">>)
          /\ ~(t = RookHome(r) /\ b[t] = <<r[1], "ROOK">>)
    BY DEF CastleRightsAfter
  <2> QED
    BY <1>2, <1>3, <1>5, <2>1
<1> HIDE DEF h, k
<1>8. {h, k} \cap {s, t} = {} <=> s # h /\ s # k /\ t # h /\ t # k
  OBVIOUS
<1> QED
  BY <1>6, <1>7, <1>8 DEF h, k

\* King and rook of a right that is left stand at home.
LEMMA MoveHomes ==
  ASSUME NEW p, Sound(p), NEW s, NEW t, NEW q, Move(p, s, t, q),
         NEW r \in CastleRightsAfter(p, s, t)
  PROVE  /\ r \in p.castle
         /\ MovedBoard(p, s, t, q)[Home(r[1])] = <<r[1], "KING">>
         /\ MovedBoard(p, s, t, q)[Corner(r[1], r[2])] = <<r[1], "ROOK">>
<1> DEFINE b == p.board  h == Home(r[1])  k == Corner(r[1], r[2])
<1>1. r \in p.castle /\ b[s] # <<r[1], "KING">>
  BY DEF CastleRightsAfter
<1>2. {h, k} \cap {s, t} = {}
  BY <1>1, RightIsLeft
<1>3. h \in Square /\ k \in Square /\ r[1] \in Color
  BY <1>1, CountedFields, Rights
<1>4. b[h] = <<r[1], "KING">> /\ b[k] = <<r[1], "ROOK">>
  BY <1>1 DEF Sound, Homes
<1>5. h \notin {s, t} /\ k \notin {s, t}
  <2> HIDE DEF h, k
  <2> QED
    BY <1>2
<1>6. /\ b[h] # Empty /\ KindOf(b[h]) # "PAWN" /\ b[h] # <<p.turn, "ROOK">>
      /\ b[k] # Empty /\ KindOf(b[k]) # "PAWN"
  BY <1>4 DEF Empty, KindOf
<1>7. b[k] # <<p.turn, "ROOK">> \/ b[s] # <<p.turn, "KING">>
  BY <1>1, <1>4
<1>8. MovedBoard(p, s, t, q)[h] = b[h]
  <2> HIDE DEF h
  <2> QED
    BY <1>3, <1>5, <1>6, Undisturbed
<1>9. MovedBoard(p, s, t, q)[k] = b[k]
  <2> HIDE DEF k
  <2> QED
    BY <1>3, <1>5, <1>6, <1>7, Undisturbed
<1> QED
  BY <1>1, <1>4, <1>8, <1>9

\* The rights whose home squares are not in T.
Untouched(T) == {r \in Right : {<<4, BackRank(r[1])>>, RookHome(r)} \cap T = {}}

\* The rights stay those whose home squares nothing has touched.
LEMMA MoveHistory ==
  ASSUME NEW p, Sound(p), NEW s, NEW t, NEW q, Move(p, s, t, q), NEW T, p.castle = Untouched(T)
  PROVE  CastleRightsAfter(p, s, t) = Untouched(T \cup {s, t})
<1>1. ASSUME NEW r \in Right
      PROVE  r \in CastleRightsAfter(p, s, t) <=> r \in Untouched(T \cup {s, t})
  <2> DEFINE H == {Home(r[1]), Corner(r[1], r[2])}
  <2>1. \A U : r \in Untouched(U) <=> H \cap U = {}
    BY <1>1, Rights DEF Untouched, Home
  <2>2. r \in CastleRightsAfter(p, s, t) => r \in p.castle
    BY DEF CastleRightsAfter
  <2>3. r \in p.castle <=> H \cap T = {}
    BY <2>1
  <2>4. r \in p.castle => (r \in CastleRightsAfter(p, s, t) <=> H \cap {s, t} = {})
    BY RightIsLeft
  <2> HIDE DEF H
  <2>5. H \cap (T \cup {s, t}) = {} <=> H \cap T = {} /\ H \cap {s, t} = {}
    OBVIOUS
  <2> QED
    BY <2>1, <2>2, <2>3, <2>4, <2>5
<1>2. CastleRightsAfter(p, s, t) \subseteq Right /\ Untouched(T \cup {s, t}) \subseteq Right
  BY CountedFields DEF CastleRightsAfter, Untouched
<1> QED
  BY <1>1, <1>2

\* The side that moved is not left in check.
LEMMA MoveSafe ==
  ASSUME NEW p, Sound(p), NEW s, NEW t, NEW q, Move(p, s, t, q)
  PROVE  ~IsKingInCheck(MovedBoard(p, s, t, q), p.turn)
BY DEF Move, IsLegalMove

\* A pawn that steps two ranks crosses an empty square and stays a pawn.
LEMMA DoubleStep ==
  ASSUME NEW p, Sound(p), NEW s, NEW t, NEW q, Move(p, s, t, q),
         KindOf(p.board[s]) = "PAWN", Abs(RankStep(s, t)) = 2
  PROVE  LET m == <<s[1], s[2] + Forward(p.turn)>>
         IN  /\ m \in Square /\ m = <<t[1], t[2] - Forward(p.turn)>>
             /\ m # s /\ m # t /\ p.board[m] = Empty
             /\ ~IsEnPassantCaptureMove(p, p.board[s], s, t)
             /\ ~IsPawnPromotionMove(p.board[s], t)
<1> DEFINE b == p.board  c == p.turn  m == <<s[1], s[2] + Forward(c)>>
<1>1. /\ s \in Square /\ t \in Square /\ ColorOf(b[s]) = c /\ c \in Color
      /\ IsPseudoLegalMove(p, b[s], s, t)
  BY CountedFields
<1>2. /\ s = <<s[1], s[2]>> /\ s[1] \in 0 .. 7 /\ s[2] \in 0 .. 7
      /\ t = <<t[1], t[2]>> /\ t[1] \in 0 .. 7 /\ t[2] \in 0 .. 7
  BY <1>1, Squares
<1>3. Forward(c) \in {-1, 1}
  BY <1>1, Colors
<1>4. PawnMove(p, b[s], s, t)
  BY <1>1 DEF IsPseudoLegalMove
<1>5. RankStep(s, t) # Forward(c)
  BY <1>3 DEF Abs
<1>6. /\ FileStep(s, t) = 0 /\ RankStep(s, t) = 2 * Forward(c) /\ s[2] = PawnRank(c)
      /\ b[m] = Empty
  BY <1>1, <1>4, <1>5 DEF PawnMove
<1>7. t[1] = s[1] /\ t[2] = s[2] + 2 * Forward(c)
  BY <1>2, <1>3, <1>6 DEF FileStep, RankStep
<1>8. m = <<t[1], t[2] - Forward(c)>>
  BY <1>2, <1>3, <1>7
<1>9. s[2] + Forward(c) \in 0 .. 7
  BY <1>2, <1>3, <1>7
<1>10. m \in Square /\ m[2] = s[2] + Forward(c)
  BY <1>2, <1>9 DEF Square
<1>11. m # s /\ m # t
  BY <1>2, <1>3, <1>7, <1>10
<1>12. ~IsEnPassantCaptureMove(p, b[s], s, t)
  BY <1>6 DEF IsEnPassantCaptureMove, Abs
<1>13. ~IsPawnPromotionMove(b[s], t)
  <2>1. t[2] # BackRank(Opposite(c))
    BY <1>1, <1>6, <1>7 DEF Color, PawnRank, Forward, BackRank, Opposite
  <2> QED
    BY <1>1, <2>1 DEF IsPawnPromotionMove
<1> QED
  BY <1>6, <1>8, <1>10, <1>11, <1>12, <1>13

\* The flag of taking in passing names the square behind the pawn that has just
\* moved two ranks.
LEMMA MoveChased ==
  ASSUME NEW p, Sound(p), NEW s, NEW t, NEW q, Move(p, s, t, q), NEW n,
         n.board = MovedBoard(p, s, t, q), n.turn = Opposite(p.turn),
         n.ep = EnPassantTarget(p.board[s], s, t), n.last = <<s, t>>
  PROVE  Chased(n)
<1> DEFINE b == p.board  c == p.turn  e == MovedBoard(p, s, t, q)
<1>1. /\ s \in Square /\ t \in Square /\ ColorOf(b[s]) = c /\ c \in Color
      /\ Opposite(n.turn) = c /\ b[s] \in Piece
  BY CountedFields
<1>2. n.last[1] = s /\ n.last[2] = t
  OBVIOUS
<1>3. Runner(n) = IF KindOf(e[t]) = "PAWN" /\ Abs(RankStep(s, t)) = 2 THEN {t} ELSE {}
  BY <1>1, <1>2 DEF Runner
<1>4. KindOf(e[t]) = "PAWN" => KindOf(b[s]) = "PAWN"
  <2>1. ASSUME e[t] = Placed(b[s], t, q)
        PROVE  KindOf(e[t]) = "PAWN" => KindOf(b[s]) = "PAWN"
    BY <2>1 DEF Placed, IsPawnPromotionMove
  <2>2. ASSUME NEW f \in {2, 6}, Castles(p, s, t, q, f)
        PROVE  KindOf(e[t]) # "PAWN"
    BY <2>2 DEF Castles, KindOf
  <2>3. Plain(p, s, t, q) \/ Passing(p, s, t, q) => e[t] = Placed(b[s], t, q)
    BY DEF Plain, Passing
  <2> QED
    BY <2>1, <2>2, <2>3, MoveEffect
<1>5. CASE KindOf(b[s]) = "PAWN" /\ Abs(RankStep(s, t)) = 2
  <2> DEFINE m == <<s[1], s[2] + Forward(c)>>
  <2>1. /\ m \in Square /\ m = <<t[1], t[2] - Forward(c)>>
        /\ m # s /\ m # t /\ b[m] = Empty
        /\ ~IsEnPassantCaptureMove(p, b[s], s, t)
        /\ ~IsPawnPromotionMove(b[s], t)
    BY <1>5, DoubleStep
  <2>2. Plain(p, s, t, q)
    <3>1. ~Passing(p, s, t, q)
      BY <2>1 DEF Passing
    <3>2. ASSUME NEW f \in {2, 6}, Castles(p, s, t, q, f)
          PROVE  FALSE
      BY <1>5, <3>2 DEF Castles, KindOf
    <3> QED
      BY <3>1, <3>2, MoveEffect
  <2>3. e[m] = Empty
    BY <2>1, <2>2 DEF Plain
  <2>4. e[t] = b[s]
    BY <2>1, <2>2 DEF Plain, Placed
  <2>5. b[s] = <<c, "PAWN">>
    BY <1>1, <1>5, Pieces
  <2>6. Runner(n) = {t}
    BY <1>3, <1>5, <2>4
  <2>7. n.ep = m
    BY <1>1, <1>5 DEF EnPassantTarget
  <2> QED
    BY <1>1, <2>1, <2>3, <2>4, <2>5, <2>6, <2>7 DEF Chased
<1>6. CASE ~(KindOf(b[s]) = "PAWN" /\ Abs(RankStep(s, t)) = 2)
  <2>1. n.ep = None
    BY <1>6 DEF EnPassantTarget
  <2>2. Runner(n) = {}
    BY <1>3, <1>4, <1>6
  <2> QED
    BY <2>1, <2>2 DEF Chased
<1> QED
  BY <1>5, <1>6

-----------------------------------------------------------------------------
(* Counting the pieces *)

\* There are finitely many squares.
LEMMA SquaresAreFinite ==
  /\ IsFiniteSet(Square)
  /\ \A S : S \subseteq Square => IsFiniteSet(S) /\ Cardinality(S) \in Nat
<1>1. IsFiniteSet(0 .. 7)
  BY FS_Interval, 0 \in Int, 7 \in Int
<1>2. IsFiniteSet(Square)
  BY <1>1, FS_Product DEF Square
<1> QED
  BY <1>2, FS_Subset, FS_CardinalityType

\* A man that goes from s to t is still one man.
LEMMA Relocated ==
  ASSUME NEW S, S \subseteq Square, NEW s \in S, NEW t \in Square, t \notin S
  PROVE  Cardinality((S \ {s}) \cup {t}) = Cardinality(S)
<1>1. IsFiniteSet(S) /\ Cardinality(S) \in Nat
  BY SquaresAreFinite
<1>2. IsFiniteSet(S \ {s}) /\ Cardinality(S \ {s}) = Cardinality(S) - 1
  BY <1>1, FS_RemoveElement
<1>3. t \notin S \ {s}
  OBVIOUS
<1>4. Cardinality((S \ {s}) \cup {t}) = Cardinality(S \ {s}) + 1
  BY <1>2, <1>3, FS_AddElement
<1> QED
  BY <1>1, <1>2, <1>4

\* A man taken is one man less.
LEMMA Taken ==
  ASSUME NEW S, S \subseteq Square, NEW s \in S
  PROVE  Cardinality(S \ {s}) = Cardinality(S) - 1
<1>1. IsFiniteSet(S)
  BY SquaresAreFinite
<1> QED
  BY <1>1, FS_RemoveElement

\* The men of colour x, on the board and captured.
Men(b, captured, x) == Cardinality(Occupied(b, x)) + captured[x]

\* A move takes at most one man, of the other colour, and counts it.
LEMMA MoveCounted ==
  ASSUME NEW p, Sound(p), NEW s, NEW t, NEW q, Move(p, s, t, q), NEW x \in Color
  PROVE  /\ Men(MovedBoard(p, s, t, q), CapturedAfter(p, s, t), x) = Men(p.board, p.captured, x)
         /\ CapturedAfter(p, s, t) \in [Color -> Nat]
<1> DEFINE b == p.board  c == p.turn  o == Opposite(c)  e == MovedBoard(p, s, t, q)
           C == Occupied(b, c)  O == Occupied(b, o)
<1>1. /\ c \in Color /\ o \in Color /\ o # c /\ \A y \in Color : y = c \/ y = o
      /\ s \in Square /\ t \in Square /\ s # t /\ b \in Board
      /\ ColorOf(b[s]) = c /\ ColorOf(b[t]) # c
      /\ ColorOf(Empty) = "UNASSIGNED" /\ c # "UNASSIGNED" /\ o # "UNASSIGNED"
  BY CountedFields
<1>2. Lands(p, s, t, q)
  BY MoveEffect
<1>3. ColorOf(e[s]) = "UNASSIGNED" /\ ColorOf(e[t]) = c
  BY <1>1, <1>2 DEF Lands
<1>4. p.captured \in [Color -> Nat]
  BY PositionFields DEF Sound
<1>5. C \subseteq Square /\ O \subseteq Square /\ s \in C /\ t \notin C /\ s \notin O
  BY <1>1 DEF Occupied
<1>6. /\ Cardinality(C) \in Nat /\ Cardinality(O) \in Nat
      /\ Cardinality(O) > 0 \/ O = {}
  BY <1>5, SquaresAreFinite, FS_EmptySet
<1>7. Cardinality((C \ {s}) \cup {t}) = Cardinality(C)
  BY <1>1, <1>5, Relocated
<1>8. CASE Plain(p, s, t, q)
  <2>1. ~IsEnPassantCaptureMove(p, b[s], s, t) /\ \A y \in Square \ {s, t} : e[y] = b[y]
    BY <1>8 DEF Plain
  <2>2. Occupied(e, c) = (C \ {s}) \cup {t}
    BY <1>1, <1>3, <2>1 DEF Occupied
  <2>3. Occupied(e, o) = O \ {t}
    BY <1>1, <1>3, <2>1 DEF Occupied
  <2>4. CASE b[t] = Empty
    <3>1. CapturedAfter(p, s, t) = p.captured
      BY <2>1, <2>4 DEF CapturedAfter
    <3>2. Occupied(e, o) = O
      BY <1>1, <2>3, <2>4 DEF Occupied
    <3> QED
      BY <1>1, <1>4, <1>7, <2>2, <3>1, <3>2 DEF Men
  <2>5. CASE b[t] # Empty
    <3>1. ColorOf(b[t]) = o
      <4>1. b[t] \in Piece \cup {Empty}
        BY <1>1 DEF Board
      <4>2. ColorOf(b[t]) \in Color
        BY <2>5, <4>1, Pieces
      <4> QED
        BY <1>1, <4>2
    <3>2. CapturedAfter(p, s, t) = [p.captured EXCEPT ![o] = @ + 1]
      BY <2>1, <2>5, <3>1 DEF CapturedAfter
    <3>3. t \in O
      BY <1>1, <3>1 DEF Occupied
    <3>4. Cardinality(Occupied(e, o)) = Cardinality(O) - 1
      BY <1>5, <2>3, <3>3, Taken
    <3> HIDE DEF o, c, e, C, O
    <3>5. /\ CapturedAfter(p, s, t) \in [Color -> Nat]
          /\ CapturedAfter(p, s, t)[o] = p.captured[o] + 1
          /\ CapturedAfter(p, s, t)[c] = p.captured[c]
      BY <1>1, <1>4, <3>2
    <3>6. p.captured[o] \in Nat
      BY <1>1, <1>4
    <3>7. Cardinality(Occupied(e, c)) = Cardinality(C)
      BY <1>7, <2>2
    <3>8. CASE x = o
      BY <1>6, <3>4, <3>5, <3>6, <3>8 DEF Men, O, e
    <3>9. CASE x = c
      BY <3>5, <3>7, <3>9 DEF Men, C, e
    <3> QED
      BY <1>1, <3>5, <3>8, <3>9 DEF e
  <2> QED
    BY <2>4, <2>5
<1>9. CASE Passing(p, s, t, q)
  <2> DEFINE v == <<t[1], s[2]>>
  <2>1. /\ IsEnPassantCaptureMove(p, b[s], s, t)
        /\ v \in Square /\ v # s /\ v # t /\ e[v] = Empty /\ b[t] = Empty
        /\ b[v] = <<o, "PAWN">>
        /\ \A y \in Square \ {s, t, v} : e[y] = b[y]
    BY <1>9 DEF Passing
  <2>2. ColorOf(b[v]) = o /\ b[v] # Empty
    BY <1>1, <2>1 DEF ColorOf
  <2>3. CapturedAfter(p, s, t) = [p.captured EXCEPT ![o] = @ + 1]
    <3>1. CapturedAfter(p, s, t) = IF b[v] = Empty THEN p.captured
                                   ELSE [p.captured EXCEPT ![ColorOf(b[v])] = @ + 1]
      BY <2>1 DEF CapturedAfter
    <3> QED
      BY <2>2, <3>1
  <2> HIDE DEF v, o, c, e
  <2>4. Occupied(e, c) = (C \ {s}) \cup {t}
    BY <1>1, <1>3, <2>1, <2>2 DEF Occupied
  <2>5. Occupied(e, o) = O \ {v}
    BY <1>1, <1>3, <2>1, <2>2 DEF Occupied
  <2>6. v \in O
    BY <2>1, <2>2 DEF Occupied
  <2>7. Cardinality(Occupied(e, o)) = Cardinality(O) - 1
    BY <1>5, <2>5, <2>6, Taken
  <2>8. /\ CapturedAfter(p, s, t) \in [Color -> Nat]
        /\ CapturedAfter(p, s, t)[o] = p.captured[o] + 1
        /\ CapturedAfter(p, s, t)[c] = p.captured[c]
    BY <1>1, <1>4, <2>3
  <2>9. p.captured[o] \in Nat
    BY <1>1, <1>4
  <2>10. Cardinality(Occupied(e, c)) = Cardinality(C)
    BY <1>7, <2>4
  <2>11. CASE x = o
    BY <1>6, <2>7, <2>8, <2>9, <2>11 DEF Men, e
  <2>12. CASE x = c
    BY <2>8, <2>10, <2>12 DEF Men, e
  <2> QED
    BY <1>1, <2>8, <2>11, <2>12 DEF e
<1>10. ASSUME NEW f \in {2, 6}, Castles(p, s, t, q, f)
       PROVE  /\ Men(e, CapturedAfter(p, s, t), x) = Men(b, p.captured, x)
              /\ CapturedAfter(p, s, t) \in [Color -> Nat]
  <2> DEFINE k == Corner(c, f)  g == Hop(c, f)
  <2>1. /\ s = Home(c) /\ t = Goal(c, f) /\ b[s] = <<c, "KING">>
        /\ b[t] = Empty
        /\ b[k] = <<c, "ROOK">> /\ e[k] = Empty
        /\ e[g] = <<c, "ROOK">> /\ b[g] = Empty
        /\ \A y \in Square \ {s, k, t, g} : e[y] = b[y]
    BY <1>10 DEF Castles
  <2>2. /\ k \in Square /\ g \in Square /\ s # k /\ s # g /\ k # t /\ k # g /\ t # g
    BY <1>1, <2>1, CastlingSquares
  <2>3. CapturedAfter(p, s, t) = p.captured
    <3>1. ~IsEnPassantCaptureMove(p, b[s], s, t)
      BY <2>1 DEF IsEnPassantCaptureMove, KindOf
    <3> QED
      BY <2>1, <3>1 DEF CapturedAfter
  <2>4. /\ ColorOf(b[k]) = c /\ ColorOf(e[k]) = "UNASSIGNED"
        /\ ColorOf(e[g]) = c /\ ColorOf(b[g]) = "UNASSIGNED" /\ ColorOf(b[t]) = "UNASSIGNED"
    BY <1>1, <2>1 DEF ColorOf
  <2> HIDE DEF k, g, o, c, e
  <2>5. Occupied(e, o) = O
    BY <1>1, <1>3, <2>1, <2>2, <2>4 DEF Occupied
  <2>6. Occupied(e, c) = (((C \ {s}) \cup {t}) \ {k}) \cup {g}
    BY <1>1, <1>3, <2>1, <2>2, <2>4 DEF Occupied
  <2> DEFINE D == (C \ {s}) \cup {t}
  <2>7. D \subseteq Square /\ k \in D /\ g \notin D
    BY <1>1, <1>5, <2>2, <2>4 DEF Occupied
  <2> HIDE DEF D
  <2>8. Cardinality((D \ {k}) \cup {g}) = Cardinality(D)
    BY <2>2, <2>7, Relocated
  <2>9. Cardinality(Occupied(e, c)) = Cardinality(C)
    BY <1>7, <2>6, <2>8 DEF D
  <2>10. CASE x = o
    BY <1>4, <2>3, <2>5, <2>10 DEF Men
  <2>11. CASE x = c
    BY <1>4, <2>3, <2>9, <2>11 DEF Men, e
  <2> QED
    BY <1>1, <1>4, <2>3, <2>10, <2>11
<1> QED
  BY <1>8, <1>9, <1>10, MoveEffect

-----------------------------------------------------------------------------
(* The position after a legal move *)

\* A legal move leads to a sound position, with its result, and loses no man.
LEMMA MoveSound ==
  ASSUME NEW p, Sound(p), p.outcome = "NONE", p.halfmove < 100,
         \A x \in Color : Men(p.board, p.captured, x) <= 16,
         NEW s, NEW t, NEW q, Move(p, s, t, q)
  PROVE  LET n == ApplyMove(p, s, t, q)
         IN  /\ Sound(n)
             /\ n.castle = CastleRightsAfter(p, s, t)
             /\ \A x \in Color : Men(n.board, n.captured, x) = Men(p.board, p.captured, x)
             /\ n.outcome = ResultOf(n, n.turn)
<1> DEFINE n == ApplyMove(p, s, t, q)  e == MovedBoard(p, s, t, q)
<1>1. /\ n.board = e /\ n.turn = Opposite(p.turn)
      /\ n.castle = CastleRightsAfter(p, s, t)
      /\ n.ep = EnPassantTarget(p.board[s], s, t)
      /\ n.halfmove = Half(p, s, t)
      /\ n.captured = CapturedAfter(p, s, t)
      /\ n.last = <<s, t>>
      /\ n.outcome = ResultOf(n, n.turn)
      /\ n = [board |-> n.board, turn |-> n.turn, castle |-> n.castle, ep |-> n.ep,
              halfmove |-> n.halfmove, captured |-> n.captured,
              outcome |-> n.outcome, last |-> n.last]
  BY Applied
<1> HIDE DEF n
<1>2. /\ n.turn \in Color /\ Opposite(n.turn) = p.turn
      /\ s \in Square /\ t \in Square /\ p.castle \subseteq Right
  BY <1>1, CountedFields
<1>3. Chased(n)
  BY <1>1, MoveChased
<1>4. Homes(n)
  BY <1>1, MoveHomes DEF Homes
<1>5. \A x \in Color : OneKing(n.board, x)
  BY <1>1, MoveOneKing
<1>6. ~IsKingInCheck(n.board, Opposite(n.turn))
  BY <1>1, <1>2, MoveSafe
<1>7. \A x \in Color : Men(n.board, n.captured, x) = Men(p.board, p.captured, x)
  <2>1. ASSUME NEW x \in Color
        PROVE  Men(e, CapturedAfter(p, s, t), x) = Men(p.board, p.captured, x)
    BY MoveCounted
  <2> QED
    BY <1>1, <2>1 DEF Men
<1>8. n.board \in Board
  BY <1>1, MoveEffect DEF Lands
<1>9. n.captured \in [Color -> 0 .. 16]
  <2>1. n.captured \in [Color -> Nat]
    <3>1. "WHITE" \in Color
      BY DEF Color
    <3> QED
      BY <1>1, <3>1, MoveCounted
  <2>2. ASSUME NEW x \in Color
        PROVE  n.captured[x] \in 0 .. 16
    <3>1. Occupied(n.board, x) \subseteq Square
      BY DEF Occupied
    <3>2. Cardinality(Occupied(n.board, x)) \in Nat
      BY <3>1, SquaresAreFinite
    <3>3. n.captured[x] \in Nat
      BY <2>1
    <3>4. Men(n.board, n.captured, x) <= 16
      BY <1>7
    <3>5. Cardinality(Occupied(n.board, x)) + n.captured[x] <= 16
      BY <3>4 DEF Men
    <3> QED
      BY <3>2, <3>3, <3>5
  <2> QED
    BY <2>1, <2>2
<1>10. n.castle \subseteq Right
  BY <1>1, <1>2 DEF CastleRightsAfter
<1>11. n.ep \in Square \cup {None}
  BY <1>3 DEF Chased
<1>12. n.halfmove \in 0 .. 100
  <2>1. p.halfmove \in 0 .. 100
    BY PositionFields DEF Sound
  <2> QED
    BY <1>1, <2>1 DEF Half
<1>13. n.outcome \in BoardResult \cup {"NONE"}
  BY <1>1 DEF ResultOf, BoardResult
<1>14. n.last \in (Square \cup {None}) \X (Square \cup {None})
  BY <1>1, <1>2
<1>15. n \in Position
  BY <1>1, <1>2, <1>8, <1>9, <1>10, <1>11, <1>12, <1>13, <1>14 DEF Position, Board
<1> QED
  BY <1>1, <1>3, <1>4, <1>5, <1>6, <1>7, <1>15 DEF Sound, n

-----------------------------------------------------------------------------
(* The invariant: the position is sound, counts its men, and carries the   *)
(* result it has; a selected piece is the mover's own.                     *)

Counted == \A x \in Color : Men(pos.board, pos.captured, x) <= 16

Decided ==
  /\ pos.outcome = "NONE" => pos.halfmove < 100
  /\ plies > 0 => pos.outcome = ResultOf(pos, pos.turn)

OwnSelected ==
  selected # None =>
    selected \in Square /\ pos.turn = LocalColor /\ ColorOf(pos.board[selected]) = LocalColor

RInv ==
  /\ Sound(pos) /\ Counted /\ Decided /\ OwnSelected
  /\ pos.castle = Untouched(touched)
  /\ touched \subseteq Square /\ plies \in 0 .. MaxPlies

\* Every opening satisfies the invariant.
LEMMA RInit == Init => RInv
<1> SUFFICES ASSUME Init PROVE RInv
  OBVIOUS
<1>1. /\ pos \in Openings /\ selected = None /\ touched = TouchedBefore(pos) /\ plies = 0
  BY DEF Init
<1>2. /\ pos \in Position /\ pos.outcome = "NONE" /\ pos.halfmove < 100 /\ Chased(pos)
      /\ \A r \in pos.castle : /\ pos.board[<<4, BackRank(r[1])>>] = <<r[1], "KING">>
                               /\ pos.board[RookHome(r)] = <<r[1], "ROOK">>
      /\ \A c \in Color : /\ OneKing(pos.board, c)
                          /\ Cardinality(Occupied(pos.board, c)) + pos.captured[c] <= 16
      /\ ~IsKingInCheck(pos.board, Opposite(pos.turn))
  BY <1>1, OpeningsAssumption
<1>3. pos.castle \subseteq Right
  BY <1>2, PositionFields
<1>4. Homes(pos)
  BY <1>2, <1>3, Rights DEF Homes, Home
<1>5. Counted
  BY <1>2 DEF Counted, Men
<1>6. touched \subseteq Square
  BY <1>1, Rights DEF TouchedBefore
<1>7. pos.castle = Untouched(touched)
  <2>1. ASSUME NEW r \in Right
        PROVE  r \in pos.castle <=> r \in Untouched(touched)
    <3>1. \A x \in Right : x = <<x[1], x[2]>> /\ x[1] \in Color /\ x[2] \in {2, 6}
      BY Rights
    <3>2. \A x \in Right : RookHome(x) = <<IF x[2] = 6 THEN 7 ELSE 0, IF x[1] = "WHITE" THEN 7 ELSE 0>>
      BY DEF RookHome, RookFile, BackRank
    <3>3. \A x \in Right : RookHome(x) # <<4, BackRank(r[1])>>
      BY <3>2
    <3>4. \A x \in Right : RookHome(x) = RookHome(r) => x = r
      BY <2>1, <3>1, <3>2 DEF Color
    <3>5. touched = {RookHome(x) : x \in Right \ pos.castle}
      BY <1>1 DEF TouchedBefore
    <3>6. <<4, BackRank(r[1])>> \notin touched
      BY <3>3, <3>5
    <3>7. RookHome(r) \in touched <=> r \notin pos.castle
      BY <2>1, <3>4, <3>5
    <3> QED
      BY <2>1, <3>6, <3>7 DEF Untouched
  <2> QED
    BY <1>3, <2>1 DEF Untouched
<1>8. Decided /\ OwnSelected /\ plies \in 0 .. MaxPlies
  BY <1>1, <1>2, RulesAssumption DEF Decided, OwnSelected
<1> QED
  BY <1>2, <1>4, <1>5, <1>6, <1>7, <1>8 DEF RInv, Sound

\* Nobody has gained or lost a man, on the board and captured together.
SameMen == \A x \in Color : Men(pos'.board, pos'.captured, x) = Men(pos.board, pos.captured, x)

\* A move of the side to move, made on this program or received.
LEMMA RMoved ==
  ASSUME RInv, Playing, NEW s, NEW t, NEW q, Move(pos, s, t, q), Moved(s, t, q)
  PROVE  RInv' /\ SameMen
<1>1. /\ Sound(pos) /\ pos.outcome = "NONE" /\ pos.halfmove < 100
      /\ \A x \in Color : Men(pos.board, pos.captured, x) <= 16
      /\ pos.castle = Untouched(touched) /\ touched \subseteq Square
      /\ plies \in 0 .. MaxPlies /\ plies < MaxPlies
  BY DEF RInv, Counted, Decided, Playing
<1>2. /\ pos' = ApplyMove(pos, s, t, q) /\ selected' = None
      /\ touched' = touched \cup {s, t} /\ plies' = plies + 1
  BY DEF Moved
<1>3. /\ Sound(pos')
      /\ pos'.castle = CastleRightsAfter(pos, s, t)
      /\ \A x \in Color : Men(pos'.board, pos'.captured, x) = Men(pos.board, pos.captured, x)
      /\ pos'.outcome = ResultOf(pos', pos'.turn)
  BY <1>1, <1>2, MoveSound
<1>4. Sound(pos)'
  BY <1>3 DEF Sound, Chased, Runner, Homes, OneKing
<1>5. Counted'
  BY <1>1, <1>3 DEF Counted, Men
<1>6. Decided'
  <2>1. pos'.halfmove \in 0 .. 100
    BY <1>3, PositionFields DEF Sound
  <2>2. pos'.outcome = "NONE" => pos'.halfmove < 100
    BY <1>3, <2>1 DEF ResultOf
  <2> QED
    BY <1>3, <2>2 DEF Decided, ResultOf
<1>7. OwnSelected'
  BY <1>2 DEF OwnSelected
<1>8. (pos.castle = Untouched(touched))'
  <2>1. pos'.castle = Untouched(touched')
    BY <1>1, <1>2, <1>3, MoveHistory
  <2> QED
    BY <2>1 DEF Untouched
<1>9. touched' \subseteq Square /\ plies' \in 0 .. MaxPlies
  <2>1. s \in Square /\ t \in Square
    BY <1>1, CountedFields
  <2> QED
    BY <1>1, <1>2, <2>1, RulesAssumption
<1> QED
  BY <1>3, <1>4, <1>5, <1>6, <1>7, <1>8, <1>9 DEF RInv, SameMen

\* Every step keeps it.
LEMMA RStep ==
  ASSUME RInv, [Next]_vars
  PROVE  RInv' /\ SameMen
<1>1. /\ LocalColor \in Color /\ Opposite(LocalColor) \in Color
      /\ MaxPlies \in Nat /\ pos \in Position /\ pos.board \in Board
  BY RulesAssumption, Colors, PositionFields DEF RInv, Sound
<1>2. ASSUME pos' = pos, touched' = touched, plies' = plies,
             OwnSelected'
      PROVE  RInv' /\ SameMen
  BY <1>2 DEF RInv, Sound, Chased, Runner, Homes, OneKing, Counted, Decided, Untouched, Men, SameMen
<1>3. ASSUME NEW s \in Occupied(pos.board, LocalColor), SelectLocalPiece(s)
      PROVE  OwnSelected' /\ pos' = pos /\ touched' = touched /\ plies' = plies
  <2>1. s \in Square
    BY <1>1, <1>3, OccupiedIs
  <2> QED
    BY <1>3, <2>1 DEF SelectLocalPiece, OwnSelected
<1>4. ASSUME NEW t \in Square, NEW q \in Promotion, TryLocalMove(t, q)
      PROVE  RInv' /\ SameMen
  <2>1. /\ Playing /\ selected # None /\ pos.turn = LocalColor
        /\ ColorOf(pos.board[selected]) = LocalColor
    BY <1>4 DEF TryLocalMove
  <2>2. CASE t = selected /\ selected' = None /\ UNCHANGED <<pos, touched, plies>>
    <3>1. OwnSelected'
      BY <2>2 DEF OwnSelected
    <3> QED
      BY <1>2, <2>2, <3>1
  <2>3. CASE /\ t # selected /\ IsLegalMove(pos, LocalColor, selected, t, q)
             /\ Moved(selected, t, q)
    <3>1. selected \in Square
      BY <2>1 DEF RInv, OwnSelected
    <3>2. selected \in Occupied(pos.board, pos.turn)
      BY <2>1, <3>1 DEF Occupied
    <3>3. Move(pos, selected, t, q)
      BY <2>1, <2>3, <3>2 DEF Move
    <3> QED
      BY <2>1, <2>3, <3>3, RMoved
  <2> QED
    BY <1>4, <2>2, <2>3 DEF TryLocalMove
<1>5. ASSUME NEW s \in Occupied(pos.board, Opposite(LocalColor)), NEW t \in Square,
             NEW q \in Promotion, ApplyRemoteMove(s, t, q)
      PROVE  RInv' /\ SameMen
  <2>1. /\ Playing /\ pos.turn = Opposite(LocalColor)
        /\ IsLegalMove(pos, pos.turn, s, t, q) /\ Moved(s, t, q)
    BY <1>5 DEF ApplyRemoteMove
  <2>2. Move(pos, s, t, q)
    BY <1>5, <2>1 DEF Move
  <2> QED
    BY <2>1, <2>2, RMoved
<1>6. CASE UNCHANGED vars
  <2>1. OwnSelected'
    BY <1>6 DEF vars, OwnSelected, RInv
  <2> QED
    BY <1>2, <1>6, <2>1 DEF vars
<1> QED
  BY <1>2, <1>3, <1>4, <1>5, <1>6 DEF Next

-----------------------------------------------------------------------------
(* What follows from the invariant *)

\* What the invariant says of the rights, the types, the moves, the results,
\* the promotions and, below, the names.
LEMMA RHistory == RInv => RightsFollowHistory
BY DEF RInv, RightsFollowHistory, Untouched

LEMMA RType == RInv => TypeOK
BY DEF RInv, TypeOK, Sound, OwnSelected

LEMMA RLegal == RInv => LegalMovesAreChess
<1> SUFFICES ASSUME RInv PROVE LegalMovesAreChess
  OBVIOUS
<1>1. pos \in Position /\ Chased(pos) /\ Homes(pos)
  BY DEF RInv, Sound
<1>2. OneKing(pos.board, pos.turn)
  BY <1>1, PositionFields DEF RInv, Sound
<1> QED
  BY <1>1, <1>2, RHistory, LegalIsChess

LEMMA RResult == RInv => ResultIsChess
<1> SUFFICES ASSUME RInv, plies > 0
             PROVE  pos.outcome = IF pos.halfmove >= 100 THEN "FIFTY_MOVE_RULE"
                                  ELSE IF ChessMoves(pos) # {} THEN "NONE"
                                  ELSE IF ~InCheck(pos.board, pos.turn) THEN "STALEMATE"
                                  ELSE IF pos.turn = "WHITE" THEN "CHECKMATE_BLACK_WINS"
                                  ELSE "CHECKMATE_WHITE_WINS"
  BY DEF ResultIsChess
<1>1. pos.outcome = ResultOf(pos, pos.turn)
  BY DEF RInv, Decided
<1>2. LegalMoves(pos) = ChessMoves(pos)
  BY RLegal DEF LegalMovesAreChess
<1>3. HasAnyLegalMove(pos, pos.turn) <=> LegalMoves(pos) # {}
  <2>1. ASSUME NEW s \in Occupied(pos.board, pos.turn), NEW t \in Square, NEW q \in Promotion,
               IsLegalMove(pos, pos.turn, s, t, q)
        PROVE  <<s, t, q>> \in LegalMoves(pos)
    BY <2>1 DEF LegalMoves
  <2>2. ASSUME NEW m \in LegalMoves(pos)
        PROVE  HasAnyLegalMove(pos, pos.turn)
    <3>1. /\ m[1] \in Occupied(pos.board, pos.turn) /\ m[2] \in Square /\ m[3] \in Promotion
          /\ IsLegalMove(pos, pos.turn, m[1], m[2], m[3])
      BY DEF LegalMoves
    <3> QED
      BY <3>1 DEF HasAnyLegalMove
  <2> QED
    BY <2>1, <2>2 DEF HasAnyLegalMove
<1>4. IsKingInCheck(pos.board, pos.turn) <=> InCheck(pos.board, pos.turn)
  <2>1. pos.board \in Board /\ pos.turn \in Color
    BY PositionFields DEF RInv, Sound
  <2> QED
    BY <2>1, CheckIsCheck
<1> QED
  BY <1>1, <1>2, <1>3, <1>4 DEF ResultOf

LEMMA RPromotion == RInv => PromotionAskedWhenNeeded
<1> SUFFICES ASSUME RInv, selected # None, NEW t \in Square
             PROVE  {q \in PromotionChoice : IsLegalMove(pos, LocalColor, selected, t, q)}
                      = IF LocalMoveRequiresPromotion(t) THEN PromotionChoice ELSE {}
  BY DEF PromotionAskedWhenNeeded
<1> DEFINE x == pos.board[selected]
<1>1. selected \in Square /\ pos.turn = LocalColor /\ ColorOf(x) = LocalColor
  BY DEF RInv, OwnSelected
<1>2. pos \in Position /\ Chased(pos) /\ selected \in Occupied(pos.board, pos.turn)
  BY <1>1 DEF RInv, Sound, Occupied
<1>3. CASE IsPawnPromotionMove(x, t)
  <2>1. ~IsCastlingKingMove(x, selected, t)
    BY <1>3 DEF IsPawnPromotionMove, IsCastlingKingMove
  <2>2. \A q \in PromotionChoice : PromotionFits(x, t, q)
    BY <1>3 DEF PromotionFits
  <2>3. \A q \in PromotionChoice :
          IsLegalMove(pos, LocalColor, selected, t, q) <=>
            t \in Targets(pos, selected) /\ ~InCheck(After(pos, selected, t), LocalColor)
    BY <1>1, <1>2, <2>1, <2>2, OrdinaryLegal
  <2>4. "QUEEN" \in PromotionChoice
    BY DEF PromotionChoice, Promotion
  <2>5. LocalMoveRequiresPromotion(t) <=> IsLegalMove(pos, LocalColor, selected, t, "QUEEN")
    BY <1>1, <1>3 DEF LocalMoveRequiresPromotion
  <2> QED
    BY <2>3, <2>4, <2>5
<1>4. CASE ~IsPawnPromotionMove(x, t)
  <2>1. \A q \in PromotionChoice : ~PromotionFits(x, t, q)
    BY <1>4 DEF PromotionFits, PromotionChoice
  <2>2. \A q \in PromotionChoice : ~IsLegalMove(pos, LocalColor, selected, t, q)
    BY <2>1 DEF IsLegalMove
  <2>3. ~LocalMoveRequiresPromotion(t)
    BY <1>4 DEF LocalMoveRequiresPromotion
  <2> QED
    BY <2>2, <2>3
<1> QED
  BY <1>3, <1>4

-----------------------------------------------------------------------------
(* The theorems *)

\* The position stays sound, whatever the opening and however long the game.
THEOREM RulesInvariance == Spec => []RInv
<1>1. RInv /\ [Next]_vars => RInv'
  BY RStep
<1> QED
  BY <1>1, RInit, PTL DEF Spec

\* Every value is one the code's fields can hold.
THEOREM RulesTypeOK == Spec => []TypeOK
BY RulesInvariance, RType, PTL

\* The program accepts exactly the moves of chess.
THEOREM LegalMovesAreTheMovesOfChess == Spec => []LegalMovesAreChess
BY RulesInvariance, RLegal, PTL

\* A castling right is kept exactly as long as king and rook have stayed at home.
THEOREM RightsAreHistory == Spec => []RightsFollowHistory
BY RulesInvariance, RHistory, PTL

\* The result recorded after a move is the one the position has.
THEOREM ResultsAreChess == Spec => []ResultIsChess
BY RulesInvariance, RResult, PTL

\* A promotion is asked for exactly where every choice is legal.
THEOREM PromotionIsAsked == Spec => []PromotionAskedWhenNeeded
BY RulesInvariance, RPromotion, PTL

\* What leaves the board is counted as captured.
THEOREM PiecesAreAccounted == Spec => PiecesAccounted
<1>1. RInv /\ [Next]_vars =>
        [\A c \in Color : Cardinality(Occupied(pos'.board, c)) + pos'.captured[c]
                            = Cardinality(Occupied(pos.board, c)) + pos.captured[c]]_vars
  BY RStep DEF Men, SameMen
<1> QED
  BY <1>1, RulesInvariance, PTL DEF Spec, PiecesAccounted

-----------------------------------------------------------------------------
(* Names of moves *)

Captures(p, s, t) == p.board[t] # Empty \/ IsEnPassantCaptureMove(p, p.board[s], s, t)

Castling(p, s, t) == IsCastlingKingMove(p.board[s], s, t)

\* What a name shows.
LEMMA NotationIs ==
  ASSUME NEW p, NEW s, NEW t, NEW q
  PROVE  LET n == Notation(p, s, t, q)
             k == KindOf(p.board[s])
         IN  /\ Castling(p, s, t) => n.name = IF t[1] = 6 THEN "O-O" ELSE "O-O-O"
             /\ ~Castling(p, s, t) =>
                  /\ n.name = k /\ n.to = t /\ n.capture = Captures(p, s, t) /\ n.promotion = q
                  /\ n.file = IF "file" \in Needed(p, s, t, q) \/ (k = "PAWN" /\ Captures(p, s, t))
                              THEN s[1] ELSE -1
                  /\ n.rank = IF "rank" \in Needed(p, s, t, q) THEN s[2] ELSE -1
<1> DEFINE n == Notation(p, s, t, q)  k == KindOf(p.board[s])
           mark == CheckMark(p, s, t, q)  needed == Needed(p, s, t, q)
           capture == Captures(p, s, t)
<1>1. n = IF Castling(p, s, t)
          THEN [name |-> IF t[1] = 6 THEN "O-O" ELSE "O-O-O", mark |-> mark]
          ELSE [name |-> k, to |-> t, capture |-> capture,
                promotion |-> q, mark |-> mark,
                file |-> IF "file" \in needed \/ (k = "PAWN" /\ capture) THEN s[1] ELSE -1,
                rank |-> IF "rank" \in needed THEN s[2] ELSE -1]
  BY DEF Notation, Castling, Captures
<1> HIDE DEF n, k, mark, needed, capture
<1>2. Castling(p, s, t) => n.name = IF t[1] = 6 THEN "O-O" ELSE "O-O-O"
  BY <1>1
<1>3. ~Castling(p, s, t) =>
        /\ n.name = k /\ n.to = t /\ n.capture = capture /\ n.promotion = q
        /\ n.file = IF "file" \in needed \/ (k = "PAWN" /\ capture) THEN s[1] ELSE -1
        /\ n.rank = IF "rank" \in needed THEN s[2] ELSE -1
  BY <1>1
<1> QED
  BY <1>2, <1>3 DEF n, k, needed, capture

\* Castling is told from anything else, and one side from the other.
LEMMA CastlingNames ==
  ASSUME NEW p, Sound(p), NEW s, NEW t, NEW q, Move(p, s, t, q),
         NEW i, NEW j, NEW r, Move(p, i, j, r),
         Notation(p, s, t, q) = Notation(p, i, j, r)
  PROVE  /\ Castling(p, s, t) <=> Castling(p, i, j)
         /\ Castling(p, s, t) => s = i /\ t = j /\ q = r
<1> DEFINE b == p.board  c == p.turn
<1>1. /\ b[s] \in Piece /\ ColorOf(b[s]) = c /\ PromotionFits(b[s], t, q)
      /\ b[i] \in Piece /\ ColorOf(b[i]) = c /\ PromotionFits(b[i], j, r) /\ c \in Color
  BY CountedFields
<1>2. KindOf(b[s]) \in Kind /\ KindOf(b[i]) \in Kind
  BY <1>1, Pieces
<1>3. KindOf(b[s]) \notin {"O-O", "O-O-O"} /\ KindOf(b[i]) \notin {"O-O", "O-O-O"}
  BY <1>2 DEF Kind
<1>4. Castling(p, s, t) <=> Castling(p, i, j)
  BY <1>3, NotationIs
<1>5. ASSUME Castling(p, s, t)
      PROVE  s = i /\ t = j /\ q = r
  <2>1. IsCastlingKingMove(b[s], s, t) /\ IsCastlingKingMove(b[i], i, j)
    BY <1>4, <1>5 DEF Castling
  <2>2. /\ s = Home(c) /\ i = Home(c) /\ KindOf(b[s]) = "KING" /\ KindOf(b[i]) = "KING"
    BY <1>1, <2>1, CastlingMoveIs
  <2>3. PICK f \in {2, 6} : t = Goal(c, f)
    BY <1>1, <2>1, CastlingMoveIs
  <2>4. PICK g \in {2, 6} : j = Goal(c, g)
    BY <1>1, <2>1, CastlingMoveIs
  <2>5. t[1] = f /\ j[1] = g
    BY <2>3, <2>4 DEF Goal
  <2>6. t[1] = 6 <=> j[1] = 6
    BY <1>4, <1>5, NotationIs
  <2>7. q = "NONE" /\ r = "NONE"
    BY <1>1, <2>2 DEF PromotionFits, IsPawnPromotionMove
  <2> QED
    BY <2>2, <2>3, <2>4, <2>5, <2>6, <2>7
<1> QED
  BY <1>4, <1>5

\* A pawn is told by its file when it takes, and by where it goes when it does not.
LEMMA PawnNames ==
  ASSUME NEW p, Sound(p), NEW s, NEW t, NEW q, Move(p, s, t, q), NEW i, NEW r, Move(p, i, t, r),
         KindOf(p.board[s]) = "PAWN", KindOf(p.board[i]) = "PAWN",
         Captures(p, s, t) <=> Captures(p, i, t), Captures(p, s, t) => s[1] = i[1]
  PROVE  s = i
<1> DEFINE b == p.board  c == p.turn  d == Forward(c)
<1>1. /\ s \in Square /\ i \in Square /\ t \in Square /\ c \in Color
      /\ b[s] # Empty /\ b[i] # Empty /\ ColorOf(b[s]) = c /\ ColorOf(b[i]) = c
      /\ IsPseudoLegalMove(p, b[s], s, t) /\ IsPseudoLegalMove(p, b[i], i, t)
  BY CountedFields
<1>2. /\ s = <<s[1], s[2]>> /\ s[1] \in 0 .. 7 /\ s[2] \in 0 .. 7
      /\ i = <<i[1], i[2]>> /\ i[1] \in 0 .. 7 /\ i[2] \in 0 .. 7
      /\ t = <<t[1], t[2]>> /\ t[1] \in 0 .. 7 /\ t[2] \in 0 .. 7
  BY <1>1, Squares
<1>3. d \in {-1, 1}
  BY <1>1, Colors
<1>4. PawnMove(p, b[s], s, t) /\ PawnMove(p, b[i], i, t)
  BY <1>1 DEF IsPseudoLegalMove
<1>5. ASSUME NEW y \in {s, i}
      PROVE  /\ Captures(p, y, t) => RankStep(y, t) = d
             /\ ~Captures(p, y, t) =>
                  /\ FileStep(y, t) = 0
                  /\ \/ RankStep(y, t) = d
                     \/ RankStep(y, t) = 2 * d /\ b[<<y[1], y[2] + d>>] = Empty
  <2>1. PawnMove(p, b[y], y, t) /\ ColorOf(b[y]) = c
    BY <1>1, <1>4
  <2>2. CASE FileStep(y, t) = 0 /\ b[t] = Empty
    <3>1. ~IsEnPassantCaptureMove(p, b[y], y, t)
      BY <2>2 DEF IsEnPassantCaptureMove, Abs
    <3> QED
      BY <2>1, <2>2, <3>1 DEF PawnMove, Captures, Abs
  <2>3. CASE Abs(FileStep(y, t)) = 1 /\ RankStep(y, t) = d
             /\ (b[t] # Empty \/ IsEnPassantCaptureMove(p, b[y], y, t))
    BY <2>3 DEF Captures
  <2> QED
    BY <2>1, <2>2, <2>3 DEF PawnMove
<1> HIDE DEF d
<1>6. CASE Captures(p, s, t)
  <2>1. RankStep(s, t) = d /\ RankStep(i, t) = d
    BY <1>5, <1>6
  <2>2. s[2] = i[2]
    BY <1>2, <1>3, <2>1 DEF RankStep
  <2> QED
    BY <1>2, <1>6, <2>2
<1>7. CASE ~Captures(p, s, t)
  <2>1. s[1] = t[1] /\ i[1] = t[1]
    BY <1>2, <1>5, <1>7 DEF FileStep
  <2>2. RankStep(s, t) = d /\ RankStep(i, t) = 2 * d => b[<<i[1], i[2] + d>>] # Empty
    <3> SUFFICES ASSUME RankStep(s, t) = d, RankStep(i, t) = 2 * d
                 PROVE  b[<<i[1], i[2] + d>>] # Empty
      OBVIOUS
    <3>1. i[2] + d = s[2]
      BY <1>2, <1>3 DEF RankStep
    <3> QED
      BY <1>1, <1>2, <2>1, <3>1
  <2>3. RankStep(i, t) = d /\ RankStep(s, t) = 2 * d => b[<<s[1], s[2] + d>>] # Empty
    <3> SUFFICES ASSUME RankStep(i, t) = d, RankStep(s, t) = 2 * d
                 PROVE  b[<<s[1], s[2] + d>>] # Empty
      OBVIOUS
    <3>1. s[2] + d = i[2]
      BY <1>2, <1>3 DEF RankStep
    <3> QED
      BY <1>1, <1>2, <2>1, <3>1
  <2>4. d # 2 * d
    BY <1>3
  <2>5. RankStep(s, t) = RankStep(i, t)
    BY <1>5, <1>7, <2>2, <2>3, <2>4
  <2>6. s[2] = i[2]
    BY <1>2, <2>5 DEF RankStep
  <2> QED
    BY <1>2, <2>1, <2>6
<1> QED
  BY <1>6, <1>7

\* Two of three would have to be the same.
LEMMA OnlyTwo ==
  ASSUME NEW S, S \subseteq Square, Cardinality(S) <= 2, NEW i \in S, NEW j \in S, i # j,
         NEW k \in S
  PROVE  k = i \/ k = j
<1> SUFFICES ASSUME k # i, k # j PROVE FALSE
  OBVIOUS
<1> DEFINE A == S \ {i}  B == A \ {j}  C == B \ {k}
<1>1. A \subseteq Square /\ B \subseteq Square /\ C \subseteq Square /\ j \in A /\ k \in B
  OBVIOUS
<1>2. Cardinality(A) = Cardinality(S) - 1
  BY Taken
<1> HIDE DEF A
<1>3. Cardinality(B) = Cardinality(A) - 1
  BY <1>1, Taken
<1> HIDE DEF B
<1>4. Cardinality(C) = Cardinality(B) - 1
  BY <1>1, Taken
<1>5. Cardinality(S) \in Nat /\ Cardinality(C) \in Nat
  BY <1>1, SquaresAreFinite
<1> QED
  BY <1>2, <1>3, <1>4, <1>5

\* Two officers of a kind that reach the same square are told apart by the
\* coordinate they do not share.
LEMMA OfficerNames ==
  ASSUME NEW p, Sound(p), NEW s, NEW t, NEW q, Move(p, s, t, q), NEW i, Move(p, i, t, q),
         p.board[s] = p.board[i], KindOf(p.board[s]) \notin {"PAWN", "KING"},
         Cardinality({y \in Square : p.board[y] = p.board[s]}) <= 2,
         "file" \in Needed(p, s, t, q) /\ "file" \in Needed(p, i, t, q) => s[1] = i[1],
         "rank" \in Needed(p, s, t, q) /\ "rank" \in Needed(p, i, t, q) => s[2] = i[2]
  PROVE  s = i
<1> SUFFICES ASSUME s # i PROVE FALSE
  OBVIOUS
<1> DEFINE b == p.board  S == {y \in Square : b[y] = b[s]}
<1>1. /\ s \in Square /\ i \in Square /\ s \in Occupied(b, p.turn) /\ i \in Occupied(b, p.turn)
      /\ IsLegalMove(p, p.turn, s, t, q) /\ IsLegalMove(p, p.turn, i, t, q)
  BY DEF Move, Occupied
<1>2. \A k \in S : k = s \/ k = i
  <2>1. S \subseteq Square /\ s \in S /\ i \in S /\ Cardinality(S) <= 2
    BY <1>1
  <2> HIDE DEF S
  <2> QED
    BY <2>1, OnlyTwo
<1>3. Occupied(b, p.turn) \subseteq Square
  BY DEF Occupied
<1>4. Rivals(p, s, t, q) = {i} /\ Rivals(p, i, t, q) = {s}
  BY <1>1, <1>2, <1>3 DEF Rivals
<1>5. ASSUME NEW x \in {s, i}, NEW y \in {s, i}, Rivals(p, x, t, q) = {y}
      PROVE  Needed(p, x, t, q) = IF y[1] # x[1] /\ y[2] # x[2] THEN {"file"}
                                  ELSE {w \in {"file", "rank"} : IF w = "rank" THEN y[1] = x[1]
                                                                 ELSE y[2] = x[2]}
  <2>1. KindOf(b[x]) \notin {"PAWN", "KING"}
    OBVIOUS
  <2> QED
    BY <1>5, <2>1 DEF Needed
<1>6. s = <<s[1], s[2]>> /\ i = <<i[1], i[2]>>
  BY <1>1, Squares
<1>7. CASE s[1] = i[1]
  <2>1. "rank" \in Needed(p, s, t, q) /\ "rank" \in Needed(p, i, t, q)
    BY <1>4, <1>5, <1>7
  <2> QED
    BY <1>6, <1>7, <2>1
<1>8. CASE s[1] # i[1]
  <2>1. "file" \in Needed(p, s, t, q) /\ "file" \in Needed(p, i, t, q)
    BY <1>4, <1>5, <1>8
  <2> QED
    BY <1>8, <2>1
<1> QED
  BY <1>7, <1>8

\* A set has at most two officers of a kind.
FewOfficers(p) ==
  \A x \in Piece \ (Color \X {"PAWN"}) : Cardinality({s \in Square : p.board[s] = x}) <= 2

\* A name fits one legal move.
LEMMA NamesAreUnique ==
  ASSUME NEW p, Sound(p), FewOfficers(p), NEW s, NEW t, NEW q, Move(p, s, t, q),
         NEW i, NEW j, NEW r, Move(p, i, j, r),
         Notation(p, s, t, q) = Notation(p, i, j, r)
  PROVE  s = i /\ t = j /\ q = r
<1> DEFINE b == p.board  c == p.turn  n == Notation(p, s, t, q)
<1>1. CASE Castling(p, s, t)
  BY <1>1, CastlingNames
<1>2. CASE ~Castling(p, s, t)
  <2>1. ~Castling(p, i, j)
    BY <1>2, CastlingNames
  <2>2. /\ n.name = KindOf(b[s]) /\ n.to = t /\ n.capture = Captures(p, s, t) /\ n.promotion = q
        /\ n.file = IF "file" \in Needed(p, s, t, q) \/ (KindOf(b[s]) = "PAWN" /\ Captures(p, s, t))
                    THEN s[1] ELSE -1
        /\ n.rank = IF "rank" \in Needed(p, s, t, q) THEN s[2] ELSE -1
    BY <1>2, NotationIs
  <2>3. /\ n.name = KindOf(b[i]) /\ n.to = j /\ n.capture = Captures(p, i, j) /\ n.promotion = r
        /\ n.file = IF "file" \in Needed(p, i, j, r) \/ (KindOf(b[i]) = "PAWN" /\ Captures(p, i, j))
                    THEN i[1] ELSE -1
        /\ n.rank = IF "rank" \in Needed(p, i, j, r) THEN i[2] ELSE -1
    BY <2>1, NotationIs
  <2> HIDE DEF n
  <2>4. t = j /\ q = r /\ KindOf(b[s]) = KindOf(b[i])
    BY <2>2, <2>3
  <2>5. /\ b[s] \in Piece /\ ColorOf(b[s]) = c /\ b[i] \in Piece /\ ColorOf(b[i]) = c
        /\ s \in Square /\ i \in Square /\ c \in Color
    BY CountedFields
  <2>6. b[s] = b[i]
    BY <2>4, <2>5, Pieces
  <2>7. CASE KindOf(b[s]) = "KING"
    <3>1. b[s] = <<c, "KING">> /\ b[i] = <<c, "KING">>
      BY <2>4, <2>5, <2>7, Pieces
    <3>2. OneKing(b, c)
      BY <2>5 DEF Sound
    <3> QED
      BY <2>4, <2>5, <3>1, <3>2 DEF OneKing
  <2>8. CASE KindOf(b[s]) = "PAWN"
    <3>1. Captures(p, s, t) <=> Captures(p, i, t)
      <4>1. Captures(p, s, t) \in BOOLEAN /\ Captures(p, i, t) \in BOOLEAN
        BY DEF Captures, IsEnPassantCaptureMove
      <4> QED
        BY <2>2, <2>3, <2>4, <4>1
    <3>2. Captures(p, s, t) => s[1] = i[1]
      BY <2>2, <2>3, <2>4, <2>8, <3>1
    <3>3. Move(p, i, t, r)
      BY <2>4
    <3> QED
      BY <2>4, <2>8, <3>1, <3>2, <3>3, PawnNames
  <2>9. CASE KindOf(b[s]) \notin {"PAWN", "KING"}
    <3>1. Cardinality({y \in Square : b[y] = b[s]}) <= 2
      <4>1. b[s] \notin Color \X {"PAWN"}
        BY <2>9 DEF KindOf
      <4> QED
        BY <2>5, <4>1 DEF FewOfficers
    <3>2. Move(p, i, t, q)
      BY <2>4
    <3>3. "file" \in Needed(p, s, t, q) /\ "file" \in Needed(p, i, t, q) => s[1] = i[1]
      BY <2>2, <2>3, <2>4
    <3>4. "rank" \in Needed(p, s, t, q) /\ "rank" \in Needed(p, i, t, q) => s[2] = i[2]
      BY <2>2, <2>3, <2>4
    <3> QED
      BY <2>4, <2>6, <2>9, <3>1, <3>2, <3>3, <3>4, OfficerNames
  <2> QED
    BY <2>7, <2>8, <2>9
<1> QED
  BY <1>1, <1>2

\* There are finitely many moves.
LEMMA LegalMovesAreFinite ==
  ASSUME NEW p
  PROVE  IsFiniteSet(LegalMoves(p))
<1> DEFINE P == Square \X (Square \X Promotion)  T == Square \X Square \X Promotion
           f == [m \in T |-> <<m[1], <<m[2], m[3]>>>>]
<1>1. IsFiniteSet(Promotion)
  <2>1. \A S, x : IsFiniteSet(S) => IsFiniteSet(S \cup {x})
    BY FS_AddElement
  <2>2. IsFiniteSet({})
    BY FS_EmptySet
  <2>3. IsFiniteSet({"NONE"})
    BY <2>1, <2>2, {} \cup {"NONE"} = {"NONE"}
  <2>4. IsFiniteSet({"NONE"} \cup {"QUEEN"})
    BY <2>1, <2>3
  <2>5. IsFiniteSet(({"NONE"} \cup {"QUEEN"}) \cup {"ROOK"})
    BY <2>1, <2>4
  <2>6. IsFiniteSet((({"NONE"} \cup {"QUEEN"}) \cup {"ROOK"}) \cup {"BISHOP"})
    BY <2>1, <2>5
  <2>7. IsFiniteSet(((({"NONE"} \cup {"QUEEN"}) \cup {"ROOK"}) \cup {"BISHOP"}) \cup {"KNIGHT"})
    BY <2>1, <2>6
  <2>8. Promotion = ((({"NONE"} \cup {"QUEEN"}) \cup {"ROOK"}) \cup {"BISHOP"}) \cup {"KNIGHT"}
    BY DEF Promotion
  <2> QED
    BY <2>7, <2>8
<1>2. IsFiniteSet(Square \X Promotion)
  BY <1>1, SquaresAreFinite, FS_Product
<1>3. IsFiniteSet(P)
  BY <1>2, SquaresAreFinite, FS_Product
<1>4. f \in Injection(T, P)
  <2>1. f \in [T -> P]
    OBVIOUS
  <2>2. ASSUME NEW m \in T, NEW n \in T, f[m] = f[n]
        PROVE  m = n
    <3>1. m = <<m[1], m[2], m[3]>> /\ n = <<n[1], n[2], n[3]>>
      OBVIOUS
    <3>2. m[1] = n[1] /\ m[2] = n[2] /\ m[3] = n[3]
      BY <2>2
    <3> QED
      BY <3>1, <3>2
  <2> HIDE DEF f, T, P
  <2> QED
    BY <2>1, <2>2 DEF Injection, IsInjective
<1>5. IsFiniteSet(T)
  <2> HIDE DEF f, T, P
  <2> QED
    BY <1>3, <1>4, FS_Injection
<1>6. LegalMoves(p) \subseteq T
  BY DEF LegalMoves, Occupied
<1> HIDE DEF T
<1> QED
  BY <1>5, <1>6, FS_Subset

LEMMA RNotation == RInv => NotationUnique
<1> SUFFICES ASSUME RInv, FewOfficers(pos)
             PROVE  Cardinality({Notation(pos, m[1], m[2], m[3]) : m \in LegalMoves(pos)})
                      = Cardinality(LegalMoves(pos))
  BY DEF NotationUnique, FewOfficers
<1> DEFINE L == LegalMoves(pos)  N == {Notation(pos, m[1], m[2], m[3]) : m \in L}
           f == [m \in L |-> Notation(pos, m[1], m[2], m[3])]
<1>1. Sound(pos)
  BY DEF RInv
<1>2. ASSUME NEW m \in L
      PROVE  Move(pos, m[1], m[2], m[3]) /\ m = <<m[1], m[2], m[3]>>
  BY DEF LegalMoves, Move
<1>3. ASSUME NEW m \in L, NEW k \in L, f[m] = f[k]
      PROVE  m = k
  <2>1. Notation(pos, m[1], m[2], m[3]) = Notation(pos, k[1], k[2], k[3])
    BY <1>3
  <2>2. m[1] = k[1] /\ m[2] = k[2] /\ m[3] = k[3]
    BY <1>1, <1>2, <2>1, NamesAreUnique
  <2> QED
    BY <1>2, <2>2
<1>4. f \in [L -> N] /\ \A n \in N : \E m \in L : f[m] = n
  OBVIOUS
<1>5. IsFiniteSet(L)
  BY LegalMovesAreFinite
<1> HIDE DEF f, L, N
<1>6. f \in Injection(L, N) /\ f \in Surjection(L, N)
  BY <1>3, <1>4 DEF Injection, IsInjective, Surjection
<1>7. Cardinality(N) = Cardinality(L)
  BY <1>5, <1>6, FS_Surjection
<1> QED
  BY <1>7 DEF L, N

\* No two legal moves of a position have the same name.
THEOREM NamesOfMovesAreUnique == Spec => []NotationUnique
BY RulesInvariance, RNotation, PTL
====
