---- MODULE Rules ----
(***************************************************************************)
(* The chess rules of the program (game_state.c, game_state_moves.c) and   *)
(* the names it gives to moves (game_notation.c), on the board of the code:*)
(* a square is <<file, rank>>, rank 0 is Black's back rank, White's pawns  *)
(* start on rank 6 and move towards rank 0.                                *)
(*                                                                         *)
(* One program plays LocalColor by selecting a piece and trying a target;  *)
(* the other colour's moves come from the network.                         *)
(***************************************************************************)
EXTENDS ChessDefs, Integers, FiniteSets

CONSTANTS Openings,    \* the positions a game may start from
          LocalColor,  \* the colour played on this program
          MaxPlies     \* bound on the moves played from an opening

VARIABLES
  pos,       \* ChessGameState
  selected,  \* selected_file and selected_rank
  touched,   \* history: the squares a piece has left, reached or been taken on
  plies      \* history: how many moves were played

vars == <<pos, selected, touched, plies>>

-----------------------------------------------------------------------------
(* Pieces and squares *)

Square == (0 .. 7) \X (0 .. 7)
None == <<-1, -1>>

Kind == {"PAWN", "KNIGHT", "BISHOP", "ROOK", "QUEEN", "KING"}
Piece == Color \X Kind
Empty == <<"UNASSIGNED", "EMPTY">>

Promotion == {"NONE", "QUEEN", "ROOK", "BISHOP", "KNIGHT"}
PromotionChoice == Promotion \ {"NONE"}

\* A castling right is a colour and the file its king goes to.
Right == Color \X {2, 6}

Position ==
  [board : [Square -> Piece \cup {Empty}], turn : Color, castle : SUBSET Right,
   ep : Square \cup {None}, halfmove : 0 .. 100, captured : [Color -> 0 .. 16],
   outcome : BoardResult \cup {"NONE"}, last : (Square \cup {None}) \X (Square \cup {None})]

ColorOf(piece) == piece[1]
KindOf(piece) == piece[2]

Abs(n) == IF n < 0 THEN -n ELSE n
Sign(n) == IF n > 0 THEN 1 ELSE IF n < 0 THEN -1 ELSE 0

FileStep(from, to) == to[1] - from[1]
RankStep(from, to) == to[2] - from[2]

Forward(c) == IF c = "WHITE" THEN -1 ELSE 1
BackRank(c) == IF c = "WHITE" THEN 7 ELSE 0
PawnRank(c) == IF c = "WHITE" THEN 6 ELSE 1

Occupied(b, c) == {s \in Square : ColorOf(b[s]) = c}

-----------------------------------------------------------------------------
(* Where a piece goes *)

IsCastlingKingMove(piece, from, to) ==
  /\ KindOf(piece) = "KING"
  /\ from = <<4, BackRank(ColorOf(piece))>>
  /\ to \in {<<f, BackRank(ColorOf(piece))>> : f \in {2, 6}}

IsEnPassantCaptureMove(p, piece, from, to) ==
  /\ KindOf(piece) = "PAWN"
  /\ Abs(FileStep(from, to)) = 1 /\ RankStep(from, to) = Forward(ColorOf(piece))
  /\ p.ep = to
  /\ p.board[<<to[1], from[2]>>] = <<Opposite(ColorOf(piece)), "PAWN">>

IsPawnPromotionMove(piece, to) ==
  KindOf(piece) = "PAWN" /\ to[2] = BackRank(Opposite(ColorOf(piece)))

\* The loop of path_clear_straight and path_clear_diagonal, between its ends.
PathEmpty(b, from, to) ==
  LET df == FileStep(from, to)
      dr == RankStep(from, to)
      n  == IF Abs(df) > Abs(dr) THEN Abs(df) ELSE Abs(dr)
  IN  \A k \in 1 .. n - 1 :
        b[<<from[1] + k * Sign(df), from[2] + k * Sign(dr)>>] = Empty

PathClearStraight(b, from, to) ==
  (FileStep(from, to) = 0 \/ RankStep(from, to) = 0) /\ PathEmpty(b, from, to)

PathClearDiagonal(b, from, to) ==
  Abs(FileStep(from, to)) = Abs(RankStep(from, to)) /\ PathEmpty(b, from, to)

KnightStep(from, to) ==
  {Abs(FileStep(from, to)), Abs(RankStep(from, to))} = {1, 2}

KingStep(from, to) == Abs(FileStep(from, to)) <= 1 /\ Abs(RankStep(from, to)) <= 1

\* One piece's line in is_square_attacked.
AttacksSquare(b, from, to) ==
  LET piece == b[from]
  IN  CASE KindOf(piece) = "PAWN"   -> /\ RankStep(from, to) = Forward(ColorOf(piece))
                                       /\ Abs(FileStep(from, to)) = 1
        [] KindOf(piece) = "KNIGHT" -> KnightStep(from, to)
        [] KindOf(piece) = "BISHOP" -> PathClearDiagonal(b, from, to)
        [] KindOf(piece) = "ROOK"   -> PathClearStraight(b, from, to)
        [] KindOf(piece) = "QUEEN"  -> \/ PathClearStraight(b, from, to)
                                       \/ PathClearDiagonal(b, from, to)
        [] KindOf(piece) = "KING"   -> KingStep(from, to)
        [] OTHER -> FALSE

IsSquareAttacked(b, target, by) == \E s \in Occupied(b, by) : AttacksSquare(b, s, target)

IsKingInCheck(b, c) ==
  \E k \in Square : b[k] = <<c, "KING">> /\ IsSquareAttacked(b, k, Opposite(c))

\* The files between king and rook, and those the king stands on or crosses.
Inside(f) == IF f = 6 THEN {5, 6} ELSE {1, 2, 3}
Crossed(f) == IF f = 6 THEN {4, 5, 6} ELSE {2, 3, 4}
RookFile(f) == IF f = 6 THEN 7 ELSE 0

\* Mutant: the king may castle through a square that is attacked.
CanCastleThroughCheck(p, c, from, to) ==
  LET row == BackRank(c)
  IN  /\ from = <<4, row>> /\ to[2] = row /\ to[1] \in {2, 6}
      /\ <<c, to[1]>> \in p.castle
      /\ p.board[<<RookFile(to[1]), row>>] = <<c, "ROOK">>
      /\ \A f \in Inside(to[1]) : p.board[<<f, row>>] = Empty
      /\ \A f \in {4, to[1]} : ~IsSquareAttacked(p.board, <<f, row>>, Opposite(c))

CanCastle(p, c, from, to) ==
  LET row == BackRank(c)
  IN  /\ from = <<4, row>> /\ to[2] = row /\ to[1] \in {2, 6}
      /\ <<c, to[1]>> \in p.castle
      /\ p.board[<<RookFile(to[1]), row>>] = <<c, "ROOK">>
      /\ \A f \in Inside(to[1]) : p.board[<<f, row>>] = Empty
      /\ \A f \in Crossed(to[1]) : ~IsSquareAttacked(p.board, <<f, row>>, Opposite(c))

PawnMove(p, piece, from, to) ==
  LET dir == Forward(ColorOf(piece))
  IN  \/ /\ FileStep(from, to) = 0 /\ p.board[to] = Empty
         /\ \/ RankStep(from, to) = dir
            \/ /\ from[2] = PawnRank(ColorOf(piece))
               /\ RankStep(from, to) = 2 * dir
               /\ p.board[<<from[1], from[2] + dir>>] = Empty
      \/ /\ Abs(FileStep(from, to)) = 1 /\ RankStep(from, to) = dir
         /\ p.board[to] # Empty \/ IsEnPassantCaptureMove(p, piece, from, to)

IsPseudoLegalMove(p, piece, from, to) ==
  /\ from # to /\ ColorOf(p.board[to]) # ColorOf(piece)
  /\ CASE KindOf(piece) = "PAWN" -> PawnMove(p, piece, from, to)
       [] KindOf(piece) = "KING" -> \/ KingStep(from, to)
                                    \/ CanCastle(p, ColorOf(piece), from, to)
       [] OTHER -> AttacksSquare(p.board, from, to)

-----------------------------------------------------------------------------
(* Moving *)

\* A promoted piece has the chosen kind.
Placed(piece, to, promotion) ==
  IF IsPawnPromotionMove(piece, to) THEN <<ColorOf(piece), promotion>> ELSE piece

\* The board after a move, with the pawn taken in passing and the rook that
\* castles: the copy of is_legal_move and the board of apply_move alike.
MovedBoard(p, from, to, promotion) ==
  LET piece == p.board[from]
      row   == to[2]
      moved == [p.board EXCEPT ![from] = Empty, ![to] = Placed(piece, to, promotion)]
      rook  == <<RookFile(to[1]), row>>
      hop   == <<IF to[1] = 6 THEN 5 ELSE 3, row>>
  IN  IF IsEnPassantCaptureMove(p, piece, from, to)
      THEN [moved EXCEPT ![<<to[1], from[2]>>] = Empty]
      ELSE IF IsCastlingKingMove(piece, from, to)
      THEN [moved EXCEPT ![hop] = moved[rook], ![rook] = Empty]
      ELSE moved

\* Mutant: any promotion byte of a MOVE will do.
PromotionFitsAny(piece, to, promotion) == TRUE

PromotionFits(piece, to, promotion) ==
  promotion \in IF IsPawnPromotionMove(piece, to) THEN PromotionChoice ELSE {"NONE"}

IsLegalMove(p, c, from, to, promotion) ==
  LET piece == p.board[from]
  IN  /\ ColorOf(piece) = c
      /\ PromotionFits(piece, to, promotion)
      /\ IsPseudoLegalMove(p, piece, from, to)
      /\ ~IsKingInCheck(MovedBoard(p, from, to, promotion), c)

HasAnyLegalMove(p, c) ==
  \E from \in Occupied(p.board, c), to \in Square, promotion \in Promotion :
    IsLegalMove(p, c, from, to, promotion)

RookHome(right) == <<RookFile(right[2]), BackRank(right[1])>>

\* Mutant: a rook that is taken at home leaves its castling right behind.
CastleRightsOfMoverOnly(p, from, to) ==
  {r \in p.castle :
     /\ p.board[from] # <<r[1], "KING">>
     /\ ~(from = RookHome(r) /\ p.board[from] = <<r[1], "ROOK">>)}

\* What is left of the castling rights: a king that moves loses both of its
\* colour, a rook that leaves its corner or is taken there its own.
CastleRightsAfter(p, from, to) ==
  {r \in p.castle :
     /\ p.board[from] # <<r[1], "KING">>
     /\ ~(from = RookHome(r) /\ p.board[from] = <<r[1], "ROOK">>)
     /\ ~(to = RookHome(r) /\ p.board[to] = <<r[1], "ROOK">>)}

\* A pawn that moved two ranks can be taken in passing on the square it crossed.
EnPassantTarget(piece, from, to) ==
  IF KindOf(piece) = "PAWN" /\ Abs(RankStep(from, to)) = 2
  THEN <<from[1], from[2] + Forward(ColorOf(piece))>> ELSE None

\* Mutant: a pawn taken in passing is not counted.
CapturedOnTarget(p, from, to) ==
  IF p.board[to] # Empty
  THEN [p.captured EXCEPT ![ColorOf(p.board[to])] = @ + 1] ELSE p.captured

\* captured[], summed over the kinds of a colour.
CapturedAfter(p, from, to) ==
  LET victim == IF IsEnPassantCaptureMove(p, p.board[from], from, to)
                THEN p.board[<<to[1], from[2]>>] ELSE p.board[to]
  IN  IF victim = Empty THEN p.captured
      ELSE [p.captured EXCEPT ![ColorOf(victim)] = @ + 1]

\* Mutant: having no move is mate, in check or not.
BoardOutcomeNoStalemate(p, next) ==
  IF p.halfmove >= 100 THEN "FIFTY_MOVE_RULE"
  ELSE IF HasAnyLegalMove(p, next) THEN p.outcome
  ELSE IF next = "WHITE" THEN "CHECKMATE_BLACK_WINS" ELSE "CHECKMATE_WHITE_WINS"

\* The end of apply_move: the fifty-move rule is looked at first.
BoardOutcome(p, next) ==
  IF p.halfmove >= 100 THEN "FIFTY_MOVE_RULE"
  ELSE IF HasAnyLegalMove(p, next) THEN p.outcome
  ELSE IF ~IsKingInCheck(p.board, next) THEN "STALEMATE"
  ELSE IF next = "WHITE" THEN "CHECKMATE_BLACK_WINS" ELSE "CHECKMATE_WHITE_WINS"

ApplyMove(p, from, to, promotion) ==
  LET piece == p.board[from]
      moved == [board    |-> MovedBoard(p, from, to, promotion),
                turn     |-> Opposite(p.turn),
                castle   |-> CastleRightsAfter(p, from, to),
                ep       |-> EnPassantTarget(piece, from, to),
                halfmove |-> IF KindOf(piece) = "PAWN" \/ p.board[to] # Empty
                             THEN 0 ELSE p.halfmove + 1,
                captured |-> CapturedAfter(p, from, to),
                outcome  |-> p.outcome,
                last     |-> <<from, to>>]
  IN  [moved EXCEPT !.outcome = BoardOutcome(moved, moved.turn)]

-----------------------------------------------------------------------------
(* The game *)

ASSUME RulesAssumption == LocalColor \in Color /\ MaxPlies \in Nat

\* The history an opening stands for: a missing right means a touched corner.
TouchedBefore(p) == {RookHome(r) : r \in Right \ p.castle}

Init ==
  /\ pos \in Openings
  /\ selected = None
  /\ touched = TouchedBefore(pos)
  /\ plies = 0

\* A player moves while the board shows no result (input_board.c); so does the
\* other program's, and no MOVE arrives after one.
Playing == pos.outcome = "NONE" /\ plies < MaxPlies

Moved(from, to, promotion) ==
  /\ pos' = ApplyMove(pos, from, to, promotion)
  /\ selected' = None
  /\ touched' = touched \cup {from, to}
  /\ plies' = plies + 1

\* chess_game_select_local_piece
SelectLocalPiece(s) ==
  /\ Playing /\ pos.turn = LocalColor
  /\ ColorOf(pos.board[s]) = LocalColor
  /\ selected' = s
  /\ UNCHANGED <<pos, touched, plies>>

\* Mutant: the choice is asked for before the move is known to be legal.
RequiresPromotionUnprobed(to) ==
  /\ selected # None /\ pos.turn = LocalColor
  /\ ColorOf(pos.board[selected]) = LocalColor
  /\ IsPawnPromotionMove(pos.board[selected], to)

\* chess_game_local_move_requires_promotion: a queen stands for the choice.
LocalMoveRequiresPromotion(to) ==
  /\ selected # None /\ pos.turn = LocalColor
  /\ ColorOf(pos.board[selected]) = LocalColor
  /\ IsPawnPromotionMove(pos.board[selected], to)
  /\ IsLegalMove(pos, LocalColor, selected, to, "QUEEN")

\* chess_game_try_local_move: a move to where the piece stands unselects it,
\* an illegal one keeps it selected.
TryLocalMove(to, promotion) ==
  /\ Playing /\ selected # None /\ pos.turn = LocalColor
  /\ ColorOf(pos.board[selected]) = LocalColor
  /\ \/ /\ to = selected /\ selected' = None
        /\ UNCHANGED <<pos, touched, plies>>
     \/ /\ to # selected /\ IsLegalMove(pos, LocalColor, selected, to, promotion)
        /\ Moved(selected, to, promotion)

\* chess_game_apply_remote_move
ApplyRemoteMove(from, to, promotion) ==
  LET c == Opposite(LocalColor)
  IN  /\ Playing /\ pos.turn = c
      /\ ColorOf(pos.board[from]) = c
      /\ IsLegalMove(pos, c, from, to, promotion)
      /\ Moved(from, to, promotion)

Next ==
  \/ \E s \in Occupied(pos.board, LocalColor) : SelectLocalPiece(s)
  \/ \E to \in Square, promotion \in Promotion : TryLocalMove(to, promotion)
  \/ \E from \in Occupied(pos.board, Opposite(LocalColor)), to \in Square,
        promotion \in Promotion : ApplyRemoteMove(from, to, promotion)

Spec == Init /\ [][Next]_vars

-----------------------------------------------------------------------------
(* The names of moves (game_notation.c), as what is written and not how *)

LegalMoves(p) ==
  {m \in Occupied(p.board, p.turn) \X Square \X Promotion :
     IsLegalMove(p, p.turn, m[1], m[2], m[3])}

\* The pieces a move could be confused with.
Rivals(p, from, to, promotion) ==
  {s \in Occupied(p.board, p.turn) \ {from} :
     p.board[s] = p.board[from] /\ IsLegalMove(p, p.turn, s, to, promotion)}

\* Mutant: a rival on the same rank is told apart by the rank.
NeededSwapped(p, from, to, promotion) ==
  LET rivals == Rivals(p, from, to, promotion)
  IN  IF KindOf(p.board[from]) \in {"PAWN", "KING"} THEN {}
      ELSE IF \E s \in rivals : s[1] # from[1] /\ s[2] # from[2] THEN {"file"}
      ELSE {w \in {"file", "rank"} :
              IF w = "file" THEN \E s \in rivals : s[1] = from[1]
                            ELSE \E s \in rivals : s[2] = from[2]}

\* needs_san_disambiguation: the file alone as soon as a rival shares neither
\* coordinate; otherwise the rank against a rival on the file, and the file
\* against one on the rank.
Needed(p, from, to, promotion) ==
  LET rivals == Rivals(p, from, to, promotion)
  IN  IF KindOf(p.board[from]) \in {"PAWN", "KING"} THEN {}
      ELSE IF \E s \in rivals : s[1] # from[1] /\ s[2] # from[2] THEN {"file"}
      ELSE {w \in {"file", "rank"} :
              IF w = "rank" THEN \E s \in rivals : s[1] = from[1]
                            ELSE \E s \in rivals : s[2] = from[2]}

CheckMark(p, from, to, promotion) ==
  LET after == ApplyMove(p, from, to, promotion)
  IN  IF ~IsKingInCheck(after.board, after.turn) THEN ""
      ELSE IF HasAnyLegalMove(after, after.turn) THEN "+" ELSE "#"

\* chess_move_format_algebraic_notation of a legal move.
Notation(p, from, to, promotion) ==
  LET piece   == p.board[from]
      capture == p.board[to] # Empty \/ IsEnPassantCaptureMove(p, piece, from, to)
      needed  == Needed(p, from, to, promotion)
      mark    == CheckMark(p, from, to, promotion)
  IN  IF IsCastlingKingMove(piece, from, to)
      THEN [name |-> IF to[1] = 6 THEN "O-O" ELSE "O-O-O", mark |-> mark]
      ELSE [name |-> KindOf(piece), to |-> to, capture |-> capture,
            promotion |-> promotion, mark |-> mark,
            file |-> IF "file" \in needed \/ (KindOf(piece) = "PAWN" /\ capture)
                     THEN from[1] ELSE -1,
            rank |-> IF "rank" \in needed THEN from[2] ELSE -1]

-----------------------------------------------------------------------------
(* Chess, independently of the code: what a piece commands along its lines, *)
(* what the history allows, what a move may not leave behind.               *)

Sees(b, s, d) ==
  {<<s[1] + k * d[1], s[2] + k * d[2]>> : k \in
     {n \in 1 .. 7 : /\ <<s[1] + n * d[1], s[2] + n * d[2]>> \in Square
                     /\ \A i \in 1 .. n - 1 :
                          b[<<s[1] + i * d[1], s[2] + i * d[2]>>] = Empty}}

Lines == {<<0, 1>>, <<1, 0>>, <<0, -1>>, <<-1, 0>>}
Diagonals == {<<1, 1>>, <<1, -1>>, <<-1, 1>>, <<-1, -1>>}
Leaps == {d \in (-2 .. 2) \X (-2 .. 2) : d[1] * d[1] + d[2] * d[2] = 5}

Steps(s, offsets) == {<<s[1] + d[1], s[2] + d[2]>> : d \in offsets} \cap Square

Commands(b, s) ==
  CASE KindOf(b[s]) = "ROOK"   -> UNION {Sees(b, s, d) : d \in Lines}
    [] KindOf(b[s]) = "BISHOP" -> UNION {Sees(b, s, d) : d \in Diagonals}
    [] KindOf(b[s]) = "QUEEN"  -> UNION {Sees(b, s, d) : d \in Lines \cup Diagonals}
    [] KindOf(b[s]) = "KNIGHT" -> Steps(s, Leaps)
    [] KindOf(b[s]) = "KING"   -> Steps(s, Lines \cup Diagonals)
    [] OTHER -> Steps(s, {<<-1, Forward(ColorOf(b[s]))>>, <<1, Forward(ColorOf(b[s]))>>})

Commanded(b, c) == UNION {Commands(b, s) : s \in Occupied(b, c)}

InCheck(b, c) == \E k \in Occupied(b, c) \cap Commanded(b, Opposite(c)) : KindOf(b[k]) = "KING"

\* The pawn that has just moved two ranks, if one has.
Runner(p) ==
  IF p.last[1] \in Square /\ KindOf(p.board[p.last[2]]) = "PAWN"
       /\ Abs(RankStep(p.last[1], p.last[2])) = 2
  THEN {p.last[2]} ELSE {}

Passed(p) == {<<s[1], s[2] - Forward(ColorOf(p.board[s]))>> : s \in Runner(p)}

Pushes(p, s) ==
  LET c == ColorOf(p.board[s])
      one == <<s[1], s[2] + Forward(c)>>
      two == <<s[1], s[2] + 2 * Forward(c)>>
  IN  {t \in {one, two} \cap Square :
         /\ p.board[one] = Empty
         /\ t = two => s[2] = PawnRank(c) /\ p.board[two] = Empty}

Targets(p, s) ==
  LET c == ColorOf(p.board[s])
      taken == Occupied(p.board, Opposite(c))
  IN  IF KindOf(p.board[s]) = "PAWN"
      THEN Pushes(p, s) \cup (Commands(p.board, s) \cap (taken \cup Passed(p)))
      ELSE Commands(p.board, s) \ Occupied(p.board, c)

\* King and rook have not moved, nothing stands between them, and the king
\* neither leaves, crosses nor reaches a commanded square.
CastlingAllowed(p, c, f) ==
  LET row == BackRank(c)
  IN  /\ {<<4, row>>, <<RookFile(f), row>>} \cap touched = {}
      /\ \A g \in Inside(f) : p.board[<<g, row>>] = Empty
      /\ \A g \in Crossed(f) : <<g, row>> \notin Commanded(p.board, Opposite(c))

After(p, s, t) ==
  LET passing == KindOf(p.board[s]) = "PAWN" /\ t \in Passed(p) /\ s[1] # t[1]
      gone    == {s} \cup IF passing THEN Runner(p) ELSE {}
  IN  [q \in Square |-> IF q = t THEN p.board[s] ELSE IF q \in gone THEN Empty ELSE p.board[q]]

ChessMoves(p) ==
  LET c == p.turn
      choices(s, t) == IF KindOf(p.board[s]) = "PAWN" /\ t[2] = BackRank(Opposite(c))
                       THEN PromotionChoice ELSE {"NONE"}
      safe(s) == {t \in Targets(p, s) : ~InCheck(After(p, s, t), c)}
  IN  (UNION {UNION {{<<s, t, q>> : q \in choices(s, t)} : t \in safe(s)}
                : s \in Occupied(p.board, c)})
      \cup {<<<<4, BackRank(c)>>, <<f, BackRank(c)>>, "NONE">>
              : f \in {g \in {2, 6} : CastlingAllowed(p, c, g)}}

-----------------------------------------------------------------------------
(* Where a game may start *)

\* The flag of taking in passing says what the last move says.
Chased(p) ==
  \/ p.ep = None /\ Runner(p) = {}
  \/ \E r \in Square :
       /\ Runner(p) = {r} /\ p.board[r] = <<Opposite(p.turn), "PAWN">>
       /\ p.ep = <<r[1], r[2] - Forward(Opposite(p.turn))>>
       /\ p.ep \in Square /\ p.board[p.ep] = Empty

\* There is no second king of a colour.
OneKing(b, c) == \A j, k \in Square : b[j] = <<c, "KING">> /\ b[k] = <<c, "KING">> => j = k

\* A game starts from the initial position, or resumes one that was reached by
\* play and restored with its flags: undecided, with king and rook at home for
\* every castling right, no more men than a set has, and no king that could be
\* taken at once.
ASSUME OpeningsAssumption ==
  \A p \in Openings :
    /\ p \in Position /\ p.outcome = "NONE" /\ p.halfmove < 100 /\ Chased(p)
    /\ \A r \in p.castle : /\ p.board[<<4, BackRank(r[1])>>] = <<r[1], "KING">>
                           /\ p.board[RookHome(r)] = <<r[1], "ROOK">>
    /\ \A c \in Color : /\ OneKing(p.board, c)
                        /\ Cardinality(Occupied(p.board, c)) + p.captured[c] <= 16
    /\ ~IsKingInCheck(p.board, Opposite(p.turn))

-----------------------------------------------------------------------------
(* Properties *)

\* Every value is one the code's fields can hold.
TypeOK ==
  /\ pos \in Position /\ selected \in Square \cup {None}
  /\ touched \subseteq Square /\ plies \in 0 .. MaxPlies

\* chess_gs_is_legal_move accepts exactly the moves of chess: pins, checks,
\* castling and taking in passing included, the last two by what was played
\* and not by the flags the code keeps.
LegalMovesAreChess == LegalMoves(pos) = ChessMoves(pos)

\* A castling right is kept exactly as long as nothing has happened on the
\* home squares of its king and rook, captures included.
RightsFollowHistory ==
  pos.castle = {r \in Right : {<<4, BackRank(r[1])>>, RookHome(r)} \cap touched = {}}

\* The result recorded by chess_gs_apply_move is the one the position has:
\* no move left is mate in check and stalemate otherwise, unless a hundred
\* half-moves without pawn or capture have made it a draw already.
ResultIsChess ==
  plies > 0 =>
    pos.outcome = IF pos.halfmove >= 100 THEN "FIFTY_MOVE_RULE"
                  ELSE IF ChessMoves(pos) # {} THEN "NONE"
                  ELSE IF ~InCheck(pos.board, pos.turn) THEN "STALEMATE"
                  ELSE IF pos.turn = "WHITE" THEN "CHECKMATE_BLACK_WINS"
                  ELSE "CHECKMATE_WHITE_WINS"

\* The promotion dialog opens exactly for the moves that need a choice, and
\* any choice made in it is then a legal move.
PromotionAskedWhenNeeded ==
  selected # None => \A to \in Square :
    {q \in PromotionChoice : IsLegalMove(pos, LocalColor, selected, to, q)}
      = IF LocalMoveRequiresPromotion(to) THEN PromotionChoice ELSE {}

\* The move history names a move as no other move of the position is named,
\* as long as a side has at most two pieces of a kind.
NotationUnique ==
  (\A x \in Piece \ (Color \X {"PAWN"}) :
     Cardinality({s \in Square : pos.board[s] = x}) <= 2) =>
  Cardinality({Notation(pos, m[1], m[2], m[3]) : m \in LegalMoves(pos)})
    = Cardinality(LegalMoves(pos))

\* No piece appears or vanishes: what leaves the board of either colour is
\* counted as captured, a pawn taken in passing included.
PiecesAccounted ==
  [][\A c \in Color : Cardinality(Occupied(pos'.board, c)) + pos'.captured[c]
                        = Cardinality(Occupied(pos.board, c)) + pos.captured[c]]_vars
====
