---- MODULE MCRules ----
(***************************************************************************)
(* Openings for TLC: the initial position and endings chosen so that       *)
(* castling, taking in passing, promotion, pins, stalemate, mate and the   *)
(* fifty-move rule are a few moves away.  Each is written as the set of    *)
(* its men, <<file, rank, colour, kind>>.                                  *)
(***************************************************************************)
EXTENDS Rules

At(men, turn, castle, halfmove) ==
  [board |-> [s \in Square |->
      IF \E m \in men : <<m[1], m[2]>> = s
      THEN LET m == CHOOSE m \in men : <<m[1], m[2]>> = s IN <<m[3], m[4]>>
      ELSE Empty],
   turn |-> turn, castle |-> castle, ep |-> None, halfmove |-> halfmove,
   captured |-> [c \in Color |-> 0], outcome |-> "NONE", last |-> <<None, None>>]

W(f, r, k) == <<f, r, "WHITE", k>>
B(f, r, k) == <<f, r, "BLACK", k>>

Officers == <<"ROOK", "KNIGHT", "BISHOP", "QUEEN", "KING", "BISHOP", "KNIGHT", "ROOK">>

\* chess_game_state_init
Initial == At({W(f, 7, Officers[f + 1]) : f \in 0 .. 7} \cup {W(f, 6, "PAWN") : f \in 0 .. 7}
         \cup {B(f, 0, Officers[f + 1]) : f \in 0 .. 7} \cup {B(f, 1, "PAWN") : f \in 0 .. 7},
              "WHITE", Right, 0)

\* Both sides may castle; a pawn can take a rook in its corner and promote.
Castling == At({W(4, 7, "KING"), W(0, 7, "ROOK"), W(7, 7, "ROOK"), W(6, 1, "PAWN"),
                B(4, 0, "KING"), B(7, 0, "ROOK"), B(1, 6, "PAWN")},
               "WHITE", {<<"WHITE", 2>>, <<"WHITE", 6>>, <<"BLACK", 6>>}, 0)

\* A pawn that may take in passing is pinned along its rank.
Passing == At({W(0, 3, "KING"), W(1, 3, "PAWN"), W(4, 6, "PAWN"),
               B(7, 3, "ROOK"), B(2, 1, "PAWN"), B(5, 4, "PAWN"), B(7, 0, "KING")},
              "BLACK", {}, 0)

\* The same with nothing behind the pawn, so that it may take.
PassingFree == At({W(0, 7, "KING"), W(3, 3, "PAWN"), B(2, 1, "PAWN"), B(4, 1, "PAWN"),
                   B(7, 0, "KING")}, "BLACK", {}, 0)

\* Mate and stalemate are one move away, the hundredth half-move two.
Ending == At({W(5, 2, "KING"), W(6, 3, "QUEEN"), W(0, 2, "PAWN"), B(7, 0, "KING"),
              B(0, 1, "PAWN")}, "WHITE", {}, 98)

\* Two knights and two rooks of a side reach the same squares.
Twins == At({W(4, 7, "KING"), W(1, 7, "KNIGHT"), W(5, 7, "KNIGHT"), W(3, 5, "ROOK"),
             W(3, 1, "ROOK"), B(7, 0, "KING"), B(6, 1, "PAWN")}, "WHITE", {}, 0)

MCOpenings == {Initial, Castling, Passing, PassingFree, Ending, Twins}
====
