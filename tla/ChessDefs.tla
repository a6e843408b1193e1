---- MODULE ChessDefs ----
(***************************************************************************)
(* Vocabulary shared by the modules of the project: the two colours, the   *)
(* results of a game and the roles of the two ends of a game connection.   *)
(* The initial values of the C enums (CHESS_COLOR_UNASSIGNED,              *)
(* CHESS_OUTCOME_NONE) are the strings "UNASSIGNED" and "NONE".            *)
(***************************************************************************)
EXTENDS Naturals, Sequences

Color == {"WHITE", "BLACK"}

Opposite(c) == IF c = "WHITE" THEN "BLACK"
               ELSE IF c = "BLACK" THEN "WHITE" ELSE "UNASSIGNED"

\* Results chess_gs_apply_move reads off the board after a move.
BoardResult == {"CHECKMATE_WHITE_WINS", "CHECKMATE_BLACK_WINS",
                "STALEMATE", "FIFTY_MOVE_RULE"}

\* Results the players or the clock decide.
Resigned(c) == IF c = "WHITE" THEN "WHITE_RESIGNED" ELSE "BLACK_RESIGNED"
TimedOut(c) == IF c = "WHITE" THEN "WHITE_TIMEOUT" ELSE "BLACK_TIMEOUT"

Outcome == BoardResult \cup {"NONE", "DRAW_AGREED"}
             \cup {"WHITE_RESIGNED", "BLACK_RESIGNED"}
             \cup {"WHITE_TIMEOUT", "BLACK_TIMEOUT"}

\* White opens, and every ply passes the turn: the side to move is the
\* parity of the number of plies played.
SideToMove(h) == IF Len(h) % 2 = 0 THEN "WHITE" ELSE "BLACK"

\* The two ends of a game connection, named by their role in it.
Peer == {"SERVER", "CLIENT"}
Other(p) == IF p = "SERVER" THEN "CLIENT" ELSE "SERVER"
====
