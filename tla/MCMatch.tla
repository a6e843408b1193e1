---- MODULE MCMatch ----
(***************************************************************************)
(* A small game for TLC: a quiet move may not be played twice in a row, so *)
(* that legality depends on the board; "mate" wins for the player who      *)
(* plays it, "drawn" ends the game with nobody winning.                    *)
(***************************************************************************)
EXTENDS Match

MCLegal(h, m) == IF h = <<>> THEN m # "mate" ELSE m # h[Len(h)]

MCResult(h) ==
  IF h = <<>> THEN "NONE"
  ELSE CASE h[Len(h)] = "mate" /\ SideToMove(h) = "BLACK" -> "CHECKMATE_WHITE_WINS"
         [] h[Len(h)] = "mate" /\ SideToMove(h) = "WHITE" -> "CHECKMATE_BLACK_WINS"
         [] h[Len(h)] = "drawn" -> "STALEMATE"
         [] OTHER -> "NONE"
====
