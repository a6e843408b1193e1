---- MODULE AgreedGame ----
(***************************************************************************)
(* What two connected programs promise their players: there is one game,   *)
(* it only ever grows by a legal move of the side whose turn it is, that   *)
(* move is made by a player who has seen the whole game, and each player   *)
(* sees the game one move at a time, in order and without gaps.            *)
(***************************************************************************)
EXTENDS ChessDefs

CONSTANTS Moves,         \* the moves of the game
          Legal(_, _)    \* Legal(h, m): m may follow the moves h

VARIABLES game,          \* the moves played, oldest first
          seen,          \* per player, how many of them its board shows
          color          \* per player, the colour it plays

vars == <<game, seen, color>>

Init ==
  /\ game = <<>>
  /\ seen = [p \in Peer |-> 0]
  /\ color \in {f \in [Peer -> Color] : f["SERVER"] = Opposite(f["CLIENT"])}

Play(p) ==
  /\ seen[p] = Len(game)
  /\ SideToMove(game) = color[p]
  /\ \E m \in Moves : /\ Legal(game, m)
                      /\ game' = Append(game, m)
  /\ seen' = [seen EXCEPT ![p] = Len(game) + 1]
  /\ UNCHANGED color

See(p) ==
  /\ seen[p] < Len(game)
  /\ seen' = [seen EXCEPT ![p] = @ + 1]
  /\ UNCHANGED <<game, color>>

Next == \E p \in Peer : Play(p) \/ See(p)

Spec == Init /\ [][Next]_vars
====
