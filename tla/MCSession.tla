---- MODULE MCSession ----
(***************************************************************************)
(* Small games for Session: a move may be played once, whoever plays it.   *)
(***************************************************************************)
EXTENDS Session

MCLegal(h, m) == \A i \in 1..Len(h) : h[i] # m
====
