---- MODULE MCChallenge ----
(***************************************************************************)
(* Instances of Challenge for TLC.  In the first, two players who may      *)
(* challenge each other, one of whom is found late, and a third program    *)
(* that may be out of reach; in the second, a lobby whose peers come and   *)
(* go at any time.                                                         *)
(***************************************************************************)
EXTENDS Challenge

CONSTANTS ann, bob, cid

MCMayChallenge == {<<ann, bob>>, <<bob, ann>>, <<ann, cid>>}
MCKnownAtFirst == {<<ann, bob>>, <<ann, cid>>}
MCMayFind == MCKnownAtFirst \cup {<<bob, ann>>, <<cid, ann>>}
MCMayRefuse == {<<ann, cid>>}

\* Only ann challenges, and every program is found late.
ComingAndGoing == {<<ann, bob>>, <<ann, cid>>}
NoPairs == {}
====
