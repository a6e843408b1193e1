---- MODULE MCDiscovery ----
(***************************************************************************)
(* An instance of Discovery for TLC: three programs, one of them announced *)
(* on two interfaces, and queues that one entry fills.                     *)
(***************************************************************************)
EXTENDS Discovery

CONSTANTS a, b, c

MCAnnouncement == {<<a, 1>>, <<a, 2>>, <<b, 1>>, <<c, 1>>}
====
