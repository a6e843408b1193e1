---- MODULE MCFraming ----
(***************************************************************************)
(* An instance of Framing for TLC: headers of two bytes, payloads of up to *)
(* two, a socket buffer that one packet fills: every send may be cut short *)
(* and every packet received in any number of pieces.                      *)
(***************************************************************************)
EXTENDS Framing
====
