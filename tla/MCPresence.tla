----------------------------- MODULE MCPresence -----------------------------
(* Instances of Presence for TLC. *)
EXTENDS Presence

\* Everything off, or the laser cutter ventilated.
MCWant == {A!AllOff, [A!AllOff EXCEPT !.Damper1 = "open", !.Fan = "on"]}
=============================================================================
