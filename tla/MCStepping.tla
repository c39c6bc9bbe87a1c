----------------------------- MODULE MCStepping -----------------------------
(* An instance of Stepping for TLC: a script that calls itself and Fiber's     *)
(* methods, and one fiber besides the main one.                                *)
EXTENDS Stepping
=============================================================================
