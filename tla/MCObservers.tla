----------------------------- MODULE MCObservers ----------------------------
(* An instance of Observers for TLC: scripts that call themselves and one      *)
(* built-in function that stands for Fiber's methods, exit() and Xdebug's      *)
(* functions, and one fiber besides the main one.                              *)
EXTENDS Observers
=============================================================================
