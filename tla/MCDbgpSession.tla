---------------------------- MODULE MCDbgpSession ----------------------------
(***************************************************************************)
(* DbgpSession for TLC: the sets of commands its configurations use.       *)
(***************************************************************************)
EXTENDS DbgpSession

\* Two processes: a continuation, what resumes the program without one, and what
\* ends the session.
MCForkNames == {"run", "unknown", "detach"}

\* One process: every kind of command there is.
MCAllNames == AllNames
=============================================================================
