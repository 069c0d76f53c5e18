------------------------------- MODULE Requests -------------------------------
(***************************************************************************)
(* Requests of an adapter on the namespace: a goroutine handles one at a   *)
(* time, as a sequence of FileSystem calls.                                *)
(***************************************************************************)
EXTENDS MountTree

VARIABLES tree,    \* what is mounted
          job,     \* the request of each goroutine, and where its handler is
          started  \* requests made so far

\* The handler goes on with another step, or answers.
To(j, pc) == [j EXCEPT !.pc = pc]
Reply(j, code) == [j EXCEPT !.pc = "reply", !.code = code]
===============================================================================
