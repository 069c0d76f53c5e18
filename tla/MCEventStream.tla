---------------------------- MODULE MCEventStream ----------------------------
(* An instance of EventStream: events on two paths, a prefix for one of them *)
(* and the empty prefix.                                                     *)
EXTENDS EventStream

CONSTANTS p, q

Prefixes == { {p}, {p, q} }
==============================================================================
