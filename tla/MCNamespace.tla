----------------------------- MODULE MCNamespace -----------------------------
(* Instances of Namespace: small sets of paths, and what is done with them. *)
EXTENDS Namespace

CONSTANTS c1

TwoKeys == { <<"a">>, <<":x">>, <<":y">>, <<"a", "b">>, <<":y", "b">> }
Flat == { <<"a">>, <<"b">> }
FlatAndRoot == Flat \cup { <<"AGENTS.md">> }
AllPaths == TwoKeys \cup FlatAndRoot

\* Paths that are looked up.
Lookups == { <<"a">>, <<"b">>, <<"c">>, <<"a", "b">>, <<"c", "b">> }

\* Static and parameter mounts at two depths, renamed, saved and restored, with a
\* subscriber that calls back.
Routing == [patterns |-> TwoKeys, kinds |-> {"blob"}, maxMounts |-> 3, clients |-> {},
            callsBack |-> TRUE, maxRenames |-> 2, maxRestores |-> 1]

\* Skills with files at the root, and streams with a client.
Skills == [patterns |-> FlatAndRoot, kinds |-> {"stream", "skill", "root", "agents"},
           maxMounts |-> 2, clients |-> {c1}, callsBack |-> FALSE, maxRenames |-> 0,
           maxRestores |-> 0]

\* A skill with a file at the root, and a subscriber that calls back.
Callback == [patterns |-> Flat, kinds |-> {"blob", "root"}, maxMounts |-> 3, clients |-> {},
             callsBack |-> TRUE, maxRenames |-> 0, maxRestores |-> 0]

Both == {Routing, Skills}
OnlyCallback == {Callback}
==============================================================================
