--------------------------- MODULE NamespaceProofs ---------------------------
(***************************************************************************)
(* What every namespace keeps to, whatever the patterns, the parameters    *)
(* and the scenario: entries lie where their path leads, a lookup finds    *)
(* the most static mount that fits, a Rename that fails moves nothing, and *)
(* a snapshot can be restored.                                             *)
(***************************************************************************)
EXTENDS Namespace, WellFoundedInduction, TLAPS

\* The tries, and the way to a path in one of them.
Tries == [nodes : SUBSET Nodes, key : [Nodes -> Params \cup {None}], mount : [Nodes -> Entry \cup {None}]]
Leads(tr, p) == /\ \A i \in 0 .. Len(p) : Prefix(p, i) \in tr.nodes
                /\ \A i \in 1 .. Len(p) : p[i] \in Params => tr.key[Prefix(p, i - 1)] = p[i]
Sound(tr) == /\ tr \in Tries /\ <<>> \in tr.nodes
             /\ \A n \in Nodes : tr.mount[n] # None =>
                  Pos(tr.mount[n].path) = n /\ Leads(tr, tr.mount[n].path)

Types == /\ skills \subseteq Patterns /\ streams \subseteq Requests
         /\ pc \in {"idle", "skill", "skillEmit", "agents", "agentsEmit", "restore", "emit"}
         /\ call \in Entry \cup {None} /\ pending \subseteq saved /\ saved \subseteq Entry
         /\ got \in [Clients -> Requests \cup {None}]
         /\ renames \in Nat /\ restores \in Nat /\ conf \in Scenarios

\* What was saved can be mounted again: the names of parameters are never forgotten.
Saved == /\ \A e \in saved : Leads(trie, e.path)
         /\ \A e, f \in saved : Pos(e.path) = Pos(f.path) => e = f

\* A Restore has mounted what is no longer pending, and nothing else.
Restoring ==
  /\ pc # "restore" => pending = {}
  /\ pc = "restore" =>
       /\ conf.maxRestores # 0
       /\ \A n \in Nodes : trie.mount[n] # None => trie.mount[n] \in saved \ pending
       /\ \A e \in saved \ pending : trie.mount[Pos(e.path)] = e \/ Pos(e.path) \in RootFiles

Calls == /\ pc \in {"skill", "skillEmit", "agents", "agentsEmit"} =>
              /\ call \in Entry /\ call.path \in conf.patterns
              /\ call.kind \in conf.kinds \cap {"root", "agents"}
         /\ pc = "emit" => last.err = None
         /\ last.op = "mount" => last.path \in conf.patterns

\* Where nothing is renamed or restored, an entry has the skill of its own path.
Skilled == conf.maxRenames = 0 /\ conf.maxRestores = 0 =>
  \A n \in Nodes : LET e == trie.mount[n] IN
    e # None => e.skill \in {None, e.path} /\ (e.skill # None => e.skill \in skills)

NsInv == Types /\ Sound(trie) /\ Saved /\ Restoring /\ Calls /\ ExistMeansTaken /\ Skilled

-----------------------------------------------------------------------------
\* Paths, nodes and the ways between them.

\* The strings, with those that occur here as literals.
Segments == STRING \cup {"*", "SKILL.md", "AGENTS.md"}

LEMMA PathFacts ==
  ASSUME NEW p \in Mountable
  PROVE  /\ p \in Seq(Segments) /\ DOMAIN p = 1 .. Len(p) /\ Len(p) \in Nat
         /\ Pos(p) \in Seq(Segments) /\ Len(Pos(p)) = Len(p)
         /\ \A i \in 1 .. Len(p) : p[i] # "*" /\ Pos(p)[i] = (IF p[i] \in Params THEN "*" ELSE p[i])
<1>1. p \in Seq(Segments) /\ \A i \in DOMAIN p : p[i] # "*"
  <2>1. CASE p \in Patterns
    BY <2>1, NamespaceAssumption DEF Segments
  <2>2. CASE p = <<"SKILL.md">>
    BY <2>2 DEF Segments
  <2>3. CASE p = <<"AGENTS.md">>
    BY <2>3 DEF Segments
  <2>4. QED
    BY <2>1, <2>2, <2>3 DEF Mountable, SkillFile, AgentsFile
<1>2. DOMAIN p = 1 .. Len(p) /\ Len(p) \in Nat
  BY <1>1
<1>3. Pos(p) \in [1 .. Len(p) -> Segments]
  <2>1. \A i \in 1 .. Len(p) : p[i] \in Segments
    BY <1>1, <1>2
  <2>2. \A i \in 1 .. Len(p) : (IF p[i] \in Params THEN "*" ELSE p[i]) \in Segments
    BY <2>1 DEF Segments
  <2>3. QED
    BY <1>2, <2>2, Zenon DEF Pos
<1>4. Pos(p) \in Seq(Segments) /\ Len(Pos(p)) = Len(p)
  BY <1>2, <1>3
<1>5. QED
  BY <1>1, <1>2, <1>4 DEF Pos

LEMMA PrefixFacts ==
  ASSUME NEW p \in Mountable
  PROVE  /\ \A i \in 0 .. Len(p) : /\ Prefix(p, i) \in Nodes /\ Prefix(p, i) \in Seq(Segments)
                                   /\ Len(Prefix(p, i)) = i
         /\ Prefix(p, Len(p)) = Pos(p) /\ Prefix(p, 0) = << >> /\ Pos(p) \in Nodes
         /\ \A i \in 1 .. Len(p) : i - 1 \in 0 .. Len(p)
<1>1. /\ Len(p) \in Nat /\ Pos(p) \in Seq(Segments) /\ Len(Pos(p)) = Len(p)
  BY PathFacts
<1>2. \A i \in 0 .. Len(p) : Prefix(p, i) \in Seq(Segments) /\ Len(Prefix(p, i)) = i
  BY <1>1 DEF Prefix
<1>3. Prefix(p, Len(p)) = Pos(p) /\ Prefix(p, 0) = << >>
  BY <1>1 DEF Prefix
<1>4. \A i \in 0 .. Len(p) : Prefix(p, i) \in Nodes
  BY DEF Nodes
<1>5. Len(p) \in 0 .. Len(p)
  BY <1>1
<1>6. QED
  BY <1>1, <1>2, <1>3, <1>4, <1>5

-----------------------------------------------------------------------------
\* What router.add and router.remove do to a trie.

\* A set of natural numbers has a least element.
LEMMA Least ==
  ASSUME NEW T, T \subseteq Nat, T # {}
  PROVE  \E x \in T : \A y \in T : x <= y
<1> DEFINE R == { ss \in Nat \X Nat : ss[1] < ss[2] }
<1>1. IsWellFoundedOn(R, Nat)
  BY NatLessThanWellFounded DEF OpToRel
<1>2. \A x, y \in Nat : x < y => <<x, y>> \in R
  OBVIOUS
<1> HIDE DEF R
<1>3. PICK x \in T : \A y \in T : ~ (<<y, x>> \in R)
  BY <1>1, WFMin
<1>4. ASSUME NEW y \in T
      PROVE  x <= y
  <2>1. x \in Nat /\ y \in Nat /\ ~ (y < x)
    BY <1>2, <1>3
  <2>2. QED
    BY <2>1
<1>5. QED
  BY <1>4

\* The walk of add ends before the first conflict.
LEMMA ReachFacts ==
  ASSUME NEW tr \in Tries, NEW p \in Mountable
  PROVE  /\ Reach(tr, p) \in 0 .. Len(p) /\ (Conflicts(tr, p) = {} => Reach(tr, p) = Len(p))
         /\ \A i \in 1 .. Reach(tr, p) : i \in 1 .. Len(p) /\ i \notin Conflicts(tr, p)
<1> DEFINE C == Conflicts(tr, p)
           least == CHOOSE i \in C : \A j \in C : i <= j
<1>1. Len(p) \in Nat /\ C \subseteq 1 .. Len(p)
  BY PathFacts DEF Conflicts
<1>2. Reach(tr, p) = IF C = {} THEN Len(p) ELSE least - 1
  BY DEF Reach
<1>3. CASE C = {}
  BY <1>1, <1>2, <1>3
<1>4. CASE C # {}
  <2>1. C \subseteq Nat
    BY <1>1
  <2>2. \E i \in C : \A j \in C : i <= j
    <3> HIDE DEF C
    <3> QED BY <1>4, <2>1, Least
  <2>3. least \in C /\ \A j \in C : least <= j
    <3> HIDE DEF C
    <3> QED BY <2>2, Zenon
  <2> HIDE DEF C, least
  <2>4. QED
    BY <1>1, <1>2, <1>4, <2>3 DEF C
<1>5. QED
  BY <1>3, <1>4

\* Nodes and names are added, none is lost; without a conflict the whole way is there.
LEMMA GrowFacts ==
  ASSUME NEW tr \in Tries, NEW p \in Mountable
  PROVE  /\ Grow(tr, p) \in Tries /\ Grow(tr, p).mount = tr.mount /\ tr.nodes \subseteq Grow(tr, p).nodes
         /\ \A n \in Nodes : tr.key[n] # None => Grow(tr, p).key[n] = tr.key[n]
         /\ << >> \in tr.nodes /\ Conflicts(tr, p) = {} => Leads(Grow(tr, p), p)
<1> DEFINE r == Reach(tr, p)
           on(n) == { i \in 1 .. r : p[i] \in Params /\ Prefix(p, i - 1) = n }
           nodes == tr.nodes \cup { Prefix(p, i) : i \in 1 .. r }
           key == [n \in Nodes |-> IF on(n) = {} THEN tr.key[n] ELSE p[CHOOSE i \in on(n) : TRUE]]
<1>1. Grow(tr, p) = [tr EXCEPT !.nodes = nodes, !.key = key]
  BY DEF Grow
<1>2. /\ r \in 0 .. Len(p) /\ (Conflicts(tr, p) = {} => r = Len(p))
      /\ \A i \in 1 .. r : i \in 1 .. Len(p) /\ i \notin Conflicts(tr, p)
  BY ReachFacts
<1>3. /\ tr = [nodes |-> tr.nodes, key |-> tr.key, mount |-> tr.mount] /\ tr.nodes \subseteq Nodes
      /\ tr.key \in [Nodes -> Params \cup {None}] /\ tr.mount \in [Nodes -> Entry \cup {None}]
  BY DEF Tries
<1>4. /\ Len(p) \in Nat
      /\ \A i \in 0 .. Len(p) : Prefix(p, i) \in Nodes /\ Len(Prefix(p, i)) = i
      /\ \A i \in 1 .. Len(p) : i - 1 \in 0 .. Len(p) /\ i \in 0 .. Len(p)
      /\ Prefix(p, 0) = << >>
  BY PathFacts, PrefixFacts
<1>5. ASSUME NEW n \in Nodes, NEW i \in on(n)
      PROVE  key[n] = p[i] /\ p[i] \in Params /\ tr.key[n] \in {None, p[i]}
  <2>1. \A j \in on(n) : j = i
    BY <1>2, <1>4
  <2>2. (CHOOSE j \in on(n) : TRUE) \in on(n)
    <3> HIDE DEF on
    <3> QED BY <1>5, Zenon
  <2>3. (CHOOSE j \in on(n) : TRUE) = i
    BY <2>1, <2>2
  <2>4. p[i] \in Params /\ Prefix(p, i - 1) = n /\ i \in 1 .. Len(p) /\ i \notin Conflicts(tr, p)
    BY <1>2, <1>5
  <2>5. tr.key[n] \in {None, p[i]}
    <3>1. DOMAIN p = 1 .. Len(p)
      BY PathFacts
    <3>2. QED
      BY <2>4, <3>1 DEF Conflicts
  <2>6. key[n] = p[CHOOSE j \in on(n) : TRUE]
    <3>1. on(n) # {}
      OBVIOUS
    <3> HIDE DEF on
    <3> QED BY <3>1
  <2>7. QED
    BY <2>3, <2>4, <2>5, <2>6
<1>6. ASSUME NEW n \in Nodes, on(n) = {} PROVE key[n] = tr.key[n]
  BY <1>6
<1>7. key \in [Nodes -> Params \cup {None}]
  <2>1. \A n \in Nodes : key[n] \in Params \cup {None}
    <3> SUFFICES ASSUME NEW n \in Nodes PROVE key[n] \in Params \cup {None}
      OBVIOUS
    <3>1. CASE on(n) = {}
      BY <1>3, <1>6, <3>1
    <3>2. CASE on(n) # {}
      <4>1. PICK i \in on(n) : TRUE
        BY <3>2
      <4>2. QED
        BY <1>5, <4>1
    <3>3. QED
      BY <3>1, <3>2
  <2>2. QED
    <3>1. key = [n \in Nodes |-> key[n]]
      OBVIOUS
    <3> HIDE DEF key
    <3> QED BY <2>1, <3>1
<1>8. nodes \subseteq Nodes
  BY <1>2, <1>3, <1>4
<1>9. \A n \in Nodes : tr.key[n] # None => key[n] = tr.key[n]
  <2> SUFFICES ASSUME NEW n \in Nodes, tr.key[n] # None PROVE key[n] = tr.key[n]
    OBVIOUS
  <2>1. CASE on(n) = {}
    BY <1>6, <2>1
  <2>2. CASE on(n) # {}
    <3>1. PICK i \in on(n) : TRUE
      BY <2>2
    <3>2. QED
      BY <1>5, <3>1
  <2>3. QED
    BY <2>1, <2>2
<1>10. ASSUME r = Len(p), << >> \in tr.nodes, NEW i \in 0 .. Len(p) PROVE Prefix(p, i) \in nodes
  <2>1. i = 0 \/ i \in 1 .. r
    BY <1>4, <1>10
  <2>2. QED
    BY <1>4, <1>10, <2>1
<1>11. ASSUME r = Len(p), NEW i \in 1 .. Len(p), p[i] \in Params PROVE key[Prefix(p, i - 1)] = p[i]
  <2>1. i \in on(Prefix(p, i - 1)) /\ Prefix(p, i - 1) \in Nodes
    BY <1>4, <1>11
  <2>2. QED
    BY <1>5, <2>1
<1> HIDE DEF r, nodes, key
<1>12. Grow(tr, p) = [nodes |-> nodes, key |-> key, mount |-> tr.mount]
  BY <1>1, <1>3
<1>13. QED
  <2>1. tr.nodes \subseteq nodes
    BY DEF nodes
  <2>2. << >> \in tr.nodes /\ Conflicts(tr, p) = {} => Leads(Grow(tr, p), p)
    BY <1>2, <1>10, <1>11, <1>12 DEF Leads
  <2>3. Grow(tr, p) \in Tries
    BY <1>3, <1>7, <1>8, <1>12 DEF Tries
  <2>4. QED
    BY <1>9, <1>12, <2>1, <2>2, <2>3

\* The nodes and the names of tr are in ts too.
More(tr, ts) == /\ tr.nodes \subseteq ts.nodes
                /\ \A n \in Nodes : tr.key[n] # None => ts.key[n] = tr.key[n]

LEMMA LeadsOn ==
  ASSUME NEW tr, NEW ts, More(tr, ts), NEW p \in Mountable, Leads(tr, p)
  PROVE  Leads(ts, p)
<1>1. \A i \in 0 .. Len(p) : Prefix(p, i) \in ts.nodes
  BY DEF More, Leads
<1>2. ASSUME NEW i \in 1 .. Len(p), p[i] \in Params PROVE ts.key[Prefix(p, i - 1)] = p[i]
  <2>1. Prefix(p, i - 1) \in Nodes
    BY PrefixFacts
  <2>2. tr.key[Prefix(p, i - 1)] = p[i] /\ p[i] # None
    BY <1>2, NamespaceAssumption DEF Leads
  <2>3. QED
    BY <2>1, <2>2 DEF More
<1>3. QED
  BY <1>1, <1>2 DEF Leads

\* With the way there and its names, nothing conflicts.
LEMMA LeadsFree ==
  ASSUME NEW tr, NEW p \in Mountable, Leads(tr, p)
  PROVE  Conflicts(tr, p) = {}
  BY PathFacts DEF Leads, Conflicts

LEMMA EntryFacts ==
  ASSUME NEW e \in Entry
  PROVE  e.path \in Mountable /\ Pos(e.path) \in Nodes /\ e # None
  BY PrefixFacts, NamespaceAssumption DEF Entry

\* A trie whose mounts are some of those of a sound one, with one more perhaps.
LEMMA SoundOn ==
  ASSUME NEW tr, Sound(tr), NEW ts \in Tries, More(tr, ts),
         \A n \in Nodes : ts.mount[n] \in {None, tr.mount[n]} \/
                            (Pos(ts.mount[n].path) = n /\ Leads(ts, ts.mount[n].path))
  PROVE  Sound(ts)
<1>1. << >> \in ts.nodes
  BY DEF Sound, More
<1>2. ASSUME NEW n \in Nodes, ts.mount[n] # None, ts.mount[n] = tr.mount[n]
      PROVE  Pos(ts.mount[n].path) = n /\ Leads(ts, ts.mount[n].path)
  <2>1. tr.mount[n] \in Entry /\ Pos(tr.mount[n].path) = n /\ Leads(tr, tr.mount[n].path)
    BY <1>2 DEF Sound, Tries
  <2>2. QED
    BY <1>2, <2>1, EntryFacts, LeadsOn
<1>3. QED
  BY <1>1, <1>2 DEF Sound

LEMMA AddFacts ==
  ASSUME NEW tr, Sound(tr), NEW e \in Entry
  PROVE  /\ Sound(add(tr, e)) /\ More(tr, add(tr, e))
         /\ Taken(tr, e.path) => add(tr, e).mount = tr.mount
         /\ ~Taken(tr, e.path) => /\ add(tr, e).mount = [tr.mount EXCEPT ![Pos(e.path)] = e]
                                  /\ Leads(add(tr, e), e.path)
<1> DEFINE p == e.path
           g == Grow(tr, p)
           ts == add(tr, e)
<1>1. p \in Mountable /\ Pos(p) \in Nodes /\ e # None
  BY EntryFacts
<1>2. /\ tr \in Tries /\ << >> \in tr.nodes /\ tr.mount \in [Nodes -> Entry \cup {None}]
  BY DEF Sound, Tries
<1>3. /\ g \in Tries /\ g.mount = tr.mount /\ tr.nodes \subseteq g.nodes
      /\ \A n \in Nodes : tr.key[n] # None => g.key[n] = tr.key[n]
      /\ Conflicts(tr, p) = {} => Leads(g, p)
  BY <1>1, <1>2, GrowFacts
<1> HIDE DEF g, p
<1>4. CASE Taken(tr, p)
  <2>1. ts = g
    BY <1>4 DEF add, g, p
  <2> HIDE DEF ts
  <2>2. More(tr, ts)
    BY <1>3, <2>1 DEF More
  <2>3. Sound(ts)
    <3>1. \A n \in Nodes : ts.mount[n] \in {None, tr.mount[n]}
      BY <1>3, <2>1
    <3>2. QED
      BY <1>3, <2>1, <2>2, <3>1, SoundOn
  <2>4. QED
    BY <1>3, <1>4, <2>1, <2>2, <2>3 DEF ts, p
<1>5. CASE ~Taken(tr, p)
  <2>1. ts = [g EXCEPT !.mount[Pos(p)] = e]
    BY <1>5 DEF add, g, p
  <2> HIDE DEF ts
  <2>2. /\ ts.nodes = g.nodes /\ ts.key = g.key /\ ts.mount = [tr.mount EXCEPT ![Pos(p)] = e]
        /\ ts \in Tries
    BY <1>1, <1>3, <2>1 DEF Tries
  <2>3. More(tr, ts)
    BY <1>3, <2>2 DEF More
  <2>4. Leads(ts, p)
    BY <1>3, <1>5, <2>2 DEF Leads, Taken
  <2>5. Sound(ts)
    <3>1. \A n \in Nodes : ts.mount[n] = tr.mount[n] \/ (n = Pos(p) /\ ts.mount[n] = e)
      BY <1>2, <2>2
    <3>2. \A n \in Nodes : ts.mount[n] \in {None, tr.mount[n]} \/
                             (Pos(ts.mount[n].path) = n /\ Leads(ts, ts.mount[n].path))
      BY <2>4, <3>1 DEF p
    <3>3. QED
      BY <2>2, <2>3, <3>2, SoundOn
  <2>6. QED
    BY <1>5, <2>2, <2>3, <2>4, <2>5 DEF ts, p
<1>6. QED
  BY <1>4, <1>5

LEMMA RemoveFacts ==
  ASSUME NEW tr, Sound(tr), NEW p \in Mountable
  PROVE  /\ Sound(remove(tr, p)) /\ More(tr, remove(tr, p)) /\ More(remove(tr, p), tr)
         /\ remove(tr, p).mount = [tr.mount EXCEPT ![Pos(p)] = None]
         /\ \A q : Conflicts(remove(tr, p), q) = Conflicts(tr, q)
<1> DEFINE ts == remove(tr, p)
<1>1. tr \in Tries /\ Pos(p) \in Nodes
  BY PrefixFacts DEF Sound
<1>2. ts = [tr EXCEPT !.mount[Pos(p)] = None]
  BY DEF remove
<1> HIDE DEF ts
<1>3. /\ ts.nodes = tr.nodes /\ ts.key = tr.key /\ ts.mount = [tr.mount EXCEPT ![Pos(p)] = None]
      /\ ts \in Tries /\ tr.mount \in [Nodes -> Entry \cup {None}]
  BY <1>1, <1>2 DEF Tries
<1>4. More(tr, ts) /\ More(ts, tr) /\ \A q : Conflicts(ts, q) = Conflicts(tr, q)
  BY <1>3 DEF More, Conflicts
<1>5. \A n \in Nodes : ts.mount[n] \in {None, tr.mount[n]}
  BY <1>3
<1>6. Sound(ts)
  BY <1>3, <1>4, <1>5, SoundOn
<1>7. QED
  BY <1>3, <1>4, <1>6 DEF ts

\* Clearing removes everything, since entries lie where their path leads.
LEMMA ClearedFacts ==
  ASSUME NEW tr, Sound(tr)
  PROVE  /\ Sound(Cleared(tr)) /\ More(tr, Cleared(tr))
         /\ \A n \in Nodes : Cleared(tr).mount[n] = None
<1> DEFINE gone == { Pos(e.path) : e \in Entries(tr) }
           mount == [n \in Nodes |-> IF n \in gone THEN None ELSE tr.mount[n]]
           ts == Cleared(tr)
<1>1. tr \in Tries /\ ts = [tr EXCEPT !.mount = mount]
  BY DEF Sound, Cleared
<1>2. \A n \in Nodes : tr.mount[n] # None => n \in gone
  <2>1. \A n \in Nodes : tr.mount[n] # None => tr.mount[n] \in Entries(tr) /\ Pos(tr.mount[n].path) = n
    BY DEF Sound, Entries
  <2>2. QED
    BY <2>1
<1> HIDE DEF gone
<1>3. \A n \in Nodes : mount[n] = None
  BY <1>2
<1>4. mount \in [Nodes -> Entry \cup {None}]
  BY <1>3
<1> HIDE DEF mount, ts
<1>5. ts.nodes = tr.nodes /\ ts.key = tr.key /\ ts.mount = mount /\ ts \in Tries
  BY <1>1, <1>4 DEF Tries
<1>6. More(tr, ts)
  BY <1>5 DEF More
<1>7. Sound(ts)
  BY <1>3, <1>5, <1>6, SoundOn
<1>8. QED
  BY <1>3, <1>5, <1>6, <1>7 DEF ts

-----------------------------------------------------------------------------
\* The invariant.

LEMMA ConflictsOn ==
  ASSUME NEW tr, NEW ts, More(tr, ts), NEW p \in Mountable
  PROVE  Conflicts(tr, p) \subseteq Conflicts(ts, p)
<1>1. DOMAIN p = 1 .. Len(p) /\ \A i \in 1 .. Len(p) : Prefix(p, i - 1) \in Nodes
  BY PathFacts, PrefixFacts
<1>2. QED
  BY <1>1 DEF More, Conflicts

LEMMA RootFacts ==
  /\ SkillFile \in Mountable /\ AgentsFile \in Mountable
  /\ Pos(SkillFile) = SkillFile /\ Pos(AgentsFile) = AgentsFile
  /\ [path |-> SkillFile, kind |-> "blob", skill |-> None] \in Entry
  /\ [path |-> AgentsFile, kind |-> "blob", skill |-> None] \in Entry
<1>1. SkillFile \in Mountable /\ AgentsFile \in Mountable
  BY DEF Mountable
<1>2. ASSUME NEW f \in {SkillFile, AgentsFile} PROVE Pos(f) = f
  <2>1. f \in Mountable
    BY <1>1
  <2>2. \A i \in 1 .. Len(f) : f[i] \notin Params
    BY <2>1, PathFacts, NamespaceAssumption
  <2>3. /\ f \in Seq(Segments) /\ Pos(f) \in Seq(Segments) /\ Len(Pos(f)) = Len(f)
        /\ \A i \in 1 .. Len(f) : Pos(f)[i] = f[i]
    BY <2>1, <2>2, PathFacts
  <2>4. QED
    BY <2>3
<1>3. QED
  BY <1>1, <1>2 DEF Entry, Kinds

LEMMA ConfFacts ==
  ASSUME Types
  PROVE  /\ conf.patterns \subseteq Patterns /\ conf.patterns \subseteq Mountable
         /\ conf.kinds \subseteq Kinds /\ conf.clients \subseteq Clients
         /\ conf.maxRenames \in Nat /\ conf.maxRestores \in Nat
  BY NamespaceAssumption DEF Types, Mountable

LEMMA SavedOn ==
  ASSUME NsInv, More(trie, trie'), UNCHANGED saved
  PROVE  Saved'
<1>1. \A e \in saved : e.path \in Mountable /\ Leads(trie, e.path)
  BY EntryFacts DEF NsInv, Types, Saved
<1>2. \A e \in saved : Leads(trie', e.path)
  BY <1>1, LeadsOn
<1>3. QED
  BY <1>2 DEF NsInv, Saved

\* Mounts that stay or go keep the skills right.
LEMMA SkilledOn ==
  ASSUME NsInv, UNCHANGED conf, skills \subseteq skills',
         \A n \in Nodes : trie'.mount[n] \in {None, trie.mount[n]}
  PROVE  Skilled'
  BY DEF NsInv, Skilled

LEMMA InitInv == Init => NsInv
<1> SUFFICES ASSUME Init PROVE NsInv
  OBVIOUS
<1>1. Sound(trie)
  <2>1. << >> \in Nodes
    BY RootFacts, PrefixFacts, PathFacts
  <2>2. QED
    BY <2>1 DEF Init, Sound, Tries
<1>2. Types /\ Saved /\ Restoring /\ Calls /\ ExistMeansTaken /\ Skilled
  BY DEF Init, Types, Saved, Restoring, Calls, ExistMeansTaken, Skilled
<1>3. QED
  BY <1>1, <1>2 DEF NsInv

LEMMA MountInv ==
  ASSUME NsInv, NEW p \in conf.patterns, NEW k \in conf.kinds, Mount(p, k)
  PROVE  NsInv'
<1> DEFINE e == [path |-> p, kind |-> k, skill |-> IF k \in {"blob", "stream"} THEN None ELSE p]
<1>1. Types /\ Sound(trie)
  BY DEF NsInv
<1>2. e \in Entry /\ e.path = p /\ e.skill \in {None, p} /\ p \in Mountable /\ p \in Patterns /\ k \in Kinds
  BY <1>1, ConfFacts DEF Entry
<1>3. /\ pc = "idle" /\ UNCHANGED <<streams, pending, got, saved, renames, restores, conf>>
      /\ pending = {} /\ None # "EEXIST"
  BY NamespaceAssumption DEF Mount, counts, NsInv, Restoring
<1>4. /\ Sound(add(trie, e)) /\ More(trie, add(trie, e))
      /\ Taken(trie, p) => add(trie, e).mount = trie.mount
      /\ ~Taken(trie, p) => add(trie, e).mount = [trie.mount EXCEPT ![Pos(p)] = e]
  BY <1>1, <1>2, AddFacts
<1>5. trie.mount \in [Nodes -> Entry \cup {None}] /\ Pos(p) \in Nodes
  BY <1>1, <1>2, PrefixFacts DEF Sound, Tries
<1>6. ASSUME More(trie, trie'), Sound(trie'), skills' \subseteq Patterns, skills \subseteq skills',
             pc' \in {"idle", "emit", "skill"}, call' \in Entry \cup {None}, Calls', ExistMeansTaken', Skilled'
      PROVE  NsInv'
  <2>1. Types'
    BY <1>1, <1>3, <1>6 DEF Types
  <2>2. Saved' /\ Restoring'
    BY <1>3, <1>6, SavedOn DEF Restoring
  <2>3. QED
    BY <1>6, <2>1, <2>2 DEF NsInv
<1>7. ASSUME Return("mount", p, "ENOSPC") \/ Return("mount", p, "template") \/ Return("mount", p, "EEXIST"),
             UNCHANGED skills,
             More(trie, trie'), Sound(trie'), \A n \in Nodes : trie'.mount[n] \in {None, trie.mount[n]},
             last'.err = "EEXIST" => Conflicts(trie', p) # {} \/ trie'.mount[Pos(p)] # None
      PROVE  NsInv'
  <2>1. /\ pc' = "idle" /\ call' = None /\ last'.op = "mount" /\ last'.path = p
    BY <1>7 DEF Return
  <2>2. Calls'
    BY <1>3, <2>1 DEF Calls
  <2>3. ExistMeansTaken'
    BY <1>7, <2>1 DEF ExistMeansTaken
  <2>4. Skilled' /\ skills' \subseteq Patterns
    BY <1>1, <1>3, <1>7, SkilledOn DEF Types
  <2>5. QED
    BY <1>6, <1>7, <2>1, <2>2, <2>3, <2>4
<1> HIDE DEF e
<1>8. CASE Full(trie) /\ Return("mount", p, "ENOSPC") /\ UNCHANGED <<trie, skills>>
  <2>1. More(trie, trie') /\ Sound(trie') /\ \A n \in Nodes : trie'.mount[n] \in {None, trie.mount[n]}
    BY <1>1, <1>8 DEF More
  <2>2. last'.err # "EEXIST"
    BY <1>8 DEF Return
  <2>3. QED
    BY <1>7, <1>8, <2>1, <2>2
<1>9. CASE ~Full(trie) /\ Taken(trie, p) /\ trie' = add(trie, e) /\ Return("mount", p, "EEXIST") /\ UNCHANGED skills
  <2>1. Conflicts(trie, p) \subseteq Conflicts(trie', p)
    BY <1>2, <1>4, <1>9, ConflictsOn
  <2>2. Conflicts(trie', p) # {} \/ trie'.mount[Pos(p)] # None
    BY <1>4, <1>9, <2>1 DEF Taken
  <2>3. QED
    BY <1>4, <1>7, <1>9, <2>2
<1>10. CASE ~Taken(trie, p) /\ trie' = remove(add(trie, e), p) /\ Return("mount", p, "template") /\ UNCHANGED skills
  <2>1. /\ Sound(trie') /\ More(add(trie, e), trie')
        /\ trie'.mount = [add(trie, e).mount EXCEPT ![Pos(p)] = None]
    BY <1>2, <1>4, <1>10, RemoveFacts
  <2>2. More(trie, trie')
    BY <1>4, <2>1 DEF More
  <2>3. \A n \in Nodes : trie'.mount[n] \in {None, trie.mount[n]}
    BY <1>4, <1>5, <1>10, <2>1
  <2>4. last'.err # "EEXIST"
    BY <1>10 DEF Return
  <2>5. QED
    BY <1>7, <1>10, <2>1, <2>2, <2>3, <2>4
<1>11. CASE /\ ~Taken(trie, p) /\ trie' = add(trie, e) /\ skills' = Generate(e) /\ call' = e
            /\ IF k \in {"root", "agents"} THEN pc' = "skill" /\ UNCHANGED last ELSE Ended("mount", p)
  <2>1. skills' = skills \cup ({e.skill} \ {None})
    BY <1>11 DEF Generate
  <2>2. skills' \subseteq Patterns /\ skills \subseteq skills'
    BY <1>1, <1>2, <2>1 DEF Types
  <2>3. \/ k \in {"root", "agents"} /\ pc' = "skill" /\ last' = last
        \/ pc' = "emit" /\ last' = [op |-> "mount", path |-> p, err |-> None]
    BY <1>11 DEF Ended
  <2>4. Calls'
    <3>1. call' \in Entry /\ call'.path = p /\ call'.kind = k
      BY <1>2, <1>11 DEF e
    <3>2. last'.op = "mount" => last'.path \in conf.patterns
      BY <2>3 DEF NsInv, Calls
    <3>3. QED
      BY <1>3, <2>3, <3>1, <3>2 DEF Calls
  <2>5. ExistMeansTaken'
    BY <2>3 DEF ExistMeansTaken
  <2>6. Skilled'
    <3>1. \A n \in Nodes : trie'.mount[n] = trie.mount[n] \/ trie'.mount[n] = e
      BY <1>4, <1>5, <1>11
    <3>2. QED
      BY <1>2, <1>3, <2>1, <3>1 DEF NsInv, Skilled
  <2>7. QED
    BY <1>2, <1>4, <1>6, <1>11, <2>2, <2>3, <2>4, <2>5, <2>6
<1>12. QED
  BY <1>8, <1>9, <1>10, <1>11 DEF Mount, e

\* A step under fs.mu that mounts or removes and neither saves nor restores.
LEMMA TrieStep ==
  ASSUME NsInv, Sound(trie'), More(trie, trie'), pc # "restore", pc' # "restore",
         skills' \subseteq Patterns, pc' \in {"idle", "skill", "skillEmit", "agents", "agentsEmit", "emit"},
         call' \in Entry \cup {None}, streams' \subseteq Requests,
         renames' \in Nat, UNCHANGED <<pending, got, saved, restores, conf>>,
         Calls', ExistMeansTaken', Skilled'
  PROVE  NsInv'
<1>1. Types' /\ Restoring'
  BY DEF NsInv, Types, Restoring
<1>2. Saved'
  BY SavedOn
<1>3. QED
  BY <1>1, <1>2 DEF NsInv

LEMMA RootFileInv ==
  ASSUME NsInv, NEW file \in {SkillFile, AgentsFile}, NEW from \in {"skill", "agents"},
         NEW to \in {"skillEmit", "agentsEmit"}, RootFile(file, from, to)
  PROVE  NsInv'
<1> DEFINE e == [path |-> file, kind |-> "blob", skill |-> None]
<1>1. /\ Types /\ Sound(trie) /\ e \in Entry /\ e.path = file /\ e.skill = None /\ file \in Mountable
      /\ Pos(file) \in Nodes
  BY RootFacts, PrefixFacts DEF NsInv
<1>2. /\ pc = from /\ UNCHANGED <<skills, streams, pending, got, saved, renames, restores, conf>>
  BY DEF RootFile, counts
<1>3. /\ call \in Entry /\ call.path \in conf.patterns /\ call.kind \in conf.kinds \cap {"root", "agents"}
      /\ call.path \in Mountable
  BY <1>2, EntryFacts DEF NsInv, Calls
<1>4. /\ Sound(add(trie, e)) /\ More(trie, add(trie, e))
      /\ Taken(trie, file) => add(trie, e).mount = trie.mount
      /\ ~Taken(trie, file) => add(trie, e).mount = [trie.mount EXCEPT ![Pos(file)] = e]
  BY <1>1, AddFacts
<1>5. trie.mount \in [Nodes -> Entry \cup {None}]
  BY <1>1 DEF Sound, Tries
<1> HIDE DEF e
<1>6. \A n \in Nodes : add(trie, e).mount[n] \in {e, trie.mount[n]}
  BY <1>4, <1>5
<1>7. ~NoRootFiles'
  BY <1>2, <1>3 DEF NoRootFiles
<1>8. ASSUME \A n \in Nodes : trie'.mount[n] \in {None, e, trie.mount[n]} PROVE Skilled'
  BY <1>1, <1>2, <1>8 DEF NsInv, Skilled
<1>9. CASE trie' = remove(add(trie, e), call.path) /\ Return("mount", call.path, "EEXIST")
  <2>1. /\ Sound(trie') /\ More(add(trie, e), trie')
        /\ trie'.mount = [add(trie, e).mount EXCEPT ![Pos(call.path)] = None]
    BY <1>3, <1>4, <1>9, RemoveFacts
  <2>2. More(trie, trie')
    BY <1>4, <2>1 DEF More
  <2>3. \A n \in Nodes : trie'.mount[n] \in {None, e, trie.mount[n]}
    <3>1. add(trie, e).mount \in [Nodes -> Entry \cup {None}]
      BY <1>4 DEF Sound, Tries
    <3>2. QED
      BY <1>6, <2>1, <3>1
  <2>4. pc' = "idle" /\ call' = None /\ last' = [op |-> "mount", path |-> call.path, err |-> "EEXIST"]
    BY <1>9 DEF Return
  <2>5. Calls' /\ ExistMeansTaken'
    BY <1>2, <1>3, <1>7, <2>4 DEF Calls, ExistMeansTaken
  <2>6. QED
    BY <1>1, <1>2, <1>8, <2>1, <2>2, <2>3, <2>4, <2>5, TrieStep DEF Types
<1>10. CASE trie' = add(trie, e) /\ pc' = to /\ UNCHANGED <<call, last>>
  <2>1. Calls' /\ ExistMeansTaken'
    BY <1>2, <1>3, <1>7, <1>10 DEF NsInv, Calls, ExistMeansTaken
  <2>2. QED
    BY <1>1, <1>2, <1>3, <1>4, <1>6, <1>8, <1>10, <2>1, TrieStep DEF Types
<1>11. QED
  BY <1>9, <1>10 DEF RootFile, e

LEMMA DeliverInv ==
  ASSUME NsInv, Deliver
  PROVE  NsInv'
<1>1. /\ pc \in {"skillEmit", "agentsEmit", "emit"}
      /\ UNCHANGED <<trie, skills, streams, pending, got, saved, renames, restores, conf>>
  BY DEF Deliver, counts
<1>2. \/ pc = "skillEmit" /\ pc' = "agents" /\ UNCHANGED <<call, last>>
      \/ /\ pc \in {"skillEmit", "agentsEmit"} /\ pc' = "emit" /\ call' = call
         /\ last' = [op |-> "mount", path |-> call.path, err |-> None]
      \/ pc = "emit" /\ pc' = "idle" /\ call' = None /\ last' = last
  BY DEF Deliver, Ended
<1>3. Sound(trie') /\ More(trie, trie') /\ Skilled' /\ Types
  BY <1>1 DEF NsInv, More, Skilled
<1>4. Calls' /\ ExistMeansTaken'
  BY <1>1, <1>2, NamespaceAssumption DEF NsInv, Calls, ExistMeansTaken
<1>5. QED
  BY <1>1, <1>2, <1>3, <1>4, TrieStep DEF Types

LEMMA UnmountSkillInv ==
  ASSUME NsInv, UnmountSkillAtRoot
  PROVE  NsInv'
<1> DEFINE tr == remove(trie, AgentsFile)
<1>1. /\ UNCHANGED <<skills, streams, pc, call, pending, last, got, saved, renames, restores, conf>>
      /\ trie' = remove(tr, SkillFile)
  BY DEF UnmountSkillAtRoot, cvars, counts
<1>2. Sound(trie) /\ Types /\ SkillFile \in Nodes /\ AgentsFile \in Nodes /\ RootFiles = {SkillFile, AgentsFile}
  BY RootFacts, PrefixFacts DEF NsInv, RootFiles
<1>3. /\ Sound(tr) /\ More(trie, tr) /\ tr.mount = [trie.mount EXCEPT ![AgentsFile] = None]
      /\ \A q : Conflicts(tr, q) = Conflicts(trie, q)
  BY <1>2, RootFacts, RemoveFacts
<1> HIDE DEF tr
<1>4. /\ Sound(trie') /\ More(tr, trie') /\ trie'.mount = [tr.mount EXCEPT ![SkillFile] = None]
      /\ \A q : Conflicts(trie', q) = Conflicts(tr, q)
  BY <1>1, <1>3, RootFacts, RemoveFacts
<1>5. More(trie, trie')
  BY <1>3, <1>4 DEF More
<1>6. trie.mount \in [Nodes -> Entry \cup {None}]
  BY <1>2 DEF Sound, Tries
<1>7. \A n \in Nodes : /\ trie'.mount[n] \in {None, trie.mount[n]}
                       /\ n \notin RootFiles => trie'.mount[n] = trie.mount[n]
  BY <1>2, <1>3, <1>4, <1>6
<1>8. Skilled' /\ Saved'
  BY <1>1, <1>5, <1>7, SkilledOn, SavedOn
<1>9. Types' /\ Calls'
  BY <1>1 DEF NsInv, Types, Calls
<1>10. ExistMeansTaken'
  <2> SUFFICES ASSUME NoRootFiles, last.op = "mount", last.err = "EEXIST", pc = "idle"
               PROVE  Conflicts(trie', last.path) # {} \/ trie'.mount[Pos(last.path)] # None
    BY <1>1 DEF ExistMeansTaken, NoRootFiles
  <2>1. last.path \in conf.patterns /\ Pos(last.path) \in Nodes
    BY <1>2, ConfFacts, PrefixFacts DEF NsInv, Calls
  <2>2. Pos(last.path) \notin RootFiles
    BY <2>1 DEF NoRootFiles
  <2>3. QED
    BY <1>3, <1>4, <1>7, <2>1, <2>2 DEF NsInv, ExistMeansTaken
<1>11. Restoring'
  <2>1. \A e \in saved : Pos(e.path) \in Nodes
    BY <1>2, EntryFacts DEF Types
  <2>2. QED
    BY <1>1, <1>7, <2>1 DEF NsInv, Restoring
<1>12. QED
  BY <1>4, <1>8, <1>9, <1>10, <1>11 DEF NsInv

LEMMA UnmountInv ==
  ASSUME NsInv, NEW p \in conf.patterns, Unmount(p)
  PROVE  NsInv'
<1> DEFINE m == trie.mount[Pos(p)]
<1>1. Types /\ Sound(trie) /\ p \in Mountable /\ Pos(p) \in Nodes
  BY ConfFacts, PrefixFacts DEF NsInv
<1>2. /\ pc = "idle" /\ UNCHANGED <<pending, got, saved, renames, restores, conf>>
  BY DEF Unmount, counts
<1>3. CASE m = None /\ Return("unmount", p, "ENOENT") /\ UNCHANGED <<trie, skills, streams>>
  <2>1. /\ pc' = "idle" /\ call' = None /\ last' = [op |-> "unmount", path |-> p, err |-> "ENOENT"]
    BY <1>3 DEF Return
  <2>2. Calls' /\ ExistMeansTaken' /\ Skilled' /\ Sound(trie') /\ More(trie, trie')
    BY <1>1, <1>2, <1>3, <2>1 DEF NsInv, Calls, ExistMeansTaken, Skilled, More
  <2>3. QED
    BY <1>1, <1>2, <1>3, <2>1, <2>2, TrieStep DEF Types
<1>4. CASE /\ m # None /\ trie' = remove(trie, p) /\ skills' = skills \ {m.skill} /\ streams' = streams \ {p}
           /\ Ended("unmount", p) /\ call' = None
  <2>1. /\ Sound(trie') /\ More(trie, trie') /\ trie'.mount = [trie.mount EXCEPT ![Pos(p)] = None]
    BY <1>1, <1>4, RemoveFacts
  <2>2. /\ pc' = "emit" /\ last' = [op |-> "unmount", path |-> p, err |-> None]
    BY <1>4 DEF Ended
  <2>3. Calls' /\ ExistMeansTaken'
    BY <2>2 DEF Calls, ExistMeansTaken
  <2>4. Skilled'
    <3> SUFFICES ASSUME conf.maxRenames = 0, conf.maxRestores = 0, NEW n \in Nodes, trie'.mount[n] # None
                 PROVE  /\ trie'.mount[n].skill \in {None, trie'.mount[n].path}
                        /\ trie'.mount[n].skill # None => trie'.mount[n].skill \in skills'
      BY <1>2 DEF Skilled
    <3> DEFINE f == trie.mount[n]
    <3>1. n # Pos(p) /\ trie'.mount[n] = f
      <4>1. trie.mount \in [Nodes -> Entry \cup {None}]
        BY <1>1 DEF Sound, Tries
      <4>2. QED
        BY <2>1, <4>1
    <3>2. Pos(f.path) = n /\ Pos(m.path) = Pos(p)
      BY <1>1, <1>4, <3>1 DEF Sound
    <3>3. /\ f.skill \in {None, f.path} /\ (f.skill # None => f.skill \in skills)
          /\ m.skill \in {None, m.path}
      BY <1>1, <1>4, <3>1 DEF NsInv, Skilled
    <3> HIDE DEF f, m
    <3>4. f.path # m.path
      BY <3>1, <3>2
    <3>5. QED
      BY <1>4, <3>1, <3>3, <3>4
  <2>5. /\ skills' \subseteq Patterns /\ streams' \subseteq Requests
    BY <1>1, <1>4 DEF Types
  <2>6. QED
    BY <1>1, <1>2, <1>4, <2>1, <2>2, <2>3, <2>4, <2>5, TrieStep DEF Types
<1>5. QED
  BY <1>3, <1>4 DEF Unmount

\* A mount that could not be moved is put back, if it was named by its own path.
LEMMA RenameFacts ==
  ASSUME Sound(trie), NEW p \in Mountable, NEW q \in Mountable, trie.mount[Pos(p)] # None
  PROVE  /\ Sound(renameLocked(p, q)) /\ More(trie, renameLocked(p, q))
         /\ Taken(remove(trie, p), q) /\ trie.mount[Pos(p)].path = p => renameLocked(p, q).mount = trie.mount
<1> DEFINE m == trie.mount[Pos(p)]
           mq == [m EXCEPT !.path = q]
           mp == [m EXCEPT !.path = p]
           tr == remove(trie, p)
           moved == add(tr, mq)
           back == add(moved, mp)
<1>1. /\ trie.mount \in [Nodes -> Entry \cup {None}] /\ Pos(p) \in Nodes
      /\ Pos(m.path) = Pos(p) /\ Leads(trie, m.path) /\ m \in Entry
  BY PrefixFacts DEF Sound, Tries
<1>2. mq \in Entry /\ mp \in Entry /\ mq.path = q /\ mp.path = p /\ (m.path = p => mp = m)
  BY <1>1 DEF Entry
<1>3. renameLocked(p, q) = IF Taken(tr, q) THEN back ELSE moved
  BY DEF renameLocked
<1>4. Sound(tr) /\ More(trie, tr) /\ tr.mount = [trie.mount EXCEPT ![Pos(p)] = None]
  BY RemoveFacts
<1> HIDE DEF m, mq, mp, tr
<1>5. Sound(moved) /\ More(tr, moved) /\ (Taken(tr, q) => moved.mount = tr.mount)
  BY <1>2, <1>4, AddFacts
<1> HIDE DEF moved
<1>6. /\ Sound(back) /\ More(moved, back)
      /\ ~Taken(moved, p) => back.mount = [moved.mount EXCEPT ![Pos(p)] = mp]
  BY <1>2, <1>5, AddFacts
<1> HIDE DEF back
<1>7. More(trie, moved) /\ More(trie, back)
  BY <1>4, <1>5, <1>6 DEF More
<1>8. ASSUME Taken(tr, q), m.path = p PROVE back.mount = trie.mount
  <2>1. Leads(moved, p)
    BY <1>1, <1>7, <1>8, LeadsOn
  <2>2. moved.mount = [trie.mount EXCEPT ![Pos(p)] = None]
    BY <1>4, <1>5, <1>8
  <2>3. ~Taken(moved, p)
    BY <1>1, <2>1, <2>2, LeadsFree DEF Taken
  <2>4. back.mount = [trie.mount EXCEPT ![Pos(p)] = m]
    BY <1>1, <1>2, <1>6, <1>8, <2>2, <2>3
  <2>5. QED
    BY <1>1, <2>4 DEF m
<1>9. QED
  BY <1>3, <1>5, <1>6, <1>7, <1>8 DEF tr, m

LEMMA RenameInv ==
  ASSUME NsInv, NEW p \in conf.patterns, NEW q \in conf.patterns, Rename(p, q)
  PROVE  NsInv'
<1>1. Types /\ Sound(trie) /\ p \in Mountable /\ q \in Mountable
  BY ConfFacts DEF NsInv
<1>2. /\ pc = "idle" /\ UNCHANGED <<skills, streams, pending, got, saved, restores, conf>>
      /\ renames < conf.maxRenames /\ renames' = renames + 1
  BY DEF Rename
<1>3. Skilled' /\ renames' \in Nat
  BY <1>1, <1>2, ConfFacts DEF Types, Skilled
<1>4. Sound(trie') /\ More(trie, trie')
  <2>1. CASE UNCHANGED trie
    BY <1>1, <2>1 DEF More
  <2>2. CASE trie.mount[Pos(p)] # None /\ trie' = renameLocked(p, q)
    BY <1>1, <2>2, RenameFacts
  <2>3. QED
    BY <2>1, <2>2 DEF Rename
<1>5. /\ pc' \in {"idle", "emit"} /\ call' = None /\ last'.op = "rename" /\ (pc' = "emit" => last'.err = None)
  BY DEF Rename, Return, Ended
<1>6. Calls' /\ ExistMeansTaken'
  BY <1>5 DEF Calls, ExistMeansTaken
<1>7. QED
  BY <1>1, <1>2, <1>3, <1>4, <1>5, <1>6, TrieStep DEF Types

LEMMA SnapshotInv ==
  ASSUME NsInv, Snapshot
  PROVE  NsInv'
<1>1. /\ pc = "idle" /\ saved' = Entries(trie)
      /\ UNCHANGED <<trie, skills, streams, pc, call, pending, last, got, renames, restores, conf>>
  BY DEF Snapshot, cvars, counts
<1>2. \A e \in Entries(trie) : \E n \in Nodes :
        e = trie.mount[n] /\ e \in Entry /\ Pos(e.path) = n /\ Leads(trie, e.path)
  BY DEF NsInv, Sound, Tries, Entries
<1>3. Saved'
  <2>1. \A e \in saved' : Leads(trie', e.path)
    BY <1>1, <1>2
  <2>2. ASSUME NEW e \in saved', NEW f \in saved', Pos(e.path) = Pos(f.path) PROVE e = f
    BY <1>1, <1>2, <2>2
  <2>3. QED
    BY <2>1, <2>2 DEF Saved
<1>4. Types' /\ Restoring'
  BY <1>1, <1>2 DEF NsInv, Types, Restoring
<1>5. Sound(trie') /\ Calls' /\ ExistMeansTaken' /\ Skilled'
  BY <1>1 DEF NsInv, Calls, ExistMeansTaken, NoRootFiles, Skilled
<1>6. QED
  BY <1>3, <1>4, <1>5 DEF NsInv

LEMMA RestoreInv ==
  ASSUME NsInv, Restore
  PROVE  NsInv'
<1>1. /\ pc = "idle" /\ pc' = "restore" /\ pending' = saved /\ trie' = Cleared(trie)
      /\ UNCHANGED <<skills, streams, call, last, got, saved, renames, conf>>
      /\ restores < conf.maxRestores /\ restores' = restores + 1
  BY DEF Restore
<1>2. Types /\ conf.maxRestores \in Nat
  BY ConfFacts DEF NsInv
<1>3. Sound(trie') /\ More(trie, trie') /\ \A n \in Nodes : trie'.mount[n] = None
  BY <1>1, ClearedFacts DEF NsInv
<1>4. Saved'
  BY <1>1, <1>3, SavedOn
<1>5. Types' /\ conf.maxRestores # 0
  BY <1>1, <1>2 DEF Types
<1>6. Restoring' /\ Skilled' /\ Calls' /\ ExistMeansTaken'
  BY <1>1, <1>3, <1>5 DEF NsInv, Restoring, Skilled, Calls, ExistMeansTaken
<1>7. QED
  BY <1>3, <1>4, <1>5, <1>6 DEF NsInv

\* No entry of a snapshot is refused: its names are there, and its node is free.
LEMMA NotTaken ==
  ASSUME NsInv, pc = "restore", NEW e \in pending
  PROVE  e \in Entry /\ e \in saved /\ ~Taken(trie, e.path)
<1>1. e \in saved /\ e \in Entry /\ Leads(trie, e.path)
  BY DEF NsInv, Types, Saved
<1>2. Conflicts(trie, e.path) = {} /\ Pos(e.path) \in Nodes
  BY <1>1, EntryFacts, LeadsFree
<1>3. trie.mount[Pos(e.path)] = None
  <2> SUFFICES ASSUME trie.mount[Pos(e.path)] # None PROVE FALSE
    OBVIOUS
  <2> DEFINE f == trie.mount[Pos(e.path)]
  <2>1. f \in saved \ pending /\ Pos(f.path) = Pos(e.path)
    BY <1>2 DEF NsInv, Restoring, Sound
  <2>2. QED
    BY <1>1, <2>1 DEF NsInv, Saved
<1>4. QED
  BY <1>1, <1>2, <1>3 DEF Taken

LEMMA RestoreStepInv ==
  ASSUME NsInv, RestoreStep
  PROVE  NsInv'
<1>1. /\ pc = "restore" /\ UNCHANGED <<skills, streams, got, saved, renames, restores, conf>>
  BY DEF RestoreStep, counts
<1>2. Types /\ Sound(trie) /\ conf.maxRestores # 0
  BY <1>1 DEF NsInv, Restoring
<1>3. ASSUME NEW e \in pending, trie' = add(trie, e), pending' = pending \ {e}, UNCHANGED <<pc, call, last>>
      PROVE  NsInv'
  <2>1. e \in Entry /\ e \in saved /\ ~Taken(trie, e.path) /\ Pos(e.path) \in Nodes
    BY <1>1, NotTaken, EntryFacts
  <2>2. /\ Sound(trie') /\ More(trie, trie') /\ trie'.mount = [trie.mount EXCEPT ![Pos(e.path)] = e]
    BY <1>2, <1>3, <2>1, AddFacts
  <2>3. Saved'
    BY <1>1, <2>2, SavedOn
  <2>4. Types' /\ Calls' /\ ExistMeansTaken' /\ Skilled'
    BY <1>1, <1>2, <1>3 DEF NsInv, Types, Calls, ExistMeansTaken, Skilled
  <2>5. Restoring'
    <3>1. trie.mount \in [Nodes -> Entry \cup {None}]
      BY <1>2 DEF Sound, Tries
    <3>2. \A n \in Nodes : trie'.mount[n] \in {e, trie.mount[n]}
      BY <2>2, <3>1
    <3>3. \A n \in Nodes : trie'.mount[n] # None => trie'.mount[n] \in saved \ pending'
      BY <1>1, <1>3, <2>1, <3>2 DEF NsInv, Restoring
    <3>4. ASSUME NEW f \in saved \ pending' PROVE trie'.mount[Pos(f.path)] = f \/ Pos(f.path) \in RootFiles
      <4>1. CASE f = e
        BY <2>1, <2>2, <3>1, <4>1
      <4>2. CASE f # e
        <5>1. f \in saved \ pending /\ Pos(f.path) \in Nodes /\ Pos(f.path) # Pos(e.path)
          BY <1>2, <1>3, <2>1, <3>4, <4>2, EntryFacts DEF NsInv, Types, Saved
        <5>2. QED
          BY <1>1, <2>2, <3>1, <5>1 DEF NsInv, Restoring
      <4>3. QED
        BY <4>1, <4>2
    <3>5. QED
      BY <1>1, <1>2, <1>3, <3>3, <3>4 DEF Restoring
  <2>6. QED
    BY <2>2, <2>3, <2>4, <2>5 DEF NsInv
<1>4. CASE pending = {} /\ Return("restore", << >>, None) /\ UNCHANGED <<trie, pending>>
  <2>1. pc' = "idle" /\ call' = None /\ last'.op = "restore"
    BY <1>4 DEF Return
  <2>2. Types' /\ Restoring' /\ Calls' /\ ExistMeansTaken' /\ Skilled' /\ Sound(trie') /\ Saved'
    BY <1>1, <1>2, <1>4, <2>1 DEF NsInv, Types, Restoring, Calls, ExistMeansTaken, Skilled, Saved
  <2>3. QED
    BY <2>2 DEF NsInv
<1>5. QED
  BY <1>1, <1>3, <1>4, NotTaken DEF RestoreStep

LEMMA StreamInv ==
  ASSUME NsInv, NEW c \in conf.clients, StreamGet(c) \/ \E q \in Requests : StreamMatch(c, q)
  PROVE  NsInv'
<1>1. UNCHANGED <<trie, skills, pc, call, pending, last, saved, renames, restores, conf>>
  BY DEF StreamGet, StreamMatch, cvars, counts
<1>2. c \in Clients /\ Types
  BY ConfFacts DEF NsInv
<1>3. Types'
  <2>1. CASE StreamGet(c)
    BY <1>1, <1>2, <2>1 DEF Types, StreamGet
  <2>2. ASSUME NEW q \in Requests, StreamMatch(c, q) PROVE Types'
    BY <1>1, <1>2, <2>2 DEF Types, StreamMatch
  <2>3. QED
    BY <2>1, <2>2
<1>4. /\ Sound(trie') /\ Saved' /\ Restoring' /\ Calls' /\ Skilled' /\ ExistMeansTaken'
  BY <1>1 DEF NsInv, Saved, Restoring, Calls, Skilled, ExistMeansTaken, NoRootFiles
<1>5. QED
  BY <1>3, <1>4 DEF NsInv

LEMMA NextInv == NsInv /\ [Next]_vars => NsInv'
<1> SUFFICES ASSUME NsInv, [Next]_vars PROVE NsInv'
  OBVIOUS
<1>1. CASE UNCHANGED vars
  BY <1>1 DEF vars, cvars, counts, NsInv, Types, Saved, Restoring, Calls, Skilled, ExistMeansTaken,
              NoRootFiles
<1>2. ASSUME NEW p \in conf.patterns, \/ \E k \in conf.kinds : Mount(p, k)
                                      \/ Unmount(p)
                                      \/ \E q \in conf.patterns : Rename(p, q)
      PROVE  NsInv'
  BY <1>2, MountInv, UnmountInv, RenameInv
<1>3. CASE Snapshot \/ Restore \/ UnmountSkillAtRoot
  BY <1>3, SnapshotInv, RestoreInv, UnmountSkillInv
<1>4. CASE Step
  BY <1>4, RootFileInv, DeliverInv, RestoreStepInv DEF Step
<1>5. ASSUME NEW c \in conf.clients, StreamGet(c) \/ \E q \in Requests : StreamMatch(c, q) PROVE NsInv'
  BY <1>5, StreamInv
<1>6. QED
  BY <1>1, <1>2, <1>3, <1>4, <1>5 DEF Next

LEMMA AlwaysInv == Spec => []NsInv
  BY InitInv, NextInv, PTL DEF Spec

-----------------------------------------------------------------------------
\* What a lookup finds.  The walk of router.match is a recursive function; that there
\* is one, and what it does, is shown by looking at the least place where it fails.

Walk(tr, q, w, n) ==
  w = [i \in 0 .. n |-> IF i = 0 THEN << >>
                        ELSE IF w[i - 1] = None THEN None ELSE nextRoute(tr, w[i - 1], q[i])]

LEMMA RequestFacts ==
  ASSUME NEW q \in Requests
  PROVE  /\ q \in Seq(Segments) /\ DOMAIN q = 1 .. Len(q) /\ Len(q) \in Nat
         /\ \A i \in 1 .. Len(q) : q[i] # "*" /\ q[i] \notin Params /\ q[i] \in Segments
<1>1. q \in Seq(STRING) /\ \A i \in DOMAIN q : q[i] # "*" /\ q[i] \notin Params
  BY NamespaceAssumption
<1>2. q \in Seq(Segments) /\ DOMAIN q = 1 .. Len(q) /\ Len(q) \in Nat
  BY <1>1 DEF Segments
<1>3. QED
  BY <1>1, <1>2

LEMMA WalkExists ==
  ASSUME NEW tr, NEW q \in Requests
  PROVE  \E w : Walk(tr, q, w, Len(q))
<1> DEFINE T == { n \in 0 .. Len(q) : ~\E w : Walk(tr, q, w, n) }
<1>1. Len(q) \in Nat
  BY RequestFacts
<1> SUFFICES ASSUME T # {} PROVE FALSE
  BY <1>1
<1>2. PICK n \in T : \A k \in T : n <= k
  <2>1. T \subseteq Nat
    BY <1>1
  <2> HIDE DEF T
  <2>2. QED
    BY <2>1, Least
<1>3. n \in 0 .. Len(q) /\ ~\E w : Walk(tr, q, w, n)
  BY <1>2
<1>4. CASE n = 0
  <2> DEFINE w == [i \in 0 .. 0 |-> << >>]
  <2>1. Walk(tr, q, w, 0)
    BY DEF Walk
  <2>2. QED
    BY <1>3, <1>4, <2>1
<1>5. CASE n # 0
  <2>1. n - 1 \in 0 .. Len(q) /\ ~(n <= n - 1) /\ n \in Nat
    BY <1>1, <1>3, <1>5
  <2>2. n - 1 \notin T
    BY <1>2, <2>1
  <2>3. PICK v : Walk(tr, q, v, n - 1)
    BY <2>1, <2>2
  <2> DEFINE at == IF v[n - 1] = None THEN None ELSE nextRoute(tr, v[n - 1], q[n])
             w == [i \in 0 .. n |-> IF i = n THEN at ELSE v[i]]
  <2>4. \A i \in 0 .. n : w[i] = IF i = 0 THEN << >>
                                 ELSE IF w[i - 1] = None THEN None ELSE nextRoute(tr, w[i - 1], q[i])
    <3> SUFFICES ASSUME NEW i \in 0 .. n
                 PROVE  w[i] = IF i = 0 THEN << >>
                               ELSE IF w[i - 1] = None THEN None ELSE nextRoute(tr, w[i - 1], q[i])
      OBVIOUS
    <3>1. i # 0 => i - 1 \in 0 .. n /\ i - 1 # n
      BY <2>1
    <3>2. i # 0 => w[i - 1] = v[i - 1]
      BY <3>1
    <3>3. CASE i = n
      BY <1>5, <3>2, <3>3
    <3>4. CASE i # n
      <4>1. i \in 0 .. n - 1 /\ w[i] = v[i]
        BY <2>1, <3>4
      <4>2. QED
        BY <2>3, <3>2, <4>1 DEF Walk
    <3>5. QED
      BY <3>3, <3>4
  <2>5. w = [i \in 0 .. n |-> w[i]]
    OBVIOUS
  <2> HIDE DEF w, at
  <2>6. Walk(tr, q, w, n)
    BY <2>4, <2>5 DEF Walk
  <2>7. QED
    BY <1>3, <2>6
<1>6. QED
  BY <1>4, <1>5

LEMMA MatchWalk ==
  ASSUME NEW tr, NEW q \in Requests
  PROVE  \E w : /\ w[0] = << >>
                /\ \A i \in 1 .. Len(q) : w[i] = IF w[i - 1] = None THEN None ELSE nextRoute(tr, w[i - 1], q[i])
                /\ match(tr, q) = IF w[Len(q)] = None THEN None ELSE tr.mount[w[Len(q)]]
<1> DEFINE w == CHOOSE w : Walk(tr, q, w, Len(q))
<1>1. Walk(tr, q, w, Len(q))
  BY WalkExists
<1>2. match(tr, q) = IF w[Len(q)] = None THEN None ELSE tr.mount[w[Len(q)]]
  BY DEF match, Walk
<1> HIDE DEF w
<1>3. Len(q) \in Nat /\ 0 \in 0 .. Len(q) /\ \A i \in 1 .. Len(q) : i \in 0 .. Len(q) /\ i # 0
  BY RequestFacts
<1>4. w[0] = << >>
  BY <1>1, <1>3 DEF Walk
<1>5. \A i \in 1 .. Len(q) : w[i] = IF w[i - 1] = None THEN None ELSE nextRoute(tr, w[i - 1], q[i])
  BY <1>1, <1>3 DEF Walk
<1>6. QED
  BY <1>2, <1>4, <1>5

\* A walk as router.match makes it.
Walks(tr, q, w) ==
  /\ w[0] = << >>
  /\ \A i \in 1 .. Len(q) : w[i] = IF w[i - 1] = None THEN None ELSE nextRoute(tr, w[i - 1], q[i])

LEMMA NodeFacts ==
  ASSUME NEW n \in Nodes
  PROVE  n \in Seq(Segments) /\ n # None
  BY PrefixFacts, NodesAssumption DEF Nodes

\* A prefix is the one before it with one element more (the nodes on the way to a path).
LEMMA OneMore ==
  ASSUME NEW s \in Seq(Segments), NEW n \in 1 .. Len(s)
  PROVE  SubSeq(s, 1, n) = Append(SubSeq(s, 1, n - 1), s[n])
  OBVIOUS

\* What a walk has come to after i steps: a node, by the segments of the path or by
\* parameter children, through the nodes that it was at before.
CameTo(tr, q, w, i) ==
  w[i] # None =>
    /\ w[i] \in tr.nodes /\ w[i] \in Seq(Segments) /\ Len(w[i]) = i
    /\ \A j \in 0 .. i : w[j] # None /\ w[j] = SubSeq(w[i], 1, j)
    /\ \A j \in 1 .. i : w[i][j] \in {q[j], "*"}

LEMMA SubSeqAppend ==
  ASSUME NEW s \in Seq(Segments), NEW x \in Segments
  PROVE  /\ Append(s, x) \in Seq(Segments) /\ Len(Append(s, x)) = Len(s) + 1 /\ Append(s, x)[Len(s) + 1] = x
         /\ \A j \in 1 .. Len(s) : Append(s, x)[j] = s[j]
         /\ \A j \in 0 .. Len(s) : SubSeq(Append(s, x), 1, j) = SubSeq(s, 1, j)
         /\ SubSeq(s, 1, Len(s)) = s /\ SubSeq(Append(s, x), 1, Len(s) + 1) = Append(s, x)
<1>1. /\ Append(s, x) \in Seq(Segments) /\ Len(Append(s, x)) = Len(s) + 1 /\ Append(s, x)[Len(s) + 1] = x
      /\ \A j \in 1 .. Len(s) : Append(s, x)[j] = s[j]
  OBVIOUS
<1>2. ASSUME NEW j \in 0 .. Len(s) PROVE SubSeq(Append(s, x), 1, j) = SubSeq(s, 1, j)
  BY <1>1
<1>3. SubSeq(s, 1, Len(s)) = s
  OBVIOUS
<1>4. SubSeq(Append(s, x), 1, Len(s) + 1) = Append(s, x)
  BY <1>1
<1>5. QED
  BY <1>1, <1>2, <1>3, <1>4

LEMMA WalkFacts ==
  ASSUME NEW tr, Sound(tr), NEW q \in Requests, NEW w, Walks(tr, q, w), NEW i \in 0 .. Len(q)
  PROVE  CameTo(tr, q, w, i)
<1> DEFINE T == { n \in 0 .. Len(q) : ~CameTo(tr, q, w, n) }
<1>1. Len(q) \in Nat /\ \A k \in 1 .. Len(q) : q[k] \in Segments
  BY RequestFacts
<1>2. tr.nodes \subseteq Nodes
  BY DEF Sound, Tries
<1> SUFFICES ASSUME T # {} PROVE FALSE
  OBVIOUS
<1>3. PICK n \in T : \A k \in T : n <= k
  <2>1. T \subseteq Nat
    BY <1>1
  <2> HIDE DEF T
  <2>2. QED
    BY <2>1, Least
<1>4. n \in 0 .. Len(q) /\ ~CameTo(tr, q, w, n)
  BY <1>3
<1>5. CASE n = 0
  <2>1. << >> \in tr.nodes /\ w[0] = << >> /\ << >> # None
    BY <1>2, NodeFacts DEF Sound, Walks
  <2>2. CameTo(tr, q, w, 0)
    <3>1. /\ w[0] \in Seq(Segments) /\ Len(w[0]) = 0 /\ SubSeq(w[0], 1, 0) = << >>
      BY <2>1
    <3>2. (\A j \in 0 .. 0 : j = 0) /\ 1 .. 0 = {}
      OBVIOUS
    <3>3. \A j \in 0 .. 0 : w[j] # None /\ w[j] = SubSeq(w[0], 1, j)
      BY <2>1, <3>1, <3>2
    <3>4. \A j \in 1 .. 0 : w[0][j] \in {q[j], "*"}
      BY <3>2
    <3>5. QED
      BY <2>1, <3>1, <3>3, <3>4, Zenon DEF CameTo
  <2>3. QED
    BY <1>4, <1>5, <2>2
<1>6. CASE n # 0
  <2> DEFINE s == w[n - 1]
  <2>1. n - 1 \in 0 .. Len(q) /\ ~(n <= n - 1) /\ n \in Nat /\ n \in 1 .. Len(q)
    BY <1>1, <1>4, <1>6
  <2>2. CameTo(tr, q, w, n - 1)
    BY <1>3, <2>1
  <2>3. w[n] = IF s = None THEN None ELSE nextRoute(tr, s, q[n])
    BY <2>1 DEF Walks
  <2>4. w[n] # None /\ s # None
    BY <1>4, <2>3 DEF CameTo
  <2>5. /\ s \in Seq(Segments) /\ Len(s) = n - 1
        /\ \A j \in 0 .. n - 1 : w[j] # None /\ w[j] = SubSeq(s, 1, j)
        /\ \A j \in 1 .. n - 1 : s[j] \in {q[j], "*"}
    BY <2>2, <2>4 DEF CameTo
  <2> HIDE DEF s
  <2>6. PICK x \in {q[n], "*"} : w[n] = Append(s, x) /\ w[n] \in tr.nodes
    BY <2>3, <2>4 DEF nextRoute
  <2>7. x \in Segments
    BY <1>1, <2>1 DEF Segments
  <2>8. /\ w[n] \in Seq(Segments) /\ Len(w[n]) = n /\ w[n][n] = x
        /\ \A j \in 1 .. n - 1 : w[n][j] = s[j]
        /\ \A j \in 0 .. n - 1 : SubSeq(w[n], 1, j) = SubSeq(s, 1, j)
        /\ SubSeq(w[n], 1, n) = w[n]
    <3>1. Len(s) + 1 = n
      BY <2>1, <2>5
    <3>2. QED
      BY <2>5, <2>6, <2>7, <3>1, SubSeqAppend
  <2>9. \A j \in 0 .. n : w[j] # None /\ w[j] = SubSeq(w[n], 1, j)
    <3>1. \A j \in 0 .. n : j = n \/ j \in 0 .. n - 1
      BY <2>1
    <3>2. QED
      BY <2>4, <2>5, <2>8, <3>1
  <2>10. \A j \in 1 .. n : w[n][j] \in {q[j], "*"}
    <3>1. \A j \in 1 .. n : j = n \/ j \in 1 .. n - 1
      BY <2>1
    <3>2. QED
      BY <2>5, <2>6, <2>8, <3>1
  <2>11. QED
    BY <1>4, <2>6, <2>8, <2>9, <2>10 DEF CameTo
<1>7. QED
  BY <1>5, <1>6

\* An entry is held by the node of its path, and its way is in the trie.
LEMMA EntriesFacts ==
  ASSUME NEW tr, Sound(tr), NEW e \in Entries(tr)
  PROVE  /\ e \in Entry /\ e.path \in Mountable /\ tr.mount[Pos(e.path)] = e /\ Leads(tr, e.path)
  BY EntryFacts DEF Sound, Tries, Entries

\* A lookup ends at the node of a mount whose pattern fits.
LEMMA FoundFits ==
  ASSUME NEW tr, Sound(tr), NEW q \in Requests, NEW w, Walks(tr, q, w), w[Len(q)] # None,
         NEW m, m = tr.mount[w[Len(q)]], m # None
  PROVE  /\ m.path \in Mountable /\ Pos(m.path) = w[Len(q)] /\ Len(m.path) = Len(q) /\ Instance(q, m.path)
<1> DEFINE n == w[Len(q)]
           p == m.path
<1>1. Len(q) \in Nat /\ Len(q) \in 0 .. Len(q)
  BY RequestFacts
<1>2. CameTo(tr, q, w, Len(q))
  BY <1>1, WalkFacts
<1>3. n \in tr.nodes /\ Len(n) = Len(q) /\ \A j \in 1 .. Len(q) : n[j] \in {q[j], "*"}
  BY <1>2 DEF CameTo
<1>4. n \in Nodes
  BY <1>3 DEF Sound, Tries
<1>5. m \in Entry /\ Pos(p) = n
  BY <1>4 DEF Sound, Tries
<1> HIDE DEF n
<1>6. /\ p \in Mountable /\ DOMAIN p = 1 .. Len(p) /\ Len(Pos(p)) = Len(p)
      /\ \A i \in 1 .. Len(p) : p[i] # "*" /\ Pos(p)[i] = (IF p[i] \in Params THEN "*" ELSE p[i])
  BY <1>5, EntryFacts, PathFacts
<1>7. Len(p) = Len(q)
  BY <1>3, <1>5, <1>6
<1>8. \A i \in DOMAIN p : p[i] \in Params \cup {q[i]}
  BY <1>3, <1>5, <1>6, <1>7
<1>9. QED
  BY <1>5, <1>6, <1>7, <1>8 DEF Instance, n

\* No mounted pattern that fits has a segment where the one found has its first
\* parameter in excess: nextRoute would have taken that child.
LEMMA FoundUnbeaten ==
  ASSUME NEW tr, Sound(tr), NEW q \in Requests, NEW w, Walks(tr, q, w), w[Len(q)] # None,
         NEW m, m = tr.mount[w[Len(q)]], m # None, NEW e \in Entries(tr), Instance(q, e.path)
  PROVE  ~Beats(e.path, m.path)
<1> DEFINE a == e.path
           b == m.path
           n == w[Len(q)]
<1> SUFFICES ASSUME Beats(a, b) PROVE FALSE
  OBVIOUS
<1>1. /\ b \in Mountable /\ Pos(b) = n /\ Len(b) = Len(q) /\ Instance(q, b)
  BY FoundFits
<1>2. a \in Mountable /\ Leads(tr, a)
  BY EntriesFacts
<1> HIDE DEF a, b, n
<1>3. /\ a \in Seq(Segments) /\ DOMAIN a = 1 .. Len(a) /\ Len(a) \in Nat /\ Pos(a) \in Seq(Segments) /\ Len(Pos(a)) = Len(a)
      /\ \A j \in 1 .. Len(a) : a[j] # "*" /\ Pos(a)[j] = (IF a[j] \in Params THEN "*" ELSE a[j])
  BY <1>2, PathFacts
<1>4. /\ DOMAIN b = 1 .. Len(b) /\ Pos(b) \in Seq(Segments) /\ Len(Pos(b)) = Len(b)
      /\ \A j \in 1 .. Len(b) : Pos(b)[j] = (IF b[j] \in Params THEN "*" ELSE b[j])
  BY <1>1, PathFacts
<1>5. /\ Len(a) = Len(q) /\ Len(b) = Len(q) /\ Len(q) \in Nat
      /\ \A j \in 1 .. Len(q) : a[j] \in Params \cup {q[j]} /\ b[j] \in Params \cup {q[j]}
      /\ \A j \in 1 .. Len(q) : q[j] # "*" /\ q[j] \in Segments
  BY <1>1, <1>3, <1>4, RequestFacts DEF Instance, a
<1>6. PICK i \in 1 .. Len(q) : /\ a[i] \notin Params /\ b[i] \in Params
                               /\ \A j \in 1 .. i - 1 : a[j] \in Params <=> b[j] \in Params
  BY <1>3, <1>5 DEF Beats
<1>7. \A j \in 1 .. i - 1 : j \in 1 .. Len(q) /\ Pos(a)[j] = Pos(b)[j]
  BY <1>3, <1>4, <1>5, <1>6
<1>8. Pos(a)[i] = q[i] /\ Pos(b)[i] = "*" /\ q[i] # "*"
  BY <1>3, <1>4, <1>5, <1>6
<1>9. i - 1 \in 0 .. Len(q) /\ i \in 0 .. Len(q) /\ Len(q) \in 0 .. Len(q)
  BY <1>5
<1>10. /\ \A j \in 0 .. Len(q) : w[j] # None /\ w[j] = SubSeq(n, 1, j)
  BY <1>5, <1>9, WalkFacts DEF CameTo, n
<1>11. Prefix(a, i - 1) = w[i - 1]
  <2>1. SubSeq(Pos(a), 1, i - 1) = SubSeq(Pos(b), 1, i - 1)
    BY <1>3, <1>4, <1>5, <1>7, <1>9
  <2>2. QED
    BY <1>1, <1>9, <1>10, <2>1 DEF Prefix
<1>12. Prefix(a, i) = Append(w[i - 1], q[i])
  <2>1. SubSeq(Pos(a), 1, i) = Append(SubSeq(Pos(a), 1, i - 1), Pos(a)[i])
    BY <1>3, <1>5, <1>9
  <2>2. QED
    BY <1>8, <1>11, <2>1 DEF Prefix
<1>13. Append(w[i - 1], q[i]) \in tr.nodes
  <2>1. Prefix(a, i) \in tr.nodes
    BY <1>2, <1>5, <1>9 DEF Leads
  <2>2. QED
    BY <1>12, <2>1
<1>14. w[i] = Append(w[i - 1], q[i])
  BY <1>6, <1>9, <1>10, <1>13 DEF Walks, nextRoute
<1>15. w[i][i] = "*"
  BY <1>1, <1>4, <1>5, <1>8, <1>9, <1>10
<1>16. w[i][i] = q[i]
  <2>1. w[i] = SubSeq(Pos(a), 1, i)
    BY <1>12, <1>14 DEF Prefix
  <2>2. QED
    BY <1>3, <1>5, <1>8, <2>1
<1>17. QED
  BY <1>8, <1>15, <1>16

\* The way of a literal path is taken at every step.
LEMMA LiteralFound ==
  ASSUME NEW tr, Sound(tr), NEW q \in Requests, NEW w, Walks(tr, q, w), q \in Mountable, Leads(tr, q)
  PROVE  w[Len(q)] = Pos(q) /\ w[Len(q)] # None
<1> DEFINE T == { n \in 0 .. Len(q) : w[n] # Prefix(q, n) }
<1>1. /\ q \in Seq(Segments) /\ Len(q) \in Nat /\ Pos(q) \in Seq(Segments) /\ Len(Pos(q)) = Len(q)
      /\ \A j \in 1 .. Len(q) : Pos(q)[j] = q[j]
  BY PathFacts, RequestFacts
<1>2. ASSUME T # {} PROVE FALSE
  <2>1. PICK n \in T : \A k \in T : n <= k
    <3>1. T \subseteq Nat
      BY <1>1
    <3> HIDE DEF T
    <3>2. QED
      BY <1>2, <3>1, Least
  <2>2. n \in 0 .. Len(q) /\ w[n] # Prefix(q, n)
    BY <2>1
  <2>3. n # 0
    BY <2>2, PrefixFacts DEF Walks
  <2>4. n - 1 \in 0 .. Len(q) /\ ~(n <= n - 1) /\ n \in 1 .. Len(q)
    BY <1>1, <2>2, <2>3
  <2>5. w[n - 1] = Prefix(q, n - 1) /\ w[n - 1] # None
    <3>1. w[n - 1] = Prefix(q, n - 1)
      BY <2>1, <2>4
    <3>2. QED
      BY <2>4, <3>1, PrefixFacts, NodeFacts
  <2>6. Prefix(q, n) = Append(Prefix(q, n - 1), q[n])
    <3>1. n \in 1 .. Len(Pos(q)) /\ Pos(q)[n] = q[n]
      BY <1>1, <2>4
    <3>2. QED
      BY <1>1, <3>1, OneMore DEF Prefix
  <2>7. Append(w[n - 1], q[n]) \in tr.nodes
    BY <2>2, <2>5, <2>6 DEF Leads
  <2>8. w[n] = Append(w[n - 1], q[n])
    BY <2>4, <2>5, <2>7 DEF Walks, nextRoute
  <2>9. QED
    BY <2>2, <2>5, <2>6, <2>8
<1>3. w[Len(q)] = Prefix(q, Len(q))
  BY <1>1, <1>2
<1>4. QED
  BY <1>3, PrefixFacts, NodeFacts

-----------------------------------------------------------------------------
\* The results.

\* The trie is sound in every reachable state: entries lie where their path leads, names
\* of parameters included, whatever mounts were refused, taken back, renamed or restored;
\* EEXIST is answered only for what is taken; mounted skills are served.
THEOREM TrieIsSound == Spec => []TrieSound
<1>1. NsInv => TrieSound
  <2> SUFFICES ASSUME NsInv PROVE TrieSound
    OBVIOUS
  <2>1. TypeOK
    <3>1. /\ DOMAIN trie = {"nodes", "key", "mount"}
      BY DEF NsInv, Sound, Tries
    <3>2. QED
      BY <3>1 DEF NsInv, Types, Sound, Tries, TypeOK
  <2>2. WellPlaced
    <3> SUFFICES ASSUME NEW n \in Nodes, trie.mount[n] # None
                 PROVE  LET p == trie.mount[n].path IN
                        /\ Pos(p) = n /\ n \in trie.nodes
                        /\ \A i \in DOMAIN p : p[i] \in Params => trie.key[Prefix(p, i - 1)] = p[i]
      BY DEF WellPlaced
    <3> DEFINE p == trie.mount[n].path
    <3>1. p \in Mountable /\ Pos(p) = n /\ Leads(trie, p)
      BY EntryFacts DEF NsInv, Sound, Tries
    <3> HIDE DEF p
    <3>2. DOMAIN p = 1 .. Len(p) /\ Len(p) \in 0 .. Len(p) /\ Prefix(p, Len(p)) = Pos(p)
      BY <3>1, PathFacts, PrefixFacts
    <3>3. n \in trie.nodes /\ \A i \in DOMAIN p : p[i] \in Params => trie.key[Prefix(p, i - 1)] = p[i]
      BY <3>1, <3>2 DEF Leads
    <3>4. QED
      BY <3>1, <3>3 DEF p
  <2>3. ExistMeansTaken /\ SkillServed
    BY DEF NsInv, Skilled, SkillServed, Entries
  <2>4. QED
    BY <2>1, <2>2, <2>3 DEF TrieSound
<1>2. QED
  BY <1>1, AlwaysInv, PTL

\* router.match returns, in every reachable state and for every path, a mount that fits and
\* that no more static mounted pattern beats, and finds what is mounted literally.
THEOREM LookupsAreBest == Spec => []MatchBest
<1>1. NsInv => MatchBest
  <2> SUFFICES ASSUME NsInv, NEW q \in Requests
               PROVE  LET m == match(trie, q) IN
                      /\ m # None => /\ Instance(q, m.path)
                                     /\ \A e \in Entries(trie) : Instance(q, e.path) => ~Beats(e.path, m.path)
                      /\ \A e \in Entries(trie) : e.path = q => m = e
    BY DEF MatchBest
  <2> DEFINE m == match(trie, q)
  <2>1. PICK w : /\ Walks(trie, q, w)
                 /\ match(trie, q) = IF w[Len(q)] = None THEN None ELSE trie.mount[w[Len(q)]]
    BY MatchWalk DEF Walks
  <2>2. Sound(trie)
    BY DEF NsInv
  <2>3. ASSUME m # None
        PROVE  /\ Instance(q, m.path)
               /\ \A e \in Entries(trie) : Instance(q, e.path) => ~Beats(e.path, m.path)
    <3>1. w[Len(q)] # None /\ m = trie.mount[w[Len(q)]]
      BY <2>1, <2>3
    <3> HIDE DEF m
    <3>2. QED
      BY <2>1, <2>2, <2>3, <3>1, FoundFits, FoundUnbeaten
  <2>4. ASSUME NEW e \in Entries(trie), e.path = q PROVE m = e
    <3>1. q \in Mountable /\ trie.mount[Pos(q)] = e /\ Leads(trie, q)
      BY <2>2, <2>4, EntriesFacts
    <3>2. w[Len(q)] = Pos(q) /\ w[Len(q)] # None
      BY <2>1, <2>2, <3>1, LiteralFound
    <3>3. QED
      BY <2>1, <3>1, <3>2
  <2>5. QED
    BY <2>3, <2>4
<1>2. QED
  BY <1>1, AlwaysInv, PTL

\* A Rename that fails, ENOENT or EEXIST, leaves every mount where it was, whatever it did
\* to the trie in between.
THEOREM FailedRenamesKeep == Spec => FailedRenameKeeps
<1> DEFINE A == LET m == trie.mount[Pos(last'.path)] IN
                renames' # renames /\ last'.err # None /\ (m # None => m.path = last'.path)
                  => Entries(trie') = Entries(trie)
<1>1. NsInv /\ [Next]_vars => [A]_vars
  <2> SUFFICES ASSUME NsInv, Next, renames' # renames, last'.err # None,
                      LET m == trie.mount[Pos(last'.path)] IN m # None => m.path = last'.path
               PROVE  Entries(trie') = Entries(trie)
    OBVIOUS
  <2>1. PICK p \in conf.patterns, q \in conf.patterns : Rename(p, q)
    BY DEF Next, Mount, Unmount, Snapshot, Restore, UnmountSkillAtRoot, Step, RootFile, Deliver, RestoreStep,
           StreamGet, StreamMatch, counts
  <2>2. Sound(trie) /\ p \in Mountable /\ q \in Mountable
    BY ConfFacts DEF NsInv
  <2>3. CASE UNCHANGED trie
    BY <2>3
  <2>4. CASE /\ trie.mount[Pos(p)] # None /\ trie' = renameLocked(p, q) /\ Taken(remove(trie, p), q)
             /\ Return("rename", p, "EEXIST")
    <3>1. trie.mount[Pos(p)].path = p
      BY <2>4 DEF Return
    <3>2. trie'.mount = trie.mount
      BY <2>2, <2>4, <3>1, RenameFacts
    <3>3. QED
      BY <3>2 DEF Entries
  <2>5. QED
    BY <2>1, <2>3, <2>4 DEF Rename, Ended
<1>2. QED
  BY <1>1, AlwaysInv, PTL DEF Spec, FailedRenameKeeps

\* A Restore that ends has mounted the snapshot and nothing else, and was refused nothing:
\* nodes and names that other mounts left behind since are not in its way.
THEOREM RestoresAreExact == Spec => RestoreExact
<1> DEFINE A == pc = "restore" /\ pc' = "idle" =>
                  /\ last'.err = None /\ Entries(trie') \subseteq saved
                  /\ \A e \in saved \ Entries(trie') : Pos(e.path) \in RootFiles
<1>1. NsInv /\ [Next]_vars => [A]_vars
  <2> SUFFICES ASSUME NsInv, Next, pc = "restore", pc' = "idle"
               PROVE  /\ last'.err = None /\ Entries(trie') \subseteq saved
                      /\ \A e \in saved \ Entries(trie') : Pos(e.path) \in RootFiles
    OBVIOUS
  <2>1. RestoreStep
    BY DEF Next, Mount, Unmount, Rename, Snapshot, Restore, UnmountSkillAtRoot, Step, RootFile, Deliver,
           StreamGet, StreamMatch, cvars
  <2>2. pending = {} /\ last'.err = None /\ trie' = trie
    BY <2>1, NotTaken DEF RestoreStep, Return
  <2>3. \A n \in Nodes : trie.mount[n] # None => trie.mount[n] \in saved
    BY DEF NsInv, Restoring
  <2>4. ASSUME NEW e \in saved, Pos(e.path) \notin RootFiles PROVE e \in Entries(trie)
    <3>1. trie.mount[Pos(e.path)] = e
      BY <2>2, <2>4 DEF NsInv, Restoring
    <3>2. e # None /\ Pos(e.path) \in Nodes
      BY EntryFacts DEF NsInv, Types
    <3>3. QED
      BY <3>1, <3>2 DEF Entries
  <2>5. QED
    BY <2>2, <2>3, <2>4 DEF Entries
<1>2. QED
  BY <1>1, AlwaysInv, PTL DEF Spec, RestoreExact
==============================================================================
