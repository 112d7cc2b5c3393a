---------------------------- MODULE PullManifest ----------------------------
(***************************************************************************)
(* The manifest of a pull: the order its entries are sent in and what the  *)
(* receiver demands of it (validatePullManifest of the package wire).  A   *)
(* path is the sequence of its names below the requested path.  Order is   *)
(* the order of the joined text by code units, in which "a-b" comes before *)
(* "a/b": a directory's entries need not follow it at once.                *)
(***************************************************************************)
EXTENDS Integers, Sequences, FiniteSets, SequencesExt

CONSTANTS Order,              \* every path, in the order of its text
          Name,               \* the last name of the requested path
          Uncanonical,        \* names that parseRemotePath refuses
          MaxEntries, MaxFile, MaxTotal

Paths == {Order[n] : n \in DOMAIN Order}
Names == UNION {Range(p) : p \in Paths}
ASSUME OrderAssumption ==
  /\ Order \in Seq(Seq(Names))
  /\ \A m, n \in DOMAIN Order : Order[m] = Order[n] => m = n
Precedes(p, q) == \E m, n \in DOMAIN Order : m < n /\ Order[m] = p /\ Order[n] = q
Canonical(p) == \A n \in DOMAIN p : p[n] \notin Uncanonical
Parents(p) == {SubSeq(p, 1, n) : n \in 1..(Len(p) - 1)}

\* "a" comes before "a/b".
ASSUME TextAssumption == \A p \in Paths : \A q \in Parents(p) : Precedes(q, p)
\* The requested path was parsed; a file is sent under its last name.
ASSUME NameAssumption == <<Name>> \in Paths /\ Name \notin Uncanonical
ASSUME LimitsAssumption == MaxEntries \in Nat /\ MaxFile \in Nat /\ MaxTotal \in Nat

\* The sum of the values of a function: how many units they are.
SumOf(f) == Cardinality(UNION {{x} \X (1..f[x]) : x \in DOMAIN f})

\* entries.sort(compareText) and children.sort(compareSourceNames): the n-th of the
\* paths is the one that has n of them up to it.
UpTo(p, ps) == {q \in ps : q = p \/ Precedes(q, p)}
InOrder(ps) ==
  [n \in 1..Cardinality(ps) |-> CHOOSE p \in ps : Cardinality(UpTo(p, ps)) = n]

\* A variant that does not ask for the directories above an entry.
EntryViolationNoParents(seen, entry) ==
  IF ~Canonical(entry.path) THEN "entry-path"
  ELSE IF seen.previous # <<>> /\ ~Precedes(seen.previous, entry.path) THEN "order"
  ELSE IF entry.kind = "file" /\ (entry.size > MaxFile \/ seen.total + entry.size > MaxTotal)
  THEN "limit"
  ELSE "none"

\* One turn of the loop of validateEntries.
EntryViolation(seen, entry) ==
  IF ~Canonical(entry.path) THEN "entry-path"
  ELSE IF seen.previous # <<>> /\ ~Precedes(seen.previous, entry.path) THEN "order"
  ELSE IF ~(Parents(entry.path) \subseteq seen.directories) THEN "parents"
  ELSE IF entry.kind = "file" /\ (entry.size > MaxFile \/ seen.total + entry.size > MaxTotal)
  THEN "limit"
  ELSE "none"

\* What the loop has gathered when it comes to the n-th entry.  A directory has no size,
\* which is 0 here.
SizeSum(entries, n) == SumOf([m \in 1..n |-> entries[m].size])
SeenBefore(entries, n) ==
  [previous |-> IF n = 1 THEN <<>> ELSE entries[n - 1].path,
   directories |-> {entries[m].path : m \in {m \in 1..(n - 1) : entries[m].kind = "directory"}},
   total |-> SizeSum(entries, n - 1)]

\* The violation of the first entry that has one, or "none".
ValidateEntries(entries) ==
  LET at(n) == EntryViolation(SeenBefore(entries, n), entries[n])
      faulty == {n \in DOMAIN entries : at(n) # "none"}
  IN IF faulty = {} THEN "none" ELSE at(CHOOSE n \in faulty : \A m \in faulty : n <= m)

\* validatePullManifest: "none", or the kind of the first violation.
Violation(m) ==
  LET violation == ValidateEntries(m.entries) IN
  IF Len(m.name) # 1 \/ ~Canonical(m.name) THEN "name"
  ELSE IF Len(m.entries) > MaxEntries THEN "limit"
  ELSE IF violation # "none" THEN violation
  ELSE IF m.totalBytes # SizeSum(m.entries, Len(m.entries)) THEN "totals"
  ELSE IF /\ m.kind = "file"
          /\ \/ Len(m.entries) # 1
             \/ m.entries[1].kind # "file"
             \/ m.entries[1].path # m.name
  THEN "file-shape"
  ELSE "none"
-----------------------------------------------------------------------------
\* What a manifest means, apart from how it is validated: a set of paths closed
\* under parents, all of them directories, none named twice, sizes that add up.
DescribesTree(m) ==
  LET E == {m.entries[n] : n \in DOMAIN m.entries} IN
  /\ Len(m.name) = 1 /\ Canonical(m.name)
  /\ \A x \in E : Canonical(x.path) /\ x.size <= MaxFile
  /\ \A x \in E : \A p \in Parents(x.path) : \E y \in E : y.path = p /\ y.kind = "directory"
  /\ [n \in DOMAIN m.entries |-> m.entries[n].path] = InOrder({x.path : x \in E})
  /\ Len(m.entries) <= MaxEntries
  /\ SizeSum(m.entries, Len(m.entries)) = m.totalBytes /\ m.totalBytes <= MaxTotal
  /\ m.kind = "file" => Len(m.entries) = 1 /\ \A x \in E : x.kind = "file" /\ x.path = m.name

\* Manifests that differ from one: its entries reordered, left out or repeated, one
\* of them replaced, the totals, kind or name another.
Others(m) ==
  LET N == 1..Len(m.entries)
      lists == {[n \in 1..k |-> m.entries[f[n]]] : k \in 0..Len(m.entries), f \in [N -> N]}
      changed == {[path |-> p, kind |-> IF size = 0 THEN "directory" ELSE "file", size |-> size] :
                    p \in Paths \ {<<>>}, size \in {0, 1, MaxFile + 1}}
      replaced == {[m.entries EXCEPT ![n] = x] : n \in N, x \in changed}
      added == {Append(m.entries, x) : x \in changed}
  IN {[m EXCEPT !.entries = list, !.totalBytes = SizeSum(list, Len(list))] :
        list \in lists \cup replaced \cup added}
     \cup {[m EXCEPT !.entries = list] : list \in replaced}
     \cup {[m EXCEPT !.kind = kind] : kind \in {"file", "directory"}}
     \cup {[m EXCEPT !.name = name] : name \in Paths}
=============================================================================
