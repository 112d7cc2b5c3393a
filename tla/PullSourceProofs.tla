-------------------------- MODULE PullSourceProofs --------------------------
(***************************************************************************)
(* Proofs about PullSource, for every set of paths, every tree, any number *)
(* of changes to it and any limits.                                        *)
(*                                                                         *)
(* The objects of the host are a tree whatever others do to it (IsTree).     *)
(* While the object a call works on still has the stamp it had at first,   *)
(* what the call has gathered is what the object is (Watched): on a host   *)
(* with a stamp for every change nothing else need be compared.  The rest  *)
(* is what the walks still have to do: every planned path is reached from  *)
(* the requested one through planned directories (Rooted), what a planned  *)
(* directory names is planned, or about to be (PlanWalk), every file is    *)
(* sent, or about to be (StreamWalk), and every path is compared again, or *)
(* below one that is about to be (VerifyWalk).                             *)
(*                                                                         *)
(* Two more invariants rest on that one.  PlanBooks: the counters are the  *)
(* names that were listed and the sum of the sizes of what is planned, so  *)
(* the manifest of a plan is one the client accepts.  Rests: while nobody  *)
(* has touched the tree, what is planned, what the call holds and what the *)
(* second walk still counts are what the tree is, so a pull that fails has *)
(* met a limit, a name or a kind the tree itself does not comply with.     *)
(***************************************************************************)
EXTENDS PullSource, SequenceTheorems, FiniteSetTheorems, FunctionTheorems, TLAPS

-----------------------------------------------------------------------------
(* Types.                                                                  *)
Listed == {"opendir", "readdir", "closedir", "relist"}
Reading == {"open", "opened", "lstat", "before", "read", "after", "again", "close"}
Unwinding == {"unwind", "unwindListing"}
Verifying == {"verifyDirectory", "verifyFile"}
Steps == {"next", "inspect", "list", "scan"} \cup Listed \cup Reading \cup Unwinding \cup Verifying
Passes == {"plan", "stream", "verify", "recheck"}

Guards == {<<>>} \cup UNION {[Components(p) -> Inodes \cup {None}] : p \in Paths}
CallState ==
  [at : Steps, path : Paths, pass : Passes, rev : Revisions \cup {None}, seen : SUBSET Paths,
   due : SUBSET Paths, bytes : Seq(Units), piece : Seq(Units), handle : Inodes \cup {None},
   guard : Guards]
TaskState == [pass : Passes, path : Paths]

TypeOK ==
  /\ names \in [Paths -> Inodes \cup {None}]
  /\ inode \in [Inodes -> Nodes]
  /\ unused \subseteq Inodes
  /\ clock \in Nat
  /\ fine \in BOOLEAN
  /\ phase \in {"plan", "stream", "verify", "verified", "failed"}
  /\ call \in CallState
  /\ todo \in Seq(TaskState)
  /\ planned \in [Paths -> Plans \cup {None}]
  /\ sent \in [Paths -> Seq(Units)]
  /\ checked \subseteq Paths
  /\ began \in [Paths -> Views \cup {None}]

-----------------------------------------------------------------------------
(* The host.                                                               *)
IsNode(p) ==
  /\ names[p] \notin unused
  /\ Node(p).kind \in Kinds /\ Node(p).stamp \in 1..clock
  /\ Node(p).kind # "file" => Node(p).data = <<>>
  /\ p # Root => names[Front(p)] # None /\ Node(Front(p)).kind = "directory"
IsTree ==
  /\ \A p, q \in Paths : names[p] = names[q] => p = q \/ names[p] = None
  /\ \A p \in Paths : names[p] # None => IsNode(p)

-----------------------------------------------------------------------------
(* The call under way: k is its record.                                    *)
Below(p) == {q \in Paths : q # Root /\ Front(q) = p}
Starts(some, all) == Len(some) <= Len(all) /\ \A n \in 1..Len(some) : some[n] = all[n]

Shape(k) ==
  /\ k.at = "next" => k = Rest
  /\ k.at \in Listed \cup Unwinding \cup Reading \/ k.handle = None
  /\ k.at \in {"list", "opendir", "scan"} => k.seen = {} /\ k.bytes = <<>>
  /\ k.seen \subseteq Below(k.path) /\ k.due \subseteq Below(k.path)

\* The revision is one that an object had, and has no more if it was changed.
Held(k) ==
  k.at \in Listed \cup Reading =>
    /\ k.rev # None /\ k.rev.ino \notin unused /\ k.rev.stamp <= clock
    /\ k.rev.kind = IF k.at \in Listed THEN "directory" ELSE "file"
    /\ k.at \in {"read", "after", "again"} => k.handle = k.rev.ino
Same(k) == fine /\ inode[k.rev.ino].stamp = k.rev.stamp
ListingIs(k) ==
  k.at \in Listed /\ Same(k) /\ names[k.path] = k.rev.ino =>
    /\ k.at = "readdir" =>
         k.due = Children(k.path) /\ k.seen \subseteq Children(k.path) /\ k.handle = k.rev.ino
    /\ k.at \in {"closedir", "relist"} => k.seen = Children(k.path)
ScanIs(k) ==
  k.at \in Reading /\ Same(k) =>
    LET data == inode[k.rev.ino].data  n == Len(k.bytes) + 1 IN
    /\ k.rev.size = Len(data) /\ Starts(k.bytes, data)
    /\ k.at \in {"after", "again"} =>
         k.piece = IF n \in DOMAIN data THEN <<data[n]>> ELSE <<>>
Watched(k) == Held(k) /\ ListingIs(k) /\ ScanIs(k)

-----------------------------------------------------------------------------
(* The plan and the tasks.                                                 *)
Active == call.at # "next"
Elements(s) == {s[n] : n \in DOMAIN s}
Once(s) == \A m, n \in DOMAIN s : s[m] = s[n] => m = n
Ahead == Elements(todo)
Named(p) == p # Root /\ planned[Front(p)] # None /\ p \in planned[Front(p)].children
Rooted ==
  \A p \in PlannedPaths :
    /\ planned[p].children \subseteq Below(p)
    /\ planned[p].kind = "file" => planned[p].children = {}
    /\ p # Root => Named(p)

\* A path is planned once.
Fresh(p) == planned[p] = None /\ (p # Root => Named(p))
PlanTasks ==
  /\ \A t \in Ahead : t.pass = "plan" /\ t.path # Root /\ Fresh(t.path)
  /\ Once(todo)
PlanWalk ==
  phase = "plan" =>
    /\ PlanTasks
    /\ Active => /\ call.pass = "plan" /\ call.at \notin Verifying
                 /\ Fresh(call.path) /\ Task("plan", call.path) \notin Ahead
    /\ planned[Root] # None \/ (Active /\ call.path = Root)
    /\ \A p \in PlannedPaths : \A q \in planned[p].children :
         planned[q] # None \/ Task("plan", q) \in Ahead \/ (Active /\ call.path = q)
    /\ \A p \in Paths : sent[p] = <<>>
    /\ checked = {}

Whole == planned[Root] # None /\ \A p \in PlannedPaths : \A q \in planned[p].children : planned[q] # None
PlannedFiles == {p \in PlannedPaths : planned[p].kind = "file"}
StreamWalk ==
  phase = "stream" =>
    /\ Whole
    /\ \A t \in Ahead : t.pass = "stream" /\ t.path \in PlannedFiles
    /\ Active => /\ call.pass = "stream" /\ call.path \in PlannedFiles
                 /\ call.at \in {"scan"} \cup Reading \cup Unwinding
                 /\ call.at = "close" => call.bytes = planned[call.path].data
    /\ \A p \in PlannedFiles :
         \/ Task("stream", p) \in Ahead
         \/ Active /\ call.path = p
         \/ sent[p] = planned[p].data
    /\ \A p \in PlannedPaths :
         IF Active /\ call.path = p /\ call.bytes # <<>> THEN sent[p] = call.bytes
         ELSE sent[p] \in {<<>>, planned[p].data}
    /\ checked = {}

Sent == \A p \in PlannedFiles : sent[p] = planned[p].data
BeganTree ==
  \A p \in Paths : began[p] # None /\ p # Root => began[Front(p)] # None /\ p \in began[Front(p)].children
\* The path will be compared, or one that leads to it.
Awaited(p) ==
  \E q \in Components(p) :
    Task("verify", q) \in Ahead \/ (Active /\ call.pass = "verify" /\ call.path = q)
VerifyWalk ==
  phase = "verify" =>
    /\ \A t \in Ahead : t.pass \in {"verify", "recheck"} /\ t.path \in PlannedPaths
    /\ Active => /\ call.pass \in {"verify", "recheck"} /\ call.path \in PlannedPaths
                 /\ call.at \in {"list"} \cup Listed \cup Unwinding \cup Verifying
                 /\ call.at \in Verifying => call.rev = planned[call.path].rev
                 /\ call.at = "verifyFile" => planned[call.path].kind = "file"
    /\ checked \subseteq PlannedPaths
    /\ \A p \in PlannedPaths \ checked : Awaited(p)
Afterwards ==
  /\ phase \in {"verify", "verified"} => Whole /\ Sent /\ BeganTree
  /\ phase = "verified" => checked = PlannedPaths
  /\ phase \in {"verified", "failed"} => ~Active

IInv ==
  /\ TypeOK /\ IsTree
  /\ Shape(call) /\ Watched(call)
  /\ Rooted /\ PlanWalk /\ StreamWalk /\ VerifyWalk /\ Afterwards

-----------------------------------------------------------------------------
(* Paths.                                                                  *)
\* A path is a sequence of names, and what leads to it is a path.
LEMMA PathParts ==
  ASSUME NEW p \in Paths
  PROVE  /\ p \in Seq(Names) /\ Root \in Components(p) /\ p \in Components(p)
         /\ Components(p) \subseteq Paths
         /\ Components(Root) = {Root}
         /\ p # Root => /\ Front(p) \in Paths
                        /\ Components(p) = Components(Front(p)) \cup {p}
<1>1. p \in Seq(Names)
  BY OrderAssumption DEF Paths
<1>2. Components(p) \subseteq Paths
  BY PathsAssumption
<1>3. SubSeq(p, 1, 0) = Root /\ SubSeq(p, 1, Len(p)) = p /\ Len(p) \in Nat
  BY <1>1, SubSeqEmpty, SubSeqFull DEF Root
<1>4. Root \in Components(p) /\ p \in Components(p)
  <2>1. 0 \in 0..Len(p) /\ Len(p) \in 0..Len(p)
    BY <1>3
  <2>2. SubSeq(p, 1, 0) \in Components(p) /\ SubSeq(p, 1, Len(p)) \in Components(p)
    BY <2>1 DEF Components
  <2>3. QED
    BY <1>3, <2>2
<1>5. Components(Root) = {Root}
  <2>1. Len(Root) = 0 /\ 0..0 = {0}
    BY DEF Root
  <2>2. SubSeq(Root, 1, 0) = Root
    BY SubSeqEmpty DEF Root
  <2>3. QED
    BY <2>1, <2>2 DEF Components
<1>6. ASSUME p # Root
      PROVE  Front(p) \in Paths /\ Components(p) = Components(Front(p)) \cup {p}
  <2>1. Len(p) \in Nat \ {0}
    BY <1>1, <1>6 DEF Root
  <2>2. Front(p) \in Seq(Names) /\ Len(Front(p)) = Len(p) - 1
    <3>1. \A i \in 1..(Len(p) - 1) : p[i] \in Names
      BY <1>1, <2>1, ElementOfSeq
    <3>2. \A k \in Nat \ {0} : /\ k - 1 \in Int
                               /\ (IF 1 <= k - 1 THEN k - 1 - 1 + 1 ELSE 0) = k - 1
      OBVIOUS
    <3>3. /\ SubSeq(p, 1, Len(p) - 1) \in Seq(Names)
          /\ Len(SubSeq(p, 1, Len(p) - 1)) = IF 1 <= Len(p) - 1 THEN Len(p) - 1 - 1 + 1 ELSE 0
      BY <2>1, <3>1, <3>2, SubSeqProperties
    <3>4. QED
      BY <2>1, <3>2, <3>3 DEF Front
  <2>3. ASSUME NEW n \in 0..(Len(p) - 1)
        PROVE  SubSeq(Front(p), 1, n) = SubSeq(p, 1, n)
    <3>1. CASE n = 0
      BY <3>1, <2>1, SubSeqEmpty
    <3>2. CASE n # 0
      <4>1. SubSeq(SubSeq(p, 1, Len(p) - 1), 1, n) = SubSeq(p, 1 + 1 - 1, 1 + n - 1)
        BY <1>1, <2>1, <3>2, SubSeqOfSubSeq
      <4>2. QED
        BY <2>1, <4>1 DEF Front
    <3>3. QED
      BY <3>1, <3>2
  <2>4. Front(p) \in Components(p)
    BY <2>1 DEF Front, Components
  <2>5. Components(Front(p)) = {SubSeq(p, 1, n) : n \in 0..(Len(p) - 1)}
    BY <2>2, <2>3 DEF Components
  <2>6. 0..Len(p) = 0..(Len(p) - 1) \cup {Len(p)}
    BY <2>1
  <2>7. QED
    BY <1>2, <1>3, <2>4, <2>5, <2>6 DEF Components
<1>7. QED
  BY <1>1, <1>2, <1>4, <1>5, <1>6

\* What leads to a directory leads to what is below it, and nothing else does but
\* that itself.
LEMMA ChildParts ==
  ASSUME NEW p \in Paths, NEW q \in Below(p)
  PROVE  Components(q) = Components(p) \cup {q} /\ p \in Components(q)
BY PathParts DEF Below

-----------------------------------------------------------------------------
(* Sequences of paths.                                                     *)
\* There are finitely many paths, one before the other.
LEMMA PathOrder ==
  /\ IsFiniteSet(Paths)
  /\ \A p, q \in Paths : p # q => Precedes(p, q) \/ Precedes(q, p)
  /\ \A p \in Paths : ~Precedes(p, p)
  /\ \A p, q, r \in Paths : Precedes(p, q) /\ Precedes(q, r) => Precedes(p, r)
<1>1. DOMAIN Order = 1..Len(Order) /\ Len(Order) \in Nat
  BY OrderAssumption
<1>2. Order \in [1..Len(Order) -> Paths]
  BY <1>1, OrderAssumption DEF Paths
<1>3. Order \in Surjection(1..Len(Order), Paths)
  BY <1>1, <1>2 DEF Surjection, Paths
<1>4. IsFiniteSet(Paths)
  BY <1>1, <1>3, FS_NatSurjection DEF ExistsSurjection
<1>5. \A p, q \in Paths : p # q => Precedes(p, q) \/ Precedes(q, p)
  BY <1>1 DEF Paths, Precedes
<1>6. \A p \in Paths : ~Precedes(p, p)
  BY <1>1, OrderAssumption DEF Precedes
<1>7. \A p, q, r \in Paths : Precedes(p, q) /\ Precedes(q, r) => Precedes(p, r)
  BY <1>1, OrderAssumption DEF Precedes
<1>8. QED
  BY <1>4, <1>5, <1>6, <1>7

\* Every one of the paths is in their sequence, once.
LEMMA Ordered ==
  ASSUME NEW ps \in SUBSET Paths
  PROVE  /\ InOrder(ps) \in Seq(ps)
         /\ \A p \in ps : \E n \in DOMAIN InOrder(ps) : InOrder(ps)[n] = p
         /\ Once(InOrder(ps))
         /\ DOMAIN InOrder(ps) = 1..Cardinality(ps)
         /\ \A m, n \in DOMAIN InOrder(ps) : m < n => Precedes(InOrder(ps)[m], InOrder(ps)[n])
<1> DEFINE N == Cardinality(ps)
           rank == [p \in ps |-> Cardinality(UpTo(p, ps))]
<1>1. IsFiniteSet(ps) /\ N \in Nat
  BY PathOrder, FS_Subset, FS_CardinalityType
<1>2. ASSUME NEW p \in ps
      PROVE  IsFiniteSet(UpTo(p, ps)) /\ rank[p] \in 1..N
  <2>1. UpTo(p, ps) \in SUBSET ps /\ UpTo(p, ps) # {}
    BY DEF UpTo
  <2>2. /\ IsFiniteSet(UpTo(p, ps)) /\ Cardinality(UpTo(p, ps)) <= N
        /\ Cardinality(UpTo(p, ps)) \in Nat /\ Cardinality(UpTo(p, ps)) # 0
    BY <1>1, <2>1, FS_Subset, FS_CardinalityType, FS_EmptySet
  <2>3. QED
    BY <1>1, <2>2
<1>3. ASSUME NEW p \in ps, NEW q \in ps, Precedes(p, q)
      PROVE  rank[p] < rank[q]
  <2>1. UpTo(p, ps) \in SUBSET UpTo(q, ps) /\ q \in UpTo(q, ps)
    BY <1>3, PathOrder DEF UpTo
  <2>2. q \notin UpTo(p, ps)
    BY <1>3, PathOrder DEF UpTo
  <2>3. UpTo(p, ps) # UpTo(q, ps)
    BY <2>1, <2>2
  <2>4. /\ Cardinality(UpTo(p, ps)) <= Cardinality(UpTo(q, ps))
        /\ Cardinality(UpTo(p, ps)) # Cardinality(UpTo(q, ps))
    BY <1>2, <2>1, <2>3, FS_Subset
  <2>5. Cardinality(UpTo(p, ps)) \in Int /\ Cardinality(UpTo(q, ps)) \in Int
    BY <1>2
  <2>6. QED
    BY <2>4, <2>5
<1>4. ASSUME NEW p \in ps, NEW q \in ps, rank[p] = rank[q]
      PROVE  p = q
  <2> HIDE DEF rank, N
  <2>1. rank[p] \in Int /\ rank[q] \in Int
    BY <1>2
  <2>2. QED
    BY <1>3, <1>4, <2>1, PathOrder
<1>5. ASSUME NEW k \in 1..N
      PROVE  \E p \in ps : rank[p] = k
  <2> SUFFICES ASSUME \A p \in ps : rank[p] # k PROVE FALSE
    OBVIOUS
  <2>1. /\ IsFiniteSet((1..N) \ {k})
        /\ Cardinality((1..N) \ {k}) < Cardinality(ps)
    <3>1. IsFiniteSet(1..N) /\ Cardinality(1..N) = N
      BY <1>1, <1>5, FS_Interval
    <3>2. IsFiniteSet((1..N) \ {k}) /\ Cardinality((1..N) \ {k}) = N - 1
      <4> HIDE DEF N
      <4>1. QED
        BY <1>5, <3>1, FS_RemoveElement
    <3>3. QED
      BY <1>1, <3>2
  <2>2. rank \in [ps -> (1..N) \ {k}]
    BY <1>2
  <2>3. \E p, q \in ps : p # q /\ rank[p] = rank[q]
    <3> HIDE DEF rank, N
    <3>1. QED
      BY <1>1, <2>1, <2>2, FS_PigeonHole
  <2>4. QED
    BY <1>4, <2>3
<1> DEFINE s == InOrder(ps)
<1>6. /\ DOMAIN s = 1..N
      /\ \A k \in 1..N : s[k] \in ps /\ rank[s[k]] = k
  <2>1. \A k \in 1..N : s[k] = CHOOSE p \in ps : Cardinality(UpTo(p, ps)) = k
    BY DEF InOrder
  <2>2. QED
    BY <1>5, <2>1 DEF InOrder
<1>7. s \in [1..N -> ps]
  BY <1>6 DEF InOrder
<1>8. s \in Seq(ps)
  BY <1>1, <1>7, SeqDef
<1>9. \A p \in ps : s[rank[p]] = p
  BY <1>2, <1>4, <1>6
<1>10. ASSUME NEW m \in 1..N, NEW n \in 1..N, m < n
       PROVE  Precedes(s[m], s[n])
  <2>1. s[m] \in ps /\ s[n] \in ps /\ rank[s[m]] = m /\ rank[s[n]] = n
    BY <1>6
  <2> HIDE DEF rank, s, N
  <2>2. ~(rank[s[n]] < rank[s[m]]) /\ rank[s[m]] # rank[s[n]]
    BY <1>1, <1>10, <2>1
  <2>3. ~Precedes(s[n], s[m]) /\ s[m] # s[n]
    BY <1>3, <2>1, <2>2
  <2>4. QED
    BY <2>1, <2>3, PathOrder
<1>11. QED
  <2> HIDE DEF rank
  <2>1. QED
    BY <1>2, <1>6, <1>8, <1>9, <1>10 DEF Once

\* There is one task for each of the paths.
LEMMA TasksAre ==
  ASSUME NEW pass \in Passes, NEW ps \in SUBSET Paths
  PROVE  /\ Tasks(pass, ps) \in Seq(TaskState) /\ Once(Tasks(pass, ps))
         /\ Elements(Tasks(pass, ps)) = {Task(pass, p) : p \in ps}
<1> DEFINE s == InOrder(ps)
           t == Tasks(pass, ps)
<1>1. /\ s \in Seq(ps) /\ Once(s)
      /\ \A p \in ps : \E n \in DOMAIN s : s[n] = p
  BY Ordered
<1>2. /\ DOMAIN t = DOMAIN s /\ DOMAIN s = 1..Len(s) /\ Len(s) \in Nat
      /\ \A n \in DOMAIN s : s[n] \in ps /\ t[n] = Task(pass, s[n])
  <2>1. t = [n \in DOMAIN s |-> Task(pass, s[n])]
    BY DEF Tasks
  <2> HIDE DEF s, t
  <2>2. QED
    BY <1>1, <2>1
<1>3. \A p, q \in Paths : /\ Task(pass, p) \in TaskState
                          /\ Task(pass, p) = Task(pass, q) => p = q
  BY DEF Task, TaskState
<1>4. t \in Seq(TaskState)
  <2>1. t \in [1..Len(s) -> TaskState]
    <3>1. t = [n \in DOMAIN s |-> Task(pass, s[n])]
      BY DEF Tasks
    <3> HIDE DEF s, t
    <3>2. QED
      BY <1>2, <1>3, <3>1
  <2>2. QED
    BY <1>2, <2>1, SeqDef
<1>5. Once(t)
  <2> HIDE DEF s, t
  <2>1. QED
    BY <1>1, <1>2, <1>3 DEF Once
<1>6. Elements(t) = {Task(pass, p) : p \in ps}
  <2> HIDE DEF s, t
  <2>1. QED
    BY <1>1, <1>2 DEF Elements
<1>7. QED
  BY <1>4, <1>5, <1>6

\* What is put in front of a sequence.
LEMMA Joined ==
  ASSUME NEW S, NEW s \in Seq(S), NEW t \in Seq(S)
  PROVE  /\ s \o t \in Seq(S) /\ Elements(s \o t) = Elements(s) \cup Elements(t)
         /\ Once(s) /\ Once(t) /\ Elements(s) \cap Elements(t) = {} => Once(s \o t)
<1> DEFINE j == s \o t
<1>1. /\ j \in Seq(S) /\ Len(j) = Len(s) + Len(t)
      /\ \A n \in 1..(Len(s) + Len(t)) : j[n] = IF n <= Len(s) THEN s[n] ELSE t[n - Len(s)]
  BY ConcatProperties
<1>2. /\ DOMAIN s = 1..Len(s) /\ DOMAIN t = 1..Len(t) /\ DOMAIN j = 1..(Len(s) + Len(t))
      /\ Len(s) \in Nat /\ Len(t) \in Nat
  BY <1>1
<1> HIDE DEF j
<1>3. /\ \A n \in DOMAIN s : n \in DOMAIN j /\ j[n] = s[n]
      /\ \A n \in DOMAIN t : n + Len(s) \in DOMAIN j /\ j[n + Len(s)] = t[n]
      /\ \A n \in DOMAIN j : \/ n \in DOMAIN s /\ j[n] = s[n]
                             \/ n - Len(s) \in DOMAIN t /\ j[n] = t[n - Len(s)]
  BY <1>1, <1>2
<1>4. Elements(j) = Elements(s) \cup Elements(t)
  BY <1>3 DEF Elements
<1>5. Once(s) /\ Once(t) /\ Elements(s) \cap Elements(t) = {} => Once(j)
  <2> SUFFICES ASSUME Once(s), Once(t), Elements(s) \cap Elements(t) = {},
                      NEW m \in DOMAIN j, NEW n \in DOMAIN j, j[m] = j[n]
               PROVE  m = n
    BY DEF Once
  <2>1. m \in Int /\ n \in Int
    BY <1>2
  <2>2. \A k \in DOMAIN s, l \in DOMAIN t : s[k] # t[l]
    BY DEF Elements
  <2>3. \/ m \in DOMAIN s /\ n \in DOMAIN s /\ s[m] = s[n]
        \/ m - Len(s) \in DOMAIN t /\ n - Len(s) \in DOMAIN t /\ t[m - Len(s)] = t[n - Len(s)]
    BY <1>3, <2>2
  <2>4. m = n \/ m - Len(s) = n - Len(s)
    BY <2>3 DEF Once
  <2>5. QED
    BY <1>2, <2>1, <2>4
<1>6. QED
  BY <1>1, <1>4, <1>5 DEF j

\* What is taken from a sequence.
LEMMA First ==
  ASSUME NEW S, NEW s \in Seq(S), s # <<>>
  PROVE  /\ Head(s) \in S /\ Tail(s) \in Seq(S)
         /\ Elements(s) = {Head(s)} \cup Elements(Tail(s))
         /\ Once(s) => Once(Tail(s)) /\ Head(s) \notin Elements(Tail(s))
<1> DEFINE t == Tail(s)
<1>1. /\ Head(s) \in S /\ t \in Seq(S) /\ Len(t) = Len(s) - 1
      /\ \A i \in 1..Len(t) : t[i] = s[i + 1]
  BY HeadTailProperties
<1>2. /\ DOMAIN s = 1..Len(s) /\ DOMAIN t = 1..Len(t) /\ Len(s) \in Nat \ {0}
      /\ Head(s) = s[1]
  BY <1>1
<1> HIDE DEF t
<1>3. /\ 1 \in DOMAIN s
      /\ \A n \in DOMAIN t : n + 1 \in DOMAIN s /\ n + 1 # 1 /\ t[n] = s[n + 1]
      /\ \A n \in DOMAIN s : n = 1 \/ (n - 1 \in DOMAIN t /\ s[n] = t[n - 1])
  <2>1. ASSUME NEW n \in DOMAIN s, n # 1
        PROVE  n - 1 \in DOMAIN t /\ s[n] = t[n - 1]
    <3>1. n - 1 \in 1..Len(t) /\ n - 1 + 1 = n
      BY <1>1, <1>2, <2>1
    <3>2. t[n - 1] = s[n - 1 + 1]
      BY <1>1, <3>1
    <3>3. QED
      BY <1>2, <3>1, <3>2
  <2>2. QED
    BY <1>1, <1>2, <2>1
<1>4. Elements(s) = {Head(s)} \cup Elements(t)
  BY <1>2, <1>3 DEF Elements
<1>5. Once(s) => Once(t) /\ Head(s) \notin Elements(t)
  <2>1. \A m, n \in DOMAIN t : m \in Int /\ n \in Int /\ (m + 1 = n + 1 => m = n)
    BY <1>1, <1>2
  <2>2. Once(s) => Once(t)
    BY <1>3, <2>1 DEF Once
  <2>3. ASSUME Once(s), NEW n \in DOMAIN t, t[n] = Head(s)
        PROVE  FALSE
    <3>1. n + 1 \in DOMAIN s /\ n + 1 # 1 /\ s[n + 1] = s[1]
      BY <1>2, <1>3, <2>3
    <3>2. QED
      BY <1>3, <2>3, <3>1 DEF Once
  <2>4. QED
    BY <2>2, <2>3 DEF Elements
<1>6. QED
  BY <1>1, <1>4, <1>5 DEF t

-----------------------------------------------------------------------------
(* Other programs.                                                         *)
\* What an object is, or what is at a path, changes with a stamp that no revision
\* has, or on a coarse host without one.
HostMoves ==
  /\ names' \in [Paths -> Inodes \cup {None}] /\ inode' \in [Inodes -> Nodes]
  /\ unused' \subseteq unused /\ clock' \in Nat /\ clock <= clock' /\ fine' = fine
  /\ IsTree'
  /\ \A i \in Inodes \ unused :
       \/ inode'[i].stamp = inode[i].stamp /\ (fine => inode'[i] = inode[i])
       \/ inode'[i].stamp > clock
  /\ \A p \in Paths :
       \/ names'[p] = None
       \/ /\ names'[p] = names[p]
          /\ fine /\ inode'[names[p]].stamp = inode[names[p]].stamp => Children(p)' = Children(p)
       \/ names'[p] \in unused /\ inode'[names'[p]].stamp > clock

\* The front of a path is shorter.
LEMMA FrontDiffers ==
  ASSUME NEW p \in Paths, p # Root
  PROVE  Front(p) \in Paths /\ Front(p) # p
<1>1. p \in Seq(Names) /\ Len(p) \in Nat \ {0} /\ Front(p) \in Paths
  BY PathParts DEF Root
<1>2. \A i \in 1..(Len(p) - 1) : p[i] \in Names
  BY <1>1, ElementOfSeq
<1>3. \A k \in Nat \ {0} : /\ k - 1 \in Int
                           /\ (IF 1 <= k - 1 THEN k - 1 - 1 + 1 ELSE 0) = k - 1
                           /\ k - 1 # k
  OBVIOUS
<1>4. Len(SubSeq(p, 1, Len(p) - 1)) = IF 1 <= Len(p) - 1 THEN Len(p) - 1 - 1 + 1 ELSE 0
  BY <1>1, <1>2, <1>3, SubSeqProperties
<1>5. Len(Front(p)) # Len(p)
  BY <1>1, <1>3, <1>4 DEF Front
<1>6. QED
  BY <1>1, <1>5

\* A file is written.
LEMMA WriteMoves ==
  ASSUME TypeOK, IsTree, NEW p \in Paths, Write(p)
  PROVE  HostMoves
<1> DEFINE i == names[p]
<1>1. /\ i \in Inodes \ unused /\ inode[i] \in Nodes /\ inode[i].kind = "file"
      /\ inode[i].stamp <= clock /\ clock \in Nat
  BY NoneAssumption DEF Write, TypeOK, IsTree, IsNode, Node
<1>2. /\ UNCHANGED <<names, unused, fine>> /\ clock' = clock + 1
  BY DEF Write, Changing
<1>3. PICK data \in Contents, s \in Stamps(Node(p).stamp) :
        inode' = [inode EXCEPT ![i].data = data, ![i].stamp = s]
  BY DEF Write
<1>4. data \in Seq(Units)
  <2>1. PICK n \in 0..MaxFileUnits : data \in [1..n -> Units]
    BY DEF Contents
  <2>2. n \in Nat
    BY MaxFileUnitsAssumption
  <2>3. QED
    BY <2>1, <2>2, SeqDef
<1>5. s \in Nat /\ (fine => s = clock + 1) /\ (s = inode[i].stamp \/ s = clock + 1)
  BY <1>1 DEF Stamps, Node, Nodes
<1>6. PICK node : node = [[inode[i] EXCEPT !.data = data] EXCEPT !.stamp = s]
  OBVIOUS
<1>7. node \in Nodes /\ node.kind = "file" /\ node.stamp = s
  BY <1>1, <1>4, <1>5, <1>6 DEF Nodes
<1>8. /\ inode' \in [Inodes -> Nodes] /\ inode'[i] = node
      /\ \A j \in Inodes \ {i} : inode'[j] = inode[j]
  <2>1. inode' = [inode EXCEPT ![i] = node]
    BY <1>1, <1>3, <1>6 DEF TypeOK
  <2>2. QED
    BY <1>1, <1>7, <2>1 DEF TypeOK
<1> HIDE DEF i
<1>9. \A q \in Paths : names[q] = i => q = p
  BY <1>1, NoneAssumption DEF IsTree, i
<1>10. ASSUME NEW q \in Paths, names'[q] # None
       PROVE  IsNode(q)'
  <2>1. IsNode(q) /\ names[q] \in Inodes
    BY <1>2, <1>10 DEF IsTree, TypeOK
  <2>2. \A r \in Paths : names[r] \in Inodes =>
          Node(r)'.kind = Node(r).kind
    BY <1>1, <1>2, <1>7, <1>8 DEF Node
  <2>3. q # Root => Front(q) \in Paths /\ names[Front(q)] \in Inodes
    BY <2>1, FrontDiffers DEF IsNode, TypeOK
  <2>4. CASE names[q] = i
    <3>1. Node(q)' = node /\ Node(q) = inode[i]
      BY <1>2, <1>8, <2>4 DEF Node
    <3>2. node.stamp \in 1..clock'
      BY <1>1, <1>2, <1>5, <1>7, <2>1, <3>1 DEF IsNode
    <3>3. QED
      BY <1>2, <1>7, <2>1, <2>2, <2>3, <3>1, <3>2 DEF IsNode, Kinds
  <2>5. CASE names[q] # i
    <3>1. Node(q)' = Node(q)
      BY <1>2, <1>8, <2>1, <2>5 DEF Node
    <3>2. QED
      BY <1>1, <1>2, <2>1, <2>2, <2>3, <3>1 DEF IsNode
  <2>6. QED
    BY <2>4, <2>5
<1>11. IsTree'
  BY <1>2, <1>10 DEF IsTree
<1>12. \A q \in Paths : Children(q)' = Children(q)
  BY <1>2 DEF Children
<1>13. \A j \in Inodes \ unused :
          \/ inode'[j].stamp = inode[j].stamp /\ (fine => inode'[j] = inode[j])
          \/ inode'[j].stamp > clock
  BY <1>1, <1>5, <1>7, <1>8
<1>14. names' \in [Paths -> Inodes \cup {None}] /\ clock' \in Nat /\ clock <= clock'
  BY <1>1, <1>2 DEF TypeOK
<1>15. QED
  BY <1>2, <1>8, <1>11, <1>12, <1>13, <1>14 DEF HostMoves

\* The directory of a path has a new stamp, where stamps are fine.
LEMMA TouchedIs ==
  ASSUME TypeOK, IsTree, NEW p \in Paths, p # Root => names[Front(p)] # None,
         NEW nodes \in [Inodes -> Nodes], Touched(p, nodes),
         p # Root => nodes[names[Front(p)]] = inode[names[Front(p)]]
  PROVE  /\ inode' \in [Inodes -> Nodes] /\ clock' = clock + 1
         /\ \A i \in Inodes : p = Root \/ i # names[Front(p)] => inode'[i] = nodes[i]
         /\ \A i \in Inodes : inode'[i].kind = nodes[i].kind /\ inode'[i].data = nodes[i].data
         /\ p # Root => LET i == names[Front(p)] IN
              /\ i \in Inodes \ unused
              /\ inode'[i].stamp \in 1..(clock + 1)
              /\ fine => inode'[i].stamp = clock + 1
              /\ inode'[i].stamp # inode[i].stamp => inode'[i].stamp = clock + 1
<1>1. CASE p = Root
  BY <1>1 DEF Touched
<1>2. CASE p # Root
  <2> DEFINE i == names[Front(p)]
  <2>1. /\ i \in Inodes \ unused /\ inode[i] \in Nodes /\ inode[i].stamp \in 1..clock
        /\ clock \in Nat /\ nodes[i] = inode[i]
    BY <1>2, FrontDiffers, NoneAssumption DEF TypeOK, IsTree, IsNode, Node
  <2>2. PICK s \in Stamps(Node(Front(p)).stamp) :
          inode' = [nodes EXCEPT ![i].stamp = s]
    BY <1>2 DEF Touched
  <2>3. s \in 1..(clock + 1) /\ (fine => s = clock + 1) /\ (s # inode[i].stamp => s = clock + 1)
    BY <2>1 DEF Stamps, Node
  <2>4. PICK node : node = [nodes[i] EXCEPT !.stamp = s]
    OBVIOUS
  <2>5. /\ node \in Nodes /\ node.stamp = s /\ node.kind = nodes[i].kind
        /\ node.data = nodes[i].data
    <3>1. s \in Nat /\ nodes[i] \in Nodes
      BY <2>1, <2>3
    <3> HIDE DEF i
    <3>2. QED
      BY <2>4, <3>1 DEF Nodes
  <2>6. inode' = [nodes EXCEPT ![i] = node]
    BY <2>1, <2>2, <2>4
  <2> HIDE DEF i
  <2>7. /\ inode' \in [Inodes -> Nodes] /\ inode'[i] = node
        /\ \A j \in Inodes \ {i} : inode'[j] = nodes[j]
    BY <2>1, <2>5, <2>6
  <2>8. clock' = clock + 1
    BY <1>2 DEF Touched
  <2>9. QED
    BY <1>2, <2>1, <2>3, <2>5, <2>7, <2>8 DEF i
<1>3. QED
  BY <1>1, <1>2

\* What leads to a path is there when the path is: what is removed is removed
\* with all that is below it, and the directory it was in has changed.
LEMMA UnlinkMoves ==
  ASSUME TypeOK, IsTree, NEW p \in Paths, Unlink(p)
  PROVE  HostMoves
<1>1. /\ names[p] # None /\ IsNode(p) /\ UNCHANGED <<unused, fine>> /\ clock \in Nat
      /\ names' = [q \in Paths |-> IF p \in Components(q) THEN None ELSE names[q]]
      /\ Touched(p, inode) /\ inode \in [Inodes -> Nodes]
  BY DEF Unlink, Changing, IsTree, TypeOK
<1>2. p # Root => Front(p) \in Paths /\ names[Front(p)] # None
  BY <1>1, FrontDiffers DEF IsNode
<1>3. /\ inode' \in [Inodes -> Nodes] /\ clock' = clock + 1
      /\ \A i \in Inodes : p = Root \/ i # names[Front(p)] => inode'[i] = inode[i]
      /\ \A i \in Inodes : inode'[i].kind = inode[i].kind /\ inode'[i].data = inode[i].data
      /\ p # Root => LET i == names[Front(p)] IN
           /\ i \in Inodes \ unused
           /\ inode'[i].stamp \in 1..(clock + 1)
           /\ fine => inode'[i].stamp = clock + 1
           /\ inode'[i].stamp # inode[i].stamp => inode'[i].stamp = clock + 1
  BY <1>1, <1>2, TouchedIs
<1>4. /\ names' \in [Paths -> Inodes \cup {None}]
      /\ \A q \in Paths : names'[q] = IF p \in Components(q) THEN None ELSE names[q]
  BY <1>1 DEF TypeOK
<1>5. ASSUME NEW q \in Paths, names'[q] # None
      PROVE  IsNode(q)'
  <2>1. names'[q] = names[q] /\ p \notin Components(q) /\ IsNode(q) /\ names[q] \in Inodes
    BY <1>4, <1>5 DEF IsTree, TypeOK
  <2>2. q # Root => /\ Front(q) \in Paths /\ p \notin Components(Front(q))
                    /\ names'[Front(q)] = names[Front(q)] /\ names[Front(q)] \in Inodes
    BY <1>4, <2>1, PathParts DEF IsNode, TypeOK
  <2>3. inode'[names[q]].stamp \in 1..clock'
    <3>1. CASE p = Root \/ names[q] # names[Front(p)]
      BY <1>1, <1>3, <2>1, <3>1 DEF IsNode, Node
    <3>2. CASE p # Root /\ names[q] = names[Front(p)]
      BY <1>3, <3>2
    <3>3. QED
      BY <3>1, <3>2
  <2>4. QED
    BY <1>1, <1>3, <2>1, <2>2, <2>3 DEF IsNode, Node
<1>6. IsTree'
  BY <1>4, <1>5 DEF IsTree
<1>7. \A i \in Inodes \ unused :
         \/ inode'[i].stamp = inode[i].stamp /\ (fine => inode'[i] = inode[i])
         \/ inode'[i].stamp > clock
  BY <1>1, <1>3
<1>8. ASSUME NEW q \in Paths, names'[q] # None
      PROVE  /\ names'[q] = names[q]
             /\ fine /\ inode'[names[q]].stamp = inode[names[q]].stamp =>
                  Children(q)' = Children(q)
  <2>1. names'[q] = names[q] /\ p \notin Components(q) /\ IsNode(q) /\ names[q] \in Inodes
    BY <1>4, <1>8 DEF IsTree, TypeOK
  <2> SUFFICES ASSUME fine, inode'[names[q]].stamp = inode[names[q]].stamp
               PROVE  Children(q)' = Children(q)
    BY <2>1
  <2>2. \A r \in Paths : r # Root /\ Front(r) = q /\ p \in Components(r) => r = p
    BY <2>1, PathParts
  <2>3. inode[names[q]].stamp <= clock /\ inode[names[q]].stamp \in Nat
    BY <1>1, <2>1 DEF IsNode, Node
  <2>4. p # Root => Front(p) # q
    BY <1>1, <1>3, <2>3
  <2>5. \A r \in Paths : r # Root /\ Front(r) = q => names'[r] = names[r]
    BY <1>4, <2>2, <2>4
  <2>6. QED
    BY <2>5 DEF Children
<1>9. QED
  BY <1>1, <1>3, <1>4, <1>6, <1>7, <1>8 DEF HostMoves

\* What is created is an object that was not used, at a path with nothing below.
LEMMA CreateMoves ==
  ASSUME TypeOK, IsTree, NEW p \in Paths, Create(p)
  PROVE  HostMoves
<1>1. /\ p # Root => names[Front(p)] # None /\ Node(Front(p)).kind = "directory"
      /\ Children(p) = {} /\ UNCHANGED fine /\ clock \in Nat
      /\ inode \in [Inodes -> Nodes] /\ unused \subseteq Inodes
      /\ names \in [Paths -> Inodes \cup {None}]
  BY DEF Create, Changing, TypeOK
<1>2. PICK i \in unused, kind \in {"file", "directory", "other"},
           data \in {<<>>} \cup [1..1 -> Units] :
       /\ (kind = "file") = (data # <<>>)
       /\ names' = [names EXCEPT ![p] = i]
       /\ unused' = unused \ {i}
       /\ Touched(p, [inode EXCEPT ![i] = [kind |-> kind, stamp |-> clock + 1, data |-> data]])
  BY DEF Create
<1>3. PICK node : node = [kind |-> kind, stamp |-> clock + 1, data |-> data]
  OBVIOUS
<1>4. node \in Nodes /\ node.kind = kind /\ node.data = data /\ node.stamp = clock + 1
  <2>1. <<>> \in Seq(Units) /\ \A d \in [1..1 -> Units] : d \in Seq(Units)
    <3>1. <<>> \in Seq(Units)
      OBVIOUS
    <3>2. 1 \in Nat /\ Seq(Units) = UNION {[1..n -> Units] : n \in Nat}
      BY SeqDef
    <3>3. [1..1 -> Units] \subseteq Seq(Units)
      BY <3>2, Zenon
    <3>4. QED
      BY <3>1, <3>3
  <2>2. data \in Seq(Units)
    BY <2>1
  <2>3. QED
    BY <1>1, <1>3, <2>2 DEF Nodes, Kinds
<1>5. PICK nodes : nodes = [inode EXCEPT ![i] = node]
  OBVIOUS
<1>6. /\ nodes \in [Inodes -> Nodes] /\ nodes[i] = node
      /\ \A j \in Inodes \ {i} : nodes[j] = inode[j]
  BY <1>1, <1>2, <1>4, <1>5
<1>7. p # Root => /\ Front(p) \in Paths /\ Front(p) # p /\ names[Front(p)] \in Inodes
                  /\ names[Front(p)] \notin unused
  BY <1>1, FrontDiffers DEF IsTree, IsNode
<1>8. /\ inode' \in [Inodes -> Nodes] /\ clock' = clock + 1
      /\ \A j \in Inodes : p = Root \/ j # names[Front(p)] => inode'[j] = nodes[j]
      /\ \A j \in Inodes : inode'[j].kind = nodes[j].kind /\ inode'[j].data = nodes[j].data
      /\ p # Root => LET j == names[Front(p)] IN
           /\ j \in Inodes \ unused
           /\ inode'[j].stamp \in 1..(clock + 1)
           /\ fine => inode'[j].stamp = clock + 1
           /\ inode'[j].stamp # inode[j].stamp => inode'[j].stamp = clock + 1
  <2>1. Touched(p, nodes)
    BY <1>2, <1>3, <1>5
  <2>2. p # Root => nodes[names[Front(p)]] = inode[names[Front(p)]]
    BY <1>2, <1>6, <1>7
  <2>3. QED
    BY <1>1, <1>6, <2>1, <2>2, TouchedIs
<1>9. /\ names' \in [Paths -> Inodes \cup {None}] /\ names'[p] = i
      /\ \A q \in Paths \ {p} : names'[q] = names[q]
  BY <1>1, <1>2
<1>10. inode'[i] = node /\ node.stamp > clock /\ i \in Inodes
  BY <1>1, <1>2, <1>4, <1>6, <1>7, <1>8
<1>11. ASSUME NEW q \in Paths, q # p, names'[q] # None
       PROVE  IsNode(q)'
  <2>1. names'[q] = names[q] /\ IsNode(q) /\ names[q] \in Inodes \ unused
    BY <1>1, <1>9, <1>11 DEF IsTree, IsNode
  <2>2. q # Root => /\ Front(q) \in Paths /\ Front(q) # p
                    /\ names'[Front(q)] = names[Front(q)]
                    /\ names[Front(q)] \in Inodes \ unused
    <3>1. q # Root => Front(q) \in Paths /\ names[Front(q)] # None
      BY <2>1, FrontDiffers DEF IsNode
    <3>2. q # Root => Front(q) # p
      BY <1>1, <1>11, <2>1 DEF Children
    <3>3. QED
      BY <1>1, <1>9, <3>1, <3>2 DEF IsTree, IsNode
  <2>3. \A j \in Inodes \ unused : inode'[j].kind = inode[j].kind /\ inode'[j].data = inode[j].data
    BY <1>2, <1>6, <1>8
  <2>4. inode'[names[q]].stamp \in 1..clock'
    <3>1. CASE p = Root \/ names[q] # names[Front(p)]
      BY <1>1, <1>2, <1>6, <1>8, <2>1, <3>1 DEF IsNode, Node
    <3>2. CASE p # Root /\ names[q] = names[Front(p)]
      BY <1>8, <3>2
    <3>3. QED
      BY <3>1, <3>2
  <2>5. QED
    BY <1>2, <2>1, <2>2, <2>3, <2>4 DEF IsNode, Node
<1>12. IsNode(p)'
  <2>1. Node(p)' = node
    BY <1>9, <1>10 DEF Node
  <2>2. p # Root => names'[Front(p)] # None /\ Node(Front(p))'.kind = "directory"
    BY <1>1, <1>2, <1>6, <1>7, <1>8, <1>9, NoneAssumption DEF Node
  <2>3. node.stamp \in 1..clock'
    BY <1>1, <1>4, <1>8
  <2>4. QED
    BY <1>2, <1>4, <1>9, <2>1, <2>2, <2>3 DEF IsNode, Kinds
<1>13. IsTree'
  <2>1. \A q \in Paths : names[q] # i
    BY <1>2, <1>10, NoneAssumption DEF IsTree, IsNode
  <2>2. \A q, r \in Paths : names'[q] = names'[r] => q = r \/ names'[q] = None
    BY <1>9, <2>1 DEF IsTree
  <2>3. QED
    BY <1>11, <1>12, <2>2 DEF IsTree
<1>14. \A j \in Inodes \ unused :
          \/ inode'[j].stamp = inode[j].stamp /\ (fine => inode'[j] = inode[j])
          \/ inode'[j].stamp > clock
  BY <1>1, <1>2, <1>6, <1>8
<1>15. ASSUME NEW q \in Paths, q # p, names[q] # None, fine,
              inode'[names[q]].stamp = inode[names[q]].stamp
       PROVE  Children(q)' = Children(q)
  <2>1. inode[names[q]].stamp <= clock /\ inode[names[q]].stamp \in Nat
    BY <1>1, <1>15 DEF IsTree, IsNode, Node
  <2>2. p # Root => Front(p) # q
    BY <1>1, <1>8, <1>15, <2>1
  <2>3. \A r \in Paths : r # Root /\ Front(r) = q => names'[r] = names[r]
    BY <1>9, <2>2
  <2>4. QED
    BY <2>3 DEF Children
<1>16. QED
  BY <1>1, <1>2, <1>8, <1>9, <1>10, <1>13, <1>14, <1>15 DEF HostMoves

\* What a call has gathered from an object is still right while the stamp is.
LEMMA WatchedStays ==
  ASSUME TypeOK, HostMoves, NEW k \in CallState, Watched(k)
  PROVE  Watched(k)'
<1>1. ASSUME k.at \in Listed \cup Reading
      PROVE  k.rev \in Revisions /\ k.rev.ino \in Inodes \ unused
  BY <1>1 DEF Watched, Held, CallState, Revisions
<1>2. Held(k)'
  BY <1>1 DEF Watched, Held, HostMoves, Revisions, TypeOK
<1>3. ASSUME k.at \in Listed \cup Reading, Same(k)'
      PROVE  /\ Same(k) /\ inode'[k.rev.ino] = inode[k.rev.ino]
             /\ inode'[k.rev.ino].stamp = inode[k.rev.ino].stamp
  <2>1. k.rev.stamp <= clock /\ k.rev.stamp \in Nat /\ clock \in Nat
    BY <1>1, <1>3 DEF Watched, Held, TypeOK, Revisions
  <2>2. inode'[k.rev.ino].stamp = k.rev.stamp /\ fine
    BY <1>3 DEF Same, HostMoves
  <2>3. QED
    BY <1>1, <1>3, <2>1, <2>2 DEF Same, HostMoves
<1>4. ListingIs(k)'
  <2> SUFFICES ASSUME k.at \in Listed, Same(k)', names'[k.path] = k.rev.ino
               PROVE  /\ names[k.path] = k.rev.ino /\ Same(k)
                      /\ Children(k.path)' = Children(k.path)
    BY DEF Watched, ListingIs
  <2>1. /\ Same(k) /\ inode'[k.rev.ino].stamp = inode[k.rev.ino].stamp
        /\ k.rev.ino \in Inodes \ unused /\ k.path \in Paths /\ fine
    BY <1>1, <1>3 DEF CallState, Same
  <2>2. names'[k.path] # None /\ names'[k.path] \notin unused
    BY <2>1, NoneAssumption
  <2>3. QED
    BY <2>1, <2>2 DEF HostMoves
<1>5. ScanIs(k)'
  BY <1>3 DEF Watched, ScanIs
<1>6. QED
  BY <1>2, <1>4, <1>5 DEF Watched

\* What others do leaves the walks alone.
LEMMA OutsideKeeps == IInv /\ Outside => IInv'
<1> SUFFICES ASSUME IInv, Outside PROVE IInv'
  OBVIOUS
<1>1. UNCHANGED <<phase, call, todo, planned, sent, checked, began>>
  BY DEF Outside, Abort, MoveRoot, Write, Unlink, Create, Changing, books, history
<1>2. /\ Watched(call)' /\ IsTree'
      /\ names' \in [Paths -> Inodes \cup {None}] /\ inode' \in [Inodes -> Nodes]
      /\ unused' \subseteq Inodes /\ clock' \in Nat /\ fine' \in BOOLEAN
  <2>1. CASE HostMoves
    <3>1. PICK k \in CallState : k = call
      BY DEF IInv, TypeOK
    <3>2. Watched(k)'
      BY <2>1, <3>1, WatchedStays DEF IInv
    <3>3. call' = k
      BY <1>1, <3>1
    <3>4. Watched(call)'
      BY <3>2, <3>3 DEF Watched, Held, ListingIs, ScanIs, Same, Children
    <3>5. QED
      BY <2>1, <3>4 DEF HostMoves, IInv, TypeOK
  <2>2. CASE UNCHANGED <<names, inode, unused, clock, fine>>
    BY <1>1, <2>2 DEF IInv, TypeOK, Watched, Held, ListingIs, ScanIs, Same, Children, IsTree, IsNode, Node
  <2>3. QED
    BY <2>1, <2>2, WriteMoves, UnlinkMoves, CreateMoves
       DEF IInv, Outside, Abort, MoveRoot, Changing
<1>3. TypeOK'
  BY <1>1, <1>2 DEF IInv, TypeOK
<1>4. /\ Shape(call)' /\ Rooted' /\ PlanWalk' /\ StreamWalk' /\ VerifyWalk' /\ Afterwards'
  BY <1>1 DEF IInv, Shape, Rooted, PlanWalk, StreamWalk, VerifyWalk, Afterwards, PlanTasks, Ahead,
     Active, Fresh, Named, PlannedPaths, PlannedFiles, Whole, Sent, BeganTree, Awaited
<1>5. QED
  BY <1>2, <1>3, <1>4 DEF IInv

-----------------------------------------------------------------------------
(* Steps of the bridge leave the host alone.                               *)
LEMMA HostStays ==
  ASSUME UNCHANGED host
  PROVE  /\ IsTree => IsTree'
         /\ \A k : Watched(k) => Watched(k)'
         /\ \A p : Children(p)' = Children(p) /\ Node(p)' = Node(p) /\ Shown(p)' = Shown(p)
         /\ \A i : Fingerprint(i)' = Fingerprint(i)
BY DEF host, IsTree, IsNode, Node, Watched, Held, ListingIs, ScanIs, Same, Children, Shown, Fingerprint

\* The call that nobody makes, and the one a guarded call begins as.
LEMMA Resting ==
  /\ Rest \in CallState /\ Rest.at = "next" /\ Rest.handle = None /\ Shape(Rest) /\ Rest.bytes = <<>>
  /\ Watched(Rest)
<1>1. Root \in Paths
  BY PathsAssumption
<1>2. Rest \in CallState
  BY <1>1 DEF Rest, CallState, Steps, Passes, Guards
<1>3. /\ Rest.at = "next" /\ Rest.handle = None /\ Rest.seen = {} /\ Rest.due = {}
      /\ Rest.bytes = <<>>
  BY DEF Rest
<1>4. Shape(Rest) /\ Watched(Rest)
  BY <1>3 DEF Shape, Watched, Held, ListingIs, ScanIs, Listed, Reading
<1>5. QED
  BY <1>2, <1>3, <1>4

\* A call of the sweep begins with nothing in hand, and its guard is what it sees now.
LEMMA Calling ==
  ASSUME names \in [Paths -> Inodes \cup {None}],
         NEW at \in {"inspect", "list", "scan"} \cup Verifying, NEW p \in Paths,
         NEW pass \in Passes, NEW rev \in Revisions \cup {None}
  PROVE  LET k == Call(at, p, pass, rev) IN
         /\ k \in CallState /\ k.at = at /\ k.path = p /\ k.pass = pass /\ k.rev = rev
         /\ k.handle = None /\ k.bytes = <<>> /\ Shape(k) /\ Watched(k)
<1>1. PICK guard : guard = [q \in Components(p) |-> names[q]]
  OBVIOUS
<1>2. guard \in Guards
  <2>1. guard \in [Components(p) -> Inodes \cup {None}]
    BY <1>1, PathParts
  <2>2. QED
    BY <2>1 DEF Guards
<1>3. PICK k : k = Call(at, p, pass, rev)
  OBVIOUS
<1>4. k = [Rest EXCEPT !.at = at, !.path = p, !.pass = pass, !.rev = rev, !.guard = guard]
  BY <1>1, <1>3 DEF Call
<1>5. at \in Steps
  BY DEF Steps, Verifying
<1>6. k \in CallState
  BY <1>2, <1>4, <1>5, Resting DEF CallState
<1>7. k.at = at /\ k.path = p /\ k.pass = pass /\ k.rev = rev
  BY <1>4 DEF Rest
<1>8. k.handle = None /\ k.bytes = <<>> /\ k.seen = {} /\ k.due = {}
  BY <1>4 DEF Rest
<1>9. at \notin Listed \cup Reading \cup {"next"}
  BY DEF Listed, Reading, Verifying
<1>10. Shape(k) /\ Watched(k)
  BY <1>7, <1>8, <1>9 DEF Shape, Watched, Held, ListingIs, ScanIs
<1>11. QED
  BY <1>3, <1>6, <1>7, <1>8, <1>10

-----------------------------------------------------------------------------
(* Steps within a call.                                                    *)
Books == <<todo, planned, sent, checked, began>>

\* The call goes on, from r, at its path and with what it was made for.
LEMMA CallMoves ==
  ASSUME IInv, UNCHANGED host, UNCHANGED phase, UNCHANGED Books, Active,
         NEW r \in CallState, call' = r, r.at # "next", r.path = call.path, r.pass = call.pass,
         Shape(r), Watched(r),
         phase = "plan" => r.at \notin Verifying,
         phase = "stream" => /\ r.at \in {"scan"} \cup Reading \cup Unwinding
                             /\ r.bytes = call.bytes
                             /\ r.at = "close" => r.bytes = planned[r.path].data,
         phase = "verify" => /\ r.at \in {"list"} \cup Listed \cup Unwinding \cup Verifying
                             /\ r.at \in Verifying => r.rev = planned[r.path].rev
                             /\ r.at = "verifyFile" => planned[r.path].kind = "file"
  PROVE  IInv'
<1>1. /\ UNCHANGED <<names, inode, unused, clock, fine>>
      /\ UNCHANGED <<todo, planned, sent, checked, began>>
  BY DEF host, Books
<1>2. TypeOK'
  BY <1>1 DEF IInv, TypeOK
<1>3. IsTree' /\ Shape(call)' /\ Watched(call)'
  <2>1. IsTree' /\ Watched(r)'
    BY HostStays DEF IInv
  <2>2. Shape(call)'
    BY DEF Shape
  <2>3. Watched(call)'
    BY <2>1 DEF Watched, Held, ListingIs, ScanIs, Same, Children
  <2>4. QED
    BY <2>1, <2>2, <2>3
<1>4. Rooted' /\ PlannedPaths' = PlannedPaths /\ PlannedFiles' = PlannedFiles
  BY <1>1 DEF IInv, Rooted, PlannedPaths, PlannedFiles, Named
<1>5. Active' /\ Ahead' = Ahead
  BY <1>1 DEF Active, Ahead
<1>6. PlanWalk'
  <2> SUFFICES ASSUME phase = "plan" PROVE PlanWalk'
    BY DEF PlanWalk
  <2>1. PlanTasks'
    BY <1>1, <1>5 DEF IInv, PlanWalk, PlanTasks, Fresh, Named
  <2>2. QED
    BY <1>1, <1>4, <1>5, <2>1 DEF IInv, PlanWalk, Fresh, Named
<1>7. StreamWalk'
  <2> SUFFICES ASSUME phase = "stream" PROVE StreamWalk'
    BY DEF StreamWalk
  <2>1. Whole'
    BY <1>1, <1>4 DEF IInv, StreamWalk, Whole
  <2>2. QED
    BY <1>1, <1>4, <1>5, <2>1 DEF IInv, StreamWalk
<1>8. VerifyWalk'
  <2> SUFFICES ASSUME phase = "verify" PROVE VerifyWalk'
    BY DEF VerifyWalk
  <2>1. \A p : Awaited(p) => Awaited(p)'
    BY <1>5 DEF Awaited
  <2>2. QED
    BY <1>1, <1>4, <1>5, <2>1 DEF IInv, VerifyWalk
<1>9. Afterwards'
  BY <1>1, <1>4, <1>5 DEF IInv, Afterwards, Whole, Sent, BeganTree
<1>10. QED
  BY <1>2, <1>3, <1>4, <1>6, <1>7, <1>8, <1>9 DEF IInv

\* A failure drops the call.
LEMMA FailureKeeps ==
  ASSUME IInv, UNCHANGED host, UNCHANGED Books, phase' = "failed", call' = Rest
  PROVE  IInv'
<1>1. /\ UNCHANGED <<names, inode, unused, clock, fine>>
      /\ UNCHANGED <<todo, planned, sent, checked, began>>
  BY DEF host, Books
<1>2. TypeOK'
  BY <1>1, Resting DEF IInv, TypeOK
<1>3. IsTree' /\ Shape(call)' /\ Watched(call)'
  <2>1. IsTree' /\ Watched(Rest)'
    BY HostStays, Resting DEF IInv
  <2>2. Shape(call)' /\ ~Active'
    BY Resting DEF Shape, Active
  <2>3. Watched(call)'
    BY Resting DEF Watched, Held, ListingIs, ScanIs, Same, Children, Listed, Reading
  <2>4. QED
    BY <2>1, <2>2, <2>3
<1>4. Rooted'
  BY <1>1 DEF IInv, Rooted, PlannedPaths, Named
<1>5. PlanWalk' /\ StreamWalk' /\ VerifyWalk' /\ Afterwards'
  BY Resting DEF PlanWalk, StreamWalk, VerifyWalk, Afterwards, Active
<1>6. QED
  BY <1>2, <1>3, <1>4, <1>5 DEF IInv

\* A throw out of the call.
LEMMA ThrowKeeps ==
  ASSUME IInv, Active, NEW v, Throw(v)
  PROVE  IInv'
<1>1. UNCHANGED host /\ UNCHANGED Books
  BY DEF Throw, Books, books, history
<1>2. CASE call.handle = None
  BY <1>1, <1>2, FailureKeeps DEF Throw
<1>3. CASE call.handle # None
  <2>1. PICK r : r = [call EXCEPT !.at = IF Listing THEN "unwindListing" ELSE "unwind"]
    OBVIOUS
  <2>2. call' = r /\ UNCHANGED phase
    BY <1>3, <2>1 DEF Throw
  <2>3. /\ r \in CallState /\ r.at \in Unwinding /\ r.path = call.path /\ r.pass = call.pass
        /\ r.bytes = call.bytes /\ r.seen = call.seen /\ r.due = call.due
    BY <2>1 DEF IInv, TypeOK, CallState, Steps, Unwinding
  <2>4. r.at \notin Listed \cup Reading \cup Verifying \cup {"next", "close", "list", "opendir", "scan"}
    BY <2>3 DEF Listed, Reading, Verifying, Unwinding
  <2>5. Shape(r) /\ Watched(r)
    BY <2>3, <2>4 DEF IInv, Shape, Watched, Held, ListingIs, ScanIs
  <2>6. r.at # "verifyFile" /\ r.at # "close"
    BY <2>4 DEF Verifying
  <2>7. QED
    BY <1>1, <2>2, <2>3, <2>4, <2>5, <2>6, CallMoves
<1>4. QED
  BY <1>2, <1>3

-----------------------------------------------------------------------------
(* What the bridge knows at each step.                                     *)
LEMMA ActiveFacts ==
  ASSUME IInv, Active
  PROVE  /\ phase \in {"plan", "stream", "verify"}
         /\ call \in CallState /\ call.path \in Paths /\ call.pass \in Passes
         /\ phase = "plan" => call.pass = "plan" /\ call.at \notin Verifying
         /\ phase = "stream" => /\ call.pass = "stream" /\ call.path \in PlannedFiles
                                /\ call.at \in {"scan"} \cup Reading \cup Unwinding
         /\ phase = "verify" => /\ call.pass \in {"verify", "recheck"}
                                /\ call.path \in PlannedPaths
                                /\ call.at \in {"list"} \cup Listed \cup Unwinding \cup Verifying
BY DEF IInv, TypeOK, CallState, Afterwards, PlanWalk, StreamWalk, VerifyWalk

\* The fingerprint of what is at a path.
LEMMA FingerprintIs ==
  ASSUME TypeOK, IsTree, NEW p \in Paths, names[p] # None
  PROVE  LET r == Fingerprint(names[p]) IN
         /\ names[p] \in Inodes \ unused
         /\ r \in Revisions /\ r # None /\ r.ino = names[p] /\ r.kind = Node(p).kind
         /\ r.stamp = Node(p).stamp /\ r.stamp <= clock /\ r.stamp \in Nat \ {0}
         /\ r.size = Len(Node(p).data)
<1>1. /\ names[p] \in Inodes \ unused /\ IsNode(p) /\ Node(p) \in Nodes /\ clock \in Nat
  BY DEF TypeOK, IsTree, IsNode, Node
<1>2. Node(p).data \in Seq(Units) /\ Len(Node(p).data) \in Nat
  BY <1>1 DEF Nodes
<1>3. PICK r : r = Fingerprint(names[p])
  OBVIOUS
<1>4. r \in Revisions
  BY <1>1, <1>2, <1>3 DEF Fingerprint, Revisions, IsNode, Node
<1>5. r # None
  BY <1>4, NoneAssumption
<1>6. /\ r.ino = names[p] /\ r.kind = Node(p).kind /\ r.stamp = Node(p).stamp
      /\ r.size = Len(Node(p).data)
  BY <1>3 DEF Fingerprint, Node
<1>7. QED
  BY <1>1, <1>3, <1>4, <1>5, <1>6 DEF IsNode

\* A look at the path that finds nothing wrong.
LEMMA LookedAt ==
  ASSUME IInv, NEW at, at # "next", At(at)
  PROVE  /\ Active /\ call.at = at /\ names[call.path] # None
         /\ call.rev # None => Fingerprint(names[call.path]) = call.rev
BY DEF At, Problem, Active

\* The objects of a revision.
LEMMA HeldIs ==
  ASSUME IInv, call.at \in Listed \cup Reading
  PROVE  /\ Active /\ call.rev \in Revisions /\ call.rev # None
         /\ call.rev.ino \in Inodes \ unused
         /\ inode[call.rev.ino] \in Nodes /\ inode[call.rev.ino].data \in Seq(Units)
<1>1. call.rev \in Revisions
  BY DEF IInv, Watched, Held, TypeOK, CallState
<1>2. call.rev.ino \in Inodes \ unused /\ call.rev # None /\ Active
  BY <1>1 DEF IInv, Watched, Held, Revisions, Active, Listed, Reading
<1>3. inode[call.rev.ino] \in Nodes
  BY <1>2 DEF IInv, TypeOK
<1>4. QED
  BY <1>1, <1>2, <1>3 DEF Nodes

-----------------------------------------------------------------------------
(* Inspections and listings.                                               *)
\* A path is looked at, then listed or scanned.
LEMMA InspectKeeps == IInv /\ Inspect => IInv'
<1> SUFFICES ASSUME IInv, Inspect PROVE IInv'
  OBVIOUS
<1>1. Active /\ call.at = "inspect" /\ names[call.path] # None
  BY LookedAt DEF Inspect
<1>2. /\ phase = "plan" /\ call.pass = "plan" /\ call.path \in Paths
      /\ Fingerprint(names[call.path]) \in Revisions
  BY <1>1, ActiveFacts, FingerprintIs DEF IInv, Reading, Listed, Unwinding, Verifying
<1>3. CASE \E v : Throw(v)
  BY <1>1, <1>3, ThrowKeeps
<1>4. CASE ~\E v : Throw(v)
  <2>1. /\ UNCHANGED host /\ UNCHANGED phase /\ UNCHANGED Books
        /\ \/ call' = Call("list", call.path, "plan", Fingerprint(names[call.path]))
           \/ call' = Call("scan", call.path, "plan", None)
    <3>1. Node(call.path).kind \in Kinds
      BY <1>1, <1>2 DEF IInv, IsTree, IsNode
    <3>2. QED
      BY <1>4, <3>1 DEF Inspect, GoOn, Books, books, history, Kinds
  <2>2. ASSUME NEW at \in {"list", "scan"}, NEW rev \in Revisions \cup {None},
               call' = Call(at, call.path, "plan", rev)
        PROVE  IInv'
    <3>1. PICK r : r = Call(at, call.path, "plan", rev)
      OBVIOUS
    <3>2. /\ r \in CallState /\ r.at = at /\ r.path = call.path /\ r.pass = "plan"
          /\ Shape(r) /\ Watched(r)
      BY <1>2, <3>1, Calling DEF IInv, TypeOK, Passes
    <3>3. r.at \notin Verifying \cup {"next"}
      BY <3>2 DEF Verifying
    <3>4. QED
      BY <1>1, <1>2, <2>1, <2>2, <3>1, <3>2, <3>3, CallMoves
  <2>3. QED
    BY <1>2, <2>1, <2>2
<1>5. QED
  BY <1>3, <1>4

\* The revision a listing starts from.
LEMMA ListKeeps == IInv /\ List => IInv'
<1> SUFFICES ASSUME IInv, List PROVE IInv'
  OBVIOUS
<1>1. Active /\ call.at = "list" /\ names[call.path] # None
  BY LookedAt DEF List
<1>2. CASE Node(call.path).kind # "directory"
  BY <1>1, <1>2, ThrowKeeps DEF List
<1>3. CASE Node(call.path).kind = "directory"
  <2>1. PICK rev : rev = Fingerprint(names[call.path])
    OBVIOUS
  <2>2. /\ rev \in Revisions /\ rev # None /\ rev.ino \in Inodes \ unused
        /\ rev.kind = "directory" /\ rev.stamp <= clock
    BY <1>1, <1>3, <2>1, ActiveFacts, FingerprintIs DEF IInv
  <2>3. PICK r : r = [call EXCEPT !.at = "opendir", !.rev = rev]
    OBVIOUS
  <2>4. /\ r \in CallState /\ r.at = "opendir" /\ r.rev = rev /\ r.path = call.path
        /\ r.pass = call.pass /\ r.seen = call.seen /\ r.due = call.due
        /\ r.bytes = call.bytes /\ r.handle = call.handle
    BY <1>1, <2>2, <2>3, ActiveFacts DEF CallState, Steps, Listed
  <2>5. call' = r /\ UNCHANGED host /\ UNCHANGED phase /\ UNCHANGED Books
    BY <1>3, <2>1, <2>3 DEF List, GoOn, Books, books, history
  <2>6. "opendir" \in Listed /\ "opendir" \notin Reading \cup Verifying \cup {"close"}
    BY DEF Listed, Reading, Verifying
  <2>7. Shape(r)
    BY <1>1, <2>4, <2>6 DEF IInv, Shape
  <2>8. Watched(r)
    BY <2>2, <2>4, <2>6 DEF Watched, Held, ListingIs, ScanIs
  <2>9. phase # "stream"
    BY <1>1, ActiveFacts DEF Reading, Unwinding
  <2>10. QED
    BY <1>1, <2>4, <2>5, <2>6, <2>7, <2>8, <2>9, CallMoves
<1>4. QED
  BY <1>2, <1>3

\* A listing from opendir to the second look goes on from r.
LEMMA ListingMoves ==
  ASSUME IInv, Active, call.at \in Listed, NEW r \in CallState, GoOn(r), UNCHANGED Books,
         r.at \in Listed, r.path = call.path, r.pass = call.pass, r.rev = call.rev,
         r.seen \subseteq Below(r.path), r.due \subseteq Below(r.path),
         r.at # "opendir", ListingIs(r)
  PROVE  IInv'
<1>1. /\ r.at \notin Reading \cup Verifying \cup {"next", "list", "scan", "close"}
      /\ "list" # r.at /\ "scan" # r.at
  BY DEF Listed, Reading, Verifying
<1>2. Shape(r)
  BY <1>1 DEF Shape
<1>3. Watched(r)
  <2>1. r.at \notin {"read", "after", "again"}
    BY <1>1 DEF Reading
  <2>2. Held(r)
    BY <1>1, <2>1 DEF IInv, Watched, Held
  <2>3. QED
    BY <1>1, <2>2 DEF Watched, ScanIs
<1>4. phase # "stream"
  BY ActiveFacts DEF Listed, Reading, Unwinding
<1>5. UNCHANGED host /\ UNCHANGED phase /\ call' = r
  BY DEF GoOn
<1>6. r.at # "verifyFile"
  BY <1>1 DEF Verifying
<1>7. r.at # "next"
  BY <1>1
<1>8. r.at \in {"list"} \cup Listed \cup Unwinding \cup Verifying
  OBVIOUS
<1>9. QED
  BY <1>1, <1>2, <1>3, <1>4, <1>5, <1>6, <1>7, <1>8, CallMoves

\* The directory is opened: what is due is all that is in it.
LEMMA OpenDirectoryKeeps == IInv /\ OpenDirectory => IInv'
<1> SUFFICES ASSUME IInv, OpenDirectory PROVE IInv'
  OBVIOUS
<1>1. Active /\ call.at = "opendir" /\ call.at \in Listed
  BY DEF OpenDirectory, Active, Listed
<1>2. CASE \E v : Throw(v)
  BY <1>1, <1>2, ThrowKeeps
<1>3. CASE ~\E v : Throw(v)
  <2>1. names[call.path] # None /\ UNCHANGED Books
    BY <1>3 DEF OpenDirectory, Books, books, history
  <2>2. PICK r : r = [call EXCEPT !.at = "readdir", !.handle = names[call.path],
                                  !.due = Children(call.path)]
    OBVIOUS
  <2>3. GoOn(r)
    BY <1>3, <2>2 DEF OpenDirectory
  <2>4. call.path \in Paths /\ call \in CallState /\ names[call.path] \in Inodes
    BY <1>1, <2>1, ActiveFacts DEF IInv, TypeOK
  <2>5. Children(call.path) \subseteq Below(call.path) /\ Children(call.path) \subseteq Paths
    BY DEF Children, Below
  <2>6. /\ r \in CallState /\ r.at = "readdir" /\ r.rev = call.rev /\ r.path = call.path
        /\ r.pass = call.pass /\ r.seen = call.seen /\ r.due = Children(call.path)
        /\ r.handle = names[call.path]
    BY <2>2, <2>4, <2>5 DEF CallState, Steps, Listed
  <2>7. call.seen = {}
    BY <1>1 DEF IInv, Shape
  <2>8. ListingIs(r)
    BY <2>6, <2>7 DEF ListingIs
  <2>9. "readdir" \in Listed
    BY DEF Listed
  <2>10. QED
    BY <1>1, <2>1, <2>3, <2>5, <2>6, <2>7, <2>8, <2>9, ListingMoves
<1>4. QED
  BY <1>2, <1>3

\* A name is read, of those that were there or of those that came.
LEMMA ReadNameKeeps == IInv /\ ReadName => IInv'
<1> SUFFICES ASSUME IInv, ReadName PROVE IInv'
  OBVIOUS
<1>1. Active /\ call.at = "readdir" /\ call.at \in Listed
  BY DEF ReadName, Active, Listed
<1>2. CASE \E v : Throw(v)
  BY <1>1, <1>2, ThrowKeeps
<1>3. CASE ~\E v : Throw(v)
  <2>1. PICK p \in call.due \cup (IF names[call.path] = call.handle THEN Children(call.path) ELSE {}) :
          GoOn([call EXCEPT !.seen = @ \cup {p}]) /\ UNCHANGED Books
    BY <1>3 DEF ReadName, Books, history
  <2>2. PICK r : r = [call EXCEPT !.seen = @ \cup {p}]
    OBVIOUS
  <2>3. call.path \in Paths /\ call \in CallState
    BY <1>1, ActiveFacts
  <2>4. /\ Children(call.path) \subseteq Below(call.path) /\ Below(call.path) \subseteq Paths
        /\ call.due \subseteq Below(call.path) /\ call.seen \subseteq Below(call.path)
    BY DEF Children, Below, IInv, Shape
  <2>5. p \in Below(call.path)
    BY <2>4
  <2>6. /\ r \in CallState /\ r.at = "readdir" /\ r.rev = call.rev /\ r.path = call.path
        /\ r.pass = call.pass /\ r.seen = call.seen \cup {p} /\ r.due = call.due
        /\ r.handle = call.handle
    BY <1>1, <2>2, <2>3, <2>4, <2>5 DEF CallState
  <2>7. ListingIs(r)
    <3>1. ListingIs(call)
      BY DEF IInv, Watched
    <3>2. QED
      BY <1>1, <2>6, <3>1 DEF ListingIs, Same
  <2>8. QED
    BY <1>1, <2>1, <2>2, <2>4, <2>5, <2>6, <2>7, ListingMoves
<1>4. QED
  BY <1>2, <1>3

\* The listing ends when none is missing of those that are still there.
LEMMA EndOfNamesKeeps == IInv /\ EndOfNames => IInv'
<1> SUFFICES ASSUME IInv, EndOfNames PROVE IInv'
  OBVIOUS
<1>1. Active /\ call.at = "readdir" /\ call.at \in Listed
  BY DEF EndOfNames, Active, Listed
<1>2. CASE \E v : Throw(v)
  BY <1>1, <1>2, ThrowKeeps
<1>3. CASE ~\E v : Throw(v)
  <2>1. GoOn([call EXCEPT !.at = "closedir"]) /\ UNCHANGED Books
    BY <1>3 DEF EndOfNames, Step, Books, books, history
  <2>2. PICK r : r = [call EXCEPT !.at = "closedir"]
    OBVIOUS
  <2>3. /\ r \in CallState /\ r.at = "closedir" /\ r.rev = call.rev /\ r.path = call.path
        /\ r.pass = call.pass /\ r.seen = call.seen /\ r.due = call.due
    BY <1>1, <2>2, ActiveFacts DEF CallState, Steps, Listed
  <2>4. \A p \in call.due \ call.seen : names[p] = None \/ names[call.path] # call.handle
    BY DEF EndOfNames
  <2>5. ListingIs(r)
    <3>1. ListingIs(call)
      BY DEF IInv, Watched
    <3>2. SUFFICES ASSUME Same(call), names[call.path] = call.rev.ino
                   PROVE  call.seen = Children(call.path)
      BY <2>3 DEF ListingIs, Same
    <3>3. /\ call.due = Children(call.path) /\ call.seen \subseteq Children(call.path)
          /\ call.handle = names[call.path]
      BY <1>1, <3>1, <3>2 DEF ListingIs
    <3>4. \A p \in Children(call.path) : names[p] # None
      BY DEF Children
    <3>5. QED
      BY <2>4, <3>3, <3>4
  <2>6. "closedir" \in Listed
    BY DEF Listed
  <2>7. call.seen \subseteq Below(call.path) /\ call.due \subseteq Below(call.path)
    BY DEF IInv, Shape
  <2>8. QED
    BY <1>1, <2>1, <2>2, <2>3, <2>5, <2>6, <2>7, ListingMoves
<1>4. QED
  BY <1>2, <1>3

\* The directory is closed, and looked at again.
LEMMA CloseDirectoryKeeps == IInv /\ CloseDirectory => IInv'
<1> SUFFICES ASSUME IInv, CloseDirectory PROVE IInv'
  OBVIOUS
<1>1. Active /\ call.at = "closedir" /\ call.at \in Listed
  BY DEF CloseDirectory, Active, Listed
<1>2. GoOn([call EXCEPT !.at = "relist", !.handle = None]) /\ UNCHANGED Books
  BY DEF CloseDirectory, Books, books, history
<1>3. PICK r : r = [call EXCEPT !.at = "relist", !.handle = None]
  OBVIOUS
<1>4. /\ r \in CallState /\ r.at = "relist" /\ r.rev = call.rev /\ r.path = call.path
      /\ r.pass = call.pass /\ r.seen = call.seen /\ r.due = call.due
  BY <1>1, <1>3, ActiveFacts DEF CallState, Steps, Listed
<1>5. ListingIs(r)
  <2>1. ListingIs(call)
    BY DEF IInv, Watched
  <2>2. QED
    BY <1>1, <1>4, <2>1 DEF ListingIs, Same
<1>6. "relist" \in Listed
  BY DEF Listed
<1>7. call.seen \subseteq Below(call.path) /\ call.due \subseteq Below(call.path)
  BY DEF IInv, Shape
<1>8. QED
  BY <1>1, <1>2, <1>3, <1>4, <1>5, <1>6, <1>7, ListingMoves

-----------------------------------------------------------------------------
(* Scans.                                                                  *)
\* A scan goes on from r, with what it has kept.
LEMMA ScanMoves ==
  ASSUME IInv, Active, call.at \in Reading, NEW r \in CallState, GoOn(r), UNCHANGED Books,
         r.at \in Reading, r.path = call.path, r.pass = call.pass, r.rev = call.rev,
         r.seen = call.seen, r.due = call.due, r.bytes = call.bytes,
         r.at \in {"read", "after", "again"} => r.handle = r.rev.ino,
         r.at = "close" /\ r.pass = "stream" => r.bytes = planned[r.path].data,
         r.at \in {"after", "again"} /\ Same(r) =>
           LET data == inode[r.rev.ino].data  n == Len(r.bytes) + 1 IN
           r.piece = IF n \in DOMAIN data THEN <<data[n]>> ELSE <<>>
  PROVE  IInv'
<1>1. r.at \notin Listed \cup Verifying \cup Unwinding \cup {"next", "list", "scan", "opendir"}
  BY DEF Listed, Reading, Verifying, Unwinding
<1>2. Shape(r)
  BY <1>1 DEF IInv, Shape
<1>3. Held(r) /\ ListingIs(r)
  <2>1. Held(call) /\ call.at \notin Listed
    BY DEF IInv, Watched, Listed, Reading
  <2>2. ListingIs(r)
    BY <1>1 DEF ListingIs
  <2>3. QED
    BY <1>1, <2>1, <2>2 DEF Held
<1>4. ScanIs(r)
  <2>1. ScanIs(call)
    BY DEF IInv, Watched
  <2>2. QED
    BY <2>1 DEF ScanIs, Same
<1>5. phase # "verify"
  BY ActiveFacts DEF Listed, Reading, Unwinding, Verifying
<1>6. UNCHANGED host /\ UNCHANGED phase /\ call' = r
  BY DEF GoOn
<1>7. phase = "stream" => (r.at = "close" => r.bytes = planned[r.path].data)
  BY ActiveFacts
<1>8. r.at # "next" /\ r.at \notin Verifying
  BY <1>1
<1>9. Watched(r)
  BY <1>3, <1>4 DEF Watched
<1>10. QED
  BY <1>2, <1>5, <1>6, <1>7, <1>8, <1>9, CallMoves

\* The revision a scan starts from.
LEMMA ScanKeeps == IInv /\ Scan => IInv'
<1> SUFFICES ASSUME IInv, Scan PROVE IInv'
  OBVIOUS
<1>1. Active /\ call.at = "scan" /\ names[call.path] # None
  BY LookedAt DEF Scan
<1>2. CASE \E v : Throw(v)
  BY <1>1, <1>2, ThrowKeeps
<1>3. CASE ~\E v : Throw(v)
  <2>1. PICK rev : rev = Fingerprint(names[call.path])
    OBVIOUS
  <2>2. PICK r : r = [call EXCEPT !.at = "open", !.rev = rev]
    OBVIOUS
  <2>3. /\ Node(call.path).kind = "file" /\ call' = r
        /\ UNCHANGED host /\ UNCHANGED phase /\ UNCHANGED Books
    BY <1>3, <2>1, <2>2 DEF Scan, GoOn, Books, books, history
  <2>4. /\ rev \in Revisions /\ rev # None /\ rev.ino = names[call.path]
        /\ rev.ino \in Inodes \ unused /\ rev.kind = "file" /\ rev.stamp <= clock
        /\ rev.size = Len(inode[rev.ino].data)
    BY <1>1, <2>1, <2>3, ActiveFacts, FingerprintIs DEF IInv, Node
  <2>5. /\ r \in CallState /\ r.at = "open" /\ r.rev = rev /\ r.path = call.path
        /\ r.pass = call.pass /\ r.seen = call.seen /\ r.due = call.due
        /\ r.bytes = call.bytes /\ r.handle = call.handle
    BY <1>1, <2>2, <2>4, ActiveFacts DEF CallState, Steps, Reading
  <2>6. "open" \in Reading /\ "open" \notin Listed \cup Verifying
    BY DEF Listed, Reading, Verifying
  <2>7. Shape(r)
    BY <1>1, <2>5, <2>6 DEF IInv, Shape
  <2>8. Held(r) /\ ListingIs(r)
    BY <2>4, <2>5, <2>6 DEF Held, ListingIs
  <2>9. ScanIs(r)
    <3>1. call.bytes = <<>>
      BY <1>1 DEF IInv, Shape
    <3>2. inode[rev.ino].data \in Seq(Units)
      BY <2>4 DEF IInv, TypeOK, Nodes
    <3>3. Starts(<<>>, inode[rev.ino].data)
      BY <3>2 DEF Starts
    <3>4. QED
      BY <2>4, <2>5, <3>1, <3>3 DEF ScanIs
  <2>10. phase # "verify"
    BY <1>1, ActiveFacts DEF Listed, Unwinding, Verifying
  <2>11. Watched(r)
    BY <2>8, <2>9 DEF Watched
  <2>12. QED
    BY <1>1, <2>3, <2>5, <2>6, <2>7, <2>10, <2>11, CallMoves
<1>4. QED
  BY <1>2, <1>3

\* The file is opened, and the path looked at.
LEMMA OpenFileKeeps == IInv /\ (OpenFile \/ Opened \/ Lstat) => IInv'
<1> SUFFICES ASSUME IInv, OpenFile \/ Opened \/ Lstat PROVE IInv'
  OBVIOUS
<1>1. Active /\ call.at \in {"open", "opened", "lstat"} /\ call.at \in Reading
  BY DEF OpenFile, Opened, Lstat, At, Active, Reading
<1>2. CASE \E v : Throw(v)
  BY <1>1, <1>2, ThrowKeeps
<1>3. CASE ~\E v : Throw(v)
  <2>1. PICK at \in {"opened", "lstat", "before"}, i \in {names[call.path], call.handle} :
          /\ GoOn([call EXCEPT !.at = at, !.handle = i]) /\ UNCHANGED Books
    <3>1. CASE OpenFile
      BY <1>3, <3>1 DEF OpenFile, Books, books, history
    <3>2. ASSUME NEW at PROVE [call EXCEPT !.at = at] = [call EXCEPT !.at = at, !.handle = call.handle]
      BY <1>1, ActiveFacts DEF CallState
    <3>3. CASE Opened
      BY <1>3, <3>2, <3>3 DEF Opened, Books, books, history
    <3>4. CASE Lstat
      BY <1>3, <3>2, <3>4 DEF Lstat, Books, books, history
    <3>5. QED
      BY <3>1, <3>3, <3>4
  <2>2. PICK r : r = [call EXCEPT !.at = at, !.handle = i]
    OBVIOUS
  <2>3. i \in Inodes \cup {None}
    BY <1>1, ActiveFacts DEF IInv, TypeOK, CallState
  <2>4. /\ r \in CallState /\ r.at = at /\ r.path = call.path /\ r.pass = call.pass
        /\ r.rev = call.rev /\ r.seen = call.seen /\ r.due = call.due /\ r.bytes = call.bytes
    BY <1>1, <2>2, <2>3, ActiveFacts DEF CallState, Steps, Reading
  <2>5. at \in Reading /\ at \notin {"read", "after", "again", "close"}
    BY DEF Reading
  <2>6. QED
    BY <1>1, <2>1, <2>2, <2>4, <2>5, ScanMoves
<1>4. QED
  BY <1>2, <1>3

\* The handle is that of the revision.
LEMMA FstatKeeps == IInv /\ (Before \/ After) => IInv'
<1> SUFFICES ASSUME IInv, Before \/ After PROVE IInv'
  OBVIOUS
<1>1. Active /\ call.at \in {"before", "after"} /\ call.at \in Reading
  BY DEF Before, After, Fstat, Active, Reading
<1>2. CASE \E v : Throw(v)
  BY <1>1, <1>2, ThrowKeeps DEF Before, After, Fstat
<1>3. CASE ~\E v : Throw(v)
  <2>1. PICK at \in {"read", "again"} :
          /\ GoOn([call EXCEPT !.at = at]) /\ UNCHANGED Books
          /\ at = "again" => call.at = "after"
          /\ Fingerprint(call.handle) = call.rev
    BY <1>3 DEF Before, After, Fstat, Step, Books, books, history
  <2>2. PICK r : r = [call EXCEPT !.at = at]
    OBVIOUS
  <2>3. /\ r \in CallState /\ r.at = at /\ r.path = call.path /\ r.pass = call.pass
        /\ r.rev = call.rev /\ r.seen = call.seen /\ r.due = call.due /\ r.bytes = call.bytes
        /\ r.handle = call.handle /\ r.piece = call.piece
    BY <1>1, <2>2, ActiveFacts DEF CallState, Steps, Reading
  <2>4. r.handle = r.rev.ino
    BY <2>1, <2>3 DEF Fingerprint
  <2>5. ScanIs(call)
    BY DEF IInv, Watched
  <2>6. at \in Reading /\ at # "close" /\ at # "after"
    BY DEF Reading
  <2>7. r.at \in {"after", "again"} /\ Same(r) =>
           LET data == inode[r.rev.ino].data  n == Len(r.bytes) + 1 IN
           r.piece = IF n \in DOMAIN data THEN <<data[n]>> ELSE <<>>
    BY <1>1, <2>1, <2>3, <2>5, <2>6, SMTT(30) DEF ScanIs, Same
  <2>8. QED
    BY <1>1, <2>1, <2>2, <2>3, <2>4, <2>6, <2>7, ScanMoves
<1>4. QED
  BY <1>2, <1>3

\* The next unit is read, or none is left.
LEMMA ReadKeeps == IInv /\ Read => IInv'
<1> SUFFICES ASSUME IInv, Read PROVE IInv'
  OBVIOUS
<1>1. Active /\ call.at = "read" /\ call.at \in Reading
  BY DEF Read, Active, Reading
<1>2. call.handle = call.rev.ino
  BY <1>1 DEF IInv, Watched, Held
<1> DEFINE data == inode[call.handle].data
           n == Len(call.bytes) + 1
<1>3. PICK piece : piece = IF n \in DOMAIN data THEN <<data[n]>> ELSE <<>>
  OBVIOUS
<1>4. GoOn([call EXCEPT !.at = "after", !.piece = piece]) /\ UNCHANGED Books
  BY <1>3 DEF Read, Books, books, history
<1>5. piece \in Seq(Units)
  <2>1. data \in Seq(Units)
    BY <1>1, <1>2, HeldIs
  <2> HIDE DEF data
  <2>2. QED
    BY <1>3, <2>1
<1>6. PICK r : r = [call EXCEPT !.at = "after", !.piece = piece]
  OBVIOUS
<1>7. /\ r \in CallState /\ r.at = "after" /\ r.path = call.path /\ r.pass = call.pass
      /\ r.rev = call.rev /\ r.seen = call.seen /\ r.due = call.due /\ r.bytes = call.bytes
      /\ r.handle = call.handle /\ r.piece = piece
  BY <1>1, <1>5, <1>6, ActiveFacts DEF CallState, Steps, Reading
<1>8. "after" \in Reading
  BY DEF Reading
<1>9. LET d == inode[r.rev.ino].data  m == Len(r.bytes) + 1 IN
      r.piece = IF m \in DOMAIN d THEN <<d[m]>> ELSE <<>>
  BY <1>2, <1>3, <1>7
<1>10. QED
  BY <1>1, <1>2, <1>4, <1>6, <1>7, <1>8, <1>9, ScanMoves

\* The scan ends when it has as much as the revision.
LEMMA EndOfFileKeeps == IInv /\ EndOfFile => IInv'
<1> SUFFICES ASSUME IInv, EndOfFile PROVE IInv'
  OBVIOUS
<1>1. Active /\ call.at = "again" /\ call.at \in Reading
  BY DEF EndOfFile, At, Active, Reading
<1>2. CASE \E v : Throw(v)
  BY <1>1, <1>2, ThrowKeeps
<1>3. CASE ~\E v : Throw(v)
  <2>1. /\ GoOn([call EXCEPT !.at = "close"]) /\ UNCHANGED Books
        /\ call.pass = "stream" => call.bytes = planned[call.path].data
    BY <1>3 DEF EndOfFile, Step, Books, books, history
  <2>2. PICK r : r = [call EXCEPT !.at = "close"]
    OBVIOUS
  <2>3. /\ r \in CallState /\ r.at = "close" /\ r.path = call.path /\ r.pass = call.pass
        /\ r.rev = call.rev /\ r.seen = call.seen /\ r.due = call.due /\ r.bytes = call.bytes
    BY <1>1, <2>2, ActiveFacts DEF CallState, Steps, Reading
  <2>4. "close" \in Reading
    BY DEF Reading
  <2>5. QED
    BY <1>1, <2>1, <2>2, <2>3, <2>4, ScanMoves
<1>4. QED
  BY <1>2, <1>3

-----------------------------------------------------------------------------
(* Failures.                                                               *)
\* A look, or a call to the host, fails.
LEMMA CallFails == IInv /\ (InspectFails \/ HostFails \/ CloseFails \/ Unwind) => IInv'
<1> SUFFICES ASSUME IInv, InspectFails \/ HostFails \/ CloseFails \/ Unwind PROVE IInv'
  OBVIOUS
<1>1. CASE InspectFails \/ HostFails
  <2>1. Active
    BY <1>1 DEF InspectFails, HostFails, Looking, Active
  <2>2. \E v : Throw(v)
    BY <1>1 DEF InspectFails, HostFails
  <2>3. QED
    BY <2>1, <2>2, ThrowKeeps
<1>2. CASE CloseFails \/ Unwind
  <2>1. UNCHANGED host /\ UNCHANGED Books /\ phase' = "failed" /\ call' = Rest
    BY <1>2 DEF CloseFails, Unwind, Books, books, history
  <2>2. QED
    BY <2>1, FailureKeeps
<1>3. QED
  BY <1>1, <1>2

\* A walk fails between two calls.
LEMMA WalkFails == IInv /\ (PathFails \/ PhaseFails) => IInv'
<1> SUFFICES ASSUME IInv, PathFails \/ PhaseFails PROVE IInv'
  OBVIOUS
<1>1. UNCHANGED host /\ UNCHANGED Books /\ phase' = "failed" /\ call' = Rest
  BY DEF PathFails, PhaseFails, Books, books, history
<1>2. QED
  BY <1>1, FailureKeeps

-----------------------------------------------------------------------------
(* Steps that move the walks.                                              *)
\* The parts of IInv that a step of the bridge has to show, once what it leaves
\* alone is set aside.
LEMMA WalkMoves ==
  ASSUME IInv, UNCHANGED host, NEW r \in CallState, call' = r, Shape(r), Watched(r),
         phase' \in {"plan", "stream", "verify", "verified", "failed"},
         todo' \in Seq(TaskState), planned' \in [Paths -> Plans \cup {None}],
         sent' \in [Paths -> Seq(Units)], checked' \subseteq Paths,
         began' \in [Paths -> Views \cup {None}],
         Rooted', PlanWalk', StreamWalk', VerifyWalk', Afterwards'
  PROVE  IInv'
<1>1. TypeOK'
  BY DEF IInv, TypeOK, host
<1>2. IsTree' /\ Watched(r)'
  BY HostStays DEF IInv
<1>3. Shape(call)'
  BY DEF Shape
<1>4. Watched(call)'
  BY <1>2 DEF Watched, Held, ListingIs, ScanIs, Same, Children
<1>5. QED
  BY <1>1, <1>2, <1>3, <1>4 DEF IInv

\* The next task begins with a look at its path.
LEMMA NextTaskKeeps == IInv /\ NextTask => IInv'
<1> SUFFICES ASSUME IInv, NextTask PROVE IInv'
  OBVIOUS
<1>1. PICK t : t = Head(todo)
  OBVIOUS
<1>2. PICK p : p = t.path
  OBVIOUS
<1>3. /\ t \in TaskState /\ Tail(todo) \in Seq(TaskState)
      /\ Ahead = {t} \cup Elements(Tail(todo))
      /\ Once(todo) => Once(Tail(todo)) /\ t \notin Elements(Tail(todo))
      /\ t \in Ahead
  BY <1>1, First DEF NextTask, IInv, TypeOK, Ahead
<1>4. /\ todo' = Tail(todo) /\ Ahead' = Elements(Tail(todo)) /\ ~Active /\ phase \in {"plan", "stream", "verify"}
      /\ UNCHANGED <<planned, sent, checked, began, phase>> /\ UNCHANGED host
  BY DEF NextTask, Active, GoOn, history, Ahead
<1>5. p \in Paths /\ t.pass \in Passes /\ t = Task(t.pass, p)
  BY <1>3, <1>2 DEF TaskState, Task
<1>6. /\ PlannedPaths' = PlannedPaths /\ PlannedFiles' = PlannedFiles
      /\ Rooted' /\ Afterwards'
      /\ Whole => Whole'
  <2>1. PlannedPaths' = PlannedPaths /\ PlannedFiles' = PlannedFiles
    BY <1>4 DEF PlannedPaths, PlannedFiles
  <2>2. Rooted' /\ (Whole => Whole')
    BY <1>4, <2>1 DEF IInv, Rooted, Named, Whole
  <2>3. Afterwards'
    BY <1>4, <2>1, <2>2 DEF IInv, Afterwards, Sent, BeganTree
  <2>4. QED
    BY <2>1, <2>2, <2>3
<1>7. \E at \in {"inspect", "list", "scan"} \cup Verifying, rev \in Revisions \cup {None} :
        /\ call' = Call(at, p, t.pass, rev)
        /\ phase = "plan" => at = "inspect"
        /\ phase = "stream" => at = "scan"
        /\ phase = "verify" => /\ at \in {"list"} \cup Verifying
                               /\ at \in Verifying => rev = planned[p].rev
                               /\ at = "verifyFile" => planned[p].kind = "file"
  <2>1. CASE t.pass = "plan"
    <3>1. call' = Call("inspect", p, t.pass, None)
      BY <1>1, <1>2, <2>1 DEF NextTask, GoOn
    <3>2. phase = "plan"
      BY <1>3, <1>4, <2>1 DEF IInv, StreamWalk, VerifyWalk
    <3>3. QED
      BY <3>1, <3>2
  <2>2. CASE t.pass = "stream"
    <3>1. call' = Call("scan", p, t.pass, planned[p].rev)
      BY <1>1, <1>2, <2>2 DEF NextTask, GoOn
    <3>2. phase = "stream" /\ p \in PlannedFiles
      BY <1>2, <1>3, <1>4, <2>2 DEF IInv, StreamWalk, VerifyWalk, PlanWalk, PlanTasks
    <3>3. planned[p].rev \in Revisions
      BY <1>5, <3>2 DEF IInv, TypeOK, PlannedFiles, PlannedPaths, Plans
    <3>4. QED
      BY <3>1, <3>2, <3>3
  <2>3. CASE t.pass = "recheck"
    <3>1. call' = Call("list", p, t.pass, None)
      BY <1>1, <1>2, <2>3 DEF NextTask, GoOn
    <3>2. phase = "verify"
      BY <1>3, <1>4, <2>3 DEF IInv, StreamWalk, PlanWalk, PlanTasks
    <3>3. "list" \notin Verifying
      BY DEF Verifying
    <3>4. QED
      BY <3>1, <3>2, <3>3
  <2>4. CASE t.pass = "verify"
    <3>1. phase = "verify" /\ p \in PlannedPaths
      BY <1>2, <1>3, <1>4, <2>4 DEF IInv, StreamWalk, VerifyWalk, PlanWalk, PlanTasks
    <3>2. planned[p].rev \in Revisions
      BY <1>5, <3>1 DEF IInv, TypeOK, PlannedPaths, Plans
    <3>3. CASE planned[p].kind = "file"
      <4>1. call' = Call("verifyFile", p, t.pass, planned[p].rev)
        BY <1>1, <1>2, <2>4, <3>3 DEF NextTask, GoOn
      <4>2. "verifyFile" \in Verifying
        BY DEF Verifying
      <4>3. QED
        BY <3>1, <3>2, <3>3, <4>1, <4>2
    <3>4. CASE planned[p].kind # "file"
      <4>1. call' = Call("list", p, t.pass, None)
        BY <1>1, <1>2, <2>4, <3>4 DEF NextTask, GoOn
      <4>2. "list" \notin Verifying
        BY DEF Verifying
      <4>3. QED
        BY <3>1, <4>1, <4>2
    <3>5. QED
      BY <3>3, <3>4
  <2>5. QED
    BY <1>5, <2>1, <2>2, <2>3, <2>4 DEF Passes
<1>8. PICK at \in {"inspect", "list", "scan"} \cup Verifying, rev \in Revisions \cup {None} :
        /\ call' = Call(at, p, t.pass, rev)
        /\ phase = "plan" => at = "inspect"
        /\ phase = "stream" => at = "scan"
        /\ phase = "verify" => /\ at \in {"list"} \cup Verifying
                               /\ at \in Verifying => rev = planned[p].rev
                               /\ at = "verifyFile" => planned[p].kind = "file"
  BY <1>7
<1>9. PICK r : r = Call(at, p, t.pass, rev)
  OBVIOUS
<1>10. /\ r \in CallState /\ r.at = at /\ r.path = p /\ r.pass = t.pass /\ r.rev = rev
      /\ r.bytes = <<>> /\ Shape(r) /\ Watched(r)
  BY <1>5, <1>9, Calling DEF IInv, TypeOK
<1>11. call' = r /\ at # "next" /\ Active'
  BY <1>8, <1>9, <1>10 DEF Active, Verifying
<1>12. PlanWalk'
  <2> SUFFICES ASSUME phase = "plan" PROVE PlanWalk'
    BY <1>4 DEF PlanWalk
  <2>1. at = "inspect" /\ at \notin Verifying /\ t.pass = "plan" /\ Fresh(p) /\ p # Root
    BY <1>2, <1>3, <1>8 DEF IInv, PlanWalk, PlanTasks, Verifying
  <2>2. PlanTasks' /\ Fresh(p)'
    BY <1>3, <1>4, <2>1 DEF IInv, PlanWalk, PlanTasks, Fresh, Named, Ahead
  <2>3. Task("plan", p) \notin Ahead'
    BY <1>3, <1>4, <1>5, <2>1 DEF IInv, PlanWalk, PlanTasks
  <2>4. \A q \in Paths : Task("plan", q) \in Ahead => Task("plan", q) \in Ahead' \/ q = p
    <3>1. \A q : Task("plan", q).path = q
      BY DEF Task
    <3>2. QED
      BY <1>3, <1>4, <1>5, <2>1, <3>1
  <2>5. \A q \in PlannedPaths : planned[q].children \subseteq Paths
    BY DEF IInv, TypeOK, PlannedPaths, Plans
  <2>6. planned'[Root] # None
    BY <1>4 DEF IInv, PlanWalk
  <2>7. call'.pass = "plan" /\ call'.at \notin Verifying /\ call'.path = p
    BY <1>10, <1>11, <2>1
  <2>8. \A q \in PlannedPaths' : \A c \in planned'[q].children :
          planned'[c] # None \/ Task("plan", c) \in Ahead' \/ (Active' /\ call'.path = c)
    BY <1>4, <1>6, <1>11, <2>4, <2>5, <2>7 DEF IInv, PlanWalk
  <2>9. (\A q \in Paths : sent'[q] = <<>>) /\ checked' = {}
    BY <1>4 DEF IInv, PlanWalk
  <2>10. Active' => /\ call'.pass = "plan" /\ call'.at \notin Verifying
                    /\ Fresh(call.path)' /\ Task("plan", call'.path) \notin Ahead'
    BY <2>2, <2>3, <2>7 DEF Fresh, Named
  <2>11. QED
    BY <2>2, <2>6, <2>8, <2>9, <2>10 DEF PlanWalk
<1>13. StreamWalk'
  <2> SUFFICES ASSUME phase = "stream" PROVE StreamWalk'
    BY <1>4 DEF StreamWalk
  <2>1. at = "scan" /\ t.pass = "stream" /\ p \in PlannedFiles /\ Whole
    BY <1>2, <1>3, <1>8 DEF IInv, StreamWalk
  <2>2. \A q \in Paths : Task("stream", q) \in Ahead => Task("stream", q) \in Ahead' \/ q = p
    <3>1. \A q : Task("stream", q).path = q
      BY DEF Task
    <3>2. QED
      BY <1>3, <1>4, <1>5, <2>1, <3>1
  <2>3. call'.at = "scan" /\ call'.pass = "stream" /\ call'.path = p /\ call'.bytes = <<>>
    BY <1>10, <1>11, <2>1
  <2>4. PlannedFiles \subseteq Paths
    BY DEF PlannedFiles, PlannedPaths
  <2>5. \A q \in PlannedFiles' :
         Task("stream", q) \in Ahead' \/ (Active' /\ call'.path = q) \/ sent'[q] = planned'[q].data
    BY <1>4, <1>6, <1>11, <2>2, <2>3, <2>4 DEF IInv, StreamWalk
  <2>6. \A q \in PlannedPaths : sent[q] \in {<<>>, planned[q].data}
    BY <1>4 DEF IInv, StreamWalk
  <2>7. \A u \in Ahead' : u.pass = "stream" /\ u.path \in PlannedFiles
    BY <1>3, <1>4 DEF IInv, StreamWalk
  <2>8. checked' = {}
    BY <1>4 DEF IInv, StreamWalk
  <2>9. QED
    BY <1>4, <1>6, <2>1, <2>3, <2>5, <2>6, <2>7, <2>8 DEF StreamWalk
<1>14. VerifyWalk'
  <2> SUFFICES ASSUME phase = "verify" PROVE VerifyWalk'
    BY <1>4 DEF VerifyWalk
  <2>1. /\ at \in {"list"} \cup Verifying /\ t.pass \in {"verify", "recheck"} /\ p \in PlannedPaths
    BY <1>2, <1>3, <1>8 DEF IInv, VerifyWalk
  <2>2. \A q : Task("verify", q) \in Ahead =>
          Task("verify", q) \in Ahead' \/ (q = p /\ t.pass = "verify")
    <3>1. \A q : Task("verify", q).path = q /\ Task("verify", q).pass = "verify"
      BY DEF Task
    <3>2. QED
      BY <1>3, <1>4, <1>5, <3>1
  <2>3. call'.at = at /\ call'.pass = t.pass /\ call'.path = p /\ call'.rev = rev
    BY <1>10, <1>11
  <2>4. \A q : Awaited(q) => Awaited(q)'
    BY <1>4, <1>11, <2>2, <2>3 DEF Awaited
  <2>5. \A u \in Ahead' : u.pass \in {"verify", "recheck"} /\ u.path \in PlannedPaths
    BY <1>3, <1>4 DEF IInv, VerifyWalk
  <2>6. checked' \subseteq PlannedPaths /\ \A q \in PlannedPaths \ checked' : Awaited(q)
    BY <1>4 DEF IInv, VerifyWalk
  <2>7. QED
    BY <1>4, <1>6, <1>8, <2>1, <2>3, <2>4, <2>5, <2>6 DEF VerifyWalk
<1>15. QED
  BY <1>3, <1>4, <1>6, <1>10, <1>11, <1>12, <1>13, <1>14, WalkMoves DEF IInv, TypeOK

\* Between two calls the call is the one that nobody makes, and what it leaves
\* alone keeps its form.
LEMMA BetweenCalls ==
  ASSUME IInv, call.at = "next"
  PROVE  ~Active /\ call = Rest /\ Rest \in CallState /\ Shape(Rest) /\ Watched(Rest)
BY Resting DEF IInv, Shape, Active

\* Nothing is ahead where no task is left.
LEMMA NothingAhead == ASSUME todo = <<>> PROVE Ahead = {}
BY DEF Ahead, Elements

\* The plan is complete: what is sent are its files.
LEMMA PreparedKeeps == IInv /\ Prepared => IInv'
<1> SUFFICES ASSUME IInv, Prepared PROVE IInv'
  OBVIOUS
<1>1. /\ UNCHANGED <<call, planned, sent, checked, began>> /\ UNCHANGED host
      /\ phase = "plan" /\ phase' = "stream" /\ call.at = "next" /\ todo = <<>>
      /\ todo' = Tasks("stream", PlannedFiles)
  BY DEF Prepared, history, PlannedFiles
<1>2. ~Active /\ ~Active' /\ call' = Rest /\ Rest \in CallState /\ Shape(Rest) /\ Watched(Rest)
  BY <1>1, BetweenCalls DEF Active
<1>3. Ahead = {}
  BY <1>1, NothingAhead
<1>4. /\ PlannedPaths' = PlannedPaths /\ PlannedFiles' = PlannedFiles
      /\ Rooted' /\ PlannedFiles \in SUBSET Paths
  BY <1>1 DEF IInv, Rooted, Named, PlannedPaths, PlannedFiles
<1>5. todo' \in Seq(TaskState) /\ Ahead' = {Task("stream", p) : p \in PlannedFiles}
  BY <1>1, <1>4, TasksAre DEF Passes, Ahead
<1>6. Whole'
  BY <1>1, <1>2, <1>3, <1>4 DEF IInv, PlanWalk, Whole
<1>7. StreamWalk'
  <2>1. \A t \in Ahead' : t.pass = "stream" /\ t.path \in PlannedFiles
    BY <1>5 DEF Task
  <2>2. \A p \in PlannedPaths : sent[p] = <<>> /\ p \in Paths
    BY <1>1 DEF IInv, PlanWalk, PlannedPaths
  <2>3. checked' = {}
    BY <1>1 DEF IInv, PlanWalk
  <2>4. \A p \in PlannedFiles' : Task("stream", p) \in Ahead'
    BY <1>4, <1>5
  <2>5. QED
    BY <1>1, <1>2, <1>4, <1>6, <2>1, <2>2, <2>3, <2>4 DEF StreamWalk
<1>8. PlanWalk' /\ VerifyWalk' /\ Afterwards'
  BY <1>1 DEF PlanWalk, VerifyWalk, Afterwards
<1>9. QED
  BY <1>1, <1>2, <1>4, <1>5, <1>7, <1>8, WalkMoves DEF IInv, TypeOK

\* What a path shows, and that it is shown by what leads to it.
LEMMA ShownIs ==
  ASSUME TypeOK, IsTree
  PROVE  /\ \A p \in Paths : /\ Shown(p) \in Views \cup {None}
                             /\ Shown(p) = None <=> names[p] = None
         /\ \A p \in Paths : Shown(p) # None /\ p # Root =>
              Shown(Front(p)) # None /\ p \in Shown(Front(p)).children
<1>1. ASSUME NEW p \in Paths, names[p] # None
      PROVE  Shown(p) \in Views /\ Shown(p) # None
  <2>1. Node(p) \in Nodes /\ Node(p).kind \in Kinds
    BY <1>1 DEF TypeOK, IsTree, IsNode, Node
  <2>2. Children(p) \subseteq Paths
    BY DEF Children
  <2>3. Shown(p) \in Views
    BY <1>1, <2>1, <2>2 DEF Shown, Views, Nodes
  <2>4. QED
    BY <2>3, NoneAssumption
<1>2. \A p \in Paths : names[p] = None => Shown(p) = None
  BY DEF Shown
<1>3. ASSUME NEW p \in Paths, names[p] # None, p # Root
      PROVE  Shown(Front(p)) # None /\ p \in Shown(Front(p)).children
  <2>1. names[Front(p)] # None /\ Node(Front(p)).kind = "directory" /\ Front(p) \in Paths
    BY <1>3, FrontDiffers DEF IsTree, IsNode
  <2>2. Shown(Front(p)).children = Children(Front(p))
    BY <2>1 DEF Shown
  <2>3. QED
    BY <1>1, <1>3, <2>1, <2>2 DEF Children
<1>4. QED
  BY <1>1, <1>2, <1>3

\* Verification begins with the requested path.
LEMMA BeginVerifyKeeps == IInv /\ BeginVerify => IInv'
<1> SUFFICES ASSUME IInv, BeginVerify PROVE IInv'
  OBVIOUS
<1>1. /\ UNCHANGED <<call, planned, sent, checked>> /\ UNCHANGED host
      /\ phase = "stream" /\ phase' = "verify" /\ call.at = "next" /\ todo = <<>>
      /\ todo' = <<Task("verify", Root)>> /\ began' = [p \in Paths |-> Shown(p)]
  BY DEF BeginVerify
<1>2. ~Active /\ ~Active' /\ call' = Rest /\ Rest \in CallState /\ Shape(Rest) /\ Watched(Rest)
  BY <1>1, BetweenCalls DEF Active
<1>3. Ahead = {} /\ Ahead' = {Task("verify", Root)}
  <2>1. Ahead' = {todo'[n] : n \in 1..1}
    BY <1>1 DEF Ahead, Elements
  <2>2. QED
    BY <1>1, <2>1, NothingAhead
<1>4. /\ PlannedPaths' = PlannedPaths /\ PlannedFiles' = PlannedFiles
      /\ Rooted' /\ PlannedPaths \in SUBSET Paths /\ PlannedFiles \subseteq PlannedPaths
  BY <1>1 DEF IInv, Rooted, Named, PlannedPaths, PlannedFiles
<1>5. Root \in Paths /\ todo' \in Seq(TaskState)
  BY <1>1, PathsAssumption DEF Task, TaskState, Passes
<1>6. Whole /\ Whole'
  BY <1>1, <1>4 DEF IInv, StreamWalk, Whole
<1>7. Sent'
  BY <1>1, <1>2, <1>3, <1>4 DEF IInv, StreamWalk, Sent
<1>8. BeganTree' /\ began' \in [Paths -> Views \cup {None}]
  <2>1. began' \in [Paths -> Views \cup {None}]
    BY <1>1, ShownIs DEF IInv
  <2>2. \A p \in Paths : p # Root => Front(p) \in Paths
    BY FrontDiffers
  <2>3. BeganTree'
    BY <1>1, <2>2, ShownIs DEF IInv, BeganTree
  <2>4. QED
    BY <2>1, <2>3
<1>9. VerifyWalk'
  <2>1. \A t \in Ahead' : t.pass \in {"verify", "recheck"} /\ t.path \in PlannedPaths
    BY <1>3, <1>5, <1>6 DEF Whole, PlannedPaths, Task
  <2>2. \A p \in PlannedPaths : Awaited(p)'
    BY <1>3, <1>4, PathParts DEF Awaited
  <2>3. checked' = {}
    BY <1>1 DEF IInv, StreamWalk
  <2>4. QED
    BY <1>2, <1>4, <2>1, <2>2, <2>3 DEF VerifyWalk
<1>10. PlanWalk' /\ StreamWalk' /\ Afterwards'
  BY <1>1, <1>6, <1>7, <1>8 DEF PlanWalk, StreamWalk, Afterwards
<1>11. QED
  BY <1>1, <1>2, <1>4, <1>5, <1>8, <1>9, <1>10, WalkMoves DEF IInv, TypeOK

\* Nothing is awaited any more: everything planned was compared.
LEMMA VerifiedKeeps == IInv /\ Verified => IInv'
<1> SUFFICES ASSUME IInv, Verified PROVE IInv'
  OBVIOUS
<1>1. /\ UNCHANGED <<call, todo, planned, sent, checked, began>> /\ UNCHANGED host
      /\ phase = "verify" /\ phase' = "verified" /\ call.at = "next" /\ todo = <<>>
  BY DEF Verified, books, history
<1>2. ~Active /\ ~Active' /\ call' = Rest /\ Rest \in CallState /\ Shape(Rest) /\ Watched(Rest)
  BY <1>1, BetweenCalls DEF Active
<1>3. Ahead = {}
  BY <1>1, NothingAhead
<1>4. /\ PlannedPaths' = PlannedPaths /\ PlannedFiles' = PlannedFiles /\ Rooted'
  BY <1>1 DEF IInv, Rooted, Named, PlannedPaths, PlannedFiles
<1>5. checked = PlannedPaths
  BY <1>1, <1>2, <1>3 DEF IInv, VerifyWalk, Awaited
<1>6. Whole' /\ Sent' /\ BeganTree'
  BY <1>1, <1>4 DEF IInv, Afterwards, Whole, Sent, BeganTree
<1>7. PlanWalk' /\ StreamWalk' /\ VerifyWalk' /\ Afterwards'
  BY <1>1, <1>2, <1>4, <1>5, <1>6 DEF PlanWalk, StreamWalk, VerifyWalk, Afterwards
<1>8. QED
  BY <1>1, <1>2, <1>4, <1>7, WalkMoves DEF IInv, TypeOK

\* Every set of natural numbers that is not empty has a least element: the
\* numbers below all of it would otherwise be as many as their successors,
\* which lack 0.
LEMMA Least ==
  ASSUME NEW T, T \subseteq Nat, T # {}
  PROVE  \E n \in T : \A m \in T : n <= m
<1> SUFFICES ASSUME \A n \in T : \E m \in T : m < n PROVE FALSE
  OBVIOUS
<1> DEFINE S == {j \in Nat : \A m \in T : j <= m}
           succ == [j \in S |-> j + 1]
<1>1. PICK k \in T : TRUE
  OBVIOUS
<1>2. S \in SUBSET Nat /\ k \in Nat /\ \A j \in S : j <= k
  BY <1>1
<1>3. IsFiniteSet(S)
  <2> HIDE DEF S
  <2> QED BY <1>2, FS_BoundedSetOfNaturals
<1>4. 0 \in S
  OBVIOUS
<1>5. \A j \in S : j + 1 \in S \ {0}
  OBVIOUS
<1>6. succ \in [S -> S \ {0}]
  BY <1>5
<1>7. /\ IsFiniteSet(S \ {0})
      /\ Cardinality(S \ {0}) = Cardinality(S) - 1
      /\ Cardinality(S) \in Nat
  BY <1>3, <1>4, FS_RemoveElement, FS_CardinalityType
<1>8. PICK i, j \in S : i # j /\ succ[i] = succ[j]
  <2> HIDE DEF S, succ
  <2>1. Cardinality(S \ {0}) < Cardinality(S)
    BY <1>7
  <2>2. QED
    BY <1>3, <1>6, <1>7, <2>1, FS_PigeonHole
<1>9. QED
  BY <1>8

\* What leads to a path, one name after the other.
LEMMA PathSteps ==
  ASSUME NEW q \in Paths
  PROVE  /\ Len(q) \in Nat /\ SubSeq(q, 1, Len(q)) = q
         /\ \A p \in Components(q) : Len(p) \in 0..Len(q) /\ p = SubSeq(q, 1, Len(p))
         /\ \A n \in 1..Len(q) : /\ SubSeq(q, 1, n) \in Components(q)
                                 /\ SubSeq(q, 1, n) # Root
                                 /\ Front(SubSeq(q, 1, n)) = SubSeq(q, 1, n - 1)
<1>1. q \in Seq(Names) /\ Len(q) \in Nat
  BY PathParts
<1>2. SubSeq(q, 1, Len(q)) = q
  BY <1>1, SubSeqFull
<1>3. ASSUME NEW n \in 0..Len(q)
      PROVE  SubSeq(q, 1, n) \in Seq(Names) /\ Len(SubSeq(q, 1, n)) = n
  <2>1. \A i \in 1..n : q[i] \in Names
    BY <1>1, ElementOfSeq
  <2>2. \A k \in Nat : (IF 1 <= k THEN k - 1 + 1 ELSE 0) = k
    OBVIOUS
  <2>3. /\ SubSeq(q, 1, n) \in Seq(Names)
        /\ Len(SubSeq(q, 1, n)) = IF 1 <= n THEN n - 1 + 1 ELSE 0
    BY <1>1, <2>1, SubSeqProperties
  <2>4. QED
    BY <1>1, <2>2, <2>3
<1>4. \A p \in Components(q) : Len(p) \in 0..Len(q) /\ p = SubSeq(q, 1, Len(p))
  BY <1>3 DEF Components
<1>5. ASSUME NEW n \in 1..Len(q)
      PROVE  /\ SubSeq(q, 1, n) \in Components(q)
             /\ SubSeq(q, 1, n) # Root
             /\ Front(SubSeq(q, 1, n)) = SubSeq(q, 1, n - 1)
  <2>1. n \in 0..Len(q) /\ n - 1 \in 0..Len(q) /\ n # 0
    BY <1>1
  <2>2. SubSeq(q, 1, n) \in Components(q)
    BY <2>1 DEF Components
  <2>3. SubSeq(q, 1, n) # Root
    BY <1>3, <2>1 DEF Root
  <2>4. Front(SubSeq(q, 1, n)) = SubSeq(SubSeq(q, 1, n), 1, n - 1)
    BY <1>3, <2>1 DEF Front
  <2>5. CASE n = 1
    BY <1>3, <2>1, <2>2, <2>3, <2>4, <2>5, SubSeqEmpty
  <2>6. CASE n # 1
    <3>1. n - 1 \in 1..n
      BY <1>1, <2>6
    <3>2. SubSeq(SubSeq(q, 1, n), 1, n - 1) = SubSeq(q, 1 + 1 - 1, 1 + (n - 1) - 1)
      BY <1>1, <2>1, <2>6, <3>1, SubSeqOfSubSeq
    <3>3. 1 + 1 - 1 = 1 /\ 1 + (n - 1) - 1 = n - 1
      BY <1>1
    <3>4. QED
      BY <2>2, <2>3, <2>4, <3>2, <3>3
  <2>7. QED
    BY <2>5, <2>6
<1>6. QED
  BY <1>1, <1>2, <1>4, <1>5

\* On the way from one planned path to another below it, the first directory names
\* the next path.
LEMMA Leads ==
  ASSUME TypeOK, Rooted, NEW q \in PlannedPaths, NEW p \in Components(q), p # q
  PROVE  planned[p] # None /\ \E r \in Components(q) : r \in planned[p].children
<1> DEFINE at(n) == SubSeq(q, 1, n)
           T == {n \in Nat : n \in (Len(p) + 1)..Len(q) /\ planned[at(n)] # None}
<1>1. q \in Paths
  BY DEF PlannedPaths
<1>2. /\ Len(q) \in Nat /\ at(Len(q)) = q /\ Len(p) \in 0..Len(q) /\ p = at(Len(p))
      /\ \A n \in 1..Len(q) : at(n) \in Components(q) /\ at(n) # Root /\ Front(at(n)) = at(n - 1)
  BY <1>1, PathSteps
<1>3. Components(q) \subseteq Paths
  BY <1>1, PathParts
<1>4. Len(q) \in T
  <2>1. Len(p) # Len(q)
    BY <1>2
  <2>2. Len(q) \in (Len(p) + 1)..Len(q)
    <3>1. Len(p) \in 0..Len(q) /\ Len(q) \in Nat
      BY <1>2
    <3>2. QED
      BY <2>1, <3>1
  <2>3. QED
    BY <1>2, <2>2 DEF PlannedPaths
<1>5. PICK m \in T : \A k \in T : m <= k
  <2>1. T \subseteq Nat /\ T # {}
    BY <1>4
  <2> HIDE DEF T
  <2>2. QED
    BY <2>1, Least
<1>6. m \in 1..Len(q) /\ Len(p) < m /\ planned[at(m)] # None
  BY <1>2, <1>5
<1> HIDE DEF at
<1>7. /\ at(m) \in Components(q) /\ Front(at(m)) = at(m - 1)
      /\ planned[at(m - 1)] # None /\ at(m) \in planned[at(m - 1)].children
  <2>1. Named(at(m))
    BY <1>2, <1>3, <1>6 DEF Rooted, PlannedPaths
  <2>2. QED
    BY <1>2, <1>6, <2>1 DEF Named
<1>8. m - 1 = Len(p)
  <2> SUFFICES ASSUME m - 1 # Len(p) PROVE FALSE
    OBVIOUS
  <2>1. m - 1 \in Nat /\ m - 1 \in (Len(p) + 1)..Len(q)
    BY <1>2, <1>6
  <2>2. m - 1 \in T
    BY <1>7, <2>1
  <2>3. m <= m - 1
    BY <1>5, <2>2
  <2>4. QED
    BY <1>6, <2>3
<1>9. QED
  BY <1>2, <1>7, <1>8

\* A directory is compared, and what it names is to be; a file is compared, and
\* nothing is below it.
LEMMA VerifyKeeps == IInv /\ (VerifyDirectory \/ VerifyFile) => IInv'
<1> SUFFICES ASSUME IInv, VerifyDirectory \/ VerifyFile PROVE IInv'
  OBVIOUS
<1>1. PICK p : p = call.path
  OBVIOUS
<1>2. Active /\ call.at \in Verifying
  BY DEF VerifyDirectory, VerifyFile, At, Active, Verifying
<1>3. CASE \E v : Throw(v)
  BY <1>2, <1>3, ThrowKeeps
<1>4. CASE ~\E v : Throw(v)
  <2>1. /\ UNCHANGED <<phase, planned, sent, began>> /\ UNCHANGED host /\ call' = Rest
        /\ checked' = checked \cup {p}
    BY <1>1, <1>4 DEF VerifyDirectory, VerifyFile, GoOn
  <2>2. phase = "verify" /\ p \in PlannedPaths /\ p \in Paths
    BY <1>1, <1>2, ActiveFacts DEF Verifying, Reading, Unwinding
  <2>3. Rest \in CallState /\ Shape(Rest) /\ Watched(Rest) /\ ~Active'
    BY <2>1, Resting DEF Active
  <2>4. /\ PlannedPaths' = PlannedPaths /\ PlannedFiles' = PlannedFiles /\ Rooted'
    BY <2>1 DEF IInv, Rooted, Named, PlannedPaths, PlannedFiles
  <2>5. planned[p] \in Plans /\ planned[p].children \in SUBSET Paths
    BY <2>2, SMTT(30) DEF IInv, TypeOK, PlannedPaths, Plans
  <2>6. /\ todo' \in Seq(TaskState) /\ Ahead \subseteq Ahead'
        /\ \A t \in Ahead' \ Ahead :
             \/ t.pass = "verify" /\ t.path \in planned[p].children
             \/ t.pass = "recheck" /\ t.path = p
        /\ call.pass = "verify" /\ planned[p].kind # "file" =>
             \A c \in planned[p].children : Task("verify", c) \in Ahead'
    <3>1. CASE todo' = todo /\ (call.pass # "verify" \/ planned[p].kind = "file")
      BY <3>1 DEF IInv, TypeOK, Ahead
    <3>2. CASE todo' = Tasks("verify", planned[p].children) \o <<Task("recheck", p)>> \o todo
      <4>1. PICK a : a = Tasks("verify", planned[p].children)
        OBVIOUS
      <4>2. PICK b : b = <<Task("recheck", p)>>
        OBVIOUS
      <4>3. /\ a \in Seq(TaskState)
            /\ Elements(a) = {Task("verify", c) : c \in planned[p].children}
        BY <2>5, <4>1, TasksAre DEF Passes
      <4>4. b \in Seq(TaskState) /\ Elements(b) = {Task("recheck", p)}
        <5>1. Task("recheck", p) \in TaskState
          BY <2>2 DEF Task, TaskState, Passes
        <5>2. Elements(b) = {b[n] : n \in 1..1}
          BY <4>2 DEF Elements
        <5>3. QED
          BY <4>2, <5>1, <5>2
      <4>5. PICK ab : ab = a \o b
        OBVIOUS
      <4>6. ab \in Seq(TaskState) /\ Elements(ab) = Elements(a) \cup Elements(b)
        BY <4>3, <4>4, <4>5, Joined
      <4>7. todo' = ab \o todo
        BY <3>2, <4>1, <4>2, <4>5
      <4>8. todo' \in Seq(TaskState) /\ Ahead' = Elements(ab) \cup Ahead
        <5>1. todo \in Seq(TaskState)
          BY DEF IInv, TypeOK
        <5>2. PICK t : t = ab \o todo
          OBVIOUS
        <5>3. t \in Seq(TaskState) /\ Elements(t) = Elements(ab) \cup Elements(todo)
          BY <4>6, <5>1, <5>2, Joined
        <5>4. QED
          BY <4>7, <5>2, <5>3 DEF Ahead, Elements
      <4>9. QED
        BY <4>3, <4>4, <4>6, <4>8 DEF Task
    <3>3. call.at = "verifyFile" => planned[p].kind = "file"
      BY <1>1, <1>2, <2>2 DEF IInv, VerifyWalk
    <3>4. QED
      BY <1>1, <1>4, <3>1, <3>2, <3>3 DEF VerifyDirectory, VerifyFile, At
  <2>7. Whole /\ Whole' /\ Afterwards'
    <3>1. Whole /\ Sent /\ BeganTree
      BY <2>2 DEF IInv, Afterwards
    <3>2. Whole'
      BY <2>1, <2>4, <3>1 DEF Whole
    <3>3. Sent' /\ BeganTree'
      BY <2>1, <2>4, <3>1 DEF Sent, BeganTree
    <3>4. QED
      BY <2>1, <2>2, <3>1, <3>2, <3>3 DEF Afterwards
  <2>8. \A t \in Ahead' : t.pass \in {"verify", "recheck"} /\ t.path \in PlannedPaths
    <3>1. \A c \in planned[p].children : c \in PlannedPaths
      BY <2>2, <2>5, <2>7 DEF Whole, PlannedPaths
    <3>2. QED
      BY <2>2, <2>6, <3>1 DEF IInv, VerifyWalk
  <2>9. ASSUME NEW q \in PlannedPaths \ checked'
        PROVE  Awaited(q)'
    <3>1. PICK c \in Components(q) :
            Task("verify", c) \in Ahead \/ (Active /\ call.pass = "verify" /\ call.path = c)
      BY <2>1, <2>2, <2>9 DEF IInv, VerifyWalk, Awaited
    <3>2. CASE Task("verify", c) \in Ahead
      BY <2>6, <3>2 DEF Awaited
    <3>3. CASE call.pass = "verify" /\ c = p
      <4>1. q # p
        BY <2>1, <2>9
      <4>2. PICK r \in Components(q) : r \in planned[p].children
        BY <3>3, <4>1, Leads DEF IInv
      <4>3. planned[p].kind # "file"
        BY <2>2, <4>2 DEF IInv, Rooted
      <4>4. QED
        BY <2>6, <3>3, <4>2, <4>3 DEF Awaited
    <3>4. QED
      BY <1>1, <3>1, <3>2, <3>3
  <2>10. VerifyWalk'
    <3>1. checked' \subseteq PlannedPaths /\ checked' \subseteq Paths
      BY <2>1, <2>2 DEF IInv, VerifyWalk, TypeOK
    <3>2. QED
      BY <2>3, <2>4, <2>8, <2>9, <3>1 DEF VerifyWalk
  <2>11. PlanWalk' /\ StreamWalk'
    BY <2>1, <2>2 DEF PlanWalk, StreamWalk
  <2>12. checked' \subseteq Paths
    BY <2>1, <2>2 DEF IInv, TypeOK
  <2>13. QED
    BY <2>1, <2>2, <2>3, <2>4, <2>6, <2>7, <2>10, <2>11, <2>12, WalkMoves DEF IInv, TypeOK
<1>5. QED
  BY <1>3, <1>4

\* A path is planned: a directory, whose names become tasks, or a file.
LEMMA PlanMoves ==
  ASSUME IInv, phase = "plan", Active, UNCHANGED host, UNCHANGED phase,
         UNCHANGED <<sent, checked, began>>, call' = Rest,
         NEW e \in Plans, planned' = [planned EXCEPT ![call.path] = e],
         e.children \subseteq Below(call.path), e.kind = "file" => e.children = {},
         todo' \in Seq(TaskState), Once(todo) => Once(todo'),
         Ahead' = {Task("plan", c) : c \in e.children} \cup Ahead
  PROVE  IInv'
<1>1. PICK p : p = call.path
  OBVIOUS
<1>2. p \in Paths /\ Fresh(p) /\ Task("plan", p) \notin Ahead /\ PlanTasks
  BY <1>1, ActiveFacts DEF IInv, PlanWalk, Fresh, Named
<1>3. Rest \in CallState /\ Shape(Rest) /\ Watched(Rest) /\ ~Active'
  BY Resting DEF Active
<1>4. /\ planned' \in [Paths -> Plans \cup {None}] /\ planned'[p] = e /\ e # None
      /\ \A q \in Paths \ {p} : planned'[q] = planned[q]
      /\ planned[p] = None
  BY <1>1, <1>2, NoneAssumption DEF IInv, TypeOK, Fresh
<1>5. PlannedPaths' = PlannedPaths \cup {p} /\ p \notin PlannedPaths
  BY <1>2, <1>4 DEF PlannedPaths
<1>6. ASSUME NEW q \in Paths, Named(q)
      PROVE  Named(q)' /\ Front(q) # p
  <2>1. Front(q) \in Paths /\ planned[Front(q)] # None
    BY <1>6, FrontDiffers DEF Named
  <2>2. QED
    BY <1>4, <1>6, <2>1 DEF Named
<1>7. ASSUME NEW c \in e.children
      PROVE  c \in Paths /\ c # Root /\ c # p /\ Front(c) = p /\ planned'[c] = None /\ Named(c)'
  <2>1. c \in Paths /\ c # Root /\ Front(c) = p
    BY <1>1, <1>7 DEF Below
  <2>2. c # p
    BY <2>1, FrontDiffers
  <2>3. ~Named(c)
    BY <1>4, <2>1 DEF Named
  <2>4. planned[c] = None
    BY <2>1, <2>3 DEF IInv, Rooted, PlannedPaths
  <2>5. Named(c)'
    BY <1>4, <1>7, <2>1 DEF Named
  <2>6. planned'[c] = None
    BY <1>4, <2>1, <2>2, <2>4
  <2>7. QED
    BY <2>1, <2>2, <2>5, <2>6
<1>8. Rooted'
  <2>1. ASSUME NEW q \in PlannedPaths
        PROVE  /\ planned'[q].children \subseteq Below(q)
               /\ planned'[q].kind = "file" => planned'[q].children = {}
               /\ q # Root => Named(q)'
    BY <1>4, <1>5, <1>6, <2>1 DEF IInv, Rooted, PlannedPaths
  <2>2. p # Root => Named(p)'
    BY <1>2, <1>6 DEF Fresh
  <2>3. QED
    BY <1>1, <1>4, <1>5, <2>1, <2>2 DEF Rooted, Below
<1>9. PlanTasks'
  <2>1. ASSUME NEW t \in Ahead
        PROVE  t.pass = "plan" /\ t.path # Root /\ planned'[t.path] = None /\ Named(t.path)'
    <3>1. t \in TaskState /\ t.pass = "plan" /\ t.path # Root /\ Fresh(t.path)
      <4>1. Ahead \subseteq TaskState
        <5>1. todo \in Seq(TaskState)
          BY DEF IInv, TypeOK
        <5>2. QED
          BY <5>1 DEF Ahead, Elements
      <4>2. QED
        BY <1>2, <2>1, <4>1 DEF PlanTasks
    <3>2. t.path \in Paths /\ t = Task("plan", t.path)
      BY <3>1 DEF TaskState, Task
    <3>3. t.path # p
      BY <1>2, <3>2
    <3>4. QED
      BY <1>4, <1>6, <3>1, <3>2, <3>3 DEF Fresh
  <2>2. ASSUME NEW t \in Ahead'
        PROVE  t.pass = "plan" /\ t.path # Root /\ Fresh(t.path)'
    <3>1. CASE t \in Ahead
      BY <2>1, <3>1 DEF Fresh, Named
    <3>2. CASE \E c \in e.children : t = Task("plan", c)
      <4>1. PICK c \in e.children : t = Task("plan", c)
        BY <3>2
      <4>2. t.pass = "plan" /\ t.path = c
        BY <4>1 DEF Task
      <4>3. QED
        BY <1>7, <4>2 DEF Fresh, Named
    <3>3. QED
      BY <2>2, <3>1, <3>2
  <2>3. Once(todo')
    BY <1>2 DEF PlanTasks
  <2>4. QED
    BY <2>2, <2>3 DEF PlanTasks, Once
<1>10. PlanWalk'
  <2>1. planned'[Root] # None
    BY <1>1, <1>2, <1>4, PathsAssumption DEF IInv, PlanWalk
  <2>2. ASSUME NEW q \in PlannedPaths, NEW c \in planned[q].children
        PROVE  planned'[c] # None \/ Task("plan", c) \in Ahead'
    <3>1. c \in Paths
      BY <2>2 DEF IInv, TypeOK, PlannedPaths, Plans
    <3>2. planned[c] # None \/ Task("plan", c) \in Ahead \/ call.path = c
      BY <2>2 DEF IInv, PlanWalk
    <3>3. QED
      BY <1>1, <1>4, <3>1, <3>2
  <2>3. \A q \in PlannedPaths' : \A c \in planned'[q].children :
          planned'[c] # None \/ Task("plan", c) \in Ahead'
    BY <1>4, <1>5, <2>2 DEF PlannedPaths
  <2>4. (\A q \in Paths : sent'[q] = <<>>) /\ checked' = {}
    BY DEF IInv, PlanWalk
  <2>5. QED
    BY <1>3, <1>9, <2>1, <2>3, <2>4 DEF PlanWalk
<1>11. StreamWalk' /\ VerifyWalk' /\ Afterwards'
  BY DEF StreamWalk, VerifyWalk, Afterwards
<1>12. QED
  BY <1>3, <1>4, <1>8, <1>10, <1>11, WalkMoves DEF IInv, TypeOK

\* A listing that the directory confirms is planned, or compared with the plan.
LEMMA RelistKeeps == IInv /\ Relist => IInv'
<1> SUFFICES ASSUME IInv, Relist PROVE IInv'
  OBVIOUS
<1>1. Active /\ call.at = "relist" /\ call.at \in Listed /\ names[call.path] # None
  BY LookedAt DEF Relist, Listed
<1>2. CASE \E v : Throw(v)
  BY <1>1, <1>2, ThrowKeeps
<1>3. CASE call.pass = "plan"
  <2>1. PICK e : e = [rev |-> call.rev, kind |-> "directory", data |-> <<>>, children |-> call.seen]
    OBVIOUS
  <2>2. /\ UNCHANGED host /\ UNCHANGED <<phase, sent, checked, began>> /\ call' = Rest
        /\ planned' = [planned EXCEPT ![call.path] = e]
        /\ todo' = Tasks("plan", call.seen) \o todo
    BY <1>3, <2>1 DEF Relist, GoOn, history
  <2>3. phase = "plan" /\ call.seen \in SUBSET Paths /\ call.path \in Paths
    BY <1>1, <1>3, ActiveFacts DEF CallState, Listed, Reading, Unwinding
  <2>4. e \in Plans /\ e.children = call.seen /\ e.kind # "file"
    BY <1>1, <2>1, <2>3, HeldIs DEF Plans
  <2>5. call.seen \subseteq Below(call.path)
    BY DEF IInv, Shape
  <2>6. PICK a : a = Tasks("plan", call.seen)
    OBVIOUS
  <2>7. /\ a \in Seq(TaskState) /\ Once(a)
        /\ Elements(a) = {Task("plan", c) : c \in call.seen}
    BY <2>3, <2>6, TasksAre DEF Passes
  <2>8. PICK t : t = a \o todo
    OBVIOUS
  <2>9. todo \in Seq(TaskState)
    BY DEF IInv, TypeOK
  <2>10. Elements(a) \cap Elements(todo) = {}
    <3>1. ASSUME NEW c \in call.seen, Task("plan", c) \in Elements(todo)
          PROVE  FALSE
      <4>1. Fresh(c) /\ c # Root
        BY <2>3, <3>1 DEF IInv, PlanWalk, PlanTasks, Ahead, Task
      <4>2. Front(c) = call.path
        BY <2>5, <3>1 DEF Below
      <4>3. planned[call.path] = None
        BY <1>1, <2>3 DEF IInv, PlanWalk, Fresh
      <4>4. QED
        BY <4>1, <4>2, <4>3 DEF Fresh, Named
    <3>2. QED
      BY <2>7, <3>1
  <2>11. /\ t \in Seq(TaskState) /\ Elements(t) = Elements(a) \cup Elements(todo)
         /\ Once(todo) => Once(t)
    BY <2>7, <2>8, <2>9, <2>10, Joined
  <2>12. todo' = t /\ Ahead' = {Task("plan", c) : c \in e.children} \cup Ahead
    <3>1. todo' = t
      BY <2>2, <2>6, <2>8
    <3>2. Ahead' = Elements(t)
      BY <3>1 DEF Ahead, Elements
    <3>3. QED
      BY <2>4, <2>7, <2>11, <3>1, <3>2 DEF Ahead
  <2>13. QED
    BY <1>1, <2>2, <2>3, <2>4, <2>5, <2>11, <2>12, PlanMoves
<1>4. CASE call.pass # "plan" /\ ~\E v : Throw(v)
  <2>1. phase = "verify" /\ call.path \in PlannedPaths /\ call.path \in Paths
    BY <1>1, <1>4, ActiveFacts DEF Listed, Reading, Unwinding
  <2>2. PICK rev : rev = planned[call.path].rev
    OBVIOUS
  <2>3. rev \in Revisions
    BY <2>1, <2>2 DEF IInv, TypeOK, PlannedPaths, Plans
  <2>4. PICK r : r = Call("verifyDirectory", call.path, call.pass, rev)
    OBVIOUS
  <2>5. call' = r /\ UNCHANGED host /\ UNCHANGED phase /\ UNCHANGED Books
    BY <1>4, <2>2, <2>4 DEF Relist, GoOn, Books, books, history
  <2>6. "verifyDirectory" \in Verifying /\ "verifyDirectory" \notin {"next", "verifyFile"}
    BY DEF Verifying
  <2>7. /\ r \in CallState /\ r.at = "verifyDirectory" /\ r.path = call.path
        /\ r.pass = call.pass /\ r.rev = rev /\ Shape(r) /\ Watched(r)
    BY <1>1, <2>1, <2>3, <2>4, <2>6, ActiveFacts, Calling DEF IInv, TypeOK
  <2>8. QED
    BY <1>1, <2>1, <2>2, <2>5, <2>6, <2>7, CallMoves
<1>5. QED
  BY <1>2, <1>3, <1>4

\* A file that is closed is planned, or was sent as it was planned.
LEMMA CloseFileKeeps == IInv /\ CloseFile => IInv'
<1> SUFFICES ASSUME IInv, CloseFile PROVE IInv'
  OBVIOUS
<1>1. Active /\ call.at = "close" /\ call.at \in Reading /\ call.path \in Paths
  BY ActiveFacts DEF CloseFile, Active, Reading
<1>2. phase \in {"plan", "stream"}
  BY <1>1, ActiveFacts DEF Listed, Reading, Unwinding, Verifying
<1>3. CASE phase' = "failed"
  <2>1. UNCHANGED host /\ UNCHANGED Books /\ call' = Rest
    BY <1>2, <1>3 DEF CloseFile, GoOn, Books, books, history
  <2>2. QED
    BY <1>3, <2>1, FailureKeeps
<1>4. CASE phase = "plan" /\ phase' # "failed"
  <2>1. PICK e : e = [rev |-> call.rev, kind |-> "file", data |-> call.bytes, children |-> {}]
    OBVIOUS
  <2>2. /\ UNCHANGED host /\ UNCHANGED <<phase, todo, sent, checked, began>> /\ call' = Rest
        /\ planned' = [planned EXCEPT ![call.path] = e]
    BY <1>1, <1>4, <2>1, ActiveFacts DEF CloseFile, GoOn, history
  <2>3. e \in Plans /\ e.children = {}
    BY <1>1, <2>1, HeldIs, ActiveFacts DEF Plans, CallState
  <2>4. todo' \in Seq(TaskState) /\ Ahead' = Ahead /\ (Once(todo) => Once(todo'))
    BY <2>2 DEF IInv, TypeOK, Ahead
  <2>5. QED
    BY <1>1, <1>4, <2>2, <2>3, <2>4, PlanMoves
<1>5. CASE phase = "stream" /\ phase' # "failed"
  <2>1. /\ UNCHANGED host /\ UNCHANGED Books /\ UNCHANGED phase /\ call' = Rest
    BY <1>1, <1>5, ActiveFacts DEF CloseFile, GoOn, Books, books, history
  <2>2. /\ UNCHANGED <<todo, planned, sent, checked, began>>
    BY <2>1 DEF Books
  <2>3. Rest \in CallState /\ Shape(Rest) /\ Watched(Rest) /\ ~Active'
    BY <2>1, Resting DEF Active
  <2>4. /\ PlannedPaths' = PlannedPaths /\ PlannedFiles' = PlannedFiles /\ Rooted' /\ Ahead' = Ahead
    BY <2>2 DEF IInv, Rooted, Named, PlannedPaths, PlannedFiles, Ahead
  <2>5. /\ Whole' /\ call.path \in PlannedFiles /\ call.path \in PlannedPaths
        /\ call.bytes = planned[call.path].data
    BY <1>1, <1>5, <2>2, <2>4 DEF IInv, StreamWalk, Whole, PlannedFiles
  <2>6. sent[call.path] = planned[call.path].data
    BY <1>1, <1>5, <2>5 DEF IInv, StreamWalk
  <2>7. StreamWalk'
    BY <1>5, <2>1, <2>2, <2>3, <2>4, <2>5, <2>6 DEF IInv, StreamWalk
  <2>8. PlanWalk' /\ VerifyWalk' /\ Afterwards'
    BY <1>5, <2>1 DEF PlanWalk, VerifyWalk, Afterwards
  <2>9. QED
    BY <1>5, <2>1, <2>2, <2>3, <2>4, <2>7, <2>8, WalkMoves DEF IInv, TypeOK
<1>6. QED
  BY <1>2, <1>3, <1>4, <1>5

\* A unit more is the beginning of what it was read from.
LEMMA StartsWithMore ==
  ASSUME NEW S, NEW some \in Seq(S), NEW all \in Seq(S), Starts(some, all),
         Len(some) + 1 \in DOMAIN all
  PROVE  Starts(some \o <<all[Len(some) + 1]>>, all)
<1> DEFINE n == Len(some) + 1
           j == some \o <<all[n]>>
<1>1. Len(some) \in Nat /\ Len(all) \in Nat /\ n \in 1..Len(all)
  OBVIOUS
<1>2. all[n] \in S
  BY <1>1
<1>3. <<all[n]>> \in Seq(S) /\ Len(<<all[n]>>) = 1 /\ <<all[n]>>[1] = all[n]
  BY <1>2
<1>4. /\ Len(j) = Len(some) + 1
      /\ \A i \in 1..(Len(some) + 1) :
           j[i] = IF i <= Len(some) THEN some[i] ELSE <<all[n]>>[i - Len(some)]
  BY <1>3, ConcatProperties
<1>5. \A i \in 1..n : i \notin 1..Len(some) => i = n /\ i - Len(some) = 1
  BY <1>1
<1>6. \A i \in 1..n : j[i] = all[i]
  <2> SUFFICES ASSUME NEW i \in 1..n PROVE j[i] = all[i]
    OBVIOUS
  <2>1. CASE i \in 1..Len(some)
    <3>1. i <= Len(some)
      BY <1>1, <2>1
    <3>2. QED
      BY <1>4, <2>1, <3>1 DEF Starts
  <2>2. CASE i \notin 1..Len(some)
    <3>1. i = n /\ i - Len(some) = 1 /\ ~(i <= Len(some))
      BY <1>1, <1>5, <2>2
    <3>2. QED
      BY <1>3, <1>4, <3>1
  <2>3. QED
    BY <2>1, <2>2
<1>7. QED
  BY <1>1, <1>4, <1>6 DEF Starts

\* What was read is kept, and is sent when the file is.
LEMMA AgainKeeps == IInv /\ Again => IInv'
<1> SUFFICES ASSUME IInv, Again PROVE IInv'
  OBVIOUS
<1>1. PICK p : p = call.path
  OBVIOUS
<1>2. /\ Active /\ call.at = "again" /\ call.at \in Reading /\ call.at \notin Listed
      /\ p \in Paths /\ call.piece # <<>>
  BY <1>1, ActiveFacts DEF Again, At, Active, Reading, Listed
<1>3. CASE \E v : Throw(v)
  BY <1>2, <1>3, ThrowKeeps
<1>4. CASE ~\E v : Throw(v)
  <2>1. PICK bytes : bytes = call.bytes \o call.piece
    OBVIOUS
  <2>2. PICK guard : guard = [q \in Components(p) |-> names[q]]
    OBVIOUS
  <2>3. PICK r : r = [call EXCEPT !.at = "lstat", !.bytes = bytes, !.piece = <<>>, !.guard = guard]
    OBVIOUS
  <2>4. /\ call' = r /\ UNCHANGED host /\ UNCHANGED <<phase, todo, planned, checked, began>>
        /\ sent' = IF call.pass = "stream" THEN [sent EXCEPT ![p] = bytes] ELSE sent
    BY <1>1, <1>4, <2>1, <2>2, <2>3 DEF Again, GoOn, history
  <2>5. /\ call.bytes \in Seq(Units) /\ call.piece \in Seq(Units) /\ bytes \in Seq(Units)
        /\ bytes # <<>>
    <3>1. call.bytes \in Seq(Units) /\ call.piece \in Seq(Units)
      BY <1>2, ActiveFacts DEF CallState
    <3>2. PICK a : a = call.bytes
      OBVIOUS
    <3>3. PICK b : b = call.piece
      OBVIOUS
    <3>4. a \o b \in Seq(Units) /\ Len(a \o b) = Len(a) + Len(b)
      BY <3>1, <3>2, <3>3, ConcatProperties
    <3>5. Len(a) \in Nat /\ Len(b) \in Nat \ {0}
      BY <1>2, <3>1, <3>2, <3>3
    <3>6. a \o b # <<>>
      BY <3>4, <3>5
    <3>7. QED
      BY <2>1, <3>1, <3>2, <3>3, <3>4, <3>6
  <2>6. guard \in Guards
    <3>1. guard \in [Components(p) -> Inodes \cup {None}]
      BY <1>2, <2>2, PathParts DEF IInv, TypeOK
    <3>2. QED
      BY <1>2, <3>1 DEF Guards
  <2>7. /\ r \in CallState /\ r.at = "lstat" /\ r.path = p /\ r.pass = call.pass
        /\ r.rev = call.rev /\ r.seen = call.seen /\ r.due = call.due /\ r.bytes = bytes
        /\ r.handle = call.handle
    <3>1. call \in CallState
      BY <1>2, ActiveFacts
    <3>2. "lstat" \in Steps /\ <<>> \in Seq(Units)
      BY DEF Steps, Reading
    <3>3. r \in CallState
      BY <2>3, <2>5, <2>6, <3>1, <3>2 DEF CallState
    <3>4. /\ r.at = "lstat" /\ r.path = p /\ r.pass = call.pass
          /\ r.rev = call.rev /\ r.seen = call.seen /\ r.due = call.due /\ r.bytes = bytes
          /\ r.handle = call.handle
      BY <1>1, <2>3, <3>1 DEF CallState
    <3>5. QED
      BY <3>3, <3>4
  <2>8. "lstat" \in Reading /\ "lstat" \notin Listed \cup Verifying \cup Unwinding
    BY DEF Reading, Listed, Verifying, Unwinding
  <2>9. Shape(r)
    BY <1>1, <2>7, <2>8 DEF IInv, Shape
  <2>10. Held(r) /\ ListingIs(r)
    BY <1>2, <2>7, <2>8 DEF IInv, Watched, Held, ListingIs
  <2>11. ScanIs(r)
    <3> SUFFICES ASSUME Same(call)
                 PROVE  LET data == inode[call.rev.ino].data IN
                        call.rev.size = Len(data) /\ Starts(bytes, data)
      BY <2>7 DEF ScanIs, Same
    <3>1. PICK data : data = inode[call.rev.ino].data
      OBVIOUS
    <3>2. data \in Seq(Units)
      BY <1>2, <3>1, HeldIs
    <3>3. PICK n : n = Len(call.bytes) + 1
      OBVIOUS
    <3>4. /\ call.rev.size = Len(data) /\ Starts(call.bytes, data)
          /\ call.piece = IF n \in DOMAIN data THEN <<data[n]>> ELSE <<>>
      BY <1>2, <3>1, <3>3 DEF IInv, Watched, ScanIs
    <3>5. n \in DOMAIN data /\ call.piece = <<data[n]>>
      BY <1>2, <3>4
    <3>6. Starts(bytes, data)
      BY <2>1, <2>5, <3>2, <3>3, <3>4, <3>5, StartsWithMore
    <3>7. QED
      BY <3>1, <3>4, <3>6
  <2>12. Watched(r)
    BY <2>10, <2>11 DEF Watched
  <2>13. phase \in {"plan", "stream"} /\ (phase = "plan" => call.pass = "plan")
         /\ (phase = "stream" => call.pass = "stream")
    BY <1>2, ActiveFacts DEF Listed, Reading, Unwinding, Verifying
  <2>14. CASE phase = "plan"
    <3>1. UNCHANGED Books
      BY <2>4, <2>13, <2>14 DEF Books
    <3>2. r.at # "next" /\ r.at \notin Verifying
      BY <2>7, <2>8
    <3>3. QED
      BY <1>1, <1>2, <2>4, <2>7, <2>9, <2>12, <2>14, <3>1, <3>2, CallMoves
  <2>15. CASE phase = "stream"
    <3>1. /\ sent' = [sent EXCEPT ![p] = bytes] /\ sent' \in [Paths -> Seq(Units)]
          /\ sent'[p] = bytes /\ \A q \in Paths \ {p} : sent'[q] = sent[q]
      BY <1>2, <2>4, <2>5, <2>13, <2>15 DEF IInv, TypeOK
    <3>2. /\ PlannedPaths' = PlannedPaths /\ PlannedFiles' = PlannedFiles /\ Rooted' /\ Ahead' = Ahead
      BY <2>4 DEF IInv, Rooted, Named, PlannedPaths, PlannedFiles, Ahead
    <3>3. Active' /\ PlannedPaths \subseteq Paths /\ PlannedFiles \subseteq Paths
      BY <2>4, <2>7 DEF Active, PlannedPaths, PlannedFiles
    <3>4. Whole'
      BY <2>4, <2>15, <3>2 DEF IInv, StreamWalk, Whole
    <3>5. p \in PlannedFiles
      BY <1>1, <1>2, <2>15 DEF IInv, StreamWalk
    <3>6. \A q \in PlannedFiles' :
            Task("stream", q) \in Ahead' \/ (Active' /\ call'.path = q) \/ sent'[q] = planned'[q].data
      BY <1>1, <2>4, <2>7, <2>15, <3>1, <3>2, <3>3 DEF IInv, StreamWalk
    <3>7. \A q \in PlannedPaths' :
            IF Active' /\ call'.path = q /\ call'.bytes # <<>> THEN sent'[q] = call'.bytes
            ELSE sent'[q] \in {<<>>, planned'[q].data}
      BY <1>1, <2>4, <2>5, <2>7, <2>15, <3>1, <3>2, <3>3 DEF IInv, StreamWalk
    <3>8. (\A t \in Ahead' : t.pass = "stream" /\ t.path \in PlannedFiles) /\ checked' = {}
      BY <2>4, <2>15, <3>2 DEF IInv, StreamWalk
    <3>9. StreamWalk'
      BY <2>4, <2>7, <2>8, <2>13, <2>15, <3>2, <3>4, <3>5, <3>6, <3>7, <3>8 DEF StreamWalk
    <3>10. PlanWalk' /\ VerifyWalk' /\ Afterwards'
      BY <2>4, <2>15 DEF PlanWalk, VerifyWalk, Afterwards
    <3>11. QED
      BY <2>4, <2>7, <2>9, <2>12, <2>15, <3>1, <3>2, <3>9, <3>10, WalkMoves DEF IInv, TypeOK
  <2>16. QED
    BY <2>13, <2>14, <2>15
<1>5. QED
  BY <1>3, <1>4

-----------------------------------------------------------------------------
(* The invariant.                                                          *)
\* The tree a pull starts from is one, and nothing is done yet.
LEMMA InitHolds == Init => IInv
<1> SUFFICES ASSUME Init PROVE IInv
  OBVIOUS
<1>1. PICK t \in Trees :
        /\ names = t.names /\ inode = t.inode
        /\ unused = {i \in Inodes : \A p \in Paths : t.names[p] # i}
  BY DEF Init
<1>2. /\ names \in [Paths -> Inodes \cup {None}] /\ inode \in [Inodes -> Nodes]
      /\ unused \subseteq Inodes /\ clock = 1
  BY <1>1, TreesAssumption DEF Init
<1>3. IsTree
  <2>1. \A p, q \in Paths : names[p] = names[q] => p = q \/ names[p] = None
    BY <1>1, TreesAssumption
  <2>2. ASSUME NEW p \in Paths, names[p] # None
        PROVE  IsNode(p)
    <3>1. /\ Node(p).kind \in Kinds /\ Node(p).stamp = 1
          /\ Node(p).kind # "file" => Node(p).data = <<>>
          /\ p # Root => names[Front(p)] # None /\ Node(Front(p)).kind = "directory"
      BY <1>1, <2>2, TreesAssumption DEF Node
    <3>2. names[p] \notin unused
      BY <1>1
    <3>3. QED
      BY <1>2, <3>1, <3>2 DEF IsNode
  <2>3. QED
    BY <2>1, <2>2 DEF IsTree
<1>4. Root \in Paths
  BY PathsAssumption
<1>5. PICK r : r = Call("inspect", Root, "plan", None)
  OBVIOUS
<1>6. /\ r \in CallState /\ r.at = "inspect" /\ r.path = Root /\ r.pass = "plan"
      /\ Shape(r) /\ Watched(r)
  BY <1>2, <1>4, <1>5, Calling DEF Passes
<1>7. call = r
  BY <1>5 DEF Init
<1>8. /\ todo = <<>> /\ todo \in Seq(TaskState) /\ Ahead = {}
      /\ planned \in [Paths -> Plans \cup {None}] /\ sent \in [Paths -> Seq(Units)]
      /\ checked = {} /\ began \in [Paths -> Views \cup {None}] /\ phase = "plan" /\ fine \in BOOLEAN
      /\ \A p \in Paths : planned[p] = None /\ sent[p] = <<>>
  BY NothingAhead DEF Init
<1>9. TypeOK
  BY <1>2, <1>6, <1>7, <1>8 DEF TypeOK
<1>10. Rooted /\ PlannedPaths = {}
  BY <1>8 DEF Rooted, PlannedPaths
<1>11. PlanWalk
  <2>1. PlanTasks
    BY <1>8 DEF PlanTasks, Once
  <2>2. "inspect" \notin Verifying
    BY DEF Verifying
  <2>3. QED
    BY <1>4, <1>6, <1>7, <1>8, <1>10, <2>1, <2>2 DEF PlanWalk, Active, Fresh
<1>12. StreamWalk /\ VerifyWalk /\ Afterwards
  BY <1>8 DEF StreamWalk, VerifyWalk, Afterwards
<1>13. QED
  BY <1>3, <1>6, <1>7, <1>9, <1>10, <1>11, <1>12 DEF IInv

\* Nothing happens.
LEMMA StutterKeeps == IInv /\ UNCHANGED vars => IInv'
<1> SUFFICES ASSUME IInv, UNCHANGED vars PROVE IInv'
  OBVIOUS
<1>1. UNCHANGED host /\ UNCHANGED <<call, phase, todo, planned, sent, checked, began>>
  BY DEF vars, host
<1>2. PICK r \in CallState : r = call
  BY DEF IInv, TypeOK
<1>3. call' = r /\ Shape(r) /\ Watched(r)
  BY <1>1, <1>2 DEF IInv
<1>4. /\ PlannedPaths' = PlannedPaths /\ PlannedFiles' = PlannedFiles /\ Rooted'
      /\ Ahead' = Ahead /\ (Active' = Active)
  BY <1>1 DEF IInv, Rooted, Named, PlannedPaths, PlannedFiles, Ahead, Active
<1>5. PlanWalk' /\ StreamWalk' /\ VerifyWalk' /\ Afterwards'
  BY <1>1 DEF IInv, PlanWalk, StreamWalk, VerifyWalk, Afterwards, PlanTasks, Ahead,
     Active, Fresh, Named, PlannedPaths, PlannedFiles, Whole, Sent, BeganTree, Awaited
<1>6. QED
  BY <1>1, <1>2, <1>3, <1>4, <1>5, WalkMoves DEF IInv, TypeOK

\* Every step of the bridge keeps the invariant.
LEMMA BridgeKeeps == IInv /\ Bridge => IInv'
BY CallFails, InspectKeeps, ListKeeps, OpenDirectoryKeeps, ReadNameKeeps, EndOfNamesKeeps,
   CloseDirectoryKeeps, RelistKeeps, ScanKeeps, OpenFileKeeps, FstatKeeps, ReadKeeps, AgainKeeps,
   EndOfFileKeeps, CloseFileKeeps, VerifyKeeps, NextTaskKeeps, WalkFails, PreparedKeeps,
   BeginVerifyKeeps, VerifiedKeeps
   DEF Bridge

\* The invariant holds in every state, whatever other programs do to the tree.
THEOREM Invariance == Spec => []IInv
<1>1. Init => IInv
  BY InitHolds
<1>2. IInv /\ [Next]_vars => IInv'
  BY BridgeKeeps, OutsideKeeps, StutterKeeps DEF Next
<1>3. QED
  BY <1>1, <1>2, PTL DEF Spec

\* No handle outlives its call: neither a listing nor a scan leaves one behind, and
\* a throw out of one closes it first.
THEOREM NoHandleLeft == Spec => []HandlesAreClosed
<1>1. IInv => HandlesAreClosed
  <2>1. ASSUME IInv, phase \in {"verified", "failed"} \/ call.at = "next"
        PROVE  call.handle = None
    <3>1. call = Rest
      BY <2>1 DEF IInv, Afterwards, Active, Shape
    <3>2. QED
      BY <3>1, Resting
  <2>2. QED
    BY <2>1 DEF HandlesAreClosed
<1>2. QED
  BY <1>1, Invariance, PTL

-----------------------------------------------------------------------------
(* The pull as an observation of StampedSnapshot.                          *)
SnapValue == [p \in Paths |-> Shown(p)]
SnapStamp == [p \in Paths |-> IF names[p] = None THEN 0 ELSE Node(p).stamp]
SnapCopy == [p \in Paths |-> Copy(p)]
SnapCopied == [p \in Paths |-> IF p \in Scanned THEN call.rev.stamp
                               ELSE IF p \in Seen THEN planned[p].rev.stamp ELSE 0]
SnapChecked == IF phase = "failed" THEN {} ELSE checked
SnapStage ==
  CASE phase \in {"plan", "stream"} -> "observe"
    [] phase = "verify" -> "check"
    [] phase = "verified" -> "confirmed"
    [] OTHER -> "failed"
SnapWorld == <<SnapValue, SnapStamp, clock, fine>>
SnapVars == <<SnapValue, SnapStamp, clock, fine, SnapCopy, SnapCopied, Seen, SnapChecked, began,
              SnapStage>>



\* The bridge leaves alone what is observed.
LEMMA WorldStays ==
  ASSUME UNCHANGED host
  PROVE  UNCHANGED SnapWorld /\ UNCHANGED <<SnapValue, SnapStamp, clock, fine>>
BY DEF host, SnapWorld, SnapValue, SnapStamp, Shown, Children, Node

\* A path shows a view, when something is there.
ShownWell ==
  \A p \in Paths : Shown(p) \in Views \cup {None} /\ (Shown(p) = None <=> names[p] = None)

\* What the bridge has shown the client follows from the invariant alone.
LEMMA ShownIsWell == IInv => ShownWell
BY ShownIs DEF IInv, ShownWell

\* A step that neither plans nor scans to the end observes nothing.
LEMMA QuietStep ==
  ASSUME UNCHANGED host, UNCHANGED <<planned, checked, began>>, Scanned = {}, Scanned' = {},
         phase' = phase \/ (phase = "plan" /\ phase' = "stream")
  PROVE  UNCHANGED SnapVars
<1>1. Seen' = Seen
  BY DEF Seen, PlannedPaths
<1>2. SnapCopy' = SnapCopy /\ SnapCopied' = SnapCopied
  BY <1>1 DEF SnapCopy, SnapCopied, Copy
<1>3. SnapChecked' = SnapChecked /\ SnapStage' = SnapStage
  BY DEF SnapChecked, SnapStage
<1>4. QED
  BY <1>1, <1>2, <1>3, WorldStays DEF SnapVars

\* A failure drops what was observed.
LEMMA FailureRefines ==
  ASSUME TypeOK, UNCHANGED host, UNCHANGED Books, phase \in {"plan", "stream", "verify"},
         phase' = "failed", call' = Rest
  PROVE  Snapshot!Next
<1>1. Scanned' = {} /\ Seen' = {}
  BY Resting DEF Scanned, Seen
<1>2. SnapCopy' = [p \in Paths |-> None] /\ SnapCopied' = [p \in Paths |-> 0]
  BY <1>1 DEF SnapCopy, SnapCopied, Copy
<1>3. SnapChecked' = {} /\ SnapStage' = "failed" /\ SnapStage \in {"observe", "check"}
  BY DEF SnapChecked, SnapStage
<1>4. UNCHANGED SnapWorld /\ began' = began
  BY WorldStays DEF Books
<1>5. Snapshot!Fail
  BY <1>1, <1>2, <1>3, <1>4
     DEF Snapshot!Fail, Snapshot!Nothing, Snapshot!world, SnapWorld, SnapValue, SnapStamp, SnapCopy,
         SnapCopied, SnapChecked, SnapStage
<1>6. QED
  BY <1>5 DEF Snapshot!Next

\* What others do to the tree, they do to the objects of the snapshot.
LEMMA OutsideRefines ==
  ASSUME IInv, IInv', Outside
  PROVE  Snapshot!Next \/ UNCHANGED SnapVars
<1>1. UNCHANGED <<phase, call, planned, checked, began>>
  BY DEF Outside, Abort, MoveRoot, Write, Unlink, Create, Changing, books, history
<1>2. Scanned' = Scanned /\ Seen' = Seen
  BY <1>1 DEF Scanned, Seen, PlannedPaths
<1>3. UNCHANGED <<SnapCopy, SnapCopied, Seen, SnapChecked, began, SnapStage>>
  <2>1. \A p : Copy(p)' = Copy(p)
    BY <1>1, <1>2 DEF Copy
  <2>2. QED
    BY <1>1, <1>2, <2>1 DEF SnapCopy, SnapCopied, SnapChecked, SnapStage
<1>4. CASE UNCHANGED <<names, inode, unused, clock, fine>>
  <2>1. UNCHANGED <<SnapValue, SnapStamp, clock, fine>>
    BY <1>4 DEF SnapValue, SnapStamp, Shown, Children, Node
  <2>2. QED
    BY <1>3, <2>1 DEF SnapVars
<1>5. CASE HostMoves
  <2>1. /\ SnapValue' \in [Paths -> Views \cup {None}]
        /\ \A p \in Paths : Shown(p)' = None <=> names'[p] = None
    <3>1. ShownWell'
      BY ShownIsWell, PTL
    <3>2. QED
      BY <3>1 DEF SnapValue, ShownWell
  <2>2. ASSUME NEW p \in Paths
        PROVE  /\ SnapStamp'[p] \in Nat /\ SnapStamp'[p] <= clock'
               /\ SnapStamp'[p] = 0 <=> names'[p] = None
               /\ names'[p] # None => SnapStamp'[p] = inode'[names'[p]].stamp
    BY DEF IInv, TypeOK, IsTree, IsNode, SnapStamp, Node
  <2>3. ASSUME NEW p \in Paths, names'[p] # None, names'[p] = names[p]
        PROVE  \/ SnapStamp'[p] = SnapStamp[p] /\ (fine => SnapValue'[p] = SnapValue[p])
               \/ SnapStamp'[p] > clock
    <3>1. PICK i : i = names[p]
      OBVIOUS
    <3>2. i \in Inodes \ unused /\ SnapStamp[p] = inode[i].stamp /\ SnapStamp'[p] = inode'[i].stamp
      BY <2>2, <2>3, <3>1 DEF IInv, TypeOK, IsTree, IsNode, SnapStamp, Node
    <3>3. CASE inode'[i].stamp > clock
      BY <3>2, <3>3
    <3>4. CASE inode'[i].stamp = inode[i].stamp /\ (fine => inode'[i] = inode[i])
      <4>1. fine => Children(p)' = Children(p)
        <5>1. names'[p] \notin unused
          BY <2>3, <3>1, <3>2
        <5>2. QED
          BY <1>5, <2>3, <3>1, <3>4, <5>1 DEF HostMoves
      <4>2. fine => Shown(p)' = Shown(p)
        BY <2>3, <3>1, <3>4, <4>1 DEF Shown, Node
      <4>3. QED
        BY <3>2, <3>4, <4>2 DEF SnapValue
    <3>5. QED
      BY <1>5, <3>2, <3>3, <3>4 DEF HostMoves
  <2>4. ASSUME NEW p \in Paths
        PROVE  \/ SnapStamp'[p] = SnapStamp[p] /\ (fine => SnapValue'[p] = SnapValue[p])
               \/ SnapStamp'[p] > clock
               \/ SnapStamp'[p] = 0
    <3>1. CASE names'[p] = None
      BY <2>2, <3>1
    <3>2. CASE names'[p] # None /\ names'[p] = names[p]
      BY <2>3, <3>2
    <3>3. CASE names'[p] # None /\ names'[p] # names[p]
      <4>1. inode'[names'[p]].stamp > clock
        BY <1>5, <3>3 DEF HostMoves
      <4>2. QED
        BY <2>2, <3>3, <4>1
    <3>4. QED
      BY <3>1, <3>2, <3>3
  <2>5. /\ SnapStamp' \in [Paths -> Nat] /\ clock' \in Nat /\ clock <= clock' /\ fine' = fine
        /\ \A p \in Paths : SnapStamp'[p] = 0 <=> SnapValue'[p] = None
    <3>1. SnapStamp' \in [Paths -> Nat]
      BY <2>2 DEF SnapStamp
    <3>2. \A p \in Paths : SnapValue'[p] = Shown(p)'
      BY DEF SnapValue
    <3>3. QED
      BY <1>5, <2>1, <2>2, <3>1, <3>2 DEF HostMoves
  <2>6. Snapshot!Change
    BY <1>3, <2>1, <2>2, <2>4, <2>5
       DEF Snapshot!Change, Snapshot!Shown, SnapValue, SnapStamp, SnapCopy, SnapCopied, SnapChecked,
           SnapStage
  <2>7. QED
    BY <2>6 DEF Snapshot!Next
<1>6. QED
  BY <1>4, <1>5, WriteMoves, UnlinkMoves, CreateMoves DEF IInv, Outside, Abort, MoveRoot, Changing

\* The first states of a pull are first states of a snapshot.
LEMMA RefineInit == Init => Snapshot!Init
<1> SUFFICES ASSUME Init PROVE Snapshot!Init
  OBVIOUS
<1>1. IInv /\ ShownWell
  BY InitHolds, ShownIsWell
<1>2. /\ clock = 1 /\ fine \in BOOLEAN /\ phase = "plan" /\ checked = {}
      /\ planned = [p \in Paths |-> None] /\ began = [p \in Paths |-> None]
  BY DEF Init
<1>3. call.at = "inspect"
  <2>1. names \in [Paths -> Inodes \cup {None}] /\ Root \in Paths /\ "plan" \in Passes
    BY <1>1, PathsAssumption DEF IInv, TypeOK, Passes
  <2>2. Call("inspect", Root, "plan", None).at = "inspect"
    BY <2>1, Calling
  <2>3. QED
    BY <2>2 DEF Init
<1>4. Scanned = {} /\ Seen = {}
  BY <1>2, <1>3 DEF Scanned, Seen, PlannedPaths
<1>5. SnapCopy = [p \in Paths |-> None] /\ SnapCopied = [p \in Paths |-> 0]
  BY <1>4 DEF SnapCopy, SnapCopied, Copy
<1>6. SnapChecked = {} /\ SnapStage = "observe"
  BY <1>2 DEF SnapChecked, SnapStage
<1>7. SnapValue \in [Paths -> Views \cup {None}]
  BY <1>1 DEF SnapValue, ShownWell
<1>8. /\ SnapStamp \in [Paths -> Nat]
      /\ \A p \in Paths : SnapStamp[p] <= clock /\ (SnapStamp[p] = 0 <=> SnapValue[p] = None)
  <2>1. ASSUME NEW p \in Paths
        PROVE  /\ SnapStamp[p] \in Nat /\ SnapStamp[p] <= clock
               /\ SnapStamp[p] = 0 <=> names[p] = None
    BY <1>1, <1>2 DEF IInv, TypeOK, IsTree, IsNode, SnapStamp, Node
  <2>2. SnapStamp \in [Paths -> Nat]
    BY <2>1 DEF SnapStamp
  <2>3. QED
    BY <1>1, <2>1, <2>2 DEF SnapValue, ShownWell
<1>9. QED
  BY <1>2, <1>4, <1>5, <1>6, <1>7, <1>8
     DEF Snapshot!Init, Snapshot!Shown, Snapshot!Nothing, SnapValue, SnapStamp, SnapCopy, SnapCopied,
         SnapChecked, SnapStage

\* A throw drops what was observed, or leaves it to the handle being closed.
LEMMA ThrowRefines ==
  ASSUME IInv, Active, call.at # "close", NEW v, Throw(v)
  PROVE  Snapshot!Next \/ UNCHANGED SnapVars
<1>1. UNCHANGED host /\ UNCHANGED Books
  BY DEF Throw, Books, books, history
<1>2. CASE call.handle = None
  BY <1>1, <1>2, ActiveFacts, FailureRefines DEF Throw, IInv
<1>3. CASE call.handle # None
  <2>1. PICK r : r = [call EXCEPT !.at = IF Listing THEN "unwindListing" ELSE "unwind"]
    OBVIOUS
  <2>2. call' = r /\ UNCHANGED phase
    BY <1>3, <2>1 DEF Throw
  <2>3. r.at # "close"
    BY <2>1, ActiveFacts DEF CallState
  <2>4. Scanned = {} /\ Scanned' = {}
    BY <2>2, <2>3 DEF Scanned
  <2>5. QED
    BY <1>1, <2>2, <2>4, QuietStep DEF Books
<1>4. QED
  BY <1>2, <1>3

\* The steps of a call before what it gathers is kept observe nothing.
LEMMA WithinRefines ==
  ASSUME IInv,
         Inspect \/ List \/ OpenDirectory \/ ReadName \/ EndOfNames \/ CloseDirectory
         \/ Scan \/ OpenFile \/ Opened \/ Lstat \/ Before \/ Read \/ After \/ Again
  PROVE  Snapshot!Next \/ UNCHANGED SnapVars
<1>1. Active /\ call.at # "close" /\ call \in CallState
  <2>1. Active /\ call.at # "close"
    BY DEF Inspect, List, OpenDirectory, ReadName, EndOfNames, CloseDirectory, Scan, OpenFile, Opened,
           Lstat, Before, Read, After, Again, Fstat, At, Active
  <2>2. QED
    BY <2>1, ActiveFacts
<1>2. CASE \E v : Throw(v)
  BY <1>1, <1>2, ThrowRefines
<1>3. CASE ~\E v : Throw(v)
  <2>1. UNCHANGED host /\ UNCHANGED <<phase, planned, checked, began>>
    <3>1. CASE Inspect
      <4>1. Node(call.path).kind \in Kinds
        BY <1>1, <3>1, LookedAt, ActiveFacts DEF Inspect, IInv, IsTree, IsNode
      <4>2. QED
        BY <1>3, <3>1, <4>1 DEF Inspect, GoOn, Kinds, books, history
    <3>2. CASE List \/ OpenDirectory \/ ReadName \/ EndOfNames \/ CloseDirectory
      BY <1>3, <3>2
         DEF List, OpenDirectory, ReadName, EndOfNames, CloseDirectory, GoOn, Step, books, history
    <3>3. CASE Scan \/ OpenFile \/ Opened \/ Lstat
      BY <1>3, <3>3 DEF Scan, OpenFile, Opened, Lstat, GoOn, books, history
    <3>4. CASE Before \/ Read \/ After \/ Again
      BY <1>3, <3>4 DEF Before, Read, After, Again, Fstat, GoOn, Step, books, history
    <3>5. QED
      BY <3>1, <3>2, <3>3, <3>4
  <2>2. call'.at # "close"
    <3>1. CASE Inspect
      <4>1. /\ phase = "plan" /\ call.path \in Paths /\ names[call.path] # None
        BY <1>1, <3>1, LookedAt, ActiveFacts DEF Inspect, At, Reading, Listed, Unwinding, Verifying
      <4>2. PICK at \in {"list", "scan"}, rev \in Revisions \cup {None} :
              call' = Call(at, call.path, "plan", rev)
        <5>1. Fingerprint(names[call.path]) \in Revisions
          BY <4>1, FingerprintIs DEF IInv
        <5>2. QED
          BY <1>3, <3>1, <5>1, <4>1 DEF Inspect, GoOn, IInv, IsTree, IsNode, Kinds
      <4>3. call'.at = at
        BY <4>1, <4>2, Calling DEF IInv, TypeOK, Passes
      <4>4. QED
        BY <4>3
    <3>2. CASE List \/ OpenDirectory \/ ReadName \/ EndOfNames \/ CloseDirectory
      BY <1>1, <1>3, <3>2
         DEF List, OpenDirectory, ReadName, EndOfNames, CloseDirectory, GoOn, Step, CallState
    <3>3. CASE Scan \/ OpenFile \/ Opened \/ Lstat \/ Before \/ Read \/ After \/ Again
      BY <1>1, <1>3, <3>3
         DEF Scan, OpenFile, Opened, Lstat, Before, Read, After, Again, Fstat, GoOn, Step, CallState
    <3>4. QED
      BY <3>1, <3>2, <3>3
  <2>3. Scanned = {} /\ Scanned' = {}
    BY <1>1, <2>2 DEF Scanned
  <2>4. QED
    BY <2>1, <2>3, QuietStep
<1>4. QED
  BY <1>2, <1>3

\* A call that fails, and a walk that fails between two calls.
LEMMA FailsRefine ==
  ASSUME IInv, InspectFails \/ HostFails \/ CloseFails \/ Unwind \/ PathFails \/ PhaseFails
  PROVE  Snapshot!Next \/ UNCHANGED SnapVars
<1>1. CASE InspectFails \/ HostFails
  <2>1. Active /\ call.at # "close"
    BY <1>1 DEF InspectFails, HostFails, Looking, Active
  <2>2. \E v : Throw(v)
    BY <1>1 DEF InspectFails, HostFails
  <2>3. QED
    BY <2>1, <2>2, ThrowRefines
<1>2. CASE CloseFails \/ Unwind \/ PathFails \/ PhaseFails
  <2>1. UNCHANGED host /\ UNCHANGED Books /\ phase' = "failed" /\ call' = Rest
    BY <1>2 DEF CloseFails, Unwind, PathFails, PhaseFails, Books, books, history
  <2>2. phase \in {"plan", "stream", "verify"}
    BY <1>2, ActiveFacts DEF CloseFails, Unwind, PathFails, PhaseFails, Active
  <2>3. QED
    BY <2>1, <2>2, FailureRefines DEF IInv
<1>3. QED
  BY <1>1, <1>2

\* A sequence that begins another and is as long is the other.
LEMMA StartsWithAll ==
  ASSUME NEW S, NEW some \in Seq(S), NEW all \in Seq(S), Starts(some, all), Len(some) = Len(all)
  PROVE  some = all
<1>1. \A n \in 1..Len(some) : some[n] = all[n]
  BY DEF Starts
<1>2. QED
  BY <1>1, SeqEqual

\* A path is seen with its revision; where every change has a stamp of its own, as
\* what it is at that moment.
LEMMA SeenRefines ==
  ASSUME IInv, phase = "plan", UNCHANGED host, UNCHANGED <<phase, checked, began>>,
         NEW p \in Paths, names[p] # None, Seen' = Seen \cup {p},
         \A q \in Paths \ {p} : SnapCopy'[q] = SnapCopy[q] /\ SnapCopied'[q] = SnapCopied[q],
         SnapCopy'[p] \in Views, fine => SnapCopy'[p] = Shown(p),
         SnapCopied'[p] = Node(p).stamp
  PROVE  Snapshot!Next
<1>1. SnapStage = "observe" /\ SnapStage' = "observe" /\ SnapChecked' = SnapChecked
  BY DEF SnapStage, SnapChecked
<1>2. UNCHANGED SnapWorld
  BY WorldStays
<1>3. SnapStamp[p] # 0 /\ SnapStamp[p] = Node(p).stamp /\ SnapValue[p] = Shown(p)
  BY DEF IInv, TypeOK, IsTree, IsNode, SnapStamp, SnapValue
<1>4. SnapCopied' = [SnapCopied EXCEPT ![p] = SnapStamp[p]]
  <2>1. \A q \in Paths : SnapCopied'[q] = [SnapCopied EXCEPT ![p] = SnapStamp[p]][q]
    BY <1>3 DEF SnapCopied
  <2>2. /\ SnapCopied' = [q \in Paths |-> SnapCopied'[q]]
        /\ [SnapCopied EXCEPT ![p] = SnapStamp[p]] =
             [q \in Paths |-> [SnapCopied EXCEPT ![p] = SnapStamp[p]][q]]
    BY DEF SnapCopied
  <2>3. QED
    BY <2>1, <2>2
<1>5. ASSUME NEW q \in Paths
      PROVE  SnapCopy[q] \in Views \cup {None}
  <2>1. CASE q \in Scanned
    <3>1. /\ call.at = "close" /\ call \in CallState
          /\ SnapCopy[q] = [kind |-> "file", data |-> call.bytes, children |-> {}]
      BY <2>1 DEF Scanned, SnapCopy, Copy, IInv, TypeOK
    <3>2. call.bytes \in Seq(Units)
      BY <3>1 DEF CallState
    <3>3. QED
      BY <3>1, <3>2 DEF Views, Kinds
  <2>2. CASE q \notin Scanned /\ q \in Seen
    <3>1. q \in PlannedPaths
      BY <2>2 DEF Seen
    <3>2. planned[q] \in Plans
      BY <3>1 DEF IInv, TypeOK, PlannedPaths
    <3>3. QED
      BY <2>2, <3>2 DEF SnapCopy, Copy, Plans, Views, Kinds
  <2>3. CASE q \notin Scanned /\ q \notin Seen
    BY <2>3 DEF SnapCopy, Copy
  <2>4. QED
    BY <2>1, <2>2, <2>3
<1>6. SnapCopy' \in [Paths -> Views \cup {None}]
  <2>1. \A q \in Paths : SnapCopy'[q] \in Views \cup {None}
    BY <1>5
  <2>2. SnapCopy' = [q \in Paths |-> SnapCopy'[q]]
    BY DEF SnapCopy
  <2>3. QED
    BY <2>1, <2>2
<1>7. Snapshot!Observe(p)
  BY <1>1, <1>2, <1>3, <1>4, <1>6
     DEF Snapshot!Observe, Snapshot!Shown, Snapshot!world, SnapWorld, SnapValue, SnapStamp, SnapCopy,
         SnapCopied, SnapChecked, SnapStage
<1>8. QED
  BY <1>7 DEF Snapshot!Next

\* A directory is seen when a look after the listing finds its revision unchanged.
LEMMA RelistRefines == IInv /\ Relist => Snapshot!Next \/ UNCHANGED SnapVars
<1> SUFFICES ASSUME IInv, Relist PROVE Snapshot!Next \/ UNCHANGED SnapVars
  OBVIOUS
<1>1. PICK p : p = call.path
  OBVIOUS
<1>2. /\ Active /\ call.at = "relist" /\ call.at \in Listed /\ call.at \notin Reading
      /\ p \in Paths /\ names[p] # None /\ call.rev \in Revisions /\ call.rev # None
      /\ Fingerprint(names[p]) = call.rev
  <2>1. Active /\ call.at = "relist" /\ names[p] # None
    BY <1>1, LookedAt DEF Relist
  <2>2. call.at \in Listed /\ call.at \notin Reading
    BY <2>1 DEF Listed, Reading
  <2>3. p \in Paths /\ call.rev \in Revisions /\ call.rev # None
    BY <1>1, <2>1, <2>2, ActiveFacts, HeldIs
  <2>4. QED
    BY <1>1, <2>1, <2>2, <2>3, LookedAt DEF Relist
<1>3. Scanned = {} /\ "relist" # "close"
  BY <1>2 DEF Scanned
<1>4. CASE \E v : Throw(v)
  BY <1>2, <1>4, ThrowRefines
<1>5. CASE call.pass = "plan"
  <2>1. /\ UNCHANGED host /\ UNCHANGED <<phase, checked, began>> /\ call' = Rest
        /\ planned' = [planned EXCEPT ![p] = [rev |-> call.rev, kind |-> "directory",
                                              data |-> <<>>, children |-> call.seen]]
    BY <1>1, <1>5 DEF Relist, GoOn, history
  <2>2. PICK e : e = [rev |-> call.rev, kind |-> "directory", data |-> <<>>, children |-> call.seen]
    OBVIOUS
  <2>3. phase = "plan"
    BY <1>2, <1>5, ActiveFacts DEF Reading, Listed, Unwinding
  <2>4. call.seen \in SUBSET Paths /\ <<>> \in Seq(Units)
    BY <1>2, ActiveFacts DEF CallState
  <2>5. e \in Plans /\ e # None
    <3>1. e \in Plans
      BY <1>2, <2>2, <2>4 DEF Plans
    <3>2. QED
      BY <3>1, NoneAssumption
  <2>6. /\ planned'[p] = e /\ PlannedPaths' = PlannedPaths \cup {p}
        /\ \A q \in Paths \ {p} : planned'[q] = planned[q]
    BY <1>2, <2>1, <2>2, <2>5 DEF IInv, TypeOK, PlannedPaths
  <2>7. Scanned' = {} /\ Seen = PlannedPaths /\ Seen' = Seen \cup {p}
    BY <1>3, <2>1, <2>3, <2>6, Resting DEF Scanned, Seen
  <2>8. \A q \in Paths \ {p} : SnapCopy'[q] = SnapCopy[q] /\ SnapCopied'[q] = SnapCopied[q]
    BY <1>3, <2>6, <2>7 DEF SnapCopy, SnapCopied, Copy
  <2>9. SnapCopy'[p] = [kind |-> "directory", data |-> <<>>, children |-> call.seen]
    BY <1>2, <2>2, <2>6, <2>7 DEF SnapCopy, Copy
  <2>10. SnapCopy'[p] \in Views
    BY <2>4, <2>9 DEF Views, Kinds
  <2>11. /\ SnapCopied'[p] = call.rev.stamp /\ call.rev.stamp = Node(p).stamp
         /\ call.rev.ino = names[p] /\ call.rev.kind = Node(p).kind
    BY <1>2, <2>2, <2>6, <2>7, FingerprintIs DEF SnapCopied, IInv
  <2>12. fine => SnapCopy'[p] = Shown(p)
    <3> SUFFICES ASSUME fine PROVE SnapCopy'[p] = Shown(p)
      OBVIOUS
    <3>1. Same(call) /\ names[call.path] = call.rev.ino
      BY <1>1, <2>11 DEF Same, Node
    <3>2. call.seen = Children(p)
      BY <1>1, <1>2, <3>1 DEF IInv, Watched, ListingIs
    <3>3. Node(p).kind = "directory"
      BY <1>2, <2>11 DEF IInv, Watched, Held
    <3>4. Node(p).data = <<>>
      BY <1>2, <3>3 DEF IInv, IsTree, IsNode
    <3>5. QED
      BY <1>2, <2>9, <3>2, <3>3, <3>4 DEF Shown
  <2>13. QED
    BY <1>2, <2>1, <2>3, <2>7, <2>8, <2>10, <2>11, <2>12, SeenRefines
<1>6. CASE call.pass # "plan" /\ ~\E v : Throw(v)
  <2>1. UNCHANGED host /\ UNCHANGED <<phase, planned, checked, began>>
    BY <1>6 DEF Relist, GoOn, books, history
  <2>2. call' = Call("verifyDirectory", p, call.pass, planned[p].rev)
    BY <1>1, <1>6 DEF Relist, GoOn
  <2>3. call'.pass = call.pass
    BY <2>2 DEF Call, Rest
  <2>4. Scanned' = {}
    BY <1>6, <2>3 DEF Scanned
  <2>5. QED
    BY <1>3, <2>1, <2>4, QuietStep
<1>7. QED
  BY <1>4, <1>5, <1>6

\* A file is seen when a look after its last read finds its revision unchanged.
LEMMA EndOfFileRefines == IInv /\ EndOfFile => Snapshot!Next \/ UNCHANGED SnapVars
<1> SUFFICES ASSUME IInv, EndOfFile PROVE Snapshot!Next \/ UNCHANGED SnapVars
  OBVIOUS
<1>1. PICK p : p = call.path
  OBVIOUS
<1>2. /\ Active /\ call.at = "again" /\ call.at \in Reading /\ call.at \notin Listed
      /\ p \in Paths /\ names[p] # None /\ call.rev \in Revisions /\ call.rev # None
      /\ Fingerprint(names[p]) = call.rev /\ call \in CallState
  <2>1. Active /\ call.at = "again" /\ names[p] # None
    BY <1>1, LookedAt DEF EndOfFile
  <2>2. call.at \in Reading /\ call.at \notin Listed
    BY <2>1 DEF Listed, Reading
  <2>3. p \in Paths /\ call.rev \in Revisions /\ call.rev # None /\ call \in CallState
    BY <1>1, <2>1, <2>2, ActiveFacts, HeldIs
  <2>4. QED
    BY <1>1, <2>1, <2>2, <2>3, LookedAt DEF EndOfFile
<1>3. Scanned = {}
  BY <1>2 DEF Scanned
<1>4. CASE \E v : Throw(v)
  BY <1>2, <1>4, ThrowRefines
<1>5. CASE ~\E v : Throw(v)
  <2>1. /\ UNCHANGED host /\ UNCHANGED <<phase, planned, checked, began>>
        /\ call' = [call EXCEPT !.at = "close"] /\ Len(call.bytes) = call.rev.size
    BY <1>5 DEF EndOfFile, Step, GoOn, books, history
  <2>2. /\ call'.at = "close" /\ call'.path = p /\ call'.pass = call.pass
        /\ call'.bytes = call.bytes /\ call'.rev = call.rev
    BY <1>1, <1>2, <2>1 DEF CallState
  <2>3. CASE call.pass # "plan"
    <3>1. Scanned' = {}
      BY <2>2, <2>3 DEF Scanned
    <3>2. QED
      BY <1>3, <2>1, <3>1, QuietStep
  <2>4. CASE call.pass = "plan"
    <3>1. phase = "plan"
      BY <1>2, <2>4, ActiveFacts DEF Reading, Listed, Unwinding, Verifying
    <3>2. Scanned' = {p} /\ PlannedPaths' = PlannedPaths
      BY <2>1, <2>2, <2>4 DEF Scanned, PlannedPaths
    <3>3. Seen = PlannedPaths /\ Seen' = Seen \cup {p}
      BY <1>3, <2>1, <3>1, <3>2 DEF Seen
    <3>4. \A q \in Paths \ {p} : SnapCopy'[q] = SnapCopy[q] /\ SnapCopied'[q] = SnapCopied[q]
      BY <1>3, <2>1, <3>2, <3>3 DEF SnapCopy, SnapCopied, Copy
    <3>5. SnapCopy'[p] = [kind |-> "file", data |-> call.bytes, children |-> {}]
      BY <1>2, <2>2, <3>2 DEF SnapCopy, Copy
    <3>6. call.bytes \in Seq(Units)
      BY <1>2 DEF CallState
    <3>7. SnapCopy'[p] \in Views
      BY <3>5, <3>6 DEF Views, Kinds
    <3>8. /\ SnapCopied'[p] = call.rev.stamp /\ call.rev.stamp = Node(p).stamp
          /\ call.rev.ino = names[p] /\ call.rev.kind = Node(p).kind
      BY <1>2, <2>2, <3>2, FingerprintIs DEF SnapCopied, IInv
    <3>9. fine => SnapCopy'[p] = Shown(p)
      <4> SUFFICES ASSUME fine PROVE SnapCopy'[p] = Shown(p)
        OBVIOUS
      <4>1. Same(call) /\ inode[call.rev.ino] = Node(p)
        BY <3>8 DEF Same, Node
      <4>2. PICK data : data = Node(p).data
        OBVIOUS
      <4>3. call.rev.size = Len(data) /\ Starts(call.bytes, data)
        BY <1>2, <4>1, <4>2 DEF IInv, Watched, ScanIs
      <4>4. data \in Seq(Units)
        BY <1>2, <4>1, <4>2, HeldIs
      <4>5. call.bytes = data
        BY <2>1, <3>6, <4>3, <4>4, StartsWithAll
      <4>6. Node(p).kind = "file"
        BY <1>2, <3>8 DEF IInv, Watched, Held
      <4>7. QED
        BY <1>2, <3>5, <4>2, <4>5, <4>6 DEF Shown
    <3>10. QED
      BY <1>2, <2>1, <3>1, <3>3, <3>4, <3>7, <3>8, <3>9, SeenRefines
  <2>5. QED
    BY <2>3, <2>4
<1>6. QED
  BY <1>4, <1>5

\* A file was seen when it is closed: it is planned as that.
LEMMA CloseFileRefines == IInv /\ CloseFile => Snapshot!Next \/ UNCHANGED SnapVars
<1> SUFFICES ASSUME IInv, CloseFile PROVE Snapshot!Next \/ UNCHANGED SnapVars
  OBVIOUS
<1>1. PICK p : p = call.path
  OBVIOUS
<1>2. /\ Active /\ call.at = "close" /\ call.at \in Reading /\ call \in CallState /\ p \in Paths
      /\ call.rev \in Revisions /\ phase \in {"plan", "stream"}
      /\ phase = "plan" <=> call.pass = "plan"
  <2>1. Active /\ call.at = "close" /\ call.at \in Reading
    BY DEF CloseFile, Active, Reading
  <2>2. call.at \notin {"list"} \cup Listed \cup Unwinding \cup Verifying
    BY <2>1 DEF Listed, Unwinding, Verifying
  <2>3. QED
    BY <1>1, <2>1, <2>2, ActiveFacts, HeldIs
<1>3. CASE phase' = "failed"
  <2>1. UNCHANGED host /\ UNCHANGED Books /\ call' = Rest
    BY <1>2, <1>3 DEF CloseFile, GoOn, Books, books, history
  <2>2. QED
    BY <1>2, <1>3, <2>1, FailureRefines DEF IInv
<1>4. CASE phase = "stream" /\ phase' # "failed"
  <2>1. /\ UNCHANGED host /\ UNCHANGED <<phase, planned, checked, began>> /\ call' = Rest
    BY <1>2, <1>4, ActiveFacts DEF CloseFile, GoOn, books, history
  <2>2. Scanned = {} /\ Scanned' = {}
    BY <1>2, <1>4, <2>1, Resting DEF Scanned
  <2>3. QED
    BY <2>1, <2>2, QuietStep
<1>5. CASE phase = "plan" /\ phase' # "failed"
  <2>1. PICK e : e = [rev |-> call.rev, kind |-> "file", data |-> call.bytes, children |-> {}]
    OBVIOUS
  <2>2. /\ UNCHANGED host /\ UNCHANGED <<phase, checked, began>> /\ call' = Rest
        /\ planned' = [planned EXCEPT ![p] = e]
    BY <1>1, <1>2, <1>5, <2>1 DEF CloseFile, GoOn, history
  <2>3. e \in Plans /\ e # None
    <3>1. call.bytes \in Seq(Units)
      BY <1>2 DEF CallState
    <3>2. e \in Plans
      BY <1>2, <2>1, <3>1 DEF Plans
    <3>3. QED
      BY <3>2, NoneAssumption
  <2>4. /\ planned'[p] = e /\ PlannedPaths' = PlannedPaths \cup {p}
        /\ \A q \in Paths \ {p} : planned'[q] = planned[q]
    BY <1>2, <2>2, <2>3 DEF IInv, TypeOK, PlannedPaths
  <2>5. Scanned = {p} /\ Scanned' = {} /\ Seen = PlannedPaths \cup {p} /\ Seen' = Seen
    BY <1>1, <1>2, <1>5, <2>2, <2>4, Resting DEF Scanned, Seen
  <2>6. \A q \in Paths : SnapCopy'[q] = SnapCopy[q] /\ SnapCopied'[q] = SnapCopied[q]
    <3>1. ASSUME NEW q \in Paths, q # p
          PROVE  SnapCopy'[q] = SnapCopy[q] /\ SnapCopied'[q] = SnapCopied[q]
      BY <2>4, <2>5, <3>1 DEF SnapCopy, SnapCopied, Copy
    <3>2. SnapCopy'[p] = SnapCopy[p] /\ SnapCopied'[p] = SnapCopied[p]
      BY <1>2, <2>1, <2>4, <2>5 DEF SnapCopy, SnapCopied, Copy
    <3>3. QED
      BY <3>1, <3>2
  <2>7. SnapCopy' = SnapCopy /\ SnapCopied' = SnapCopied
    <3>1. /\ SnapCopy' = [q \in Paths |-> SnapCopy'[q]] /\ SnapCopy = [q \in Paths |-> SnapCopy[q]]
          /\ SnapCopied' = [q \in Paths |-> SnapCopied'[q]]
          /\ SnapCopied = [q \in Paths |-> SnapCopied[q]]
      BY DEF SnapCopy, SnapCopied
    <3>2. QED
      BY <2>6, <3>1
  <2>8. SnapChecked' = SnapChecked /\ SnapStage' = SnapStage
    BY <2>2 DEF SnapChecked, SnapStage
  <2>9. QED
    BY <2>2, <2>5, <2>7, <2>8, WorldStays DEF SnapVars
<1>6. QED
  BY <1>2, <1>3, <1>4, <1>5

\* A revision that is found as it was planned is checked.
LEMMA VerifyRefines ==
  IInv /\ (VerifyDirectory \/ VerifyFile) => Snapshot!Next \/ UNCHANGED SnapVars
<1> SUFFICES ASSUME IInv, VerifyDirectory \/ VerifyFile
             PROVE  Snapshot!Next \/ UNCHANGED SnapVars
  OBVIOUS
<1>1. PICK p : p = call.path
  OBVIOUS
<1>2. /\ Active /\ call.at \in Verifying /\ call.at # "close" /\ names[p] # None
      /\ call.rev # None => Fingerprint(names[p]) = call.rev
  <2>1. CASE VerifyDirectory
    BY <1>1, <2>1, LookedAt DEF VerifyDirectory, Verifying
  <2>2. CASE VerifyFile
    BY <1>1, <2>2, LookedAt DEF VerifyFile, Verifying
  <2>3. QED
    BY <2>1, <2>2
<1>3. CASE \E v : Throw(v)
  BY <1>2, <1>3, ThrowRefines
<1>4. CASE ~\E v : Throw(v)
  <2>1. /\ UNCHANGED host /\ UNCHANGED <<phase, planned, began>> /\ call' = Rest
        /\ checked' = checked \cup {p}
    BY <1>1, <1>4 DEF VerifyDirectory, VerifyFile, GoOn
  <2>2. phase = "verify" /\ p \in PlannedPaths /\ p \in Paths
    BY <1>1, <1>2, ActiveFacts DEF Verifying, Reading, Unwinding, PlannedPaths
  <2>3. call.rev = planned[p].rev /\ planned[p].rev \in Revisions /\ call.rev # None
    <3>1. call.rev = planned[p].rev
      BY <1>1, <1>2, <2>2 DEF IInv, VerifyWalk
    <3>2. planned[p].rev \in Revisions
      BY <2>2 DEF IInv, TypeOK, PlannedPaths, Plans
    <3>3. QED
      BY <3>1, <3>2, NoneAssumption
  <2>4. planned[p].rev.stamp = Node(p).stamp
    BY <1>2, <2>2, <2>3, FingerprintIs DEF IInv
  <2>5. Scanned = {} /\ Scanned' = {} /\ Seen = PlannedPaths /\ Seen' = Seen
    BY <1>2, <2>1, <2>2, Resting DEF Scanned, Seen, PlannedPaths
  <2>6. SnapCopy' = SnapCopy /\ SnapCopied' = SnapCopied
    BY <2>1, <2>5 DEF SnapCopy, SnapCopied, Copy
  <2>7. SnapStage = "check" /\ SnapStage' = SnapStage /\ SnapChecked' = SnapChecked \cup {p}
    BY <2>1, <2>2 DEF SnapStage, SnapChecked
  <2>8. SnapStamp[p] = SnapCopied[p]
    BY <1>2, <2>2, <2>4, <2>5 DEF SnapStamp, SnapCopied
  <2>9. Snapshot!Check(p)
    BY <2>1, <2>2, <2>5, <2>6, <2>7, <2>8, WorldStays
       DEF Snapshot!Check, Snapshot!world, SnapWorld, SnapValue, SnapStamp, SnapCopy, SnapCopied,
           SnapChecked, SnapStage
  <2>10. QED
    BY <2>2, <2>9 DEF Snapshot!Next
<1>5. QED
  BY <1>3, <1>4

\* Between the calls the comparison begins and ends, and nothing else is observed.
LEMMA WalksRefine ==
  ASSUME IInv, IInv', NextTask \/ Prepared \/ BeginVerify \/ Verified
  PROVE  Snapshot!Next \/ UNCHANGED SnapVars
<1>1. call.at = "next" /\ UNCHANGED host /\ UNCHANGED <<planned, checked>>
  BY DEF NextTask, Prepared, BeginVerify, Verified, GoOn, books, history
<1>2. Scanned = {}
  BY <1>1 DEF Scanned
<1>3. CASE NextTask
  <2>1. UNCHANGED <<phase, began>>
    BY <1>3 DEF NextTask, GoOn, history
  <2>2. call'.at # "close"
    <3>1. /\ Head(todo) \in TaskState /\ names \in [Paths -> Inodes \cup {None}]
          /\ Head(todo) \in Ahead
      BY <1>3, First DEF NextTask, IInv, TypeOK, Ahead
    <3>2. Head(todo).path \in Paths /\ Head(todo).pass \in Passes
      BY <3>1 DEF TaskState
    <3>3. PICK at \in {"inspect", "scan", "list", "verifyFile"} :
            \E rev : call' = Call(at, Head(todo).path, Head(todo).pass, rev)
      BY <1>3, <3>2 DEF NextTask, GoOn, Passes
    <3>4. call'.at = at
      BY <3>3 DEF Call, Rest
    <3>5. QED
      BY <3>4
  <2>3. QED
    BY <1>1, <1>2, <2>1, <2>2, QuietStep DEF Scanned
<1>4. CASE Prepared
  BY <1>1, <1>2, <1>4, QuietStep DEF Prepared, Scanned, history
<1>5. CASE BeginVerify
  <2>1. phase = "stream" /\ phase' = "verify" /\ call' = call /\ began' = SnapValue
    BY <1>5 DEF BeginVerify, SnapValue
  <2>2. Scanned' = {} /\ Seen' = Seen
    BY <1>1, <1>2, <2>1 DEF Scanned, Seen, PlannedPaths
  <2>3. SnapCopy' = SnapCopy /\ SnapCopied' = SnapCopied
    BY <1>1, <1>2, <2>2 DEF SnapCopy, SnapCopied, Copy
  <2>4. SnapStage = "observe" /\ SnapStage' = "check" /\ SnapChecked' = SnapChecked
    BY <1>1, <2>1 DEF SnapStage, SnapChecked
  <2>5. Snapshot!Begin
    BY <1>1, <2>1, <2>2, <2>3, <2>4, WorldStays
       DEF Snapshot!Begin, Snapshot!world, SnapWorld, SnapValue, SnapStamp, SnapCopy, SnapCopied,
           SnapChecked, SnapStage
  <2>6. QED
    BY <2>5 DEF Snapshot!Next
<1>6. CASE Verified
  <2>1. phase = "verify" /\ phase' = "verified" /\ call' = call /\ began' = began
    BY <1>6 DEF Verified, history
  <2>2. Scanned' = {} /\ Seen' = Seen /\ Seen = PlannedPaths /\ PlannedPaths' = PlannedPaths
    BY <1>1, <1>2, <2>1 DEF Scanned, Seen, PlannedPaths
  <2>3. SnapCopy' = SnapCopy /\ SnapCopied' = SnapCopied
    BY <1>1, <1>2, <2>2 DEF SnapCopy, SnapCopied, Copy
  <2>4. /\ SnapStage = "check" /\ SnapStage' = "confirmed"
        /\ SnapChecked' = SnapChecked /\ SnapChecked = checked
    BY <1>1, <2>1 DEF SnapStage, SnapChecked
  <2>5. checked = Seen
    BY <1>1, <2>1, <2>2 DEF IInv, Afterwards
  <2>6. Snapshot!Confirm
    BY <1>1, <2>1, <2>2, <2>3, <2>4, <2>5, WorldStays
       DEF Snapshot!Confirm, Snapshot!world, SnapWorld, SnapValue, SnapStamp, SnapCopy, SnapCopied,
           SnapChecked, SnapStage
  <2>7. QED
    BY <2>6 DEF Snapshot!Next
<1>7. QED
  BY <1>3, <1>4, <1>5, <1>6

\* Every step of a pull is a step of the snapshot, or none.
LEMMA RefineStep == IInv /\ IInv' /\ [Next]_vars => [Snapshot!Next]_(Snapshot!vars)
<1> SUFFICES ASSUME IInv, IInv', [Next]_vars PROVE Snapshot!Next \/ UNCHANGED SnapVars
  BY DEF Snapshot!vars, SnapVars, SnapValue, SnapStamp, SnapCopy, SnapCopied, SnapChecked, SnapStage
<1>1. CASE UNCHANGED vars
  <2>1. UNCHANGED host /\ UNCHANGED <<call, phase, planned, checked, began>>
    BY <1>1 DEF vars, host
  <2>2. Scanned' = Scanned /\ Seen' = Seen
    BY <2>1 DEF Scanned, Seen, PlannedPaths
  <2>3. UNCHANGED <<SnapCopy, SnapCopied, Seen, SnapChecked, began, SnapStage>>
    BY <2>1, <2>2 DEF SnapCopy, SnapCopied, Copy, SnapChecked, SnapStage
  <2>4. QED
    BY <2>1, <2>3, WorldStays DEF SnapVars
<1>2. CASE Outside
  BY <1>2, OutsideRefines
<1>3. CASE Bridge
  BY <1>3, FailsRefine, WithinRefines, RelistRefines, EndOfFileRefines, CloseFileRefines, VerifyRefines,
     WalksRefine
     DEF Bridge
<1>4. QED
  BY <1>1, <1>2, <1>3 DEF Next

\* The pull is an observation of StampedSnapshot: what the two walks and the scans
\* do to the plan is what its steps do to the copies.
THEOREM Refinement == Spec => ImplementsSnapshot
<1>1. Spec => Snapshot!Spec
  BY RefineInit, RefineStep, Invariance, PTL DEF Spec, Snapshot!Spec
<1>2. QED
  BY <1>1 DEF ImplementsSnapshot

-----------------------------------------------------------------------------
(* A verified pull.                                                        *)
\* What holds of the requested path and of everything that a path with the property
\* is below, holds of all that leads to it.
LEMMA Upwards ==
  ASSUME NEW S \in SUBSET Paths, \A q \in S : q # Root => Front(q) \in S, NEW p \in S
  PROVE  Components(p) \subseteq S
<1> DEFINE at(n) == SubSeq(p, 1, n)
           T == {k \in Nat : k \in 0..Len(p) /\ at(Len(p) - k) \notin S}
<1>1. /\ Len(p) \in Nat /\ at(Len(p)) = p
      /\ \A n \in 1..Len(p) : at(n) # Root /\ Front(at(n)) = at(n - 1)
  BY PathSteps
<1>2. T = {}
  <2> SUFFICES ASSUME T # {} PROVE FALSE
    OBVIOUS
  <2>1. PICK m \in T : \A k \in T : m <= k
    <3>1. T \subseteq Nat /\ T # {}
      OBVIOUS
    <3> HIDE DEF T
    <3>2. QED
      BY <3>1, Least
  <2>2. m \in 0..Len(p) /\ m \in Nat /\ at(Len(p) - m) \notin S
    BY <2>1
  <2>3. m # 0
    <3>1. Len(p) - 0 = Len(p)
      BY <1>1
    <3>2. at(Len(p) - 0) \in S
      BY <1>1, <3>1
    <3>3. QED
      BY <2>2, <3>2
  <2>4. m - 1 \in Nat /\ m - 1 \in 0..Len(p) /\ m - 1 \notin T
    <3>1. m - 1 \in Nat /\ m - 1 \in 0..Len(p) /\ ~(m <= m - 1)
      BY <1>1, <2>2, <2>3
    <3>2. QED
      BY <2>1, <3>1
  <2>5. at(Len(p) - (m - 1)) \in S
    BY <2>4
  <2>6. /\ Len(p) - (m - 1) \in 1..Len(p)
        /\ (Len(p) - (m - 1)) - 1 = Len(p) - m
    BY <1>1, <2>2, <2>3
  <2> HIDE DEF at
  <2>7. Front(at(Len(p) - (m - 1))) = at(Len(p) - m) /\ at(Len(p) - (m - 1)) # Root
    BY <1>1, <2>6
  <2>8. QED
    BY <2>2, <2>5, <2>7
<1>3. ASSUME NEW n \in 0..Len(p)
      PROVE  at(n) \in S
  <2>1. Len(p) - n \in Nat /\ Len(p) - n \in 0..Len(p) /\ Len(p) - (Len(p) - n) = n
    BY <1>1
  <2>2. at(Len(p) - (Len(p) - n)) \in S
    BY <1>2, <2>1
  <2>3. QED
    BY <2>1, <2>2
<1>4. QED
  BY <1>3 DEF Components

\* A tree that agrees with a whole plan wherever there is one has no more than it.
LEMMA NothingElse ==
  ASSUME IInv, Whole, BeganTree,
         \A q \in PlannedPaths : began[q] # None /\ planned[q].children = began[q].children,
         NEW p \in Paths, began[p] # None
  PROVE  p \in PlannedPaths
<1> DEFINE at(n) == SubSeq(p, 1, n)
           T == {n \in Nat : n \in 0..Len(p) /\ at(n) \notin PlannedPaths}
<1>1. /\ Len(p) \in Nat /\ at(Len(p)) = p
      /\ \A n \in 1..Len(p) : at(n) # Root /\ Front(at(n)) = at(n - 1)
  BY PathSteps
<1>2. \A n \in 0..Len(p) : at(n) \in Paths /\ began[at(n)] # None
  <2>1. PICK S : S = {q \in Paths : began[q] # None}
    OBVIOUS
  <2>2. \A q \in S : q # Root => Front(q) \in S
    BY <2>1, FrontDiffers DEF BeganTree
  <2>3. Components(p) \subseteq S
    BY <2>1, <2>2, Upwards
  <2>4. QED
    BY <2>1, <2>3 DEF Components
<1>3. T = {}
  <2> SUFFICES ASSUME T # {} PROVE FALSE
    OBVIOUS
  <2>1. PICK m \in T : \A k \in T : m <= k
    <3>1. T \subseteq Nat /\ T # {}
      OBVIOUS
    <3> HIDE DEF T
    <3>2. QED
      BY <3>1, Least
  <2>2. m \in 0..Len(p) /\ m \in Nat /\ at(m) \notin PlannedPaths
    BY <2>1
  <2>3. m # 0
    <3>1. at(0) = Root
      BY <1>1, PathParts, SubSeqEmpty DEF Root
    <3>2. Root \in PlannedPaths
      BY PathsAssumption DEF Whole, PlannedPaths
    <3>3. QED
      BY <2>2, <3>1, <3>2
  <2>4. m - 1 \in Nat /\ m - 1 \in 0..Len(p) /\ m \in 1..Len(p) /\ m - 1 \notin T
    <3>1. m - 1 \in Nat /\ m - 1 \in 0..Len(p) /\ m \in 1..Len(p) /\ ~(m <= m - 1)
      BY <1>1, <2>2, <2>3
    <3>2. QED
      BY <2>1, <3>1
  <2>5. at(m - 1) \in PlannedPaths
    BY <2>4
  <2> HIDE DEF at
  <2>6. Front(at(m)) = at(m - 1) /\ at(m) # Root /\ at(m) \in Paths /\ began[at(m)] # None
    BY <1>1, <1>2, <2>2, <2>4
  <2>7. at(m) \in began[at(m - 1)].children
    BY <2>6 DEF BeganTree
  <2>8. planned[at(m)] # None
    BY <2>5, <2>7 DEF Whole
  <2>9. QED
    BY <2>2, <2>6, <2>8 DEF PlannedPaths
<1>4. Len(p) \in Nat /\ Len(p) \in 0..Len(p)
  BY <1>1
<1>5. QED
  BY <1>1, <1>3, <1>4

(***************************************************************************)
(* What StampedSnapshot promises, of any observation of the paths: below,  *)
(* SnapValue and the others are never expanded, so that nothing is used of *)
(* the pull but that it is an observation.                                 *)
(***************************************************************************)
Observed == INSTANCE StampedSnapshot WITH
  Objects <- Paths, Values <- Views, Absent <- None,
  value <- SnapValue, stamp <- SnapStamp, copy <- SnapCopy, copied <- SnapCopied,
  observed <- Seen, checked <- SnapChecked, stage <- SnapStage

ObservedType ==
  /\ SnapValue \in [Paths -> Observed!Shown] /\ SnapStamp \in [Paths -> Nat] /\ clock \in Nat
  /\ fine \in BOOLEAN
  /\ SnapCopy \in [Paths -> Observed!Shown] /\ SnapCopied \in [Paths -> Nat]
  /\ Seen \subseteq Paths /\ SnapChecked \subseteq Paths
  /\ began \in [Paths -> Observed!Shown]
  /\ SnapStage \in {"observe", "check", "confirmed", "failed"}

\* No stamp is beyond the clock, and only what does not exist has none.
StampsAreOld ==
  /\ \A p \in Paths : SnapStamp[p] <= clock /\ SnapCopied[p] <= clock
  /\ \A p \in Seen : SnapCopied[p] # 0

\* While its stamp is the one that was seen, a path is what was seen, and it
\* was that already when the comparison began.
SameStampSameValue ==
  fine => \A p \in Seen : SnapCopied[p] = SnapStamp[p] =>
     /\ SnapCopy[p] = SnapValue[p]
     /\ SnapStage \in {"check", "confirmed"} => began[p] = SnapValue[p]

CheckedIsSame ==
  /\ fine => \A p \in SnapChecked : SnapCopy[p] = began[p]
  /\ SnapStage = "observe" => SnapChecked = {}
  /\ SnapStage = "confirmed" => SnapChecked = Seen

ObservedInv == ObservedType /\ StampsAreOld /\ SameStampSameValue /\ CheckedIsSame

\* A change gives what it touches a stamp that no observation has.
LEMMA ChangeKeeps == ObservedInv /\ Observed!Change => ObservedInv'
<1> SUFFICES ASSUME ObservedInv, Observed!Change PROVE ObservedInv'
  OBVIOUS
<1> USE DEF ObservedInv
<1>1. ObservedType'
  BY DEF ObservedType, Observed!Change
<1>2. StampsAreOld'
  BY DEF ObservedType, StampsAreOld, Observed!Change
<1>3. SameStampSameValue'
  <2> SUFFICES ASSUME fine, NEW p \in Seen, SnapCopied[p] = SnapStamp'[p]
               PROVE  /\ SnapCopy[p] = SnapValue'[p]
                      /\ SnapStage \in {"check", "confirmed"} => began[p] = SnapValue'[p]
    BY DEF SameStampSameValue, Observed!Change
  <2>1. p \in Paths /\ SnapCopied[p] # 0 /\ SnapCopied[p] <= clock
    BY DEF ObservedType, StampsAreOld
  <2>2. SnapStamp'[p] = SnapStamp[p] /\ SnapValue'[p] = SnapValue[p]
    BY <2>1 DEF Observed!Change, ObservedType
  <2>3. QED
    BY <2>2 DEF SameStampSameValue
<1>4. CheckedIsSame'
  BY DEF CheckedIsSame, Observed!Change
<1>5. QED
  BY <1>1, <1>2, <1>3, <1>4

\* An observation replaces the copy of one path, with its stamp.
LEMMA ObserveKeeps == ASSUME NEW p \in Paths PROVE ObservedInv /\ Observed!Observe(p) => ObservedInv'
<1> SUFFICES ASSUME ObservedInv, Observed!Observe(p) PROVE ObservedInv'
  OBVIOUS
<1> USE DEF ObservedInv
<1>1. ObservedType'
  BY DEF ObservedType, Observed!Observe, Observed!world
<1>2. \A q \in Paths : SnapCopied'[q] = IF q = p THEN SnapStamp[p] ELSE SnapCopied[q]
  BY DEF ObservedType, Observed!Observe
<1>3. StampsAreOld'
  BY <1>2 DEF StampsAreOld, Observed!Observe, Observed!world, ObservedType
<1>4. SameStampSameValue'
  BY <1>2 DEF SameStampSameValue, Observed!Observe, Observed!world, ObservedType
<1>5. CheckedIsSame'
  BY DEF CheckedIsSame, Observed!Observe, Observed!world
<1>6. QED
  BY <1>1, <1>3, <1>4, <1>5

\* The steps of the comparison leave the paths and the copies alone.
LEMMA CompareKeeps ==
  ASSUME NEW p \in Paths
  PROVE  ObservedInv /\ (Observed!Check(p) \/ Observed!Begin \/ Observed!Confirm \/ Observed!Fail)
           => ObservedInv'
<1> SUFFICES ASSUME ObservedInv,
                    Observed!Check(p) \/ Observed!Begin \/ Observed!Confirm \/ Observed!Fail
             PROVE  ObservedInv'
  OBVIOUS
<1> USE DEF ObservedInv
<1>1. CASE Observed!Check(p)
  <2>1. ~fine \/ (SnapCopy[p] = SnapValue[p] /\ began[p] = SnapValue[p])
    BY <1>1 DEF Observed!Check, SameStampSameValue
  <2>2. QED
    BY <1>1, <2>1 DEF Observed!Check, Observed!world, ObservedType, StampsAreOld,
       SameStampSameValue, CheckedIsSame
<1>2. CASE Observed!Begin
  BY <1>2 DEF Observed!Begin, Observed!world, ObservedType, StampsAreOld, SameStampSameValue,
     CheckedIsSame
<1>3. CASE Observed!Confirm
  BY <1>3 DEF Observed!Confirm, Observed!world, ObservedType, StampsAreOld, SameStampSameValue,
     CheckedIsSame
<1>4. CASE Observed!Fail
  BY <1>4 DEF Observed!Fail, Observed!Shown, Observed!Nothing, Observed!world, ObservedType,
     StampsAreOld, SameStampSameValue, CheckedIsSame
<1>5. QED
  BY <1>1, <1>2, <1>3, <1>4

\* Where every change has a stamp of its own, what is confirmed is what there
\* was at one instant, whatever others did meanwhile.
LEMMA ObservedIsSnapshot == Observed!Spec => []Observed!IsSnapshot
<1>1. Observed!Init => ObservedInv
  BY DEF Observed!Init, Observed!Shown, Observed!Nothing, ObservedInv, ObservedType, StampsAreOld,
     SameStampSameValue, CheckedIsSame
<1>2. ObservedInv /\ [Observed!Next]_(Observed!vars) => ObservedInv'
  <2> SUFFICES ASSUME ObservedInv, [Observed!Next]_(Observed!vars) PROVE ObservedInv'
    OBVIOUS
  <2>1. ASSUME NEW p \in Paths, Observed!Observe(p) \/ Observed!Check(p) PROVE ObservedInv'
    BY <2>1, ObserveKeeps, CompareKeeps
  <2>2. CASE Observed!Begin \/ Observed!Confirm \/ Observed!Fail
    BY <2>2, CompareKeeps, PathsAssumption
  <2>3. CASE UNCHANGED Observed!vars
    BY <2>3 DEF Observed!vars, ObservedInv, ObservedType, StampsAreOld, SameStampSameValue,
       CheckedIsSame
  <2>4. QED
    BY <2>1, <2>2, <2>3, ChangeKeeps DEF Observed!Next
<1>3. ObservedInv => Observed!IsSnapshot
  BY DEF ObservedInv, ObservedType, CheckedIsSame, Observed!IsSnapshot
<1>4. QED
  BY <1>1, <1>2, <1>3, PTL DEF Observed!Spec

\* A verified pull is the tree of one instant: what the snapshot confirms is what was
\* planned, everything that is named in it was planned, and so nothing is missing.
THEOREM VerifiedSnapshot == Spec => []VerifiedIsSnapshot
<1>1. IInv /\ Snapshot!IsSnapshot => VerifiedIsSnapshot
  <2> SUFFICES ASSUME IInv, Snapshot!IsSnapshot PROVE VerifiedIsSnapshot
    OBVIOUS
  <2>1. ASSUME fine, phase = "verified"
        PROVE  /\ PlannedPaths = {p \in Paths : began[p] # None}
               /\ \A p \in PlannedPaths :
                    /\ planned[p].kind = began[p].kind
                    /\ planned[p].children = began[p].children
                    /\ planned[p].kind = "file" => sent[p] = began[p].data
    <3>1. Whole /\ Sent /\ BeganTree /\ ~Active
      BY <2>1 DEF IInv, Afterwards
    <3>2. Scanned = {} /\ Seen = PlannedPaths
      BY <2>1, <3>1 DEF Scanned, Seen, Active
    <3>3. ASSUME NEW p \in PlannedPaths
          PROVE  /\ p \in Paths /\ began[p] # None
                 /\ planned[p].kind = began[p].kind /\ planned[p].data = began[p].data
                 /\ planned[p].children = began[p].children
      <4>1. p \in Paths /\ planned[p] \in Plans
        BY DEF IInv, TypeOK, PlannedPaths
      <4>2. PICK v : v = [kind |-> planned[p].kind, data |-> planned[p].data,
                          children |-> planned[p].children]
        OBVIOUS
      <4>3. /\ v.kind = planned[p].kind /\ v.data = planned[p].data
            /\ v.children = planned[p].children
        BY <4>2
      <4>4. v \in Views
        BY <4>1, <4>2 DEF Plans, Views, Kinds
      <4>5. Copy(p) = v
        BY <3>2, <4>2 DEF Copy
      <4>6. Copy(p) = began[p]
        BY <2>1, <3>2, <4>1 DEF Snapshot!IsSnapshot
      <4>7. began[p] = v
        BY <4>5, <4>6
      <4>8. QED
        BY <4>1, <4>3, <4>4, <4>7, NoneAssumption
    <3>4. \A p \in Paths : began[p] # None => p \in PlannedPaths
      BY <3>1, <3>3, NothingElse
    <3>5. PlannedPaths = {p \in Paths : began[p] # None}
      BY <3>3, <3>4
    <3>6. QED
      BY <3>1, <3>3, <3>5 DEF Sent, PlannedFiles
  <2>2. ASSUME phase \in {"verify", "verified"}, NEW p \in PlannedPaths, planned[p].kind = "file"
        PROVE  sent[p] = planned[p].data
    BY <2>2 DEF IInv, Afterwards, Sent, PlannedFiles
  <2>3. QED
    BY <2>1, <2>2 DEF VerifiedIsSnapshot
<1>2. Spec => []Snapshot!IsSnapshot
  <2>1. Spec => Snapshot!Spec
    BY Refinement DEF ImplementsSnapshot
  <2>2. Observed!Spec => []Observed!IsSnapshot
    BY ObservedIsSnapshot
  <2>3. Snapshot!Init => Observed!Init
    BY Zenon DEF Snapshot!Init, Observed!Init, Snapshot!Shown, Observed!Shown, Snapshot!Nothing,
           Observed!Nothing, SnapValue, SnapStamp, SnapCopy, SnapCopied, SnapChecked,
           SnapStage
  <2>4. Snapshot!Next => Observed!Next
    BY Zenon DEF Snapshot!Next, Observed!Next, Snapshot!Change, Observed!Change, Snapshot!Observe,
           Observed!Observe, Snapshot!Begin, Observed!Begin, Snapshot!Check, Observed!Check,
           Snapshot!Confirm, Observed!Confirm, Snapshot!Fail, Observed!Fail, Snapshot!Shown,
           Observed!Shown, Snapshot!Nothing, Observed!Nothing, Snapshot!world, Observed!world, SnapValue, SnapStamp, SnapCopy, SnapCopied, SnapChecked,
           SnapStage
  <2>5. [Snapshot!Next]_(Snapshot!vars) => [Observed!Next]_(Observed!vars)
    BY <2>4 DEF Snapshot!vars, Observed!vars, SnapValue, SnapStamp, SnapCopy, SnapCopied, SnapChecked,
           SnapStage
  <2>6. Observed!IsSnapshot => Snapshot!IsSnapshot
    BY DEF Snapshot!IsSnapshot, Observed!IsSnapshot, SnapValue, SnapStamp, SnapCopy, SnapCopied, SnapChecked,
           SnapStage
  <2>7. QED
    BY <2>1, <2>2, <2>3, <2>5, <2>6, PTL DEF Snapshot!Spec, Observed!Spec
<1>3. QED
  BY <1>1, <1>2, Invariance, PTL

-----------------------------------------------------------------------------
(* Sums.                                                                   *)
\* The units a sum counts, and the functions that have a sum.
Parts(f) == UNION {{x} \X (1..f[x]) : x \in DOMAIN f}
Terms(f) == f \in [DOMAIN f -> Nat] /\ IsFiniteSet(DOMAIN f)

\* The first element of a part is where it comes from.
LEMMA PartsAre ==
  ASSUME NEW S, NEW f \in [S -> Nat]
  PROVE  \A u : u \in Parts(f) <=> \E x \in S, k \in Nat : u = <<x, k>> /\ 1 <= k /\ k <= f[x]
<1>1. DOMAIN f = S /\ \A x \in S : f[x] \in Nat
  OBVIOUS
<1>2. \A x \in S : 1..f[x] = {k \in Nat : 1 <= k /\ k <= f[x]}
  BY <1>1
<1>3. QED
  BY <1>1, <1>2 DEF Parts

\* One more term.
LEMMA OneMorePart ==
  ASSUME NEW S, NEW x, x \notin S, NEW f \in [S -> Nat], NEW g \in [S \cup {x} -> Nat],
         \A y \in S : g[y] = f[y], IsFiniteSet(Parts(f))
  PROVE  /\ IsFiniteSet(Parts(g)) /\ SumOf(f) \in Nat /\ SumOf(g) \in Nat
         /\ SumOf(g) = SumOf(f) + g[x]
<1> DEFINE new == {x} \X (1..g[x])
<1>1. g[x] \in Nat
  OBVIOUS
<1>2. IsFiniteSet(new) /\ Cardinality(new) = g[x]
  <2>1. IsFiniteSet({x}) /\ Cardinality({x}) = 1
    BY FS_Singleton
  <2>2. IsFiniteSet(1..g[x]) /\ Cardinality(1..g[x]) = g[x]
    <3>1. IsFiniteSet(1..g[x]) /\ Cardinality(1..g[x]) = IF 1 > g[x] THEN 0 ELSE g[x] - 1 + 1
      BY <1>1, FS_Interval
    <3>2. QED
      BY <1>1, <3>1
  <2>3. /\ IsFiniteSet({x} \X (1..g[x]))
        /\ Cardinality({x} \X (1..g[x])) = Cardinality({x}) * Cardinality(1..g[x])
    BY <2>1, <2>2, FS_Product
  <2>4. QED
    BY <1>1, <2>1, <2>2, <2>3
<1>3. Parts(g) = Parts(f) \cup new /\ Parts(f) \cap new = {}
  <2>1. /\ \A u : u \in Parts(f) <=> \E y \in S, k \in Nat : u = <<y, k>> /\ 1 <= k /\ k <= f[y]
        /\ \A u : u \in Parts(g) <=>
                    \E y \in S \cup {x}, k \in Nat : u = <<y, k>> /\ 1 <= k /\ k <= g[y]
    BY PartsAre
  <2>2. \A u : u \in new <=> \E k \in Nat : u = <<x, k>> /\ 1 <= k /\ k <= g[x]
    <3>1. 1..g[x] = {k \in Nat : 1 <= k /\ k <= g[x]}
      BY <1>1
    <3>2. QED
      BY <3>1
  <2> HIDE DEF new
  <2>3. \A u : u \in Parts(g) <=> u \in Parts(f) \/ u \in new
    BY <2>1, <2>2
  <2>4. \A u : ~(u \in Parts(f) /\ u \in new)
    BY <2>1, <2>2
  <2>5. QED
    BY <2>3, <2>4
<1> HIDE DEF new
<1>4. /\ IsFiniteSet(Parts(f) \cup new)
      /\ Cardinality(Parts(f) \cup new) =
           Cardinality(Parts(f)) + Cardinality(new) - Cardinality(Parts(f) \cap new)
  BY <1>2, FS_Union
<1>5. Cardinality(Parts(f) \cap new) = 0 /\ Cardinality(Parts(f)) \in Nat
  BY <1>3, FS_EmptySet, FS_CardinalityType
<1>6. SumOf(f) = Cardinality(Parts(f)) /\ SumOf(g) = Cardinality(Parts(g))
  BY DEF SumOf, Parts
<1>7. QED
  BY <1>1, <1>2, <1>3, <1>4, <1>5, <1>6

\* Finitely many terms have a sum.
LEMMA PartsAreFinite ==
  ASSUME NEW S, IsFiniteSet(S), NEW f \in [S -> Nat]
  PROVE  IsFiniteSet(Parts(f)) /\ SumOf(f) = Cardinality(Parts(f)) /\ SumOf(f) \in Nat
<1> DEFINE g == [x \in S |-> {x} \X (1..f[x])]
           T == {g[x] : x \in S}
<1>1. g \in Surjection(S, T)
  BY DEF Surjection
<1>2. \A x \in S : IsFiniteSet(g[x])
  <2>1. \A x \in S : f[x] \in Int /\ 1 \in Int
    OBVIOUS
  <2>2. \A x \in S : IsFiniteSet({x}) /\ IsFiniteSet(1..f[x])
    BY <2>1, FS_Singleton, FS_Interval
  <2>3. \A x \in S : IsFiniteSet({x} \X (1..f[x]))
    BY <2>2, FS_Product
  <2>4. QED
    BY <2>3
<1>3. Parts(f) = UNION T
  BY DEF Parts
<1> HIDE DEF g, T
<1>4. IsFiniteSet(T)
  BY <1>1, FS_Surjection
<1>5. \A t \in T : IsFiniteSet(t)
  BY <1>2 DEF T
<1>6. IsFiniteSet(Parts(f))
  BY <1>3, <1>4, <1>5, FS_UNION
<1>7. SumOf(f) = Cardinality(Parts(f))
  BY DEF SumOf, Parts
<1>8. QED
  BY <1>6, <1>7, FS_CardinalityType

\* A sum of more terms is no smaller.
LEMMA FewerParts ==
  ASSUME NEW T, IsFiniteSet(T), NEW S \in SUBSET T, NEW f \in [S -> Nat], NEW g \in [T -> Nat],
         \A x \in S : f[x] = g[x]
  PROVE  SumOf(f) \in Nat /\ SumOf(g) \in Nat /\ SumOf(f) <= SumOf(g)
<1>1. IsFiniteSet(S)
  BY FS_Subset
<1>2. Parts(f) \in SUBSET Parts(g)
  BY PartsAre
<1>3. /\ SumOf(f) = Cardinality(Parts(f)) /\ SumOf(f) \in Nat
      /\ SumOf(g) = Cardinality(Parts(g)) /\ SumOf(g) \in Nat /\ IsFiniteSet(Parts(g))
  BY <1>1, PartsAreFinite
<1>4. QED
  BY <1>2, <1>3, FS_Subset

\* There is nothing to add up.
LEMMA SumOfNone ==
  ASSUME NEW f \in [{} -> Nat]
  PROVE  SumOf(f) = 0 /\ Parts(f) = {}
<1>1. Parts(f) = {}
  BY PartsAre
<1>2. QED
  BY <1>1, FS_EmptySet DEF SumOf, Parts

\* The order of the terms does not matter.
LEMMA PartsReordered ==
  ASSUME NEW S, NEW T, IsFiniteSet(S), NEW s \in Bijection(S, T), NEW g \in [T -> Nat],
         NEW f \in [S -> Nat], \A n \in S : f[n] = g[s[n]]
  PROVE  SumOf(f) = SumOf(g)
<1> DEFINE h == [u \in Parts(f) |-> <<s[u[1]], u[2]>>]
<1>1. /\ s \in [S -> T] /\ \A m, n \in S : s[m] = s[n] => m = n
      /\ \A t \in T : \E n \in S : s[n] = t
  BY Fun_BijectionProperties
<1>2. \A u : u \in Parts(f) <=> \E x \in S, k \in Nat : u = <<x, k>> /\ 1 <= k /\ k <= f[x]
  BY PartsAre
<1>3. \A u : u \in Parts(g) <=> \E x \in T, k \in Nat : u = <<x, k>> /\ 1 <= k /\ k <= g[x]
  BY PartsAre
<1>4. \A x \in S, k \in Nat : 1 <= k /\ k <= f[x] =>
        /\ <<x, k>> \in Parts(f) /\ h[<<x, k>>] = <<s[x], k>>
        /\ <<s[x], k>> \in Parts(g)
  BY <1>1, <1>2, <1>3
<1>5. ASSUME NEW u \in Parts(f)
      PROVE  h[u] \in Parts(g)
  <2>1. PICK x \in S, k \in Nat : u = <<x, k>> /\ 1 <= k /\ k <= f[x]
    BY <1>2
  <2>2. <<s[x], k>> \in Parts(g) /\ h[<<x, k>>] = <<s[x], k>>
    BY <1>4, <2>1
  <2> HIDE DEF h
  <2>3. QED
    BY <2>1, <2>2
<1>6. h \in [Parts(f) -> Parts(g)]
  BY <1>5
<1> HIDE DEF h
<1>7. \A u, v \in Parts(f) : h[u] = h[v] => u = v
  <2> SUFFICES ASSUME NEW u \in Parts(f), NEW v \in Parts(f), h[u] = h[v] PROVE u = v
    OBVIOUS
  <2>1. PICK x \in S, k \in Nat : u = <<x, k>> /\ 1 <= k /\ k <= f[x]
    BY <1>2
  <2>2. PICK y \in S, l \in Nat : v = <<y, l>> /\ 1 <= l /\ l <= f[y]
    BY <1>2
  <2>3. <<s[x], k>> = <<s[y], l>>
    <3>1. h[u] = <<s[x], k>> /\ h[v] = <<s[y], l>>
      BY <1>4, <2>1, <2>2
    <3>2. QED
      BY <3>1
  <2>4. s[x] = s[y] /\ k = l
    BY <2>3
  <2>5. QED
    BY <1>1, <2>1, <2>2, <2>4
<1>8. \A w \in Parts(g) : \E u \in Parts(f) : h[u] = w
  <2> SUFFICES ASSUME NEW w \in Parts(g) PROVE \E u \in Parts(f) : h[u] = w
    OBVIOUS
  <2>1. PICK y \in T, k \in Nat : w = <<y, k>> /\ 1 <= k /\ k <= g[y]
    BY <1>3
  <2>2. PICK x \in S : s[x] = y
    BY <1>1
  <2>3. f[x] = g[y]
    BY <2>2
  <2>4. <<x, k>> \in Parts(f) /\ h[<<x, k>>] = <<s[x], k>>
    BY <1>4, <2>1, <2>3
  <2>5. QED
    BY <2>1, <2>2, <2>4
<1>9. h \in Bijection(Parts(f), Parts(g))
  BY <1>6, <1>7, <1>8, Fun_IsBij
<1>10. Cardinality(Parts(f)) = Cardinality(Parts(g))
  BY <1>9, PartsAreFinite, FS_Bijection DEF ExistsBijection
<1>11. QED
  BY <1>10 DEF SumOf, Parts

\* What holds of 0, and of n + 1 if it holds of n, holds of every number.
LEMMA FromZero ==
  ASSUME NEW S \in SUBSET Nat, 0 \in S, \A n \in S : n + 1 \in S
  PROVE  S = Nat
<1> DEFINE T == Nat \ S
<1> SUFFICES ASSUME T # {} PROVE FALSE
  OBVIOUS
<1>1. PICK m \in T : \A k \in T : m <= k
  <2> HIDE DEF T
  <2>1. T \subseteq Nat
    BY DEF T
  <2>2. QED
    BY <2>1, Least
<1>2. m \in Nat /\ m # 0 /\ m \notin S
  BY <1>1
<1>3. m - 1 \in Nat /\ (m - 1) + 1 = m /\ ~(m <= m - 1)
  BY <1>2
<1>4. m - 1 \in S
  BY <1>1, <1>3
<1>5. QED
  BY <1>2, <1>3, <1>4


\* The same of functions that know their domain.
LEMMA SumIs ==
  ASSUME NEW f, Terms(f)
  PROVE  SumOf(f) \in Nat
<1>1. PICK S : S = DOMAIN f
  OBVIOUS
<1>2. IsFiniteSet(S) /\ f \in [S -> Nat]
  BY <1>1 DEF Terms
<1>3. QED
  BY <1>2, PartsAreFinite

\* A sum with one more term.
LEMMA SumOfMore ==
  ASSUME NEW f, NEW g, NEW x, Terms(f), Terms(g), x \notin DOMAIN f,
         DOMAIN g = DOMAIN f \cup {x}, \A y \in DOMAIN f : g[y] = f[y]
  PROVE  SumOf(g) = SumOf(f) + g[x]
<1>1. PICK S : S = DOMAIN f
  OBVIOUS
<1>2. IsFiniteSet(S) /\ f \in [S -> Nat] /\ g \in [S \cup {x} -> Nat] /\ x \notin S
  BY <1>1 DEF Terms
<1>3. \A y \in S : g[y] = f[y]
  BY <1>1
<1>4. IsFiniteSet(Parts(f))
  BY <1>2, PartsAreFinite
<1>5. QED
  BY <1>2, <1>3, <1>4, OneMorePart

\* A sum of some of the terms is not larger.
LEMMA SumOfFewer ==
  ASSUME NEW f, NEW g, Terms(f), Terms(g), DOMAIN f \subseteq DOMAIN g,
         \A x \in DOMAIN f : f[x] = g[x]
  PROVE  SumOf(f) <= SumOf(g)
<1>1. PICK S, T : S = DOMAIN f /\ T = DOMAIN g
  OBVIOUS
<1>2. IsFiniteSet(T) /\ S \in SUBSET T /\ f \in [S -> Nat] /\ g \in [T -> Nat]
  BY <1>1 DEF Terms
<1>3. \A y \in S : f[y] = g[y]
  BY <1>1
<1>4. QED
  BY <1>2, <1>3, FewerParts

\* A sum does not depend on the names of its terms.
LEMMA SumReordered ==
  ASSUME NEW f, NEW g, Terms(f), Terms(g), NEW s \in Bijection(DOMAIN f, DOMAIN g),
         \A n \in DOMAIN f : f[n] = g[s[n]]
  PROVE  SumOf(f) = SumOf(g)
<1>1. PICK S, T : S = DOMAIN f /\ T = DOMAIN g
  OBVIOUS
<1>2. IsFiniteSet(S) /\ f \in [S -> Nat] /\ g \in [T -> Nat] /\ s \in Bijection(S, T)
  BY <1>1 DEF Terms
<1>3. \A y \in S : f[y] = g[s[y]]
  BY <1>1
<1>4. QED
  BY <1>2, <1>3, PartsReordered

-----------------------------------------------------------------------------
(* Lists of entries.                                                       *)
Entry ==
  {x \in [path : Paths \ {Root}, kind : {"file", "directory"}, size : Nat] :
     x.kind = "directory" => x.size = 0}
\* What a manifest may be, valid or not.
ManifestState == [kind : {"file", "directory"}, name : Paths, totalBytes : Nat, entries : Seq(Entry)]

\* The sum of the sizes grows by one entry at a time.
LEMMA SizesAddUp ==
  ASSUME NEW entries \in Seq(Entry)
  PROVE  /\ SizeSum(entries, 0) = 0
         /\ \A n \in 0..Len(entries) : SizeSum(entries, n) \in Nat
                                       /\ SizeSum(entries, n) <= SizeSum(entries, Len(entries))
         /\ \A n \in 1..Len(entries) :
              SizeSum(entries, n) = SizeSum(entries, n - 1) + entries[n].size
<1> DEFINE sizes(n) == [m \in 1..n |-> entries[m].size]
<1>1. /\ Len(entries) \in Nat /\ DOMAIN entries = 1..Len(entries)
      /\ \A n \in 1..Len(entries) : entries[n] \in Entry /\ entries[n].size \in Nat
  <2>1. \A x \in Entry : x.size \in Nat
    BY DEF Entry
  <2>2. QED
    BY <2>1
<1>2. ASSUME NEW n \in 0..Len(entries)
      PROVE  Terms(sizes(n)) /\ DOMAIN sizes(n) = 1..n
  <2>1. 1..n \subseteq 1..Len(entries) /\ n \in Int
    BY <1>1
  <2>2. IsFiniteSet(1..n)
    BY <2>1, FS_Interval
  <2>3. QED
    BY <1>1, <2>1, <2>2 DEF Terms
<1>3. \A n \in 0..Len(entries) : \A i \in 1..n : sizes(n)[i] = entries[i].size
  OBVIOUS
<1>4. \A n : SizeSum(entries, n) = SumOf(sizes(n))
  BY DEF SizeSum
<1> HIDE DEF sizes
<1>5. SizeSum(entries, 0) = 0
  <2>1. 1..0 = {} /\ 0 \in 0..Len(entries)
    BY <1>1
  <2>2. sizes(0) \in [{} -> Nat]
    BY <1>2, <2>1 DEF Terms
  <2>3. QED
    BY <1>4, <2>2, SumOfNone
<1>6. ASSUME NEW n \in 0..Len(entries)
      PROVE  SizeSum(entries, n) \in Nat /\ SizeSum(entries, n) <= SizeSum(entries, Len(entries))
  <2>1. Len(entries) \in 0..Len(entries) /\ 1..n \subseteq 1..Len(entries)
    BY <1>1
  <2>2. \A i \in 1..n : sizes(n)[i] = sizes(Len(entries))[i]
    BY <1>3, <2>1
  <2>3. /\ Terms(sizes(n)) /\ DOMAIN sizes(n) = 1..n
        /\ Terms(sizes(Len(entries))) /\ DOMAIN sizes(Len(entries)) = 1..Len(entries)
    BY <1>2, <2>1
  <2>4. SumOf(sizes(n)) <= SumOf(sizes(Len(entries)))
    BY <2>1, <2>2, <2>3, SumOfFewer
  <2>5. QED
    BY <1>4, <2>3, <2>4, SumIs
<1>7. ASSUME NEW n \in 1..Len(entries)
      PROVE  SizeSum(entries, n) = SizeSum(entries, n - 1) + entries[n].size
  <2>1. /\ n \in 0..Len(entries) /\ n - 1 \in 0..Len(entries)
        /\ 1..n = (1..(n - 1)) \cup {n} /\ n \notin 1..(n - 1) /\ n \in 1..n
    BY <1>1
  <2>2. /\ Terms(sizes(n)) /\ DOMAIN sizes(n) = (1..(n - 1)) \cup {n}
        /\ Terms(sizes(n - 1)) /\ DOMAIN sizes(n - 1) = 1..(n - 1)
    BY <1>2, <2>1
  <2>3. \A i \in 1..(n - 1) : sizes(n)[i] = sizes(n - 1)[i]
    BY <1>3, <2>1
  <2>4. SumOf(sizes(n)) = SumOf(sizes(n - 1)) + sizes(n)[n]
    BY <2>1, <2>2, <2>3, SumOfMore, SMTT(30)
  <2>5. QED
    BY <1>3, <1>4, <2>1, <2>4
<1>8. QED
  BY <1>5, <1>6, <1>7

\* Paths that each come after the one before come in order.
LEMMA Ascending ==
  ASSUME NEW s \in Seq(Paths), \A n \in 2..Len(s) : Precedes(s[n - 1], s[n])
  PROVE  \A m, n \in 1..Len(s) : m < n => Precedes(s[m], s[n])
<1> DEFINE S == {d \in Nat : \A m \in 1..Len(s) : m + d + 1 \in 1..Len(s) =>
                              Precedes(s[m], s[m + d + 1])}
<1>1. Len(s) \in Nat /\ \A n \in 1..Len(s) : s[n] \in Paths
  OBVIOUS
<1>2. 0 \in S
  <2>1. ASSUME NEW m \in 1..Len(s), m + 0 + 1 \in 1..Len(s)
        PROVE  Precedes(s[m], s[m + 0 + 1])
    <3>1. m + 1 \in 2..Len(s) /\ (m + 1) - 1 = m /\ m + 0 + 1 = m + 1
      BY <1>1, <2>1
    <3>2. QED
      BY <3>1
  <2>2. QED
    BY <2>1
<1>3. ASSUME NEW d \in S
      PROVE  d + 1 \in S
  <2>1. ASSUME NEW m \in 1..Len(s), m + (d + 1) + 1 \in 1..Len(s)
        PROVE  Precedes(s[m], s[m + (d + 1) + 1])
    <3>1. /\ m + d + 1 \in 1..Len(s) /\ m + (d + 1) + 1 \in 2..Len(s)
          /\ (m + (d + 1) + 1) - 1 = m + d + 1
      BY <1>1, <2>1
    <3>2. Precedes(s[m], s[m + d + 1])
      BY <3>1
    <3>3. Precedes(s[m + d + 1], s[m + (d + 1) + 1])
      BY <3>1
    <3>4. s[m] \in Paths /\ s[m + d + 1] \in Paths /\ s[m + (d + 1) + 1] \in Paths
      BY <1>1, <2>1, <3>1
    <3>5. QED
      BY <3>2, <3>3, <3>4, PathOrder
  <2>2. d + 1 \in Nat
    OBVIOUS
  <2>3. QED
    BY <2>1, <2>2
<1>4. S = Nat
  <2>1. S \in SUBSET Nat
    OBVIOUS
  <2> HIDE DEF S
  <2>2. QED
    BY <1>2, <1>3, <2>1, FromZero
<1>5. ASSUME NEW m \in 1..Len(s), NEW n \in 1..Len(s), m < n
      PROVE  Precedes(s[m], s[n])
  <2>1. (n - m) - 1 \in Nat /\ m + ((n - m) - 1) + 1 = n
    BY <1>1, <1>5
  <2>2. (n - m) - 1 \in S
    BY <1>4, <2>1
  <2>3. QED
    BY <2>1, <2>2
<1>6. QED
  BY <1>5

\* Paths in order are the sequence of their set.
LEMMA OrderIsTheirs ==
  ASSUME NEW s \in Seq(Paths), \A m, n \in 1..Len(s) : m < n => Precedes(s[m], s[n])
  PROVE  s = InOrder(Elements(s))
<1> DEFINE ps == Elements(s)
<1>1. /\ Len(s) \in Nat /\ DOMAIN s = 1..Len(s)
      /\ \A n \in 1..Len(s) : s[n] \in Paths /\ s[n] \in ps
      /\ \A p \in ps : \E n \in 1..Len(s) : s[n] = p
  BY DEF Elements
<1> HIDE DEF ps
<1>2. ASSUME NEW m \in 1..Len(s), NEW n \in 1..Len(s)
      PROVE  s[m] = s[n] => m = n
  <2>1. m \in Int /\ n \in Int
    BY <1>1
  <2>2. m < n \/ n < m \/ m = n
    BY <2>1
  <2>3. QED
    BY <1>1, <2>2, PathOrder
<1>3. ASSUME NEW n \in 0..Len(s), NEW T, \A p : p \in T <=> \E m \in 1..n : s[m] = p
      PROVE  IsFiniteSet(T) /\ Cardinality(T) = n
  <2> DEFINE f == [m \in 1..n |-> s[m]]
  <2>1. 1..n \subseteq 1..Len(s) /\ n \in Nat
    BY <1>1
  <2>2. IsFiniteSet(1..n) /\ Cardinality(1..n) = n
    <3>1. IsFiniteSet(1..n) /\ Cardinality(1..n) = IF 1 > n THEN 0 ELSE n - 1 + 1
      BY <2>1, FS_Interval
    <3>2. QED
      BY <2>1, <3>1
  <2>3. f \in [1..n -> T] /\ \A a, b \in 1..n : f[a] = f[b] => a = b
    BY <1>2, <1>3, <2>1
  <2>4. \A p \in T : \E m \in 1..n : f[m] = p
    BY <1>3
  <2> HIDE DEF f
  <2>5. f \in Bijection(1..n, T)
    BY <2>3, <2>4, Fun_IsBij
  <2>6. ExistsBijection(1..n, T)
    BY <2>5 DEF ExistsBijection
  <2>7. QED
    BY <2>2, <2>6, FS_Bijection
<1>4. Cardinality(ps) = Len(s)
  <2>1. Len(s) \in 0..Len(s) /\ \A p : p \in ps <=> \E m \in 1..Len(s) : s[m] = p
    BY <1>1
  <2>2. QED
    BY <1>3, <2>1
<1>5. ASSUME NEW n \in 1..Len(s)
      PROVE  Cardinality(UpTo(s[n], ps)) = n
  <2>1. ASSUME NEW p
        PROVE  p \in UpTo(s[n], ps) <=> \E m \in 1..n : s[m] = p
    <3>1. \A m \in 1..n : m \in 1..Len(s) /\ (m < n \/ m = n)
      BY <1>1
    <3>2. \A m \in 1..n : s[m] \in UpTo(s[n], ps)
      BY <1>1, <3>1 DEF UpTo
    <3>3. ASSUME p \in UpTo(s[n], ps)
          PROVE  \E m \in 1..n : s[m] = p
      <4>1. p \in ps /\ (p = s[n] \/ Precedes(p, s[n]))
        BY <3>3 DEF UpTo
      <4>2. PICK m \in 1..Len(s) : s[m] = p
        BY <1>1, <4>1
      <4>3. ~(n < m)
        <5>1. ASSUME n < m PROVE FALSE
          <6>1. Precedes(s[n], s[m]) /\ s[n] \in Paths /\ s[m] \in Paths
            BY <1>1, <5>1
          <6>2. QED
            BY <4>1, <4>2, <6>1, PathOrder
        <5>2. QED
          BY <5>1
      <4>4. m \in 1..n
        BY <1>1, <4>3
      <4>5. QED
        BY <4>2, <4>4
    <3>4. QED
      BY <3>2, <3>3
  <2>2. n \in 0..Len(s)
    BY <1>1
  <2>3. PICK T : T = UpTo(s[n], ps)
    OBVIOUS
  <2>4. QED
    BY <1>3, <2>1, <2>2, <2>3
<1>6. \A n \in 1..Len(s) : InOrder(ps)[n] = s[n]
  <2>1. ASSUME NEW n \in 1..Len(s)
        PROVE  InOrder(ps)[n] = s[n]
    <3>1. InOrder(ps)[n] = CHOOSE p \in ps : Cardinality(UpTo(p, ps)) = n
      BY <1>4 DEF InOrder
    <3>2. \A p \in ps : Cardinality(UpTo(p, ps)) = n => p = s[n]
      BY <1>1, <1>5
    <3>3. s[n] \in ps /\ Cardinality(UpTo(s[n], ps)) = n
      BY <1>1, <1>5
    <3>4. QED
      BY <3>1, <3>2, <3>3
  <2>2. QED
    BY <2>1
<1>7. DOMAIN InOrder(ps) = 1..Len(s) /\ InOrder(ps) = [n \in 1..Len(s) |-> InOrder(ps)[n]]
  BY <1>4 DEF InOrder
<1>8. s = [n \in 1..Len(s) |-> s[n]]
  BY <1>1
<1>9. QED
  BY <1>6, <1>7, <1>8 DEF ps

\* What the loop of validateEntries demands of the n-th entry.
Follows(entries, n) ==
  /\ Canonical(entries[n].path)
  /\ n # 1 => Precedes(entries[n - 1].path, entries[n].path)
  /\ \A p \in Parents(entries[n].path) :
       \E k \in 1..(n - 1) : entries[k].kind = "directory" /\ entries[k].path = p
  /\ entries[n].kind = "file" =>
       entries[n].size <= MaxFile /\ SizeSum(entries, n - 1) + entries[n].size <= MaxTotal

\* What DescribesTree says of the entries.
OfTree(entries, E) ==
  /\ \A x \in E : Canonical(x.path) /\ x.size <= MaxFile
  /\ \A x \in E : \A p \in Parents(x.path) : \E y \in E : y.path = p /\ y.kind = "directory"
  /\ [n \in DOMAIN entries |-> entries[n].path] = InOrder({x.path : x \in E})
  /\ SizeSum(entries, Len(entries)) <= MaxTotal

\* One turn of the loop finds nothing wrong where the entry follows the others.
LEMMA TurnIs ==
  ASSUME NEW entries \in Seq(Entry), NEW n \in 1..Len(entries)
  PROVE  EntryViolation(SeenBefore(entries, n), entries[n]) = "none" <=> Follows(entries, n)
<1> DEFINE x == entries[n]
           seen == SeenBefore(entries, n)
<1>1. /\ Len(entries) \in Nat /\ n \in Nat
      /\ \A k \in 1..Len(entries) : entries[k] \in Entry
  OBVIOUS
<1>2. \A k \in 1..Len(entries) : entries[k].path \in Paths \ {Root} /\ entries[k].size \in Nat
  <2>1. \A y \in Entry : y.path \in Paths \ {Root} /\ y.size \in Nat
    BY DEF Entry
  <2>2. QED
    BY <1>1, <2>1
<1>3. /\ seen.previous = IF n = 1 THEN <<>> ELSE entries[n - 1].path
      /\ seen.directories =
           {entries[k].path : k \in {k \in 1..(n - 1) : entries[k].kind = "directory"}}
      /\ seen.total = SizeSum(entries, n - 1)
  BY DEF SeenBefore
<1>4. /\ x.size \in Nat /\ seen.total \in Nat /\ MaxFile \in Nat /\ MaxTotal \in Nat
  <2>1. n - 1 \in 0..Len(entries)
    BY <1>1
  <2>2. SizeSum(entries, n - 1) \in Nat
    BY <2>1, SizesAddUp
  <2>3. QED
    BY <1>2, <1>3, <2>2, LimitsAssumption
<1>5. (seen.previous # <<>> /\ ~Precedes(seen.previous, x.path)) <=>
      ~(n # 1 => Precedes(entries[n - 1].path, x.path))
  <2>1. n # 1 => n - 1 \in 1..Len(entries)
    BY <1>1
  <2>2. n # 1 => entries[n - 1].path # <<>>
    BY <1>2, <2>1 DEF Root
  <2> HIDE DEF seen, x
  <2>3. QED
    BY <1>3, <2>2
<1>6. Parents(x.path) \subseteq seen.directories <=>
      \A p \in Parents(x.path) :
        \E k \in 1..(n - 1) : entries[k].kind = "directory" /\ entries[k].path = p
  <2> HIDE DEF seen, x
  <2>1. QED
    BY <1>3
<1>7. (x.kind = "file" /\ (x.size > MaxFile \/ seen.total + x.size > MaxTotal)) <=>
      ~(x.kind = "file" => x.size <= MaxFile /\ SizeSum(entries, n - 1) + x.size <= MaxTotal)
  <2> HIDE DEF seen, x
  <2>1. QED
    BY <1>3, <1>4
<1>8. EntryViolation(seen, x) = "none" <=>
      /\ Canonical(x.path)
      /\ ~(seen.previous # <<>> /\ ~Precedes(seen.previous, x.path))
      /\ Parents(x.path) \subseteq seen.directories
      /\ ~(x.kind = "file" /\ (x.size > MaxFile \/ seen.total + x.size > MaxTotal))
  <2> HIDE DEF seen, x
  <2>1. QED
    BY DEF EntryViolation
<1>9. QED
  <2>1. Follows(entries, n) <=>
        /\ Canonical(x.path)
        /\ n # 1 => Precedes(entries[n - 1].path, x.path)
        /\ \A p \in Parents(x.path) :
             \E k \in 1..(n - 1) : entries[k].kind = "directory" /\ entries[k].path = p
        /\ x.kind = "file" => x.size <= MaxFile /\ SizeSum(entries, n - 1) + x.size <= MaxTotal
    BY DEF Follows
  <2> HIDE DEF seen, x
  <2>2. EntryViolation(seen, x) = "none" <=> Follows(entries, n)
    BY <1>5, <1>6, <1>7, <1>8, <2>1
  <2>3. QED
    BY <2>2 DEF seen, x

\* There is a first faulty entry, or none.
LEMMA LoopIs ==
  ASSUME NEW entries \in Seq(Entry)
  PROVE  ValidateEntries(entries) = "none" <=> \A n \in 1..Len(entries) : Follows(entries, n)
<1> DEFINE at(n) == EntryViolation(SeenBefore(entries, n), entries[n])
           faulty == {n \in DOMAIN entries : at(n) # "none"}
           first == CHOOSE n \in faulty : \A m \in faulty : n <= m
<1>1. ValidateEntries(entries) = IF faulty = {} THEN "none" ELSE at(first)
  BY DEF ValidateEntries
<1>2. DOMAIN entries = 1..Len(entries) /\ Len(entries) \in Nat
  OBVIOUS
<1>3. faulty = {} <=> \A n \in 1..Len(entries) : Follows(entries, n)
  BY <1>2, TurnIs
<1>4. ASSUME faulty # {} PROVE first \in faulty
  <2>1. faulty \subseteq Nat
    BY <1>2
  <2> HIDE DEF faulty
  <2>2. \E n \in faulty : \A m \in faulty : n <= m
    BY <1>4, <2>1, Least
  <2>3. QED
    BY <2>2
<1>5. faulty # {} => at(first) # "none"
  <2>1. \A n \in faulty : at(n) # "none"
    OBVIOUS
  <2> HIDE DEF faulty, at, first
  <2>2. QED
    BY <1>4, <2>1
<1>6. QED
  <2> HIDE DEF faulty, at, first
  <2>1. QED
    BY <1>1, <1>3, <1>5

\* The entries of a tree are those of which every one follows what came before it.
LEMMA AcceptedEntries ==
  ASSUME NEW entries \in Seq(Entry),
         \A n \in 1..Len(entries) : Follows(entries, n)
  PROVE  OfTree(entries, {entries[n] : n \in DOMAIN entries})
<1> DEFINE E == {entries[n] : n \in DOMAIN entries}
           s == [n \in DOMAIN entries |-> entries[n].path]
<1>1. /\ Len(entries) \in Nat /\ DOMAIN entries = 1..Len(entries)
      /\ \A n \in 1..Len(entries) : entries[n] \in Entry
      /\ MaxFile \in Nat /\ MaxTotal \in Nat
  BY LimitsAssumption
<1>2. \A n \in 1..Len(entries) : /\ entries[n].path \in Paths /\ entries[n].size \in Nat
                                 /\ entries[n].kind \in {"file", "directory"}
                                 /\ entries[n].kind = "directory" => entries[n].size = 0
  <2>1. \A y \in Entry : /\ y.path \in Paths /\ y.size \in Nat /\ y.kind \in {"file", "directory"}
                         /\ y.kind = "directory" => y.size = 0
    BY DEF Entry
  <2>2. QED
    BY <1>1, <2>1
<1>3. \A x \in E : Canonical(x.path) /\ x.size <= MaxFile
  <2>1. ASSUME NEW n \in 1..Len(entries)
        PROVE  Canonical(entries[n].path) /\ entries[n].size <= MaxFile
    BY <1>1, <1>2 DEF Follows
  <2>2. QED
    BY <1>1, <2>1
<1>4. \A x \in E : \A p \in Parents(x.path) : \E y \in E : y.path = p /\ y.kind = "directory"
  <2>1. ASSUME NEW n \in 1..Len(entries), NEW p \in Parents(entries[n].path)
        PROVE  \E y \in E : y.path = p /\ y.kind = "directory"
    <3>1. PICK k \in 1..(n - 1) : entries[k].kind = "directory" /\ entries[k].path = p
      BY DEF Follows
    <3>2. k \in DOMAIN entries
      BY <1>1, <3>1
    <3>3. QED
      BY <3>1, <3>2
  <2>2. ASSUME NEW x \in E, NEW p \in Parents(x.path)
        PROVE  \E y \in E : y.path = p /\ y.kind = "directory"
    <3>1. PICK n \in 1..Len(entries) : x = entries[n]
      BY <1>1
    <3> HIDE DEF E
    <3>2. QED
      BY <2>1, <3>1
  <2>3. QED
    BY <2>2
<1>5. s = InOrder({x.path : x \in E})
  <2>1. s \in Seq(Paths) /\ Len(s) = Len(entries) /\ \A n \in 1..Len(s) : s[n] = entries[n].path
    <3>1. s \in [1..Len(entries) -> Paths]
      BY <1>1, <1>2
    <3>2. s \in Seq(Paths) /\ Len(s) = Len(entries)
      BY <1>1, <3>1, SeqDef
    <3>3. QED
      BY <1>1, <3>2
  <2>2. Elements(s) = {x.path : x \in E}
    BY DEF Elements
  <2> HIDE DEF s, E
  <2>3. ASSUME NEW n \in 2..Len(s)
        PROVE  Precedes(s[n - 1], s[n])
    <3>1. n \in 1..Len(s) /\ n - 1 \in 1..Len(s) /\ n # 1
      BY <1>1, <2>1
    <3>2. s[n] = entries[n].path /\ s[n - 1] = entries[n - 1].path
      BY <2>1, <3>1
    <3>3. Precedes(entries[n - 1].path, entries[n].path)
      BY <2>1, <3>1 DEF Follows
    <3>4. QED
      BY <3>2, <3>3
  <2>4. \A m, n \in 1..Len(s) : m < n => Precedes(s[m], s[n])
    BY <2>1, <2>3, Ascending
  <2>5. QED
    BY <2>1, <2>2, <2>4, OrderIsTheirs
<1>6. SizeSum(entries, Len(entries)) <= MaxTotal
  <2> DEFINE S == {n \in Nat : n <= Len(entries) => SizeSum(entries, n) <= MaxTotal}
  <2>1. 0 \in S
    BY <1>1, SizesAddUp
  <2>2. ASSUME NEW n \in S
        PROVE  n + 1 \in S
    <3>1. n + 1 \in Nat /\ (n + 1) - 1 = n
      OBVIOUS
    <3>2. ASSUME n + 1 <= Len(entries)
          PROVE  SizeSum(entries, n + 1) <= MaxTotal
      <4>1. n + 1 \in 1..Len(entries) /\ n <= Len(entries) /\ n \in 0..Len(entries)
        BY <1>1, <3>2
      <4>2. /\ SizeSum(entries, n + 1) = SizeSum(entries, n) + entries[n + 1].size
            /\ SizeSum(entries, n) \in Nat /\ SizeSum(entries, n) <= MaxTotal
        <5>1. SizeSum(entries, n + 1) = SizeSum(entries, (n + 1) - 1) + entries[n + 1].size
          BY <4>1, SizesAddUp
        <5>2. QED
          BY <3>1, <4>1, <5>1, SizesAddUp
      <4>3. CASE entries[n + 1].kind = "file"
        <5>1. SizeSum(entries, (n + 1) - 1) + entries[n + 1].size <= MaxTotal
          BY <4>1, <4>3 DEF Follows
        <5>2. QED
          BY <3>1, <4>2, <5>1
      <4>4. CASE entries[n + 1].kind = "directory"
        <5>1. entries[n + 1].size = 0
          BY <1>2, <4>1, <4>4
        <5>2. QED
          BY <4>2, <5>1
      <4>5. QED
        BY <1>2, <4>1, <4>3, <4>4
    <3>3. QED
      BY <3>1, <3>2
  <2>3. S = Nat
    <3>1. S \in SUBSET Nat
      OBVIOUS
    <3> HIDE DEF S
    <3>2. QED
      BY <2>1, <2>2, <3>1, FromZero
  <2>4. Len(entries) \in S
    BY <1>1, <2>3
  <2>5. QED
    BY <1>1, <2>4
<1>7. OfTree(entries, E)
  <2> HIDE DEF E
  <2>1. QED
    BY <1>3, <1>4, <1>5, <1>6 DEF OfTree
<1>8. QED
  BY <1>7

\* And the other way round.
LEMMA EntriesOfTree ==
  ASSUME NEW entries \in Seq(Entry), NEW E, E = {entries[n] : n \in DOMAIN entries},
         OfTree(entries, E), NEW n \in 1..Len(entries)
  PROVE  Follows(entries, n)
<1> DEFINE s == [i \in DOMAIN entries |-> entries[i].path]
           ps == {x.path : x \in E}
<1>0. /\ \A x \in E : Canonical(x.path) /\ x.size <= MaxFile
      /\ \A x \in E : \A p \in Parents(x.path) : \E y \in E : y.path = p /\ y.kind = "directory"
      /\ s = InOrder(ps)
      /\ SizeSum(entries, Len(entries)) <= MaxTotal
  BY DEF OfTree
<1>1. /\ Len(entries) \in Nat /\ DOMAIN entries = 1..Len(entries)
      /\ \A i \in 1..Len(entries) : entries[i] \in Entry /\ entries[i] \in E
      /\ MaxFile \in Nat /\ MaxTotal \in Nat
  BY LimitsAssumption
<1>2. \A i \in 1..Len(entries) : entries[i].path \in Paths /\ entries[i].size \in Nat
  <2>1. \A y \in Entry : y.path \in Paths /\ y.size \in Nat
    BY DEF Entry
  <2>2. QED
    BY <1>1, <2>1
<1>3. \A i, j \in 1..Len(entries) : i < j => Precedes(entries[i].path, entries[j].path)
  <2>1. ps \in SUBSET Paths
    BY <1>1, <1>2
  <2>2. s = InOrder(ps)
    BY <1>0
  <2>3. DOMAIN s = 1..Len(entries) /\ \A i \in 1..Len(entries) : s[i] = entries[i].path
    BY <1>1
  <2> HIDE DEF s, ps
  <2>4. \A i, j \in DOMAIN s : i < j => Precedes(s[i], s[j])
    BY <2>1, <2>2, Ordered
  <2>5. QED
    BY <2>3, <2>4
<1>4. ASSUME NEW p \in Parents(entries[n].path)
      PROVE  \E k \in 1..(n - 1) : entries[k].kind = "directory" /\ entries[k].path = p
  <2>1. PICK k \in 1..Len(entries) : entries[k].path = p /\ entries[k].kind = "directory"
    <3>1. entries[n] \in E
      BY <1>1
    <3>2. PICK y \in E : y.path = p /\ y.kind = "directory"
      BY <1>0, <1>4, <3>1
    <3>3. PICK k \in 1..Len(entries) : y = entries[k]
      BY <1>1
    <3>4. QED
      BY <3>2, <3>3
  <2>2. Precedes(p, entries[n].path) /\ p \in Paths /\ entries[n].path \in Paths
    BY <1>2, <1>4, <2>1, TextAssumption
  <2>3. k < n
    <3>1. k # n
      BY <2>1, <2>2, PathOrder
    <3>2. ~(n < k)
      BY <1>3, <2>1, <2>2, PathOrder
    <3>3. QED
      BY <1>1, <3>1, <3>2
  <2>4. k \in 1..(n - 1)
    BY <1>1, <2>3
  <2>5. QED
    BY <2>1, <2>4
<1>5. n # 1 => Precedes(entries[n - 1].path, entries[n].path)
  <2>1. n # 1 => n - 1 \in 1..Len(entries) /\ n - 1 < n
    BY <1>1
  <2>2. QED
    BY <1>3, <2>1
<1>6. entries[n].size <= MaxFile /\ SizeSum(entries, n - 1) + entries[n].size <= MaxTotal
  <2>1. n \in 0..Len(entries) /\ Len(entries) \in 0..Len(entries)
    BY <1>1
  <2>2. /\ SizeSum(entries, n) = SizeSum(entries, n - 1) + entries[n].size
        /\ SizeSum(entries, n) <= SizeSum(entries, Len(entries))
        /\ SizeSum(entries, n) \in Nat /\ SizeSum(entries, Len(entries)) \in Nat
    BY <2>1, SizesAddUp
  <2>3. entries[n].size <= MaxFile
    BY <1>0, <1>1
  <2>4. QED
    BY <1>0, <1>1, <2>2, <2>3
<1>7. QED
  BY <1>0, <1>1, <1>4, <1>5, <1>6 DEF Follows

\* The receiver accepts exactly the manifests that describe a tree.
LEMMA Validates ==
  ASSUME NEW m \in ManifestState
  PROVE  Violation(m) = "none" <=> DescribesTree(m)
<1> DEFINE entries == m.entries
           E == {entries[n] : n \in DOMAIN entries}
           len == Len(entries)
<1>1. /\ entries \in Seq(Entry) /\ len \in Nat /\ DOMAIN entries = 1..len
      /\ MaxEntries \in Nat
  BY LimitsAssumption DEF ManifestState
<1>2. Violation(m) = "none" <=>
        /\ Len(m.name) = 1 /\ Canonical(m.name)
        /\ ~(len > MaxEntries)
        /\ ValidateEntries(entries) = "none"
        /\ m.totalBytes = SizeSum(entries, len)
        /\ ~(m.kind = "file" /\ \/ len # 1
                                \/ entries[1].kind # "file"
                                \/ entries[1].path # m.name)
  BY DEF Violation
<1>3. DescribesTree(m) <=>
        /\ Len(m.name) = 1 /\ Canonical(m.name)
        /\ OfTree(entries, E)
        /\ len <= MaxEntries
        /\ SizeSum(entries, len) = m.totalBytes
        /\ m.kind = "file" => len = 1 /\ \A x \in E : x.kind = "file" /\ x.path = m.name
  BY DEF DescribesTree, OfTree
<1>4. len = 1 => E = {entries[1]}
  BY <1>1
<1>5. (\A n \in 1..len : Follows(entries, n)) <=> OfTree(entries, E)
  <2>1. PICK list : list = entries
    OBVIOUS
  <2>2. PICK F : F = E
    OBVIOUS
  <2>3. /\ list \in Seq(Entry) /\ F = {list[n] : n \in DOMAIN list} /\ len = Len(list)
    BY <1>1, <2>1, <2>2
  <2> HIDE DEF entries, E, len
  <2>4. (\A n \in 1..Len(list) : Follows(list, n)) => OfTree(list, F)
    BY <2>3, AcceptedEntries
  <2>5. OfTree(list, F) => \A n \in 1..Len(list) : Follows(list, n)
    <3> SUFFICES ASSUME OfTree(list, F), NEW n \in 1..Len(list)
                 PROVE  Follows(list, n)
      OBVIOUS
    <3>1. QED
      BY <2>3, EntriesOfTree
  <2>6. QED
    BY <2>1, <2>2, <2>3, <2>4, <2>5
<1>6. ValidateEntries(entries) = "none" <=> \A n \in 1..len : Follows(entries, n)
  BY <1>1, LoopIs
<1>7. QED
  <2> HIDE DEF entries, E, len
  <2>1. ~(len > MaxEntries) <=> len <= MaxEntries
    BY <1>1
  <2>2. ~(m.kind = "file" /\ \/ len # 1
                             \/ entries[1].kind # "file"
                             \/ entries[1].path # m.name)
        <=> (m.kind = "file" => len = 1 /\ \A x \in E : x.kind = "file" /\ x.path = m.name)
    BY <1>4
  <2>3. QED
    BY <1>2, <1>3, <1>5, <1>6, <2>1, <2>2


\* Manifests that differ from one are manifests.
LEMMA OthersAre ==
  ASSUME NEW m \in ManifestState
  PROVE  Others(m) \subseteq ManifestState
<1> DEFINE N == 1..Len(m.entries)
           lists == {[n \in 1..k |-> m.entries[f[n]]] : k \in 0..Len(m.entries), f \in [N -> N]}
           changed == {[path |-> p, kind |-> IF size = 0 THEN "directory" ELSE "file", size |-> size] :
                         p \in Paths \ {<<>>}, size \in {0, 1, MaxFile + 1}}
           replaced == {[m.entries EXCEPT ![n] = x] : n \in N, x \in changed}
           added == {Append(m.entries, x) : x \in changed}
<1>1. /\ m.entries \in Seq(Entry) /\ Len(m.entries) \in Nat
      /\ m.kind \in {"file", "directory"} /\ m.name \in Paths /\ m.totalBytes \in Nat
      /\ \A n \in N : m.entries[n] \in Entry
      /\ DOMAIN m.entries = N
  BY DEF ManifestState
<1>2. changed \subseteq Entry
  <2>1. ASSUME NEW p \in Paths \ {<<>>}, NEW size \in {0, 1, MaxFile + 1}
        PROVE  [path |-> p, kind |-> IF size = 0 THEN "directory" ELSE "file", size |-> size] \in Entry
    <3>1. size \in Nat
      BY LimitsAssumption
    <3>2. QED
      BY <3>1 DEF Entry, Root
  <2>2. ASSUME NEW x \in changed
        PROVE  x \in Entry
    <3>1. PICK p \in Paths \ {<<>>}, size \in {0, 1, MaxFile + 1} :
            x = [path |-> p, kind |-> IF size = 0 THEN "directory" ELSE "file", size |-> size]
      OBVIOUS
    <3> HIDE DEF changed
    <3>2. QED
      BY <2>1, <3>1
  <2>3. QED
    BY <2>2
<1> HIDE DEF changed
<1>3. lists \subseteq Seq(Entry)
  <2>1. ASSUME NEW k \in 0..Len(m.entries), NEW f \in [N -> N]
        PROVE  [n \in 1..k |-> m.entries[f[n]]] \in Seq(Entry)
    <3>1. k \in Nat /\ \A n \in 1..k : f[n] \in N
      BY <1>1
    <3>2. [n \in 1..k |-> m.entries[f[n]]] \in [1..k -> Entry]
      BY <1>1, <3>1
    <3>3. QED
      BY <3>1, <3>2, SeqDef
  <2>2. QED
    BY <2>1
<1>4. replaced \subseteq Seq(Entry)
  <2>1. ASSUME NEW n \in N, NEW x \in changed
        PROVE  [m.entries EXCEPT ![n] = x] \in Seq(Entry)
    BY <1>1, <1>2
  <2>2. QED
    BY <2>1
<1>5. added \subseteq Seq(Entry)
  <2>1. ASSUME NEW x \in changed
        PROVE  Append(m.entries, x) \in Seq(Entry)
    BY <1>1, <1>2
  <2>2. QED
    BY <2>1
<1>6. ASSUME NEW list \in lists \cup replaced \cup added
      PROVE  [m EXCEPT !.entries = list, !.totalBytes = SizeSum(list, Len(list))] \in ManifestState
  <2>1. list \in Seq(Entry)
    BY <1>3, <1>4, <1>5
  <2>2. Len(list) \in 0..Len(list)
    BY <2>1
  <2>3. SizeSum(list, Len(list)) \in Nat
    BY <2>1, <2>2, SizesAddUp
  <2>4. PICK sum : sum = SizeSum(list, Len(list))
    OBVIOUS
  <2>5. sum \in Nat
    BY <2>3, <2>4
  <2>6. [m EXCEPT !.entries = list, !.totalBytes = sum] \in ManifestState
    <3> DEFINE l == [m EXCEPT !.entries = list]
    <3>1. [m EXCEPT !.entries = list, !.totalBytes = sum] = [l EXCEPT !.totalBytes = sum]
      OBVIOUS
    <3>2. l \in ManifestState
      BY <2>1 DEF ManifestState
    <3> HIDE DEF l
    <3>3. [l EXCEPT !.totalBytes = sum] \in ManifestState
      BY <2>5, <3>2, SMTT(30) DEF ManifestState
    <3>4. QED
      BY <3>1, <3>3
  <2>7. QED
    BY <2>4, <2>6
<1>7. ASSUME NEW list \in replaced
      PROVE  [m EXCEPT !.entries = list] \in ManifestState
  BY <1>4, SMTT(30) DEF ManifestState
<1>8. \A kind \in {"file", "directory"} : [m EXCEPT !.kind = kind] \in ManifestState
  BY DEF ManifestState
<1>9. \A name \in Paths : [m EXCEPT !.name = name] \in ManifestState
  BY DEF ManifestState
<1>10. Others(m) =
         {[m EXCEPT !.entries = list, !.totalBytes = SizeSum(list, Len(list))] :
            list \in lists \cup replaced \cup added}
         \cup {[m EXCEPT !.entries = list] : list \in replaced}
         \cup {[m EXCEPT !.kind = kind] : kind \in {"file", "directory"}}
         \cup {[m EXCEPT !.name = name] : name \in Paths}
  BY DEF Others, changed
<1> HIDE DEF lists, replaced, added
<1>11. QED
  BY <1>6, <1>7, <1>8, <1>9, <1>10

-----------------------------------------------------------------------------
(* What the plan has counted and added up.                                 *)
\* The names that were listed; a requested file counts as one.  Sizes is within the
\* limits throughout, and Counts says what the counters of preparePull hold.
ScansRoot == call.pass = "plan" /\ call.path = Root /\ call.at \in {"scan"} \cup Reading
FileIsRoot == IF planned[Root] = None THEN ScansRoot ELSE RootKind = "file"
NamedSoFar == UNION {planned[p].children : p \in PlannedPaths}
Counted == NamedSoFar \cup call.seen \cup (IF FileIsRoot THEN {Root} ELSE {})

Sizes ==
  /\ Len(call.bytes) <= MaxFile
  /\ call.at \notin Listed \cup Unwinding => call.seen = {}
  /\ call.pass = "plan" => Canonical(call.path)
  /\ \A p \in PlannedPaths :
       /\ Canonical(p) /\ Len(planned[p].data) <= MaxFile
       /\ planned[p].kind = "directory" => planned[p].data = <<>>
  /\ PlannedBytes <= MaxTotal
Counts ==
  /\ discovered \in Nat /\ rechecked \in Nat /\ total \in Nat
  /\ phase \in {"plan", "stream"} => discovered <= MaxEntries /\ total = PlannedBytes
  /\ phase = "plan" /\ call.at \notin Unwinding => discovered = Cardinality(Counted)
  /\ phase \in {"stream", "verify", "verified"} =>
       /\ Cardinality(PlannedPaths \ {Root}) <= MaxEntries
       /\ RootKind = "file" => 1 <= MaxEntries
PlanBooks == Sizes /\ Counts

\* What is planned has a size.
LEMMA PlannedTerms ==
  ASSUME TypeOK
  PROVE  /\ Terms([p \in PlannedPaths |-> Len(planned[p].data)]) /\ IsFiniteSet(PlannedPaths)
         /\ PlannedBytes \in Nat
         /\ \A p \in PlannedPaths : planned[p] \in Plans /\ Len(planned[p].data) \in Nat
<1>1. \A p \in PlannedPaths : planned[p] \in Plans /\ Len(planned[p].data) \in Nat
  BY DEF TypeOK, PlannedPaths, Plans
<1>2. IsFiniteSet(PlannedPaths)
  BY PathOrder, FS_Subset DEF PlannedPaths
<1>3. Terms([p \in PlannedPaths |-> Len(planned[p].data)])
  BY <1>1, <1>2 DEF Terms
<1>4. PlannedBytes \in Nat
  BY <1>3, SumIs DEF PlannedBytes
<1>5. QED
  BY <1>1, <1>2, <1>3, <1>4

\* The plan stays as it is, and the call has what it had.
LEMMA BooksStay ==
  ASSUME PlanBooks, UNCHANGED <<planned, discovered, rechecked, total>>,
         phase' = phase \/ phase' = "failed",
         Len(call'.bytes) <= MaxFile,
         call'.at \notin Listed \cup Unwinding => call'.seen = {},
         call'.pass = "plan" => Canonical(call'.path),
         phase' = "plan" /\ call'.at \notin Unwinding =>
           /\ call.at \notin Unwinding /\ call'.seen = call.seen
           /\ planned[Root] # None \/ (ScansRoot' <=> ScansRoot)
  PROVE  PlanBooks'
<1>1. /\ PlannedPaths' = PlannedPaths /\ PlannedBytes' = PlannedBytes /\ RootKind' = RootKind
      /\ NamedSoFar' = NamedSoFar
  BY DEF PlannedPaths, PlannedBytes, RootKind, NamedSoFar
<1>2. Sizes'
  BY <1>1 DEF PlanBooks, Sizes
<1>3. phase' = "plan" /\ call'.at \notin Unwinding => Counted' = Counted /\ call.at \notin Unwinding
  BY <1>1 DEF Counted, FileIsRoot
<1>4. Counts'
  BY <1>1, <1>3 DEF PlanBooks, Counts
<1>5. QED
  BY <1>2, <1>4 DEF PlanBooks

\* A call that is dropped.
LEMMA BooksDropped ==
  ASSUME PlanBooks, UNCHANGED <<planned, discovered, rechecked, total>>,
         phase' = "failed", call'.bytes = <<>>, call'.at = "next", call'.pass = "plan", call'.path = Root, call'.seen = {}
  PROVE  PlanBooks'
<1>1. Len(call'.bytes) = 0 /\ MaxFile \in Nat
  BY LimitsAssumption
<1>2. Canonical(Root)
  BY DEF Canonical, Root
<1>3. QED
  BY <1>1, <1>2, BooksStay

\* The call goes on with what it had.
LEMMA BooksWithin ==
  ASSUME PlanBooks, UNCHANGED <<planned, discovered, rechecked, total>>, UNCHANGED phase,
         call'.path = call.path, call'.pass = call.pass, call'.seen = call.seen,
         call'.bytes = call.bytes, call'.at \notin Listed \cup Unwinding => call.seen = {},
         \/ call'.at \in Unwinding
         \/ /\ call.at \notin Unwinding
            /\ call'.at \in {"scan"} \cup Reading <=> call.at \in {"scan"} \cup Reading
  PROVE  PlanBooks'
<1>1. /\ Len(call'.bytes) <= MaxFile
      /\ call'.at \notin Listed \cup Unwinding => call'.seen = {}
      /\ call'.pass = "plan" => Canonical(call'.path)
  BY DEF PlanBooks, Sizes
<1>2. call'.at \notin Unwinding => call.at \notin Unwinding /\ (ScansRoot' <=> ScansRoot)
  BY DEF ScansRoot
<1>3. phase' = "plan" /\ call'.at \notin Unwinding =>
        /\ call.at \notin Unwinding /\ call'.seen = call.seen
        /\ planned[Root] # None \/ (ScansRoot' <=> ScansRoot)
  BY <1>2
<1>4. QED
  BY <1>1, <1>3, BooksStay

\* A call that is over holds nothing.
LEMMA RestIs ==
  /\ Rest.bytes = <<>> /\ Rest.at = "next" /\ Rest.pass = "plan" /\ Rest.path = Root
  /\ Rest.seen = {}
BY DEF Rest

\* A failed call is unwound, or dropped: the books keep what it counted.
LEMMA BooksThrow ==
  ASSUME IInv, PlanBooks, NEW v, Throw(v)
  PROVE  PlanBooks'
<1>1. UNCHANGED <<planned, discovered, rechecked, total>>
  BY DEF Throw, books
<1>2. CASE call.handle = None
  BY <1>1, <1>2, RestIs, BooksDropped DEF Throw
<1>3. CASE call.handle # None
  <2>1. PICK at \in Unwinding : call' = [call EXCEPT !.at = at] /\ UNCHANGED phase
    BY <1>3 DEF Throw, Unwinding
  <2>2. /\ call'.path = call.path /\ call'.pass = call.pass /\ call'.seen = call.seen
        /\ call'.bytes = call.bytes /\ call'.at \in Unwinding
    BY <2>1 DEF IInv, TypeOK, CallState
  <2>3. QED
    BY <1>1, <2>1, <2>2, BooksWithin
<1>4. QED
  BY <1>2, <1>3

\* The steps that neither plan nor count.
Within ==
  \/ List \/ OpenDirectory \/ EndOfNames \/ CloseDirectory
  \/ Scan \/ OpenFile \/ Opened \/ Lstat \/ Before \/ Read \/ After \/ EndOfFile
\* The steps of a call that neither fail nor finish it leave the books alone.
LEMMA WithinIs ==
  ASSUME IInv, Within, ~\E v : Throw(v)
  PROVE  /\ UNCHANGED <<phase, signal, verdict>> /\ UNCHANGED host /\ UNCHANGED books
         /\ UNCHANGED history
         /\ call'.path = call.path /\ call'.pass = call.pass /\ call'.seen = call.seen
         /\ call'.bytes = call.bytes
         /\ \/ call.at \in {"list"} \cup Listed /\ call'.at \in Listed
            \/ call.at \in {"scan"} \cup Reading /\ call'.at \in Reading
<1>1. call \in CallState
  BY DEF IInv, TypeOK
<1>2. CASE List
  BY <1>1, <1>2 DEF List, At, GoOn, CallState, Listed
<1>3. CASE OpenDirectory
  BY <1>1, <1>3 DEF OpenDirectory, GoOn, CallState, Listed
<1>4. CASE EndOfNames
  BY <1>1, <1>4 DEF EndOfNames, Step, GoOn, CallState, Listed
<1>5. CASE CloseDirectory
  BY <1>1, <1>5 DEF CloseDirectory, GoOn, CallState, Listed
<1>6. CASE Scan
  BY <1>1, <1>6 DEF Scan, At, GoOn, CallState, Reading
<1>7. CASE OpenFile
  BY <1>1, <1>7 DEF OpenFile, GoOn, CallState, Reading
<1>8. CASE Opened
  BY <1>1, <1>8 DEF Opened, GoOn, CallState, Reading
<1>9. CASE Lstat
  BY <1>1, <1>9 DEF Lstat, At, GoOn, CallState, Reading
<1>10. CASE Before \/ After
  BY <1>1, <1>10 DEF Before, After, Fstat, Step, GoOn, CallState, Reading
<1>11. CASE Read
  BY <1>1, <1>11 DEF Read, GoOn, CallState, Reading
<1>12. CASE EndOfFile
  BY <1>1, <1>12 DEF EndOfFile, At, Step, GoOn, CallState, Reading
<1>13. QED
  BY <1>2, <1>3, <1>4, <1>5, <1>6, <1>7, <1>8, <1>9, <1>10, <1>11, <1>12 DEF Within

\* The books are kept while a call is under way.
LEMMA BooksOnTheWay == IInv /\ PlanBooks /\ Within => PlanBooks'
<1> SUFFICES ASSUME IInv, PlanBooks, Within PROVE PlanBooks'
  OBVIOUS
<1>1. CASE \E v : Throw(v)
  BY <1>1, BooksThrow
<1>2. CASE ~\E v : Throw(v)
  <2>1. /\ UNCHANGED <<phase, planned, discovered, rechecked, total>>
        /\ call'.path = call.path /\ call'.pass = call.pass /\ call'.seen = call.seen
        /\ call'.bytes = call.bytes
        /\ \/ call.at \in {"list"} \cup Listed /\ call'.at \in Listed
           \/ call.at \in {"scan"} \cup Reading /\ call'.at \in Reading
    BY <1>2, WithinIs DEF books
  <2>2. call'.at \notin Listed \cup Unwinding => call.seen = {}
    <3>1. call.at \in {"scan"} \cup Reading => call.at \notin Listed \cup Unwinding
      BY DEF Listed, Reading, Unwinding
    <3>2. QED
      BY <2>1, <3>1 DEF PlanBooks, Sizes
  <2>3. /\ call.at \notin Unwinding
        /\ call'.at \in {"scan"} \cup Reading <=> call.at \in {"scan"} \cup Reading
    BY <2>1 DEF Unwinding, Listed, Reading
  <2>4. QED
    BY <2>1, <2>2, <2>3, BooksWithin
<1>3. QED
  BY <1>1, <1>2

\* A failed host, and what others do, change neither.
LEMMA BooksFail ==
  IInv /\ PlanBooks /\ (InspectFails \/ HostFails \/ CloseFails \/ Unwind \/ PathFails \/ PhaseFails)
  => PlanBooks'
<1> SUFFICES ASSUME IInv, PlanBooks,
                    InspectFails \/ HostFails \/ CloseFails \/ Unwind \/ PathFails \/ PhaseFails
             PROVE  PlanBooks'
  OBVIOUS
<1>1. CASE \E v : Throw(v)
  BY <1>1, BooksThrow
<1>2. CASE ~\E v : Throw(v)
  <2>1. /\ UNCHANGED <<planned, discovered, rechecked, total>> /\ phase' = "failed" /\ call' = Rest
    BY <1>2 DEF InspectFails, HostFails, CloseFails, Unwind, PathFails, PhaseFails, books
  <2>2. QED
    BY <2>1, RestIs, BooksDropped
<1>3. QED
  BY <1>1, <1>2
\* Nothing outside the bridge touches the books.
LEMMA BooksOutside == IInv /\ PlanBooks /\ (Outside \/ UNCHANGED vars) => PlanBooks'
<1> SUFFICES ASSUME IInv, PlanBooks, Outside \/ UNCHANGED vars PROVE PlanBooks'
  OBVIOUS
<1>1. UNCHANGED <<planned, discovered, rechecked, total, phase, call>>
  BY DEF Outside, Abort, MoveRoot, Write, Unlink, Create, Changing, books, vars
<1>2. call.at \in Unwinding \/ call.at \notin Unwinding
  OBVIOUS
<1>3. QED
  BY <1>1, BooksWithin DEF PlanBooks, Sizes


\* Afterwards nothing is planned.
LEMMA BooksLater ==
  ASSUME PlanBooks, UNCHANGED planned, phase \in {"stream", "verify"}, phase' \in {"verify", "verified"},
         discovered' \in Nat, rechecked' \in Nat, total' \in Nat, Len(call'.bytes) <= MaxFile,
         call'.at \notin Listed \cup Unwinding => call'.seen = {},
         call'.pass = "plan" => Canonical(call'.path)
  PROVE  PlanBooks'
<1>1. PlannedPaths' = PlannedPaths /\ PlannedBytes' = PlannedBytes /\ RootKind' = RootKind
  BY DEF PlannedPaths, PlannedBytes, RootKind
<1>2. Sizes'
  BY <1>1 DEF PlanBooks, Sizes
<1>3. Counts'
  BY <1>1 DEF PlanBooks, Counts
<1>4. QED
  BY <1>2, <1>3 DEF PlanBooks

\* What a call begins with.
LEMMA CallIs ==
  ASSUME NEW at, NEW p, NEW pass, NEW rev
  PROVE  LET k == Call(at, p, pass, rev) IN
         /\ k.at = at /\ k.path = p /\ k.pass = pass /\ k.rev = rev /\ k.seen = {} /\ k.due = {}
         /\ k.bytes = <<>> /\ k.piece = <<>> /\ k.handle = None
BY DEF Call, Rest
\* What a call begins with is within the limits.
LEMMA NothingRead == Len(<<>>) <= MaxFile /\ Canonical(Root)
<1>1. Len(<<>>) = 0 /\ MaxFile \in Nat
  BY LimitsAssumption
<1>2. QED
  BY <1>1 DEF Canonical, Root

\* Where the requested path is not planned, nothing is.
LEMMA FirstIsRoot ==
  ASSUME IInv, phase = "plan", planned[Root] = None
  PROVE  PlannedPaths = {} /\ NamedSoFar = {} /\ Active /\ call.path = Root
<1>1. PlannedPaths = {}
  <2> SUFFICES ASSUME NEW p \in PlannedPaths PROVE FALSE
    OBVIOUS
  <2>1. \A q \in PlannedPaths : q # Root => Front(q) \in PlannedPaths
    BY FrontDiffers DEF IInv, Rooted, Named, PlannedPaths
  <2>2. PlannedPaths \in SUBSET Paths
    BY DEF PlannedPaths
  <2>3. Components(p) \subseteq PlannedPaths
    BY <2>1, <2>2, Upwards
  <2>4. Root \in Components(p)
    BY <2>2, PathParts
  <2>5. QED
    BY <2>3, <2>4 DEF PlannedPaths
<1>2. QED
  BY <1>1 DEF NamedSoFar, IInv, PlanWalk

\* What is counted are paths.
LEMMA CountedPaths ==
  ASSUME IInv
  PROVE  /\ NamedSoFar \in SUBSET Paths /\ Root \notin NamedSoFar
         /\ Counted \in SUBSET Paths /\ IsFiniteSet(Counted) /\ Cardinality(Counted) \in Nat
<1>1. ASSUME NEW p \in PlannedPaths
      PROVE  planned[p].children \subseteq Paths \ {Root}
  BY DEF IInv, Rooted, Below
<1>2. NamedSoFar \in SUBSET Paths /\ Root \notin NamedSoFar
  BY <1>1 DEF NamedSoFar
<1>3. call.seen \subseteq Paths
  BY DEF IInv, TypeOK, CallState
<1>4. Counted \in SUBSET Paths
  BY <1>2, <1>3, PathsAssumption DEF Counted
<1>5. QED
  BY <1>2, <1>4, PathOrder, FS_Subset, FS_CardinalityType

\* The requested path is inspected: a file counts as one entry.
LEMMA BooksInspect == IInv /\ PlanBooks /\ Inspect => PlanBooks'
<1> SUFFICES ASSUME IInv, PlanBooks, Inspect PROVE PlanBooks'
  OBVIOUS
<1>1. PICK p : p = call.path
  OBVIOUS
<1>2. Active /\ call.at = "inspect" /\ names[p] # None
  BY <1>1, LookedAt DEF Inspect
<1>3. /\ phase = "plan" /\ call.pass = "plan" /\ p \in Paths /\ Fresh(p)
      /\ call.at \notin Listed \cup Unwinding /\ call.at \notin Reading /\ call.at # "scan"
  BY <1>1, <1>2, ActiveFacts
     DEF Listed, Reading, Unwinding, Verifying, IInv, PlanWalk, Fresh, Named
<1>4. call.seen = {} /\ Canonical(p) /\ ~ScansRoot
  BY <1>1, <1>3 DEF PlanBooks, Sizes, ScansRoot
<1>5. CASE \E v : Throw(v)
  BY <1>5, BooksThrow
<1>6. CASE Node(p).kind # "file" /\ ~\E v : Throw(v)
  <2>1. /\ UNCHANGED <<phase, planned, discovered, rechecked, total>>
        /\ call' = Call("list", p, "plan", Fingerprint(names[p]))
    <3>1. Node(p).kind \in Kinds
      BY <1>2, <1>3 DEF IInv, IsTree, IsNode
    <3>2. QED
      BY <1>1, <1>6, <3>1 DEF Inspect, GoOn, books, Kinds
  <2>2. /\ call'.seen = {} /\ call'.bytes = <<>> /\ call'.path = p /\ call'.pass = "plan"
        /\ call'.at = "list"
    <3>1. PICK k : k = Call("list", p, "plan", Fingerprint(names[p]))
      OBVIOUS
    <3>2. k.seen = {} /\ k.bytes = <<>> /\ k.path = p /\ k.pass = "plan" /\ k.at = "list"
      BY <3>1, CallIs
    <3>3. QED
      BY <2>1, <3>1, <3>2
  <2>3. ~ScansRoot'
    BY <2>2 DEF ScansRoot, Reading
  <2>4. QED
    BY <1>3, <1>4, <2>1, <2>2, <2>3, NothingRead, BooksStay
<1>7. CASE Node(p).kind = "file" /\ ~\E v : Throw(v)
  <2>1. /\ UNCHANGED <<phase, planned, rechecked, total>> /\ call' = Call("scan", p, "plan", None)
        /\ discovered' = IF p = Root THEN discovered + 1 ELSE discovered
        /\ p = Root => ~(discovered + 1 > MaxEntries)
    BY <1>1, <1>7 DEF Inspect, GoOn
  <2>2. /\ call'.seen = {} /\ call'.bytes = <<>> /\ call'.path = p /\ call'.pass = "plan"
        /\ call'.at = "scan"
    <3>1. PICK k : k = Call("scan", p, "plan", None)
      OBVIOUS
    <3>2. k.seen = {} /\ k.bytes = <<>> /\ k.path = p /\ k.pass = "plan" /\ k.at = "scan"
      BY <3>1, CallIs
    <3>3. QED
      BY <2>1, <3>1, <3>2
  <2>3. CASE p # Root
    <3>1. ~ScansRoot'
      BY <2>2, <2>3 DEF ScansRoot
    <3>2. QED
      BY <1>3, <1>4, <2>1, <2>2, <2>3, <3>1, NothingRead, BooksStay
  <2>4. CASE p = Root
    <3>1. /\ PlannedPaths' = PlannedPaths /\ PlannedBytes' = PlannedBytes /\ RootKind' = RootKind
          /\ NamedSoFar' = NamedSoFar
      BY <2>1 DEF PlannedPaths, PlannedBytes, RootKind, NamedSoFar
    <3>2. planned[Root] = None /\ NamedSoFar = {}
      BY <1>3, <2>4, FirstIsRoot DEF Fresh
    <3>3. Counted = {} /\ Counted' = {Root}
      <4>1. FileIsRoot' /\ ~FileIsRoot
        BY <1>4, <2>1, <2>2, <2>4, <3>2 DEF FileIsRoot, ScansRoot
      <4>2. QED
        BY <1>4, <2>2, <3>1, <3>2, <4>1 DEF Counted
    <3>4. discovered = 0 /\ Cardinality(Counted') = 1
      BY <1>3, <3>3, FS_EmptySet, FS_Singleton DEF PlanBooks, Counts
    <3>5. discovered' = 1 /\ 1 <= MaxEntries
      BY <2>1, <2>4, <3>4, LimitsAssumption
    <3>6. Sizes'
      BY <1>3, <1>4, <2>2, <3>1, NothingRead, <2>1 DEF PlanBooks, Sizes
    <3>7. Counts'
      BY <1>3, <2>1, <3>1, <3>4, <3>5 DEF PlanBooks, Counts
    <3>8. QED
      BY <3>6, <3>7 DEF PlanBooks
  <2>5. QED
    BY <2>3, <2>4
<1>8. QED
  BY <1>5, <1>6, <1>7


\* A name is listed, and counted.
LEMMA NameIsRead ==
  ASSUME IInv, ReadName, ~\E v : Throw(v)
  PROVE  /\ Active /\ call.at = "readdir" /\ UNCHANGED <<phase, signal, verdict>> /\ UNCHANGED host
         /\ UNCHANGED <<todo, planned, total, sent, checked, began>>
         /\ \E p \in call.due \cup (IF names[call.path] = call.handle THEN Children(call.path) ELSE {}) :
              /\ p \in Below(call.path) /\ p \notin call.seen
              /\ call' = [call EXCEPT !.seen = call.seen \cup {p}]
         /\ call'.at = "readdir" /\ call'.path = call.path /\ call'.pass = call.pass
         /\ call'.bytes = call.bytes
         /\ \E p \in Below(call.path) : p \notin call.seen /\ call'.seen = call.seen \cup {p}
         /\ IF call.pass = "recheck"
            THEN discovered' = discovered /\ rechecked' = rechecked + 1 /\ ~(rechecked' > MaxEntries)
            ELSE discovered' = discovered + 1 /\ rechecked' = rechecked /\ ~(discovered' > MaxEntries)
<1>1. call \in CallState /\ call.at = "readdir" /\ Active
  BY DEF IInv, TypeOK, ReadName, Active
<1>2. PICK p \in call.due \cup (IF names[call.path] = call.handle THEN Children(call.path) ELSE {}) :
        /\ p \notin call.seen /\ call' = [call EXCEPT !.seen = call.seen \cup {p}]
        /\ UNCHANGED <<phase, signal, verdict>> /\ UNCHANGED host
        /\ UNCHANGED <<todo, planned, total, sent>> /\ UNCHANGED history
        /\ IF call.pass = "recheck"
           THEN discovered' = discovered /\ rechecked' = rechecked + 1 /\ ~(rechecked' > MaxEntries)
           ELSE discovered' = discovered + 1 /\ rechecked' = rechecked /\ ~(discovered' > MaxEntries)
  BY DEF ReadName, GoOn
<1>3. p \in Below(call.path)
  BY <1>2 DEF IInv, Shape, Children, Below
<1>4. /\ call'.at = "readdir" /\ call'.path = call.path /\ call'.pass = call.pass
      /\ call'.bytes = call.bytes /\ call'.seen = call.seen \cup {p}
  BY <1>1, <1>2 DEF CallState
<1>5. QED
  BY <1>1, <1>2, <1>3, <1>4 DEF history

\* A name is read: it is counted once, and the limit is checked first.
LEMMA BooksReadName == IInv /\ PlanBooks /\ ReadName => PlanBooks'
<1> SUFFICES ASSUME IInv, PlanBooks, ReadName PROVE PlanBooks'
  OBVIOUS
<1>1. CASE \E v : Throw(v)
  BY <1>1, BooksThrow
<1>2. CASE ~\E v : Throw(v)
  <2>1. /\ Active /\ call.at = "readdir" /\ UNCHANGED phase
        /\ UNCHANGED <<planned, total>>
        /\ call'.at = "readdir" /\ call'.path = call.path /\ call'.pass = call.pass
        /\ call'.bytes = call.bytes
        /\ IF call.pass = "recheck"
           THEN discovered' = discovered /\ rechecked' = rechecked + 1 /\ ~(rechecked' > MaxEntries)
           ELSE discovered' = discovered + 1 /\ rechecked' = rechecked /\ ~(discovered' > MaxEntries)
    BY <1>2, NameIsRead
  <2>2. PICK p \in Below(call.path) : p \notin call.seen /\ call'.seen = call.seen \cup {p}
    BY <1>2, NameIsRead
  <2>3. call.at \in Listed /\ call.at \notin Unwinding \cup Reading \cup {"scan"}
    BY <2>1 DEF Listed, Unwinding, Reading
  <2>4. discovered \in Nat /\ rechecked \in Nat /\ total \in Nat
    BY DEF PlanBooks, Counts
  <2>5. CASE phase = "plan"
    <3>1. call.pass = "plan" /\ Fresh(call.path) /\ call.path \in Paths
      BY <2>1, <2>5, ActiveFacts DEF IInv, PlanWalk, Fresh, Named
    <3>2. /\ PlannedPaths' = PlannedPaths /\ PlannedBytes' = PlannedBytes /\ RootKind' = RootKind
          /\ NamedSoFar' = NamedSoFar
      BY <2>1 DEF PlannedPaths, PlannedBytes, RootKind, NamedSoFar
    <3>3. Counted' = Counted \cup {p}
      <4>1. FileIsRoot' = FileIsRoot
        BY <2>1, <2>3, <3>2 DEF FileIsRoot, ScansRoot
      <4>2. QED
        BY <2>2, <3>2, <4>1 DEF Counted
    <3>4. p \notin Counted
      <4>1. p \in Paths /\ p # Root /\ Front(p) = call.path
        BY <2>2 DEF Below
      <4>2. p \notin NamedSoFar
        <5>1. ASSUME NEW q \in PlannedPaths, p \in planned[q].children PROVE FALSE
          <6>1. Front(p) = q
            BY <5>1 DEF IInv, Rooted, Below
          <6>2. QED
            BY <3>1, <4>1, <5>1, <6>1 DEF Fresh, PlannedPaths
        <5>2. QED
          BY <5>1 DEF NamedSoFar
      <4>3. QED
        BY <2>2, <4>1, <4>2 DEF Counted
    <3>5. Cardinality(Counted') = discovered + 1
      <4>1. discovered = Cardinality(Counted)
        BY <2>3, <2>5 DEF PlanBooks, Counts
      <4>2. QED
        BY <3>3, <3>4, <4>1, CountedPaths, FS_AddElement
    <3>6. discovered' = discovered + 1 /\ discovered' <= MaxEntries /\ rechecked' = rechecked
      BY <2>1, <2>4, <3>1, LimitsAssumption
    <3>7. Sizes'
      BY <2>1, <2>3, <3>2 DEF PlanBooks, Sizes
    <3>8. Counts'
      BY <2>1, <2>4, <2>5, <3>2, <3>5, <3>6 DEF PlanBooks, Counts
    <3>9. QED
      BY <3>7, <3>8 DEF PlanBooks
  <2>6. CASE phase # "plan"
    <3>1. phase = "verify"
      BY <2>1, <2>3, <2>6, ActiveFacts
    <3>2. discovered' \in Nat /\ rechecked' \in Nat /\ total' \in Nat
      BY <2>1, <2>4
    <3>3. /\ Len(call'.bytes) <= MaxFile
          /\ call'.at \in Listed
          /\ call'.pass = "plan" => Canonical(call'.path)
      BY <2>1, <2>3 DEF PlanBooks, Sizes
    <3>4. QED
      BY <2>1, <3>1, <3>2, <3>3, BooksLater
  <2>7. QED
    BY <2>5, <2>6
<1>3. QED
  BY <1>1, <1>2

\* A path is planned with what it names and holds.
LEMMA BooksPlanned ==
  ASSUME IInv, PlanBooks, phase = "plan", Active, UNCHANGED phase, call' = Rest,
         NEW e \in Plans, planned' = [planned EXCEPT ![call.path] = e], call.at \notin Unwinding,
         e.children = call.seen, Len(e.data) <= MaxFile,
         e.kind = "directory" => e.data = <<>>,
         call.path = Root => (e.kind = "file" <=> ScansRoot),
         UNCHANGED <<discovered, rechecked>>, total' = total + Len(e.data), total' <= MaxTotal
  PROVE  PlanBooks'
<1>1. PICK p : p = call.path
  OBVIOUS
<1>2. p \in Paths /\ planned[p] = None /\ Canonical(p) /\ call.pass = "plan"
  BY <1>1, ActiveFacts DEF IInv, PlanWalk, Fresh, PlanBooks, Sizes
<1>3. /\ planned' \in [Paths -> Plans \cup {None}] /\ planned'[p] = e /\ e # None
      /\ \A q \in Paths \ {p} : planned'[q] = planned[q]
  BY <1>1, <1>2, NoneAssumption DEF IInv, TypeOK
<1>4. PlannedPaths' = PlannedPaths \cup {p} /\ p \notin PlannedPaths /\ PlannedPaths \subseteq Paths
  BY <1>2, <1>3 DEF PlannedPaths
<1>5. \A q \in PlannedPaths : planned'[q] = planned[q]
  BY <1>3, <1>4
<1>6. Len(e.data) \in Nat
  BY DEF Plans
<1>7. PlannedBytes' = PlannedBytes + Len(e.data)
  <2> DEFINE f == [q \in PlannedPaths |-> Len(planned[q].data)]
             g == [q \in PlannedPaths' |-> Len(planned'[q].data)]
  <2>1. DOMAIN f = PlannedPaths /\ DOMAIN g = PlannedPaths \cup {p}
    BY <1>4
  <2>2. \A q \in PlannedPaths : g[q] = f[q]
    BY <1>4, <1>5
  <2>3. g[p] = Len(e.data)
    BY <1>3, <1>4
  <2>4. Terms(f)
    BY PlannedTerms DEF IInv
  <2>5. Terms(g)
    <3>1. IsFiniteSet(PlannedPaths \cup {p})
      BY <1>2, <1>4, PathOrder, FS_Subset
    <3>2. \A q \in PlannedPaths \cup {p} : g[q] \in Nat
      <4>1. \A q \in PlannedPaths : f[q] \in Nat
        BY <2>1, <2>4 DEF Terms
      <4>2. QED
        BY <1>6, <2>2, <2>3, <4>1
    <3>3. g \in [DOMAIN g -> Nat]
      BY <2>1, <3>2
    <3> HIDE DEF g
    <3>4. QED
      BY <2>1, <3>1, <3>3 DEF Terms
  <2>6. PlannedBytes = SumOf(f) /\ PlannedBytes' = SumOf(g)
    BY DEF PlannedBytes
  <2> HIDE DEF f, g
  <2>7. SumOf(g) = SumOf(f) + g[p]
    BY <1>4, <2>1, <2>2, <2>4, <2>5, SumOfMore
  <2>8. QED
    BY <2>3, <2>6, <2>7
<1>8. total = PlannedBytes /\ discovered = Cardinality(Counted) /\ total \in Nat
  BY DEF PlanBooks, Counts
<1>9. Sizes'
  <2>1. \A q \in PlannedPaths' : /\ Canonical(q) /\ Len(planned'[q].data) <= MaxFile
                                 /\ planned'[q].kind = "directory" => planned'[q].data = <<>>
    BY <1>2, <1>3, <1>4, <1>5 DEF PlanBooks, Sizes
  <2>2. PlannedBytes' <= MaxTotal
    BY <1>7, <1>8
  <2>3. QED
    BY <2>1, <2>2, RestIs, NothingRead DEF Sizes, Canonical
<1>10. Counted' = Counted
  <2>1. NamedSoFar' = NamedSoFar \cup call.seen
    BY <1>3, <1>4, <1>5 DEF NamedSoFar
  <2>2. call'.seen = {}
    BY RestIs
  <2>3. FileIsRoot' <=> FileIsRoot
    <3>1. CASE p = Root
      BY <1>1, <1>2, <1>3, <3>1 DEF FileIsRoot, RootKind
    <3>2. CASE p # Root
      <4>1. planned[Root] # None /\ planned'[Root] = planned[Root]
        BY <1>1, <1>3, <3>2, FirstIsRoot, PathsAssumption
      <4>2. QED
        BY <4>1 DEF FileIsRoot, RootKind
    <3>3. QED
      BY <3>1, <3>2
  <2>4. QED
    BY <2>1, <2>2, <2>3 DEF Counted
<1>11. Counts'
  BY <1>6, <1>7, <1>8, <1>10 DEF PlanBooks, Counts
<1>12. QED
  BY <1>9, <1>11 DEF PlanBooks


\* A directory is planned: its names move from the call to the plan.
LEMMA BooksRelist == IInv /\ PlanBooks /\ Relist => PlanBooks'
<1> SUFFICES ASSUME IInv, PlanBooks, Relist PROVE PlanBooks'
  OBVIOUS
<1>1. Active /\ call.at = "relist" /\ call.at \in Listed /\ call.at \notin Unwinding
  BY LookedAt DEF Relist, Listed, Unwinding
<1>2. CASE \E v : Throw(v)
  BY <1>2, BooksThrow
<1>3. CASE call.pass = "plan" /\ ~\E v : Throw(v)
  <2>1. PICK e : e = [rev |-> call.rev, kind |-> "directory", data |-> <<>>, children |-> call.seen]
    OBVIOUS
  <2>2. /\ UNCHANGED <<phase, discovered, rechecked, total>> /\ call' = Rest
        /\ planned' = [planned EXCEPT ![call.path] = e]
    BY <1>3, <2>1 DEF Relist, GoOn
  <2>3. e \in Plans
    <3>1. call.rev \in Revisions
      BY <1>1, HeldIs
    <3>2. call.seen \subseteq Paths
      BY DEF IInv, TypeOK, CallState
    <3>3. QED
      BY <2>1, <3>1, <3>2 DEF Plans
  <2>4. phase = "plan"
    BY <1>1, <1>3, ActiveFacts
  <2>5. e.children = call.seen /\ Len(e.data) = 0 /\ e.data = <<>> /\ e.kind = "directory"
    BY <2>1
  <2>6. ~ScansRoot
    BY <1>1 DEF ScansRoot, Reading
  <2>7. /\ total' = total + Len(e.data) /\ total' <= MaxTotal /\ Len(e.data) <= MaxFile
    BY <2>2, <2>4, <2>5, LimitsAssumption DEF PlanBooks, Sizes, Counts
  <2>8. QED
    BY <1>1, <2>2, <2>3, <2>4, <2>5, <2>6, <2>7, BooksPlanned
<1>4. CASE call.pass # "plan" /\ ~\E v : Throw(v)
  <2>1. /\ UNCHANGED <<phase, planned, discovered, rechecked, total>>
        /\ call' = Call("verifyDirectory", call.path, call.pass, planned[call.path].rev)
    BY <1>4 DEF Relist, GoOn, books
  <2>2. phase = "verify"
    BY <1>1, <1>4, ActiveFacts DEF Reading, Unwinding, Listed
  <2>3. call'.bytes = <<>> /\ call'.seen = {} /\ call'.pass = call.pass
    <3>1. PICK k : k = Call("verifyDirectory", call.path, call.pass, planned[call.path].rev)
      OBVIOUS
    <3>2. k.bytes = <<>> /\ k.seen = {} /\ k.pass = call.pass
      BY <3>1, CallIs
    <3>3. QED
      BY <2>1, <3>1, <3>2
  <2>4. QED
    BY <1>4, <2>1, <2>2, <2>3, NothingRead, BooksLater DEF PlanBooks, Counts
<1>5. QED
  BY <1>2, <1>3, <1>4

\* A file is planned: its size is added, and the limit checked first.
LEMMA BooksCloseFile == IInv /\ PlanBooks /\ CloseFile => PlanBooks'
<1> SUFFICES ASSUME IInv, PlanBooks, CloseFile PROVE PlanBooks'
  OBVIOUS
<1>1. Active /\ call.at = "close" /\ call.at \in Reading /\ call.at \notin Listed \cup Unwinding
  BY DEF CloseFile, Active, Reading, Unwinding, Listed
<1>2. CASE phase' = "failed"
  <2>1. UNCHANGED <<planned, discovered, rechecked, total>> /\ call' = Rest
    BY <1>1, <1>2, ActiveFacts DEF CloseFile, GoOn, books
  <2>2. QED
    BY <1>2, <2>1, RestIs, BooksDropped
<1>3. CASE call.pass = "stream" /\ phase' # "failed"
  <2>1. UNCHANGED <<phase, planned, discovered, rechecked, total>> /\ call' = Rest /\ phase # "plan"
    BY <1>1, <1>3, ActiveFacts DEF CloseFile, GoOn, books
  <2>2. QED
    BY <2>1, RestIs, NothingRead, BooksStay
<1>4. CASE call.pass # "stream" /\ phase' # "failed"
  <2>1. PICK e : e = [rev |-> call.rev, kind |-> "file", data |-> call.bytes, children |-> {}]
    OBVIOUS
  <2>2. /\ UNCHANGED <<phase, discovered, rechecked>> /\ call' = Rest
        /\ planned' = [planned EXCEPT ![call.path] = e]
        /\ total' = total + Len(call.bytes) /\ ~(total' > MaxTotal)
    BY <1>4, <2>1 DEF CloseFile, GoOn
  <2>3. phase = "plan" /\ call.pass = "plan" /\ call.bytes \in Seq(Units)
    BY <1>1, <1>4, ActiveFacts DEF Listed, Reading, Unwinding, Verifying, CallState
  <2>4. e \in Plans
    <3>1. call.rev \in Revisions
      BY <1>1, HeldIs
    <3>2. QED
      BY <2>1, <2>3, <3>1 DEF Plans
  <2>5. call.seen = {} /\ Len(call.bytes) <= MaxFile
    BY <1>1 DEF PlanBooks, Sizes
  <2>6. e.children = call.seen /\ e.data = call.bytes /\ e.kind = "file"
    BY <2>1, <2>5
  <2>7. call.path = Root => ScansRoot
    BY <1>1, <2>3 DEF ScansRoot
  <2>8. total' = total + Len(e.data) /\ total' <= MaxTotal
    <3>1. total \in Nat /\ Len(call.bytes) \in Nat
      BY <2>3 DEF PlanBooks, Counts
    <3>2. QED
      BY <2>2, <2>6, <3>1, LimitsAssumption
  <2>9. QED
    BY <1>1, <2>2, <2>3, <2>4, <2>5, <2>6, <2>7, <2>8, BooksPlanned
<1>5. QED
  BY <1>2, <1>3, <1>4

\* A unit is read: the limit of a file is checked as it grows.
LEMMA BooksAgain == IInv /\ PlanBooks /\ Again => PlanBooks'
<1> SUFFICES ASSUME IInv, PlanBooks, Again PROVE PlanBooks'
  OBVIOUS
<1>1. Active /\ call.at = "again" /\ call.at \in Reading /\ call.at \notin Listed \cup Unwinding
  BY LookedAt DEF Again, Listed, Unwinding, Reading
<1>2. CASE \E v : Throw(v)
  BY <1>2, BooksThrow
<1>3. CASE ~\E v : Throw(v)
  <2>1. PICK guard : guard = [q \in Components(call.path) |-> names[q]]
    OBVIOUS
  <2>2. PICK bytes : bytes = call.bytes \o call.piece
    OBVIOUS
  <2>3. /\ UNCHANGED <<phase, planned, discovered, rechecked, total>>
        /\ call' = [call EXCEPT !.at = "lstat", !.bytes = bytes, !.piece = <<>>, !.guard = guard]
        /\ ~(Len(bytes) > MaxFile)
    BY <1>3, <2>1, <2>2 DEF Again, GoOn
  <2>4. /\ call'.at = "lstat" /\ call'.bytes = bytes /\ call'.seen = call.seen
        /\ call'.pass = call.pass /\ call'.path = call.path
    BY <2>3 DEF IInv, TypeOK, CallState
  <2>5. Len(bytes) <= MaxFile
    <3>1. bytes \in Seq(Units)
      BY <2>2 DEF IInv, TypeOK, CallState
    <3>2. QED
      BY <2>3, <3>1, LimitsAssumption
  <2>6. call.seen = {} /\ (call.pass = "plan" => Canonical(call.path))
    BY <1>1 DEF PlanBooks, Sizes
  <2>7. ScansRoot' <=> ScansRoot
    BY <1>1, <2>4 DEF ScansRoot, Reading
  <2>8. QED
    BY <1>1, <2>3, <2>4, <2>5, <2>6, <2>7, BooksStay
<1>4. QED
  BY <1>2, <1>3

\* The second walk counts anew.
LEMMA BooksVerify ==
  IInv /\ PlanBooks /\ (VerifyDirectory \/ VerifyFile \/ BeginVerify \/ Verified) => PlanBooks'
<1> SUFFICES ASSUME IInv, PlanBooks, VerifyDirectory \/ VerifyFile \/ BeginVerify \/ Verified
             PROVE  PlanBooks'
  OBVIOUS
<1>1. discovered \in Nat /\ rechecked \in Nat /\ total \in Nat
  BY DEF PlanBooks, Counts
<1>2. CASE \E v : Throw(v)
  BY <1>2, BooksThrow
<1>3. CASE (VerifyDirectory \/ VerifyFile) /\ ~\E v : Throw(v)
  <2>1. /\ UNCHANGED <<phase, planned, discovered, rechecked>> /\ call' = Rest
        /\ total' = total \/ total' = total + Len(Node(call.path).data)
        /\ Active /\ call.at \in Verifying /\ names[call.path] # None
    BY <1>3, LookedAt DEF VerifyDirectory, VerifyFile, GoOn, Verifying
  <2>2. phase = "verify" /\ call.path \in Paths
    BY <2>1, ActiveFacts DEF Verifying, Reading, Unwinding
  <2>3. Len(Node(call.path).data) \in Nat
    BY <2>1, <2>2 DEF IInv, TypeOK, Node, Nodes
  <2>4. QED
    BY <1>1, <2>1, <2>2, <2>3, RestIs, NothingRead, BooksLater, SMTT(30)
<1>4. CASE BeginVerify \/ Verified
  <2>1. /\ UNCHANGED <<planned, call>> /\ call.at = "next"
        /\ phase \in {"stream", "verify"} /\ phase' \in {"verify", "verified"}
        /\ discovered' \in Nat /\ rechecked' \in Nat /\ total' \in Nat
    BY <1>1, <1>4 DEF BeginVerify, Verified, books
  <2>2. call = Rest
    BY <2>1, BetweenCalls
  <2>3. QED
    BY <2>1, <2>2, RestIs, NothingRead, BooksLater
<1>5. QED
  BY <1>2, <1>3, <1>4

\* The next task begins with nothing counted.
LEMMA BooksNextTask == IInv /\ PlanBooks /\ NextTask => PlanBooks'
<1> SUFFICES ASSUME IInv, PlanBooks, NextTask PROVE PlanBooks'
  OBVIOUS
<1>1. PICK t : t = Head(todo)
  OBVIOUS
<1>2. /\ UNCHANGED <<phase, planned, discovered, rechecked, total>> /\ todo # <<>>
      /\ call.at = "next" /\ phase \in {"plan", "stream", "verify"}
      /\ t.pass = "plan" => Canonical(t.path)
  BY <1>1 DEF NextTask, GoOn
<1>3. t \in TaskState /\ (phase = "plan" => t.pass = "plan")
  <2>1. todo \in Seq(TaskState)
    BY DEF IInv, TypeOK
  <2>2. t \in Ahead
    BY <1>1, <1>2, <2>1, First DEF Ahead
  <2>3. QED
    BY <2>1, <2>2 DEF IInv, PlanWalk, PlanTasks, Ahead, Elements
<1>4. ~Active /\ call = Rest
  BY <1>2, BetweenCalls
<1>5. PICK at \in {"inspect", "list", "scan", "verifyFile"} :
        /\ \E rev : call' = Call(at, t.path, t.pass, rev)
        /\ t.pass = "plan" => at = "inspect"
  BY <1>1, <1>3 DEF NextTask, GoOn, TaskState, Passes
<1>6. PICK rev : call' = Call(at, t.path, t.pass, rev)
  BY <1>5
<1>7. /\ call'.at = at /\ call'.seen = {} /\ call'.bytes = <<>> /\ call'.pass = t.pass
      /\ call'.path = t.path
  <2>1. PICK k : k = Call(at, t.path, t.pass, rev)
    OBVIOUS
  <2>2. k.at = at /\ k.seen = {} /\ k.bytes = <<>> /\ k.pass = t.pass /\ k.path = t.path
    BY <2>1, CallIs
  <2>3. QED
    BY <1>6, <2>1, <2>2
<1>8. call.at \notin Unwinding /\ call.seen = {}
  BY <1>2, <1>4, RestIs DEF Unwinding
<1>9. phase = "plan" => planned[Root] # None
  BY <1>4, FirstIsRoot
<1>10. QED
  BY <1>2, <1>3, <1>5, <1>7, <1>8, <1>9, NothingRead, BooksStay

\* Everything planned was counted.
LEMMA BooksPrepared == IInv /\ PlanBooks /\ Prepared => PlanBooks'
<1> SUFFICES ASSUME IInv, PlanBooks, Prepared PROVE PlanBooks'
  OBVIOUS
<1>1. /\ UNCHANGED <<call, planned, discovered, rechecked, total>>
      /\ phase = "plan" /\ phase' = "stream" /\ call.at = "next"
  BY DEF Prepared
<1>2. ~Active /\ call = Rest /\ call.at \notin Unwinding
  BY <1>1, BetweenCalls DEF Unwinding
<1>3. PlannedPaths' = PlannedPaths /\ PlannedBytes' = PlannedBytes /\ RootKind' = RootKind
  BY <1>1 DEF PlannedPaths, PlannedBytes, RootKind
<1>4. planned[Root] # None
  BY <1>1, <1>2, FirstIsRoot
<1>5. /\ discovered = Cardinality(Counted) /\ discovered <= MaxEntries /\ discovered \in Nat
      /\ total = PlannedBytes
  BY <1>1, <1>2 DEF PlanBooks, Counts
<1>6. PlannedPaths \ {Root} \in SUBSET Counted
  <2>1. ASSUME NEW p \in PlannedPaths \ {Root}
        PROVE  p \in NamedSoFar
    <3>1. Named(p) /\ p \in Paths
      BY DEF IInv, Rooted, PlannedPaths
    <3>2. Front(p) \in PlannedPaths /\ p \in planned[Front(p)].children
      BY <3>1, FrontDiffers DEF Named, PlannedPaths
    <3>3. QED
      BY <3>2 DEF NamedSoFar
  <2>2. QED
    BY <2>1 DEF Counted
<1>7. Cardinality(PlannedPaths \ {Root}) <= MaxEntries
  <2>1. /\ IsFiniteSet(PlannedPaths \ {Root})
        /\ Cardinality(PlannedPaths \ {Root}) <= Cardinality(Counted)
    BY <1>6, CountedPaths, FS_Subset
  <2>2. Cardinality(PlannedPaths \ {Root}) \in Nat
    BY <2>1, FS_CardinalityType
  <2>3. QED
    BY <1>5, <2>1, <2>2, LimitsAssumption
<1>8. ASSUME RootKind = "file" PROVE 1 <= MaxEntries
  <2>1. {Root} \in SUBSET Counted
    BY <1>4, <1>8 DEF Counted, FileIsRoot
  <2>2. Cardinality({Root}) <= Cardinality(Counted) /\ Cardinality({Root}) = 1
    BY <2>1, CountedPaths, FS_Subset, FS_Singleton
  <2>3. QED
    BY <1>5, <2>2, LimitsAssumption
<1>9. Sizes'
  BY <1>1, <1>3 DEF PlanBooks, Sizes
<1>10. Counts'
  BY <1>1, <1>3, <1>5, <1>7, <1>8 DEF PlanBooks, Counts
<1>11. QED
  BY <1>9, <1>10 DEF PlanBooks

\* At first nothing is counted.
LEMMA BooksInit == Init => PlanBooks
<1> SUFFICES ASSUME Init PROVE PlanBooks
  OBVIOUS
<1>1. /\ phase = "plan" /\ planned = [p \in Paths |-> None]
      /\ discovered = 0 /\ rechecked = 0 /\ total = 0 /\ call = Call("inspect", Root, "plan", None)
  BY DEF Init
<1>2. /\ call.at = "inspect" /\ call.seen = {} /\ call.bytes = <<>> /\ call.pass = "plan"
      /\ call.path = Root
  BY <1>1, CallIs
<1>3. PlannedPaths = {} /\ NamedSoFar = {} /\ planned[Root] = None
  BY <1>1, PathsAssumption DEF PlannedPaths, NamedSoFar
<1>4. PlannedBytes = 0
  <2>1. [p \in PlannedPaths |-> Len(planned[p].data)] \in [{} -> Nat]
    BY <1>3
  <2>2. QED
    BY <2>1, SumOfNone DEF PlannedBytes
<1>5. Counted = {}
  BY <1>2, <1>3 DEF Counted, FileIsRoot, ScansRoot, Reading
<1>6. Cardinality(Counted) = 0
  BY <1>5, FS_EmptySet
<1>7. Sizes
  BY <1>2, <1>3, <1>4, NothingRead, LimitsAssumption DEF Sizes
<1>8. Counts
  BY <1>1, <1>4, <1>6, LimitsAssumption DEF Counts
<1>9. QED
  BY <1>7, <1>8 DEF PlanBooks

\* The counters are what was listed and read.
LEMMA BooksAreKept == Spec => []PlanBooks
<1>1. Init => PlanBooks
  BY BooksInit
<1>2. IInv /\ PlanBooks /\ [Next]_vars => PlanBooks'
  BY BooksOnTheWay, BooksFail, BooksOutside, BooksInspect, BooksReadName, BooksRelist, BooksCloseFile,
     BooksAgain, BooksVerify, BooksNextTask, BooksPrepared
     DEF Next, Bridge, Within
<1>3. QED
  BY <1>1, <1>2, Invariance, PTL DEF Spec

\* A plan that is whole is a tree.
LEMMA PlanIsTree ==
  ASSUME IInv, Whole
  PROVE  /\ Root \in PlannedPaths /\ PlannedPaths \in SUBSET Paths /\ IsFiniteSet(PlannedPaths)
         /\ \A p \in PlannedPaths : \A q \in Components(p) \ {p} :
              q \in PlannedPaths /\ planned[q].kind = "directory"
         /\ RootKind \in {"file", "directory"}
         /\ RootKind = "file" => PlannedPaths = {Root}
<1>1. PlannedPaths \in SUBSET Paths /\ Root \in PlannedPaths /\ IsFiniteSet(PlannedPaths)
  BY PathsAssumption, PathOrder, FS_Subset DEF Whole, PlannedPaths
<1>2. \A p \in PlannedPaths : planned[p] \in Plans
  BY PlannedTerms DEF IInv
<1>3. ASSUME NEW p \in PlannedPaths, NEW q \in Components(p) \ {p}
      PROVE  q \in PlannedPaths /\ planned[q].kind = "directory"
  <2>1. planned[q] # None /\ planned[q].children # {}
    BY <1>3, Leads DEF IInv
  <2>2. q \in PlannedPaths
    BY <1>1, <2>1, PathParts DEF PlannedPaths
  <2>3. planned[q].kind # "file"
    BY <2>1, <2>2 DEF IInv, Rooted
  <2>4. QED
    BY <1>2, <2>2, <2>3 DEF Plans
<1>4. RootKind \in {"file", "directory"}
  BY <1>1, <1>2 DEF RootKind, Plans
<1>5. ASSUME RootKind = "file", NEW p \in PlannedPaths
      PROVE  p = Root
  <2>1. Root \in Components(p)
    BY <1>1, PathParts
  <2>2. QED
    BY <1>3, <1>5, <2>1 DEF RootKind
<1>6. QED
  BY <1>1, <1>3, <1>4, <1>5

\* What is sent of the plan: the requested file, or what is below the requested directory.
InManifest == IF RootKind = "file" THEN {Root} ELSE PlannedPaths \ {Root}
SentAs(p) == IF RootKind = "file" THEN <<Name>> ELSE p
EntryOf(p) == [path |-> SentAs(p), kind |-> planned[p].kind, size |-> Len(planned[p].data)]

\* The sizes of the entries are those of the plan: a directory has none.
LEMMA SentBytes ==
  ASSUME IInv, PlanBooks, Whole
  PROVE  /\ Terms([p \in InManifest |-> Len(planned[p].data)])
         /\ SumOf([p \in InManifest |-> Len(planned[p].data)]) = PlannedBytes
<1> DEFINE f == [p \in InManifest |-> Len(planned[p].data)]
           g == [p \in PlannedPaths |-> Len(planned[p].data)]
<1>1. /\ Root \in PlannedPaths /\ RootKind \in {"file", "directory"} /\ IsFiniteSet(PlannedPaths)
      /\ RootKind = "file" => PlannedPaths = {Root}
  BY PlanIsTree
<1>2. Terms(g) /\ \A p \in PlannedPaths : Len(planned[p].data) \in Nat
  BY PlannedTerms DEF IInv
<1>3. InManifest \subseteq PlannedPaths
  BY <1>1 DEF InManifest
<1>4. Terms(f)
  <2>1. IsFiniteSet(InManifest)
    BY <1>1, <1>3, FS_Subset
  <2>2. f \in [InManifest -> Nat] /\ DOMAIN f = InManifest
    BY <1>2, <1>3
  <2> HIDE DEF f
  <2>3. QED
    BY <2>1, <2>2 DEF Terms
<1>5. CASE RootKind = "file"
  BY <1>1, <1>4, <1>5 DEF InManifest, PlannedBytes
<1>6. CASE RootKind = "directory"
  <2>1. DOMAIN f = PlannedPaths \ {Root} /\ DOMAIN g = PlannedPaths
    BY <1>6 DEF InManifest
  <2>2. \A p \in DOMAIN f : g[p] = f[p]
    BY <1>3
  <2>3. g[Root] = 0
    <3>1. planned[Root].data = <<>>
      BY <1>1, <1>6 DEF PlanBooks, Sizes, RootKind
    <3>2. QED
      BY <1>1, <3>1
  <2>4. PlannedBytes = SumOf(g)
    BY DEF PlannedBytes
  <2> HIDE DEF f, g
  <2>5. Root \notin DOMAIN f /\ DOMAIN g = DOMAIN f \cup {Root}
    BY <1>1, <2>1
  <2>6. SumOf(g) = SumOf(f) + g[Root]
    BY <1>2, <1>4, <2>2, <2>5, SumOfMore
  <2>7. SumOf(f) \in Nat
    BY <1>4, SumIs
  <2>8. SumOf(f) = PlannedBytes
    BY <2>3, <2>4, <2>6, <2>7
  <2>9. QED
    BY <1>4, <2>8 DEF f
<1>7. QED
  BY <1>1, <1>5, <1>6

\* The plan is sent as a manifest that describes a tree.
LEMMA PlanDescribes ==
  ASSUME IInv, PlanBooks, phase = "stream"
  PROVE  Manifest \in ManifestState /\ DescribesTree(Manifest)
<1> DEFINE s == InOrder(InManifest)
           entries == [n \in DOMAIN s |-> EntryOf(s[n])]
           E == {entries[n] : n \in DOMAIN entries}
           w == [n \in DOMAIN entries |-> entries[n].path]
<1>1. Whole /\ total = PlannedBytes
  BY DEF IInv, StreamWalk, PlanBooks, Counts
<1>2. /\ Root \in PlannedPaths /\ PlannedPaths \in SUBSET Paths /\ IsFiniteSet(PlannedPaths)
      /\ \A p \in PlannedPaths : \A q \in Components(p) \ {p} :
           q \in PlannedPaths /\ planned[q].kind = "directory"
      /\ RootKind \in {"file", "directory"}
      /\ RootKind = "file" => PlannedPaths = {Root}
  BY <1>1, PlanIsTree
<1>3. InManifest \subseteq PlannedPaths /\ InManifest \in SUBSET Paths
  BY <1>2 DEF InManifest
<1>4. /\ s \in Seq(InManifest) /\ DOMAIN s = 1..Len(s) /\ Len(s) \in Nat
      /\ Len(s) = Cardinality(InManifest)
      /\ \A p \in InManifest : \E n \in DOMAIN s : s[n] = p
      /\ \A n \in DOMAIN s : s[n] \in InManifest
      /\ Once(s) /\ \A m, n \in DOMAIN s : m < n => Precedes(s[m], s[n])
  <2>1. /\ s \in Seq(InManifest) /\ DOMAIN s = 1..Cardinality(InManifest)
        /\ \A p \in InManifest : \E n \in DOMAIN s : s[n] = p
        /\ Once(s) /\ \A m, n \in DOMAIN s : m < n => Precedes(s[m], s[n])
    BY <1>3, Ordered
  <2>2. Cardinality(InManifest) \in Nat
    BY <1>2, <1>3, FS_Subset, FS_CardinalityType
  <2> HIDE DEF s
  <2>3. DOMAIN s = 1..Len(s) /\ Len(s) \in Nat /\ \A n \in DOMAIN s : s[n] \in InManifest
    <3>1. s \in Seq(InManifest)
      BY <2>1
    <3>2. DOMAIN s = 1..Len(s) /\ Len(s) \in Nat
      BY <3>1
    <3>3. \A n \in 1..Len(s) : s[n] \in InManifest
      BY <3>1
    <3>4. QED
      BY <3>2, <3>3
  <2>4. Len(s) = Cardinality(InManifest)
    BY <2>1, <2>2, <2>3
  <2>5. QED
    BY <2>1, <2>3, <2>4
<1>5. Manifest = [kind |-> RootKind, name |-> <<Name>>, totalBytes |-> total, entries |-> entries]
  BY DEF Manifest, InManifest, EntryOf, SentAs
<1>6. ASSUME NEW p \in InManifest
      PROVE  /\ EntryOf(p) \in Entry /\ EntryOf(p).path = SentAs(p)
             /\ EntryOf(p).kind = planned[p].kind /\ EntryOf(p).size = Len(planned[p].data)
             /\ Canonical(SentAs(p)) /\ Len(planned[p].data) <= MaxFile /\ SentAs(p) \in Paths
  <2>1. /\ planned[p] \in Plans /\ Canonical(p) /\ Len(planned[p].data) <= MaxFile /\ p \in Paths
        /\ planned[p].kind = "directory" => planned[p].data = <<>>
        /\ Len(planned[p].data) \in Nat
    BY <1>3, PlannedTerms DEF PlanBooks, Sizes, IInv
  <2>2. Canonical(<<Name>>) /\ <<Name>> \in Paths /\ <<Name>> # Root
    <3>1. DOMAIN <<Name>> = {1} /\ <<Name>>[1] = Name
      OBVIOUS
    <3>2. Canonical(<<Name>>)
      BY <3>1, NameAssumption DEF Canonical
    <3>3. Len(<<Name>>) = 1 /\ Len(<<>>) = 0
      OBVIOUS
    <3>4. QED
      BY <3>2, <3>3, NameAssumption DEF Root
  <2>3. SentAs(p) \in Paths \ {Root} /\ Canonical(SentAs(p))
    BY <2>1, <2>2 DEF SentAs, InManifest
  <2>4. planned[p].kind \in {"file", "directory"}
    BY <2>1 DEF Plans
  <2>5. planned[p].kind = "directory" => Len(planned[p].data) = 0
    BY <2>1
  <2>6. EntryOf(p) \in Entry
    BY <2>1, <2>3, <2>4, <2>5 DEF EntryOf, Entry
  <2>7. QED
    BY <2>1, <2>3, <2>6 DEF EntryOf
<1>7. /\ entries \in Seq(Entry) /\ Len(entries) = Len(s) /\ DOMAIN entries = DOMAIN s
      /\ \A n \in DOMAIN s : entries[n] = EntryOf(s[n])
  <2>1. entries \in [1..Len(s) -> Entry]
    <3> HIDE DEF s
    <3>1. QED
      BY <1>4, <1>6
  <2>2. \A n \in DOMAIN s : entries[n] = EntryOf(s[n])
    OBVIOUS
  <2> HIDE DEF entries, s
  <2>3. QED
    BY <1>4, <2>1, <2>2, SeqDef, SMTT(30)
<1>8. \A x : x \in E <=> \E p \in InManifest : x = EntryOf(p)
  <2> HIDE DEF entries, s
  <2>1. QED
    BY <1>4, <1>7
<1>9. w = InOrder({x.path : x \in E})
  <2>1. /\ w \in Seq(Paths) /\ Len(w) = Len(s) /\ DOMAIN w = DOMAIN s
        /\ \A n \in DOMAIN s : w[n] = SentAs(s[n])
    <3>1. w \in [1..Len(s) -> Paths] /\ \A n \in DOMAIN s : w[n] = SentAs(s[n])
      <4> HIDE DEF entries, s
      <4>1. QED
        BY <1>4, <1>6, <1>7
    <3> HIDE DEF w, s
    <3>2. QED
      BY <1>4, <3>1, SeqDef
  <2>2. Elements(w) = {x.path : x \in E}
    BY DEF Elements
  <2>3. \A m, n \in 1..Len(w) : m < n => Precedes(w[m], w[n])
    <3> HIDE DEF w, s
    <3>1. CASE RootKind = "file"
      <4>1. InManifest = {Root} /\ Cardinality({Root}) = 1
        BY <3>1, FS_Singleton DEF InManifest
      <4>2. Len(w) = 1
        BY <1>4, <2>1, <4>1
      <4>3. QED
        BY <4>2
    <3>2. CASE RootKind = "directory"
      BY <1>4, <2>1, <3>2 DEF SentAs
    <3>3. QED
      BY <1>2, <3>1, <3>2
  <2> HIDE DEF w, E
  <2>4. QED
    BY <2>1, <2>2, <2>3, OrderIsTheirs
<1>10. SizeSum(entries, Len(entries)) = PlannedBytes
  <2> DEFINE f == [n \in 1..Len(entries) |-> entries[n].size]
             g == [p \in InManifest |-> Len(planned[p].data)]
  <2>1. Terms(g) /\ SumOf(g) = PlannedBytes /\ DOMAIN g = InManifest
    BY <1>1, SentBytes
  <2>2. Terms(f) /\ DOMAIN f = DOMAIN s
    <3>1. \A n \in 1..Len(entries) : entries[n].size \in Nat
      <4>1. \A y \in Entry : y.size \in Nat
        BY DEF Entry
      <4> HIDE DEF entries
      <4>2. QED
        BY <1>7, <4>1
    <3>2. IsFiniteSet(1..Len(entries)) /\ 1..Len(entries) = DOMAIN s
      <4> HIDE DEF entries, s
      <4>1. Len(s) \in Int /\ 1 \in Int
        BY <1>4
      <4>2. QED
        BY <1>4, <1>7, <4>1, FS_Interval
    <3> HIDE DEF entries, s
    <3>3. QED
      BY <3>1, <3>2 DEF Terms
  <2>3. \A n \in DOMAIN s : f[n] = g[s[n]]
    <3> HIDE DEF entries, s
    <3>1. QED
      BY <1>4, <1>6, <1>7
  <2>4. SizeSum(entries, Len(entries)) = SumOf(f)
    <3> HIDE DEF entries
    <3>1. QED
      BY DEF SizeSum
  <2> HIDE DEF f, g, entries, s
  <2>5. s \in Bijection(DOMAIN f, DOMAIN g)
    <3>1. s \in [DOMAIN f -> DOMAIN g]
      BY <1>4, <2>1, <2>2
    <3>2. QED
      BY <1>4, <2>1, <2>2, <3>1, Fun_IsBij DEF Once
  <2>6. SumOf(f) = SumOf(g)
    BY <2>1, <2>2, <2>3, <2>5, SumReordered
  <2>7. QED
    BY <2>1, <2>4, <2>6
<1>11. Manifest \in ManifestState
  <2>1. <<Name>> \in Paths /\ total \in Nat
    BY NameAssumption DEF PlanBooks, Counts
  <2> HIDE DEF entries
  <2>2. QED
    BY <1>2, <1>5, <1>7, <2>1 DEF ManifestState
<1>12. Len(<<Name>>) = 1 /\ Canonical(<<Name>>)
  <2>1. DOMAIN <<Name>> = {1} /\ <<Name>>[1] = Name /\ Len(<<Name>>) = 1
    OBVIOUS
  <2>2. QED
    BY <2>1, NameAssumption DEF Canonical
<1> HIDE DEF s
<1>13. \A x \in E : Canonical(x.path) /\ x.size <= MaxFile
  <2> HIDE DEF E
  <2>1. QED
    BY <1>6, <1>8
<1>14. ASSUME NEW x \in E, NEW q \in Parents(x.path)
       PROVE  \E y \in E : y.path = q /\ y.kind = "directory"
  <2> HIDE DEF E
  <2>1. PICK p \in InManifest : x = EntryOf(p)
    BY <1>8
  <2>2. x.path = SentAs(p) /\ SentAs(p) \in Paths
    BY <1>6, <2>1
  <2>3. PICK n \in 1..(Len(x.path) - 1) : q = SubSeq(x.path, 1, n)
    BY <1>14 DEF Parents
  <2>4. x.path = p /\ RootKind = "directory"
    <3>1. SentAs(p) # <<Name>>
      <4>1. Len(<<Name>>) - 1 = 0 /\ 1..0 = {}
        BY <1>12
      <4>2. QED
        BY <2>2, <2>3, <4>1
    <3>2. QED
      BY <1>2, <2>2, <3>1 DEF SentAs
  <2>5. Len(p) \in Nat /\ n \in 1..Len(p) /\ p \in Paths
    <3>1. Len(p) \in Nat
      BY <2>2, <2>4, PathSteps
    <3>2. QED
      BY <2>2, <2>3, <2>4, <3>1
  <2>6. q \in Components(p) /\ q # Root
    BY <2>3, <2>4, <2>5, PathSteps
  <2>7. q # p
    <3>1. Precedes(q, p)
      BY <1>14, <2>4, <2>5, TextAssumption
    <3>2. QED
      BY <2>5, <3>1, PathOrder
  <2>8. q \in InManifest /\ planned[q].kind = "directory"
    BY <1>2, <1>3, <2>4, <2>6, <2>7 DEF InManifest
  <2>9. EntryOf(q) \in E /\ EntryOf(q).path = q /\ EntryOf(q).kind = "directory"
    BY <1>6, <1>8, <2>4, <2>8 DEF SentAs
  <2>10. QED
    BY <2>9
<1>15. Len(entries) <= MaxEntries
  <2>1. /\ Cardinality(PlannedPaths \ {Root}) <= MaxEntries
        /\ RootKind = "file" => 1 <= MaxEntries
    BY DEF PlanBooks, Counts
  <2>2. Cardinality({Root}) = 1
    BY FS_Singleton
  <2> HIDE DEF entries
  <2>3. QED
    BY <1>4, <1>7, <2>1, <2>2 DEF InManifest
<1>16. total <= MaxTotal
  BY <1>1 DEF PlanBooks, Sizes
<1>17. RootKind = "file" => Len(entries) = 1 /\ \A x \in E : x.kind = "file" /\ x.path = <<Name>>
  <2> HIDE DEF entries, E
  <2>1. ASSUME RootKind = "file" PROVE InManifest = {Root} /\ Cardinality({Root}) = 1
    BY <2>1, FS_Singleton DEF InManifest
  <2>2. RootKind = "file" => Len(entries) = 1
    BY <1>4, <1>7, <2>1
  <2>3. \A x \in E : RootKind = "file" => x.kind = "file" /\ x.path = <<Name>>
    BY <1>6, <1>8, <2>1 DEF SentAs, RootKind
  <2>4. QED
    BY <2>2, <2>3
<1>18. DescribesTree(Manifest)
  <2>1. /\ Manifest.kind = RootKind /\ Manifest.name = <<Name>> /\ Manifest.totalBytes = total
        /\ Manifest.entries = entries
    BY <1>5
  <2>2. w = [n \in DOMAIN entries |-> entries[n].path]
    OBVIOUS
  <2> HIDE DEF entries
  <2>3. E = {Manifest.entries[n] : n \in DOMAIN Manifest.entries}
    BY <2>1
  <2> HIDE DEF E, w
  <2>4. QED
    BY <1>1, <1>9, <1>10, <1>12, <1>13, <1>14, <1>15, <1>16, <1>17, <2>1, <2>2, <2>3 DEF DescribesTree
<1>19. QED
  BY <1>11, <1>18

\* The receiver accepts what the bridge plans, whatever tree it walks and whatever is done
\* to it meanwhile, and of all manifests exactly those that describe a tree.
THEOREM AcceptedPlan == Spec => []PlanIsAccepted
<1>1. IInv /\ PlanBooks => PlanIsAccepted
  <2>1. ASSUME IInv, PlanBooks, phase = "stream"
        PROVE  /\ Violation(Manifest) = "none"
               /\ \A m \in Others(Manifest) : Violation(m) = "none" <=> DescribesTree(m)
    <3>1. Manifest \in ManifestState /\ DescribesTree(Manifest)
      BY <2>1, PlanDescribes
    <3>2. Others(Manifest) \subseteq ManifestState
      BY <3>1, OthersAre
    <3>3. QED
      BY <3>1, <3>2, Validates
  <2>2. QED
    BY <2>1 DEF PlanIsAccepted
<1>2. QED
  BY <1>1, Invariance, BooksAreKept, PTL

-----------------------------------------------------------------------------
(* A tree nobody touches.                                                  *)
\* Nobody has aborted the request or replaced the root; what the guard of a call saw
\* is still there, and what was planned is what there is.
Quiet == ~signal /\ rootCurrent
GuardIs(k) == \A p \in DOMAIN k.guard : names[p] = k.guard[p]
PlanIsTrue ==
  \A p \in PlannedPaths :
    /\ names[p] # None /\ planned[p].rev = Fingerprint(names[p])
    /\ planned[p].kind = Node(p).kind /\ planned[p].data = Node(p).data
    /\ planned[p].children = IF Node(p).kind = "directory" THEN Children(p) ELSE {}

\* The call sees what is there: k is its record.
ScanSees(k) ==
  LET data == Node(k.path).data  n == Len(k.bytes) + 1 IN
  /\ Len(data) <= MaxFile /\ Starts(k.bytes, data)
  /\ k.at # "open" => k.handle = names[k.path]
  /\ k.at \in {"after", "again"} => k.piece = IF n \in DOMAIN data THEN <<data[n]>> ELSE <<>>
  /\ k.at = "close" => k.bytes = data
Sees(k) ==
  k.at \notin {"next"} \cup Unwinding =>
    /\ k.at # "inspect" => names[k.path] # None
    /\ k.rev # None => names[k.path] # None /\ k.rev = Fingerprint(names[k.path])
    /\ k.at \in {"list", "verifyDirectory"} \cup Listed => Node(k.path).kind = "directory"
    /\ k.at \in {"scan", "verifyFile"} \cup Reading => Node(k.path).kind = "file"
    /\ k.at = "readdir" => /\ k.handle = names[k.path] /\ k.due = Children(k.path)
                           /\ k.seen \subseteq Children(k.path)
    /\ k.at \in {"closedir", "relist"} => k.seen = Children(k.path)
    /\ k.at \in Reading => ScanSees(k)

\* A failure is the host's own, or the tree's.
Excused(v) == v = "io" \/ (~Admissible /\ v \notin {"none", "changed", "rootChanged"})
Verdicts ==
  IF phase # "failed" /\ call.at \notin Unwinding THEN verdict = "none" ELSE Excused(verdict)

\* The second walk: what it has compared, listed and listed once more.
Pending(p) == Task("recheck", p) \in Ahead \/ (Active /\ call.pass = "recheck" /\ call.path = p)
InHand(pass) ==
  IF Active /\ call.pass = pass
  THEN IF call.at = "verifyDirectory" THEN planned[call.path].children ELSE call.seen
  ELSE {}
ListedOnce == (UNION {planned[p].children : p \in checked}) \cup InHand("verify")
ListedAgain ==
  (UNION {planned[p].children : p \in {q \in checked : ~Pending(q)}}) \cup InHand("recheck")
InTurn(p) == p \notin checked /\ (p # Root => Front(p) \in checked)
SecondTasks ==
  /\ Once(todo)
  /\ \A p \in checked : p # Root => Front(p) \in checked
  /\ \A p \in Paths : Task("verify", p) \in Ahead => InTurn(p)
  /\ \A p \in Paths : Task("recheck", p) \in Ahead => p \in checked /\ Node(p).kind = "directory"
  /\ Active => /\ Task(call.pass, call.path) \notin Ahead
               /\ call.pass = "verify" => InTurn(call.path)
               /\ call.pass = "recheck" => call.path \in checked /\ Node(call.path).kind = "directory"
SecondCounts ==
  /\ total = SumOf([p \in checked |-> Len(planned[p].data)])
  /\ call.at \notin Unwinding =>
       /\ RootKind = "directory" => discovered = Cardinality(ListedOnce)
       /\ rechecked = Cardinality(ListedAgain)
SecondWalk == phase = "verify" => SecondTasks /\ SecondCounts

AtRest == Quiet /\ GuardIs(call) /\ PlanIsTrue /\ Sees(call) /\ Verdicts /\ SecondWalk
Rests == changes \in Nat /\ (changes = 0 => AtRest)

-----------------------------------------------------------------------------
(* A resting tree: what the steps of the bridge leave alone.               *)
\* Nothing of the tree changes with a step of the bridge.
LEMMA HostRests ==
  ASSUME UNCHANGED host
  PROVE  /\ Admissible' = Admissible /\ Present' = Present /\ changes' = changes
         /\ \A k : GuardIs(k) => GuardIs(k)'
         /\ \A k : Sees(k) => Sees(k)'
         /\ \A v : Excused(v)' = Excused(v)
         /\ UNCHANGED signal /\ Quiet => Quiet'
         /\ UNCHANGED planned /\ PlanIsTrue => PlanIsTrue'
         /\ \A p : Node(p)' = Node(p) /\ Children(p)' = Children(p)
<1>1. /\ UNCHANGED <<names, inode, rootCurrent, changes>>
      /\ \A p : Node(p)' = Node(p) /\ Children(p)' = Children(p)
      /\ \A i : Fingerprint(i)' = Fingerprint(i)
  BY HostStays DEF host
<1>2. Present' = Present
  BY <1>1 DEF Present
<1>3. Admissible' = Admissible
  BY <1>1, <1>2 DEF Admissible
<1>4. \A k : GuardIs(k) => GuardIs(k)'
  BY <1>1 DEF GuardIs
<1>5. \A k : ScanSees(k) => ScanSees(k)'
  BY <1>1 DEF ScanSees
<1>6. \A k : Sees(k) => Sees(k)'
  BY <1>1, <1>5 DEF Sees
<1>7. \A v : Excused(v)' = Excused(v)
  BY <1>3 DEF Excused
<1>8. UNCHANGED signal /\ Quiet => Quiet'
  BY <1>1 DEF Quiet
<1>9. UNCHANGED planned /\ PlanIsTrue => PlanIsTrue'
  BY <1>1 DEF PlanIsTrue, PlannedPaths
<1>10. QED
  BY <1>1, <1>2, <1>3, <1>4, <1>6, <1>7, <1>8, <1>9

\* A call starts with what its guard looks at.
LEMMA GuardOfCall ==
  ASSUME NEW at, NEW p, NEW pass, NEW rev
  PROVE  GuardIs(Call(at, p, pass, rev))
<1>1. PICK guard : guard = [q \in Components(p) |-> names[q]]
  OBVIOUS
<1>2. Call(at, p, pass, rev).guard = guard
  BY <1>1 DEF Call, Rest
<1>3. QED
  BY <1>1, <1>2 DEF GuardIs

\* Between two calls there is nothing to see.
LEMMA RestSees == GuardIs(Rest) /\ Sees(Rest)
<1>1. Rest.guard = <<>> /\ Rest.at = "next" /\ DOMAIN <<>> = {}
  BY DEF Rest
<1>2. QED
  BY <1>1 DEF GuardIs, Sees

\* The walk fails between two calls, or a call does and leaves nothing open.
LEMMA RestingDropped ==
  ASSUME AtRest, UNCHANGED host, UNCHANGED <<signal, planned>>, phase' = "failed", call' = Rest,
         Excused(verdict')
  PROVE  AtRest'
<1>1. GuardIs(call)' /\ Sees(call)'
  <2>1. \A k : k = Rest => GuardIs(k)' /\ Sees(k)'
    BY RestSees, HostRests
  <2>2. QED
    BY <2>1
<1>2. Excused(verdict)'
  <2>1. \A v : Excused(v) => Excused(v)'
    BY HostRests
  <2>2. QED
    BY <2>1
<1>3. QED
  BY <1>1, <1>2, HostRests DEF AtRest, Verdicts, SecondWalk

\* The tasks of a call that goes on are where they were.
LEMMA TasksStay ==
  ASSUME UNCHANGED host, UNCHANGED <<todo, checked>>, Active,
         NEW r, call' = r, r.path = call.path, r.pass = call.pass
  PROVE  SecondTasks => SecondTasks'
<1>1. Ahead' = Ahead /\ (\A p : InTurn(p)' = InTurn(p)) /\ \A p : Node(p)' = Node(p)
  BY HostRests DEF Ahead, Elements, InTurn
<1>2. call'.path = call.path /\ call'.pass = call.pass
  OBVIOUS
<1>3. PICK p, pass : p = call.path /\ pass = call.pass
  OBVIOUS
<1>4. call'.path = p /\ call'.pass = pass
  BY <1>2, <1>3
<1>5. SecondTasks' <=>
        /\ Once(todo)
        /\ \A q \in checked : q # Root => Front(q) \in checked
        /\ \A q \in Paths : Task("verify", q) \in Ahead => InTurn(q)
        /\ \A q \in Paths : Task("recheck", q) \in Ahead => q \in checked /\ Node(q).kind = "directory"
        /\ Active' => /\ Task(pass, p) \notin Ahead
                      /\ pass = "verify" => InTurn(p)
                      /\ pass = "recheck" => p \in checked /\ Node(p).kind = "directory"
  BY <1>1, <1>4 DEF SecondTasks, Once, Task
<1>6. QED
  BY <1>3, <1>5 DEF SecondTasks

\* A call goes on: what it has seen is there, and the walk is where it was.
LEMMA RestingMoves ==
  ASSUME AtRest, UNCHANGED host, UNCHANGED <<phase, signal, verdict, todo, planned, total, checked>>,
         Active, call.at \notin Unwinding,
         NEW r, call' = r, r.at \notin {"next"} \cup Unwinding, r.path = call.path, r.pass = call.pass,
         GuardIs(r), Sees(r), phase = "verify" /\ SecondCounts => SecondCounts'
  PROVE  AtRest'
<1>1. GuardIs(call)' /\ Sees(call)'
  <2>1. \A k : k = r => GuardIs(k)' /\ Sees(k)'
    BY HostRests
  <2>2. QED
    BY <2>1
<1>2. Verdicts'
  BY HostRests DEF AtRest, Verdicts
<1>3. SecondTasks => SecondTasks'
  BY TasksStay
<1>4. SecondWalk'
  BY <1>3 DEF AtRest, SecondWalk
<1>5. QED
  BY <1>1, <1>2, <1>4, HostRests DEF AtRest

\* A call that fails for a reason there is.
LEMMA RestingThrow ==
  ASSUME AtRest, Active, NEW v, Throw(v), Excused(v), call \in CallState
  PROVE  AtRest'
<1>1. /\ UNCHANGED host /\ UNCHANGED <<signal, todo, planned, total, checked>> /\ verdict' = v
  <2>1. GuardHolds
    BY DEF AtRest, Quiet, GuardIs, GuardHolds
  <2>2. QED
    BY <2>1 DEF Throw, books, history
<1>2. CASE call.handle = None
  <2>1. phase' = "failed" /\ call' = Rest
    BY <1>2 DEF Throw
  <2>2. QED
    BY <1>1, <2>1, RestingDropped
<1>3. CASE call.handle # None
  <2>1. PICK at \in Unwinding : call' = [call EXCEPT !.at = at] /\ UNCHANGED phase
    BY <1>3 DEF Throw, Unwinding
  <2>2. PICK r : r = [call EXCEPT !.at = at]
    OBVIOUS
  <2>3. r.at = at /\ r.path = call.path /\ r.pass = call.pass /\ r.guard = call.guard
    BY <2>2 DEF CallState
  <2>4. GuardIs(r) /\ Sees(r)
    BY <2>3 DEF AtRest, GuardIs, Sees
  <2>5. GuardIs(call)' /\ Sees(call)'
    <3>1. \A k : k = r => GuardIs(k)' /\ Sees(k)'
      BY <1>1, <2>4, HostRests
    <3>2. QED
      BY <2>1, <2>2, <3>1
  <2>6. Excused(verdict)'
    <3>1. \A k : Excused(k) => Excused(k)'
      BY <1>1, HostRests
    <3>2. QED
      BY <1>1, <3>1
  <2>7. Verdicts'
    BY <2>1, <2>2, <2>3, <2>6 DEF Verdicts
  <2>8. SecondTasks => SecondTasks'
    BY <1>1, <2>1, <2>2, <2>3, TasksStay
  <2>9. SecondCounts => SecondCounts'
    BY <1>1, <2>1, <2>2, <2>3 DEF SecondCounts
  <2>10. SecondWalk'
    BY <2>1, <2>8, <2>9 DEF AtRest, SecondWalk
  <2>11. QED
    BY <1>1, <2>5, <2>7, <2>10, HostRests DEF AtRest
<1>4. QED
  BY <1>2, <1>3

\* A call that goes on counts nothing.
LEMMA CountsStay ==
  ASSUME UNCHANGED <<todo, planned, total, checked, discovered, rechecked>>, Active,
         call.at \notin Unwinding, NEW r, call' = r, r.at # "next",
         r.path = call.path, r.pass = call.pass,
         (IF r.at = "verifyDirectory" THEN planned[r.path].children ELSE r.seen)
           = (IF call.at = "verifyDirectory" THEN planned[call.path].children ELSE call.seen)
  PROVE  SecondCounts => SecondCounts'
<1>1. Active' /\ call'.path = call.path /\ call'.pass = call.pass
  BY DEF Active
<1>2. InHand("verify")' = InHand("verify") /\ InHand("recheck")' = InHand("recheck")
  BY <1>1 DEF InHand
<1>3. \A p : Pending(p)' = Pending(p)
  BY <1>1 DEF Pending, Ahead, Elements, Task
<1>4. ListedOnce' = ListedOnce
  BY <1>2 DEF ListedOnce
<1>5. ListedAgain' = ListedAgain
  BY <1>2, <1>3 DEF ListedAgain
<1>6. RootKind' = RootKind /\ call'.at = r.at
  BY DEF RootKind
<1>7. QED
  BY <1>4, <1>5, <1>6 DEF SecondCounts

-----------------------------------------------------------------------------
(* What there is of a tree.                                                *)
\* What is reached from the requested path is in a set that is closed under what it reaches.
LEMMA Downwards ==
  ASSUME NEW S \in SUBSET Paths, NEW T \in SUBSET Paths, Root \in T,
         \A p \in S : p # Root => Front(p) \in S,
         \A p \in S : p # Root /\ Front(p) \in T => p \in T,
         NEW p \in S
  PROVE  p \in T
<1> DEFINE at(n) == SubSeq(p, 1, n)
           N == {n \in Nat : n \in 0..Len(p) /\ at(n) \notin T}
<1>1. /\ Len(p) \in Nat /\ at(Len(p)) = p
      /\ \A n \in 1..Len(p) : at(n) # Root /\ Front(at(n)) = at(n - 1)
  BY PathSteps
<1>2. \A n \in 0..Len(p) : at(n) \in S
  <2>1. Components(p) \subseteq S
    BY Upwards
  <2>2. QED
    BY <2>1 DEF Components
<1>3. at(0) \in T
  <2>1. at(0) = Root
    BY <1>1, PathParts, SubSeqEmpty DEF Root
  <2>2. QED
    BY <2>1
<1>4. N = {}
  <2> SUFFICES ASSUME N # {} PROVE FALSE
    OBVIOUS
  <2>1. PICK m \in N : \A k \in N : m <= k
    <3>1. N \subseteq Nat /\ N # {}
      OBVIOUS
    <3> HIDE DEF N
    <3>2. QED
      BY <3>1, Least
  <2>2. m \in 0..Len(p) /\ m \in Nat /\ at(m) \notin T
    BY <2>1
  <2>3. m # 0
    BY <1>3, <2>2
  <2>4. m - 1 \in Nat /\ m - 1 \in 0..Len(p) /\ m \in 1..Len(p) /\ ~(m <= m - 1)
    BY <1>1, <2>2, <2>3
  <2>5. at(m - 1) \in T
    BY <2>1, <2>4
  <2> HIDE DEF at
  <2>6. Front(at(m)) = at(m - 1) /\ at(m) # Root /\ at(m) \in S
    BY <1>1, <1>2, <2>2, <2>4
  <2>7. QED
    BY <2>2, <2>5, <2>6
<1>5. Len(p) \in 0..Len(p)
  BY <1>1
<1> HIDE DEF at
<1>6. at(Len(p)) \in T
  BY <1>1, <1>4, <1>5
<1>7. QED
  BY <1>1, <1>6

\* A tree is what its directories hold.
LEMMA TreeIs ==
  ASSUME IInv
  PROVE  /\ Present \in SUBSET Paths /\ IsFiniteSet(Present) /\ Cardinality(Present) \in Nat
         /\ \A p \in Present :
              /\ Node(p).kind \in Kinds /\ Node(p).data \in Seq(Units) /\ Len(Node(p).data) \in Nat
              /\ Node(p).kind # "file" => Node(p).data = <<>>
              /\ p # Root => Front(p) \in Present /\ Node(Front(p)).kind = "directory"
         /\ Present # {} => Root \in Present
         /\ Node(Root).kind # "directory" => Present \subseteq {Root}
<1>1. Present \in SUBSET Paths /\ IsFiniteSet(Present) /\ Cardinality(Present) \in Nat
  BY PathOrder, FS_Subset, FS_CardinalityType DEF Present
<1>2. ASSUME NEW p \in Present
      PROVE  /\ Node(p).kind \in Kinds /\ Node(p).data \in Seq(Units) /\ Len(Node(p).data) \in Nat
             /\ Node(p).kind # "file" => Node(p).data = <<>>
             /\ p # Root => Front(p) \in Present /\ Node(Front(p)).kind = "directory"
  <2>1. IsNode(p) /\ names[p] \in Inodes /\ p \in Paths
    BY DEF Present, IInv, TypeOK, IsTree
  <2>2. Node(p) \in Nodes
    BY <2>1 DEF IInv, TypeOK, Node
  <2>3. Node(p).data \in Seq(Units) /\ Len(Node(p).data) \in Nat
    BY <2>2 DEF Nodes
  <2>4. p # Root => Front(p) \in Present /\ Node(Front(p)).kind = "directory"
    BY <2>1, FrontDiffers DEF IsNode, Present
  <2>5. QED
    BY <2>1, <2>3, <2>4 DEF IsNode
<1>3. ASSUME NEW p \in Present
      PROVE  Components(p) \subseteq Present
  BY <1>1, <1>2, Upwards
<1>4. Present # {} => Root \in Present
  BY <1>1, <1>3, PathParts
<1>5. ASSUME NEW p \in Present, p # Root
      PROVE  Node(Root).kind = "directory"
  <2>1. PICK q : q = SubSeq(p, 1, 1)
    OBVIOUS
  <2>2. Len(p) \in Nat /\ SubSeq(p, 1, Len(p)) = p /\ SubSeq(p, 1, 0) = Root
    BY <1>1, PathSteps, SubSeqEmpty DEF Root
  <2>3. 1 \in 1..Len(p)
    BY <1>5, <2>2
  <2>4. q \in Components(p) /\ q # Root /\ Front(q) = SubSeq(p, 1, 1 - 1)
    BY <1>1, <2>1, <2>3, PathSteps
  <2>5. Front(q) = Root /\ q \in Present
    BY <1>3, <2>2, <2>4
  <2>6. QED
    BY <1>2, <2>4, <2>5
<1>6. QED
  BY <1>1, <1>2, <1>4, <1>5

\* Of a tree within the limits no more than MaxEntries paths are listed.
LEMMA WithinLimits ==
  ASSUME IInv, Admissible, NEW S \in SUBSET Present, Root \notin S, Node(Root).kind = "directory"
  PROVE  IsFiniteSet(S) /\ Cardinality(S) \in Nat /\ Cardinality(S) <= MaxEntries
<1>1. IsFiniteSet(S) /\ Cardinality(S) \in Nat
  BY TreeIs, FS_Subset, FS_CardinalityType
<1>2. S \cup {Root} \in SUBSET Present
  BY TreeIs DEF Admissible
<1>3. Cardinality(S \cup {Root}) = Cardinality(S) + 1
  BY <1>1, FS_AddElement
<1>4. Cardinality(S \cup {Root}) <= Cardinality(Present)
  BY <1>2, TreeIs, FS_Subset
<1>5. Cardinality(Present) <= MaxEntries + 1
  BY DEF Admissible
<1>6. QED
  BY <1>1, <1>3, <1>4, <1>5, TreeIs, LimitsAssumption

\* Nor are more than MaxTotal units read of it.
LEMMA BytesWithin ==
  ASSUME IInv, Admissible, NEW f, Terms(f), NEW p \in Present, DOMAIN f \subseteq Present \ {p},
         \A q \in DOMAIN f : f[q] = Len(Node(q).data)
  PROVE  SumOf(f) + Len(Node(p).data) <= MaxTotal
<1> DEFINE g == [q \in DOMAIN f \cup {p} |-> Len(Node(q).data)]
           h == [q \in Present |-> Len(Node(q).data)]
<1>1. /\ IsFiniteSet(Present) /\ \A q \in Present : Len(Node(q).data) \in Nat
      /\ DOMAIN f \cup {p} \subseteq Present
  BY TreeIs
<1>2. IsFiniteSet(DOMAIN f \cup {p})
  BY <1>1, FS_Subset
<1>3. DOMAIN g = DOMAIN f \cup {p} /\ DOMAIN h = Present
  OBVIOUS
<1>4. (\A q \in DOMAIN f : g[q] = f[q]) /\ (\A q \in DOMAIN g : g[q] = h[q])
  BY <1>1
<1>5. g[p] = Len(Node(p).data)
  OBVIOUS
<1>6. Terms(g) /\ Terms(h)
  <2>1. g \in [DOMAIN f \cup {p} -> Nat] /\ h \in [Present -> Nat]
    BY <1>1
  <2> HIDE DEF g, h
  <2>2. QED
    BY <1>1, <1>2, <1>3, <2>1 DEF Terms
<1>7. SumOf(h) <= MaxTotal
  BY DEF Admissible
<1> HIDE DEF g, h
<1>8. SumOf(g) = SumOf(f) + g[p]
  BY <1>3, <1>4, <1>6, SumOfMore
<1>9. SumOf(g) <= SumOf(h)
  BY <1>1, <1>3, <1>4, <1>6, SumOfFewer
<1>10. SumOf(g) \in Nat /\ SumOf(h) \in Nat /\ SumOf(f) \in Nat
  BY <1>6, SumIs
<1>11. QED
  BY <1>5, <1>7, <1>8, <1>9, <1>10, LimitsAssumption

\* What the plan names is there.
LEMMA NamedIsThere ==
  ASSUME IInv, PlanIsTrue
  PROVE  /\ PlannedPaths \subseteq Present
         /\ \A p \in PlannedPaths : planned[p].children \subseteq Present
         /\ \A p \in Paths : Named(p) => p \in Present
         /\ \A p \in Paths : Fresh(p) => p = Root \/ p \in Present
<1>1. PlannedPaths \subseteq Present
  BY DEF PlanIsTrue, PlannedPaths, Present
<1>2. \A p \in PlannedPaths : planned[p].children \subseteq Present
  BY DEF PlanIsTrue, Children, Present
<1>3. \A p \in Paths : Named(p) => p \in Present
  BY <1>2, FrontDiffers DEF Named, PlannedPaths
<1>4. QED
  BY <1>1, <1>2, <1>3 DEF Fresh

\* Where the call looks there is something, unless there is no tree.
LEMMA ProblemIs ==
  ASSUME IInv, AtRest, call.at \in Looking
  PROVE  /\ Active /\ call.at \notin Unwinding /\ GuardHolds
         /\ Problem = "none" \/ (Problem = "notFound" /\ ~Admissible)
<1>1. Active /\ call.at \notin {"next"} \cup Unwinding
  BY DEF Looking, Active, Unwinding
<1>2. GuardHolds /\ ~signal
  BY DEF AtRest, Quiet, GuardIs, GuardHolds
<1>3. /\ call.at # "inspect" => names[call.path] # None
      /\ call.rev # None => names[call.path] # None /\ call.rev = Fingerprint(names[call.path])
  BY <1>1 DEF AtRest, Sees
<1>4. CASE names[call.path] # None
  BY <1>1, <1>2, <1>3, <1>4 DEF Problem
<1>5. CASE names[call.path] = None
  <2>1. call.at = "inspect" /\ Problem = "notFound"
    BY <1>2, <1>3, <1>5 DEF Problem
  <2>2. phase = "plan" /\ call.path \in Paths /\ Fresh(call.path)
    BY <1>1, <2>1, ActiveFacts DEF IInv, PlanWalk, Listed, Reading, Unwinding, Verifying
  <2>3. call.path = Root
    BY <1>5, <2>2, NamedIsThere DEF AtRest, Present
  <2>4. Root \notin Present
    BY <1>5, <2>3 DEF Present
  <2>5. Present = {}
    BY <2>4, TreeIs
  <2>6. QED
    BY <1>1, <1>2, <2>1, <2>5 DEF Admissible
<1>6. QED
  BY <1>4, <1>5

\* A failure is one the tree itself explains.
LEMMA RestsFailing ==
  IInv /\ AtRest /\ (InspectFails \/ HostFails \/ CloseFails \/ Unwind) => AtRest'
<1> SUFFICES ASSUME IInv, AtRest, InspectFails \/ HostFails \/ CloseFails \/ Unwind
             PROVE  AtRest'
  OBVIOUS
<1>1. GuardHolds /\ ~signal /\ call \in CallState /\ Excused("io")
  BY DEF AtRest, Quiet, GuardIs, GuardHolds, IInv, TypeOK, Excused
<1>2. CASE InspectFails
  <2>1. Active /\ Problem = "notFound" /\ ~Admissible /\ Throw("notFound")
    BY <1>2, ProblemIs DEF InspectFails
  <2>2. Excused("notFound")
    BY <2>1 DEF Excused
  <2>3. QED
    BY <1>1, <2>1, <2>2, RestingThrow
<1>3. CASE HostFails
  <2>1. Active /\ Throw("io")
    BY <1>1, <1>3 DEF HostFails, Active, Looking
  <2>2. QED
    BY <1>1, <2>1, RestingThrow
<1>4. CASE CloseFails
  <2>1. /\ verdict' = "io" /\ phase' = "failed" /\ call' = Rest
        /\ UNCHANGED host /\ UNCHANGED <<signal, planned>>
    BY <1>1, <1>4 DEF CloseFails, books
  <2>2. QED
    BY <1>1, <2>1, RestingDropped
<1>5. CASE Unwind
  <2>1. /\ verdict' = verdict /\ phase' = "failed" /\ call' = Rest
        /\ UNCHANGED host /\ UNCHANGED <<signal, planned>> /\ call.at \in Unwinding
    BY <1>1, <1>5 DEF Unwind, books, Unwinding
  <2>2. Excused(verdict)
    BY <2>1 DEF AtRest, Verdicts
  <2>3. QED
    BY <2>1, <2>2, RestingDropped
<1>6. QED
  BY <1>2, <1>3, <1>4, <1>5

\* What is planned is as long as what is there.
LEMMA PlannedWithin ==
  ASSUME IInv, PlanIsTrue, Admissible, NEW S \in SUBSET PlannedPaths, NEW p \in Present, p \notin S
  PROVE  /\ SumOf([q \in S |-> Len(planned[q].data)]) + Len(Node(p).data) <= MaxTotal
         /\ Terms([q \in S |-> Len(planned[q].data)])
<1> DEFINE f == [q \in S |-> Len(planned[q].data)]
<1>1. Terms(f)
  <2>1. IsFiniteSet(S) /\ \A q \in S : Len(planned[q].data) \in Nat
    BY PlannedTerms, FS_Subset DEF IInv
  <2>2. f \in [S -> Nat] /\ DOMAIN f = S
    BY <2>1
  <2> HIDE DEF f
  <2>3. QED
    BY <2>1, <2>2 DEF Terms
<1>2. DOMAIN f \subseteq Present \ {p}
  BY NamedIsThere
<1>3. \A q \in DOMAIN f : f[q] = Len(Node(q).data)
  BY DEF PlanIsTrue
<1> HIDE DEF f
<1>4. SumOf(f) + Len(Node(p).data) <= MaxTotal
  BY <1>1, <1>2, <1>3, BytesWithin
<1>5. QED
  BY <1>1, <1>4 DEF f

\* Inspect finds what is there.
LEMMA RestsInspect == IInv /\ PlanBooks /\ AtRest /\ Inspect => AtRest'
<1> SUFFICES ASSUME IInv, PlanBooks, AtRest, Inspect PROVE AtRest'
  OBVIOUS
<1>1. PICK p : p = call.path
  OBVIOUS
<1>2. Active /\ call.at = "inspect" /\ names[p] # None
  BY <1>1, LookedAt DEF Inspect
<1>3. /\ phase = "plan" /\ call.pass = "plan" /\ p \in Paths /\ Fresh(p) /\ call \in CallState
      /\ call.at \notin Listed \cup Unwinding /\ ~ScansRoot
  BY <1>1, <1>2, ActiveFacts
     DEF Listed, Reading, Unwinding, Verifying, IInv, PlanWalk, Fresh, Named, ScansRoot
<1>4. p \in Present /\ Node(p).kind \in Kinds
  BY <1>2, <1>3, TreeIs DEF Present
<1>5. ASSUME NEW at \in {"list", "scan"}, NEW rev, GoOn(Call(at, p, "plan", rev)),
             UNCHANGED <<todo, planned, total, checked>>,
             rev # None => rev = Fingerprint(names[p]),
             Node(p).kind = IF at = "list" THEN "directory" ELSE "file"
      PROVE  AtRest'
  <2>1. PICK r : r = Call(at, p, "plan", rev)
    OBVIOUS
  <2>2. r.at = at /\ r.path = p /\ r.pass = "plan" /\ r.rev = rev /\ GuardIs(r)
    BY <2>1, CallIs, GuardOfCall
  <2>3. Sees(r)
    BY <1>2, <1>5, <2>2 DEF Sees, Listed, Reading, Unwinding
  <2>4. call' = r /\ UNCHANGED <<phase, signal, verdict>> /\ UNCHANGED host
    BY <1>5, <2>1 DEF GoOn
  <2>5. r.at \notin {"next"} \cup Unwinding
    BY <2>2 DEF Unwinding
  <2>6. QED
    BY <1>1, <1>2, <1>3, <1>5, <2>2, <2>3, <2>4, <2>5, RestingMoves
<1>6. ASSUME NEW v, Throw(v), v \in {"type", "limit"}, ~Admissible
      PROVE  AtRest'
  BY <1>2, <1>3, <1>6, RestingThrow DEF Excused
<1>7. CASE Node(p).kind = "other"
  <2>1. ~Admissible
    BY <1>4, <1>7 DEF Admissible
  <2>2. Throw("type")
    BY <1>1, <1>7 DEF Inspect
  <2>3. QED
    BY <1>6, <2>1, <2>2
<1>8. CASE Node(p).kind = "directory"
  <2>1. /\ GoOn(Call("list", p, "plan", Fingerprint(names[p])))
        /\ UNCHANGED books /\ UNCHANGED history
    BY <1>1, <1>8 DEF Inspect
  <2>2. QED
    BY <1>5, <1>8, <2>1 DEF books, history
<1>9. CASE Node(p).kind = "file" /\ ~\E v : Throw(v)
  <2>1. /\ GoOn(Call("scan", p, "plan", None))
        /\ UNCHANGED <<todo, planned, total>> /\ UNCHANGED history
    BY <1>1, <1>9 DEF Inspect
  <2>2. QED
    BY <1>5, <1>9, <2>1 DEF history
<1>10. CASE Node(p).kind = "file" /\ \E v : Throw(v)
  <2>1. call'.at # "scan"
    <3>1. PICK v : Throw(v)
      BY <1>10
    <3>2. call' = Rest \/ \E at \in Unwinding : call' = [call EXCEPT !.at = at]
      BY <3>1 DEF Throw, Unwinding
    <3>3. QED
      BY <1>3, <3>2, RestIs DEF Unwinding, CallState
  <2>2. call' # Call("scan", p, "plan", None)
    <3>1. PICK r : r = Call("scan", p, "plan", None)
      OBVIOUS
    <3>2. r.at = "scan"
      BY <3>1, CallIs
    <3>3. QED
      BY <2>1, <3>1, <3>2
  <2>3. /\ Throw("limit")
        /\ \/ Len(Node(p).data) > MaxFile \/ total + Len(Node(p).data) > MaxTotal
           \/ p = Root /\ discovered + 1 > MaxEntries
    BY <1>1, <1>10, <2>2 DEF Inspect, GoOn
  <2>4. ASSUME Admissible PROVE FALSE
    <3>1. Len(Node(p).data) <= MaxFile /\ Len(Node(p).data) \in Nat
      BY <1>4, <2>4, TreeIs DEF Admissible
    <3>2. total + Len(Node(p).data) <= MaxTotal
      <4>1. total = SumOf([q \in PlannedPaths |-> Len(planned[q].data)])
        BY <1>3 DEF PlanBooks, Counts, PlannedBytes
      <4>2. p \notin PlannedPaths
        BY <1>3 DEF Fresh, PlannedPaths
      <4>3. QED
        BY <1>4, <2>4, <4>1, <4>2, PlannedWithin DEF AtRest
    <3>3. total \in Nat /\ discovered \in Nat
      BY DEF PlanBooks, Counts
    <3>4. p = Root /\ discovered + 1 > MaxEntries
      BY <2>3, <3>1, <3>2, <3>3, LimitsAssumption
    <3>5. Counted = {}
      <4>1. NamedSoFar = {} /\ planned[Root] = None
        BY <1>3, <3>4, FirstIsRoot DEF Fresh
      <4>2. call.seen = {}
        BY <1>3 DEF PlanBooks, Sizes
      <4>3. QED
        BY <1>3, <4>1, <4>2 DEF Counted, FileIsRoot
    <3>6. discovered = 0
      BY <1>3, <3>5, FS_EmptySet DEF PlanBooks, Counts
    <3>7. Cardinality(Present) <= MaxEntries
      BY <1>9, <1>10, <2>4, <3>4, TreeIs, LimitsAssumption DEF Admissible
    <3>8. Present # {}
      BY <1>4
    <3>9. Cardinality(Present) # 0
      BY <3>8, TreeIs, FS_EmptySet
    <3>10. QED
      BY <3>4, <3>6, <3>7, <3>9, TreeIs, LimitsAssumption
  <2>5. QED
    BY <1>6, <2>3, <2>4
<1>11. QED
  BY <1>4, <1>7, <1>8, <1>9, <1>10 DEF Kinds

\* The call goes on in a listing: only what it has seen of the directory is asked for.
LEMMA ListingRests ==
  ASSUME IInv, AtRest, Active, call.at \notin {"verifyDirectory"} \cup Unwinding, NEW r \in CallState, GoOn(r),
         UNCHANGED books, UNCHANGED history,
         r.at \in Listed, r.path = call.path, r.pass = call.pass, r.seen = call.seen,
         r.guard = call.guard, names[r.path] # None, Node(r.path).kind = "directory",
         r.rev # None => r.rev = Fingerprint(names[r.path]),
         r.at = "readdir" => /\ r.handle = names[r.path] /\ r.due = Children(r.path)
                             /\ r.seen \subseteq Children(r.path),
         r.at \in {"closedir", "relist"} => r.seen = Children(r.path)
  PROVE  AtRest'
<1>1. Sees(r)
  BY DEF Sees, Listed, Reading
<1>2. GuardIs(r)
  BY DEF AtRest, GuardIs
<1>3. r.at \notin {"next", "verifyDirectory"} \cup Unwinding
  BY DEF Listed, Unwinding
<1>4. SecondCounts => SecondCounts'
  BY <1>3, CountsStay DEF GoOn, books, history
<1>5. QED
  BY <1>1, <1>2, <1>3, <1>4, RestingMoves DEF GoOn, books, history

\* A directory nobody touches opens, ends and closes as it was.
LEMMA RestsListing ==
  IInv /\ AtRest /\ (List \/ OpenDirectory \/ EndOfNames \/ CloseDirectory) => AtRest'
<1> SUFFICES ASSUME IInv, AtRest, List \/ OpenDirectory \/ EndOfNames \/ CloseDirectory
             PROVE  AtRest'
  OBVIOUS
<1>1. /\ Active /\ call.at \notin {"next", "verifyDirectory"} \cup Unwinding
      /\ call.at \in {"list"} \cup Listed /\ call \in CallState /\ call.path \in Paths
  <2>1. call.at \in {"list"} \cup Listed
    BY DEF List, At, OpenDirectory, EndOfNames, CloseDirectory, Listed
  <2>2. call.at \notin {"next", "verifyDirectory"} \cup Unwinding /\ Active
    BY <2>1 DEF Listed, Unwinding, Active
  <2>3. QED
    BY <2>1, <2>2, ActiveFacts
<1>2. /\ names[call.path] # None /\ Node(call.path).kind = "directory" /\ ~signal
      /\ call.rev # None => call.rev = Fingerprint(names[call.path])
      /\ call.at = "readdir" => /\ call.handle = names[call.path] /\ call.due = Children(call.path)
                                /\ call.seen \subseteq Children(call.path)
      /\ call.at \in {"closedir", "relist"} => call.seen = Children(call.path)
  BY <1>1 DEF AtRest, Sees, Quiet, Listed
<1>3. PICK rev : rev = Fingerprint(names[call.path])
  OBVIOUS
<1>4. rev \in Revisions
  BY <1>1, <1>2, <1>3, FingerprintIs DEF IInv
<1>5. CASE List
  <2>1. PICK r : r = [call EXCEPT !.at = "opendir", !.rev = rev]
    OBVIOUS
  <2>2. GoOn(r) /\ UNCHANGED books /\ UNCHANGED history
    BY <1>2, <1>3, <1>5, <2>1 DEF List
  <2>3. /\ r \in CallState /\ r.at = "opendir" /\ r.rev = rev /\ r.path = call.path
        /\ r.pass = call.pass /\ r.seen = call.seen /\ r.guard = call.guard
    BY <1>1, <1>4, <2>1 DEF CallState, Steps, Listed
  <2>4. QED
    BY <1>1, <1>2, <1>3, <2>2, <2>3, ListingRests DEF Listed
<1>6. CASE OpenDirectory
  <2>1. PICK due : due = Children(call.path)
    OBVIOUS
  <2>2. PICK r : r = [call EXCEPT !.at = "readdir", !.handle = names[call.path], !.due = due]
    OBVIOUS
  <2>3. GoOn(r) /\ UNCHANGED books /\ UNCHANGED history /\ call.at = "opendir"
    BY <1>2, <1>6, <2>1, <2>2 DEF OpenDirectory
  <2>4. due \subseteq Paths /\ names[call.path] \in Inodes
    BY <1>1, <1>2, <2>1 DEF Children, IInv, TypeOK
  <2>5. /\ r \in CallState /\ r.at = "readdir" /\ r.rev = call.rev /\ r.path = call.path
        /\ r.pass = call.pass /\ r.seen = call.seen /\ r.guard = call.guard
        /\ r.handle = names[call.path] /\ r.due = due
    BY <1>1, <2>2, <2>4 DEF CallState, Steps, Listed
  <2>6. call.seen = {}
    BY <2>3 DEF IInv, Shape
  <2>7. QED
    BY <1>1, <1>2, <2>1, <2>3, <2>5, <2>6, ListingRests DEF Listed
<1>7. CASE EndOfNames
  <2>1. PICK r : r = [call EXCEPT !.at = "closedir"]
    OBVIOUS
  <2>2. GoOn(r) /\ UNCHANGED books /\ UNCHANGED history /\ call.at = "readdir"
    BY <1>2, <1>7, <2>1 DEF EndOfNames, Step
  <2>3. call.seen = Children(call.path)
    <3>1. \A p \in Children(call.path) : names[p] # None
      BY DEF Children
    <3>2. QED
      BY <1>2, <1>7, <2>2, <3>1 DEF EndOfNames
  <2>4. /\ r \in CallState /\ r.at = "closedir" /\ r.rev = call.rev /\ r.path = call.path
        /\ r.pass = call.pass /\ r.seen = call.seen /\ r.guard = call.guard
    BY <1>1, <2>1 DEF CallState, Steps, Listed
  <2>5. QED
    BY <1>1, <1>2, <2>2, <2>3, <2>4, ListingRests DEF Listed
<1>8. CASE CloseDirectory
  <2>1. PICK r : r = [call EXCEPT !.at = "relist", !.handle = None]
    OBVIOUS
  <2>2. GoOn(r) /\ UNCHANGED books /\ UNCHANGED history /\ call.at = "closedir"
    BY <1>8, <2>1 DEF CloseDirectory
  <2>3. /\ r \in CallState /\ r.at = "relist" /\ r.rev = call.rev /\ r.path = call.path
        /\ r.pass = call.pass /\ r.seen = call.seen /\ r.guard = call.guard
    BY <1>1, <2>1 DEF CallState, Steps, Listed
  <2>4. QED
    BY <1>1, <1>2, <2>2, <2>3, ListingRests DEF Listed
<1>9. QED
  BY <1>5, <1>6, <1>7, <1>8

\* A name that is read has not been counted in this walk.
LEMMA NameIsNew ==
  ASSUME IInv, AtRest, PlanBooks, call.at = "readdir", NEW p \in Children(call.path), p \notin call.seen
  PROVE  /\ p \in Present /\ p # Root /\ Node(Root).kind = "directory"
         /\ phase = "plan" => Counted \cup {p} \subseteq Present \ {Root} /\ p \notin Counted
         /\ phase = "verify" =>
              /\ RootKind = "directory"
              /\ call.pass = "verify" => /\ ListedOnce \cup {p} \subseteq Present \ {Root}
                                         /\ p \notin ListedOnce
              /\ call.pass = "recheck" => /\ ListedAgain \cup {p} \subseteq Present \ {Root}
                                          /\ p \notin ListedAgain
<1>1. Active /\ call.at \in Listed /\ call.at \notin Reading \cup Unwinding \cup {"scan", "verifyDirectory"}
  BY DEF Active, Listed, Reading, Unwinding
<1>2. p \in Present /\ p # Root /\ Front(p) = call.path /\ p \in Paths
  BY DEF Children, Present
<1>3. Node(Root).kind = "directory"
  BY <1>2, TreeIs
<1>4. call.seen \subseteq Present \ {Root}
  <2>1. call.seen \subseteq Children(call.path)
    BY <1>1 DEF AtRest, Sees, Unwinding
  <2>2. QED
    BY <2>1 DEF Children, Present
<1>5. \A q \in PlannedPaths : planned[q].children \subseteq Present \ {Root}
  BY NamedIsThere DEF AtRest, IInv, Rooted, Below
<1>6. \A q \in PlannedPaths : p \in planned[q].children => q = call.path
  BY <1>2 DEF IInv, Rooted, Below
<1>7. planned[Root] # None => RootKind = "directory"
  BY <1>3, PathsAssumption DEF AtRest, PlanIsTrue, PlannedPaths, RootKind
<1>8. ASSUME phase = "plan"
      PROVE  Counted \cup {p} \subseteq Present \ {Root} /\ p \notin Counted
  <2>1. ~FileIsRoot
    BY <1>1, <1>7 DEF FileIsRoot, ScansRoot
  <2>2. planned[call.path] = None
    BY <1>1, <1>8 DEF IInv, PlanWalk, Fresh
  <2>3. NamedSoFar \subseteq Present \ {Root} /\ p \notin NamedSoFar
    <3>1. NamedSoFar \subseteq Present \ {Root}
      BY <1>5 DEF NamedSoFar
    <3>2. p \notin NamedSoFar
      BY <1>6, <2>2 DEF NamedSoFar, PlannedPaths
    <3>3. QED
      BY <3>1, <3>2
  <2>4. QED
    BY <1>2, <1>4, <2>1, <2>3 DEF Counted
<1>9. ASSUME phase = "verify"
      PROVE  /\ RootKind = "directory"
             /\ call.pass = "verify" => /\ ListedOnce \cup {p} \subseteq Present \ {Root}
                                        /\ p \notin ListedOnce
             /\ call.pass = "recheck" => /\ ListedAgain \cup {p} \subseteq Present \ {Root}
                                         /\ p \notin ListedAgain
  <2>1. RootKind = "directory"
    BY <1>7, <1>9 DEF IInv, Afterwards, Whole
  <2>2. checked \subseteq PlannedPaths
    BY <1>9 DEF IInv, VerifyWalk
  <2>3. InHand("verify") \subseteq call.seen /\ InHand("recheck") \subseteq call.seen
    BY <1>1 DEF InHand
  <2>4. SecondTasks
    BY <1>9 DEF AtRest, SecondWalk
  <2>5. ASSUME call.pass = "verify"
        PROVE  ListedOnce \subseteq Present \ {Root} /\ p \notin ListedOnce
    <3>1. call.path \notin checked
      BY <1>1, <2>4, <2>5 DEF SecondTasks, InTurn
    <3>2. \A q \in checked : planned[q].children \subseteq Present \ {Root} /\ p \notin planned[q].children
      BY <1>5, <1>6, <2>2, <3>1
    <3>3. ASSUME NEW x \in ListedOnce
          PROVE  x \in call.seen \/ \E q \in checked : x \in planned[q].children
      <4>1. PICK U : U = UNION {planned[q].children : q \in checked}
        OBVIOUS
      <4>2. ListedOnce = U \cup InHand("verify")
        BY <4>1 DEF ListedOnce
      <4>3. x \in U => \E q \in checked : x \in planned[q].children
        BY <4>1
      <4>4. QED
        BY <2>3, <3>3, <4>2, <4>3
    <3>4. QED
      BY <1>4, <3>2, <3>3
  <2>6. ASSUME call.pass = "recheck"
        PROVE  ListedAgain \subseteq Present \ {Root} /\ p \notin ListedAgain
    <3>1. Pending(call.path)
      BY <1>1, <2>6 DEF Pending
    <3>2. \A q \in checked : planned[q].children \subseteq Present \ {Root}
      BY <1>5, <2>2
    <3>3. \A q \in checked : p \in planned[q].children => Pending(q)
      BY <1>6, <2>2, <3>1
    <3>4. ASSUME NEW x \in ListedAgain
          PROVE  x \in call.seen \/ \E q \in checked : ~Pending(q) /\ x \in planned[q].children
      <4>1. PICK U : U = UNION {planned[q].children : q \in {q \in checked : ~Pending(q)}}
        OBVIOUS
      <4>2. ListedAgain = U \cup InHand("recheck")
        BY <4>1 DEF ListedAgain
      <4>3. x \in U => \E q \in checked : ~Pending(q) /\ x \in planned[q].children
        BY <4>1
      <4>4. QED
        BY <2>3, <3>4, <4>2, <4>3
    <3>5. QED
      BY <1>4, <3>2, <3>3, <3>4
  <2>7. QED
    BY <1>2, <2>1, <2>5, <2>6
<1>10. QED
  BY <1>2, <1>3, <1>8, <1>9

\* Of a tree within the limits every name is counted.
LEMMA NameFits ==
  ASSUME IInv, AtRest, PlanBooks, call.at = "readdir", NEW p \in Children(call.path), p \notin call.seen,
         Admissible
  PROVE  IF call.pass = "recheck" THEN rechecked + 1 <= MaxEntries ELSE discovered + 1 <= MaxEntries
<1>1. Active /\ call.at \in Listed /\ call.at \notin Unwinding \cup Reading \cup {"scan"}
  BY DEF Active, Listed, Unwinding, Reading
<1>2. /\ phase \in {"plan", "verify"} /\ (phase = "plan" => call.pass = "plan")
      /\ phase = "verify" => call.pass \in {"verify", "recheck"}
  BY <1>1, ActiveFacts
<1>3. Node(Root).kind = "directory" /\ Present \in SUBSET Paths
  BY NameIsNew, TreeIs
<1>4. ASSUME NEW S, p \notin S, S \cup {p} \subseteq Present \ {Root}
      PROVE  Cardinality(S) + 1 <= MaxEntries
  <2>1. S \cup {p} \in SUBSET Present /\ Root \notin S \cup {p} /\ S \in SUBSET Present /\ Root \notin S
    BY <1>4
  <2>2. Cardinality(S \cup {p}) <= MaxEntries
    BY <1>3, <2>1, WithinLimits
  <2>3. IsFiniteSet(S) /\ Cardinality(S) \in Nat
    BY <1>3, <2>1, WithinLimits
  <2>4. Cardinality(S \cup {p}) = Cardinality(S) + 1
    BY <1>4, <2>3, FS_AddElement
  <2>5. QED
    BY <2>2, <2>4
<1>5. CASE phase = "plan"
  <2>1. discovered = Cardinality(Counted) /\ p \notin Counted /\ Counted \cup {p} \subseteq Present \ {Root}
    BY <1>1, <1>5, NameIsNew DEF PlanBooks, Counts
  <2>2. Cardinality(Counted) + 1 <= MaxEntries
    BY <1>4, <2>1
  <2>3. QED
    BY <1>2, <1>5, <2>1, <2>2
<1>6. CASE phase = "verify"
  <2>1. RootKind = "directory" /\ SecondCounts
    BY <1>6, NameIsNew DEF AtRest, SecondWalk
  <2>2. discovered = Cardinality(ListedOnce) /\ rechecked = Cardinality(ListedAgain)
    BY <1>1, <2>1 DEF SecondCounts
  <2>3. call.pass = "verify" => Cardinality(ListedOnce) + 1 <= MaxEntries
    BY <1>4, <1>6, NameIsNew
  <2>4. call.pass = "recheck" => Cardinality(ListedAgain) + 1 <= MaxEntries
    BY <1>4, <1>6, NameIsNew
  <2>5. QED
    BY <1>2, <1>6, <2>2, <2>3, <2>4
<1>7. QED
  BY <1>2, <1>5, <1>6

\* A name that is read is there, and exceeds a limit only if the tree does.
LEMMA RestsReadName == IInv /\ PlanBooks /\ AtRest /\ ReadName => AtRest'
<1> SUFFICES ASSUME IInv, PlanBooks, AtRest, ReadName PROVE AtRest'
  OBVIOUS
<1>1. Active /\ call.at = "readdir" /\ call.at \in Listed /\ call \in CallState /\ call.path \in Paths
  <2>1. Active /\ call.at = "readdir"
    BY DEF ReadName, Active
  <2>2. QED
    BY <2>1, ActiveFacts DEF Listed
<1>2. /\ names[call.path] # None /\ Node(call.path).kind = "directory" /\ ~signal
      /\ call.rev # None => call.rev = Fingerprint(names[call.path])
      /\ call.handle = names[call.path] /\ call.due = Children(call.path)
      /\ call.seen \subseteq Children(call.path)
  BY <1>1 DEF AtRest, Sees, Quiet, Listed, Unwinding
<1>3. CASE \E v : Throw(v)
  <2>1. call'.seen = call.seen \/ phase' = "failed"
    BY <1>1, <1>3 DEF Throw, CallState
  <2>2. PICK p \in Children(call.path) :
          /\ p \notin call.seen
          /\ IF (IF call.pass = "recheck" THEN rechecked ELSE discovered) + 1 > MaxEntries
             THEN Throw("limit")
             ELSE UNCHANGED phase /\ call' = [call EXCEPT !.seen = call.seen \cup {p}]
    BY <1>2 DEF ReadName, GoOn
  <2>3. /\ Throw("limit")
        /\ (IF call.pass = "recheck" THEN rechecked ELSE discovered) + 1 > MaxEntries
    <3>1. phase # "failed"
      BY <1>1, ActiveFacts
    <3>2. [call EXCEPT !.seen = call.seen \cup {p}].seen # call.seen
      BY <1>1, <2>2 DEF CallState
    <3>3. QED
      BY <2>1, <2>2, <3>1, <3>2
  <2>4. ~Admissible
    <3>1. discovered \in Nat /\ rechecked \in Nat
      BY DEF PlanBooks, Counts
    <3>2. QED
      BY <1>1, <2>2, <2>3, <3>1, NameFits, LimitsAssumption
  <2>5. QED
    BY <1>1, <2>3, <2>4, RestingThrow DEF Excused
<1>4. CASE ~\E v : Throw(v)
  <2>1. /\ UNCHANGED <<phase, signal, verdict>> /\ UNCHANGED host
        /\ UNCHANGED <<todo, planned, total, sent, checked, began>>
        /\ IF call.pass = "recheck"
           THEN discovered' = discovered /\ rechecked' = rechecked + 1
           ELSE discovered' = discovered + 1 /\ rechecked' = rechecked
    BY <1>4, NameIsRead
  <2>2. PICK p \in Children(call.path) :
          p \notin call.seen /\ call' = [call EXCEPT !.seen = call.seen \cup {p}]
    BY <1>2, <1>4, NameIsRead
  <2>3. PICK r : r = [call EXCEPT !.seen = call.seen \cup {p}]
    OBVIOUS
  <2>4. /\ r.at = "readdir" /\ r.path = call.path /\ r.pass = call.pass /\ r.rev = call.rev
        /\ r.seen = call.seen \cup {p} /\ r.due = call.due /\ r.handle = call.handle
        /\ r.guard = call.guard
    BY <1>1, <2>3 DEF CallState
  <2>5. GuardIs(r)
    BY <2>4 DEF AtRest, GuardIs
  <2>6. Sees(r)
    BY <1>1, <1>2, <2>2, <2>4 DEF Sees, Listed, Reading
  <2>7. ASSUME phase = "verify", SecondCounts
        PROVE  SecondCounts'
    <3>1. /\ discovered = Cardinality(ListedOnce) /\ rechecked = Cardinality(ListedAgain)
          /\ total = SumOf([q \in checked |-> Len(planned[q].data)])
      BY <1>1, <2>2, <2>7, NameIsNew DEF SecondCounts, Unwinding
    <3>2. Active' /\ call'.path = call.path /\ call'.pass = call.pass /\ call'.at = "readdir"
      BY <2>2, <2>3, <2>4 DEF Active
    <3>3. call.pass \in {"verify", "recheck"}
      BY <1>1, <2>7, ActiveFacts
    <3>4. \A q : Pending(q)' = Pending(q)
      BY <1>1, <2>1, <3>2 DEF Pending, Ahead, Elements, Task
    <3>5. /\ InHand("verify")' = InHand("verify") \cup (IF call.pass = "verify" THEN {p} ELSE {})
          /\ InHand("recheck")' = InHand("recheck") \cup (IF call.pass = "recheck" THEN {p} ELSE {})
      BY <1>1, <2>2, <2>3, <2>4, <3>2 DEF InHand
    <3>6. ListedOnce' = ListedOnce \cup (IF call.pass = "verify" THEN {p} ELSE {})
      <4>1. PICK U : U = UNION {planned[q].children : q \in checked}
        OBVIOUS
      <4>2. ListedOnce = U \cup InHand("verify") /\ ListedOnce' = U \cup InHand("verify")'
        BY <2>1, <4>1 DEF ListedOnce
      <4>3. QED
        BY <3>5, <4>2
    <3>7. ListedAgain' = ListedAgain \cup (IF call.pass = "recheck" THEN {p} ELSE {})
      <4>1. PICK U : U = UNION {planned[q].children : q \in {q \in checked : ~Pending(q)}}
        OBVIOUS
      <4>2. U = UNION {planned'[q].children : q \in {q \in checked' : ~Pending(q)'}}
        BY <2>1, <3>4, <4>1
      <4>3. ListedAgain = U \cup InHand("recheck") /\ ListedAgain' = U \cup InHand("recheck")'
        BY <4>1, <4>2 DEF ListedAgain
      <4>4. QED
        BY <3>5, <4>3
    <3>8. ASSUME NEW S, p \notin S, S \cup {p} \subseteq Present \ {Root}
          PROVE  Cardinality(S \cup {p}) = Cardinality(S) + 1
      <4>1. Present \in SUBSET Paths /\ S \in SUBSET Present
        BY <3>8, TreeIs
      <4>2. IsFiniteSet(S)
        BY <4>1, TreeIs, FS_Subset
      <4>3. QED
        BY <3>8, <4>2, FS_AddElement
    <3>9. discovered' = Cardinality(ListedOnce')
      <4>1. CASE call.pass = "verify"
        BY <1>1, <2>1, <2>2, <2>7, <3>1, <3>6, <3>8, <4>1, NameIsNew
      <4>2. CASE call.pass = "recheck"
        BY <2>1, <3>1, <3>6, <4>2
      <4>3. QED
        BY <3>3, <4>1, <4>2
    <3>10. rechecked' = Cardinality(ListedAgain')
      <4>1. CASE call.pass = "recheck"
        BY <1>1, <2>1, <2>2, <2>7, <3>1, <3>7, <3>8, <4>1, NameIsNew
      <4>2. CASE call.pass = "verify"
        BY <2>1, <3>1, <3>7, <4>2
      <4>3. QED
        BY <3>3, <4>1, <4>2
    <3>11. QED
      BY <2>1, <3>1, <3>9, <3>10 DEF SecondCounts
  <2>8. r.at \notin {"next"} \cup Unwinding /\ call.at \notin Unwinding
    BY <1>1, <2>4 DEF Unwinding
  <2>9. QED
    BY <1>1, <2>1, <2>2, <2>3, <2>4, <2>5, <2>6, <2>7, <2>8, RestingMoves
<1>5. QED
  BY <1>3, <1>4

\* The call goes on in a scan.
LEMMA ScanRests ==
  ASSUME IInv, AtRest, Active, call.at \in {"scan"} \cup Reading, NEW r \in CallState, GoOn(r),
         UNCHANGED <<todo, planned, total, checked>>, r.at \in Reading, r.path = call.path, r.pass = call.pass,
         GuardIs(r), names[r.path] # None, Node(r.path).kind = "file",
         r.rev # None => r.rev = Fingerprint(names[r.path]), ScanSees(r)
  PROVE  AtRest'
<1>1. Sees(r)
  BY DEF Sees, Listed, Reading
<1>2. r.at \notin {"next"} \cup Unwinding /\ call.at \notin Unwinding
  BY DEF Reading, Unwinding
<1>3. phase # "verify"
  BY ActiveFacts DEF Reading, Listed, Unwinding, Verifying
<1>4. QED
  BY <1>1, <1>2, <1>3, RestingMoves DEF GoOn

\* What a scan finds: the file, and what it has read of it.
LEMMA ScanFinds ==
  ASSUME IInv, AtRest, call.at \in {"scan"} \cup Reading
  PROVE  /\ Active /\ call \in CallState /\ call.path \in Paths /\ call.path \in Present
         /\ call.at \notin {"next"} \cup Unwinding \cup Listed
         /\ names[call.path] \in Inodes /\ names[call.path] # None /\ Node(call.path).kind = "file"
         /\ Node(call.path).data \in Seq(Units) /\ Len(Node(call.path).data) \in Nat
         /\ call.rev # None => call.rev = Fingerprint(names[call.path])
         /\ call.at \in Reading => ScanSees(call) /\ call.rev # None
         /\ ~signal /\ GuardHolds
         /\ phase = "plan" => call.pass = "plan"
         /\ phase = "stream" => call.pass = "stream"
         /\ phase \in {"plan", "stream"}
         /\ call.pass = "stream" =>
              call.path \in PlannedPaths /\ planned[call.path].data = Node(call.path).data
<1>1. Active /\ call.at \notin {"next"} \cup Unwinding \cup Listed
  BY DEF Active, Reading, Unwinding, Listed
<1>2. call \in CallState /\ call.path \in Paths
  BY <1>1, ActiveFacts
<1>3. /\ names[call.path] # None /\ Node(call.path).kind = "file"
      /\ call.rev # None => call.rev = Fingerprint(names[call.path])
      /\ call.at \in Reading => ScanSees(call)
  BY <1>1 DEF AtRest, Sees, Reading
<1>4. call.at \in Reading => call.rev # None
  BY HeldIs
<1>5. call.path \in Present /\ names[call.path] \in Inodes
  BY <1>2, <1>3 DEF Present, IInv, TypeOK
<1>6. ~signal /\ GuardHolds
  BY DEF AtRest, Quiet, GuardIs, GuardHolds
<1>7. /\ phase = "plan" => call.pass = "plan"
      /\ phase = "stream" => call.pass = "stream" /\ call.path \in PlannedFiles
      /\ phase \in {"plan", "stream"}
  BY <1>1, ActiveFacts DEF Reading, Listed, Unwinding, Verifying
<1>8. call.pass = "stream" =>
        call.path \in PlannedPaths /\ planned[call.path].data = Node(call.path).data
  BY <1>7 DEF PlannedFiles, AtRest, PlanIsTrue
<1>9. QED
  BY <1>1, <1>2, <1>3, <1>4, <1>5, <1>6, <1>7, <1>8, TreeIs

\* A file nobody touches opens as the file it was.
LEMMA RestsScan == IInv /\ AtRest /\ (Scan \/ OpenFile \/ Opened \/ Lstat) => AtRest'
<1> SUFFICES ASSUME IInv, AtRest, Scan \/ OpenFile \/ Opened \/ Lstat PROVE AtRest'
  OBVIOUS
<1>1. call.at \in {"scan"} \cup Reading
  BY DEF Scan, At, OpenFile, Opened, Lstat, Reading
<1>2. PICK rev : rev = Fingerprint(names[call.path])
  OBVIOUS
<1>3. rev \in Revisions
  BY <1>1, <1>2, ScanFinds, FingerprintIs DEF IInv
<1>4. CASE Scan
  <2>1. call.at = "scan" /\ call.bytes = <<>> /\ call.handle = None
    BY <1>4 DEF Scan, At, IInv, Shape, Listed, Unwinding, Reading
  <2>2. CASE Len(Node(call.path).data) > MaxFile
    <3>1. Throw("limit")
      BY <1>1, <1>4, <2>2, ScanFinds DEF Scan
    <3>2. ~Admissible
      BY <1>1, <2>2, ScanFinds, LimitsAssumption DEF Admissible
    <3>3. QED
      BY <1>1, <3>1, <3>2, ScanFinds, RestingThrow DEF Excused
  <2>3. CASE ~(Len(Node(call.path).data) > MaxFile)
    <3>1. PICK r : r = [call EXCEPT !.at = "open", !.rev = rev]
      OBVIOUS
    <3>2. GoOn(r) /\ UNCHANGED books /\ UNCHANGED history
      BY <1>1, <1>2, <1>4, <2>3, <3>1, ScanFinds DEF Scan
    <3>3. /\ r \in CallState /\ r.at = "open" /\ r.rev = rev /\ r.path = call.path
          /\ r.pass = call.pass /\ r.guard = call.guard /\ r.bytes = <<>>
      BY <1>1, <1>3, <2>1, <3>1, ScanFinds DEF CallState, Steps, Reading
    <3>4. Len(Node(call.path).data) <= MaxFile
      BY <1>1, <2>3, ScanFinds, LimitsAssumption
    <3>5. Starts(<<>>, Node(call.path).data)
      <4>1. Len(<<>>) = 0 /\ 1..0 = {}
        OBVIOUS
      <4>2. QED
        BY <1>1, <4>1, ScanFinds DEF Starts
    <3>6. ScanSees(r) /\ GuardIs(r)
      BY <3>3, <3>4, <3>5 DEF ScanSees, AtRest, GuardIs
    <3>7. QED
      BY <1>1, <1>2, <3>2, <3>3, <3>6, ScanFinds, ScanRests DEF Reading, books, history
  <2>4. QED
    BY <2>2, <2>3
<1>5. CASE OpenFile \/ Opened \/ Lstat
  <2>1. call.at \in {"open", "opened", "lstat"} /\ call.at \in Reading
    BY <1>5 DEF OpenFile, Opened, Lstat, At, Reading
  <2>2. PICK at \in {"opened", "lstat", "before"}, handle \in {call.handle, names[call.path]} :
          /\ GoOn([call EXCEPT !.at = at, !.handle = handle])
          /\ UNCHANGED books /\ UNCHANGED history
          /\ call.at = "open" => handle = names[call.path]
    <3>1. CASE OpenFile
      BY <1>1, <3>1, ScanFinds DEF OpenFile
    <3>2. CASE Opened
      <4>1. /\ GoOn([call EXCEPT !.at = "lstat"]) /\ UNCHANGED books /\ UNCHANGED history
            /\ call.at = "opened"
        BY <1>1, <3>2, ScanFinds DEF Opened
      <4>2. [call EXCEPT !.at = "lstat"] = [call EXCEPT !.at = "lstat", !.handle = call.handle]
        BY <1>1, ScanFinds DEF CallState
      <4>3. QED
        BY <4>1, <4>2
    <3>3. CASE Lstat
      <4>1. /\ GoOn([call EXCEPT !.at = "before"]) /\ UNCHANGED books /\ UNCHANGED history
            /\ call.at = "lstat"
        BY <3>3 DEF Lstat, At
      <4>2. [call EXCEPT !.at = "before"] = [call EXCEPT !.at = "before", !.handle = call.handle]
        BY <1>1, ScanFinds DEF CallState
      <4>3. QED
        BY <4>1, <4>2
    <3>4. QED
      BY <1>5, <3>1, <3>2, <3>3
  <2>3. PICK r : r = [call EXCEPT !.at = at, !.handle = handle]
    OBVIOUS
  <2>4. handle = names[call.path] /\ handle \in Inodes
    BY <1>1, <2>1, <2>2, ScanFinds DEF ScanSees
  <2>5. /\ r \in CallState /\ r.at = at /\ r.rev = call.rev /\ r.path = call.path
        /\ r.pass = call.pass /\ r.guard = call.guard /\ r.bytes = call.bytes /\ r.handle = handle
    BY <1>1, <2>3, <2>4, ScanFinds DEF CallState, Steps, Reading
  <2>6. ScanSees(r) /\ GuardIs(r)
    BY <1>1, <2>1, <2>2, <2>4, <2>5, ScanFinds DEF ScanSees, AtRest, GuardIs
  <2>7. r.at \in Reading
    BY <2>2, <2>5 DEF Reading
  <2>8. QED
    BY <1>1, <2>2, <2>3, <2>5, <2>6, <2>7, ScanFinds, ScanRests DEF books, history
<1>6. QED
  BY <1>4, <1>5

\* What is read is what the file holds.
LEMMA RestsRead == IInv /\ AtRest /\ (Before \/ Read \/ After) => AtRest'
<1> SUFFICES ASSUME IInv, AtRest, Before \/ Read \/ After PROVE AtRest'
  OBVIOUS
<1>1. call.at \in {"before", "read", "after"} /\ call.at \in Reading
  BY DEF Before, Read, After, Fstat, Reading
<1>2. /\ call.handle = names[call.path] /\ call.rev = Fingerprint(call.handle)
      /\ call \in CallState /\ ScanSees(call)
  BY <1>1, ScanFinds DEF ScanSees
<1>3. PICK data : data = Node(call.path).data
  OBVIOUS
<1>4. data \in Seq(Units) /\ inode[call.handle].data = data
  BY <1>1, <1>2, <1>3, ScanFinds DEF Node
<1>5. PICK at \in {"read", "after", "again"}, piece \in Seq(Units) :
        /\ GoOn([call EXCEPT !.at = at, !.piece = piece])
        /\ UNCHANGED books /\ UNCHANGED history
        /\ at # "read" => piece = IF Len(call.bytes) + 1 \in DOMAIN data
                                  THEN <<data[Len(call.bytes) + 1]>> ELSE <<>>
  <2>1. CASE Before
    <3>1. /\ GoOn([call EXCEPT !.at = "read"]) /\ UNCHANGED books /\ UNCHANGED history
      BY <1>2, <2>1 DEF Before, Fstat, Step
    <3>2. [call EXCEPT !.at = "read"] = [call EXCEPT !.at = "read", !.piece = call.piece]
      BY <1>2 DEF CallState
    <3>3. call.piece \in Seq(Units)
      BY <1>2 DEF CallState
    <3>4. QED
      BY <3>1, <3>2, <3>3
  <2>2. CASE Read
    <3>1. PICK piece : piece = IF Len(call.bytes) + 1 \in DOMAIN data
                               THEN <<data[Len(call.bytes) + 1]>> ELSE <<>>
      OBVIOUS
    <3>2. piece \in Seq(Units)
      <4>1. Len(call.bytes) + 1 \in DOMAIN data => data[Len(call.bytes) + 1] \in Units
        BY <1>4
      <4>2. QED
        BY <3>1, <4>1
    <3>3. /\ GoOn([call EXCEPT !.at = "after", !.piece = piece]) /\ UNCHANGED books
          /\ UNCHANGED history
      BY <1>4, <2>2, <3>1 DEF Read
    <3>4. QED
      BY <3>1, <3>2, <3>3
  <2>3. CASE After
    <3>1. /\ GoOn([call EXCEPT !.at = "again"]) /\ UNCHANGED books /\ UNCHANGED history
          /\ call.at = "after"
      BY <1>2, <2>3 DEF After, Fstat, Step
    <3>2. [call EXCEPT !.at = "again"] = [call EXCEPT !.at = "again", !.piece = call.piece]
      BY <1>2 DEF CallState
    <3>3. call.piece \in Seq(Units)
      BY <1>2 DEF CallState
    <3>4. call.piece = IF Len(call.bytes) + 1 \in DOMAIN data
                       THEN <<data[Len(call.bytes) + 1]>> ELSE <<>>
      BY <1>2, <1>3, <3>1 DEF ScanSees
    <3>5. QED
      BY <3>1, <3>2, <3>3, <3>4
  <2>4. QED
    BY <2>1, <2>2, <2>3
<1>6. PICK r : r = [call EXCEPT !.at = at, !.piece = piece]
  OBVIOUS
<1>7. /\ r \in CallState /\ r.at = at /\ r.rev = call.rev /\ r.path = call.path
      /\ r.pass = call.pass /\ r.guard = call.guard /\ r.bytes = call.bytes
      /\ r.handle = call.handle /\ r.piece = piece
  BY <1>2, <1>5, <1>6 DEF CallState, Steps, Reading
<1>8. ScanSees(r) /\ GuardIs(r)
  BY <1>2, <1>3, <1>5, <1>7 DEF ScanSees, AtRest, GuardIs
<1>9. r.at \in Reading
  BY <1>5, <1>7 DEF Reading
<1>10. QED
  BY <1>1, <1>5, <1>6, <1>7, <1>8, <1>9, ScanFinds, ScanRests DEF books, history

\* The second look at a file finds what the first one found.
LEMMA RestsAgain == IInv /\ AtRest /\ (Again \/ EndOfFile) => AtRest'
<1> SUFFICES ASSUME IInv, AtRest, Again \/ EndOfFile PROVE AtRest'
  OBVIOUS
<1>1. call.at = "again" /\ call.at \in Reading /\ At("again")
  BY DEF Again, EndOfFile, At, Reading
<1>2. PICK data, n : data = Node(call.path).data /\ n = Len(call.bytes) + 1
  OBVIOUS
<1>3. /\ call \in CallState /\ call.bytes \in Seq(Units) /\ data \in Seq(Units)
      /\ Len(call.bytes) \in Nat /\ Len(data) \in Nat /\ DOMAIN data = 1..Len(data)
      /\ Starts(call.bytes, data) /\ Len(call.bytes) <= Len(data) /\ Len(data) <= MaxFile
      /\ call.piece = (IF n \in DOMAIN data THEN <<data[n]>> ELSE <<>>)
  BY <1>1, <1>2, ScanFinds DEF ScanSees, Starts, CallState
<1>4. CASE Again
  <2>1. call.piece # <<>> /\ n \in DOMAIN data /\ call.piece = <<data[n]>>
    BY <1>3, <1>4 DEF Again
  <2>2. PICK bytes : bytes = call.bytes \o call.piece
    OBVIOUS
  <2>3. bytes \in Seq(Units) /\ Starts(bytes, data)
    BY <1>2, <1>3, <2>1, <2>2, StartsWithMore DEF CallState
  <2>4. Len(bytes) <= Len(data) /\ Len(bytes) \in Nat /\ ~(Len(bytes) > MaxFile) /\ ~(Len(bytes) > Len(data))
    BY <1>3, <2>3, LimitsAssumption DEF Starts
  <2>5. PICK guard : guard = [q \in Components(call.path) |-> names[q]]
    OBVIOUS
  <2>6. PICK r : r = [call EXCEPT !.at = "lstat", !.bytes = bytes, !.piece = <<>>, !.guard = guard]
    OBVIOUS
  <2>7. /\ GoOn(r) /\ UNCHANGED <<todo, planned, total>> /\ UNCHANGED history
    <3>1. call.pass = "stream" => planned[call.path].data = data
      BY <1>1, <1>2, ScanFinds
    <3>2. QED
      BY <1>4, <2>2, <2>4, <2>5, <2>6, <3>1 DEF Again
  <2>8. guard \in Guards /\ \A q \in DOMAIN guard : names[q] = guard[q]
    <3>1. call.path \in Paths /\ Components(call.path) \subseteq Paths
      BY <1>1, ScanFinds, PathParts
    <3>2. guard \in [Components(call.path) -> Inodes \cup {None}]
      BY <2>5, <3>1 DEF IInv, TypeOK
    <3>3. QED
      BY <2>5, <3>1, <3>2 DEF Guards
  <2>9. /\ r \in CallState /\ r.at = "lstat" /\ r.rev = call.rev /\ r.path = call.path
        /\ r.pass = call.pass /\ r.guard = guard /\ r.bytes = bytes /\ r.handle = call.handle
    <3>1. "lstat" \in Steps /\ <<>> \in Seq(Units)
      BY DEF Steps, Reading
    <3>2. QED
      BY <1>3, <2>3, <2>6, <2>8, <3>1 DEF CallState
  <2>10. ScanSees(r) /\ GuardIs(r)
    BY <1>1, <1>2, <1>3, <2>3, <2>8, <2>9, ScanFinds DEF ScanSees, GuardIs
  <2>11. QED
    BY <1>1, <2>7, <2>9, <2>10, ScanFinds, ScanRests DEF Reading, history
<1>5. CASE EndOfFile
  <2>1. n \notin DOMAIN data
    <3>1. call.piece = <<>>
      BY <1>5 DEF EndOfFile
    <3>2. <<data[n]>> # <<>>
      <4>1. Len(<<data[n]>>) = 1 /\ Len(<<>>) = 0
        OBVIOUS
      <4>2. QED
        BY <4>1
    <3>3. QED
      BY <1>3, <3>1, <3>2
  <2>2. Len(call.bytes) = Len(data)
    BY <1>2, <1>3, <2>1
  <2>3. call.bytes = data
    BY <1>3, <2>2, StartsWithAll
  <2>4. call.rev.size = Len(data) /\ (call.pass = "stream" => call.bytes = planned[call.path].data)
    <3>1. call.rev = Fingerprint(names[call.path])
      BY <1>1, ScanFinds
    <3>2. Fingerprint(names[call.path]).size = Len(data)
      BY <1>2 DEF Fingerprint, Node
    <3>3. QED
      BY <1>1, <1>2, <2>3, <3>1, <3>2, ScanFinds
  <2>5. PICK r : r = [call EXCEPT !.at = "close"]
    OBVIOUS
  <2>6. GoOn(r) /\ UNCHANGED books /\ UNCHANGED history
    BY <1>5, <2>2, <2>4, <2>5 DEF EndOfFile, Step
  <2>7. /\ r \in CallState /\ r.at = "close" /\ r.rev = call.rev /\ r.path = call.path
        /\ r.pass = call.pass /\ r.guard = call.guard /\ r.bytes = call.bytes
        /\ r.handle = call.handle
    BY <1>3, <2>5 DEF CallState, Steps, Reading
  <2>8. ScanSees(r) /\ GuardIs(r)
    BY <1>1, <1>2, <2>3, <2>7, ScanFinds DEF ScanSees, AtRest, GuardIs
  <2>9. QED
    BY <1>1, <2>6, <2>7, <2>8, ScanFinds, ScanRests DEF Reading, books, history
<1>6. QED
  BY <1>4, <1>5

\* What was seen is planned as it is.
LEMMA PlannedRests ==
  ASSUME IInv, AtRest, UNCHANGED host, UNCHANGED <<signal, verdict, phase>>, phase = "plan", Active,
         call.at \notin Unwinding, call' = Rest, NEW p \in Paths, NEW e \in Plans,
         planned' = [planned EXCEPT ![p] = e], names[p] # None, e.rev = Fingerprint(names[p]),
         e.kind = Node(p).kind, e.data = Node(p).data,
         e.children = IF Node(p).kind = "directory" THEN Children(p) ELSE {}
  PROVE  AtRest'
<1>1. /\ planned'[p] = e /\ \A q \in Paths \ {p} : planned'[q] = planned[q]
  BY DEF IInv, TypeOK
<1>2. \A q \in Paths : /\ names'[q] = names[q] /\ Node(q)' = Node(q) /\ Children(q)' = Children(q)
                       /\ Fingerprint(names[q])' = Fingerprint(names[q])
  BY HostStays DEF host
<1>3. PlanIsTrue'
  BY <1>1, <1>2 DEF AtRest, PlanIsTrue, PlannedPaths
<1>4. GuardIs(call)' /\ Sees(call)'
  <2>1. \A k : k = Rest => GuardIs(k)' /\ Sees(k)'
    BY RestSees, HostRests
  <2>2. QED
    BY <2>1
<1>5. Verdicts'
  BY RestIs DEF AtRest, Verdicts, Unwinding
<1>6. QED
  BY <1>3, <1>4, <1>5, HostRests DEF AtRest, SecondWalk

\* What is planned of a file, or sent of it, is the file.
LEMMA RestsCloseFile == IInv /\ PlanBooks /\ AtRest /\ CloseFile => AtRest'
<1> SUFFICES ASSUME IInv, PlanBooks, AtRest, CloseFile PROVE AtRest'
  OBVIOUS
<1>1. PICK p : p = call.path
  OBVIOUS
<1>2. call.at = "close" /\ call.at \in Reading /\ call.at \notin Unwinding
  BY DEF CloseFile, Reading, Unwinding
<1>3. /\ Active /\ p \in Paths /\ p \in Present /\ names[p] # None /\ Node(p).kind = "file"
      /\ call.bytes = Node(p).data /\ call.rev = Fingerprint(names[p])
      /\ call.bytes \in Seq(Units) /\ Len(call.bytes) \in Nat
  BY <1>1, <1>2, ScanFinds DEF ScanSees
<1>4. CASE call.pass = "stream"
  <2>1. UNCHANGED <<phase, signal, verdict, planned>> /\ UNCHANGED host /\ call' = Rest /\ phase # "verify"
    BY <1>2, <1>4, ScanFinds DEF CloseFile, GoOn, books
  <2>2. GuardIs(call)' /\ Sees(call)'
    <3>1. \A k : k = Rest => GuardIs(k)' /\ Sees(k)'
      BY <2>1, RestSees, HostRests
    <3>2. QED
      BY <2>1, <3>1
  <2>3. Verdicts'
    BY <1>2, <2>1, RestIs, ScanFinds DEF AtRest, Verdicts, Unwinding
  <2>4. QED
    BY <2>1, <2>2, <2>3, HostRests DEF AtRest, SecondWalk
<1>5. CASE call.pass # "stream" /\ phase' = "failed"
  <2>1. phase = "plan"
    BY <1>2, <1>5, ScanFinds
  <2>2. /\ total + Len(call.bytes) > MaxTotal /\ verdict' = "limit" /\ call' = Rest
        /\ UNCHANGED host /\ UNCHANGED <<signal, planned>>
    BY <1>5, <2>1 DEF CloseFile, GoOn, books
  <2>3. ~Admissible
    <3> SUFFICES ASSUME Admissible PROVE FALSE
      OBVIOUS
    <3>1. total = SumOf([q \in PlannedPaths |-> Len(planned[q].data)]) /\ total \in Nat
      BY <2>1 DEF PlanBooks, Counts, PlannedBytes
    <3>2. p \notin PlannedPaths
      BY <1>1, <1>3, <2>1 DEF IInv, PlanWalk, Fresh, PlannedPaths
    <3>3. total + Len(call.bytes) <= MaxTotal
      BY <1>3, <3>1, <3>2, PlannedWithin DEF AtRest
    <3>4. QED
      BY <1>3, <2>2, <3>1, <3>3, LimitsAssumption
  <2>4. Excused(verdict')
    BY <2>2, <2>3 DEF Excused
  <2>5. QED
    BY <1>5, <2>2, <2>4, RestingDropped
<1>6. CASE call.pass # "stream" /\ phase' # "failed"
  <2>1. PICK e : e = [rev |-> call.rev, kind |-> "file", data |-> call.bytes, children |-> {}]
    OBVIOUS
  <2>2. /\ UNCHANGED <<phase, signal, verdict>> /\ UNCHANGED host /\ call' = Rest
        /\ planned' = [planned EXCEPT ![p] = e] /\ phase = "plan"
    BY <1>1, <1>2, <1>6, <2>1, ScanFinds DEF CloseFile, GoOn
  <2>3. e \in Plans
    <3>1. call.rev \in Revisions
      BY <1>2, HeldIs
    <3>2. QED
      BY <1>3, <2>1, <3>1 DEF Plans
  <2>4. /\ e.rev = Fingerprint(names[p]) /\ e.kind = Node(p).kind /\ e.data = Node(p).data
        /\ e.children = IF Node(p).kind = "directory" THEN Children(p) ELSE {}
    BY <1>3, <2>1
  <2>5. QED
    BY <1>2, <1>3, <2>2, <2>3, <2>4, PlannedRests
<1>7. QED
  BY <1>4, <1>5, <1>6

\* What is planned of a directory is the directory.
LEMMA RestsRelist == IInv /\ AtRest /\ Relist => AtRest'
<1> SUFFICES ASSUME IInv, AtRest, Relist PROVE AtRest'
  OBVIOUS
<1>1. PICK p : p = call.path
  OBVIOUS
<1>2. /\ Active /\ call.at = "relist" /\ call.at \in Listed
      /\ call.at \notin {"next", "verifyDirectory"} \cup Unwinding /\ call \in CallState /\ p \in Paths
  <2>1. call.at = "relist" /\ Active
    BY DEF Relist, At, Active
  <2>2. QED
    BY <1>1, <2>1, ActiveFacts DEF Listed, Unwinding
<1>3. /\ names[p] # None /\ Node(p).kind = "directory" /\ call.seen = Children(p)
      /\ call.rev # None /\ call.rev = Fingerprint(names[p]) /\ call.rev \in Revisions
  BY <1>1, <1>2, HeldIs DEF AtRest, Sees
<1>4. CASE call.pass = "plan"
  <2>1. PICK e : e = [rev |-> call.rev, kind |-> "directory", data |-> <<>>, children |-> call.seen]
    OBVIOUS
  <2>2. /\ UNCHANGED <<phase, signal, verdict>> /\ UNCHANGED host /\ call' = Rest
        /\ planned' = [planned EXCEPT ![p] = e] /\ phase = "plan"
    BY <1>1, <1>2, <1>4, <2>1, ActiveFacts DEF Relist, GoOn
  <2>3. e \in Plans
    <3>1. call.seen \subseteq Paths
      BY <1>2 DEF CallState
    <3>2. QED
      BY <1>3, <2>1, <3>1 DEF Plans
  <2>4. Node(p).data = <<>>
    BY <1>2, <1>3, TreeIs DEF Present
  <2>5. /\ e.rev = Fingerprint(names[p]) /\ e.kind = Node(p).kind /\ e.data = Node(p).data
        /\ e.children = IF Node(p).kind = "directory" THEN Children(p) ELSE {}
    BY <1>3, <2>1, <2>4
  <2>6. QED
    BY <1>2, <1>3, <2>2, <2>3, <2>5, PlannedRests
<1>5. CASE call.pass # "plan"
  <2>1. phase = "verify" /\ p \in PlannedPaths
    BY <1>1, <1>2, <1>5, ActiveFacts DEF Reading, Listed, Unwinding
  <2>2. planned[p].children = call.seen /\ planned[p].rev = Fingerprint(names[p])
    BY <1>3, <2>1 DEF AtRest, PlanIsTrue
  <2>3. PICK rev : rev = planned[p].rev
    OBVIOUS
  <2>4. PICK r : r = Call("verifyDirectory", p, call.pass, rev)
    OBVIOUS
  <2>5. r.at = "verifyDirectory" /\ r.path = p /\ r.pass = call.pass /\ r.rev = rev /\ GuardIs(r)
    BY <2>4, CallIs, GuardOfCall
  <2>6. GoOn(r) /\ UNCHANGED books /\ UNCHANGED history
    BY <1>1, <1>5, <2>2, <2>3, <2>4 DEF Relist
  <2>7. Sees(r)
    BY <1>3, <2>2, <2>3, <2>5 DEF Sees, Listed, Reading
  <2>8. r.at \notin {"next"} \cup Unwinding
    BY <2>5 DEF Unwinding
  <2>9. SecondCounts => SecondCounts'
    BY <1>1, <1>2, <2>2, <2>5, <2>6, <2>8, CountsStay DEF GoOn, books, history
  <2>10. QED
    BY <1>1, <1>2, <2>5, <2>6, <2>7, <2>8, <2>9, RestingMoves DEF GoOn, books, history
<1>6. QED
  BY <1>4, <1>5

\* What has been listed is in hand, or was compared.
LEMMA ListedAre ==
  /\ \A x : x \in ListedOnce <=> x \in InHand("verify") \/ \E q \in checked : x \in planned[q].children
  /\ \A x : x \in ListedAgain <=>
       x \in InHand("recheck") \/ \E q \in checked : ~Pending(q) /\ x \in planned[q].children
  /\ \A x : x \in ListedOnce' <=>
       x \in InHand("verify")' \/ \E q \in checked' : x \in planned'[q].children
  /\ \A x : x \in ListedAgain' <=>
       x \in InHand("recheck")' \/ \E q \in checked' : ~Pending(q)' /\ x \in planned'[q].children
<1>1. PICK U : U = UNION {planned[q].children : q \in checked}
  OBVIOUS
<1>2. PICK V : V = UNION {planned[q].children : q \in {q \in checked : ~Pending(q)}}
  OBVIOUS
<1>3. PICK W : W = UNION {planned'[q].children : q \in checked'}
  OBVIOUS
<1>4. PICK X : X = UNION {planned'[q].children : q \in {q \in checked' : ~Pending(q)'}}
  OBVIOUS
<1>5. ListedOnce = U \cup InHand("verify") /\ ListedAgain = V \cup InHand("recheck")
  BY <1>1, <1>2 DEF ListedOnce, ListedAgain
<1>6. ListedOnce' = W \cup InHand("verify")' /\ ListedAgain' = X \cup InHand("recheck")'
  BY <1>3, <1>4 DEF ListedOnce, ListedAgain
<1>7. \A x : x \in U <=> \E q \in checked : x \in planned[q].children
  BY <1>1
<1>8. \A x : x \in V <=> \E q \in checked : ~Pending(q) /\ x \in planned[q].children
  BY <1>2
<1>9. \A x : x \in W <=> \E q \in checked' : x \in planned'[q].children
  BY <1>3
<1>10. \A x : x \in X <=> \E q \in checked' : ~Pending(q)' /\ x \in planned'[q].children
  BY <1>4
<1>11. QED
  BY <1>5, <1>6, <1>7, <1>8, <1>9, <1>10

\* A call of the second walk has ended.
LEMMA SecondRests ==
  ASSUME AtRest, UNCHANGED host, UNCHANGED <<phase, signal, verdict, planned>>,
         phase # "failed", call.at \notin Unwinding, call' = Rest, SecondTasks' /\ SecondCounts'
  PROVE  AtRest'
<1>1. GuardIs(call)' /\ Sees(call)'
  <2>1. \A k : k = Rest => GuardIs(k)' /\ Sees(k)'
    BY RestSees, HostRests
  <2>2. QED
    BY <2>1
<1>2. Verdicts'
  BY RestIs DEF AtRest, Verdicts, Unwinding
<1>3. QED
  BY <1>1, <1>2, HostRests DEF AtRest, SecondWalk

\* The sizes of what was compared, with one more path.
LEMMA OneMoreChecked ==
  ASSUME IInv, checked \subseteq PlannedPaths, NEW p \in PlannedPaths, UNCHANGED planned,
         checked' = checked \cup {p}
  PROVE  /\ SumOf([q \in checked |-> Len(planned[q].data)]) \in Nat
         /\ SumOf([q \in checked |-> Len(planned[q].data)])'
              = SumOf([q \in checked |-> Len(planned[q].data)])
                + IF p \in checked THEN 0 ELSE Len(planned[p].data)
<1> DEFINE f == [q \in checked |-> Len(planned[q].data)]
           g == [q \in checked \cup {p} |-> Len(planned[q].data)]
<1>1. /\ \A q \in PlannedPaths : Len(planned[q].data) \in Nat
      /\ IsFiniteSet(checked) /\ IsFiniteSet(checked \cup {p})
  <2>1. IsFiniteSet(PlannedPaths) /\ \A q \in PlannedPaths : Len(planned[q].data) \in Nat
    BY PlannedTerms DEF IInv
  <2>2. QED
    BY <2>1, FS_Subset
<1>2. f \in [checked -> Nat] /\ g \in [checked \cup {p} -> Nat]
  BY <1>1
<1>3. SumOf([q \in checked |-> Len(planned[q].data)])' = SumOf(g)
  OBVIOUS
<1>4. DOMAIN f = checked /\ DOMAIN g = checked \cup {p} /\ (\A q \in checked : g[q] = f[q])
  OBVIOUS
<1>5. g[p] = Len(planned[p].data) /\ (p \in checked => g = f)
  <2>1. p \in checked => checked \cup {p} = checked
    OBVIOUS
  <2>2. QED
    BY <2>1
<1> HIDE DEF f, g
<1>6. Terms(f) /\ Terms(g)
  BY <1>1, <1>2, <1>4 DEF Terms
<1>7. SumOf(f) \in Nat
  BY <1>6, SumIs
<1>8. SumOf(g) = SumOf(f) + IF p \in checked THEN 0 ELSE Len(planned[p].data)
  <2>1. CASE p \in checked
    BY <1>5, <1>7, <2>1
  <2>2. CASE p \notin checked
    BY <1>4, <1>5, <1>6, <2>2, SumOfMore
  <2>3. QED
    BY <2>1, <2>2
<1>9. QED
  BY <1>3, <1>7, <1>8 DEF f

\* A planned directory compares equal to itself.
LEMMA RestsVerifyDirectory == IInv /\ PlanBooks /\ AtRest /\ VerifyDirectory => AtRest'
<1> SUFFICES ASSUME IInv, PlanBooks, AtRest, VerifyDirectory PROVE AtRest'
  OBVIOUS
<1>1. PICK p : p = call.path
  OBVIOUS
<1>2. /\ Active /\ call.at = "verifyDirectory" /\ call.at \notin Unwinding /\ p \in Paths
      /\ phase = "verify" /\ p \in PlannedPaths /\ call.pass \in {"verify", "recheck"}
      /\ names[p] # None /\ Node(p).kind = "directory"
  <2>1. call.at = "verifyDirectory" /\ Active
    BY DEF VerifyDirectory, At, Active
  <2>2. /\ call.at \in Verifying /\ call.at \notin Unwinding /\ call.at \notin {"scan"} \cup Reading
    BY <2>1 DEF Verifying, Unwinding, Reading
  <2>3. phase = "verify"
    BY <2>1, <2>2, ActiveFacts
  <2>4. names[p] # None /\ Node(p).kind = "directory"
    BY <1>1, <2>1, <2>2 DEF AtRest, Sees
  <2>5. QED
    BY <1>1, <2>1, <2>2, <2>3, <2>4, ActiveFacts
<1>3. PICK children : children = planned[p].children
  OBVIOUS
<1>4. /\ UNCHANGED <<phase, signal, verdict, planned, discovered, rechecked, total>> /\ UNCHANGED host
      /\ call' = Rest /\ checked' = checked \cup {p}
      /\ todo' = IF call.pass = "verify"
                 THEN Tasks("verify", children) \o <<Task("recheck", p)>> \o todo ELSE todo
  BY <1>1, <1>3 DEF VerifyDirectory, GoOn
<1>5. SecondTasks /\ SecondCounts /\ checked \subseteq PlannedPaths
  BY <1>2 DEF AtRest, SecondWalk, IInv, VerifyWalk
<1>6. children \subseteq Below(p) /\ children \in SUBSET Paths
  BY <1>2, <1>3 DEF IInv, Rooted, Below
<1>7. /\ call.pass = "verify" => /\ p \notin checked /\ (p # Root => Front(p) \in checked)
                                 /\ Task("verify", p) \notin Ahead
      /\ call.pass = "recheck" => p \in checked /\ Task("recheck", p) \notin Ahead
  BY <1>1, <1>2, <1>5 DEF SecondTasks, InTurn
<1>8. /\ Once(todo')
      /\ call.pass = "verify" =>
           Ahead' = {Task("verify", q) : q \in children} \cup {Task("recheck", p)} \cup Ahead
      /\ call.pass = "recheck" => Ahead' = Ahead
  <2>1. CASE call.pass = "recheck"
    BY <1>4, <1>5, <2>1 DEF SecondTasks, Once, Ahead, Elements
  <2>2. CASE call.pass = "verify"
    <3>1. PICK a, b : a = Tasks("verify", children) /\ b = <<Task("recheck", p)>>
      OBVIOUS
    <3>2. a \in Seq(TaskState) /\ Once(a) /\ Elements(a) = {Task("verify", q) : q \in children}
      BY <1>6, <3>1, TasksAre DEF Passes
    <3>3. Task("recheck", p) \in TaskState
      BY <1>2 DEF Task, TaskState, Passes
    <3>4. b \in Seq(TaskState) /\ Once(b) /\ Elements(b) = {Task("recheck", p)}
      <4>1. DOMAIN b = {1} /\ b[1] = Task("recheck", p)
        BY <3>1
      <4>2. b \in Seq(TaskState)
        BY <3>1, <3>3
      <4>3. QED
        BY <4>1, <4>2 DEF Once, Elements
    <3>5. Task("recheck", p) \notin Elements(a)
      BY <3>2 DEF Task
    <3>6. PICK ab : ab = a \o b
      OBVIOUS
    <3>7. Elements(a) \cap Elements(b) = {}
      BY <3>4, <3>5
    <3>8. /\ ab \in Seq(TaskState) /\ Elements(ab) = Elements(a) \cup Elements(b) /\ Once(ab)
      BY <3>2, <3>4, <3>6, <3>7, Joined
    <3>9. Task("recheck", p) \notin Ahead
      BY <1>2, <1>5, <1>7, <2>2 DEF SecondTasks
    <3>10. \A q \in children : Task("verify", q) \notin Ahead
      <4>1. \A q \in children : q \in Paths /\ q # Root /\ Front(q) = p
        BY <1>6 DEF Below
      <4>2. QED
        BY <1>5, <1>7, <2>2, <4>1 DEF SecondTasks, InTurn
    <3>11. Elements(ab) \cap Elements(todo) = {}
      BY <3>2, <3>4, <3>8, <3>9, <3>10 DEF Ahead
    <3>12. todo \in Seq(TaskState) /\ Once(todo)
      BY <1>5 DEF IInv, TypeOK, SecondTasks
    <3>13. todo' = ab \o todo
      BY <1>4, <2>2, <3>1, <3>6
    <3>14. Once(ab \o todo) /\ Elements(ab \o todo) = Elements(ab) \cup Elements(todo)
      BY <3>8, <3>11, <3>12, Joined
    <3>15. QED
      BY <2>2, <3>2, <3>4, <3>8, <3>13, <3>14 DEF Ahead
  <2>3. QED
    BY <1>2, <2>1, <2>2
<1>9. ~Active' /\ call.pass # "verify" => p \in checked /\ checked' = checked
  BY <1>2, <1>4, <1>7
<1>10. SecondTasks'
  <2>1. \A q \in checked' : q # Root => Front(q) \in checked'
    BY <1>2, <1>4, <1>5, <1>7 DEF SecondTasks
  <2>2. ASSUME NEW q \in Paths, Task("verify", q) \in Ahead'
        PROVE  q \notin checked' /\ (q # Root => Front(q) \in checked')
    <3>1. CASE Task("verify", q) \in Ahead
      <4>1. q \notin checked /\ (q # Root => Front(q) \in checked)
        BY <1>5, <3>1 DEF SecondTasks, InTurn
      <4>2. q # p
        BY <1>2, <1>7, <3>1, <4>1
      <4>3. QED
        BY <1>4, <4>1, <4>2
    <3>2. CASE call.pass = "verify" /\ q \in children
      <4>1. q # Root /\ Front(q) = p
        BY <1>6, <3>2 DEF Below
      <4>2. q # p
        BY <1>2, <4>1, FrontDiffers
      <4>3. q \notin checked
        BY <1>5, <1>7, <3>2, <4>1 DEF SecondTasks
      <4>4. QED
        BY <1>4, <4>1, <4>2, <4>3
    <3>3. QED
      BY <1>2, <1>8, <2>2, <3>1, <3>2 DEF Task
  <2>3. ASSUME NEW q \in Paths, Task("recheck", q) \in Ahead'
        PROVE  q \in checked' /\ Node(q)'.kind = "directory"
    <3>1. Task("recheck", q) \in Ahead \/ q = p
      BY <1>2, <1>8, <2>3 DEF Task
    <3>2. Node(q)' = Node(q)
      BY <1>4, HostRests
    <3>3. QED
      BY <1>2, <1>4, <1>5, <3>1, <3>2 DEF SecondTasks
  <2>4. ~Active'
    BY <1>4, RestIs DEF Active
  <2>5. QED
    BY <1>8, <2>1, <2>2, <2>3, <2>4 DEF SecondTasks, InTurn
<1>11. Len(planned[p].data) = 0
  <2>1. Node(p).data = <<>> /\ planned[p].data = Node(p).data
    BY <1>2, TreeIs DEF Present, AtRest, PlanIsTrue
  <2>2. QED
    BY <2>1
<1>12. total' = SumOf([q \in checked |-> Len(planned[q].data)])'
  <2>1. PICK sum : sum = SumOf([q \in checked |-> Len(planned[q].data)])
    OBVIOUS
  <2>2. /\ sum \in Nat
        /\ SumOf([q \in checked |-> Len(planned[q].data)])'
             = sum + IF p \in checked THEN 0 ELSE Len(planned[p].data)
    BY <1>2, <1>4, <1>5, <2>1, OneMoreChecked
  <2>3. SumOf([q \in checked |-> Len(planned[q].data)])' = sum
    BY <1>11, <2>2
  <2>4. total = sum
    BY <1>5, <2>1 DEF SecondCounts
  <2>5. QED
    BY <1>4, <2>3, <2>4
<1>13. /\ InHand("verify") = (IF call.pass = "verify" THEN children ELSE {})
       /\ InHand("recheck") = (IF call.pass = "recheck" THEN children ELSE {})
       /\ InHand("verify")' = {} /\ InHand("recheck")' = {}
  <2>1. ~Active'
    BY <1>4, RestIs DEF Active
  <2>2. QED
    BY <1>1, <1>2, <1>3, <2>1 DEF InHand
<1>14. ListedOnce' = ListedOnce
  <2>1. \A x : x \in ListedOnce' <=> \E q \in checked \cup {p} : x \in planned[q].children
    BY <1>4, <1>13, ListedAre
  <2>2. \A x : x \in ListedOnce <=>
          (call.pass = "verify" /\ x \in children) \/ \E q \in checked : x \in planned[q].children
    BY <1>13, ListedAre
  <2>3. \A x : x \in ListedOnce' <=> x \in ListedOnce
    BY <1>2, <1>3, <1>7, <2>1, <2>2
  <2>4. QED
    BY <2>3
<1>15. /\ Pending(p)' <=> call.pass = "verify"
       /\ call.pass = "recheck" => Pending(p)
       /\ \A q : q # p => (Pending(q)' <=> Pending(q))
  <2>1. ~Active'
    BY <1>4, RestIs DEF Active
  <2>2. \A q : Pending(q)' <=> Task("recheck", q) \in Ahead'
    BY <2>1 DEF Pending, Task
  <2>3. \A q : q # p => (Pending(q) <=> Task("recheck", q) \in Ahead)
    BY <1>1 DEF Pending
  <2>4. \A q : Task("recheck", q) \in Ahead' <=>
          Task("recheck", q) \in Ahead \/ (call.pass = "verify" /\ q = p)
    BY <1>2, <1>8 DEF Task
  <2>5. QED
    BY <1>1, <1>2, <1>7, <2>2, <2>3, <2>4 DEF Pending
<1>16. ListedAgain' = ListedAgain
  <2>1. \A x : x \in ListedAgain' <=>
          \E q \in checked \cup {p} : ~Pending(q)' /\ x \in planned[q].children
    BY <1>4, <1>13, ListedAre
  <2>2. \A x : x \in ListedAgain <=>
          (call.pass = "recheck" /\ x \in children)
          \/ \E q \in checked : ~Pending(q) /\ x \in planned[q].children
    BY <1>13, ListedAre
  <2>3. \A x : x \in ListedAgain' <=> x \in ListedAgain
    BY <1>2, <1>3, <1>7, <1>15, <2>1, <2>2
  <2>4. QED
    BY <2>3
<1>17. SecondCounts'
  <2>1. RootKind' = RootKind
    BY <1>4 DEF RootKind
  <2>2. QED
    BY <1>2, <1>4, <1>5, <1>12, <1>14, <1>16, <2>1 DEF SecondCounts
<1>18. QED
  BY <1>2, <1>4, <1>10, <1>17, SecondRests

\* A planned file compares equal to itself.
LEMMA RestsVerifyFile == IInv /\ PlanBooks /\ AtRest /\ VerifyFile => AtRest'
<1> SUFFICES ASSUME IInv, PlanBooks, AtRest, VerifyFile PROVE AtRest'
  OBVIOUS
<1>1. PICK p : p = call.path
  OBVIOUS
<1>2. /\ Active /\ call.at = "verifyFile" /\ call.at \notin Listed \cup Unwinding /\ p \in Paths
      /\ phase = "verify" /\ p \in PlannedPaths /\ call.pass \in {"verify", "recheck"}
      /\ names[p] # None /\ Node(p).kind = "file" /\ call \in CallState
  <2>1. call.at = "verifyFile" /\ Active
    BY DEF VerifyFile, At, Active
  <2>2. /\ call.at \in Verifying /\ call.at \notin Listed \cup Unwinding
        /\ call.at \notin {"scan"} \cup Reading
    BY <2>1 DEF Verifying, Unwinding, Reading, Listed
  <2>3. phase = "verify"
    BY <2>1, <2>2, ActiveFacts
  <2>4. names[p] # None /\ Node(p).kind = "file"
    BY <1>1, <2>1, <2>2 DEF AtRest, Sees
  <2>5. QED
    BY <1>1, <2>1, <2>2, <2>3, <2>4, ActiveFacts
<1>3. SecondTasks /\ SecondCounts /\ checked \subseteq PlannedPaths
  BY <1>2 DEF AtRest, SecondWalk, IInv, VerifyWalk
<1>4. call.pass = "verify" /\ p \notin checked /\ (p # Root => Front(p) \in checked)
      /\ Task("verify", p) \notin Ahead
  BY <1>1, <1>2, <1>3 DEF SecondTasks, InTurn
<1>5. /\ p \in Present /\ planned[p].children = {} /\ planned[p].data = Node(p).data
      /\ Len(Node(p).data) \in Nat
  BY <1>2, TreeIs DEF Present, AtRest, PlanIsTrue
<1>6. PICK sum : sum = SumOf([q \in checked |-> Len(planned[q].data)])
  OBVIOUS
<1>7. total = sum
  BY <1>3, <1>6 DEF SecondCounts
<1>8. CASE \E v : Throw(v)
  <2>1. /\ Throw("limit")
        /\ Len(Node(p).data) > MaxFile \/ total + Len(Node(p).data) > MaxTotal
    <3>1. PICK v : Throw(v)
      BY <1>8
    <3>2. phase' = "failed" \/ call'.at \in Unwinding
      BY <1>2, <3>1 DEF Throw, Unwinding, CallState
    <3>3. ~(UNCHANGED phase /\ call' = Rest)
      BY <1>2, <3>2, RestIs DEF Unwinding
    <3>4. QED
      BY <1>1, <3>3 DEF VerifyFile, GoOn
  <2>2. ~Admissible
    <3> SUFFICES ASSUME Admissible PROVE FALSE
      OBVIOUS
    <3>1. Len(Node(p).data) <= MaxFile
      BY <1>5 DEF Admissible
    <3>2. total + Len(Node(p).data) <= MaxTotal
      BY <1>3, <1>4, <1>5, <1>6, <1>7, PlannedWithin DEF AtRest
    <3>3. total \in Nat
      BY DEF PlanBooks, Counts
    <3>4. QED
      BY <1>5, <2>1, <3>1, <3>2, <3>3, LimitsAssumption
  <2>3. QED
    BY <1>2, <2>1, <2>2, RestingThrow DEF Excused
<1>9. CASE ~\E v : Throw(v)
  <2>1. /\ UNCHANGED <<phase, signal, verdict, planned, discovered, rechecked, todo>> /\ UNCHANGED host
        /\ call' = Rest /\ checked' = checked \cup {p} /\ total' = total + Len(Node(p).data)
    BY <1>1, <1>9 DEF VerifyFile, GoOn
  <2>2. ~Active' /\ Ahead' = Ahead
    BY <2>1, RestIs DEF Active, Ahead, Elements
  <2>3. SecondTasks'
    <3>1. \A q \in checked' : q # Root => Front(q) \in checked'
      BY <1>3, <1>4, <2>1 DEF SecondTasks
    <3>2. ASSUME NEW q \in Paths, Task("verify", q) \in Ahead'
          PROVE  q \notin checked' /\ (q # Root => Front(q) \in checked')
      <4>1. q \notin checked /\ (q # Root => Front(q) \in checked)
        BY <1>3, <2>2, <3>2 DEF SecondTasks, InTurn
      <4>2. QED
        BY <1>4, <2>1, <2>2, <3>2, <4>1
    <3>3. ASSUME NEW q \in Paths, Task("recheck", q) \in Ahead'
          PROVE  q \in checked' /\ Node(q)'.kind = "directory"
      <4>1. Node(q)' = Node(q)
        BY <2>1, HostRests
      <4>2. QED
        BY <1>3, <2>1, <2>2, <3>3, <4>1 DEF SecondTasks
    <3>4. Once(todo')
      BY <1>3, <2>1 DEF SecondTasks, Once
    <3>5. QED
      BY <2>2, <3>1, <3>2, <3>3, <3>4 DEF SecondTasks, InTurn
  <2>4. total' = SumOf([q \in checked |-> Len(planned[q].data)])'
    <3>1. SumOf([q \in checked |-> Len(planned[q].data)])' = sum + Len(planned[p].data)
      BY <1>2, <1>3, <1>4, <1>6, <2>1, OneMoreChecked
    <3>2. QED
      BY <1>5, <1>7, <2>1, <3>1
  <2>5. /\ InHand("verify") = {} /\ InHand("recheck") = {}
        /\ InHand("verify")' = {} /\ InHand("recheck")' = {}
    <3>1. call.seen = {}
      BY <1>2 DEF PlanBooks, Sizes
    <3>2. QED
      BY <1>2, <2>2, <3>1 DEF InHand
  <2>6. ListedOnce' = ListedOnce
    <3>1. \A x : x \in ListedOnce' <=> \E q \in checked \cup {p} : x \in planned[q].children
      BY <2>1, <2>5, ListedAre
    <3>2. \A x : x \in ListedOnce <=> \E q \in checked : x \in planned[q].children
      BY <2>5, ListedAre
    <3>3. \A x : x \in ListedOnce' <=> x \in ListedOnce
      BY <1>5, <3>1, <3>2
    <3>4. QED
      BY <3>3
  <2>7. ListedAgain' = ListedAgain
    <3>1. \A x : x \in ListedAgain' <=>
            \E q \in checked \cup {p} : ~Pending(q)' /\ x \in planned[q].children
      BY <2>1, <2>5, ListedAre
    <3>2. \A x : x \in ListedAgain <=> \E q \in checked : ~Pending(q) /\ x \in planned[q].children
      BY <2>5, ListedAre
    <3>3. \A q : Pending(q)' <=> Pending(q)
      BY <1>4, <2>2 DEF Pending, Task
    <3>4. \A x : x \in ListedAgain' <=> x \in ListedAgain
      BY <1>5, <3>1, <3>2, <3>3
    <3>5. QED
      BY <3>4
  <2>8. SecondCounts'
    <3>1. RootKind' = RootKind
      BY <2>1 DEF RootKind
    <3>2. QED
      BY <1>2, <1>3, <2>1, <2>4, <2>6, <2>7, <3>1 DEF SecondCounts
  <2>9. QED
    BY <1>2, <2>1, <2>3, <2>8, SecondRests
<1>10. QED
  BY <1>8, <1>9

\* The second walk takes its next task.
LEMMA NextRests ==
  ASSUME IInv, AtRest, UNCHANGED host, UNCHANGED <<phase, planned, total, discovered, rechecked, checked>>,
         call.at = "next", todo # <<>>, todo' = Tail(todo), NEW t, t = Head(todo),
         NEW r, call' = r, r.at \in {"list", "verifyFile"}, r.path = t.path, r.pass = t.pass, r.seen = {},
         phase = "verify"
  PROVE  SecondTasks' /\ SecondCounts'
<1>1. SecondTasks /\ SecondCounts
  BY DEF AtRest, SecondWalk
<1>2. /\ t \in TaskState /\ Ahead = {t} \cup Ahead' /\ Once(todo') /\ t \notin Ahead'
  <2>1. todo \in Seq(TaskState) /\ Once(todo)
    BY <1>1 DEF IInv, TypeOK, SecondTasks
  <2>2. /\ t \in TaskState /\ Elements(todo) = {t} \cup Elements(Tail(todo)) /\ Once(Tail(todo))
        /\ t \notin Elements(Tail(todo))
    BY <2>1, First
  <2>3. QED
    BY <2>2 DEF Ahead
<1>3. t = Task(t.pass, t.path) /\ t.path \in Paths
  BY <1>2 DEF TaskState, Task
<1>4. ~Active /\ Active' /\ call'.path = t.path /\ call'.pass = t.pass
  BY DEF Active
<1>5. SecondTasks'
  <2>1. \A q \in Paths : Task("verify", q) \in Ahead' => InTurn(q)'
    BY <1>1, <1>2 DEF SecondTasks, InTurn
  <2>2. \A q \in Paths : Task("recheck", q) \in Ahead' => q \in checked' /\ Node(q)'.kind = "directory"
    <3>1. \A q : Node(q)' = Node(q)
      BY HostRests
    <3>2. QED
      BY <1>1, <1>2, <3>1 DEF SecondTasks
  <2>3. t.pass = "verify" => InTurn(t.path)'
    BY <1>1, <1>2, <1>3 DEF SecondTasks, InTurn
  <2>4. t.pass = "recheck" => t.path \in checked' /\ Node(t.path)'.kind = "directory"
    <3>1. \A q : Node(q)' = Node(q)
      BY HostRests
    <3>2. t.pass = "recheck" => t.path \in checked /\ Node(t.path).kind = "directory"
      BY <1>1, <1>2, <1>3 DEF SecondTasks
    <3>3. QED
      BY <3>1, <3>2
  <2>5. \A q \in checked' : q # Root => Front(q) \in checked'
    BY <1>1 DEF SecondTasks
  <2>6. PICK p, pass : p = t.path /\ pass = t.pass
    OBVIOUS
  <2>7. call'.path = p /\ call'.pass = pass /\ Task(pass, p) \notin Ahead'
    BY <1>2, <1>3, <1>4, <2>6
  <2>8. Task(call.pass, call.path)' \notin Ahead'
    BY <2>7 DEF Task
  <2>9. (call.pass = "verify" => InTurn(call.path))'
    BY <2>3, <2>6, <2>7 DEF InTurn
  <2>10. (call.pass = "recheck" => call.path \in checked /\ Node(call.path).kind = "directory")'
    <3>1. pass = "recheck" => p \in checked' /\ Node(p)'.kind = "directory"
      BY <2>4, <2>6
    <3>2. QED
      BY <2>7, <3>1 DEF Node
  <2>11. QED
    BY <1>2, <2>1, <2>2, <2>5, <2>8, <2>9, <2>10 DEF SecondTasks
<1>6. /\ InHand("verify") = {} /\ InHand("recheck") = {}
      /\ InHand("verify")' = {} /\ InHand("recheck")' = {}
  BY <1>4 DEF InHand
<1>7. ListedOnce' = ListedOnce
  BY <1>6 DEF ListedOnce
<1>8. \A q : Pending(q)' <=> Pending(q)
  <2>1. \A q : Pending(q)' <=> Task("recheck", q) \in Ahead' \/ (t.pass = "recheck" /\ t.path = q)
    BY <1>4 DEF Pending, Task
  <2>2. \A q : Pending(q) <=> Task("recheck", q) \in Ahead
    BY <1>4 DEF Pending
  <2>3. \A q : t = Task("recheck", q) <=> t.pass = "recheck" /\ t.path = q
    BY <1>3 DEF Task
  <2>4. QED
    BY <1>2, <2>1, <2>2, <2>3
<1>9. ListedAgain' = ListedAgain
  BY <1>6, <1>8 DEF ListedAgain
<1>10. SecondCounts'
  <2>1. RootKind' = RootKind /\ call.at \notin Unwinding
    BY DEF RootKind, Unwinding
  <2>2. QED
    BY <1>1, <1>7, <1>9, <2>1 DEF SecondCounts
<1>11. QED
  BY <1>5, <1>10

\* The next task is one for what the tree holds.
LEMMA RestsNextTask == IInv /\ AtRest /\ NextTask => AtRest'
<1> SUFFICES ASSUME IInv, AtRest, NextTask PROVE AtRest'
  OBVIOUS
<1>1. PICK t : t = Head(todo)
  OBVIOUS
<1>2. /\ UNCHANGED <<phase, signal, verdict, planned, discovered, rechecked, total, checked>>
      /\ UNCHANGED host /\ todo # <<>> /\ todo' = Tail(todo) /\ call.at = "next"
      /\ phase \in {"plan", "stream", "verify"}
  BY DEF NextTask, GoOn, history
<1>3. t \in TaskState /\ t \in Ahead /\ t.path \in Paths /\ t = Task(t.pass, t.path)
  <2>1. todo \in Seq(TaskState)
    BY DEF IInv, TypeOK
  <2>2. t \in Ahead /\ t \in TaskState
    BY <1>1, <1>2, <2>1, First DEF Ahead
  <2>3. QED
    BY <2>2 DEF TaskState, Task
<1>4. /\ phase = "plan" => t.pass = "plan"
      /\ phase = "stream" => t.pass = "stream" /\ t.path \in PlannedFiles
      /\ phase = "verify" => t.pass \in {"verify", "recheck"} /\ t.path \in PlannedPaths
  BY <1>3 DEF IInv, PlanWalk, PlanTasks, StreamWalk, VerifyWalk
<1>5. t.path \in PlannedPaths =>
        /\ names[t.path] # None /\ planned[t.path].rev = Fingerprint(names[t.path])
        /\ planned[t.path].kind = Node(t.path).kind /\ planned[t.path].kind \in {"file", "directory"}
  <2>1. t.path \in PlannedPaths => planned[t.path] \in Plans
    BY PlannedTerms DEF IInv
  <2>2. QED
    BY <2>1 DEF AtRest, PlanIsTrue, Plans
<1>6. PICK at, rev :
        /\ at \in {"inspect", "list", "scan", "verifyFile"}
        /\ call' = Call(at, t.path, t.pass, rev)
        /\ rev = None \/ (t.path \in PlannedPaths /\ rev = planned[t.path].rev)
        /\ at = "inspect" => rev = None
        /\ at # "inspect" => t.path \in PlannedPaths
        /\ at = "scan" => Node(t.path).kind = "file"
        /\ at = "verifyFile" => Node(t.path).kind = "file"
        /\ at = "list" => Node(t.path).kind = "directory"
        /\ phase = "verify" => at \in {"list", "verifyFile"}
  <2>1. CASE phase = "plan"
    <3>1. call' = Call("inspect", t.path, t.pass, None)
      BY <1>1, <1>4, <2>1 DEF NextTask, GoOn
    <3>2. QED
      BY <2>1, <3>1
  <2>2. CASE phase = "stream"
    <3>1. call' = Call("scan", t.path, t.pass, planned[t.path].rev)
      BY <1>1, <1>4, <2>2 DEF NextTask, GoOn
    <3>2. QED
      BY <1>4, <1>5, <2>2, <3>1 DEF PlannedFiles
  <2>3. CASE phase = "verify" /\ t.pass = "recheck"
    <3>1. call' = Call("list", t.path, t.pass, None)
      BY <1>1, <2>3 DEF NextTask, GoOn
    <3>2. Node(t.path).kind = "directory"
      BY <1>3, <2>3 DEF AtRest, SecondWalk, SecondTasks
    <3>3. QED
      BY <1>4, <2>3, <3>1, <3>2
  <2>4. CASE phase = "verify" /\ t.pass = "verify" /\ planned[t.path].kind = "file"
    <3>1. call' = Call("verifyFile", t.path, t.pass, planned[t.path].rev)
      BY <1>1, <2>4 DEF NextTask, GoOn
    <3>2. QED
      BY <1>4, <1>5, <2>4, <3>1
  <2>5. CASE phase = "verify" /\ t.pass = "verify" /\ planned[t.path].kind # "file"
    <3>1. call' = Call("list", t.path, t.pass, None)
      BY <1>1, <2>5 DEF NextTask, GoOn
    <3>2. QED
      BY <1>4, <1>5, <2>5, <3>1
  <2>6. QED
    BY <1>2, <1>4, <2>1, <2>2, <2>3, <2>4, <2>5
<1>7. PICK r : r = Call(at, t.path, t.pass, rev)
  OBVIOUS
<1>8. /\ r.at = at /\ r.path = t.path /\ r.pass = t.pass /\ r.rev = rev /\ r.seen = {} /\ GuardIs(r)
  BY <1>7, CallIs, GuardOfCall
<1>9. call' = r
  BY <1>6, <1>7
<1>10. Sees(r)
  BY <1>5, <1>6, <1>8 DEF Sees, Listed, Reading
<1>11. GuardIs(call)' /\ Sees(call)'
  <2>1. \A k : k = r => GuardIs(k)' /\ Sees(k)'
    BY <1>2, <1>8, <1>10, HostRests
  <2>2. QED
    BY <1>9, <2>1
<1>12. Verdicts'
  <2>1. call.at \notin Unwinding /\ r.at \notin Unwinding
    BY <1>2, <1>6, <1>8 DEF Unwinding
  <2>2. QED
    BY <1>2, <1>9, <2>1 DEF AtRest, Verdicts
<1>13. SecondWalk'
  <2>1. phase = "verify" => at \in {"list", "verifyFile"}
    BY <1>6
  <2>2. phase = "verify" => SecondTasks' /\ SecondCounts'
    BY <1>1, <1>2, <1>8, <1>9, <2>1, NextRests
  <2>3. QED
    BY <1>2, <2>2 DEF SecondWalk
<1>14. QED
  BY <1>2, <1>11, <1>12, <1>13, HostRests DEF AtRest

\* Where nothing is left to compare, everything was.
LEMMA EndIs ==
  ASSUME IInv, AtRest, phase = "verify", call.at = "next", todo = <<>>
  PROVE  total = PlannedBytes
<1>1. Ahead = {} /\ ~Active
  BY NothingAhead DEF Active
<1>2. checked = PlannedPaths
  <2>1. \A p \in PlannedPaths : ~Awaited(p)
    BY <1>1 DEF Awaited
  <2>2. checked \subseteq PlannedPaths /\ \A p \in PlannedPaths \ checked : Awaited(p)
    BY DEF IInv, VerifyWalk
  <2>3. QED
    BY <2>1, <2>2
<1>3. total = SumOf([p \in checked |-> Len(planned[p].data)])
  BY DEF AtRest, SecondWalk, SecondCounts
<1>4. QED
  BY <1>2, <1>3 DEF PlannedBytes

\* A phase fails only with the verdict of a call.
LEMMA RestsEnding == IInv /\ AtRest /\ (PathFails \/ PhaseFails) => AtRest'
<1> SUFFICES ASSUME IInv, AtRest, PathFails \/ PhaseFails PROVE AtRest'
  OBVIOUS
<1>1. ~signal /\ rootCurrent
  BY DEF AtRest, Quiet
<1>2. CASE PathFails
  <2>1. PICK p : p = Head(todo).path
    OBVIOUS
  <2>2. /\ phase = "plan" /\ todo # <<>> /\ ~Canonical(p) /\ verdict' = "path" /\ phase' = "failed"
        /\ call' = Rest /\ UNCHANGED host /\ UNCHANGED <<signal, planned>>
    BY <1>2, <2>1 DEF PathFails, books
  <2>3. Head(todo) \in Ahead /\ Head(todo) \in TaskState
    <3>1. todo \in Seq(TaskState)
      BY DEF IInv, TypeOK
    <3>2. QED
      BY <2>2, <3>1, First DEF Ahead
  <2>4. p \in Paths /\ Fresh(p) /\ p # Root
    BY <2>1, <2>2, <2>3 DEF IInv, PlanWalk, PlanTasks, TaskState
  <2>5. p \in Present
    BY <2>4, NamedIsThere DEF AtRest
  <2>6. ~Admissible
    BY <2>2, <2>5 DEF Admissible
  <2>7. QED
    BY <2>2, <2>6, RestingDropped DEF Excused
<1>3. CASE PhaseFails
  <2>1. phase = "verify" /\ call.at = "next" /\ todo = <<>> /\ total # PlannedBytes
    BY <1>1, <1>3 DEF PhaseFails
  <2>2. QED
    BY <2>1, EndIs
<1>4. QED
  BY <1>2, <1>3

\* From phase to phase nothing is lost.
LEMMA RestsPhases == IInv /\ AtRest /\ (Prepared \/ BeginVerify \/ Verified) => AtRest'
<1> SUFFICES ASSUME IInv, AtRest, Prepared \/ BeginVerify \/ Verified PROVE AtRest'
  OBVIOUS
<1>1. /\ UNCHANGED host /\ UNCHANGED <<call, planned, signal, verdict>> /\ call.at = "next"
      /\ phase # "failed" /\ phase' \in {"stream", "verify", "verified"}
  BY DEF Prepared, BeginVerify, Verified, books
<1>2. call = Rest /\ ~Active /\ ~Active'
  BY <1>1, BetweenCalls DEF Active
<1>3. GuardIs(call)' /\ Sees(call)'
  <2>1. \A k : k = Rest => GuardIs(k)' /\ Sees(k)'
    BY <1>1, RestSees, HostRests
  <2>2. QED
    BY <1>1, <1>2, <2>1
<1>4. Verdicts'
  BY <1>1 DEF AtRest, Verdicts, Unwinding
<1>5. ASSUME phase' = "verify"
      PROVE  SecondTasks' /\ SecondCounts'
  <2>1. /\ todo' = <<Task("verify", Root)>> /\ checked' = checked /\ rechecked' = 0 /\ total' = 0
        /\ discovered' = (IF RootKind = "file" THEN 1 ELSE 0) /\ phase = "stream"
    BY <1>5 DEF Prepared, BeginVerify, Verified
  <2>2. checked = {}
    BY <2>1 DEF IInv, StreamWalk
  <2>3. Once(todo') /\ Ahead' = {Task("verify", Root)}
    <3>1. PICK b : b = <<Task("verify", Root)>>
      OBVIOUS
    <3>2. DOMAIN b = {1} /\ b[1] = Task("verify", Root)
      BY <3>1
    <3>3. Once(b) /\ Elements(b) = {Task("verify", Root)}
      BY <3>2 DEF Once, Elements
    <3>4. QED
      BY <2>1, <3>1, <3>3 DEF Ahead, Elements, Once
  <2>4. \A q : Task("verify", q) \in Ahead' => q = Root
    BY <2>3 DEF Task
  <2>5. \A q : Task("recheck", q) \notin Ahead'
    BY <2>3 DEF Task
  <2>6. SecondTasks'
    BY <1>2, <2>1, <2>2, <2>3, <2>4, <2>5 DEF SecondTasks, InTurn
  <2>7. total' = SumOf([p \in checked |-> Len(planned[p].data)])'
    <3>1. [p \in {} |-> Len(planned[p].data)] \in [{} -> Nat]
      OBVIOUS
    <3>2. SumOf([p \in {} |-> Len(planned[p].data)]) = 0
      BY <3>1, SumOfNone
    <3>3. QED
      BY <1>1, <2>1, <2>2, <3>2
  <2>8. ListedOnce' = {} /\ ListedAgain' = {}
    <3>1. InHand("verify")' = {} /\ InHand("recheck")' = {}
      BY <1>2 DEF InHand
    <3>2. (\A x : x \notin ListedOnce') /\ (\A x : x \notin ListedAgain')
      BY <2>1, <2>2, <3>1, ListedAre
    <3>3. QED
      BY <3>2
  <2>9. Cardinality({}) = 0
    BY FS_EmptySet
  <2>10. SecondCounts'
    <3>1. RootKind' = RootKind
      BY <1>1 DEF RootKind
    <3>2. QED
      BY <2>1, <2>7, <2>8, <2>9, <3>1 DEF SecondCounts
  <2>11. QED
    BY <2>6, <2>10
<1>6. QED
  BY <1>1, <1>3, <1>4, <1>5, HostRests DEF AtRest, SecondWalk

\* What was verified is what there is.
LEMMA VerifiedIsAdmissible ==
  ASSUME IInv, PlanBooks, AtRest, phase = "verified"
  PROVE  Admissible
<1>1. Whole
  BY DEF IInv, Afterwards
<1>2. /\ Root \in PlannedPaths /\ IsFiniteSet(PlannedPaths) /\ PlannedPaths \in SUBSET Paths
      /\ RootKind \in {"file", "directory"}
      /\ RootKind = "file" => PlannedPaths = {Root}
  BY <1>1, PlanIsTree
<1>3. Present = PlannedPaths
  <2>1. PlannedPaths \subseteq Present
    BY NamedIsThere DEF AtRest
  <2>2. ASSUME NEW p \in Present, p # Root, Front(p) \in PlannedPaths
        PROVE  p \in PlannedPaths
    <3>1. p \in Paths /\ p \in Children(Front(p)) /\ Node(Front(p)).kind = "directory"
      BY <2>2, TreeIs DEF Children, Present
    <3>2. p \in planned[Front(p)].children
      BY <2>2, <3>1 DEF AtRest, PlanIsTrue
    <3>3. QED
      BY <1>1, <2>2, <3>1, <3>2 DEF Whole, PlannedPaths
  <2>3. \A p \in Present : p \in PlannedPaths
    BY <1>2, <2>2, TreeIs, Downwards
  <2>4. QED
    BY <2>1, <2>3
<1>4. \A p \in PlannedPaths : /\ planned[p].kind = Node(p).kind /\ planned[p].data = Node(p).data
                              /\ planned[p].kind \in {"file", "directory"}
  <2>1. \A p \in PlannedPaths : planned[p].kind \in {"file", "directory"}
    BY PlannedTerms DEF IInv, Plans
  <2>2. QED
    BY <2>1 DEF AtRest, PlanIsTrue
<1>5. \A p \in Present : Node(p).kind # "other" /\ Canonical(p) /\ Len(Node(p).data) <= MaxFile
  BY <1>3, <1>4 DEF PlanBooks, Sizes
<1>6. RootKind = Node(Root).kind
  BY <1>2, <1>4 DEF RootKind
<1>7. Cardinality(Present) <= MaxEntries + (IF Node(Root).kind = "directory" THEN 1 ELSE 0)
  <2>1. CASE RootKind = "file"
    <3>1. Cardinality(Present) = 1 /\ 1 <= MaxEntries
      BY <1>2, <1>3, <2>1, FS_Singleton DEF PlanBooks, Counts
    <3>2. QED
      BY <1>6, <2>1, <3>1, LimitsAssumption
  <2>2. CASE RootKind = "directory"
    <3>1. /\ IsFiniteSet(PlannedPaths \ {Root})
          /\ Cardinality(PlannedPaths \ {Root}) = Cardinality(PlannedPaths) - 1
      BY <1>2, FS_RemoveElement
    <3>2. Cardinality(PlannedPaths \ {Root}) <= MaxEntries
      BY DEF PlanBooks, Counts
    <3>3. Cardinality(PlannedPaths) \in Nat
      BY <1>2, FS_CardinalityType
    <3>4. QED
      BY <1>3, <1>6, <2>2, <3>1, <3>2, <3>3, LimitsAssumption
  <2>3. QED
    BY <1>2, <2>1, <2>2
<1>8. SumOf([p \in Present |-> Len(Node(p).data)]) <= MaxTotal
  <2>1. [p \in Present |-> Len(Node(p).data)] = [p \in PlannedPaths |-> Len(planned[p].data)]
    BY <1>3, <1>4
  <2>2. PlannedBytes <= MaxTotal
    BY DEF PlanBooks, Sizes
  <2>3. QED
    BY <2>1, <2>2 DEF PlannedBytes
<1>9. QED
  BY <1>2, <1>3, <1>5, <1>7, <1>8 DEF Admissible

\* At first nothing has been looked at.
LEMMA RestsInit == Init => Rests
<1> SUFFICES ASSUME Init PROVE Rests
  OBVIOUS
<1>1. /\ phase = "plan" /\ planned = [p \in Paths |-> None] /\ ~signal /\ rootCurrent
      /\ call = Call("inspect", Root, "plan", None) /\ verdict = "none" /\ changes = 0
  BY DEF Init
<1>2. call.at = "inspect" /\ call.rev = None /\ GuardIs(call)
  BY <1>1, CallIs, GuardOfCall
<1>3. PlanIsTrue
  BY <1>1 DEF PlanIsTrue, PlannedPaths
<1>4. Sees(call)
  BY <1>2 DEF Sees, Listed, Reading
<1>5. Verdicts
  BY <1>1, <1>2 DEF Verdicts, Unwinding
<1>6. QED
  BY <1>1, <1>2, <1>3, <1>4, <1>5 DEF Rests, AtRest, Quiet, SecondWalk

\* Every step keeps it: the ones of others count as changes.
LEMMA RestsStep == IInv /\ PlanBooks /\ Rests /\ [Next]_vars => Rests'
<1> SUFFICES ASSUME IInv, PlanBooks, Rests, [Next]_vars PROVE Rests'
  OBVIOUS
<1>1. CASE Outside
  <2>1. changes' = changes + 1 /\ changes \in Nat
    BY <1>1 DEF Outside, Abort, MoveRoot, Write, Unlink, Create, Changing, Rests
  <2>2. changes' \in Nat /\ changes' # 0
    BY <2>1
  <2>3. QED
    BY <2>2 DEF Rests
<1>2. CASE Bridge
  <2>1. AtRest => AtRest'
    BY <1>2, RestsFailing, RestsInspect, RestsListing, RestsReadName, RestsRelist, RestsScan,
       RestsRead, RestsAgain, RestsCloseFile, RestsVerifyDirectory, RestsVerifyFile, RestsNextTask,
       RestsEnding, RestsPhases DEF Bridge
  <2>2. changes' = changes
    <3>1. InspectFails \/ HostFails \/ CloseFails \/ Unwind => UNCHANGED host
      BY DEF InspectFails, HostFails, CloseFails, Unwind, Throw
    <3>2. Inspect => UNCHANGED host
      <4>1. ASSUME Inspect PROVE Node(call.path).kind \in Kinds
        <5>1. Active /\ names[call.path] # None
          BY <4>1, LookedAt DEF Inspect
        <5>2. call.path \in Present
          BY <5>1, ActiveFacts DEF Present
        <5>3. QED
          BY <5>2, TreeIs
      <4>2. QED
        BY <4>1 DEF Inspect, Throw, GoOn, Kinds
    <3>3. List \/ OpenDirectory \/ EndOfNames \/ CloseDirectory \/ Relist => UNCHANGED host
      BY DEF List, OpenDirectory, EndOfNames, CloseDirectory, Relist, Throw, Step, GoOn
    <3>4. ReadName => UNCHANGED host
      BY DEF ReadName, Throw, GoOn
    <3>5. Scan \/ OpenFile \/ Opened \/ Lstat \/ Before \/ Read \/ After => UNCHANGED host
      BY DEF Scan, OpenFile, Opened, Lstat, Before, Read, After, Fstat, Throw, Step, GoOn
    <3>6. Again \/ EndOfFile \/ CloseFile => UNCHANGED host
      BY DEF Again, EndOfFile, CloseFile, Throw, Step, GoOn
    <3>7. VerifyDirectory \/ VerifyFile \/ NextTask => UNCHANGED host
      BY DEF VerifyDirectory, VerifyFile, NextTask, Throw, GoOn
    <3>8. PathFails \/ PhaseFails \/ Prepared \/ BeginVerify \/ Verified => UNCHANGED host
      BY DEF PathFails, PhaseFails, Prepared, BeginVerify, Verified
    <3>9. QED
      BY <1>2, <3>1, <3>2, <3>3, <3>4, <3>5, <3>6, <3>7, <3>8 DEF Bridge, host
  <2>3. QED
    BY <2>1, <2>2 DEF Rests
<1>3. CASE UNCHANGED vars
  <2>2. UNCHANGED host /\ UNCHANGED <<phase, call, todo, planned, discovered, rechecked, total,
                                      signal, verdict, checked>>
    BY <1>3 DEF vars, host
  <2>3. changes' = changes /\ Admissible' = Admissible /\ (PlanIsTrue => PlanIsTrue')
        /\ (Quiet => Quiet') /\ \A v : Excused(v)' = Excused(v)
    BY <2>2, HostRests
  <2>4. PICK k : k = call
    OBVIOUS
  <2>5. (GuardIs(call) => GuardIs(call)') /\ (Sees(call) => Sees(call)')
    <3>1. (GuardIs(k) => GuardIs(k)') /\ (Sees(k) => Sees(k)')
      BY <2>2, HostRests
    <3>2. call' = k
      BY <2>2, <2>4
    <3>3. QED
      BY <2>4, <3>1, <3>2
  <2>6. Verdicts => Verdicts'
    BY <2>2, <2>3 DEF Verdicts
  <2>7. SecondTasks => SecondTasks'
    <3>1. \A p : Node(p)' = Node(p)
      BY <2>2, HostRests
    <3>2. QED
      BY <2>2, <3>1 DEF SecondTasks, InTurn, Ahead, Elements, Once, Task, Active
  <2>8. SecondCounts => SecondCounts'
    <3>1. Active' = Active /\ \A pass : InHand(pass)' = InHand(pass)
      BY <2>2 DEF InHand, Active
    <3>2. \A p : Pending(p)' = Pending(p)
      BY <2>2, <3>1 DEF Pending, Ahead, Elements, Task
    <3>3. ListedOnce' = ListedOnce
      BY <2>2, <3>1 DEF ListedOnce
    <3>4. ListedAgain' = ListedAgain
      BY <2>2, <3>1, <3>2 DEF ListedAgain
    <3>5. RootKind' = RootKind
      BY <2>2 DEF RootKind
    <3>6. QED
      BY <2>2, <3>3, <3>4, <3>5 DEF SecondCounts
  <2>9. QED
    BY <2>2, <2>3, <2>5, <2>6, <2>7, <2>8 DEF Rests, AtRest, SecondWalk
<1>4. QED
  BY <1>1, <1>2, <1>3 DEF Next

\* A tree that nobody touches is pulled exactly when it may be, and nobody is told that it
\* changed: whatever tree it is, whatever the limits, and wherever the host fails.
THEOREM RestingPulled == Spec => []RestingTreeIsPulled
<1>1. IInv /\ PlanBooks /\ Rests => RestingTreeIsPulled
  <2>1. ASSUME IInv, PlanBooks, AtRest
        PROVE  /\ phase = "verified" => Admissible
               /\ phase = "failed" => ~Admissible \/ verdict = "io"
               /\ verdict # "changed" /\ verdict # "rootChanged"
    BY <2>1, VerifiedIsAdmissible DEF AtRest, Verdicts, Excused
  <2>2. QED
    BY <2>1 DEF Rests, RestingTreeIsPulled
<1>2. IInv /\ PlanBooks /\ Rests /\ [Next]_vars => Rests'
  BY RestsStep
<1>3. QED
  BY <1>1, <1>2, RestsInit, Invariance, BooksAreKept, PTL DEF Spec
=============================================================================
