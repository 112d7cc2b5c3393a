------------------------- MODULE MaterializeProofs -------------------------
(***************************************************************************)
(* Proofs about Materialize, for any number of pulls, any destinations     *)
(* (the same one, or one inside another) and any manifests.                *)
(*                                                                         *)
(* Every path in the tree is one of the names that are given, or lies in   *)
(* the stage of one pull and was made by it (Placed).  So what a pull      *)
(* removes is its own: its stage, or a parent it made (Own).  A step of    *)
(* one pull is then summed up by what it may do to the tree (Minds), and   *)
(* what holds of every other pull follows from that summary alone.         *)
(***************************************************************************)
EXTENDS Materialize, SequenceTheorems, TLAPS

Component == Names \cup Clients
Paths == Seq(Component)
Makers == Clients \cup {Other}
Steps == {"inspect", "find", "make", "check", "temp", "payload", "entry", "write",
          "unstage", "rmdirs", "success", "failure"}
Staging == {"payload", "entry", "write", "unstage"}

\* p is a proper ancestor of the destination of c, below the root.
Ancestor(c, p) == p # Root /\ p \in Paths /\ Below(p, Parent(Dest[c]))

\* p lies in the stage of c, and only manifests and "payload" name what does.
InStage(c, p) ==
  /\ p \in Paths /\ Below(Stage(c), p)
  /\ \A n \in (Len(Stage(c)) + 1)..Len(p) : p[n] \in Names

Nodes == [kind : {"dir", "file"}, by : Makers]
NodeOK == DOMAIN node \subseteq Paths /\ node \in [DOMAIN node -> Nodes]

TypeOK ==
  /\ NodeOK
  /\ pc \in [Clients -> Steps]
  /\ missing \in [Clients -> Seq(Paths)] /\ created \in [Clients -> Seq(Paths)]
  /\ at \in [Clients -> Nat \ {0}]
  /\ published \in [Clients -> BOOLEAN] /\ cancelled \in [Clients -> BOOLEAN]
  /\ late \in [Clients -> [path : Paths, deep : BOOLEAN]]
  /\ unclean \subseteq Clients
  /\ faults \in Nat /\ outside \in Nat

\* What lies on the way to something is a directory.
Rooted ==
  /\ Root \in DOMAIN node
  /\ \A q \in DOMAIN node : \A n \in 0..(Len(q) - 1) :
       SubSeq(q, 1, n) \in DOMAIN node /\ node[SubSeq(q, 1, n)].kind = "dir"


\* What is in the tree has a name that was given, or is in a stage, by its pull.
Placed ==
  \A p \in DOMAIN node :
    p \in Seq(Names) \/ \E c \in Clients : InStage(c, p) /\ node[p].by = c

\* An entry of a manifest, made below p.
Made(c, p, i) ==
  LET q == p \o Entries(c)[i].path
  IN  q \in DOMAIN node /\ node[q] = IF Entries(c)[i].directory THEN Dir(c) ELSE File(c)

(***************************************************************************)
(* What holds of one pull.                                                 *)
(***************************************************************************)
\* The parents it found missing and those it made: ancestors of its
\* destination, each deeper than the one before it.
ParentsOK(c) ==
  /\ \A i \in 1..Len(missing[c]) : Ancestor(c, missing[c][i])
  /\ \A i, j \in 1..Len(missing[c]) : i < j => Len(missing[c][i]) < Len(missing[c][j])
  /\ \A i \in 1..Len(created[c]) :
       /\ Ancestor(c, created[c][i])
       /\ created[c][i] \in DOMAIN node /\ node[created[c][i]] = Dir(c)
  /\ \A i, j \in 1..Len(created[c]) : i < j => Len(created[c][i]) < Len(created[c][j])
  /\ \A i \in 1..Len(created[c]), j \in 1..Len(missing[c]) :
       Len(created[c][i]) < Len(missing[c][j])
  /\ pc[c] \in {"inspect", "find"} => created[c] = << >>
  /\ pc[c] = "check" => missing[c] # << >>

\* What it has staged, and what it calls.
StageOK(c) ==
  /\ pc[c] \in Staging => Stage(c) \in DOMAIN node
  /\ pc[c] \in {"entry", "write"} =>
       \A i \in 1..Len(Entries(c)) : i < at[c] => Made(c, Payload(c), i)
  /\ pc[c] = "payload" => at[c] = 1
  /\ pc[c] \in {"inspect", "find", "make", "check", "temp"} => at[c] = 1
  /\ pc[c] = "write" => at[c] =< Len(Entries(c)) /\ ~Entries(c)[at[c]].directory
  /\ late[c] # NoCall => InStage(c, late[c].path)


\* What it has published is there, and what it reports is so.
PublishedOK(c) ==
  /\ published[c] =>
       /\ pc[c] \in {"unstage", "rmdirs"} \cup Ended
       /\ \A i \in 1..Len(Entries(c)) : Made(c, Dest[c], i)
       /\ pc[c] \in {"rmdirs", "failure"} => cancelled[c]
  /\ pc[c] = "success" => published[c]

\* Somebody else has, or may have had, something in p.
Excused(c, p) ==
  \/ \E q \in DOMAIN node : Below(p, q) /\ node[q].by # c
  \/ \E d \in Clients \ {c} : HasWorkedIn(d, p)

\* Unless its clean-up failed: where there is something it made.
CleanOK(c) ==
  c \notin unclean =>
    /\ pc[c] \notin Staging => \A p \in DOMAIN node : ~Below(Stage(c), p)
    /\ pc[c] = "failure" => created[c] = << >>
    /\ ~published[c] => \A p \in DOMAIN node : node[p].by = c =>
         \/ Below(Stage(c), p)
         \/ \E i \in 1..Len(created[c]) : p = created[c][i]
         \/ pc[c] \in {"rmdirs", "failure"} /\ Ancestor(c, p) /\ Excused(c, p)

Own(c) == ParentsOK(c) /\ StageOK(c) /\ PublishedOK(c) /\ CleanOK(c)

TreeOK == NodeOK /\ Rooted /\ Placed
IInv == TypeOK /\ TreeOK /\ \A c \in Clients : Own(c)

-----------------------------------------------------------------------------
(***************************************************************************)
(* Paths: what Below, Parent and the names of stages say about each other. *)
(***************************************************************************)
\* The first n components of a path.
LEMMA PrefixIs ==
  ASSUME NEW p \in Paths, NEW n \in Int, 0 <= n, n <= Len(p)
  PROVE  /\ SubSeq(p, 1, n) \in Paths /\ Len(SubSeq(p, 1, n)) = n
         /\ \A i \in 1..n : SubSeq(p, 1, n)[i] = p[i]
<1>1. Len(p) \in Nat
  BY LenProperties DEF Paths
<1>2. \A i \in 1..n : p[i] \in Component
  BY <1>1, ElementOfSeq DEF Paths
<1>3. QED
  BY <1>1, <1>2, SubSeqProperties DEF Paths

\* A path is below another when it begins with its components.
LEMMA BelowIs ==
  ASSUME NEW p \in Paths, NEW q \in Paths
  PROVE  /\ Len(p) \in Nat /\ Len(q) \in Nat
         /\ Below(p, q) <=> Len(p) <= Len(q) /\ \A i \in 1..Len(p) : p[i] = q[i]
<1>1. Len(p) \in Nat /\ Len(q) \in Nat
  BY LenProperties DEF Paths
<1>2. ASSUME Below(p, q) PROVE \A i \in 1..Len(p) : p[i] = q[i]
  BY <1>1, <1>2, PrefixIs DEF Below
<1>3. ASSUME Len(p) <= Len(q), \A i \in 1..Len(p) : p[i] = q[i]
      PROVE  SubSeq(q, 1, Len(p)) = p
  <2>1. /\ SubSeq(q, 1, Len(p)) \in Paths /\ Len(SubSeq(q, 1, Len(p))) = Len(p)
        /\ \A i \in 1..Len(p) : SubSeq(q, 1, Len(p))[i] = q[i]
    BY <1>1, <1>3, PrefixIs
  <2>2. QED
    BY <1>3, <2>1, SeqEqual DEF Paths
<1>4. QED
  BY <1>1, <1>2, <1>3 DEF Below

\* Paths below one another are ordered, and the ancestors of a path form a chain.
LEMMA PathOrder ==
  /\ Root \in Paths /\ Len(Root) = 0
  /\ \A p \in Paths : Below(p, p) /\ Below(Root, p) /\ (Len(p) = 0 => p = Root)
  /\ \A p, q \in Paths : Below(p, q) => Len(p) <= Len(q) /\ (Len(p) = Len(q) => p = q)
  /\ \A p, q, r \in Paths : Below(p, q) /\ Below(q, r) => Below(p, r)
  /\ \A p, q, r \in Paths : Below(p, r) /\ Below(q, r) => Below(p, q) \/ Below(q, p)
<1>1. Root \in Paths /\ Len(Root) = 0
  BY EmptySeq DEF Root, Paths
<1>2. ASSUME NEW p \in Paths
      PROVE  Below(p, p) /\ Below(Root, p) /\ (Len(p) = 0 => p = Root)
  <2>1. Below(p, p) /\ Below(Root, p)
    BY <1>1, BelowIs
  <2>2. Len(p) = 0 => p = Root
    BY EmptySeq DEF Root, Paths
  <2>3. QED
    BY <2>1, <2>2
<1>3. ASSUME NEW p \in Paths, NEW q \in Paths, Below(p, q)
      PROVE  Len(p) <= Len(q) /\ (Len(p) = Len(q) => p = q)
  BY <1>3, BelowIs, SeqEqual DEF Paths
<1>4. ASSUME NEW p \in Paths, NEW q \in Paths, NEW r \in Paths, Below(p, q), Below(q, r)
      PROVE  Below(p, r)
  BY <1>4, BelowIs
<1>5. ASSUME NEW p \in Paths, NEW q \in Paths, NEW r \in Paths, Below(p, r), Below(q, r)
      PROVE  Below(p, q) \/ Below(q, p)
  BY <1>5, BelowIs
<1>6. QED
  BY <1>1, <1>2, <1>3, <1>4, <1>5

\* The first components of a path are above it.
LEMMA PrefixAbove ==
  ASSUME NEW q \in Paths, NEW n \in 0..Len(q)
  PROVE  /\ SubSeq(q, 1, n) \in Paths /\ Len(SubSeq(q, 1, n)) = n /\ Below(SubSeq(q, 1, n), q)
         /\ n < Len(q) => SubSeq(q, 1, n) # q
         /\ n # 0 => SubSeq(q, 1, n) # Root
<1>1. Len(q) \in Nat /\ n \in Int /\ 0 <= n /\ n <= Len(q)
  BY BelowIs
<1>2. /\ SubSeq(q, 1, n) \in Paths /\ Len(SubSeq(q, 1, n)) = n
      /\ \A i \in 1..n : SubSeq(q, 1, n)[i] = q[i]
  BY <1>1, PrefixIs
<1>3. PICK p \in Paths : p = SubSeq(q, 1, n)
  BY <1>2
<1>4. Len(p) = n /\ \A i \in 1..n : p[i] = q[i]
  BY <1>2, <1>3
<1>5. Below(p, q)
  BY <1>1, <1>4, BelowIs
<1>6. QED
  BY <1>1, <1>2, <1>3, <1>4, <1>5, PathOrder

\* The parent of a path is its deepest proper ancestor.
LEMMA ParentIs ==
  ASSUME NEW p \in Paths, p # Root
  PROVE  /\ Parent(p) \in Paths /\ Len(Parent(p)) = Len(p) - 1 /\ Len(p) \in Nat \ {0}
         /\ Below(Parent(p), p) /\ Parent(p) # p
         /\ \A q \in Paths : Below(q, p) /\ q # p => Below(q, Parent(p))
<1>1. Len(p) \in Nat \ {0}
  BY EmptySeq DEF Root, Paths
<1>2. /\ Parent(p) \in Paths /\ Len(Parent(p)) = Len(p) - 1
      /\ \A i \in 1..(Len(p) - 1) : Parent(p)[i] = p[i]
  <2>1. PICK n \in Int : n = Len(p) - 1 /\ 0 <= n /\ n <= Len(p)
    <3>1. Len(p) - 1 \in Int /\ 0 <= Len(p) - 1 /\ Len(p) - 1 <= Len(p)
      BY <1>1
    <3>2. QED
      BY <3>1
  <2>2. Parent(p) = SubSeq(p, 1, n)
    BY <2>1 DEF Parent
  <2>3. QED
    BY <2>1, <2>2, PrefixIs
<1>3. Below(Parent(p), p) /\ Parent(p) # p
  BY <1>1, <1>2, BelowIs
<1>4. ASSUME NEW q \in Paths, Below(q, p), q # p
      PROVE  Below(q, Parent(p))
  <2>1. Len(q) <= Len(p) /\ Len(q) # Len(p) /\ Len(q) \in Nat
    BY <1>4, PathOrder, BelowIs
  <2>2. QED
    BY <1>1, <1>2, <1>4, <2>1, BelowIs
<1>5. QED
  BY <1>1, <1>2, <1>3, <1>4

\* A component more.
LEMMA ChildIs ==
  ASSUME NEW p \in Paths, NEW e \in Component
  PROVE  /\ Append(p, e) \in Paths /\ Len(Append(p, e)) = Len(p) + 1
         /\ \A i \in 1..Len(p) : Append(p, e)[i] = p[i]
         /\ Append(p, e)[Len(p) + 1] = e
         /\ Append(p, e) # Root /\ Parent(Append(p, e)) = p
<1>1. /\ Append(p, e) \in Paths /\ Len(Append(p, e)) = Len(p) + 1 /\ Len(p) \in Nat
      /\ \A i \in 1..Len(p) : Append(p, e)[i] = p[i]
      /\ Append(p, e)[Len(p) + 1] = e
  BY DEF Paths
<1>2. Append(p, e) # Root
  BY <1>1, PathOrder
<1>3. PICK q \in Paths : q = Append(p, e)
  BY <1>1
<1>4. Below(p, q) /\ p # q /\ Len(q) = Len(p) + 1 /\ q # Root
  <2>1. Len(q) = Len(p) + 1 /\ q # Root /\ \A i \in 1..Len(p) : p[i] = q[i]
    BY <1>1, <1>2, <1>3
  <2>2. Below(p, q)
    BY <1>1, <2>1, BelowIs
  <2>3. QED
    BY <1>1, <2>1, <2>2
<1>5. Below(p, Parent(q)) /\ Len(Parent(q)) = Len(p) /\ Parent(q) \in Paths
  BY <1>1, <1>4, ParentIs
<1>6. Parent(q) = p
  BY <1>5, PathOrder
<1>7. QED
  BY <1>1, <1>2, <1>3, <1>6

\* A path of given names has such ancestors only.
LEMMA NamedAbove ==
  /\ Seq(Names) \subseteq Paths
  /\ \A p \in Paths : p \in Seq(Names) <=> \A i \in 1..Len(p) : p[i] \in Names
  /\ \A p \in Paths, q \in Seq(Names) : Below(p, q) => p \in Seq(Names)
<1>1. Seq(Names) \subseteq Paths
  BY SeqMonotonic DEF Paths, Component
<1>2. ASSUME NEW p \in Paths, \A i \in 1..Len(p) : p[i] \in Names
      PROVE  p \in Seq(Names)
  <2>1. Len(p) \in Nat /\ SubSeq(p, 1, Len(p)) = p
    BY LenProperties, SubSeqFull DEF Paths
  <2>2. QED
    BY <1>2, <2>1, SubSeqProperties
<1>3. ASSUME NEW p \in Seq(Names) PROVE \A i \in 1..Len(p) : p[i] \in Names
  BY ElementOfSeq
<1>4. ASSUME NEW p \in Paths, NEW q \in Seq(Names), Below(p, q)
      PROVE  p \in Seq(Names)
  <2>1. /\ Len(p) \in Nat /\ Len(q) \in Nat /\ Len(p) <= Len(q)
        /\ \A i \in 1..Len(p) : p[i] = q[i]
    BY <1>1, <1>4, BelowIs
  <2>2. QED
    BY <1>2, <1>3, <1>4, <2>1
<1>5. QED
  BY <1>1, <1>2, <1>3, <1>4

-----------------------------------------------------------------------------
(***************************************************************************)
(* The places of a pull: its destination, its stage and what goes there.   *)
(***************************************************************************)
\* Destinations and stages are paths, and stages have names of their own.
LEMMA PlacesAre ==
  ASSUME NEW c \in Clients
  PROVE  /\ Dest[c] \in Seq(Names) /\ Dest[c] \in Paths /\ Dest[c] # Root
         /\ Parent(Dest[c]) \in Seq(Names) /\ Parent(Dest[c]) \in Paths
         /\ Stage(c) \in Paths /\ Len(Stage(c)) = Len(Dest[c]) /\ Stage(c) # Root
         /\ Parent(Stage(c)) = Parent(Dest[c]) /\ Stage(c)[Len(Dest[c])] = c
         /\ Payload(c) \in Paths /\ Len(Payload(c)) = Len(Stage(c)) + 1 /\ Payload(c) # Root
         /\ Payload(c)[Len(Stage(c)) + 1] = "payload"
         /\ Parent(Payload(c)) = Stage(c) /\ Below(Stage(c), Payload(c))
<1>1. Dest[c] \in Seq(Names) /\ Len(Dest[c]) \in Nat /\ Len(Dest[c]) > 0
  BY DestAssumption
<1>2. Dest[c] \in Paths /\ Dest[c] # Root
  BY <1>1, NamedAbove, PathOrder
<1>3. Parent(Dest[c]) \in Paths /\ Len(Parent(Dest[c])) = Len(Dest[c]) - 1
      /\ Below(Parent(Dest[c]), Dest[c])
  BY <1>2, ParentIs
<1>4. Parent(Dest[c]) \in Seq(Names)
  BY <1>1, <1>3, NamedAbove
<1>5. c \in Component /\ "payload" \in Component
  BY NamesAssumption DEF Component
<1>6. /\ Stage(c) \in Paths /\ Len(Stage(c)) = Len(Dest[c]) /\ Stage(c) # Root
      /\ Parent(Stage(c)) = Parent(Dest[c]) /\ Stage(c)[Len(Dest[c])] = c
  BY <1>1, <1>3, <1>5, ChildIs DEF Stage
<1>7. /\ Payload(c) \in Paths /\ Len(Payload(c)) = Len(Stage(c)) + 1 /\ Payload(c) # Root
      /\ Payload(c)[Len(Stage(c)) + 1] = "payload" /\ Parent(Payload(c)) = Stage(c)
  BY <1>5, <1>6, ChildIs DEF Payload
<1>8. Below(Stage(c), Payload(c))
  BY <1>7, ParentIs
<1>9. QED
  BY <1>1, <1>2, <1>3, <1>4, <1>6, <1>7, <1>8

\* What lies in a stage has a name that is not given, and lies in no other.
LEMMA StagesApart ==
  ASSUME NEW c \in Clients, NEW p \in Paths, Below(Stage(c), p)
  PROVE  /\ p \notin Seq(Names)
         /\ \A d \in Clients : Below(Stage(d), p) => d = c
<1>1. /\ Stage(c) \in Paths /\ Stage(c)[Len(Stage(c))] = c /\ Len(Stage(c)) \in Nat \ {0}
      /\ \A q \in Paths : Below(Stage(c), q) => q \notin Seq(Names)
  <2>1. Stage(c) \in Paths /\ Stage(c)[Len(Stage(c))] = c /\ Len(Stage(c)) \in Nat \ {0}
    BY PlacesAre, ParentIs
  <2>2. Stage(c) \notin Seq(Names)
    BY <2>1, NamedAbove, NamesAssumption
  <2>3. QED
    BY <2>1, <2>2, NamedAbove
<1>2. ASSUME NEW d \in Clients, Below(Stage(d), p)
      PROVE  d = c
  <2>1. /\ Stage(d) \in Paths /\ Stage(d)[Len(Stage(d))] = d
        /\ Parent(Stage(d)) \in Seq(Names) /\ Parent(Stage(c)) \in Seq(Names)
        /\ Parent(Stage(d)) \in Paths /\ Parent(Stage(c)) \in Paths
        /\ Stage(c) # Root /\ Stage(d) # Root
    BY PlacesAre
  <2>2. Below(Stage(c), Stage(d)) \/ Below(Stage(d), Stage(c))
    BY <1>1, <1>2, <2>1, PathOrder
  <2>3. Stage(d) \notin Seq(Names)
    BY <2>1, PlacesAre, ParentIs, NamedAbove, NamesAssumption
  <2>4. Stage(c) = Stage(d)
    <3>1. ASSUME Stage(c) # Stage(d), Below(Stage(c), Stage(d)) PROVE FALSE
      BY <1>1, <2>1, <3>1, ParentIs
    <3>2. ASSUME Stage(c) # Stage(d), Below(Stage(d), Stage(c)) PROVE FALSE
      <4>1. Below(Stage(d), Parent(Stage(c)))
        BY <1>1, <2>1, <3>2, ParentIs
      <4>2. QED
        BY <2>1, <2>3, <4>1, NamedAbove
    <3>3. QED
      BY <2>2, <3>1, <3>2
  <2>5. QED
    BY <1>1, <2>1, <2>4
<1>3. QED
  BY <1>1, <1>2

\* Between a stage and what is in it.
LEMMA StageBetween ==
  ASSUME NEW c \in Clients, NEW q, InStage(c, q), NEW p \in Paths, Below(Stage(c), p), Below(p, q)
  PROVE  InStage(c, p)
<1>1. /\ Len(p) \in Nat /\ Len(q) \in Nat /\ q \in Paths /\ Len(p) <= Len(q)
      /\ \A i \in 1..Len(p) : p[i] = q[i]
  BY BelowIs DEF InStage
<1>2. Len(Stage(c)) \in Nat
  BY PlacesAre, BelowIs
<1>3. QED
  BY <1>1, <1>2 DEF InStage

\* The ancestors of what lies in a stage.
LEMMA AboveStaged ==
  ASSUME NEW c \in Clients, NEW q, InStage(c, q), NEW p \in Paths, Below(p, q)
  PROVE  InStage(c, p) \/ (Below(p, Parent(Dest[c])) /\ p \in Seq(Names))
<1>1. /\ Stage(c) \in Paths /\ Stage(c) # Root /\ Parent(Stage(c)) = Parent(Dest[c])
      /\ Parent(Dest[c]) \in Seq(Names) /\ q \in Paths /\ Below(Stage(c), q)
  BY PlacesAre DEF InStage
<1>2. CASE Below(Stage(c), p)
  BY <1>2, StageBetween
<1>3. CASE ~Below(Stage(c), p)
  <2>1. Below(p, Stage(c)) /\ p # Stage(c)
    BY <1>1, <1>3, PathOrder
  <2>2. QED
    BY <1>1, <2>1, ParentIs, NamedAbove
<1>4. QED
  BY <1>2, <1>3

\* A path below another is the one followed by the rest.
LEMMA JoinIs ==
  ASSUME NEW p \in Paths, NEW t \in Paths
  PROVE  /\ p \o t \in Paths /\ Len(p \o t) = Len(p) + Len(t) /\ Below(p, p \o t)
         /\ Len(p) \in Nat /\ Len(t) \in Nat
         /\ \A n \in 1..Len(p) : (p \o t)[n] = p[n]
         /\ \A n \in 1..Len(t) : (p \o t)[Len(p) + n] = t[n]
<1>1. PICK q \in Paths : q = p \o t
  BY ConcatProperties DEF Paths
<1>2. Len(p) \in Nat /\ Len(t) \in Nat
  BY BelowIs
<1>3. /\ Len(q) = Len(p) + Len(t)
      /\ \A i \in 1..(Len(p) + Len(t)) : q[i] = IF i <= Len(p) THEN p[i] ELSE t[i - Len(p)]
  BY <1>1, ConcatProperties DEF Paths
<1>4. \A n \in 1..Len(p) : q[n] = p[n]
  BY <1>2, <1>3
<1>5. ASSUME NEW n \in 1..Len(t) PROVE q[Len(p) + n] = t[n]
  <2>1. Len(p) + n \in 1..(Len(p) + Len(t)) /\ ~(Len(p) + n <= Len(p)) /\ (Len(p) + n) - Len(p) = n
    BY <1>2, <1>5
  <2>2. q[Len(p) + n] = t[(Len(p) + n) - Len(p)]
    BY <1>3, <2>1
  <2>3. QED
    BY <2>1, <2>2
<1>6. Below(p, q)
  BY <1>2, <1>3, <1>4, BelowIs
<1>7. QED
  BY <1>1, <1>2, <1>3, <1>4, <1>5, <1>6


\* What is left of a path below another, after it.
LEMMA RestIs ==
  ASSUME NEW p \in Paths, NEW q \in Paths, Below(p, q)
  PROVE  /\ SubSeq(q, Len(p) + 1, Len(q)) \in Paths
         /\ q = p \o SubSeq(q, Len(p) + 1, Len(q))
<1>1. Len(p) \in Nat /\ Len(q) \in Nat /\ Len(p) <= Len(q) /\ SubSeq(q, 1, Len(p)) = p
  BY BelowIs DEF Below
<1>2. \A i \in (Len(p) + 1)..Len(q) : q[i] \in Component
  BY <1>1, ElementOfSeq DEF Paths
<1>3. SubSeq(q, Len(p) + 1, Len(q)) \in Paths
  BY <1>1, <1>2, SubSeqProperties DEF Paths
<1>4. SubSeq(q, 1, Len(p)) \o SubSeq(q, Len(p) + 1, Len(q)) = SubSeq(q, 1, Len(q))
  <2>1. /\ 1 \in 1..(Len(q) + 1) /\ Len(p) \in 0..Len(q) /\ Len(q) \in Len(p)..Len(q)
        /\ 1 - 1 = 0
    BY <1>1
  <2>2. QED
    BY <2>1, ConcatAdjacentSubSeq DEF Paths
<1>5. QED
  BY <1>1, <1>3, <1>4, SubSeqFull DEF Paths

\* What two paths are to each other below r, they are below p.
LEMMA JoinOrder ==
  ASSUME NEW p \in Paths, NEW r \in Paths, NEW s \in Paths, NEW t \in Paths
  PROVE  /\ Below(r \o s, r \o t) => Below(p \o s, p \o t)
         /\ r \o s # r \o t => p \o s # p \o t
<1>1. ASSUME NEW a \in Paths, NEW b \in Paths, NEW d \in Paths
      PROVE  (a \o b) \o d = a \o (b \o d)
  <2>1. a \in Seq(Component) /\ b \in Seq(Component) /\ d \in Seq(Component)
    BY DEF Paths
  <2>2. QED
    BY <2>1, ConcatAssociative
<1>2. \A a, b, d \in Paths : a \o b = a \o d => b = d
  BY ConcatSimplifications DEF Paths
<1>3. \A a, b \in Paths : a \o b \in Paths /\ Below(a, a \o b)
  BY JoinIs
<1>4. ASSUME Below(r \o s, r \o t) PROVE Below(p \o s, p \o t)
  <2>1. PICK u \in Paths : r \o t = (r \o s) \o u
    <3>1. PICK a \in Paths, b \in Paths : a = r \o s /\ b = r \o t /\ Below(a, b)
      BY <1>3, <1>4
    <3>2. PICK u \in Paths : b = a \o u
      <4>1. /\ SubSeq(b, Len(a) + 1, Len(b)) \in Paths
            /\ b = a \o SubSeq(b, Len(a) + 1, Len(b))
        BY <3>1, RestIs
      <4>2. QED
        BY <4>1
    <3>3. QED
      BY <3>1, <3>2
  <2>2. t = s \o u
    <3>1. r \o t = r \o (s \o u) /\ s \o u \in Paths
      <4>1. (r \o s) \o u = r \o (s \o u)
        BY <1>1, SMTT(30)
      <4>2. s \o u \in Paths
        BY <1>3
      <4>3. QED
        BY <2>1, <4>1, <4>2
    <3>2. QED
      BY <1>2, <3>1
  <2>3. p \o t = (p \o s) \o u
    <3>1. (p \o s) \o u = p \o (s \o u)
      BY <1>1, SMTT(30)
    <3>2. QED
      BY <2>2, <3>1
  <2>4. PICK a \in Paths : a = p \o s
    BY <1>3
  <2>5. Below(a, a \o u)
    BY <1>3
  <2>6. QED
    BY <2>3, <2>4, <2>5
<1>5. QED
  BY <1>2, <1>4

\* A path below p, taken below r.
LEMMA InPlaceIs ==
  ASSUME NEW p \in Paths, NEW r \in Paths, NEW t \in Paths
  PROVE  InPlaceOf(p, r, p \o t) = r \o t
<1>1. PICK q \in Paths : q = p \o t /\ Below(p, q)
  BY JoinIs
<1>2. PICK u \in Paths : u = SubSeq(q, Len(p) + 1, Len(q)) /\ q = p \o u
  BY <1>1, RestIs
<1>3. u = t
  <2>1. p \in Seq(Component) /\ t \in Seq(Component) /\ u \in Seq(Component)
    BY DEF Paths
  <2>2. p \o u = p \o t
    BY <1>1, <1>2
  <2>3. QED
    BY <2>1, <2>2, ConcatSimplifications
<1>4. QED
  BY <1>1, <1>2, <1>3 DEF InPlaceOf

\* What is in the stage of a pull is made of given names, below the stage.
LEMMA StagedNames ==
  ASSUME NEW c \in Clients, NEW t \in Paths
  PROVE  InStage(c, Payload(c) \o t) <=> t \in Seq(Names)
<1>1. PICK q \in Paths : q = Payload(c) \o t
  BY PlacesAre, JoinIs
<1>2. /\ Payload(c) \in Paths /\ Stage(c) \in Paths /\ Len(Payload(c)) = Len(Stage(c)) + 1
      /\ Payload(c)[Len(Stage(c)) + 1] = "payload" /\ Below(Stage(c), Payload(c))
      /\ Len(Stage(c)) \in Nat
  BY PlacesAre, BelowIs
<1>3. /\ Len(q) = Len(Payload(c)) + Len(t) /\ Len(t) \in Nat /\ Below(Payload(c), q)
      /\ \A n \in 1..Len(Payload(c)) : q[n] = Payload(c)[n]
      /\ \A n \in 1..Len(t) : q[Len(Payload(c)) + n] = t[n]
  <2>1. /\ Len(q) = Len(Payload(c)) + Len(t) /\ Len(t) \in Nat /\ Below(Payload(c), q)
        /\ \A n \in 1..Len(Payload(c)) : q[n] = Payload(c)[n]
    <3>1. PICK p \in Paths : p = Payload(c)
      BY <1>2
    <3>2. /\ Len(p \o t) = Len(p) + Len(t) /\ Len(t) \in Nat /\ Below(p, p \o t)
          /\ \A n \in 1..Len(p) : (p \o t)[n] = p[n]
      BY JoinIs
    <3>3. QED
      BY <1>1, <3>1, <3>2
  <2>2. ASSUME NEW n \in 1..Len(t) PROVE q[Len(Payload(c)) + n] = t[n]
    <3>1. \A k \in 1..Len(t) : (Payload(c) \o t)[Len(Payload(c)) + k] = t[k]
      BY <1>2, JoinIs
    <3>2. QED
      BY <1>1, <3>1
  <2>3. QED
    BY <2>1, <2>2
<1>4. Below(Stage(c), q)
  BY <1>2, <1>3, PathOrder
<1>5. ASSUME t \in Seq(Names), NEW n \in (Len(Stage(c)) + 1)..Len(q)
      PROVE  q[n] \in Names
  <2>1. CASE n = Len(Payload(c))
    BY <1>2, <1>3, <2>1, NamesAssumption
  <2>2. CASE n # Len(Payload(c))
    <3>1. PICK k \in 1..Len(t) : n = Len(Payload(c)) + k
      <4>1. n \in Nat /\ n > Len(Payload(c)) /\ n <= Len(Payload(c)) + Len(t)
        BY <1>2, <1>3, <1>5, <2>2
      <4>2. n - Len(Payload(c)) \in 1..Len(t) /\ n = Len(Payload(c)) + (n - Len(Payload(c)))
        BY <1>2, <1>3, <4>1
      <4>3. QED
        BY <4>2
    <3>2. t[k] \in Names
      BY <1>5, <3>1, ElementOfSeq
    <3>3. QED
      BY <1>3, <3>1, <3>2
  <2>3. QED
    BY <2>1, <2>2
<1>6. ASSUME InStage(c, q) PROVE t \in Seq(Names)
  <2>1. ASSUME NEW k \in 1..Len(t) PROVE t[k] \in Names
    <3>1. PICK n \in Nat : n = Len(Payload(c)) + k
      BY <1>2
    <3>2. n \in (Len(Stage(c)) + 1)..Len(q) /\ q[n] = t[k]
      BY <1>2, <1>3, <3>1
    <3>3. QED
      BY <1>6, <3>2 DEF InStage
  <2>2. QED
    BY <2>1, NamedAbove
<1>7. QED
  BY <1>1, <1>4, <1>5, <1>6 DEF InStage

\* The entries of a manifest, where they are staged and where they are published.
LEMMA TargetIs ==
  ASSUME NEW c \in Clients, NEW i \in 1..Len(Entries(c))
  PROVE  /\ Entries(c)[i].path \in Seq(Names) /\ Entries(c)[i].path \in Paths
         /\ Entries(c)[i].directory \in BOOLEAN /\ Len(Entries(c)) \in Nat
         /\ InStage(c, Target(c, i)) /\ Below(Payload(c), Target(c, i))
         /\ Target(c, i) # Root /\ InStage(c, Parent(Target(c, i)))
         /\ Dest[c] \o Entries(c)[i].path \in Seq(Names)
         /\ Below(Dest[c], Dest[c] \o Entries(c)[i].path)
<1>1. /\ Len(Entries(c)) \in Nat /\ Entries(c)[i].directory \in BOOLEAN
      /\ Entries(c)[i].path \in Seq(Names) /\ Entries(c)[i].path \in Paths
  <2>1. Entries(c) \in Seq([directory : BOOLEAN, path : Seq(Names)])
    BY ManifestAssumption DEF Entries
  <2>2. Entries(c)[i] \in [directory : BOOLEAN, path : Seq(Names)] /\ Len(Entries(c)) \in Nat
    BY <2>1, ElementOfSeq, LenProperties
  <2>3. QED
    BY <2>2, NamedAbove
<1>2. PICK s \in Seq(Names) : s = Entries(c)[i].path /\ s \in Paths
  BY <1>1
<1>3. /\ Payload(c) \in Paths /\ Stage(c) \in Paths /\ Dest[c] \in Seq(Names) /\ Dest[c] \in Paths
      /\ Below(Stage(c), Payload(c)) /\ Parent(Payload(c)) = Stage(c) /\ Payload(c) # Root
      /\ Len(Payload(c)) = Len(Stage(c)) + 1
  BY PlacesAre
<1>4. PICK t \in Paths : t = Payload(c) \o s /\ Below(Payload(c), t) /\ t = Target(c, i)
  BY <1>2, <1>3, JoinIs DEF Target
<1>5. InStage(c, t)
  BY <1>2, <1>4, StagedNames
<1>6. t # Root /\ Stage(c) # t
  <2>1. Len(Stage(c)) \in Nat /\ Len(t) >= Len(Stage(c)) + 1 /\ Len(t) \in Nat
    BY <1>3, <1>4, BelowIs, PathOrder
  <2>2. QED
    BY <2>1, PathOrder
<1>7. InStage(c, Parent(t))
  <2>1. Parent(t) \in Paths /\ Below(Parent(t), t)
    BY <1>6, ParentIs
  <2>2. Below(Stage(c), Parent(t))
    BY <1>3, <1>5, <1>6, ParentIs DEF InStage
  <2>3. QED
    BY <1>5, <2>1, <2>2, StageBetween
<1>8. Dest[c] \o s \in Seq(Names) /\ Below(Dest[c], Dest[c] \o s)
  BY <1>2, <1>3, JoinIs, ConcatProperties
<1>9. QED
  BY <1>1, <1>2, <1>4, <1>5, <1>6, <1>7, <1>8


-----------------------------------------------------------------------------
(***************************************************************************)
(* The tree: what the answers of the calls say, and what each call leaves. *)
(***************************************************************************)
WellRooted(t) ==
  /\ Root \in DOMAIN t
  /\ \A q \in DOMAIN t, p \in Paths : Below(p, q) /\ p # q => p \in DOMAIN t /\ t[p].kind = "dir"

\* The proper ancestors of what there is are directories.
LEMMA RootedIs == NodeOK => (Rooted <=> WellRooted(node))
<1> SUFFICES ASSUME NodeOK PROVE Rooted <=> WellRooted(node)
  OBVIOUS
<1>1. ASSUME Rooted, NEW q \in DOMAIN node, NEW p \in Paths, Below(p, q), p # q
      PROVE  p \in DOMAIN node /\ node[p].kind = "dir"
  <2>1. q \in Paths /\ Len(p) \in Nat /\ Len(q) \in Nat /\ Len(p) <= Len(q) /\ Len(p) # Len(q)
        /\ SubSeq(q, 1, Len(p)) = p
    BY <1>1, PathOrder, BelowIs DEF NodeOK, Below
  <2>2. Len(p) \in 0..(Len(q) - 1)
    BY <2>1
  <2>3. QED
    BY <1>1, <2>1, <2>2 DEF Rooted
<1>2. ASSUME WellRooted(node), NEW q \in DOMAIN node, NEW n \in 0..(Len(q) - 1)
      PROVE  SubSeq(q, 1, n) \in DOMAIN node /\ node[SubSeq(q, 1, n)].kind = "dir"
  <2>1. q \in Paths /\ n \in 0..Len(q) /\ n < Len(q)
    BY <1>2, BelowIs DEF NodeOK
  <2>2. SubSeq(q, 1, n) \in Paths /\ Below(SubSeq(q, 1, n), q) /\ SubSeq(q, 1, n) # q
    BY <2>1, PrefixAbove
  <2>3. QED
    BY <1>2, <2>2 DEF WellRooted
<1>3. QED
  BY <1>1, <1>2 DEF Rooted, WellRooted

\* A file in the way of a path.
LEMMA UnderFileIs ==
  ASSUME NodeOK, NEW p \in Paths
  PROVE  UnderFile(p) <=> \E q \in DOMAIN node : Below(q, p) /\ q # p /\ node[q].kind = "file"
<1>1. Len(p) \in Nat
  BY BelowIs
<1>2. ASSUME UnderFile(p)
      PROVE  \E q \in DOMAIN node : Below(q, p) /\ q # p /\ node[q].kind = "file"
  <2>1. PICK n \in 0..(Len(p) - 1) :
          SubSeq(p, 1, n) \in DOMAIN node /\ node[SubSeq(p, 1, n)].kind = "file"
    BY <1>2 DEF UnderFile
  <2>2. n \in 0..Len(p) /\ n < Len(p)
    BY <1>1
  <2>3. Below(SubSeq(p, 1, n), p) /\ SubSeq(p, 1, n) # p
    BY <2>2, PrefixAbove
  <2>4. QED
    BY <2>1, <2>3
<1>3. ASSUME NEW q \in DOMAIN node, Below(q, p), q # p, node[q].kind = "file"
      PROVE  UnderFile(p)
  <2>1. /\ q \in Paths /\ Len(q) \in Nat /\ Len(q) <= Len(p) /\ Len(q) # Len(p)
        /\ SubSeq(p, 1, Len(q)) = q
    BY <1>3, PathOrder, BelowIs DEF NodeOK, Below
  <2>2. Len(q) \in 0..(Len(p) - 1)
    BY <1>1, <2>1
  <2>3. QED
    BY <1>3, <2>1, <2>2 DEF UnderFile
<1>4. QED
  BY <1>2, <1>3

\* Where mkdir, open with `wx' and rename succeed, nothing is, in a directory.
LEMMA MkdirOk ==
  ASSUME NodeOK, Rooted, NEW p \in Paths, Mkdir(p) = "ok"
  PROVE  /\ p # Root /\ ~UnderFile(p)
         /\ Parent(p) \in DOMAIN node /\ node[Parent(p)].kind = "dir"
         /\ \A q \in DOMAIN node : ~Below(p, q)
<1>1. ~UnderFile(p) /\ p \notin DOMAIN node /\ Parent(p) \in DOMAIN node
  BY DEF Mkdir
<1>2. p # Root
  BY <1>1 DEF Rooted
<1>3. node[Parent(p)].kind = "dir"
  <2>1. Below(Parent(p), p) /\ Parent(p) # p
    BY <1>2, ParentIs
  <2>2. node[Parent(p)].kind # "file"
    BY <1>1, <2>1, UnderFileIs
  <2>3. node[Parent(p)].kind \in {"dir", "file"}
    BY <1>1 DEF NodeOK, Nodes
  <2>4. QED
    BY <2>2, <2>3
<1>4. \A q \in DOMAIN node : ~Below(p, q)
  BY <1>1, RootedIs DEF WellRooted
<1>5. QED
  BY <1>1, <1>2, <1>3, <1>4

\* What lstat, and rmdir of a directory, say.
LEMMA LookIs ==
  ASSUME NodeOK, Rooted, NEW p \in Paths
  PROVE  /\ Lstat(p) = "ENOENT" => p \notin DOMAIN node /\ p # Root
         /\ Rmdir(p) = "ok" => \A q \in DOMAIN node : Below(p, q) => q = p
         /\ Rmdir(p) = "ENOTEMPTY" => \E q \in DOMAIN node : Below(p, q) /\ q # p
         /\ p \in DOMAIN node /\ node[p].kind = "dir" => Rmdir(p) \in {"ok", "ENOTEMPTY"}
<1>1. Lstat(p) = "ENOENT" => p \notin DOMAIN node
  BY DEF Lstat, NodeOK, Nodes
<1>2. p \in DOMAIN node => ~UnderFile(p)
  <2>1. ASSUME p \in DOMAIN node, UnderFile(p) PROVE FALSE
    <3>1. PICK q \in DOMAIN node : Below(q, p) /\ q # p /\ node[q].kind = "file"
      BY <2>1, UnderFileIs
    <3>2. node[q].kind = "dir"
      BY <2>1, <3>1, RootedIs DEF WellRooted, NodeOK
    <3>3. QED
      BY <3>1, <3>2
  <2>2. QED
    BY <2>1
<1>3. QED
  BY <1>1, <1>2 DEF Rmdir, Rooted

(***************************************************************************)
(* What w may do to the tree in a step: make things, and remove its own,   *)
(* in its stage or on the way to its destination once it has worked there. *)
(***************************************************************************)
Early == {"inspect", "find", "make", "check"}

\* w leaves what others made, what is new is its own, and what goes was in its
\* stage or is a parent of its destination, after it had come as far as a stage.
Minds(w) ==
  /\ \A p \in DOMAIN node : node[p].by # w => p \in DOMAIN node' /\ node'[p] = node[p]
  /\ \A p \in DOMAIN node' : node'[p].by # w => p \in DOMAIN node /\ node'[p] = node[p]
  /\ \A p \in DOMAIN node \ DOMAIN node' :
       /\ w \in Clients /\ pc[w] \notin Early
       /\ Below(Stage(w), p) \/ Below(p, Parent(Dest[w]))

\* Nothing of the tree goes, and what is new is by w and among the given paths.
Grows(w, new) ==
  /\ \A p \in DOMAIN node : p \in DOMAIN node' /\ node'[p] = node[p]
  /\ \A p \in DOMAIN node' \ DOMAIN node : p \in new /\ node'[p].by = w

\* Making one file or directory.
LEMMA MadeOne ==
  ASSUME TreeOK, NEW w \in Makers, NEW p \in Paths, Mkdir(p) = "ok",
         p \in Seq(Names) \/ (w \in Clients /\ InStage(w, p)),
         NEW k \in {"dir", "file"}, node' = With(p, [kind |-> k, by |-> w])
  PROVE  TreeOK' /\ Grows(w, {p}) /\ p \in DOMAIN node' /\ node'[p] = [kind |-> k, by |-> w]
<1>1. /\ p # Root /\ Parent(p) \in DOMAIN node /\ node[Parent(p)].kind = "dir"
      /\ \A q \in DOMAIN node : ~Below(p, q)
      /\ p \notin DOMAIN node
  BY MkdirOk, PathOrder DEF TreeOK
<1>2. /\ DOMAIN node' = DOMAIN node \cup {p} /\ node'[p] = [kind |-> k, by |-> w]
      /\ \A q \in DOMAIN node : node'[q] = node[q]
      /\ node' = [q \in DOMAIN node' |-> node'[q]]
  BY <1>1 DEF With
<1>3. NodeOK'
  BY <1>2 DEF TreeOK, NodeOK, Nodes
<1>4. Rooted'
  <2>1. WellRooted(node)
    BY RootedIs DEF TreeOK
  <2>2. ASSUME NEW q \in DOMAIN node', NEW r \in Paths, Below(r, q), r # q
        PROVE  r \in DOMAIN node' /\ node'[r].kind = "dir"
    <3>1. CASE q \in DOMAIN node
      BY <1>2, <2>1, <2>2, <3>1 DEF WellRooted
    <3>2. CASE q = p
      <4>1. Below(r, Parent(p))
        BY <1>1, <2>2, <3>2, ParentIs
      <4>2. r = Parent(p) \/ (r \in DOMAIN node /\ node[r].kind = "dir")
        BY <1>1, <2>1, <4>1 DEF WellRooted
      <4>3. QED
        BY <1>1, <1>2, <4>2
    <3>3. QED
      BY <1>2, <2>2, <3>1, <3>2
  <2>3. WellRooted(node')
    BY <1>2, <2>1, <2>2 DEF WellRooted
  <2>4. (NodeOK => (Rooted <=> WellRooted(node)))'
    BY RootedIs, PTL
  <2>5. QED
    BY <1>3, <2>3, <2>4
<1>5. Placed'
  BY <1>2 DEF TreeOK, Placed
<1>6. QED
  BY <1>2, <1>3, <1>4, <1>5 DEF TreeOK, Grows

\* A mkdir of a pull in its stage, with all that is missing above it if asked.
LEMMA Carried ==
  ASSUME TreeOK, NEW c \in Clients, NEW call, InStage(c, call.path), node' = Carry(c, call)
  PROVE  /\ TreeOK'
         /\ Grows(c, {p \in Paths : InStage(c, p) \/ Ancestor(c, p)})
         /\ Stage(c) \in DOMAIN node => Grows(c, {p \in Paths : InStage(c, p)})
         /\ ~call.deep /\ call.path \in DOMAIN node' /\ call.path \notin DOMAIN node =>
              node'[call.path] = Dir(c)
<1>1. call.path \in Paths /\ c \in Makers
  BY DEF InStage, Makers
<1>2. CASE node' = node
  BY <1>2 DEF TreeOK, NodeOK, Rooted, Placed, Grows
<1>3. CASE ~call.deep /\ node' # node
  <2>1. Mkdir(call.path) = "ok" /\ node' = With(call.path, [kind |-> "dir", by |-> c])
    BY <1>3 DEF Carry, Dir
  <2>2. TreeOK' /\ Grows(c, {call.path}) /\ node'[call.path] = Dir(c)
    BY <1>1, <2>1, MadeOne DEF Dir
  <2>3. QED
    BY <1>1, <2>2 DEF Grows
<1>4. CASE call.deep /\ node' # node
  <2> DEFINE above == {SubSeq(call.path, 1, n) : n \in 1..Len(call.path)}
  <2>1. /\ ~UnderFile(call.path)
        /\ node' = [q \in DOMAIN node \cup above |-> IF q \in DOMAIN node THEN node[q] ELSE Dir(c)]
    BY <1>4 DEF Carry, MkdirAll
  <2>2. ASSUME NEW q \in above
        PROVE  q \in Paths /\ Below(q, call.path) /\ q # Root
    <3>1. PICK n \in 1..Len(call.path) : q = SubSeq(call.path, 1, n)
      BY <2>2
    <3>2. n \in 0..Len(call.path) /\ n # 0
      BY <1>1, <3>1, BelowIs
    <3>3. QED
      BY <1>1, <3>1, <3>2, PrefixAbove
  <2>3. ASSUME NEW q \in Paths, Below(q, call.path), q # Root PROVE q \in above
    <3>1. Len(q) \in 1..Len(call.path) /\ q = SubSeq(call.path, 1, Len(q))
      BY <1>1, <2>3, BelowIs, PathOrder DEF Below
    <3>2. QED
      BY <3>1
  <2> HIDE DEF above
  <2>4. /\ DOMAIN node' = DOMAIN node \cup above
        /\ \A q \in DOMAIN node : node'[q] = node[q]
        /\ \A q \in DOMAIN node' \ DOMAIN node : q \in above /\ node'[q] = Dir(c)
    BY <2>1
  <2>5. NodeOK'
    BY <1>1, <2>1, <2>2, <2>4 DEF TreeOK, NodeOK, Nodes, Dir
  <2>6. WellRooted(node')
    <3>1. WellRooted(node)
      BY RootedIs DEF TreeOK
    <3>2. ASSUME NEW q \in DOMAIN node', NEW r \in Paths, Below(r, q), r # q
          PROVE  r \in DOMAIN node' /\ node'[r].kind = "dir"
      <4>1. CASE q \in DOMAIN node
        BY <2>4, <3>1, <3>2, <4>1 DEF WellRooted
      <4>2. CASE q \notin DOMAIN node
        <5>1. q \in Paths /\ Below(q, call.path)
          BY <2>2, <2>4, <4>2
        <5>2. Below(r, call.path) /\ r # call.path
          BY <1>1, <3>2, <5>1, PathOrder
        <5>3. r \in DOMAIN node'
          BY <2>3, <2>4, <3>1, <5>2 DEF WellRooted
        <5>4. r \in DOMAIN node => node[r].kind # "file"
          BY <1>1, <2>1, <5>2, UnderFileIs DEF TreeOK
        <5>5. QED
          BY <2>4, <5>3, <5>4 DEF TreeOK, NodeOK, Nodes, Dir
      <4>3. QED
        BY <4>1, <4>2
    <3>3. QED
      BY <2>4, <3>1, <3>2 DEF WellRooted
  <2>7. Rooted'
    <3>1. (NodeOK => (Rooted <=> WellRooted(node)))'
      BY RootedIs, PTL
    <3>2. QED
      BY <2>5, <2>6, <3>1
  <2>8. ASSUME NEW q \in DOMAIN node' \ DOMAIN node
        PROVE  InStage(c, q) \/ (Ancestor(c, q) /\ q \in Seq(Names))
    BY <2>2, <2>4, <2>8, AboveStaged DEF Ancestor
  <2>9. Placed'
    BY <2>4, <2>8 DEF TreeOK, Placed, Dir
  <2>10. Grows(c, {p \in Paths : InStage(c, p) \/ Ancestor(c, p)})
    BY <2>4, <2>5, <2>8 DEF Grows, Dir, NodeOK
  <2>11. ASSUME Stage(c) \in DOMAIN node, NEW q \in DOMAIN node' \ DOMAIN node
         PROVE  InStage(c, q)
    <3>1. WellRooted(node) /\ Stage(c) \in Paths /\ Stage(c) # Root /\ q \in Paths
          /\ Parent(Dest[c]) = Parent(Stage(c))
      BY <2>2, <2>4, <2>11, RootedIs, PlacesAre DEF TreeOK
    <3>2. ASSUME Ancestor(c, q) PROVE FALSE
      <4>1. Below(q, Stage(c)) /\ q # Stage(c)
        <5>1. Len(q) <= Len(Parent(Stage(c))) /\ Len(Parent(Stage(c))) = Len(Stage(c)) - 1
              /\ Parent(Stage(c)) \in Paths /\ Below(Parent(Stage(c)), Stage(c))
              /\ Len(Stage(c)) \in Nat /\ Len(q) \in Nat
          BY <3>1, <3>2, ParentIs, PathOrder, BelowIs DEF Ancestor
        <5>2. QED
          BY <3>1, <3>2, <5>1, PathOrder DEF Ancestor
      <4>2. QED
        BY <2>11, <3>1, <4>1 DEF WellRooted
    <3>3. QED
      BY <2>8, <2>11, <3>2
  <2>12. QED
    BY <1>4, <2>4, <2>5, <2>7, <2>9, <2>10, <2>11 DEF TreeOK, Grows, Dir, NodeOK
<1>5. QED
  BY <1>2, <1>3, <1>4

\* Removing what lies in r.
LEMMA RemovedAll ==
  ASSUME TreeOK, NEW r \in Paths, r # Root, node' = Without(r)
  PROVE  /\ TreeOK'
         /\ \A p \in DOMAIN node' : p \in DOMAIN node /\ node'[p] = node[p] /\ ~Below(r, p)
         /\ \A p \in DOMAIN node : Below(r, p) \/ (p \in DOMAIN node' /\ node'[p] = node[p])
<1>1. /\ DOMAIN node' = {q \in DOMAIN node : ~Below(r, q)}
      /\ \A q \in DOMAIN node' : node'[q] = node[q]
      /\ node' = [q \in DOMAIN node' |-> node'[q]]
  BY DEF Without
<1>2. NodeOK'
  BY <1>1 DEF TreeOK, NodeOK
<1>3. Rooted'
  <2>1. WellRooted(node)
    BY RootedIs DEF TreeOK
  <2>2. ~Below(r, Root)
    BY PathOrder, BelowIs
  <2>3. ASSUME NEW q \in DOMAIN node', NEW p \in Paths, Below(p, q), p # q
        PROVE  p \in DOMAIN node' /\ node'[p].kind = "dir"
    <3>1. p \in DOMAIN node /\ node[p].kind = "dir" /\ q \in Paths
      BY <1>1, <2>1, <2>3 DEF WellRooted, TreeOK, NodeOK
    <3>2. ~Below(r, p)
      BY <1>1, <2>3, <3>1, PathOrder
    <3>3. QED
      BY <1>1, <3>1, <3>2
  <2>4. WellRooted(node')
    BY <1>1, <2>1, <2>2, <2>3 DEF WellRooted
  <2>5. (NodeOK => (Rooted <=> WellRooted(node)))'
    BY RootedIs, PTL
  <2>6. QED
    BY <1>2, <2>4, <2>5
<1>4. Placed'
  BY <1>1 DEF TreeOK, Placed
<1>5. QED
  BY <1>1, <1>2, <1>3, <1>4 DEF TreeOK

\* In a stage there is only what its own pull made.
StagesOwned ==
  \A d \in Clients : \A q \in DOMAIN node :
    Below(Stage(d), q) => InStage(d, q) /\ node[q].by = d

\* ... since every path with such a name is there by that pull.
LEMMA StageIsOwn == TreeOK => StagesOwned
BY StagesApart DEF TreeOK, Placed, NodeOK, InStage, StagesOwned

\* The rename: what was below the payload is below the destination instead.
LEMMA MovedAll ==
  ASSUME TreeOK, NEW c \in Clients, Mkdir(Dest[c]) = "ok", node' = Moved(c)
  PROVE  /\ TreeOK'
         /\ \A p \in DOMAIN node : ~Below(Payload(c), p) =>
              p \in DOMAIN node' /\ node'[p] = node[p] /\ ~Below(Dest[c], p)
         /\ \A p \in DOMAIN node' :
              \/ p \in DOMAIN node /\ node'[p] = node[p] /\ ~Below(Payload(c), p)
              \/ Below(Dest[c], p) /\ node'[p].by = c
         /\ \A t \in Paths : Payload(c) \o t \in DOMAIN node =>
              Dest[c] \o t \in DOMAIN node' /\ node'[Dest[c] \o t] = node[Payload(c) \o t]
<1> DEFINE moving == {q \in DOMAIN node : Below(Payload(c), q)}
           staying == DOMAIN node \ moving
           up == {InPlaceOf(Payload(c), Dest[c], q) : q \in moving}
<1>1. /\ Payload(c) \in Paths /\ Dest[c] \in Paths /\ Dest[c] \in Seq(Names) /\ Dest[c] # Root
      /\ Stage(c) \in Paths /\ Below(Stage(c), Payload(c)) /\ Payload(c) # Root
  BY PlacesAre
<1>2. /\ Parent(Dest[c]) \in DOMAIN node /\ node[Parent(Dest[c])].kind = "dir"
      /\ \A q \in DOMAIN node : ~Below(Dest[c], q)
  BY <1>1, MkdirOk DEF TreeOK
<1>3. ASSUME NEW q \in moving
      PROVE  \E t \in Paths : q = Payload(c) \o t
  BY <1>1, RestIs DEF TreeOK, NodeOK
<1>4. ASSUME NEW t \in Paths, Payload(c) \o t \in DOMAIN node
      PROVE  /\ Payload(c) \o t \in moving /\ InPlaceOf(Payload(c), Dest[c], Payload(c) \o t) = Dest[c] \o t
             /\ Dest[c] \o t \in up /\ Dest[c] \o t \in Paths /\ Below(Dest[c], Dest[c] \o t)
             /\ Dest[c] \o t \notin DOMAIN node
             /\ InPlaceOf(Dest[c], Payload(c), Dest[c] \o t) = Payload(c) \o t
             /\ t \in Seq(Names) /\ Dest[c] \o t \in Seq(Names)
             /\ node[Payload(c) \o t].by = c
  <2>1. Below(Payload(c), Payload(c) \o t) /\ Payload(c) \o t \in Paths
    BY <1>1, JoinIs
  <2>2. Payload(c) \o t \in moving
    BY <1>4, <2>1
  <2>3. InPlaceOf(Payload(c), Dest[c], Payload(c) \o t) = Dest[c] \o t
        /\ InPlaceOf(Dest[c], Payload(c), Dest[c] \o t) = Payload(c) \o t
    BY <1>1, InPlaceIs
  <2>4. Dest[c] \o t \in Paths /\ Below(Dest[c], Dest[c] \o t)
    BY <1>1, JoinIs
  <2>5. Below(Stage(c), Payload(c) \o t)
    BY <1>1, <2>1, PathOrder
  <2>6. InStage(c, Payload(c) \o t) /\ node[Payload(c) \o t].by = c
    BY <1>4, <2>5, StageIsOwn DEF StagesOwned
  <2>7. t \in Seq(Names)
    BY <2>6, StagedNames
  <2>8. Dest[c] \o t \in Seq(Names)
    BY <1>1, <2>7, ConcatProperties
  <2>9. Dest[c] \o t \in up
    BY <2>2, <2>3
  <2>10. QED
    BY <1>2, <2>2, <2>3, <2>4, <2>6, <2>7, <2>8, <2>9
<1>5. ASSUME NEW p \in up
      PROVE  \E t \in Paths : Payload(c) \o t \in DOMAIN node /\ p = Dest[c] \o t
  <2>1. PICK q \in moving : p = InPlaceOf(Payload(c), Dest[c], q)
    BY <1>5
  <2>2. PICK t \in Paths : q = Payload(c) \o t
    BY <1>3
  <2>3. QED
    BY <1>4, <2>1, <2>2
<1>6. node' = [p \in staying \cup up |->
                 IF p \in staying THEN node[p] ELSE node[InPlaceOf(Dest[c], Payload(c), p)]]
  BY DEF Moved
<1>7. \A p \in staying : p \in DOMAIN node /\ ~Below(Payload(c), p)
  OBVIOUS
<1>8. \A p \in DOMAIN node : ~Below(Payload(c), p) => p \in staying
  OBVIOUS
<1> HIDE DEF moving, staying, up
<1>9. DOMAIN node' = staying \cup up /\ \A p \in staying : node'[p] = node[p]
  BY <1>6
<1>10. ASSUME NEW t \in Paths, Payload(c) \o t \in DOMAIN node
       PROVE  Dest[c] \o t \in DOMAIN node' /\ node'[Dest[c] \o t] = node[Payload(c) \o t]
  <2>1. Dest[c] \o t \in up /\ Dest[c] \o t \notin staying
    BY <1>4, <1>7, <1>10
  <2>2. node'[Dest[c] \o t] = node[InPlaceOf(Dest[c], Payload(c), Dest[c] \o t)]
    BY <1>6, <2>1
  <2>3. QED
    BY <1>4, <1>9, <1>10, <2>1, <2>2
<1>11. ASSUME NEW p \in up
       PROVE  \E t \in Paths :
                /\ Payload(c) \o t \in DOMAIN node /\ p = Dest[c] \o t
                /\ node'[p] = node[Payload(c) \o t] /\ node'[p].by = c
                /\ p \in Seq(Names) /\ p \in Paths /\ Below(Dest[c], p)
  <2>1. PICK t \in Paths : Payload(c) \o t \in DOMAIN node /\ p = Dest[c] \o t
    BY <1>5, <1>11
  <2>2. node'[p] = node[Payload(c) \o t]
    BY <1>10, <2>1
  <2>3. p \in Seq(Names) /\ p \in Paths /\ Below(Dest[c], p) /\ node[Payload(c) \o t].by = c
    BY <1>4, <2>1
  <2>4. QED
    BY <2>1, <2>2, <2>3
<1>12. NodeOK'
  <2>1. \A p \in staying \cup up : p \in Paths /\ node'[p] \in Nodes
    BY <1>7, <1>9, <1>11 DEF TreeOK, NodeOK
  <2>2. node' = [p \in DOMAIN node' |-> node'[p]]
    BY <1>6
  <2>3. QED
    BY <1>9, <2>1, <2>2 DEF NodeOK
<1>13. WellRooted(node')
  <2>1. WellRooted(node)
    BY RootedIs DEF TreeOK
  <2>2. ~Below(Payload(c), Root)
    BY <1>1, PathOrder, BelowIs
  <2>3. ASSUME NEW q \in staying, NEW p \in Paths, Below(p, q), p # q
        PROVE  p \in DOMAIN node' /\ node'[p].kind = "dir"
    <3>1. p \in DOMAIN node /\ node[p].kind = "dir" /\ q \in Paths
      BY <1>7, <2>1, <2>3 DEF WellRooted, TreeOK, NodeOK
    <3>2. ~Below(Payload(c), p)
      BY <1>1, <1>7, <2>3, <3>1, PathOrder
    <3>3. QED
      BY <1>8, <1>9, <3>1, <3>2
  <2>4. ASSUME NEW q \in up, NEW p \in Paths, Below(p, q), p # q
        PROVE  p \in DOMAIN node' /\ node'[p].kind = "dir"
    <3>1. PICK t \in Paths :
            Payload(c) \o t \in DOMAIN node /\ q = Dest[c] \o t /\ Below(Dest[c], q) /\ q \in Seq(Names)
            /\ q \in Paths
      BY <1>11
    <3>2. p \in Seq(Names)
      BY <2>4, <3>1, NamedAbove
    <3>3. CASE Below(Dest[c], p)
      <4>1. PICK s \in Paths : p = Dest[c] \o s
        BY <1>1, <3>3, RestIs
      <4>2. PICK x \in Paths : x = Payload(c) \o s
        BY <1>1, JoinIs
      <4>3. PICK y \in Paths : y = Payload(c) \o t
        BY <1>1, JoinIs
      <4>4. Below(x, y) /\ x # y
        BY <1>1, <2>4, <3>1, <4>1, <4>2, <4>3, JoinOrder
      <4>5. x \in DOMAIN node /\ node[x].kind = "dir"
        BY <2>1, <3>1, <4>3, <4>4 DEF WellRooted
      <4>6. QED
        BY <1>10, <4>1, <4>2, <4>5
    <3>4. CASE ~Below(Dest[c], p)
      <4>1. Below(p, Dest[c]) /\ p # Dest[c]
        BY <1>1, <2>4, <3>1, <3>4, PathOrder
      <4>2. Below(p, Parent(Dest[c]))
        BY <1>1, <4>1, ParentIs
      <4>3. p \in DOMAIN node /\ node[p].kind = "dir"
        BY <1>2, <2>1, <4>2 DEF WellRooted
      <4>4. ~Below(Payload(c), p)
        BY <1>1, <3>2, PathOrder, StagesApart
      <4>5. QED
        BY <1>8, <1>9, <4>3, <4>4
    <3>5. QED
      BY <3>3, <3>4
  <2>5. Root \in DOMAIN node'
    BY <1>8, <1>9, <2>1, <2>2 DEF WellRooted
  <2>6. QED
    BY <1>9, <2>3, <2>4, <2>5 DEF WellRooted
<1>14. Rooted'
  <2>1. (NodeOK => (Rooted <=> WellRooted(node)))'
    BY RootedIs, PTL
  <2>2. QED
    BY <1>12, <1>13, <2>1
<1>15. Placed'
  BY <1>7, <1>9, <1>11 DEF TreeOK, Placed
<1>16. QED
  BY <1>2, <1>7, <1>8, <1>9, <1>10, <1>11, <1>12, <1>14, <1>15 DEF TreeOK

-----------------------------------------------------------------------------
(***************************************************************************)
(* What a step of one pull, or of another program, means for the others.   *)
(***************************************************************************)
\* The pull is as it was.
Apart(c) ==
  /\ pc'[c] = pc[c] /\ missing'[c] = missing[c] /\ created'[c] = created[c] /\ at'[c] = at[c]
  /\ published'[c] = published[c] /\ cancelled'[c] = cancelled[c] /\ late'[c] = late[c]
  /\ c \in unclean' <=> c \in unclean

\* Every other pull is as it was, and w has not gone back.
Alone(w) ==
  /\ \A c \in Clients \ {w} : Apart(c)
  /\ w \in Clients /\ pc[w] \notin Early => pc'[w] \notin Early

\* Somebody else has something in p, or has had.
LEMMA StillExcused ==
  ASSUME TreeOK, NEW w \in Makers, Minds(w), Alone(w), NEW c \in Clients, c # w,
         NEW p, Ancestor(c, p), Excused(c, p)
  PROVE  Excused(c, p)'
<1>1. p \in Seq(Names) /\ p \in Paths
  BY PlacesAre, NamedAbove DEF Ancestor
<1>2. CASE \E d \in Clients \ {c} : HasWorkedIn(d, p)
  <2>1. PICK d \in Clients \ {c} : Below(p, Parent(Dest[d])) /\ pc[d] \notin Early
    BY <1>2 DEF HasWorkedIn, Early
  <2>2. pc'[d] \notin Early
    BY <2>1 DEF Alone, Apart
  <2>3. QED
    BY <2>1, <2>2 DEF Excused, HasWorkedIn, Early
<1>3. CASE \E q \in DOMAIN node : Below(p, q) /\ node[q].by # c
  <2>1. PICK q \in DOMAIN node : Below(p, q) /\ node[q].by # c /\ q \in Paths
    BY <1>3 DEF TreeOK, NodeOK
  <2>2. CASE q \in DOMAIN node'
    <3>1. node'[q].by # c
      BY <2>1, <2>2 DEF Minds
    <3>2. QED
      BY <2>1, <2>2, <3>1 DEF Excused
  <2>3. CASE q \notin DOMAIN node'
    <3>1. /\ w \in Clients /\ pc[w] \notin Early
          /\ Below(Stage(w), q) \/ Below(q, Parent(Dest[w]))
      BY <2>1, <2>3 DEF Minds
    <3>2. Below(p, Parent(Dest[w]))
      <4>1. /\ Stage(w) \in Paths /\ Stage(w) # Root /\ Parent(Stage(w)) = Parent(Dest[w])
            /\ Parent(Dest[w]) \in Paths
        BY <3>1, PlacesAre
      <4>2. CASE Below(q, Parent(Dest[w]))
        BY <1>1, <2>1, <4>1, <4>2, PathOrder
      <4>3. CASE Below(Stage(w), q)
        <5>1. Below(p, Stage(w)) \/ Below(Stage(w), p)
          BY <1>1, <2>1, <4>1, <4>3, PathOrder
        <5>2. ~Below(Stage(w), p)
          BY <1>1, <3>1, StagesApart
        <5>3. p # Stage(w)
          BY <4>1, <5>2, PathOrder
        <5>4. QED
          BY <1>1, <4>1, <5>1, <5>2, <5>3, ParentIs
      <4>4. QED
        BY <3>1, <4>2, <4>3
    <3>3. pc'[w] \notin Early
      BY <3>1 DEF Alone
    <3>4. QED
      BY <3>1, <3>2, <3>3 DEF Excused, HasWorkedIn, Early
  <2>4. QED
    BY <2>2, <2>3
<1>4. QED
  BY <1>2, <1>3 DEF Excused

\* What holds of another pull still does.
LEMMA OthersOwn ==
  ASSUME TreeOK, TreeOK', NEW w \in Makers, Minds(w), Alone(w),
         NEW c \in Clients, c # w, Own(c)
  PROVE  Own(c)'
<1>0. \A d \in Clients : \A q \in DOMAIN node' :
        Below(Stage(d), q) => InStage(d, q) /\ node'[q].by = d
  <2>1. (TreeOK => StagesOwned)'
    BY StageIsOwn, PTL
  <2>2. QED
    BY <2>1 DEF StagesOwned
<1>1. Apart(c)
  BY DEF Alone
<1>2. \A p \in DOMAIN node : node[p].by = c => p \in DOMAIN node' /\ node'[p] = node[p]
  BY DEF Minds
<1>3. \A p \in DOMAIN node' : node'[p].by = c => p \in DOMAIN node /\ node'[p] = node[p]
  BY DEF Minds
<1>4. ParentsOK(c)'
  BY <1>1, <1>2 DEF Own, ParentsOK, Apart, Dir
<1>5. ASSUME NEW p, NEW i, Made(c, p, i) PROVE Made(c, p, i)'
  BY <1>2, <1>5 DEF Made, Dir, File
<1>6. StageOK(c)'
  <2>1. Stage(c) \in DOMAIN node => node[Stage(c)].by = c
    BY StageIsOwn, PlacesAre, PathOrder DEF StagesOwned
  <2>2. \A i \in 1..Len(Entries(c)) : Made(c, Payload(c), i) => Made(c, Payload(c), i)'
    BY <1>5
  <2>3. QED
    BY <1>1, <1>2, <2>1, <2>2 DEF Own, StageOK, Apart
<1>7. PublishedOK(c)'
  <2>1. \A i \in 1..Len(Entries(c)) : Made(c, Dest[c], i) => Made(c, Dest[c], i)'
    BY <1>5
  <2>2. QED
    BY <1>1, <2>1 DEF Own, PublishedOK, Apart
<1>8. CleanOK(c)'
  <2> SUFFICES ASSUME c \notin unclean' PROVE CleanOK(c)'
    BY DEF CleanOK
  <2>1. c \notin unclean /\ CleanOK(c)
    BY <1>1 DEF Apart, Own
  <2>2. ASSUME pc'[c] \notin Staging, NEW p \in DOMAIN node' PROVE ~Below(Stage(c), p)
    <3>1. Below(Stage(c), p) => node'[p].by = c
      BY <1>0
    <3>2. QED
      BY <1>1, <1>3, <2>1, <2>2, <3>1 DEF CleanOK, Apart
  <2>3. pc'[c] = "failure" => created'[c] = << >>
    BY <1>1, <2>1 DEF CleanOK, Apart
  <2>4. ASSUME ~published'[c], NEW p \in DOMAIN node', node'[p].by = c
        PROVE  \/ Below(Stage(c), p)
               \/ \E i \in 1..Len(created'[c]) : p = created'[c][i]
               \/ pc'[c] \in {"rmdirs", "failure"} /\ Ancestor(c, p) /\ Excused(c, p)'
    <3>1. p \in DOMAIN node /\ node[p].by = c /\ ~published[c]
      BY <1>1, <1>3, <2>4 DEF Apart
    <3>2. \/ Below(Stage(c), p)
          \/ \E i \in 1..Len(created[c]) : p = created[c][i]
          \/ pc[c] \in {"rmdirs", "failure"} /\ Ancestor(c, p) /\ Excused(c, p)
      BY <2>1, <3>1 DEF CleanOK
    <3>3. Ancestor(c, p) /\ Excused(c, p) => Excused(c, p)'
      BY StillExcused
    <3>4. QED
      BY <1>1, <3>2, <3>3 DEF Apart
  <2>5. QED
    BY <2>2, <2>3, <2>4 DEF CleanOK
<1>9. QED
  BY <1>4, <1>6, <1>7, <1>8 DEF Own

\* A step of one pull, or of another program.
LEMMA StepsAreApart ==
  ASSUME IInv, NEW w \in Makers, TypeOK', TreeOK', Minds(w), Alone(w),
         w \in Clients => Own(w)'
  PROVE  IInv' /\ Minds(w)
<1>1. \A c \in Clients : Own(c)'
  BY OthersOwn DEF IInv
<1>2. QED
  BY <1>1 DEF IInv

\* Making things is minding one's own.
LEMMA GrowthMinds == ASSUME NEW w, NEW new, Grows(w, new) PROVE Minds(w)
BY DEF Grows, Minds


\* A tree that stays has not grown by anything.
LEMMA NothingGrows == ASSUME UNCHANGED node, NEW w, NEW new PROVE Grows(w, new)
BY DEF Grows


\* ... and is as well made as it was.
LEMMA TreeStays == TreeOK /\ UNCHANGED node => TreeOK'
BY DEF TreeOK, NodeOK, Rooted, Placed

-----------------------------------------------------------------------------
(***************************************************************************)
(* The steps of a pull.                                                    *)
(***************************************************************************)
\* The mkdir populateStage waits for is one in the stage.
LEMMA PopulateIs ==
  ASSUME TypeOK, NEW c \in Clients
  PROVE  /\ NoCall \in [path : Paths, deep : BOOLEAN]
         /\ PopulateCall(c) \in [path : Paths, deep : BOOLEAN]
         /\ PopulateCall(c) # NoCall =>
              /\ InStage(c, PopulateCall(c).path)
              /\ \/ pc[c] = "payload" /\ ~PopulateCall(c).deep
                 \/ /\ pc[c] = "entry" /\ at[c] \in 1..Len(Entries(c))
                    /\ PopulateCall(c).deep = ~Entries(c)[at[c]].directory
                    /\ ~PopulateCall(c).deep => PopulateCall(c).path = Target(c, at[c])
<1>1. NoCall \in [path : Paths, deep : BOOLEAN]
  BY PathOrder DEF NoCall
<1>2. CASE pc[c] = "payload"
  <2>1. PopulateCall(c) = [path |-> Payload(c), deep |-> FALSE]
    BY <1>2 DEF PopulateCall
  <2>2. Payload(c) \in Paths /\ InStage(c, Payload(c))
    <3>1. Payload(c) \in Paths /\ Payload(c) \o << >> = Payload(c)
      BY PlacesAre, ConcatEmptySeq DEF Paths
    <3>2. << >> \in Seq(Names) /\ << >> \in Paths
      BY EmptySeq DEF Paths
    <3>3. QED
      BY <3>1, <3>2, StagedNames
  <2>3. QED
    BY <1>1, <1>2, <2>1, <2>2
<1>3. CASE pc[c] = "entry" /\ at[c] =< Len(Entries(c))
  <2>1. at[c] \in 1..Len(Entries(c))
    BY <1>3, ManifestAssumption, LenProperties DEF TypeOK, Entries
  <2>2. PopulateCall(c) = IF Entries(c)[at[c]].directory
                          THEN [path |-> Target(c, at[c]), deep |-> FALSE]
                          ELSE [path |-> Parent(Target(c, at[c])), deep |-> TRUE]
    BY <1>3 DEF PopulateCall
  <2>3. /\ InStage(c, Target(c, at[c])) /\ InStage(c, Parent(Target(c, at[c])))
        /\ Entries(c)[at[c]].directory \in BOOLEAN
    BY <2>1, TargetIs
  <2>4. CASE Entries(c)[at[c]].directory
    <3>1. PopulateCall(c) = [path |-> Target(c, at[c]), deep |-> FALSE]
      BY <2>2, <2>4
    <3>2. Target(c, at[c]) \in Paths
      BY <2>3 DEF InStage
    <3>3. Entries(c)[at[c]].directory = TRUE
      BY <2>3, <2>4
    <3>4. PopulateCall(c).deep = FALSE /\ PopulateCall(c).path = Target(c, at[c])
      BY <3>1
    <3>5. PopulateCall(c) \in [path : Paths, deep : BOOLEAN]
      BY <3>1, <3>2
    <3>6. QED
      BY <1>1, <1>3, <2>1, <2>3, <3>3, <3>4, <3>5
  <2>5. CASE ~Entries(c)[at[c]].directory
    <3>1. PopulateCall(c) = [path |-> Parent(Target(c, at[c])), deep |-> TRUE]
      BY <2>2, <2>5
    <3>2. Parent(Target(c, at[c])) \in Paths
      BY <2>3 DEF InStage
    <3>3. Entries(c)[at[c]].directory = FALSE
      BY <2>3, <2>5
    <3>4. PopulateCall(c).deep = TRUE /\ PopulateCall(c).path = Parent(Target(c, at[c]))
      BY <3>1
    <3>5. PopulateCall(c) \in [path : Paths, deep : BOOLEAN]
      BY <3>1, <3>2
    <3>6. QED
      BY <1>1, <1>3, <2>1, <2>3, <3>3, <3>4, <3>5
  <2>6. QED
    BY <2>4, <2>5
<1>4. CASE pc[c] # "payload" /\ ~(pc[c] = "entry" /\ at[c] =< Len(Entries(c)))
  BY <1>1, <1>4 DEF PopulateCall
<1>5. QED
  BY <1>2, <1>3, <1>4

\* Where a failing call leads, and an interruption.
GivingUp(c) ==
  \/ pc[c] \in {"inspect", "find"} /\ pc'[c] = "failure"
  \/ pc[c] \in {"make", "check", "temp"} /\ pc'[c] = "rmdirs"
  \/ pc[c] \in {"payload", "entry", "write"} /\ pc'[c] = "unstage"
  \/ /\ pc[c] = "unstage" /\ c \in unclean'
     /\ pc'[c] = IF published[c] /\ ~cancelled[c] THEN "success" ELSE "rmdirs"
  \/ pc[c] = "rmdirs" /\ c \in unclean' /\ pc'[c] = "failure"
  \/ pc'[c] = pc[c] /\ at'[c] = at[c]

\* Whatever a pull gives up, what holds of it still does.
LEMMA GivesUp ==
  ASSUME TypeOK, TypeOK', TreeOK, TreeOK', NEW c \in Clients, Own(c), Alone(c), GivingUp(c),
         Grows(c, {p \in Paths : InStage(c, p)}), UNCHANGED node \/ pc[c] \in Staging,
         missing'[c] = missing[c], created'[c] = created[c], published'[c] = published[c],
         cancelled[c] => cancelled'[c], c \in unclean => c \in unclean',
         late'[c] = NoCall \/ InStage(c, late'[c].path)
  PROVE  Own(c)'
<1>1. \A p \in DOMAIN node : p \in DOMAIN node' /\ node'[p] = node[p]
  BY DEF Grows
<1>2. \A p \in DOMAIN node' \ DOMAIN node : InStage(c, p)
  BY DEF Grows
<1>3. ParentsOK(c)'
  BY <1>1 DEF Own, ParentsOK, GivingUp
<1>4. ASSUME NEW p, NEW i, Made(c, p, i) PROVE Made(c, p, i)'
  BY <1>1, <1>4 DEF Made
<1>5. StageOK(c)'
  <2>1. \A i \in 1..Len(Entries(c)) : Made(c, Payload(c), i) => Made(c, Payload(c), i)'
    BY <1>4
  <2>2. pc'[c] \in Staging => Stage(c) \in DOMAIN node'
    BY <1>1 DEF Own, StageOK, GivingUp, Staging
  <2>3. QED
    BY <2>1, <2>2 DEF Own, StageOK, GivingUp
<1>6. PublishedOK(c)'
  <2>1. \A i \in 1..Len(Entries(c)) : Made(c, Dest[c], i) => Made(c, Dest[c], i)'
    BY <1>4
  <2>2. published[c] \in BOOLEAN /\ cancelled[c] \in BOOLEAN
    BY DEF TypeOK
  <2>3. QED
    BY <2>1, <2>2 DEF Own, PublishedOK, GivingUp, Ended
<1>7. CleanOK(c)'
  <2> SUFFICES ASSUME c \notin unclean' PROVE CleanOK(c)'
    BY DEF CleanOK
  <2>1. CleanOK(c) /\ c \notin unclean
    BY DEF Own
  <2>2. ASSUME pc'[c] \notin Staging, NEW p \in DOMAIN node' PROVE ~Below(Stage(c), p)
    BY <2>1, <2>2 DEF GivingUp, Staging, CleanOK
  <2>3. pc'[c] = "failure" => created'[c] = << >>
    BY <2>1 DEF GivingUp, CleanOK, Own, ParentsOK
  <2>4. ASSUME ~published'[c], NEW p \in DOMAIN node', node'[p].by = c
        PROVE  \/ Below(Stage(c), p)
               \/ \E i \in 1..Len(created'[c]) : p = created'[c][i]
               \/ pc'[c] \in {"rmdirs", "failure"} /\ Ancestor(c, p) /\ Excused(c, p)'
    <3>1. CASE p \notin DOMAIN node
      BY <1>2, <2>4, <3>1 DEF InStage
    <3>2. CASE p \in DOMAIN node /\ ~Below(Stage(c), p) /\ ~\E i \in 1..Len(created[c]) : p = created[c][i]
      <4>1. pc[c] \in {"rmdirs", "failure"} /\ Ancestor(c, p) /\ Excused(c, p)
        BY <1>1, <2>1, <2>4, <3>2 DEF CleanOK
      <4>2. UNCHANGED node /\ pc'[c] \in {"rmdirs", "failure"}
        BY <4>1 DEF Staging, GivingUp
      <4>3. \A d \in Clients \ {c} : HasWorkedIn(d, p) => HasWorkedIn(d, p)'
        BY DEF Alone, Apart, HasWorkedIn
      <4>4. Excused(c, p)'
        BY <4>1, <4>2, <4>3 DEF Excused
      <4>5. QED
        BY <4>1, <4>2, <4>4
    <3>3. QED
      BY <3>1, <3>2
  <2>5. QED
    BY <2>2, <2>3, <2>4 DEF CleanOK
<1>8. QED
  BY <1>3, <1>5, <1>6, <1>7 DEF Own

\* ... and so the invariant.
LEMMA GivenUp ==
  ASSUME IInv, TypeOK', TreeOK', NEW c \in Clients, Alone(c), GivingUp(c),
         Grows(c, {p \in Paths : InStage(c, p)}), UNCHANGED node \/ pc[c] \in Staging,
         missing'[c] = missing[c], created'[c] = created[c], published'[c] = published[c],
         cancelled[c] => cancelled'[c], c \in unclean => c \in unclean',
         late'[c] = NoCall \/ InStage(c, late'[c].path)
  PROVE  IInv' /\ Minds(c)
<1>1. Minds(c) /\ c \in Makers
  BY GrowthMinds DEF Makers
<1>2. Own(c)'
  BY GivesUp DEF IInv
<1>3. QED
  BY <1>1, <1>2, StepsAreApart DEF IInv

\* Fail names the step that follows the one a pull is at.
LEMMA FailIs ==
  ASSUME TypeOK, NEW c \in Clients, Fail(c), pc[c] \notin Ended,
         pc[c] \in {"unstage", "rmdirs"} => c \in unclean'
  PROVE  GivingUp(c) /\ pc' = [pc EXCEPT ![c] = pc'[c]] /\ pc'[c] \in Steps
<1>1. pc[c] \in Steps /\ pc \in [Clients -> Steps]
  BY DEF TypeOK
<1>2. CASE pc[c] \in {"inspect", "find", "rmdirs"}
  BY <1>1, <1>2 DEF Fail, Goto, GivingUp, Steps
<1>3. CASE pc[c] \in {"make", "check", "temp"}
  BY <1>1, <1>3 DEF Fail, Goto, GivingUp, Steps
<1>4. CASE pc[c] \in {"payload", "entry", "write"}
  BY <1>1, <1>4 DEF Fail, Goto, GivingUp, Steps
<1>5. CASE pc[c] = "unstage"
  BY <1>1, <1>5 DEF Fail, Goto, GivingUp, Steps
<1>6. QED
  BY <1>1, <1>2, <1>3, <1>4, <1>5 DEF Steps, Ended



\* A pull that looks whether its destination exists.
LEMMA InspectKeeps ==
  ASSUME IInv, NEW c \in Clients, InspectDestination(c)
  PROVE  IInv' /\ Minds(c)
<1>1. TypeOK /\ TreeOK /\ pc[c] = "inspect" /\ Own(c)
  BY DEF IInv, InspectDestination
<1>2. TreeOK' /\ Grows(c, {p \in Paths : InStage(c, p)})
  BY <1>1, TreeStays, NothingGrows DEF InspectDestination
<1>3. CASE Lstat(Dest[c]) = "ENOENT"
  <2>1. pc' = [pc EXCEPT ![c] = "find"]
    BY <1>3 DEF InspectDestination, Goto
  <2>2. TypeOK'
    BY <1>1, <1>2, <2>1 DEF InspectDestination, PcSame, TypeOK, Steps, TreeOK
  <2>3. Alone(c) /\ pc'[c] = "find"
    BY <1>1, <2>1 DEF InspectDestination, PcSame, Alone, Apart, TypeOK, Early
  <2>4. Minds(c) /\ c \in Makers
    BY <1>2, GrowthMinds DEF Makers
  <2>5. ParentsOK(c)'
    BY <1>1, <2>3 DEF InspectDestination, PcSame, Own, ParentsOK
  <2>6. StageOK(c)'
    BY <1>1, <2>3 DEF InspectDestination, PcSame, Own, StageOK, Staging
  <2>7. PublishedOK(c)'
    BY <1>1, <2>3 DEF InspectDestination, PcSame, Own, PublishedOK, Ended
  <2>8. CleanOK(c)'
    BY <1>1, <2>3 DEF InspectDestination, PcSame, Own, CleanOK, Staging
  <2>9. QED
    BY <1>2, <2>2, <2>3, <2>4, <2>5, <2>6, <2>7, <2>8, StepsAreApart DEF Own
<1>4. CASE Lstat(Dest[c]) # "ENOENT"
  <2>1. Fail(c)
    BY <1>4 DEF InspectDestination
  <2>2. GivingUp(c) /\ pc' = [pc EXCEPT ![c] = pc'[c]] /\ pc'[c] \in Steps
    BY <1>1, <2>1, FailIs DEF Ended
  <2>3. TypeOK'
    BY <1>1, <1>2, <2>2 DEF InspectDestination, PcSame, TypeOK, TreeOK
  <2>4. Alone(c)
    BY <1>1, <2>2 DEF InspectDestination, PcSame, Alone, Apart, TypeOK, Early
  <2>5. QED
    BY <1>1, <1>2, <2>2, <2>3, <2>4, GivenUp DEF InspectDestination, PcSame, Own, StageOK
<1>5. QED
  BY <1>3, <1>4

\* A pull that looks for the parents its destination is missing: each that it
\* finds is an ancestor, above those it found before.
LEMMA FindKeeps ==
  ASSUME IInv, NEW c \in Clients, FindMissingParent(c)
  PROVE  IInv' /\ Minds(c)
<1> DEFINE q == IF missing[c] = << >> THEN Dest[c] ELSE Head(missing[c])
           p == Parent(q)
<1>1. TypeOK /\ TreeOK /\ pc[c] = "find" /\ Own(c) /\ created[c] = << >> /\ ~published[c]
  BY DEF IInv, FindMissingParent, Own, ParentsOK, PublishedOK, Ended
<1>2. TreeOK' /\ Grows(c, {r \in Paths : InStage(c, r)})
  BY <1>1, TreeStays, NothingGrows DEF FindMissingParent
<1>3. CASE Lstat(p) = "ENOENT" /\ missing' = [missing EXCEPT ![c] = <<p>> \o @] /\ UNCHANGED pc
  <2>1. missing[c] \in Seq(Paths) /\ Len(missing[c]) \in Nat
    BY <1>1 DEF TypeOK
  <2>2. /\ q \in Paths /\ q # Root /\ Below(p, Parent(Dest[c])) /\ p \in Paths
        /\ \A j \in 1..Len(missing[c]) : Len(p) < Len(missing[c][j])
    <3>1. CASE missing[c] = << >>
      BY <3>1, PlacesAre, PathOrder
    <3>2. CASE missing[c] # << >>
      <4>1. Head(missing[c]) = missing[c][1] /\ 1 \in 1..Len(missing[c])
        BY <2>1, <3>2
      <4>2. PICK r : r = missing[c][1]
        OBVIOUS
      <4>3. q = r /\ p = Parent(r)
        BY <3>2, <4>1, <4>2
      <4>4. r # Root /\ r \in Paths /\ Below(r, Parent(Dest[c]))
        BY <1>1, <4>1, <4>2 DEF Own, ParentsOK, Ancestor
      <4>5. Parent(r) \in Paths /\ Len(Parent(r)) = Len(r) - 1 /\ Len(r) \in Nat /\ Below(Parent(r), r)
        BY <4>4, ParentIs
      <4>6. Below(Parent(r), Parent(Dest[c]))
        BY <4>4, <4>5, PlacesAre, PathOrder
      <4>7. ASSUME NEW j \in 1..Len(missing[c])
            PROVE  Len(Parent(r)) < Len(missing[c][j])
        <5>1. j = 1 \/ Len(r) < Len(missing[c][j])
          BY <1>1, <4>1, <4>2 DEF Own, ParentsOK
        <5>2. missing[c][j] \in Paths
          BY <2>1
        <5>3. Len(missing[c][j]) \in Nat
          BY <5>2, BelowIs
        <5>4. QED
          BY <4>2, <4>5, <5>1, <5>3
      <4>8. QED
        BY <4>3, <4>4, <4>5, <4>6, <4>7
    <3>3. QED
      BY <3>1, <3>2
  <2>3. Ancestor(c, p)
    <3>1. p # Root
      BY <1>1, <1>3, <2>2, LookIs DEF TreeOK
    <3>2. QED
      BY <2>2, <3>1 DEF Ancestor
  <2> HIDE DEF p, q
  <2>4. PICK m \in Seq(Paths) : m = <<p>> \o missing[c]
    <3>1. <<p>> \in Seq(Paths)
      BY <2>2
    <3>2. QED
      BY <2>1, <3>1, ConcatProperties
  <2>5. /\ Len(m) = Len(missing[c]) + 1 /\ m[1] = p
        /\ \A i \in 2..Len(m) : m[i] = missing[c][i - 1] /\ (i - 1) \in 1..Len(missing[c])
    BY <2>1, <2>2, <2>4
  <2>6. missing' = [missing EXCEPT ![c] = m] /\ missing'[c] = m
    BY <1>1, <1>3, <2>4 DEF TypeOK
  <2>7. TypeOK'
    BY <1>1, <1>2, <1>3, <2>6 DEF FindMissingParent, TypeOK, TreeOK
  <2>8. Alone(c)
    BY <1>1, <1>3, <2>6 DEF FindMissingParent, Alone, Apart, TypeOK
  <2>9. Minds(c) /\ c \in Makers
    BY <1>2, GrowthMinds DEF Makers
  <2>10. ParentsOK(c)'
    <3>1. \A i \in 1..Len(m) : Ancestor(c, m[i])
      <4>1. ASSUME NEW i \in 1..Len(m) PROVE Ancestor(c, m[i])
        <5>1. CASE i = 1
          BY <2>3, <2>5, <5>1
        <5>2. CASE i # 1
          <6>1. i \in 2..Len(m)
            BY <2>1, <2>5, <5>2
          <6>2. QED
            BY <1>1, <2>5, <6>1 DEF Own, ParentsOK
        <5>3. QED
          BY <5>1, <5>2
      <4>2. QED
        BY <4>1
    <3>2. \A i, j \in 1..Len(m) : i < j => Len(m[i]) < Len(m[j])
      <4>1. ASSUME NEW i \in 1..Len(m), NEW j \in 1..Len(m), i < j PROVE Len(m[i]) < Len(m[j])
        <5>1. j \in 2..Len(m)
          BY <2>1, <2>5, <4>1
        <5>2. m[j] = missing[c][j - 1] /\ (j - 1) \in 1..Len(missing[c])
          BY <2>5, <5>1
        <5>3. CASE i = 1
          BY <2>2, <2>5, <5>2, <5>3
        <5>4. CASE i # 1
          <6>1. i \in 2..Len(m)
            BY <2>1, <2>5, <5>4
          <6>2. m[i] = missing[c][i - 1] /\ (i - 1) \in 1..Len(missing[c]) /\ i - 1 < j - 1
            BY <2>5, <4>1, <6>1
          <6>3. QED
            BY <1>1, <5>2, <6>2 DEF Own, ParentsOK
        <5>5. QED
          BY <5>3, <5>4
      <4>2. QED
        BY <4>1
    <3>3. created'[c] = << >> /\ Len(created'[c]) = 0 /\ pc'[c] = "find"
      BY <1>1, <1>3 DEF FindMissingParent
    <3>4. QED
      BY <2>6, <3>1, <3>2, <3>3 DEF ParentsOK
  <2>11. StageOK(c)'
    BY <1>1, <1>3 DEF FindMissingParent, Own, StageOK, Staging
  <2>12. PublishedOK(c)'
    BY <1>1, <1>3 DEF FindMissingParent, Own, PublishedOK, Ended
  <2>13. CleanOK(c)'
    BY <1>1, <1>3 DEF FindMissingParent, Own, CleanOK, Staging
  <2>14. QED
    BY <1>2, <2>7, <2>8, <2>9, <2>10, <2>11, <2>12, <2>13, StepsAreApart DEF Own
<1>4. CASE Goto(c, "make") /\ UNCHANGED missing
  <2>1. pc' = [pc EXCEPT ![c] = "make"]
    BY <1>4 DEF Goto
  <2>2. TypeOK'
    BY <1>1, <1>2, <1>4, <2>1 DEF FindMissingParent, TypeOK, Steps, TreeOK
  <2>3. Alone(c) /\ pc'[c] = "make"
    BY <1>1, <1>4, <2>1 DEF FindMissingParent, Alone, Apart, TypeOK, Early
  <2>4. Minds(c) /\ c \in Makers
    BY <1>2, GrowthMinds DEF Makers
  <2>5. ParentsOK(c)'
    BY <1>1, <1>4, <2>3 DEF FindMissingParent, Own, ParentsOK
  <2>6. StageOK(c)'
    BY <1>1, <2>3 DEF FindMissingParent, Own, StageOK, Staging
  <2>7. PublishedOK(c)'
    BY <1>1, <2>3 DEF FindMissingParent, Own, PublishedOK, Ended
  <2>8. CleanOK(c)'
    BY <1>1, <2>3 DEF FindMissingParent, Own, CleanOK, Staging
  <2>9. QED
    BY <1>2, <2>2, <2>3, <2>4, <2>5, <2>6, <2>7, <2>8, StepsAreApart DEF Own
<1>5. CASE Fail(c) /\ UNCHANGED missing
  <2>1. GivingUp(c) /\ pc' = [pc EXCEPT ![c] = pc'[c]] /\ pc'[c] \in Steps
    BY <1>1, <1>5, FailIs DEF Ended
  <2>2. TypeOK'
    BY <1>1, <1>2, <1>5, <2>1 DEF FindMissingParent, TypeOK, TreeOK
  <2>3. Alone(c)
    BY <1>1, <1>5, <2>1 DEF FindMissingParent, Alone, Apart, TypeOK, Early
  <2>4. QED
    BY <1>1, <1>2, <1>5, <2>1, <2>2, <2>3, GivenUp DEF FindMissingParent, Own, StageOK
<1>6. QED
  BY <1>3, <1>4, <1>5 DEF FindMissingParent

\* A list of paths without its first, and with one more.
LEMMA ListsAre ==
  ASSUME NEW s \in Seq(Paths)
  PROVE  /\ s # << >> =>
              /\ Tail(s) \in Seq(Paths) /\ Len(Tail(s)) = Len(s) - 1
              /\ \A i \in 1..Len(Tail(s)) : i + 1 \in 2..Len(s) /\ Tail(s)[i] = s[i + 1]
         /\ \A p \in Paths : Append(s, p) \in Seq(Paths)
<1>1. \A p \in Paths : Append(s, p) \in Seq(Paths)
  OBVIOUS
<1>2. ASSUME s # << >>
      PROVE  /\ Tail(s) \in Seq(Paths) /\ Len(Tail(s)) = Len(s) - 1
             /\ \A i \in 1..Len(Tail(s)) : i + 1 \in 2..Len(s) /\ Tail(s)[i] = s[i + 1]
  <2>1. Tail(s) \in Seq(Paths) /\ Len(Tail(s)) = Len(s) - 1 /\ Len(s) \in Nat
    BY <1>2
  <2>2. QED
    BY <1>2, <2>1
<1>3. QED
  BY <1>1, <1>2

\* A pull that makes a parent: it is the deepest it made so far, and above
\* those it has still to make.
LEMMA CreateParentKeeps ==
  ASSUME IInv, NEW c \in Clients, CreateParent(c)
  PROVE  IInv' /\ Minds(c)
<1> DEFINE p == Head(missing[c])
<1>1. TypeOK /\ TreeOK /\ pc[c] = "make" /\ Own(c) /\ ~published[c] /\ missing[c] # << >>
  BY DEF IInv, CreateParent, Own, PublishedOK, Ended
<1>2. /\ missing[c] \in Seq(Paths) /\ created[c] \in Seq(Paths) /\ p = missing[c][1]
      /\ Len(missing[c]) \in Nat \ {0} /\ Len(created[c]) \in Nat
  BY <1>1 DEF TypeOK
<1>3. Ancestor(c, p) /\ p \in Paths /\ p \in Seq(Names)
  <2>1. Ancestor(c, missing[c][1])
    BY <1>1, <1>2 DEF Own, ParentsOK
  <2>2. QED
    BY <1>2, <2>1, PlacesAre, NamedAbove DEF Ancestor
<1> HIDE DEF p
<1>4. CASE /\ Mkdir(p) = "ok" /\ node' = With(p, Dir(c)) /\ UNCHANGED pc
           /\ created' = [created EXCEPT ![c] = Append(@, p)]
           /\ missing' = [missing EXCEPT ![c] = Tail(@)]
  <2>1. TreeOK' /\ Grows(c, {p}) /\ p \in DOMAIN node' /\ node'[p] = Dir(c)
    BY <1>1, <1>3, <1>4, MadeOne DEF Dir, Makers
  <2>2. PICK m \in Seq(Paths) : m = Tail(missing[c])
    BY <1>1, <1>2, ListsAre
  <2>3. /\ Len(m) = Len(missing[c]) - 1
        /\ \A i \in 1..Len(m) : i + 1 \in 2..Len(missing[c]) /\ m[i] = missing[c][i + 1]
    BY <1>1, <1>2, <2>2, ListsAre
  <2>4. PICK k \in Seq(Paths) : k = Append(created[c], p)
    BY <1>2, <1>3, ListsAre
  <2>5. /\ Len(k) = Len(created[c]) + 1 /\ k[Len(created[c]) + 1] = p
        /\ \A i \in 1..Len(created[c]) : k[i] = created[c][i]
    BY <1>2, <1>3, <2>4
  <2>6. /\ missing' = [missing EXCEPT ![c] = m] /\ missing'[c] = m
        /\ created' = [created EXCEPT ![c] = k] /\ created'[c] = k
    BY <1>1, <1>4, <2>2, <2>4 DEF TypeOK
  <2>7. TypeOK'
    BY <1>1, <1>4, <2>1, <2>6 DEF CreateParent, TypeOK, TreeOK
  <2>8. Alone(c)
    BY <1>1, <1>4, <2>6 DEF CreateParent, Alone, Apart, TypeOK
  <2>9. Minds(c) /\ c \in Makers
    BY <2>1, GrowthMinds DEF Makers
  <2>10. ParentsOK(c)'
    <3>1. ASSUME NEW i \in 1..Len(m)
          PROVE  /\ Ancestor(c, m[i]) /\ Len(p) < Len(m[i])
                 /\ \A j \in 1..Len(m) : i < j => Len(m[i]) < Len(m[j])
      <4>1. /\ i + 1 \in 1..Len(missing[c]) /\ 1 \in 1..Len(missing[c]) /\ 1 < i + 1
            /\ m[i] = missing[c][i + 1]
        BY <1>2, <2>3
      <4>2. \A j \in 1..Len(m) : i < j =>
              j + 1 \in 1..Len(missing[c]) /\ i + 1 < j + 1 /\ m[j] = missing[c][j + 1]
        BY <1>2, <2>3
      <4>3. QED
        BY <1>1, <1>2, <4>1, <4>2 DEF Own, ParentsOK
    <3>2. \A i, j \in 1..Len(m) : i < j => Len(m[i]) < Len(m[j])
      BY <3>1
    <3>3. ASSUME NEW i \in 1..Len(k)
          PROVE  /\ Ancestor(c, k[i]) /\ k[i] \in DOMAIN node' /\ node'[k[i]] = Dir(c)
                 /\ \A j \in 1..Len(m) : Len(k[i]) < Len(m[j])
                 /\ i < Len(k) => Len(k[i]) < Len(p)
      <4>1. CASE i = Len(created[c]) + 1
        BY <1>3, <2>1, <2>5, <3>1, <4>1
      <4>2. CASE i \in 1..Len(created[c])
        <5>1. /\ Ancestor(c, k[i]) /\ k[i] \in DOMAIN node /\ node[k[i]] = Dir(c)
              /\ \A j \in 1..Len(missing[c]) : Len(k[i]) < Len(missing[c][j])
          BY <1>1, <2>5, <4>2 DEF Own, ParentsOK
        <5>2. k[i] \in DOMAIN node' /\ node'[k[i]] = Dir(c)
          BY <2>1, <5>1 DEF Grows
        <5>3. ASSUME NEW j \in 1..Len(m) PROVE Len(k[i]) < Len(m[j])
          <6>1. j + 1 \in 1..Len(missing[c]) /\ m[j] = missing[c][j + 1]
            BY <1>2, <2>3
          <6>2. QED
            BY <5>1, <6>1
        <5>4. Len(k[i]) < Len(p)
          BY <1>2, <5>1
        <5>5. QED
          BY <5>1, <5>2, <5>3, <5>4
      <4>3. QED
        BY <1>2, <2>5, <4>1, <4>2
    <3>4. ASSUME NEW i \in 1..Len(k), NEW j \in 1..Len(k), i < j
          PROVE  Len(k[i]) < Len(k[j])
      <4>1. CASE j = Len(k)
        BY <1>2, <2>5, <3>3, <3>4, <4>1
      <4>2. CASE j # Len(k)
        <5>1. i \in 1..Len(created[c]) /\ j \in 1..Len(created[c])
          BY <1>2, <2>5, <3>4, <4>2
        <5>2. QED
          BY <1>1, <2>5, <3>4, <5>1 DEF Own, ParentsOK
      <4>3. QED
        BY <4>1, <4>2
    <3>5. QED
      BY <1>1, <1>4, <2>6, <3>1, <3>2, <3>3, <3>4 DEF ParentsOK
  <2>11. StageOK(c)'
    BY <1>1, <1>4 DEF CreateParent, Own, StageOK, Staging
  <2>12. PublishedOK(c)'
    BY <1>1, <1>4 DEF CreateParent, Own, PublishedOK, Ended
  <2>13. CleanOK(c)'
    <3> SUFFICES ASSUME c \notin unclean PROVE CleanOK(c)'
      BY <1>4 DEF CreateParent, CleanOK
    <3>1. ASSUME NEW r \in DOMAIN node' PROVE ~Below(Stage(c), r)
      <4>1. CASE r = p
        BY <1>3, <4>1, StagesApart
      <4>2. CASE r # p
        BY <1>1, <2>1, <3>1, <4>2 DEF Grows, Own, CleanOK, Staging
      <4>3. QED
        BY <4>1, <4>2
    <3>2. ASSUME NEW r \in DOMAIN node', node'[r].by = c
          PROVE  \E i \in 1..Len(k) : r = k[i]
      <4>1. CASE r = p
        BY <1>2, <2>5, <4>1
      <4>2. CASE r # p
        <5>1. r \in DOMAIN node /\ node[r].by = c /\ ~Below(Stage(c), r)
          BY <2>1, <3>1, <3>2, <4>2 DEF Grows
        <5>2. \E i \in 1..Len(created[c]) : r = created[c][i]
          BY <1>1, <5>1 DEF Own, CleanOK
        <5>3. QED
          BY <1>2, <2>5, <5>2
      <4>3. QED
        BY <4>1, <4>2
    <3>3. pc'[c] = "make" /\ published'[c] = published[c]
      BY <1>1, <1>4 DEF CreateParent
    <3>4. \A r \in DOMAIN node' : node'[r].by = c => \E i \in 1..Len(created'[c]) : r = created'[c][i]
      BY <2>6, <3>2
    <3>5. QED
      BY <3>1, <3>3, <3>4 DEF CleanOK
  <2>14. QED
    BY <2>1, <2>7, <2>8, <2>9, <2>10, <2>11, <2>12, <2>13, StepsAreApart DEF Own
<1>5. CASE Goto(c, "check") /\ UNCHANGED <<node, created, missing>>
  <2>1. pc' = [pc EXCEPT ![c] = "check"]
    BY <1>5 DEF Goto
  <2>2. TreeOK' /\ Minds(c) /\ c \in Makers
    BY <1>1, <1>5, TreeStays, NothingGrows, GrowthMinds DEF Makers
  <2>3. TypeOK'
    BY <1>1, <1>5, <2>1, <2>2 DEF CreateParent, TypeOK, Steps, TreeOK
  <2>4. Alone(c) /\ pc'[c] = "check"
    BY <1>1, <1>5, <2>1 DEF CreateParent, Alone, Apart, TypeOK, Early
  <2>5. ParentsOK(c)'
    BY <1>1, <1>5, <2>4 DEF CreateParent, Own, ParentsOK
  <2>6. StageOK(c)'
    BY <1>1, <1>5, <2>4 DEF CreateParent, Own, StageOK, Staging
  <2>7. PublishedOK(c)'
    BY <1>1, <1>5, <2>4 DEF CreateParent, Own, PublishedOK, Ended
  <2>8. CleanOK(c)'
    BY <1>1, <1>5, <2>4 DEF CreateParent, Own, CleanOK, Staging
  <2>9. QED
    BY <2>2, <2>3, <2>4, <2>5, <2>6, <2>7, <2>8, StepsAreApart DEF Own
<1>6. CASE Fail(c) /\ UNCHANGED <<node, created, missing>>
  <2>1. GivingUp(c) /\ pc' = [pc EXCEPT ![c] = pc'[c]] /\ pc'[c] \in Steps
    BY <1>1, <1>6, FailIs DEF Ended
  <2>2. TreeOK' /\ Grows(c, {r \in Paths : InStage(c, r)})
    BY <1>1, <1>6, TreeStays, NothingGrows
  <2>3. TypeOK'
    BY <1>1, <1>6, <2>1, <2>2 DEF CreateParent, TypeOK, TreeOK
  <2>4. Alone(c)
    BY <1>1, <1>6, <2>1 DEF CreateParent, Alone, Apart, TypeOK, GivingUp, Early
  <2>5. QED
    BY <1>1, <1>6, <2>1, <2>2, <2>3, <2>4, GivenUp DEF CreateParent, Own, StageOK
<1>7. QED
  BY <1>4, <1>5, <1>6 DEF CreateParent, p

\* A pull that finds somebody else made a parent.
LEMMA CheckParentKeeps ==
  ASSUME IInv, NEW c \in Clients, CheckParent(c)
  PROVE  IInv' /\ Minds(c)
<1>1. TypeOK /\ TreeOK /\ pc[c] = "check" /\ Own(c) /\ ~published[c] /\ missing[c] # << >>
  BY DEF IInv, CheckParent, Own, ParentsOK, PublishedOK, Ended
<1>2. TreeOK' /\ Grows(c, {p \in Paths : InStage(c, p)})
  BY <1>1, TreeStays, NothingGrows DEF CheckParent
<1>3. CASE Goto(c, "make") /\ missing' = [missing EXCEPT ![c] = Tail(@)]
  <2>1. missing[c] \in Seq(Paths) /\ Len(missing[c]) \in Nat \ {0}
    BY <1>1 DEF TypeOK
  <2>2. PICK m \in Seq(Paths) : m = Tail(missing[c])
    BY <1>1, <2>1, ListsAre
  <2>3. /\ Len(m) = Len(missing[c]) - 1
        /\ \A i \in 1..Len(m) : i + 1 \in 2..Len(missing[c]) /\ m[i] = missing[c][i + 1]
    BY <1>1, <2>1, <2>2, ListsAre
  <2>4. missing' = [missing EXCEPT ![c] = m] /\ missing'[c] = m /\ pc' = [pc EXCEPT ![c] = "make"]
    BY <1>1, <1>3, <2>2 DEF TypeOK, Goto
  <2>5. TypeOK'
    BY <1>1, <1>2, <2>4 DEF CheckParent, TypeOK, TreeOK, Steps
  <2>6. Alone(c) /\ pc'[c] = "make"
    BY <1>1, <2>4 DEF CheckParent, Alone, Apart, TypeOK, Early
  <2>7. Minds(c) /\ c \in Makers
    BY <1>2, GrowthMinds DEF Makers
  <2>8. ParentsOK(c)'
    <3>1. ASSUME NEW j \in 1..Len(m)
          PROVE  /\ Ancestor(c, m[j])
                 /\ \A i \in 1..Len(created[c]) : Len(created[c][i]) < Len(m[j])
                 /\ \A i \in 1..Len(m) : i < j => Len(m[i]) < Len(m[j])
      <4>1. j + 1 \in 1..Len(missing[c]) /\ m[j] = missing[c][j + 1]
        BY <2>1, <2>3
      <4>2. \A i \in 1..Len(m) : i < j =>
              i + 1 \in 1..Len(missing[c]) /\ i + 1 < j + 1 /\ m[i] = missing[c][i + 1]
        BY <2>1, <2>3
      <4>3. QED
        BY <1>1, <4>1, <4>2 DEF Own, ParentsOK
    <3>2. \A i, j \in 1..Len(m) : i < j => Len(m[i]) < Len(m[j])
      BY <3>1
    <3>3. QED
      BY <1>1, <2>4, <2>6, <3>1, <3>2 DEF CheckParent, Own, ParentsOK
  <2>9. StageOK(c)'
    BY <1>1, <2>6 DEF CheckParent, Own, StageOK, Staging
  <2>10. PublishedOK(c)'
    BY <1>1, <2>6 DEF CheckParent, Own, PublishedOK, Ended
  <2>11. CleanOK(c)'
    BY <1>1, <2>6 DEF CheckParent, Own, CleanOK, Staging
  <2>12. QED
    BY <1>2, <2>5, <2>6, <2>7, <2>8, <2>9, <2>10, <2>11, StepsAreApart DEF Own
<1>4. CASE Fail(c) /\ UNCHANGED missing
  <2>1. GivingUp(c) /\ pc' = [pc EXCEPT ![c] = pc'[c]] /\ pc'[c] \in Steps
    BY <1>1, <1>4, FailIs DEF Ended
  <2>2. TypeOK'
    BY <1>1, <1>2, <1>4, <2>1 DEF CheckParent, TypeOK, TreeOK
  <2>3. Alone(c)
    BY <1>1, <1>4, <2>1 DEF CheckParent, Alone, Apart, TypeOK, Early, GivingUp
  <2>4. QED
    BY <1>1, <1>2, <1>4, <2>1, <2>2, <2>3, GivenUp DEF CheckParent, Own, StageOK
<1>5. QED
  BY <1>3, <1>4 DEF CheckParent

\* A pull that has its parents goes on, or gives up if it was interrupted.
LEMMA ParentsReadyKeeps ==
  ASSUME IInv, NEW c \in Clients, ParentsReady(c)
  PROVE  IInv' /\ Minds(c)
<1>1. TypeOK /\ TreeOK /\ pc[c] = "make" /\ Own(c) /\ ~published[c]
  BY DEF IInv, ParentsReady, Own, PublishedOK, Ended
<1>2. TreeOK' /\ Grows(c, {p \in Paths : InStage(c, p)})
  BY <1>1, TreeStays, NothingGrows DEF ParentsReady
<1>3. pc' = [pc EXCEPT ![c] = pc'[c]] /\ pc'[c] \in {"rmdirs", "temp"}
  BY <1>1 DEF ParentsReady, Goto, TypeOK
<1>4. TypeOK'
  BY <1>1, <1>2, <1>3 DEF ParentsReady, PcSame, TypeOK, TreeOK, Steps
<1>5. Alone(c)
  BY <1>1, <1>3 DEF ParentsReady, PcSame, Alone, Apart, TypeOK, Early
<1>6. CASE pc'[c] = "rmdirs"
  <2>1. GivingUp(c)
    BY <1>1, <1>6 DEF GivingUp
  <2>2. QED
    BY <1>1, <1>2, <1>4, <1>5, <2>1, GivenUp DEF ParentsReady, PcSame, Own, StageOK
<1>7. CASE pc'[c] = "temp"
  <2>1. Minds(c) /\ c \in Makers
    BY <1>2, GrowthMinds DEF Makers
  <2>2. ParentsOK(c)'
    BY <1>1, <1>7 DEF ParentsReady, PcSame, Own, ParentsOK
  <2>3. StageOK(c)'
    BY <1>1, <1>7 DEF ParentsReady, PcSame, Own, StageOK, Staging
  <2>4. PublishedOK(c)'
    BY <1>1, <1>7 DEF ParentsReady, PcSame, Own, PublishedOK, Ended
  <2>5. CleanOK(c)'
    BY <1>1, <1>7 DEF ParentsReady, PcSame, Own, CleanOK, Staging
  <2>6. QED
    BY <1>2, <1>4, <1>5, <2>1, <2>2, <2>3, <2>4, <2>5, StepsAreApart DEF Own
<1>8. QED
  BY <1>3, <1>6, <1>7

\* A pull that makes its stage.
LEMMA CreateStageKeeps ==
  ASSUME IInv, NEW c \in Clients, CreateStage(c)
  PROVE  IInv' /\ Minds(c)
<1>1. TypeOK /\ TreeOK /\ pc[c] = "temp" /\ Own(c) /\ ~published[c] /\ at[c] = 1
  BY DEF IInv, CreateStage, Own, StageOK, PublishedOK, Ended
<1>2. Stage(c) \in Paths /\ InStage(c, Stage(c))
  BY PlacesAre, PathOrder, BelowIs DEF InStage
<1>3. CASE /\ Mkdir(Stage(c)) = "ok" /\ node' = With(Stage(c), Dir(c))
           /\ Goto(c, IF cancelled[c] THEN "unstage"
                      ELSE IF Manifest[c].directory THEN "payload" ELSE "entry")
  <2>1. TreeOK' /\ Grows(c, {Stage(c)}) /\ Stage(c) \in DOMAIN node'
    BY <1>1, <1>2, <1>3, MadeOne DEF Dir, Makers
  <2>2. pc' = [pc EXCEPT ![c] = pc'[c]] /\ pc'[c] \in {"unstage", "payload", "entry"}
    BY <1>1, <1>3 DEF TypeOK, Goto
  <2>3. TypeOK'
    BY <1>1, <2>1, <2>2 DEF CreateStage, PcSame, TypeOK, TreeOK, Steps
  <2>4. Alone(c)
    BY <1>1, <2>2 DEF CreateStage, PcSame, Alone, Apart, TypeOK, Early
  <2>5. Minds(c) /\ c \in Makers
    BY <2>1, GrowthMinds DEF Makers
  <2>6. \A p \in DOMAIN node : p \in DOMAIN node' /\ node'[p] = node[p]
    BY <2>1 DEF Grows
  <2>7. ParentsOK(c)'
    BY <1>1, <2>2, <2>6 DEF CreateStage, PcSame, Own, ParentsOK
  <2>8. StageOK(c)'
    <3>1. at'[c] = 1 /\ late'[c] = late[c]
      BY <1>1 DEF CreateStage, PcSame
    <3>2. \A i \in 1..Len(Entries(c)) : ~(i < 1)
      BY ManifestAssumption, LenProperties DEF Entries
    <3>3. QED
      BY <1>1, <2>1, <2>2, <3>1, <3>2 DEF Own, StageOK
  <2>9. PublishedOK(c)'
    BY <1>1, <2>2 DEF CreateStage, PcSame, Own, PublishedOK, Ended
  <2>10. CleanOK(c)'
    <3>1. \A p \in DOMAIN node' : p \in DOMAIN node \/ Below(Stage(c), p)
      BY <1>2, <2>1 DEF Grows, InStage
    <3>2. QED
      BY <1>1, <2>2, <2>6, <3>1 DEF CreateStage, PcSame, Own, CleanOK, Staging
  <2>11. QED
    BY <2>1, <2>3, <2>4, <2>5, <2>7, <2>8, <2>9, <2>10, StepsAreApart DEF Own
<1>4. CASE Fail(c) /\ UNCHANGED node
  <2>1. GivingUp(c) /\ pc' = [pc EXCEPT ![c] = pc'[c]] /\ pc'[c] \in Steps
    BY <1>1, <1>4, FailIs DEF Ended
  <2>2. TreeOK' /\ Grows(c, {p \in Paths : InStage(c, p)})
    BY <1>1, <1>4, TreeStays, NothingGrows
  <2>3. TypeOK'
    BY <1>1, <2>1, <2>2 DEF CreateStage, PcSame, TypeOK, TreeOK
  <2>4. Alone(c)
    BY <1>1, <2>1 DEF CreateStage, PcSame, Alone, Apart, TypeOK, Early, GivingUp
  <2>5. QED
    BY <1>1, <1>4, <2>1, <2>2, <2>3, <2>4, GivenUp DEF CreateStage, PcSame, Own, StageOK
<1>5. QED
  BY <1>3, <1>4 DEF CreateStage

\* A pull that stages an entry: what it staged before stays.
LEMMA Staged ==
  ASSUME IInv, TypeOK', TreeOK', NEW c \in Clients, Alone(c), pc[c] \in {"payload", "entry", "write"},
         Grows(c, {p \in Paths : InStage(c, p)}),
         missing'[c] = missing[c], created'[c] = created[c], published'[c] = published[c],
         cancelled'[c] = cancelled[c], late'[c] = late[c], c \in unclean' <=> c \in unclean,
         NEW now, now = at[c],
         \/ /\ pc'[c] = "entry" /\ at'[c] = at[c] + 1 /\ pc[c] \in {"entry", "write"}
            /\ now \in 1..Len(Entries(c)) /\ Made(c, Payload(c), now)'
         \/ pc'[c] = "entry" /\ at'[c] = at[c] /\ pc[c] = "payload"
         \/ /\ pc'[c] = "write" /\ at'[c] = at[c] /\ pc[c] = "entry"
            /\ at[c] \in 1..Len(Entries(c)) /\ Entries(c)[at[c]].directory = FALSE
  PROVE  IInv' /\ Minds(c)
<1>1. TypeOK /\ Own(c) /\ ~published[c] /\ at[c] \in Nat \ {0}
  BY DEF IInv, Own, PublishedOK, Ended, TypeOK
<1>2. Minds(c) /\ c \in Makers
  BY GrowthMinds DEF Makers
<1>3. \A p \in DOMAIN node : p \in DOMAIN node' /\ node'[p] = node[p]
  BY DEF Grows
<1>4. ParentsOK(c)'
  BY <1>1, <1>3 DEF Own, ParentsOK
<1>5. ASSUME NEW i \in 1..Len(Entries(c)), Made(c, Payload(c), i)
      PROVE  Made(c, Payload(c), i)'
  BY <1>3, <1>5 DEF Made
<1>6. StageOK(c)'
  <2>1. Stage(c) \in DOMAIN node'
    BY <1>1, <1>3 DEF Own, StageOK, Staging
  <2>2. ASSUME NEW i \in 1..Len(Entries(c)), i < at'[c]
        PROVE  Made(c, Payload(c), i)'
    <3>1. i \in Nat \ {0}
      BY ManifestAssumption, LenProperties DEF Entries
    <3>2. CASE i < at[c]
      <4>1. pc[c] \in {"entry", "write"}
        BY <1>1, <3>1, <3>2 DEF Own, StageOK
      <4>2. Made(c, Payload(c), i)
        BY <1>1, <3>2, <4>1 DEF Own, StageOK
      <4>3. QED
        BY <1>5, <4>2
    <3>3. CASE ~(i < at[c])
      <4>1. i = at[c] /\ at'[c] = at[c] + 1
        BY <1>1, <2>2, <3>1, <3>3
      <4>2. i = now /\ Made(c, Payload(c), now)'
        BY <1>1, <4>1
      <4>3. QED
        BY <4>2
    <3>4. QED
      BY <3>2, <3>3
  <2>3. pc'[c] = "write" => at'[c] =< Len(Entries(c)) /\ ~Entries(c)[at'[c]].directory
    OBVIOUS
  <2>4. QED
    BY <1>1, <2>1, <2>2, <2>3 DEF Own, StageOK
<1>7. PublishedOK(c)'
  BY <1>1 DEF PublishedOK
<1>8. CleanOK(c)'
  <2>1. \A p \in DOMAIN node' : p \in DOMAIN node \/ Below(Stage(c), p)
    BY DEF Grows, InStage
  <2>2. QED
    BY <1>1, <1>3, <2>1 DEF Own, CleanOK, Staging
<1>9. QED
  BY <1>2, <1>4, <1>6, <1>7, <1>8, StepsAreApart DEF Own, IInv

\* A pull that makes a directory in its stage.
LEMMA StageDirectoryKeeps ==
  ASSUME IInv, NEW c \in Clients, StageDirectory(c)
  PROVE  IInv' /\ Minds(c)
<1>1. TypeOK /\ TreeOK /\ Own(c)
  BY DEF IInv
<1>2. PICK call : call = PopulateCall(c)
  OBVIOUS
<1>3. /\ call # NoCall /\ node' = Carry(c, call)
      /\ UNCHANGED <<missing, created, published, cancelled, late, unclean, faults, outside>>
  BY <1>2 DEF StageDirectory
<1>4. /\ InStage(c, call.path)
      /\ \/ pc[c] = "payload" /\ ~call.deep
         \/ /\ pc[c] = "entry" /\ at[c] \in 1..Len(Entries(c))
            /\ call.deep = ~Entries(c)[at[c]].directory
            /\ ~call.deep => call.path = Target(c, at[c])
  BY <1>1, <1>2, <1>3, PopulateIs
<1>5. Stage(c) \in DOMAIN node
  BY <1>1, <1>4 DEF Own, StageOK, Staging
<1>6. TreeOK' /\ Grows(c, {p \in Paths : InStage(c, p)})
  BY <1>1, <1>3, <1>4, <1>5, Carried
<1>7. CASE /\ call.path \in DOMAIN node' /\ (call.deep \/ call.path \notin DOMAIN node)
           /\ Goto(c, IF call.deep THEN "write" ELSE "entry")
           /\ at' = [at EXCEPT ![c] = IF call.deep \/ pc[c] = "payload" THEN @ ELSE @ + 1]
  <2>1. /\ pc' = [pc EXCEPT ![c] = pc'[c]] /\ pc'[c] = IF call.deep THEN "write" ELSE "entry"
        /\ at' = [at EXCEPT ![c] = at'[c]]
        /\ at'[c] = IF call.deep \/ pc[c] = "payload" THEN at[c] ELSE at[c] + 1
    BY <1>1, <1>7 DEF TypeOK, Goto
  <2>2. at[c] \in Nat \ {0} /\ at'[c] \in Nat \ {0}
    BY <1>1, <2>1 DEF TypeOK
  <2>3. TypeOK'
    <3>1. pc'[c] \in Steps
      BY <2>1 DEF Steps
    <3>2. /\ pc' \in [Clients -> Steps] /\ at' \in [Clients -> Nat \ {0}]
      BY <1>1, <2>1, <2>2, <3>1 DEF TypeOK
    <3>3. QED
      BY <1>1, <1>3, <1>6, <3>2 DEF TypeOK, TreeOK
  <2>4. Alone(c)
    BY <1>1, <1>3, <2>1 DEF Alone, Apart, TypeOK, Early
  <2>5. CASE pc[c] = "payload"
    <3>1. ~call.deep
      BY <1>4, <2>5
    <3>2. pc'[c] = "entry" /\ at'[c] = at[c]
      BY <2>1, <2>5, <3>1
    <3>3. QED
      BY <1>3, <1>6, <2>3, <2>4, <2>5, <3>2, Staged
  <2>6. CASE pc[c] = "entry" /\ call.deep
    <3>1. Entries(c)[at[c]].directory = FALSE /\ at[c] \in 1..Len(Entries(c))
      BY <1>4, <2>6, TargetIs
    <3>2. QED
      BY <1>3, <1>6, <2>1, <2>3, <2>4, <2>6, <3>1, Staged
  <2>7. CASE pc[c] = "entry" /\ ~call.deep
    <3>1. PICK i : i = at[c]
      OBVIOUS
    <3>2. i \in 1..Len(Entries(c)) /\ Entries(c)[i].directory /\ call.path = Target(c, i)
      BY <1>4, <2>7, <3>1
    <3>3. call.path \in DOMAIN node' /\ node'[call.path] = Dir(c)
      BY <1>1, <1>3, <1>4, <1>7, <2>7, Carried
    <3>4. Made(c, Payload(c), i)'
      BY <3>2, <3>3 DEF Made, Target
    <3>5. QED
      BY <1>3, <1>6, <2>1, <2>3, <2>4, <2>7, <3>1, <3>2, <3>4, Staged
  <2>8. QED
    BY <1>4, <2>5, <2>6, <2>7
<1>8. CASE Fail(c) /\ UNCHANGED at
  <2>1. GivingUp(c) /\ pc' = [pc EXCEPT ![c] = pc'[c]] /\ pc'[c] \in Steps
    BY <1>1, <1>4, <1>8, FailIs DEF Ended
  <2>2. TypeOK'
    BY <1>1, <1>3, <1>6, <1>8, <2>1 DEF TypeOK, TreeOK
  <2>3. Alone(c)
    BY <1>1, <1>3, <1>4, <1>8, <2>1 DEF Alone, Apart, TypeOK, Early, GivingUp
  <2>4. QED
    BY <1>1, <1>3, <1>4, <1>6, <1>8, <2>1, <2>2, <2>3, GivenUp DEF Own, StageOK, Staging
<1>9. QED
  BY <1>2, <1>7, <1>8 DEF StageDirectory

\* A pull that writes a file in its stage.
LEMMA WriteEntryKeeps ==
  ASSUME IInv, NEW c \in Clients, WriteEntry(c)
  PROVE  IInv' /\ Minds(c)
<1>1. TypeOK /\ TreeOK /\ Own(c) /\ pc[c] = "write"
  BY DEF IInv, WriteEntry
<1>2. PICK i : i = at[c]
  OBVIOUS
<1>3. i \in 1..Len(Entries(c)) /\ ~Entries(c)[i].directory
  <2>1. i \in Nat \ {0} /\ Len(Entries(c)) \in Nat
    BY <1>1, <1>2, ManifestAssumption, LenProperties DEF TypeOK, Entries
  <2>2. QED
    BY <1>1, <1>2, <2>1 DEF Own, StageOK
<1>4. InStage(c, Target(c, i)) /\ Target(c, i) \in Paths
  BY <1>3, TargetIs DEF InStage
<1>5. CASE Mkdir(Target(c, i)) = "ok" /\ node' = With(Target(c, i), File(c))
  <2>1. /\ TreeOK' /\ Grows(c, {Target(c, i)})
        /\ Target(c, i) \in DOMAIN node' /\ node'[Target(c, i)] = File(c)
    BY <1>1, <1>4, <1>5, MadeOne DEF File, Makers
  <2>2. Grows(c, {p \in Paths : InStage(c, p)})
    BY <1>4, <2>1 DEF Grows
  <2>3. CASE Goto(c, "entry") /\ at' = [at EXCEPT ![c] = @ + 1]
    <3>1. /\ pc' = [pc EXCEPT ![c] = "entry"] /\ pc'[c] = "entry"
          /\ at' = [at EXCEPT ![c] = i + 1] /\ at'[c] = at[c] + 1
      BY <1>1, <1>2, <2>3 DEF TypeOK, Goto
    <3>2. at[c] \in Nat \ {0} /\ i + 1 \in Nat \ {0}
      BY <1>1, <1>2 DEF TypeOK
    <3>3. TypeOK'
      BY <1>1, <2>1, <3>1, <3>2 DEF WriteEntry, TypeOK, TreeOK, Steps
    <3>4. Alone(c)
      BY <1>1, <3>1 DEF WriteEntry, Alone, Apart, TypeOK, Early
    <3>5. Made(c, Payload(c), i)'
      BY <1>3, <2>1 DEF Made, Target
    <3>6. QED
      BY <1>1, <1>2, <1>3, <2>1, <2>2, <3>1, <3>3, <3>4, <3>5, Staged DEF WriteEntry
  <2>4. CASE Fail(c) /\ UNCHANGED at
    <3>1. GivingUp(c) /\ pc' = [pc EXCEPT ![c] = pc'[c]] /\ pc'[c] \in Steps
      BY <1>1, <2>4, FailIs DEF Ended
    <3>2. TypeOK'
      BY <1>1, <2>1, <2>4, <3>1 DEF WriteEntry, TypeOK, TreeOK
    <3>3. Alone(c)
      BY <1>1, <2>4, <3>1 DEF WriteEntry, Alone, Apart, TypeOK, Early, GivingUp
    <3>4. QED
      BY <1>1, <2>1, <2>2, <2>4, <3>1, <3>2, <3>3, GivenUp DEF WriteEntry, Own, StageOK, Staging
  <2>5. QED
    BY <1>1, <1>2, <1>5, <2>3, <2>4 DEF WriteEntry
<1>6. CASE Fail(c) /\ UNCHANGED <<node, at>>
  <2>1. GivingUp(c) /\ pc' = [pc EXCEPT ![c] = pc'[c]] /\ pc'[c] \in Steps
    BY <1>1, <1>6, FailIs DEF Ended
  <2>2. TreeOK' /\ Grows(c, {p \in Paths : InStage(c, p)})
    BY <1>1, <1>6, TreeStays, NothingGrows
  <2>3. TypeOK'
    BY <1>1, <1>6, <2>1, <2>2 DEF WriteEntry, TypeOK, TreeOK
  <2>4. Alone(c)
    BY <1>1, <1>6, <2>1 DEF WriteEntry, Alone, Apart, TypeOK, Early, GivingUp
  <2>5. QED
    BY <1>1, <1>6, <2>1, <2>2, <2>3, <2>4, GivenUp DEF WriteEntry, Own, StageOK
<1>7. QED
  BY <1>2, <1>5, <1>6 DEF WriteEntry

\* The commit: all it staged is at its destination.
LEMMA CommitPathKeeps ==
  ASSUME IInv, NEW c \in Clients, CommitPath(c)
  PROVE  IInv' /\ Minds(c)
<1>1. TypeOK /\ TreeOK /\ Own(c) /\ pc[c] = "entry" /\ ~published[c] /\ at[c] > Len(Entries(c))
  BY DEF IInv, CommitPath, Own, PublishedOK, Ended
<1>2. /\ pc' = [pc EXCEPT ![c] = "unstage"] /\ pc'[c] = "unstage"
      /\ UNCHANGED <<missing, created, at, cancelled, late, unclean, faults, outside>>
  BY <1>1 DEF CommitPath, Goto, TypeOK
<1>3. CASE /\ Mkdir(Dest[c]) = "ok" /\ node' = Moved(c)
           /\ published' = [published EXCEPT ![c] = TRUE]
  <2>1. TreeOK'
    BY <1>1, <1>3, MovedAll
  <2>2. \A p \in DOMAIN node : ~Below(Payload(c), p) => p \in DOMAIN node' /\ node'[p] = node[p]
    BY <1>1, <1>3, MovedAll
  <2>3. ASSUME NEW p \in DOMAIN node, Below(Payload(c), p)
        PROVE  Below(Stage(c), p) /\ node[p].by = c /\ p \notin Seq(Names)
    <3>1. p \in Paths
      BY <1>1 DEF TreeOK, NodeOK
    <3>2. Below(Stage(c), p)
      BY <2>3, <3>1, PlacesAre, PathOrder
    <3>3. node[p].by = c
      BY <1>1, <3>2, StageIsOwn DEF StagesOwned
    <3>4. QED
      BY <3>1, <3>2, <3>3, StagesApart
  <2>4. \A p \in DOMAIN node' : (p \in DOMAIN node /\ node'[p] = node[p]) \/ node'[p].by = c
    BY <1>1, <1>3, MovedAll
  <2>5. published'[c] = TRUE
    BY <1>1, <1>3 DEF TypeOK
  <2>6. TypeOK'
    BY <1>1, <1>2, <1>3, <2>1 DEF TypeOK, TreeOK, Steps
  <2>7. Alone(c)
    BY <1>1, <1>2, <1>3 DEF Alone, Apart, TypeOK, Early
  <2>8. Minds(c) /\ c \in Makers
    BY <1>1, <2>2, <2>3, <2>4 DEF Minds, Makers, Early
  <2>9. ParentsOK(c)'
    <3>1. ASSUME NEW i \in 1..Len(created[c])
          PROVE  created[c][i] \in DOMAIN node' /\ node'[created[c][i]] = Dir(c)
      <4>1. PICK p : p = created[c][i]
        OBVIOUS
      <4>2. Ancestor(c, p) /\ p \in DOMAIN node /\ node[p] = Dir(c)
        BY <1>1, <4>1 DEF Own, ParentsOK
      <4>3. p \in Seq(Names)
        BY <4>2, PlacesAre, NamedAbove DEF Ancestor
      <4>4. QED
        BY <2>2, <2>3, <4>1, <4>2, <4>3
    <3>2. QED
      BY <1>1, <1>2, <3>1 DEF Own, ParentsOK
  <2>10. StageOK(c)'
    <3>1. Stage(c) \in DOMAIN node /\ ~Below(Payload(c), Stage(c))
      <4>1. Stage(c) \in DOMAIN node
        BY <1>1 DEF Own, StageOK, Staging
      <4>2. Len(Payload(c)) = Len(Stage(c)) + 1 /\ Payload(c) \in Paths /\ Stage(c) \in Paths
        BY PlacesAre
      <4>3. QED
        BY <4>1, <4>2, BelowIs
    <3>2. Stage(c) \in DOMAIN node'
      BY <2>2, <3>1
    <3>3. QED
      BY <1>1, <1>2, <3>2 DEF Own, StageOK, Staging
  <2>11. PublishedOK(c)'
    <3>1. ASSUME NEW i \in 1..Len(Entries(c))
          PROVE  Made(c, Dest[c], i)'
      <4>1. i < at[c]
        BY <1>1, ManifestAssumption, LenProperties DEF TypeOK, Entries
      <4>2. Made(c, Payload(c), i)
        BY <1>1, <4>1 DEF Own, StageOK
      <4>3. Entries(c)[i].path \in Paths
        BY TargetIs
      <4>4. /\ Dest[c] \o Entries(c)[i].path \in DOMAIN node'
            /\ node'[Dest[c] \o Entries(c)[i].path] = node[Payload(c) \o Entries(c)[i].path]
        BY <1>1, <1>3, <4>2, <4>3, MovedAll DEF Made
      <4>5. QED
        BY <4>2, <4>4 DEF Made
    <3>2. QED
      BY <1>2, <3>1 DEF PublishedOK
  <2>12. CleanOK(c)'
    BY <1>2, <2>5 DEF CleanOK, Staging
  <2>13. QED
    BY <2>1, <2>6, <2>7, <2>8, <2>9, <2>10, <2>11, <2>12, StepsAreApart DEF Own
<1>4. CASE UNCHANGED <<node, published>>
  <2>1. GivingUp(c)
    BY <1>1, <1>2 DEF GivingUp
  <2>2. TreeOK' /\ Grows(c, {p \in Paths : InStage(c, p)})
    BY <1>1, <1>4, TreeStays, NothingGrows
  <2>3. TypeOK'
    BY <1>1, <1>2, <1>4, <2>2 DEF TypeOK, TreeOK, Steps
  <2>4. Alone(c)
    BY <1>1, <1>2, <1>4 DEF Alone, Apart, TypeOK, Early
  <2>5. QED
    BY <1>1, <1>2, <1>4, <2>1, <2>2, <2>3, <2>4, GivenUp DEF Own, StageOK
<1>5. QED
  BY <1>3, <1>4 DEF CommitPath

\* The clean-up of the stage: all of it goes, and nothing else.
LEMMA RemoveStageKeeps ==
  ASSUME IInv, NEW c \in Clients, RemoveStage(c)
  PROVE  IInv' /\ Minds(c)
<1>1. TypeOK /\ TreeOK /\ Own(c) /\ pc[c] = "unstage" /\ node' = Without(Stage(c))
  BY DEF IInv, RemoveStage
<1>2. /\ TreeOK'
      /\ \A p \in DOMAIN node' : p \in DOMAIN node /\ node'[p] = node[p] /\ ~Below(Stage(c), p)
      /\ \A p \in DOMAIN node : Below(Stage(c), p) \/ (p \in DOMAIN node' /\ node'[p] = node[p])
  BY <1>1, PlacesAre, RemovedAll
<1>3. \A p \in DOMAIN node : Below(Stage(c), p) => node[p].by = c
  BY <1>1, StageIsOwn DEF StagesOwned
<1>4. \A p \in DOMAIN node : p \in Seq(Names) => p \in DOMAIN node' /\ node'[p] = node[p]
  BY <1>1, <1>2, StagesApart DEF TreeOK, NodeOK
<1>5. /\ pc' = [pc EXCEPT ![c] = pc'[c]]
      /\ pc'[c] = IF published[c] /\ ~cancelled[c] THEN "success" ELSE "rmdirs"
      /\ UNCHANGED <<missing, created, at, published, cancelled, late, unclean, faults, outside>>
  BY <1>1 DEF RemoveStage, PcSame, Goto, TypeOK
<1>6. TypeOK'
  BY <1>1, <1>2, <1>5 DEF TypeOK, TreeOK, Steps
<1>7. Alone(c)
  BY <1>1, <1>5 DEF Alone, Apart, TypeOK, Early
<1>8. Minds(c) /\ c \in Makers
  BY <1>1, <1>2, <1>3 DEF Minds, Makers, Early
<1>9. ParentsOK(c)'
  <2>1. ASSUME NEW i \in 1..Len(created[c])
        PROVE  created[c][i] \in DOMAIN node' /\ node'[created[c][i]] = Dir(c)
    <3>1. PICK p : p = created[c][i]
      OBVIOUS
    <3>2. Ancestor(c, p) /\ p \in DOMAIN node /\ node[p] = Dir(c)
      BY <1>1, <3>1 DEF Own, ParentsOK
    <3>3. p \in Seq(Names)
      BY <3>2, PlacesAre, NamedAbove DEF Ancestor
    <3>4. QED
      BY <1>4, <3>1, <3>2, <3>3
  <2>2. QED
    BY <1>1, <1>5, <2>1 DEF Own, ParentsOK
<1>10. StageOK(c)'
  BY <1>1, <1>5 DEF Own, StageOK, Staging
<1>11. PublishedOK(c)'
  <2>1. ASSUME NEW i \in 1..Len(Entries(c)), Made(c, Dest[c], i)
        PROVE  Made(c, Dest[c], i)'
    <3>1. Dest[c] \o Entries(c)[i].path \in Seq(Names)
      BY TargetIs
    <3>2. QED
      BY <1>4, <2>1, <3>1 DEF Made
  <2>2. published[c] \in BOOLEAN /\ cancelled[c] \in BOOLEAN
    BY <1>1 DEF TypeOK
  <2>3. QED
    BY <1>1, <1>5, <2>1, <2>2 DEF Own, PublishedOK, Ended
<1>12. CleanOK(c)'
  BY <1>1, <1>2, <1>5 DEF Own, CleanOK, Staging
<1>13. QED
  BY <1>2, <1>6, <1>7, <1>8, <1>9, <1>10, <1>11, <1>12, StepsAreApart DEF Own

\* The parents a pull made, without the deepest of them, which is a directory
\* of its own that rmdir removes or finds occupied.
LEMMA DeepestIs ==
  ASSUME TypeOK, TreeOK, NEW c \in Clients, ParentsOK(c), created[c] # << >>
  PROVE  LET n == Len(created[c])
             p == created[c][n]
             k == SubSeq(created[c], 1, n - 1)
         IN  /\ n \in Nat \ {0} /\ p \in Paths /\ Ancestor(c, p)
             /\ p \in DOMAIN node /\ node[p] = Dir(c) /\ Rmdir(p) \in {"ok", "ENOTEMPTY"}
             /\ k \in Seq(Paths) /\ Len(k) = n - 1
             /\ \A i \in 1..Len(k) : i \in 1..n /\ k[i] = created[c][i] /\ Len(k[i]) < Len(p)
             /\ \A i \in 1..n : i # n => i \in 1..Len(k)
<1> DEFINE n == Len(created[c])
           p == created[c][n]
           k == SubSeq(created[c], 1, n - 1)
<1>1. created[c] \in Seq(Paths) /\ n \in Nat \ {0}
  BY EmptySeq DEF TypeOK
<1>2. Ancestor(c, p) /\ p \in Paths /\ p \in DOMAIN node /\ node[p] = Dir(c)
  BY <1>1 DEF ParentsOK, Ancestor
<1>3. Rmdir(p) \in {"ok", "ENOTEMPTY"}
  BY <1>2, LookIs DEF TreeOK, Dir
<1>4. /\ k \in Seq(Paths) /\ Len(k) = n - 1
      /\ \A i \in 1..(n - 1) : k[i] = created[c][i]
  BY <1>1, SubSeqProperties
<1>5. \A i \in 1..(n - 1) : i \in 1..n /\ Len(created[c][i]) < Len(p)
  BY <1>1 DEF ParentsOK
<1>6. QED
  BY <1>1, <1>2, <1>3, <1>4, <1>5

\* The clean-up of a parent: it goes if nothing is in it; if something is,
\* then it is there by somebody else, or somebody else has worked in it.
LEMMA RemoveParentKeeps ==
  ASSUME IInv, NEW c \in Clients, RemoveParent(c)
  PROVE  IInv' /\ Minds(c)
<1> DEFINE n == Len(created[c])
           p == created[c][n]
<1>1. TypeOK /\ TreeOK /\ Own(c) /\ ParentsOK(c) /\ pc[c] = "rmdirs" /\ n > 0
  BY DEF IInv, RemoveParent, Own
<1>2. created[c] # << >>
  BY <1>1, EmptySeq
<1>3. /\ n \in Nat \ {0} /\ p \in Paths /\ Ancestor(c, p)
      /\ p \in DOMAIN node /\ node[p] = Dir(c) /\ Rmdir(p) \in {"ok", "ENOTEMPTY"}
  BY <1>1, <1>2, DeepestIs
<1>4. PICK k : k = SubSeq(created[c], 1, n - 1)
  OBVIOUS
<1>5. /\ k \in Seq(Paths) /\ Len(k) = n - 1
      /\ \A i \in 1..Len(k) : i \in 1..n /\ k[i] = created[c][i] /\ Len(k[i]) < Len(p)
      /\ \A i \in 1..n : i # n => i \in 1..Len(k)
  BY <1>1, <1>2, <1>4, DeepestIs
<1>6. /\ created' = [created EXCEPT ![c] = k] /\ created'[c] = k
      /\ UNCHANGED <<pc, missing, at, published, cancelled, late, unclean, faults, outside>>
  BY <1>1, <1>4 DEF RemoveParent, TypeOK
<1>7. (Rmdir(p) = "ok" /\ node' = Without(p)) \/ (Rmdir(p) = "ENOTEMPTY" /\ UNCHANGED node)
  BY <1>3 DEF RemoveParent
<1>8. \A i \in 1..n : created[c][i] = p \/ \E j \in 1..Len(k) : created[c][i] = k[j]
  BY <1>5
<1> HIDE DEF n, p
<1>9. p \in Seq(Names) /\ p # Root /\ ~Below(Stage(c), p) /\ Len(p) < Len(Dest[c])
  <2>1. p \in Seq(Names) /\ p # Root
    BY <1>3, PlacesAre, NamedAbove DEF Ancestor
  <2>2. ~Below(Stage(c), p)
    BY <1>3, <2>1, StagesApart
  <2>3. Len(p) <= Len(Parent(Dest[c])) /\ Len(Parent(Dest[c])) = Len(Dest[c]) - 1
        /\ Len(p) \in Nat /\ Len(Dest[c]) \in Nat
    BY <1>3, PlacesAre, ParentIs, BelowIs DEF Ancestor
  <2>4. QED
    BY <2>1, <2>2, <2>3
<1>10. /\ TreeOK'
       /\ \A r \in DOMAIN node' : r \in DOMAIN node /\ node'[r] = node[r]
       /\ \A r \in DOMAIN node : r = p \/ (r \in DOMAIN node' /\ node'[r] = node[r])
  <2>1. CASE Rmdir(p) = "ok" /\ node' = Without(p)
    <3>1. \A q \in DOMAIN node : Below(p, q) => q = p
      BY <1>1, <1>3, <2>1, LookIs DEF TreeOK
    <3>2. QED
      BY <1>1, <1>3, <1>9, <2>1, <3>1, RemovedAll
  <2>2. CASE UNCHANGED node
    BY <1>1, <2>2, TreeStays
  <2>3. QED
    BY <1>7, <2>1, <2>2
<1>11. TypeOK'
  BY <1>1, <1>5, <1>6, <1>10 DEF TypeOK, TreeOK
<1>12. Alone(c)
  BY <1>1, <1>6 DEF Alone, Apart, TypeOK, Early
<1>13. Minds(c) /\ c \in Makers
  BY <1>1, <1>3, <1>10 DEF Minds, Makers, Early, Dir, Ancestor
<1>14. ParentsOK(c)'
  <2>1. ASSUME NEW i \in 1..Len(k)
        PROVE  /\ Ancestor(c, k[i]) /\ k[i] \in DOMAIN node' /\ node'[k[i]] = Dir(c)
               /\ \A j \in 1..Len(k) : i < j => Len(k[i]) < Len(k[j])
               /\ \A j \in 1..Len(missing[c]) : Len(k[i]) < Len(missing[c][j])
    <3>1. k[i] = created[c][i] /\ i \in 1..Len(created[c]) /\ Len(k[i]) < Len(p)
      BY <1>5 DEF n
    <3>2. k[i] # p
      BY <1>3, <3>1, BelowIs
    <3>3. /\ Ancestor(c, k[i]) /\ k[i] \in DOMAIN node /\ node[k[i]] = Dir(c)
          /\ \A j \in 1..Len(missing[c]) : Len(k[i]) < Len(missing[c][j])
      BY <1>1, <3>1 DEF ParentsOK
    <3>4. ASSUME NEW j \in 1..Len(k), i < j PROVE Len(k[i]) < Len(k[j])
      <4>1. k[j] = created[c][j] /\ j \in 1..Len(created[c])
        BY <1>5 DEF n
      <4>2. QED
        BY <1>1, <3>1, <3>4, <4>1 DEF ParentsOK
    <3>5. QED
      BY <1>10, <3>2, <3>3, <3>4
  <2>2. QED
    BY <1>1, <1>6, <2>1 DEF ParentsOK
<1>15. StageOK(c)'
  BY <1>1, <1>6 DEF Own, StageOK, Staging
<1>16. PublishedOK(c)'
  <2>1. ASSUME NEW i \in 1..Len(Entries(c)), Made(c, Dest[c], i)
        PROVE  Made(c, Dest[c], i)'
    <3>1. PICK q : q = Dest[c] \o Entries(c)[i].path
      OBVIOUS
    <3>2. q \in Seq(Names) /\ q \in Paths /\ Below(Dest[c], q)
      BY <3>1, TargetIs, NamedAbove
    <3>3. q # p
      BY <1>3, <1>9, <3>2, PlacesAre, BelowIs
    <3>4. QED
      BY <1>10, <2>1, <3>1, <3>3 DEF Made
  <2>2. QED
    BY <1>1, <1>6, <2>1 DEF Own, PublishedOK, Ended
<1>17. CleanOK(c)'
  <2> SUFFICES ASSUME c \notin unclean PROVE CleanOK(c)'
    BY <1>6 DEF CleanOK
  <2>1. \A r \in DOMAIN node : ~Below(Stage(c), r)
    BY <1>1 DEF Own, CleanOK, Staging
  <2>2. ASSUME ~published[c], NEW r \in DOMAIN node', node'[r].by = c
        PROVE  (\E i \in 1..Len(k) : r = k[i]) \/ (Ancestor(c, r) /\ Excused(c, r)')
    <3>1. r \in DOMAIN node /\ node[r].by = c
      BY <1>10, <2>2
    <3>2. (\E i \in 1..n : r = created[c][i]) \/ (Ancestor(c, r) /\ Excused(c, r))
      BY <1>1, <2>1, <2>2, <3>1 DEF Own, CleanOK, n
    <3>3. ASSUME Excused(c, r) PROVE Excused(c, r)'
      <4>1. \A d \in Clients : HasWorkedIn(d, r) => HasWorkedIn(d, r)'
        BY <1>6 DEF HasWorkedIn
      <4>2. \A q \in DOMAIN node : node[q].by # c => q \in DOMAIN node' /\ node'[q].by # c
        BY <1>13 DEF Minds
      <4>3. QED
        BY <3>3, <4>1, <4>2 DEF Excused
    <3>4. ASSUME r = p PROVE Excused(c, p)
      <4>1. UNCHANGED node /\ Rmdir(p) = "ENOTEMPTY"
        <5>1. CASE Rmdir(p) = "ok" /\ node' = Without(p)
          <6>1. \A q \in DOMAIN node' : ~Below(p, q)
            BY <1>1, <1>3, <1>9, <5>1, RemovedAll
          <6>2. Below(p, p)
            BY <1>3, PathOrder
          <6>3. QED
            BY <2>2, <3>4, <6>1, <6>2
        <5>2. QED
          BY <1>7, <5>1
      <4>2. PICK q \in DOMAIN node : Below(p, q) /\ q # p
        BY <1>1, <1>3, <4>1, LookIs DEF TreeOK
      <4>3. q \in Paths
        BY <1>1 DEF TreeOK, NodeOK
      <4>4. CASE node[q].by # c
        BY <4>2, <4>4 DEF Excused
      <4>5. CASE node[q].by = c
        <5>1. ~\E i \in 1..n : q = created[c][i]
          <6>1. Len(p) < Len(q)
            BY <1>3, <4>2, <4>3, PathOrder, BelowIs
          <6>2. \A i \in 1..Len(k) : k[i] # q
            <7>1. ASSUME NEW i \in 1..Len(k), k[i] = q PROVE FALSE
              BY <1>3, <1>5, <4>3, <6>1, <7>1, BelowIs
            <7>2. QED
              BY <7>1
          <6>3. QED
            BY <1>8, <4>2, <6>2
        <5>2. Ancestor(c, q) /\ Excused(c, q)
          BY <1>1, <2>1, <2>2, <4>5, <5>1 DEF Own, CleanOK, n
        <5>3. CASE \E d \in Clients \ {c} : HasWorkedIn(d, q)
          <6>1. PICK d \in Clients \ {c} : HasWorkedIn(d, q)
            BY <5>3
          <6>2. Below(p, Parent(Dest[d]))
            BY <1>3, <4>2, <4>3, <6>1, PlacesAre, PathOrder DEF HasWorkedIn
          <6>3. QED
            BY <6>1, <6>2 DEF HasWorkedIn, Excused
        <5>4. CASE \E s \in DOMAIN node : Below(q, s) /\ node[s].by # c
          <6>1. PICK s \in DOMAIN node : Below(q, s) /\ node[s].by # c /\ s \in Paths
            BY <1>1, <5>4 DEF TreeOK, NodeOK
          <6>2. Below(p, s)
            BY <1>3, <4>2, <4>3, <6>1, PathOrder
          <6>3. QED
            BY <6>1, <6>2 DEF Excused
        <5>5. QED
          BY <5>2, <5>3, <5>4 DEF Excused
      <4>6. QED
        BY <4>4, <4>5
    <3>5. CASE r = p
      <4>1. Excused(c, r) /\ Ancestor(c, r)
        BY <1>3, <3>4, <3>5
      <4>2. QED
        BY <3>3, <4>1
    <3>6. CASE r # p
      BY <1>8, <3>2, <3>3, <3>6
    <3>7. QED
      BY <3>5, <3>6
  <2>3. QED
    BY <1>1, <1>6, <1>10, <2>1, <2>2 DEF CleanOK, Staging
<1>18. QED
  BY <1>10, <1>11, <1>12, <1>13, <1>14, <1>15, <1>16, <1>17, StepsAreApart DEF Own

\* The clean-up is over when the pull has no parent of its own left to try:
\* the only error it could meet, a file in its place, is not met here.
LEMMA ParentsRemovedKeeps ==
  ASSUME IInv, NEW c \in Clients, ParentsRemoved(c)
  PROVE  IInv' /\ Minds(c)
<1>1. TypeOK /\ TreeOK /\ Own(c) /\ ParentsOK(c) /\ pc[c] = "rmdirs"
  BY DEF IInv, ParentsRemoved, Own
<1>2. created[c] = << >>
  BY <1>1, DeepestIs DEF ParentsRemoved
<1>3. /\ pc' = [pc EXCEPT ![c] = "failure"] /\ pc'[c] = "failure"
      /\ UNCHANGED <<node, missing, created, at, published, cancelled, late, unclean,
                     faults, outside>>
  BY <1>1 DEF ParentsRemoved, Goto, PcSame, TypeOK
<1>4. TreeOK' /\ Minds(c) /\ c \in Makers
  BY <1>1, <1>3, TreeStays, NothingGrows, GrowthMinds DEF Makers
<1>5. TypeOK'
  BY <1>1, <1>3, <1>4 DEF TypeOK, TreeOK, Steps
<1>6. Alone(c)
  BY <1>1, <1>3 DEF Alone, Apart, TypeOK, Early
<1>7. ParentsOK(c)'
  BY <1>1, <1>3 DEF ParentsOK
<1>8. StageOK(c)'
  BY <1>1, <1>3 DEF Own, StageOK, Staging
<1>9. PublishedOK(c)'
  BY <1>1, <1>3 DEF Own, PublishedOK, Ended, Made
<1>10. CleanOK(c)'
  <2>1. \A r : \A d \in Clients \ {c} : HasWorkedIn(d, r) => HasWorkedIn(d, r)'
    BY <1>6 DEF Alone, Apart, HasWorkedIn
  <2>2. \A r : Excused(c, r) => Excused(c, r)'
    BY <1>3, <2>1 DEF Excused
  <2>3. QED
    BY <1>1, <1>2, <1>3, <2>2 DEF Own, CleanOK, Staging
<1>11. QED
  BY <1>4, <1>5, <1>6, <1>7, <1>8, <1>9, <1>10, StepsAreApart DEF Own

\* A call that fails for a reason of the host's own.
LEMMA HostFailsKeeps ==
  ASSUME IInv, NEW c \in Clients, HostFails(c)
  PROVE  IInv' /\ Minds(c)
<1>1. /\ TypeOK /\ TreeOK /\ Own(c) /\ pc[c] \notin Ended /\ Fail(c) /\ faults' = faults + 1
      /\ unclean' = IF pc[c] \in {"unstage", "rmdirs"} THEN unclean \cup {c} ELSE unclean
      /\ UNCHANGED <<node, missing, created, at, published, cancelled, late, outside>>
  BY DEF IInv, HostFails
<1>2. pc[c] \in {"unstage", "rmdirs"} => c \in unclean'
  BY <1>1
<1>3. GivingUp(c) /\ pc' = [pc EXCEPT ![c] = pc'[c]] /\ pc'[c] \in Steps
  BY <1>1, <1>2, FailIs
<1>4. TreeOK' /\ Grows(c, {p \in Paths : InStage(c, p)})
  BY <1>1, TreeStays, NothingGrows
<1>5. TypeOK'
  <2>1. unclean' \subseteq Clients /\ faults' \in Nat
    BY <1>1 DEF TypeOK
  <2>2. QED
    BY <1>1, <1>3, <1>4, <2>1 DEF TypeOK, TreeOK
<1>6. Alone(c)
  BY <1>1, <1>3 DEF Alone, Apart, TypeOK, Early, GivingUp
<1>7. QED
  BY <1>1, <1>3, <1>4, <1>5, <1>6, GivenUp DEF Own, StageOK

\* An interruption: the pull leaves the call it waits for, which may still do
\* its work in the stage.
LEMMA InterruptKeeps ==
  ASSUME IInv, NEW c \in Clients, Interrupt(c)
  PROVE  IInv' /\ Minds(c)
<1>1. /\ TypeOK /\ TreeOK /\ Own(c) /\ pc[c] \notin Ended
      /\ cancelled' = [cancelled EXCEPT ![c] = TRUE]
      /\ UNCHANGED <<missing, created, at, published, unclean, faults, outside>>
  BY DEF IInv, Interrupt
<1>2. /\ GivingUp(c) /\ pc' = [pc EXCEPT ![c] = pc'[c]] /\ pc'[c] \in Steps
      /\ pc[c] \notin Early => pc'[c] \notin Early
  <2>1. CASE pc[c] \in {"inspect", "payload", "entry", "write"}
    <3>1. Fail(c)
      BY <2>1 DEF Interrupt
    <3>2. GivingUp(c) /\ pc' = [pc EXCEPT ![c] = pc'[c]] /\ pc'[c] \in Steps
      BY <1>1, <2>1, <3>1, FailIs
    <3>3. QED
      BY <2>1, <3>2 DEF GivingUp, Early
  <2>2. CASE pc[c] \notin {"inspect", "payload", "entry", "write"}
    <3>1. UNCHANGED pc
      BY <2>2 DEF Interrupt
    <3>2. QED
      BY <1>1, <3>1 DEF TypeOK, GivingUp
  <2>3. QED
    BY <2>1, <2>2
<1>3. PICK call \in {NoCall, PopulateCall(c)} : late' = [late EXCEPT ![c] = call]
  BY DEF Interrupt
<1>4. /\ call \in [path : Paths, deep : BOOLEAN]
      /\ call = NoCall \/ InStage(c, call.path)
  BY <1>1, PopulateIs
<1>5. late'[c] = NoCall \/ InStage(c, late'[c].path)
  BY <1>1, <1>3, <1>4 DEF TypeOK
<1>6. TreeOK' /\ Grows(c, {p \in Paths : InStage(c, p)}) /\ (UNCHANGED node \/ pc[c] = "write")
  <2>1. CASE UNCHANGED node
    BY <1>1, <2>1, TreeStays, NothingGrows
  <2>2. CASE /\ pc[c] = "write" /\ Mkdir(Target(c, at[c])) = "ok"
             /\ node' = With(Target(c, at[c]), File(c))
    <3>1. PICK i : i = at[c]
      OBVIOUS
    <3>2. i \in 1..Len(Entries(c))
      BY <1>1, <2>2, <3>1, ManifestAssumption, LenProperties DEF TypeOK, Entries, Own, StageOK
    <3>3. InStage(c, Target(c, i)) /\ Target(c, i) \in Paths
      BY <3>2, TargetIs DEF InStage
    <3>4. TreeOK' /\ Grows(c, {Target(c, i)})
      BY <1>1, <2>2, <3>1, <3>3, MadeOne DEF File, Makers
    <3>5. QED
      BY <2>2, <3>3, <3>4 DEF Grows
  <2>3. QED
    BY <2>1, <2>2 DEF Interrupt
<1>7. TypeOK'
  BY <1>1, <1>2, <1>3, <1>4, <1>6 DEF TypeOK, TreeOK
<1>8. Alone(c)
  BY <1>1, <1>2, <1>3 DEF Alone, Apart, TypeOK
<1>9. cancelled'[c]
  BY <1>1 DEF TypeOK
<1>10. QED
  BY <1>1, <1>2, <1>5, <1>6, <1>7, <1>8, <1>9, GivenUp DEF Staging

\* The abandoned mkdir: only in the stage, unless the stage is gone already.
LEMMA LateMkdirKeeps ==
  ASSUME IInv, NEW c \in Clients, LateMkdir(c)
  PROVE  IInv' /\ Minds(c)
<1>1. PICK call : call = late[c]
  OBVIOUS
<1>2. /\ TypeOK /\ TreeOK /\ Own(c) /\ call # NoCall /\ InStage(c, call.path)
      /\ late' = [late EXCEPT ![c] = NoCall] /\ node' = Carry(c, call)
      /\ unclean' = IF pc[c] # "unstage" /\ node' # node THEN unclean \cup {c} ELSE unclean
      /\ UNCHANGED <<pc, missing, created, at, published, cancelled, faults, outside>>
  BY <1>1 DEF IInv, LateMkdir, Own, StageOK
<1>3. /\ TreeOK'
      /\ Grows(c, {p \in Paths : InStage(c, p) \/ Ancestor(c, p)})
      /\ Stage(c) \in DOMAIN node => Grows(c, {p \in Paths : InStage(c, p)})
  BY <1>2, Carried
<1>4. NoCall \in [path : Paths, deep : BOOLEAN] /\ late'[c] = NoCall
  BY <1>2, PopulateIs DEF TypeOK
<1>5. TypeOK'
  BY <1>2, <1>3, <1>4 DEF TypeOK, TreeOK
<1>6. Alone(c) /\ (c \in unclean => c \in unclean')
  BY <1>2 DEF Alone, Apart, TypeOK
<1>7. CASE pc[c] = "unstage"
  <2>1. Stage(c) \in DOMAIN node
    BY <1>2, <1>7 DEF Own, StageOK, Staging
  <2>2. GivingUp(c) /\ pc[c] \in Staging
    BY <1>2, <1>7 DEF GivingUp, Staging
  <2>3. QED
    BY <1>2, <1>3, <1>4, <1>5, <1>6, <2>1, <2>2, GivenUp
<1>8. CASE UNCHANGED node
  <2>1. GivingUp(c)
    BY <1>2 DEF GivingUp
  <2>2. Grows(c, {p \in Paths : InStage(c, p)})
    BY <1>8, NothingGrows
  <2>3. QED
    BY <1>2, <1>3, <1>4, <1>5, <1>6, <1>8, <2>1, <2>2, GivenUp
<1>9. CASE pc[c] # "unstage" /\ node' # node
  <2>1. c \in unclean'
    BY <1>2, <1>9
  <2>2. \A p \in DOMAIN node : p \in DOMAIN node' /\ node'[p] = node[p]
    BY <1>3 DEF Grows
  <2>3. Minds(c) /\ c \in Makers
    BY <1>3, GrowthMinds DEF Makers
  <2>4. ASSUME NEW p, NEW i, Made(c, p, i) PROVE Made(c, p, i)'
    BY <2>2, <2>4 DEF Made
  <2>5. ParentsOK(c)'
    BY <1>2, <2>2 DEF Own, ParentsOK
  <2>6. StageOK(c)'
    <3>1. \A i \in 1..Len(Entries(c)) : Made(c, Payload(c), i) => Made(c, Payload(c), i)'
      BY <2>4
    <3>2. QED
      BY <1>2, <1>4, <2>2, <3>1 DEF Own, StageOK
  <2>7. PublishedOK(c)'
    <3>1. \A i \in 1..Len(Entries(c)) : Made(c, Dest[c], i) => Made(c, Dest[c], i)'
      BY <2>4
    <3>2. QED
      BY <1>2, <3>1 DEF Own, PublishedOK
  <2>8. CleanOK(c)'
    BY <2>1 DEF CleanOK
  <2>9. QED
    BY <1>3, <1>5, <1>6, <2>3, <2>5, <2>6, <2>7, <2>8, StepsAreApart DEF Own
<1>10. QED
  BY <1>7, <1>8, <1>9

\* Another program makes something, at a path of given names.
LEMMA OutsideKeeps ==
  ASSUME IInv, NEW p \in TreePaths, NEW kind \in {"dir", "file"}, Outside(p, kind)
  PROVE  IInv' /\ Grows(Other, {p})
<1>1. p \in Seq(Names) /\ p \in Paths
  <2>1. PICK c \in Clients : \E n \in 1..Len(Dest[c]) : p = SubSeq(Dest[c], 1, n)
    BY DEF TreePaths
  <2>. PICK n \in 1..Len(Dest[c]) : p = SubSeq(Dest[c], 1, n)
    BY <2>1
  <2>2. /\ Dest[c] \in Paths /\ Dest[c] \in Seq(Names) /\ n \in 0..Len(Dest[c])
    BY PlacesAre, BelowIs
  <2>3. p \in Paths /\ Below(p, Dest[c])
    BY <2>1, <2>2, PrefixAbove
  <2>4. QED
    BY <2>2, <2>3, NamedAbove
<1>2. /\ TypeOK /\ TreeOK /\ Mkdir(p) = "ok" /\ node' = With(p, [kind |-> kind, by |-> Other])
      /\ outside' = outside + 1
      /\ UNCHANGED <<pc, missing, created, at, published, cancelled, late, unclean, faults>>
  BY DEF IInv, Outside
<1>3. TreeOK' /\ Grows(Other, {p}) /\ Other \in Makers
  BY <1>1, <1>2, MadeOne DEF Makers
<1>4. Minds(Other)
  BY <1>3, GrowthMinds
<1>5. TypeOK'
  BY <1>2, <1>3 DEF TypeOK, TreeOK
<1>6. Alone(Other) /\ Other \notin Clients
  BY <1>2, NamesAssumption DEF Alone, Apart
<1>7. QED
  BY <1>3, <1>4, <1>5, <1>6, StepsAreApart

-----------------------------------------------------------------------------
(***************************************************************************)
(* The theorems.                                                           *)
(***************************************************************************)
\* A tree to begin with: every path of it is a prefix of a destination.
LEMMA InitialTree ==
  ASSUME Init
  PROVE  TreeOK /\ \A p \in DOMAIN node : p \in Seq(Names) /\ node[p].by = Other
<1>1. PICK S \in SUBSET TreePaths :
        /\ node \in [S \cup {Root} -> {Dir(Other), File(Other)}]
        /\ node[Root] = Dir(Other)
        /\ \A p \in DOMAIN node : \A n \in 1..(Len(p) - 1) :
             SubSeq(p, 1, n) \in DOMAIN node /\ node[SubSeq(p, 1, n)] = Dir(Other)
  BY DEF Init, Trees
<1>2. ASSUME NEW p \in DOMAIN node
      PROVE  p \in Seq(Names) /\ p \in Paths
  <2>1. CASE p = Root
    BY <2>1, NamedAbove, PathOrder, BelowIs
  <2>2. CASE p # Root
    <3>1. PICK c \in Clients : \E n \in 1..Len(Dest[c]) : p = SubSeq(Dest[c], 1, n)
      BY <1>1, <2>2 DEF TreePaths
    <3>. PICK n \in 1..Len(Dest[c]) : p = SubSeq(Dest[c], 1, n)
      BY <3>1
    <3>2. /\ Dest[c] \in Paths /\ Dest[c] \in Seq(Names) /\ n \in 0..Len(Dest[c])
      BY PlacesAre, BelowIs
    <3>3. p \in Paths /\ Below(p, Dest[c])
      BY <3>1, <3>2, PrefixAbove
    <3>4. QED
      BY <3>2, <3>3, NamedAbove
  <2>3. QED
    BY <2>1, <2>2
<1>3. ASSUME NEW p \in DOMAIN node
      PROVE  node[p] \in Nodes /\ node[p].by = Other
  BY <1>1 DEF Dir, File, Nodes, Makers
<1>4. NodeOK
  BY <1>1, <1>2, <1>3 DEF NodeOK
<1>5. Rooted
  <2>1. ASSUME NEW q \in DOMAIN node, NEW n \in 0..(Len(q) - 1)
        PROVE  SubSeq(q, 1, n) \in DOMAIN node /\ node[SubSeq(q, 1, n)].kind = "dir"
    <3>1. q \in Paths /\ Len(q) \in Nat
      BY <1>2, BelowIs
    <3>2. CASE n = 0
      <4>1. SubSeq(q, 1, n) = Root
        BY <3>1, <3>2, PrefixAbove, PathOrder
      <4>2. Root \in DOMAIN node /\ node[Root].kind = "dir"
        BY <1>1 DEF Dir
      <4>3. QED
        BY <4>1, <4>2
    <3>3. CASE n # 0
      BY <1>1, <3>1, <3>3 DEF Dir
    <3>4. QED
      BY <3>2, <3>3
  <2>2. Root \in DOMAIN node
    BY <1>1
  <2>3. QED
    BY <2>1, <2>2 DEF Rooted
<1>6. QED
  BY <1>2, <1>3, <1>4, <1>5 DEF TreeOK, Placed

\* At the start no pull has made anything.
LEMMA Initially == Init => IInv
<1> SUFFICES ASSUME Init PROVE IInv
  OBVIOUS
<1>1. TreeOK /\ \A p \in DOMAIN node : p \in Seq(Names) /\ node[p].by = Other
  BY InitialTree
<1>2. TypeOK
  <2>1. << >> \in Seq(Paths)
    BY EmptySeq
  <2>2. NoCall \in [path : Paths, deep : BOOLEAN]
    BY PathOrder DEF NoCall
  <2>3. QED
    BY <1>1, <2>1, <2>2 DEF Init, TypeOK, TreeOK, Steps
<1>3. ASSUME NEW c \in Clients PROVE Own(c)
  <2>1. /\ pc[c] = "inspect" /\ missing[c] = << >> /\ created[c] = << >> /\ at[c] = 1
        /\ ~published[c] /\ late[c] = NoCall
    BY DEF Init
  <2>2. Len(<< >>) = 0
    OBVIOUS
  <2>3. ParentsOK(c)
    BY <2>1, <2>2 DEF ParentsOK
  <2>4. StageOK(c)
    BY <2>1 DEF StageOK, Staging
  <2>5. PublishedOK(c)
    BY <2>1 DEF PublishedOK
  <2>6. CleanOK(c)
    <3>1. \A p \in DOMAIN node : ~Below(Stage(c), p) /\ node[p].by # c
      BY <1>1, StagesApart, NamesAssumption DEF TreeOK, NodeOK
    <3>2. QED
      BY <2>1, <3>1 DEF CleanOK
  <2>7. QED
    BY <2>3, <2>4, <2>5, <2>6 DEF Own
<1>4. QED
  BY <1>1, <1>2, <1>3 DEF IInv

\* A step leaves what other programs made.
OthersKeptNow == \A p \in DOMAIN node : node[p].by = Other => p \in DOMAIN node' /\ node'[p] = node[p]

\* Every step of every pull, and of other programs, keeps the invariant, and
\* what other programs made.
LEMMA EveryStep == IInv /\ [Next]_vars => IInv' /\ OthersKeptNow
<1> SUFFICES ASSUME IInv, [Next]_vars PROVE IInv' /\ OthersKeptNow
  OBVIOUS
<1>1. ASSUME NEW c \in Clients, Step(c) PROVE IInv' /\ Minds(c)
  <2>1. CASE InspectDestination(c) \/ FindMissingParent(c) \/ CreateParent(c) \/ CheckParent(c)
    BY <2>1, InspectKeeps, FindKeeps, CreateParentKeeps, CheckParentKeeps
  <2>2. CASE ParentsReady(c) \/ CreateStage(c) \/ StageDirectory(c) \/ WriteEntry(c)
    BY <2>2, ParentsReadyKeeps, CreateStageKeeps, StageDirectoryKeeps, WriteEntryKeeps
  <2>3. CASE CommitPath(c) \/ RemoveStage(c) \/ RemoveParent(c) \/ ParentsRemoved(c)
    BY <2>3, CommitPathKeeps, RemoveStageKeeps, RemoveParentKeeps, ParentsRemovedKeeps
  <2>4. CASE HostFails(c) \/ Interrupt(c) \/ LateMkdir(c)
    BY <2>4, HostFailsKeeps, InterruptKeeps, LateMkdirKeeps
  <2>5. QED
    BY <1>1, <2>1, <2>2, <2>3, <2>4 DEF Step
<1>2. ASSUME NEW c \in Clients, Minds(c) PROVE OthersKeptNow
  BY <1>2, NamesAssumption DEF Minds, OthersKeptNow
<1>3. ASSUME NEW p, Grows(Other, {p}) PROVE OthersKeptNow
  BY <1>3 DEF Grows, OthersKeptNow
<1>4. CASE UNCHANGED vars
  <2>1. IInv'
    BY <1>4 DEF vars, IInv, TypeOK, NodeOK, TreeOK, Rooted, Placed, Own, ParentsOK, StageOK,
                PublishedOK, CleanOK, Made, Excused, HasWorkedIn
  <2>2. OthersKeptNow
    BY <1>4 DEF vars, OthersKeptNow
  <2>3. QED
    BY <2>1, <2>2
<1>5. ASSUME NEW p \in TreePaths, NEW kind \in {"dir", "file"}, Outside(p, kind)
      PROVE  IInv' /\ OthersKeptNow
  BY <1>3, <1>5, OutsideKeeps
<1>6. QED
  BY <1>1, <1>2, <1>4, <1>5 DEF Next

\* What the pulls of a machine and other programs do to the tree, in any order.
THEOREM Invariance == Spec => []IInv
BY Initially, EveryStep, PTL DEF Spec

\* A destination that was published holds all that was pulled, for good, and
\* the pull reports a success exactly then, unless it was interrupted.
THEOREM PublicationWhole == Spec => []PublicationIsWhole
<1>1. IInv => PublicationIsWhole
  <2> SUFFICES ASSUME IInv, NEW c \in Clients
               PROVE  /\ published[c] => \A i \in 1..Len(Entries(c)) : Made(c, Dest[c], i)
                      /\ pc[c] = "success" => published[c]
                      /\ pc[c] = "failure" /\ ~cancelled[c] => ~published[c]
    BY DEF PublicationIsWhole, Made
  <2>1. QED
    BY DEF IInv, Own, PublishedOK
<1>2. QED
  BY <1>1, Invariance, PTL

\* A pull that ended has left no stage, and one that failed nothing at all it
\* made, unless somebody else has, or may have had, something in it.
THEOREM AllCleanedUp == Spec => []CleanedUp
<1>1. IInv => CleanedUp
  <2> SUFFICES ASSUME IInv, NEW c \in Clients, pc[c] \in Ended, c \notin unclean
               PROVE  /\ \A p \in DOMAIN node : ~Below(Stage(c), p)
                      /\ pc[c] = "failure" /\ ~published[c] =>
                           \A p \in DOMAIN node : node[p].by = c => Excused(c, p)
    BY DEF CleanedUp, Excused
  <2>1. CleanOK(c)
    BY DEF IInv, Own
  <2>2. \A p \in DOMAIN node : ~Below(Stage(c), p)
    BY <2>1 DEF CleanOK, Staging, Ended
  <2>3. pc[c] = "failure" => created[c] = << >> /\ Len(created[c]) = 0
    BY <2>1 DEF CleanOK
  <2>4. QED
    BY <2>1, <2>2, <2>3 DEF CleanOK
<1>2. QED
  BY <1>1, Invariance, PTL

\* No step of a pull takes away or changes what another program made.
THEOREM OthersKept == Spec => OthersAreKept
<1>1. IInv /\ [Next]_vars => [OthersKeptNow]_vars
  BY EveryStep
<1>2. QED
  BY <1>1, Invariance, PTL DEF Spec, OthersAreKept, OthersKeptNow

=============================================================================
