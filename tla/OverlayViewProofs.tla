------------------------- MODULE OverlayViewProofs -------------------------
(***************************************************************************)
(* What a script reads, and that what it makes the bridge hold is paid     *)
(* for, whatever the paths, the budgets and the sizes, and however often   *)
(* the host is edited, also under a call that awaits the library.          *)
(*                                                                         *)
(* Neither property is inductive.  The first needs what each entry of the  *)
(* library's books says of the program's (BooksInv).  The second needs a   *)
(* broader notion of what is held: also what an append would take at a     *)
(* path with a tombstone, where it does not look (HeldAt), and what the    *)
(* call that awaits the library has been charged for and has yet to take   *)
(* (Due).  What the two come to never exceeds the charge and the growth.   *)
(***************************************************************************)
EXTENDS OverlayView, FiniteSetTheorems, TLAPS

Things ==
  {x \in [kind : {"nothing", "dir", "file"}, size : Nat] :
     /\ x.kind # "file" => x.size = 0
     /\ x.kind = "nothing" => x = Nothing
     /\ x.kind = "dir" => x = Dir}

Calls == {Idle}
  \cup {[op |-> "append", from |-> p, to |-> p, more |-> n] : p \in Paths, n \in Nat}
  \cup {[op |-> "attributes", from |-> p, to |-> p, seen |-> k] :
          p \in Paths, k \in {"nothing", "dir", "file"}}
  \cup {[op |-> "link", from |-> p, to |-> q] : p \in Paths, q \in Paths}

TypeOK ==
  /\ served \in [Paths -> Things]
  /\ DOMAIN memory \subseteq Paths /\ \A p \in DOMAIN memory : memory[p] \in Things
  /\ call \in Calls
  /\ entries \in Nat /\ bytes \in Nat /\ grown \in Nat
  /\ IsFiniteSet(charged)

\* What is at a path in the library's books has its entry in the program's.
BooksAt(p) ==
  /\ p \in filePaths => p \in DOMAIN memory
  /\ p \in deleted \ DOMAIN memory => p \in tombstones
  /\ p \in DOMAIN memory => \/ memory[p] = Dir
                            \/ p \in filePaths \cup tombstones \cup misjudged
BooksInv == \A p \in Paths : BooksAt(p)

\* What the bridge holds for a path, or takes without having looked.
HeldAt(p) == IF p \in DOMAIN memory \cup tombstones THEN View(p).size ELSE 0
Held == UNION {{p} \X (1..HeldAt(p)) : p \in Paths}

\* What a call that takes a path into memory adds to what is held.
NotHeld(p) == IF p \in DOMAIN memory \cup tombstones THEN 0 ELSE View(p).size
Due ==
  IF call.op = "append" THEN NotHeld(call.to) + call.more
  ELSE IF call.op = "attributes" THEN NotHeld(call.to)
  ELSE IF call.op = "link" THEN View(call.from).size ELSE 0

Paid == IsFiniteSet(Held) /\ Cardinality(Held) + Due <= bytes + grown

EntriesPaid ==
  /\ bytes <= MaxOverlay
  /\ DOMAIN memory \cup deleted \subseteq charged
  /\ call # Idle => call.to \in charged
  /\ entries = Cardinality(charged) /\ entries <= MaxEntries

IInv == TypeOK /\ BooksInv /\ Paid /\ EntriesPaid

-----------------------------------------------------------------------------
(* What is at a path, and what a call is.                                  *)

\* What can be at a path, and what a view shows.
LEMMA ThingsAre ==
  /\ Nothing \in Things /\ Dir \in Things
  /\ \A n \in Nat : File(n) \in Things /\ File(n).size = n /\ File(n).kind = "file"
  /\ Objects \subseteq Things
  /\ TypeOK => \A p \in Paths : View(p) \in Things /\ View(p).size \in Nat
<1>1. /\ Nothing \in Things /\ Dir \in Things
      /\ \A n \in Nat : File(n) \in Things /\ File(n).size = n /\ File(n).kind = "file"
  BY DEF Nothing, Dir, File, Things
<1>2. Objects \subseteq Things
  BY <1>1, OverlayAssumption DEF Objects
<1>3. TypeOK => \A p \in Paths : View(p) \in Things
  BY <1>1 DEF TypeOK, View
<1>4. \A x \in Things : x.size \in Nat
  BY DEF Things
<1>5. QED
  BY <1>1, <1>2, <1>3, <1>4

\* A thing that is neither nothing nor a file is a directory.
LEMMA DirOrFile ==
  ASSUME NEW x \in Things, x # Nothing PROVE x.kind = "file" \/ x = Dir
  BY DEF Things

\* The three calls that await the library, by their parts.
LEMMA CallParts ==
  ASSUME TypeOK
  PROVE  /\ Idle.op = "none"
         /\ call # Idle => call.from \in Paths /\ call.to \in Paths
         /\ call.op = "append" => call.from = call.to /\ call.more \in Nat /\ call # Idle
         /\ call.op = "attributes" => call.from = call.to /\ call # Idle
         /\ call.op = "link" => call # Idle
         /\ call = Idle => Due = 0
  BY DEF TypeOK, Calls, Idle, Due

\* What is held at a path, and what a call would add, are numbers.
LEMMA HeldIsNat ==
  ASSUME TypeOK
  PROVE  /\ \A p \in Paths : HeldAt(p) \in Nat /\ NotHeld(p) \in Nat /\ View(p).size \in Nat
         /\ \A p \in Paths : View(p).size = HeldAt(p) + NotHeld(p)
         /\ Due \in Nat
<1>1. \A p \in Paths : View(p).size \in Nat
  BY ThingsAre
<1>2. \A p \in Paths : /\ HeldAt(p) \in Nat /\ NotHeld(p) \in Nat
                      /\ View(p).size = HeldAt(p) + NotHeld(p)
  BY <1>1 DEF HeldAt, NotHeld
<1>3. Due \in Nat
  BY <1>1, <1>2, CallParts DEF Due
<1>4. QED
  BY <1>1, <1>2, <1>3

\* The same of what a call would add after a step.
LEMMA HeldNextIsNat == TypeOK' => (Due \in Nat)'
<1>1. TypeOK => Due \in Nat
  BY HeldIsNat
<1>2. QED
  BY <1>1, PTL

\* Keeping a path changes what is seen of it, and of no other path.
LEMMA KeepShows ==
  ASSUME TypeOK, NEW p \in Paths, NEW x \in Things, Keep(p, x), served' = served
  PROVE  /\ DOMAIN memory' = DOMAIN memory \cup {p} /\ memory'[p] = x
         /\ \A q \in DOMAIN memory' : memory'[q] \in Things
         /\ DOMAIN memory' \subseteq Paths
         /\ View(p)' = x
         /\ \A q \in Paths \ {p} :
              /\ q \in DOMAIN memory' <=> q \in DOMAIN memory
              /\ q \in DOMAIN memory => memory'[q] = memory[q]
              /\ q \in deleted' <=> q \in deleted
              /\ View(q)' = View(q)
<1>1. /\ DOMAIN memory' = DOMAIN memory \cup {p}
      /\ \A q \in DOMAIN memory' : memory'[q] = IF q = p THEN x ELSE memory[q]
      /\ deleted' = deleted \ {p}
  BY DEF Keep
<1>2. QED
  BY <1>1 DEF View, TypeOK

-----------------------------------------------------------------------------
(* The books.                                                              *)

\* The two books, by these entries, let a script read what is there.
LEMMA BooksInvAgrees == TypeOK /\ BooksInv => BooksAgree
<1> SUFFICES ASSUME TypeOK, BooksInv, NEW p \in Paths, Read(p) # View(p)
             PROVE  (p \in DOMAIN memory /\ memory[p] = Dir) \/ p \in misjudged
  BY DEF BooksAgree
<1>1. p \notin filePaths \cup tombstones /\ View(p) # served[p]
  BY DEF Read, ReadFromHost
<1>2. p \in DOMAIN memory
  BY <1>1 DEF View, BooksInv, BooksAt
<1>3. QED
  BY <1>1, <1>2 DEF BooksInv, BooksAt

\* A call that was refused, like an edit of the host, leaves the books alone.
LEMMA SameBooks ==
  ASSUME BooksInv, UNCHANGED <<memory, deleted, filePaths, tombstones, misjudged>>
  PROVE  BooksInv'
  BY DEF BooksInv, BooksAt

\* A call that keeps a path in memory enters it in the program's books too, or
\* keeps a directory there.
LEMMA KeptBooks ==
  ASSUME TypeOK, BooksInv, NEW p \in Paths, NEW x \in Things, Keep(p, x), served' = served,
         filePaths' = filePaths \/ filePaths' = filePaths \cup {p},
         tombstones' = tombstones \/ tombstones' = tombstones \ {p},
         misjudged' = misjudged \/ misjudged' = misjudged \cup {p},
         x = Dir \/ p \in filePaths' \cup misjudged'
  PROVE  BooksInv'
<1> SUFFICES ASSUME NEW q \in Paths PROVE BooksAt(q)'
  BY DEF BooksInv
<1>1. CASE q = p
  BY <1>1, KeepShows DEF BooksAt
<1>2. CASE q # p
  <2>1. /\ q \in DOMAIN memory' <=> q \in DOMAIN memory
        /\ q \in DOMAIN memory => memory'[q] = memory[q]
        /\ q \in deleted' <=> q \in deleted
    BY <1>2, KeepShows
  <2>2. /\ q \in filePaths' <=> q \in filePaths
        /\ q \in tombstones' <=> q \in tombstones
        /\ q \in misjudged' <=> q \in misjudged
    BY <1>2
  <2>3. QED
    BY <2>1, <2>2 DEF BooksInv, BooksAt
<1>3. QED
  BY <1>1, <1>2

\* A path that is buried, with what the library had of it or without.
LEMMA BuriedBooks ==
  ASSUME BooksInv, NEW p \in Paths, Bury(p), misjudged' = misjudged,
         \/ memory' = [q \in DOMAIN memory \ {p} |-> memory[q]] /\ deleted' = deleted \cup {p}
         \/ UNCHANGED <<memory, deleted>>
  PROVE  BooksInv'
<1> SUFFICES ASSUME NEW q \in Paths PROVE BooksAt(q)'
  BY DEF BooksInv
<1>1. CASE q = p
  BY <1>1 DEF BooksInv, BooksAt, Bury
<1>2. CASE q # p
  <2>1. /\ q \in DOMAIN memory' <=> q \in DOMAIN memory
        /\ q \in DOMAIN memory => memory'[q] = memory[q]
        /\ q \in deleted' <=> q \in deleted
    BY <1>2
  <2>2. /\ q \in filePaths' <=> q \in filePaths
        /\ q \in tombstones' <=> q \in tombstones
    BY <1>2 DEF Bury
  <2>3. QED
    BY <2>1, <2>2 DEF BooksInv, BooksAt
<1>3. QED
  BY <1>1, <1>2

-----------------------------------------------------------------------------
(* What is held.                                                           *)

\* Where one path comes to hold n units more at the most, and no other path
\* more than before, what is held grows by n units at the most.
LEMMA HeldGrows ==
  ASSUME TypeOK, TypeOK', IsFiniteSet(Held), NEW p \in Paths, NEW n \in Nat,
         HeldAt(p)' <= HeldAt(p) + n,
         \A q \in Paths \ {p} : HeldAt(q)' <= HeldAt(q)
  PROVE  IsFiniteSet(Held') /\ Cardinality(Held') <= Cardinality(Held) + n
<1>1. \A q \in Paths : HeldAt(q) \in Nat /\ HeldAt(q)' \in Nat
  <2>1. \A q \in Paths : HeldAt(q) \in Nat
    BY HeldIsNat
  <2>2. \A q \in Paths : View(q)' \in Things
    BY ThingsAre DEF TypeOK, View
  <2>3. \A q \in Paths : HeldAt(q)' \in Nat
    BY <2>2 DEF HeldAt, Things
  <2>4. QED
    BY <2>1, <2>3
<1> DEFINE more == (HeldAt(p) + 1)..(HeldAt(p) + n)
           new == {p} \X more
<1>2. IsFiniteSet(more) /\ Cardinality(more) = n
  <2>1. HeldAt(p) + 1 \in Int /\ HeldAt(p) + n \in Int /\ HeldAt(p) \in Nat
    BY <1>1
  <2>2. /\ IsFiniteSet(more)
        /\ Cardinality(more) =
             IF HeldAt(p) + 1 > HeldAt(p) + n THEN 0 ELSE (HeldAt(p) + n) - (HeldAt(p) + 1) + 1
    BY <2>1, FS_Interval
  <2>3. QED
    BY <2>1, <2>2
<1>3. IsFiniteSet(new) /\ Cardinality(new) = n
  <2>1. IsFiniteSet({p}) /\ Cardinality({p}) = 1
    BY FS_Singleton
  <2>2. IsFiniteSet(new) /\ Cardinality(new) = Cardinality({p}) * Cardinality(more)
    BY <1>2, <2>1, FS_Product
  <2>3. QED
    BY <1>2, <2>1, <2>2
<1>4. Held' \subseteq Held \cup new
  <2> SUFFICES ASSUME NEW q \in Paths, NEW k \in 1..(HeldAt(q)')
               PROVE  <<q, k>> \in Held \cup new
    BY DEF Held
  <2>1. k \in Nat /\ 1 <= k /\ k <= HeldAt(q)'
    BY <1>1
  <2>2. CASE k <= HeldAt(q)
    BY <1>1, <2>1, <2>2 DEF Held
  <2>3. CASE ~(k <= HeldAt(q))
    <3>1. q = p
      BY <1>1, <2>1, <2>3
    <3>2. QED
      BY <1>1, <2>1, <2>3, <3>1
  <2>4. QED
    BY <2>2, <2>3
<1>5. /\ IsFiniteSet(Held \cup new)
      /\ Cardinality(Held \cup new) <= Cardinality(Held) + n
  <2>1. IsFiniteSet(Held \cap new) /\ Cardinality(Held \cap new) \in Nat
    BY <1>3, FS_Intersection, FS_CardinalityType
  <2>2. Cardinality(Held) \in Nat
    BY FS_CardinalityType
  <2>3. /\ IsFiniteSet(Held \cup new)
        /\ Cardinality(Held \cup new) =
             Cardinality(Held) + Cardinality(new) - Cardinality(Held \cap new)
    BY <1>3, FS_Union
  <2>4. QED
    BY <1>3, <2>1, <2>2, <2>3
<1>6. /\ IsFiniteSet(Held')
      /\ Cardinality(Held') <= Cardinality(Held \cup new)
      /\ Cardinality(Held') \in Nat /\ Cardinality(Held \cup new) \in Nat
      /\ Cardinality(Held) \in Nat
  BY <1>4, <1>5, FS_Subset, FS_CardinalityType
<1>7. QED
  BY <1>5, <1>6

\* Where no path comes to hold more, what is held does not grow.
LEMMA HeldStays ==
  ASSUME TypeOK, TypeOK', IsFiniteSet(Held), \A q \in Paths : HeldAt(q)' <= HeldAt(q)
  PROVE  IsFiniteSet(Held') /\ Cardinality(Held') <= Cardinality(Held)
<1>1. CASE Paths = {}
  <2>1. Held = {} /\ Held' = {}
    BY <1>1 DEF Held
  <2>2. QED
    BY <2>1, FS_EmptySet
<1>2. ASSUME NEW p \in Paths
      PROVE  IsFiniteSet(Held') /\ Cardinality(Held') <= Cardinality(Held)
  <2>1. HeldAt(p) \in Nat /\ HeldAt(p)' <= HeldAt(p) + 0
    BY HeldIsNat
  <2>2. IsFiniteSet(Held') /\ Cardinality(Held') <= Cardinality(Held) + 0
    BY <2>1, HeldGrows
  <2>3. QED
    BY <2>2, FS_CardinalityType
<1>3. QED
  BY <1>1, <1>2

\* A charge keeps within the two budgets, and a call that passes has paid.
LEMMA ChargePays ==
  ASSUME TypeOK, EntriesPaid, NEW ps, IsFiniteSet(ps), NEW n \in Nat, Charge(ps, n)
  PROVE  /\ IsFiniteSet(charged') /\ charged \subseteq charged'
         /\ entries' \in Nat /\ entries' = Cardinality(charged') /\ entries' <= MaxEntries
         /\ bytes' \in Nat /\ bytes <= bytes' /\ bytes' <= MaxOverlay
         /\ Passed => bytes' = bytes + n /\ ps \subseteq charged'
         /\ call = Idle
<1>1. /\ IsFiniteSet(Fresh(ps)) /\ Cardinality(Fresh(ps)) \in Nat
      /\ charged \cup ps = charged \cup Fresh(ps) /\ charged \cap Fresh(ps) = {}
  BY FS_Difference, FS_CardinalityType DEF Fresh
<1>2. /\ IsFiniteSet(charged \cup ps)
      /\ Cardinality(charged \cup ps) = Cardinality(charged) + Cardinality(Fresh(ps))
  <2>1. IsFiniteSet(charged) /\ Cardinality(charged) \in Nat
    BY FS_CardinalityType DEF TypeOK
  <2>2. /\ IsFiniteSet(charged \cup Fresh(ps))
        /\ Cardinality(charged \cup Fresh(ps)) =
             Cardinality(charged) + Cardinality(Fresh(ps)) - Cardinality(charged \cap Fresh(ps))
    BY <1>1, <2>1, FS_Union
  <2>3. Cardinality(charged \cap Fresh(ps)) = 0
    BY <1>1, FS_EmptySet
  <2>4. Cardinality(charged \cup Fresh(ps)) = Cardinality(charged) + Cardinality(Fresh(ps))
    BY <1>1, <2>1, <2>2, <2>3
  <2>5. charged \cup ps = charged \cup Fresh(ps)
    BY <1>1
  <2>6. QED
    BY <2>2, <2>4, <2>5
<1>3. /\ entries \in Nat /\ bytes \in Nat /\ IsFiniteSet(charged) /\ bytes <= MaxOverlay
      /\ entries = Cardinality(charged) /\ entries <= MaxEntries
      /\ MaxEntries \in Nat /\ MaxOverlay \in Nat
  BY OverlayAssumption DEF TypeOK, EntriesPaid
<1> DEFINE fitting == entries + Cardinality(Fresh(ps)) =< MaxEntries
<1>4. /\ charged' = IF fitting THEN charged \cup ps ELSE charged
      /\ entries' = IF fitting THEN entries + Cardinality(Fresh(ps)) ELSE entries
      /\ bytes' = IF fitting /\ bytes + n =< MaxOverlay THEN bytes + n ELSE bytes
      /\ limit' = IF ~fitting THEN "overlay-entries"
                  ELSE IF bytes + n > MaxOverlay THEN "overlay" ELSE "none"
      /\ call = Idle
  BY DEF Charge
<1>5. CASE fitting
  BY <1>1, <1>2, <1>3, <1>4, <1>5 DEF Passed
<1>6. CASE ~fitting
  BY <1>1, <1>2, <1>3, <1>4, <1>6 DEF Passed
<1>7. QED
  BY <1>5, <1>6

-----------------------------------------------------------------------------
(* The calls, one group at a time.  Each keeps TypeOK, the books, and what *)
(* is paid for.                                                            *)

\* A charge for nothing, or for a call that was refused.
LEMMA RefusedIsPaid ==
  ASSUME IInv, NEW ps, IsFiniteSet(ps), NEW n \in Nat, Charge(ps, n), Refused,
         UNCHANGED <<served, call, grown>>
  PROVE  IInv'
<1>1. TypeOK'
  BY ChargePays DEF IInv, TypeOK, Refused, books
<1>2. BooksInv'
  BY SameBooks DEF IInv, Refused, books
<1>3. Held' = Held /\ Due' = Due
  BY DEF Held, HeldAt, Due, NotHeld, View, Refused, books
<1>4. Paid'
  <2>1. bytes <= bytes' /\ bytes \in Nat /\ bytes' \in Nat /\ grown \in Nat /\ grown' = grown
    BY ChargePays DEF IInv, TypeOK
  <2>2. Cardinality(Held) \in Nat /\ Due \in Nat
    BY FS_CardinalityType, HeldIsNat DEF IInv, Paid
  <2>3. QED
    BY <1>3, <2>1, <2>2 DEF IInv, Paid
<1>5. EntriesPaid'
  BY ChargePays DEF IInv, EntriesPaid, Refused, books
<1>6. QED
  BY <1>1, <1>2, <1>4, <1>5 DEF IInv

\* A call that passed, of those that take nothing from the host: p comes to hold
\* what was charged for it at the most.
LEMMA WrittenIsPaid ==
  ASSUME IInv, NEW ps, IsFiniteSet(ps), NEW n \in Nat, Charge(ps, n), Passed,
         NEW p \in Paths, TypeOK', BooksInv', DOMAIN memory' \cup deleted' \subseteq charged',
         HeldAt(p)' <= HeldAt(p) + n, \A q \in Paths \ {p} : HeldAt(q)' <= HeldAt(q),
         UNCHANGED <<call, grown>>
  PROVE  IInv'
<1>1. call = Idle /\ call' = Idle /\ Due = 0 /\ Due' = 0
  <2>1. call = Idle /\ call' = Idle
    BY ChargePays DEF IInv
  <2>2. QED
    BY <2>1, CallParts DEF IInv, Due, Idle
<1>2. Paid'
  <2>1. IsFiniteSet(Held') /\ Cardinality(Held') <= Cardinality(Held) + n
    BY HeldGrows DEF IInv, Paid
  <2>2. bytes' = bytes + n /\ bytes \in Nat /\ grown \in Nat /\ grown' = grown
    BY ChargePays DEF IInv, TypeOK
  <2>3. Cardinality(Held) \in Nat /\ Cardinality(Held') \in Nat
    BY <2>1, FS_CardinalityType DEF IInv, Paid
  <2>4. QED
    BY <1>1, <2>1, <2>2, <2>3 DEF IInv, Paid
<1>3. EntriesPaid'
  BY <1>1, ChargePays DEF IInv, EntriesPaid
<1>4. QED
  BY <1>2, <1>3 DEF IInv

\* A path that is kept, of a call that takes nothing from the host.
LEMMA KeptIsPaid ==
  ASSUME IInv, NEW ps, IsFiniteSet(ps), NEW n \in Nat, Charge(ps, n), Passed,
         NEW p \in Paths, p \in ps, NEW x \in Things, Keep(p, x), x.size <= n,
         UNCHANGED <<served, call, grown>>, tombstones' = tombstones \ {p}, BooksInv'
  PROVE  IInv'
<1>1. TypeOK'
  BY KeepShows, ChargePays DEF IInv, TypeOK
<1>2. DOMAIN memory' \cup deleted' \subseteq charged'
  BY KeepShows, ChargePays DEF IInv, EntriesPaid, Keep
<1>3. HeldAt(p)' <= HeldAt(p) + n
  <2>1. View(p)' = x /\ p \in DOMAIN memory'
    BY KeepShows DEF IInv
  <2>2. HeldAt(p)' = x.size
    BY <2>1 DEF HeldAt
  <2>3. HeldAt(p) \in Nat /\ x.size \in Nat
    BY HeldIsNat DEF IInv, Things
  <2>4. QED
    BY <2>2, <2>3
<1>4. \A q \in Paths \ {p} : HeldAt(q)' <= HeldAt(q)
  <2> SUFFICES ASSUME NEW q \in Paths \ {p} PROVE HeldAt(q)' <= HeldAt(q)
    OBVIOUS
  <2>1. HeldAt(q)' = HeldAt(q)
    BY KeepShows DEF IInv, HeldAt
  <2>2. QED
    BY <2>1, HeldIsNat DEF IInv
<1>5. QED
  BY <1>1, <1>2, <1>3, <1>4, WrittenIsPaid

\* A path that is removed, or that a forced rm finds nothing at.
LEMMA RemovedIsPaid ==
  ASSUME IInv, NEW p \in Paths, Charge({p}, 0), Passed, Bury(p),
         UNCHANGED <<served, call, grown, misjudged>>,
         \/ memory' = [q \in DOMAIN memory \ {p} |-> memory[q]] /\ deleted' = deleted \cup {p}
         \/ View(p) = Nothing /\ UNCHANGED <<memory, deleted>>
  PROVE  IInv'
<1>1. IsFiniteSet({p}) /\ 0 \in Nat
  BY FS_Singleton
<1>2. TypeOK'
  BY <1>1, ChargePays DEF IInv, TypeOK
<1>3. BooksInv'
  BY BuriedBooks DEF IInv
<1>4. DOMAIN memory' \cup deleted' \subseteq charged'
  BY <1>1, ChargePays DEF IInv, EntriesPaid
<1>5. HeldAt(p)' <= HeldAt(p) + 0
  <2>1. HeldAt(p)' = 0
    BY DEF HeldAt, View, Nothing
  <2>2. QED
    BY <2>1, HeldIsNat DEF IInv
<1>6. \A q \in Paths \ {p} : HeldAt(q)' <= HeldAt(q)
  <2> SUFFICES ASSUME NEW q \in Paths \ {p} PROVE HeldAt(q)' <= HeldAt(q)
    OBVIOUS
  <2>1. HeldAt(q)' = HeldAt(q)
    BY DEF HeldAt, View, Bury
  <2>2. QED
    BY <2>1, HeldIsNat DEF IInv
<1>7. QED
  BY <1>1, <1>2, <1>3, <1>4, <1>5, <1>6, WrittenIsPaid

\* A call that begins has been charged for what it would take, as its stat saw it.
LEMMA AwaitedIsPaid ==
  ASSUME IInv, NEW ps, IsFiniteSet(ps), NEW n \in Nat, Charge(ps, n), NEW c \in Calls, Await(c),
         c.to \in ps, c # Idle,
         c.op = "append" => NotHeld(c.to) + c.more <= n,
         c.op = "attributes" => NotHeld(c.to) <= n,
         c.op = "link" => View(c.from).size <= n
  PROVE  IInv'
<1>1. /\ Held' = Held
      /\ NotHeld(c.to)' = NotHeld(c.to) /\ View(c.from)' = View(c.from)
  BY DEF Held, HeldAt, NotHeld, View, Await, books
<1>2. TypeOK'
  <2>1. Idle \in Calls
    BY DEF Calls
  <2>2. QED
    BY <2>1, ChargePays DEF IInv, TypeOK, Await
<1>3. BooksInv'
  BY SameBooks DEF IInv, Await, books
<1>4. /\ bytes \in Nat /\ bytes' \in Nat /\ bytes <= bytes' /\ grown \in Nat /\ grown' = grown
      /\ Passed => bytes' = bytes + n
  BY ChargePays DEF IInv, TypeOK, Await
<1>5. Due = 0 /\ Cardinality(Held) \in Nat /\ Cardinality(Held) <= bytes + grown
  <2>1. Due = 0 /\ Cardinality(Held) \in Nat
    BY ChargePays, CallParts, FS_CardinalityType DEF IInv, Paid
  <2>2. QED
    BY <2>1, <1>4 DEF IInv, Paid
<1>6. Paid'
  <2>1. CASE Passed
    <3>1. call' = c
      BY <2>1 DEF Await
    <3>2. c.op \in {"none", "append", "attributes", "link"}
      BY DEF Calls, Idle
    <3>3. Due' <= n /\ Due' \in Nat
      <4>1. /\ c.op = "append" => NotHeld(c.to) \in Nat /\ c.more \in Nat
            /\ c.op = "attributes" => NotHeld(c.to) \in Nat
            /\ c.op = "link" => View(c.from).size \in Nat
        BY HeldIsNat DEF IInv, Calls, Idle
      <4>2. Due' = IF c.op = "append" THEN NotHeld(c.to)' + c.more
                   ELSE IF c.op = "attributes" THEN NotHeld(c.to)'
                   ELSE IF c.op = "link" THEN View(c.from)'.size ELSE 0
        BY <3>1 DEF Due, NotHeld, View
      <4>3. QED
        BY <1>1, <4>1, <4>2
    <3>4. QED
      BY <1>1, <1>4, <1>5, <2>1, <3>3 DEF Paid, IInv
  <2>2. CASE ~Passed
    <3>1. call' = Idle
      BY <2>2 DEF Await
    <3>2. Due' = 0
      BY <3>1 DEF Due, Idle
    <3>3. QED
      BY <1>1, <1>4, <1>5, <3>2 DEF Paid, IInv
  <2>3. QED
    BY <2>1, <2>2
<1>7. EntriesPaid'
  <2>1. call' # Idle => Passed /\ call' = c
    BY DEF Await
  <2>2. call' # Idle => call'.to \in charged'
    BY <2>1, ChargePays DEF IInv
  <2>3. QED
    BY <2>2, ChargePays DEF IInv, EntriesPaid, Await
<1>8. QED
  BY <1>2, <1>3, <1>6, <1>7 DEF IInv

\* What the library takes for a call is no more than the call was charged for,
\* and than the host has grown by since.
LEMMA TakenIsPaid ==
  ASSUME IInv, NEW x \in Things, call # Idle, Keep(call.to, x), call' = Idle,
         UNCHANGED <<served, budgets, grown>>,
         tombstones' = tombstones \/ tombstones' = tombstones \ {call.to},
         x.size <= HeldAt(call.to) + Due, BooksInv'
  PROVE  IInv'
<1> DEFINE p == call.to
<1>1. p \in Paths /\ p \in charged
  BY CallParts DEF IInv, EntriesPaid
<1>2. PICK r \in Paths : r = call.to
  BY <1>1
<1>3. TypeOK'
  <2>1. Keep(r, x)
    BY <1>2
  <2>2. DOMAIN memory' \subseteq Paths /\ \A q \in DOMAIN memory' : memory'[q] \in Things
    BY <1>2, <2>1, KeepShows DEF IInv
  <2>3. Idle \in Calls
    BY DEF Calls
  <2>4. QED
    BY <2>2, <2>3 DEF IInv, TypeOK, budgets
<1>4. HeldAt(r)' <= HeldAt(r) + Due
  <2>1. Keep(r, x)
    BY <1>2
  <2>2. r \in DOMAIN memory' /\ memory'[r] = x
    BY <2>1 DEF Keep
  <2>3. HeldAt(r)' = x.size
    BY <2>2 DEF HeldAt, View
  <2>4. QED
    BY <1>2, <2>3
<1>5. \A q \in Paths \ {r} : HeldAt(q)' <= HeldAt(q)
  <2> SUFFICES ASSUME NEW q \in Paths \ {r} PROVE HeldAt(q)' <= HeldAt(q)
    OBVIOUS
  <2>1. HeldAt(q)' = HeldAt(q)
    BY <1>2, KeepShows DEF IInv, HeldAt
  <2>2. QED
    BY <2>1, HeldIsNat DEF IInv
<1>6. PICK n \in Nat : n = Due
  BY HeldIsNat DEF IInv
<1>7. IsFiniteSet(Held') /\ Cardinality(Held') <= Cardinality(Held) + n
  BY <1>3, <1>4, <1>5, <1>6, HeldGrows DEF IInv, Paid
<1>8. Due' = 0
  BY DEF Due, Idle
<1>9. Paid'
  <2>1. Cardinality(Held) \in Nat /\ Cardinality(Held') \in Nat
    BY <1>7, FS_CardinalityType DEF IInv, Paid
  <2>2. bytes' = bytes /\ grown' = grown /\ bytes \in Nat /\ grown \in Nat
    BY DEF IInv, TypeOK, budgets
  <2>3. QED
    BY <1>6, <1>7, <1>8, <2>1, <2>2 DEF IInv, Paid
<1>10. EntriesPaid'
  <2>1. DOMAIN memory' = DOMAIN memory \cup {r} /\ deleted' \subseteq deleted
    BY <1>2, KeepShows DEF IInv, Keep
  <2>2. QED
    BY <1>1, <1>2, <2>1 DEF IInv, EntriesPaid, budgets
<1>11. QED
  BY <1>3, <1>9, <1>10 DEF IInv

\* The host grows under a call that awaits the library, or where an append does
\* not look: by what the history counts.
LEMMA EditIsPaid ==
  ASSUME IInv, NEW p \in Paths, NEW y \in Objects, Change(p, y)
  PROVE  IInv'
<1> DEFINE growth == IF y.size > served[p].size THEN y.size - served[p].size ELSE 0
<1>1. y \in Things /\ y.size \in Nat /\ served[p] \in Things /\ served[p].size \in Nat
  BY ThingsAre DEF IInv, TypeOK, Things
<1>2. /\ served' = [served EXCEPT ![p] = y]
      /\ grown' = grown + (IF Awaited(p) THEN growth ELSE 0) + (IF Unlooked(p) THEN growth ELSE 0)
      /\ UNCHANGED <<memory, deleted, books, budgets, call, misjudged>>
  BY DEF Change
<1>3. growth \in Nat /\ y.size <= served[p].size + growth
  BY <1>1
<1>4. TypeOK'
  BY <1>1, <1>2, <1>3 DEF IInv, TypeOK, budgets
<1>5. BooksInv'
  BY <1>2, SameBooks DEF IInv, books
<1>6. /\ \A q \in Paths \ {p} : View(q)' = View(q)
      /\ ~FromHost(p) => View(p)' = View(p)
      /\ FromHost(p) => View(p)' = y /\ View(p) = served[p]
  <2>1. served'[p] = y /\ \A q \in Paths \ {p} : served'[q] = served[q]
    BY <1>2 DEF IInv, TypeOK
  <2>2. QED
    BY <1>2, <2>1 DEF View, FromHost
<1>7. /\ \A q \in Paths \ {p} : HeldAt(q)' = HeldAt(q) /\ NotHeld(q)' = NotHeld(q)
      /\ HeldAt(p)' <= HeldAt(p) + (IF Unlooked(p) THEN growth ELSE 0)
      /\ NotHeld(p)' <= NotHeld(p) + (IF FromHost(p) THEN growth ELSE 0)
      /\ View(p)'.size <= View(p).size + (IF FromHost(p) THEN growth ELSE 0)
  <2>1. \A q \in Paths \ {p} : HeldAt(q)' = HeldAt(q) /\ NotHeld(q)' = NotHeld(q)
    BY <1>2, <1>6 DEF HeldAt, NotHeld, books
  <2>2. HeldAt(p) \in Nat /\ NotHeld(p) \in Nat /\ View(p).size \in Nat
    BY HeldIsNat DEF IInv
  <2>3. View(p)'.size <= View(p).size + (IF FromHost(p) THEN growth ELSE 0)
    BY <1>1, <1>3, <1>6, <2>2
  <2>4. NotHeld(p)' <= NotHeld(p) + (IF FromHost(p) THEN growth ELSE 0)
    <3>1. NotHeld(p)' = IF p \in DOMAIN memory \cup tombstones THEN 0 ELSE View(p)'.size
      BY <1>2 DEF NotHeld, books
    <3>2. QED
      BY <1>3, <2>2, <2>3, <3>1 DEF NotHeld
  <2>5. HeldAt(p)' <= HeldAt(p) + (IF Unlooked(p) THEN growth ELSE 0)
    <3>1. HeldAt(p)' = IF p \in DOMAIN memory \cup tombstones THEN View(p)'.size ELSE 0
      BY <1>2 DEF HeldAt, books
    <3>2. p \in DOMAIN memory \cup tombstones /\ ~Unlooked(p) => ~FromHost(p)
      BY DEF Unlooked, FromHost
    <3>3. QED
      BY <1>3, <1>6, <2>2, <2>3, <3>1, <3>2 DEF HeldAt, Unlooked
  <2>6. QED
    BY <2>1, <2>3, <2>4, <2>5
<1>8. PICK h \in Nat : h = IF Unlooked(p) THEN growth ELSE 0
  BY <1>3
<1>9. IsFiniteSet(Held') /\ Cardinality(Held') <= Cardinality(Held) + h
  <2>1. HeldAt(p)' <= HeldAt(p) + h
    BY <1>7, <1>8
  <2>2. \A q \in Paths \ {p} : HeldAt(q)' <= HeldAt(q)
    BY <1>7, HeldIsNat DEF IInv
  <2>3. QED
    BY <1>4, <2>1, <2>2, HeldGrows DEF IInv, Paid
<1>10. Due' <= Due + (IF Awaited(p) THEN growth ELSE 0)
  <2>1. /\ \A q \in Paths : NotHeld(q) \in Nat /\ View(q).size \in Nat
        /\ Due \in Nat
    BY HeldIsNat DEF IInv
  <2>2. call' = call
    BY <1>2
  <2>3. CASE call.op = "append"
    <3>1. call.to \in Paths /\ call.from = call.to /\ call.more \in Nat /\ call # Idle
      BY <2>3, CallParts DEF IInv
    <3>2. PICK r \in Paths : r = call.to
      BY <3>1
    <3>3. Due' = NotHeld(r)' + call.more /\ Due = NotHeld(r) + call.more
      BY <2>2, <2>3, <3>2 DEF Due, NotHeld, View
    <3>4. NotHeld(r)' <= NotHeld(r) + (IF Awaited(p) THEN growth ELSE 0)
      <4>1. CASE r = p
        BY <1>7, <3>1, <3>2, <4>1 DEF Awaited
      <4>2. CASE r # p
        BY <1>3, <1>7, <2>1, <4>2
      <4>3. QED
        BY <4>1, <4>2
    <3>5. NotHeld(r)' \in Nat
      BY <1>7, <2>1, <1>1, <1>6 DEF NotHeld
    <3>6. QED
      BY <1>3, <2>1, <3>1, <3>3, <3>4, <3>5
  <2>4. CASE call.op = "attributes"
    <3>1. call.to \in Paths /\ call.from = call.to /\ call # Idle
      BY <2>4, CallParts DEF IInv
    <3>2. PICK r \in Paths : r = call.to
      BY <3>1
    <3>3. Due' = NotHeld(r)' /\ Due = NotHeld(r)
      BY <2>2, <2>4, <3>2 DEF Due, NotHeld, View
    <3>4. NotHeld(r)' <= NotHeld(r) + (IF Awaited(p) THEN growth ELSE 0)
      <4>1. CASE r = p
        BY <1>7, <3>1, <3>2, <4>1 DEF Awaited
      <4>2. CASE r # p
        BY <1>3, <1>7, <2>1, <4>2
      <4>3. QED
        BY <4>1, <4>2
    <3>5. QED
      BY <3>3, <3>4
  <2>5. CASE call.op = "link"
    <3>1. call.from \in Paths /\ call # Idle
      BY <2>5, CallParts DEF IInv
    <3>2. PICK r \in Paths : r = call.from
      BY <3>1
    <3>3. Due' = View(r)'.size /\ Due = View(r).size
      BY <2>2, <2>5, <3>2 DEF Due, View
    <3>4. CASE r = p
      BY <1>7, <3>1, <3>2, <3>3, <3>4 DEF Awaited
    <3>5. CASE r # p
      BY <1>3, <1>6, <2>1, <3>3, <3>5
    <3>6. QED
      BY <3>4, <3>5
  <2>6. CASE call.op \notin {"append", "attributes", "link"}
    BY <1>3, <2>2, <2>6 DEF Due
  <2>7. QED
    BY <2>3, <2>4, <2>5, <2>6
<1>11. Paid'
  <2>1. Cardinality(Held) \in Nat /\ Cardinality(Held') \in Nat /\ Due \in Nat /\ Due' \in Nat
    <3>1. Due' \in Nat
      BY <1>4, HeldNextIsNat
    <3>2. QED
      BY <1>9, <3>1, FS_CardinalityType, HeldIsNat DEF IInv, Paid
  <2>2. bytes' = bytes /\ bytes \in Nat /\ grown \in Nat
    BY <1>2 DEF IInv, TypeOK, budgets
  <2>3. Cardinality(Held) + Due <= bytes + grown
    BY DEF IInv, Paid
  <2>4. grown' = grown + (IF Awaited(p) THEN growth ELSE 0) + h
    BY <1>2, <1>8
  <2>5. PICK a \in Nat : a = IF Awaited(p) THEN growth ELSE 0
    BY <1>3
  <2>6. Due' <= Due + a /\ grown' = grown + a + h
    BY <1>10, <2>4, <2>5
  <2>7. Cardinality(Held') + Due' <= bytes' + grown'
    BY <1>9, <2>1, <2>2, <2>3, <2>6
  <2>8. QED
    BY <1>9, <2>7 DEF Paid
<1>12. EntriesPaid'
  BY <1>2 DEF IInv, EntriesPaid, budgets
<1>13. QED
  BY <1>4, <1>5, <1>11, <1>12 DEF IInv

-----------------------------------------------------------------------------
(* The two theorems.                                                       *)

\* Every step keeps the invariant: one step of the proof per action.
LEMMA IInvStep == IInv /\ [OverlayNext]_overlayVars => IInv'
<1> SUFFICES ASSUME IInv, [OverlayNext]_overlayVars PROVE IInv'
  OBVIOUS
<1>1. \A p \in Paths : IsFiniteSet({p}) /\ IsFiniteSet(WithAbove(p)) /\ p \in WithAbove(p)
  BY AboveAssumption, FS_Singleton, FS_Union DEF WithAbove
<1>2. \A n \in 0..MaxFile : n \in Nat
  BY OverlayAssumption
<1>3. \A p \in Paths : /\ View(p) \in Things /\ View(p).size \in Nat
                       /\ HeldAt(p) \in Nat /\ NotHeld(p) \in Nat
                       /\ View(p).size = HeldAt(p) + NotHeld(p)
  BY ThingsAre, HeldIsNat DEF IInv
<1>4. ASSUME NEW p \in Paths, NEW n \in 0..MaxFile, WriteFile(p, n) PROVE IInv'
  <2>1. CASE Refused
    BY <1>1, <1>2, <1>4, <2>1, RefusedIsPaid DEF WriteFile
  <2>2. CASE /\ Passed /\ Keep(p, File(n)) /\ filePaths' = filePaths \cup {p}
             /\ tombstones' = tombstones \ {p} /\ UNCHANGED misjudged
    <3>1. File(n) \in Things /\ File(n).size <= n
      BY <1>2, ThingsAre
    <3>2. BooksInv'
      BY <1>4, <2>2, <3>1, KeptBooks DEF IInv, WriteFile
    <3>3. QED
      BY <1>1, <1>2, <1>4, <2>2, <3>1, <3>2, KeptIsPaid DEF WriteFile
  <2>3. QED
    BY <1>4, <2>1, <2>2 DEF WriteFile
<1>5. ASSUME NEW p \in Paths, Mkdir(p) PROVE IInv'
  <2>1. CASE Refused
    BY <1>1, <1>5, <2>1, RefusedIsPaid DEF Mkdir
  <2>2. CASE /\ Passed /\ Keep(p, Dir) /\ tombstones' = tombstones \ {p}
             /\ UNCHANGED <<filePaths, misjudged>>
    <3>1. Dir \in Things /\ Dir.size <= 0
      BY ThingsAre DEF Dir
    <3>2. BooksInv'
      BY <1>5, <2>2, <3>1, KeptBooks DEF IInv, Mkdir
    <3>3. QED
      BY <1>1, <1>5, <2>2, <3>1, <3>2, KeptIsPaid DEF Mkdir
  <2>3. QED
    BY <1>5, <2>1, <2>2 DEF Mkdir
<1>6. ASSUME NEW p \in Paths, Remove(p) PROVE IInv'
  BY <1>1, <1>6, RefusedIsPaid, RemovedIsPaid DEF Remove
<1>7. ASSUME NEW p \in Paths, NEW n \in 0..MaxFile, AppendFile(p, n) PROVE IInv'
  <2> DEFINE c == [op |-> "append", from |-> p, to |-> p, more |-> n]
  <2>1. c \in Calls /\ c # Idle /\ c.to = p /\ c.from = p /\ c.more = n /\ c.op = "append"
    BY <1>2 DEF Calls, Idle
  <2>2. Materialized(p) \in Nat /\ NotHeld(p) <= Materialized(p)
    BY <1>3 DEF Materialized, NotHeld, IInv, BooksInv, BooksAt
  <2>3. Materialized(p) + n \in Nat /\ NotHeld(p) + n <= Materialized(p) + n
    BY <1>2, <1>3, <2>2
  <2>4. Charge(WithAbove(p), Materialized(p) + n) /\ Await(c)
    BY <1>7 DEF AppendFile
  <2> HIDE DEF c
  <2>5. QED
    BY <1>1, <2>1, <2>3, <2>4, AwaitedIsPaid
<1>8. ASSUME NEW p \in Paths, SetAttributes(p) PROVE IInv'
  <2> DEFINE c == [op |-> "attributes", from |-> p, to |-> p, seen |-> View(p).kind]
             n == IF p \in filePaths THEN 0 ELSE View(p).size
  <2>1. c \in Calls /\ c # Idle /\ c.to = p /\ c.op = "attributes"
    BY <1>3 DEF Calls, Idle, Things
  <2>2. n \in Nat /\ NotHeld(p) <= n
    BY <1>3 DEF NotHeld, IInv, BooksInv, BooksAt
  <2>3. Charge({p}, n) /\ Await(c)
    BY <1>8 DEF SetAttributes
  <2> HIDE DEF c, n
  <2>4. QED
    BY <1>1, <2>1, <2>2, <2>3, AwaitedIsPaid
<1>9. ASSUME NEW p \in Paths, NEW q \in Paths, Link(p, q) PROVE IInv'
  <2> DEFINE c == [op |-> "link", from |-> p, to |-> q]
  <2>1. c \in Calls /\ c # Idle /\ c.to = q /\ c.from = p /\ c.op = "link"
    BY DEF Calls, Idle
  <2>2. View(p).size \in Nat /\ Charge(WithAbove(q), View(p).size) /\ Await(c)
    BY <1>3, <1>9 DEF Link
  <2>3. View(c.from).size <= View(p).size
    BY <2>1, <2>2
  <2>4. IsFiniteSet(WithAbove(q)) /\ c.to \in WithAbove(q)
    BY <1>1, <2>1
  <2> HIDE DEF c
  <2>5. QED
    BY <2>1, <2>2, <2>3, <2>4, AwaitedIsPaid
<1>10. CASE Appended
  <2> DEFINE x == File(View(call.to).size + call.more)
  <2>1. PICK r \in Paths : r = call.to
    BY <1>10, CallParts DEF IInv, Appended, Takes
  <2>2. call # Idle /\ call.more \in Nat /\ call.op = "append"
    BY <1>10, CallParts DEF IInv, Appended, Takes
  <2>3. /\ View(r).size + call.more \in Nat
        /\ View(r).size + call.more = HeldAt(r) + (NotHeld(r) + call.more)
    BY <1>3, <2>2
  <2>4. x \in Things /\ x.size <= HeldAt(call.to) + Due
    <3>1. Due = NotHeld(r) + call.more
      BY <2>1, <2>2 DEF Due
    <3>2. x \in Things /\ x.size = View(r).size + call.more
      BY <2>1, <2>3, ThingsAre
    <3>3. QED
      BY <2>1, <2>3, <3>1, <3>2
  <2>5. /\ Keep(call.to, x) /\ call' = Idle
        /\ UNCHANGED <<served, budgets, grown, misjudged>>
        /\ filePaths' = filePaths \cup {call.to} /\ tombstones' = tombstones \ {call.to}
    BY <1>10 DEF Appended, Takes
  <2> HIDE DEF x
  <2>6. BooksInv'
    BY <2>1, <2>4, <2>5, KeptBooks DEF IInv
  <2>7. QED
    BY <2>2, <2>4, <2>5, <2>6, TakenIsPaid
<1>11. CASE AttributesSet
  <2>1. PICK r \in Paths : r = call.to
    BY <1>11, CallParts DEF IInv, AttributesSet, Takes
  <2>2. call # Idle /\ call.op = "attributes"
    BY <1>11, CallParts DEF IInv, AttributesSet, Takes
  <2>3. View(r) \in Things /\ View(r).size <= HeldAt(call.to) + Due
    <3>1. Due = NotHeld(r)
      BY <2>1, <2>2 DEF Due
    <3>2. QED
      BY <1>3, <2>1, <3>1
  <2>4. /\ Keep(call.to, View(r)) /\ call' = Idle /\ View(r) # Nothing
        /\ UNCHANGED <<served, budgets, grown, tombstones>>
        /\ filePaths' = IF call.seen = "file" THEN filePaths \cup {r} ELSE filePaths
        /\ misjudged' = IF View(r).kind = "file" /\ call.seen # "file"
                        THEN misjudged \cup {r} ELSE misjudged
    BY <1>11, <2>1 DEF AttributesSet, Takes
  <2>5. BooksInv'
    <3>1. View(r) = Dir \/ r \in filePaths' \cup misjudged'
      BY <2>3, <2>4, DirOrFile
    <3>2. /\ filePaths' = filePaths \/ filePaths' = filePaths \cup {r}
          /\ misjudged' = misjudged \/ misjudged' = misjudged \cup {r}
          /\ Keep(r, View(r)) /\ served' = served /\ tombstones' = tombstones
      BY <2>1, <2>4
    <3>3. QED
      BY <2>3, <3>1, <3>2, KeptBooks DEF IInv
  <2>6. QED
    BY <2>2, <2>3, <2>4, <2>5, TakenIsPaid
<1>12. CASE Linked
  <2>1. PICK r \in Paths : r = call.to
    BY <1>12, CallParts DEF IInv, Linked, Takes
  <2>2. PICK s \in Paths : s = call.from
    BY <1>12, CallParts DEF IInv, Linked, Takes
  <2>3. call # Idle /\ call.op = "link"
    BY <1>12, CallParts DEF IInv, Linked, Takes
  <2>4. View(s) \in Things /\ View(s).size <= HeldAt(call.to) + Due
    <3>1. Due = View(s).size
      BY <2>2, <2>3 DEF Due
    <3>2. QED
      BY <1>3, <2>1, <3>1
  <2>5. /\ Keep(call.to, View(s)) /\ call' = Idle
        /\ UNCHANGED <<served, budgets, grown, tombstones, misjudged>>
        /\ filePaths' = filePaths \cup {call.to}
    BY <1>12, <2>2 DEF Linked, Takes
  <2>6. BooksInv'
    BY <2>1, <2>4, <2>5, KeptBooks DEF IInv
  <2>7. QED
    BY <2>3, <2>4, <2>5, <2>6, TakenIsPaid
<1>13. CASE CallRefused
  <2>1. Held' = Held /\ Due' = 0
    BY <1>13 DEF CallRefused, Refused, Held, HeldAt, View, Due, Idle, books
  <2>2. TypeOK' /\ EntriesPaid'
    BY <1>13 DEF CallRefused, Refused, IInv, TypeOK, EntriesPaid, Calls, budgets
  <2>3. BooksInv'
    BY <1>13, SameBooks DEF CallRefused, Refused, IInv, books
  <2>4. Paid'
    <3>1. /\ Cardinality(Held) \in Nat /\ Due \in Nat /\ bytes' = bytes /\ grown' = grown
          /\ bytes \in Nat /\ grown \in Nat
      BY <1>13, FS_CardinalityType, HeldIsNat DEF CallRefused, IInv, Paid, TypeOK, budgets
    <3>2. QED
      BY <2>1, <3>1 DEF IInv, Paid
  <2>5. QED
    BY <2>2, <2>3, <2>4 DEF IInv
<1>14. ASSUME NEW p \in Paths, NEW x \in Objects, Change(p, x) PROVE IInv'
  BY <1>14, EditIsPaid
<1>15. CASE UNCHANGED overlayVars
  <2>1. Held' = Held /\ Due' = Due
    BY <1>15 DEF overlayVars, books, Held, HeldAt, View, Due, NotHeld
  <2>2. BooksInv'
    BY <1>15, SameBooks DEF overlayVars, IInv, books
  <2>3. TypeOK' /\ EntriesPaid'
    BY <1>15 DEF overlayVars, books, budgets, IInv, TypeOK, EntriesPaid
  <2>4. Paid'
    BY <1>15, <2>1 DEF overlayVars, budgets, IInv, Paid
  <2>5. QED
    BY <2>2, <2>3, <2>4 DEF IInv
<1>16. QED
  BY <1>4, <1>5, <1>6, <1>7, <1>8, <1>9, <1>10, <1>11, <1>12, <1>13, <1>14, <1>15 DEF OverlayNext

\* A run begins with nothing held and nothing in the books.
LEMMA IInvInit == OverlayInit => IInv
<1> SUFFICES ASSUME OverlayInit PROVE IInv
  OBVIOUS
<1>1. DOMAIN memory = {} /\ tombstones = {} /\ deleted = {} /\ filePaths = {} /\ call = Idle
  BY DEF OverlayInit
<1>2. Held = {}
  BY <1>1 DEF Held, HeldAt
<1>3. Due = 0
  BY <1>1 DEF Due, Idle
<1>4. TypeOK
  <2>1. Objects \subseteq Things
    BY ThingsAre
  <2>2. QED
    BY <1>1, <2>1, FS_EmptySet DEF OverlayInit, TypeOK, Calls
<1>5. Paid /\ EntriesPaid /\ BooksInv
  BY <1>1, <1>2, <1>3, FS_EmptySet, OverlayAssumption
     DEF OverlayInit, Paid, EntriesPaid, BooksInv, BooksAt
<1>6. QED
  BY <1>4, <1>5 DEF IInv

\* What is in memory is part of what is held.
LEMMA PaidIsCharged == IInv => MemoryIsCharged
<1> SUFFICES ASSUME IInv PROVE MemoryIsCharged
  OBVIOUS
<1>1. InMemory \subseteq Held
  <2>1. \A p \in DOMAIN memory : p \in Paths /\ HeldAt(p) = memory[p].size
    BY DEF IInv, TypeOK, HeldAt, View
  <2>2. QED
    BY <2>1 DEF InMemory, Held
<1>2. /\ Cardinality(InMemory) <= Cardinality(Held)
      /\ Cardinality(InMemory) \in Nat /\ Cardinality(Held) \in Nat /\ Due \in Nat
  BY <1>1, FS_Subset, FS_CardinalityType, HeldIsNat DEF IInv, Paid
<1>3. QED
  BY <1>2 DEF IInv, Paid, EntriesPaid, MemoryIsCharged, TypeOK

\* A script reads what the library's books say is there, but for the two cases
\* BooksAgree names.
THEOREM BooksAlwaysAgree == OverlaySpec => []BooksAgree
<1>1. IInv => BooksAgree
  BY BooksInvAgrees DEF IInv
<1>2. QED
  BY <1>1, IInvInit, IInvStep, PTL DEF OverlaySpec

\* Everything a run holds in memory is charged for, within the two budgets, but
\* for what the host grew by where the code does not look.
THEOREM AllIsCharged == OverlaySpec => []MemoryIsCharged
  BY PaidIsCharged, IInvInit, IInvStep, PTL DEF OverlaySpec
=============================================================================
