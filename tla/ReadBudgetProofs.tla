-------------------------- MODULE ReadBudgetProofs --------------------------
(***************************************************************************)
(* What ReadBudget promises, for any number of reads, slots, bytes and     *)
(* edits.  Each read is followed by itself (ReadIs), whatever step it is   *)
(* at; what the reads share is a sum over them: the bytes (BudgetIs) and   *)
(* the slots (SlotsAre).                                                   *)
(***************************************************************************)
EXTENDS ReadBudget, FiniteSetTheorems, TLAPS

Steps == {"ready", "lstat", "open", "fstat", "chunk", "probe", "close", "done"}
Outcomes == {"none", "content", "refused", "source", "error"}
Stops == {"cancelled", "source", "limit"}
Verdicts == {"none", "success", "source", "limit", "interrupted"}

TypeOK ==
  /\ at \in [Files -> Inodes] /\ size \in [Inodes -> Nat] /\ edits \in Nat
  /\ rootSame \in BOOLEAN
  /\ pc \in [Reads -> Steps] /\ path \in [Reads -> Files]
  /\ guard \in [Reads -> Inodes \cup {NoInode}]
  /\ leaf \in [Reads -> Inodes \cup {NoInode}]
  /\ inode \in [Reads -> Inodes \cup {NoInode}]
  /\ handle \in [Reads -> {"none", "open", "closed", "lost"}]
  /\ expected \in [Reads -> Nat] /\ offset \in [Reads -> Nat]
  /\ reserved \in [Reads -> Nat]
  /\ hasSlot \in [Reads -> BOOLEAN] /\ outcome \in [Reads -> Outcomes]
  /\ readBytes \in 0..MaxRead /\ activeReads \in Nat
  /\ stopped \in SUBSET Stops /\ verdict \in Verdicts

\* A read is what its step says: before its lstat returns it has nothing,
\* the buffer it fills is as long as its reservation, it has read less while
\* it waits for a chunk and all of it at the probe.
ReadIs(r) ==
  /\ pc[r] \in {"ready", "lstat"} => reserved[r] = 0 /\ ~hasSlot[r]
  /\ pc[r] \in {"ready", "lstat", "open"} => handle[r] = "none"
  /\ pc[r] \in {"ready", "lstat", "open", "fstat"} => offset[r] = 0
  /\ pc[r] \in {"fstat", "chunk", "probe"} => inode[r] \in Inodes
  /\ pc[r] \in {"chunk", "probe"} => reserved[r] = expected[r]
  /\ pc[r] = "chunk" => offset[r] < expected[r]
  /\ pc[r] = "probe" => offset[r] = expected[r]
  /\ pc[r] \in {"close", "done"} <=> outcome[r] # "none"
  /\ outcome[r] = "content" => offset[r] = expected[r] /\ reserved[r] = expected[r]
  /\ outcome[r] = "refused" => stopped # {}
  /\ pc[r] = "done" => outcome[r] # "source" /\ ~hasSlot[r] /\ handle[r] # "open"
  /\ handle[r] = "lost" => stopped # {}

\* What the reads hold was taken from the budget.  A request that was stopped
\* may have lost some of it, an open one has not.
BudgetIs ==
  /\ IsFiniteSet(Spent)
  /\ Cardinality(Spent) <= readBytes
  /\ stopped = {} => readBytes = Cardinality(Spent)

Slots == {r \in Reads : hasSlot[r]}
SlotsAre == activeReads = Cardinality(Slots) /\ activeReads <= MaxSlots

IInv ==
  /\ TypeOK /\ BudgetIs /\ SlotsAre
  /\ \A r \in Reads : ReadIs(r)
  /\ "cancelled" \in stopped => verdict # "none"

-----------------------------------------------------------------------------
(* Sums over the reads.                                                    *)
Units(f) == UNION {{r} \X (1..f[r]) : r \in Reads}

\* A sum changes by what one of its terms changes by.
LEMMA UnitsMove ==
  ASSUME NEW f \in [Reads -> Nat], NEW g \in [Reads -> Nat], NEW r \in Reads,
         \A q \in Reads \ {r} : g[q] = f[q], IsFiniteSet(Units(f))
  PROVE  /\ IsFiniteSet(Units(g)) /\ Cardinality(Units(f)) \in Nat /\ Cardinality(Units(g)) \in Nat
         /\ f[r] <= Cardinality(Units(f))
         /\ Cardinality(Units(g)) = (Cardinality(Units(f)) - f[r]) + g[r]
<1> DEFINE rest == UNION {{q} \X (1..f[q]) : q \in Reads \ {r}}
           old == {r} \X (1..f[r])
           new == {r} \X (1..g[r])
<1>1. Units(f) = rest \cup old /\ rest \cap old = {}
  BY DEF Units
<1>2. Units(g) = rest \cup new /\ rest \cap new = {}
  BY DEF Units
<1>3. f[r] \in Nat /\ g[r] \in Nat
  OBVIOUS
<1>4. \A n \in Nat : IsFiniteSet({r} \X (1..n)) /\ Cardinality({r} \X (1..n)) = n
  <2> TAKE n \in Nat
  <2>1. IsFiniteSet({r}) /\ Cardinality({r}) = 1
    BY FS_Singleton
  <2>2. IsFiniteSet(1..n) /\ Cardinality(1..n) = n
    <3>1. IsFiniteSet(1..n) /\ Cardinality(1..n) = IF 1 > n THEN 0 ELSE n - 1 + 1
      BY 1 \in Int, n \in Int, FS_Interval
    <3>2. QED
      BY <3>1
  <2>3. /\ IsFiniteSet({r} \X (1..n))
        /\ Cardinality({r} \X (1..n)) = Cardinality({r}) * Cardinality(1..n)
    BY <2>1, <2>2, FS_Product
  <2>4. QED
    BY <2>1, <2>2, <2>3
<1>5. IsFiniteSet(rest) /\ Cardinality(rest) \in Nat
  BY <1>1, FS_Subset, FS_CardinalityType
<1> HIDE DEF rest
<1>6. \A n \in Nat : rest \cap ({r} \X (1..n)) = {} =>
        /\ IsFiniteSet(rest \cup ({r} \X (1..n)))
        /\ Cardinality(rest \cup ({r} \X (1..n))) = Cardinality(rest) + n
  <2> SUFFICES ASSUME NEW n \in Nat, rest \cap ({r} \X (1..n)) = {}
               PROVE  /\ IsFiniteSet(rest \cup ({r} \X (1..n)))
                      /\ Cardinality(rest \cup ({r} \X (1..n))) = Cardinality(rest) + n
    OBVIOUS
  <2> DEFINE more == {r} \X (1..n)
  <2>1. IsFiniteSet(more) /\ Cardinality(more) = n /\ rest \cap more = {}
    BY <1>4
  <2> HIDE DEF more
  <2>2. /\ IsFiniteSet(rest \cup more)
        /\ Cardinality(rest \cup more) =
             Cardinality(rest) + Cardinality(more) - Cardinality(rest \cap more)
    BY <1>5, <2>1, FS_Union
  <2>3. Cardinality(rest \cap more) = 0
    BY <2>1, FS_EmptySet
  <2>4. IsFiniteSet(rest \cup more) /\ Cardinality(rest \cup more) = Cardinality(rest) + n
    BY <1>5, <2>1, <2>2, <2>3
  <2>5. QED
    BY <2>4 DEF more
<1>7. Cardinality(Units(f)) = Cardinality(rest) + f[r]
  BY <1>1, <1>3, <1>6
<1>8. IsFiniteSet(Units(g)) /\ Cardinality(Units(g)) = Cardinality(rest) + g[r]
  BY <1>2, <1>3, <1>6
<1>9. QED
  BY <1>3, <1>5, <1>7, <1>8

\* A step of one read changes what the reads hold by what that one holds.
LEMMA SpentMoves ==
  ASSUME IInv, NEW r \in Reads, reserved' \in [Reads -> Nat],
         \A q \in Reads \ {r} : reserved'[q] = reserved[q] /\ outcome'[q] = outcome[q]
                                /\ pc'[q] = pc[q]
  PROVE  /\ IsFiniteSet(Spent') /\ Cardinality(Spent) \in Nat /\ Cardinality(Spent') \in Nat
         /\ Holds(r) <= Cardinality(Spent)
         /\ Cardinality(Spent') = (Cardinality(Spent) - Holds(r)) + Holds(r)'
<1> DEFINE f == [q \in Reads |-> Holds(q)]
<1> PICK g : g = [q \in Reads |-> Holds(q)']
  OBVIOUS
<1>1. f \in [Reads -> Nat] /\ g \in [Reads -> Nat]
  BY DEF IInv, TypeOK, Holds
<1>2. \A q \in Reads \ {r} : g[q] = f[q]
  BY DEF Holds, Failed
<1>3. Spent = Units(f) /\ Spent' = Units(g)
  BY DEF Spent, Units
<1>4. f[r] = Holds(r) /\ g[r] = Holds(r)'
  OBVIOUS
<1> HIDE DEF f
<1>5. IsFiniteSet(Units(f))
  BY <1>3 DEF IInv, BudgetIs
<1>6. QED
  BY <1>1, <1>2, <1>3, <1>4, <1>5, UnitsMove

\* No read holds more than all of them.
LEMMA HeldIsSpent ==
  ASSUME IInv, NEW r \in Reads
  PROVE  /\ Holds(r) \in Nat /\ Cardinality(Spent) \in Nat
         /\ Holds(r) <= Cardinality(Spent) /\ Holds(r) <= readBytes
<1> DEFINE f == [q \in Reads |-> Holds(q)]
<1>1. f \in [Reads -> Nat] /\ f[r] = Holds(r) /\ Spent = Units(f)
  BY DEF IInv, TypeOK, Holds, Spent, Units
<1> HIDE DEF f
<1>2. f[r] <= Cardinality(Units(f)) /\ Cardinality(Units(f)) \in Nat
  BY <1>1, UnitsMove DEF IInv, BudgetIs
<1>3. readBytes \in Nat /\ Cardinality(Spent) <= readBytes
  BY BoundAssumption DEF IInv, TypeOK, BudgetIs
<1>4. QED
  BY <1>1, <1>2, <1>3

-----------------------------------------------------------------------------
(* One step of a read.                                                     *)
\* The other reads do not notice: of what they share, the request can only
\* be stopped.
LEMMA OthersStay ==
  ASSUME NEW q \in Reads, ReadIs(q), stopped # {} => stopped' # {},
         pc'[q] = pc[q], reserved'[q] = reserved[q], hasSlot'[q] = hasSlot[q],
         handle'[q] = handle[q], offset'[q] = offset[q], inode'[q] = inode[q],
         expected'[q] = expected[q], outcome'[q] = outcome[q]
  PROVE  ReadIs(q)'
  BY DEF ReadIs

\* How a read that waits for a call throws.
Throws(r, how, used, held, flags) ==
  /\ Throw(r, how, used, held, flags)
  /\ how \in {"refused", "source", "error"} /\ flags \in SUBSET Stops
  /\ "cancelled" \notin flags
  /\ used \in Nat /\ held \in Nat /\ held <= used /\ used <= MaxRead
  /\ used - held = readBytes - reserved[r]
  /\ how = "refused" => stopped \cup flags # {}

\* A read that throws gives back what it holds, or the request is stopped and
\* nobody counts any more.
LEMMA ThrowPays ==
  ASSUME IInv, NEW r \in Reads, outcome[r] = "none",
         NEW how, NEW used, NEW held, NEW flags, Throws(r, how, used, held, flags)
  PROVE  /\ BudgetIs' /\ readBytes' \in 0..MaxRead /\ reserved' \in [Reads -> Nat]
         /\ pc' \in [Reads -> Steps] /\ outcome' \in [Reads -> Outcomes]
         /\ stopped' \in SUBSET Stops
         /\ pc'[r] = "close" /\ outcome'[r] = how /\ reserved'[r] = held
         /\ \A q \in Reads \ {r} : pc'[q] = pc[q] /\ outcome'[q] = outcome[q]
                                   /\ reserved'[q] = reserved[q]
         /\ stopped # {} => stopped' # {}
         /\ how = "refused" => stopped' # {}
         /\ "cancelled" \in stopped' => "cancelled" \in stopped
<1>1. /\ reserved' \in [Reads -> Nat]
      /\ pc' \in [Reads -> Steps] /\ outcome' \in [Reads -> Outcomes]
      /\ stopped' \in SUBSET Stops
      /\ pc'[r] = "close" /\ outcome'[r] = how /\ reserved'[r] = held
      /\ \A q \in Reads \ {r} : pc'[q] = pc[q] /\ outcome'[q] = outcome[q]
                                /\ reserved'[q] = reserved[q]
      /\ stopped # {} => stopped' # {}
      /\ how = "refused" => stopped' # {}
      /\ "cancelled" \in stopped' => "cancelled" \in stopped
      /\ stopped' = stopped \cup flags
  BY DEF Throws, Throw, IInv, TypeOK, Steps, Outcomes
<1>2. Holds(r) = reserved[r] /\ Holds(r)' = 0
  BY <1>1 DEF Holds, Failed, Throws, IInv, ReadIs
<1>3. /\ IsFiniteSet(Spent') /\ Cardinality(Spent) \in Nat /\ Cardinality(Spent') \in Nat
      /\ reserved[r] <= Cardinality(Spent)
      /\ Cardinality(Spent') = Cardinality(Spent) - reserved[r]
  <2>1. /\ IsFiniteSet(Spent') /\ Cardinality(Spent) \in Nat /\ Cardinality(Spent') \in Nat
        /\ Holds(r) <= Cardinality(Spent)
        /\ Cardinality(Spent') = (Cardinality(Spent) - Holds(r)) + Holds(r)'
    BY <1>1, SpentMoves
  <2>2. reserved[r] \in Nat
    BY DEF IInv, TypeOK
  <2>3. QED
    BY <1>2, <2>1, <2>2
<1>4. /\ readBytes \in Nat /\ readBytes <= MaxRead /\ reserved[r] \in Nat /\ MaxRead \in Nat
      /\ used \in Nat /\ held \in Nat /\ held <= used /\ used <= MaxRead
      /\ used - held = readBytes - reserved[r]
      /\ Cardinality(Spent) <= readBytes
      /\ stopped = {} => readBytes = Cardinality(Spent)
  BY BoundAssumption DEF IInv, TypeOK, BudgetIs, Throws
<1>5. CASE KeepsReservation(how, flags)
  <2>1. readBytes' = used
    BY <1>5 DEF Throws, Throw
  <2>2. stopped' # {}
    BY <1>1, <1>5 DEF KeepsReservation
  <2>3. QED
    BY <1>1, <1>3, <1>4, <2>1, <2>2 DEF BudgetIs
<1>6. CASE ~KeepsReservation(how, flags)
  <2>1. readBytes' = used - held
    BY <1>6 DEF Throws, Throw
  <2>2. readBytes' = readBytes - reserved[r] /\ readBytes' \in 0..MaxRead
    BY <1>4, <2>1
  <2>3. Cardinality(Spent') <= readBytes'
    BY <1>3, <1>4, <2>2
  <2>4. stopped' = {} => readBytes' = Cardinality(Spent')
    BY <1>1, <1>3, <1>4, <2>2
  <2>5. QED
    BY <1>1, <1>3, <2>2, <2>3, <2>4 DEF BudgetIs
<1>7. QED
  BY <1>5, <1>6

\* A call that returns in vain is a throw that keeps the bytes as they are.
LEMMA VainThrows ==
  ASSUME IInv, NEW r \in Reads, outcome[r] = "none", pc[r] \in Steps,
         ReturnsInVain(r)
  PROVE  \E how \in {"refused", "error"} :
            Throws(r, how, readBytes, reserved[r], {}) /\ (how = "refused" => stopped # {})
<1>1. /\ readBytes \in Nat /\ readBytes <= MaxRead /\ reserved[r] \in Nat
      /\ reserved[r] <= readBytes
  <2>1. readBytes \in Nat /\ readBytes <= MaxRead /\ reserved[r] \in Nat /\ MaxRead \in Nat
    BY BoundAssumption DEF IInv, TypeOK
  <2>2. Holds(r) = reserved[r]
    BY DEF Holds, Failed, IInv, ReadIs
  <2>3. QED
    BY <2>1, <2>2, HeldIsSpent
<1>2. QED
  BY <1>1 DEF ReturnsInVain, Throws, Stops

\* What is left to say of a step of one read, once its throw or its
\* accounting is done.
Others(r) ==
  \A q \in Reads \ {r} :
    /\ pc'[q] = pc[q] /\ reserved'[q] = reserved[q] /\ hasSlot'[q] = hasSlot[q]
    /\ handle'[q] = handle[q] /\ offset'[q] = offset[q] /\ inode'[q] = inode[q]
    /\ expected'[q] = expected[q] /\ outcome'[q] = outcome[q]

\* The invariant of every step of one read, from that of its own state.
LEMMA OneRead ==
  ASSUME IInv, NEW r \in Reads, Others(r), stopped # {} => stopped' # {},
         TypeOK', BudgetIs', SlotsAre', ReadIs(r)', UNCHANGED verdict,
         "cancelled" \in stopped' => "cancelled" \in stopped
  PROVE  IInv'
<1>1. ASSUME NEW q \in Reads \ {r} PROVE ReadIs(q)'
  BY <1>1, OthersStay DEF IInv, Others
<1>2. QED
  BY <1>1 DEF IInv

\* As long as no read takes a slot or gives one back, their number is right.
LEMMA SlotsStay ==
  ASSUME SlotsAre, UNCHANGED <<hasSlot, activeReads>>
  PROVE  SlotsAre'
  BY DEF SlotsAre, Slots

\* What a read holds while it waits.
LEMMA Waiting ==
  ASSUME IInv, NEW r \in Reads, pc[r] \notin {"close", "done"}
  PROVE  /\ outcome[r] = "none" /\ Holds(r) = reserved[r] /\ reserved[r] \in Nat
         /\ reserved[r] <= readBytes /\ readBytes \in Nat /\ readBytes <= MaxRead
         /\ MaxRead \in Nat
<1>1. outcome[r] = "none" /\ Holds(r) = reserved[r]
  BY DEF IInv, ReadIs, Holds, Failed
<1>2. readBytes \in Nat /\ readBytes <= MaxRead /\ reserved[r] \in Nat /\ MaxRead \in Nat
  BY BoundAssumption DEF IInv, TypeOK
<1>3. QED
  BY <1>1, <1>2, HeldIsSpent

\* What an open request's read holds next, taken from the budget.
LEMMA AccountIs ==
  ASSUME IInv, NEW r \in Reads, pc[r] \notin {"close", "done"}, stopped = {},
         stopped' = {}, NEW n \in Nat, n <= reserved[r] + (MaxRead - readBytes),
         reserved' = [reserved EXCEPT ![r] = n],
         readBytes' = (readBytes - reserved[r]) + n,
         \A q \in Reads \ {r} : outcome'[q] = outcome[q] /\ pc'[q] = pc[q],
         outcome'[r] = "content" \/ pc'[r] \notin {"close", "done"}
  PROVE  BudgetIs' /\ readBytes' \in 0..MaxRead
<1>1. /\ reserved' \in [Reads -> Nat] /\ reserved'[r] = n
      /\ \A q \in Reads \ {r} : reserved'[q] = reserved[q]
  BY DEF IInv, TypeOK
<1>2. Holds(r)' = n
  BY <1>1 DEF Holds, Failed
<1>3. /\ IsFiniteSet(Spent') /\ Cardinality(Spent) \in Nat /\ Cardinality(Spent') \in Nat
      /\ Cardinality(Spent') = (Cardinality(Spent) - Holds(r)) + Holds(r)'
  BY <1>1, SpentMoves
<1>4. /\ Holds(r) = reserved[r] /\ reserved[r] \in Nat /\ reserved[r] <= readBytes
      /\ readBytes \in Nat /\ readBytes <= MaxRead /\ MaxRead \in Nat
  BY Waiting
<1>5. readBytes = Cardinality(Spent)
  BY DEF IInv, BudgetIs
<1>6. readBytes' \in 0..MaxRead /\ readBytes' = Cardinality(Spent')
  BY <1>2, <1>3, <1>4, <1>5
<1>7. QED
  BY <1>3, <1>6 DEF BudgetIs

\* A step that leaves the budget and the outcomes alone.
LEMMA BudgetStays ==
  ASSUME IInv, NEW r \in Reads, UNCHANGED <<reserved, readBytes>>,
         pc[r] \notin {"close", "done"}, stopped # {} => stopped' # {},
         \A q \in Reads \ {r} : outcome'[q] = outcome[q] /\ pc'[q] = pc[q],
         \/ outcome'[r] = "content"
         \/ pc'[r] \notin {"close", "done"}
         \/ reserved[r] = 0
  PROVE  BudgetIs' /\ readBytes' \in 0..MaxRead
<1>1. reserved' \in [Reads -> Nat]
  BY DEF IInv, TypeOK
<1>2. Holds(r)' = reserved[r] /\ Holds(r) = reserved[r] /\ reserved[r] \in Nat
  BY Waiting DEF Holds, Failed
<1>3. /\ IsFiniteSet(Spent') /\ Cardinality(Spent) \in Nat /\ Cardinality(Spent') \in Nat
      /\ Cardinality(Spent') = (Cardinality(Spent) - Holds(r)) + Holds(r)'
  BY <1>1, SpentMoves
<1>4. Cardinality(Spent') = Cardinality(Spent)
  BY <1>2, <1>3
<1>5. QED
  BY <1>3, <1>4 DEF BudgetIs, IInv, TypeOK

-----------------------------------------------------------------------------
(* Each step keeps the invariant.                                          *)
LEMMA StartReadKeeps ==
  ASSUME IInv, NEW r \in Reads, StartRead(r)
  PROVE  IInv'
<1>1. pc[r] = "ready" /\ reserved[r] = 0
  BY DEF StartRead, IInv, ReadIs
<1>2. /\ UNCHANGED <<host, path, leaf, inode, expected, offset, handle, hasSlot, activeReads,
                     verdict, readBytes, reserved>>
      /\ \A q \in Reads \ {r} : outcome'[q] = outcome[q] /\ pc'[q] = pc[q]
      /\ stopped # {} => stopped' # {}
      /\ "cancelled" \in stopped' => "cancelled" \in stopped
  BY DEF StartRead, BudgetSame, Continue, IInv, TypeOK
<1>3. BudgetIs' /\ readBytes' \in 0..MaxRead
  BY <1>1, <1>2, BudgetStays
<1>4. at[path[r]] \in Inodes
  BY DEF IInv, TypeOK
<1>5. TypeOK'
  BY <1>1, <1>2, <1>3, <1>4
     DEF StartRead, Continue, IInv, TypeOK, Steps, Outcomes, Stops, host
<1>6. ReadIs(r)'
  <2>1. /\ ReadIs(r) /\ outcome[r] = "none" /\ pc[r] = "ready"
        /\ pc \in [Reads -> Steps] /\ outcome \in [Reads -> Outcomes]
    BY <1>1 DEF IInv, TypeOK, ReadIs
  <2>2. \/ pc'[r] = "lstat" /\ outcome'[r] = "none"
        \/ pc'[r] = "done" /\ outcome'[r] = "refused" /\ stopped' # {}
    BY <2>1 DEF StartRead, Continue
  <2>3. QED
    BY <1>2, <2>1, <2>2 DEF ReadIs
<1>7. SlotsAre' /\ Others(r)
  BY <1>2, SlotsStay DEF IInv, Others
<1>8. QED
  BY <1>2, <1>3, <1>5, <1>6, <1>7, OneRead

\* A throw, and what the step does besides.
LEMMA ThrowKeeps ==
  ASSUME IInv, NEW r \in Reads, pc[r] \notin {"ready", "close", "done"},
         NEW how, NEW used, NEW held, NEW flags, Throws(r, how, used, held, flags),
         UNCHANGED <<host, path, guard, leaf, inode, expected, offset, hasSlot, activeReads, verdict>>,
         \/ UNCHANGED handle
         \/ stopped # {} /\ handle' = [handle EXCEPT ![r] = "lost"]
  PROVE  IInv'
<1>1. outcome[r] = "none"
  BY Waiting
<1>2. /\ BudgetIs' /\ readBytes' \in 0..MaxRead /\ reserved' \in [Reads -> Nat]
      /\ pc' \in [Reads -> Steps] /\ outcome' \in [Reads -> Outcomes]
      /\ stopped' \in SUBSET Stops
      /\ pc'[r] = "close" /\ outcome'[r] = how /\ reserved'[r] = held
      /\ \A q \in Reads \ {r} : pc'[q] = pc[q] /\ outcome'[q] = outcome[q]
                                /\ reserved'[q] = reserved[q]
      /\ stopped # {} => stopped' # {}
      /\ how = "refused" => stopped' # {}
      /\ "cancelled" \in stopped' => "cancelled" \in stopped
  BY <1>1, ThrowPays
<1>3. /\ handle' \in [Reads -> {"none", "open", "closed", "lost"}]
      /\ \A q \in Reads \ {r} : handle'[q] = handle[q]
      /\ handle'[r] = "lost" => stopped' # {}
  BY <1>2 DEF IInv, TypeOK, ReadIs
<1>4. TypeOK'
  BY <1>2, <1>3 DEF IInv, TypeOK, host
<1>5. ReadIs(r)'
  BY <1>2, <1>3 DEF ReadIs, Throws
<1>6. SlotsAre' /\ Others(r)
  BY <1>2, <1>3, SlotsStay DEF IInv, Others
<1>7. QED
  BY <1>2, <1>4, <1>5, <1>6, OneRead

\* A call that fails, or returns to a request that was stopped.
LEMMA VainKeeps ==
  ASSUME IInv, NEW r \in Reads, pc[r] \notin {"ready", "close", "done"}, ReturnsInVain(r),
         UNCHANGED <<host, path, guard, leaf, inode, expected, offset, hasSlot, activeReads, verdict, handle>>
  PROVE  IInv'
<1>1. outcome[r] = "none" /\ pc[r] \in Steps
  BY Waiting DEF IInv, TypeOK
<1>2. PICK how \in {"refused", "error"} :
        Throws(r, how, readBytes, reserved[r], {})
  BY <1>1, VainThrows
<1>3. QED
  BY <1>2, ThrowKeeps

\* The first look at the path gives up, or goes on to open it.
LEMMA LstatReturnsKeeps ==
  ASSUME IInv, NEW r \in Reads, LstatReturns(r)
  PROVE  IInv'
<1> PICK bytes : bytes = size[at[path[r]]]
  OBVIOUS
<1> DEFINE fits == FitsBudget(r, bytes)
           slot == activeReads < MaxSlots
<1>1. /\ pc[r] = "lstat" /\ reserved[r] = 0 /\ ~hasSlot[r]
      /\ UNCHANGED <<host, path, guard, inode, expected, offset, handle, verdict>>
  BY DEF LstatReturns, IInv, ReadIs
<1>2. bytes \in Nat /\ at[path[r]] \in Inodes
  BY DEF IInv, TypeOK
<1>3. readBytes \in Nat /\ readBytes <= MaxRead /\ MaxRead \in Nat
  BY <1>1, Waiting
<1>4. CASE ReturnsInVain(r) /\ UNCHANGED <<leaf, hasSlot, activeReads>>
  BY <1>1, <1>4, VainKeeps
<1>5. CASE /\ fits /\ slot
           /\ Continue(r, "open")
           /\ readBytes' = readBytes + bytes
           /\ reserved' = [reserved EXCEPT ![r] = bytes]
           /\ leaf' = [leaf EXCEPT ![r] = at[path[r]]]
           /\ hasSlot' = [hasSlot EXCEPT ![r] = TRUE]
           /\ activeReads' = activeReads + 1
  <2>1. /\ stopped = {} /\ stopped' = {} /\ UNCHANGED outcome
        /\ pc' = [pc EXCEPT ![r] = "open"]
    BY <1>5 DEF Continue
  <2>2. /\ bytes <= reserved[r] + (MaxRead - readBytes)
        /\ readBytes' = (readBytes - reserved[r]) + bytes
    BY <1>1, <1>2, <1>3, <1>5 DEF FitsBudget
  <2>3. pc'[r] = "open" /\ \A q \in Reads \ {r} : outcome'[q] = outcome[q] /\ pc'[q] = pc[q]
    BY <2>1 DEF IInv, TypeOK
  <2>4. BudgetIs' /\ readBytes' \in 0..MaxRead
    BY <1>1, <1>2, <1>5, <2>1, <2>2, <2>3, AccountIs
  <2>5. TypeOK'
    BY <1>1, <1>2, <1>5, <2>1, <2>4 DEF IInv, TypeOK, Steps, host
  <2>6. SlotsAre'
    <3>1. Slots' = Slots \cup {r} /\ r \notin Slots
      BY <1>1, <1>5 DEF Slots, IInv, TypeOK
    <3>2. IsFiniteSet(Slots) /\ Cardinality(Slots) \in Nat
      BY ScriptAssumption, FS_Subset, FS_CardinalityType DEF Slots
    <3>3. Cardinality(Slots') = Cardinality(Slots) + 1
      BY <3>1, <3>2, FS_AddElement
    <3>4. QED
      BY <1>5, <3>2, <3>3, BoundAssumption DEF SlotsAre, IInv
  <2>7. ReadIs(r)'
    BY <1>1, <1>5, <2>1, <2>3 DEF IInv, TypeOK, ReadIs
  <2>8. Others(r)
    BY <1>1, <1>5, <2>3 DEF IInv, TypeOK, Others
  <2>9. QED
    BY <1>1, <2>1, <2>4, <2>5, <2>6, <2>7, <2>8, OneRead
<1>6. CASE /\ stopped = {}
           /\ IF fits THEN Throw(r, "refused", readBytes + bytes, bytes, {"limit"})
                      ELSE Throw(r, "refused", readBytes, 0, {"limit"})
           /\ UNCHANGED <<leaf, hasSlot, activeReads>>
  <2>1. CASE fits
    <3>1. Throws(r, "refused", readBytes + bytes, bytes, {"limit"})
      BY <1>1, <1>2, <1>3, <1>6, <2>1 DEF Throws, Stops, FitsBudget
    <3>2. QED
      BY <1>1, <1>6, <3>1, ThrowKeeps
  <2>2. CASE ~fits
    <3>1. Throws(r, "refused", readBytes, 0, {"limit"})
      BY <1>1, <1>2, <1>3, <1>6, <2>2 DEF Throws, Stops
    <3>2. QED
      BY <1>1, <1>6, <3>1, ThrowKeeps
  <2>3. QED
    BY <2>1, <2>2
<1>7. QED
  BY <1>4, <1>5, <1>6 DEF LstatReturns

\* The file opens, or the reader gives its slot back.
LEMMA OpenReturnsKeeps ==
  ASSUME IInv, NEW r \in Reads, OpenReturns(r)
  PROVE  IInv'
<1>1. /\ pc[r] = "open" /\ handle[r] = "none" /\ offset[r] = 0
      /\ UNCHANGED <<host, path, guard, leaf, expected, offset, hasSlot, activeReads, verdict>>
  BY DEF OpenReturns, IInv, ReadIs
<1>2. /\ reserved[r] \in Nat /\ reserved[r] <= readBytes /\ readBytes \in Nat
      /\ readBytes <= MaxRead /\ MaxRead \in Nat /\ outcome[r] = "none"
  BY <1>1, Waiting
<1>3. CASE /\ Throw(r, "error", readBytes, reserved[r], {})
           /\ UNCHANGED <<handle, inode>>
  <2>1. Throws(r, "error", readBytes, reserved[r], {})
    BY <1>2, <1>3 DEF Throws
  <2>2. QED
    BY <1>1, <1>3, <2>1, ThrowKeeps
<1>4. CASE /\ stopped # {}
           /\ Throw(r, "refused", readBytes, reserved[r], {})
           /\ handle' = [handle EXCEPT ![r] = "lost"]
           /\ UNCHANGED inode
  <2>1. Throws(r, "refused", readBytes, reserved[r], {})
    BY <1>2, <1>4 DEF Throws
  <2>2. QED
    BY <1>1, <1>4, <2>1, ThrowKeeps
<1>5. CASE /\ Continue(r, "fstat")
           /\ handle' = [handle EXCEPT ![r] = "open"]
           /\ inode' = [inode EXCEPT ![r] = at[path[r]]]
           /\ BudgetSame
  <2>1. /\ UNCHANGED <<outcome, stopped, readBytes, reserved>>
        /\ pc' = [pc EXCEPT ![r] = "fstat"]
    BY <1>5 DEF Continue, BudgetSame
  <2>2. pc'[r] = "fstat" /\ \A q \in Reads \ {r} : outcome'[q] = outcome[q] /\ pc'[q] = pc[q]
    BY <2>1 DEF IInv, TypeOK
  <2>3. BudgetIs' /\ readBytes' \in 0..MaxRead
    BY <1>1, <2>1, <2>2, BudgetStays
  <2>4. at[path[r]] \in Inodes
    BY DEF IInv, TypeOK
  <2>5. TypeOK'
    BY <1>1, <1>5, <2>1, <2>3, <2>4 DEF IInv, TypeOK, Steps, host
  <2>6. ReadIs(r)'
    BY <1>1, <1>2, <1>5, <2>1, <2>2, <2>4 DEF IInv, TypeOK, ReadIs
  <2>7. SlotsAre' /\ Others(r)
    BY <1>1, <1>5, <2>1, <2>2, SlotsStay DEF IInv, TypeOK, Others
  <2>8. QED
    BY <1>1, <2>1, <2>3, <2>5, <2>6, <2>7, OneRead
<1>6. QED
  BY <1>3, <1>4, <1>5 DEF OpenReturns

\* The look at the open file reserves its bytes, or gives up.
LEMMA FstatReturnsKeeps ==
  ASSUME IInv, NEW r \in Reads, FstatReturns(r)
  PROVE  IInv'
<1> PICK bytes : bytes = size[inode[r]]
  OBVIOUS
<1>1. /\ pc[r] = "fstat" /\ inode[r] \in Inodes /\ offset[r] = 0
      /\ UNCHANGED <<host, path, guard, leaf, inode, offset, handle, hasSlot, activeReads, verdict>>
  BY DEF FstatReturns, IInv, ReadIs
<1>2. bytes \in Nat
  BY <1>1 DEF IInv, TypeOK
<1>3. /\ reserved[r] \in Nat /\ reserved[r] <= readBytes /\ readBytes \in Nat
      /\ readBytes <= MaxRead /\ MaxRead \in Nat /\ outcome[r] = "none"
  BY <1>1, Waiting
<1>4. CASE ReturnsInVain(r) /\ UNCHANGED expected
  BY <1>1, <1>4, VainKeeps
<1>5. CASE /\ FitsBudget(r, bytes)
           /\ Continue(r, IF bytes = 0 THEN "probe" ELSE "chunk")
           /\ readBytes' = (readBytes + bytes) - reserved[r]
           /\ reserved' = [reserved EXCEPT ![r] = bytes]
           /\ expected' = [expected EXCEPT ![r] = bytes]
  <2>1. /\ stopped = {} /\ stopped' = {} /\ UNCHANGED outcome
        /\ pc' = [pc EXCEPT ![r] = IF bytes = 0 THEN "probe" ELSE "chunk"]
    BY <1>5 DEF Continue
  <2>2. /\ bytes <= reserved[r] + (MaxRead - readBytes)
        /\ readBytes' = (readBytes - reserved[r]) + bytes
    BY <1>2, <1>3, <1>5 DEF FitsBudget
  <2>3. /\ pc'[r] = IF bytes = 0 THEN "probe" ELSE "chunk"
        /\ pc'[r] \notin {"close", "done"}
        /\ \A q \in Reads \ {r} : outcome'[q] = outcome[q] /\ pc'[q] = pc[q]
    BY <2>1 DEF IInv, TypeOK
  <2>4. BudgetIs' /\ readBytes' \in 0..MaxRead
    BY <1>1, <1>2, <1>5, <2>1, <2>2, <2>3, AccountIs
  <2>5. TypeOK'
    BY <1>1, <1>2, <1>5, <2>1, <2>4 DEF IInv, TypeOK, Steps, host
  <2>6. ReadIs(r)'
    <3>1. reserved'[r] = bytes /\ expected'[r] = bytes /\ offset'[r] = 0 /\ inode'[r] \in Inodes
      BY <1>1, <1>5 DEF IInv, TypeOK
    <3>2. bytes = 0 \/ 0 < bytes
      BY <1>2
    <3>3. UNCHANGED <<handle, outcome>> /\ outcome[r] = "none"
      BY <1>1, <1>3, <2>1
    <3>4. handle[r] # "lost"
      BY <2>1 DEF IInv, ReadIs
    <3>5. QED
      BY <2>1, <2>3, <3>1, <3>2, <3>3, <3>4 DEF ReadIs
  <2>7. SlotsAre' /\ Others(r)
    BY <1>1, <1>5, <2>1, <2>3, SlotsStay DEF IInv, TypeOK, Others
  <2>8. QED
    BY <1>1, <2>1, <2>4, <2>5, <2>6, <2>7, OneRead
<1>6. CASE /\ stopped = {}
           /\ Throw(r, "refused", readBytes, reserved[r], {"limit"})
           /\ UNCHANGED expected
  <2>1. Throws(r, "refused", readBytes, reserved[r], {"limit"})
    BY <1>3, <1>6 DEF Throws, Stops
  <2>2. QED
    BY <1>1, <1>6, <2>1, ThrowKeeps
<1>7. QED
  BY <1>4, <1>5, <1>6 DEF FstatReturns

\* A chunk is charged to the reservation of its reader.
LEMMA ChunkReturnsKeeps ==
  ASSUME IInv, NEW r \in Reads, ChunkReturns(r)
  PROVE  IInv'
<1>1. /\ pc[r] = "chunk" /\ inode[r] \in Inodes /\ offset[r] < expected[r]
      /\ reserved[r] = expected[r] /\ offset[r] \in Nat /\ expected[r] \in Nat
      /\ UNCHANGED <<host, path, guard, leaf, inode, expected, handle, hasSlot, activeReads, verdict>>
  BY DEF ChunkReturns, IInv, TypeOK, ReadIs
<1>2. /\ reserved[r] \in Nat /\ reserved[r] <= readBytes /\ readBytes \in Nat
      /\ readBytes <= MaxRead /\ MaxRead \in Nat /\ outcome[r] = "none"
  BY <1>1, Waiting
<1>3. CASE ReturnsInVain(r) /\ UNCHANGED offset
  BY <1>1, <1>3, VainKeeps
<1>4. CASE /\ Continue(r, IF offset[r] + 1 = expected[r] THEN "probe" ELSE "chunk")
           /\ offset' = [offset EXCEPT ![r] = @ + 1]
           /\ BudgetSame
  <2>1. /\ stopped = {} /\ UNCHANGED <<outcome, stopped, readBytes, reserved>>
        /\ pc' = [pc EXCEPT ![r] = IF offset[r] + 1 = expected[r] THEN "probe" ELSE "chunk"]
    BY <1>4 DEF Continue, BudgetSame
  <2>2. /\ pc'[r] = IF offset[r] + 1 = expected[r] THEN "probe" ELSE "chunk"
        /\ \A q \in Reads \ {r} : outcome'[q] = outcome[q] /\ pc'[q] = pc[q]
    BY <2>1 DEF IInv, TypeOK
  <2>3. BudgetIs' /\ readBytes' \in 0..MaxRead
    BY <1>1, <2>1, <2>2, BudgetStays
  <2>4. TypeOK'
    BY <1>1, <1>4, <2>1, <2>3 DEF IInv, TypeOK, Steps, host
  <2>5. ReadIs(r)'
    <3>1. offset'[r] = offset[r] + 1
      BY <1>4 DEF IInv, TypeOK
    <3>2. offset'[r] = expected[r] \/ offset'[r] < expected[r]
      BY <1>1, <3>1
    <3>3. handle[r] # "lost"
      BY <2>1 DEF IInv, ReadIs
    <3>4. QED
      BY <1>1, <1>2, <2>1, <2>2, <3>1, <3>2, <3>3 DEF ReadIs
  <2>6. SlotsAre' /\ Others(r)
    BY <1>1, <1>4, <2>1, <2>2, SlotsStay DEF IInv, TypeOK, Others
  <2>7. QED
    BY <1>1, <2>1, <2>3, <2>4, <2>5, <2>6, OneRead
<1>5. CASE /\ EndsShort(r)
           /\ UNCHANGED offset
  <2>1. Throws(r, "source", readBytes, reserved[r], {})
    BY <1>2, <1>5 DEF Throws, EndsShort
  <2>2. QED
    BY <1>1, <1>5, <2>1, ThrowKeeps
<1>6. QED
  BY <1>3, <1>4, <1>5 DEF ChunkReturns

\* The read past the end says whether the file has grown.
LEMMA ProbeReturnsKeeps ==
  ASSUME IInv, NEW r \in Reads, ProbeReturns(r)
  PROVE  IInv'
<1>1. /\ pc[r] = "probe" /\ inode[r] \in Inodes /\ offset[r] = expected[r]
      /\ reserved[r] = expected[r]
      /\ UNCHANGED <<host, path, guard, leaf, inode, expected, offset, handle, hasSlot, activeReads, verdict>>
  BY DEF ProbeReturns, IInv, ReadIs, locals
<1>2. /\ reserved[r] \in Nat /\ reserved[r] <= readBytes /\ readBytes \in Nat
      /\ readBytes <= MaxRead /\ MaxRead \in Nat /\ outcome[r] = "none"
  BY <1>1, Waiting
<1>3. CASE ReturnsInVain(r)
  BY <1>1, <1>3, VainKeeps
<1>4. CASE stopped = {} /\ Throw(r, "refused", readBytes, reserved[r], {"limit"})
  <2>1. Throws(r, "refused", readBytes, reserved[r], {"limit"})
    BY <1>2, <1>4 DEF Throws, Stops
  <2>2. QED
    BY <1>1, <1>4, <2>1, ThrowKeeps
<1>5. CASE /\ stopped = {}
           /\ outcome' = [outcome EXCEPT ![r] = "content"]
           /\ pc' = [pc EXCEPT ![r] = "close"]
           /\ BudgetSame
           /\ UNCHANGED stopped
  <2>1. /\ outcome'[r] = "content" /\ pc'[r] = "close"
        /\ \A q \in Reads \ {r} : outcome'[q] = outcome[q] /\ pc'[q] = pc[q]
    BY <1>5 DEF IInv, TypeOK
  <2>2. BudgetIs' /\ readBytes' \in 0..MaxRead
    BY <1>1, <1>5, <2>1, BudgetStays DEF BudgetSame
  <2>3. TypeOK'
    BY <1>1, <1>5, <2>2 DEF IInv, TypeOK, Steps, Outcomes, host, BudgetSame
  <2>4. handle[r] # "lost"
    BY <1>5 DEF IInv, ReadIs
  <2>5. ReadIs(r)'
    BY <1>1, <1>5, <2>1, <2>4 DEF ReadIs, BudgetSame
  <2>6. SlotsAre' /\ Others(r)
    BY <1>1, <1>5, <2>1, SlotsStay DEF IInv, TypeOK, Others, BudgetSame
  <2>7. QED
    BY <1>1, <1>5, <2>2, <2>3, <2>5, <2>6, OneRead
<1>6. QED
  BY <1>3, <1>4, <1>5 DEF ProbeReturns

\* Closing gives back the descriptor and what was reserved.
LEMMA CloseReturnsKeeps ==
  ASSUME IInv, NEW r \in Reads, CloseReturns(r)
  PROVE  IInv'
<1>1. /\ pc[r] = "close" /\ outcome[r] # "none"
      /\ UNCHANGED <<host, verdict, path, expected, offset, readBytes, reserved>>
  BY DEF CloseReturns, Forget, BudgetSame, IInv, ReadIs
<1>2. /\ pc' = [pc EXCEPT ![r] = "done"]
      /\ handle' = [handle EXCEPT ![r] = HandleClosed(handle[r])]
      /\ hasSlot' = [hasSlot EXCEPT ![r] = FALSE]
      /\ guard' = [guard EXCEPT ![r] = NoInode] /\ leaf' = [leaf EXCEPT ![r] = NoInode]
      /\ inode' = [inode EXCEPT ![r] = NoInode]
      /\ activeReads' = activeReads - SlotGivenBack(r)
      /\ outcome' = [outcome EXCEPT ![r] =
           IF SourceChanged(r) \/ outcome[r] = "source" \/ (outcome[r] = "content" /\ stopped # {})
           THEN "refused" ELSE outcome[r]]
      /\ stopped' = IF SourceChanged(r) THEN stopped \cup {"source"} ELSE stopped
  BY DEF CloseReturns, Forget
<1>3. /\ pc'[r] = "done" /\ handle'[r] = HandleClosed(handle[r]) /\ ~hasSlot'[r]
      /\ \A q \in Reads \ {r} : /\ pc'[q] = pc[q] /\ reserved'[q] = reserved[q] /\ hasSlot'[q] = hasSlot[q]
                                /\ handle'[q] = handle[q] /\ inode'[q] = inode[q] /\ outcome'[q] = outcome[q]
  BY <1>1, <1>2 DEF IInv, TypeOK
<1>4. /\ outcome'[r] = outcome[r] \/ (outcome'[r] = "refused" /\ stopped' # {})
      /\ outcome'[r] # "source" /\ outcome'[r] \in Outcomes
  <2>1. outcome'[r] = IF SourceChanged(r) \/ outcome[r] = "source"
                         \/ (outcome[r] = "content" /\ stopped # {})
                      THEN "refused" ELSE outcome[r]
    BY <1>2 DEF IInv, TypeOK
  <2>2. outcome[r] = "source" => SourceChanged(r)
    BY DEF SourceChanged
  <2>3. SourceChanged(r) => stopped' # {}
    BY <1>2
  <2>4. stopped # {} => stopped' # {}
    BY <1>2
  <2>5. outcome[r] \in Outcomes
    BY DEF IInv, TypeOK
  <2>6. QED
    BY <2>1, <2>2, <2>3, <2>4, <2>5 DEF Outcomes
<1>5. /\ stopped # {} => stopped' # {}
      /\ "cancelled" \in stopped' => "cancelled" \in stopped
      /\ stopped' \in SUBSET Stops
  BY <1>2 DEF IInv, TypeOK, Stops
<1>6. /\ BudgetIs'
  <2>1. /\ IsFiniteSet(Spent') /\ Cardinality(Spent) \in Nat /\ Cardinality(Spent') \in Nat
        /\ Cardinality(Spent') = (Cardinality(Spent) - Holds(r)) + Holds(r)'
    BY <1>1, <1>3, SpentMoves DEF IInv, TypeOK
  <2>2. Holds(r)' = Holds(r) \/ (Holds(r)' = 0 /\ stopped' # {})
    BY <1>1, <1>3, <1>4 DEF Holds, Failed
  <2>3. Holds(r) \in Nat /\ Holds(r) <= Cardinality(Spent) /\ readBytes \in Nat
    BY HeldIsSpent, BoundAssumption DEF IInv, TypeOK
  <2>4. Cardinality(Spent) <= readBytes /\ (stopped = {} => readBytes = Cardinality(Spent))
    BY DEF IInv, BudgetIs
  <2>5. Cardinality(Spent') <= readBytes'
    BY <1>1, <2>1, <2>2, <2>3, <2>4
  <2>6. stopped' = {} => readBytes' = Cardinality(Spent')
    BY <1>1, <1>5, <2>1, <2>2, <2>3, <2>4
  <2>7. QED
    BY <2>1, <2>5, <2>6 DEF BudgetIs
<1>7. SlotsAre' /\ activeReads' \in Nat
  <2>1. IsFiniteSet(Slots) /\ Cardinality(Slots) \in Nat
    BY ScriptAssumption, FS_Subset, FS_CardinalityType DEF Slots
  <2>2. Slots' = Slots \ {r} /\ (r \in Slots <=> hasSlot[r])
    BY <1>3 DEF Slots
  <2>3. IsFiniteSet(Slots') /\ Cardinality(Slots') =
          IF hasSlot[r] THEN Cardinality(Slots) - 1 ELSE Cardinality(Slots)
    BY <2>1, <2>2, FS_RemoveElement
  <2>4. Cardinality(Slots') \in Nat
    BY <2>3, FS_CardinalityType
  <2>5. SlotGivenBack(r) = IF hasSlot[r] THEN 1 ELSE 0
    BY DEF SlotGivenBack
  <2>6. activeReads = Cardinality(Slots) /\ activeReads <= MaxSlots /\ MaxSlots \in Nat
    BY BoundAssumption DEF IInv, SlotsAre
  <2>7. activeReads' = Cardinality(Slots') /\ activeReads' <= MaxSlots
    BY <1>2, <2>1, <2>3, <2>5, <2>6
  <2>8. QED
    BY <2>4, <2>7 DEF SlotsAre
<1>8. TypeOK'
  <2>1. handle' \in [Reads -> {"none", "open", "closed", "lost"}]
    BY <1>2 DEF IInv, TypeOK, HandleClosed
  <2>2. outcome' \in [Reads -> Outcomes] /\ pc' \in [Reads -> Steps]
    BY <1>2, <1>4 DEF IInv, TypeOK, Steps
  <2>3. QED
    BY <1>1, <1>2, <1>5, <1>7, <2>1, <2>2 DEF IInv, TypeOK, host
<1>9. ReadIs(r)'
  BY <1>1, <1>3, <1>4, <1>5 DEF IInv, ReadIs, HandleClosed
<1>10. Others(r)
  BY <1>1, <1>3 DEF Others
<1>11. QED
  BY <1>1, <1>5, <1>6, <1>7, <1>8, <1>9, <1>10, OneRead

\* A step of nobody's read.
LEMMA NoRead ==
  ASSUME IInv, TypeOK', UNCHANGED <<pc, locals, handle, reserved, hasSlot, outcome, readBytes, activeReads>>,
         stopped # {} => stopped' # {},
         "cancelled" \in stopped' => verdict' # "none"
  PROVE  IInv'
<1>1. ASSUME NEW q \in Reads PROVE ReadIs(q)'
  BY <1>1, OthersStay DEF IInv, locals
<1>2. Spent' = Spent
  BY DEF Spent, Holds, Failed
<1>3. BudgetIs'
  BY <1>2 DEF IInv, BudgetIs
<1>4. QED
  BY <1>1, <1>3, SlotsStay DEF IInv

\* A change of a file on disk touches no reader.
LEMMA EditKeeps ==
  ASSUME IInv, Edit
  PROVE  IInv'
<1>1. Cardinality(Files) \in Nat
  BY ScriptAssumption, FS_CardinalityType
<1>2. /\ edits < MaxEdits /\ edits' = edits + 1 /\ edits \in Nat /\ MaxEdits \in Nat
      /\ Cardinality(Files) + edits' \in Inodes
  BY <1>1, BoundAssumption DEF Edit, IInv, TypeOK, Inodes
<1>3. \A n \in 0..MaxSize : n \in Nat
  BY BoundAssumption
<1>4. /\ at \in [Files -> Inodes] /\ size \in [Inodes -> Nat] /\ rootSame \in BOOLEAN
  BY DEF IInv, TypeOK
<1>5. at' \in [Files -> Inodes] /\ size' \in [Inodes -> Nat] /\ rootSame' \in BOOLEAN
  <2>1. CASE /\ \E f \in Files, n \in 0..MaxSize : size' = [size EXCEPT ![at[f]] = n]
             /\ UNCHANGED <<at, rootSame>>
    BY <1>3, <1>4, <2>1
  <2>2. CASE /\ \E f \in Files, n \in 0..MaxSize :
                  /\ at' = [at EXCEPT ![f] = Cardinality(Files) + edits']
                  /\ size' = [size EXCEPT ![Cardinality(Files) + edits'] = n]
             /\ UNCHANGED rootSame
    BY <1>2, <1>3, <1>4, <2>2
  <2>3. CASE rootSame' = FALSE /\ UNCHANGED <<at, size>>
    BY <1>4, <2>3
  <2>4. QED
    BY <2>1, <2>2, <2>3 DEF Edit
<1>6. TypeOK'
  BY <1>2, <1>5 DEF Edit, IInv, TypeOK, locals
<1>7. QED
  BY <1>6, NoRead DEF Edit, IInv

\* Each step of a reader or of the disk keeps the invariant.
LEMMA IInvStep == IInv /\ [Next]_vars => IInv'
<1> SUFFICES ASSUME IInv, [Next]_vars PROVE IInv'
  OBVIOUS
<1>1. CASE UNCHANGED vars
  BY <1>1, NoRead DEF IInv, TypeOK, vars, locals, host
<1>2. ASSUME NEW r \in Reads, StartRead(r) PROVE IInv'
  BY <1>2, StartReadKeeps
<1>3. ASSUME NEW r \in Reads, LstatReturns(r) PROVE IInv'
  BY <1>3, LstatReturnsKeeps
<1>4. ASSUME NEW r \in Reads, OpenReturns(r) PROVE IInv'
  BY <1>4, OpenReturnsKeeps
<1>5. ASSUME NEW r \in Reads, FstatReturns(r) PROVE IInv'
  BY <1>5, FstatReturnsKeeps
<1>6. ASSUME NEW r \in Reads, ChunkReturns(r) PROVE IInv'
  BY <1>6, ChunkReturnsKeeps
<1>7. ASSUME NEW r \in Reads, ProbeReturns(r) PROVE IInv'
  BY <1>7, ProbeReturnsKeeps
<1>8. ASSUME NEW r \in Reads, CloseReturns(r) PROVE IInv'
  BY <1>8, CloseReturnsKeeps
<1>9. CASE ScriptEnds
  <2>1. TypeOK' /\ verdict' # "none"
    BY <1>9 DEF ScriptEnds, IInv, TypeOK, Verdicts, locals, host
  <2>2. QED
    BY <1>9, <2>1, NoRead DEF ScriptEnds
<1>10. CASE Cancel
  <2>1. TypeOK' /\ verdict' # "none"
    BY <1>10 DEF Cancel, IInv, TypeOK, Verdicts, Stops, locals, host
  <2>2. QED
    BY <1>10, <2>1, NoRead DEF Cancel
<1>11. CASE Edit
  BY <1>11, EditKeeps
<1>12. QED
  BY <1>1, <1>2, <1>3, <1>4, <1>5, <1>6, <1>7, <1>8, <1>9, <1>10, <1>11 DEF Next

\* Nothing is spent before the first read.
LEMMA InitKeeps == Init => IInv
<1> SUFFICES ASSUME Init PROVE IInv
  OBVIOUS
<1>1. 1..Cardinality(Files) \subseteq Inodes
  BY ScriptAssumption, FS_CardinalityType, BoundAssumption DEF Inodes
<1>2. \A n \in 0..MaxSize : n \in Nat
  BY BoundAssumption
<1>3. at \in [Files -> Inodes] /\ size \in [Inodes -> Nat]
  BY <1>1, <1>2 DEF Init
<1>4. TypeOK
  BY <1>3, BoundAssumption DEF Init, TypeOK, Steps, Outcomes, Stops, Verdicts
<1>5. BudgetIs
  <2>1. \A r \in Reads : 1..Holds(r) = {}
    BY DEF Init, Holds, Failed
  <2>2. Spent = {}
    BY <2>1 DEF Spent
  <2>3. QED
    BY <2>2, FS_EmptySet DEF BudgetIs, Init
<1>6. SlotsAre
  <2>1. Slots = {}
    BY DEF Init, Slots
  <2>2. QED
    BY <2>1, FS_EmptySet, BoundAssumption DEF SlotsAre, Init
<1>7. ASSUME NEW r \in Reads PROVE ReadIs(r)
  BY DEF Init, ReadIs
<1>8. QED
  BY <1>4, <1>5, <1>6, <1>7 DEF IInv, Init

-----------------------------------------------------------------------------
(* The results.                                                            *)
\* The invariant that relates every read to its step and the shared budget
\* and slots to all of them.
THEOREM Invariance == Spec => []IInv
  BY InitKeeps, IInvStep, PTL DEF Spec

\* The reads of a run keep to its budget, and none leaves a charge behind
\* while the request is open, for any number of reads and any edits.
THEOREM BudgetAccounted == Spec => []BudgetIsAccounted
<1>1. IInv => BudgetIsAccounted
  BY DEF IInv, TypeOK, BudgetIs, BudgetIsAccounted
<1>2. QED
  BY <1>1, Invariance, PTL

\* No read settles with a slot or an open handle, but for the handle of an
\* open that returned to a stopped request.
THEOREM ResourcesReturned == Spec => []ResourcesAreReturned
<1>1. IInv => ResourcesAreReturned
  BY DEF IInv, SlotsAre, Slots, ReadIs, ResourcesAreReturned, Settled
<1>2. QED
  BY <1>1, Invariance, PTL

\* Content a command gets is whole and paid for, whatever became of the file.
THEOREM ContentWhole == Spec => []ContentIsWhole
<1>1. IInv => ContentIsWhole
  BY DEF IInv, ReadIs, ContentIsWhole
<1>2. QED
  BY <1>1, Invariance, PTL

\* A run is not called a success over a read that was refused.
THEOREM RefusalReaches == Spec => RefusalReachesVerdict
<1> DEFINE A == verdict = "none" /\ verdict' = "success" =>
                  \A r \in Reads : Settled(r) => outcome[r] \in {"content", "error"}
<1>1. IInv /\ [Next]_vars => [A]_vars
  <2> SUFFICES ASSUME IInv, Next, verdict = "none", verdict' = "success", NEW r \in Reads, Settled(r)
               PROVE  outcome[r] \in {"content", "error"}
    OBVIOUS
  <2>1. ScriptEnds
    BY DEF Next, StartRead, LstatReturns, OpenReturns, FstatReturns, ChunkReturns, ProbeReturns,
           CloseReturns, Cancel, Edit
  <2>2. stopped = {}
    BY <2>1 DEF ScriptEnds, IInv, TypeOK, Stops
  <2>3. QED
    BY <2>2 DEF Settled, IInv, TypeOK, ReadIs, Outcomes
<1>2. QED
  BY <1>1, Invariance, PTL DEF Spec, RefusalReachesVerdict
=============================================================================
