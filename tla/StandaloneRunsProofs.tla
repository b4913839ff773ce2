------------------------- MODULE StandaloneRunsProofs -------------------------
(***************************************************************************)
(* The programs that run alone: an inductive invariant of each, for every  *)
(* value of the constants, and at the end that each of them is kept by the *)
(* composition, which runs one and leaves the state of the others alone;   *)
(* and the fork and pipe programs, which are checked in a run of their own.*)
(***************************************************************************)
EXTENDS StandaloneRuns, ForkPipes, FiniteSetTheorems, WellFoundedInduction,
        TLAPS

------------------------------------------------------------------------------
(* malloc.c, memleak.c, allocator_throughput.c and fragment.c: as long as  *)
(* malloc has not failed no program frees what it does not hold, and what is*)
(* left at the end is what the program means to leave.                     *)

\* The entries of the array from a to b point to different live blocks.
Distinct(a, b) ==
  /\ \A k \in a..b : ptrs[k] \in live
  /\ \A k, l \in a..b : ptrs[k] = ptrs[l] => k = l

\* Besides its own block the array holds all that is live.
Held(a, b) == live \subseteq {table} \union {ptrs[k] : k \in a..b}

\* Nothing is live before the first malloc.
TableInv ==
  main = "table" =>
    /\ program = "allocator_throughput" /\ i = 0
    /\ live = {} /\ cut = NumAllocs /\ failed_allocs = 0

\* Each round adds a block.
AllocInv ==
  main = "alloc" =>
    /\ cut = NumAllocs /\ failed_allocs = 0
    /\ program # "allocator_throughput" => Cardinality(live) = i
    /\ program # "memleak" => Distinct(0, i - 1) /\ Held(0, i - 1)

\* malloc.c and allocator_throughput.c have yet to free what they hold.
FreeInv ==
  main = "free" =>
    /\ program # "memleak"
    /\ failed_allocs = 0
    /\ program # "fragment" =>
         /\ Held(i, NumAllocs - 1)
         /\ cut = NumAllocs => Distinct(i, NumAllocs - 1)

\* In fragment.c an entry was drawn, or points to a live block of its own.
DrawInv ==
  main = "free" /\ program = "fragment" /\ cut = NumAllocs =>
    /\ \A k \in Index : ptrs[k] \in live \union {NULL}
    /\ \A k, l \in Index : ptrs[k] = ptrs[l] => k = l \/ ptrs[k] = NULL
    /\ Cardinality(live) = NumAllocs - Cardinality(Drawn)
    /\ Cardinality(Drawn) <= i /\ i < Half
    /\ NumAllocs <= capacity

\* A second malloc fails only when as many have worked as blocks were freed.
AgainInv ==
  main = "again" =>
    /\ program = "fragment"
    /\ cut = NumAllocs =>
         /\ Cardinality(live) = NumAllocs - Cardinality(Drawn)
                                  + i - failed_allocs
         /\ Cardinality(Drawn) <= Half /\ i < Half
         /\ failed_allocs > 0 => failed_allocs + Cardinality(Drawn) <= i
         /\ NumAllocs <= capacity

MemReportInv ==
  main = "report" =>
    program \in {"malloc", "allocator_throughput"} /\ live \subseteq {table}

PhaseInv ==
  TableInv /\ AllocInv /\ FreeInv /\ DrawInv /\ AgainInv /\ MemReportInv

MemIInv == MemTypeOK /\ PhaseInv /\ OnlyLiveFreed /\ HeapAccounts

LEMMA MemConstants ==
  /\ NumAllocs \in Nat /\ NumAllocs >= 2
  /\ Half \in Nat /\ Half >= 1 /\ Half <= NumAllocs
  /\ MaxBlocks \in Nat
BY AllocsAssumption, BlocksAssumption DEF Half

LEMMA LiveFinite ==
  ASSUME NEW c \in Nat, NEW S \in SUBSET (1..c)
  PROVE  /\ IsFiniteSet(S) /\ Cardinality(S) \in Nat /\ Cardinality(S) <= c
         /\ Cardinality(1..c) = c
<1>1. IsFiniteSet(1..c) /\ Cardinality(1..c) = IF 1 > c THEN 0 ELSE c - 1 + 1
  BY FS_Interval
<1>2. Cardinality(1..c) = c
  BY <1>1
<1>3. IsFiniteSet(S) /\ Cardinality(S) <= Cardinality(1..c)
  BY <1>1, FS_Subset
<1>4. Cardinality(S) \in Nat
  BY <1>3, FS_CardinalityType
<1> QED BY <1>2, <1>3, <1>4

LEMMA DrawnFinite ==
  ASSUME NEW f
  PROVE  LET D == {k \in Index : f[k] = NULL}
         IN  IsFiniteSet(D) /\ Cardinality(D) \in Nat
<1> DEFINE D == {k \in Index : f[k] = NULL}
<1>1. IsFiniteSet(Index)
  BY MemConstants, FS_Interval DEF Index
<1>2. D \subseteq Index
  OBVIOUS
<1>3. IsFiniteSet(D)
  BY <1>1, <1>2, FS_Subset
<1> QED BY <1>3, FS_CardinalityType

LEMMA MemInitInv == MemInit => MemIInv
<1> SUFFICES ASSUME MemInit PROVE MemIInv
  OBVIOUS
<1> USE MemConstants
<1>1. MemTypeOK
  BY DEF MemInit, MemTypeOK, MemoryPrograms, Index, Blocks, NULL, Wild
<1>2. Cardinality(live) = 0
  BY FS_EmptySet DEF MemInit
<1>3. PhaseInv
  BY <1>2 DEF MemInit, MemoryPrograms, PhaseInv, TableInv, AllocInv, FreeInv,
     DrawInv, AgainInv, MemReportInv, Distinct, Held
<1> QED BY <1>1, <1>3 DEF MemIInv, OnlyLiveFreed, HeapAccounts, MemInit

LEMMA TableStep == MemIInv /\ MallocTable => MemIInv'
<1> SUFFICES ASSUME MemIInv, MallocTable PROVE MemIInv'
  OBVIOUS
<1> USE MemConstants
<1>1. MemTypeOK'
  BY DEF MemIInv, MallocTable, MemTypeOK, Unused, Blocks, Ended, NULL
<1>2. PhaseInv'
  <2>1. main' \in {"alloc", "failed"} /\ program = "allocator_throughput"
        /\ i' = 0 /\ cut' = NumAllocs /\ failed_allocs' = 0
    BY DEF MemIInv, PhaseInv, TableInv, MallocTable
  <2>2. main' = "alloc" => live' = {table'}
    BY DEF MemIInv, PhaseInv, TableInv, MallocTable
  <2> QED BY <2>1, <2>2 DEF MallocTable, PhaseInv, TableInv, AllocInv, FreeInv,
             DrawInv, AgainInv, MemReportInv, Distinct, Held
<1> QED BY <1>1, <1>2 DEF MallocTable, MemIInv, OnlyLiveFreed, HeapAccounts

\* One more block, one more round.
LEMMA MallocStep == MemIInv /\ Malloc => MemIInv'
<1> SUFFICES ASSUME MemIInv, Malloc PROVE MemIInv'
  OBVIOUS
<1> USE MemConstants
<1>1. MemTypeOK
  BY DEF MemIInv
<1>2. PICK b \in Unused :
        /\ live' = live \union {b}
        /\ ptrs' = IF program = "memleak" THEN ptrs ELSE [ptrs EXCEPT ![i] = b]
  BY DEF Malloc
<1>3. b \in Blocks /\ b \notin live /\ b # NULL
  BY <1>1 DEF Unused, Blocks, NULL, MemTypeOK
<1>4. MemTypeOK'
  BY <1>1, <1>2, <1>3 DEF Malloc, EndRound, MemTypeOK, Index, Blocks, Ended
<1>5. /\ main = "alloc" /\ cut = NumAllocs /\ failed_allocs = 0
      /\ program # "allocator_throughput" => Cardinality(live) = i
      /\ program # "memleak" => Distinct(0, i - 1) /\ Held(0, i - 1)
  BY DEF MemIInv, PhaseInv, AllocInv, Malloc
<1>6. IsFiniteSet(live)
  BY <1>1, LiveFinite DEF MemTypeOK, Blocks
<1>7. program # "allocator_throughput" => Cardinality(live') = i + 1
  BY <1>2, <1>3, <1>5, <1>6, FS_AddElement
<1>8. i \in Nat /\ i < NumAllocs /\ i \in Index
  BY <1>1 DEF MemTypeOK, Index
<1>9. program # "memleak" =>
        /\ \A k \in 0..i : ptrs'[k] \in live'
        /\ \A k, l \in 0..i : ptrs'[k] = ptrs'[l] => k = l
        /\ live' \subseteq {table'} \union {ptrs'[k] : k \in 0..i}
  <2> SUFFICES ASSUME program # "memleak"
               PROVE  /\ \A k \in 0..i : ptrs'[k] \in live'
                      /\ \A k, l \in 0..i : ptrs'[k] = ptrs'[l] => k = l
                      /\ live' \subseteq {table'} \union {ptrs'[k] : k \in 0..i}
    OBVIOUS
  <2>1. ptrs'[i] = b /\ \A k \in 0..(i - 1) : ptrs'[k] = ptrs[k] /\ ptrs[k] \in live
    BY <1>1, <1>2, <1>5, <1>8 DEF MemTypeOK, Index, Distinct
  <2>2. \A k \in 0..i : k = i \/ k \in 0..(i - 1)
    BY <1>8
  <2>3. \A k, l \in 0..(i - 1) : ptrs[k] = ptrs[l] => k = l
    BY <1>5 DEF Distinct
  <2>4. \A k \in 0..i : ptrs'[k] \in live'
    BY <1>2, <2>1, <2>2
  <2>5. \A k, l \in 0..i : ptrs'[k] = ptrs'[l] => k = l
    BY <1>3, <2>1, <2>2, <2>3
  <2>6. ASSUME NEW x \in live' PROVE x \in {table'} \union {ptrs'[k] : k \in 0..i}
    <3>1. CASE x = b
      BY <3>1, <2>1, <1>8
    <3>2. CASE x \in live
      <4>1. x = table \/ \E k \in 0..(i - 1) : x = ptrs[k]
        BY <3>2, <1>5 DEF Held
      <4>2. table' = table
        BY DEF Malloc
      <4>3. \A k \in 0..(i - 1) : k \in 0..i
        BY <1>8
      <4> QED BY <4>1, <4>2, <4>3, <2>1
    <3> QED BY <3>1, <3>2, <1>2
  <2> QED BY <2>4, <2>5, <2>6
<1>10. CASE i + 1 < NumAllocs
  <2>1. main' = "alloc" /\ i' = i + 1 /\ cut' = NumAllocs /\ failed_allocs' = 0
        /\ program' = program
    BY <1>5, <1>10 DEF Malloc, EndRound
  <2>2. i' - 1 = i
    BY <2>1, <1>8
  <2>3. AllocInv'
    BY <2>1, <2>2, <1>7, <1>9 DEF AllocInv, Distinct, Held
  <2>4. PhaseInv'
    BY <2>1, <2>3 DEF PhaseInv, TableInv, FreeInv, DrawInv, AgainInv, MemReportInv
  <2> QED BY <2>1, <2>4, <1>4 DEF MemIInv, OnlyLiveFreed, HeapAccounts
<1>11. CASE ~(i + 1 < NumAllocs) /\ program = "memleak"
  <2>1. main' = "done" /\ program' = "memleak"
    BY <1>11 DEF Malloc, EndRound
  <2>2. Cardinality(live') = NumAllocs
    BY <1>7, <1>8, <1>11
  <2>3. PhaseInv'
    BY <2>1 DEF PhaseInv, TableInv, AllocInv, FreeInv, DrawInv, AgainInv,
       MemReportInv
  <2> QED BY <2>1, <2>2, <2>3, <1>4 DEF MemIInv, OnlyLiveFreed, HeapAccounts
<1>12. CASE ~(i + 1 < NumAllocs) /\ program # "memleak"
  <2>1. main' = "free" /\ i' = 0 /\ cut' = NumAllocs /\ failed_allocs' = 0
        /\ program' = program /\ capacity' = capacity
    BY <1>5, <1>12 DEF Malloc, EndRound
  <2>2. i = NumAllocs - 1 /\ 0..i = Index
    BY <1>8, <1>12 DEF Index
  <2>3. FreeInv'
    BY <2>1, <2>2, <1>9, <1>12 DEF FreeInv, Distinct, Held
  <2>4. DrawInv'
    <3> SUFFICES ASSUME program = "fragment" PROVE DrawInv'
      BY <2>1 DEF DrawInv
    <3>1. \A k \in Index : ptrs'[k] \in live' /\ ptrs'[k] # NULL
      BY <1>4, <1>9, <1>12, <2>2 DEF MemTypeOK, Blocks, NULL
    <3>2. Drawn' = {}
      BY <3>1 DEF Drawn
    <3>3. Cardinality(live') = NumAllocs
      BY <1>7, <2>2
    <3>4. NumAllocs <= capacity'
      BY <3>3, <1>4, LiveFinite DEF MemTypeOK, Blocks
    <3> QED BY <1>9, <1>12, <2>1, <2>2, <3>1, <3>2, <3>3, <3>4, FS_EmptySet
            DEF DrawInv
  <2>5. PhaseInv'
    BY <2>1, <2>3, <2>4 DEF PhaseInv, TableInv, AllocInv, AgainInv, MemReportInv
  <2> QED BY <2>1, <2>5, <1>4 DEF MemIInv, OnlyLiveFreed, HeapAccounts
<1> QED BY <1>10, <1>11, <1>12

\* malloc fails: two of the programs go on to free with the array as it is.
LEMMA FailStep == MemIInv /\ MallocFails => MemIInv'
<1> SUFFICES ASSUME MemIInv, MallocFails PROVE MemIInv'
  OBVIOUS
<1> USE MemConstants
<1>1. MemTypeOK
  BY DEF MemIInv
<1>2. i \in Nat /\ i < NumAllocs /\ i \in Index
  BY <1>1 DEF MemTypeOK, Index
<1>3. MemTypeOK'
  BY <1>1, <1>2 DEF MallocFails, MemTypeOK, Index, Blocks, Ended
<1>4. failed_allocs = 0 /\ (program # "memleak" => Held(0, i - 1))
  BY DEF MemIInv, PhaseInv, AllocInv, MallocFails
<1>5. CASE program \notin {"fragment", "malloc"}
  <2>1. main' = "failed"
    BY <1>5 DEF MallocFails
  <2>2. PhaseInv'
    BY <2>1 DEF PhaseInv, TableInv, AllocInv, FreeInv, DrawInv, AgainInv,
       MemReportInv
  <2> QED BY <2>1, <2>2, <1>3 DEF MemIInv, OnlyLiveFreed, HeapAccounts
<1>6. CASE program \in {"fragment", "malloc"}
  <2>1. main' = "free" /\ i' = 0 /\ cut' < NumAllocs /\ failed_allocs' = 0
        /\ program' = program /\ live' = live /\ table' = table
        /\ ptrs' = [ptrs EXCEPT ![i] = NULL]
    BY <1>2, <1>4, <1>6 DEF MallocFails
  <2>2. \A k \in 0..(i - 1) : k \in 0..(NumAllocs - 1) /\ ptrs'[k] = ptrs[k]
    BY <2>1, <1>1, <1>2 DEF MemTypeOK, Index
  <2>3. Held(0, NumAllocs - 1)'
    BY <2>1, <2>2, <1>4, <1>6 DEF Held
  <2>4. FreeInv'
    BY <2>1, <2>3, <1>6 DEF FreeInv
  <2>5. PhaseInv'
    BY <2>1, <2>4 DEF PhaseInv, TableInv, AllocInv, DrawInv, AgainInv, MemReportInv
  <2> QED BY <2>1, <2>5, <1>3 DEF MemIInv, OnlyLiveFreed, HeapAccounts
<1> QED BY <1>5, <1>6
\* malloc.c and allocator_throughput.c free the next entry.
LEMMA FreeNextStep == MemIInv /\ FreeEntry /\ program # "fragment" => MemIInv'
<1> SUFFICES ASSUME MemIInv, FreeEntry, program # "fragment" PROVE MemIInv'
  OBVIOUS
<1> USE MemConstants
<1>1. MemTypeOK /\ i \in Nat /\ i < NumAllocs
  BY DEF MemIInv, MemTypeOK, Index
<1>2. /\ main = "free" /\ program # "memleak" /\ failed_allocs = 0
      /\ Held(i, NumAllocs - 1)
      /\ cut = NumAllocs => Distinct(i, NumAllocs - 1)
  BY DEF MemIInv, PhaseInv, FreeInv, FreeEntry
<1>3. live' = live \ {ptrs[i]} /\ ptrs' = ptrs
  BY DEF FreeEntry, Freed
<1>4. MemTypeOK'
  <2>1. i' \in Index /\ main' \in {"free", "report"}
    BY <1>1, <1>2 DEF FreeEntry, EndRound, Index
  <2>2. UNCHANGED <<program, capacity, ptrs, table, cut, failed_allocs>>
    BY <1>3 DEF FreeEntry
  <2>3. live' \subseteq Blocks
    BY <1>1, <1>3 DEF MemTypeOK
  <2> QED BY <2>1, <2>2, <2>3, <1>1 DEF MemTypeOK, Blocks
<1>5. table' = table /\ program' = program /\ cut' = cut /\ failed_allocs' = 0
  BY <1>2 DEF FreeEntry
<1>6. \A x \in live' : x = table \/ \E k \in (i + 1)..(NumAllocs - 1) : x = ptrs[k]
  <2> SUFFICES ASSUME NEW x \in live', x # table
               PROVE  \E k \in (i + 1)..(NumAllocs - 1) : x = ptrs[k]
    OBVIOUS
  <2>1. PICK k \in i..(NumAllocs - 1) : x = ptrs[k]
    BY <1>2, <1>3 DEF Held
  <2>2. k # i
    BY <1>3, <2>1
  <2>3. k \in (i + 1)..(NumAllocs - 1)
    BY <1>1, <2>2
  <2> QED BY <2>1, <2>3
<1>7. CASE i + 1 < NumAllocs
  <2>1. main' = "free" /\ i' = i + 1
    BY <1>2, <1>7 DEF FreeEntry, EndRound
  <2>2. Held(i, NumAllocs - 1)'
    BY <2>1, <1>3, <1>5, <1>6 DEF Held
  <2>3. \A k \in (i + 1)..(NumAllocs - 1) : k \in i..(NumAllocs - 1) /\ k # i
    BY <1>1
  <2>4. i \in i..(NumAllocs - 1)
    BY <1>1
  <2>5. cut = NumAllocs => Distinct(i, NumAllocs - 1)'
    BY <2>1, <2>3, <2>4, <1>2, <1>3 DEF Distinct
  <2>6. PhaseInv'
    BY <2>1, <2>2, <2>5, <1>2, <1>5 DEF PhaseInv, TableInv, AllocInv, FreeInv,
       DrawInv, AgainInv, MemReportInv
  <2> QED BY <2>1, <2>6, <1>4 DEF MemIInv, OnlyLiveFreed, HeapAccounts
<1>8. CASE ~(i + 1 < NumAllocs)
  <2>1. main' = "report"
    BY <1>2, <1>8 DEF FreeEntry, EndRound
  <2>2. live' \subseteq {table}
    BY <1>1, <1>6, <1>8
  <2>3. program \in {"malloc", "allocator_throughput"}
    BY <1>1, <1>2 DEF MemTypeOK, MemoryPrograms
  <2>4. PhaseInv'
    BY <2>1, <2>2, <2>3, <1>5 DEF PhaseInv, TableInv, AllocInv, FreeInv,
       DrawInv, AgainInv, MemReportInv
  <2> QED BY <2>1, <2>4, <1>4 DEF MemIInv, OnlyLiveFreed, HeapAccounts
<1> QED BY <1>7, <1>8

\* fragment.c frees a random entry, which may have been drawn before.
LEMMA FreeDrawnStep == MemIInv /\ FreeEntry /\ program = "fragment" => MemIInv'
<1> SUFFICES ASSUME MemIInv, FreeEntry, program = "fragment" PROVE MemIInv'
  OBVIOUS
<1> USE MemConstants
<1>1. MemTypeOK /\ i \in Nat
  BY DEF MemIInv, MemTypeOK, Index
<1>2. main = "free" /\ failed_allocs = 0
  BY DEF MemIInv, PhaseInv, FreeInv, FreeEntry
<1>3. PICK index \in Index :
        /\ live' = live \ {ptrs[index]}
        /\ ptrs' = [ptrs EXCEPT ![index] = NULL]
  BY DEF FreeEntry, Freed
<1>4. /\ ptrs' \in [Index -> Blocks \union {NULL, Wild}]
      /\ live' \in SUBSET (1..capacity) /\ live \in SUBSET (1..capacity)
      /\ capacity \in Nat
  BY <1>1, <1>3 DEF MemTypeOK, Blocks
<1>5. /\ program' = program /\ cut' = cut /\ failed_allocs' = 0
      /\ capacity' = capacity /\ table' = table
      /\ IF i + 1 < Half THEN main' = "free" /\ i' = i + 1
                         ELSE main' = "again" /\ i' = 0
  BY <1>2 DEF FreeEntry, EndRound
<1>6. MemTypeOK'
  <2>1. i' \in Index
    BY <1>1, <1>5 DEF Index
  <2>2. main' \in {"free", "again"}
    BY <1>5
  <2> QED BY <2>1, <2>2, <1>1, <1>4, <1>5 DEF MemTypeOK, Blocks
<1>7. CASE cut # NumAllocs
  <2>1. PhaseInv'
    BY <1>5, <1>7 DEF PhaseInv, TableInv, AllocInv, FreeInv, DrawInv, AgainInv,
       MemReportInv
  <2> QED BY <2>1, <1>5, <1>6 DEF MemIInv, OnlyLiveFreed, HeapAccounts
<1>8. CASE cut = NumAllocs
  <2>1. /\ \A k \in Index : ptrs[k] \in live \union {NULL}
        /\ \A k, l \in Index : ptrs[k] = ptrs[l] => k = l \/ ptrs[k] = NULL
        /\ Cardinality(live) = NumAllocs - Cardinality(Drawn)
        /\ Cardinality(Drawn) <= i /\ i < Half
        /\ NumAllocs <= capacity
    BY <1>2, <1>8 DEF MemIInv, PhaseInv, DrawInv
  <2>2. /\ ptrs'[index] = NULL
        /\ \A k \in Index : k # index => ptrs'[k] = ptrs[k]
    BY <1>1, <1>3 DEF MemTypeOK
  <2>3. \A k \in Index : ptrs'[k] \in live' \union {NULL}
    BY <2>1, <2>2, <1>3
  <2>4. \A k, l \in Index : ptrs'[k] = ptrs'[l] => k = l \/ ptrs'[k] = NULL
    BY <2>1, <2>2
  <2>5. IsFiniteSet(live) /\ IsFiniteSet(Drawn) /\ Cardinality(Drawn) \in Nat
    BY <1>4, LiveFinite, DrawnFinite DEF Drawn
  <2>6. Drawn' = Drawn \union {index}
    BY <2>2 DEF Drawn
  <2>7. /\ Cardinality(live') = NumAllocs - Cardinality(Drawn')
        /\ Cardinality(Drawn') <= i + 1 /\ Cardinality(Drawn') \in Nat
    <3>1. CASE ptrs[index] = NULL
      <4>1. NULL \notin live
        BY <1>4 DEF NULL
      <4>2. live' = live /\ Drawn' = Drawn
        BY <3>1, <4>1, <2>6, <1>3 DEF Drawn
      <4> QED BY <4>2, <2>1, <2>5, <1>1
    <3>2. CASE ptrs[index] # NULL
      <4>1. ptrs[index] \in live /\ index \notin Drawn
        BY <3>2, <2>1 DEF Drawn
      <4>2. Cardinality(live') = Cardinality(live) - 1
        BY <4>1, <2>5, <1>3, FS_RemoveElement
      <4>3. Cardinality(Drawn') = Cardinality(Drawn) + 1
        BY <4>1, <2>5, <2>6, FS_AddElement
      <4> QED BY <4>2, <4>3, <2>1, <2>5, <1>1
    <3> QED BY <3>1, <3>2
  <2>8. CASE i + 1 < Half
    <3>1. main' = "free" /\ i' = i + 1
      BY <2>8, <1>5
    <3>2. DrawInv'
      BY <3>1, <2>1, <2>3, <2>4, <2>7, <2>8, <1>5 DEF DrawInv
    <3>3. PhaseInv'
      BY <3>1, <3>2, <1>5 DEF PhaseInv, TableInv, AllocInv, FreeInv, AgainInv,
         MemReportInv
    <3> QED BY <3>1, <3>3, <1>6 DEF MemIInv, OnlyLiveFreed, HeapAccounts
  <2>9. CASE ~(i + 1 < Half)
    <3>1. main' = "again" /\ i' = 0 /\ i + 1 = Half
      BY <2>1, <2>9, <1>1, <1>5
    <3>2. Cardinality(live') = NumAllocs - Cardinality(Drawn') + i' - failed_allocs'
      BY <3>1, <2>7, <1>5
    <3>3. AgainInv'
      BY <3>1, <3>2, <2>1, <2>7, <1>5 DEF AgainInv
    <3>4. PhaseInv'
      BY <3>1, <3>3 DEF PhaseInv, TableInv, AllocInv, FreeInv, DrawInv, MemReportInv
    <3> QED BY <3>1, <3>4, <1>6 DEF MemIInv, OnlyLiveFreed, HeapAccounts
  <2> QED BY <2>8, <2>9
<1> QED BY <1>7, <1>8

\* An entry that cannot be freed was never written.
LEMMA InvalidStep == MemIInv /\ FreeInvalid => MemIInv'
<1> SUFFICES ASSUME MemIInv, FreeInvalid PROVE MemIInv'
  OBVIOUS
<1> USE MemConstants
<1>1. MemTypeOK /\ i \in Nat /\ i < NumAllocs
  BY DEF MemIInv, MemTypeOK, Index
<1>2. main = "free" /\ main' = "aborted" /\ UNCHANGED <<program, i, faults, memVars>>
  BY DEF FreeInvalid
<1>3. cut # NumAllocs
  <2> SUFFICES ASSUME cut = NumAllocs PROVE FALSE
    OBVIOUS
  <2>1. PICK index \in Freed : ptrs[index] \notin live \union {NULL}
    BY DEF FreeInvalid
  <2>2. CASE program = "fragment"
    BY <2>1, <2>2, <1>2 DEF Freed, MemIInv, PhaseInv, DrawInv
  <2>3. CASE program # "fragment"
    <3>1. i \in i..(NumAllocs - 1)
      BY <1>1
    <3> QED BY <2>1, <2>3, <3>1, <1>2 DEF Freed, MemIInv, PhaseInv, FreeInv, Distinct
  <2> QED BY <2>2, <2>3
<1>4. cut < NumAllocs
  BY <1>1, <1>3 DEF MemTypeOK
<1>5. MemTypeOK'
  BY <1>1, <1>2 DEF MemTypeOK, memVars, Blocks, Ended
<1>6. PhaseInv'
  BY <1>2 DEF PhaseInv, TableInv, AllocInv, FreeInv, DrawInv, AgainInv, MemReportInv
<1> QED BY <1>2, <1>4, <1>5, <1>6 DEF MemIInv, OnlyLiveFreed, HeapAccounts, memVars

\* The second allocations of fragment.c.
LEMMA AgainStep == MemIInv /\ MallocAgain => MemIInv'
<1> SUFFICES ASSUME MemIInv, MallocAgain PROVE MemIInv'
  OBVIOUS
<1> USE MemConstants
<1>1. MemTypeOK /\ i \in Nat /\ failed_allocs \in Nat /\ capacity \in Nat
      /\ live \in SUBSET (1..capacity)
  BY DEF MemIInv, MemTypeOK, Index, Blocks
<1>2. main = "again" /\ program = "fragment"
  BY DEF MemIInv, PhaseInv, AgainInv, MallocAgain
<1>3. /\ UNCHANGED <<program, capacity, ptrs, table, cut>>
      /\ IF i + 1 < Half THEN main' = "again" /\ i' = i + 1
                         ELSE main' = "done" /\ i' = 0
  BY <1>2 DEF MallocAgain, EndRound
<1>4. MemTypeOK'
  <2>1. live' \subseteq Blocks /\ failed_allocs' \in Nat
    <3>1. (\E b \in Unused : live' = live \union {b}) \/ live' = live
      BY DEF MallocAgain
    <3>2. failed_allocs' = failed_allocs \/ failed_allocs' = failed_allocs + 1
      BY DEF MallocAgain
    <3>3. live' \subseteq Blocks
      BY <3>1, <1>1 DEF Unused, Blocks
    <3> QED BY <3>2, <3>3, <1>1
  <2>2. i' \in Index
    BY <1>1, <1>3 DEF Index
  <2>3. main' \in {"again", "done"}
    BY <1>3
  <2> QED BY <2>1, <2>2, <2>3, <1>1, <1>3 DEF MemTypeOK, Blocks, Ended
<1>5. CASE cut # NumAllocs
  <2>1. PhaseInv'
    BY <1>2, <1>3, <1>5 DEF PhaseInv, TableInv, AllocInv, FreeInv, DrawInv,
       AgainInv, MemReportInv
  <2> QED BY <2>1, <1>2, <1>3, <1>4, <1>5 DEF MemIInv, OnlyLiveFreed, HeapAccounts
<1>6. CASE cut = NumAllocs
  <2> DEFINE D == Cardinality(Drawn)
  <2>1. /\ Cardinality(live) = NumAllocs - D + i - failed_allocs
        /\ D <= Half /\ i < Half
        /\ failed_allocs > 0 => failed_allocs + D <= i
        /\ NumAllocs <= capacity
    BY <1>2, <1>6 DEF MemIInv, PhaseInv, AgainInv
  <2>2. IsFiniteSet(live) /\ D \in Nat /\ Cardinality(1..capacity) = capacity
    BY <1>1, LiveFinite, DrawnFinite DEF Drawn
  <2>3. Drawn' = Drawn
    BY <1>3 DEF Drawn
  <2>4. /\ Cardinality(live') = NumAllocs - D + (i + 1) - failed_allocs'
        /\ failed_allocs' > 0 => failed_allocs' + D <= i + 1
    <3>1. CASE Unused # {} /\ failed_allocs' = failed_allocs
                /\ \E b \in Unused : live' = live \union {b}
      <4>1. PICK b \in Unused : live' = live \union {b}
        BY <3>1
      <4>2. Cardinality(live') = Cardinality(live) + 1
        BY <4>1, <2>2, FS_AddElement DEF Unused
      <4> QED BY <4>2, <3>1, <2>1, <2>2, <1>1
    <3>2. CASE Unused = {} /\ failed_allocs' = failed_allocs + 1 /\ live' = live
      <4>1. live = 1..capacity
        BY <3>2, <1>1 DEF Unused, Blocks
      <4> QED BY <4>1, <3>2, <2>1, <2>2, <1>1
    <3> QED BY <3>1, <3>2 DEF MallocAgain
  <2>5. CASE i + 1 < Half
    <3>1. main' = "again" /\ i' = i + 1
      BY <2>5, <1>3
    <3>2. AgainInv'
      BY <3>1, <2>1, <2>3, <2>4, <2>5, <1>2, <1>3 DEF AgainInv
    <3>3. PhaseInv'
      BY <3>1, <3>2 DEF PhaseInv, TableInv, AllocInv, FreeInv, DrawInv, MemReportInv
    <3> QED BY <3>1, <3>3, <1>4 DEF MemIInv, OnlyLiveFreed, HeapAccounts
  <2>6. CASE ~(i + 1 < Half)
    <3>1. main' = "done" /\ i + 1 = Half
      BY <2>1, <2>6, <1>1, <1>3
    <3>2. failed_allocs' \in Nat
      BY <1>4 DEF MemTypeOK
    <3>3. failed_allocs' <= Half - D
      BY <3>1, <3>2, <2>1, <2>2, <2>4
    <3>4. Cardinality(live') = NumAllocs - D + Half - failed_allocs'
      BY <3>1, <2>4
    <3>5. HeapAccounts'
      BY <3>1, <3>3, <3>4, <2>3, <1>2, <1>3 DEF HeapAccounts
    <3>6. PhaseInv'
      BY <3>1 DEF PhaseInv, TableInv, AllocInv, FreeInv, DrawInv, AgainInv,
         MemReportInv
    <3> QED BY <3>1, <3>5, <3>6, <1>4 DEF MemIInv, OnlyLiveFreed
  <2> QED BY <2>5, <2>6
<1> QED BY <1>5, <1>6

LEMMA MemReportStep == MemIInv /\ MemReport => MemIInv'
<1> SUFFICES ASSUME MemIInv, MemReport PROVE MemIInv'
  OBVIOUS
<1>1. main' = "done" /\ live' = {} /\ program' = program
      /\ program \in {"malloc", "allocator_throughput"}
  BY DEF MemIInv, PhaseInv, MemReportInv, MemReport
<1>2. MemTypeOK'
  BY <1>1 DEF MemIInv, MemTypeOK, MemReport, Blocks, Ended
<1>3. PhaseInv'
  BY <1>1 DEF PhaseInv, TableInv, AllocInv, FreeInv, DrawInv, AgainInv, MemReportInv
<1> QED BY <1>1, <1>2, <1>3 DEF MemIInv, OnlyLiveFreed, HeapAccounts

LEMMA MemStepInv == MemIInv /\ [MemNext]_<<shared, memVars>> => MemIInv'
<1> SUFFICES ASSUME MemIInv, [MemNext]_<<shared, memVars>> PROVE MemIInv'
  OBVIOUS
<1>1. CASE UNCHANGED <<shared, memVars>>
  <2>1. MemTypeOK' /\ PhaseInv'
    BY <1>1 DEF MemIInv, MemTypeOK, PhaseInv, TableInv, AllocInv, FreeInv, DrawInv,
       AgainInv, MemReportInv, Distinct, Held, Drawn, Blocks, shared, memVars
  <2>2. OnlyLiveFreed' /\ HeapAccounts'
    BY <1>1 DEF MemIInv, OnlyLiveFreed, HeapAccounts, Drawn, shared, memVars
  <2> QED BY <2>1, <2>2 DEF MemIInv
<1> QED BY <1>1, TableStep, MallocStep, FailStep, FreeNextStep, FreeDrawnStep,
        InvalidStep, AgainStep, MemReportStep DEF MemNext

LEMMA MemAlways == MemSpec => []MemIInv
BY MemInitInv, MemStepInv, PTL DEF MemSpec

\* Every variable keeps its type, for any number of allocations and any heap.
THEOREM MemTypeCorrect == MemSpec => []MemTypeOK
<1>1. MemIInv => MemTypeOK
  BY DEF MemIInv
<1> QED BY MemAlways, <1>1, PTL

\* As long as malloc has not failed, free gets NULL or a block that is live:
\* no program frees twice or frees what it never got.
THEOREM NothingElseFreed == MemSpec => []OnlyLiveFreed
<1>1. MemIInv => OnlyLiveFreed
  BY DEF MemIInv
<1> QED BY MemAlways, <1>1, PTL

\* What is live at the end is what each program means to leave, and a second
\* allocation of fragment.c fails only for an index that was drawn again.
THEOREM HeapIsAccountedFor == MemSpec => []HeapAccounts
<1>1. MemIInv => HeapAccounts
  BY DEF MemIInv
<1> QED BY MemAlways, <1>1, PTL

------------------------------------------------------------------------------
(* file_meta.c and read.c: what earlier runs left does not show in a run,  *)
(* and only a failure that is ignored leaves a file.                       *)

MetaMain == {"cleanup", "mkdir", "create", "rename", "delete", "rmdir"}
ReadMain == {"open_write", "write", "open_read", "read", "remove"}

\* Each of the two programs has its own steps, only file_meta.c sweeps, and its
\* loops and the loop that writes begin with the first file.
FileControl ==
  /\ program = "file_meta" => main \notin ReadMain
  /\ program = "read" => main \notin MetaMain /\ ~swept
  /\ main \in {"cleanup", "mkdir", "open_write"} => i = 0

\* The names that the loops expect to find, and have not reached yet.
ToRename == {File(k) : k \in i..(NumFiles - 1)} \union {Renamed(k) : k \in Rounds}
ToDelete == {Renamed(k) : k \in i..(NumFiles - 1)}

\* After a sweep nothing is there but what this run created, and for each name
\* that a loop has left behind it has ignored a failure.
SweptInv ==
  swept =>
    /\ main = "mkdir" => files = {}
    /\ main = "rename" => Cardinality(files \ ToRename) <= ignored
    /\ main = "delete" => Cardinality(files \ ToDelete) <= ignored
    /\ main = "rmdir" => Cardinality(files) <= ignored

\* read.c: if it could open the file to write, the file has what it has written.
ReadInv ==
  /\ main = "open_write" => written = Absent
  /\ main = "write" => written # Absent /\ testfile = written /\ written <= i
  /\ main = "open_read" /\ written # Absent => testfile = written
  /\ main \in {"open_write", "write", "open_read"} => nread = 0

FileIInv == /\ FileTypeOK /\ IsFiniteSet(files) /\ FileControl /\ SweptInv
            /\ ReadInv /\ FromScratch /\ NothingLeft

LEMMA FileConstants == NumFiles \in Nat /\ NumFiles >= 1
                       /\ MaxRuns \in Nat /\ MaxRuns >= 1 /\ MaxFaults \in Nat
BY FilesAssumption, RunsAssumption, FaultsAssumption

\* No two of the names are equal.
LEMMA NamesDiffer ==
  /\ \A k, l \in Rounds : /\ File(k) = File(l) => k = l
                         /\ Renamed(k) = Renamed(l) => k = l
                         /\ File(k) # Renamed(l)
  /\ \A k \in Rounds : File(k) # Foreign /\ Renamed(k) # Foreign
BY DEF File, Renamed, Foreign

LEMMA FileInitInv == FileInit => FileIInv
<1> SUFFICES ASSUME FileInit PROVE FileIInv
  OBVIOUS
<1> USE FileConstants
<1>1. 0 \in Rounds
  BY DEF Rounds
<1>2. files \in {{}, {Foreign}, {File(0), Renamed(0)}} /\ (files # {} => dir)
  BY DEF FileInit
<1>3. files \subseteq Names
  BY <1>1, <1>2 DEF Names
<1>4. FileTypeOK
  <2>1. files \in IF dir THEN SUBSET Names ELSE {{}}
    BY <1>2, <1>3
  <2>2. main \in {"cleanup", "open_write"} /\ testfile \in Nat \union {Absent}
    BY DEF FileInit, StartOf
  <2>3. runs \in 1..MaxRuns /\ nread \in Nat /\ ignored \in Nat
    BY DEF FileInit
  <2> QED BY <1>1, <2>1, <2>2, <2>3 DEF FileInit, FileTypeOK
<1>5. IsFiniteSet(files)
  <2>1. IsFiniteSet({}) /\ IsFiniteSet({Foreign}) /\ IsFiniteSet({File(0)})
    BY FS_EmptySet, FS_Singleton
  <2>2. IsFiniteSet({File(0)} \union {Renamed(0)})
    BY <2>1, FS_AddElement
  <2>3. {File(0)} \union {Renamed(0)} = {File(0), Renamed(0)}
    OBVIOUS
  <2> QED BY <2>1, <2>2, <2>3, <1>2
<1>6. main \in {"cleanup", "open_write"} /\ ~swept /\ i = 0 /\ written = Absent
      /\ nread = 0 /\ main = StartOf(program)
  BY DEF FileInit, StartOf
<1>7. FileControl /\ SweptInv /\ ReadInv /\ FromScratch /\ NothingLeft
  BY <1>6 DEF FileControl, SweptInv, ReadInv, FromScratch, NothingLeft, StartOf,
     MetaMain, ReadMain
<1> QED BY <1>4, <1>5, <1>7 DEF FileIInv

\* What holds after any step of file_meta.c, and what it takes for the rest.
LEMMA MetaProgram ==
  FileIInv /\ main \in MetaMain =>
    /\ program = "file_meta" /\ main \notin ReadMain /\ main \notin Ended
    /\ i \in Nat /\ i < NumFiles /\ ignored \in Nat /\ files \subseteq Names
BY FileConstants DEF FileIInv, FileTypeOK, FileControl, FilePrograms, MetaMain,
   ReadMain, Ended, Rounds

LEMMA CleanupStep == FileIInv /\ (Cleanup \/ MakeDir) => FileIInv'
<1> SUFFICES ASSUME FileIInv, Cleanup \/ MakeDir PROVE FileIInv'
  OBVIOUS
<1> USE FileConstants DEF OnlyDir, NoFault, Ignore, Fault
<1>1. main \in {"cleanup", "mkdir"} /\ main' \in {"mkdir", "create"}
      /\ i' = i /\ program' = program
  BY DEF Cleanup, MakeDir
<1>2. program = "file_meta" /\ i = 0
  BY <1>1, MetaProgram DEF MetaMain, FileIInv, FileControl
<1>3. FileTypeOK'
  <2>1. /\ dir' \in BOOLEAN /\ swept' \in BOOLEAN
        /\ files' \in IF dir' THEN SUBSET Names ELSE {{}}
    <3>1. CASE Cleanup
      BY <3>1 DEF FileIInv, FileTypeOK, Cleanup
    <3>2. CASE MakeDir
      BY <3>2 DEF FileIInv, FileTypeOK, MakeDir
    <3> QED BY <3>1, <3>2
  <2>2. UNCHANGED <<testfile, written, nread, runs>> /\ ignored' \in Nat
    BY DEF FileIInv, FileTypeOK, Cleanup, MakeDir
  <2> QED BY <1>1, <2>1, <2>2 DEF FileIInv, FileTypeOK
<1>4. files' = {} \/ files' = files
  BY DEF Cleanup, MakeDir
<1>5. IsFiniteSet(files')
  BY <1>4, FS_EmptySet DEF FileIInv
<1>6. swept' => files' = {}
  BY DEF Cleanup, MakeDir, FileIInv, SweptInv
<1>7. {File(k) : k \in 0..(i' - 1)} = {}
  BY <1>1, <1>2
<1>8. FileControl' /\ ReadInv' /\ NothingLeft'
  BY <1>1, <1>2 DEF FileControl, ReadInv, NothingLeft, MetaMain, ReadMain
<1>9. SweptInv' /\ FromScratch'
  BY <1>1, <1>6, <1>7 DEF SweptInv, FromScratch
<1> QED BY <1>3, <1>5, <1>8, <1>9 DEF FileIInv

LEMMA CreateStep == FileIInv /\ (Create \/ CreateFails) => FileIInv'
<1> SUFFICES ASSUME FileIInv, Create \/ CreateFails PROVE FileIInv'
  OBVIOUS
<1> USE FileConstants DEF OnlyDir, NoFault, Ignore, Fault
<1>1. main = "create" /\ program = "file_meta" /\ program' = program
      /\ swept' = swept /\ i \in Nat /\ i < NumFiles
  BY MetaProgram DEF Create, CreateFails, MetaMain
<1>2. CASE CreateFails
  <2>1. main' = "failed"
    BY <1>2 DEF CreateFails
  <2>2. FileTypeOK'
    BY <1>2 DEF FileIInv, FileTypeOK, CreateFails, Ended
  <2>3. FileControl' /\ SweptInv' /\ ReadInv' /\ FromScratch' /\ NothingLeft'
    BY <2>1, <1>1 DEF FileControl, SweptInv, ReadInv, FromScratch, NothingLeft,
       MetaMain, ReadMain
  <2> QED BY <2>2, <2>3, <1>2 DEF FileIInv, CreateFails
<1>3. CASE Create
  <2>1. /\ files' = files \union {File(i)} /\ dir /\ dir' = dir
        /\ IF i + 1 < NumFiles THEN i' = i + 1 /\ main' = "create"
                               ELSE i' = 0 /\ main' = "rename"
    BY <1>3 DEF Create, EndRound
  <2>2. i' \in Rounds /\ files' \subseteq Names
    BY <2>1, <1>1 DEF FileIInv, FileTypeOK, Rounds, Names
  <2>3. FileTypeOK'
    BY <2>1, <2>2, <1>3 DEF FileIInv, FileTypeOK, Create
  <2>4. IsFiniteSet(files')
    BY <2>1, FS_AddElement DEF FileIInv
  <2>5. FileControl' /\ ReadInv' /\ NothingLeft'
    BY <2>1, <1>1 DEF FileControl, ReadInv, NothingLeft, MetaMain, ReadMain
  <2>6. swept => files' = {File(k) : k \in 0..i}
    <3> SUFFICES ASSUME swept PROVE files' = {File(k) : k \in 0..i}
      OBVIOUS
    <3>1. files = {File(k) : k \in 0..(i - 1)}
      BY <1>1 DEF FileIInv, FromScratch
    <3>2. 0..i = (0..(i - 1)) \union {i}
      BY <1>1
    <3> QED BY <3>1, <3>2, <2>1
  <2>7. CASE i + 1 < NumFiles
    <3>1. i' - 1 = i
      BY <2>1, <2>7, <1>1
    <3> QED BY <3>1, <2>1, <2>3, <2>4, <2>5, <2>6, <2>7, <1>1
            DEF FileIInv, SweptInv, FromScratch
  <2>8. CASE ~(i + 1 < NumFiles)
    <3>1. i' = 0 /\ main' = "rename" /\ 0..i = Rounds
          /\ i'..(NumFiles - 1) = Rounds
      BY <2>1, <2>8, <1>1 DEF Rounds
    <3>2. swept => /\ \A k \in Rounds : File(k) \in files' /\ Renamed(k) \notin files'
                   /\ Foreign \notin files'
      <4> SUFFICES ASSUME swept PROVE
              /\ \A k \in Rounds : File(k) \in files' /\ Renamed(k) \notin files'
              /\ Foreign \notin files'
        OBVIOUS
      <4>1. files' = {File(k) : k \in Rounds}
        BY <3>1, <2>6
      <4>2. \A k \in Rounds : File(k) \in files'
        BY <4>1
      <4>4. ASSUME NEW k \in Rounds, Renamed(k) \in files' PROVE FALSE
        <5>1. PICK l \in Rounds : Renamed(k) = File(l)
          BY <4>1, <4>4
        <5> QED BY <5>1 DEF File, Renamed
      <4>3. Foreign \notin files'
        BY <4>1, NamesDiffer
      <4> QED BY <4>2, <4>3, <4>4
    <3>5. FromScratch'
      BY <3>1, <3>2, <1>1 DEF FromScratch
    <3>3. swept => files' \ ToRename' = {}
      BY <3>1, <2>6 DEF ToRename
    <3>4. Cardinality({}) = 0 /\ 0 <= ignored'
      BY <2>3, FS_EmptySet DEF FileTypeOK
    <3>6. SweptInv'
      BY <3>1, <3>3, <3>4, <1>1 DEF SweptInv
    <3> QED BY <3>5, <3>6, <2>3, <2>4, <2>5 DEF FileIInv
  <2> QED BY <2>7, <2>8
<1> QED BY <1>2, <1>3

\* A loop that leaves one name more behind counts one failure more.
LEMMA OneMore ==
  ASSUME NEW S, IsFiniteSet(S), NEW n \in Nat, Cardinality(S) <= n,
         NEW x, NEW T \in SUBSET (S \union {x})
  PROVE  Cardinality(T) <= n + 1
<1>0. Cardinality(S) \in Nat
  BY FS_CardinalityType
<1>4. /\ IsFiniteSet(S \union {x})
      /\ Cardinality(S \union {x}) =
           IF x \in S THEN Cardinality(S) ELSE Cardinality(S) + 1
  BY FS_AddElement
<1>1. IsFiniteSet(S \union {x})
      /\ Cardinality(S \union {x}) <= Cardinality(S) + 1
  BY <1>0, <1>4
<1>2. IsFiniteSet(T) /\ Cardinality(T) <= Cardinality(S \union {x})
  BY <1>1, FS_Subset
<1>3. Cardinality(T) \in Nat /\ Cardinality(S \union {x}) \in Nat
  BY <1>1, <1>2, FS_CardinalityType
<1> QED BY <1>0, <1>1, <1>2, <1>3

LEMMA NoMore ==
  ASSUME NEW S, IsFiniteSet(S), NEW n \in Nat, Cardinality(S) <= n,
         NEW T \in SUBSET S
  PROVE  Cardinality(T) <= n
<1>1. Cardinality(T) <= Cardinality(S) /\ IsFiniteSet(T)
  BY FS_Subset
<1>2. Cardinality(T) \in Nat /\ Cardinality(S) \in Nat
  BY <1>1, FS_CardinalityType
<1> QED BY <1>1, <1>2

LEMMA RenameStep == FileIInv /\ Rename => FileIInv'
<1> SUFFICES ASSUME FileIInv, Rename PROVE FileIInv'
  OBVIOUS
<1> USE FileConstants
<1> DEFINE After == {File(k) : k \in (i + 1)..(NumFiles - 1)}
                      \union {Renamed(k) : k \in Rounds}
<1>1. /\ main = "rename" /\ program = "file_meta" /\ i \in Nat /\ i < NumFiles
      /\ i \in Rounds /\ ignored \in Nat /\ IsFiniteSet(files)
  BY MetaProgram DEF Rename, MetaMain, FileIInv, FileTypeOK
<1>2. /\ UNCHANGED <<dir, swept, program, testfile, written, nread, runs>>
      /\ IF i + 1 < NumFiles THEN i' = i + 1 /\ main' = "rename"
                             ELSE i' = 0 /\ main' = "delete"
  BY <1>1 DEF Rename, OnlyDir, EndRound
<1>3. \/ /\ File(i) \in files /\ ignored' = ignored
         /\ files' = (files \ {File(i)}) \union {Renamed(i)}
      \/ files' = files /\ ignored' = ignored + 1
  BY DEF Rename, NoFault, Ignore
<1>4. FileTypeOK'
  <2>1. files' \in IF dir' THEN SUBSET Names ELSE {{}}
    BY <1>1, <1>2, <1>3 DEF FileIInv, FileTypeOK, Names
  <2>2. i' \in Rounds /\ ignored' \in Nat
    BY <1>1, <1>2, <1>3 DEF Rounds
  <2> QED BY <1>2, <2>1, <2>2 DEF FileIInv, FileTypeOK
<1>5. IsFiniteSet(files')
  <2>1. IsFiniteSet(files \ {File(i)})
    BY <1>1, FS_RemoveElement
  <2>2. IsFiniteSet((files \ {File(i)}) \union {Renamed(i)})
    BY <2>1, FS_AddElement
  <2> QED BY <1>1, <1>3, <2>2
<1>6. FileControl' /\ ReadInv' /\ NothingLeft'
  BY <1>1, <1>2 DEF FileControl, ReadInv, NothingLeft, MetaMain, ReadMain
<1>7. CASE ~swept
  BY <1>2, <1>4, <1>5, <1>6, <1>7 DEF FileIInv, SweptInv, FromScratch
<1>8. CASE swept
  <2>0. \A k \in Rounds : (File(k) \in files) # (Renamed(k) \in files)
    BY <1>1, <1>8 DEF FileIInv, FromScratch
  <2>1. /\ \A k \in i..(NumFiles - 1) : File(k) \in files
        /\ Foreign \notin files
        /\ Cardinality(files \ ToRename) <= ignored
    BY <1>1, <1>8 DEF FileIInv, FromScratch, SweptInv
  <2>2. IsFiniteSet(files \ ToRename)
    BY <1>1, FS_Difference
  <2>3. ToRename = After \union {File(i)}
    <3>1. i..(NumFiles - 1) = ((i + 1)..(NumFiles - 1)) \union {i}
      BY <1>1
    <3> QED BY <3>1 DEF ToRename
  <2>4. Cardinality(files' \ After) <= ignored'
    <3>1. CASE ignored' = ignored /\ files' = (files \ {File(i)}) \union {Renamed(i)}
      <4>1. files' \ After \in SUBSET (files \ ToRename)
        BY <1>1, <2>3, <3>1
      <4> QED BY <4>1, <3>1, <1>1, <2>1, <2>2, NoMore
    <3>2. CASE ignored' = ignored + 1 /\ files' = files
      <4>1. files' \ After \in SUBSET ((files \ ToRename) \union {File(i)})
        BY <2>3, <3>2
      <4> QED BY <4>1, <3>2, <1>1, <2>1, <2>2, OneMore
    <3> QED BY <1>3, <3>1, <3>2
  <2>5. CASE i + 1 < NumFiles
    <3>1. i' = i + 1 /\ main' = "rename" /\ ToRename' = After
      BY <1>2, <2>5 DEF ToRename
    <3>2. \A k \in (i + 1)..(NumFiles - 1) :
            k \in Rounds /\ k \in i..(NumFiles - 1) /\ k # i
      BY <1>1 DEF Rounds
    <3>8. \A k \in Rounds : k # i => (File(k) \in files' <=> File(k) \in files)
      BY <1>1, <1>3 DEF File, Renamed
    <3>9. \A k \in Rounds :
            k # i => (Renamed(k) \in files' <=> Renamed(k) \in files)
      BY <1>1, <1>3 DEF File, Renamed
    <3>10. File(i) \in files' <=> ~(Renamed(i) \in files')
      <4>1. File(i) \in files /\ ~(Renamed(i) \in files)
        BY <1>1, <2>0, <2>1
      <4> QED BY <1>3, <4>1 DEF File, Renamed
    <3>3. \A k \in (i + 1)..(NumFiles - 1) : File(k) \in files'
      BY ONLY <2>1, <3>2, <3>8, Zenon
    <3>4. \A k \in Rounds : (File(k) \in files') # (Renamed(k) \in files')
      <4>1. \A k \in Rounds : File(k) \in files <=> ~(Renamed(k) \in files)
        BY <2>0
      <4>2. \A k \in Rounds : File(k) \in files' <=> ~(Renamed(k) \in files')
        BY ONLY <3>8, <3>9, <3>10, <4>1, Zenon
      <4> QED BY <4>2
    <3>5. Foreign \notin files'
      BY <1>1, <1>3, <2>1, NamesDiffer
    <3>6. FromScratch'
      BY <3>1, <3>3, <3>4, <3>5 DEF FromScratch
    <3>7. SweptInv'
      BY <3>1, <2>4 DEF SweptInv
    <3> QED BY <3>6, <3>7, <1>4, <1>5, <1>6 DEF FileIInv
  <2>6. CASE ~(i + 1 < NumFiles)
    <3>1. i' = 0 /\ main' = "delete" /\ (i + 1)..(NumFiles - 1) = {}
      BY <1>1, <1>2, <2>6
    <3>2. ToDelete' = After
      BY <3>1 DEF ToDelete, Rounds
    <3>3. SweptInv' /\ FromScratch'
      BY <3>1, <3>2, <2>4 DEF SweptInv, FromScratch
    <3> QED BY <3>3, <1>4, <1>5, <1>6 DEF FileIInv
  <2> QED BY <2>5, <2>6
<1> QED BY <1>7, <1>8

LEMMA DeleteStep == FileIInv /\ Delete => FileIInv'
<1> SUFFICES ASSUME FileIInv, Delete PROVE FileIInv'
  OBVIOUS
<1> USE FileConstants
<1> DEFINE After == {Renamed(k) : k \in (i + 1)..(NumFiles - 1)}
<1>1. /\ main = "delete" /\ program = "file_meta" /\ i \in Nat /\ i < NumFiles
      /\ i \in Rounds /\ ignored \in Nat /\ IsFiniteSet(files)
  BY MetaProgram DEF Delete, MetaMain, FileIInv, FileTypeOK
<1>2. /\ UNCHANGED <<dir, swept, program, testfile, written, nread, runs>>
      /\ IF i + 1 < NumFiles THEN i' = i + 1 /\ main' = "delete"
                             ELSE i' = 0 /\ main' = "rmdir"
  BY <1>1 DEF Delete, OnlyDir, EndRound
<1>3. \/ files' = files \ {Renamed(i)} /\ ignored' = ignored
      \/ files' = files /\ ignored' = ignored + 1
  BY DEF Delete, NoFault, Ignore
<1>4. FileTypeOK'
  <2>1. files' \in IF dir' THEN SUBSET Names ELSE {{}}
    BY <1>2, <1>3 DEF FileIInv, FileTypeOK
  <2>2. i' \in Rounds /\ ignored' \in Nat
    BY <1>1, <1>2, <1>3 DEF Rounds
  <2> QED BY <1>2, <2>1, <2>2 DEF FileIInv, FileTypeOK
<1>5. IsFiniteSet(files')
  BY <1>1, <1>3, FS_RemoveElement
<1>6. FileControl' /\ ReadInv' /\ NothingLeft' /\ FromScratch'
  BY <1>1, <1>2 DEF FileControl, ReadInv, NothingLeft, FromScratch, MetaMain,
     ReadMain
<1>7. swept => Cardinality(files' \ After) <= ignored'
  <2> SUFFICES ASSUME swept PROVE Cardinality(files' \ After) <= ignored'
    OBVIOUS
  <2>1. Cardinality(files \ ToDelete) <= ignored
    BY <1>1 DEF FileIInv, SweptInv
  <2>2. IsFiniteSet(files \ ToDelete)
    BY <1>1, FS_Difference
  <2>3. ToDelete = After \union {Renamed(i)}
    <3>1. i..(NumFiles - 1) = ((i + 1)..(NumFiles - 1)) \union {i}
      BY <1>1
    <3> QED BY <3>1 DEF ToDelete
  <2>4. CASE ignored' = ignored /\ files' = files \ {Renamed(i)}
    <3>1. files' \ After \in SUBSET (files \ ToDelete)
      BY <2>3, <2>4
    <3> QED BY <3>1, <2>4, <1>1, <2>1, <2>2, NoMore
  <2>5. CASE ignored' = ignored + 1 /\ files' = files
    <3>1. files' \ After \in SUBSET ((files \ ToDelete) \union {Renamed(i)})
      BY <2>3, <2>5
    <3> QED BY <3>1, <2>5, <1>1, <2>1, <2>2, OneMore
  <2> QED BY <1>3, <2>4, <2>5
<1>8. SweptInv'
  <2>1. CASE i + 1 < NumFiles
    <3>1. i' = i + 1 /\ main' = "delete" /\ ToDelete' = After
      BY <1>2, <2>1 DEF ToDelete
    <3> QED BY <3>1, <1>2, <1>7 DEF SweptInv
  <2>2. CASE ~(i + 1 < NumFiles)
    <3>1. main' = "rmdir" /\ (i + 1)..(NumFiles - 1) = {}
      BY <1>1, <1>2, <2>2
    <3>2. files' \ After = files'
      BY <3>1
    <3> QED BY <3>1, <3>2, <1>2, <1>7 DEF SweptInv
  <2> QED BY <2>1, <2>2
<1> QED BY <1>4, <1>5, <1>6, <1>8 DEF FileIInv

LEMMA RemoveDirStep == FileIInv /\ RemoveDir => FileIInv'
<1> SUFFICES ASSUME FileIInv, RemoveDir PROVE FileIInv'
  OBVIOUS
<1>1. main = "rmdir" /\ main' = "done" /\ program = "file_meta"
      /\ ignored \in Nat /\ IsFiniteSet(files)
  BY MetaProgram DEF RemoveDir, MetaMain, FileIInv
<1>2. UNCHANGED <<i, files, swept, program, testfile, written, nread, runs>>
  BY DEF RemoveDir, OnlyDir
<1>3. \/ dir' = (files # {}) /\ ignored' = ignored
      \/ dir' = dir /\ ignored' = ignored + 1
  BY DEF RemoveDir, NoFault, Ignore
<1>4. FileTypeOK'
  <2>0. dir \in BOOLEAN /\ (files # {} => dir)
    BY DEF FileIInv, FileTypeOK
  <2>4. dir' = (files # {}) \/ dir' = dir
    BY <1>3
  <2>1. dir' \in BOOLEAN /\ (dir' => dir) /\ (files # {} => dir')
    <3>1. CASE dir' = (files # {})
      BY ONLY <2>0, <3>1, Zenon
    <3>2. CASE dir' = dir
      BY ONLY <2>0, <3>2, Zenon
    <3> QED BY <2>4, <3>1, <3>2
  <2>2. files' \in IF dir' THEN SUBSET Names ELSE {{}}
    BY <1>2, <2>1 DEF FileIInv, FileTypeOK
  <2>3. ignored' \in Nat
    BY <1>1, <1>3
  <2> QED BY <1>1, <1>2, <2>1, <2>2, <2>3 DEF FileIInv, FileTypeOK, Ended
<1>5. swept => Cardinality(files') <= ignored' /\ (dir' => ignored' > 0)
  <2> SUFFICES ASSUME swept
               PROVE  Cardinality(files') <= ignored' /\ (dir' => ignored' > 0)
    OBVIOUS
  <2>1. Cardinality(files) <= ignored /\ Cardinality(files) \in Nat
    BY <1>1, FS_CardinalityType DEF FileIInv, SweptInv
  <2>2. files # {} => Cardinality(files) # 0
    BY <1>1, FS_EmptySet
  <2>3. dir' => files # {} \/ ignored' = ignored + 1
    BY ONLY <1>3, Zenon
  <2>4. Cardinality(files') <= ignored'
    BY <1>1, <1>2, <1>3, <2>1
  <2>5. files # {} => ignored' > 0
    <3>1. files' = files /\ ignored' \in Nat
      BY <1>1, <1>2, <1>3
    <3>2. files # {} => Cardinality(files) > 0
      BY <2>1, <2>2
    <3> QED BY <2>1, <2>4, <3>1, <3>2
  <2>6. ignored' = ignored + 1 => ignored' > 0
    BY <1>1
  <2> QED BY <2>3, <2>4, <2>5, <2>6
<1>6. FileControl' /\ SweptInv' /\ ReadInv' /\ FromScratch' /\ NothingLeft'
  BY <1>1, <1>2, <1>5 DEF FileControl, SweptInv, ReadInv, FromScratch,
     NothingLeft, MetaMain, ReadMain
<1> QED BY <1>1, <1>2, <1>4, <1>6 DEF FileIInv

LEMMA ReadProgram ==
  FileIInv /\ main \in ReadMain =>
    /\ program = "read" /\ ~swept /\ main \notin MetaMain /\ main \notin Ended
    /\ i \in Nat /\ i < NumFiles /\ ignored \in Nat /\ nread \in Nat
BY FileConstants DEF FileIInv, FileTypeOK, FileControl, FilePrograms, MetaMain,
   ReadMain, Ended, Rounds

\* What the steps of read.c have in common.
LEMMA ReadStep ==
  FileIInv /\ main \in ReadMain /\ OnlyFile /\ FileTypeOK'
  /\ main' \in ReadMain \union {"done"} /\ main' # "open_write" /\ ReadInv'
  /\ (main' = "read" /\ written' # Absent => testfile' = written' /\ nread' <= written')
  /\ (main' = "done" /\ testfile' # Absent => ignored' > 0)
    => FileIInv'
BY ReadProgram DEF FileIInv, OnlyFile, FileControl, SweptInv, FromScratch,
   NothingLeft, MetaMain, ReadMain

LEMMA OpenToWriteStep == FileIInv /\ OpenToWrite => FileIInv'
<1> SUFFICES ASSUME FileIInv, OpenToWrite PROVE FileIInv'
  OBVIOUS
<1> USE FileConstants DEF NoFault, Ignore
<1>1. main = "open_write" /\ main \in ReadMain /\ OnlyFile /\ i' = i /\ nread' = nread
      /\ main' \in {"write", "open_read"}
  BY DEF OpenToWrite, ReadMain
<1>2. written = Absent /\ nread = 0 /\ i = 0 /\ ignored \in Nat
  BY <1>1, ReadProgram DEF FileIInv, ReadInv, FileControl
<1>3. \/ main' = "write" /\ testfile' = 0 /\ written' = 0
      \/ main' = "open_read" /\ testfile' = testfile /\ written' = written
  BY DEF OpenToWrite
<1>4. FileTypeOK'
  <2>1. written' \in 0..NumFiles \union {Absent} /\ testfile' \in Nat \union {Absent}
    BY <1>3 DEF FileIInv, FileTypeOK
  <2>2. ignored' \in Nat
    BY <1>2 DEF OpenToWrite
  <2> QED BY <1>1, <2>1, <2>2 DEF FileIInv, FileTypeOK, OnlyFile
<1>5. ReadInv'
  BY <1>1, <1>2, <1>3 DEF ReadInv, Absent
<1> QED BY <1>1, <1>4, <1>5, ReadStep DEF ReadMain

LEMMA WriteStep == FileIInv /\ Write => FileIInv'
<1> SUFFICES ASSUME FileIInv, Write PROVE FileIInv'
  OBVIOUS
<1> USE FileConstants DEF NoFault, Ignore
<1>1. main = "write" /\ main \in ReadMain /\ OnlyFile /\ nread' = nread
  BY DEF Write, ReadMain
<1>2. /\ written # Absent /\ testfile = written /\ written <= i /\ nread = 0
      /\ ignored \in Nat /\ i \in Nat /\ i < NumFiles
  BY <1>1, ReadProgram DEF FileIInv, ReadInv
<1>3. written \in Nat
  BY <1>2 DEF FileIInv, FileTypeOK
<1>4. \/ testfile' = testfile + 1 /\ written' = written + 1 /\ ignored' = ignored
      \/ testfile' = testfile /\ written' = written /\ ignored' = ignored + 1
  BY DEF Write
<1>5. /\ testfile' = written' /\ written' \in Nat /\ written' <= i + 1
      /\ written' # Absent /\ ignored' \in Nat
  BY <1>2, <1>3, <1>4 DEF Absent
<1>6. IF i + 1 < NumFiles THEN i' = i + 1 /\ main' = "write"
                          ELSE i' = 0 /\ main' = "open_read"
  BY <1>1 DEF Write, EndRound
<1>7. i' \in Rounds /\ main' \in {"write", "open_read"}
  BY <1>2, <1>6 DEF Rounds
<1>8. FileTypeOK'
  <2>1. written' \in 0..NumFiles
    BY <1>2, <1>5
  <2> QED BY <1>1, <1>5, <1>7, <2>1 DEF FileIInv, FileTypeOK, OnlyFile
<1>9. ReadInv'
  BY <1>1, <1>2, <1>5, <1>6 DEF ReadInv
<1> QED BY <1>1, <1>7, <1>8, <1>9, ReadStep DEF ReadMain

LEMMA OpenToReadStep == FileIInv /\ OpenToRead => FileIInv'
<1> SUFFICES ASSUME FileIInv, OpenToRead PROVE FileIInv'
  OBVIOUS
<1>1. /\ main = "open_read" /\ main \in ReadMain /\ OnlyFile
      /\ main' \in {"read", "remove"}
      /\ UNCHANGED <<i, testfile, written, nread>>
  BY DEF OpenToRead, ReadMain
<1>2. nread = 0 /\ (written # Absent => testfile = written) /\ ignored \in Nat
  BY <1>1, ReadProgram DEF FileIInv, ReadInv
<1>3. FileTypeOK'
  <2>1. ignored' \in Nat
    BY <1>2 DEF OpenToRead, NoFault, Ignore
  <2> QED BY <1>1, <2>1 DEF FileIInv, FileTypeOK, OnlyFile
<1>4. written' # Absent => testfile' = written' /\ nread' <= written'
  <2>1. written # Absent => written \in Nat
    BY DEF FileIInv, FileTypeOK
  <2> QED BY <1>1, <1>2, <2>1
<1>5. ReadInv'
  BY <1>1 DEF ReadInv
<1> QED BY <1>1, <1>3, <1>4, <1>5, ReadStep DEF ReadMain

LEMMA FreadStep == FileIInv /\ Read => FileIInv'
<1> SUFFICES ASSUME FileIInv, Read PROVE FileIInv'
  OBVIOUS
<1>1. /\ main = "read" /\ main \in ReadMain /\ OnlyFile
      /\ main' \in {"read", "remove"}
      /\ UNCHANGED <<i, testfile, written>>
  BY DEF Read, ReadMain
<1>2. ignored \in Nat /\ nread \in Nat
      /\ (written # Absent => testfile = written /\ nread <= written)
  BY <1>1, ReadProgram DEF FileIInv, FromScratch
<1>3. ignored' \in Nat /\ nread' \in Nat
  BY <1>2 DEF Read, NoFault, Ignore
<1>4. FileTypeOK'
  BY <1>1, <1>3 DEF FileIInv, FileTypeOK, OnlyFile
<1>5. written' # Absent => testfile' = written' /\ nread' <= written'
  <2>1. written # Absent => written \in Nat
    BY FileConstants DEF FileIInv, FileTypeOK
  <2>2. nread' = nread \/ (nread < testfile /\ nread' = nread + 1)
    BY DEF Read
  <2> QED BY <1>1, <1>2, <2>1, <2>2
<1>6. ReadInv'
  BY <1>1 DEF ReadInv
<1> QED BY <1>1, <1>4, <1>5, <1>6, ReadStep DEF ReadMain

LEMMA RemoveTestFileStep == FileIInv /\ RemoveTestFile => FileIInv'
<1> SUFFICES ASSUME FileIInv, RemoveTestFile PROVE FileIInv'
  OBVIOUS
<1>1. /\ main = "remove" /\ main \in ReadMain /\ OnlyFile /\ main' = "done"
      /\ UNCHANGED <<i, written, nread>>
  BY DEF RemoveTestFile, ReadMain
<1>2. ignored \in Nat
  BY <1>1, ReadProgram
<1>3. \/ testfile' = Absent /\ ignored' = ignored
      \/ testfile' = testfile /\ ignored' = ignored + 1
  BY DEF RemoveTestFile, NoFault, Ignore
<1>4. ignored' \in Nat /\ (testfile' # Absent => ignored' > 0)
  BY <1>2, <1>3
<1>5. FileTypeOK'
  BY <1>1, <1>3, <1>4 DEF FileIInv, FileTypeOK, OnlyFile, Ended
<1>6. ReadInv'
  BY <1>1 DEF ReadInv
<1> QED BY <1>1, <1>4, <1>5, <1>6, ReadStep

LEMMA KillOrRerunStep == FileIInv /\ (FileKill \/ FileRerun) => FileIInv'
<1> SUFFICES ASSUME FileIInv, FileKill \/ FileRerun PROVE FileIInv'
  OBVIOUS
<1> USE FileConstants
<1>1. CASE FileKill
  <2>1. main' = "killed" /\ UNCHANGED <<program, i, faults, fileVars>>
    BY <1>1 DEF FileKill
  <2>2. FileTypeOK'
    BY <2>1 DEF FileIInv, FileTypeOK, fileVars, Ended
  <2>3. FileControl' /\ SweptInv' /\ ReadInv' /\ FromScratch' /\ NothingLeft'
    BY <2>1 DEF FileIInv, FileControl, SweptInv, ReadInv, FromScratch,
       NothingLeft, fileVars, MetaMain, ReadMain
  <2> QED BY <2>1, <2>2, <2>3 DEF FileIInv, fileVars
<1>2. CASE FileRerun
  <2>1. /\ main' = StartOf(program') /\ program' \in FilePrograms /\ i' = 0
        /\ swept' = FALSE /\ written' = Absent /\ nread' = 0 /\ ignored' = 0
        /\ UNCHANGED <<faults, dir, files, testfile>>
    BY <1>2 DEF FileRerun
  <2>2. FileTypeOK'
    <3>1. runs' \in 1..MaxRuns
      BY <1>2 DEF FileRerun, FileIInv, FileTypeOK
    <3>2. i' \in Rounds /\ ignored' \in Nat /\ nread' \in Nat
      BY <2>1 DEF Rounds
    <3>3. main' \in {"cleanup", "open_write"}
      BY <2>1 DEF StartOf
    <3> QED BY <2>1, <3>1, <3>2, <3>3 DEF FileIInv, FileTypeOK
  <2>3. FileControl' /\ SweptInv' /\ ReadInv' /\ FromScratch' /\ NothingLeft'
    BY <2>1 DEF FileControl, SweptInv, ReadInv, FromScratch, NothingLeft,
       MetaMain, ReadMain, StartOf
  <2> QED BY <2>1, <2>2, <2>3 DEF FileIInv
<1> QED BY <1>1, <1>2

LEMMA FileStepInv == FileIInv /\ [FileNext]_<<shared, fileVars>> => FileIInv'
<1> SUFFICES ASSUME FileIInv, [FileNext]_<<shared, fileVars>> PROVE FileIInv'
  OBVIOUS
<1>1. CASE UNCHANGED <<shared, fileVars>>
  <2>1. UNCHANGED <<program, main, i, dir, files, testfile, swept, written, nread,
                    ignored, runs>>
    BY <1>1 DEF shared, fileVars
  <2>2. FileTypeOK' /\ IsFiniteSet(files') /\ FileControl' /\ ReadInv' /\ FromScratch'
        /\ NothingLeft'
    BY <2>1 DEF FileIInv, FileTypeOK, FileControl, ReadInv, FromScratch,
       NothingLeft
  <2>3. SweptInv'
    BY <2>1 DEF FileIInv, SweptInv, ToRename, ToDelete
  <2> QED BY <2>2, <2>3 DEF FileIInv
<1> QED BY <1>1, CleanupStep, CreateStep, RenameStep, DeleteStep, RemoveDirStep,
        OpenToWriteStep, WriteStep, OpenToReadStep, FreadStep,
        RemoveTestFileStep, KillOrRerunStep DEF FileNext, FileSteps

LEMMA FileAlways == FileSpec => []FileIInv
BY FileInitInv, FileStepInv, PTL DEF FileSpec

\* Whatever earlier runs have left: with any number of files, runs and failing
\* calls, a run of file_meta.c whose cleanup worked renames each file that it
\* created once, and read.c reads what it wrote.
THEOREM RunsFromScratch == FileSpec => []FromScratch
<1>1. FileIInv => FromScratch
  BY DEF FileIInv
<1> QED BY FileAlways, <1>1, PTL

\* A run that comes to its end has ignored one failure at least for each file
\* that it leaves.
THEOREM NothingElseLeft == FileSpec => []NothingLeft
<1>1. FileIInv => NothingLeft
  BY DEF FileIInv
<1> QED BY FileAlways, <1>1, PTL

------------------------------------------------------------------------------
(* network_and_security.c: the averages of the downloads, and what a run   *)
(* leaves.                                                                 *)

\* The checks that are made before the first transfer.
Before == {"get_os_name", "auth_log", "attempts", "shadow", "tcp", "tcp_lines",
           "udp", "udp_lines", "ciphers"}

\* A loop has at most one time for each of its rounds.
LengthInv ==
  /\ main \in Before => i = 0 /\ seen["HTTP"] = <<>> /\ seen["HTTPS"] = <<>>
  /\ main = "HTTP" => Len(seen["HTTP"]) <= i /\ seen["HTTPS"] = <<>>
  /\ main = "HTTPS" => Len(seen["HTTP"]) <= Transfers /\ Len(seen["HTTPS"]) <= i
  /\ main = "averages" =>
       Len(seen["HTTP"]) <= Transfers /\ Len(seen["HTTPS"]) <= Transfers

\* A sum of times lies between what it were if all of them were the smallest
\* one and what it were if all of them were the largest one.
SumBetween(s, sum) ==
  IF s = <<>> THEN sum = 0
  ELSE \E lo, hi \in ToSet(s) :
         /\ \A x \in ToSet(s) : lo <= x /\ x <= hi
         /\ Len(s) * lo <= sum /\ sum <= Len(s) * hi

TotalInv == \A k \in Kinds : SumBetween(seen[k], total[k])

NetIInv == NetInv /\ LengthInv /\ TotalInv /\ DownloadAverageInRange /\ TestFileCleaned

LEMMA NetConstants == Transfers \in Nat /\ Transfers >= 1 /\ Times \subseteq Nat
                      /\ MaxNetRuns \in Nat /\ MaxNetRuns >= 1
BY TransfersAssumption, ListsAssumption

LEMMA Product ==
  ASSUME NEW n \in Nat, NEW a \in Nat, NEW b \in Nat, a <= b
  PROVE  n * a \in Nat /\ n * b \in Nat /\ n * a <= n * b
<1>1. PICK d \in Nat : b = a + d
  <2>1. b - a \in Nat /\ b = a + (b - a)
    OBVIOUS
  <2> QED BY <2>1
<1>2. n * (a + d) = n * a + n * d
  BY ONLY n \in Nat, a \in Nat, d \in Nat
<1>3. n * a \in Nat /\ n * d \in Nat
  BY ONLY n \in Nat, a \in Nat, d \in Nat
<1> QED BY <1>1, <1>2, <1>3

LEMMA AppendedTimes ==
  ASSUME NEW s \in Seq(Times), NEW t \in Times
  PROVE  /\ Append(s, t) \in Seq(Times) /\ Append(s, t) # <<>>
         /\ Len(s) \in Nat /\ Len(Append(s, t)) = Len(s) + 1
         /\ ToSet(Append(s, t)) = ToSet(s) \union {t}
         /\ ToSet(s) \subseteq Times
<1>1. /\ Append(s, t) \in Seq(Times) /\ Append(s, t) # <<>>
      /\ Len(s) \in Nat /\ Len(Append(s, t)) = Len(s) + 1
  OBVIOUS
<1>2. ToSet(s) \subseteq Times
  BY DEF ToSet
<1>3. DOMAIN s = 1..Len(s) /\ DOMAIN Append(s, t) = 1..(Len(s) + 1)
  BY <1>1
<1>4. /\ \A k \in 1..Len(s) : Append(s, t)[k] = s[k]
      /\ Append(s, t)[Len(s) + 1] = t
  OBVIOUS
<1>5. 1..(Len(s) + 1) = (1..Len(s)) \union {Len(s) + 1}
  BY <1>1
<1>6. ToSet(Append(s, t)) = ToSet(s) \union {t}
  BY <1>3, <1>4, <1>5 DEF ToSet
<1> QED BY <1>1, <1>2, <1>6

\* One more time keeps a sum between its bounds.
LEMMA AddTime ==
  ASSUME NEW s \in Seq(Times), NEW sum \in Nat, NEW t \in Times,
         SumBetween(s, sum)
  PROVE  SumBetween(Append(s, t), sum + t)
<1> DEFINE new == Append(s, t)
<1>1. /\ new # <<>> /\ Len(s) \in Nat /\ Len(new) = Len(s) + 1
      /\ ToSet(new) = ToSet(s) \union {t} /\ ToSet(s) \subseteq Times
  BY AppendedTimes
<1>2. t \in Nat
  BY NetConstants
<1> SUFFICES \E lo, hi \in ToSet(new) :
               /\ \A x \in ToSet(new) : lo <= x /\ x <= hi
               /\ Len(new) * lo <= sum + t /\ sum + t <= Len(new) * hi
  BY <1>1 DEF SumBetween
<1>3. CASE s = <<>>
  <2>1. sum = 0 /\ Len(s) = 0 /\ ToSet(s) = {}
    BY <1>3 DEF SumBetween, ToSet
  <2>2. Len(new) * t = t /\ sum + t = t
    BY <1>1, <1>2, <2>1
  <2>3. t \in ToSet(new) /\ \A x \in ToSet(new) : t <= x /\ x <= t
    BY <1>1, <1>2, <2>1
  <2> QED BY <2>2, <2>3, <1>2
<1>4. CASE s # <<>>
  <2>1. PICK lo \in ToSet(s), hi \in ToSet(s) :
          /\ \A x \in ToSet(s) : lo <= x /\ x <= hi
          /\ Len(s) * lo <= sum /\ sum <= Len(s) * hi
    BY <1>4 DEF SumBetween
  <2>2. lo \in Nat /\ hi \in Nat /\ ToSet(s) \subseteq Nat
    BY <1>1, NetConstants
  <2> DEFINE least == IF t < lo THEN t ELSE lo
  <2> DEFINE most == IF hi < t THEN t ELSE hi
  <2>3. /\ least \in Nat /\ most \in Nat /\ least \in ToSet(new) /\ most \in ToSet(new)
        /\ least <= t /\ least <= lo /\ t <= most /\ hi <= most
    BY <1>1, <1>2, <2>1, <2>2
  <2>4. \A x \in ToSet(new) : least <= x /\ x <= most
    <3> SUFFICES ASSUME NEW x \in ToSet(new) PROVE least <= x /\ x <= most
      OBVIOUS
    <3>1. CASE x = t
      BY <2>3, <3>1
    <3>2. CASE x \in ToSet(s)
      BY <2>1, <2>2, <2>3, <3>2
    <3> QED BY <3>1, <3>2, <1>1
  <2>5. Len(s) * least \in Nat /\ Len(s) * least <= Len(s) * lo
    BY <1>1, <2>2, <2>3, Product
  <2>6. Len(s) * most \in Nat /\ Len(s) * hi <= Len(s) * most
    BY <1>1, <2>2, <2>3, Product
  <2>7. Len(s) * lo \in Nat /\ Len(s) * hi \in Nat
    BY <1>1, <2>2, Product
  <2>8. Len(new) * least = Len(s) * least + least /\ Len(new) * most = Len(s) * most + most
    <3>1. ASSUME NEW n \in Nat, NEW a \in Nat PROVE (n + 1) * a = n * a + a
      BY ONLY n \in Nat, a \in Nat
    <3> QED BY <1>1, <2>3, <3>1
  <2>9. Len(new) * least <= sum + t /\ sum + t <= Len(new) * most
    <3> HIDE DEF least, most, new
    <3>1. PICK a \in Nat, b \in Nat, c \in Nat, d \in Nat :
            /\ a = Len(s) * least /\ b = Len(s) * lo
            /\ c = Len(s) * hi /\ d = Len(s) * most
      BY <2>5, <2>6, <2>7
    <3>2. a <= b /\ b <= sum /\ sum <= c /\ c <= d
      BY <2>1, <2>5, <2>6, <3>1
    <3>3. a + least <= sum + t /\ sum + t <= d + most
      BY ONLY <3>2, <2>3, <1>2, sum \in Nat, a \in Nat, b \in Nat, c \in Nat,
              d \in Nat
    <3> QED BY <2>8, <3>1, <3>3
  <2> QED BY <2>3, <2>4, <2>9
<1> QED BY <1>3, <1>4

\* The report of the averages: what it divides by is the number of rounds.
LEMMA AverageInRange ==
  ASSUME NEW s \in Seq(Times), NEW sum \in Nat, SumBetween(s, sum),
         Len(s) <= Transfers
  PROVE  /\ Len(s) = Transfers => /\ Transfers * Min(ToSet(s)) <= sum
                                  /\ sum <= Transfers * Max(ToSet(s))
         /\ \A bound \in Times :
              (\A n \in DOMAIN s : s[n] <= bound) => sum <= Transfers * bound
<1> USE NetConstants
<1>1. CASE s = <<>>
  <2>1. sum = 0 /\ Len(s) = 0
    BY <1>1 DEF SumBetween
  <2>2. \A bound \in Times : Transfers * bound \in Nat
    BY Product
  <2> QED BY <2>1, <2>2
<1>2. CASE s # <<>>
  <2>1. PICK lo \in ToSet(s), hi \in ToSet(s) :
          /\ \A x \in ToSet(s) : lo <= x /\ x <= hi
          /\ Len(s) * lo <= sum /\ sum <= Len(s) * hi
    BY <1>2 DEF SumBetween
  <2>2. ToSet(s) \subseteq Nat /\ lo \in Nat /\ hi \in Nat /\ Len(s) \in Nat
    <3>1. ToSet(s) \subseteq Times
      BY DEF ToSet
    <3>2. Len(s) \in Nat
      OBVIOUS
    <3> QED BY <3>1, <3>2
  <2>3. Min(ToSet(s)) = lo
    <3>1. \A y \in ToSet(s) : lo <= y
      BY <2>1
    <3>2. \A x \in ToSet(s) : (\A y \in ToSet(s) : x <= y) => x = lo
      BY <2>1, <2>2
    <3> QED BY <3>1, <3>2 DEF Min
  <2>4. Max(ToSet(s)) = hi
    <3>1. \A y \in ToSet(s) : hi >= y
      BY <2>1, <2>2
    <3>2. \A x \in ToSet(s) : (\A y \in ToSet(s) : x >= y) => x = hi
      BY <2>1, <2>2
    <3> QED BY <3>1, <3>2 DEF Max
  <2>5. ASSUME NEW bound \in Times, \A n \in DOMAIN s : s[n] <= bound
        PROVE  sum <= Transfers * bound
    <3>1. bound \in Nat /\ hi <= bound
      BY <2>5 DEF ToSet
    <3>2. Len(s) * hi \in Nat /\ Len(s) * bound \in Nat
          /\ Len(s) * hi <= Len(s) * bound
      BY <3>1, <2>2, Product
    <3>3. bound * Len(s) <= bound * Transfers
      BY <3>1, <2>2, Product
    <3>4. bound * Len(s) = Len(s) * bound /\ bound * Transfers = Transfers * bound
      BY <3>1, <2>2
    <3>5. Transfers * bound \in Nat
      BY <3>1, Product
    <3> QED BY <2>1, <3>2, <3>3, <3>4, <3>5
  <2> QED BY <2>1, <2>3, <2>4, <2>5
<1> QED BY <1>1, <1>2

LEMMA NetInitInv == NetInit => NetIInv
<1> SUFFICES ASSUME NetInit PROVE NetIInv
  OBVIOUS
<1> USE NetConstants
<1>1. report = [test |-> "none"] /\ main = "get_os_name" /\ i = 0
      /\ seen = [k \in Kinds |-> <<>>] /\ total = [k \in Kinds |-> 0]
  BY DEF NetInit, Nothing, Zero
<1>2. "HTTP" \in Kinds /\ "HTTPS" \in Kinds
  BY DEF Kinds, Downloads
<1>3. NetTypeOK
  <2>1. netruns \in 1..MaxNetRuns
    BY DEF NetInit
  <2> QED BY <1>1, <2>1 DEF NetInit, NetTypeOK
<1>4. ShadowSurvives /\ PamReported /\ TestFileCleaned /\ DownloadAverageInRange
  BY <1>1 DEF NetInit, ShadowSurvives, PamReported, TestFileCleaned,
     DownloadAverageInRange
<1>5. LengthInv
  BY <1>1, <1>2 DEF LengthInv, Before
<1>6. TotalInv
  BY <1>1 DEF TotalInv, SumBetween
<1> QED BY <1>3, <1>4, <1>5, <1>6 DEF NetIInv, NetInv

\* What the steps leave alone: only the transfers and their reports touch the
\* times, only the test of /etc/shadow touches that file.
LEMMA CheckStep ==
  /\ NetIInv /\ main \in Before /\ main' \in Before \union {"HTTP"}
  /\ UNCHANGED <<i, host, world_write, total, seen, datafile, netruns>>
  /\ shadow' \in {"intact", "appended", "gone"} /\ ShadowSurvives'
  /\ os_name' \in {host, "UNKNOWN"} /\ undisturbed' \in BOOLEAN
  /\ report' = report \/ report'.test # "download"
  /\ PamReported'
  => NetIInv'
<1> SUFFICES ASSUME
       /\ NetIInv /\ main \in Before /\ main' \in Before \union {"HTTP"}
       /\ UNCHANGED <<i, host, world_write, total, seen, datafile, netruns>>
       /\ shadow' \in {"intact", "appended", "gone"} /\ ShadowSurvives'
       /\ os_name' \in {host, "UNKNOWN"} /\ undisturbed' \in BOOLEAN
       /\ report' = report \/ report'.test # "download"
       /\ PamReported'
     PROVE NetIInv'
  OBVIOUS
<1>1. NetTypeOK'
  BY DEF NetIInv, NetInv, NetTypeOK, Before
<1>2. LengthInv'
  BY DEF NetIInv, LengthInv, Before
<1>3. TotalInv'
  BY DEF NetIInv, TotalInv
<1>4. DownloadAverageInRange'
  BY DEF NetIInv, DownloadAverageInRange, InRange
<1>5. TestFileCleaned'
  BY DEF TestFileCleaned, Before
<1> QED BY <1>1, <1>2, <1>3, <1>4, <1>5 DEF NetIInv, NetInv

LEMMA ChecksStep ==
  NetIInv /\ (GetOsName \/ CheckAuthLog \/ FailedAttempts
              \/ (\E test \in {"tcp", "udp"} : CheckPorts(test)) \/ CheckCiphers)
    => NetIInv'
<1> SUFFICES ASSUME NetIInv PROVE
      (GetOsName \/ CheckAuthLog \/ FailedAttempts
       \/ (\E test \in {"tcp", "udp"} : CheckPorts(test)) \/ CheckCiphers) => NetIInv'
  OBVIOUS
<1> USE DEF GoTo, Works, Fails, Fault, env, transfers
<1>1. /\ ~world_write => shadow = "intact"
      /\ shadow \in {"intact", "appended", "gone"}
      /\ os_name \in {host, "UNKNOWN"} /\ undisturbed \in BOOLEAN
      /\ report.test = "auth_log" /\ undisturbed
           => (report.pam <=> report.installed # {})
  BY DEF NetIInv, NetInv, NetTypeOK, ShadowSurvives, PamReported
<1>2. ASSUME GetOsName PROVE NetIInv'
  <2>1. /\ main \in Before /\ main' \in Before
        /\ UNCHANGED <<i, host, world_write, total, seen, datafile, netruns, shadow,
                       report>>
        /\ os_name' \in {host, "UNKNOWN"}
    BY <1>2 DEF GetOsName, OsName, Before
  <2>2. undisturbed' = undisturbed \/ undisturbed' = FALSE
    BY <1>2 DEF GetOsName, OsName
  <2>3. undisturbed' \in BOOLEAN
    BY <1>1, <2>2
  <2>4. PamReported'
    <3>1. PamReported /\ report' = report
      BY <2>1 DEF NetIInv, NetInv
    <3>2. CASE undisturbed' = undisturbed
      BY <3>1, <3>2 DEF PamReported
    <3>3. CASE undisturbed' = FALSE
      BY <3>3 DEF PamReported
    <3> QED BY <2>2, <3>2, <3>3
  <2> QED BY <1>1, <2>1, <2>3, <2>4, CheckStep DEF ShadowSurvives
<1>3. ASSUME CheckAuthLog PROVE NetIInv'
  <2>1. /\ main \in Before /\ main' \in Before
        /\ UNCHANGED <<i, host, world_write, total, seen, datafile, netruns, shadow,
                       os_name>>
    BY <1>3 DEF CheckAuthLog, Checked, Before
  <2>2. undisturbed' \in BOOLEAN /\ report'.test # "download" /\ PamReported'
    <3>1. CASE Checked(Nothing) /\ Fails
      BY <3>1, <1>1 DEF Checked, Nothing, PamReported
    <3>2. ASSUME NEW installed \in SUBSET {"pam.d", "pam.conf", "libpam"},
                 NEW findWorks \in BOOLEAN,
                 IF findWorks THEN Works ELSE Fails,
                 Checked([test |-> "auth_log", installed |-> installed,
                          pam |-> PamFound(installed, findWorks)])
          PROVE  undisturbed' \in BOOLEAN /\ report'.test # "download"
                 /\ PamReported'
      <4>1. /\ report'.test = "auth_log" /\ report'.installed = installed
            /\ report'.pam = PamFound(installed, findWorks)
        BY <3>2 DEF Checked
      <4>2. (findWorks /\ undisturbed' = undisturbed) \/ undisturbed' = FALSE
        BY <3>2
      <4>3. findWorks => (PamFound(installed, findWorks) <=> installed # {})
        BY DEF PamFound
      <4> QED BY <4>1, <4>2, <4>3, <1>1 DEF PamReported
    <3> QED BY <3>1, <3>2, <1>3 DEF CheckAuthLog
  <2> QED BY <1>1, <2>1, <2>2, CheckStep DEF ShadowSurvives
<1>4. ASSUME FailedAttempts PROVE NetIInv'
  <2>1. /\ main \in Before /\ main' \in Before
        /\ UNCHANGED <<i, host, world_write, total, seen, datafile, netruns, shadow,
                       os_name, undisturbed>>
        /\ report'.test = "attempts"
    BY <1>4 DEF FailedAttempts, Checked, Before
  <2> QED BY <1>1, <2>1, CheckStep DEF ShadowSurvives, PamReported
<1>5. ASSUME NEW test \in {"tcp", "udp"}, CheckPorts(test) PROVE NetIInv'
  <2>1. /\ main \in Before /\ main' \in Before
        /\ UNCHANGED <<i, host, world_write, total, seen, datafile, netruns, shadow,
                       os_name>>
    BY <1>5 DEF CheckPorts, OpenListing, PortLine, EndListing, Lines, AfterPorts,
       Checked, Before
  <2>2. /\ undisturbed' = undisturbed \/ undisturbed' = FALSE
        /\ report' = report \/ report'.test \in {"tcp", "udp", "none"}
    <3>1. CASE OpenListing(test)
      BY <3>1 DEF OpenListing, Checked, Nothing
    <3>2. CASE PortLine(test)
      BY <3>2 DEF PortLine, Checked
    <3>3. CASE EndListing(test)
      BY <3>3 DEF EndListing, Checked
    <3> QED BY <1>5, <3>1, <3>2, <3>3 DEF CheckPorts
  <2>3. undisturbed' \in BOOLEAN
    BY <1>1, <2>2
  <2>4. PamReported'
    <3>1. CASE report' = report /\ undisturbed' = undisturbed
      BY <3>1 DEF NetIInv, NetInv, PamReported
    <3>2. CASE report'.test \in {"tcp", "udp", "none"}
      BY <3>2 DEF PamReported
    <3>3. CASE undisturbed' = FALSE
      BY <3>3 DEF PamReported
    <3> QED BY <2>2, <3>1, <3>2, <3>3
  <2>5. report' = report \/ report'.test # "download"
    BY <2>2
  <2> QED BY <1>1, <2>1, <2>3, <2>4, <2>5, CheckStep DEF ShadowSurvives
<1>6. ASSUME CheckCiphers PROVE NetIInv'
  <2>1. /\ main \in Before /\ main' = "HTTP"
        /\ UNCHANGED <<i, host, world_write, total, seen, datafile, netruns, shadow,
                       os_name>>
    BY <1>6 DEF CheckCiphers, Checked, Before
  <2>2. undisturbed' \in BOOLEAN /\ report'.test \in {"ciphers", "none"}
    <3>1. CASE Checked(Nothing) /\ Fails
      BY <3>1 DEF Checked, Nothing
    <3>2. CASE Works /\ report'.test = "ciphers"
      BY <3>2, <1>1
    <3>3. \/ Checked(Nothing) /\ Fails
          \/ Works /\ report'.test = "ciphers"
      BY <1>6 DEF CheckCiphers, Checked
    <3> QED BY <3>1, <3>2, <3>3
  <2> QED BY <1>1, <2>1, <2>2, CheckStep DEF ShadowSurvives, PamReported
<1> QED BY <1>2, <1>3, <1>4, <1>5, <1>6

LEMMA ShadowStep == NetIInv /\ ShadowAccess => NetIInv'
<1> SUFFICES ASSUME NetIInv, ShadowAccess PROVE NetIInv'
  OBVIOUS
<1> USE DEF GoTo, Works, Fails, Fault, env, transfers
<1>1. /\ ~world_write => shadow = "intact"
      /\ shadow \in {"intact", "appended", "gone"}
      /\ os_name \in {host, "UNKNOWN"} /\ undisturbed \in BOOLEAN
  BY DEF NetIInv, NetInv, NetTypeOK, ShadowSurvives
<1>2. /\ main \in Before /\ main' \in Before
      /\ UNCHANGED <<i, host, world_write, total, seen, datafile, netruns, os_name>>
      /\ report'.test = "shadow"
  BY DEF ShadowAccess, Checked, Before
<1>3. undisturbed' = undisturbed \/ undisturbed' = FALSE
  BY DEF ShadowAccess
<1>4. shadow' = shadow \/ (world_write /\ shadow' = "appended")
  BY DEF ShadowAccess, Tried
<1> QED BY <1>1, <1>2, <1>3, <1>4, CheckStep DEF ShadowSurvives, PamReported

LEMMA TransferKept ==
  ASSUME NetIInv, NEW kind \in Kinds, Transfer(kind)
  PROVE  /\ total' \in [Kinds -> Nat] /\ seen' \in [Kinds -> Seq(Times)]
         /\ TotalInv' /\ undisturbed' \in BOOLEAN
         /\ \A k \in Kinds : k # kind => seen'[k] = seen[k]
         /\ Len(seen'[kind]) \in Nat /\ Len(seen'[kind]) <= Len(seen[kind]) + 1
<1> USE NetConstants
<1>1. /\ total \in [Kinds -> Nat] /\ seen \in [Kinds -> Seq(Times)]
      /\ undisturbed \in BOOLEAN /\ TotalInv
  BY DEF NetIInv, NetInv, NetTypeOK
<1>2. seen[kind] \in Seq(Times) /\ Len(seen[kind]) \in Nat /\ total[kind] \in Nat
  BY <1>1
<1>3. CASE Fails /\ UNCHANGED transfers
  <2>1. undisturbed' = FALSE /\ total' = total /\ seen' = seen
    BY <1>3 DEF Fails, transfers
  <2>2. TotalInv'
    BY <2>1, <1>1 DEF TotalInv
  <2>3. Len(seen'[kind]) \in Nat /\ Len(seen'[kind]) <= Len(seen[kind]) + 1
    BY <2>1, <1>2
  <2> QED BY <2>1, <2>2, <2>3, <1>1
<1>4. ASSUME NEW time \in Times, total' = [total EXCEPT ![kind] = @ + time],
             seen' = [seen EXCEPT ![kind] = Append(@, time)], Works
      PROVE  /\ total' \in [Kinds -> Nat] /\ seen' \in [Kinds -> Seq(Times)]
             /\ TotalInv' /\ undisturbed' \in BOOLEAN
             /\ \A k \in Kinds : k # kind => seen'[k] = seen[k]
             /\ Len(seen'[kind]) \in Nat /\ Len(seen'[kind]) <= Len(seen[kind]) + 1
  <2>1. total[kind] + time \in Nat /\ Append(seen[kind], time) \in Seq(Times)
        /\ Len(Append(seen[kind], time)) = Len(seen[kind]) + 1
    <3>1. total[kind] + time \in Nat
      BY <1>2
    <3>2. Append(seen[kind], time) \in Seq(Times)
          /\ Len(Append(seen[kind], time)) = Len(seen[kind]) + 1
      BY <1>2, AppendedTimes
    <3> QED BY <3>1, <3>2
  <2>2. total' \in [Kinds -> Nat] /\ seen' \in [Kinds -> Seq(Times)]
    <3>1. total' \in [Kinds -> Nat]
      BY <1>1, <1>4, <2>1
    <3>2. seen' \in [Kinds -> Seq(Times)]
      BY <1>1, <1>4, <2>1
    <3> QED BY <3>1, <3>2
  <2>3. /\ seen'[kind] = Append(seen[kind], time)
        /\ total'[kind] = total[kind] + time
        /\ \A k \in Kinds : k # kind => seen'[k] = seen[k] /\ total'[k] = total[k]
    BY <1>1, <1>4
  <2>4. TotalInv'
    <3>1. SumBetween(seen[kind], total[kind])
      BY <1>1 DEF TotalInv
    <3>2. SumBetween(seen'[kind], total'[kind])
      BY <1>2, <2>3, <3>1, AddTime
    <3> QED BY <1>1, <2>3, <3>2 DEF TotalInv
  <2>5. undisturbed' \in BOOLEAN
    BY <1>1, <1>4 DEF Works
  <2> QED BY <2>1, <2>2, <2>3, <2>4, <2>5, <1>2
<1> QED BY <1>3, <1>4 DEF Transfer

LEMMA DownloadStep ==
  ASSUME NetIInv, NEW kind \in Downloads, Download(kind)
  PROVE  NetIInv'
<1> USE NetConstants
<1>1. /\ main = kind /\ report' = [test |-> "none"] /\ kind \in Kinds
      /\ UNCHANGED <<program, host, root, world_write, shadow, os_name, netruns, datafile>>
  BY DEF Download, OnlyTransfers, Nothing, env, Kinds
<1>2. /\ total' \in [Kinds -> Nat] /\ seen' \in [Kinds -> Seq(Times)]
      /\ TotalInv' /\ undisturbed' \in BOOLEAN
      /\ \A k \in Kinds : k # kind => seen'[k] = seen[k]
      /\ Len(seen'[kind]) \in Nat /\ Len(seen'[kind]) <= Len(seen[kind]) + 1
  BY <1>1, TransferKept DEF Download
<1>3. i \in Nat /\ i < Transfers
  BY DEF NetIInv, NetInv, NetTypeOK
<1>4. IF i + 1 < Transfers
      THEN i' = i + 1 /\ main' = main
      ELSE i' = 0 /\ main' = IF kind = "HTTP" THEN "HTTPS" ELSE "averages"
  BY DEF Download, EndRound
<1>5. i' \in 0..(Transfers - 1) /\ main' \in {"HTTP", "HTTPS", "averages"}
  BY <1>1, <1>3, <1>4 DEF Downloads
<1>6. NetTypeOK'
  BY <1>1, <1>2, <1>5 DEF NetIInv, NetInv, NetTypeOK
<1>7. ShadowSurvives' /\ PamReported' /\ TestFileCleaned' /\ DownloadAverageInRange'
  BY <1>1, <1>5 DEF NetIInv, NetInv, ShadowSurvives, PamReported, TestFileCleaned,
     DownloadAverageInRange
<1>8. LengthInv'
  <2>1. /\ "HTTP" \in Kinds /\ "HTTPS" \in Kinds
        /\ Len(seen["HTTP"]) \in Nat /\ Len(seen["HTTPS"]) \in Nat
    BY DEF NetIInv, NetInv, NetTypeOK, Kinds, Downloads
  <2>2. CASE kind = "HTTP"
    <3>1. Len(seen'["HTTP"]) <= i + 1 /\ seen'["HTTPS"] = <<>>
      BY <1>1, <1>2, <1>3, <2>1, <2>2 DEF NetIInv, LengthInv
    <3>2. Len(<<>>) = 0
      OBVIOUS
    <3> QED BY <1>1, <1>2, <1>3, <1>4, <2>2, <3>1, <3>2 DEF LengthInv, Before
  <2>3. CASE kind = "HTTPS"
    <3>1. Len(seen'["HTTPS"]) <= i + 1 /\ Len(seen'["HTTP"]) <= Transfers
      BY <1>1, <1>2, <1>3, <2>1, <2>3 DEF NetIInv, LengthInv
    <3> QED BY <1>1, <1>2, <1>3, <1>4, <2>3, <3>1 DEF LengthInv, Before
  <2> QED BY <2>2, <2>3 DEF Downloads
<1> QED BY <1>2, <1>6, <1>7, <1>8 DEF NetIInv, NetInv

\* The totals are zero again after each report.
LEMMA Reset ==
  total' = Zero /\ seen' = [k \in Kinds |-> <<>>] =>
    /\ total' \in [Kinds -> Nat] /\ seen' \in [Kinds -> Seq(Times)] /\ TotalInv'
    /\ seen'["HTTP"] = <<>> /\ seen'["HTTPS"] = <<>>
BY DEF Zero, TotalInv, SumBetween, Kinds, Downloads

LEMMA AveragesStep == NetIInv /\ DownloadAverages => NetIInv'
<1> SUFFICES ASSUME NetIInv, DownloadAverages PROVE NetIInv'
  OBVIOUS
<1> USE NetConstants
<1>1. /\ main = "averages" /\ main' = "prepare"
      /\ UNCHANGED <<i, datafile, undisturbed>>
      /\ UNCHANGED <<program, host, root, world_write, shadow, os_name, netruns>>
      /\ total' = Zero /\ seen' = [k \in Kinds |-> <<>>]
      /\ report' = [test |-> "download", divisor |-> Transfers,
                    totals |-> [k \in Downloads |-> total[k]],
                    times |-> [k \in Downloads |-> seen[k]]]
  BY DEF DownloadAverages, ReportAverages, GoTo, Works, OnlyTransfers, env
<1>2. NetTypeOK'
  BY <1>1, Reset DEF NetIInv, NetInv, NetTypeOK
<1>3. ShadowSurvives' /\ PamReported' /\ TestFileCleaned' /\ LengthInv'
  BY <1>1 DEF NetIInv, NetInv, ShadowSurvives, PamReported, TestFileCleaned,
     LengthInv, Before
<1>4. DownloadAverageInRange'
  <2>1. /\ report'.test = "download" /\ report'.divisor = Transfers
        /\ \A k \in Downloads : report'.totals[k] = total[k]
                                /\ report'.times[k] = seen[k]
    BY <1>1
  <2>2. ASSUME NEW k \in Downloads
        PROVE  /\ InRange(report', k)
               /\ \A bound \in Times :
                    (\A n \in DOMAIN report'.times[k] :
                       report'.times[k][n] <= bound)
                      => report'.totals[k] <= report'.divisor * bound
    <3>1. /\ seen[k] \in Seq(Times) /\ total[k] \in Nat
          /\ SumBetween(seen[k], total[k])
      BY DEF NetIInv, NetInv, NetTypeOK, TotalInv, Kinds
    <3>2. Len(seen[k]) <= Transfers
      BY <1>1 DEF NetIInv, LengthInv, Downloads
    <3> QED BY <2>1, <3>1, <3>2, AverageInRange DEF InRange
  <2> QED BY <2>2 DEF DownloadAverageInRange
<1> QED BY <1>1, <1>2, <1>3, <1>4, Reset DEF NetIInv, NetInv

LEMMA UploadStep == NetIInv /\ (PrepareUpload \/ Upload) => NetIInv'
<1> SUFFICES ASSUME NetIInv, PrepareUpload \/ Upload PROVE NetIInv'
  OBVIOUS
<1> USE NetConstants
<1>1. UNCHANGED <<program, host, root, world_write, shadow, os_name, netruns>>
  BY DEF PrepareUpload, Upload, OnlyTransfers, env
<1>2. CASE PrepareUpload
  <2>1. /\ main' \in {"upload", "done"} /\ report' = [test |-> "none"]
        /\ UNCHANGED <<i, total, seen>>
        /\ datafile' \in {"absent", "part", "whole"}
    BY <1>2 DEF PrepareUpload, Nothing, transfers, NetIInv, NetInv, NetTypeOK
  <2>2. (main' = "upload" /\ undisturbed' = undisturbed) \/ undisturbed' = FALSE
    BY <1>2 DEF PrepareUpload, Works, Fails
  <2>3. undisturbed' \in BOOLEAN
    BY <2>2 DEF NetIInv, NetInv, NetTypeOK
  <2>4. NetTypeOK'
    BY <1>1, <2>1, <2>3 DEF NetIInv, NetInv, NetTypeOK, Ended
  <2>5. ShadowSurvives' /\ PamReported' /\ TestFileCleaned' /\ LengthInv'
        /\ DownloadAverageInRange' /\ TotalInv'
    BY <1>1, <2>1, <2>2 DEF NetIInv, NetInv, ShadowSurvives, PamReported,
       TestFileCleaned, LengthInv, TotalInv, DownloadAverageInRange, Before
  <2> QED BY <2>4, <2>5 DEF NetIInv, NetInv
<1>3. CASE Upload
  <2>1. /\ main = "upload" /\ "upload" \in Kinds
        /\ UNCHANGED <<datafile, report>>
        /\ IF i + 1 < Transfers THEN i' = i + 1 /\ main' = "upload"
                                ELSE i' = 0 /\ main' = "clean_up"
    BY <1>3 DEF Upload, EndRound, Kinds
  <2>2. /\ total' \in [Kinds -> Nat] /\ seen' \in [Kinds -> Seq(Times)]
        /\ TotalInv' /\ undisturbed' \in BOOLEAN
    BY <1>3, <2>1, TransferKept DEF Upload
  <2>3. undisturbed' = undisturbed \/ undisturbed' = FALSE
    BY <1>3 DEF Upload, Transfer, Works, Fails
  <2>4. i' \in 0..(Transfers - 1) /\ main' \in {"upload", "clean_up"}
    BY <2>1 DEF NetIInv, NetInv, NetTypeOK
  <2>5. NetTypeOK'
    BY <1>1, <2>1, <2>2, <2>4 DEF NetIInv, NetInv, NetTypeOK
  <2>6. PamReported'
    <3>1. PamReported /\ report' = report
      BY <2>1 DEF NetIInv, NetInv
    <3>2. CASE undisturbed' = undisturbed
      BY <3>1, <3>2 DEF PamReported
    <3>3. CASE undisturbed' = FALSE
      BY <3>3 DEF PamReported
    <3> QED BY <2>3, <3>2, <3>3
  <2>7. DownloadAverageInRange'
    BY <2>1 DEF NetIInv, DownloadAverageInRange, InRange
  <2>8. ShadowSurvives' /\ TestFileCleaned' /\ LengthInv'
    BY <1>1, <2>4 DEF NetIInv, NetInv, ShadowSurvives, TestFileCleaned, LengthInv,
       Before
  <2> QED BY <2>2, <2>5, <2>6, <2>7, <2>8 DEF NetIInv, NetInv
<1> QED BY <1>2, <1>3

LEMMA CleanUpStep == NetIInv /\ CleanUp => NetIInv'
<1> SUFFICES ASSUME NetIInv, CleanUp PROVE NetIInv'
  OBVIOUS
<1>1. /\ main = "clean_up" /\ main' = "done" /\ i' = i
      /\ UNCHANGED <<program, host, root, world_write, shadow, os_name, netruns>>
      /\ total' = Zero /\ seen' = [k \in Kinds |-> <<>>] /\ report'.test = "upload"
  BY DEF CleanUp, ReportAverages, GoTo, OnlyTransfers, env
<1>2. \/ /\ datafile' = IF host \in {"Ubuntu", "QNX"} THEN "absent" ELSE datafile
         /\ undisturbed' = undisturbed
      \/ datafile' = datafile /\ undisturbed' = FALSE
  BY DEF CleanUp, Works, Fails
<1>3. datafile' \in {"absent", "part", "whole"} /\ undisturbed' \in BOOLEAN
  BY <1>2 DEF NetIInv, NetInv, NetTypeOK
<1>4. NetTypeOK'
  BY <1>1, <1>3, Reset DEF NetIInv, NetInv, NetTypeOK, Ended
<1>5. TestFileCleaned'
  BY <1>1, <1>2 DEF TestFileCleaned
<1>6. ShadowSurvives' /\ PamReported' /\ LengthInv' /\ DownloadAverageInRange'
  BY <1>1 DEF NetIInv, NetInv, ShadowSurvives, PamReported, LengthInv, Before,
     DownloadAverageInRange
<1> QED BY <1>1, <1>4, <1>5, <1>6, Reset DEF NetIInv, NetInv

LEMMA NetKillOrRerunStep == NetIInv /\ (NetKill \/ NetRerun) => NetIInv'
<1> SUFFICES ASSUME NetIInv, NetKill \/ NetRerun PROVE NetIInv'
  OBVIOUS
<1> USE NetConstants
<1>1. CASE NetKill
  <2>1. /\ main' = "killed" /\ UNCHANGED <<i, host, root, world_write, shadow, os_name,
                 total, seen, datafile, report, undisturbed, netruns>>
    BY <1>1 DEF NetKill, netVars, env, transfers
  <2>2. NetTypeOK'
    BY <2>1 DEF NetIInv, NetInv, NetTypeOK, Ended
  <2>3. PamReported' /\ DownloadAverageInRange'
    BY <2>1 DEF NetIInv, NetInv, PamReported, DownloadAverageInRange, InRange
  <2>4. ShadowSurvives' /\ TestFileCleaned' /\ LengthInv' /\ TotalInv'
    BY <2>1 DEF NetIInv, NetInv, ShadowSurvives, TestFileCleaned, LengthInv,
       TotalInv, Before
  <2> QED BY <2>2, <2>3, <2>4 DEF NetIInv, NetInv
<1>2. CASE NetRerun
  <2>1. /\ main' = "get_os_name" /\ i' = 0 /\ os_name' = "UNKNOWN"
        /\ total' = Zero /\ seen' = [k \in Kinds |-> <<>>]
        /\ report' = [test |-> "none"] /\ undisturbed' = TRUE
        /\ UNCHANGED <<host, root, world_write, shadow, datafile>>
    BY <1>2 DEF NetRerun, Nothing, env
  <2>2. netruns' \in 1..MaxNetRuns /\ i' \in 0..(Transfers - 1)
    BY <1>2, <2>1 DEF NetRerun, NetIInv, NetInv, NetTypeOK
  <2>3. NetTypeOK'
    BY <2>1, <2>2, Reset DEF NetIInv, NetInv, NetTypeOK
  <2>4. ShadowSurvives' /\ PamReported' /\ TestFileCleaned' /\ LengthInv'
        /\ DownloadAverageInRange'
    BY <2>1, Reset DEF NetIInv, NetInv, ShadowSurvives, PamReported,
       TestFileCleaned, LengthInv, DownloadAverageInRange
  <2> QED BY <2>1, <2>3, <2>4, Reset DEF NetIInv, NetInv
<1> QED BY <1>1, <1>2

LEMMA NetStepInv == NetIInv /\ [NetNext]_<<shared, netVars>> => NetIInv'
<1> SUFFICES ASSUME NetIInv, [NetNext]_<<shared, netVars>> PROVE NetIInv'
  OBVIOUS
<1>1. CASE UNCHANGED <<shared, netVars>>
  <2>1. UNCHANGED <<main, i, host, root, world_write, shadow, os_name, total, seen,
                    datafile, report, undisturbed, netruns>>
    BY <1>1 DEF shared, netVars, env, transfers
  <2>2. NetTypeOK' /\ ShadowSurvives' /\ TestFileCleaned' /\ LengthInv' /\ TotalInv'
    BY <2>1 DEF NetIInv, NetInv, NetTypeOK, ShadowSurvives, TestFileCleaned,
       LengthInv, TotalInv
  <2>3. PamReported' /\ DownloadAverageInRange'
    BY <2>1 DEF NetIInv, NetInv, PamReported, DownloadAverageInRange, InRange
  <2> QED BY <2>2, <2>3 DEF NetIInv, NetInv
<1> QED BY <1>1, ChecksStep, ShadowStep, DownloadStep, AveragesStep, UploadStep,
        CleanUpStep, NetKillOrRerunStep DEF NetNext, NetSteps

LEMMA NetAlways == NetSpec => []NetIInv
BY NetInitInv, NetStepInv, PTL DEF NetSpec

\* The download averages lie between the smallest and the largest time, for any
\* number of transfers and any times that curl may report.
THEOREM AveragesInRange == NetSpec => []DownloadAverageInRange
<1>1. NetIInv => DownloadAverageInRange
  BY DEF NetIInv
<1> QED BY NetAlways, <1>1, PTL

\* A run in which nothing fails leaves no test file, whatever was left before.
THEOREM NoTestFile == NetSpec => []TestFileCleaned
<1>1. NetIInv => TestFileCleaned
  BY DEF NetIInv
<1> QED BY NetAlways, <1>1, PTL

\* Types are kept, a protected /etc/shadow survives the test that tries to
\* remove it, and PAM is reported when it is there.
THEOREM ChecksCorrect == NetSpec => []NetInv
<1>1. NetIInv => NetInv
  BY DEF NetIInv
<1> QED BY NetAlways, <1>1, PTL

------------------------------------------------------------------------------
(* network_and_security.c: the lists of ports.                             *)

\* What a listing has come to: each port of a socket once, and no other.
PortsInv ==
  /\ main \in {"attempts", "shadow", "tcp", "tcp_lines", "udp", "udp_lines"} =>
       os_name \in {"Ubuntu", "QNX"}
  /\ main \in {"tcp_lines", "udp_lines"} \/ report.test \in {"tcp", "udp"} =>
       /\ report.sockets \in Seq(Ports) /\ report.ports \in Seq(Ports)
       /\ IsInjective(report.ports)
       /\ ToSet(report.ports) = ToSet(report.sockets)

LEMMA PortRange == \A port \in Ports : port \in Nat /\ port > 0 /\ port < NumPorts
<1>1. NumPorts \in Nat
  BY DEF NumPorts
<1> QED BY <1>1, PortsAssumption

Token == [separated : BOOLEAN, port : Nat]

LEMMA Joined ==
  \A a, b \in Seq(Token) :
    /\ a \o b \in Seq(Token) /\ Len(a \o b) = Len(a) + Len(b)
    /\ \A k \in 1..Len(a) : (a \o b)[k] = a[k]
    /\ \A k \in 1..Len(b) : (a \o b)[Len(a) + k] = b[k]
<1> HIDE DEF Token
<1> QED OBVIOUS

LEMMA AppendedPort ==
  ASSUME NEW s \in Seq(Ports), NEW port \in Ports
  PROVE  /\ Append(s, port) \in Seq(Ports)
         /\ ToSet(Append(s, port)) = ToSet(s) \union {port}
         /\ IsInjective(s) /\ port \notin ToSet(s) => IsInjective(Append(s, port))
         /\ Contains(s, port) <=> port \in ToSet(s)
<1>1. /\ Append(s, port) \in Seq(Ports)
      /\ Len(s) \in Nat /\ Len(Append(s, port)) = Len(s) + 1
  OBVIOUS
<1>2. DOMAIN s = 1..Len(s) /\ DOMAIN Append(s, port) = 1..(Len(s) + 1)
  BY <1>1
<1>3. /\ \A k \in 1..Len(s) : Append(s, port)[k] = s[k]
      /\ Append(s, port)[Len(s) + 1] = port
  OBVIOUS
<1>4. 1..(Len(s) + 1) = (1..Len(s)) \union {Len(s) + 1}
  BY <1>1
<1>5. ToSet(Append(s, port)) = ToSet(s) \union {port}
  BY <1>2, <1>3, <1>4 DEF ToSet
<1>6. IsInjective(s) /\ port \notin ToSet(s) => IsInjective(Append(s, port))
  BY <1>2, <1>3, <1>4 DEF IsInjective, ToSet
<1>7. Contains(s, port) <=> port \in ToSet(s)
  BY <1>2 DEF Contains, ToSet
<1> QED BY <1>1, <1>5, <1>6, <1>7

\* The first separated token of a line of ss, and the fourth of one of netstat,
\* is the local address.
LEMMA NamedPort ==
  ASSUME NEW os \in {"Ubuntu", "QNX"}, NEW test \in {"tcp", "udp"}, NEW port \in Ports
  PROVE  LocalPort(os, SocketLine(os, test, port)) = port
<1> DEFINE n == IF os = "Ubuntu" /\ test = "tcp" THEN 4 ELSE 3
           line == SocketLine(os, test, port)
           fields == {k \in DOMAIN line : line[k].separated}
<1>1. /\ Words(n) \in Seq(Token)
      /\ Len(Words(n)) = n /\ \A k \in 1..n : Words(n)[k] = Word
  BY DEF Words, Word, Token
<1>2. /\ Address(port) \in Token
      /\ Address(0) \in Token
  BY PortRange DEF Address, Token
<1>3. line = Words(n) \o <<Address(port), Address(0)>>
  BY DEF SocketLine
<1>4. /\ DOMAIN line = 1..(n + 2) /\ Len(line) = n + 2
      /\ \A k \in 1..n : line[k] = Word
      /\ line[n + 1] = Address(port) /\ line[n + 2] = Address(0)
  <2> DEFINE a == Words(n)
             b == <<Address(port), Address(0)>>
  <2>1. n \in Nat /\ a \in Seq(Token) /\ Len(a) = n /\ \A k \in 1..n : a[k] = Word
    BY <1>1
  <2>2. b \in Seq(Token) /\ Len(b) = 2 /\ b[1] = Address(port) /\ b[2] = Address(0)
    BY <1>2
  <2>3. line = a \o b
    BY <1>3
  <2> HIDE DEF a, b, line, n
  <2>4. /\ line \in Seq(Token) /\ Len(line) = n + 2
        /\ \A k \in 1..n : line[k] = a[k]
        /\ line[n + 1] = b[1] /\ line[n + 2] = b[2]
    <3>1. Len(a) + 1 = n + 1 /\ Len(a) + 2 = n + 2 /\ 1 \in 1..Len(b) /\ 2 \in 1..Len(b)
      BY <2>1, <2>2
    <3>2. Len(a \o b) = n + 2
      <4>1. Len(a \o b) = Len(a) + Len(b)
        BY <2>1, <2>2, Joined
      <4> QED BY <4>1, <2>1, <2>2
    <3> QED BY <2>1, <2>2, <2>3, <3>1, <3>2, Joined
  <2> QED BY <2>1, <2>2, <2>4
<1>5. fields = {n + 1, n + 2}
  <2>1. /\ n \in Nat /\ \A k \in 1..n : ~line[k].separated
        /\ line[n + 1].separated /\ line[n + 2].separated
    BY <1>4 DEF Word, Address
  <2> HIDE DEF n, line
  <2> QED BY <2>1, <1>4
<1>6. Min(fields) = n + 1 /\ Min({4}) = 4
  <2>1. n \in Nat
    OBVIOUS
  <2> HIDE DEF n, fields
  <2>2. \A x \in fields : (\A y \in fields : x <= y) <=> x = n + 1
    BY <2>1, <1>5
  <2> QED BY <2>1, <2>2, <1>5 DEF Min
<1>7. Len(Header) = 7
  <2> DEFINE a == Words(4)
             b == <<Address(0), Word, Address(0)>>
  <2>1. Len(a) = 4 /\ a \in Seq(Token)
    BY DEF Words, Word, Token
  <2>2. Len(b) = 3 /\ b \in Seq(Token)
    BY DEF Address, Word, Token
  <2>3. Header = a \o b
    BY DEF Header
  <2> HIDE DEF a, b
  <2>4. Len(a \o b) = Len(a) + Len(b)
    BY <2>1, <2>2, Joined
  <2> QED BY <2>1, <2>2, <2>3, <2>4
<1>8. line # Header
  <2>1. Len(line) # 7
    BY <1>4
  <2> HIDE DEF line
  <2> QED BY <2>1, <1>7
<1>9. line[n + 1].port = port
  BY <1>4 DEF Address
<1> HIDE DEF line, fields
<1>10. CASE os = "Ubuntu"
  <2>1. fields # {}
    BY <1>5
  <2>2. LocalPort(os, line) = line[Min(fields)].port
    BY <1>8, <1>10, <2>1 DEF LocalPort, fields
  <2> QED BY <2>2, <1>6, <1>9 DEF line
<1>11. CASE os = "QNX"
  <2>1. n = 3
    BY <1>11
  <2>2. fields \intersect {4} = {4}
    <3>1. 4 \in fields
      BY <1>5, <2>1
    <3> QED BY <3>1
  <2>3. LocalPort(os, line) = line[4].port
    BY <1>6, <1>11, <2>2 DEF LocalPort, fields
  <2> QED BY <2>1, <2>3, <1>9 DEF line
<1> QED BY <1>10, <1>11

\* The header names no port.
LEMMA NoPort == AddPort(<<>>, LocalPort("Ubuntu", Header)) = <<>>
<1>1. LocalPort("Ubuntu", Header) = 0
  BY DEF LocalPort
<1> QED BY <1>1 DEF AddPort

\* A port is added to the list unless it is there.
LEMMA ListedOnce ==
  ASSUME NEW ports \in Seq(Ports), NEW sockets \in Seq(Ports), NEW port \in Ports,
         IsInjective(ports), ToSet(ports) = ToSet(sockets)
  PROVE  /\ Append(sockets, port) \in Seq(Ports) /\ AddPort(ports, port) \in Seq(Ports)
         /\ IsInjective(AddPort(ports, port))
         /\ ToSet(AddPort(ports, port)) = ToSet(Append(sockets, port))
<1>1. port > 0 /\ port < NumPorts
  BY PortRange
<1>2. CASE Contains(ports, port)
  <2>1. AddPort(ports, port) = ports
    BY <1>2 DEF AddPort
  <2>2. port \in ToSet(ports)
    BY <1>2, AppendedPort
  <2>3. /\ Append(sockets, port) \in Seq(Ports)
        /\ ToSet(Append(sockets, port)) = ToSet(sockets) \union {port}
    BY AppendedPort
  <2> QED BY <2>1, <2>2, <2>3
<1>3. CASE ~Contains(ports, port)
  <2>1. AddPort(ports, port) = Append(ports, port)
    BY <1>1, <1>3 DEF AddPort
  <2>2. port \notin ToSet(ports)
    BY <1>3, AppendedPort
  <2> QED BY <2>1, <2>2, AppendedPort
<1> QED BY <1>2, <1>3

LEMMA PortsInitInv == NetInit => PortsInv
BY DEF NetInit, PortsInv, Nothing

LEMMA CheckPortsStep ==
  ASSUME PortsInv, NEW test \in {"tcp", "udp"}, CheckPorts(test)
  PROVE  PortsInv'
<1> USE DEF GoTo, Lines, AfterPorts, Checked
<1>1. os_name' = os_name
  BY DEF CheckPorts, OpenListing, PortLine, EndListing
<1>2. CASE OpenListing(test)
  <2>1. main = test /\ os_name \in {"Ubuntu", "QNX"}
    BY <1>2 DEF OpenListing, PortsInv
  <2>2. CASE main' = AfterPorts(test) /\ report' = Nothing
    BY <1>1, <2>1, <2>2 DEF PortsInv, Nothing
  <2>3. CASE /\ main' = Lines(test) /\ report'.sockets = <<>>
             /\ report'.ports = IF os_name = "Ubuntu" /\ test = "udp"
                                THEN AddPort(<<>>, LocalPort(os_name, Header))
                                ELSE <<>>
    <3>1. report'.ports = <<>> /\ report'.sockets = <<>>
      BY <2>3, NoPort
    <3>2. <<>> \in Seq(Ports) /\ IsInjective(<<>>)
      BY DEF IsInjective
    <3>3. os_name' \in {"Ubuntu", "QNX"}
      BY <1>1, <2>1
    <3> QED BY <3>1, <3>2, <3>3 DEF PortsInv
  <2> QED BY <1>2, <2>2, <2>3 DEF OpenListing
<1>3. CASE PortLine(test)
  <2>1. /\ main \in {"tcp_lines", "udp_lines"} /\ main' = main
        /\ os_name \in {"Ubuntu", "QNX"}
        /\ report.sockets \in Seq(Ports) /\ report.ports \in Seq(Ports)
        /\ IsInjective(report.ports)
        /\ ToSet(report.ports) = ToSet(report.sockets)
    BY <1>3 DEF PortLine, PortsInv
  <2>2. PICK port \in Ports :
          /\ report'.sockets = Append(report.sockets, port)
          /\ report'.ports =
               AddPort(report.ports,
                       LocalPort(os_name, SocketLine(os_name, test, port)))
    BY <1>3 DEF PortLine
  <2>3. report'.ports = AddPort(report.ports, port)
    BY <2>1, <2>2, NamedPort
  <2>4. /\ report'.sockets \in Seq(Ports) /\ report'.ports \in Seq(Ports)
        /\ IsInjective(report'.ports)
        /\ ToSet(report'.ports) = ToSet(report'.sockets)
    BY <2>1, <2>2, <2>3, ListedOnce
  <2> QED BY <1>1, <2>1, <2>4 DEF PortsInv
<1>4. CASE EndListing(test)
  <2>1. main \in {"tcp_lines", "udp_lines"} /\ report' = report
        /\ (main' = "udp" \/ main' = "ciphers")
    BY <1>4 DEF EndListing
  <2> QED BY <1>1, <2>1 DEF PortsInv
<1> QED BY <1>2, <1>3, <1>4 DEF CheckPorts

LEMMA PortsStepInv == PortsInv /\ [NetNext]_<<shared, netVars>> => PortsInv'
<1> SUFFICES ASSUME PortsInv, [NetNext]_<<shared, netVars>> PROVE PortsInv'
  OBVIOUS
<1> USE DEF GoTo
<1>1. CASE UNCHANGED <<shared, netVars>>
  BY <1>1 DEF shared, netVars, PortsInv
<1>2. CASE GetOsName \/ CheckAuthLog \/ FailedAttempts \/ ShadowAccess \/ CheckCiphers
  <2>1. main' \notin {"tcp_lines", "udp_lines"}
    BY <1>2 DEF GetOsName, CheckAuthLog, FailedAttempts, ShadowAccess, CheckCiphers
  <2>2. report' = report \/ report'.test \notin {"tcp", "udp"}
    <3>1. CASE GetOsName
      BY <3>1 DEF GetOsName
    <3>2. CASE CheckAuthLog
      BY <3>2 DEF CheckAuthLog, Checked, Nothing
    <3>3. CASE FailedAttempts
      <4>1. report'.test = "attempts"
        BY <3>3 DEF FailedAttempts, Checked
      <4> QED BY <4>1
    <3>4. CASE ShadowAccess
      BY <3>4 DEF ShadowAccess, Checked
    <3>5. CASE CheckCiphers
      BY <3>5 DEF CheckCiphers, Checked, Nothing
    <3> QED BY <1>2, <3>1, <3>2, <3>3, <3>4, <3>5
  <2>3. main' \in {"attempts", "shadow", "tcp", "udp"} => os_name' \in {"Ubuntu", "QNX"}
    BY <1>2 DEF GetOsName, CheckAuthLog, FailedAttempts, ShadowAccess, CheckCiphers,
       Checked, PortsInv
  <2> QED BY <2>1, <2>2, <2>3 DEF PortsInv
<1>3. CASE \E kind \in Downloads : Download(kind)
  BY <1>3 DEF Download, EndRound, Nothing, PortsInv, Downloads
<1>4. CASE DownloadAverages \/ PrepareUpload \/ Upload \/ CleanUp
  BY <1>4 DEF DownloadAverages, PrepareUpload, Upload, CleanUp, ReportAverages,
     EndRound, Nothing, PortsInv
<1>5. CASE NetKill \/ NetRerun
  BY <1>5 DEF NetKill, NetRerun, netVars, Nothing, PortsInv
<1> QED BY <1>1, <1>2, <1>3, <1>4, <1>5, CheckPortsStep DEF NetNext, NetSteps

LEMMA PortsAlways == NetSpec => []PortsInv
BY PortsInitInv, PortsStepInv, PTL DEF NetSpec

\* Each port that has a socket is printed once, and nothing else is, for any
\* ports and any listing.
THEOREM PortsCorrect == NetSpec => []PortsExact
<1>1. PortsInv => PortsExact
  BY DEF PortsInv, PortsExact
<1> QED BY PortsAlways, <1>1, PTL

------------------------------------------------------------------------------
(* linux_priority_inversion.c: on one CPU a wait of the high-priority      *)
(* thread ends only after the medium one has ended, on several it is no    *)
(* longer than the hold.                                                   *)

Exited == {"done", "crashed"}
Unstarted == {"absent", "start"}

\* Where main is before it has posted the semaphore of a thread.
Until(t) ==
  {"pin", "promote", "create_low", "create_med", "create_high", "post_low"}
    \union (IF t = "low" THEN {} ELSE {"usleep_1", "post_med"})
    \union (IF t = "high" THEN {"usleep_2", "post_high"} ELSE {})

\* A semaphore is posted once and its thread takes it once; the threads end
\* with the process.
StartInv ==
  \A t \in Threads :
    /\ main \in Until(t) => sem[t] = 0 /\ thread[t] \in Unstarted
    /\ main \notin Until(t) \union Exited => (sem[t] = 1 <=> thread[t] \in Unstarted)
    /\ main \in Exited => thread[t] \in {"absent", "done", "killed"}
    /\ thread[t] = "killed" => main \in Exited

\* The mutex belongs to the thread that is in its critical section; the medium
\* thread never asks for it.
LinuxMutexInv ==
  /\ thread["med"] # "lock"
  /\ thread["low"] = "run" <=> owner = "low" /\ main \notin Exited
  /\ thread["high"] = "run" <=> owner = "high" /\ main \notin Exited
  /\ owner = "high" => thread["high"] \in {"run", "killed"}
  /\ thread["high"] \in {"absent", "start", "lock"} => waited = 0

Longer == IF Hold > Med THEN Hold ELSE Med

\* The low-priority thread asks for the mutex before any other thread is there:
\* main sleeps until it has.
LowFirst ==
  /\ main = "usleep_1" /\ thread["low"] \in {"start", "lock"} => clock < wakeAt
  /\ main \notin Until("low") \union {"usleep_1"} \union Exited =>
       thread["low"] \notin {"start", "lock"}

\* While the high-priority thread waits: whoever holds the mutex or computes
\* began before, and time has passed only if the mutex was taken; if the mutex
\* is free again then the medium thread is done, if there is a single CPU.
WaitInv ==
  thread["high"] = "lock" =>
    /\ owner \in {Free, "low"}
    /\ owner = "low" => t0["low"] <= t0["high"]
    /\ thread["med"] = "run" => t0["med"] <= t0["high"]
    /\ thread["med"] = "start" => clock = t0["high"]
    /\ clock <= t0["high"] + Longer
    /\ cpus > 1 => clock <= t0["high"] + Hold
    /\ owner = Free /\ clock > t0["high"] /\ cpus = 1 =>
         thread["med"] \in {"absent", "done"}

LinuxIInv ==
  LinuxTypeOK /\ StartInv /\ LinuxMutexInv /\ LowFirst /\ WaitInv /\ WaitsOverlap
  /\ InversionShown

LEMMA LinuxConstants ==
  /\ Hold \in Nat /\ Hold > 0 /\ Med \in Nat /\ Med > 0 /\ MaxLate \in Nat
  /\ Gap \in Nat /\ Gap > 0 /\ MaxFaults \in Nat /\ NumCpus \in Nat /\ NumCpus > 0
  /\ Longer \in Nat /\ Hold <= Longer /\ Med <= Longer
BY TimeAssumption, GapAssumption, CpuAssumption, FaultsAssumption DEF Longer

\* Each thread is one of three.
LEMMA ThreeThreads ==
  Threads = {"low", "med", "high"} /\ "low" \in Threads /\ "med" \in Threads
  /\ "high" \in Threads
BY DEF Threads

LEMMA Prios ==
  /\ EffectivePrio("low") = 1 /\ EffectivePrio("med") = 2 /\ EffectivePrio("high") = 3
  /\ PrioMax = 3 /\ SchedOther = 0
BY DEF EffectivePrio, Prio, PrioMax, SchedOther

\* The threads that are ahead of a priority, and how many they are.
ThreadsAhead(prio) == {u \in Threads : CanRun(u) /\ EffectivePrio(u) > prio}
MainAhead(prio) == MainCanRun /\ mainPrio > prio

LEMMA AheadCount ==
  ASSUME NEW prio
  PROVE  /\ IsFiniteSet(ThreadsAhead(prio)) /\ Cardinality(ThreadsAhead(prio)) \in Nat
         /\ MainAhead(prio) => Ahead(prio) = Cardinality(ThreadsAhead(prio)) + 1
         /\ ~MainAhead(prio) => Ahead(prio) = Cardinality(ThreadsAhead(prio))
<1>1. IsFiniteSet(Threads)
  <2>1. IsFiniteSet({"low"} \union {"med"})
    BY FS_Singleton, FS_AddElement
  <2>2. IsFiniteSet(({"low"} \union {"med"}) \union {"high"})
    BY <2>1, FS_AddElement
  <2>3. Threads = ({"low"} \union {"med"}) \union {"high"}
    BY DEF Threads
  <2> QED BY <2>2, <2>3
<1>2. ThreadsAhead(prio) \in SUBSET Threads
  BY DEF ThreadsAhead
<1>3. IsFiniteSet(ThreadsAhead(prio)) /\ Cardinality(ThreadsAhead(prio)) \in Nat
  BY <1>1, <1>2, FS_Subset, FS_CardinalityType
<1>4. Ahead(prio) = Cardinality(ThreadsAhead(prio)) + IF MainAhead(prio) THEN 1 ELSE 0
  BY DEF Ahead, ThreadsAhead, MainAhead
<1> QED BY <1>3, <1>4

LEMMA NobodyAhead ==
  ASSUME NEW prio, ThreadsAhead(prio) = {}, ~MainAhead(prio)
  PROVE  Ahead(prio) = 0
BY AheadCount, FS_EmptySet

\* On a single CPU the low-priority thread does not run while the medium one can.
LEMMA HigherFirst ==
  ASSUME cpus = 1, IsRunning("low")
  PROVE  ~CanRun("med")
<1>1. Ahead(1) < 1
  BY Prios DEF IsRunning
<1>2. ThreadsAhead(1) = {}
  BY <1>1, AheadCount, FS_EmptySet
<1> QED BY <1>2, Prios, ThreeThreads DEF ThreadsAhead

\* When main does not run, who does.
LEMMA WhoRuns ==
  ASSUME LinuxTypeOK, ~MainRuns
  PROVE  /\ CanRun("high") => IsRunning("high")
         /\ CanRun("med") /\ ~CanRun("high") => IsRunning("med")
         /\ CanRun("low") /\ ~CanRun("high") /\ (CanRun("med") => cpus > 1)
              => IsRunning("low")
<1> USE ThreeThreads, Prios
<1>1. cpus \in Nat /\ cpus > 0 /\ (mainPrio = 0 \/ mainPrio = 3)
  BY LinuxConstants DEF LinuxTypeOK
<1>2. ThreadsAhead(3) = {}
  BY DEF ThreadsAhead
<1>3. ~(MainCanRun /\ mainPrio = 3)
  <2> SUFFICES ASSUME MainCanRun, mainPrio = 3 PROVE FALSE
    OBVIOUS
  <2>1. ~MainAhead(3)
    BY DEF MainAhead
  <2>2. Ahead(3) = 0
    BY <1>2, <2>1, NobodyAhead
  <2> QED BY <1>1, <2>2 DEF MainRuns
<1>4. ~MainAhead(1) /\ ~MainAhead(2) /\ ~MainAhead(3)
  BY <1>1, <1>3 DEF MainAhead
<1>5. CanRun("high") => IsRunning("high")
  <2>1. Ahead(3) = 0
    BY <1>2, <1>4, NobodyAhead
  <2> QED BY <1>1, <2>1 DEF IsRunning
<1>6. ASSUME CanRun("med"), ~CanRun("high") PROVE IsRunning("med")
  <2>1. ThreadsAhead(2) = {}
    BY <1>6 DEF ThreadsAhead
  <2>2. Ahead(2) = 0
    BY <1>4, <2>1, NobodyAhead
  <2> QED BY <1>1, <1>6, <2>2 DEF IsRunning
<1>7. ASSUME CanRun("low"), ~CanRun("high"), CanRun("med") => cpus > 1
      PROVE  IsRunning("low")
  <2>1. CASE ~CanRun("med")
    <3>1. ThreadsAhead(1) = {}
      BY <1>7, <2>1 DEF ThreadsAhead
    <3>2. Ahead(1) = 0
      BY <1>4, <3>1, NobodyAhead
    <3> QED BY <1>1, <1>7, <3>2 DEF IsRunning
  <2>2. CASE CanRun("med")
    <3>1. ThreadsAhead(1) = {"med"}
      BY <1>7, <2>2 DEF ThreadsAhead
    <3>2. Ahead(1) = 1
      BY <1>4, <3>1, AheadCount, FS_Singleton
    <3> QED BY <1>1, <1>7, <2>2, <3>2 DEF IsRunning
  <2> QED BY <2>1, <2>2
<1> QED BY <1>5, <1>6, <1>7

LEMMA LinuxInitInv == LinuxInit => LinuxIInv
<1> SUFFICES ASSUME LinuxInit PROVE LinuxIInv
  OBVIOUS
<1>1. /\ main = "pin" /\ clock = 0 /\ waited = 0 /\ owner = Free
      /\ thread = [t \in Threads |-> "absent"] /\ sem = [t \in Threads |-> 0]
  BY DEF LinuxInit
<1>2. LinuxTypeOK
  BY <1>1, LinuxConstants DEF LinuxInit, LinuxTypeOK, MainSteps, SchedOther
<1>3. StartInv /\ LowFirst
  BY <1>1, ThreeThreads DEF StartInv, LowFirst, Until, Exited, Unstarted
<1>4. LinuxMutexInv /\ WaitInv /\ InversionShown
  BY <1>1, ThreeThreads DEF LinuxMutexInv, WaitInv, InversionShown, Free
<1>5. WaitsOverlap
  BY <1>1, LinuxConstants DEF WaitsOverlap
<1> QED BY <1>2, <1>3, <1>4, <1>5 DEF LinuxIInv

\* Time passes: if the high-priority thread waits, then the low-priority one
\* spins and holds the mutex, or the medium one spins.
LEMMA LinuxTickStep == LinuxIInv /\ LinuxTick => LinuxIInv'
<1> SUFFICES ASSUME LinuxIInv, LinuxTick PROVE LinuxIInv'
  OBVIOUS
<1> USE LinuxConstants, ThreeThreads
<1>1. /\ clock' = clock + 1
      /\ UNCHANGED <<main, cpus, mainPrio, wakeAt, thread, sem, t0, owner, waited, faults>>
  BY DEF LinuxTick, mainVars
<1>2. LinuxTypeOK /\ clock \in Nat /\ waited \in Nat
  BY DEF LinuxIInv, LinuxTypeOK
<1>3. LinuxTypeOK'
  <2>1. t0' \in [Threads -> 0..clock'] /\ waited' \in 0..clock' /\ clock' \in Nat
    BY <1>1, <1>2 DEF LinuxTypeOK
  <2> QED BY <2>1, <1>1, <1>2 DEF LinuxTypeOK
<1>4. StartInv' /\ LinuxMutexInv' /\ WaitsOverlap' /\ InversionShown'
  BY <1>1 DEF LinuxIInv, StartInv, LinuxMutexInv, WaitsOverlap, InversionShown
<1>5. ~MainRuns /\ \A t \in Threads : IsRunning(t) => Spins(t)
  BY DEF LinuxTick
<1>6. WaitInv'
  <2> SUFFICES ASSUME thread["high"] = "lock" PROVE WaitInv'
    BY <1>1 DEF WaitInv
  <2>1. WaitInv /\ t0["low"] \in Nat /\ t0["med"] \in Nat /\ t0["high"] \in Nat
        /\ t0["high"] <= clock
    BY <1>2 DEF LinuxIInv, LinuxTypeOK
  <2>2. main \notin Until("high") /\ main \notin Until("med") /\ main \notin Exited
    BY DEF LinuxIInv, StartInv, Until, Exited, Unstarted
  <2>3. main \notin {"usleep_1", "usleep_2"}
    BY <2>2 DEF Until
  <2>4. PICK t \in Threads : IsRunning(t) /\ Spins(t)
    BY <2>3 DEF LinuxTick
  <2>5. CanRun(t) /\ thread[t] = "run" /\ t \in {"low", "med"}
    BY <2>4 DEF IsRunning, Spins
  <2>6. ~CanRun("high")
    BY <1>2, <1>5, WhoRuns DEF Spins
  <2>7. owner = "low"
    BY <2>1, <2>6 DEF CanRun, WaitInv
  <2>8. thread["med"] # "start"
    <3> SUFFICES ASSUME thread["med"] = "start" PROVE FALSE
      OBVIOUS
    <3>1. sem["med"] = 1
      BY <2>2 DEF LinuxIInv, StartInv, Unstarted
    <3>2. CanRun("med")
      BY <3>1 DEF CanRun
    <3>3. IsRunning("med")
      BY <1>2, <1>5, <2>6, <3>2, WhoRuns
    <3> QED BY <1>5, <3>3 DEF Spins
  <2>9. clock + 1 <= t0["high"] + Longer
    <3>1. CASE t = "low"
      BY <3>1, <2>1, <2>4, <2>7, <1>2 DEF Spins, WaitInv
    <3>2. CASE t = "med"
      BY <3>2, <2>1, <2>4, <2>5, <1>2 DEF Spins, WaitInv
    <3> QED BY <3>1, <3>2, <2>5
  <2>10. cpus > 1 => clock + 1 <= t0["high"] + Hold
    <3> SUFFICES ASSUME cpus > 1 PROVE clock + 1 <= t0["high"] + Hold
      OBVIOUS
    <3>1. thread["low"] = "run"
      BY <2>2, <2>7 DEF LinuxIInv, LinuxMutexInv
    <3>2. IsRunning("low")
      BY <1>2, <1>5, <2>6, <3>1, WhoRuns DEF CanRun
    <3>3. Spins("low")
      BY <1>5, <3>2
    <3> QED BY <1>2, <2>1, <2>7, <3>3 DEF Spins, WaitInv
  <2> QED BY <1>1, <2>1, <2>7, <2>8, <2>9, <2>10 DEF WaitInv, Free
<1>7. LowFirst'
  <2> SUFFICES ASSUME main = "usleep_1", thread["low"] \in {"start", "lock"} PROVE FALSE
    BY <1>1 DEF LinuxIInv, LowFirst
  <2>1. /\ thread["high"] \in Unstarted /\ sem["high"] = 0
        /\ thread["med"] \in Unstarted /\ sem["med"] = 0
        /\ thread["low"] = "start" => sem["low"] = 1
    BY DEF LinuxIInv, StartInv, Until, Exited, Unstarted
  <2>2. ~CanRun("high") /\ ~CanRun("med")
    BY <2>1 DEF CanRun, Unstarted
  <2>3. owner = Free
    BY <2>1 DEF LinuxIInv, LinuxTypeOK, LinuxMutexInv, Unstarted, Exited
  <2>4. CanRun("low")
    BY <2>1, <2>3 DEF CanRun
  <2>5. IsRunning("low")
    BY <1>2, <1>5, <2>2, <2>4, WhoRuns
  <2> QED BY <1>5, <2>5 DEF Spins
<1> QED BY <1>3, <1>4, <1>6, <1>7 DEF LinuxIInv

\* Main goes on, and neither creates a thread nor posts a semaphore.
LEMMA MainGoesOn ==
  LinuxIInv /\ (PinFails \/ Promote \/ PromoteFails \/ EndSleep \/ Lower
                \/ \E t \in Threads : ThreadCreateFails(t)) => LinuxIInv'
<1> SUFFICES ASSUME LinuxIInv,
                    PinFails \/ Promote \/ PromoteFails \/ EndSleep \/ Lower
                      \/ \E t \in Threads : ThreadCreateFails(t)
             PROVE  LinuxIInv'
  OBVIOUS
<1> USE LinuxConstants DEF GoTo, GoToCreate
<1>1. UNCHANGED <<clock, cpus, wakeAt, thread, sem, t0, owner, waited>>
  BY DEF PinFails, Promote, PromoteFails, EndSleep, Lower, ThreadCreateFails
<1>2. /\ main \notin Exited /\ main' \notin Exited /\ main' \in MainSteps
      /\ \A t \in Threads : main \in Until(t) <=> main' \in Until(t)
  BY DEF PinFails, Promote, PromoteFails, EndSleep, Lower, ThreadCreateFails, Until, Exited,
     Threads, MainSteps
<1>3. mainPrio' \in {SchedOther, PrioMax} /\ faults' \in 0..MaxFaults
  <2>1. mainPrio \in {SchedOther, PrioMax} /\ faults \in 0..MaxFaults
    BY DEF LinuxIInv, LinuxTypeOK
  <2> QED BY <2>1 DEF PinFails, Promote, PromoteFails, EndSleep, Lower, ThreadCreateFails
<1>4. LinuxTypeOK'
  BY <1>1, <1>2, <1>3 DEF LinuxIInv, LinuxTypeOK
<1>5. StartInv'
  BY <1>1, <1>2 DEF LinuxIInv, StartInv
<1>6. LinuxMutexInv' /\ WaitInv' /\ WaitsOverlap' /\ InversionShown'
  BY <1>1, <1>2 DEF LinuxIInv, LinuxMutexInv, WaitInv, WaitsOverlap, InversionShown
<1>7. LowFirst'
  <2>1. main' # "usleep_1" /\ (main = "usleep_1" => clock >= wakeAt)
    BY DEF PinFails, Promote, PromoteFails, EndSleep, Lower, ThreadCreateFails, MainRuns,
       MainCanRun
  <2>2. main = "usleep_1" => thread["low"] \notin {"start", "lock"}
    BY <2>1 DEF LinuxIInv, LinuxTypeOK, LowFirst
  <2> QED BY <1>1, <1>2, <2>1, <2>2, ThreeThreads DEF LinuxIInv, LowFirst
<1> QED BY <1>4, <1>5, <1>6, <1>7 DEF LinuxIInv

\* Main binds itself to a CPU, before there are threads.
LEMMA PinStep == LinuxIInv /\ Pin => LinuxIInv'
<1> SUFFICES ASSUME LinuxIInv, Pin PROVE LinuxIInv'
  OBVIOUS
<1> USE LinuxConstants, ThreeThreads
<1>1. /\ main = "pin" /\ main' = "promote" /\ cpus' = 1
      /\ UNCHANGED <<clock, mainPrio, wakeAt, thread, sem, t0, owner, waited, faults>>
  BY DEF Pin, GoTo
<1>2. \A t \in Threads : thread[t] \in Unstarted /\ sem[t] = 0
  BY <1>1 DEF LinuxIInv, StartInv, Until
<1>3. LinuxTypeOK'
  BY <1>1 DEF LinuxIInv, LinuxTypeOK, MainSteps
<1>4. StartInv' /\ LowFirst'
  BY <1>1, <1>2 DEF StartInv, LowFirst, Until, Exited, Unstarted
<1>5. waited = 0
  BY <1>2 DEF LinuxIInv, LinuxMutexInv, Unstarted
<1>6. LinuxMutexInv' /\ WaitInv' /\ InversionShown' /\ WaitsOverlap'
  BY <1>1, <1>2, <1>5 DEF LinuxIInv, LinuxMutexInv, WaitInv, InversionShown, WaitsOverlap,
     Unstarted, Exited
<1> QED BY <1>3, <1>4, <1>6 DEF LinuxIInv

LEMMA CreateThreadStep ==
  ASSUME LinuxIInv, NEW t \in Threads, CreateThread(t)
  PROVE  LinuxIInv'
<1> USE ThreeThreads DEF GoTo, GoToCreate
<1>1. /\ UNCHANGED <<clock, cpus, mainPrio, wakeAt, sem, t0, owner, waited, faults>>
      /\ thread' = [thread EXCEPT ![t] = "start"]
  BY DEF CreateThread
<1>2. /\ main \notin Exited /\ main' \notin Exited /\ main' \in MainSteps
      /\ \A u \in Threads : main \in Until(u) /\ main' \in Until(u)
  BY DEF CreateThread, Until, Exited, MainSteps
<1>3. thread \in [Threads -> {"absent", "start", "lock", "run", "done", "killed"}]
  BY DEF LinuxIInv, LinuxTypeOK
<1>4. \A u \in Threads : /\ thread[u] \in Unstarted /\ thread'[u] \in Unstarted
                         /\ sem[u] = 0
  BY <1>1, <1>2, <1>3 DEF LinuxIInv, StartInv, Unstarted
<1>5. LinuxTypeOK'
  BY <1>1, <1>2 DEF LinuxIInv, LinuxTypeOK
<1>6. StartInv' /\ LowFirst'
  BY <1>1, <1>2, <1>4 DEF StartInv, LowFirst, Unstarted, Until
<1>7. owner = Free /\ waited = 0
  BY <1>2, <1>4 DEF LinuxIInv, LinuxTypeOK, LinuxMutexInv, Unstarted
<1>8. LinuxMutexInv' /\ WaitInv' /\ InversionShown'
  BY <1>1, <1>4, <1>7 DEF LinuxMutexInv, WaitInv, InversionShown, Unstarted, Free
<1>9. WaitsOverlap'
  BY <1>1 DEF LinuxIInv, WaitsOverlap
<1> QED BY <1>5, <1>6, <1>8, <1>9 DEF LinuxIInv

LEMMA PostStep ==
  ASSUME LinuxIInv, NEW t \in Threads, Post(t)
  PROVE  LinuxIInv'
<1> USE LinuxConstants, ThreeThreads DEF GoTo
<1>1. /\ UNCHANGED <<clock, cpus, mainPrio, thread, t0, owner, waited, faults>>
      /\ sem' = [sem EXCEPT ![t] = @ + 1]
  BY DEF Post
<1>2. /\ main \notin Exited /\ main' \notin Exited /\ main' \in MainSteps
      /\ main \in Until(t) /\ main' \notin Until(t)
      /\ \A u \in Threads : u # t => (main \in Until(u) <=> main' \in Until(u))
  BY DEF Post, Until, Exited, MainSteps
<1>3. sem \in [Threads -> 0..1] /\ sem[t] = 0 /\ thread[t] \in Unstarted
  BY <1>2 DEF LinuxIInv, LinuxTypeOK, StartInv
<1>4. /\ sem' \in [Threads -> 0..1] /\ sem'[t] = 1
      /\ \A u \in Threads : u # t => sem'[u] = sem[u]
  BY <1>1, <1>3
<1>5. wakeAt' \in Nat
  <2>1. wakeAt \in Nat /\ clock \in Nat
    BY DEF LinuxIInv, LinuxTypeOK
  <2>2. wakeAt' \in {wakeAt} \union ((clock + Gap)..(clock + Gap + MaxLate))
    BY DEF Post
  <2> QED BY <2>1, <2>2
<1>6. LinuxTypeOK'
  BY <1>1, <1>2, <1>4, <1>5 DEF LinuxIInv, LinuxTypeOK
<1>7. StartInv'
  <2> SUFFICES ASSUME NEW u \in Threads
               PROVE  /\ main' \in Until(u) => sem'[u] = 0 /\ thread'[u] \in Unstarted
                      /\ main' \notin Until(u) \union Exited =>
                           (sem'[u] = 1 <=> thread'[u] \in Unstarted)
                      /\ main' \in Exited => thread'[u] \in {"absent", "done", "killed"}
                      /\ thread'[u] = "killed" => main' \in Exited
    BY DEF StartInv
  <2>1. CASE u = t
    BY <2>1, <1>1, <1>2, <1>3, <1>4 DEF Unstarted
  <2>2. CASE u # t
    BY <2>2, <1>1, <1>2, <1>4 DEF LinuxIInv, StartInv
  <2> QED BY <2>1, <2>2
<1>8. LinuxMutexInv' /\ WaitInv' /\ WaitsOverlap' /\ InversionShown'
  BY <1>1, <1>2 DEF LinuxIInv, LinuxMutexInv, WaitInv, WaitsOverlap, InversionShown
<1>9. LowFirst'
  <2>1. CASE t = "low"
    <3>1. main' = "usleep_1" /\ wakeAt' \in (clock + Gap)..(clock + Gap + MaxLate)
      BY <2>1 DEF Post
    <3>2. clock < wakeAt'
      BY <3>1 DEF LinuxIInv, LinuxTypeOK
    <3> QED BY <1>1, <3>1, <3>2 DEF LowFirst
  <2>2. CASE t # "low"
    <3>1. main' # "usleep_1" /\ main \notin Until("low") \union {"usleep_1"} \union Exited
      BY <1>2, <2>2 DEF Post, Until, Exited
    <3> QED BY <1>1, <3>1 DEF LinuxIInv, LowFirst
  <2> QED BY <2>1, <2>2
<1> QED BY <1>6, <1>7, <1>8, <1>9 DEF LinuxIInv

LEMMA ExitStep == LinuxIInv /\ (Join \/ JoinGarbage) => LinuxIInv'
<1> SUFFICES ASSUME LinuxIInv, Join \/ JoinGarbage PROVE LinuxIInv'
  OBVIOUS
<1> USE ThreeThreads
<1>1. /\ UNCHANGED <<clock, cpus, mainPrio, wakeAt, sem, t0, owner, waited, faults>>
      /\ main = "join" /\ main' \in Exited
      /\ thread' = [t \in Threads |->
                      IF thread[t] \in {"absent", "done"} THEN thread[t]
                      ELSE "killed"]
  BY DEF Join, JoinGarbage, Exit, Exited
<1>2. thread \in [Threads -> {"absent", "start", "lock", "run", "done", "killed"}]
  BY DEF LinuxIInv, LinuxTypeOK
<1>3. \A t \in Threads :
        /\ thread'[t] \in {"absent", "done", "killed"}
        /\ thread[t] \in {"absent", "done"} => thread'[t] = thread[t]
        /\ thread[t] \notin {"absent", "done"} => thread'[t] = "killed"
  BY <1>1
<1>4. LinuxTypeOK'
  BY <1>1, <1>2 DEF LinuxIInv, LinuxTypeOK, MainSteps, Exited
<1>5. StartInv' /\ LowFirst'
  BY <1>1, <1>3 DEF StartInv, LowFirst, Until, Exited
<1>6. LinuxMutexInv' /\ WaitInv' /\ InversionShown'
  BY <1>1, <1>3 DEF LinuxIInv, LinuxMutexInv, WaitInv, InversionShown, Exited
<1>7. WaitsOverlap'
  BY <1>1 DEF LinuxIInv, WaitsOverlap
<1> QED BY <1>4, <1>5, <1>6, <1>7 DEF LinuxIInv

LEMMA StartStep ==
  ASSUME LinuxIInv, NEW t \in Threads, Start(t)
  PROVE  LinuxIInv'
<1> USE LinuxConstants, ThreeThreads
<1>1. /\ UNCHANGED <<clock, main, cpus, mainPrio, wakeAt, owner, waited, faults>>
      /\ sem' = [sem EXCEPT ![t] = @ - 1] /\ t0' = [t0 EXCEPT ![t] = clock]
      /\ thread' = [thread EXCEPT ![t] = IF t = "med" THEN "run" ELSE "lock"]
      /\ thread[t] = "start" /\ sem[t] > 0
  BY DEF Start, mainVars, IsRunning, CanRun
<1>2. LinuxTypeOK /\ StartInv /\ LinuxMutexInv /\ WaitInv /\ InversionShown
  BY DEF LinuxIInv
<1>3. /\ sem \in [Threads -> 0..1] /\ t0 \in [Threads -> 0..clock] /\ clock \in Nat
      /\ thread \in [Threads -> {"absent", "start", "lock", "run", "done", "killed"}]
      /\ owner \in {Free, "low", "high"} /\ waited \in Nat /\ cpus \in Nat
  BY <1>2 DEF LinuxTypeOK
<1>4. main \notin Until(t) /\ main \notin Exited /\ sem[t] = 1
  BY <1>1, <1>2, <1>3 DEF StartInv
<1>5. /\ sem'[t] = 0 /\ t0'[t] = clock
      /\ thread'[t] = IF t = "med" THEN "run" ELSE "lock"
      /\ \A u \in Threads : u # t => /\ sem'[u] = sem[u] /\ t0'[u] = t0[u]
                                     /\ thread'[u] = thread[u]
  BY <1>1, <1>3, <1>4
<1>6. LinuxTypeOK'
  <2>1. sem' \in [Threads -> 0..1] /\ t0' \in [Threads -> 0..clock']
    BY <1>1, <1>3, <1>4
  <2>2. thread' \in [Threads -> {"absent", "start", "lock", "run", "done", "killed"}]
    BY <1>1, <1>3
  <2> QED BY <2>1, <2>2, <1>1, <1>2 DEF LinuxTypeOK
<1>7. StartInv'
  <2> SUFFICES ASSUME NEW u \in Threads
               PROVE  /\ main' \in Until(u) => sem'[u] = 0 /\ thread'[u] \in Unstarted
                      /\ main' \notin Until(u) \union Exited =>
                           (sem'[u] = 1 <=> thread'[u] \in Unstarted)
                      /\ main' \in Exited => thread'[u] \in {"absent", "done", "killed"}
                      /\ thread'[u] = "killed" => main' \in Exited
    BY DEF StartInv
  <2>1. CASE u = t
    BY <2>1, <1>1, <1>4, <1>5 DEF Unstarted
  <2>2. CASE u # t
    BY <2>2, <1>1, <1>2, <1>5 DEF StartInv
  <2> QED BY <2>1, <2>2
<1>8. LinuxMutexInv'
  BY <1>1, <1>2, <1>4, <1>5 DEF LinuxMutexInv
<1>9. WaitInv'
  <2>1. CASE t = "high"
    <3>1. owner \in {Free, "low"}
      BY <2>1, <1>1, <1>2, <1>3 DEF LinuxMutexInv
    <3>2. t0["low"] \in 0..clock /\ t0["med"] \in 0..clock
      BY <1>3
    <3> QED BY <2>1, <3>1, <3>2, <1>1, <1>3, <1>5 DEF WaitInv
  <2>2. CASE t = "low"
    <3>1. owner # "low"
      BY <2>2, <1>1, <1>2, <1>4 DEF LinuxMutexInv
    <3> QED BY <2>2, <3>1, <1>1, <1>2, <1>5 DEF WaitInv
  <2>3. CASE t = "med"
    <3>1. /\ t0'["high"] = t0["high"] /\ t0'["low"] = t0["low"] /\ t0'["med"] = clock
          /\ thread'["high"] = thread["high"] /\ thread'["med"] = "run"
          /\ t0["high"] \in Nat
      BY <2>3, <1>3, <1>5
    <3> QED BY <2>3, <3>1, <1>1, <1>2, <1>3 DEF WaitInv
  <2> QED BY <2>1, <2>2, <2>3
<1>10. InversionShown' /\ WaitsOverlap'
  <2>1. waited > 0 /\ cpus = 1 => t # "med"
    BY <1>1, <1>2 DEF InversionShown
  <2> QED BY <2>1, <1>1, <1>2, <1>5 DEF LinuxIInv, InversionShown, WaitsOverlap
<1>11. LowFirst'
  BY <1>1, <1>5 DEF LinuxIInv, LowFirst
<1> QED BY <1>6, <1>7, <1>8, <1>9, <1>10, <1>11 DEF LinuxIInv

\* A thread gets the mutex.
LEMMA LockedStep ==
  ASSUME LinuxTypeOK, StartInv, NEW t \in Threads, thread[t] = "lock",
         thread' = [thread EXCEPT ![t] = "run"], UNCHANGED <<main, sem>>
  PROVE  /\ main \notin Exited /\ StartInv'
         /\ thread' \in [Threads -> {"absent", "start", "lock", "run", "done", "killed"}]
         /\ thread'[t] = "run" /\ \A u \in Threads : u # t => thread'[u] = thread[u]
<1>1. main \notin Exited /\ main \notin Until(t)
  BY DEF StartInv, Unstarted
<1>2. /\ thread' \in [Threads -> {"absent", "start", "lock", "run", "done", "killed"}]
      /\ thread'[t] = "run" /\ \A u \in Threads : u # t => thread'[u] = thread[u]
  BY DEF LinuxTypeOK
<1>3. StartInv'
  BY <1>1, <1>2 DEF StartInv, Unstarted, Exited
<1> QED BY <1>1, <1>2, <1>3

\* A thread ends.
LEMMA EndedStep ==
  ASSUME LinuxTypeOK, StartInv, NEW t \in Threads, thread[t] = "run",
         thread' = [thread EXCEPT ![t] = "done"], UNCHANGED <<main, sem>>
  PROVE  /\ main \notin Exited /\ StartInv'
         /\ thread' \in [Threads -> {"absent", "start", "lock", "run", "done", "killed"}]
         /\ thread'[t] = "done" /\ \A u \in Threads : u # t => thread'[u] = thread[u]
<1>1. main \notin Exited /\ main \notin Until(t)
  BY DEF StartInv, Unstarted
<1>2. /\ thread' \in [Threads -> {"absent", "start", "lock", "run", "done", "killed"}]
      /\ thread'[t] = "done" /\ \A u \in Threads : u # t => thread'[u] = thread[u]
  BY DEF LinuxTypeOK
<1>3. StartInv'
  BY <1>1, <1>2 DEF StartInv, Unstarted, Exited
<1> QED BY <1>1, <1>2, <1>3

LEMMA LockStep == LinuxIInv /\ (LinuxLowLocks \/ LinuxHighLocks) => LinuxIInv'
<1> SUFFICES ASSUME LinuxIInv, LinuxLowLocks \/ LinuxHighLocks PROVE LinuxIInv'
  OBVIOUS
<1> USE LinuxConstants, ThreeThreads
<1>1. LinuxTypeOK /\ StartInv /\ LinuxMutexInv /\ WaitInv /\ InversionShown
      /\ WaitsOverlap
  BY DEF LinuxIInv
<1>2. /\ t0 \in [Threads -> 0..clock] /\ clock \in Nat /\ waited \in Nat
      /\ t0["high"] \in 0..clock
  BY <1>1 DEF LinuxTypeOK
<1>3. CASE LinuxLowLocks
  <2>1. /\ UNCHANGED <<clock, main, cpus, mainPrio, wakeAt, sem, waited, faults>>
        /\ owner' = "low" /\ t0' = [t0 EXCEPT !["low"] = clock]
        /\ thread["low"] = "lock" /\ thread' = [thread EXCEPT !["low"] = "run"]
    BY <1>3 DEF LinuxLowLocks, mainVars
  <2>2. owner = Free
    BY <1>3, <2>1 DEF LinuxLowLocks, IsRunning, CanRun
  <2>3. thread["high"] # "lock"
    <3>1. main \in Until("high") \union Exited
      BY <2>1 DEF LinuxIInv, LowFirst, Until, Exited
    <3> QED BY <1>1, <3>1 DEF StartInv, Unstarted
  <2>4. /\ main \notin Exited /\ StartInv'
        /\ thread' \in [Threads -> {"absent", "start", "lock", "run", "done", "killed"}]
        /\ thread'["low"] = "run" /\ \A u \in Threads : u # "low" => thread'[u] = thread[u]
    BY <1>1, <2>1, LockedStep
  <2>5. LinuxTypeOK'
    BY <1>1, <1>2, <2>1, <2>4 DEF LinuxTypeOK
  <2>6. LinuxMutexInv'
    BY <1>1, <2>1, <2>2, <2>4 DEF LinuxMutexInv, Free
  <2>7. WaitInv' /\ InversionShown' /\ WaitsOverlap'
    BY <1>1, <2>1, <2>3, <2>4 DEF WaitInv, InversionShown, WaitsOverlap
  <2>8. LowFirst'
    BY <2>1, <2>4 DEF LinuxIInv, LowFirst
  <2> QED BY <2>4, <2>5, <2>6, <2>7, <2>8 DEF LinuxIInv
<1>4. CASE LinuxHighLocks
  <2>1. /\ UNCHANGED <<clock, main, cpus, mainPrio, wakeAt, sem, t0, faults>>
        /\ owner' = "high" /\ waited' = clock - t0["high"]
        /\ thread["high"] = "lock" /\ thread' = [thread EXCEPT !["high"] = "run"]
    BY <1>4 DEF LinuxHighLocks, mainVars
  <2>2. owner = Free
    BY <1>4, <2>1 DEF LinuxHighLocks, IsRunning, CanRun
  <2>4. /\ main \notin Exited /\ StartInv'
        /\ thread' \in [Threads -> {"absent", "start", "lock", "run", "done", "killed"}]
        /\ thread'["high"] = "run"
        /\ \A u \in Threads : u # "high" => thread'[u] = thread[u]
    BY <1>1, <2>1, LockedStep
  <2>5. waited' \in 0..clock /\ waited' <= Longer
        /\ (waited' > 0 /\ cpus = 1 => thread["med"] \in {"absent", "done"})
        /\ (cpus # 1 => waited' <= Hold)
    <3>1. cpus \in Nat /\ cpus > 0
      BY <1>1 DEF LinuxTypeOK
    <3> QED BY <1>1, <1>2, <2>1, <2>2, <3>1 DEF WaitInv
  <2>6. LinuxTypeOK'
    BY <1>1, <2>1, <2>4, <2>5 DEF LinuxTypeOK
  <2>7. LinuxMutexInv'
    BY <1>1, <2>1, <2>2, <2>4 DEF LinuxMutexInv, Free
  <2>8. WaitInv' /\ InversionShown' /\ WaitsOverlap'
    BY <2>1, <2>4, <2>5 DEF WaitInv, InversionShown, WaitsOverlap, Longer
  <2>9. LowFirst'
    BY <2>1, <2>4 DEF LinuxIInv, LowFirst
  <2> QED BY <2>4, <2>6, <2>7, <2>8, <2>9 DEF LinuxIInv
<1> QED BY <1>3, <1>4

LEMMA EndStep == LinuxIInv /\ (LowEnds \/ LinuxMedEnds \/ HighEnds) => LinuxIInv'
<1> SUFFICES ASSUME LinuxIInv, LowEnds \/ LinuxMedEnds \/ HighEnds PROVE LinuxIInv'
  OBVIOUS
<1> USE LinuxConstants, ThreeThreads
<1>1. LinuxTypeOK /\ StartInv /\ LinuxMutexInv /\ WaitInv /\ InversionShown
      /\ WaitsOverlap
  BY DEF LinuxIInv
<1>2. UNCHANGED <<clock, main, cpus, mainPrio, wakeAt, sem, t0, waited, faults>>
  BY DEF LowEnds, LinuxMedEnds, HighEnds, mainVars
<1>3. CASE LowEnds
  <2>0. UNCHANGED <<main, sem>>
    BY <1>2
  <2>1. owner' = Free /\ thread["low"] = "run"
        /\ thread' = [thread EXCEPT !["low"] = "done"]
    BY <1>3 DEF LowEnds
  <2>2. /\ main \notin Exited /\ StartInv'
        /\ thread' \in [Threads -> {"absent", "start", "lock", "run", "done", "killed"}]
        /\ thread'["low"] = "done" /\ \A u \in Threads : u # "low" => thread'[u] = thread[u]
    BY <1>1, <2>0, <2>1, EndedStep
  <2>3. LinuxTypeOK'
    BY <1>1, <1>2, <2>1, <2>2 DEF LinuxTypeOK
  <2>4. owner = "low"
    BY <1>1, <2>1 DEF LinuxMutexInv
  <2>5. LinuxMutexInv'
    BY <1>1, <1>2, <2>1, <2>2, <2>4 DEF LinuxMutexInv, Free
  <2>6. thread["high"] = "lock" /\ cpus = 1 => thread["med"] \in {"absent", "done"}
    <3> SUFFICES ASSUME thread["high"] = "lock", cpus = 1
                 PROVE  thread["med"] \in {"absent", "done"}
      OBVIOUS
    <3>1. ~CanRun("med")
      BY <1>3, HigherFirst DEF LowEnds
    <3>2. main \notin Until("high")
      BY <1>1 DEF StartInv, Unstarted
    <3>3. main \notin Until("med")
      BY <3>2 DEF Until
    <3>4. thread["med"] # "run" /\ thread["med"] # "lock" /\ thread["med"] # "killed"
      BY <1>1, <2>2, <3>1 DEF CanRun, LinuxMutexInv, StartInv
    <3>5. thread["med"] # "start"
      BY <1>1, <2>2, <3>1, <3>3 DEF CanRun, StartInv, Unstarted
    <3> QED BY <1>1, <3>4, <3>5 DEF LinuxTypeOK
  <2>7. WaitInv' /\ InversionShown' /\ WaitsOverlap'
    BY <1>1, <1>2, <2>1, <2>2, <2>6 DEF WaitInv, InversionShown, WaitsOverlap, Free
  <2>8. LowFirst'
    BY <1>2, <2>2 DEF LinuxIInv, LowFirst
  <2> QED BY <2>2, <2>3, <2>5, <2>7, <2>8 DEF LinuxIInv
<1>4. CASE LinuxMedEnds
  <2>0. UNCHANGED <<main, sem>>
    BY <1>2
  <2>1. owner' = owner /\ thread["med"] = "run"
        /\ thread' = [thread EXCEPT !["med"] = "done"]
    BY <1>4 DEF LinuxMedEnds
  <2>2. /\ main \notin Exited /\ StartInv'
        /\ thread' \in [Threads -> {"absent", "start", "lock", "run", "done", "killed"}]
        /\ thread'["med"] = "done" /\ \A u \in Threads : u # "med" => thread'[u] = thread[u]
    BY <1>1, <2>0, <2>1, EndedStep
  <2>3. LinuxTypeOK'
    BY <1>1, <1>2, <2>1, <2>2 DEF LinuxTypeOK
  <2>4. LinuxMutexInv' /\ WaitInv' /\ InversionShown' /\ WaitsOverlap'
    BY <1>1, <1>2, <2>1, <2>2 DEF LinuxMutexInv, WaitInv, InversionShown, WaitsOverlap
  <2>5. LowFirst'
    BY <1>2, <2>2 DEF LinuxIInv, LowFirst
  <2> QED BY <2>2, <2>3, <2>4, <2>5 DEF LinuxIInv
<1>5. CASE HighEnds
  <2>0. UNCHANGED <<main, sem>>
    BY <1>2
  <2>1. owner' = Free /\ thread["high"] = "run"
        /\ thread' = [thread EXCEPT !["high"] = "done"]
    BY <1>5 DEF HighEnds
  <2>2. /\ main \notin Exited /\ StartInv'
        /\ thread' \in [Threads -> {"absent", "start", "lock", "run", "done", "killed"}]
        /\ thread'["high"] = "done"
        /\ \A u \in Threads : u # "high" => thread'[u] = thread[u]
    BY <1>1, <2>0, <2>1, EndedStep
  <2>3. LinuxTypeOK'
    BY <1>1, <1>2, <2>1, <2>2 DEF LinuxTypeOK
  <2>4. LinuxMutexInv' /\ WaitInv' /\ InversionShown' /\ WaitsOverlap'
    BY <1>1, <1>2, <2>1, <2>2 DEF LinuxMutexInv, WaitInv, InversionShown, WaitsOverlap,
       Free
  <2>5. LowFirst'
    BY <1>2, <2>2 DEF LinuxIInv, LowFirst
  <2> QED BY <2>2, <2>3, <2>4, <2>5 DEF LinuxIInv
<1> QED BY <1>3, <1>4, <1>5

linuxAll == <<main, clock, faults, linuxVars>>

LEMMA LinuxStepInv == LinuxIInv /\ [LinuxNext]_linuxAll => LinuxIInv'
<1> SUFFICES ASSUME LinuxIInv, [LinuxNext]_linuxAll PROVE LinuxIInv'
  OBVIOUS
<1>1. CASE UNCHANGED linuxAll
  <2>1. UNCHANGED <<main, clock, faults, cpus, mainPrio, wakeAt, thread, sem, t0, owner, waited>>
    BY <1>1 DEF linuxAll, linuxVars
  <2> QED BY <2>1 DEF LinuxIInv, LinuxTypeOK, StartInv, LinuxMutexInv, LowFirst, WaitInv,
             WaitsOverlap, InversionShown
<1> QED BY <1>1, LinuxTickStep, MainGoesOn, PinStep, CreateThreadStep, PostStep, ExitStep,
        StartStep, LockStep, EndStep DEF LinuxNext, LinuxMainNext, LinuxThreadNext

LEMMA LinuxAlways == LinuxSpec => []LinuxIInv
BY LinuxInitInv, LinuxStepInv, PTL DEF LinuxSpec, linuxAll

\* On one CPU a wait of the high-priority thread shows the inversion, it ends only
\* after the medium thread has ended; on several, which the threads have if the
\* binding to CPU 0 fails, it is no longer than the hold: for any number of CPUs,
\* any times and whatever calls fail.
THEOREM InversionCorrect == LinuxSpec => []InversionShown
<1>1. LinuxIInv => InversionShown
  BY DEF LinuxIInv
<1> QED BY LinuxAlways, <1>1, PTL

\* The wait is never longer than the longer one of its two causes.
THEOREM LinuxCorrect == LinuxSpec => []LinuxInv
<1>1. LinuxIInv => LinuxInv
  BY DEF LinuxIInv, LinuxInv
<1> QED BY LinuxAlways, <1>1, PTL

------------------------------------------------------------------------------
(* qnx_priority_inversion.c: the reported wait includes the rest of the    *)
(* hold, and the process exits with its mutex free.                        *)

\* The first semaphore: main goes on when the low-priority thread has the
\* mutex, and that thread is never killed.
QnxLowInv ==
  /\ low # "killed"
  /\ low \in {"absent", "lock", "post"} =>
       sem_low_locked = 0 /\ main \in {"create_low", "wait_low"}
  /\ main = "create_low" => low = "absent"
  /\ main \notin {"create_low", "wait_low"} => sem_low_locked = 0
  /\ low = "done" => clock >= lowStart + Hold

\* The second and the third semaphore.
QnxHighInv ==
  /\ high # "killed"
  /\ high # "absent" => main \in {"wait_high", "create_med", "wait_done", "done"}
  /\ high \in {"absent", "ready"} =>
       sem_high_ready = 0 /\ main \notin {"create_med", "wait_done", "done"}
  /\ main \in {"create_med", "wait_done", "done"} => sem_high_ready = 0
  /\ high # "done" => sem_high_done = 0 /\ main # "done"
  /\ main = "done" => sem_high_done = 0

\* The mutex belongs to the thread that is in its critical section.
QnxMutexInv ==
  /\ mutex = "low" <=> low \in {"post", "hold"}
  /\ mutex = "high" <=> high = "unlock"

\* There is a report once the high-priority thread has had the mutex, and by
\* then the low-priority thread is done.
QnxReportInv ==
  /\ high \in {"unlock", "post", "done"} => low = "done" /\ reported # NoReport
  /\ reported # NoReport =>
       /\ high \in {"unlock", "post", "done"}
       /\ high_t0 + reported >= lowStart + Hold

QnxIInv == QnxTypeOK /\ QnxLowInv /\ QnxHighInv /\ QnxMutexInv /\ QnxReportInv

LEMMA QnxConsequences == QnxIInv => QnxInv /\ WaitIncludesHold
BY DEF QnxIInv, QnxLowInv, QnxHighInv, QnxMutexInv, QnxReportInv, QnxInv, QnxTypeOK, CleanExit,
   WaitIncludesHold, Free

LEMMA QnxInitInv == QnxInit => QnxIInv
<1> SUFFICES ASSUME QnxInit PROVE QnxIInv
  OBVIOUS
<1> USE TimeAssumption, FaultsAssumption DEF QnxInit
<1>1. QnxTypeOK
  BY DEF QnxTypeOK, Free, NoReport
<1>2. QnxLowInv
  BY DEF QnxLowInv
<1>3. QnxHighInv
  BY DEF QnxHighInv
<1>4. QnxMutexInv
  BY DEF QnxMutexInv, Free
<1>5. QnxReportInv
  BY DEF QnxReportInv
<1> QED BY <1>1, <1>2, <1>3, <1>4, <1>5 DEF QnxIInv

LEMMA QnxMainStep == QnxIInv /\ (QnxMainNext \/ QnxCreateFails) => QnxIInv'
<1> USE TimeAssumption, FaultsAssumption
    DEF QnxTypeOK, QnxLowInv, QnxHighInv, QnxMutexInv, QnxReportInv, threads, sems, times,
        Free, NoReport
<1>1. QnxIInv /\ CreateLow => QnxIInv'
  BY DEF QnxIInv, CreateLow
<1>2. QnxIInv /\ WaitLow => QnxIInv'
  BY DEF QnxIInv, WaitLow
<1>3. QnxIInv /\ CreateHigh => QnxIInv'
  BY DEF QnxIInv, CreateHigh
<1>4. QnxIInv /\ WaitHigh => QnxIInv'
  BY DEF QnxIInv, WaitHigh
<1>5. QnxIInv /\ CreateMed => QnxIInv'
  BY DEF QnxIInv, CreateMed
<1>6. QnxIInv /\ WaitDone => QnxIInv'
  BY DEF QnxIInv, WaitDone, EndedBy
<1>7. QnxIInv /\ QnxCreateFails => QnxIInv'
  BY DEF QnxIInv, QnxCreateFails
<1> QED BY <1>1, <1>2, <1>3, <1>4, <1>5, <1>6, <1>7 DEF QnxMainNext

LEMMA QnxLowStep == QnxIInv /\ LowNext => QnxIInv'
<1> USE TimeAssumption
    DEF QnxTypeOK, QnxLowInv, QnxHighInv, QnxMutexInv, QnxReportInv, threads, sems, times,
        Free, NoReport
<1>1. QnxIInv /\ LowLocks => QnxIInv'
  BY DEF QnxIInv, LowLocks
<1>2. QnxIInv /\ LowPosts => QnxIInv'
  BY DEF QnxIInv, LowPosts
<1>3. QnxIInv /\ LowUnlocks => QnxIInv'
  BY DEF QnxIInv, LowUnlocks
<1> QED BY <1>1, <1>2, <1>3 DEF LowNext

LEMMA QnxHighStep == QnxIInv /\ HighNext => QnxIInv'
<1> USE TimeAssumption
    DEF QnxTypeOK, QnxLowInv, QnxHighInv, QnxMutexInv, QnxReportInv, threads, sems, times,
        Free, NoReport
<1>1. QnxIInv /\ HighPosts => QnxIInv'
  BY DEF QnxIInv, HighPosts
<1>2. QnxIInv /\ HighAsks => QnxIInv'
  BY DEF QnxIInv, HighAsks
<1>3. QnxIInv /\ HighLocks => QnxIInv'
  BY DEF QnxIInv, HighLocks
<1>4. QnxIInv /\ HighUnlocks => QnxIInv'
  BY DEF QnxIInv, HighUnlocks
<1>5. QnxIInv /\ HighPostsDone => QnxIInv'
  BY DEF QnxIInv, HighPostsDone
<1> QED BY <1>1, <1>2, <1>3, <1>4, <1>5 DEF HighNext

LEMMA QnxOtherStep == QnxIInv /\ (MedEnds \/ QnxTick) => QnxIInv'
<1> USE TimeAssumption
    DEF QnxTypeOK, QnxLowInv, QnxHighInv, QnxMutexInv, QnxReportInv, threads, sems, times,
        Free, NoReport
<1>1. QnxIInv /\ MedEnds => QnxIInv'
  BY DEF QnxIInv, MedEnds
<1>2. QnxIInv /\ QnxTick => QnxIInv'
  BY DEF QnxIInv, QnxTick
<1> QED BY <1>1, <1>2

qnxAll == <<main, clock, faults, qnxVars>>

LEMMA QnxStepInv == QnxIInv /\ [QnxNext]_qnxAll => QnxIInv'
<1>1. QnxIInv /\ UNCHANGED qnxAll => QnxIInv'
  BY DEF QnxIInv, QnxTypeOK, QnxLowInv, QnxHighInv, QnxMutexInv, QnxReportInv, qnxAll, qnxVars,
         threads, sems
<1> QED BY <1>1, QnxMainStep, QnxLowStep, QnxHighStep, QnxOtherStep DEF QnxNext

LEMMA QnxAlways == QnxSpec => []QnxIInv
BY QnxInitInv, QnxStepInv, PTL DEF QnxSpec, qnxAll

\* The reported wait includes all that was left of the hold when the
\* high-priority thread asked for the mutex, for any times.
THEOREM WaitCorrect == QnxSpec => []WaitIncludesHold
BY QnxAlways, QnxConsequences, PTL

\* Types are kept, and the process exits with its report made and the mutex
\* free, for any times and any number of failing calls.
THEOREM ExitCorrect == QnxSpec => []QnxInv
BY QnxAlways, QnxConsequences, PTL

------------------------------------------------------------------------------
(* The composition.  Each program keeps its inductive invariant while it   *)
(* runs, and what is said of the others holds of them as they are left.    *)

OthersIdle ==
  /\ program \notin MemoryPrograms => main # "aborted"
  /\ program \notin FilePrograms => ~swept /\ written = Absent
  /\ program # "network_and_security" => host = "other" /\ report = Nothing
  /\ program # "linux_priority_inversion" => waited = 0
  /\ program # "qnx_priority_inversion" => reported = NoReport

RunsInv ==
  /\ program \in MemoryPrograms => MemIInv
  /\ program \in FilePrograms => FileIInv
  /\ program = "network_and_security" => NetIInv /\ PortsInv
  /\ program = "linux_priority_inversion" => LinuxIInv
  /\ program = "qnx_priority_inversion" => QnxIInv

AllInv == RunsInv /\ OthersIdle

LEMMA AllInitInv == Init => AllInv
<1> SUFFICES ASSUME Init PROVE AllInv
  OBVIOUS
<1> USE DEF AllInv, RunsInv, OthersIdle, MemoryPrograms, FilePrograms
<1>1. CASE MemInit /\ FileIdle /\ NetIdle /\ LinuxIdle /\ QnxIdle
  <2>1. program \in MemoryPrograms /\ MemIInv
    BY <1>1, MemInitInv DEF MemInit
  <2> QED BY <1>1, <2>1 DEF FileIdle, NetIdle, LinuxIdle, QnxIdle
<1>2. CASE FileInit /\ MemIdle /\ NetIdle /\ LinuxIdle /\ QnxIdle
  <2>1. program \in FilePrograms /\ FileIInv /\ main # "aborted"
    BY <1>2, FileInitInv DEF FileInit, StartOf
  <2> QED BY <1>2, <2>1 DEF NetIdle, LinuxIdle, QnxIdle
<1>3. CASE NetInit /\ MemIdle /\ FileIdle /\ LinuxIdle /\ QnxIdle
  <2>1. /\ program = "network_and_security" /\ main # "aborted"
        /\ NetIInv /\ PortsInv
    BY <1>3, NetInitInv, PortsInitInv DEF NetInit
  <2> QED BY <1>3, <2>1 DEF FileIdle, LinuxIdle, QnxIdle
<1>4. CASE LinuxInit /\ MemIdle /\ FileIdle /\ NetIdle /\ QnxIdle
  <2>1. program = "linux_priority_inversion" /\ LinuxIInv /\ main # "aborted"
    BY <1>4, LinuxInitInv DEF LinuxInit
  <2> QED BY <1>4, <2>1 DEF FileIdle, NetIdle, QnxIdle
<1>5. CASE QnxInit /\ MemIdle /\ FileIdle /\ NetIdle /\ LinuxIdle
  <2>1. program = "qnx_priority_inversion" /\ QnxIInv /\ main # "aborted"
    BY <1>5, QnxInitInv DEF QnxInit
  <2> QED BY <1>5, <2>1 DEF FileIdle, NetIdle, LinuxIdle
<1> QED BY <1>1, <1>2, <1>3, <1>4, <1>5 DEF Init

\* Only a program of the heap is aborted.
LEMMA FileNotAborted == FileNext /\ main # "aborted" => main' # "aborted"
BY DEF FileNext, FileSteps, Cleanup, MakeDir, Create, CreateFails, Rename, Delete,
   RemoveDir, OpenToWrite, Write, OpenToRead, Read, RemoveTestFile, FileKill,
   FileRerun, StartOf, GoTo, EndRound

LEMMA NetNotAborted ==
  NetNext /\ main # "aborted" => main' # "aborted" /\ program' = program
<1> SUFFICES ASSUME NetNext, main # "aborted" PROVE main' # "aborted" /\ program' = program
  OBVIOUS
<1> USE DEF GoTo, EndRound, OnlyTransfers
<1>1. ASSUME GetOsName \/ CheckAuthLog \/ FailedAttempts \/ ShadowAccess
             \/ (\E test \in {"tcp", "udp"} : CheckPorts(test)) \/ CheckCiphers
      PROVE  main' # "aborted" /\ program' = program
  BY <1>1 DEF GetOsName, CheckAuthLog, FailedAttempts, ShadowAccess, CheckPorts,
     OpenListing, PortLine, EndListing, Lines, AfterPorts, CheckCiphers, Checked
<1>2. ASSUME (\E kind \in Downloads : Download(kind)) \/ DownloadAverages
             \/ PrepareUpload \/ Upload \/ CleanUp
      PROVE  main' # "aborted" /\ program' = program
  BY <1>2 DEF Download, DownloadAverages, PrepareUpload, Upload, CleanUp
<1>3. ASSUME NetKill \/ NetRerun PROVE main' # "aborted" /\ program' = program
  BY <1>3 DEF NetKill, NetRerun
<1> QED BY <1>1, <1>2, <1>3 DEF NetNext, NetSteps

LEMMA AllStepInv == AllInv /\ [Next]_vars => AllInv'
<1> SUFFICES ASSUME AllInv, [Next]_vars PROVE AllInv'
  OBVIOUS
<1> USE DEF AllInv, RunsInv, OthersIdle, MemoryPrograms, FilePrograms
<1>1. CASE MemNext /\ MemAlone
  <2>1. MemIInv'
    BY <1>1, MemStepInv DEF MemAlone
  <2>2. program' \in MemoryPrograms
    BY <2>1 DEF MemIInv, MemTypeOK
  <2> QED BY <1>1, <2>1, <2>2 DEF MemAlone, fileVars, netVars, env, transfers,
        priorityVars, linuxVars, qnxVars, threads, times
<1>2. CASE FileNext /\ FileAlone
  <2>1. FileIInv'
    BY <1>2, FileStepInv DEF FileAlone
  <2>2. program' \in FilePrograms
    BY <2>1 DEF FileIInv, FileTypeOK
  <2>3. main' # "aborted"
    BY <1>2, FileNotAborted DEF FileAlone
  <2> QED BY <1>2, <2>1, <2>2, <2>3 DEF FileAlone, netVars, env, transfers,
        priorityVars, linuxVars, qnxVars, threads, times
<1>3. CASE NetNext /\ NetAlone
  <2>1. NetIInv' /\ PortsInv'
    BY <1>3, NetStepInv, PortsStepInv DEF NetAlone
  <2>2. main' # "aborted" /\ program' = program
    BY <1>3, NetNotAborted DEF NetAlone
  <2> QED BY <1>3, <2>1, <2>2 DEF NetAlone, fileVars, priorityVars, linuxVars,
        qnxVars, threads, times
<1>4. CASE LinuxNext /\ LinuxAlone
  <2>1. LinuxIInv'
    BY <1>4, LinuxStepInv DEF LinuxAlone
  <2>2. main' # "aborted"
    BY <2>1 DEF LinuxIInv, LinuxTypeOK, MainSteps
  <2> QED BY <1>4, <2>1, <2>2 DEF LinuxAlone, fileVars, netVars, env, transfers,
        qnxVars, threads, times
<1>5. CASE QnxNext /\ QnxAlone
  <2>1. QnxIInv'
    BY <1>5, QnxStepInv DEF QnxAlone
  <2>2. main' # "aborted"
    BY <2>1 DEF QnxIInv, QnxTypeOK
  <2> QED BY <1>5, <2>1, <2>2 DEF QnxAlone, fileVars, netVars, env, transfers,
        linuxVars
<1>6. CASE UNCHANGED vars
  <2>1. RunsInv'
    <3>1. /\ UNCHANGED program /\ UNCHANGED <<shared, memVars>>
          /\ UNCHANGED <<shared, fileVars>> /\ UNCHANGED <<shared, netVars>>
          /\ UNCHANGED linuxAll /\ UNCHANGED qnxAll
      BY <1>6 DEF vars, shared, priorityVars, linuxAll, qnxAll
    <3> QED BY <3>1, MemStepInv, FileStepInv, NetStepInv, PortsStepInv,
          LinuxStepInv, QnxStepInv
  <2>2. OthersIdle'
    BY <1>6 DEF vars, shared, fileVars, netVars, env, transfers, priorityVars,
       linuxVars, qnxVars, threads, times
  <2> QED BY <2>1, <2>2
<1> QED BY <1>1, <1>2, <1>3, <1>4, <1>5, <1>6 DEF Next

LEMMA AllAlways == Spec => []AllInv
BY AllInitInv, AllStepInv, PTL DEF Spec

\* Whichever program is run, its invariant holds: types, a protected
\* /etc/shadow and PAM, waits that overlap, and a clean exit.
THEOREM EachRunCorrect == Spec => []Inv
<1>1. AllInv => Inv
  BY QnxConsequences
     DEF AllInv, RunsInv, Inv, MemIInv, FileIInv, NetIInv, LinuxIInv, LinuxInv
<1> QED BY AllAlways, <1>1, PTL

\* Whichever program is run: no program of the heap frees what it does not hold,
\* and each leaves what it means to leave.
THEOREM HeapSafe == Spec => [](OnlyLiveFreed /\ HeapAccounts)
<1>1. AllInv => OnlyLiveFreed /\ HeapAccounts
  <2>1. AllInv /\ program \in MemoryPrograms => OnlyLiveFreed /\ HeapAccounts
    BY DEF AllInv, RunsInv, MemIInv
  <2>2. AllInv /\ program \notin MemoryPrograms => OnlyLiveFreed /\ HeapAccounts
    BY DEF AllInv, OthersIdle, OnlyLiveFreed, HeapAccounts, MemoryPrograms
  <2> QED BY <2>1, <2>2
<1> QED BY AllAlways, <1>1, PTL

\* Whichever program is run: a run of a file system benchmark measures its own
\* files, and leaves one only for a failure that it ignored.
THEOREM FilesSafe == Spec => [](FromScratch /\ NothingLeft)
<1>1. AllInv => FromScratch /\ NothingLeft
  <2>1. AllInv /\ program \in FilePrograms => FromScratch /\ NothingLeft
    BY DEF AllInv, RunsInv, FileIInv
  <2>2. AllInv /\ program \notin FilePrograms => FromScratch /\ NothingLeft
    BY DEF AllInv, OthersIdle, FromScratch, NothingLeft, FilePrograms
  <2> QED BY <2>1, <2>2
<1> QED BY AllAlways, <1>1, PTL

\* Whichever program is run: a list of ports names each port that has a socket
\* once, the download averages are in their range, and a run in which nothing
\* fails leaves no test file.
THEOREM ChecksSafe ==
  Spec => [](PortsExact /\ DownloadAverageInRange /\ TestFileCleaned)
<1> DEFINE Safe == PortsExact /\ DownloadAverageInRange /\ TestFileCleaned
<1>1. AllInv => Safe
  <2>1. AllInv /\ program = "network_and_security" => Safe
    BY DEF AllInv, RunsInv, NetIInv, PortsInv, PortsExact
  <2>2. AllInv /\ program # "network_and_security" => Safe
    BY DEF AllInv, OthersIdle, PortsExact, DownloadAverageInRange, TestFileCleaned,
       Nothing
  <2> QED BY <2>1, <2>2
<1> QED BY AllAlways, <1>1, PTL

\* Whichever program is run: on Linux a wait for the mutex shows the inversion if
\* there is one CPU, and is no longer than the hold if there are more; on QNX it
\* includes the rest of the hold.
THEOREM InversionsSafe == Spec => [](InversionShown /\ WaitIncludesHold)
<1>1. AllInv => InversionShown
  BY DEF AllInv, RunsInv, OthersIdle, LinuxIInv, InversionShown
<1>2. AllInv => WaitIncludesHold
  BY QnxConsequences DEF AllInv, RunsInv, OthersIdle, WaitIncludesHold
<1> QED BY AllAlways, <1>1, <1>2, PTL

------------------------------------------------------------------------------
(* Induction, loops, recursive definitions and folds: the least element of *)
(* a set of numbers, and with it that what a recursive function or a fold  *)
(* over a finite set defines exists and has the values that it says.       *)

\* A non-empty set of numbers has a least element.
LEMMA LeastNat ==
  ASSUME NEW T \in SUBSET Nat, NEW n \in T
  PROVE  \E m \in T : \A k \in T : m <= k
<1> DEFINE R == {ss \in Nat \X Nat : ss[1] < ss[2]}
<1>1. IsWellFoundedOn(R, Nat)
  BY NatLessThanWellFounded DEF OpToRel
<1>2. \A x, y \in Nat : x < y => <<x, y>> \in R
  OBVIOUS
<1> HIDE DEF R
<1>3. PICK m \in T : \A k \in T : ~ (<<k, m>> \in R)
  BY <1>1, WFMin
<1>4. ASSUME NEW k \in T PROVE m <= k
  <2>1. m \in Nat /\ k \in Nat /\ ~ (k < m)
    BY <1>2, <1>3
  <2> QED BY <2>1
<1> QED BY <1>4

\* Induction over the numbers, for a set of them.
LEMMA AllNat ==
  ASSUME NEW T, 0 \in T, \A n \in Nat : n \in T => n + 1 \in T
  PROVE  \A n \in Nat : n \in T
<1> SUFFICES ASSUME NEW n \in Nat, n \notin T PROVE FALSE
  OBVIOUS
<1> DEFINE Out == Nat \ T
<1>1. PICK m \in Out : \A k \in Out : m <= k
  BY LeastNat
<1>2. m # 0 /\ m - 1 \in Nat /\ m - 1 \notin Out
  BY <1>1
<1>3. (m - 1) + 1 \in T
  BY <1>2
<1> QED BY <1>1, <1>3

\* The results of a loop, by the number of its rounds: step takes the result of
\* k rounds to that of k + 1.
Steps(A) == [Nat \X A -> A]
IsRun(f, A, base, step) ==
  f \in [Nat -> A] /\ f[0] = base /\ \A k \in Nat : f[k + 1] = step[<<k, f[k]>>]

LEMMA LoopExists ==
  ASSUME NEW A, NEW base \in A, NEW step \in Steps(A)
  PROVE  \E f : IsRun(f, A, base, step)
<1> USE DEF Steps
<1> DEFINE Run(g, n) == /\ g \in [0..n -> A] /\ g[0] = base
                        /\ \A k \in 0..(n - 1) : g[k + 1] = step[<<k, g[k]>>]
           T == {n \in Nat : \E g : Run(g, n)}
<1>1. 0 \in T
  <2>1. Run([k \in 0..0 |-> base], 0)
    OBVIOUS
  <2> QED BY <2>1
<1>2. \A n \in Nat : n \in T => n + 1 \in T
  <2> SUFFICES ASSUME NEW n \in Nat, NEW g, Run(g, n) PROVE \E h : Run(h, n + 1)
    OBVIOUS
  <2>1. g[n] \in A
    OBVIOUS
  <2> DEFINE next == step[<<n, g[n]>>]
  <2>2. next \in A
    BY <2>1
  <2> HIDE DEF next
  <2> DEFINE h == [k \in 0..(n + 1) |-> IF k = n + 1 THEN next ELSE g[k]]
  <2>3. h \in [0..(n + 1) -> A] /\ h[0] = base
    BY <2>2
  <2>4. /\ h[n + 1] = next
        /\ \A k \in 0..n : h[k] = g[k]
    OBVIOUS
  <2> HIDE DEF h
  <2>5. \A k \in 0..((n + 1) - 1) : h[k + 1] = step[<<k, h[k]>>]
    <3> SUFFICES ASSUME NEW k \in 0..n PROVE h[k + 1] = step[<<k, h[k]>>]
      OBVIOUS
    <3>1. CASE k = n
      BY <2>4, <3>1 DEF next
    <3>2. CASE k # n
      <4>1. k \in 0..(n - 1) /\ h[k] = g[k] /\ h[k + 1] = g[k + 1]
        BY <2>4, <3>2
      <4>2. g[k + 1] = step[<<k, g[k]>>]
        BY <4>1
      <4> QED BY <4>1, <4>2
    <3> QED BY <3>1, <3>2
  <2>6. Run(h, n + 1)
    BY <2>3, <2>5
  <2> QED BY <2>6
<1>3. \A n \in Nat : n \in T
  <2> HIDE DEF T
  <2> QED BY <1>1, <1>2, AllNat
<1> DEFINE G == [n \in Nat |-> CHOOSE g : Run(g, n)]
<1>4. \A n \in Nat : /\ G[n] \in [0..n -> A] /\ G[n][0] = base
                     /\ \A k \in 0..(n - 1) : G[n][k + 1] = step[<<k, G[n][k]>>]
  <2> SUFFICES ASSUME NEW n \in Nat PROVE Run(G[n], n)
    OBVIOUS
  <2>1. \E g : Run(g, n)
    BY <1>3
  <2> HIDE DEF Run
  <2>2. G[n] = CHOOSE g : Run(g, n)
    OBVIOUS
  <2> QED BY <2>1, <2>2
<1> HIDE DEF G, Run, T
<1>5. ASSUME NEW n \in Nat PROVE G[n + 1][n] = G[n][n]
  <2> DEFINE U == {k \in Nat : k <= n => G[n + 1][k] = G[n][k]}
  <2>1. 0 \in U
    <3>1. n + 1 \in Nat
      OBVIOUS
    <3> QED BY <1>4, <3>1
  <2>2. \A k \in Nat : k \in U => k + 1 \in U
    <3> SUFFICES ASSUME NEW k \in Nat, G[n + 1][k] = G[n][k], k + 1 <= n
                 PROVE  G[n + 1][k + 1] = G[n][k + 1]
      OBVIOUS
    <3>1. G[n][k + 1] = step[<<k, G[n][k]>>]
      <4>1. k \in 0..(n - 1)
        OBVIOUS
      <4> QED BY <1>4, <4>1
    <3>2. G[n + 1][k + 1] = step[<<k, G[n + 1][k]>>]
      <4>1. k \in 0..((n + 1) - 1) /\ n + 1 \in Nat
        OBVIOUS
      <4> QED BY <1>4, <4>1
    <3> QED BY <3>1, <3>2
  <2>3. n \in U
    <3> HIDE DEF U
    <3> QED BY <2>1, <2>2, AllNat
  <2> QED BY <2>3
<1> DEFINE f == [n \in Nat |-> G[n][n]]
<1>6. f \in [Nat -> A] /\ f[0] = base
  BY <1>4
<1>7. ASSUME NEW n \in Nat PROVE f[n + 1] = step[<<n, f[n]>>]
  <2>1. n + 1 \in Nat /\ n \in 0..((n + 1) - 1)
    OBVIOUS
  <2>2. G[n + 1][n + 1] = step[<<n, G[n + 1][n]>>]
    BY <1>4, <2>1
  <2> QED BY <2>1, <2>2, <1>5
<1> HIDE DEF f
<1>8. IsRun(f, A, base, step)
  BY <1>6, <1>7 DEF IsRun
<1> QED BY <1>8

\* What a recursive definition defines exists: the value at x is computed from
\* values where the measure is smaller.
IsRecursive(body, D, A, measure) ==
  /\ measure \in [D -> Nat]
  /\ body \in [D \X [D -> A] -> A]
  /\ \A x \in D : \A g, h \in [D -> A] :
       (\A y \in D : measure[y] < measure[x] => g[y] = h[y]) =>
         body[<<x, g>>] = body[<<x, h>>]

IsValue(f, body, D, A) == f \in [D -> A] /\ \A x \in D : f[x] = body[<<x, f>>]

LEMMA RecursionExists ==
  ASSUME NEW D, NEW A, NEW a0 \in A, NEW measure, NEW body, IsRecursive(body, D, A, measure)
  PROVE  \E f : IsValue(f, body, D, A)
<1> USE DEF IsRecursive
<1> DEFINE F == [D -> A]
           start == [x \in D |-> a0]
           again == [p \in Nat \X F |-> [x \in D |-> body[<<x, p[2]>>]]]
<1>1. start \in F /\ again \in Steps(F)
  BY DEF Steps
<1>2. \A k \in Nat : \A g \in F : \A x \in D : again[<<k, g>>][x] = body[<<x, g>>]
  OBVIOUS
<1>3. \A x \in D : \A g, h \in F :
        (\A y \in D : measure[y] < measure[x] => g[y] = h[y]) =>
          body[<<x, g>>] = body[<<x, h>>]
  OBVIOUS
<1> HIDE DEF start, again, F
<1>4. PICK h \in [Nat -> F] : h[0] = start /\ \A k \in Nat : h[k + 1] = again[<<k, h[k]>>]
  <2>1. \E g : IsRun(g, F, start, again)
    BY ONLY <1>1, LoopExists
  <2> QED BY <2>1 DEF IsRun
<1>5. \A k \in Nat : h[k] \in F
  BY <1>4
<1>6. \A k \in Nat : \A x \in D : h[k + 1][x] = body[<<x, h[k]>>]
  <2> SUFFICES ASSUME NEW k \in Nat, NEW x \in D PROVE h[k + 1][x] = body[<<x, h[k]>>]
    OBVIOUS
  <2>1. h[k + 1] = again[<<k, h[k]>>] /\ h[k] \in F
    BY <1>4, <1>5
  <2>2. again[<<k, h[k]>>][x] = body[<<x, h[k]>>]
    BY ONLY <1>2, <2>1, k \in Nat, x \in D
  <2> QED BY ONLY <2>1, <2>2
<1> DEFINE T == {k \in Nat : \A x \in D : measure[x] < k => h[k + 1][x] = h[k][x]}
<1>7. 0 \in T
  OBVIOUS
<1>8. \A k \in Nat : k \in T => k + 1 \in T
  <2> SUFFICES ASSUME NEW k \in Nat,
                      \A x \in D : measure[x] < k => h[k + 1][x] = h[k][x],
                      NEW x \in D, measure[x] < k + 1
               PROVE  h[(k + 1) + 1][x] = h[k + 1][x]
    OBVIOUS
  <2>0. k + 1 \in Nat
    OBVIOUS
  <2>1. h[(k + 1) + 1][x] = body[<<x, h[k + 1]>>] /\ h[k + 1][x] = body[<<x, h[k]>>]
    BY <1>6, <2>0, Zenon
  <2>2. \A y \in D : measure[y] < measure[x] => h[k + 1][y] = h[k][y]
    OBVIOUS
  <2>3. h[k] \in F /\ h[k + 1] \in F
    BY <1>5
  <2>4. body[<<x, h[k + 1]>>] = body[<<x, h[k]>>]
    BY <1>3, <2>2, <2>3
  <2> QED BY <2>1, <2>4
<1>9. \A k \in Nat : \A x \in D : measure[x] < k => h[k + 1][x] = h[k][x]
  <2>1. \A k \in Nat : k \in T
    <3> HIDE DEF T
    <3> QED BY <1>7, <1>8, AllNat
  <2> QED BY <2>1
<1> DEFINE U == {k \in Nat : \A x \in D : measure[x] < k => h[k][x] = h[measure[x] + 1][x]}
<1>10. 0 \in U
  OBVIOUS
<1>11. \A k \in Nat : k \in U => k + 1 \in U
  <2> SUFFICES ASSUME NEW k \in Nat,
                      \A x \in D : measure[x] < k => h[k][x] = h[measure[x] + 1][x],
                      NEW x \in D, measure[x] < k + 1
               PROVE  h[k + 1][x] = h[measure[x] + 1][x]
    OBVIOUS
  <2>1. CASE measure[x] = k
    BY <2>1
  <2>2. CASE measure[x] < k
    BY <1>9, <2>2
  <2> QED BY <2>1, <2>2
<1>12. \A k \in Nat : \A x \in D : measure[x] < k => h[k][x] = h[measure[x] + 1][x]
  <2>1. \A k \in Nat : k \in U
    <3> HIDE DEF U
    <3> QED BY <1>10, <1>11, AllNat
  <2> QED BY <2>1
<1> DEFINE f == [x \in D |-> h[measure[x] + 1][x]]
<1>13. f \in F
  <2>1. \A x \in D : h[measure[x] + 1] \in F
    BY <1>5
  <2> QED BY <2>1 DEF F
<1>14. \A x \in D : f[x] = body[<<x, f>>]
  <2> SUFFICES ASSUME NEW x \in D PROVE f[x] = body[<<x, f>>]
    OBVIOUS
  <2>1. f[x] = body[<<x, h[measure[x]]>>]
    BY <1>6
  <2>2. \A y \in D : measure[y] < measure[x] => h[measure[x]][y] = f[y]
    BY <1>12
  <2>3. h[measure[x]] \in F
    BY <1>5
  <2> HIDE DEF f
  <2>4. body[<<x, h[measure[x]]>>] = body[<<x, f>>]
    BY <1>3, <1>13, <2>2, <2>3
  <2> QED BY <2>1, <2>4
<1>15. IsValue(f, body, D, A)
  BY <1>13, <1>14 DEF F, IsValue
<1> QED BY <1>15

\* The community module's Max picks an element of the set.
LEMMA GreatestNat ==
  ASSUME NEW n \in Nat, NEW s \in SUBSET (1..n), s # {}
  PROVE  Max(s) \in s /\ \A y \in s : Max(s) >= y
<1> DEFINE T == {k \in Nat : \A y \in s : y <= k}
<1>1. T \in SUBSET Nat /\ n \in T
  OBVIOUS
<1>2. PICK m \in T : \A k \in T : m <= k
  <2> HIDE DEF T
  <2> QED BY <1>1, LeastNat
<1>3. m \in s
  <2> SUFFICES ASSUME m \notin s PROVE FALSE
    OBVIOUS
  <2>1. m >= 1
    <3>1. PICK y \in s : TRUE
      OBVIOUS
    <3>2. y <= m /\ y >= 1 /\ m \in Nat /\ y \in Nat
      BY <1>2
    <3> QED BY <3>2
  <2>2. m - 1 \in T
    BY <1>2, <2>1
  <2> QED BY <1>2, <2>2
<1>4. \E x \in s : \A y \in s : x >= y
  BY <1>2, <1>3
<1> QED BY <1>4 DEF Max

\* A fold over a finite set: step combines the value of the set without the
\* element that pick chooses, and this element.
Combines(S, A) == [A \X S -> A]
IsPick(pick, S) == \A s \in SUBSET S : s # {} => pick[s] \in s
IsFold(f, S, A, base, step, pick) ==
  /\ f \in [SUBSET S -> A]
  /\ \A s \in SUBSET S :
       f[s] = IF s = {} THEN base ELSE step[<<f[s \ {pick[s]}], pick[s]>>]

LEMMA FoldExists ==
  ASSUME NEW S, IsFiniteSet(S), NEW A, NEW base \in A, NEW step, step \in Combines(S, A),
         NEW pick, IsPick(pick, S)
  PROVE  \E f : IsFold(f, S, A, base, step, pick)
<1> USE DEF Combines
<1> DEFINE D == SUBSET S
           size == [s \in D |-> Cardinality(s)]
           body == [p \in D \X [D -> A] |->
                      IF p[1] = {} THEN base
                      ELSE step[<<p[2][p[1] \ {pick[p[1]]}], pick[p[1]]>>]]
<1>1. \A s \in D : s # {} => pick[s] \in S /\ s \ {pick[s]} \in D /\ pick[s] \in s
  BY DEF IsPick
<1>2. \A s \in D : IsFiniteSet(s) /\ Cardinality(s) \in Nat
  BY FS_Subset, FS_CardinalityType
<1>3. size \in [D -> Nat]
  BY <1>2
<1>4. \A s \in D : s # {} => size[s \ {pick[s]}] < size[s]
  <2> SUFFICES ASSUME NEW s \in D, s # {}
               PROVE  Cardinality(s \ {pick[s]}) < Cardinality(s)
    BY <1>1
  <2>1. Cardinality(s \ {pick[s]}) = Cardinality(s) - 1
    BY <1>1, <1>2, FS_RemoveElement
  <2> QED BY <1>2, <2>1
<1>5. \A s \in D, g \in [D -> A] :
        /\ body[<<s, g>>] \in A
        /\ body[<<s, g>>] = IF s = {} THEN base ELSE step[<<g[s \ {pick[s]}], pick[s]>>]
  BY <1>1
<1>6. body \in [D \X [D -> A] -> A]
  <2>1. \A p \in D \X [D -> A] : p = <<p[1], p[2]>> /\ p[1] \in D /\ p[2] \in [D -> A]
    OBVIOUS
  <2> QED BY <1>5, <2>1
<1> HIDE DEF body, size
<1>7. \A s \in D : \A g, h \in [D -> A] :
        (\A t \in D : size[t] < size[s] => g[t] = h[t]) => body[<<s, g>>] = body[<<s, h>>]
  <2> SUFFICES ASSUME NEW s \in D, NEW g \in [D -> A], NEW h \in [D -> A],
                      \A t \in D : size[t] < size[s] => g[t] = h[t]
               PROVE  body[<<s, g>>] = body[<<s, h>>]
    OBVIOUS
  <2>1. CASE s = {}
    BY <1>5, <2>1
  <2>2. CASE s # {}
    <3>1. g[s \ {pick[s]}] = h[s \ {pick[s]}]
      BY <1>1, <1>4, <2>2
    <3>2. /\ body[<<s, g>>] = step[<<g[s \ {pick[s]}], pick[s]>>]
          /\ body[<<s, h>>] = step[<<h[s \ {pick[s]}], pick[s]>>]
      BY <1>5, <2>2
    <3> QED BY ONLY <3>1, <3>2
  <2> QED BY <2>1, <2>2
<1> HIDE DEF D
<1>8. IsRecursive(body, D, A, size)
  BY <1>3, <1>6, <1>7 DEF IsRecursive
<1>9. PICK f : IsValue(f, body, D, A)
  BY <1>8, RecursionExists
<1>10. IsFold(f, S, A, base, step, pick)
  BY <1>5, <1>9 DEF D, IsValue, IsFold
<1> QED BY <1>10

------------------------------------------------------------------------------
(* process_fairness.c, ipc_pipe_latency.c and sleep_wake_process.c: no read*)
(* of the parent blocks, no child outlives the report, and each worker's   *)
(* result is read into its own place.                                      *)

\* Children are forked in order, and what is not forked does not exist.
ForkedInv ==
  /\ main \in {"pipe", "fork"} => i <= N
  /\ main = "load" => i > N
  /\ main \in {"pipe", "fork", "load"} =>
       \A c \in Children : child[c] = "none" <=> c >= i
  /\ main \in {"wait", "read", "done"} =>
       \A c \in Children : child[c] = "none" <=> c > NumChildren

\* Who does not run holds no end of a pipe, and the parent has closed its write
\* ends when it waits.
EndsInv ==
  /\ \A c \in Children : child[c] \in {"none", "ended"} =>
       \A w \in Workers : c \notin readers[w] /\ c \notin writers[w]
  /\ main \in {"wait", "read", "done"} => \A w \in Workers : 0 \notin writers[w]

ProcInv ==
  /\ program \in Programs /\ num_load_procs \in 0..LoadProcs
  /\ main \in MainPC /\ i \in 1..(NumChildren + 1)
  /\ child \in [Children -> ChildPC]
  /\ readers \in [Workers -> SUBSET Procs]
  /\ writers \in [Workers -> SUBSET Procs]
  /\ reaped \in 0..Cardinality(EndedChildren)
  /\ main # "done" \/ program # "counting" => stats = NoStats
  /\ faults \in 0..MaxFaults
  /\ ForkedInv /\ EndsInv /\ NoneLeftBehind

\* A pipe holds the text of its worker's result from the write to the read, and
\* a result has its fields, and a round at least when the worker is through.
ResultInv ==
  /\ elapsed \in [Workers -> 0..Duration]
  /\ result \in [Workers -> Seq(Nat)]
  /\ \A w \in Workers : child[w] \in {"work", "write"} =>
       Len(result[w]) = IF program = "counting" THEN 1 ELSE 3
  /\ wrote \subseteq Workers
  /\ \A w \in Workers :
       program = "sleep_wake_process" /\ (child[w] = "write" \/ w \in wrote) =>
         Len(result[w]) = 3 /\ result[w][3] > 0

DataInv ==
  /\ DOMAIN data = Workers
  /\ \A w \in Workers : data[w] = <<>> \/ data[w] = <<Text(result[w])>>
  /\ \A w \in Workers : child[w] \in {"none", "close", "work", "write"} =>
       data[w] = <<>> /\ w \notin wrote
  /\ \A w \in Workers : (main = "read" /\ w < i) \/ main = "done"
                        \/ (data[w] # <<>> <=> w \in wrote)

\* What was read is what the worker wrote, and nothing if it wrote nothing.
ResultsInPlace ==
  /\ DOMAIN counts = Workers
  /\ main = "done" => \A w \in Workers : w < i
  /\ main \in {"read", "done"} => \A w \in Workers :
       w < i => counts[w] = IF w \in wrote THEN Parse(Received(Text(result[w]))) ELSE NoData

ForkIInv == ProcInv /\ ResultInv /\ DataInv /\ ResultsInPlace

LEMMA ForkConstants ==
  /\ N \in Nat /\ N >= 1 /\ LoadProcs \in Nat /\ MaxFaults \in Nat /\ Batch \in Nat
  /\ Interval \in Nat /\ Interval >= 1 /\ Duration \in Nat /\ MaxDelay \in Nat
BY SizeAssumption, RoundAssumption, BatchAssumption, FaultsAssumption

\* Nothing blocks: when the parent reads, all write ends are closed.
LEMMA WritersGone == ProcInv => ReadNeverBlocks
<1> SUFFICES ASSUME ProcInv, main = "read", NEW w \in i..N PROVE CanRead(w)
  BY DEF ReadNeverBlocks
<1> USE ForkConstants
<1>1. w \in Workers
  BY DEF ProcInv, NumChildren, Workers
<1>2. \A c \in Children : child[c] \in {"none", "ended"}
  BY DEF ProcInv, ForkedInv, NoneLeftBehind, Children, NumChildren
<1>3. writers[w] \subseteq {0} \union Children
  BY <1>1 DEF ProcInv, Procs
<1>4. writers[w] = {}
  BY <1>1, <1>2, <1>3 DEF ProcInv, EndsInv
<1> QED BY <1>4 DEF CanRead

LEMMA EndedFinite == IsFiniteSet(Children) /\ Cardinality(EndedChildren) \in Nat
<1>1. IsFiniteSet(Children)
  BY FS_Interval, ForkConstants DEF Children
<1>2. EndedChildren \subseteq Children
  BY DEF EndedChildren
<1> QED BY <1>1, <1>2, FS_Subset, FS_CardinalityType

LEMMA EndedGrow ==
  ASSUME \A c \in Children : child[c] = "ended" => child'[c] = "ended"
  PROVE  /\ Cardinality(EndedChildren) <= Cardinality(EndedChildren')
         /\ Cardinality(EndedChildren') \in Nat
<1>1. EndedChildren \subseteq EndedChildren' /\ EndedChildren' \subseteq Children
  BY DEF EndedChildren
<1>2. IsFiniteSet(EndedChildren')
  BY <1>1, EndedFinite, FS_Subset
<1> QED BY <1>1, <1>2, FS_Subset, FS_CardinalityType

\* As many ended children as were forked: all of them.
LEMMA AllEnded ==
  ASSUME ProcInv, main = "wait", reaped = NumChildren
  PROVE  \A c \in 1..NumChildren : child[c] = "ended"
<1> USE ForkConstants
<1>1. NumChildren \in Nat
  BY DEF ProcInv, NumChildren
<1>2. EndedChildren \subseteq 1..NumChildren
  BY DEF ProcInv, ForkedInv, EndedChildren, Children, NumChildren
<1>3. IsFiniteSet(1..NumChildren) /\ Cardinality(1..NumChildren) = NumChildren
  BY <1>1, FS_Interval
<1>4. Cardinality(EndedChildren) <= NumChildren /\ Cardinality(EndedChildren) \in Nat
  BY <1>2, <1>3, FS_Subset, EndedFinite
<1>5. Cardinality(EndedChildren) = NumChildren
  BY <1>1, <1>4 DEF ProcInv
<1>6. EndedChildren = 1..NumChildren
  BY <1>2, <1>3, <1>5, FS_Subset
<1> QED BY <1>6 DEF EndedChildren

LEMMA ForkInitInv == ForkInit => ForkIInv
<1> SUFFICES ASSUME ForkInit PROVE ForkIInv
  OBVIOUS
<1> USE ForkConstants
<1>1. NumChildren \in Nat /\ num_load_procs \in 0..LoadProcs
  BY DEF ForkInit, NumChildren
<1>2. ForkedInv /\ EndsInv /\ NoneLeftBehind
  BY DEF ForkInit, ForkedInv, EndsInv, NoneLeftBehind, Children
<1>3. ProcInv
  BY <1>1, <1>2, EndedFinite DEF ForkInit, ProcInv, MainPC, ChildPC
<1>4. ResultInv /\ DataInv /\ ResultsInPlace
  <2>1. \A w \in Workers : w \in Children /\ child[w] = "none"
    BY DEF ForkInit, Workers, Children
  <2> QED BY <2>1 DEF ForkInit, ResultInv, DataInv, ResultsInPlace
<1> QED BY <1>3, <1>4 DEF ForkIInv

\* The parent's steps.
LEMMA SetupProc ==
  ProcInv /\ UNCHANGED arguments /\ (MakePipe \/ ForkWorker \/ ForkLoad) => ProcInv'
<1> SUFFICES ASSUME ProcInv, UNCHANGED <<program, num_load_procs>>,
                    MakePipe \/ ForkWorker \/ ForkLoad
             PROVE  ProcInv'
  BY DEF arguments
<1> USE ForkConstants
<1>1. /\ num_load_procs \in Nat /\ i \in Nat /\ i >= 1 /\ i <= NumChildren + 1
      /\ NumChildren = N + num_load_procs /\ NumChildren' = NumChildren
      /\ num_load_procs <= LoadProcs
      /\ child \in [Children -> ChildPC] /\ stats' = stats /\ reaped' = reaped
      /\ faults' = faults
      /\ main \in {"pipe", "fork", "load"}
  BY DEF ProcInv, NumChildren, MakePipe, ForkWorker, ForkLoad
<1>2. /\ readers \in [Workers -> SUBSET Procs] /\ writers \in [Workers -> SUBSET Procs]
      /\ \A c \in Children : child[c] = "none" <=> c >= i
      /\ \A c \in Children : child[c] \in {"none", "ended"} =>
           \A w \in Workers : c \notin readers[w] /\ c \notin writers[w]
      /\ stats = NoStats
  BY <1>1 DEF ProcInv, ForkedInv, EndsInv
<1>3. CASE MakePipe
  <2>1. /\ main = "pipe" /\ main' = "fork" /\ i' = i /\ child' = child /\ i <= N
        /\ readers' = [readers EXCEPT ![i] = {0}] /\ writers' = [writers EXCEPT ![i] = {0}]
    BY <1>3 DEF MakePipe, ProcInv, ForkedInv
  <2>2. /\ readers' \in [Workers -> SUBSET Procs] /\ writers' \in [Workers -> SUBSET Procs]
        /\ \A c \in Children, w \in Workers :
             /\ c \in readers'[w] => c \in readers[w]
             /\ c \in writers'[w] => c \in writers[w]
    BY <1>1, <1>2, <2>1 DEF Workers, Children, Procs
  <2>3. ForkedInv' /\ EndsInv' /\ NoneLeftBehind'
    BY <1>1, <1>2, <2>1, <2>2 DEF ForkedInv, EndsInv, NoneLeftBehind
  <2>4. EndedChildren' = EndedChildren
    BY <2>1 DEF EndedChildren
  <2> QED BY <1>1, <1>2, <2>1, <2>2, <2>3, <2>4 DEF ProcInv, MainPC
<1>4. CASE ForkWorker \/ ForkLoad
  <2>1. /\ i \in Children /\ i' = i + 1 /\ i <= NumChildren
        /\ \E pc \in {"close", "work"} : child' = [child EXCEPT ![i] = pc]
        /\ readers' = Inherit(readers, i) /\ writers' = Inherit(writers, i)
        /\ main' \in {"pipe", "load"}
        /\ main' = "pipe" => i < N
        /\ main' = "load" => i >= N
    BY <1>1, <1>4 DEF ForkWorker, ForkLoad, ProcInv, ForkedInv, Children
  <2>2. /\ child' \in [Children -> ChildPC] /\ child'[i] \notin {"none", "ended"}
        /\ \A c \in Children : c # i => child'[c] = child[c]
    BY <1>1, <2>1 DEF ChildPC
  <2>3. /\ readers' \in [Workers -> SUBSET Procs] /\ writers' \in [Workers -> SUBSET Procs]
        /\ \A c \in Children, w \in Workers : c # i =>
             /\ c \in readers'[w] => c \in readers[w]
             /\ c \in writers'[w] => c \in writers[w]
    BY <1>2, <2>1 DEF Inherit, Procs
  <2>4. ForkedInv'
    BY <1>1, <1>2, <2>1, <2>2 DEF ForkedInv, Children
  <2>5. EndsInv' /\ NoneLeftBehind'
    BY <1>2, <2>1, <2>2, <2>3 DEF EndsInv, NoneLeftBehind
  <2>6. \A c \in Children : child[c] = "ended" => child'[c] = "ended"
    BY <1>1, <1>2, <2>1, <2>2
  <2>7. reaped' \in 0..Cardinality(EndedChildren')
    BY <1>1, <2>6, EndedGrow, EndedFinite DEF ProcInv
  <2>8. i' \in 1..(NumChildren' + 1)
    BY <1>1, <2>1
  <2>9. program' \in Programs /\ num_load_procs' \in 0..LoadProcs /\ faults' \in 0..MaxFaults
    BY <1>1 DEF ProcInv
  <2> QED BY <1>1, <1>2, <2>1, <2>2, <2>3, <2>4, <2>5, <2>7, <2>8, <2>9 DEF ProcInv, MainPC
<1> QED BY <1>3, <1>4

LEMMA WaitProc ==
  ProcInv /\ UNCHANGED arguments
    /\ (SetupFails \/ CloseWriteEnds \/ WaitOne \/ AllWaited) => ProcInv'
<1> SUFFICES ASSUME ProcInv, UNCHANGED <<program, num_load_procs>>,
                    SetupFails \/ CloseWriteEnds \/ WaitOne \/ AllWaited
             PROVE  ProcInv'
  BY DEF arguments
<1> USE ForkConstants DEF ExitProcess, CloseAll
<1>1. /\ num_load_procs \in Nat /\ i \in Nat /\ i >= 1 /\ i <= NumChildren + 1
      /\ NumChildren = N + num_load_procs /\ NumChildren' = NumChildren
      /\ num_load_procs <= LoadProcs /\ reaped \in Nat
      /\ child' = child /\ stats' = stats /\ EndedChildren' = EndedChildren
  BY EndedFinite
     DEF ProcInv, NumChildren, SetupFails, CloseWriteEnds, WaitOne, AllWaited, EndedChildren
<1>2. /\ readers \in [Workers -> SUBSET Procs] /\ writers \in [Workers -> SUBSET Procs]
      /\ \A c \in Children : child[c] \in {"none", "ended"} =>
           \A w \in Workers : c \notin readers[w] /\ c \notin writers[w]
  BY DEF ProcInv, EndsInv
<1>3. CASE SetupFails
  <2>1. /\ main' = "failed" /\ i' = i /\ reaped' = reaped /\ stats = NoStats
        /\ faults' \in 0..MaxFaults
    BY <1>3 DEF SetupFails, Fault, ProcInv
  <2>2. /\ readers' \in [Workers -> SUBSET Procs] /\ writers' \in [Workers -> SUBSET Procs]
        /\ \A c \in Children, w \in Workers :
             /\ c \in readers'[w] => c \in readers[w]
             /\ c \in writers'[w] => c \in writers[w]
    BY <1>2, <1>3 DEF SetupFails
  <2>3. ForkedInv' /\ EndsInv' /\ NoneLeftBehind'
    BY <1>1, <1>2, <2>1, <2>2 DEF ForkedInv, EndsInv, NoneLeftBehind
  <2> QED BY <1>1, <2>1, <2>2, <2>3 DEF ProcInv, MainPC
<1>4. CASE CloseWriteEnds
  <2>1. /\ main = "load" /\ main' = "wait" /\ i' = i /\ reaped' = reaped /\ i > NumChildren
        /\ stats = NoStats /\ faults' = faults /\ readers' = readers
        /\ writers' = [w \in Workers |-> writers[w] \ {0}]
    BY <1>4 DEF CloseWriteEnds, ProcInv
  <2>2. /\ writers' \in [Workers -> SUBSET Procs]
        /\ \A w \in Workers : 0 \notin writers'[w]
        /\ \A c \in Children, w \in Workers : c \in writers'[w] => c \in writers[w]
    BY <1>2, <2>1
  <2>3. ForkedInv'
    BY <1>1, <2>1 DEF ForkedInv, ProcInv, Children
  <2>4. EndsInv' /\ NoneLeftBehind'
    BY <1>1, <1>2, <2>1, <2>2 DEF EndsInv, NoneLeftBehind
  <2> QED BY <1>1, <2>1, <2>2, <2>3, <2>4 DEF ProcInv, MainPC
<1>5. CASE WaitOne
  <2>1. /\ main = "wait" /\ main' = main /\ i' = i /\ reaped' = reaped + 1
        /\ reaped < Cardinality(EndedChildren) /\ faults' = faults
        /\ readers' = readers /\ writers' = writers
    BY <1>5 DEF WaitOne, pipes
  <2>2. reaped' \in 0..Cardinality(EndedChildren')
    BY <1>1, <2>1, EndedFinite
  <2>3. ForkedInv' /\ EndsInv' /\ NoneLeftBehind'
    BY <1>1, <2>1 DEF ProcInv, ForkedInv, EndsInv, NoneLeftBehind
  <2> QED BY <1>1, <2>1, <2>2, <2>3 DEF ProcInv
<1>6. CASE AllWaited
  <2>1. /\ main = "wait" /\ main' = "read" /\ i' = 1 /\ reaped' = reaped
        /\ reaped = NumChildren /\ faults' = faults
        /\ readers' = readers /\ writers' = writers
    BY <1>6 DEF AllWaited, pipes
  <2>2. NoneLeftBehind'
    BY <1>1, <2>1, AllEnded DEF NoneLeftBehind
  <2>3. ForkedInv' /\ EndsInv'
    BY <1>1, <2>1 DEF ProcInv, ForkedInv, EndsInv
  <2> QED BY <1>1, <2>1, <2>2, <2>3 DEF ProcInv, MainPC
<1> QED BY <1>3, <1>4, <1>5, <1>6

LEMMA ReadProc ==
  ProcInv /\ UNCHANGED arguments /\ (ReadResult \/ Report) => ProcInv'
<1> SUFFICES ASSUME ProcInv, UNCHANGED <<program, num_load_procs>>,
                    ReadResult \/ Report
             PROVE  ProcInv'
  BY DEF arguments
<1> USE ForkConstants DEF ExitProcess, CloseAll
<1>1. /\ num_load_procs \in Nat /\ i \in Nat /\ i >= 1 /\ i <= NumChildren + 1
      /\ NumChildren = N + num_load_procs /\ NumChildren' = NumChildren
      /\ num_load_procs <= LoadProcs /\ reaped' = reaped /\ faults' = faults
      /\ child' = child /\ EndedChildren' = EndedChildren /\ main = "read"
  BY DEF ProcInv, NumChildren, ReadResult, Report, EndedChildren
<1>2. /\ readers \in [Workers -> SUBSET Procs] /\ writers \in [Workers -> SUBSET Procs]
      /\ \A c \in Children : child[c] \in {"none", "ended"} =>
           \A w \in Workers : c \notin readers[w] /\ c \notin writers[w]
      /\ \A w \in Workers : 0 \notin writers[w]
  BY <1>1 DEF ProcInv, EndsInv
<1>3. /\ readers' \in [Workers -> SUBSET Procs] /\ writers' \in [Workers -> SUBSET Procs]
      /\ \A c \in Procs, w \in Workers :
           /\ c \in readers'[w] => c \in readers[w]
           /\ c \in writers'[w] => c \in writers[w]
  <2>1. CASE ReadResult
    <3>1. readers' = [readers EXCEPT ![i] = @ \ {0}] /\ writers' = writers
      BY <2>1 DEF ReadResult
    <3>2. \A w \in Workers : readers'[w] = readers[w] \/ readers'[w] = readers[w] \ {0}
      BY <1>2, <3>1
    <3> QED BY <1>2, <3>1, <3>2
  <2>2. CASE Report
    BY <1>2, <2>2 DEF Report
  <2> QED BY <2>1, <2>2
<1>4. main' \in {"read", "done"} /\ i' \in 1..(NumChildren' + 1)
  BY <1>1 DEF ReadResult, Report
<1>5. ForkedInv' /\ NoneLeftBehind'
  BY <1>1, <1>4 DEF ProcInv, ForkedInv, NoneLeftBehind
<1>6. EndsInv'
  BY <1>1, <1>2, <1>3 DEF EndsInv, Procs
<1>7. main' # "done" \/ program' # "counting" => stats' = NoStats
  BY <1>1 DEF ProcInv, ReadResult, Report
<1> QED BY <1>1, <1>3, <1>4, <1>5, <1>6, <1>7 DEF ProcInv, MainPC

\* A child takes a step: it keeps its ends of the pipes, closes some, or ends
\* and so closes them all.
ChildGoesOn(c) ==
  /\ child[c] \notin {"none", "ended"}
  /\ \E pc \in ChildPC \ {"none"} : child' = [child EXCEPT ![c] = pc]
  /\ \A w \in Workers : readers'[w] \subseteq readers[w] /\ writers'[w] \subseteq writers[w]
  /\ readers' \in [Workers -> SUBSET Procs] /\ writers' \in [Workers -> SUBSET Procs]
  /\ child'[c] = "ended" =>
       \A w \in Workers : c \notin readers'[w] /\ c \notin writers'[w]
  /\ faults' \in 0..MaxFaults
  /\ UNCHANGED <<main, i, reaped, counts, stats>>

LEMMA ChildProc ==
  ASSUME ProcInv, UNCHANGED <<program, num_load_procs>>,
         NEW c \in Children, ChildGoesOn(c)
  PROVE  ProcInv' /\ main \notin {"read", "done"}
<1> USE ForkConstants
<1>1. /\ child \in [Children -> ChildPC] /\ readers \in [Workers -> SUBSET Procs]
      /\ writers \in [Workers -> SUBSET Procs] /\ NumChildren' = NumChildren
      /\ \A b \in Children : child[b] \in {"none", "ended"} =>
           \A w \in Workers : b \notin readers[w] /\ b \notin writers[w]
  BY DEF ProcInv, EndsInv, NumChildren
<1>2. /\ child' \in [Children -> ChildPC] /\ child[c] \notin {"none", "ended"}
      /\ child'[c] # "none"
      /\ \A b \in Children : b # c => child'[b] = child[b]
  BY <1>1 DEF ChildGoesOn
<1>3. readers' \in [Workers -> SUBSET Procs] /\ writers' \in [Workers -> SUBSET Procs]
  BY <1>1 DEF ChildGoesOn, ProcInv
<1>4. main \notin {"read", "done"}
  <2>1. main \in {"read", "done"} => child[c] \in {"none", "ended"}
    BY DEF ProcInv, ForkedInv, NoneLeftBehind, NumChildren, Children
  <2> QED BY <1>2, <2>1
<1>5. /\ UNCHANGED <<main, i, reaped, stats>> /\ faults' \in 0..MaxFaults
      /\ \A w \in Workers : readers'[w] \subseteq readers[w]
                            /\ writers'[w] \subseteq writers[w]
      /\ child'[c] = "ended" =>
           \A w \in Workers : c \notin readers'[w] /\ c \notin writers'[w]
  BY DEF ChildGoesOn
<1>6. ForkedInv' /\ NoneLeftBehind'
  BY <1>1, <1>2, <1>4, <1>5 DEF ProcInv, ForkedInv, NoneLeftBehind
<1>7. EndsInv'
  <2>1. main' = "wait" => \A w \in Workers : 0 \notin writers[w]
    BY <1>5 DEF ProcInv, EndsInv
  <2> QED BY <1>1, <1>2, <1>4, <1>5, <2>1 DEF EndsInv
<1>8. \A b \in Children : child[b] = "ended" => child'[b] = "ended"
  BY <1>2
<1>9. reaped' \in 0..Cardinality(EndedChildren')
  BY <1>5, <1>8, EndedGrow, EndedFinite DEF ProcInv
<1> QED BY <1>1, <1>2, <1>3, <1>4, <1>5, <1>6, <1>7, <1>9 DEF ProcInv

\* Workers are children.
LEMMA WorkersAreChildren == \A w \in Workers : w \in Children
BY ForkConstants DEF Workers, Children

\* Which pc a child goes to.
LEMMA RoundGoes ==
  ASSUME ProcInv, elapsed \in [Workers -> 0..Duration], NEW w \in Workers,
         NEW t \in Nat, Round(w, t), faults' \in 0..MaxFaults
  PROVE  /\ ChildGoesOn(w) /\ UNCHANGED <<data, wrote>>
         /\ elapsed' \in [Workers -> 0..Duration]
         /\ child[w] = "work" /\ child' = [child EXCEPT ![w] = child'[w]]
         /\ child'[w] \in {"work", "write"}
<1> USE ForkConstants
<1>1. /\ w \in Children /\ child \in [Children -> ChildPC]
      /\ readers \in [Workers -> SUBSET Procs] /\ writers \in [Workers -> SUBSET Procs]
  BY WorkersAreChildren DEF ProcInv
<1>2. /\ child[w] = "work" /\ child'[w] \in {"work", "write"}
      /\ child' = [child EXCEPT ![w] = child'[w]]
      /\ UNCHANGED <<main, i, readers, writers, data, wrote, reaped, counts, stats>>
  BY <1>1 DEF Round, pipes
<1>3. ChildGoesOn(w)
  BY <1>1, <1>2 DEF ChildGoesOn, ChildPC
<1>4. elapsed' \in [Workers -> 0..Duration]
  <2>1. elapsed[w] \in 0..Duration /\ elapsed' = [elapsed EXCEPT ![w] = Min({@ + t, Duration})]
    BY DEF Round
  <2>2. Min({elapsed[w] + t, Duration}) \in 0..Duration
    <3>1. \/ Min({elapsed[w] + t, Duration}) = elapsed[w] + t /\ elapsed[w] + t <= Duration
          \/ Min({elapsed[w] + t, Duration}) = Duration
      <4> DEFINE a == elapsed[w] + t
      <4>1. a \in Nat
        BY <2>1
      <4> HIDE DEF a
      <4>2. CASE a <= Duration
        <5>1. \A x \in {a, Duration} : (\A y \in {a, Duration} : x <= y) <=> x = a
          BY <4>1, <4>2
        <5>2. Min({a, Duration}) = a
          BY <5>1 DEF Min
        <5> QED BY <4>2, <5>2 DEF a
      <4>3. CASE ~(a <= Duration)
        <5>1. \A x \in {a, Duration} : (\A y \in {a, Duration} : x <= y) <=> x = Duration
          BY <4>1, <4>3
        <5>2. Min({a, Duration}) = Duration
          BY <5>1 DEF Min
        <5> QED BY <5>2 DEF a
      <4> QED BY <4>2, <4>3
    <3> QED BY <2>1, <3>1
  <2> QED BY <2>1, <2>2
<1> QED BY <1>2, <1>3, <1>4

\* A child that ends or stops in its tracks changes no result.
LEMMA QuietChild ==
  ASSUME ForkIInv, UNCHANGED arguments, NEW c \in Children, ChildGoesOn(c),
         UNCHANGED <<data, elapsed, result, wrote>>,
         child'[c] \in {"exit", "ended"}
  PROVE  ForkIInv'
<1>1. ProcInv' /\ main \notin {"read", "done"}
  BY ChildProc DEF ForkIInv, arguments
<1>2. /\ UNCHANGED <<main, i, counts, program>>
      /\ child \in [Children -> ChildPC]
      /\ \A b \in Children : b # c => child'[b] = child[b]
  BY DEF ChildGoesOn, arguments, ForkIInv, ProcInv
<1>3. \A w \in Workers : child'[w] \in {"none", "close", "work", "write"} =>
        child'[w] = child[w]
  BY <1>2, WorkersAreChildren
<1>4. ResultInv'
  BY <1>2, <1>3 DEF ForkIInv, ResultInv
<1>5. DataInv'
  BY <1>2, <1>3 DEF ForkIInv, DataInv
<1>6. ResultsInPlace'
  BY <1>1, <1>2 DEF ForkIInv, ResultsInPlace
<1> QED BY <1>1, <1>4, <1>5, <1>6 DEF ForkIInv

\* What each step of a child does to the results.
LEMMA ChildCloseStep ==
  ASSUME ForkIInv, UNCHANGED arguments, NEW w \in Workers, ChildClose(w)
  PROVE  ForkIInv'
<1> USE ForkConstants
<1>1. /\ w \in Children /\ w \in Nat /\ w >= 1
      /\ child \in [Children -> ChildPC] /\ readers \in [Workers -> SUBSET Procs]
      /\ writers \in [Workers -> SUBSET Procs] /\ result \in [Workers -> Seq(Nat)]
  BY WorkersAreChildren DEF ForkIInv, ProcInv, ResultInv, Workers
<1>2. /\ child[w] = "close" /\ child' = [child EXCEPT ![w] = "work"]
      /\ readers' = [readers EXCEPT ![w] = @ \ {w}]
      /\ result' = [result EXCEPT ![w] = IF program = "counting" THEN <<0>>
                                         ELSE <<w - 1, 0, 0>>]
      /\ UNCHANGED <<main, i, writers, data, elapsed, wrote, reaped, counts, stats, faults>>
      /\ UNCHANGED <<program, num_load_procs>>
  BY DEF ChildClose, arguments
<1>3. ChildGoesOn(w)
  <2>1. \A u \in Workers : readers'[u] \subseteq readers[u]
    BY <1>1, <1>2
  <2>2. faults' \in 0..MaxFaults
    BY <1>2 DEF ForkIInv, ProcInv
  <2>3. readers' \in [Workers -> SUBSET Procs]
    BY <1>1, <1>2
  <2> QED BY <1>1, <1>2, <2>1, <2>2, <2>3 DEF ChildGoesOn, ChildPC
<1>4. ProcInv' /\ main \notin {"read", "done"}
  BY <1>1, <1>2, <1>3, ChildProc DEF ForkIInv
<1>5. /\ child'[w] = "work" /\ \A u \in Workers : u # w => child'[u] = child[u]
      /\ \A u \in Workers : u # w => result'[u] = result[u]
      /\ data[w] = <<>> /\ w \notin wrote
  BY <1>1, <1>2, WorkersAreChildren DEF ForkIInv, DataInv
<1>6. /\ result'[w] \in Seq(Nat)
      /\ Len(result'[w]) = IF program = "counting" THEN 1 ELSE 3
  <2>1. <<0>> \in Seq(Nat) /\ Len(<<0>>) = 1
    OBVIOUS
  <2>2. <<w - 1, 0, 0>> \in Seq(Nat) /\ Len(<<w - 1, 0, 0>>) = 3
    BY <1>1
  <2> QED BY <1>1, <1>2, <2>1, <2>2
<1>7. ResultInv'
  <2>1. result' \in [Workers -> Seq(Nat)]
    BY <1>1, <1>2, <1>5, <1>6
  <2> QED BY <1>2, <1>5, <1>6, <2>1 DEF ForkIInv, ResultInv
<1>8. DataInv'
  BY <1>2, <1>5 DEF ForkIInv, DataInv
<1>9. ResultsInPlace'
  BY <1>2, <1>4 DEF ForkIInv, ResultsInPlace
<1> QED BY <1>4, <1>7, <1>8, <1>9 DEF ForkIInv

\* A round adds to the result.
LEMMA RoundStep ==
  ASSUME ForkIInv, UNCHANGED arguments, NEW w \in Workers, NEW t \in Nat, Round(w, t),
         faults' \in 0..MaxFaults, NEW new \in Seq(Nat),
         result' = [result EXCEPT ![w] = new],
         Len(new) = IF program = "counting" THEN 1 ELSE 3,
         program = "sleep_wake_process" => new[3] > 0
  PROVE  ForkIInv'
<1>1. /\ w \in Children /\ child \in [Children -> ChildPC]
      /\ result \in [Workers -> Seq(Nat)] /\ elapsed \in [Workers -> 0..Duration]
      /\ UNCHANGED <<program, num_load_procs>>
  BY WorkersAreChildren DEF ForkIInv, ProcInv, ResultInv, arguments
<1>2. /\ ChildGoesOn(w) /\ UNCHANGED <<data, wrote>>
      /\ elapsed' \in [Workers -> 0..Duration]
      /\ child[w] = "work" /\ child' = [child EXCEPT ![w] = child'[w]]
      /\ child'[w] \in {"work", "write"}
  BY <1>1, RoundGoes DEF ForkIInv
<1>3. ProcInv' /\ main \notin {"read", "done"} /\ UNCHANGED <<main, i, counts>>
  BY <1>1, <1>2, ChildProc DEF ForkIInv, ChildGoesOn
<1>4. /\ \A u \in Workers : u # w => child'[u] = child[u]
      /\ \A u \in Workers : u # w => result'[u] = result[u]
      /\ result'[w] = new /\ data[w] = <<>> /\ w \notin wrote
  BY <1>1, <1>2, WorkersAreChildren DEF ForkIInv, DataInv
<1>5. ResultInv'
  <2>1. result' \in [Workers -> Seq(Nat)]
    BY <1>1
  <2>2. Len(result'[w]) = IF program = "counting" THEN 1 ELSE 3
    BY <1>4
  <2>3. program = "sleep_wake_process" => Len(result'[w]) = 3 /\ result'[w][3] > 0
    BY <1>4
  <2> QED BY <1>1, <1>2, <1>4, <2>1, <2>2, <2>3 DEF ForkIInv, ResultInv
<1>6. DataInv'
  BY <1>2, <1>3, <1>4 DEF ForkIInv, DataInv
<1>7. ResultsInPlace'
  BY <1>3 DEF ForkIInv, ResultsInPlace
<1> QED BY <1>3, <1>5, <1>6, <1>7 DEF ForkIInv

LEMMA FieldsNat == \A s \in Seq(Nat) : \A f \in DOMAIN s : s[f] \in Nat
OBVIOUS

LEMMA AddToField ==
  ASSUME NEW s \in Seq(Nat), Len(s) = 1, NEW b \in Nat
  PROVE  [s EXCEPT ![1] = @ + b] \in Seq(Nat) /\ Len([s EXCEPT ![1] = @ + b]) = 1
<1>1. 1 \in 1..Len(s)
  OBVIOUS
<1>2. s[1] \in Nat
  <2>1. DOMAIN s = 1..Len(s)
    OBVIOUS
  <2> QED BY <1>1, <2>1, FieldsNat
<1> DEFINE new == s[1] + b
<1>3. new \in Nat
  BY <1>2
<1> HIDE DEF new
<1>4. [s EXCEPT ![1] = new] \in Seq(Nat) /\ Len([s EXCEPT ![1] = new]) = 1
  BY <1>1, <1>3
<1> QED BY <1>4 DEF new

LEMMA CountStep ==
  ASSUME ForkIInv, UNCHANGED arguments, NEW w \in Workers, CountBatch(w)
  PROVE  ForkIInv'
<1> USE ForkConstants
<1>1. PICK late \in 0..MaxDelay : Round(w, Interval + late)
  BY DEF CountBatch
<1>2. /\ program = "counting" /\ faults' \in 0..MaxFaults /\ child[w] = "work"
      /\ result' = [result EXCEPT ![w][1] = @ + Batch]
  BY <1>1 DEF CountBatch, Round, ForkIInv, ProcInv
<1>3. result \in [Workers -> Seq(Nat)] /\ Len(result[w]) = 1
  BY <1>2 DEF ForkIInv, ResultInv
<1> DEFINE new == [result[w] EXCEPT ![1] = @ + Batch]
<1>4. new \in Seq(Nat) /\ Len(new) = 1
  BY <1>3, AddToField
<1>5. result' = [result EXCEPT ![w] = new]
  BY <1>2, <1>3
<1>6. Interval + late \in Nat /\ program # "sleep_wake_process"
  BY <1>2
<1> HIDE DEF new
<1> QED BY <1>1, <1>2, <1>4, <1>5, <1>6, RoundStep

LEMMA JitterStep ==
  ASSUME ForkIInv, UNCHANGED arguments, NEW w \in Workers, NEW t \in Nat,
         program = "sleep_wake_process", Round(w, t), AddJitter(w, t),
         faults' \in 0..MaxFaults
  PROVE  ForkIInv'
<1> USE ForkConstants
<1> DEFINE late == IF t < Interval THEN 0 ELSE t - Interval
<1>1. /\ child[w] = "work" /\ result \in [Workers -> Seq(Nat)] /\ Len(result[w]) = 3
      /\ result' = [result EXCEPT ![w][2] = @ + late, ![w][3] = @ + 1]
      /\ late \in Nat
  BY DEF Round, AddJitter, ForkIInv, ProcInv, ResultInv
<1> HIDE DEF late
<1> DEFINE new == [result[w] EXCEPT ![2] = @ + late, ![3] = @ + 1]
<1>2. /\ result[w] \in Seq(Nat) /\ 2 \in 1..Len(result[w]) /\ 3 \in 1..Len(result[w])
      /\ result[w][2] \in Nat /\ result[w][3] \in Nat
  BY <1>1
<1>3. new \in Seq(Nat) /\ Len(new) = 3 /\ new[3] > 0
  BY <1>1, <1>2
<1>4. result' = [result EXCEPT ![w] = new]
  BY <1>1
<1>5. program # "counting"
  OBVIOUS
<1> HIDE DEF new
<1> QED BY <1>3, <1>4, <1>5, RoundStep

LEMMA SleepStep ==
  ASSUME ForkIInv, UNCHANGED arguments, NEW w \in Workers, Sleep(w) \/ SleepFails(w)
  PROVE  ForkIInv'
<1> USE ForkConstants
<1>1. program = "sleep_wake_process" /\ faults' \in 0..MaxFaults
  BY DEF Sleep, SleepFails, Fault, ForkIInv, ProcInv
<1>2. \E t \in Nat : Round(w, t) /\ AddJitter(w, t)
  <2>1. \A t \in 0..Interval : t \in Nat
    OBVIOUS
  <2>2. \A late \in 0..MaxDelay : Interval + late \in Nat
    OBVIOUS
  <2> QED BY <2>1, <2>2 DEF Sleep, SleepFails
<1> QED BY <1>1, <1>2, JitterStep

LEMMA ChildWriteStep ==
  ASSUME ForkIInv, UNCHANGED arguments, NEW w \in Workers, ChildWrite(w)
  PROVE  ForkIInv'
<1>1. /\ w \in Children /\ child \in [Children -> ChildPC]
      /\ readers \in [Workers -> SUBSET Procs] /\ writers \in [Workers -> SUBSET Procs]
      /\ UNCHANGED <<program, num_load_procs>>
  BY WorkersAreChildren DEF ForkIInv, ProcInv, arguments
<1>2. /\ child[w] = "write" /\ child' = [child EXCEPT ![w] = "exit"]
      /\ data' = [data EXCEPT ![w] = Append(@, Text(result[w]))]
      /\ wrote' = wrote \union {w}
      /\ UNCHANGED <<main, i, readers, writers, elapsed, result, reaped, counts, stats,
                     faults>>
  BY DEF ChildWrite
<1>3. ChildGoesOn(w)
  <2>1. faults' \in 0..MaxFaults
    BY <1>2 DEF ForkIInv, ProcInv
  <2> QED BY <1>1, <1>2, <2>1 DEF ChildGoesOn, ChildPC
<1>4. ProcInv' /\ main \notin {"read", "done"}
  BY <1>1, <1>3, ChildProc DEF ForkIInv
<1>5. /\ child'[w] = "exit" /\ \A u \in Workers : u # w => child'[u] = child[u]
      /\ DOMAIN data = Workers /\ data[w] = <<>>
  BY <1>1, <1>2, WorkersAreChildren DEF ForkIInv, DataInv
<1>6. /\ DOMAIN data' = Workers /\ data'[w] = <<Text(result[w])>>
      /\ \A u \in Workers : u # w => data'[u] = data[u]
  <2>1. Append(<<>>, Text(result[w])) = <<Text(result[w])>>
    OBVIOUS
  <2> QED BY <1>2, <1>5, <2>1
<1>7. ResultInv'
  BY <1>1, <1>2, <1>5 DEF ForkIInv, ResultInv
<1>8. DataInv'
  <2>1. <<Text(result[w])>> # <<>>
    OBVIOUS
  <2> QED BY <1>2, <1>4, <1>5, <1>6, <2>1 DEF ForkIInv, DataInv
<1>9. ResultsInPlace'
  BY <1>2, <1>4 DEF ForkIInv, ResultsInPlace
<1> QED BY <1>4, <1>7, <1>8, <1>9 DEF ForkIInv

LEMMA QuietStep ==
  ASSUME ForkIInv, UNCHANGED arguments, NEW c \in Children,
         \/ c \notin Workers /\ LoadWork(c)
         \/ ChildExit(c) \/ ChildDies(c)
         \/ c \in Workers /\ (ChildSigpipe(c) \/ ChildWriteFails(c))
  PROVE  ForkIInv'
<1>1. /\ child \in [Children -> ChildPC] /\ readers \in [Workers -> SUBSET Procs]
      /\ writers \in [Workers -> SUBSET Procs] /\ faults \in 0..MaxFaults
  BY DEF ForkIInv, ProcInv
<1>2. /\ child[c] \notin {"none", "ended"}
      /\ UNCHANGED <<main, i, data, elapsed, result, wrote, reaped, counts, stats>>
  BY DEF LoadWork, ChildExit, ChildDies, ChildSigpipe, ChildWriteFails, work, pipes
<1>3. \/ child' = [child EXCEPT ![c] = "exit"] /\ UNCHANGED <<readers, writers>>
      \/ child' = [child EXCEPT ![c] = "ended"] /\ ExitProcess(c)
  BY DEF LoadWork, ChildExit, ChildDies, ChildSigpipe, ChildWriteFails, pipes
<1>4. faults' \in 0..MaxFaults
  BY <1>1, ForkConstants
     DEF LoadWork, ChildExit, ChildDies, ChildSigpipe, ChildWriteFails, Fault
<1>5. ChildGoesOn(c) /\ child'[c] \in {"exit", "ended"}
  BY <1>1, <1>2, <1>3, <1>4 DEF ChildGoesOn, ExitProcess, CloseAll, ChildPC
<1> QED BY <1>2, <1>5, QuietChild

\* The parent's steps and the results.
LEMMA ParentStep ==
  ASSUME ForkIInv, UNCHANGED arguments,
         MakePipe \/ ForkWorker \/ ForkLoad \/ SetupFails \/ CloseWriteEnds \/ WaitOne
  PROVE  ForkIInv'
<1>1. ProcInv'
  BY SetupProc, WaitProc DEF ForkIInv
<1>2. /\ UNCHANGED <<data, elapsed, result, wrote, counts, program, num_load_procs>>
      /\ main \notin {"read", "done"} /\ main' \notin {"read", "done"}
  BY DEF MakePipe, ForkWorker, ForkLoad, SetupFails, CloseWriteEnds, WaitOne, work, pipes,
     arguments
<1>3. \A w \in Workers : \/ child'[w] = child[w]
                         \/ child[w] = "none" /\ child'[w] = "close"
  <2>1. CASE ForkWorker
    <3>1. /\ i \in Children /\ child[i] = "none" /\ child \in [Children -> ChildPC]
          /\ child' = [child EXCEPT ![i] = "close"]
      BY <2>1, ForkConstants DEF ForkWorker, ForkIInv, ProcInv, ForkedInv, Children
    <3> QED BY <3>1, WorkersAreChildren
  <2>2. CASE ForkLoad
    <3>1. /\ i \notin Workers /\ child \in [Children -> ChildPC]
          /\ child' = [child EXCEPT ![i] = "work"]
      BY <2>2, ForkConstants DEF ForkLoad, ForkIInv, ProcInv, ForkedInv, Workers
    <3> QED BY <3>1, WorkersAreChildren
  <2>3. CASE MakePipe \/ SetupFails \/ CloseWriteEnds \/ WaitOne
    BY <2>3 DEF MakePipe, SetupFails, CloseWriteEnds, WaitOne
  <2> QED BY <2>1, <2>2, <2>3
<1>4. ResultInv' /\ DataInv'
  BY <1>2, <1>3 DEF ForkIInv, ResultInv, DataInv
<1>5. ResultsInPlace'
  BY <1>2 DEF ForkIInv, ResultsInPlace
<1> QED BY <1>1, <1>4, <1>5 DEF ForkIInv

LEMMA AllWaitedStep ==
  ASSUME ForkIInv, UNCHANGED arguments, AllWaited
  PROVE  ForkIInv'
<1>1. ProcInv'
  BY WaitProc DEF ForkIInv
<1>2. /\ UNCHANGED <<child, data, elapsed, result, wrote, counts, program, num_load_procs>>
      /\ main = "wait" /\ main' = "read" /\ i' = 1
  BY DEF AllWaited, work, pipes, arguments
<1>3. ResultInv' /\ DataInv'
  BY <1>2 DEF ForkIInv, ResultInv, DataInv
<1>4. ResultsInPlace'
  BY <1>2 DEF ForkIInv, ResultsInPlace, Workers
<1> QED BY <1>1, <1>3, <1>4 DEF ForkIInv

LEMMA ReadResultStep ==
  ASSUME ForkIInv, UNCHANGED arguments, ReadResult
  PROVE  ForkIInv'
<1> USE ForkConstants
<1>1. ProcInv'
  BY ReadProc DEF ForkIInv
<1>2. /\ main = "read" /\ main' = main /\ i \in Workers /\ i' = i + 1
      /\ UNCHANGED <<child, elapsed, result, wrote, program, num_load_procs>>
      /\ data' = [data EXCEPT ![i] = IF @ = <<>> THEN @ ELSE Tail(@)]
      /\ counts' = [counts EXCEPT ![i] = IF data[i] = <<>> THEN NoData
                                         ELSE Parse(Received(Head(data[i])))]
  BY DEF ReadResult, work, arguments, ForkIInv, ProcInv, Workers
<1>3. /\ DOMAIN data = Workers /\ DOMAIN counts = Workers
      /\ data[i] = <<>> \/ data[i] = <<Text(result[i])>>
      /\ data[i] # <<>> <=> i \in wrote
      /\ i \in Nat
  BY <1>2 DEF ForkIInv, DataInv, ResultsInPlace, Workers
<1>4. /\ Tail(<<Text(result[i])>>) = <<>> /\ Head(<<Text(result[i])>>) = Text(result[i])
      /\ <<Text(result[i])>> # <<>>
  OBVIOUS
<1>5. /\ DOMAIN data' = Workers /\ data'[i] = <<>>
      /\ \A w \in Workers : w # i => data'[w] = data[w]
  BY <1>2, <1>3, <1>4
<1>6. /\ DOMAIN counts' = Workers
      /\ counts'[i] = IF i \in wrote THEN Parse(Received(Text(result[i]))) ELSE NoData
      /\ \A w \in Workers : w # i => counts'[w] = counts[w]
  BY <1>2, <1>3, <1>4
<1>7. ResultInv'
  BY <1>2 DEF ForkIInv, ResultInv
<1>8. DataInv'
  <2>1. \A w \in Workers : w < i' <=> w < i \/ w = i
    BY <1>2 DEF Workers
  <2> QED BY <1>2, <1>5, <2>1 DEF ForkIInv, DataInv
<1>9. ResultsInPlace'
  <2>1. \A w \in Workers : w < i' <=> w < i \/ w = i
    BY <1>2 DEF Workers
  <2>2. NoData' = NoData
    BY <1>2 DEF NoData
  <2>3. \A w \in Workers : w < i =>
          counts[w] = IF w \in wrote THEN Parse(Received(Text(result[w]))) ELSE NoData
    BY <1>2 DEF ForkIInv, ResultsInPlace
  <2>4. \A w \in Workers : Received(Text(result[w]))' = Received(Text(result[w]))
    BY <1>2 DEF Received, BufSize
  <2> QED BY <1>2, <1>6, <2>1, <2>2, <2>3, <2>4 DEF ResultsInPlace
<1> QED BY <1>1, <1>7, <1>8, <1>9 DEF ForkIInv

\* The report leaves the results as they were read, one of every worker.
LEMMA ReportStep ==
  ASSUME ForkIInv, UNCHANGED arguments, Report
  PROVE  ForkIInv'
<1> USE ForkConstants
<1>1. ProcInv'
  BY ReadProc DEF ForkIInv
<1>2. /\ UNCHANGED <<i, child, data, elapsed, result, wrote, counts, program, num_load_procs>>
      /\ main = "read" /\ main' = "done"
  BY DEF Report, work, arguments
<1>3. ResultInv' /\ DataInv'
  BY <1>2 DEF ForkIInv, ResultInv, DataInv
<1>4. ResultsInPlace'
  <2>1. NoData' = NoData
    BY <1>2 DEF NoData
  <2>2. \A w \in Workers : Received(Text(result[w]))' = Received(Text(result[w]))
    BY <1>2 DEF Received, BufSize
  <2>3. \A w \in Workers : w < i =>
          counts[w] = IF w \in wrote THEN Parse(Received(Text(result[w]))) ELSE NoData
    BY <1>2 DEF ForkIInv, ResultsInPlace
  <2>4. \A w \in Workers : w < i
    BY DEF Report, ForkIInv, ProcInv, Workers
  <2>5. DOMAIN counts = Workers
    BY DEF ForkIInv, ResultsInPlace
  <2> QED BY <1>2, <2>1, <2>2, <2>3, <2>4, <2>5 DEF ResultsInPlace
<1> QED BY <1>1, <1>3, <1>4 DEF ForkIInv

LEMMA ForkStutter ==
  ASSUME ForkIInv, UNCHANGED forkVars
  PROVE  ForkIInv'
<1>1. UNCHANGED <<program, num_load_procs, main, i, child, readers, writers, data, elapsed,
                  result, wrote, reaped, counts, stats, faults>>
  BY DEF forkVars, arguments, pipes, work
<1>2. EndedChildren' = EndedChildren /\ NumChildren' = NumChildren
  BY <1>1 DEF EndedChildren, NumChildren
<1>3. ProcInv'
  BY <1>1, <1>2 DEF ForkIInv, ProcInv, ForkedInv, EndsInv, NoneLeftBehind
<1>4. ResultInv' /\ DataInv'
  BY <1>1 DEF ForkIInv, ResultInv, DataInv
<1>5. ResultsInPlace'
  <2>1. NoData' = NoData
    BY <1>1 DEF NoData
  <2>2. \A w \in Workers : Received(Text(result[w]))' = Received(Text(result[w]))
    BY <1>1 DEF Received, BufSize
  <2> QED BY <1>1, <2>1, <2>2 DEF ForkIInv, ResultsInPlace
<1> QED BY <1>3, <1>4, <1>5 DEF ForkIInv

LEMMA ForkStepInv == ForkIInv /\ [ForkNext]_forkVars => ForkIInv'
<1> SUFFICES ASSUME ForkIInv, [ForkNext]_forkVars PROVE ForkIInv'
  OBVIOUS
<1>1. CASE UNCHANGED forkVars
  BY <1>1, ForkStutter
<1>2. CASE ForkNext
  <2>1. UNCHANGED arguments
    BY <1>2 DEF ForkNext
  <2>2. CASE MainNext \/ SetupFails
    BY <2>1, <2>2, ParentStep, AllWaitedStep, ReadResultStep, ReportStep DEF MainNext
  <2>3. ASSUME NEW c \in Children, ChildNext(c) \/ ChildDies(c) PROVE ForkIInv'
    <3>1. CASE c \in Workers /\ WorkerNext(c)
      BY <2>1, <2>3, <3>1, ChildCloseStep, CountStep, SleepStep, ChildWriteStep, QuietStep
         DEF WorkerNext
    <3>2. CASE (c \notin Workers /\ LoadWork(c)) \/ ChildExit(c) \/ ChildDies(c)
      BY <2>1, <2>3, <3>2, QuietStep
    <3> QED BY <2>3, <3>1, <3>2 DEF ChildNext
  <2>4. ASSUME NEW w \in Workers, ChildWriteFails(w) \/ SleepFails(w) PROVE ForkIInv'
    BY <2>1, <2>4, WorkersAreChildren, SleepStep, QuietStep
  <2> QED BY <1>2, <2>2, <2>3, <2>4 DEF ForkNext
<1> QED BY <1>1, <1>2

LEMMA ForkAlways == ForkSpec => []ForkIInv
BY ForkInitInv, ForkStepInv, PTL DEF ForkSpec

LEMMA ForkTyped == ForkIInv => ForkTypeOK
<1> SUFFICES ASSUME ForkIInv PROVE ForkTypeOK
  OBVIOUS
<1>1. \A w \in Workers : Len(data[w]) <= 1
  <2>1. \A t : Len(<<t>>) <= 1
    OBVIOUS
  <2>2. Len(<<>>) <= 1
    OBVIOUS
  <2> QED BY <2>1, <2>2 DEF ForkIInv, DataInv
<1>2. \A w \in Workers : \A f \in DOMAIN result[w] : result[w][f] \in Nat
  BY FieldsNat DEF ForkIInv, ResultInv
<1> QED BY <1>1, <1>2 DEF ForkIInv, ProcInv, ResultInv, ResultsInPlace, ForkTypeOK

\* For any number of workers and load children, any length of the measurement
\* and any number of failures: every variable keeps its type, no pipe ever
\* holds two results, no read blocks, and no child is left behind.
THEOREM ForkCorrect == ForkSpec => []ForkInv
<1>1. ForkIInv => ForkInv
  BY WritersGone, ForkTyped DEF ForkIInv, ProcInv, ForkInv
<1> QED BY <1>1, ForkAlways, PTL

------------------------------------------------------------------------------
(* The texts in the pipes: what snprintf prints is what strtoull or sscanf *)
(* reads.                                                                  *)

\* The digits of a number, and a blank.
Ten == 0..9
Chars == 0..10
Fields == {f \in Seq(Nat) : f # <<>>}

LEMMA DividedByTen ==
  \A n \in Nat : /\ n \div 10 \in Nat /\ n % 10 \in Ten /\ 10 * (n \div 10) + (n % 10) = n
                 /\ n >= 10 => n \div 10 < n
BY DEF Ten

\* The recursive definition of Digits has a value, which is a text of digits.
LEMMA DigitsValue ==
  /\ Digits \in [Nat -> Seq(Ten)]
  /\ \A n \in Nat : Digits[n] = IF n < 10 THEN <<n>>
                                ELSE Append(Digits[n \div 10], n % 10)
<1> DEFINE A == Seq(Ten)
           body == [p \in Nat \X [Nat -> A] |->
                      IF p[1] < 10 THEN <<p[1]>> ELSE Append(p[2][p[1] \div 10], p[1] % 10)]
           measure == [n \in Nat |-> n]
<1>1. \A n \in Nat : n < 10 => n \in Ten
  BY DEF Ten
<1>2. \A n \in Nat, g \in [Nat -> A] :
        /\ body[<<n, g>>] = IF n < 10 THEN <<n>> ELSE Append(g[n \div 10], n % 10)
        /\ body[<<n, g>>] \in A
  <2> SUFFICES ASSUME NEW n \in Nat, NEW g \in [Nat -> A]
               PROVE  (IF n < 10 THEN <<n>> ELSE Append(g[n \div 10], n % 10)) \in A
    OBVIOUS
  <2>1. CASE n < 10
    BY <1>1, <2>1
  <2>2. CASE ~(n < 10)
    <3>1. g[n \div 10] \in Seq(Ten) /\ n % 10 \in Ten
      BY DividedByTen
    <3> QED BY <2>2, <3>1
  <2> QED BY <2>1, <2>2
<1>3. body \in [Nat \X [Nat -> A] -> A]
  <2>1. \A p \in Nat \X [Nat -> A] : p = <<p[1], p[2]>> /\ p[1] \in Nat /\ p[2] \in [Nat -> A]
    OBVIOUS
  <2> QED BY <1>2, <2>1
<1> HIDE DEF body
<1>4. \A n \in Nat : \A g, h \in [Nat -> A] :
        (\A m \in Nat : measure[m] < measure[n] => g[m] = h[m]) =>
          body[<<n, g>>] = body[<<n, h>>]
  <2> SUFFICES ASSUME NEW n \in Nat, NEW g \in [Nat -> A], NEW h \in [Nat -> A],
                      \A m \in Nat : m < n => g[m] = h[m]
               PROVE  body[<<n, g>>] = body[<<n, h>>]
    OBVIOUS
  <2>1. n < 10 \/ g[n \div 10] = h[n \div 10]
    BY DividedByTen
  <2> QED BY <1>2, <2>1
<1>5. measure \in [Nat -> Nat] /\ <<>> \in A
  OBVIOUS
<1> HIDE DEF measure, A
<1>6. IsRecursive(body, Nat, A, measure)
  BY <1>3, <1>4, <1>5 DEF IsRecursive
<1>7. PICK f : IsValue(f, body, Nat, A)
  BY <1>5, <1>6, RecursionExists
<1>8. /\ f \in [Nat -> A]
      /\ \A n \in Nat : f[n] = IF n < 10 THEN <<n>> ELSE Append(f[n \div 10], n % 10)
  BY <1>2, <1>7 DEF IsValue
<1>9. f = [n \in Nat |-> IF n < 10 THEN <<n>> ELSE Append(f[n \div 10], n % 10)]
  BY <1>8
<1>10. Digits = [n \in Nat |-> IF n < 10 THEN <<n>> ELSE Append(Digits[n \div 10], n % 10)]
  BY <1>9 DEF Digits
<1>11. \A n \in Nat : Digits[n] = IF n < 10 THEN <<n>> ELSE Append(Digits[n \div 10], n % 10)
  BY <1>10
<1> DEFINE U == {n \in Nat : \A m \in 0..n : Digits[m] \in A}
<1>12. 0 \in U
  <2>1. 0 \in Nat /\ 0 < 10
    OBVIOUS
  <2>2. Digits[0] = <<0>> /\ 0 \in Ten
    BY ONLY <1>1, <1>11, <2>1
  <2>3. <<0>> \in A
    BY <2>2 DEF A
  <2>4. \A m \in 0..0 : m = 0
    OBVIOUS
  <2> QED BY <2>2, <2>3, <2>4
<1>13. \A n \in Nat : n \in U => n + 1 \in U
  <2> SUFFICES ASSUME NEW n \in Nat, \A m \in 0..n : Digits[m] \in A
               PROVE  Digits[n + 1] \in A
    OBVIOUS
  <2>1. CASE n + 1 < 10
    <3>1. n + 1 \in Nat
      OBVIOUS
    <3>2. Digits[n + 1] = <<n + 1>> /\ n + 1 \in Ten
      BY ONLY <1>1, <1>11, <2>1, <3>1
    <3> QED BY <3>2 DEF A
  <2>2. CASE ~(n + 1 < 10)
    <3> DEFINE d == (n + 1) \div 10
               r == (n + 1) % 10
    <3>1. d \in 0..n /\ r \in Ten
      BY <2>2, DividedByTen
    <3>2. Digits[n + 1] = Append(Digits[d], r)
      <4>1. n + 1 \in Nat
        OBVIOUS
      <4> QED BY ONLY <1>11, <2>2, <4>1
    <3> HIDE DEF d, r
    <3> QED BY <3>1, <3>2 DEF A
  <2> QED BY <2>1, <2>2
<1>14. \A n \in Nat : n \in U
  <2> HIDE DEF U
  <2> QED BY <1>12, <1>13, AllNat
<1>15. Digits \in [Nat -> A]
  <2>1. \A n \in Nat : n \in 0..n
    OBVIOUS
  <2>2. \A n \in Nat : Digits[n] \in A
    BY <1>14, <2>1
  <2> QED BY ONLY <1>10, <2>2, Zenon
<1> QED BY <1>11, <1>15 DEF A

\* strtoull or sscanf over a text: one step per character.
LEMMA ScanFields == \A f \in Fields : \A c \in Chars : Scan(f, c) \in Fields
<1> SUFFICES ASSUME NEW f \in Seq(Nat), f # <<>>, NEW c \in Chars PROVE Scan(f, c) \in Fields
  BY DEF Fields
<1>1. CASE c = Blank
  <2>1. Append(f, 0) \in Seq(Nat) /\ Append(f, 0) # <<>>
    OBVIOUS
  <2> QED BY <1>1, <2>1 DEF Scan, Fields
<1>2. CASE c # Blank
  <2>1. Len(f) \in 1..Len(f) /\ c \in Nat
    BY DEF Chars
  <2>2. f[Len(f)] \in Nat
    BY <2>1
  <2> DEFINE new == 10 * f[Len(f)] + c
  <2>3. new \in Nat
    BY <2>1, <2>2
  <2> HIDE DEF new
  <2>4. [f EXCEPT ![Len(f)] = new] \in Seq(Nat) /\ [f EXCEPT ![Len(f)] = new] # <<>>
    BY <2>1, <2>3
  <2> QED BY <1>2, <2>4 DEF Scan, Fields, new
<1> QED BY <1>1, <1>2

ScanRun(g, text) ==
  /\ g \in [0..Len(text) -> Fields] /\ g[0] = <<0>>
  /\ \A k \in 1..Len(text) : g[k] = Scan(g[k - 1], text[k])

LEMMA UpTo == \A n \in Nat : n >= 1 => /\ Max(1..n) = n /\ (1..n) \ {n} = 1..(n - 1)
<1> SUFFICES ASSUME NEW n \in Nat, n >= 1 PROVE Max(1..n) = n /\ (1..n) \ {n} = 1..(n - 1)
  OBVIOUS
<1>1. \A x \in 1..n : (\A y \in 1..n : x >= y) <=> x = n
  OBVIOUS
<1>2. Max(1..n) = n
  BY <1>1 DEF Max
<1> QED BY <1>2

\* Parse goes through the text from its beginning, a field list per character.
LEMMA ParseRun ==
  ASSUME NEW text \in Seq(Chars)
  PROVE  \E g : ScanRun(g, text) /\ Parse(text) = g[Len(text)]
<1> DEFINE n == Len(text)
           D == SUBSET (1..n)
           pick == [s \in D |-> Max(s)]
           step == [p \in Fields \X (1..n) |-> Scan(p[1], text[p[2]])]
<1>1. n \in Nat /\ DOMAIN text = 1..n /\ \A k \in 1..n : text[k] \in Chars
  OBVIOUS
<1>2. <<0>> \in Fields
  BY DEF Fields
<1> HIDE DEF n
<1>3. \A p \in Fields \X (1..n) : p[1] \in Fields /\ p[2] \in 1..n
  OBVIOUS
<1>4. step \in Combines(1..n, Fields)
  BY <1>1, <1>3, ScanFields DEF Combines
<1>5. \A f \in Fields, k \in 1..n : step[<<f, k>>] = Scan(f, text[k])
  OBVIOUS
<1> HIDE DEF step
<1>6. \A s \in D : s # {} => Max(s) \in s /\ Max(s) \in 1..n /\ s \ {Max(s)} \in D
  BY <1>1, GreatestNat
<1>7. IsPick(pick, 1..n) /\ \A s \in D : pick[s] = Max(s)
  BY <1>6 DEF IsPick
<1>8. IsFiniteSet(1..n)
  BY <1>1, FS_Interval
<1> HIDE DEF pick
<1>9. PICK it : IsFold(it, 1..n, Fields, <<0>>, step, pick)
  BY <1>2, <1>4, <1>7, <1>8, FoldExists
<1>10. /\ it \in [D -> Fields]
      /\ \A s \in D : it[s] = IF s = {} THEN <<0>> ELSE Scan(it[s \ {Max(s)}], text[Max(s)])
  BY <1>5, <1>9, <1>6, <1>7 DEF IsFold
<1>11. it = [s \in SUBSET (DOMAIN text) |->
              IF s = {} THEN <<0>> ELSE Scan(it[s \ {Max(s)}], text[Max(s)])]
  BY <1>1, <1>10
<1> DEFINE ff == CHOOSE ff : ff = [s \in SUBSET (DOMAIN text) |->
              IF s = {} THEN <<0>> ELSE Scan(ff[s \ {Max(s)}], text[Max(s)])]
<1>12. ff = [s \in SUBSET (DOMAIN text) |->
               IF s = {} THEN <<0>> ELSE Scan(ff[s \ {Max(s)}], text[Max(s)])]
  BY <1>11
<1>13. Parse(text) = ff[DOMAIN text]
  BY DEF Parse, FoldLeft, MapThenFoldSet
<1> HIDE DEF ff
<1> DEFINE g == [k \in 0..n |-> ff[1..k]]
<1>14. \A k \in 0..n : 1..k \in SUBSET (DOMAIN text)
  BY <1>1
<1>15. g[0] = <<0>>
  <2>1. 1..0 = {} /\ 0 \in 0..n
    BY <1>1
  <2>2. ff[{}] = <<0>>
    BY <1>12, {} \in SUBSET (DOMAIN text)
  <2> QED BY <2>1, <2>2
<1>16. \A k \in 1..n : g[k] = Scan(g[k - 1], text[k])
  <2> SUFFICES ASSUME NEW k \in 1..n PROVE g[k] = Scan(g[k - 1], text[k])
    OBVIOUS
  <2>0. 1..k # {}
    <3>1. 1 \in 1..k
      BY ONLY k \in 1..n, <1>1
    <3> QED BY <3>1
  <2>1. k \in Nat /\ k >= 1 /\ k \in 0..n /\ k - 1 \in 0..n /\ 1..k # {}
    BY <1>1, <2>0
  <2>2. Max(1..k) = k /\ (1..k) \ {k} = 1..(k - 1)
    BY <2>1, UpTo
  <2>3. ff[1..k] = Scan(ff[(1..k) \ {Max(1..k)}], text[Max(1..k)])
    BY <1>12, <1>14, <2>1
  <2> QED BY <2>1, <2>2, <2>3
<1> HIDE DEF g
<1>17. g \in [0..n -> Fields]
  <2> DEFINE U == {k \in Nat : k <= n => g[k] \in Fields}
  <2>1. 0 \in U
    BY <1>2, <1>15
  <2>2. \A k \in Nat : k \in U => k + 1 \in U
    <3> SUFFICES ASSUME NEW k \in Nat, k + 1 <= n, g[k] \in Fields PROVE g[k + 1] \in Fields
      BY <1>1
    <3>1. k + 1 \in 1..n /\ (k + 1) - 1 = k
      BY <1>1
    <3> QED BY <1>1, <1>16, <3>1, ScanFields
  <2>3. \A k \in Nat : k \in U
    <3> HIDE DEF U
    <3> QED BY <2>1, <2>2, AllNat
  <2>4. \A k \in 0..n : k \in Nat /\ k <= n
    BY <1>1
  <2>5. \A k \in 0..n : g[k] \in Fields
    BY <2>3, <2>4
  <2>6. g = [k \in 0..n |-> g[k]]
    BY DEF g
  <2> QED BY ONLY <2>5, <2>6, Zenon
<1>18. ScanRun(g, text)
  BY <1>15, <1>16, <1>17 DEF ScanRun, n
<1>19. Parse(text) = g[Len(text)]
  BY <1>1, <1>13 DEF g, n
<1> QED BY <1>18, <1>19

LEMMA ParseEmpty == Parse(<<>>) = <<0>>
<1>1. <<>> \in Seq(Chars) /\ Len(<<>>) = 0
  OBVIOUS
<1> QED BY <1>1, ParseRun DEF ScanRun

\* One more character is one more step.
LEMMA ParseAppend ==
  ASSUME NEW t \in Seq(Chars), NEW c \in Chars
  PROVE  Parse(t) \in Fields /\ Parse(Append(t, c)) = Scan(Parse(t), c)
<1> DEFINE n == Len(t)
           u == Append(t, c)
<1>1. PICK g : ScanRun(g, t) /\ Parse(t) = g[Len(t)]
  BY ParseRun
<1>2. u \in Seq(Chars) /\ Len(u) = n + 1 /\ u[n + 1] = c /\ n \in Nat
  OBVIOUS
<1>3. \A k \in 1..n : u[k] = t[k]
  OBVIOUS
<1> HIDE DEF u, n
<1>4. PICK h : ScanRun(h, u) /\ Parse(u) = h[Len(u)]
  BY <1>2, ParseRun
<1>5. /\ g \in [0..n -> Fields] /\ g[0] = <<0>>
      /\ \A k \in 1..n : g[k] = Scan(g[k - 1], t[k])
  BY <1>1 DEF ScanRun, n
<1>6. /\ h[0] = <<0>> /\ \A k \in 1..(n + 1) : h[k] = Scan(h[k - 1], u[k])
  BY <1>2, <1>4 DEF ScanRun
<1> DEFINE U == {k \in Nat : k <= n => g[k] = h[k]}
<1>7. 0 \in U
  BY <1>5, <1>6
<1>8. \A k \in Nat : k \in U => k + 1 \in U
  <2> SUFFICES ASSUME NEW k \in Nat, k + 1 <= n, g[k] = h[k] PROVE g[k + 1] = h[k + 1]
    BY <1>2
  <2>1. k + 1 \in 1..n /\ k + 1 \in 1..(n + 1) /\ (k + 1) - 1 = k
    BY <1>2
  <2> QED BY <1>3, <1>5, <1>6, <2>1
<1>9. g[n] = h[n]
  <2>1. \A k \in Nat : k \in U
    <3> HIDE DEF U
    <3> QED BY <1>7, <1>8, AllNat
  <2> QED BY <1>2, <2>1
<1>10. h[n + 1] = Scan(h[n], c)
  <2>1. n + 1 \in 1..(n + 1) /\ (n + 1) - 1 = n
    BY <1>2
  <2> QED BY <1>2, <1>6, <2>1
<1>11. n \in 0..n
  BY <1>2
<1> QED BY <1>1, <1>2, <1>4, <1>5, <1>9, <1>10, <1>11 DEF n, u

LEMMA SequenceIsFunction == \A s \in Seq(Nat) : s \in [1..Len(s) -> Nat] /\ Len(s) \in Nat
OBVIOUS

LEMMA Appended ==
  \A f \in Seq(Nat) : \A v \in Nat :
    /\ Append(f, v) \in Seq(Nat) /\ Len(Append(f, v)) = Len(f) + 1
    /\ Append(f, v)[Len(f) + 1] = v
    /\ \A k \in 1..Len(f) : Append(f, v)[k] = f[k]
OBVIOUS

LEMMA ReplaceLast ==
  \A f \in Seq(Nat) : \A v, w \in Nat :
    [Append(f, v) EXCEPT ![Len(f) + 1] = w] = Append(f, w)
<1> SUFFICES ASSUME NEW f \in Seq(Nat), NEW v \in Nat, NEW w \in Nat
             PROVE  [Append(f, v) EXCEPT ![Len(f) + 1] = w] = Append(f, w)
  OBVIOUS
<1> DEFINE n == Len(f)
           a == Append(f, v)
           b == Append(f, w)
<1>1. n \in Nat /\ a \in [1..(n + 1) -> Nat] /\ b \in [1..(n + 1) -> Nat]
  BY Appended, SequenceIsFunction
<1>2. b[n + 1] = w /\ \A k \in 1..n : a[k] = b[k]
  BY Appended
<1> HIDE DEF n, a, b
<1>3. \A k \in 1..(n + 1) : k # n + 1 => k \in 1..n
  BY <1>1
<1>4. \A k \in 1..(n + 1) : [a EXCEPT ![n + 1] = w][k] = b[k]
  BY <1>1, <1>2, <1>3
<1>5. [a EXCEPT ![n + 1] = w] = b
  BY <1>1, <1>4
<1> QED BY <1>5 DEF a, b, n

LEMMA ScanNumber ==
  /\ \A f \in Seq(Nat) : \A v \in Nat, c \in Ten :
       Scan(Append(f, v), c) = Append(f, 10 * v + c)
  /\ \A f \in Seq(Nat) : Scan(f, Blank) = Append(f, 0)
<1>1. ASSUME NEW f \in Seq(Nat), NEW v \in Nat, NEW c \in Ten
      PROVE  Scan(Append(f, v), c) = Append(f, 10 * v + c)
  <2>1. c # Blank /\ c \in Nat
    BY DEF Blank, Ten
  <2>2. Len(Append(f, v)) = Len(f) + 1 /\ Append(f, v)[Len(f) + 1] = v /\ Len(f) \in Nat
    OBVIOUS
  <2> DEFINE new == 10 * v + c
  <2>3. new \in Nat
    BY <2>1
  <2>4. Scan(Append(f, v), c) = [Append(f, v) EXCEPT ![Len(f) + 1] = new]
    BY <2>1, <2>2 DEF Scan
  <2> HIDE DEF new
  <2>5. [Append(f, v) EXCEPT ![Len(f) + 1] = new] = Append(f, new)
    BY <2>3, ReplaceLast
  <2> QED BY <2>4, <2>5 DEF new
<1> QED BY <1>1 DEF Scan

LEMMA TenInChars ==
  /\ \A s \in Seq(Ten) : s \in Seq(Chars)
  /\ \A t, s \in Seq(Chars) : t \o s \in Seq(Chars)
  /\ \A c \in Ten : c \in Chars
  /\ Blank \in Chars /\ <<Blank>> \in Seq(Chars)
<1>1. \A c \in Ten : c \in Chars
  BY DEF Ten, Chars
<1>2. \A s \in Seq(Ten) : s \in Seq(Chars)
  BY <1>1
<1>3. Blank \in Chars
  BY DEF Blank, Chars
<1>4. <<Blank>> \in Seq(Chars)
  BY <1>3
<1>5. \A t, s \in Seq(Chars) : t \o s \in Seq(Chars)
  OBVIOUS
<1> QED BY <1>1, <1>2, <1>3, <1>4, <1>5

LEMMA ConcatAppend ==
  \A t, s \in Seq(Chars) : \A c \in Chars : t \o Append(s, c) = Append(t \o s, c)
OBVIOUS

LEMMA ConcatOne ==
  \A t \in Seq(Chars) : \A c \in Chars : t \o <<c>> = Append(t, c)
OBVIOUS

\* Reading the digits of n: the field begun with 0 becomes n.
Reads(n) ==
  \A t \in Seq(Chars) : \A f \in Seq(Nat) :
    Parse(t) = Append(f, 0) => Parse(t \o Digits[n]) = Append(f, n)

LEMMA ParseDigits == \A n \in Nat : Reads(n)
<1>1. ASSUME NEW n \in Nat, n < 10 PROVE Reads(n)
  <2> SUFFICES ASSUME NEW t \in Seq(Chars), NEW f \in Seq(Nat), Parse(t) = Append(f, 0)
               PROVE  Parse(t \o Digits[n]) = Append(f, n)
    BY DEF Reads
  <2>1. n \in Ten /\ n \in Chars /\ 0 \in Nat
    <3>1. n \in Ten
      BY ONLY <1>1, n \in Nat DEF Ten
    <3> QED BY ONLY <3>1, TenInChars
  <2>2. Digits[n] = <<n>>
    BY <1>1, DigitsValue
  <2>3. t \o Digits[n] = Append(t, n)
    BY <2>1, <2>2, ConcatOne
  <2>4. Parse(Append(t, n)) = Scan(Append(f, 0), n)
    BY <2>1, ParseAppend
  <2>5. Scan(Append(f, 0), n) = Append(f, 10 * 0 + n)
    BY <2>1, ScanNumber
  <2> QED BY <2>3, <2>4, <2>5
<1>2. ASSUME NEW n \in Nat, n >= 10, Reads(n \div 10) PROVE Reads(n)
  <2> SUFFICES ASSUME NEW t \in Seq(Chars), NEW f \in Seq(Nat), Parse(t) = Append(f, 0)
               PROVE  Parse(t \o Digits[n]) = Append(f, n)
    BY DEF Reads
  <2> DEFINE d == n \div 10
             r == n % 10
  <2>1. d \in Nat /\ r \in Ten /\ 10 * d + r = n
    BY DividedByTen
  <2>2. Digits[n] = Append(Digits[d], r)
    <3>1. ~(n < 10)
      BY <1>2
    <3> QED BY ONLY <3>1, DigitsValue, n \in Nat
  <2>3. Reads(d)
    BY <1>2
  <2> HIDE DEF d, r
  <2>4. Digits[d] \in Seq(Chars) /\ r \in Chars
    BY <2>1, DigitsValue, TenInChars
  <2>5. t \o Digits[d] \in Seq(Chars)
    BY <2>4
  <2>6. t \o Digits[n] = Append(t \o Digits[d], r)
    BY <2>2, <2>4, ConcatAppend
  <2>7. Parse(t \o Digits[d]) = Append(f, d)
    BY <2>3 DEF Reads
  <2>8. Parse(Append(t \o Digits[d], r)) = Scan(Append(f, d), r)
    BY <2>4, <2>5, <2>7, ParseAppend
  <2>9. Scan(Append(f, d), r) = Append(f, n)
    BY <2>1, ScanNumber
  <2> QED BY <2>6, <2>8, <2>9
<1> DEFINE U == {n \in Nat : \A m \in 0..n : Reads(m)}
<1>3. 0 \in U
  <2>1. \A m \in 0..0 : m \in Nat /\ m < 10
    OBVIOUS
  <2> HIDE DEF Reads
  <2> QED BY <1>1, <2>1
<1>4. \A n \in Nat : n \in U => n + 1 \in U
  <2> HIDE DEF Reads
  <2> SUFFICES ASSUME NEW n \in Nat, \A m \in 0..n : Reads(m) PROVE Reads(n + 1)
    OBVIOUS
  <2>1. n + 1 \in Nat
    OBVIOUS
  <2>2. CASE n + 1 < 10
    BY <1>1, <2>1, <2>2
  <2>3. CASE ~(n + 1 < 10)
    <3> DEFINE d == (n + 1) \div 10
    <3>1. d \in 0..n /\ n + 1 >= 10
      BY <2>1, <2>3, DividedByTen
    <3>2. Reads(d)
      BY <3>1
    <3> QED BY <1>2, <2>1, <3>1, <3>2
  <2> QED BY <2>2, <2>3
<1>5. \A n \in Nat : n \in U
  <2> HIDE DEF U
  <2> QED BY <1>3, <1>4, AllNat
<1>6. \A n \in Nat : n \in 0..n
  OBVIOUS
<1> QED BY <1>5, <1>6

\* A number of at most 20 digits arrives as it was sent.
Short(n) == n \in Nat /\ Len(Digits[n]) <= 20

LEMMA DigitsOf ==
  \A n \in Nat : Digits[n] \in Seq(Chars) /\ Len(Digits[n]) \in Nat
<1> SUFFICES ASSUME NEW n \in Nat PROVE Digits[n] \in Seq(Chars) /\ Len(Digits[n]) \in Nat
  OBVIOUS
<1>1. Digits[n] \in Seq(Ten)
  BY DigitsValue
<1> QED BY <1>1, TenInChars

LEMMA LenConcat == \A s, t \in Seq(Chars) : Len(s \o t) = Len(s) + Len(t)
OBVIOUS

\* What fits the buffer is not cut.
LEMMA WholeText ==
  ASSUME NEW text \in Seq(Chars), Len(text) < BufSize
  PROVE  Received(text) = text
<1>1. SubSeq(text, 1, Len(text)) = text
  OBVIOUS
<1> QED BY <1>1 DEF Received

\* The text of one field is read as this field.
LEMMA CountArrives ==
  ASSUME NEW s \in Seq(Nat), Len(s) = 1, Short(s[1])
  PROVE  Parse(Received(Text(s))) = s
<1> DEFINE n == s[1]
<1>1. Text(s) = Digits[n] /\ s = <<n>> /\ n \in Nat
  BY DEF Text, Short
<1>2. Len(Digits[n]) < BufSize /\ Digits[n] \in Seq(Chars)
  BY <1>1, DigitsOf DEF Short, BufSize
<1> HIDE DEF n
<1>3. Received(Digits[n]) = Digits[n]
  BY <1>2, WholeText
<1>4. <<>> \in Seq(Chars) /\ <<>> \in Seq(Nat) /\ Append(<<>>, 0) = <<0>>
      /\ Append(<<>>, n) = <<n>>
  OBVIOUS
<1>5. <<>> \o Digits[n] = Digits[n]
  BY <1>2
<1>6. Parse(Digits[n]) = <<n>>
  BY <1>1, <1>4, <1>5, ParseDigits, ParseEmpty DEF Reads
<1> QED BY <1>1, <1>3, <1>6

LEMMA ReadNumber ==
  ASSUME NEW t \in Seq(Chars), NEW f \in Seq(Nat), Parse(t) = Append(f, 0), NEW n \in Nat
  PROVE  /\ t \o Digits[n] \in Seq(Chars)
         /\ Parse(t \o Digits[n]) = Append(f, n)
         /\ (t \o Digits[n]) \o <<Blank>> \in Seq(Chars)
         /\ Parse((t \o Digits[n]) \o <<Blank>>) = Append(Append(f, n), 0)
<1>1. Digits[n] \in Seq(Chars)
  BY DigitsOf
<1> DEFINE u == t \o Digits[n]
<1>2. u \in Seq(Chars)
  BY <1>1
<1>3. Parse(u) = Append(f, n)
  BY ParseDigits DEF Reads
<1> HIDE DEF u
<1>4. u \o <<Blank>> = Append(u, Blank) /\ u \o <<Blank>> \in Seq(Chars)
  BY <1>2, TenInChars, ConcatOne
<1>5. Parse(Append(u, Blank)) = Scan(Append(f, n), Blank)
  BY <1>2, <1>3, TenInChars, ParseAppend
<1>6. Append(f, n) \in Seq(Nat)
  OBVIOUS
<1>7. Scan(Append(f, n), Blank) = Append(Append(f, n), 0)
  BY <1>6, ScanNumber
<1> QED BY <1>2, <1>3, <1>4, <1>5, <1>7 DEF u

LEMMA ShortDigits == \A n : Short(n) => Len(Digits[n]) \in 0..20
<1> SUFFICES ASSUME NEW n \in Nat, Len(Digits[n]) <= 20 PROVE Len(Digits[n]) \in 0..20
  BY DEF Short
<1> DEFINE l == Len(Digits[n])
<1>1. l \in Nat /\ l <= 20
  BY DigitsOf
<1> HIDE DEF l
<1>2. l \in 0..20
  BY <1>1
<1> QED BY <1>2 DEF l

LEMMA SumOfLengths ==
  ASSUME NEW a \in Nat, NEW b \in Nat, NEW c \in Nat,
         Short(a), Short(b), Short(c),
         NEW t1, NEW t2, NEW t3, t1 \in Seq(Chars), t2 \in Seq(Chars),
         t1 = Digits[a] \o <<Blank>>,
         t2 = (t1 \o Digits[b]) \o <<Blank>>,
         t3 = t2 \o Digits[c]
  PROVE  Len(t3) <= 62
<1>1. Len(<<Blank>>) = 1 /\ <<Blank>> \in Seq(Chars)
  BY TenInChars
<1>2. \A n \in {a, b, c} : /\ Digits[n] \in Seq(Chars)
                            /\ Len(Digits[n]) \in Nat /\ Len(Digits[n]) <= 20
  BY DigitsOf DEF Short
<1>3. Len(t1) = Len(Digits[a]) + 1
  BY <1>1, <1>2, LenConcat
<1>4. t1 \o Digits[b] \in Seq(Chars) /\ Len(t1 \o Digits[b]) = Len(t1) + Len(Digits[b])
  BY <1>2, LenConcat, TenInChars
<1>5. Len(t2) = Len(t1 \o Digits[b]) + 1
  BY <1>1, <1>4, LenConcat
<1>6. Len(t3) = Len(t2) + Len(Digits[c])
  BY <1>2, LenConcat
<1> DEFINE la == Len(Digits[a])
           lb == Len(Digits[b])
           lc == Len(Digits[c])
<1>7. la \in 0..20 /\ lb \in 0..20 /\ lc \in 0..20
  BY ShortDigits
<1>8. Len(t3) = ((((la + 1) + lb) + 1) + lc)
  BY <1>3, <1>4, <1>5, <1>6
<1> HIDE DEF la, lb, lc
<1> QED BY ONLY <1>7, <1>8

LEMMA SameSequence ==
  \A s, t \in Seq(Nat) : Len(s) = Len(t) /\ (\A k \in 1..Len(s) : s[k] = t[k]) => s = t
OBVIOUS

LEMMA SmallTuples ==
  \A a, b, c \in Nat :
    /\ <<a>> \in Seq(Nat) /\ Append(<<a>>, 0) = <<a, 0>>
    /\ <<a, b>> \in Seq(Nat) /\ Append(<<a, b>>, 0) = <<a, b, 0>>
    /\ Append(<<a>>, b) = <<a, b>> /\ Append(<<a, b>>, c) = <<a, b, c>>
    /\ Append(<<>>, a) = <<a>>
<1> SUFFICES ASSUME NEW a \in Nat, NEW b \in Nat, NEW c \in Nat
             PROVE  /\ <<a>> \in Seq(Nat) /\ Append(<<a>>, 0) = <<a, 0>>
                    /\ <<a, b>> \in Seq(Nat) /\ Append(<<a, b>>, 0) = <<a, b, 0>>
                    /\ Append(<<a>>, b) = <<a, b>> /\ Append(<<a, b>>, c) = <<a, b, c>>
                    /\ Append(<<>>, a) = <<a>>
  OBVIOUS
<1>1. <<a>> \in Seq(Nat) /\ Append(<<>>, a) = <<a>>
  OBVIOUS
<1>2. <<a, b>> \in Seq(Nat)
  OBVIOUS
<1>3. \A x, y \in Nat : Append(<<x>>, y) = <<x, y>>
  <2> SUFFICES ASSUME NEW x \in Nat, NEW y \in Nat PROVE Append(<<x>>, y) = <<x, y>>
    OBVIOUS
  <2>1. <<x>> \in Seq(Nat) /\ <<x, y>> \in Seq(Nat) /\ Len(<<x>>) = 1 /\ Len(<<x, y>>) = 2
    OBVIOUS
  <2>2. /\ Append(<<x>>, y) \in Seq(Nat) /\ Len(Append(<<x>>, y)) = 2
        /\ Append(<<x>>, y)[2] = y /\ Append(<<x>>, y)[1] = x
    BY <2>1
  <2> DEFINE p == Append(<<x>>, y)
             q == <<x, y>>
  <2>3. q[1] = x /\ q[2] = y
    OBVIOUS
  <2>4. /\ p \in Seq(Nat) /\ q \in Seq(Nat) /\ Len(p) = 2 /\ Len(q) = 2
        /\ p[2] = y /\ p[1] = x
    BY <2>1, <2>2
  <2> HIDE DEF p, q
  <2>5. \A k \in 1..Len(p) : p[k] = q[k]
    BY <2>3, <2>4
  <2>6. p = q
    BY <2>4, <2>5, SameSequence
  <2> QED BY <2>6 DEF p, q
<1>4. \A x, y, z \in Nat : Append(<<x, y>>, z) = <<x, y, z>>
  <2> SUFFICES ASSUME NEW x \in Nat, NEW y \in Nat, NEW z \in Nat
               PROVE  Append(<<x, y>>, z) = <<x, y, z>>
    OBVIOUS
  <2>1. /\ <<x, y>> \in Seq(Nat) /\ <<x, y, z>> \in Seq(Nat)
        /\ Len(<<x, y>>) = 2 /\ Len(<<x, y, z>>) = 3
    OBVIOUS
  <2>2. /\ Append(<<x, y>>, z) \in Seq(Nat) /\ Len(Append(<<x, y>>, z)) = 3
        /\ Append(<<x, y>>, z)[3] = z /\ Append(<<x, y>>, z)[1] = x
        /\ Append(<<x, y>>, z)[2] = y
    BY <2>1
  <2> DEFINE p == Append(<<x, y>>, z)
             q == <<x, y, z>>
  <2>3. q[1] = x /\ q[2] = y /\ q[3] = z
    OBVIOUS
  <2>4. /\ p \in Seq(Nat) /\ q \in Seq(Nat) /\ Len(p) = 3 /\ Len(q) = 3
        /\ p[3] = z /\ p[1] = x /\ p[2] = y
    BY <2>1, <2>2
  <2> HIDE DEF p, q
  <2>5. \A k \in 1..Len(p) : p[k] = q[k]
    BY <2>3, <2>4
  <2>6. p = q
    BY <2>4, <2>5, SameSequence
  <2> QED BY <2>6 DEF p, q
<1>5. 0 \in Nat
  OBVIOUS
<1> QED BY <1>1, <1>2, <1>3, <1>4, <1>5

\* The text of three fields is read as these.
LEMMA ResultArrives ==
  ASSUME NEW s \in Seq(Nat), Len(s) = 3, Short(s[1]), Short(s[2]), Short(s[3]),
         program = "sleep_wake_process"
  PROVE  Parse(Received(Text(s))) = s
<1>1. PICK a \in Nat, b \in Nat, c \in Nat : a = s[1] /\ b = s[2] /\ c = s[3]
  BY DEF Short
<1>2. s = <<a, b, c>>
  BY <1>1
<1> DEFINE t1 == Digits[a] \o <<Blank>>
           t2 == (t1 \o Digits[b]) \o <<Blank>>
           t3 == t2 \o Digits[c]
<1>3. Text(s) = t3
  BY <1>1 DEF Text
<1>4. t1 \in Seq(Chars) /\ Parse(t1) = <<a, 0>>
  <2> DEFINE e == <<>>
  <2>1. e \in Seq(Chars) /\ e \in Seq(Nat)
    OBVIOUS
  <2>2. e \o Digits[a] = Digits[a]
    <3>1. Digits[a] \in Seq(Chars)
      BY DigitsOf
    <3> QED BY <3>1
  <2>3. Parse(e) = Append(e, 0) /\ Append(e, a) = <<a>> /\ Append(<<a>>, 0) = <<a, 0>>
    BY ParseEmpty, SmallTuples
  <2> HIDE DEF e
  <2>4. /\ (e \o Digits[a]) \o <<Blank>> \in Seq(Chars)
        /\ Parse((e \o Digits[a]) \o <<Blank>>) = Append(Append(e, a), 0)
    BY ONLY <2>1, <2>3, ReadNumber, a \in Nat
  <2> QED BY ONLY <2>2, <2>3, <2>4 DEF t1
<1> HIDE DEF t1
<1>5. t2 \in Seq(Chars) /\ Parse(t2) = <<a, b, 0>>
  <2>1. <<a>> \in Seq(Nat) /\ Append(<<a>>, 0) = <<a, 0>> /\ Append(<<a>>, b) = <<a, b>>
        /\ Append(<<a, b>>, 0) = <<a, b, 0>>
    BY SmallTuples
  <2> DEFINE e == <<a>>
  <2>2. e \in Seq(Nat) /\ t1 \in Seq(Chars) /\ Parse(t1) = Append(e, 0) /\ b \in Nat
    BY <1>4, <2>1
  <2>3. Append(Append(e, b), 0) = <<a, b, 0>>
    BY <2>1
  <2> HIDE DEF e
  <2>4. /\ (t1 \o Digits[b]) \o <<Blank>> \in Seq(Chars)
        /\ Parse((t1 \o Digits[b]) \o <<Blank>>) = Append(Append(e, b), 0)
    BY ONLY <2>2, ReadNumber
  <2> QED BY ONLY <2>3, <2>4 DEF t2
<1> HIDE DEF t2
<1>6. t3 \in Seq(Chars) /\ Parse(t3) = <<a, b, c>>
  <2>1. <<a, b>> \in Seq(Nat) /\ Append(<<a, b>>, 0) = <<a, b, 0>>
        /\ Append(<<a, b>>, c) = <<a, b, c>>
    BY SmallTuples
  <2> DEFINE e == <<a, b>>
  <2>2. e \in Seq(Nat) /\ t2 \in Seq(Chars) /\ Parse(t2) = Append(e, 0) /\ c \in Nat
    BY <1>5, <2>1
  <2>3. Append(e, c) = <<a, b, c>>
    BY <2>1
  <2> HIDE DEF e
  <2>4. t2 \o Digits[c] \in Seq(Chars) /\ Parse(t2 \o Digits[c]) = Append(e, c)
    BY ONLY <2>2, ReadNumber
  <2> QED BY ONLY <2>3, <2>4 DEF t3
<1> HIDE DEF t3
<1>7. Len(t3) <= 62
  BY <1>1, <1>4, <1>5, SumOfLengths DEF t1, t2, t3
<1>8. Len(t3) < BufSize
  <2>1. BufSize = 128
    BY DEF BufSize
  <2>2. Len(t3) \in Nat
    BY <1>6
  <2> QED BY ONLY <1>7, <2>1, <2>2
<1>9. Received(t3) = t3
  BY <1>6, <1>8, WholeText
<1> QED BY <1>2, <1>3, <1>6, <1>9

------------------------------------------------------------------------------
(* The report: minimum, maximum and sum of the counts.                     *)

\* The sum over a finite set, and that any element may be taken first.
IsSum(f, S, v) ==
  /\ f \in [SUBSET S -> Nat]
  /\ \A s \in SUBSET S :
       f[s] = IF s = {} THEN 0
              ELSE v[CHOOSE x \in s : TRUE] + f[s \ {CHOOSE x \in s : TRUE}]

LEMMA SumExists ==
  ASSUME NEW S, IsFiniteSet(S), NEW v, \A x \in S : v[x] \in Nat
  PROVE  \E f : IsSum(f, S, v)
<1> DEFINE D == SUBSET S
           pick == [s \in D |-> CHOOSE x \in s : TRUE]
           step == [p \in Nat \X S |-> v[p[2]] + p[1]]
<1>1. IsPick(pick, S) /\ \A s \in D : pick[s] = CHOOSE x \in s : TRUE
  BY DEF IsPick
<1>2. step \in Combines(S, Nat)
  BY DEF Combines
<1>3. \A a \in Nat, x \in S : step[<<a, x>>] = v[x] + a
  OBVIOUS
<1> HIDE DEF pick, step
<1>4. PICK f : IsFold(f, S, Nat, 0, step, pick)
  BY <1>1, <1>2, FoldExists
<1>5. ASSUME NEW s \in D
      PROVE  f[s] = IF s = {} THEN 0 ELSE v[pick[s]] + f[s \ {pick[s]}]
  <2>1. CASE s = {}
    BY <1>4, <2>1 DEF IsFold
  <2>2. CASE s # {}
    <3>1. pick[s] \in S /\ s \ {pick[s]} \in D
      BY <1>1, <2>2 DEF IsPick
    <3>2. f[s \ {pick[s]}] \in Nat
      BY <1>4, <3>1 DEF IsFold
    <3>3. f[s] = step[<<f[s \ {pick[s]}], pick[s]>>]
      BY <1>4, <2>2 DEF IsFold
    <3> QED BY <1>3, <2>2, <3>1, <3>2, <3>3
  <2> QED BY <2>1, <2>2
<1>6. IsSum(f, S, v)
  BY <1>1, <1>4, <1>5 DEF IsSum, IsFold
<1> QED BY <1>6

Counted(v, S) == \A x \in S : v[x] \in Nat
AnyFirst(f, S, v) == \A s \in SUBSET S : \A x \in s : f[s] = v[x] + f[s \ {x}]

LEMMA SumAnyFirst ==
  ASSUME NEW S, IsFiniteSet(S), NEW v, Counted(v, S), NEW f, IsSum(f, S, v)
  PROVE  AnyFirst(f, S, v)
<1> USE DEF Counted
<1> DEFINE Exchange(s) == \A x \in s : f[s] = v[x] + f[s \ {x}]
           T == {n \in Nat : \A s \in SUBSET S : Cardinality(s) = n => Exchange(s)}
<1>1. \A s \in SUBSET S : IsFiniteSet(s) /\ Cardinality(s) \in Nat
  BY FS_Subset, FS_CardinalityType
<1>2. 0 \in T
  <2>1. \A s \in SUBSET S : Cardinality(s) = 0 => s = {}
    BY <1>1, FS_EmptySet
  <2> QED BY <2>1
<1>3. ASSUME NEW n \in Nat, \A s \in SUBSET S : Cardinality(s) = n => Exchange(s),
             NEW s \in SUBSET S, Cardinality(s) = n + 1
      PROVE  Exchange(s)
  <2> SUFFICES ASSUME NEW x \in s PROVE f[s] = v[x] + f[s \ {x}]
    OBVIOUS
  <2> DEFINE p == CHOOSE y \in s : TRUE
  <2>1. p \in s /\ f[s] = v[p] + f[s \ {p}]
    BY DEF IsSum
  <2> HIDE DEF p
  <2>2. CASE p = x
    BY <2>1, <2>2
  <2>3. CASE p # x
    <3>1. ASSUME NEW y \in s PROVE Cardinality(s \ {y}) = n
      <4>1. Cardinality(s \ {y}) = Cardinality(s) - 1
        BY <1>1, FS_RemoveElement
      <4> QED BY <1>3, <4>1
    <3>2. f[s \ {p}] = v[x] + f[(s \ {p}) \ {x}]
      BY <1>3, <2>1, <2>3, <3>1
    <3>3. f[s \ {x}] = v[p] + f[(s \ {x}) \ {p}]
      BY <1>3, <2>1, <2>3, <3>1
    <3>4. (s \ {p}) \ {x} = (s \ {x}) \ {p}
      OBVIOUS
    <3>5. v[p] \in Nat /\ v[x] \in Nat /\ f[(s \ {x}) \ {p}] \in Nat
      BY <2>1 DEF IsSum
    <3> DEFINE rest == f[(s \ {x}) \ {p}]
    <3>6. f[s] = v[p] + (v[x] + rest) /\ f[s \ {x}] = v[p] + rest
      BY ONLY <2>1, <3>2, <3>3, <3>4
    <3>7. PICK a \in Nat, b \in Nat, c \in Nat : a = v[p] /\ b = v[x] /\ c = rest
      BY <3>5
    <3>8. a + (b + c) = b + (a + c)
      OBVIOUS
    <3> HIDE DEF rest
    <3> QED BY ONLY <3>6, <3>7, <3>8
  <2> QED BY <2>2, <2>3
<1>4. \A n \in Nat : n \in T
  <2>1. \A n \in Nat : n \in T => n + 1 \in T
    <3> HIDE DEF Exchange
    <3> QED BY <1>3
  <2> HIDE DEF T
  <2> QED BY <1>2, <2>1, AllNat
<1>5. ASSUME NEW s \in SUBSET S PROVE Exchange(s)
  <2>1. PICK n \in Nat : n = Cardinality(s)
    BY <1>1
  <2> HIDE DEF Exchange
  <2> QED BY <1>4, <2>1
<1> QED BY ONLY <1>5, Zenon DEF AnyFirst

\* What the report adds up: the count of each worker.
CountOf(w) == Measured(w)[1]

LEMMA SumValue ==
  ASSUME NEW v, \A w \in Workers : v[w] = CountOf(w) /\ v[w] \in Nat
  PROVE  \E f : IsSum(f, Workers, v) /\ MapThenSumSet(CountOf, Workers) = f[Workers]
<1> DEFINE S == Workers
<1>1. IsFiniteSet(S)
  BY FS_Interval, ForkConstants DEF Workers
<1> HIDE DEF S
<1>2. PICK f : IsSum(f, S, v)
  BY <1>1, SumExists DEF S
<1>3. \A s \in SUBSET S :
         s # {} => v[CHOOSE x \in s : TRUE] = CountOf(CHOOSE x \in s : TRUE)
  BY DEF S
<1>4. \A s \in SUBSET S : f[s] =
         IF s = {} THEN 0
         ELSE CountOf(CHOOSE x \in s : TRUE) + f[s \ {CHOOSE x \in s : TRUE}]
  BY <1>2, <1>3 DEF IsSum
<1>5. f = [s \in SUBSET S |->
             IF s = {} THEN 0
             ELSE CountOf(CHOOSE x \in s : TRUE) + f[s \ {CHOOSE x \in s : TRUE}]]
  BY <1>2, <1>4 DEF IsSum
<1> DEFINE it == CHOOSE it : it = [s \in SUBSET S |->
             IF s = {} THEN 0
             ELSE CountOf(CHOOSE x \in s : TRUE) + it[s \ {CHOOSE x \in s : TRUE}]]
<1>6. it = [s \in SUBSET S |->
              IF s = {} THEN 0
              ELSE CountOf(CHOOSE x \in s : TRUE) + it[s \ {CHOOSE x \in s : TRUE}]]
  BY ONLY <1>5, Zenon
<1>7. MapThenSumSet(CountOf, S) = it[S]
  BY DEF MapThenSumSet, MapThenFoldSet
<1> HIDE DEF it
<1>8. \A s \in SUBSET S : it[s] =
        IF s = {} THEN 0 ELSE v[CHOOSE x \in s : TRUE] + it[s \ {CHOOSE x \in s : TRUE}]
  <2>1. ASSUME NEW s \in SUBSET S, s = {} PROVE it[s] = 0
    BY ONLY <1>6, <2>1
  <2>2. ASSUME NEW s \in SUBSET S, s # {}
        PROVE  it[s] = v[CHOOSE x \in s : TRUE] + it[s \ {CHOOSE x \in s : TRUE}]
    <3> DEFINE x0 == CHOOSE x \in s : TRUE
    <3>1. it[s] = CountOf(x0) + it[s \ {x0}]
      BY ONLY <1>6, <2>2
    <3>2. v[x0] = CountOf(x0)
      BY <1>3, <2>2
    <3> QED BY ONLY <3>1, <3>2
  <2> QED BY <2>1, <2>2
<1> DEFINE T == {m \in Nat : \A s \in SUBSET S : Cardinality(s) = m => it[s] \in Nat}
<1>9. \A s \in SUBSET S : IsFiniteSet(s) /\ Cardinality(s) \in Nat
  BY <1>1, FS_Subset, FS_CardinalityType
<1>10. 0 \in T
  <2>1. \A s \in SUBSET S : Cardinality(s) = 0 => s = {}
    BY <1>9, FS_EmptySet
  <2>2. it[{}] = 0
    BY <1>8, {} \in SUBSET S
  <2> HIDE DEF it
  <2>3. \A s \in SUBSET S : Cardinality(s) = 0 => it[s] \in Nat
    BY <2>1, <2>2
  <2> QED BY <2>3
<1>11. ASSUME NEW m \in Nat, \A s \in SUBSET S : Cardinality(s) = m => it[s] \in Nat,
             NEW s \in SUBSET S, Cardinality(s) = m + 1
      PROVE  it[s] \in Nat
  <2> DEFINE p == CHOOSE x \in s : TRUE
  <2>1. s # {}
    BY <1>11, FS_EmptySet
  <2>2. p \in s /\ it[s] = v[p] + it[s \ {p}]
    BY <1>8, <2>1
  <2> HIDE DEF p
  <2>3. Cardinality(s \ {p}) = m
    <3>1. Cardinality(s \ {p}) = Cardinality(s) - 1
      BY <1>9, <2>2, FS_RemoveElement
    <3> QED BY <1>11, <3>1
  <2>4. it[s \ {p}] \in Nat
    BY <1>11, <2>3
  <2>5. v[p] \in Nat
    BY <2>2 DEF S
  <2> QED BY ONLY <2>2, <2>4, <2>5
<1>12. \A m \in Nat : m \in T
  <2>1. \A m \in Nat : m \in T => m + 1 \in T
    BY <1>11
  <2> HIDE DEF T
  <2> QED BY <1>10, <2>1, AllNat
<1>13. it \in [SUBSET S -> Nat]
  <2>1. \A s \in SUBSET S : it[s] \in Nat
    BY <1>9, <1>12
  <2> QED BY ONLY <1>6, <2>1, Zenon
<1>14. IsSum(it, S, v)
  BY <1>8, <1>13 DEF IsSum
<1> QED BY <1>7, <1>14 DEF S

\* The report after each round of the loop over the counts.
Reports == [min : Nat, max : Nat, sum : Nat]
ReportRun(g, v) ==
  /\ g[0] = [min |-> v[1], max |-> v[1], sum |-> 0]
  /\ \A k \in 0..N : g[k] \in Reports
  /\ \A k \in 1..N : g[k] = [min |-> IF v[k] < g[k - 1].min THEN v[k] ELSE g[k - 1].min,
                             max |-> IF v[k] > g[k - 1].max THEN v[k] ELSE g[k - 1].max,
                             sum |-> g[k - 1].sum + v[k]]

\* The loop ends with what its rounds add up to.
LEMMA StatisticsRun ==
  ASSUME NEW c, DOMAIN c = Workers, NEW v, \A k \in Workers : v[k] \in Nat /\ c[k][1] = v[k]
  PROVE  \E g : ReportRun(g, v) /\ Statistics(c) = g[N]
<1> DEFINE S == Workers
           D == SUBSET S
           base == [min |-> c[1][1], max |-> c[1][1], sum |-> 0]
           pick == [s \in D |-> Max(s)]
           step == [p \in Reports \X S |-> Update(p[1], c[p[2]])]
<1>1. N \in Nat /\ 1 \in S /\ S = 1..N
  BY ForkConstants DEF Workers
<1>2. base \in Reports /\ base = [min |-> v[1], max |-> v[1], sum |-> 0]
  BY <1>1 DEF Reports
<1>3. ASSUME NEW p \in Reports, NEW k \in S
      PROVE  /\ Update(p, c[k]) \in Reports
             /\ Update(p, c[k]) = [min |-> IF v[k] < p.min THEN v[k] ELSE p.min,
                                   max |-> IF v[k] > p.max THEN v[k] ELSE p.max,
                                   sum |-> p.sum + v[k]]
  <2>1. p.min \in Nat /\ p.max \in Nat /\ p.sum \in Nat /\ v[k] \in Nat /\ c[k][1] = v[k]
    BY DEF Reports
  <2> QED BY <2>1 DEF Update, Reports
<1>4. /\ step \in Combines(S, Reports)
      /\ \A p \in Reports, k \in S : step[<<p, k>>] = Update(p, c[k])
  <2>1. \A p \in Reports \X S : p[1] \in Reports /\ p[2] \in S
    OBVIOUS
  <2> QED BY <1>3, <2>1 DEF Combines
<1>5. \A s \in D : s # {} => Max(s) \in s /\ Max(s) \in S /\ s \ {Max(s)} \in D
  BY <1>1, GreatestNat
<1>6. IsPick(pick, S) /\ \A s \in D : pick[s] = Max(s)
  BY <1>5 DEF IsPick
<1>7. IsFiniteSet(S)
  BY <1>1, FS_Interval
<1> HIDE DEF S, base, pick, step
<1>8. PICK f : IsFold(f, S, Reports, base, step, pick)
  BY <1>2, <1>4, <1>6, <1>7, FoldExists
<1>9. /\ f \in [D -> Reports]
      /\ \A s \in D : f[s] = IF s = {} THEN base ELSE Update(f[s \ {Max(s)}], c[Max(s)])
  <2>1. f \in [D -> Reports] /\ f[{}] = base
    BY <1>8 DEF IsFold
  <2>2. ASSUME NEW s \in D, s # {} PROVE f[s] = Update(f[s \ {Max(s)}], c[Max(s)])
    <3>1. f[s] = step[<<f[s \ {Max(s)}], Max(s)>>]
      BY <1>6, <1>8, <2>2 DEF IsFold
    <3>2. f[s \ {Max(s)}] \in Reports /\ Max(s) \in S
      BY <1>5, <2>1, <2>2
    <3> QED BY <1>4, <3>1, <3>2
  <2> QED BY <2>1, <2>2
<1>10. f = [s \in SUBSET (DOMAIN c) |->
              IF s = {} THEN base ELSE Update(f[s \ {Max(s)}], c[Max(s)])]
  BY <1>9 DEF S
<1> DEFINE ff == CHOOSE ff : ff = [s \in SUBSET (DOMAIN c) |->
              IF s = {} THEN base ELSE Update(ff[s \ {Max(s)}], c[Max(s)])]
<1>11. ff = [s \in SUBSET (DOMAIN c) |->
               IF s = {} THEN base ELSE Update(ff[s \ {Max(s)}], c[Max(s)])]
  BY <1>10
<1>12. Statistics(c) = ff[DOMAIN c]
  BY DEF Statistics, FoldLeft, MapThenFoldSet, base
<1> HIDE DEF ff
<1> DEFINE g == [k \in 0..N |-> ff[1..k]]
<1>13. \A k \in 0..N : 1..k \in SUBSET (DOMAIN c)
  BY <1>1 DEF S
<1>14. g[0] = base
  <2>1. 1..0 = {} /\ 0 \in 0..N
    BY <1>1
  <2>2. ff[{}] = base
    BY <1>11, {} \in SUBSET (DOMAIN c)
  <2> QED BY <2>1, <2>2
<1>15. \A k \in 1..N : g[k] = Update(g[k - 1], c[k])
  <2> SUFFICES ASSUME NEW k \in 1..N PROVE g[k] = Update(g[k - 1], c[k])
    OBVIOUS
  <2>1. 1..k # {}
    <3>1. 1 \in 1..k
      BY ONLY <1>1, k \in 1..N
    <3> QED BY <3>1
  <2>2. k \in Nat /\ k >= 1 /\ k \in 0..N /\ k - 1 \in 0..N
    BY <1>1
  <2>3. Max(1..k) = k /\ (1..k) \ {k} = 1..(k - 1)
    BY <2>2, UpTo
  <2>4. ff[1..k] = Update(ff[(1..k) \ {Max(1..k)}], c[Max(1..k)])
    BY <1>11, <1>13, <2>1, <2>2
  <2> QED BY <2>2, <2>3, <2>4
<1>16. Statistics(c) = g[N]
  <2>1. N \in 0..N
    BY <1>1
  <2> QED BY <1>1, <1>12, <2>1 DEF S
<1> HIDE DEF g
<1> DEFINE U == {k \in Nat : k <= N => g[k] \in Reports}
<1>17. 0 \in U
  BY <1>2, <1>14
<1>18. \A k \in Nat : k \in U => k + 1 \in U
  <2> SUFFICES ASSUME NEW k \in Nat, k + 1 <= N, g[k] \in Reports PROVE g[k + 1] \in Reports
    BY <1>1
  <2>1. k + 1 \in 1..N /\ (k + 1) - 1 = k /\ k + 1 \in S
    BY <1>1
  <2>2. g[k + 1] = Update(g[k], c[k + 1])
    BY ONLY <1>15, <2>1
  <2> QED BY <1>3, <2>1, <2>2
<1>19. \A k \in 0..N : g[k] \in Reports
  <2>1. \A k \in Nat : k \in U
    <3> HIDE DEF U
    <3> QED BY <1>17, <1>18, AllNat
  <2>2. \A k \in 0..N : k \in Nat /\ k <= N
    BY <1>1
  <2> QED BY <2>1, <2>2
<1>20. ReportRun(g, v)
  <2>1. ASSUME NEW k \in 1..N
        PROVE  g[k] = [min |-> IF v[k] < g[k - 1].min THEN v[k] ELSE g[k - 1].min,
                       max |-> IF v[k] > g[k - 1].max THEN v[k] ELSE g[k - 1].max,
                       sum |-> g[k - 1].sum + v[k]]
    <3>1. k \in S /\ k - 1 \in 0..N
      BY <1>1
    <3> QED BY <1>3, <1>15, <1>19, <3>1
  <2> QED BY <1>2, <1>14, <1>19, <2>1 DEF ReportRun
<1> QED BY <1>16, <1>20

\* The report is the least, the greatest and the sum of the counts.
LEMMA StatisticsValue ==
  ASSUME NEW c, DOMAIN c = Workers,
         \A w \in Workers : CountOf(w) \in Nat /\ c[w][1] = CountOf(w)
  PROVE  Statistics(c) = [min |-> Min({CountOf(w) : w \in Workers}),
                          max |-> Max({CountOf(w) : w \in Workers}),
                          sum |-> MapThenSumSet(CountOf, Workers)]
<1> DEFINE v == [w \in Workers |-> CountOf(w)]
           R == {CountOf(w) : w \in Workers}
<1>1. \A w \in Workers : v[w] = CountOf(w) /\ v[w] \in Nat /\ c[w][1] = v[w]
  OBVIOUS
<1>2. R = {v[w] : w \in Workers}
  OBVIOUS
<1> HIDE DEF v, R
<1>3. PICK g : ReportRun(g, v) /\ Statistics(c) = g[N]
  BY <1>1, StatisticsRun
<1>4. PICK f : IsSum(f, Workers, v) /\ MapThenSumSet(CountOf, Workers) = f[Workers]
  BY <1>1, SumValue
<1>5. /\ N \in Nat /\ N >= 1 /\ Workers = 1..N /\ 1 \in Workers
      /\ IsFiniteSet(Workers)
  BY ForkConstants, FS_Interval DEF Workers
<1>6. \A s \in SUBSET Workers : \A x \in s : f[s] = v[x] + f[s \ {x}]
  <2>1. IsFiniteSet(Workers) /\ IsSum(f, Workers, v)
    BY <1>4, <1>5
  <2>2. Counted(v, Workers)
    BY <1>1 DEF Counted
  <2>3. AnyFirst(f, Workers, v)
    BY ONLY <2>1, <2>2, SumAnyFirst
  <2> QED BY ONLY <2>3, Zenon DEF AnyFirst
<1> DEFINE SoFar(k) == /\ \A j \in 1..k : g[k].min <= v[j] /\ g[k].max >= v[j]
                      /\ g[k].min \in R /\ g[k].max \in R
                      /\ g[k].sum = f[1..k]
           T == {k \in Nat : k <= N => SoFar(k)}
<1>7. 0 \in T
  <2>1. g[0] = [min |-> v[1], max |-> v[1], sum |-> 0]
    BY <1>3 DEF ReportRun
  <2>2. 1..0 = {}
    OBVIOUS
  <2>3. f[{}] = 0
    BY <1>4, {} \in SUBSET Workers DEF IsSum
  <2>4. v[1] \in R
    BY <1>2, <1>5
  <2> QED BY <2>1, <2>2, <2>3, <2>4
<1>8. ASSUME NEW k \in Nat, k + 1 <= N, SoFar(k) PROVE SoFar(k + 1)
  <2> DEFINE m == k + 1
  <2>1. m \in 1..N /\ m - 1 = k /\ m \in Workers /\ k \in 0..N /\ m \in Nat
    BY <1>5, <1>8
  <2>2. g[m] = [min |-> IF v[m] < g[k].min THEN v[m] ELSE g[k].min,
                max |-> IF v[m] > g[k].max THEN v[m] ELSE g[k].max,
                sum |-> g[k].sum + v[m]]
    BY <1>3, <2>1 DEF ReportRun
  <2>3. v[m] \in Nat /\ v[m] \in R /\ g[k].min \in Nat /\ g[k].max \in Nat /\ g[k].sum \in Nat
    BY <1>1, <1>2, <1>3, <2>1 DEF ReportRun, Reports
  <2>4. f[1..m] = v[m] + f[1..k]
    <3>1. 1..m \in SUBSET Workers /\ m \in 1..m
      BY <1>5, <2>1
    <3>2. (1..m) \ {m} = 1..k
      BY <2>1
    <3>3. f[1..m] = v[m] + f[(1..m) \ {m}]
      BY ONLY <1>6, <3>1
    <3> QED BY ONLY <3>2, <3>3
  <2>5. \A j \in 1..m : j = m \/ j \in 1..k
    BY <2>1
  <2>6. \A j \in 1..k : v[j] \in Nat
    BY <1>1, <1>5, <1>8
  <2> HIDE DEF m
  <2>7. \A j \in 1..m : g[m].min <= v[j] /\ g[m].max >= v[j]
    <3>1. /\ g[m].min <= v[m] /\ g[m].min <= g[k].min
          /\ g[m].max >= v[m] /\ g[m].max >= g[k].max
          /\ g[m].min \in Nat /\ g[m].max \in Nat
      BY <2>2, <2>3
    <3>2. \A j \in 1..k : g[k].min <= v[j] /\ g[k].max >= v[j]
      BY <1>8
    <3>3. ASSUME NEW j \in 1..k PROVE g[m].min <= v[j] /\ g[m].max >= v[j]
      BY <2>3, <2>6, <3>1, <3>2
    <3> QED BY <2>5, <3>1, <3>3
  <2>8. g[m].min \in R /\ g[m].max \in R
    BY <1>8, <2>2, <2>3
  <2>9. g[m].sum = f[1..m]
    BY <1>8, <2>2, <2>3, <2>4
  <2> QED BY <2>7, <2>8, <2>9 DEF m
<1>9. SoFar(N)
  <2>1. \A k \in Nat : k \in T => k + 1 \in T
    <3> HIDE DEF SoFar
    <3> SUFFICES ASSUME NEW k \in Nat, k <= N => SoFar(k), k + 1 <= N PROVE SoFar(k + 1)
      OBVIOUS
    <3>1. k <= N
      BY <1>5
    <3> QED BY <1>8, <3>1
  <2>2. \A k \in Nat : k \in T
    <3> HIDE DEF T
    <3> QED BY <1>7, <2>1, AllNat
  <2> HIDE DEF SoFar
  <2> QED BY <1>5, <2>2
<1>10. /\ g[N].min \in R /\ \A x \in R : g[N].min <= x
       /\ g[N].max \in R /\ \A x \in R : g[N].max >= x
  BY <1>2, <1>5, <1>9
<1>11. \A x \in R : x \in Nat
  BY <1>1, <1>2
<1>12. Min(R) = g[N].min
  <2>1. \A x \in R : (\A y \in R : x <= y) => x = g[N].min
    BY <1>10, <1>11
  <2> QED BY <1>10, <2>1 DEF Min
<1>13. Max(R) = g[N].max
  <2>1. \A x \in R : (\A y \in R : x >= y) => x = g[N].max
    BY <1>10, <1>11
  <2> QED BY <1>10, <2>1 DEF Max
<1>14. g[N] = [min |-> g[N].min, max |-> g[N].max, sum |-> g[N].sum]
  <2>1. N \in 0..N
    BY <1>5
  <2>2. g[N] \in Reports
    BY <1>3, <2>1 DEF ReportRun
  <2> QED BY <2>2 DEF Reports
<1> QED BY <1>3, <1>4, <1>5, <1>9, <1>12, <1>13, <1>14 DEF R

------------------------------------------------------------------------------
(* What the workers measure is bounded by the time they have, so that its  *)
(* text fits the buffer, and arrives as it was measured.                   *)

\* What a worker has measured is bounded by the time its rounds took, a round
\* that took no time being a failed sleep, and the report is made of what was read.
Amount(w) ==
  IF program = "counting"
  THEN Len(result[w]) = 1 /\ result[w][1] <= Batch * elapsed[w]
  ELSE /\ Len(result[w]) = 3
       /\ result[w][1] < N
       /\ result[w][2] <= MaxDelay * elapsed[w]
       /\ result[w][3] <= elapsed[w] + faults

AmountInv ==
  /\ \A w \in Workers : child[w] \in {"none", "close", "work"} => elapsed[w] < Duration
  /\ \A w \in Workers : child[w] \in {"work", "write"} \/ w \in wrote => Amount(w)

ReportInv ==
  /\ main = "read" => i <= N + 1
  /\ main = "done" /\ program = "counting" => stats = Statistics(counts)

LEMMA Multiple ==
  \A b, e, f \in Nat : /\ b * e \in Nat
                       /\ e <= f => b * e <= b * f
                       /\ e < f => (b * e) + b <= b * f
<1> SUFFICES ASSUME NEW b \in Nat, NEW e \in Nat, NEW f \in Nat
             PROVE  /\ b * e \in Nat
                    /\ e <= f => b * e <= b * f
                    /\ e < f => (b * e) + b <= b * f
  OBVIOUS
<1>1. b * e \in Nat
  OBVIOUS
<1>2. ASSUME e <= f PROVE b * e <= b * f
  <2>1. PICK d \in Nat : f = e + d
    <3>1. f - e \in Nat /\ f = e + (f - e)
      BY <1>2
    <3> QED BY <3>1
  <2>2. b * f = (b * e) + (b * d) /\ b * d \in Nat
    BY <2>1
  <2> QED BY ONLY <1>1, <2>2
<1>3. ASSUME e < f PROVE (b * e) + b <= b * f
  <2>1. PICK d \in Nat : f = (e + 1) + d
    <3>1. f - (e + 1) \in Nat /\ f = (e + 1) + (f - (e + 1))
      BY <1>3
    <3> QED BY <3>1
  <2>2. b * f = ((b * e) + b) + (b * d) /\ b * d \in Nat
    BY <2>1
  <2> QED BY ONLY <1>1, <2>2, b \in Nat
<1> QED BY <1>1, <1>2, <1>3

LEMMA MinOfTwo == \A a, b \in Nat : Min({a, b}) = IF a <= b THEN a ELSE b
<1> SUFFICES ASSUME NEW a \in Nat, NEW b \in Nat PROVE Min({a, b}) = IF a <= b THEN a ELSE b
  OBVIOUS
<1>1. CASE a <= b
  <2>1. \A x \in {a, b} : (\A y \in {a, b} : x <= y) <=> x = a
    BY <1>1
  <2> QED BY <1>1, <2>1 DEF Min
<1>2. CASE ~(a <= b)
  <2>1. \A x \in {a, b} : (\A y \in {a, b} : x <= y) <=> x = b
    BY <1>2
  <2> QED BY <1>2, <2>1 DEF Min
<1> QED BY <1>1, <1>2

\* A round takes its time, and the loop ends when the time is over.
LEMMA RoundTime ==
  ASSUME ForkIInv, NEW w \in Workers, NEW t \in Nat, Round(w, t)
  PROVE  /\ elapsed' = [elapsed EXCEPT ![w] = elapsed'[w]]
         /\ elapsed[w] \in Nat /\ elapsed'[w] \in Nat
         /\ elapsed[w] <= elapsed'[w]
         /\ t > 0 /\ elapsed[w] < Duration => elapsed[w] < elapsed'[w]
         /\ child'[w] = "work" => elapsed'[w] < Duration
<1>1. /\ elapsed \in [Workers -> 0..Duration] /\ child \in [Children -> ChildPC]
      /\ w \in Children /\ Duration \in Nat
  BY WorkersAreChildren, ForkConstants DEF ForkIInv, ProcInv, ResultInv
<1> DEFINE e == elapsed[w]
           m == Min({e + t, Duration})
<1>2. /\ elapsed' = [elapsed EXCEPT ![w] = m] /\ elapsed'[w] = m
      /\ child'[w] = IF elapsed'[w] = Duration THEN "write" ELSE "work"
  BY <1>1 DEF Round
<1>3. e \in Nat /\ e <= Duration /\ e + t \in Nat
  BY <1>1
<1>4. m = IF e + t <= Duration THEN e + t ELSE Duration
  BY <1>1, <1>3, MinOfTwo
<1> HIDE DEF e, m
<1>5. m \in Nat /\ e <= m /\ m <= Duration /\ (t > 0 /\ e < Duration => e < m)
  BY <1>1, <1>3, <1>4
<1>6. child'[w] = "work" => m # Duration
  BY <1>2
<1>7. child'[w] = "work" => m < Duration
  BY <1>1, <1>5, <1>6
<1> QED BY <1>2, <1>3, <1>5, <1>7 DEF e

LEMMA AmountStays ==
  ASSUME ForkIInv, NEW w \in Workers, Amount(w), program' = program,
         elapsed'[w] = elapsed[w], result'[w] = result[w],
         faults' \in Nat, faults <= faults'
  PROVE  Amount(w)'
<1>1. CASE program = "counting"
  BY <1>1 DEF Amount
<1>2. CASE program # "counting"
  <2>1. /\ Len(result[w]) = 3 /\ result[w][1] < N /\ result[w][2] <= MaxDelay * elapsed[w]
        /\ result[w][3] <= elapsed[w] + faults
    BY <1>2 DEF Amount
  <2>2. elapsed[w] \in Nat /\ faults \in Nat
    BY ForkConstants DEF ForkIInv, ProcInv, ResultInv
  <2>3. result[w][3] \in Nat
    <3>1. result[w] \in Seq(Nat) /\ 3 \in DOMAIN result[w]
      BY <2>1 DEF ForkIInv, ResultInv
    <3> QED BY <3>1, FieldsNat
  <2>4. result[w][3] <= elapsed[w] + faults'
    BY <2>1, <2>2, <2>3
  <2> QED BY <1>2, <2>1, <2>4 DEF Amount
<1> QED BY <1>1, <1>2

\* Whatever leaves the measurements alone keeps their bounds.
LEMMA AmountKept ==
  ASSUME ForkIInv, AmountInv, UNCHANGED <<program, elapsed, result, wrote>>,
         faults' \in Nat, faults <= faults',
         \A w \in Workers : \/ child'[w] = child[w]
                            \/ child[w] = "none" /\ child'[w] = "close"
                            \/ child'[w] \in {"exit", "ended"}
  PROVE  AmountInv'
<1>1. \A w \in Workers : child'[w] \in {"none", "close", "work"} => elapsed'[w] < Duration
  BY DEF AmountInv
<1>2. ASSUME NEW w \in Workers, Amount(w) PROVE Amount(w)'
  BY <1>2, AmountStays
<1>3. ASSUME NEW w \in Workers, child'[w] \in {"work", "write"} \/ w \in wrote'
      PROVE  Amount(w)'
  <2>1. child[w] \in {"work", "write"} \/ w \in wrote
    BY <1>3
  <2> QED BY <1>2, <2>1 DEF AmountInv
<1> QED BY <1>1, <1>3 DEF AmountInv

\* The parent, and the ends of the children.
LEMMA AmountQuiet ==
  ASSUME ForkIInv, AmountInv, UNCHANGED arguments,
         \/ MainNext \/ SetupFails
         \/ \E c \in Children : \/ c \notin Workers /\ LoadWork(c)
                                \/ ChildExit(c) \/ ChildDies(c)
         \/ \E c \in Workers : ChildSigpipe(c) \/ ChildWriteFails(c)
  PROVE  AmountInv'
<1>1. UNCHANGED <<program, elapsed, result, wrote>>
  BY DEF MainNext, MakePipe, ForkWorker, ForkLoad, CloseWriteEnds, WaitOne, AllWaited,
     ReadResult, Report, SetupFails, LoadWork, ChildExit, ChildDies, ChildSigpipe,
     ChildWriteFails, work, arguments
<1>2. faults \in Nat /\ MaxFaults \in Nat /\ child \in [Children -> ChildPC]
  BY ForkConstants DEF ForkIInv, ProcInv
<1>3. faults' = faults \/ faults' = faults + 1
  BY DEF MainNext, MakePipe, ForkWorker, ForkLoad, CloseWriteEnds, WaitOne, AllWaited,
     ReadResult, Report, SetupFails, LoadWork, ChildExit, ChildDies, ChildSigpipe,
     ChildWriteFails, Fault
<1>4. faults' \in Nat /\ faults <= faults'
  BY <1>2, <1>3
<1>5. ASSUME NEW w \in Workers
      PROVE  \/ child'[w] = child[w]
             \/ child[w] = "none" /\ child'[w] = "close"
             \/ child'[w] \in {"exit", "ended"}
  <2>0. w \in Children
    BY WorkersAreChildren
  <2>1. CASE ForkWorker
    <3>1. /\ i \in Children /\ child[i] = "none" /\ child' = [child EXCEPT ![i] = "close"]
      BY <2>1, ForkConstants DEF ForkWorker, ForkIInv, ProcInv, ForkedInv, Children
    <3> QED BY <1>2, <2>0, <3>1
  <2>2. CASE ForkLoad
    <3>1. i \notin Workers /\ child' = [child EXCEPT ![i] = "work"]
      BY <2>2, ForkConstants DEF ForkLoad, ForkIInv, ProcInv, ForkedInv, Workers
    <3> QED BY <1>2, <2>0, <3>1
  <2>3. CASE \/ MakePipe \/ SetupFails \/ CloseWriteEnds \/ WaitOne \/ AllWaited
             \/ ReadResult \/ Report
    BY <2>3 DEF MakePipe, SetupFails, CloseWriteEnds, WaitOne, AllWaited, ReadResult, Report
  <2>4. ASSUME NEW c \in Children,
               \/ c \notin Workers /\ LoadWork(c)
               \/ ChildExit(c) \/ ChildDies(c) \/ ChildSigpipe(c) \/ ChildWriteFails(c)
        PROVE  child'[w] = child[w] \/ child'[w] \in {"exit", "ended"}
    <3>1. child' = [child EXCEPT ![c] = "exit"] \/ child' = [child EXCEPT ![c] = "ended"]
      BY <2>4 DEF LoadWork, ChildExit, ChildDies, ChildSigpipe, ChildWriteFails
    <3> QED BY <1>2, <2>0, <3>1
  <2> QED BY <2>1, <2>2, <2>3, <2>4, WorkersAreChildren DEF MainNext
<1> QED BY <1>1, <1>4, <1>5, AmountKept

\* A step of worker w alone.
LEMMA AmountWorker ==
  ASSUME ForkIInv, AmountInv, UNCHANGED arguments, NEW w \in Workers,
         faults' \in Nat, faults <= faults',
         \A u \in Workers : u # w => /\ child'[u] = child[u] /\ elapsed'[u] = elapsed[u]
                                     /\ result'[u] = result[u]
                                     /\ u \in wrote' <=> u \in wrote,
         child'[w] \in {"none", "close", "work"} => elapsed'[w] < Duration,
         Amount(w)'
  PROVE  AmountInv'
<1>1. program' = program
  BY DEF arguments
<1>2. ASSUME NEW u \in Workers, u # w, Amount(u) PROVE Amount(u)'
  BY <1>1, <1>2, AmountStays
<1>3. ASSUME NEW u \in Workers, child'[u] \in {"none", "close", "work"}
      PROVE  elapsed'[u] < Duration
  BY <1>3 DEF AmountInv
<1>4. ASSUME NEW u \in Workers, child'[u] \in {"work", "write"} \/ u \in wrote'
      PROVE  Amount(u)'
  <2>1. CASE u = w
    BY <2>1
  <2>2. CASE u # w
    <3>1. child[u] \in {"work", "write"} \/ u \in wrote
      BY <1>4, <2>2
    <3> QED BY <1>2, <2>2, <3>1 DEF AmountInv
  <2> QED BY <2>1, <2>2
<1> QED BY <1>3, <1>4 DEF AmountInv

LEMMA AmountClose ==
  ASSUME ForkIInv, AmountInv, UNCHANGED arguments, NEW w \in Workers, ChildClose(w)
  PROVE  AmountInv'
<1>1. /\ w \in Children /\ child \in [Children -> ChildPC] /\ result \in [Workers -> Seq(Nat)]
      /\ w \in 1..N /\ N \in Nat /\ Batch \in Nat /\ MaxDelay \in Nat
      /\ elapsed[w] \in Nat /\ faults \in Nat
  BY WorkersAreChildren, ForkConstants DEF ForkIInv, ProcInv, ResultInv, Workers
<1>2. /\ child[w] = "close" /\ child' = [child EXCEPT ![w] = "work"]
      /\ result' = [result EXCEPT ![w] = IF program = "counting" THEN <<0>>
                                         ELSE <<w - 1, 0, 0>>]
      /\ UNCHANGED <<elapsed, wrote, faults, program>>
  BY DEF ChildClose, arguments
<1>3. elapsed'[w] < Duration
  BY <1>2 DEF AmountInv
<1>4. \A u \in Workers : u # w => /\ child'[u] = child[u] /\ elapsed'[u] = elapsed[u]
                                  /\ result'[u] = result[u] /\ (u \in wrote' <=> u \in wrote)
  BY <1>1, <1>2, WorkersAreChildren
<1>5. Amount(w)'
  <2>1. 0 <= Batch * elapsed[w] /\ 0 <= MaxDelay * elapsed[w]
    <3>1. Batch * elapsed[w] \in Nat /\ MaxDelay * elapsed[w] \in Nat
      BY <1>1, Multiple
    <3> QED BY ONLY <3>1
  <2>2. CASE program = "counting"
    <3>1. result'[w] = <<0>>
      BY <1>1, <1>2, <2>2
    <3>2. Len(result'[w]) = 1 /\ result'[w][1] = 0
      BY <3>1
    <3> QED BY <1>2, <2>1, <2>2, <3>2 DEF Amount
  <2>3. CASE program # "counting"
    <3>1. result'[w] = <<w - 1, 0, 0>>
      BY <1>1, <1>2, <2>3
    <3>2. /\ Len(result'[w]) = 3 /\ result'[w][1] = w - 1
          /\ result'[w][2] = 0 /\ result'[w][3] = 0
      BY <3>1
    <3>3. w - 1 < N /\ 0 <= elapsed[w] + faults
      BY <1>1
    <3> QED BY <1>2, <2>1, <2>3, <3>2, <3>3 DEF Amount
  <2> QED BY <2>2, <2>3
<1> QED BY <1>1, <1>2, <1>3, <1>4, <1>5, AmountWorker

LEMMA AmountCount ==
  ASSUME ForkIInv, AmountInv, UNCHANGED arguments, NEW w \in Workers, CountBatch(w)
  PROVE  AmountInv'
<1>1. PICK late \in 0..MaxDelay : Round(w, Interval + late)
  BY DEF CountBatch
<1> DEFINE t == Interval + late
<1>2. t \in Nat /\ t > 0
  BY ForkConstants
<1> HIDE DEF t
<1>3. Round(w, t)
  BY <1>1 DEF t
<1>4. /\ program = "counting" /\ child[w] = "work" /\ wrote' = wrote /\ faults' = faults
      /\ program' = program /\ child'[w] \in {"work", "write"}
      /\ result' = [result EXCEPT ![w][1] = @ + Batch]
      /\ child' = [child EXCEPT ![w] = child'[w]]
  <2>1. w \in Children /\ child \in [Children -> ChildPC]
    BY WorkersAreChildren DEF ForkIInv, ProcInv
  <2> QED BY <1>3, <2>1 DEF CountBatch, Round, arguments
<1>5. elapsed[w] < Duration /\ Amount(w)
  BY <1>4 DEF AmountInv
<1>6. /\ elapsed' = [elapsed EXCEPT ![w] = elapsed'[w]]
      /\ elapsed[w] \in Nat /\ elapsed'[w] \in Nat /\ elapsed[w] < elapsed'[w]
      /\ child'[w] = "work" => elapsed'[w] < Duration
  BY <1>2, <1>3, <1>5, RoundTime
<1>7. /\ result \in [Workers -> Seq(Nat)] /\ Len(result[w]) = 1
      /\ result[w][1] <= Batch * elapsed[w]
  BY <1>4, <1>5 DEF Amount, ForkIInv, ResultInv
<1>8. result[w][1] \in Nat
  <2>1. result[w] \in Seq(Nat) /\ 1 \in DOMAIN result[w]
    BY <1>7
  <2> QED BY <2>1, FieldsNat
<1>9. Len(result'[w]) = 1 /\ result'[w][1] = result[w][1] + Batch
  <2>1. result'[w] = [result[w] EXCEPT ![1] = @ + Batch]
    BY <1>4, <1>7
  <2>2. Len([result[w] EXCEPT ![1] = @ + Batch]) = 1
    BY <1>7, AddToField, ForkConstants
  <2>3. [result[w] EXCEPT ![1] = @ + Batch][1] = result[w][1] + Batch
    BY <1>7
  <2> QED BY <2>1, <2>2, <2>3
<1>10. result'[w][1] <= Batch * elapsed'[w]
  <2>1. PICK a \in Nat, b \in Nat, c \in Nat :
          a = result[w][1] /\ b = Batch * elapsed[w] /\ c = Batch * elapsed'[w]
    BY <1>6, <1>8, Multiple, ForkConstants
  <2>2. b + Batch <= c
    BY <1>6, <2>1, Multiple, ForkConstants
  <2>3. result'[w][1] = a + Batch /\ a <= b /\ Batch \in Nat
    BY <1>7, <1>9, <2>1, ForkConstants
  <2> QED BY ONLY <2>1, <2>2, <2>3
<1>11. Amount(w)'
  BY <1>4, <1>9, <1>10 DEF Amount
<1>12. \A u \in Workers : u # w => /\ child'[u] = child[u] /\ elapsed'[u] = elapsed[u]
                                   /\ result'[u] = result[u] /\ (u \in wrote' <=> u \in wrote)
  <2>1. /\ elapsed \in [Workers -> 0..Duration] /\ child \in [Children -> ChildPC]
        /\ w \in Children
    BY WorkersAreChildren DEF ForkIInv, ProcInv, ResultInv
  <2> QED BY <1>4, <1>6, <1>7, <2>1, WorkersAreChildren
<1>13. faults \in Nat
  BY ForkConstants DEF ForkIInv, ProcInv
<1> QED BY <1>4, <1>6, <1>11, <1>12, <1>13, AmountWorker

LEMMA AmountSleep ==
  ASSUME ForkIInv, AmountInv, UNCHANGED arguments, NEW w \in Workers,
         program = "sleep_wake_process", NEW t \in Nat, Round(w, t), AddJitter(w, t),
         \/ faults' = faults /\ t \in Interval..(Interval + MaxDelay)
         \/ faults' = faults + 1 /\ t <= Interval
  PROVE  AmountInv'
<1> DEFINE late == IF t < Interval THEN 0 ELSE t - Interval
<1>1. /\ Interval \in Nat /\ Interval > 0 /\ MaxDelay \in Nat /\ faults \in Nat
      /\ Duration \in Nat
  BY ForkConstants DEF ForkIInv, ProcInv
<1>2. late \in Nat /\ late <= MaxDelay
  BY <1>1
<1>3. /\ child[w] = "work" /\ program' = program /\ program # "counting"
      /\ child' = [child EXCEPT ![w] = child'[w]] /\ child'[w] \in {"work", "write"}
      /\ wrote' = wrote
      /\ result' = [result EXCEPT ![w][2] = @ + late, ![w][3] = @ + 1]
  <2>1. w \in Children /\ child \in [Children -> ChildPC]
    BY WorkersAreChildren DEF ForkIInv, ProcInv
  <2> QED BY <2>1 DEF Round, AddJitter, arguments
<1>4. late = 0 \/ t > 0
  BY <1>1
<1>5. faults' \in Nat /\ faults <= faults' /\ (t > 0 \/ faults + 1 = faults')
  BY <1>1
<1> HIDE DEF late
<1>6. elapsed[w] < Duration /\ Amount(w)
  BY <1>3 DEF AmountInv
<1>7. /\ elapsed' = [elapsed EXCEPT ![w] = elapsed'[w]]
      /\ elapsed[w] \in Nat /\ elapsed'[w] \in Nat /\ elapsed[w] <= elapsed'[w]
      /\ t > 0 => elapsed[w] < elapsed'[w]
      /\ child'[w] = "work" => elapsed'[w] < Duration
  BY <1>6, RoundTime
<1>8. /\ result \in [Workers -> Seq(Nat)] /\ Len(result[w]) = 3
      /\ result[w][1] < N /\ result[w][2] <= MaxDelay * elapsed[w]
      /\ result[w][3] <= elapsed[w] + faults
  BY <1>3, <1>6 DEF Amount, ForkIInv, ResultInv
<1>9. result[w][2] \in Nat /\ result[w][3] \in Nat
  <2>1. result[w] \in Seq(Nat) /\ 2 \in DOMAIN result[w] /\ 3 \in DOMAIN result[w]
    BY <1>8
  <2> QED BY <2>1, FieldsNat
<1>10. /\ Len(result'[w]) = 3 /\ result'[w][1] = result[w][1]
       /\ result'[w][2] = result[w][2] + late /\ result'[w][3] = result[w][3] + 1
  <2>1. result'[w] = [result[w] EXCEPT ![2] = @ + late, ![3] = @ + 1]
    BY <1>3, <1>8
  <2>2. 2 \in DOMAIN result[w] /\ 3 \in DOMAIN result[w] /\ result[w] \in Seq(Nat)
    BY <1>8
  <2>3. Len([result[w] EXCEPT ![2] = @ + late, ![3] = @ + 1]) = 3
    BY <1>8
  <2> DEFINE s == result[w]
  <2> HIDE DEF s
  <2>4. /\ [s EXCEPT ![2] = @ + late, ![3] = @ + 1][1] = s[1]
        /\ [s EXCEPT ![2] = @ + late, ![3] = @ + 1][2] = s[2] + late
        /\ [s EXCEPT ![2] = @ + late, ![3] = @ + 1][3] = s[3] + 1
    <3>1. s \in Seq(Nat) /\ 1 \in DOMAIN s /\ 2 \in DOMAIN s /\ 3 \in DOMAIN s
      BY <1>8, <2>2 DEF s
    <3> QED BY ONLY <3>1
  <2> QED BY <2>1, <2>3, <2>4 DEF s
<1>11. result'[w][2] <= MaxDelay * elapsed'[w]
  <2>1. PICK a \in Nat, b \in Nat, c \in Nat :
          a = result[w][2] /\ b = MaxDelay * elapsed[w] /\ c = MaxDelay * elapsed'[w]
    BY <1>1, <1>7, <1>9, Multiple
  <2>2. b <= c /\ (t > 0 => b + MaxDelay <= c)
    BY <1>1, <1>7, <2>1, Multiple
  <2>3. result'[w][2] = a + late /\ a <= b
    BY <1>8, <1>10, <2>1
  <2> QED BY ONLY <1>1, <1>2, <1>4, <2>1, <2>2, <2>3
<1>12. result'[w][3] <= elapsed'[w] + faults'
  <2>1. PICK a \in Nat, b \in Nat, c \in Nat :
          a = result[w][3] /\ b = elapsed[w] /\ c = elapsed'[w]
    BY <1>7, <1>9
  <2>2. result'[w][3] = a + 1 /\ a <= b + faults /\ b <= c /\ (t > 0 => b < c)
    BY <1>7, <1>8, <1>10, <2>1
  <2>3. a + 1 <= c + faults'
    BY ONLY <1>1, <1>5, <2>1, <2>2
  <2> QED BY <2>1, <2>2, <2>3
<1>13. Amount(w)'
  BY <1>3, <1>8, <1>10, <1>11, <1>12 DEF Amount
<1>14. \A u \in Workers : u # w => /\ child'[u] = child[u] /\ elapsed'[u] = elapsed[u]
                                   /\ result'[u] = result[u] /\ (u \in wrote' <=> u \in wrote)
  <2>1. /\ elapsed \in [Workers -> 0..Duration] /\ child \in [Children -> ChildPC]
        /\ w \in Children
    BY WorkersAreChildren DEF ForkIInv, ProcInv, ResultInv
  <2> QED BY <1>3, <1>7, <1>8, <2>1, WorkersAreChildren
<1> QED BY <1>3, <1>5, <1>7, <1>13, <1>14, AmountWorker

LEMMA AmountWrite ==
  ASSUME ForkIInv, AmountInv, UNCHANGED arguments, NEW w \in Workers, ChildWrite(w)
  PROVE  AmountInv'
<1>1. w \in Children /\ child \in [Children -> ChildPC] /\ faults \in Nat
  BY WorkersAreChildren, ForkConstants DEF ForkIInv, ProcInv
<1>2. /\ child[w] = "write" /\ child' = [child EXCEPT ![w] = "exit"]
      /\ wrote' = wrote \union {w} /\ UNCHANGED <<elapsed, result, faults, program>>
  BY DEF ChildWrite, arguments
<1>3. Amount(w)
  BY <1>2 DEF AmountInv
<1>4. Amount(w)'
  BY <1>1, <1>2, <1>3, AmountStays
<1>5. \A u \in Workers : u # w => /\ child'[u] = child[u] /\ elapsed'[u] = elapsed[u]
                                  /\ result'[u] = result[u] /\ (u \in wrote' <=> u \in wrote)
  BY <1>1, <1>2, WorkersAreChildren
<1>6. child'[w] = "exit"
  BY <1>1, <1>2
<1> QED BY <1>1, <1>2, <1>4, <1>5, <1>6, AmountWorker

LEMMA AmountInitInv == ForkInit => AmountInv
BY ForkConstants, RoundAssumption, WorkersAreChildren DEF ForkInit, AmountInv, Workers

LEMMA AmountStepInv == ForkIInv /\ AmountInv /\ [ForkNext]_forkVars => AmountInv'
<1> SUFFICES ASSUME ForkIInv, AmountInv, [ForkNext]_forkVars PROVE AmountInv'
  OBVIOUS
<1>1. CASE UNCHANGED forkVars
  BY <1>1 DEF AmountInv, Amount, forkVars, arguments, work
<1>2. CASE ForkNext
  <2>1. UNCHANGED arguments /\ Interval \in Nat /\ MaxDelay \in Nat
    BY <1>2, ForkConstants DEF ForkNext
  <2>2. CASE MainNext \/ SetupFails
    BY <2>1, <2>2, AmountQuiet
  <2>3. ASSUME NEW w \in Workers, Sleep(w) PROVE AmountInv'
    <3>1. PICK late \in 0..MaxDelay : Round(w, Interval + late) /\ AddJitter(w, Interval + late)
      BY <2>3 DEF Sleep
    <3> DEFINE t == Interval + late
    <3>2. t \in Nat /\ t \in Interval..(Interval + MaxDelay)
      BY <2>1
    <3>3. faults' = faults /\ program = "sleep_wake_process" /\ Round(w, t) /\ AddJitter(w, t)
      BY <2>3, <3>1 DEF Sleep
    <3> HIDE DEF t
    <3> QED BY <2>1, <3>2, <3>3, AmountSleep
  <2>4. ASSUME NEW w \in Workers, SleepFails(w) PROVE AmountInv'
    <3>1. PICK t \in 0..Interval : Round(w, t) /\ AddJitter(w, t)
      BY <2>4 DEF SleepFails
    <3>2. t \in Nat /\ t <= Interval
      BY <2>1
    <3>3. faults' = faults + 1 /\ program = "sleep_wake_process"
      BY <2>4 DEF SleepFails, Fault
    <3> QED BY <2>1, <3>1, <3>2, <3>3, AmountSleep
  <2>5. ASSUME NEW c \in Children, ChildNext(c) \/ ChildDies(c) PROVE AmountInv'
    <3>1. CASE c \in Workers /\ WorkerNext(c)
      BY <2>1, <2>3, <3>1, AmountClose, AmountCount, AmountWrite, AmountQuiet DEF WorkerNext
    <3>2. CASE (c \notin Workers /\ LoadWork(c)) \/ ChildExit(c) \/ ChildDies(c)
      BY <2>1, <2>5, <3>2, AmountQuiet
    <3> QED BY <2>5, <3>1, <3>2 DEF ChildNext
  <2>6. ASSUME NEW w \in Workers, ChildWriteFails(w) PROVE AmountInv'
    BY <2>1, <2>6, AmountQuiet
  <2> QED BY <1>2, <2>2, <2>4, <2>5, <2>6 DEF ForkNext
<1> QED BY <1>1, <1>2

\* Nothing changes the report once it is made.
LEMMA ReportStepInv == ForkIInv /\ ReportInv /\ [ForkNext]_forkVars => ReportInv'
<1> SUFFICES ASSUME ForkIInv, ReportInv, [ForkNext]_forkVars PROVE ReportInv'
  OBVIOUS
<1>1. CASE Report /\ UNCHANGED arguments
  BY <1>1 DEF Report, ReportInv, arguments
<1>2. CASE UNCHANGED forkVars
  BY <1>2 DEF ReportInv, forkVars, arguments
<1>3. CASE AllWaited \/ ReadResult
  <2>1. i \in Nat /\ N \in Nat
    BY ForkConstants DEF ForkIInv, ProcInv, NumChildren
  <2>2. main' = "read" /\ i' <= N + 1
    BY <1>3, <2>1 DEF AllWaited, ReadResult
  <2> QED BY <2>2 DEF ReportInv
<1>4. CASE ForkNext /\ ~Report /\ ~AllWaited /\ ~ReadResult
  <2>1. /\ program' = program
        /\ UNCHANGED <<main, i, counts, stats>> \/ main' \notin {"read", "done"}
    BY <1>4 DEF ForkNext, MainNext, MakePipe, ForkWorker, ForkLoad, CloseWriteEnds, WaitOne,
       SetupFails, ChildNext, WorkerNext, ChildClose, CountBatch, Sleep, SleepFails, Round,
       ChildWrite, ChildSigpipe, ChildWriteFails, LoadWork, ChildExit, ChildDies, arguments
  <2> QED BY <2>1 DEF ReportInv
<1> QED BY <1>1, <1>2, <1>3, <1>4 DEF ForkNext

LEMMA AmountAlways == ForkSpec => [](ForkIInv /\ AmountInv /\ ReportInv)
<1>1. ForkInit => AmountInv /\ ReportInv
  BY AmountInitInv DEF ForkInit, ReportInv
<1> QED BY <1>1, ForkInitInv, ForkStepInv, AmountStepInv, ReportStepInv, PTL DEF ForkSpec

\* Every field a worker sent is a number that fits.
LEMMA FieldsFit ==
  ASSUME ForkIInv, AmountInv, NEW w \in Workers, w \in wrote
  PROVE  /\ result[w] \in Seq(Nat)
         /\ \A f \in DOMAIN result[w] : Short(result[w][f])
         /\ Len(result[w]) = IF program = "counting" THEN 1 ELSE 3
<1>1. /\ result[w] \in Seq(Nat) /\ elapsed[w] \in Nat /\ elapsed[w] <= Duration
      /\ faults \in Nat /\ faults <= MaxFaults
      /\ N \in Nat /\ Batch \in Nat /\ MaxDelay \in Nat /\ Duration \in Nat /\ MaxFaults \in Nat
  BY ForkConstants DEF ForkIInv, ProcInv, ResultInv
<1>2. Amount(w)
  BY DEF AmountInv
<1>3. Len(result[w]) = IF program = "counting" THEN 1 ELSE 3
  BY <1>2 DEF Amount
<1>4. \A f \in DOMAIN result[w] : result[w][f] \in Nat
  BY <1>1, FieldsNat
<1> DEFINE b == Duration * Batch
           d == Duration * MaxDelay
<1>5. b \in Nat /\ d \in Nat /\ Largest = N + ((b + d) + Duration) + MaxFaults
  <2>1. \A n, x, y, z \in Nat : x * (y + z + 1) = ((x * y) + (x * z)) + x
    OBVIOUS
  <2> QED BY <1>1, <2>1, Multiple DEF Largest
<1>6. Batch * elapsed[w] <= b /\ MaxDelay * elapsed[w] <= d
  <2>1. Batch * elapsed[w] <= Batch * Duration /\ MaxDelay * elapsed[w] <= MaxDelay * Duration
    BY <1>1, Multiple
  <2>2. Batch * Duration = b /\ MaxDelay * Duration = d
    BY <1>1
  <2> QED BY <2>1, <2>2
<1>7. Batch * elapsed[w] \in Nat /\ MaxDelay * elapsed[w] \in Nat
  BY <1>1, Multiple
<1> HIDE DEF b, d
<1>8. ASSUME NEW f \in DOMAIN result[w] PROVE result[w][f] <= Largest
  <2>1. CASE program = "counting"
    <3>1. f = 1 /\ result[w][1] <= Batch * elapsed[w]
      BY <1>1, <1>2, <1>3, <2>1 DEF Amount
    <3>2. PICK x \in Nat, y \in Nat : x = result[w][f] /\ y = Batch * elapsed[w]
      BY <1>4, <1>7
    <3>3. x <= y /\ y <= b
      BY <1>6, <3>1, <3>2
    <3>4. x <= N + ((b + d) + Duration) + MaxFaults
      BY ONLY <1>1, <1>5, <3>2, <3>3
    <3> QED BY <1>5, <3>2, <3>4
  <2>2. CASE program # "counting"
    <3>1. /\ f = 1 \/ f = 2 \/ f = 3
          /\ result[w][1] < N /\ result[w][2] <= MaxDelay * elapsed[w]
          /\ result[w][3] <= elapsed[w] + faults
      BY <1>1, <1>2, <1>3, <2>2 DEF Amount
    <3>2. PICK x \in Nat, y \in Nat, e \in Nat :
            x = result[w][f] /\ y = MaxDelay * elapsed[w] /\ e = elapsed[w]
      BY <1>1, <1>4, <1>7
    <3>3. x < N \/ (x <= y /\ y <= d) \/ (x <= e + faults /\ e <= Duration)
      BY <1>1, <1>6, <3>1, <3>2
    <3>4. x <= N + ((b + d) + Duration) + MaxFaults
      <4>1. PICK q \in Nat : q = faults
        BY <1>1
      <4>2. b \in Nat /\ d \in Nat /\ q <= MaxFaults
        BY <1>1, <1>5, <4>1
      <4>3. x < N \/ (x <= y /\ y <= d) \/ (x <= e + q /\ e <= Duration)
        BY ONLY <3>3, <4>1
      <4>4. N \in Nat /\ Duration \in Nat /\ MaxFaults \in Nat
        BY <1>1
      <4>5. x <= N \/ x <= d \/ x <= Duration + MaxFaults
        BY ONLY <3>2, <4>1, <4>2, <4>3, <4>4
      <4> QED BY ONLY <3>2, <4>2, <4>4, <4>5
    <3> QED BY <1>5, <3>2, <3>4
  <2> QED BY <2>1, <2>2
<1>9. \A f \in DOMAIN result[w] : Short(result[w][f])
  <2>1. Largest \in Nat
    BY <1>1, <1>5
  <2>2. ASSUME NEW f \in DOMAIN result[w] PROVE Short(result[w][f])
    <3>1. result[w][f] \in 0..Largest
      BY <1>4, <1>8, <2>1
    <3> QED BY <1>4, <3>1, DigitsAssumption DEF Short
  <2> QED BY <2>2
<1> QED BY <1>1, <1>3, <1>9

\* What a worker measured arrives as it was measured.
LEMMA Arrives ==
  ASSUME ForkIInv, AmountInv, NEW w \in Workers, w \in wrote
  PROVE  Parse(Received(Text(result[w]))) = result[w]
<1>1. /\ result[w] \in Seq(Nat)
      /\ \A f \in DOMAIN result[w] : Short(result[w][f])
      /\ Len(result[w]) = IF program = "counting" THEN 1 ELSE 3
  BY FieldsFit
<1>2. CASE program = "counting"
  <2>1. Len(result[w]) = 1 /\ 1 \in DOMAIN result[w]
    BY <1>1, <1>2
  <2> QED BY <1>1, <2>1, CountArrives
<1>3. CASE program # "counting"
  <2>1. program = "sleep_wake_process"
    BY <1>3 DEF ForkIInv, ProcInv, Programs
  <2>2. Len(result[w]) = 3
    BY <1>1, <1>3
  <2>3. 1 \in DOMAIN result[w] /\ 2 \in DOMAIN result[w] /\ 3 \in DOMAIN result[w]
    BY <1>1, <2>2
  <2> QED BY <1>1, <2>1, <2>2, <2>3, ResultArrives
<1> QED BY <1>2, <1>3

LEMMA CountsMeasured ==
  ASSUME ForkIInv, AmountInv, main \in {"read", "done"}, NEW w \in Workers, w < i
  PROVE  counts[w] = Measured(w)
<1>1. counts[w] = IF w \in wrote THEN Parse(Received(Text(result[w]))) ELSE NoData
  BY DEF ForkIInv, ResultsInPlace
<1> QED BY <1>1, Arrives DEF Measured

\* For any number of workers, any length of the measurement and any failures:
\* each worker's result arrives as the numbers it measured, in its own place; an
\* empty pipe is reported as such; a precision result has a sleep to average
\* over; and the printed minimum, maximum and sum are those of the counts.
THEOREM ForkReport == ForkSpec => []ReportFaithful
<1>1. ForkIInv /\ AmountInv /\ ReportInv => ReportFaithful
  <2> SUFFICES ASSUME ForkIInv, AmountInv, ReportInv PROVE ReportFaithful
    OBVIOUS
  <2>1. ASSUME main = "read", NEW w \in 1..(i - 1) PROVE counts[w] = Measured(w)
    <3>1. i \in Nat /\ N \in Nat /\ i <= N + 1
      BY <2>1, ForkConstants DEF ForkIInv, ProcInv, NumChildren, ReportInv
    <3>2. w \in Workers /\ w < i
      BY <3>1 DEF Workers
    <3> QED BY <2>1, <3>2, CountsMeasured
  <2>2. ASSUME main = "done", program = "sleep_wake_process", NEW w \in wrote
        PROVE  counts[w][3] > 0
    <3>1. w \in Workers /\ w < i
      BY <2>2 DEF ForkIInv, ResultInv, ResultsInPlace
    <3>2. counts[w] = result[w]
      BY <2>2, <3>1, CountsMeasured DEF Measured
    <3> QED BY <2>2, <3>1, <3>2 DEF ForkIInv, ResultInv
  <2>3. ASSUME main = "done", program = "counting"
        PROVE  stats = [min |-> Min({CountOf(w) : w \in Workers}),
                        max |-> Max({CountOf(w) : w \in Workers}),
                        sum |-> MapThenSumSet(CountOf, Workers)]
    <3>1. \A w \in Workers : counts[w] = Measured(w)
      BY <2>3, CountsMeasured DEF ForkIInv, ResultsInPlace
    <3>2. ASSUME NEW w \in Workers PROVE CountOf(w) \in Nat /\ counts[w][1] = CountOf(w)
      <4>1. CASE w \in wrote
        <5>1. result[w] \in Seq(Nat) /\ Len(result[w]) = 1
          BY <2>3, <4>1, FieldsFit
        <5>2. 1 \in DOMAIN result[w]
          BY <5>1
        <5> QED BY <3>1, <4>1, <5>1, <5>2, FieldsNat DEF CountOf, Measured
      <4>2. CASE w \notin wrote
        BY <2>3, <3>1, <4>2 DEF CountOf, Measured, NoData
      <4> QED BY <4>1, <4>2
    <3>3. DOMAIN counts = Workers
      BY DEF ForkIInv, ResultsInPlace
    <3>4. stats = Statistics(counts)
      BY <2>3 DEF ReportInv
    <3> QED BY <3>2, <3>3, <3>4, StatisticsValue
  <2> QED BY <2>1, <2>2, <2>3 DEF ReportFaithful, CountOf
<1> QED BY <1>1, AmountAlways, PTL

\* What the parent has of a worker in the end is what that worker measured, and
\* the note of an empty pipe only if the worker wrote nothing: no result is
\* lost, cut off, mixed up with another's, or left uninitialised.
EachInItsPlace == main = "done" => \A w \in Workers : counts[w] = Measured(w)

THEOREM ForkResults == ForkSpec => []EachInItsPlace
<1>1. ForkIInv /\ AmountInv => EachInItsPlace
  <2> SUFFICES ASSUME ForkIInv, AmountInv, main = "done", NEW w \in Workers
               PROVE  counts[w] = Measured(w)
    BY DEF EachInItsPlace
  <2>1. w < i
    BY DEF ForkIInv, ResultsInPlace
  <2> QED BY <2>1, CountsMeasured
<1> QED BY <1>1, AmountAlways, PTL
==============================================================================
