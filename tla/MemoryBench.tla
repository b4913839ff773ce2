------------------------------ MODULE MemoryBench ------------------------------
(***************************************************************************)
(* memory/fragment.c, malloc.c, memleak.c and allocator_throughput.c:      *)
(* loops that allocate blocks of one size and free them again, or not.     *)
(*                                                                         *)
(* The heap hands out the blocks 1..capacity and fails when none is left:  *)
(* blocks have one size, so a block that was freed fits the next request.  *)
(* The arrays of pointers are not initialised.                             *)
(***************************************************************************)
EXTENDS Standalone

CONSTANTS
  NumAllocs,   \* NUM_ALLOCS, NUM_LEAKS, NUM_ALLOCATIONS
  MaxBlocks    \* bound on the blocks the heap has

ASSUME AllocsAssumption == NumAllocs \in Nat /\ NumAllocs >= 2
ASSUME BlocksAssumption == MaxBlocks \in Nat

MemoryPrograms == {"fragment", "malloc", "memleak", "allocator_throughput"}
Index == 0..(NumAllocs - 1)
Half == NumAllocs \div 2
NULL == 0
Wild == -1      \* garbage that is no address of the heap

VARIABLES
  capacity,
  ptrs,           \* the array of pointers
  table,          \* the block of the array in allocator_throughput.c, or NULL
  live,           \* the blocks that are allocated
  cut,            \* how many entries the allocation loop wrote non-NULL
  failed_allocs

memVars == <<capacity, ptrs, table, live, cut, failed_allocs>>

Blocks == 1..capacity
Unused == Blocks \ live

MemInit ==
  /\ program \in MemoryPrograms
  /\ main = IF program = "allocator_throughput" THEN "table" ELSE "alloc"
  /\ i = 0
  /\ faults = 0
  /\ capacity \in 0..MaxBlocks
  /\ ptrs \in [Index -> {NULL, Wild}]
  /\ table = NULL
  /\ live = {}
  /\ cut = NumAllocs
  /\ failed_allocs = 0

------------------------------------------------------------------------------
MallocTable ==
  /\ main = "table"
  /\ \/ /\ \E b \in Unused : table' = b /\ live' = live \union {b}
        /\ main' = "alloc"
     \/ /\ Unused = {}
        /\ main' = "failed"
        /\ UNCHANGED <<table, live>>
  /\ UNCHANGED <<program, i, faults, capacity, ptrs, cut, failed_allocs>>

\* memleak.c keeps no pointer.
Malloc ==
  /\ main = "alloc"
  /\ \E b \in Unused :
       /\ live' = live \union {b}
       /\ ptrs' = IF program = "memleak" THEN ptrs
                  ELSE [ptrs EXCEPT ![i] = b]
  /\ EndRound(NumAllocs, IF program = "memleak" THEN "done" ELSE "free")
  /\ UNCHANGED <<program, faults, capacity, table, cut, failed_allocs>>

\* break in two of the programs, return 1 in the others.
MallocFails ==
  /\ main = "alloc"
  /\ Unused = {}
  /\ ptrs' = IF program = "memleak" THEN ptrs ELSE [ptrs EXCEPT ![i] = NULL]
  /\ cut' = i
  /\ i' = 0
  /\ main' = IF program \in {"fragment", "malloc"} THEN "free" ELSE "failed"
  /\ UNCHANGED <<program, faults, capacity, table, live, failed_allocs>>

\* The entry that is freed: rand() % NUM_ALLOCS in fragment.c.
Freed == IF program = "fragment" THEN Index ELSE {i}

\* Variant: the pointer stays in the array.
FreeEntryStale ==
  /\ main = "free"
  /\ \E index \in Freed :
       /\ ptrs[index] \in live \union {NULL}
       /\ live' = live \ {ptrs[index]}
  /\ IF program = "fragment" THEN EndRound(Half, "again")
     ELSE EndRound(NumAllocs, "report")
  /\ UNCHANGED <<program, faults, capacity, ptrs, table, cut, failed_allocs>>

FreeEntry ==
  /\ main = "free"
  /\ \E index \in Freed :
       /\ ptrs[index] \in live \union {NULL}
       /\ live' = live \ {ptrs[index]}
       /\ ptrs' = IF program = "fragment" THEN [ptrs EXCEPT ![index] = NULL]
                  ELSE ptrs
  /\ IF program = "fragment" THEN EndRound(Half, "again")
     ELSE EndRound(NumAllocs, "report")
  /\ UNCHANGED <<program, faults, capacity, table, cut, failed_allocs>>

\* free of anything else is undefined; the allocator or the hardware stops it.
FreeInvalid ==
  /\ main = "free"
  /\ \E index \in Freed : ptrs[index] \notin live \union {NULL}
  /\ main' = "aborted"
  /\ UNCHANGED <<program, i, faults, memVars>>

\* Step 3 of fragment.c.  The new blocks are not kept.
MallocAgain ==
  /\ main = "again"
  /\ \/ /\ \E b \in Unused : live' = live \union {b}
        /\ UNCHANGED failed_allocs
     \/ /\ Unused = {}
        /\ failed_allocs' = failed_allocs + 1
        /\ UNCHANGED live
  /\ EndRound(Half, "done")
  /\ UNCHANGED <<program, faults, capacity, ptrs, table, cut>>

\* Variant: the array itself is not freed.
ReportOnly ==
  /\ main = "report"
  /\ main' = "done"
  /\ UNCHANGED <<program, i, faults, memVars>>

\* The times are printed; allocator_throughput.c frees its array.
MemReport ==
  /\ main = "report"
  /\ main' = "done"
  /\ live' = live \ {table}
  /\ UNCHANGED <<program, i, faults, capacity, ptrs, table, cut,
                 failed_allocs>>

MemNext ==
  \/ MallocTable \/ Malloc \/ MallocFails
  \/ FreeEntry \/ FreeInvalid \/ MallocAgain \/ MemReport

MemSpec == MemInit /\ [][MemNext]_<<shared, memVars>>

------------------------------------------------------------------------------
(* Properties.                                                             *)

\* Every variable keeps its type.
MemTypeOK ==
  /\ program \in MemoryPrograms
  /\ main \in {"table", "alloc", "free", "again", "report"} \union Ended
  /\ i \in Index
  /\ capacity \in Nat
  /\ ptrs \in [Index -> Blocks \union {NULL, Wild}]
  /\ table \in Blocks \union {NULL}
  /\ live \subseteq Blocks
  /\ cut \in 0..NumAllocs
  /\ failed_allocs \in Nat

\* No program frees a block twice or frees what it never got, random indices
\* drawn twice included, as long as malloc has not failed.  Only after the
\* break of a failing malloc can the loops that free reach an entry of the
\* array that was never written.
OnlyLiveFreed == main = "aborted" => cut < NumAllocs

Drawn == {k \in Index : ptrs[k] = NULL}

\* What is left allocated at the end is what each program means to leave.
\* malloc.c and allocator_throughput.c leave nothing; memleak.c leaks each
\* block; fragment.c leaves what it did not draw and its second allocations.
\* These fail at most as often as an index was drawn again: when all blocks
\* have one size the "failed allocations due to fragmentation" have no other
\* cause.
HeapAccounts ==
  main = "done" =>
    /\ program \in {"malloc", "allocator_throughput"} => live = {}
    /\ program = "memleak" => Cardinality(live) = NumAllocs
    /\ program = "fragment" /\ cut = NumAllocs =>
         /\ Cardinality(live) = NumAllocs - Cardinality(Drawn)
                                  + Half - failed_allocs
         /\ failed_allocs <= Half - Cardinality(Drawn)
==============================================================================
