------------------------------- MODULE Memory -------------------------------
(***************************************************************************)
(* The owners of memory.  src/mmap.rs: Mmap, MmapMut and Reservation, each *)
(* a mapping that goes when its value is dropped.  src/heap.rs: the global *)
(* allocator over malloc, which aligns less than a Layout may ask for.     *)
(* Lengths are usize: numbers below Limit, a product wrapping around.      *)
(***************************************************************************)
EXTENDS Integers, FiniteSets

CONSTANTS Limit,     \* one more than the largest usize
          Page,      \* what sysconf says a page is
          MinAlign,  \* MIN_ALIGN, what malloc promises for large blocks
          Aligns,    \* the alignments a Layout asks for
          Sizes,     \* bound: the sizes of a Layout
          Owners     \* bound: the values a program has at one time

VARIABLES regions, \* the kernel's mappings: id -> their length, 0 when there is none
          value    \* the values: owner -> see NoValue

memoryVars == <<regions, value>>

ASSUME MemoryAssumption ==
  /\ Limit \in Nat /\ Page \in 1..(Limit - 1)
  /\ \E pages \in 1..Limit : Limit = pages * Page
  /\ MinAlign \in Nat /\ Aligns \subseteq Nat /\ Sizes \subseteq Nat

\* asked is the length the caller gave, len the field, region where ptr points.
NoValue == [type |-> "none", asked |-> 0, len |-> 0, region |-> 0]

Regions == 1..(Cardinality(Owners) + 1)

MemoryInit ==
  /\ regions = [r \in Regions |-> 0]
  /\ value = [o \in Owners |-> NoValue]

(***************************************************************************)
(* mmap.rs                                                                 *)
(***************************************************************************)
div_ceil(n, d) == (n + d - 1) \div d

page_ceil(n) == (div_ceil(n, Page) * Page) % Limit

\* mmap refuses a length of 0 and gives whole pages otherwise; it may fail.
Maps(o, type, asked, len) ==
  /\ value[o] = NoValue
  /\ \/ UNCHANGED <<regions, value>>
     \/ /\ len # 0
        /\ \E r \in Regions :
             /\ regions[r] = 0
             /\ regions' = [regions EXCEPT ![r] = div_ceil(len, Page) * Page]
             /\ value' = [value EXCEPT ![o] = [type |-> type, asked |-> asked,
                                               len |-> len, region |-> r]]

\* A value of no length has no mapping.
MapsNothing(o, type) ==
  /\ value[o] = NoValue
  /\ value' = [value EXCEPT ![o] = [NoValue EXCEPT !.type = type]]
  /\ UNCHANGED regions

map(o, len) == IF len = 0 THEN MapsNothing(o, "Mmap") ELSE Maps(o, "Mmap", len, len)

map_anon(o, len) == IF len = 0 THEN MapsNothing(o, "MmapMut") ELSE Maps(o, "MmapMut", len, len)

new(o, len) ==
  IF len = 0 THEN MapsNothing(o, "Reservation")
  ELSE Maps(o, "Reservation", len, page_ceil(len))

Unmap(o) == regions' = IF value[o].len = 0 THEN regions
                       ELSE [regions EXCEPT ![value[o].region] = 0]

\* Mutant: self is not forgotten, and unmaps what out now has.
make_read_only_drops(o) ==
  /\ value[o].type = "MmapMut"
  /\ value' = [value EXCEPT ![o].type = "Mmap"]
  /\ Unmap(o)

\* mprotect may fail, which drops self; else the mapping changes hands.
make_read_only(o) ==
  /\ value[o].type = "MmapMut"
  /\ \/ /\ value' = [value EXCEPT ![o].type = "Mmap"]
        /\ UNCHANGED regions
     \/ /\ value[o].len # 0
        /\ Unmap(o)
        /\ value' = [value EXCEPT ![o] = NoValue]

DropMap(o) ==
  /\ value[o] # NoValue
  /\ Unmap(o)
  /\ value' = [value EXCEPT ![o] = NoValue]

(***************************************************************************)
(* heap.rs: an answer is told by the largest alignment of its address.     *)
(***************************************************************************)
\* malloc aligns a block for what fits into it, up to MIN_ALIGN, or better.
malloc(size) == {a \in Aligns : \A b \in Aligns : b <= size /\ b <= MinAlign => a >= b}
posix_memalign(align) == {a \in Aligns : a >= align}

\* alloc and alloc_zeroed choose alike.
alloc(align, size) ==
  IF align <= MinAlign /\ align <= size THEN malloc(size) ELSE posix_memalign(align)

\* realloc of the C library, or a new block and a copy.
realloc(align, size) ==
  IF align <= MinAlign /\ align <= size THEN malloc(size) ELSE alloc(align, size)

MemoryNext ==
  \E o \in Owners :
    \/ \E len \in 0..(Limit - 1) : map(o, len) \/ map_anon(o, len) \/ new(o, len)
    \/ make_read_only(o) \/ DropMap(o)

MemorySpec == MemoryInit /\ [][MemoryNext]_memoryVars

-----------------------------------------------------------------------------
(***************************************************************************)
(* Properties                                                              *)
(***************************************************************************)

\* Every value of a length has a mapping of its own of at least the length
\* that was asked for, near the end of the address space too, where page_ceil
\* wraps; and every mapping has its value, so none is leaked or unmapped
\* twice, whichever of make_read_only and the drops ended it.
MapsAreWhole ==
  /\ \A o \in Owners : value[o].asked > 0 =>
       /\ value[o].len >= value[o].asked
       /\ regions[value[o].region] >= value[o].len
       /\ \A p \in Owners \ {o} : value[p].asked > 0 => value[p].region # value[o].region
  /\ \A r \in Regions : regions[r] > 0 => \E o \in Owners : value[o].len > 0 /\ value[o].region = r

\* A block is aligned as its Layout asks, when it is made and after a realloc,
\* small blocks and large alignments included.
BlocksAreAligned ==
  \A align \in Aligns, size \in Sizes :
    \A at \in alloc(align, size) \cup realloc(align, size) : at >= align

\* What a program asks the two modules for is what it is given.
MemoryIsAsAsked == MapsAreWhole /\ BlocksAreAligned
=============================================================================
