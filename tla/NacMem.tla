------------------------------- MODULE NacMem -------------------------------
(***************************************************************************)
(* The memory module of the gap16g driver, gap16g/drv/nac_mem.c.           *)
(*                                                                         *)
(* nac_mem_init takes every large block of pages the kernel has, sorts the *)
(* blocks by descending address, looks for one contiguous area per card    *)
(* and gives the rest back.  nac_mem_malloc and nac_mem_free then lend the *)
(* areas to the driver of the cards, and nac_mem_exit returns them.        *)
(*                                                                         *)
(* A block ("piece") is PAGE_SIZE << gfporder bytes, for the order that    *)
(* nac_mem_alloc_ptable settles for.  Piece number a is the block at       *)
(* address a * Piece; 0 is the null pointer.                               *)
(***************************************************************************)
EXTENDS Integers

CONSTANTS
    Pieces,     \* numbers of the blocks the machine has
    High,       \* those above 4 GB
    Piece,      \* bytes of a block
    TabSize,    \* PTABSIZE
    AlignTo,    \* align: an area starts at a multiple of it
    Cards,      \* nnacs: the cards are 0..Cards-1
    CardSize,   \* size[nac] at first
    Sizes,      \* CardSize and what halving it leads to
    MinSize,    \* NAC_MIN_SIZE
    Units,      \* the cards as the driver probes them
    NoUnit,     \* none of them
    Asks        \* values of *msize in calls of nac_mem_malloc

ASSUME MemAssumption ==
    /\ Pieces \subseteq Nat \ {0} /\ High \subseteq Pieces
    /\ {Piece, TabSize, AlignTo, Cards} \subseteq Nat \ {0}
    /\ MinSize \in Nat
    /\ Sizes \subseteq Nat
    /\ CardSize \in {n \in Sizes : n > MinSize}
    /\ \A n \in Sizes : n > MinSize => n \div 2 \in Sizes
    /\ NoUnit \notin Units
    /\ Asks \subseteq Nat

(***************************************************************************)
(* Every size that is tried is a whole number of blocks: true of 256 MB    *)
(* halved down to 64 MB, not of 256 MB divided among three cards.          *)
(***************************************************************************)
WholeBlocks == \A n \in Sizes : n > MinSize => n % Piece = 0

VARIABLES
    kernelFree, \* blocks the page allocator may hand out
    taken,      \* history: the blocks nac_mem_alloc_ptable got
    twice,      \* history: blocks freed when they were free already
    reserved,   \* blocks with pages marked PG_reserved
    ptable,     \* nac_mem_ptable
    htable,     \* nac_mem_htable
    cstart,     \* the static cstart of nac_mem_findcontig
    i,          \* its i
    nac,        \* the card nac_mem is looking for memory for
    size,       \* size[]
    vaddr,      \* nac_mem_vaddr[], as block numbers
    inuse,      \* nac_mem_inuse[]
    lock,       \* who holds nac_mem_lock
    slot,       \* i of a nac_mem_malloc in progress
    msize,      \* its *msize, then what the unit was told
    held,       \* the area each unit's driver was given
    pc

kernVars == <<kernelFree, taken, twice, reserved>>
findVars == <<ptable, htable, cstart, i, nac, size, vaddr>>
lendVars == <<inuse, lock, slot, msize, held>>
memVars  == <<kernVars, findVars, lendVars, pc>>

Slots == 0..(TabSize - 1)
CardIds == 0..(Cards - 1)
NoSlot == -1

-----------------------------------------------------------------------------
\* A table after nac_mem_sort_ptable: descending, the empty slots last.
Sorted(t) ==
    \A j, k \in Slots : j < k => t[k] < t[j] \/ (t[j] = 0 /\ t[k] = 0)

Tables == {t \in [Slots -> (Pieces \ High) \cup {0}] : Sorted(t)}

\* The blocks that hold a piece of an area of n bytes at block a.
Area(a, n) == {p \in Pieces : a <= p /\ (p - a) * Piece < n}

Entries(t) == {t[k] : k \in Slots} \ {0}

\* (address & (align - 1)) == 0
Aligned(a) == (a * Piece) % AlignTo = 0

MemInit ==
    /\ kernelFree = Pieces
    /\ taken = {}
    /\ twice = {}
    /\ reserved = {}
    /\ ptable = [k \in Slots |-> 0]
    /\ htable = {}
    /\ cstart = 0
    /\ i = 0
    /\ nac = 0
    /\ size = [c \in CardIds |-> CardSize]
    /\ vaddr = [c \in CardIds |-> 0]
    /\ inuse = [c \in CardIds |-> 0]
    /\ lock = NoUnit
    /\ slot = [u \in Units |-> NoSlot]
    /\ msize = [u \in Units |-> 0]
    /\ held = [u \in Units |-> 0]
    /\ pc = "alloc"

(***************************************************************************)
(* nac_mem_alloc_ptable and nac_mem_sort_ptable: the blocks are whichever  *)
(* the kernel has, at least one and at most a table of low ones.           *)
(***************************************************************************)
AllocPtable ==
    /\ pc = "alloc"
    /\ \E t \in Tables, S \in SUBSET High :
         LET got == Entries(t) \cup S IN
         /\ got # {}
         /\ ptable' = t
         /\ htable' = S
         /\ taken' = got
         /\ kernelFree' = kernelFree \ got
    /\ pc' = "find"
    /\ UNCHANGED <<twice, reserved, cstart, i, nac, size, vaddr, lendVars>>

\* nac_mem: findcontig returned 0, so try half the size or give up.
ShrinkPast ==
    /\ size' = [size EXCEPT ![nac] = @ \div 2]
    /\ pc' = IF size[nac] \div 2 < MinSize THEN "rest" ELSE "find"

ShrinkStuck ==
    /\ pc' = IF size[nac] \div 2 <= MinSize THEN "rest" ELSE "find"
    /\ UNCHANGED size

Shrink ==
    /\ size' = [size EXCEPT ![nac] = @ \div 2]
    /\ pc' = IF size[nac] \div 2 <= MinSize THEN "rest" ELSE "find"

\* nac_mem_findcontig is called for size[nac] bytes.
FindBegin ==
    /\ pc = "find"
    /\ IF ptable[cstart] = 0
       THEN Shrink /\ UNCHANGED i
       ELSE pc' = "scan" /\ i' = cstart + 1 /\ UNCHANGED size
    /\ UNCHANGED <<kernVars, ptable, htable, cstart, nac, vaddr, lendVars>>

\* Slots cstart..i-1 are an area large enough that starts where it may.
Fits == (i - cstart) * Piece >= size[nac] /\ Aligned(ptable[i - 1])

\* The slots of the area found, taken out of the table.
UsedSlotsShort == {k \in Slots : i - (size[nac] \div Piece) < k /\ k < i}

UsedSlots == {k \in Slots : i - (size[nac] \div Piece) <= k /\ k < i}

\* The loop over set_bit: the pages of an area are marked reserved.
MarkReserved(S) == reserved' = reserved \cup S

\* An area is found for card nac, marked, and the next card is up.
ScanFound ==
    /\ pc = "scan" /\ i < TabSize /\ Fits
    /\ vaddr' = [vaddr EXCEPT ![nac] = ptable[i - 1]]
    /\ MarkReserved(Area(ptable[i - 1], size[nac]))
    /\ ptable' = [k \in Slots |-> IF k \in UsedSlots THEN 0 ELSE ptable[k]]
    /\ cstart' = i
    /\ nac' = nac + 1
    /\ pc' = IF nac + 1 = Cards THEN "rest" ELSE "find"
    /\ UNCHANGED <<kernelFree, taken, twice, htable, i, size, lendVars>>

\* The next slot: still the same area, or a gap and a new one.
ScanNextNoGap ==
    /\ pc = "scan" /\ i < TabSize /\ ~Fits
    /\ ptable[i] # 0
    /\ i' = i + 1
    /\ UNCHANGED <<kernVars, ptable, htable, cstart, nac, size, vaddr, lendVars, pc>>

ScanNext ==
    /\ pc = "scan" /\ i < TabSize /\ ~Fits
    /\ ptable[i] # 0
    /\ cstart' = IF ptable[i - 1] - ptable[i] # 1 THEN i ELSE cstart
    /\ i' = i + 1
    /\ UNCHANGED <<kernVars, ptable, htable, nac, size, vaddr, lendVars, pc>>

\* The end of the table's entries (start again from 0), or of the table.
ScanFail ==
    /\ pc = "scan"
    /\ \/ i < TabSize /\ ~Fits /\ ptable[i] = 0 /\ cstart' = 0
       \/ i = TabSize /\ UNCHANGED cstart
    /\ Shrink
    /\ UNCHANGED <<kernVars, ptable, htable, i, nac, vaddr, lendVars>>

\* Blocks go back to the page allocator, which may refuse marked ones.
GiveBack(S, marked) ==
    /\ \E R \in SUBSET (S \cap marked) : kernelFree' = kernelFree \cup (S \ R)
    /\ twice' = twice \cup (S \cap kernelFree)

\* nac_mem_free_ptable
FreePtableLow ==
    /\ pc = "rest"
    /\ GiveBack(Entries(ptable), reserved)
    /\ ptable' = [k \in Slots |-> 0]
    /\ htable' = {}
    /\ pc' = "ready"
    /\ UNCHANGED <<taken, reserved, cstart, i, nac, size, vaddr, lendVars>>

FreePtable ==
    /\ pc = "rest"
    /\ GiveBack(Entries(ptable) \cup htable, reserved)
    /\ ptable' = [k \in Slots |-> 0]
    /\ htable' = {}
    /\ pc' = "ready"
    /\ UNCHANGED <<taken, reserved, cstart, i, nac, size, vaddr, lendVars>>

\* The first card whose area is not lent, or Cards.
Idle(c) ==
    /\ c # Cards => inuse[c] = 0
    /\ \A d \in CardIds : d < c => inuse[d] # 0

\* nac_mem_malloc up to the end of its search; *msize is n.
MallocFindUnlocked(u, n) ==
    /\ pc = "ready" /\ held[u] = 0 /\ slot[u] = NoSlot
    /\ lock' = u
    /\ \E c \in 0..Cards : Idle(c) /\ slot' = [slot EXCEPT ![u] = c]
    /\ msize' = [msize EXCEPT ![u] = n]
    /\ UNCHANGED <<kernVars, findVars, inuse, held, pc>>

MallocFind(u, n) ==
    /\ pc = "ready" /\ held[u] = 0 /\ slot[u] = NoSlot
    /\ lock = NoUnit /\ lock' = u
    /\ \E c \in 0..Cards : Idle(c) /\ slot' = [slot EXCEPT ![u] = c]
    /\ msize' = [msize EXCEPT ![u] = n]
    /\ UNCHANGED <<kernVars, findVars, inuse, held, pc>>

\* What *msize becomes for the area of card c: 0 asks for all of it.
GrantedAsked(n, c) == IF n = 0 THEN size[c] ELSE n

Granted(n, c) == IF n = 0 \/ n > size[c] THEN size[c] ELSE n

\* The rest of nac_mem_malloc, up to spin_unlock_irqrestore; it gives nothing
\* when all areas are in use or the one found is null.
MallocTakeUncounted(u) ==
    LET c == slot[u] IN
    /\ c # NoSlot
    /\ \/ c = Cards /\ UNCHANGED <<msize, held>>
       \/ /\ c \in CardIds
          /\ msize' = [msize EXCEPT ![u] = Granted(@, c)]
          /\ held' = [held EXCEPT ![u] = vaddr[c]]
    /\ slot' = [slot EXCEPT ![u] = NoSlot]
    /\ lock' = NoUnit
    /\ UNCHANGED <<kernVars, findVars, inuse, pc>>

MallocTake(u) ==
    LET c == slot[u] IN
    /\ c # NoSlot
    /\ \/ c = Cards /\ UNCHANGED <<msize, held, inuse>>
       \/ /\ c \in CardIds
          /\ msize' = [msize EXCEPT ![u] = Granted(@, c)]
          /\ held' = [held EXCEPT ![u] = vaddr[c]]
          /\ inuse' = [inuse EXCEPT ![c] = IF vaddr[c] = 0 THEN @ ELSE @ + 1]
    /\ slot' = [slot EXCEPT ![u] = NoSlot]
    /\ lock' = NoUnit
    /\ UNCHANGED <<kernVars, findVars, pc>>

\* nac_mem_free of what the unit was given: one change, under nac_mem_lock.
Free(u) ==
    /\ pc = "ready" /\ held[u] # 0 /\ lock = NoUnit
    /\ \E c \in CardIds :
         /\ vaddr[c] = held[u]
         /\ \A d \in CardIds : d < c => vaddr[d] # held[u]
         /\ inuse' = [inuse EXCEPT ![c] = @ - 1]
    /\ held' = [held EXCEPT ![u] = 0]
    /\ UNCHANGED <<kernVars, findVars, lock, slot, msize, pc>>

\* The areas nac_mem_cleanup gives back, block by block.
Lent == UNION {Area(vaddr[c], size[c]) : c \in {d \in CardIds : vaddr[d] # 0}}

\* nac_mem_exit: the module can be unloaded when no driver uses it.
Exit ==
    /\ pc = "ready"
    /\ \A u \in Units : held[u] = 0 /\ slot[u] = NoSlot
    /\ reserved' = reserved \ Lent
    /\ GiveBack(Lent, reserved \ Lent)
    /\ pc' = "gone"
    /\ UNCHANGED <<taken, findVars, lendVars>>

MemNext ==
    \/ AllocPtable
    \/ FindBegin
    \/ ScanFound
    \/ ScanNext
    \/ ScanFail
    \/ FreePtable
    \/ \E u \in Units, n \in Asks : MallocFind(u, n)
    \/ \E u \in Units : MallocTake(u)
    \/ \E u \in Units : Free(u)
    \/ Exit

MemSpec == MemInit /\ [][MemNext]_memVars

MemFair == MemSpec /\ WF_memVars(FindBegin \/ ScanFound \/ ScanNext \/ ScanFail \/ FreePtable)

-----------------------------------------------------------------------------
(* Properties. *)

MemTypeOK ==
    /\ kernelFree \subseteq Pieces /\ taken \subseteq Pieces /\ twice \subseteq Pieces
    /\ reserved \subseteq Pieces
    /\ ptable \in [Slots -> (Pieces \ High) \cup {0}]
    /\ htable \subseteq High
    /\ cstart \in Slots
    /\ i \in 0..TabSize
    /\ nac \in 0..Cards
    /\ size \in [CardIds -> Sizes]
    /\ vaddr \in [CardIds -> Pieces \cup {0}]
    /\ inuse \in [CardIds -> Int]
    /\ lock \in Units \cup {NoUnit}
    /\ slot \in [Units -> -1..Cards]
    /\ msize \in [Units -> Nat]
    /\ held \in [Units -> Pieces \cup {0}]
    /\ pc \in {"alloc", "find", "scan", "rest", "ready", "gone"}

(***************************************************************************)
(* The area nac_mem_findcontig finds for a card is one whole contiguous    *)
(* run of blocks below 4 GB that nac_mem got from the kernel, it starts    *)
(* where the alignment allows, and no two cards' areas overlap, whatever   *)
(* gaps the blocks had and however often the search was started again.     *)
(***************************************************************************)
AreasSound ==
    \A c \in CardIds : vaddr[c] # 0 =>
        /\ Aligned(vaddr[c])
        /\ \A k \in 0..((size[c] - 1) \div Piece) : vaddr[c] + k \in taken \ High
        /\ \A d \in CardIds \ {c} : vaddr[d] # 0 =>
             Area(vaddr[c], size[c]) \cap Area(vaddr[d], size[d]) = {}

(***************************************************************************)
(* nac_mem_findcontig: "Deleting used entries from table, so they won't be *)
(* freed by freeptable()".  While an area belongs to a card, the kernel    *)
(* cannot hand any block of it to somebody else, and every block of it is  *)
(* still marked reserved, as the driver's mmap needs it.                   *)
(***************************************************************************)
AreasKept == pc = "ready" => Lent \cap kernelFree = {} /\ Lent \subseteq reserved

(***************************************************************************)
(* Units that probe at the same time never share memory: the blocks that   *)
(* nac_mem_malloc told one unit it has are not among those of another,     *)
(* until nac_mem_free.                                                     *)
(***************************************************************************)
LentOnce ==
    \A u, v \in Units : u # v /\ held[u] # 0 /\ held[v] # 0 =>
        Area(held[u], msize[u]) \cap Area(held[v], msize[v]) = {}

(***************************************************************************)
(* Loading and unloading the module changes nothing for the kernel: what   *)
(* nac_mem_alloc_ptable took is given back, all of it and once.            *)
(***************************************************************************)
NothingLost ==
    /\ twice = {}
    /\ pc = "gone" => kernelFree = Pieces

\* The search of nac_mem ends for every table: each retry asks for less.
InitEnds == pc = "find" ~> pc = "ready"

-----------------------------------------------------------------------------
(* The inductive invariant behind the properties above, for sizes that are *)
(* whole blocks.                                                           *)

\* The table stays in descending order apart from its holes.
TableInv ==
    /\ \A j, k \in Slots :
         j < k /\ ptable[j] # 0 /\ ptable[k] # 0 => ptable[j] > ptable[k]
    /\ Entries(ptable) \subseteq taken \ High

\* While nac_mem_findcontig scans, slots cstart..i-1 are one run of blocks.
RunInv ==
    pc = "scan" =>
        /\ cstart < i
        /\ \A k \in cstart..(i - 1) :
             ptable[k] # 0 /\ ptable[k] = ptable[cstart] - (k - cstart)

\* Only cards before nac have an area, and its size was worth having; the
\* cards after it still have the size they start with.
FoundInv ==
    /\ \A c \in CardIds : vaddr[c] # 0 => c < nac /\ size[c] > MinSize
    /\ pc \in {"alloc", "find", "scan"} => nac < Cards /\ size[nac] > MinSize
    /\ \A c \in CardIds : c > nac => size[c] > MinSize

\* Every block is free, in a table or in a card's area, and in one only.
Partition ==
    /\ Lent \cap Entries(ptable) = {}
    /\ htable \cap (Lent \cup Entries(ptable)) = {}
    /\ pc # "gone" => kernelFree \cap (Lent \cup Entries(ptable) \cup htable) = {}
    /\ Pieces = kernelFree \cup Entries(ptable) \cup htable \cup Lent
    /\ pc = "gone" => kernelFree = Pieces

\* The blocks of the areas are the ones marked.
MarkInv == pc # "gone" => reserved = Lent

\* A lent area is counted as in use, once, and larger than its unit was told.
LendInv ==
    /\ \A u \in Units : held[u] # 0 =>
         \E c \in CardIds : vaddr[c] = held[u] /\ inuse[c] = 1 /\ msize[u] <= size[c]
    /\ \A u, v \in Units : u # v /\ held[u] # 0 => held[u] # held[v]
    /\ pc \in {"alloc", "find", "scan", "rest"} => \A u \in Units : held[u] = 0

\* Whoever is inside nac_mem_malloc has the lock, and what it saw is still so.
LockInv ==
    \A u \in Units : slot[u] # NoSlot =>
        /\ pc = "ready" /\ lock = u /\ held[u] = 0
        /\ slot[u] \in CardIds => inuse[slot[u]] = 0

MemInv ==
    /\ MemTypeOK
    /\ TableInv
    /\ RunInv
    /\ FoundInv
    /\ AreasSound
    /\ Partition
    /\ MarkInv
    /\ LendInv
    /\ LockInv
    /\ twice = {}
    /\ pc = "alloc" => nac = 0
    /\ pc \in {"alloc", "ready", "gone"} => Entries(ptable) = {} /\ htable = {}

=============================================================================
