---------------------------- MODULE NacMemProofs ----------------------------
(***************************************************************************)
(* Proofs about NacMem for any set of blocks, table, number of cards and   *)
(* sizes, provided that every size tried is a whole number of blocks       *)
(* (WholeBlocks).                                                          *)
(***************************************************************************)
EXTENDS NacMem, TLAPS

\* Comparing multiples of the block size is comparing the factors.
LEMMA Scale ==
    ASSUME NEW x \in Int, NEW y \in Int
    PROVE  /\ x * Piece < y * Piece <=> x < y
           /\ x * Piece >= y * Piece <=> x >= y
  BY MemAssumption

\* A size that is tried is its number of blocks times the block size.
LEMMA Whole ==
    ASSUME WholeBlocks, NEW n \in Sizes, n > MinSize
    PROVE  /\ n \div Piece \in Nat \ {0}
           /\ n = (n \div Piece) * Piece
           /\ (n - 1) \div Piece = (n \div Piece) - 1
  <1>1. n \in Nat /\ n > 0 /\ Piece \in Nat \ {0} /\ n % Piece = 0
    BY MemAssumption DEF WholeBlocks
  <1>2. PICK q \in Nat : q = n \div Piece
    BY <1>1
  <1>3. n = q * Piece
    BY <1>1, <1>2
  <1>4. q > 0
    BY <1>1, <1>3
  <1>5. (n - 1) \div Piece = q - 1
    <2>1. n - 1 = (q - 1) * Piece + (Piece - 1)
      BY <1>1, <1>3
    <2>2. Piece - 1 \in 0..(Piece - 1) /\ q - 1 \in Nat
      BY <1>1, <1>4
    <2> QED
      BY <1>1, <2>1, <2>2
  <1> QED
    BY <1>2, <1>3, <1>4, <1>5

\* An area of n bytes at block a is the run of n \div Piece blocks from a.
LEMMA AreaRun ==
    ASSUME WholeBlocks, NEW n \in Sizes, n > MinSize, NEW a \in Nat
    PROVE  Area(a, n) = {p \in Pieces : a <= p /\ p < a + (n \div Piece)}
  <1>1. PICK q \in Nat \ {0} : q = n \div Piece /\ n = q * Piece
    BY Whole
  <1>2. ASSUME NEW p \in Pieces
        PROVE  (p - a) * Piece < n <=> p < a + q
    <2>1. p \in Nat /\ p - a \in Int /\ q \in Int
      BY MemAssumption
    <2>2. (p - a) * Piece < q * Piece <=> p - a < q
      BY <2>1, Scale
    <2> QED
      BY <1>1, <2>1, <2>2
  <1> QED
    BY <1>1, <1>2 DEF Area

\* A block is lent when it is in the area of some card.
LEMMA InLent ==
    ASSUME NEW p
    PROVE  p \in Lent <=> \E c \in CardIds : vaddr[c] # 0 /\ p \in Area(vaddr[c], size[c])
  BY DEF Lent

\* A card's area contains its first block.
LEMMA AreaFirst ==
    ASSUME NEW a \in Pieces, NEW n \in Nat, n > 0
    PROVE  a \in Area(a, n)
  BY MemAssumption DEF Area

LEMMA TableNat ==
    ASSUME MemTypeOK
    PROVE  \A k \in Slots : ptable[k] \in Nat
  <1> TAKE k \in Slots
  <1>1. ptable[k] \in Pieces \/ ptable[k] = 0
    BY DEF MemTypeOK
  <1>2. CASE ptable[k] \in Pieces
    BY <1>2, MemAssumption
  <1> QED
    BY <1>1, <1>2

LEMMA InitMemInv == MemInit => MemInv
  <1> SUFFICES ASSUME MemInit PROVE MemInv
    OBVIOUS
  <1> USE DEF MemInit
  <1>0. Slots \subseteq Nat /\ 0 \in Slots /\ CardIds \subseteq Nat /\ 0 \in CardIds
    BY MemAssumption DEF Slots, CardIds
  <1>1. MemTypeOK
    <2>1. /\ Cards \in Nat /\ TabSize \in Nat /\ CardSize \in Sizes /\ High \subseteq Pieces
      BY MemAssumption
    <2>2. 0 \in 0..TabSize /\ 0 \in 0..Cards /\ NoSlot \in -1..Cards
      BY <2>1 DEF NoSlot
    <2> QED
      BY <1>0, <2>1, <2>2 DEF MemTypeOK
  <1>2. Entries(ptable) = {} /\ Lent = {}
    BY DEF Entries, Lent
  <1>3. TableInv /\ RunInv /\ LendInv /\ LockInv /\ MarkInv
    BY <1>2 DEF TableInv, RunInv, LendInv, LockInv, MarkInv
  <1>4. FoundInv
    BY <1>0, MemAssumption DEF FoundInv, CardIds
  <1>5. AreasSound /\ Partition
    BY <1>2 DEF AreasSound, Partition
  <1> QED
    BY <1>1, <1>2, <1>3, <1>4, <1>5 DEF MemInv

(***************************************************************************)
(* A step that leaves the table and the areas alone keeps what is said of  *)
(* them; the sizes of cards without an area do not matter.                 *)
(***************************************************************************)
LEMMA SameAreas ==
    ASSUME vaddr' = vaddr, taken' = taken,
           \A c \in CardIds : vaddr[c] # 0 => size'[c] = size[c]
    PROVE  /\ Lent' = Lent
           /\ AreasSound => AreasSound'
  <1>1. \A p : p \in Lent' <=>
               \E c \in CardIds : vaddr'[c] # 0 /\ p \in Area(vaddr'[c], size'[c])
    BY DEF Lent
  <1>2. \A p : p \in Lent' <=> p \in Lent
    BY <1>1, InLent
  <1>3. Lent' = Lent
    BY <1>2
  <1>4. AreasSound => AreasSound'
    BY DEF AreasSound
  <1> QED
    BY <1>3, <1>4

LEMMA AllocMemInv ==
    ASSUME MemInv, AllocPtable
    PROVE  MemInv'
  <1> USE DEF AllocPtable, MemInv
  <1>0. /\ Slots = 0..(TabSize - 1) /\ TabSize \in Nat /\ Pieces \subseteq Nat \ {0}
        /\ CardIds \subseteq Nat
    BY MemAssumption DEF Slots, CardIds
  <1>1. PICK t \in Tables, S \in SUBSET High :
             /\ ptable' = t /\ htable' = S /\ taken' = Entries(t) \cup S
             /\ kernelFree' = kernelFree \ (Entries(t) \cup S)
    BY Zenon
  <1>2. t \in [Slots -> (Pieces \ High) \cup {0}] /\ Sorted(t)
    BY DEF Tables
  <1>3. Entries(t) \subseteq Pieces \ High /\ High \subseteq Pieces
    BY <1>2, MemAssumption DEF Entries
  <1>4. \A c \in CardIds : vaddr[c] = 0
    BY <1>0 DEF FoundInv
  <1>5. Lent = {} /\ Lent' = {}
    BY <1>4 DEF Lent
  <1>6. MemTypeOK'
    BY <1>1, <1>2, <1>3 DEF MemTypeOK, lendVars
  <1>7. TableInv'
    <2>1. Entries(ptable)' \subseteq taken' \ High
      BY <1>1, <1>3 DEF Entries
    <2>2. ASSUME NEW k \in Slots PROVE t[k] \in Nat
      <3>1. t[k] \in Pieces \/ t[k] = 0
        BY <1>2
      <3>2. CASE t[k] \in Pieces
        BY <1>0, <3>2
      <3>3. CASE t[k] = 0
        BY <3>3
      <3> QED
        BY <3>1, <3>2, <3>3
    <2> QED
      BY <1>0, <1>1, <1>2, <2>1, <2>2 DEF TableInv, Sorted
  <1>8. FoundInv' /\ RunInv' /\ LendInv' /\ LockInv' /\ MarkInv'
    BY <1>5 DEF FoundInv, RunInv, LendInv, LockInv, MarkInv, lendVars
  <1>9. AreasSound'
    BY <1>4 DEF AreasSound
  <1>10. Partition'
    <2>1. kernelFree = Pieces
      BY <1>5 DEF Partition
    <2>3. Entries(ptable)' = Entries(t)
      BY <1>1 DEF Entries
    <2> QED
      BY <1>1, <1>3, <1>5, <2>1, <2>3 DEF Partition
  <1> QED
    BY <1>6, <1>7, <1>8, <1>9, <1>10

\* A size that is worth trying has its half among the sizes.
LEMMA Halved ==
    /\ Sizes \subseteq Nat /\ MinSize \in Nat
    /\ \A n \in Sizes : n > MinSize => n \div 2 \in Sizes
BY MemAssumption

LEMMA TableStart == 0 \in Slots
BY MemAssumption DEF Slots

(***************************************************************************)
(* A failed search: only size[nac], cstart and i change, and card nac has  *)
(* no area yet.                                                            *)
(***************************************************************************)
LEMMA ShrinkMemInv ==
    ASSUME MemInv, pc \in {"find", "scan"}, Shrink,
           cstart' \in {0, cstart}, i' = i,
           UNCHANGED <<kernVars, ptable, htable, nac, vaddr, lendVars>>
    PROVE  MemInv'
  <1> USE DEF Shrink, MemInv, kernVars
  <1>0. nac \in CardIds /\ size[nac] \in Sizes /\ size[nac] > MinSize /\ vaddr[nac] = 0
    <2>1. nac \in CardIds /\ ~(nac < nac)
      BY MemAssumption DEF MemTypeOK, FoundInv, CardIds
    <2>2. size[nac] \in Sizes
      BY <2>1 DEF MemTypeOK
    <2>3. size[nac] > MinSize /\ vaddr[nac] = 0
      BY <2>1 DEF FoundInv
    <2> QED
      BY <2>1, <2>2, <2>3
  <1>1. size[nac] \div 2 \in Sizes /\ Sizes \subseteq Nat /\ MinSize \in Nat /\ 0 \in Slots
    <2>1. Sizes \subseteq Nat /\ MinSize \in Nat /\ size[nac] \div 2 \in Sizes
      BY <1>0, Halved
    <2>2. 0 \in Slots
      BY TableStart
    <2> QED
      BY <2>1, <2>2
  <1>2. \A c \in CardIds : vaddr[c] # 0 => size'[c] = size[c]
    BY <1>0 DEF MemTypeOK
  <1>3. Lent' = Lent /\ AreasSound'
    BY <1>2, SameAreas
  <1>4. MemTypeOK'
    BY <1>0, <1>1 DEF MemTypeOK, lendVars
  <1>5. pc' = "find" => size'[nac] > MinSize
    <2>1. size'[nac] = size[nac] \div 2
      BY <1>0 DEF MemTypeOK
    <2>2. PICK h \in Nat : h = size[nac] \div 2
      BY <1>1
    <2> QED
      BY <1>1, <2>1, <2>2
  <1>6. pc' \in {"find", "rest"}
    OBVIOUS
  <1>7. FoundInv'
    <2>1. nac \in Nat /\ CardIds \subseteq Nat
      BY <1>0, MemAssumption DEF CardIds
    <2>2. \A c \in CardIds : c > nac => size'[c] = size[c]
      BY <1>0, <2>1 DEF MemTypeOK
    <2> QED
      BY <1>2, <1>5, <1>6, <2>2 DEF FoundInv
  <1>8. TableInv' /\ RunInv' /\ LendInv' /\ LockInv'
    <2>1. \A u \in Units : held[u] = 0 /\ slot[u] = NoSlot
      BY DEF LendInv, LockInv
    <2> QED
      BY <1>6, <2>1 DEF TableInv, RunInv, LendInv, LockInv, lendVars, Entries
  <1>9. Partition' /\ MarkInv'
    BY <1>3, <1>6 DEF Partition, MarkInv, Entries
  <1> QED
    BY <1>3, <1>4, <1>6, <1>7, <1>8, <1>9

LEMMA FindMemInv ==
    ASSUME MemInv, FindBegin
    PROVE  MemInv'
  <1>1. CASE ptable[cstart] = 0
    BY <1>1, ShrinkMemInv DEF FindBegin, MemInv
  <1>2. CASE ptable[cstart] # 0
    <2> USE <1>2 DEF FindBegin, MemInv, kernVars
    <2>1. cstart \in Nat /\ cstart < TabSize /\ TabSize \in Nat
      BY MemAssumption DEF MemTypeOK, Slots
    <2>2. MemTypeOK'
      BY <2>1 DEF MemTypeOK, lendVars
    <2>3. Lent' = Lent /\ AreasSound'
      BY SameAreas
    <2>4. RunInv'
      <3>1. ptable' = ptable /\ cstart' = cstart /\ i' = cstart + 1
        OBVIOUS
      <3>2. ptable[cstart] \in Nat
        BY MemAssumption DEF MemTypeOK
      <3>3. \A k \in cstart..((cstart + 1) - 1) : k = cstart
        BY <2>1
      <3> QED
        BY <2>1, <3>1, <3>2, <3>3 DEF RunInv
    <2>5. TableInv' /\ FoundInv' /\ LendInv' /\ LockInv' /\ MarkInv' /\ Partition'
      BY <2>3 DEF TableInv, FoundInv, LendInv, LockInv, MarkInv, lendVars, Entries, Partition
    <2> QED
      BY <2>2, <2>3, <2>4, <2>5
  <1> QED
    BY <1>1, <1>2

LEMMA NextMemInv ==
    ASSUME MemInv, ScanNext
    PROVE  MemInv'
  <1> USE DEF ScanNext, MemInv, kernVars
  <1>0. /\ cstart \in Slots /\ i \in Slots /\ cstart < i
        /\ Slots = 0..(TabSize - 1) /\ TabSize \in Nat
        /\ \A k \in Slots : ptable[k] \in Nat
    <2>1. /\ Slots = 0..(TabSize - 1) /\ TabSize \in Nat /\ Pieces \subseteq Nat
      BY MemAssumption DEF Slots
    <2>2. cstart \in Slots /\ i \in 0..TabSize /\ i < TabSize /\ cstart < i
      BY DEF MemTypeOK, RunInv
    <2>4. i \in Slots
      BY <2>1, <2>2
    <2>5. \A k \in Slots : ptable[k] \in Nat
      BY TableNat
    <2> QED
      BY <2>1, <2>2, <2>4, <2>5
  <1>1. MemTypeOK'
    BY <1>0 DEF MemTypeOK, lendVars
  <1>2. Lent' = Lent /\ AreasSound'
    BY SameAreas
  <1>3. RunInv'
    <2>1. CASE ptable[i - 1] - ptable[i] # 1
      <3>1. cstart' = i /\ i' = i + 1 /\ ptable' = ptable /\ ptable[i] # 0
        BY <2>1
      <3>2. i..((i + 1) - 1) = {i} /\ i < i + 1 /\ i - i = 0
        BY <1>0
      <3>3. ptable[i] = ptable[i] - (i - i)
        BY <1>0, <3>2
      <3> HIDE DEF ScanNext, MemInv
      <3> QED
        BY <3>1, <3>2, <3>3 DEF RunInv
    <2>2. CASE ptable[i - 1] - ptable[i] = 1
      <3>1. /\ cstart' = cstart /\ i' = i + 1 /\ ptable' = ptable /\ ptable[i] # 0
            /\ RunInv /\ pc = "scan"
        BY <2>2
      <3> HIDE DEF ScanNext, MemInv
      <3>2. ptable[i - 1] = ptable[cstart] - ((i - 1) - cstart)
        BY <1>0, <3>1 DEF RunInv
      <3>3. ptable[i] = ptable[cstart] - (i - cstart)
        BY <1>0, <2>2, <3>2
      <3>4. ASSUME NEW k \in cstart..((i + 1) - 1)
            PROVE  ptable[k] # 0 /\ ptable[k] = ptable[cstart] - (k - cstart)
        <4>1. k = i \/ k \in cstart..(i - 1)
          BY <1>0
        <4> QED
          BY <3>1, <3>3, <4>1 DEF RunInv
      <3> QED
        BY <1>0, <3>1, <3>4 DEF RunInv
    <2> QED
      BY <2>1, <2>2
  <1>4. TableInv' /\ FoundInv' /\ LendInv' /\ LockInv' /\ MarkInv' /\ Partition'
    BY <1>2 DEF TableInv, FoundInv, LendInv, LockInv, MarkInv, lendVars, Entries, Partition
  <1> QED
    BY <1>1, <1>2, <1>3, <1>4

LEMMA FailMemInv ==
    ASSUME MemInv, ScanFail
    PROVE  MemInv'
  <1>1. cstart' \in {0, cstart}
    BY DEF ScanFail
  <1> QED
    BY <1>1, ShrinkMemInv DEF ScanFail, MemInv

\* Blocks that are not marked all go back, and once if none was free.
LEMMA GivenBack ==
    ASSUME NEW S, NEW marked, GiveBack(S, marked), S \cap marked = {},
           S \cap kernelFree = {}, twice = {}
    PROVE  kernelFree' = kernelFree \cup S /\ twice' = {}
  BY DEF GiveBack

LEMMA FreePtMemInv ==
    ASSUME MemInv, FreePtable
    PROVE  MemInv'
  <1> USE DEF FreePtable, MemInv
  <1>1. Entries(ptable)' = {} /\ htable' = {}
    BY DEF Entries
  <1>2. High \subseteq Pieces /\ Entries(ptable) \cup htable \subseteq Pieces
    <2>1. High \subseteq Pieces
      BY MemAssumption
    <2>2. Entries(ptable) \subseteq Pieces
      BY DEF MemTypeOK, Entries
    <2>3. htable \subseteq High
      BY DEF MemTypeOK
    <2> QED
      BY <2>1, <2>2, <2>3
  <1>3. kernelFree' = kernelFree \cup (Entries(ptable) \cup htable) /\ twice' = {}
    <2>1. /\ (Entries(ptable) \cup htable) \cap reserved = {}
          /\ (Entries(ptable) \cup htable) \cap kernelFree = {}
      BY DEF Partition, MarkInv
    <2> QED
      BY <2>1, GivenBack
  <1>4. Lent' = Lent /\ AreasSound'
    BY SameAreas
  <1>5. MemTypeOK'
    BY <1>1, <1>2, <1>3 DEF MemTypeOK, lendVars
  <1>6. TableInv' /\ RunInv' /\ FoundInv' /\ LendInv' /\ LockInv' /\ MarkInv'
    BY <1>1, <1>4 DEF TableInv, RunInv, FoundInv, LendInv, LockInv, MarkInv, lendVars
  <1>7. Partition'
    BY <1>1, <1>3, <1>4 DEF Partition
  <1> QED
    BY <1>1, <1>3, <1>4, <1>5, <1>6, <1>7

LEMMA ExitMemInv ==
    ASSUME MemInv, Exit
    PROVE  MemInv'
  <1> USE DEF Exit, MemInv, findVars
  <1>1. Lent' = Lent /\ AreasSound'
    BY SameAreas
  <1>2. Lent \subseteq Pieces /\ Lent \cap kernelFree = {}
    BY DEF Partition, Lent, Area
  <1>3. kernelFree' = kernelFree \cup Lent /\ twice' = {}
    BY <1>2, GivenBack
  <1>4. MemTypeOK'
    BY <1>2, <1>3 DEF MemTypeOK, lendVars
  <1>5. Entries(ptable)' = Entries(ptable)
    BY DEF Entries
  <1>6. TableInv' /\ RunInv' /\ FoundInv' /\ LendInv' /\ LockInv' /\ MarkInv'
    BY <1>5 DEF TableInv, RunInv, FoundInv, LendInv, LockInv, MarkInv, lendVars
  <1>7. Partition'
    BY <1>1, <1>3, <1>5 DEF Partition
  <1> QED
    BY <1>1, <1>3, <1>4, <1>5, <1>6, <1>7

\* Areas that do not overlap start at different blocks.
LEMMA Distinct ==
    ASSUME MemInv, NEW c \in CardIds, NEW d \in CardIds,
           vaddr[c] # 0, vaddr[c] = vaddr[d]
    PROVE  c = d
  <1> USE DEF MemInv
  <1>1. vaddr[c] \in Pieces /\ vaddr[d] \in Pieces
    BY DEF MemTypeOK
  <1>2. size[c] \in Nat /\ size[d] \in Nat /\ size[c] > 0 /\ size[d] > 0
    <2>1. size[c] \in Nat /\ size[d] \in Nat /\ MinSize \in Nat
      BY MemAssumption DEF MemTypeOK
    <2>2. size[c] > MinSize /\ size[d] > MinSize
      BY DEF FoundInv
    <2> QED
      BY <2>1, <2>2
  <1>3. vaddr[c] \in Area(vaddr[c], size[c]) /\ vaddr[d] \in Area(vaddr[d], size[d])
    BY <1>1, <1>2, AreaFirst
  <1> QED
    BY <1>3 DEF AreasSound

(***************************************************************************)
(* nac_mem_malloc and nac_mem_free leave the table and the areas alone.    *)
(***************************************************************************)
LEMMA SameTable ==
    ASSUME MemInv, UNCHANGED <<kernVars, findVars, pc>>
    PROVE  /\ TableInv' /\ RunInv' /\ FoundInv' /\ AreasSound' /\ Partition' /\ MarkInv'
           /\ twice' = {}
           /\ pc' = "alloc" => nac' = 0
           /\ pc' \in {"alloc", "ready", "gone"} => Entries(ptable)' = {} /\ htable' = {}
  <1> USE DEF MemInv, kernVars, findVars
  <1>1. Lent' = Lent /\ AreasSound'
    BY SameAreas
  <1>2. Entries(ptable)' = Entries(ptable)
    BY DEF Entries
  <1> QED
    BY <1>1, <1>2 DEF TableInv, RunInv, FoundInv, Partition, MarkInv

\* The lock is free, so nobody is inside nac_mem_malloc.
LEMMA NobodyInside ==
    ASSUME LockInv, lock = NoUnit
    PROVE  \A v \in Units : slot[v] = NoSlot
  BY MemAssumption DEF LockInv

LEMMA MallocFindMemInv ==
    ASSUME MemInv, NEW u \in Units, NEW n \in Asks, MallocFind(u, n)
    PROVE  MemInv'
  <1> USE DEF MallocFind, MemInv
  <1>1. PICK c \in 0..Cards : Idle(c) /\ slot' = [slot EXCEPT ![u] = c]
    OBVIOUS
  <1>2. /\ n \in Nat /\ Cards \in Nat /\ CardIds = 0..(Cards - 1)
        /\ slot \in [Units -> -1..Cards] /\ msize \in [Units -> Nat]
    BY MemAssumption DEF MemTypeOK, CardIds
  <1>3. MemTypeOK'
    <2>1. slot' \in [Units -> -1..Cards] /\ msize' \in [Units -> Nat]
      BY <1>1, <1>2
    <2> QED
      BY <2>1 DEF MemTypeOK, kernVars, findVars
  <1>4. LendInv'
    <2>1. \A v \in Units : held[v] # 0 => msize'[v] = msize[v]
      BY <1>2
    <2> QED
      BY <2>1 DEF LendInv, findVars
  <1>5. LockInv'
    <2>1. \A v \in Units \ {u} : slot'[v] = NoSlot
      BY <1>1, <1>2, NobodyInside
    <2>2. slot'[u] = c /\ (c \in CardIds => inuse[c] = 0)
      BY <1>1, <1>2 DEF Idle
    <2> QED
      BY <2>1, <2>2 DEF LockInv
  <1> QED
    BY <1>3, <1>4, <1>5, SameTable

\* What a unit is told it has is no more than the area.
LEMMA GrantedFits ==
    ASSUME NEW n \in Nat, NEW c, size[c] \in Nat
    PROVE  Granted(n, c) \in Nat /\ Granted(n, c) <= size[c]
  BY DEF Granted

LEMMA MallocTakeMemInv ==
    ASSUME MemInv, NEW u \in Units, MallocTake(u)
    PROVE  MemInv'
  <1> DEFINE c == slot[u]
  <1> USE DEF MallocTake, MemInv
  <1>0. /\ held \in [Units -> Pieces \cup {0}] /\ inuse \in [CardIds -> Int]
        /\ msize \in [Units -> Nat] /\ slot \in [Units -> -1..Cards]
        /\ c # NoSlot /\ lock = u /\ held[u] = 0
        /\ \A v \in Units \ {u} : slot[v] = NoSlot
    BY DEF MemTypeOK, LockInv
  <1>1. /\ slot' \in [Units -> -1..Cards]
        /\ \A v \in Units : slot'[v] = NoSlot
    <2>1. slot' = [slot EXCEPT ![u] = NoSlot]
      OBVIOUS
    <2>2. NoSlot \in -1..Cards
      BY MemAssumption DEF NoSlot
    <2> QED
      BY <1>0, <2>1, <2>2
  <1>2. LockInv'
    BY <1>1 DEF LockInv
  <1>3. CASE c = Cards /\ UNCHANGED <<msize, held, inuse>>
    <2>1. MemTypeOK'
      BY <1>1, <1>3 DEF MemTypeOK, kernVars, findVars
    <2>2. LendInv'
      BY <1>3 DEF LendInv, findVars
    <2> QED
      BY <1>2, <2>1, <2>2, SameTable
  <1>4. CASE /\ c \in CardIds
             /\ msize' = [msize EXCEPT ![u] = Granted(@, c)]
             /\ held' = [held EXCEPT ![u] = vaddr[c]]
             /\ inuse' = [inuse EXCEPT ![c] = IF vaddr[c] = 0 THEN @ ELSE @ + 1]
    <2>1. /\ inuse[c] = 0 /\ vaddr[c] \in Pieces \cup {0} /\ size[c] \in Nat
          /\ vaddr' = vaddr /\ size' = size /\ pc' = pc /\ pc = "ready"
      BY <1>0, <1>4, MemAssumption DEF MemTypeOK, LockInv, findVars
    <2>2. Granted(msize[u], c) \in Nat /\ Granted(msize[u], c) <= size[c]
      BY <1>0, <2>1, GrantedFits
    <2> HIDE DEF c
    <2>3. /\ msize' \in [Units -> Nat] /\ held' \in [Units -> Pieces \cup {0}]
          /\ inuse' \in [CardIds -> Int]
      BY <1>0, <1>4, <2>1, <2>2
    <2>4. MemTypeOK'
      BY <1>1, <2>3 DEF MemTypeOK, kernVars, findVars
    <2>5. \A v \in Units : held[v] # 0 => held[v] # vaddr[c]
      BY <1>4, <2>1, Distinct DEF LendInv
    <2>6. /\ held'[u] = vaddr[c] /\ msize'[u] <= size[c]
          /\ vaddr[c] # 0 => inuse'[c] = 1
          /\ \A d \in CardIds \ {c} : inuse'[d] = inuse[d]
          /\ \A v \in Units \ {u} : held'[v] = held[v] /\ msize'[v] = msize[v]
      BY <1>0, <1>4, <2>1, <2>2
    <2>7. ASSUME NEW v \in Units, held'[v] # 0
          PROVE  \E d \in CardIds :
                   vaddr[d] = held'[v] /\ inuse'[d] = 1 /\ msize'[v] <= size[d]
      <3>1. CASE v = u
        BY <1>4, <2>6, <2>7, <3>1
      <3>2. CASE v # u
        <4>1. held[v] # 0 /\ held'[v] = held[v] /\ msize'[v] = msize[v]
          BY <2>6, <2>7, <3>2
        <4>2. PICK d \in CardIds : vaddr[d] = held[v] /\ inuse[d] = 1 /\ msize[v] <= size[d]
          BY <4>1 DEF LendInv
        <4>3. d # c
          BY <2>5, <4>1, <4>2
        <4> QED
          BY <2>6, <4>1, <4>2, <4>3
      <3> QED
        BY <3>1, <3>2
    <2>8. \A v, w \in Units : v # w /\ held'[v] # 0 => held'[v] # held'[w]
      BY <1>0, <2>5, <2>6 DEF LendInv
    <2>9. LendInv'
      BY <2>1, <2>7, <2>8 DEF LendInv
    <2> QED
      BY <1>2, <2>4, <2>9, SameTable
  <1> QED
    BY <1>3, <1>4

LEMMA FreeMemInv ==
    ASSUME MemInv, NEW u \in Units, Free(u)
    PROVE  MemInv'
  <1> USE DEF Free, MemInv
  <1>1. PICK c \in CardIds : /\ vaddr[c] = held[u]
                             /\ held' = [held EXCEPT ![u] = 0]
                             /\ inuse' = [inuse EXCEPT ![c] = @ - 1]
    OBVIOUS
  <1>2. held \in [Units -> Pieces \cup {0}] /\ inuse \in [CardIds -> Int]
    BY DEF MemTypeOK
  <1>3. MemTypeOK'
    <2>1. held' \in [Units -> Pieces \cup {0}] /\ inuse' \in [CardIds -> Int]
      BY <1>1, <1>2
    <2> QED
      BY <2>1 DEF MemTypeOK, kernVars, findVars
  <1>4. LockInv'
    BY NobodyInside DEF LockInv
  <1>5. LendInv'
    <2>1. \A d \in CardIds \ {c} : inuse'[d] = inuse[d]
      BY <1>1, <1>2
    <2>2. ASSUME NEW v \in Units, held'[v] # 0
          PROVE  \E d \in CardIds :
                   vaddr[d] = held'[v] /\ inuse'[d] = 1 /\ msize[v] <= size[d]
      <3>1. v # u /\ held'[v] = held[v]
        BY <1>1, <1>2, <2>2
      <3>2. held[v] # held[u]
        BY <2>2, <3>1 DEF LendInv
      <3> QED
        BY <1>1, <2>1, <2>2, <3>1, <3>2 DEF LendInv
    <2>3. \A v, w \in Units : v # w /\ held'[v] # 0 => held'[v] # held'[w]
      BY <1>1, <1>2 DEF LendInv
    <2> QED
      BY <2>2, <2>3 DEF LendInv, findVars
  <1> QED
    BY <1>3, <1>4, <1>5, SameTable

(***************************************************************************)
(* The area found is exactly what the used slots hold.  Slots cstart..i-1  *)
(* are one run, so the last q of them hold a, a+1, ..., a+q-1 upside down, *)
(* where a is the block in slot i-1 and q the number of blocks wanted.     *)
(***************************************************************************)
LEMMA FoundArea ==
    ASSUME MemInv, WholeBlocks, ScanFound
    PROVE  /\ Area(ptable[i - 1], size[nac]) = {ptable[k] : k \in UsedSlots}
           /\ \A k \in 0..((size[nac] - 1) \div Piece) :
                ptable[i - 1] + k \in {ptable[j] : j \in UsedSlots}
           /\ UsedSlots \subseteq cstart..(i - 1)
           /\ nac \in CardIds /\ i \in Slots /\ i - 1 \in Slots /\ i - 1 \in UsedSlots
  <1>0. /\ MemTypeOK /\ RunInv /\ FoundInv
        /\ pc = "scan" /\ i < TabSize /\ (i - cstart) * Piece >= size[nac]
    BY DEF MemInv, ScanFound, Fits
  <1>1. nac \in CardIds /\ size[nac] \in Sizes /\ size[nac] > MinSize
    <2>1. nac \in 0..Cards /\ nac < Cards /\ Cards \in Nat
      BY <1>0, MemAssumption DEF MemTypeOK, FoundInv
    <2>2. nac \in CardIds
      BY <2>1 DEF CardIds
    <2> QED
      BY <1>0, <2>2 DEF MemTypeOK, FoundInv
  <1>2. PICK q \in Nat \ {0} : /\ q = size[nac] \div Piece /\ size[nac] = q * Piece
                               /\ (size[nac] - 1) \div Piece = q - 1
    BY <1>1, Whole
  <1>3. /\ cstart \in Nat /\ i \in Nat /\ cstart < i /\ i < TabSize /\ TabSize \in Nat
        /\ Slots = 0..(TabSize - 1)
    BY <1>0, MemAssumption DEF MemTypeOK, RunInv, Slots
  <1>4. i - cstart >= q
    BY <1>0, <1>2, <1>3, Scale
  <1>5. UsedSlots = (i - q)..(i - 1) /\ UsedSlots \subseteq cstart..(i - 1) /\ i - 1 \in UsedSlots
    BY <1>2, <1>3, <1>4 DEF UsedSlots
  <1>6. PICK a \in Nat : a = ptable[i - 1]
    BY <1>0, <1>3, TableNat
  <1>7. \A k \in UsedSlots : ptable[k] \in Pieces /\ ptable[k] = a + ((i - 1) - k)
    <2>1. PICK z \in Nat : z = ptable[cstart]
      BY <1>0, <1>3, TableNat
    <2>2. \A k \in cstart..(i - 1) : ptable[k] # 0 /\ ptable[k] = z - (k - cstart)
      BY <1>0, <2>1 DEF RunInv
    <2>3. a = z - ((i - 1) - cstart)
      BY <1>3, <1>6, <2>2
    <2>4. \A k \in cstart..(i - 1) : k \in Slots /\ z - (k - cstart) = a + ((i - 1) - k)
      BY <1>3, <2>1, <2>3
    <2>5. \A k \in Slots : ptable[k] \in Pieces \cup {0}
      BY <1>0 DEF MemTypeOK
    <2> QED
      BY <1>5, <2>2, <2>4, <2>5
  <1>8. ASSUME NEW d \in 0..(q - 1)
        PROVE  a + d \in {ptable[j] : j \in UsedSlots}
    <2>1. (i - 1) - d \in UsedSlots /\ (i - 1) - ((i - 1) - d) = d
      BY <1>3, <1>5
    <2>2. ptable[(i - 1) - d] = a + d
      BY <1>7, <2>1
    <2> QED
      BY <2>1, <2>2
  <1>9. Area(a, size[nac]) = {p \in Pieces : a <= p /\ p < a + q}
    BY <1>1, <1>2, AreaRun
  <1>10. ASSUME NEW p \in Area(a, size[nac])
         PROVE  p \in {ptable[j] : j \in UsedSlots}
    <2>1. p \in Nat /\ a <= p /\ p < a + q
      BY <1>9, MemAssumption
    <2>2. p - a \in 0..(q - 1) /\ p = a + (p - a)
      BY <2>1
    <2> QED
      BY <1>8, <2>2
  <1>11. ASSUME NEW k \in UsedSlots
         PROVE  ptable[k] \in Area(a, size[nac])
    <2>1. (i - 1) - k \in 0..(q - 1)
      BY <1>3, <1>5
    <2>2. a <= a + ((i - 1) - k) /\ a + ((i - 1) - k) < a + q
      BY <2>1
    <2> QED
      BY <1>7, <1>9, <2>2
  <1>12. Area(a, size[nac]) = {ptable[k] : k \in UsedSlots}
    BY <1>10, <1>11
  <1>13. i \in Slots /\ i - 1 \in Slots
    BY <1>3
  <1> QED
    BY <1>1, <1>2, <1>5, <1>6, <1>8, <1>12, <1>13

LEMMA FoundMemInv ==
    ASSUME MemInv, WholeBlocks, ScanFound
    PROVE  MemInv'
  <1> DEFINE a == ptable[i - 1]
             new == Area(a, size[nac])
             used == UsedSlots
  <1>0. /\ MemTypeOK /\ TableInv /\ RunInv /\ FoundInv /\ AreasSound /\ Partition
        /\ MarkInv /\ LendInv /\ LockInv /\ twice = {}
    BY DEF MemInv
  <1>1. /\ pc = "scan" /\ Aligned(a)
        /\ vaddr' = [vaddr EXCEPT ![nac] = a]
        /\ ptable' = [k \in Slots |-> IF k \in used THEN 0 ELSE ptable[k]]
        /\ cstart' = i /\ nac' = nac + 1
        /\ reserved' = reserved \cup new
        /\ pc' \in {"rest", "find"} /\ (pc' = "find" => nac + 1 # Cards)
        /\ UNCHANGED <<kernelFree, taken, twice, htable, i, size, lendVars>>
    BY DEF ScanFound, Fits, MarkReserved
  <1>2. /\ new = {ptable[k] : k \in used}
        /\ \A k \in 0..((size[nac] - 1) \div Piece) : a + k \in {ptable[j] : j \in used}
        /\ used \subseteq cstart..(i - 1) /\ used \subseteq Slots
        /\ nac \in CardIds /\ i \in Slots /\ i - 1 \in Slots /\ i - 1 \in used
    BY FoundArea DEF UsedSlots
  <1> HIDE DEF used
  <1>3. \A k \in used : ptable[k] # 0
    BY <1>0, <1>1, <1>2 DEF RunInv
  <1>4. /\ Slots \subseteq Nat /\ CardIds = 0..(Cards - 1) /\ Cards \in Nat
        /\ nac \in Nat /\ nac < Cards
    BY <1>2, MemAssumption DEF Slots, CardIds
  <1>5. a \in Pieces /\ a # 0
    BY <1>0, <1>2, <1>3 DEF MemTypeOK
  <1>6. new \subseteq Entries(ptable)
    BY <1>2, <1>3 DEF Entries
  <1>7. \A j, k \in Slots : ptable[j] = ptable[k] /\ ptable[j] # 0 => j = k
    <2>1. \A k \in Slots : ptable[k] \in Nat
      BY <1>0, TableNat
    <2> QED
      BY <1>0, <1>4, <2>1 DEF TableInv
  <1>8. Entries(ptable)' = Entries(ptable) \ new
    BY <1>1, <1>2, <1>7 DEF Entries
  <1>9. vaddr[nac] = 0
    BY <1>0, <1>2, <1>4 DEF FoundInv
  <1>10. vaddr'[nac] = a /\ \A c \in CardIds \ {nac} : vaddr'[c] = vaddr[c]
    BY <1>0, <1>1, <1>2 DEF MemTypeOK
  <1>11. Lent' = Lent \cup new
    <2>1. \A p : p \in Lent' <=>
                 \E c \in CardIds : vaddr'[c] # 0 /\ p \in Area(vaddr'[c], size[c])
      BY <1>1 DEF Lent
    <2>2. \A p : p \in Lent' <=> p \in Lent \/ p \in new
      BY <1>2, <1>5, <1>9, <1>10, <2>1, InLent
    <2> QED
      BY <2>2
  <1>12. MemTypeOK'
    <2>1. vaddr' \in [CardIds -> Pieces \cup {0}]
      BY <1>0, <1>1, <1>5 DEF MemTypeOK
    <2>2. ptable' \in [Slots -> (Pieces \ High) \cup {0}]
      BY <1>0, <1>1 DEF MemTypeOK
    <2>4. reserved' \subseteq Pieces
      BY <1>0, <1>1 DEF MemTypeOK, Area
    <2>3. nac' \in 0..Cards
      BY <1>1, <1>4
    <2> QED
      BY <1>0, <1>1, <1>2, <2>1, <2>2, <2>3, <2>4 DEF MemTypeOK, lendVars
  <1>13. TableInv'
    <2>1. \A k \in Slots : ptable'[k] # 0 => ptable'[k] = ptable[k]
      BY <1>1
    <2> QED
      BY <1>0, <1>1, <1>8, <2>1 DEF TableInv
  <1>14. RunInv' /\ LendInv' /\ LockInv' /\ MarkInv'
    <2>1. \A u \in Units : held[u] = 0 /\ slot[u] = NoSlot
      BY <1>0, <1>1 DEF LendInv, LockInv
    <2>2. MarkInv'
      BY <1>0, <1>1, <1>11 DEF MarkInv
    <2> QED
      BY <1>1, <2>1, <2>2 DEF RunInv, LendInv, LockInv, lendVars
  <1>15. FoundInv'
    <2>1. ASSUME NEW c \in CardIds, vaddr'[c] # 0
          PROVE  c < nac + 1 /\ size[c] > MinSize
      <3>1. c \in Nat
        BY <1>4
      <3>2. CASE c = nac
        BY <1>0, <1>1, <1>4, <3>2 DEF FoundInv
      <3>3. CASE c # nac
        BY <1>0, <1>4, <1>10, <2>1, <3>1, <3>3 DEF FoundInv
      <3> QED
        BY <3>2, <3>3
    <2>2. nac + 1 # Cards => nac + 1 \in CardIds /\ nac + 1 < Cards /\ nac + 1 > nac
      BY <1>4
    <2>3. pc' = "find" => nac + 1 < Cards /\ size[nac + 1] > MinSize
      BY <1>0, <1>1, <2>2 DEF FoundInv
    <2>4. \A c \in CardIds : c > nac + 1 => c > nac
      BY <1>4
    <2> QED
      BY <1>0, <1>1, <2>1, <2>3, <2>4 DEF FoundInv
  <1>16. Partition'
    BY <1>0, <1>1, <1>6, <1>8, <1>11 DEF Partition
  <1>17. AreasSound'
    <2>1. new \cap Lent = {}
      BY <1>0, <1>6 DEF Partition
    <2>2. \A k \in 0..((size[nac] - 1) \div Piece) : a + k \in taken \ High
      BY <1>0, <1>2, <1>6 DEF TableInv
    <2>3. \A c \in CardIds : vaddr[c] # 0 => Area(vaddr[c], size[c]) \subseteq Lent
      BY InLent
    <2> HIDE DEF a, new
    <2>4. new = Area(a, size[nac])
      BY DEF new
    <2>5. ASSUME NEW c \in CardIds, vaddr'[c] # 0
          PROVE  /\ Aligned(vaddr'[c])
                 /\ \A k \in 0..((size[c] - 1) \div Piece) : vaddr'[c] + k \in taken \ High
                 /\ \A d \in CardIds \ {c} : vaddr'[d] # 0 =>
                      Area(vaddr'[c], size[c]) \cap Area(vaddr'[d], size[d]) = {}
      <3>1. CASE c = nac
        <4>1. ASSUME NEW d \in CardIds \ {c}, vaddr'[d] # 0
              PROVE  new \cap Area(vaddr'[d], size[d]) = {}
          <5>1. vaddr'[d] = vaddr[d]
            BY <1>10, <3>1
          <5> QED
            BY <2>1, <2>3, <4>1, <5>1
        <4> QED
          BY <1>1, <1>10, <2>2, <2>4, <3>1, <4>1
      <3>2. CASE c # nac
        <4>0. vaddr'[c] = vaddr[c]
          BY <1>10, <3>2
        <4>1. ASSUME NEW d \in CardIds \ {c}, vaddr'[d] # 0
              PROVE  Area(vaddr[c], size[c]) \cap Area(vaddr'[d], size[d]) = {}
          <5>1. CASE d = nac
            BY <1>10, <2>1, <2>3, <2>4, <2>5, <4>0, <5>1
          <5>2. CASE d # nac
            <6>1. vaddr'[d] = vaddr[d]
              BY <1>10, <5>2
            <6> QED
              BY <1>0, <2>5, <4>0, <4>1, <6>1 DEF AreasSound
          <5> QED
            BY <5>1, <5>2
        <4> QED
          BY <1>0, <2>5, <4>0, <4>1 DEF AreasSound
      <3> QED
        BY <3>1, <3>2
    <2> QED
      BY <1>1, <2>5 DEF AreasSound
  <1> QED
    BY <1>0, <1>1, <1>12, <1>13, <1>14, <1>15, <1>16, <1>17 DEF MemInv

(***************************************************************************)
(* The invariant holds throughout, and with it what the runs check.        *)
(***************************************************************************)
LEMMA StepMemInv ==
    ASSUME WholeBlocks, MemInv, [MemNext]_memVars
    PROVE  MemInv'
  <1>1. CASE UNCHANGED memVars
    <2>1. UNCHANGED <<kernVars, findVars, lendVars, pc>>
      BY <1>1 DEF memVars
    <2>2. MemTypeOK' /\ LendInv' /\ LockInv'
      BY <2>1 DEF MemInv, MemTypeOK, LendInv, LockInv, kernVars, findVars, lendVars
    <2> QED
      BY <2>1, <2>2, SameTable DEF MemInv
  <1>2. CASE \E u \in Units, n \in Asks : MallocFind(u, n)
    BY <1>2, MallocFindMemInv
  <1>3. CASE \E u \in Units : MallocTake(u)
    BY <1>3, MallocTakeMemInv
  <1>4. CASE \E u \in Units : Free(u)
    BY <1>4, FreeMemInv
  <1> QED
    BY <1>1, <1>2, <1>3, <1>4, AllocMemInv, FindMemInv, FoundMemInv, NextMemInv,
       FailMemInv, FreePtMemInv, ExitMemInv DEF MemNext

(***************************************************************************)
(* Every variable keeps its type: in particular the search never leaves    *)
(* the table and halving never leads to a size that nobody tries.          *)
(***************************************************************************)
THEOREM MemTypes ==
    ASSUME WholeBlocks
    PROVE  MemSpec => []MemTypeOK
  <1>1. MemInv => MemTypeOK
    BY DEF MemInv
  <1> QED
    BY InitMemInv, StepMemInv, <1>1, PTL DEF MemSpec

(***************************************************************************)
(* The areas nac_mem_findcontig finds are whole, aligned runs of blocks    *)
(* taken from the kernel, and no two cards share a block.                  *)
(***************************************************************************)
THEOREM MemAreasSound ==
    ASSUME WholeBlocks
    PROVE  MemSpec => []AreasSound
  <1>1. MemInv => AreasSound
    BY DEF MemInv
  <1> QED
    BY InitMemInv, StepMemInv, <1>1, PTL DEF MemSpec

(***************************************************************************)
(* nac_mem_free_ptable frees no block of a card's area, and all of them    *)
(* stay marked as reserved.                                                *)
(***************************************************************************)
THEOREM MemAreasKept ==
    ASSUME WholeBlocks
    PROVE  MemSpec => []AreasKept
  <1>1. MemInv => AreasKept
    BY DEF MemInv, Partition, MarkInv, AreasKept
  <1> QED
    BY InitMemInv, StepMemInv, <1>1, PTL DEF MemSpec

\* A part of an area that starts where it does is inside it.
LEMMA AreaPart ==
    ASSUME NEW a \in Nat, NEW m \in Nat, NEW n \in Nat, m <= n
    PROVE  Area(a, m) \subseteq Area(a, n)
  <1>1. ASSUME NEW p \in Area(a, m) PROVE p \in Area(a, n)
    <2>1. p \in Pieces /\ p \in Nat /\ a <= p /\ (p - a) * Piece < m
      BY MemAssumption DEF Area
    <2>2. (p - a) * Piece \in Int
      BY <2>1, MemAssumption
    <2>3. (p - a) * Piece < n
      BY <2>1, <2>2
    <2> QED
      BY <2>1, <2>3 DEF Area
  <1> QED
    BY <1>1

(***************************************************************************)
(* What nac_mem_malloc tells two units they have does not overlap, however *)
(* their calls and those of nac_mem_free are interleaved.                  *)
(***************************************************************************)
THEOREM MemLentOnce ==
    ASSUME WholeBlocks
    PROVE  MemSpec => []LentOnce
  <1>1. MemInv => LentOnce
    <2>1. SUFFICES ASSUME MemInv, NEW u \in Units, NEW v \in Units,
                          u # v, held[u] # 0, held[v] # 0
                   PROVE  Area(held[u], msize[u]) \cap Area(held[v], msize[v]) = {}
      BY DEF LentOnce
    <2>2. PICK c \in CardIds : vaddr[c] = held[u] /\ msize[u] <= size[c]
      BY <2>1 DEF MemInv, LendInv
    <2>3. PICK d \in CardIds : vaddr[d] = held[v] /\ msize[v] <= size[d]
      BY <2>1 DEF MemInv, LendInv
    <2>4. c # d
      BY <2>1, <2>2, <2>3 DEF MemInv, LendInv
    <2>5. Area(vaddr[c], size[c]) \cap Area(vaddr[d], size[d]) = {}
      BY <2>1, <2>2, <2>3, <2>4 DEF MemInv, AreasSound
    <2>6. /\ held[u] \in Nat /\ held[v] \in Nat /\ msize[u] \in Nat /\ msize[v] \in Nat
          /\ size[c] \in Nat /\ size[d] \in Nat
      <3>1. Pieces \subseteq Nat /\ Sizes \subseteq Nat
        BY MemAssumption
      <3> QED
        BY <2>1, <3>1 DEF MemInv, MemTypeOK
    <2>7. /\ Area(held[u], msize[u]) \subseteq Area(vaddr[c], size[c])
          /\ Area(held[v], msize[v]) \subseteq Area(vaddr[d], size[d])
      BY <2>2, <2>3, <2>6, AreaPart
    <2> QED
      BY <2>5, <2>7
  <1> QED
    BY InitMemInv, StepMemInv, <1>1, PTL DEF MemSpec

(***************************************************************************)
(* No block is freed twice, and nac_mem_exit leaves none behind.           *)
(***************************************************************************)
THEOREM MemNothingLost ==
    ASSUME WholeBlocks
    PROVE  MemSpec => []NothingLost
  <1>1. MemInv => NothingLost
    <2>1. ASSUME MemInv, pc = "gone" PROVE kernelFree = Pieces
      BY <2>1 DEF MemInv, Partition, MemTypeOK
    <2> QED
      BY <2>1 DEF MemInv, NothingLost
  <1> QED
    BY InitMemInv, StepMemInv, <1>1, PTL DEF MemSpec

=============================================================================
