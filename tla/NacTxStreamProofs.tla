------------------------- MODULE NacTxStreamProofs -------------------------
(***************************************************************************)
(* Proofs about NacTxStream for every ring, margin and sequence of calls.  *)
(***************************************************************************)
EXTENDS NacTxStream, TLAPS

\* The path a client takes decides most cases below.
USE DEF Copies

\* What a byte's distance from offset says about its cell.
LEMMA CellBack ==
    ASSUME NEW o \in 0..Size, NEW d \in 1..Size
    PROVE  /\ Cell(o - d) \in 0..(Size - 1)
           /\ Cell(Cell(o - d) - o) = Size - d
BY TxAssumption DEF Cell

LEMMA CellAhead ==
    ASSUME NEW o \in 0..Size, NEW j \in 0..(Size - 1)
    PROVE  /\ Cell(o + j) \in 0..(Size - 1)
           /\ Cell(Cell(o + j) - o) = j
BY TxAssumption DEF Cell

\* A card that may send has something to send.
LEMMA SomethingPending ==
    ASSUME TxInv, rec # limit
    PROVE  queued - sent >= 1
BY TxAssumption DEF TxInv, TxTypeOK, NothingUncommittedSent, Paths, Pointers, SendPhase

\* free_space is worked out exactly.
LEMMA SpaceExact ==
    ASSUME TxInv
    PROVE  /\ Space(rec, offset) = Size - (queued - sent)
           /\ queued - sent <= Size - Safety =>
                CopySpace(rec, offset) = Size - Safety - (queued - sent)
<1> USE TxAssumption
<1>1. /\ queued - sent \in 0..(Size - 1)
      /\ SendPhase
      /\ rec \in 0..Size /\ offset \in 0..Size /\ queued \in Nat /\ sent \in Nat
  <2>1. Spare \in Nat \ {0} /\ Reserved \in Nat
    BY DEF TxInv, TxTypeOK, Spare, Reserved
  <2>2. QED
    BY <2>1 DEF TxInv, TxTypeOK, NothingUncommittedSent, PendingBound
<1>2. QED
  BY <1>1 DEF SendPhase, Space, CopySpace

-----------------------------------------------------------------------------
LEMMA InitTxInv == TxInit => TxInv
<1> SUFFICES ASSUME TxInit PROVE TxInv
  OBVIOUS
<1> USE TxAssumption DEF TxInit
<1>1. TxTypeOK
  <2>1. mem \in [0..(Size - 1) -> Nat] /\ dmaRun \in BOOLEAN
    OBVIOUS
  <2>2. QED
    BY <2>1 DEF TxTypeOK
<1>2. Paths /\ Pointers /\ SendPhase /\ StopDrains /\ NothingUncommittedSent
  BY DEF Paths, Pointers, SendPhase, StopDrains, NothingUncommittedSent
<1>3. PendingBound /\ FreeBound
  BY DEF PendingBound, FreeBound, Reserved, Spare
<1>4. PendingIntact /\ FilledIntact
  BY DEF PendingIntact, FilledIntact
<1>5. QED
  BY <1>1, <1>2, <1>3, <1>4 DEF TxInv

LEMMA CardSendTxInv == TxInv /\ CardSend => TxInv'
<1> SUFFICES ASSUME TxInv, CardSend PROVE TxInv'
  OBVIOUS
<1> USE TxAssumption
<1>0. /\ TxTypeOK /\ NothingUncommittedSent /\ Paths /\ Pointers /\ SendPhase
      /\ PendingBound /\ FreeBound /\ PendingIntact /\ FilledIntact /\ StopDrains
  BY DEF TxInv
<1>1. queued - sent >= 1
  BY SomethingPending DEF CardSend
<1>2. TxTypeOK'
  BY <1>0 DEF TxTypeOK, CardSend, AdvanceCard
<1>3. Reserved' = Reserved
  BY DEF Reserved, CardSend
<1>4. NothingUncommittedSent' /\ PendingBound' /\ FreeBound'
  BY <1>0, <1>1, <1>3 DEF TxTypeOK, NothingUncommittedSent, PendingBound,
       FreeBound, CardSend, Reserved, Spare
<1>5. Paths' /\ Pointers' /\ StopDrains'
  BY <1>0, <1>1 DEF TxTypeOK, Paths, Pointers, StopDrains, CardSend, AdvanceCard
<1>6. SendPhase'
  BY <1>0, <1>1 DEF TxTypeOK, Paths, SendPhase, CardSend, AdvanceCard
<1>7. PendingIntact' /\ FilledIntact'
  BY <1>0 DEF TxTypeOK, PendingIntact, FilledIntact, CardSend, Cell
<1>8. QED
  BY <1>2, <1>4, <1>5, <1>6, <1>7 DEF TxInv

\* The calls that only look at the registers or wait.
LEMMA WaitTxInv ==
    ASSUME TxInv,
           \/ \E n \in Sizes : GetSpace(n) \/ CopyBytes(n)
           \/ PollSpace \/ Reserve \/ CopyPoll \/ StopEnter \/ StopDone
    PROVE  TxInv'
<1> USE TxAssumption
<1>0. /\ TxTypeOK /\ NothingUncommittedSent /\ Paths /\ Pointers /\ SendPhase
      /\ PendingBound /\ FreeBound /\ PendingIntact /\ FilledIntact /\ StopDrains
  BY DEF TxInv
<1> DEFINE Same == /\ rec' = rec /\ limit' = limit /\ mem' = mem /\ sent' = sent
                   /\ queued' = queued /\ offset' = offset /\ path' = path
<1>1. SUFFICES ASSUME Same, TxTypeOK', Paths', Pointers', PendingBound', FreeBound',
                      StopDrains', pc' \notin {"commit", "copied"}
               PROVE  TxInv'
  <2>1. Same
    BY DEF GetSpace, CopyBytes, PollSpace, Reserve, CopyPoll, StopEnter, StopDone, ringVars
  <2>2. pc' \notin {"commit", "copied"}
    BY DEF GetSpace, CopyBytes, PollSpace, Reserve, CopyPoll, StopEnter, StopDone
  <2>3. CASE \E n \in Sizes : GetSpace(n) \/ CopyBytes(n)
    <3> PICK n \in Sizes : GetSpace(n) \/ CopyBytes(n)
      BY <2>3
    <3>1. TxTypeOK'
      BY <1>0 DEF TxTypeOK, GetSpace, CopyBytes, ringVars
    <3>2. Paths' /\ Pointers' /\ StopDrains'
      BY <1>0 DEF TxTypeOK, GetSpace, CopyBytes, ringVars, Paths, Pointers, StopDrains
    <3>3. PendingBound' /\ FreeBound'
      BY <1>0 DEF TxTypeOK, GetSpace, CopyBytes, ringVars, PendingBound, FreeBound,
           Reserved, Spare
    <3>4. QED
      BY <2>1, <2>2, <3>1, <3>2, <3>3
  <2>4. CASE PollSpace
    <3>1. free' = Size - (queued - sent)
      BY <1>0, <2>4, SpaceExact DEF PollSpace, Pointers
    <3>2. Reserved = 0 /\ Reserved' = 0
      BY <2>4 DEF PollSpace, Reserved
    <3>2a. ~Copies
      BY <1>0, <2>4 DEF PollSpace, Paths
    <3>3. PendingBound' /\ FreeBound'
      BY <1>0, <2>1, <3>1, <3>2, <3>2a DEF TxTypeOK, PendingBound, FreeBound, Spare
    <3>4. TxTypeOK'
      BY <1>0, <2>4, <3>1, <3>2, <3>2a DEF TxTypeOK, PollSpace, ringVars,
           NothingUncommittedSent, PendingBound, Spare
    <3>5. Paths' /\ Pointers' /\ StopDrains'
      BY <1>0, <2>4 DEF PollSpace, ringVars, Paths, Pointers, StopDrains
    <3>6. QED
      BY <2>1, <2>2, <3>3, <3>4, <3>5
  <2>5. CASE CopyPoll
    <3>2. Reserved = 0 /\ Reserved' = 0
      BY <2>5 DEF CopyPoll, Reserved
    <3>2a. Copies
      BY <1>0, <2>5 DEF CopyPoll, Paths
    <3>2b. queued - sent <= Size - Safety
      BY <1>0, <3>2, <3>2a DEF TxTypeOK, PendingBound, Spare
    <3>1. free' = Size - Safety - (queued - sent)
      BY <1>0, <2>5, <3>2b, SpaceExact DEF CopyPoll, Pointers
    <3>3. PendingBound' /\ FreeBound'
      BY <1>0, <2>1, <3>1, <3>2, <3>2a DEF TxTypeOK, PendingBound, FreeBound, Spare
    <3>4. TxTypeOK'
      BY <1>0, <2>5, <3>1, <3>2b DEF TxTypeOK, CopyPoll, ringVars, NothingUncommittedSent
    <3>5. Paths' /\ Pointers' /\ StopDrains'
      BY <1>0, <2>5 DEF CopyPoll, ringVars, Paths, Pointers, StopDrains
    <3>6. QED
      BY <2>1, <2>2, <3>3, <3>4, <3>5
  <2>6. CASE Reserve
    <3>2. Reserved = 0 /\ Reserved' = need /\ ~Copies
      BY <1>0, <2>6 DEF Reserve, Reserved, Paths
    <3>3. PendingBound' /\ FreeBound'
      BY <1>0, <2>1, <2>6, <3>2 DEF TxTypeOK, PendingBound, FreeBound, Spare, Reserve
    <3>4. TxTypeOK'
      BY <1>0, <2>6 DEF TxTypeOK, Reserve, ringVars
    <3>5. Paths' /\ Pointers' /\ StopDrains'
      BY <1>0, <2>6 DEF Reserve, ringVars, Paths, Pointers, StopDrains
    <3>6. QED
      BY <2>1, <2>2, <3>3, <3>4, <3>5
  <2>7. CASE StopEnter \/ StopDone
    <3>1. TxTypeOK'
      BY <1>0, <2>7 DEF TxTypeOK, StopEnter, StopDone, ringVars
    <3>2. Paths' /\ Pointers'
      BY <1>0, <2>7 DEF StopEnter, StopDone, ringVars, Paths, Pointers
    <3>3. PendingBound' /\ FreeBound'
      BY <1>0, <2>7 DEF TxTypeOK, StopEnter, StopDone, ringVars, PendingBound, FreeBound,
           Reserved, Spare
    <3>4. StopDrains'
      <4>1. CASE StopEnter
        BY <4>1 DEF StopEnter, StopDrains
      <4>2. CASE StopDone
        <5>1. queued - sent < Size
          BY <1>0, <4>2 DEF TxTypeOK, PendingBound, Reserved, Spare, StopDone
        <5>2. queued = sent
          BY <1>0, <4>2, <5>1 DEF TxTypeOK, SendPhase, Pointers, StopDone
        <5>3. QED
          BY <5>2, <4>2 DEF StopDrains, StopDone
      <4>3. QED
        BY <2>7, <4>1, <4>2
    <3>5. QED
      BY <2>1, <2>2, <3>1, <3>2, <3>3, <3>4
  <2>8. QED
    BY <2>3, <2>4, <2>5, <2>6, <2>7
<1>2. NothingUncommittedSent' /\ SendPhase' /\ PendingIntact'
  BY <1>0, <1>1 DEF NothingUncommittedSent, SendPhase, PendingIntact, Cell
<1>3. FilledIntact'
  BY <1>1 DEF FilledIntact
<1>4. QED
  BY <1>1, <1>2, <1>3 DEF TxInv

\* Writing the bytes of a packet into the space set aside for it.
LEMMA FillTxInv == TxInv /\ (Fill \/ CopyFill) => TxInv'
<1> SUFFICES ASSUME TxInv, Fill \/ CopyFill PROVE TxInv'
  OBVIOUS
<1> USE TxAssumption
<1>0. /\ TxTypeOK /\ NothingUncommittedSent /\ Paths /\ Pointers /\ SendPhase
      /\ PendingBound /\ FreeBound /\ PendingIntact /\ FilledIntact /\ StopDrains
  BY DEF TxInv
<1>1. /\ rec' = rec /\ limit' = limit /\ sent' = sent /\ queued' = queued
      /\ offset' = offset /\ bottom' = bottom /\ need' = need /\ dmaRun' = dmaRun
      /\ Write(need) /\ pc' \in {"commit", "copied"} /\ path' = path
  BY DEF Fill, CopyFill
<1>2. queued - sent + need <= Size - Spare /\ Spare \in Nat \ {0}
      /\ need \in Nat /\ queued \in Nat /\ sent \in Nat /\ offset \in 0..Size
  <2>1. CASE Fill
    BY <1>0, <2>1 DEF TxTypeOK, PendingBound, Reserved, Spare, Fill
  <2>2. CASE CopyFill
    BY <1>0, <2>2 DEF TxTypeOK, PendingBound, FreeBound, Reserved, Spare, CopyFill, Paths
  <2>3. QED
    BY <2>1, <2>2
<1>3. \A c \in 0..(Size - 1) :
        mem'[c] = IF Cell(c - offset) < need THEN queued + 1 + Cell(c - offset) ELSE mem[c]
  BY <1>1 DEF Write
<1>4. TxTypeOK'
  <2>1. mem' \in [0..(Size - 1) -> Nat]
    BY <1>0, <1>1, <1>2 DEF Write, Cell, TxTypeOK
  <2>2. free' \in 0..Size
    BY <1>0 DEF Fill, CopyFill, TxTypeOK
  <2>3. dmaRun' \in BOOLEAN
    BY <1>0, <1>1 DEF TxTypeOK
  <2>4. QED
    BY <1>0, <1>1, <2>1, <2>2, <2>3 DEF TxTypeOK
<1>5. NothingUncommittedSent' /\ Paths' /\ Pointers' /\ SendPhase' /\ StopDrains'
  BY <1>0, <1>1 DEF NothingUncommittedSent, Paths, Pointers, SendPhase, StopDrains,
       Fill, CopyFill
<1>6. PendingBound' /\ FreeBound'
  BY <1>0, <1>1, <1>2 DEF TxTypeOK, PendingBound, FreeBound, Reserved, Spare, Fill,
       CopyFill, Paths
<1>7. PendingIntact'
  <2> SUFFICES ASSUME NEW d \in 1..(queued - sent)
               PROVE  mem'[Cell(offset - d)] = queued - d + 1
    BY <1>1 DEF PendingIntact, Cell
  <2>1. d \in 1..Size /\ Size - d >= need
    BY <1>2
  <2>2. Cell(offset - d) \in 0..(Size - 1) /\ Cell(Cell(offset - d) - offset) = Size - d
    BY <1>2, <2>1, CellBack, Zenon
  <2>3. mem[Cell(offset - d)] = queued - d + 1
    BY <1>0 DEF PendingIntact
  <2>4. mem'[Cell(offset - d)] = mem[Cell(offset - d)]
    BY <1>2, <1>3, <2>1, <2>2
  <2>5. QED
    BY <2>3, <2>4
<1>8. FilledIntact'
  <2> SUFFICES ASSUME NEW j \in 0..(need - 1)
               PROVE  mem'[Cell(offset + j)] = queued + 1 + j
    BY <1>1 DEF FilledIntact, Cell
  <2>1. j \in 0..(Size - 1)
    BY <1>2, <1>0 DEF NothingUncommittedSent
  <2>2. Cell(offset + j) \in 0..(Size - 1) /\ Cell(Cell(offset + j) - offset) = j
    BY <1>2, <2>1, CellAhead, Zenon
  <2>3. QED
    BY <1>2, <1>3, <2>2
<1>9. QED
  BY <1>4, <1>5, <1>6, <1>7, <1>8 DEF TxInv

\* Handing n written bytes to the card.
LEMMA CommitTxInv ==
    ASSUME TxInv, CopyLimit \/ \E n \in 0..Size : Commit(n)
    PROVE  TxInv'
<1> USE TxAssumption
<1>0. /\ TxTypeOK /\ NothingUncommittedSent /\ Paths /\ Pointers /\ SendPhase
      /\ PendingBound /\ FreeBound /\ PendingIntact /\ FilledIntact /\ StopDrains
  BY DEF TxInv
<1>1. PICK n \in 0..Size :
        /\ n <= need
        /\ IF Copies THEN n = need /\ offset' = AdvanceCopy(offset, n) /\ pc = "copied"
                     ELSE offset' = AdvanceCommit(offset, n) /\ pc = "commit"
        /\ queued' = queued + n
        /\ bottom' = offset' /\ limit' = offset' /\ pc' = "idle"
        /\ UNCHANGED <<rec, dmaRun, mem, sent, free, need, path>>
  <2>1. CASE CopyLimit
    <3>1. need \in 0..Size /\ need <= need /\ Copies
      BY <1>0, <2>1 DEF TxTypeOK, CopyLimit, Paths
    <3>2. QED
      BY <3>1, <2>1 DEF CopyLimit
  <2>2. CASE \E n \in 0..Size : Commit(n)
    <3>1. PICK n \in 0..Size : Commit(n)
      BY <2>2
    <3>2. ~Copies
      BY <1>0, <3>1 DEF Commit, Paths
    <3>3. QED
      BY <3>1, <3>2 DEF Commit
  <2>3. QED
    BY <2>1, <2>2
<1>2. PICK p \in {AdvanceCommit(offset, n), AdvanceCopy(offset, n)} : offset' = p
  BY <1>1
<1>2a. /\ p = IF Copies THEN AdvanceCopy(offset, n) ELSE AdvanceCommit(offset, n)
       /\ offset \in 0..Size /\ need \in 0..Size /\ queued \in Nat /\ sent \in Nat
       /\ sent <= queued
       /\ Reserved = need /\ Reserved' = 0 /\ Spare' = Spare /\ Spare \in Nat \ {0}
       /\ queued - sent + need <= Size - Spare
  BY <1>0, <1>1, <1>2 DEF TxTypeOK, Reserved, Spare, PendingBound, NothingUncommittedSent
<1>2b. p \in 0..Size
  BY <1>2a DEF AdvanceCommit, AdvanceCopy
<1>3. mem' = mem /\ sent' = sent /\ queued' = queued + n /\ n \in 0..Size
  BY <1>1
<1>4. TxTypeOK'
  BY <1>0, <1>1, <1>2, <1>2b, <1>3 DEF TxTypeOK
<1>5. NothingUncommittedSent' /\ PendingBound' /\ FreeBound' /\ StopDrains'
  BY <1>0, <1>1, <1>2a DEF TxTypeOK, NothingUncommittedSent, PendingBound, FreeBound,
       StopDrains
<1>6. Paths' /\ Pointers'
  BY <1>0, <1>1, <1>2, <1>2a DEF TxTypeOK, Paths, Pointers, AdvanceCommit, AdvanceCopy
<1>7. SendPhase'
  BY <1>0, <1>1, <1>2, <1>2a DEF TxTypeOK, SendPhase, AdvanceCommit, AdvanceCopy
<1>8. PendingIntact'
  <2> SUFFICES ASSUME NEW d \in 1..(queued + n - sent)
               PROVE  mem[Cell(p - d)] = queued + n - d + 1
    BY <1>2, <1>2a, <1>2b, <1>3 DEF PendingIntact, Cell
  <2>1. d \in 1..Size
    BY <1>1, <1>2a
  <2>2. /\ d <= n => Cell(p - d) = Cell(offset + (n - d))
        /\ d > n => Cell(p - d) = Cell(offset - (d - n))
    BY <1>2a, <1>3, <2>1 DEF Cell, AdvanceCommit, AdvanceCopy
  <2>3. CASE d <= n
    <3>1. n - d \in 0..(need - 1)
      BY <1>1, <1>2a, <2>3
    <3>2. mem[Cell(offset + (n - d))] = queued + 1 + (n - d)
      BY <1>0, <1>1, <3>1 DEF FilledIntact
    <3>3. QED
      BY <1>2a, <2>2, <2>3, <3>2
  <2>4. CASE d > n
    <3>1. d - n \in 1..(queued - sent)
      BY <1>1, <1>2a, <2>4
    <3>2. mem[Cell(offset - (d - n))] = queued - (d - n) + 1
      BY <1>0, <3>1 DEF PendingIntact
    <3>3. QED
      BY <1>2a, <2>2, <2>4, <3>2
  <2>5. QED
    BY <1>2a, <2>3, <2>4
<1>9. FilledIntact'
  BY <1>1 DEF FilledIntact
<1>10. QED
  BY <1>4, <1>5, <1>6, <1>7, <1>8, <1>9 DEF TxInv

LEMMA StutterTxInv == TxInv /\ UNCHANGED txVars => TxInv'
BY DEF TxInv, TxTypeOK, NothingUncommittedSent, Paths, Pointers, SendPhase,
       PendingBound, FreeBound, PendingIntact, FilledIntact, StopDrains, Reserved,
       Spare, Cell, txVars

LEMMA NextTxInv == TxInv /\ [TxNext]_txVars => TxInv'
<1> SUFFICES ASSUME TxInv, TxNext PROVE TxInv'
  BY StutterTxInv
<1>1. CASE CardSend
  BY <1>1, CardSendTxInv
<1>2. CASE \/ \E n \in Sizes : GetSpace(n) \/ CopyBytes(n)
           \/ PollSpace \/ Reserve \/ CopyPoll \/ StopEnter \/ StopDone
  BY <1>2, WaitTxInv
<1>3. CASE Fill \/ CopyFill
  BY <1>3, FillTxInv
<1>4. CASE CopyLimit \/ \E n \in 0..Size : Commit(n)
  BY <1>4, CommitTxInv
<1>5. QED
  BY <1>1, <1>2, <1>3, <1>4 DEF TxNext

-----------------------------------------------------------------------------
\* The inductive invariant holds in every reachable state.
THEOREM TxInvariant == TxSpec => []TxInv
<1>1. QED
  BY InitTxInv, NextTxInv, PTL DEF TxSpec

\* Registers, offsets, free_space and the ring keep their types, for every
\* ring size and every sequence of transmit calls.
THEOREM TxTypeCorrect == TxSpec => []TxTypeOK
<1>1. TxInv => TxTypeOK
  BY DEF TxInv
<1>2. QED
  BY <1>1, TxInvariant, PTL

\* The card never sends a byte that nac_tx_stream_commit_bytes or
\* nac_tx_stream_copy_bytes has not handed to it.
THEOREM OnlyCommittedSent == TxSpec => []NothingUncommittedSent
<1>1. TxInv => NothingUncommittedSent
  BY DEF TxInv
<1>2. QED
  BY <1>1, TxInvariant, PTL

\* A committed byte is not written over before the card has sent it.
THEOREM PendingNeverOverwritten == TxSpec => []PendingIntact
<1>1. TxInv => PendingIntact
  BY DEF TxInv
<1>2. QED
  BY <1>1, TxInvariant, PTL

\* The cached stream->free_space never promises space that is in use.
THEOREM FreeSpaceNeverLies == TxSpec => []FreeSpaceReal
<1>1. TxInv => FreeSpaceReal
  BY TxAssumption DEF TxInv, FreeBound, FreeSpaceReal, TxTypeOK, Reserved
<1>2. QED
  BY <1>1, TxInvariant, PTL

\* nac_tx_stop_stream leaves nothing unsent.
THEOREM StopAlwaysDrains == TxSpec => []StopDrains
<1>1. TxInv => StopDrains
  BY DEF TxInv
<1>2. QED
  BY <1>1, TxInvariant, PTL

=============================================================================
