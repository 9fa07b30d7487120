---------------------------- MODULE NacTxStream ----------------------------
(***************************************************************************)
(* The transmit ring of a gap16g card: nac_tx_get_stream_space,            *)
(* nac_tx_stream_commit_bytes, nac_tx_stream_copy_bytes and                *)
(* nac_tx_stop_stream of gap16g/lib/nac_stream.c, as qnf_inject uses them. *)
(*                                                                         *)
(* The host writes bytes at stream->offset and moves the limit pointer     *)
(* register over them; the card (external) sends the bytes from its record *)
(* pointer up to the limit pointer.  Positions are offsets from the start  *)
(* of the ring and, as in NacRxStream, bytes are numbered in order.        *)
(*                                                                         *)
(* The two host paths treat the end of the ring differently: commit leaves *)
(* offset = Size there, copy makes it 0.  A card fits the one if it wraps  *)
(* when it fetches the next byte, the other if it wraps at once; path says *)
(* which path a behaviour takes, on the card that fits it.                 *)
(***************************************************************************)
EXTENDS Integers

CONSTANTS
    Size,       \* stream->size
    Safety,     \* SAFETY_WINDOW, what copy leaves free
    Margin,     \* the 2048 bytes get_stream_space leaves free
    Sizes,      \* the sizes it asks for
    MaxQueued   \* bound: bytes the client sends

ASSUME TxAssumption ==
    /\ Size \in Nat /\ Safety \in Nat \ {0} /\ Margin \in Nat \ {0}
    /\ Safety < Size
    /\ Margin < Size
    /\ Sizes \subseteq 1..Size
    /\ MaxQueued \in Nat

VARIABLES
    rec,        \* record pointer register: the byte the card sends next
    limit,      \* limit pointer register
    dmaRun,     \* dma_pause_n
    mem,        \* the ring
    sent,       \* history: bytes the card has sent
    queued,     \* history: bytes committed to the card
    offset,     \* stream->offset
    free,       \* stream->free_space
    bottom,     \* stream->last_bus_bottom
    need,       \* the size argument of the call in progress
    pc,         \* where the client is
    path        \* "copy" (copy_bytes) or "commit" (get_space and commit)

ringVars == <<rec, limit, dmaRun, mem, sent, queued>>
txVars   == <<rec, limit, dmaRun, mem, sent, queued, offset, free, bottom,
              need, pc, path>>

\* The client sends through nac_tx_stream_copy_bytes.
Copies == path = "copy"

-----------------------------------------------------------------------------
\* The cell of a position that is less than one lap outside the ring.
Cell(w) == IF w < 0 THEN w + Size ELSE IF w >= Size THEN w - Size ELSE w

\* Stepping offset over n bytes: commit wraps past Size, copy at Size.
AdvanceCommitAt(o, n) == IF o + n >= Size THEN o + n - Size ELSE o + n

AdvanceCommit(o, n) == IF o + n > Size THEN o + n - Size ELSE o + n

AdvanceCopyPast(o, n) == IF o + n > Size THEN o + n - Size ELSE o + n

AdvanceCopy(o, n) == IF o + n >= Size THEN o + n - Size ELSE o + n

\* The card's step: it wraps before the byte or after it.
AdvanceCard(r) ==
    IF Copies THEN (IF r + 1 >= Size THEN 0 ELSE r + 1)
             ELSE (IF r >= Size THEN 1 ELSE r + 1)

\* free_space as get_stream_space works it out from the two registers.
SpaceStrict(r, b) == IF r - b < 0 THEN r - b + Size ELSE r - b

SpaceSwapped(r, b) == IF b - r <= 0 THEN b - r + Size ELSE b - r

Space(r, b) == IF r - b <= 0 THEN r - b + Size ELSE r - b

\* free_space as copy_bytes works it out.
CopySpaceOpen(r, b) == IF r - b <= 0 THEN r - b + Size ELSE r - b

CopySpaceUnwrapped(r, b) == r - (b + Safety)

CopySpace(r, b) ==
    LET f == r - (b + Safety) IN IF f < 0 THEN f + Size ELSE f

TxInit ==
    /\ rec = 0
    /\ limit = 0
    /\ dmaRun = TRUE
    /\ mem = [p \in 0..(Size - 1) |-> 0]
    /\ sent = 0
    /\ queued = 0
    /\ offset = 0
    /\ free = 0
    /\ bottom = 0
    /\ need = 0
    /\ pc = "idle"
    /\ path \in {"copy", "commit"}

\* The card sends the byte at its record pointer.
CardSend ==
    /\ dmaRun
    /\ rec # limit
    /\ sent' = sent + 1
    /\ rec' = AdvanceCard(rec)
    /\ UNCHANGED <<limit, dmaRun, mem, queued, offset, free, bottom, need,
                   pc, path>>

\* nac_tx_get_stream_space is called and reads the limit pointer.
GetSpace(n) ==
    /\ pc = "idle" /\ ~Copies
    /\ queued + n <= MaxQueued
    /\ need' = n
    /\ bottom' = limit
    /\ pc' = "space"
    /\ UNCHANGED <<ringVars, offset, free, path>>

\* It has too little space: read the record pointer and work it out again.
PollSpace ==
    /\ pc = "space"
    /\ free < need + Margin
    /\ free' = Space(rec, bottom)
    /\ UNCHANGED <<ringVars, offset, bottom, need, pc, path>>

\* It returns buf + offset.
ReserveEarly ==
    /\ pc = "space"
    /\ free' = free - need
    /\ pc' = "fill"
    /\ UNCHANGED <<ringVars, offset, bottom, need, path>>

ReserveKept ==
    /\ pc = "space"
    /\ free >= need + Margin
    /\ pc' = "fill"
    /\ UNCHANGED <<ringVars, offset, free, bottom, need, path>>

Reserve ==
    /\ pc = "space"
    /\ free >= need + Margin
    /\ free' = free - need
    /\ pc' = "fill"
    /\ UNCHANGED <<ringVars, offset, bottom, need, path>>

\* The client's memcpy, or copy_bytes' one or two of them: n bytes at offset.
Write(n) ==
    mem' = [c \in 0..(Size - 1) |->
              IF Cell(c - offset) < n THEN queued + 1 + Cell(c - offset) ELSE mem[c]]

Fill ==
    /\ pc = "fill"
    /\ Write(need)
    /\ pc' = "commit"
    /\ UNCHANGED <<rec, limit, dmaRun, sent, queued, offset, free, bottom,
                   need, path>>

\* nac_tx_stream_commit_bytes of what was asked for, or of less.
Commit(n) ==
    /\ pc = "commit"
    /\ n <= need
    /\ offset' = AdvanceCommit(offset, n)
    /\ bottom' = offset'
    /\ limit' = offset'
    /\ queued' = queued + n
    /\ pc' = "idle"
    /\ UNCHANGED <<rec, dmaRun, mem, sent, free, need, path>>

\* nac_tx_stream_copy_bytes: wait for space, copy, move the limit.
CopyBytes(n) ==
    /\ pc = "idle" /\ Copies
    /\ n <= Size
    /\ queued + n <= MaxQueued
    /\ need' = n
    /\ pc' = "copywait"
    /\ UNCHANGED <<ringVars, offset, free, bottom, path>>

CopyPoll ==
    /\ pc = "copywait"
    /\ free < need
    /\ bottom' = limit
    /\ free' = CopySpace(rec, limit)
    /\ UNCHANGED <<ringVars, offset, need, pc, path>>

CopyFillLate ==
    /\ pc = "copywait"
    /\ free >= need
    /\ free' = free - need
    /\ offset' = AdvanceCopy(offset, need)
    /\ bottom' = offset'
    /\ limit' = offset'
    /\ queued' = queued + need
    /\ pc' = "copied"
    /\ UNCHANGED <<rec, dmaRun, mem, sent, need, path>>

CopyFill ==
    /\ pc = "copywait"
    /\ free >= need
    /\ free' = free - need
    /\ Write(need)
    /\ pc' = "copied"
    /\ UNCHANGED <<rec, limit, dmaRun, sent, queued, offset, bottom,
                   need, path>>

CopyLimit ==
    /\ pc = "copied"
    /\ offset' = AdvanceCopy(offset, need)
    /\ bottom' = offset'
    /\ limit' = offset'
    /\ queued' = queued + need
    /\ pc' = "idle"
    /\ UNCHANGED <<rec, dmaRun, mem, sent, free, need, path>>

\* nac_tx_stop_stream: wait until the card has caught up, then pause it.
StopEnterNow ==
    /\ pc = "idle"
    /\ dmaRun' = FALSE
    /\ pc' = "stopped"
    /\ UNCHANGED <<rec, limit, mem, sent, queued, offset, free, bottom,
                   need, path>>

StopEnter ==
    /\ pc = "idle"
    /\ pc' = "stopping"
    /\ UNCHANGED <<ringVars, offset, free, bottom, need, path>>

StopDone ==
    /\ pc = "stopping"
    /\ rec = limit
    /\ dmaRun' = FALSE
    /\ pc' = "stopped"
    /\ UNCHANGED <<rec, limit, mem, sent, queued, offset, free, bottom,
                   need, path>>

Host == PollSpace \/ Reserve \/ Fill \/ (\E n \in 0..Size : Commit(n))
          \/ CopyPoll \/ CopyFill \/ CopyLimit \/ StopDone

TxNext ==
    \/ CardSend
    \/ \E n \in Sizes : GetSpace(n)
    \/ PollSpace
    \/ Reserve
    \/ Fill
    \/ \E n \in 0..Size : Commit(n)
    \/ \E n \in Sizes : CopyBytes(n)
    \/ CopyPoll
    \/ CopyFill
    \/ CopyLimit
    \/ StopEnter
    \/ StopDone

TxSpec == TxInit /\ [][TxNext]_txVars

\* The card sends what it has, and a thread inside one of the calls runs.
TxFair == TxSpec /\ WF_txVars(CardSend) /\ WF_txVars(Host)

-----------------------------------------------------------------------------
(* Properties. *)

TxTypeOK ==
    /\ rec \in 0..Size /\ limit \in 0..Size /\ offset \in 0..Size
    /\ bottom \in 0..Size
    /\ dmaRun \in BOOLEAN
    /\ mem \in [0..(Size - 1) -> Nat]
    /\ sent \in Nat /\ queued \in Nat
    /\ free \in 0..Size
    /\ need \in 0..Size
    /\ pc \in {"idle", "space", "fill", "commit", "copywait", "copied",
               "stopping", "stopped"}
    /\ path \in {"copy", "commit"}

(***************************************************************************)
(* The card never runs past what the host has committed, at whichever end  *)
(* of the ring the limit pointer stands.                                   *)
(***************************************************************************)
NothingUncommittedSent == sent <= queued

(***************************************************************************)
(* What was committed and not yet sent is in its place in the ring: no     *)
(* later packet is written over it before the card has fetched it.         *)
(***************************************************************************)
PendingIntact ==
    \A d \in 1..(queued - sent) : mem[Cell(offset - d)] = queued - d + 1

\* Bytes set aside for the client that it has not committed yet.
Reserved == IF pc \in {"fill", "commit", "copied"} THEN need ELSE 0

(***************************************************************************)
(* free_space, kept from call to call and refreshed only when it is too    *)
(* small, never counts a byte that is still pending or set aside.          *)
(***************************************************************************)
FreeSpaceReal == free + Reserved + (queued - sent) <= Size

\* nac_tx_stop_stream pauses the card only after the last byte is out.
StopDrains == pc = "stopped" => sent = queued

(***************************************************************************)
(* A call that asks for no more than the ring can offer returns: the card  *)
(* makes room and the host sees it; and so does nac_tx_stop_stream.        *)
(***************************************************************************)
SpaceComes ==
    /\ (pc = "space" /\ need + Margin <= Size) ~> pc = "idle"
    /\ (pc = "copywait" /\ need + Safety <= Size) ~> pc = "idle"
    /\ pc = "stopping" ~> pc = "stopped"

-----------------------------------------------------------------------------
(* The inductive invariant behind the properties above. *)

\* What a call leaves free at least.
Spare == IF Copies THEN Safety ELSE Margin

\* Each path uses its own part of the client's code, and its own end.
Paths ==
    /\ Copies => /\ pc \notin {"space", "fill", "commit"}
                 /\ rec < Size /\ offset < Size
    /\ ~Copies => /\ pc \notin {"copywait", "copied"}
                  /\ offset = 0 => queued = 0
                  /\ sent = 0 => rec = 0

\* The registers and their copies agree with stream->offset.
Pointers == limit = offset /\ (pc = "space" => bottom = limit)

\* The record pointer is in offset's lap or in the one before.
SendPhase ==
    \/ queued - sent = offset - rec
    \/ queued - sent = offset - rec + Size

PendingBound == queued - sent + Reserved <= Size - Spare

FreeBound ==
    free + Reserved + (queued - sent) <= (IF Copies THEN Size - Safety ELSE Size)

\* What the client has written and not committed is in place.
FilledIntact ==
    pc \in {"commit", "copied"} =>
        \A j \in 0..(need - 1) : mem[Cell(offset + j)] = queued + 1 + j

TxInv ==
    /\ TxTypeOK
    /\ NothingUncommittedSent
    /\ Paths
    /\ Pointers
    /\ SendPhase
    /\ PendingBound
    /\ FreeBound
    /\ PendingIntact
    /\ FilledIntact
    /\ StopDrains

=============================================================================
