---------------------------- MODULE NacRxStream ----------------------------
(***************************************************************************)
(* The receive ring of one gap16g capture card, as libpcap sees it through *)
(* gap16g/lib/nac_stream.c.                                                *)
(*                                                                         *)
(* The card (external: its logic is not in the repository) stores captured *)
(* bytes at its record pointer and stops when the record pointer equals    *)
(* the limit pointer.  The host learns how far the card has got by reading *)
(* the record pointer register and hands bytes back by writing the limit   *)
(* pointer register: both happen in nac_advance_stream, which a client     *)
(* calls with BOTTOM, the first byte it has not consumed, and which        *)
(* returns TOP.  The client owns the bytes in [BOTTOM, TOP).               *)
(*                                                                         *)
(* All positions are offsets from stream->buf.  The ring is mapped twice,  *)
(* back to back, so BOTTOM and TOP range over 0..Size+Extra and the byte   *)
(* behind position w is mem[Mirror(w)].                                    *)
(*                                                                         *)
(* Bytes are numbered 1, 2, 3... in the order the card stores them, and a  *)
(* cell of mem holds the number of the byte last stored there.  written    *)
(* and consumed are history variables: how many bytes the card has stored  *)
(* and how many the client has given back.                                 *)
(***************************************************************************)
EXTENDS Integers

CONSTANTS
    Size,       \* stream->size: bytes of the ring
    Safety,     \* SAFETY_WINDOW, also the alignment of the 0x7f masks
    Extra,      \* stream->extra_window_size: bytes mapped a second time
    MinDatas,   \* the values stream->mindata is given
    MaxWritten  \* bound: how many bytes the card captures

(***************************************************************************)
(* A ring holds at least one safety window (128 bytes against 128MB) and   *)
(* the second mapping is at most one ring long (nac_attach_stream refuses  *)
(* a longer one).                                                          *)
(***************************************************************************)
ASSUME RingAssumption ==
    /\ Safety \in Nat \ {0}
    /\ Size \in Nat
    /\ Size >= Safety
    /\ Extra \in 0..Size
    /\ MinDatas \subseteq Nat
    /\ MinDatas # {}
    /\ MaxWritten \in Nat

VARIABLES
    rec,        \* record pointer register: where the card stores next
    limit,      \* limit pointer register: where the card stops
    dmaRun,     \* dma_pause_n of the DMA control register
    mem,        \* the ring
    written,    \* history: bytes stored by the card
    bottom,     \* the client's BOTTOM
    top,        \* the client's TOP
    consumed,   \* history: bytes the client has moved BOTTOM over
    offset,     \* nac_advance_stream's copy of the record pointer
    expired,    \* nac_advance_stream: now is past expire
    mindata,    \* stream->mindata
    pc          \* where the host thread is

cardVars == <<rec, limit, dmaRun, mem, written>>
hostVars == <<bottom, top, consumed, offset, expired, mindata, pc>>
rxVars   == <<rec, limit, dmaRun, mem, written,
              bottom, top, consumed, offset, expired, mindata, pc>>

-----------------------------------------------------------------------------
(* Address arithmetic of nac_advance_stream. *)

\* The cell behind a position of the double mapping.
Mirror(w) == IF w >= Size THEN w - Size ELSE w

\* bottom & ~0x7f
Align(w) == w - (w % Safety)

\* The macro WRSAFE: stay one safety window behind, and never at 0.
WRSAFEZero(x) == IF x - Safety < 0 THEN Size ELSE x - Safety

WRSAFEWrap(x) == IF x - Safety <= 0 THEN x - Safety + Size ELSE x - Safety

WRSAFEAhead(x) == IF x + Safety >= Size THEN Size ELSE x + Safety

WRSAFE(x) == IF x - Safety <= 0 THEN Size ELSE x - Safety

\* if (BOTTOM_POINTER > buf + size) BOTTOM_POINTER -= size
NormBottom(b) == IF b > Size THEN b - Size ELSE b

\* Bytes between the aligned bottom and the sampled record pointer.
Available(o, a) == IF o >= a THEN o - a ELSE Size - a + o

\* From the sampled record pointer to the returned TOP.
Clamp(w) == IF w > Size + Extra THEN Size + Extra ELSE w

TopOfNoUnfold(o, a) ==
    LET w == Clamp(o + Size)
    IN  IF w - a >= Safety THEN w - Safety ELSE w

TopOf(o, a) ==
    LET w == Clamp(IF o < a THEN o + Size ELSE o)
    IN  IF w - a >= Safety THEN w - Safety ELSE w

-----------------------------------------------------------------------------
(***************************************************************************)
(* The stream just after nac_start_stream of a freshly configured card:    *)
(* status_clear put the record pointer at the start of the buffer, the     *)
(* limit pointer is at its end and DMA runs.  BOTTOM is NULL, which the    *)
(* first nac_advance_stream turns into buf.                                *)
(***************************************************************************)
Init ==
    /\ rec = 0
    /\ limit = Size
    /\ dmaRun = TRUE
    /\ mem = [p \in 0..(Size - 1) |-> 0]
    /\ written = 0
    /\ bottom = 0
    /\ top = 0
    /\ consumed = 0
    /\ offset = 0
    /\ expired = FALSE
    /\ mindata \in MinDatas
    /\ pc = "client"

(***************************************************************************)
(* The card stores one byte.  It wraps when it has something to store, not *)
(* before: limit = Size and limit = 0 would otherwise be the same place,   *)
(* and the host relies on reading Size back for a ring filled to its end.  *)
(***************************************************************************)
CardWrite ==
    /\ dmaRun
    /\ rec # limit
    /\ written < MaxWritten
    /\ mem' = [mem EXCEPT ![Mirror(rec)] = written + 1]
    /\ rec' = Mirror(rec) + 1
    /\ written' = written + 1
    /\ UNCHANGED <<limit, dmaRun>>
    /\ UNCHANGED hostVars

\* Entry of nac_advance_stream up to the first read of the record pointer.
AdvanceEnterStale ==
    /\ pc = "client"
    /\ bottom' = NormBottom(bottom)
    /\ expired' = FALSE
    /\ pc' = "pause"
    /\ UNCHANGED <<top, consumed, offset, mindata>>
    /\ UNCHANGED cardVars

AdvanceEnter ==
    /\ pc = "client"
    /\ bottom' = NormBottom(bottom)
    /\ offset' = rec
    /\ expired' = FALSE
    /\ pc' = "pause"
    /\ UNCHANGED <<top, consumed, mindata>>
    /\ UNCHANGED cardVars

\* dma pause: clear dma_pause_n
PauseDma ==
    /\ pc = "pause"
    /\ dmaRun' = FALSE
    /\ pc' = "limit"
    /\ UNCHANGED <<rec, limit, mem, written>>
    /\ UNCHANGED <<bottom, top, consumed, offset, expired, mindata>>

\* write limit pointer
WriteLimitSampled ==
    /\ pc = "limit"
    /\ limit' = WRSAFE(Align(offset))
    /\ pc' = "resume"
    /\ UNCHANGED <<rec, dmaRun, mem, written>>
    /\ UNCHANGED <<bottom, top, consumed, offset, expired, mindata>>

WriteLimit ==
    /\ pc = "limit"
    /\ limit' = WRSAFE(Align(bottom))
    /\ pc' = "resume"
    /\ UNCHANGED <<rec, dmaRun, mem, written>>
    /\ UNCHANGED <<bottom, top, consumed, offset, expired, mindata>>

\* clear dma pause
ResumeDma ==
    /\ pc = "resume"
    /\ dmaRun' = TRUE
    /\ pc' = "wait"
    /\ UNCHANGED <<rec, limit, mem, written>>
    /\ UNCHANGED <<bottom, top, consumed, offset, expired, mindata>>

\* One turn of the "make sure >= mindata" loop: sleep, read the record
\* pointer again, look at the clock.
PollRecord ==
    /\ pc = "wait"
    /\ Available(offset, Align(bottom)) < mindata
    /\ ~expired
    /\ offset' = rec
    /\ expired' \in BOOLEAN
    /\ UNCHANGED <<bottom, top, consumed, mindata, pc>>
    /\ UNCHANGED cardVars

\* The loop is left and TOP is computed and returned.
AdvanceReturn ==
    /\ pc = "wait"
    /\ Available(offset, Align(bottom)) >= mindata \/ expired
    /\ top' = TopOf(offset, Align(bottom))
    /\ pc' = "client"
    /\ UNCHANGED <<bottom, consumed, offset, expired, mindata>>
    /\ UNCHANGED cardVars

(***************************************************************************)
(* The client moves BOTTOM over n bytes of its window, as qnf_read does    *)
(* with each record it has dealt with.                                     *)
(***************************************************************************)
Consume(n) ==
    /\ pc = "client"
    /\ bottom + n <= top
    /\ bottom' = bottom + n
    /\ consumed' = consumed + n
    /\ UNCHANGED <<top, offset, expired, mindata, pc>>
    /\ UNCHANGED cardVars

\* nac_set_stream_poll on the attached stream.
SetStreamPoll(m) ==
    /\ pc = "client"
    /\ mindata' = m
    /\ UNCHANGED <<bottom, top, consumed, offset, expired, pc>>
    /\ UNCHANGED cardVars

Next ==
    \/ CardWrite
    \/ AdvanceEnter
    \/ PauseDma
    \/ WriteLimit
    \/ ResumeDma
    \/ PollRecord
    \/ AdvanceReturn
    \/ \E n \in 1..(Size + Extra) : Consume(n)
    \/ \E m \in MinDatas : SetStreamPoll(m)

Spec == Init /\ [][Next]_rxVars

-----------------------------------------------------------------------------
(* Properties. *)

\* Every variable has its type; in particular the limit register is never
\* the start of the ring and TOP and BOTTOM never leave the double mapping.
TypeOK ==
    /\ rec \in 0..Size
    /\ limit \in 1..Size
    /\ dmaRun \in BOOLEAN
    /\ mem \in [0..(Size - 1) -> Nat]
    /\ written \in 0..MaxWritten
    /\ bottom \in 0..(Size + Extra)
    /\ top \in 0..(Size + Extra)
    /\ consumed \in Nat
    /\ offset \in 0..Size
    /\ expired \in BOOLEAN
    /\ mindata \in MinDatas
    /\ pc \in {"client", "pause", "limit", "resume", "wait"}

\* Stream byte number just before position 0 of BOTTOM's mapping.
Base == consumed - bottom

(***************************************************************************)
(* While the client works on [BOTTOM, TOP) that nac_advance_stream gave    *)
(* it, every byte there is the one the card stored for that place in the   *)
(* stream: not one from an earlier lap that the card has yet to replace,   *)
(* and not one from a later lap that has overwritten it.                   *)
(***************************************************************************)
WindowIntact ==
    pc = "client" =>
        \A w \in bottom..(top - 1) : mem[Mirror(w)] = Base + w + 1

(***************************************************************************)
(* No captured byte is lost in the ring: whatever the card has stored and  *)
(* the client has not consumed is still in its place, at every step of     *)
(* nac_advance_stream and whenever the card runs.                          *)
(***************************************************************************)
UnreadIntact ==
    \A w \in bottom..(written - Base - 1) : mem[Mirror(w)] = Base + w + 1

\* Room the card has before it stops.
Room == IF limit >= rec THEN limit - rec ELSE limit - rec + Size

(***************************************************************************)
(* The limit register never lets the card run more than one ring ahead of  *)
(* the client, counted in bytes of the stream, in spite of the alignment   *)
(* of BOTTOM and of both ends of the ring standing for one place.          *)
(***************************************************************************)
LimitBehindBottom == written + Room - consumed <= Size

(***************************************************************************)
(* The host never moves the limit register back over bytes it has already  *)
(* granted: the place where the card stops only moves forward in the       *)
(* stream.                                                                 *)
(***************************************************************************)
LimitMonotone == [][written' + Room' >= written + Room]_rxVars

-----------------------------------------------------------------------------
(* The inductive invariant behind the properties above. *)

\* How far past Base + Size the card may be allowed to go, by BOTTOM.
Slack(b) ==
    IF b > Size THEN Size - Safety
    ELSE IF Align(b) <= Safety THEN 0 ELSE Align(b) - Safety

\* Where a sampled record pointer is in BOTTOM's mapping.
Unfold(o, a) == IF o < a THEN o + Size ELSE o

\* The client has not overtaken the card.
InOrder == consumed <= written

\* Inside nac_advance_stream BOTTOM is in the first mapping.
BottomNormal == pc # "client" => bottom <= Size

\* The card is in BOTTOM's lap or in the next one.
RecPhase ==
    \/ written = Base + rec
    \/ rec > 0 /\ written = Base + Size + rec

\* The grant, exactly as the last aligned BOTTOM allows it.
LimitSafe == written + Room <= Base + Size + Slack(bottom)

\* A sampled record pointer may be out of date but is never ahead.
OffsetSafe == pc # "client" => Unfold(offset, Align(bottom)) <= written - Base

\* TOP is never ahead of the card.
TopSafe == pc = "client" => top <= written - Base

(***************************************************************************)
(* The strengthening that is inductive: where the card, the grant, the     *)
(* sample and TOP are relative to BOTTOM's lap of the stream, and that the *)
(* unread bytes are intact.                                                *)
(***************************************************************************)
RxInv ==
    /\ TypeOK
    /\ InOrder
    /\ BottomNormal
    /\ RecPhase
    /\ LimitSafe
    /\ OffsetSafe
    /\ TopSafe
    /\ UnreadIntact

=============================================================================
