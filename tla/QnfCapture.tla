----------------------------- MODULE QnfCapture -----------------------------
(***************************************************************************)
(* A live capture on a gap16g card: pcap_loop and pcap_dispatch of pcap.c  *)
(* over qnf_read of pcap-gap16g.c over the receive ring of NacRxStream.    *)
(*                                                                         *)
(* The card stores records.  A record is a header of Hdr bytes, which      *)
(* carries rlen, the length of the whole record, and wlen, the length of   *)
(* the packet on the wire, followed by the packet.  arrived is a history   *)
(* variable: the records in the order the card began to store them, each   *)
(* with the numbers of its first and last byte in the stream.              *)
(*                                                                         *)
(* pc is "client" except inside nac_advance_stream; at says where the      *)
(* application thread is around it.                                        *)
(***************************************************************************)
EXTENDS NacRxStream, Sequences

CONSTANTS
    Hdr,        \* NAC_RECORD_LEN
    Packets,    \* the records the card may store: [rlen, wlen]
    Snapshot,   \* p->snapshot
    Counts,     \* the counts the application asks for
    Filters,    \* the filters it installs: sets of accepted records
    Interrupts, \* what may cut in: "break" (pcap_breakloop), "signal"
    BlockMin,   \* the 128 bytes qnf_setnonblock waits for in blocking mode
    None        \* pcap_breakloop has not been called

(***************************************************************************)
(* A record is longer than its header and fits well inside the ring and    *)
(* its second mapping (64 KB against 128 MB and 8 MB).                     *)
(***************************************************************************)
ASSUME CaptureAssumption ==
    /\ Hdr \in Nat \ {0}
    /\ Hdr < Safety
    /\ \A p \in Packets :
         /\ p.rlen \in Nat /\ p.wlen \in Nat
         /\ Hdr < p.rlen
         /\ p.rlen + 2 * Safety <= Extra
    /\ Counts \subseteq Int
    /\ Filters \subseteq SUBSET Packets
    /\ {0, BlockMin} \subseteq MinDatas
    /\ None \notin Nat

VARIABLES
    arrived,    \* history: records, in order
    handled,    \* history: how many of them BOTTOM has moved over
    delivered,  \* history: the records given to the callback (ps_recv of them)
    at,         \* where the application thread is
    api,        \* which routine called qnf_read
    count,      \* cnt, as pcap_loop counts it down
    processed,  \* processed in qnf_read
    nonblock,   \* O_NONBLOCK of p->fd
    asked,      \* history: cnt of the last call, and Len(delivered) before it
    ret,        \* result of the last call
    lastPos,    \* where in the mapping the last packet given out starts
    shutdown,   \* shutdownInProcess
    breakLoop,  \* p->break_loop
    breakAt,    \* history: Len(delivered) at the pcap_breakloop of the call
                \* in progress, or of the one to come
    fcode       \* p->fcode: what the filter accepts (all, if there is none)

outVars  == <<handled, delivered, lastPos>>
callVars == <<at, api, count, processed, ret, asked>>
flagVars == <<shutdown, breakLoop, breakAt>>
readVars == <<outVars, callVars, nonblock, flagVars, fcode>>
qnfVars  == <<rxVars, arrived, readVars>>

Fifo == INSTANCE PacketFifo WITH
            inbox  <- [i \in 1..Len(arrived) |-> arrived[i].pkt],
            done   <- handled,
            out    <- delivered,
            accept <- fcode

-----------------------------------------------------------------------------
QnfInit ==
    /\ Init
    /\ arrived = <<>>
    /\ handled = 0
    /\ delivered = <<>>
    /\ at = "idle"
    /\ api = "dispatch"
    /\ count = 0
    /\ processed = 0
    /\ ret = 0
    /\ lastPos = 0
    /\ nonblock = FALSE
    /\ asked = [cnt |-> 0, base |-> 0]
    /\ shutdown = FALSE
    /\ breakLoop = FALSE
    /\ breakAt = None
    /\ fcode = Packets

\* The number of the last byte of the record the card is storing.
StoreEnd == IF arrived = <<>> THEN 0 ELSE arrived[Len(arrived)].end

\* The card begins to store a record.
CardBegin(p) ==
    /\ written = StoreEnd
    /\ written + p.rlen <= MaxWritten
    /\ CardWrite
    /\ arrived' = Append(arrived, [pkt |-> p,
                                   start |-> written + 1,
                                   end |-> written + p.rlen])
    /\ UNCHANGED readVars

\* The card stores another byte of the record it is storing.
CardContinue ==
    /\ written < StoreEnd
    /\ CardWrite
    /\ UNCHANGED <<arrived, readVars>>

\* pcap_dispatch and pcap_loop call qnf_read, which refuses a count of 0.
Call(a, n) ==
    /\ at = "idle"
    /\ api' = a
    /\ processed' = 0
    /\ IF n = 0
       THEN at' = "idle" /\ ret' = -2 /\ breakAt' = None /\ UNCHANGED count
       ELSE at' = "call" /\ count' = n /\ UNCHANGED <<ret, breakAt>>
    /\ asked' = [cnt |-> n, base |-> Len(delivered)]
    /\ UNCHANGED <<rxVars, arrived, outVars, nonblock, shutdown, breakLoop, fcode>>

\* What pcap_loop still wants after n more packets.
RemainingSame(n) == count

Remaining(n) == count - n

\* qnf_read returns n: pcap_dispatch passes it on, pcap_loop may call again.
\* What pcap_breakloop asked for is over when the application's call is.
Return(n) ==
    /\ processed' = 0
    /\ UNCHANGED <<api, asked>>
    /\ \/ /\ api = "dispatch" \/ n < 0
          /\ at' = "idle" /\ ret' = n
          /\ UNCHANGED count
       \/ /\ api = "loop" /\ n >= 0
          /\ n = 0 \/ count < 0
          /\ at' = "call"
          /\ UNCHANGED <<count, ret>>
       \/ /\ api = "loop" /\ n > 0 /\ count > 0
          /\ count' = Remaining(n)
          /\ IF count' <= 0 THEN at' = "idle" /\ ret' = 0
                            ELSE at' = "call" /\ UNCHANGED ret
    /\ breakAt' = IF at' = "idle" THEN None ELSE breakAt

\* qnf_read calls nac_advance_stream ...
AdvanceBegin ==
    /\ at = "call"
    /\ AdvanceEnter
    /\ UNCHANGED <<arrived, readVars>>

AdvanceStep ==
    /\ PauseDma \/ WriteLimit \/ ResumeDma \/ PollRecord
    /\ UNCHANGED <<arrived, readVars>>

\* Looked at after each nac_advance_stream, whatever it returned.
StopAskedLate == shutdown /\ top' - bottom > Hdr

StopAsked == shutdown

\* ... until it returns more than a header, or the process is to stop.  It
\* returns NULL only for a stream that is not open or not attached; the stream
\* of a handle that is being read is both.
AdvanceEnd ==
    /\ AdvanceReturn
    /\ IF StopAsked
       THEN breakLoop' = FALSE /\ Return(-2)
       ELSE /\ at' = IF top' - bottom <= Hdr THEN "call" ELSE "drain"
            /\ UNCHANGED <<api, count, processed, ret, asked, breakLoop, breakAt>>
    /\ UNCHANGED <<arrived, outVars, nonblock, shutdown, fcode>>

\* The number of the record whose header is at BOTTOM.
IsHeader(k) == arrived[k].start = mem[Mirror(bottom)]

\* Whether the callback gets the record.
WantedUnfiltered(p) == p.wlen <= Snapshot

WantedUncut(p) == p \in fcode

Wanted(p) == p.wlen <= Snapshot /\ p \in fcode

\* How far BOTTOM moves over a record.
StepLenBody(p) == p.rlen - Hdr

StepLen(p) == p.rlen

\* The window has no complete record left.
DrainEnd ==
    /\ at = "drain"
    /\ \/ top - bottom <= Hdr
       \/ \E k \in 1..Len(arrived) :
            IsHeader(k) /\ top - bottom < arrived[k].pkt.rlen
    /\ Return(processed)
    /\ UNCHANGED <<rxVars, arrived, outVars, nonblock, shutdown, breakLoop, fcode>>

\* One turn of the loop over the records of the window.
DrainRecord ==
    /\ at = "drain"
    /\ top - bottom > Hdr
    /\ \E k \in 1..Len(arrived) :
         LET p    == arrived[k].pkt
             sent == processed + (IF Wanted(p) THEN 1 ELSE 0)
         IN  /\ IsHeader(k)
             /\ top - bottom >= p.rlen
             /\ delivered' = IF Wanted(p)
                             THEN Append(delivered, k)
                             ELSE delivered
             /\ lastPos' = IF Wanted(p) THEN bottom ELSE lastPos
             /\ Consume(StepLen(p))
             /\ handled' = handled + 1
             /\ IF sent = count
                THEN Return(count)
                ELSE processed' = sent /\ UNCHANGED <<at, api, count, ret, asked, breakAt>>
    /\ UNCHANGED <<arrived, nonblock, shutdown, breakLoop, fcode>>

\* qnf_setnonblock between calls.
SetNonblock(nb) ==
    /\ at = "idle"
    /\ SetStreamPoll(IF nb THEN 0 ELSE BlockMin)
    /\ nonblock' = nb
    /\ UNCHANGED <<arrived, outVars, callVars, flagVars, fcode>>

\* qnf_setfilter between calls.
SetFilter(f) ==
    /\ at = "idle"
    /\ fcode' = f
    /\ UNCHANGED <<rxVars, arrived, outVars, callVars, nonblock, flagVars>>

\* pcap_breakloop, from a signal handler, a callback or another thread.
Breakloop ==
    /\ "break" \in Interrupts
    /\ ~breakLoop
    /\ breakLoop' = TRUE
    /\ breakAt' = Len(delivered)
    /\ UNCHANGED <<rxVars, arrived, outVars, callVars, nonblock,
                   shutdown, fcode>>

\* SIGINT or SIGTERM: atexit_handler.
Signal ==
    /\ "signal" \in Interrupts
    /\ ~shutdown
    /\ shutdown' = TRUE
    /\ UNCHANGED <<rxVars, arrived, outVars, callVars, nonblock,
                   breakLoop, breakAt, fcode>>

Reader == AdvanceBegin \/ AdvanceStep \/ AdvanceEnd \/ DrainEnd \/ DrainRecord

QnfNext ==
    \/ CardContinue
    \/ \E p \in Packets : CardBegin(p)
    \/ \E a \in {"dispatch", "loop"}, n \in Counts : Call(a, n)
    \/ AdvanceBegin
    \/ AdvanceStep
    \/ AdvanceEnd
    \/ DrainEnd
    \/ DrainRecord
    \/ \E nb \in BOOLEAN : SetNonblock(nb)
    \/ \E f \in Filters : SetFilter(f)
    \/ Breakloop
    \/ Signal

QnfSpec == QnfInit /\ [][QnfNext]_qnfVars

(***************************************************************************)
(* A thread inside pcap_loop or pcap_dispatch keeps running and the clock  *)
(* it looks at advances.  Nothing is assumed of the card, of signals or of *)
(* the application between its calls.                                      *)
(***************************************************************************)
QnfFair ==
    /\ QnfSpec
    /\ WF_qnfVars(Reader)
    /\ WF_qnfVars(AdvanceStep /\ expired')

-----------------------------------------------------------------------------
(* Properties. *)

QnfTypeOK ==
    /\ TypeOK
    /\ \A i \in 1..Len(arrived) : arrived[i].pkt \in Packets
    /\ handled \in 0..Len(arrived)
    /\ \A i \in 1..Len(delivered) : delivered[i] \in 1..Len(arrived)
    /\ at \in {"idle", "call", "drain"}
    /\ at # "call" => pc = "client"
    /\ api \in {"dispatch", "loop"}
    /\ count \in Int /\ ret \in Int /\ processed \in Nat
    /\ lastPos \in 0..(Size + Extra)
    /\ {nonblock, shutdown, breakLoop} \subseteq BOOLEAN
    /\ breakAt = None \/ breakAt \in Nat
    /\ fcode \in SUBSET Packets

(***************************************************************************)
(* qnf_read never loses the record boundaries: the header it parses at     *)
(* BOTTOM is that of the first record it has not dealt with, whatever was  *)
(* cut off by TOP, by the count or by the end of the ring before.          *)
(***************************************************************************)
FrameSync ==
    at = "drain" /\ top - bottom > Hdr =>
        handled < Len(arrived) /\ IsHeader(handled + 1)

(***************************************************************************)
(* The packet that pcap_next or pcap_next_ex (pcap_dispatch) left a        *)
(* pointer to stays readable until the next call, although qnf_read has    *)
(* already moved BOTTOM over it and the card goes on storing.              *)
(***************************************************************************)
LastPacketIntact ==
    at = "idle" /\ api = "dispatch" /\ ret > 0 =>
        LET r == arrived[delivered[Len(delivered)]]
        IN  \A j \in 0..(r.pkt.rlen - 1) : mem[Mirror(lastPos + j)] = r.start + j

(***************************************************************************)
(* A positive count is honoured over the calls of qnf_read that pcap_loop  *)
(* makes: never more packets than asked for, and exactly that many when    *)
(* pcap_loop returns 0.                                                    *)
(***************************************************************************)
CountHonoured ==
    asked.cnt > 0 =>
        LET given == Len(delivered) - asked.base
        IN  /\ given <= asked.cnt
            /\ at = "idle" /\ api = "loop" /\ ret = 0 => given = asked.cnt

\* Every packet is dealt with once, in order, and the callback gets the ones
\* it should: the capture implements the abstract handle.
ImplementsFifo == Fifo!FifoSpec

(***************************************************************************)
(* Once SIGINT or SIGTERM has set shutdownInProcess, a call in progress    *)
(* comes to an end even when no packet arrives any more.                   *)
(***************************************************************************)
ShutdownReturns == (shutdown /\ at # "idle") ~> (at = "idle")

\* No run stores more records than this.
MaxRecords == MaxWritten \div (Hdr + 1)

(***************************************************************************)
(* In pcap_loop without a count, a record is dealt with once one more      *)
(* safety window of bytes has been stored behind it: the window held back  *)
(* by nac_advance_stream, the mindata wait and the second mapping never    *)
(* keep it for ever.                                                       *)
(***************************************************************************)
RecordHandled ==
    \A k \in 1..MaxRecords :
        (/\ k <= Len(arrived) /\ written >= arrived[k].end + Safety
         /\ at # "idle" /\ api = "loop" /\ count < 0)
        ~> (shutdown \/ handled >= k)

-----------------------------------------------------------------------------
(* What the documentation says of every capture handle and this one does   *)
(* not do: see the violation runs.                                         *)

\* pcap_breakloop.3pcap: after pcap_breakloop "at most one more packet might
\* be processed" by the call in progress (a later call may process packets
\* again).  qnf_read never looks at p->break_loop.
BreakloopHeeded ==
    breakAt # None /\ ~shutdown => Len(delivered) <= breakAt + 1

\* pcap.3pcap.in: of a packet longer than snaplen "only the first snaplen
\* bytes of that packet will be captured and provided".  qnf_read drops it.
LongPacketsTruncated ==
    \A k \in 1..Len(arrived) :
        k <= handled => \E i \in 1..Len(delivered) : delivered[i] = k

\* pcap_setnonblock.3pcap: in non-blocking mode pcap_dispatch will "if no
\* packets are currently available to be read, return 0 immediately".
NonblockReturns ==
    (nonblock /\ at # "idle" /\ api = "dispatch") ~> (at = "idle")

=============================================================================
