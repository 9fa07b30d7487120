# A TLA+ model of libpcap on the gap16g capture card

The repository is libpcap 1.5.3 with a capture module for the gap16g network
card ("nac" in the driver, "qnf" in libpcap). What is its own, and what this
project models first, is the path of a packet between the card and the
application: a ring in host memory that the card fills by DMA, the library that
shares it with the card through two registers, the capture module on top of it,
and the kernel module that finds the memory.

Paths below are relative to `src/libpcap-1.5.3/`.

## Inventory

| Part | State | Operations | What is hard |
|---|---|---|---|
| card DMA engines (hardware) | record and limit registers, pause bit, ring memory | store a byte, send a byte | runs between any two host instructions |
| receive stream, `gap16g/lib/nac_stream.c` | BOTTOM, TOP, mindata, sampled record pointer | start, set poll, advance | stale samples, ring ends, safety window, timeout against data |
| transmit stream, `nac_stream.c` | offset, free_space, limit copy | get space, commit, copy, stop | cached free space, waiting without a timeout, two ways to wrap |
| capture module, `pcap-gap16g.c` | window, filter, snapshot length, shutdown flag, blocking mode | read, inject, setfilter, setnonblock, activate, close | record boundaries, counts, signals, failures half-way |
| handle core, `pcap.c` | handle state, descriptor, break flag, options | create, activate, loop, dispatch, breakloop, close | what the manual pages promise of every handle |
| card library, `gap16g/lib/nacapi.c` | `herd[]`, one entry per descriptor | open, close, registers, i2c, MDIO, flash | entries used again with old contents |
| memory module, `gap16g/drv/nac_mem.c` | block table, static search start, areas, use counts | init, malloc, free, exit | gaps, alignment, retries, rounding |
| PCI driver, `gap16g/drv/nac_main.c` | device table, cdevs, mapped regions | probe, remove, open, ioctl, mmap | probe fails half-way, remove under a mapping |
| clock synchronisation, `gap16g/drv/nacts.c` | phase, frequency, CRC error counts | interrupt, timer | 64-bit fixed point, outliers |
| flow table refresh, `nac_stream.c` | a third DMA region, handshake registers | init, start, write, attach | fixed register sequence |
| savefiles, `savefile.c`, `sf-pcap.c`, `sf-pcap-ng.c` | file position, byte order, interface table | open, next packet, dump | truncation, swapping, block lengths |
| filter machine, `bpf/net/bpf_filter.c` | A, X, M[], pc | run, validate | jumps, offsets, division |
| filter compiler, `gencode.c`, `grammar.y`, `scanner.l`, `optimize.c` | block graph, register pool | gen_*, backpatch, optimize | fixpoints on graphs |
| Linux capture, `pcap-linux.c` | memory-mapped ring, kernel filter, monitor mode list | activate, read, setfilter, cleanup | a second ring shared with a kernel |
| other capture modules, device lists, link types, portability code | | | other systems, or tables |

`PROJECT.json` lists every part with its status, and the hazards at their lines.

## Modules

| Module | Models | Checked by | Proved in |
|---|---|---|---|
| `NacRxStream` | receive ring: `nac_start_stream`, `nac_set_stream_poll`, `nac_advance_stream` and the card | `rx_ring` | `NacRxStreamProofs` |
| `PacketFifo` | what a capture handle promises (abstract) | by refinement, in `capture` | |
| `QnfCapture` | `pcap_loop`, `pcap_dispatch`, `pcap_breakloop` over `qnf_read` over `NacRxStream` | `capture`, `capture_live`, three violation runs | |
| `NacTxStream` | transmit ring: get space, commit, copy, stop, and the card | `tx_ring` | `NacTxStreamProofs` |
| `NacMem` | `nac_mem.c` | `card_memory`, one violation run | `NacMemProofs` |
| `QnfHandle` | `pcap_create`, `pcap_activate`, `pcap_close`, `qnf_active`, `nac_open`, attach, start, detach | `handle_life`, two violation runs | |

`MC*.tla` give the constants their values for TLC. Definitions named like
another one with a suffix (`WRSAFEZero`, `ShrinkPast`, ...) are deliberate
mistakes: each one is put in the place of the definition after it to see the
property it is meant for fail.

### NacRxStream

Positions are offsets from `stream->buf`. The ring is mapped twice in a row, so
BOTTOM and TOP run over both mappings, and `Mirror` leads back to the cell.
Bytes are numbered as the card stores them and a cell holds the number of the
byte in it: "the right byte" is then an equation, and an overwritten byte is a
number one lap too high. `nac_advance_stream` is six actions, one per register
access: `AdvanceEnter` (normalise BOTTOM, sample the record pointer),
`PauseDma`, `WriteLimit`, `ResumeDma`, `PollRecord` (any number of times, until
mindata or the timeout), `AdvanceReturn` (compute TOP). `CardWrite` may happen
between any two of them. `Consume` is the client moving BOTTOM.

The card is not in the repository. It is assumed to stop when its record
pointer equals the limit pointer, and to wrap when it stores the next byte, not
when it reaches the end: WRSAFE never writes the start of the ring and
`nac_advance_stream` accepts the ring's end as a record pointer.

### QnfCapture and PacketFifo

The card stores records: a header with the record and wire lengths, then the
packet. `Call`, `AdvanceBegin`, `AdvanceStep`, `AdvanceEnd`, `DrainRecord` and
`DrainEnd` are `qnf_read`; `Return` is what `pcap_loop` or `pcap_dispatch` does
with its result. Where the reader finds a header is decided by what is in the
ring at BOTTOM, not by a list the model keeps, so a lost record boundary is a
state in which no header is there. `SetNonblock`, `SetFilter`, `Breakloop` and
`Signal` are the other entry points; `breakAt` is the break flag's history and
belongs to the call in progress. `AdvanceEnd` has no branch for the `TOP == NULL`
of `pcap-gap16g.c:355`: `nac_advance_stream` returns NULL only for a descriptor
that is not open or a stream that is not attached, and the model starts from an
active handle. `PacketFifo` is the abstract handle: a
packet arrives, and is later taken once, in order, and given to the callback if
it fits the snapshot length and the filter. `ImplementsFifo` is its
specification under the mapping at the top of `QnfCapture`.

### NacTxStream

The mirror image: the host writes at `offset` and moves the limit, the card
sends up to the limit. The two host paths treat the end of the ring in two ways
(`AdvanceCommit`, `AdvanceCopy`), which need two kinds of card; `path` chooses
one of them, with its card, for a whole behaviour. What the card really does
is not in the source, so the results say that each path is right on a card that
wraps as it does, and nothing of the other card. A program that mixes both
paths on one stream is outside the model. `CopyPoll` reads the two
registers in one step: only this thread writes the limit, and a record pointer
read earlier only makes the result smaller.

### NacMem

A block is `PAGE_SIZE << gfporder` bytes and addresses are block numbers.
`AllocPtable` takes any set of blocks that the kernel may hand out, sorted;
`FindBegin`, `ScanFound`, `ScanNext` and `ScanFail` are `nac_mem_findcontig`
slot by slot, with its static `cstart`; `Shrink` is the retry of `nac_mem` with
half the size; `MarkReserved` is the loop over `PG_reserved`; `FreePtable`
returns the rest of the low table and the whole high one. Blocks above 4 GB
(`High`) go into the high table unsearched, as in `nac_mem_alloc_ptable`. All
blocks have one size: `Piece` is the outcome of the loop at `nac_mem.c:341-351`,
which lowers the order until the kernel has a block of it.

`MallocFind` and `MallocTake` are `nac_mem_malloc` before and after the end of
its search, with `nac_mem_lock` held in between, so that calls of several
probing units interleave as far as the lock lets them; `Free` changes one count
under the lock and is one step; `Exit` unloads the module. `msize` is the
in/out size: what the caller asks for, then what it was told (`Granted`).
`kernelFree` is the page allocator, which is how a block that is freed while a
card uses it shows; it may refuse a block that is still marked reserved.

### QnfHandle

`herd[]` is indexed by descriptor number, and numbers are used again: the
lowest free one is given out, as `open(2)` does. An entry keeps what the last
handle left in it, unless `nac_open` failed. Each of the steps of `qnf_active`
that can fail has its failure branch, and `Failures` says which of them may
fail for a reason outside the model. `pcap_close` is five steps: its beginning,
the receive side, the transmit side, and the two closes of `p->fd`. The
unbounded wait of `nac_tx_stop_stream` is the time a handle spends at `drain`;
`NacTxStream` has the wait itself.

`maps` is the process's memory, as places that hold a ring each. All rings have
the same size, so a place that was unmapped is the first that the next `mmap`
finds, and an old `stream->buf` may point at somebody else's ring. `Lost` is a
place that an attach reserved before one of its later `mmap`s failed. `stale`
records that a failed attach was undone through a `buf` that an earlier handle
left in the entry.
 `Serial` says that the program has one thread: then
neither its other library calls nor its own files come between the steps of a
call. `exit(-1)` when memory for the burst managers runs out ends the process
and is left out, and so is the device's register mapping, which nothing
unmaps.

## Runs

Passing runs:

* `rx_ring`: ring of 12 bytes, safety window of 4, 30 bytes captured: more than
  two laps, so that every combination of BOTTOM's and the card's lap occurs,
  with the ring full, empty and aligned or not. `WindowIntact` and
  `UnreadIntact` say that the client reads what was captured and that nothing
  unread is overwritten; `LimitBehindBottom` that the grant is never more than
  one ring; `LimitMonotone` that it is never taken back.
* `capture`: ring of 8 bytes, records of 2 and 3 bytes and one whose packet is
  longer than the snapshot length, counts -1, 0 and 2, two filters, both
  blocking modes, 12 bytes captured (up to six records; the second lap is under
  way). `FrameSync`, `LastPacketIntact`, `CountHonoured`
  and the refinement.
* `capture_live`: the same with signals and `pcap_breakloop`, 10 bytes, under
  fairness. A call ends after a signal; a record is dealt with once a safety
  window has followed it.
* `tx_ring`: ring of 7 bytes, sizes 2, 3 and 5, 22 bytes: three laps on each
  path. Nothing uncommitted is sent, nothing pending is
  overwritten, the cached free space is real, stopping drains, calls return.
* `card_memory`: every sorted table of up to six of seven low blocks, with and
  without a block above 4 GB, areas of 4, 2 or 1 blocks aligned to 2 blocks, two
  cards, three units that ask for everything, for less than an area and for
  more. `AreasSound`, `AreasKept` and `NothingLost` are about the search and
  the unloading, `LentOnce` about concurrent probes: the memory two units were
  told they have is disjoint.
* `handle_life`: two handles, five descriptor numbers, four places for rings and
  one file of the program's own in one thread, every sequence of create,
  activate with any failure, retry and close, until the descriptors leak away.
  `PbmLive`, `CardQuiet`, `ActiveOwnsFd`, `OwnFilesStay`, and `RingsStay`: an
  active handle's rings stay mapped, up to the first stale unmapping (below).

Violation runs, each with one property that quotes what is written down and a
finding in `PROJECT.json`:

* `breakloop_ignored`: `qnf_read` never looks at the flag `pcap_breakloop` sets,
  so the call in progress goes on.
* `nonblock_waits`: in non-blocking mode `pcap_dispatch` waits for a packet.
* `snaplen_drops`: a packet longer than the snapshot length is dropped, not
  truncated.
* `odd_share_freed`: a card's share of memory that is not a whole number of
  blocks (three cards on a 32-bit kernel) loses its last block to the kernel.
* `close_leaks`: with activations that never fail, `qnf_platform_close` leaves
  the handle's `/dev/naciom` open.
* `closed_twice`: with several threads the second `close(p->fd)` hits another
  thread's file.

Other disagreements between code and documents, met while modelling and visible
in the modules, without a run of their own:

* `Call`: a count of 0 returns -2 at once (`pcap-gap16g.c:346`), which
  `pcap_loop.3pcap:57-60` calls equivalent to infinity.
* `qnf_read` sets `caplen` to `rlen`, header included (`pcap-gap16g.c:380`);
  `pcap/pcap.h:167` calls it the length of the portion present.
* `TopOf`: the last safety window of bytes is held back in immediate mode too
  (`nac_stream.c:922`); `pcap-int.h:94` says as soon as they arrive. This is why
  `RecordHandled` asks for a safety window behind the record.
* `CopyBytes`: `nac_tx_stream_copy_bytes` accepts sizes up to the ring's
  (`nac_stream.c:1388`) and waits for ever for the last `SAFETY_WINDOW` of them.
  This is why `SpaceComes` excludes them.
* `ScanFail`: a failed search restarts from slot 0 (`nac_mem.c:487`), which is
  empty once an earlier card's area started there, so that every retry with a
  smaller size fails at once (`nac_mem.c:450`), whatever is left in the table.
* `NacOpenFail`: the failure exit of `nac_open` (`nacapi.c:155-161`) forgets
  `/dev/nac`, and `/dev/naciom` once `nac_clone` has opened it.
* `Detach`: an attach that fails on a descriptor used before is followed by a
  detach that unmaps the earlier handle's `stream->buf` (`nac_stream.c:963`); by
  then another handle's ring may be there. `RingsStay` without its
  hypothesis `~stale` fails this way.
* `Attach`: when its second or third `mmap` fails, the range of the first one
  stays mapped (`nac_stream.c:675-687`).

The bounds are `MaxWritten` and `MaxQueued` (bytes through a ring), `MaxOwn`
(files of the program's own), and the constants of the `.cfg` files; the sets of blocks and descriptors bound
themselves. Deadlock is not checked where the system does stop: a transmit
stream that was stopped, a memory module that was unloaded.

## Fairness

* `QnfFair`: a thread inside `pcap_loop` or `pcap_dispatch` keeps running, and
  the clock it compares with advances, so that the poll of
  `nac_advance_stream` ends. Nothing is assumed of the card or of signals.
* `TxFair`: the card sends what was committed, which is what the unlimited
  waits of the transmit calls rely on, and a thread inside a call keeps
  running.
* `MemFair`: the module's initialisation, one thread without waiting, goes on.

## Proofs

The theorems hold for every value of the constants that the named assumptions
allow. Each proof module follows one pattern: an invariant that is inductive,
one lemma per action, and the properties as consequences.

* `NacRxStreamProofs` (`RingAssumption`: the ring holds a safety window, the
  second mapping is at most a ring): `TypeOK`, `WindowIntact`, `UnreadIntact`,
  `LimitBehindBottom` and `LimitMonotone`. None of them is inductive. `RxInv`
  places the card, the grant, the sample and TOP relative to BOTTOM's lap:
  `RecPhase` (the card is in this lap or the next), `LimitSafe` (the grant is
  what the last aligned BOTTOM allows, by `Slack`), `OffsetSafe` (a sample may
  be old, never ahead) and `TopSafe`. The heart is `WriteLimitGrant`: the limit
  written from an aligned BOTTOM, whichever end of the ring it falls on, is
  exactly `Slack` beyond one ring from the base.
* `NacTxStreamProofs` (`TxAssumption`): `TxTypeOK`, `NothingUncommittedSent`,
  `PendingIntact`, `FreeSpaceReal` and `StopDrains`. `TxInv` adds that the
  record pointer is in offset's lap or the one before (`SendPhase`), that a
  call leaves `Spare` bytes (`PendingBound`, without which equal registers
  would not mean an empty ring) and what was written but not committed.
* `NacMemProofs` (`MemAssumption`, and `WholeBlocks`: every size that is tried
  is a whole number of blocks): `MemTypeOK`, `AreasSound`, `AreasKept`,
  `LentOnce` and `NothingLost`. `MemInv` says that every block is free, in a
  table or in an area and in one of them only (`Partition`), that the table is
  descending apart from its holes, that slots `cstart..i-1` are one run
  (`RunInv`), that the marked blocks are those of the areas (`MarkInv`), that a
  lent area is counted once and no smaller than its unit was told (`LendInv`),
  and that only the holder of the lock is inside `nac_mem_malloc` and the area
  it found is still idle (`LockInv`). `LentOnce` follows: two units hold
  different areas, and areas are disjoint. The key lemma `FoundArea` shows that the area found is exactly
  what the cleared slots held. `odd_share_freed` is what happens without
  `WholeBlocks`.

Only model-checked: liveness (`ShutdownReturns`, `RecordHandled`, `SpaceComes`,
`InitEnds`), which is out of the prover's reach; the properties of `QnfCapture`
and its refinement, and those of `QnfHandle`.

## Not modelled, and the plan

Next, in this order:

1. `NacDriver`: probe with its failure exits, remove, open, ioctl and mmap, over
   `NacMem`; properties: an area is lent exactly while a device has it, a
   failed probe leaves nothing behind (expected to fail), a mapping never
   outlives its area.
2. The rest of `nac_stream.c`: restarting streams, `nac_get_next_record`,
   `nac_inline_advance_stream`, the layout of the DMA regions, the flow table
   handshake.
3. `nacts.c`: the clock synchronisation in 64-bit arithmetic.
4. The handle core: options, one-shot calls, offline and dead handles, the
   interface list.
5. Savefiles: reader and writer, `pcap` and `pcapng`, in both byte orders; a
   written file reads back.
6. The filter machine against `bpf_validate`: a validated program ends, within
   its memory and its packet.
7. The Linux ring in its three versions, and installing a filter in the kernel
   while packets are queued.
8. The optimizer on small graphs against the unoptimized program, and the
   backpatching of `gencode.c`.
9. Proofs: the properties of `QnfHandle`, the refinement of `PacketFifo` (initial
   states and steps), the driver's invariants.

Not planned: capture modules of other systems and cards, the scanner and the
protocol tables, printing, replacements of system functions, and the division
routines copied from the compiler's library.
