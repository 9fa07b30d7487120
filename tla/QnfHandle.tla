------------------------------ MODULE QnfHandle ------------------------------
(***************************************************************************)
(* The life of capture handles on a card: pcap_create, pcap_activate and   *)
(* pcap_close of pcap.c over qnf_active and qnf_platform_close of          *)
(* pcap-gap16g.c, nac_open of nacapi.c and the attach, start, stop and     *)
(* detach operations of nac_stream.c.                                      *)
(*                                                                         *)
(* The library keeps what it knows about a card in herd[], indexed by the  *)
(* number of the file descriptor; a number is used again once its file is  *)
(* closed, and so is the entry with all it says of the streams.            *)
(*                                                                         *)
(* Every ring has the same size, so a range of addresses that one ring was *)
(* mapped at is a place for another, and Addrs numbers these places.       *)
(***************************************************************************)
EXTENDS Integers, FiniteSets

CONSTANTS
    Fds,        \* descriptor numbers of the process
    Addrs,      \* places for a ring in the process's memory
    Handles,    \* pcap_t objects
    MaxOwn,     \* bound: files of its own the program has open
    Failures,   \* steps of an activation that may fail
    Serial      \* is the program single-threaded?

ASSUME HandleAssumption ==
    /\ Fds \subseteq Nat /\ Addrs \subseteq Nat
    /\ Failures \subseteq {"open", "clone", "regs", "attach"}
    /\ Serial \in BOOLEAN /\ MaxOwn \in Nat

VARIABLES
    file,       \* what each descriptor refers to
    herd,       \* herd[fd]: what the library believes of the descriptor
    maps,       \* the ring mapped at each place
    run,        \* dma_pause_n of the card's two engines
    st,         \* state of each handle
    fd,         \* p->fd
    pc,         \* where a call on the handle is
    theirs,     \* descriptors of the program's own files
    stale       \* history: a failed attach was undone through an old stream->buf

hVars == <<file, herd, maps, run, st, fd, pc, theirs, stale>>

Sides == {"rx", "tx"}
NoFd == -1
NoAddr == -1
None == [kind |-> "none"]
Other == [kind |-> "other"]
File(k, h) == [kind |-> k, by |-> h]
Files == {None, Other} \cup {File(k, h) : k \in {"nac", "iom"}, h \in Handles}

Ring(h, x) == [by |-> h, side |-> x]
Hole == [side |-> "none"]
Lost == [side |-> "lost"]

\* stream_t: the burst manager block, where the ring is mapped and the flags.
Stream == [pbm : {"null", "live", "freed"}, buf : Addrs \cup {NoAddr},
           attached : BOOLEAN, started : BOOLEAN]
Entry == [opened : BOOLEAN, rx : Stream, tx : Stream]

NoStream == [pbm |-> "null", buf |-> NoAddr, attached |-> FALSE, started |-> FALSE]
NoEntry == [opened |-> FALSE, rx |-> NoStream, tx |-> NoStream]

HandleInit ==
    /\ file = [f \in Fds |-> None]
    /\ herd = [f \in Fds |-> NoEntry]
    /\ maps = [a \in Addrs |-> Hole]
    /\ run = [x \in Sides |-> FALSE]
    /\ st = [h \in Handles |-> "none"]
    /\ fd = [h \in Handles |-> NoFd]
    /\ pc = [h \in Handles |-> "idle"]
    /\ theirs = {}
    /\ stale = FALSE

\* open(2) returns the lowest number that is free.
Opens(f) == file[f] = None /\ \A g \in Fds : g < f => file[g] # None

\* close(2): a number that is not open is EBADF and nothing happens.
Close(f) == IF f \in Fds THEN [file EXCEPT ![f] = None] ELSE file

\* mmap(2) takes the first hole that is large enough.
MapsAt(a) == maps[a] = Hole /\ \A b \in Addrs : b < a => maps[b] # Hole

\* munmap(2) of a ring: whatever is mapped at the place is gone.
Unmapped(a) == IF a \in Addrs THEN [maps EXCEPT ![a] = Hole] ELSE maps

\* A single thread calls when its last call has returned.
Turn == Serial => \A g \in Handles : pc[g] = "idle"

-----------------------------------------------------------------------------
\* pcap_create, qnf_create and pcap_alloc_pcap_t.
CreateZero(h) ==
    /\ pc[h] = "idle" /\ st[h] \in {"none", "closed"} /\ Turn
    /\ st' = [st EXCEPT ![h] = "created"]
    /\ fd' = [fd EXCEPT ![h] = 0]
    /\ UNCHANGED <<file, herd, maps, run, pc, theirs, stale>>

Create(h) ==
    /\ pc[h] = "idle" /\ st[h] \in {"none", "closed"} /\ Turn
    /\ st' = [st EXCEPT ![h] = "created"]
    /\ fd' = [fd EXCEPT ![h] = NoFd]
    /\ UNCHANGED <<file, herd, maps, run, pc, theirs, stale>>

\* pcap_activate after qnf_active returned -1; the handle may be tried again.
Failed(h) ==
    /\ st' = [st EXCEPT ![h] = "failed"]
    /\ pc' = [pc EXCEPT ![h] = "idle"]

\* pcap_activate, qnf_active and the first open of nac_open.
Activate(h) ==
    /\ pc[h] = "idle" /\ st[h] \in {"created", "failed"} /\ Turn
    /\ \/ \E f \in Fds :
            /\ Opens(f)
            /\ file' = [file EXCEPT ![f] = File("nac", h)]
            /\ fd' = [fd EXCEPT ![h] = f]
            /\ pc' = [pc EXCEPT ![h] = "clone"]
            /\ UNCHANGED st
       \/ /\ "open" \in Failures \/ \A f \in Fds : file[f] # None
          /\ Failed(h)
          /\ fd' = [fd EXCEPT ![h] = NoFd]
          /\ UNCHANGED file
    /\ UNCHANGED <<herd, maps, run, theirs, stale>>

\* The failure exit of nac_open: the entry is zeroed, the descriptors that
\* are open by then are forgotten.
NacOpenFailClosing(h) ==
    /\ Failed(h)
    /\ herd' = [herd EXCEPT ![fd[h]] = NoEntry]
    /\ file' = Close(fd[h])
    /\ UNCHANGED fd

NacOpenFail(h) ==
    /\ Failed(h)
    /\ herd' = [herd EXCEPT ![fd[h]] = NoEntry]
    /\ fd' = [fd EXCEPT ![h] = NoFd]
    /\ UNCHANGED file

\* The rest of nac_open: nac_clone, then the ioctl and mmap of the registers.
CloneFail(h) ==
    /\ pc[h] = "clone"
    /\ "clone" \in Failures \/ \A f \in Fds : file[f] # None
    /\ NacOpenFail(h)
    /\ UNCHANGED <<maps, run, theirs, stale>>

Clone(h) ==
    /\ pc[h] = "clone"
    /\ \E f \in Fds :
         /\ Opens(f)
         /\ file' = [file EXCEPT ![f] = File("iom", h)]
    /\ \/ /\ herd' = [herd EXCEPT ![fd[h]].opened = TRUE]
          /\ pc' = [pc EXCEPT ![h] = "config"]
          /\ UNCHANGED <<st, fd>>
       \/ /\ "regs" \in Failures
          /\ Failed(h)
          /\ herd' = [herd EXCEPT ![fd[h]] = NoEntry]
          /\ fd' = [fd EXCEPT ![h] = NoFd]
    /\ UNCHANGED <<maps, run, theirs, stale>>

\* nac_inline_msu_configure: new burst managers, both engines stopped.
ConfigureOnce(h) ==
    /\ pc[h] = "config"
    /\ herd' = [herd EXCEPT ![fd[h]].rx.pbm = IF @ = "null" THEN "live" ELSE @,
                            ![fd[h]].tx.pbm = IF @ = "null" THEN "live" ELSE @]
    /\ run' = [x \in Sides |-> FALSE]
    /\ pc' = [pc EXCEPT ![h] = "attach_rx"]
    /\ UNCHANGED <<file, maps, st, fd, theirs, stale>>

Configure(h) ==
    /\ pc[h] = "config"
    /\ herd' = [herd EXCEPT ![fd[h]].rx.pbm = "live", ![fd[h]].tx.pbm = "live"]
    /\ run' = [x \in Sides |-> FALSE]
    /\ pc' = [pc EXCEPT ![h] = "attach_rx"]
    /\ UNCHANGED <<file, maps, st, fd, theirs, stale>>

AttachedBefore(s, a) ==
    [s EXCEPT !.buf = IF @ = NoAddr THEN a ELSE @, !.attached = TRUE, !.started = FALSE]

Attached(s, a) == [s EXCEPT !.buf = a, !.attached = TRUE, !.started = FALSE]

(***************************************************************************)
(* The three mmaps of an attach, for side x: the first finds the place,    *)
(* the others put the ring there twice.  When one of these fails, nobody   *)
(* remembers the place; stream->buf is set at the end.                     *)
(***************************************************************************)
Attach(h, x, next, fail) ==
    \/ \E a \in Addrs :
         /\ MapsAt(a)
         /\ \/ /\ maps' = [maps EXCEPT ![a] = Ring(h, x)]
               /\ herd' = [herd EXCEPT ![fd[h]][x] = Attached(@, a)]
               /\ pc' = [pc EXCEPT ![h] = next]
            \/ /\ "attach" \in Failures
               /\ maps' = [maps EXCEPT ![a] = Lost]
               /\ pc' = [pc EXCEPT ![h] = fail]
               /\ UNCHANGED herd
    \/ /\ "attach" \in Failures \/ \A a \in Addrs : maps[a] # Hole
       /\ pc' = [pc EXCEPT ![h] = fail]
       /\ UNCHANGED <<maps, herd>>

\* nac_attach_stream and nac_set_stream_poll.
AttachRx(h) ==
    /\ pc[h] = "attach_rx"
    /\ Attach(h, "rx", "start_rx", "fail_rx")
    /\ UNCHANGED <<file, run, st, fd, theirs, stale>>

\* nac_start_stream: attached and not started by now, so it succeeds.
StartRx(h) ==
    /\ pc[h] = "start_rx"
    /\ herd' = [herd EXCEPT ![fd[h]].rx.started = TRUE]
    /\ run' = [run EXCEPT !["rx"] = TRUE]
    /\ pc' = [pc EXCEPT ![h] = "attach_tx"]
    /\ UNCHANGED <<file, maps, st, fd, theirs, stale>>

\* nac_tx_attach_stream (for COPY_FWD) and nac_tx_set_stream_poll.
AttachTx(h) ==
    /\ pc[h] = "attach_tx"
    /\ Attach(h, "tx", "start_tx", "fail_tx")
    /\ UNCHANGED <<file, run, st, fd, theirs, stale>>

\* nac_tx_start_stream, and the rest of qnf_active: the handle is active.
StartTx(h) ==
    /\ pc[h] = "start_tx"
    /\ herd' = [herd EXCEPT ![fd[h]].tx.started = TRUE]
    /\ run' = [run EXCEPT !["tx"] = TRUE]
    /\ st' = [st EXCEPT ![h] = "active"]
    /\ pc' = [pc EXCEPT ![h] = "idle"]
    /\ UNCHANGED <<file, maps, fd, theirs, stale>>

Detached(s) ==
    [s EXCEPT !.pbm = IF s.buf # NoAddr THEN "freed" ELSE @,
              !.attached = FALSE, !.started = FALSE]

\* The engine of side x is paused when the stream had a buffer.
Paused(e, x) == IF e[x].buf # NoAddr THEN FALSE ELSE run[x]

(***************************************************************************)
(* nac_detach_stream and nac_tx_detach_stream of side x: pause the engine, *)
(* free the burst manager, unmap what is at stream->buf.  Both pointers    *)
(* keep their values.                                                      *)
(***************************************************************************)
Detach(h, x) ==
    LET s == herd[fd[h]][x] IN
    /\ herd' = [herd EXCEPT ![fd[h]][x] = Detached(s)]
    /\ run' = [run EXCEPT ![x] = Paused(herd[fd[h]], x)]
    /\ maps' = Unmapped(s.buf)
    /\ stale' = (stale \/ (~s.attached /\ s.buf # NoAddr))

\* tx_attach_fail of qnf_stream_config.
FailTx(h) ==
    /\ pc[h] = "fail_tx"
    /\ Detach(h, "tx")
    /\ pc' = [pc EXCEPT ![h] = "fail_rx"]
    /\ UNCHANGED <<file, st, fd, theirs>>

\* rx_attach_fail of qnf_stream_config; p->fd stays.
FailRxKept(h) ==
    /\ pc[h] = "fail_rx"
    /\ Failed(h)
    /\ UNCHANGED <<file, herd, maps, run, fd, theirs, stale>>

FailRx(h) ==
    /\ pc[h] = "fail_rx"
    /\ Detach(h, "rx")
    /\ Failed(h)
    /\ UNCHANGED <<file, fd, theirs>>

-----------------------------------------------------------------------------
\* pcap_close: cleanup_op is qnf_platform_close only on an active handle.
CloseBegin(h) ==
    /\ pc[h] = "idle" /\ st[h] \in {"created", "active", "failed"} /\ Turn
    /\ pc' = [pc EXCEPT ![h] = IF st[h] = "active" THEN "streams" ELSE "cleanup"]
    /\ UNCHANGED <<file, herd, maps, run, st, fd, theirs, stale>>

\* qnf_stream_close up to nac_tx_stop_stream: the receive side is stopped and
\* detached, the transmit engine may still have bytes to send.
StreamCloseRx(h) ==
    /\ pc[h] = "streams"
    /\ Detach(h, "rx")
    /\ pc' = [pc EXCEPT ![h] = "drain"]
    /\ UNCHANGED <<file, st, fd, theirs>>

\* The rest of it, once record_ptr has reached limit_ptr: the wait of
\* nac_tx_stop_stream is the time spent at "drain" and has no bound.
StreamCloseTx(h) ==
    /\ pc[h] = "drain"
    /\ Detach(h, "tx")
    /\ pc' = [pc EXCEPT ![h] = "close"]
    /\ UNCHANGED <<file, st, fd, theirs>>

\* close(p->fd) of qnf_platform_close.
PlatformClose(h) ==
    /\ pc[h] = "close"
    /\ file' = Close(fd[h])
    /\ pc' = [pc EXCEPT ![h] = "cleanup"]
    /\ UNCHANGED <<herd, maps, run, st, fd, theirs, stale>>

\* pcap_cleanup_live_common, and the handle is freed.
Cleanup(h) ==
    /\ pc[h] = "cleanup"
    /\ file' = Close(fd[h])
    /\ fd' = [fd EXCEPT ![h] = NoFd]
    /\ st' = [st EXCEPT ![h] = "closed"]
    /\ pc' = [pc EXCEPT ![h] = "idle"]
    /\ UNCHANGED <<herd, maps, run, theirs, stale>>

-----------------------------------------------------------------------------
\* The program opens and closes files of its own.
OwnOpen ==
    /\ Turn
    /\ Cardinality(theirs) < MaxOwn
    /\ \E f \in Fds :
         /\ Opens(f)
         /\ file' = [file EXCEPT ![f] = Other]
         /\ theirs' = theirs \cup {f}
    /\ UNCHANGED <<herd, maps, run, st, fd, pc, stale>>

OwnClose(f) ==
    /\ Turn
    /\ f \in theirs
    /\ file' = Close(f)
    /\ theirs' = theirs \ {f}
    /\ UNCHANGED <<herd, maps, run, st, fd, pc, stale>>

Step(h) ==
    \/ Create(h) \/ Activate(h) \/ Clone(h) \/ CloneFail(h) \/ Configure(h)
    \/ AttachRx(h) \/ StartRx(h) \/ AttachTx(h) \/ StartTx(h) \/ FailTx(h) \/ FailRx(h)
    \/ CloseBegin(h) \/ StreamCloseRx(h) \/ StreamCloseTx(h) \/ PlatformClose(h) \/ Cleanup(h)

HandleNext ==
    \/ \E h \in Handles : Step(h)
    \/ OwnOpen
    \/ \E f \in Fds : OwnClose(f)

HandleSpec == HandleInit /\ [][HandleNext]_hVars

-----------------------------------------------------------------------------
(* Properties. *)

HandleTypeOK ==
    /\ file \in [Fds -> Files]
    /\ herd \in [Fds -> Entry]
    /\ maps \in [Addrs -> {Hole, Lost} \cup {Ring(h, x) : h \in Handles, x \in Sides}]
    /\ run \in [Sides -> BOOLEAN]
    /\ st \in [Handles -> {"none", "created", "active", "failed", "closed"}]
    /\ fd \in [Handles -> Fds \cup {NoFd}]
    /\ pc \in [Handles -> {"idle", "clone", "config", "attach_rx", "start_rx", "attach_tx",
                           "start_tx", "fail_tx", "fail_rx", "streams", "drain", "close", "cleanup"}]
    /\ theirs \subseteq Fds
    /\ stale \in BOOLEAN

\* The call on handle h is about to use the burst manager of side x.
UsesPbm(h, x) ==
    \/ pc[h] = IF x = "rx" THEN "start_rx" ELSE "start_tx"
    \/ /\ pc[h] \in IF x = "rx" THEN {"streams", "fail_rx"} ELSE {"drain", "fail_tx"}
       /\ herd[fd[h]][x].buf # NoAddr

(***************************************************************************)
(* Registers are reached through a burst manager block that is allocated:  *)
(* detaching frees the block and leaves the pointer, and the entry is used *)
(* again by a later handle with the same descriptor.                       *)
(***************************************************************************)
PbmLive ==
    \A h \in Handles, x \in Sides : UsesPbm(h, x) => herd[fd[h]][x].pbm = "live"

(***************************************************************************)
(* The card writes and reads memory only for a handle: when none is active *)
(* and no call is in progress, whatever failed before, both engines are    *)
(* paused (their rings may have been unmapped).                            *)
(***************************************************************************)
CardQuiet ==
    (\A h \in Handles : st[h] # "active" /\ pc[h] = "idle") => \A x \in Sides : ~run[x]

(***************************************************************************)
(* An active handle's descriptor is the device it opened, and no other     *)
(* handle has it, however handles are opened, retried and closed.          *)
(***************************************************************************)
ActiveOwnsFd ==
    \A h \in Handles : st[h] = "active" /\ pc[h] \in {"idle", "streams", "drain", "close"} =>
        /\ fd[h] \in Fds /\ file[fd[h]] = File("nac", h)
        /\ \A g \in Handles \ {h} : fd[g] # fd[h]

(***************************************************************************)
(* The rings that an active handle reads and writes are mapped where       *)
(* nac_attach_stream put them, and stay so until the handle's own close    *)
(* detaches them, whatever the other handles do.  One thing can unmap      *)
(* them: nac_detach_stream after an attach that failed on an entry used    *)
(* before, whose stream->buf is an earlier handle's; until that happens    *)
(* (stale) nothing does.                                                   *)
(***************************************************************************)
RingsStay ==
    ~stale => \A h \in Handles, x \in Sides :
        st[h] = "active" /\ pc[h] \in {"idle", "streams"} =>
            /\ herd[fd[h]][x].buf \in Addrs
            /\ maps[herd[fd[h]][x].buf] = Ring(h, x)

(***************************************************************************)
(* pcap_close "closes the files associated with p", and no others: a file  *)
(* that the program opened itself stays open until the program closes it.  *)
(* True of a single thread; with more of them, p->fd is closed a second    *)
(* time when its number may belong to somebody else.                       *)
(***************************************************************************)
OwnFilesStay ==
    [][\A f \in theirs : file[f] = Other /\ file'[f] # Other => OwnClose(f)]_hVars

-----------------------------------------------------------------------------
(* What the manual page says and the code does not do.                     *)

\* pcap_close "closes the files associated with p": no descriptor opened for
\* a handle is left once the handle is closed.
ClosedIsClean ==
    \A h \in Handles : st[h] = "closed" =>
        \A f \in Fds : file[f] \notin {File(k, h) : k \in {"nac", "iom"}}

=============================================================================
