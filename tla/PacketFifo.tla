----------------------------- MODULE PacketFifo -----------------------------
(***************************************************************************)
(* What a capture handle promises its application, whatever the device:    *)
(* packets come in, are looked at once each and in order, and the ones the *)
(* filter and the snapshot length let through are handed to the callback.  *)
(***************************************************************************)
EXTENDS Integers, Sequences

CONSTANTS
    Packets,    \* what a packet can be
    Snapshot    \* p->snapshot

VARIABLES
    inbox,      \* packets, in the order the device captured them
    done,       \* how many of them the handle has dealt with
    out,        \* the packets given to the callback, by number
    accept      \* the packets the installed filter lets through

fifoVars == <<inbox, done, out, accept>>

\* Whether a packet is for the callback.
Wanted(p, filter) == p.wlen <= Snapshot /\ p \in filter

FifoInit ==
    /\ inbox = <<>>
    /\ done = 0
    /\ out = <<>>
    /\ accept = Packets

Arrive ==
    /\ \E p \in Packets : inbox' = Append(inbox, p)
    /\ UNCHANGED <<done, out, accept>>

Take ==
    /\ done < Len(inbox)
    /\ done' = done + 1
    /\ out' = IF Wanted(inbox[done + 1], accept)
              THEN Append(out, done + 1)
              ELSE out
    /\ UNCHANGED <<inbox, accept>>

Refilter ==
    /\ accept' \in SUBSET Packets
    /\ UNCHANGED <<inbox, done, out>>

FifoNext == Arrive \/ Take \/ Refilter

FifoSpec == FifoInit /\ [][FifoNext]_fifoVars

=============================================================================
