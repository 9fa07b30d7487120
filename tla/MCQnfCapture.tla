---------------------------- MODULE MCQnfCapture ----------------------------
(* Small instances of QnfCapture for TLC. *)
EXTENDS QnfCapture

Short == [rlen |-> 2, wlen |-> 1]
Long  == [rlen |-> 3, wlen |-> 4]

Huge  == [rlen |-> 2, wlen |-> 5]

MCPackets  == {Short, Long}
MCAllPackets == {Short, Long, Huge}
MCMinDatas == {0, 3}
MCFilters  == {{Short, Huge}, {Short, Long, Huge}}
MCCounts   == {-1, 0, 2}
MCLoop     == {-1}
MCNoFilter == {{Short, Long}}

=============================================================================
