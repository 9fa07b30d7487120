----------------------------- MODULE MCQnfHandle -----------------------------
EXTENDS QnfHandle, TLC

\* Five descriptors: two handles with two files each, and one more file.
MCFds == 3..7

\* Four places: two handles with two rings each.
MCAddrs == 0..3
MCFailures == {"open", "clone", "regs", "attach"}

\* Nothing tells the handles apart.
MCSymmetry == Permutations(Handles)
=============================================================================
