--------------------------- MODULE MCNacTxStream ---------------------------
(* A small instance of NacTxStream for TLC. *)
EXTENDS NacTxStream

MCSizes == {2, 3, 5}

=============================================================================
