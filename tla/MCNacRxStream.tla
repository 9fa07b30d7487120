--------------------------- MODULE MCNacRxStream ---------------------------
(* Small rings for NacRxStream: the record pointer laps the ring twice.    *)
EXTENDS NacRxStream

MCMinDatas == {0, 3}
=============================================================================
