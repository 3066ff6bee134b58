--------------------------- MODULE MCAsyncIoLoop ---------------------------
(* Model values for the run of AsyncIoLoop: two reads of one stream.          *)
EXTENDS AsyncIoLoop, TLC
CONSTANTS c1, r1, r2

MCDir == [r \in Requests |-> "read"]
=============================================================================
