------------------------- MODULE MCChunkedTransfer -------------------------
(***************************************************************************)
(* Instance of ChunkedTransfer: two chunk sizes, and some of the wrong     *)
(* ones, with files of up to five chunks; 32-bit numbers are scaled down,  *)
(* to 8192 values, so that 8192 becomes 0 and 10240 becomes 2048.          *)
(***************************************************************************)
EXTENDS ChunkedTransfer

MCJobs ==
  [kind : {"fw", "cfg"}, via : {"direct", "tunnel"},
   chunk : {0, 1000, 2046, 2048, 4096, 8192, 10240}]
  \cup {[kind |-> "log", via |-> "direct", chunk |-> 2048]}
MCSizes == {0, 1, 2047, 2048, 2049, 4096, 5001, 6144, 8192, 9000, 10240}
=============================================================================
