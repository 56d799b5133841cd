--------------------------- MODULE MCCommandCodec ---------------------------
(* Every wrapper with arguments at and around its limits: the supported     *)
(* logs of one reply (16), the media records of a mailbox (126), the        *)
(* operations and ranges of Media Operations (1018, 127), a byte (255), the *)
(* data of a feature (2048) and of an LD memory request (4096).             *)
EXTENDS CommandCodec

MCArgs == {0, 1, 2, 8, 9, 15, 16, 17, 47, 48, 126, 127, 128, 255, 256, 1018, 1019,
           2048, 4096, 4097}
=============================================================================
