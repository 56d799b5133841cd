-------------------------- MODULE MCMctpTransport --------------------------
(* Small instances of MctpTransport: one CCI command with a fixed response *)
(* and one FM-API command whose response varies in length.                 *)
EXTENDS MctpTransport

CONSTANTS identify, get_ld_info

MCCmds == {identify, get_ld_info}
MCFmapiCmds == {get_ld_info}
MCRspMin == [c \in MCCmds |-> IF c = identify THEN 2 ELSE 0]
MCRspMax == [c \in MCCmds |-> IF c = identify THEN 2 ELSE 1]

=============================================================================
