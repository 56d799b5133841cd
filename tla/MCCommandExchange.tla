------------------------- MODULE MCCommandExchange -------------------------
(* A command with a fixed response, one that may have none, and an FM-API  *)
(* command whose response varies in length.                                *)
EXTENDS CommandExchange

CONSTANTS identify, get_lsa, get_ld_info

MCCmds == {identify, get_lsa, get_ld_info}
MCFmapiCmds == {get_ld_info}
MCRspMin == [c \in MCCmds |-> IF c = identify THEN 2 ELSE IF c = get_lsa THEN 0 ELSE 1]
MCRspMax == [c \in MCCmds |-> IF c = identify THEN 2 ELSE IF c = get_lsa THEN 1 ELSE 3]
=============================================================================
