--------------------------- MODULE MCToolSession ---------------------------
(***************************************************************************)
(* Instance of ToolSession: one run may be any subcommand, the other a     *)
(* vendor command of each kind.                                            *)
(***************************************************************************)
EXTENDS ToolSession

MCArgs == {0, 1, 16, 65535}
MCOffered ==
  [p \in Runs |-> IF p = "any" THEN UNION {Subcommands(n) : n \in Args}
                  ELSE {tool_vu_ddrdbt, sdb_tunnel_vu_getdevcfg, do_vu_inject_event}]
=============================================================================
