------------------------------ MODULE ToolTable ------------------------------
(***************************************************************************)
(* The subcommands of the tools that do their work with one command or one *)
(* list of pages: of mbcci-sfx those of cmd_*.c, which call a wrapper of   *)
(* the library, and those of cmd_sdb_tunnel.c, which wrap a CCI message    *)
(* they build themselves into the vendor command CCCCh; and all of         *)
(* mctp-cci.  A record keeps of one                                        *)
(*                                                                         *)
(*   via      : "direct", "tunnel" or, for mctp-cci, "mctp"                *)
(*   op       : the opcode, of the inner message for a tunnelled one       *)
(*   ok       : the option parser lets the arguments pass                  *)
(*   req, rsp : bytes of request payload and of room for the reply's       *)
(*   lookups  : commands that may be sent first to find out a size or a    *)
(*              version the options leave out                              *)
(*   locked   : a vendor command sent between VUUNLOCK and VULOCK          *)
(*   accepts  : the return codes of the device that count as success       *)
(*   pages    : how many pages are read at most; 0 for the first one and   *)
(*              no look at whether more follow                             *)
(*   measured : the length in the inner header is checked                  *)
(*                                                                         *)
(* n is the argument that sizes the command.  The other options, the       *)
(* fields of the payloads and all the printing are left out.               *)
(***************************************************************************)
EXTENDS CommandTable

CONSTANT MaxIterations   \* POISON_MAX_ITERATIONS and its three namesakes

ASSUME IterationsAssumption == MaxIterations \in Nat \ {0}

SUCCESS == 0
BACKGROUND == 1       \* CXLMI_RET_BACKGROUND
OPCODE_VU == \hCC53
VU_BYTES == 32        \* every request structure of vu_handler_def.h used here
SDB_DCD_MAX_EXTENTS == 16
DC_MAX_EXTENTS == 64
PM_MBIST_MAX_TESTS == 8

-----------------------------------------------------------------------------
(* The shapes the subcommands have *)

Subcommand(via, op, req, rsp) ==
  [via |-> via, op |-> op, ok |-> TRUE, req |-> req, rsp |-> rsp,
   lookups |-> 0, locked |-> FALSE, accepts |-> {SUCCESS}, pages |-> 1,
   measured |-> FALSE]

\* Calls the wrapper c of the library, on a device of the host.
Direct(c) == [Subcommand("direct", c.op, c.req, c.max) EXCEPT !.ok = c.ok]

\* Calls the wrapper c for an endpoint of the MCTP bus.  It takes every code
\* of the device but success for a failure.
Cci(c) == [Direct(c) EXCEPT !.via = "mctp"]

\* Builds the message itself.
Tunnel(op, req, rsp) == Subcommand("tunnel", op, req, rsp)

If(c, ok) == IF ok THEN c ELSE [c EXCEPT !.ok = FALSE]
LooksUp(c, k) == [c EXCEPT !.lookups = k]
Pages(c, most) == [c EXCEPT !.pages = most]
Measured(c) == [c EXCEPT !.measured = TRUE]
InBackground(c) == [c EXCEPT !.accepts = {SUCCESS, BACKGROUND}]
Locked(c) == [c EXCEPT !.locked = TRUE]

\* cxlmi_cmd_vendor_specific() with OPCODE_VU between unlock and lock.
Vu(rsp) == Locked(Direct(cmd_vendor_specific(OPCODE_VU, TRUE, VU_BYTES, rsp > 0, rsp)))
TunnelVu(rsp) == Locked(Tunnel(OPCODE_VU, VU_BYTES, rsp))

-----------------------------------------------------------------------------
(* The direct subcommands *)

tool_identify_memdev == Direct(cmd_memdev_identify)
tool_get_partition == Direct(cmd_memdev_get_partition_info)
tool_set_partition == Direct(cmd_memdev_set_partition_info)
tool_get_fw_info == Direct(cmd_get_fw_info)
tool_activate_fw == InBackground(Direct(cmd_activate_fw))
tool_get_health_info == Direct(cmd_memdev_get_health_info)
tool_get_alert_config == Direct(cmd_memdev_get_alert_config)
tool_set_alert_config == Direct(cmd_memdev_set_alert_config)

tool_get_poison_list_NoLimit == Pages(Direct(cmd_get_poison_list), Unlimited)

tool_get_poison_list == Pages(Direct(cmd_get_poison_list), MaxIterations)
tool_inject_poison == Direct(cmd_memdev_inject_poison)
tool_clear_poison == Direct(cmd_memdev_clear_poison)
tool_get_scan_media_cap == Direct(cmd_memdev_get_scan_media_capabilities)
tool_scan_media == InBackground(Direct(cmd_memdev_scan_media))
tool_get_scan_media_results ==
  Pages(Direct(cmd_memdev_get_scan_media_results), MaxIterations)

tool_media_operation_discovery(n) ==
  If(Direct(cmd_memdev_media_operations_discovery(n)), n > 0)
tool_media_operation_sanitize(n) ==
  If(InBackground(Direct(cmd_memdev_media_operations_sanitize(n))), n > 0)
tool_pm_ppr == InBackground(Direct(cmd_perform_maintenance(12)))
tool_pm_mbist(n) ==
  If(InBackground(Direct(cmd_perform_maintenance(6 + 32 + 32 * n))),
     n <= PM_MBIST_MAX_TESTS)

tool_get_dc_config == Direct(cmd_memdev_get_dc_config)
tool_get_dc_extent_list(n) == Direct(cmd_memdev_get_dc_extent_list(n))
tool_add_dc_response(n) ==
  If(Direct(cmd_memdev_add_dc_response(n)), n <= DC_MAX_EXTENTS)
tool_release_dc(n) == If(Direct(cmd_memdev_release_dc(n)), n <= DC_MAX_EXTENTS)

tool_get_sld_qos_ctrl == Direct(cmd_memdev_get_sld_qos_control)
tool_set_sld_qos_ctrl == Direct(cmd_memdev_set_sld_qos_control)
tool_get_sld_qos_status == Direct(cmd_memdev_get_sld_qos_status)

tool_get_event_records == Pages(Direct(cmd_get_event_records), Unlimited)
\* With --all no handle is sent.
tool_clear_event_records(n) == If(Direct(cmd_clear_event_records(n)), n <= 64)
tool_get_event_interrupt_policy == Direct(cmd_get_event_interrupt_policy)
tool_set_event_interrupt_policy == Direct(cmd_set_event_interrupt_policy)

tool_get_supported_logs == Direct(cmd_get_supported_logs)
\* Without --length the size of the log is looked up.
tool_get_log(n) == LooksUp(Direct(cmd_get_log(n)), 1)
tool_get_log_cap == Direct(cmd_get_log_capabilities)
tool_clear_log == Direct(cmd_clear_log)
tool_populate_log == Direct(cmd_populate_log)

tool_get_supported_feat(n) == Direct(cmd_get_supported_features(n))
\* Without --count, and for a feature the tool does not know, its size.
tool_get_feature(n) ==
  If(LooksUp(Direct(cmd_get_feature(n)), 1), n > 0 /\ n <= 65535)
\* The size, and without --version the version, of a feature it does not know.
tool_set_feature(n) ==
  If(LooksUp(Direct(cmd_set_feature(n)), 2),
     n > 0 /\ n <= CXL_MAILBOX_MAX_PAYLOAD_SIZE)

tool_get_timestamp == Direct(cmd_get_timestamp)
tool_set_timestamp == Direct(cmd_set_timestamp)

tool_vu_evtadd == Vu(0)
tool_vu_eccrmwinj == Vu(0)
tool_vu_ddrdparw == Vu(64)
tool_vu_ddrdbt == Vu(0)
tool_vu_dimminfo == Vu(100)
tool_vu_getdevcfg == Pages(Vu(8 + 512), Unlimited)
tool_vu_ddrfreq == Vu(0)
tool_vu_pciespeed == Vu(0)
\* The partition table is part of the request.
tool_vu_dlpt ==
  Locked(Direct(cmd_vendor_specific(OPCODE_VU, TRUE, VU_BYTES + 256, FALSE, 0)))

DirectCommands(n) ==
  {tool_identify_memdev, tool_get_partition, tool_set_partition,
   tool_get_fw_info, tool_activate_fw, tool_get_health_info,
   tool_get_alert_config, tool_set_alert_config, tool_get_poison_list,
   tool_inject_poison, tool_clear_poison, tool_get_scan_media_cap,
   tool_scan_media, tool_get_scan_media_results,
   tool_media_operation_discovery(n), tool_media_operation_sanitize(n),
   tool_pm_ppr, tool_pm_mbist(n), tool_get_dc_config,
   tool_get_dc_extent_list(n), tool_add_dc_response(n), tool_release_dc(n),
   tool_get_sld_qos_ctrl, tool_set_sld_qos_ctrl, tool_get_sld_qos_status,
   tool_get_event_records, tool_clear_event_records(n),
   tool_get_event_interrupt_policy, tool_set_event_interrupt_policy,
   tool_get_supported_logs, tool_get_log(n), tool_get_log_cap,
   tool_clear_log, tool_populate_log, tool_get_supported_feat(n),
   tool_get_feature(n), tool_set_feature(n), tool_get_timestamp,
   tool_set_timestamp, tool_vu_evtadd, tool_vu_eccrmwinj, tool_vu_ddrdparw,
   tool_vu_ddrdbt, tool_vu_dimminfo, tool_vu_getdevcfg, tool_vu_ddrfreq,
   tool_vu_pciespeed, tool_vu_dlpt}

-----------------------------------------------------------------------------
(* sdb-tunnel: status, firmware, events, timestamp *)

sdb_tunnel_identify == Tunnel(\h0001, 0, 18)
sdb_tunnel_bg_op_status == Tunnel(\h0002, 0, 8)
sdb_tunnel_get_resp_msg_limit == Tunnel(\h0003, 0, 1)
sdb_tunnel_set_resp_msg_limit == Tunnel(\h0004, 1, 1)
sdb_tunnel_bg_op_abort == Tunnel(\h0005, 0, 0)
sdb_tunnel_get_fw_info == Tunnel(\h0200, 0, 80)
sdb_tunnel_activate_fw == InBackground(Tunnel(\h0202, 2, 0))

sdb_tunnel_get_event_records ==
  Pages(Tunnel(\h0100, 1, 32 + 20 * 128), Unlimited)
\* With --all too, where the n entries are left zero and not counted.
sdb_tunnel_clear_event_records(n) ==
  If(Tunnel(\h0101, 6 + 2 * n, 0), n <= CXLMI_MAX_SUPPORTED_EVENT_RECORDS)
sdb_tunnel_get_mctp_evt_int_policy == Tunnel(\h0104, 0, 2)
\* Expects the settings back.
sdb_tunnel_set_mctp_evt_int_policy == Tunnel(\h0105, 2, 2)

sdb_tunnel_get_timestamp_NoRoom == Tunnel(\h0300, 0, 4)

sdb_tunnel_get_timestamp == Tunnel(\h0300, 0, 8)
sdb_tunnel_set_timestamp == Tunnel(\h0301, 8, 0)

-----------------------------------------------------------------------------
(* sdb-tunnel: logs, features, maintenance *)

sdb_tunnel_get_supported_logs == Tunnel(\h0400, 0, 8 + 16 * 20)
sdb_tunnel_get_log(n) == LooksUp(Tunnel(\h0401, 24, n), 1)
sdb_tunnel_get_log_cap == Tunnel(\h0402, 16, 4)
sdb_tunnel_clear_log == Tunnel(\h0403, 16, 0)
sdb_tunnel_populate_log == Tunnel(\h0404, 16, 0)

sdb_tunnel_get_supported_feat(n) == Tunnel(\h0500, 8, 8 + n)
sdb_tunnel_get_feature(n) == If(LooksUp(Tunnel(\h0501, 21, n), 1), n > 0 /\ n <= 65535)

sdb_tunnel_set_feature_AnySize(n) == If(LooksUp(Tunnel(\h0502, 32 + n, 0), 1), n > 0)

sdb_tunnel_set_feature(n) ==
  If(LooksUp(Tunnel(\h0502, 32 + n, 0), 1), n > 0 /\ n <= CXL_MAILBOX_MAX_PAYLOAD_SIZE)

sdb_tunnel_pm_ppr == InBackground(Tunnel(\h0600, 2 + 12, 0))
sdb_tunnel_pm_mbist(n) ==
  If(InBackground(Tunnel(\h0600, 2 + 6 + 32 + 32 * n, 0)), n <= PM_MBIST_MAX_TESTS)

-----------------------------------------------------------------------------
(* sdb-tunnel: memory device *)

sdb_tunnel_identify_memdev == Tunnel(\h4000, 0, 69)
sdb_tunnel_get_partition == Tunnel(\h4100, 0, 32)
sdb_tunnel_set_partition == Tunnel(\h4101, 9, 0)
sdb_tunnel_get_health_info == Tunnel(\h4200, 0, 18)
sdb_tunnel_get_alert_config == Tunnel(\h4201, 0, 16)
sdb_tunnel_set_alert_config == Tunnel(\h4202, 12, 0)

sdb_tunnel_get_poison_list ==
  Measured(Pages(Tunnel(\h4300, 16, 32 + 16 * MAX_POISON_RECORDS), MaxIterations))
sdb_tunnel_inject_poison == Tunnel(\h4301, 8, 0)
sdb_tunnel_clear_poison == Tunnel(\h4302, 72, 0)
sdb_tunnel_get_scan_media_cap == Tunnel(\h4303, 16, 4)
sdb_tunnel_scan_media == InBackground(Tunnel(\h4304, 17, 0))
sdb_tunnel_get_scan_media_results ==
  Measured(Pages(Tunnel(\h4305, 0, 32 + 16 * MAX_SCAN_MEDIA_RECORDS), MaxIterations))

sdb_tunnel_get_sld_qos_ctrl == Tunnel(\h4700, 0, 4)
sdb_tunnel_set_sld_qos_ctrl == Tunnel(\h4701, 4, 0)
sdb_tunnel_get_sld_qos_status == Tunnel(\h4702, 0, 1)

-----------------------------------------------------------------------------
(* sdb-tunnel: FM-API, vendor commands *)

sdb_tunnel_fm_get_ld_info == Tunnel(\h5400, 0, 11)
sdb_tunnel_fm_get_ld_alloc(n) == If(Tunnel(\h5401, 2, 4 + 16 * n), n \in 1 .. 255)
sdb_tunnel_fm_set_ld_alloc(n) == If(Tunnel(\h5402, 4 + 16 * n, 4 + 16 * n), n <= 255)
sdb_tunnel_fm_get_qos_ctrl == Tunnel(\h5403, 0, 7)
sdb_tunnel_fm_set_qos_ctrl == Tunnel(\h5404, 7, 7)
sdb_tunnel_fm_get_qos_status == Tunnel(\h5405, 0, 1)
sdb_tunnel_fm_get_qos_alloc_bw(n) == If(Tunnel(\h5406, 2, 2 + n), n \in 1 .. 255)
sdb_tunnel_fm_set_qos_alloc_bw(n) == If(Tunnel(\h5407, 2 + n, 2 + n), n <= 255)
sdb_tunnel_fm_get_qos_bw_limit(n) == If(Tunnel(\h5408, 2, 2 + n), n \in 1 .. 255)
sdb_tunnel_fm_set_qos_bw_limit(n) == If(Tunnel(\h5409, 2 + n, 2 + n), n <= 255)

sdb_tunnel_fm_dcd_get_info == Tunnel(\h5600, 0, 84)
sdb_tunnel_fm_dcd_get_region_config == Tunnel(\h5601, 4, 4 + 8 * 40 + 16)
sdb_tunnel_fm_dcd_set_region_config == Tunnel(\h5602, 16, 0)
sdb_tunnel_fm_dcd_get_ext_list(n) == Tunnel(\h5603, 12, 24 + 40 * n)
sdb_tunnel_fm_dcd_initiate_add(n) ==
  If(Tunnel(\h5604, 32 + 40 * n, 0), n <= SDB_DCD_MAX_EXTENTS)
sdb_tunnel_fm_dcd_initiate_release(n) ==
  If(Tunnel(\h5605, 32 + 40 * n, 0), n <= SDB_DCD_MAX_EXTENTS)
sdb_tunnel_fm_dcd_add_reference == Tunnel(\h5606, 16, 0)
sdb_tunnel_fm_dcd_remove_reference == Tunnel(\h5607, 16, 0)
sdb_tunnel_fm_dcd_list_tags(n) == Tunnel(\h5608, 8, 16 + 84 * n)

sdb_tunnel_vu_getdevcfg == Pages(TunnelVu(8 + 512), Unlimited)
sdb_tunnel_vu_ddrfreq == TunnelVu(0)
sdb_tunnel_vu_pciespeed == TunnelVu(0)

TunnelCommands(n) ==
  {sdb_tunnel_identify, sdb_tunnel_bg_op_status, sdb_tunnel_get_resp_msg_limit,
   sdb_tunnel_set_resp_msg_limit, sdb_tunnel_bg_op_abort,
   sdb_tunnel_get_fw_info, sdb_tunnel_activate_fw,
   sdb_tunnel_get_event_records, sdb_tunnel_clear_event_records(n),
   sdb_tunnel_get_mctp_evt_int_policy, sdb_tunnel_set_mctp_evt_int_policy,
   sdb_tunnel_get_timestamp, sdb_tunnel_set_timestamp,
   sdb_tunnel_get_supported_logs, sdb_tunnel_get_log(n),
   sdb_tunnel_get_log_cap, sdb_tunnel_clear_log, sdb_tunnel_populate_log,
   sdb_tunnel_get_supported_feat(n), sdb_tunnel_get_feature(n),
   sdb_tunnel_set_feature(n), sdb_tunnel_pm_ppr, sdb_tunnel_pm_mbist(n),
   sdb_tunnel_identify_memdev, sdb_tunnel_get_partition,
   sdb_tunnel_set_partition, sdb_tunnel_get_health_info,
   sdb_tunnel_get_alert_config, sdb_tunnel_set_alert_config,
   sdb_tunnel_get_poison_list, sdb_tunnel_inject_poison,
   sdb_tunnel_clear_poison, sdb_tunnel_get_scan_media_cap,
   sdb_tunnel_scan_media, sdb_tunnel_get_scan_media_results,
   sdb_tunnel_get_sld_qos_ctrl, sdb_tunnel_set_sld_qos_ctrl,
   sdb_tunnel_get_sld_qos_status, sdb_tunnel_fm_get_ld_info,
   sdb_tunnel_fm_get_ld_alloc(n), sdb_tunnel_fm_set_ld_alloc(n),
   sdb_tunnel_fm_get_qos_ctrl, sdb_tunnel_fm_set_qos_ctrl,
   sdb_tunnel_fm_get_qos_status, sdb_tunnel_fm_get_qos_alloc_bw(n),
   sdb_tunnel_fm_set_qos_alloc_bw(n), sdb_tunnel_fm_get_qos_bw_limit(n),
   sdb_tunnel_fm_set_qos_bw_limit(n), sdb_tunnel_fm_dcd_get_info,
   sdb_tunnel_fm_dcd_get_region_config, sdb_tunnel_fm_dcd_set_region_config,
   sdb_tunnel_fm_dcd_get_ext_list(n), sdb_tunnel_fm_dcd_initiate_add(n),
   sdb_tunnel_fm_dcd_initiate_release(n), sdb_tunnel_fm_dcd_add_reference,
   sdb_tunnel_fm_dcd_remove_reference, sdb_tunnel_fm_dcd_list_tags(n),
   sdb_tunnel_vu_getdevcfg, sdb_tunnel_vu_ddrfreq, sdb_tunnel_vu_pciespeed}

-----------------------------------------------------------------------------
(* mctp-cci *)

do_identify == Cci(cmd_identify)
do_bg_op_status == Cci(cmd_bg_op_status)
do_get_resp_limit == Cci(cmd_get_response_msg_limit)
do_abort == Cci(cmd_request_bg_op_abort)

do_get_events == Pages(Cci(cmd_get_event_records), 0)
do_clear_events == Cci(cmd_clear_event_records(0))
do_get_intr_policy == Cci(cmd_get_event_interrupt_policy)
do_set_intr_policy == Cci(cmd_set_event_interrupt_policy)

do_get_fw_info == Cci(cmd_get_fw_info)
\* The whole file in one command.
do_transfer_fw(n) == Cci(cmd_transfer_fw(n))
do_activate_fw == Cci(cmd_activate_fw)

do_get_ts == Cci(cmd_get_timestamp)
do_set_ts == Cci(cmd_set_timestamp)

do_get_supported_logs == Cci(cmd_get_supported_logs)
do_get_log(n) == LooksUp(Cci(cmd_get_log(n)), 1)
do_clear_log == Cci(cmd_clear_log)

do_get_supported_features(n) == If(Cci(cmd_get_supported_features(n)), n >= 48)
\* No count is set: no byte is asked for.
do_get_feature == Cci(cmd_get_feature(0))

do_memdev_identify == Cci(cmd_memdev_identify)
do_get_partition == Cci(cmd_memdev_get_partition_info)
do_set_partition == Cci(cmd_memdev_set_partition_info)
do_get_health == Cci(cmd_memdev_get_health_info)
do_get_alert == Cci(cmd_memdev_get_alert_config)
do_set_alert == Cci(cmd_memdev_set_alert_config)
do_get_poison_list == Pages(Cci(cmd_get_poison_list), 0)
do_inject_poison == Cci(cmd_memdev_inject_poison)
do_clear_poison == Cci(cmd_memdev_clear_poison)
do_sanitize == Cci(cmd_memdev_sanitize)
do_secure_erase == Cci(cmd_memdev_secure_erase)
do_get_state == Cci(cmd_memdev_get_security_state)
do_set_passphrase == Cci(cmd_memdev_set_passphrase)
do_unlock == Cci(cmd_memdev_unlock)
do_freeze == Cci(cmd_memdev_freeze_security_state)
do_get_ctrl == Cci(cmd_memdev_get_sld_qos_control)
do_set_ctrl == Cci(cmd_memdev_set_sld_qos_control)
do_get_status == Cci(cmd_memdev_get_sld_qos_status)

do_identify_sw == Cci(cmd_fmapi_identify_sw_device)
do_phys_port_state == Cci(cmd_fmapi_get_phys_port_state(1))
do_vcs_info == Cci(cmd_fmapi_get_vcs_info(16, 32))
do_get_ld_info == Cci(cmd_fmapi_get_ld_info)
do_get_ld_alloc == Cci(cmd_fmapi_get_ld_allocations(32))
do_get_multiheaded == Cci(cmd_fmapi_get_multiheaded_info(32))
do_get_dcd_info == Cci(cmd_fmapi_get_dcd_info)

do_vu_inject_event ==
  Locked(Cci(cmd_vendor_specific(OPCODE_VU, TRUE, VU_BYTES, FALSE, 0)))

CciCommands(n) ==
  {do_identify, do_bg_op_status, do_get_resp_limit, do_abort, do_get_events,
   do_clear_events, do_get_intr_policy, do_set_intr_policy, do_get_fw_info,
   do_transfer_fw(n), do_activate_fw, do_get_ts, do_set_ts,
   do_get_supported_logs, do_get_log(n), do_clear_log,
   do_get_supported_features(n), do_get_feature, do_memdev_identify,
   do_get_partition, do_set_partition, do_get_health, do_get_alert,
   do_set_alert, do_get_poison_list, do_inject_poison, do_clear_poison,
   do_sanitize, do_secure_erase, do_get_state, do_set_passphrase, do_unlock,
   do_freeze, do_get_ctrl, do_set_ctrl, do_get_status, do_identify_sw,
   do_phys_port_state, do_vcs_info, do_get_ld_info, do_get_ld_alloc,
   do_get_multiheaded, do_get_dcd_info, do_vu_inject_event}

Subcommands(n) == DirectCommands(n) \cup TunnelCommands(n) \cup CciCommands(n)
=============================================================================
