---------------------------- MODULE CommandTable ----------------------------
(***************************************************************************)
(* The command wrappers of src/cxlmi/commands.c.  A wrapper checks its     *)
(* arguments, arms a request, says how long the reply may be, sends, and   *)
(* decodes the reply into the caller's structure.  A record keeps of it    *)
(*                                                                         *)
(*   op       : the opcode, command set and command                        *)
(*   ok       : the wrapper's own checks let the arguments pass            *)
(*   req      : bytes of request payload                                   *)
(*   min, max : rsp_sz_min and rsp_sz, less the message header             *)
(*   hdr, ent : bytes decoded whatever the reply says, and per entry       *)
(*   asked    : entries a conforming device may return                     *)
(*   cap      : the wrapper's own limit on the entries it decodes          *)
(*   carried  : the entries decoded are cut to those pl_length has room for*)
(*   checked  : a failed exchange returns before the reply is decoded      *)
(*                                                                         *)
(* n is the argument that sizes the command: the entries sent or asked     *)
(* for, or the length of the data.  The contents of the fields are left    *)
(* out.                                                                    *)
(***************************************************************************)
EXTENDS Integers

CXL_MAILBOX_MAX_PAYLOAD_SIZE == 2048
CXLMI_MAX_SUPPORTED_EVENT_RECORDS == 20
CXLMI_MAX_SUPPORTED_LOGS == 16
MAX_POISON_RECORDS == (CXL_MAILBOX_MAX_PAYLOAD_SIZE - 32) \div 16
MAX_SCAN_MEDIA_RECORDS == (CXL_MAILBOX_MAX_PAYLOAD_SIZE - 32) \div 16
MAX_MEDIA_OPS_SUPPORTED == (CXL_MAILBOX_MAX_PAYLOAD_SIZE - 12) \div 2
MAX_MEDIA_OPS_DPA_RANGES == (CXL_MAILBOX_MAX_PAYLOAD_SIZE - 8) \div 16
FEATURE_DATA == 2048    \* feature_data[] of the caller's structure

Unlimited == \h100000   \* more entries than pl_length, of 20 bits, counts bytes

AtMost(a, b) == IF a < b THEN a ELSE b

\* Counts the request structures hold in one byte and in two.
u8(n) == n % 256
u16(n) == n % 65536

-----------------------------------------------------------------------------
(* The shapes the wrappers have *)

\* A reply of min to max bytes, all of max decoded.
Reply(op, req, min, max) ==
  [op |-> op, ok |-> TRUE, req |-> req, min |-> min, max |-> max,
   hdr |-> max, ent |-> 0, asked |-> 0, cap |-> Unlimited,
   carried |-> FALSE, checked |-> TRUE]

\* A reply of one size.
Fixed(op, req, rsp) == Reply(op, req, rsp, rsp)

\* No reply payload.
Ack(op, req) == Fixed(op, req, 0)

\* hdr bytes, then entries: room for slots of them, least of them expected.
List(op, req, hdr, ent, least, asked, slots) ==
  [Reply(op, req, hdr + least * ent, hdr + slots * ent)
     EXCEPT !.hdr = hdr, !.ent = ent, !.asked = asked]

\* Exactly as many entries as asked for.
Exactly(op, req, hdr, ent, n) == List(op, req, hdr, ent, n, n, n)

\* Any number of entries up to the one asked for.
UpTo(op, req, hdr, ent, n) == List(op, req, hdr, ent, 0, n, n)

-----------------------------------------------------------------------------
(* Information and status, events, firmware, timestamp *)

cmd_identify == Fixed(\h0001, 0, 18)
cmd_bg_op_status == Fixed(\h0002, 0, 8)
cmd_get_response_msg_limit == Fixed(\h0003, 0, 1)
cmd_set_response_msg_limit == Fixed(\h0004, 1, 1)
cmd_request_bg_op_abort == Ack(\h0005, 0)

cmd_get_event_records_Unchecked ==
  [UpTo(\h0100, 1, 32, 128, CXLMI_MAX_SUPPORTED_EVENT_RECORDS)
     EXCEPT !.checked = FALSE]

cmd_get_event_records ==
  UpTo(\h0100, 1, 32, 128, CXLMI_MAX_SUPPORTED_EVENT_RECORDS)
cmd_clear_event_records(n) == Ack(\h0101, 6 + 2 * u8(n))
cmd_get_event_interrupt_policy == Fixed(\h0102, 0, 5)
cmd_set_event_interrupt_policy == Ack(\h0103, 5)
cmd_get_mctp_event_interrupt_policy == Fixed(\h0104, 0, 2)
cmd_set_mctp_event_interrupt_policy == Ack(\h0105, 2)
cmd_event_notification == Ack(\h0106, 2)

cmd_get_fw_info == Fixed(\h0200, 0, 80)
cmd_transfer_fw(n) == Ack(\h0201, 128 + n)
cmd_activate_fw == Ack(\h0202, 2)

cmd_get_timestamp == Fixed(\h0300, 0, 8)
cmd_set_timestamp == Ack(\h0301, 8)

-----------------------------------------------------------------------------
(* Logs, features, maintenance *)

cmd_get_supported_logs_NoLimit ==
  UpTo(\h0400, 0, 8, 20, CXLMI_MAX_SUPPORTED_LOGS)

cmd_get_supported_logs ==
  [UpTo(\h0400, 0, 8, 20, CXLMI_MAX_SUPPORTED_LOGS)
     EXCEPT !.cap = CXLMI_MAX_SUPPORTED_LOGS]
cmd_get_log(n) == Fixed(\h0401, 24, n)
\* Whole entries of four bytes are decoded.
cmd_get_log_cel(n) == [Fixed(\h0401, 24, n) EXCEPT !.hdr = 4 * (n \div 4)]
cmd_get_log_capabilities == Fixed(\h0402, 16, 4)
cmd_clear_log == Ack(\h0403, 16)
cmd_populate_log == Ack(\h0404, 16)
\* rsp_sz, with room for 16 logs whatever n is, stands for both lengths.
cmd_get_supported_logs_sublist(n) ==
  [List(\h0405, 2, 8, 20, CXLMI_MAX_SUPPORTED_LOGS, u8(n), CXLMI_MAX_SUPPORTED_LOGS)
     EXCEPT !.cap = CXLMI_MAX_SUPPORTED_LOGS]

\* n bytes of entries are asked for, not n entries.
cmd_get_supported_features(n) ==
  [Reply(\h0500, 8, 8, 8 + n)
     EXCEPT !.hdr = 8, !.ent = 48, !.asked = n \div 48]
\* n bytes are copied out of the buffer, however many came.
cmd_get_feature(n) == [Reply(\h0501, 21, 0, FEATURE_DATA) EXCEPT !.hdr = u16(n)]
cmd_set_feature(n) == Ack(\h0502, 32 + n)
cmd_perform_maintenance(n) == Ack(\h0600, 2 + n)

-----------------------------------------------------------------------------
(* Memory devices *)

cmd_memdev_identify == Fixed(\h4000, 0, 69)
cmd_memdev_get_partition_info == Fixed(\h4100, 0, 32)
cmd_memdev_set_partition_info == Ack(\h4101, 9)
cmd_memdev_get_lsa(n) == Fixed(\h4102, 8, n)
cmd_memdev_set_lsa(n) == Ack(\h4103, 8 + n)
cmd_memdev_get_health_info == Fixed(\h4200, 0, 18)
cmd_memdev_get_alert_config == Fixed(\h4201, 0, 16)
cmd_memdev_set_alert_config == Ack(\h4202, 12)
cmd_memdev_get_shutdown_state == Fixed(\h4203, 0, 1)
cmd_memdev_set_shutdown_state == Ack(\h4204, 1)

cmd_get_poison_list_CountOnly ==
  [UpTo(\h4300, 16, 32, 16, MAX_POISON_RECORDS) EXCEPT !.cap = MAX_POISON_RECORDS]

cmd_get_poison_list ==
  [UpTo(\h4300, 16, 32, 16, MAX_POISON_RECORDS)
     EXCEPT !.cap = MAX_POISON_RECORDS, !.carried = TRUE]

cmd_memdev_inject_poison == Ack(\h4301, 8)
cmd_memdev_clear_poison == Ack(\h4302, 72)
cmd_memdev_get_scan_media_capabilities == Fixed(\h4303, 16, 4)
cmd_memdev_scan_media == Ack(\h4304, 17)
cmd_memdev_get_scan_media_results ==
  [UpTo(\h4305, 0, 32, 16, MAX_SCAN_MEDIA_RECORDS)
     EXCEPT !.cap = MAX_SCAN_MEDIA_RECORDS, !.carried = TRUE]

cmd_memdev_sanitize == Ack(\h4400, 0)
cmd_memdev_secure_erase == Ack(\h4401, 0)
cmd_memdev_media_operations_discovery(n) ==
  [UpTo(\h4402, 12, 12, 2, n)
     EXCEPT !.ok = n <= MAX_MEDIA_OPS_SUPPORTED,
            !.cap = AtMost(n, MAX_MEDIA_OPS_SUPPORTED), !.carried = TRUE]

cmd_memdev_media_operations_sanitize_OneMore(n) ==
  [Ack(\h4402, 8 + 16 * n) EXCEPT !.ok = n <= MAX_MEDIA_OPS_DPA_RANGES + 1]

cmd_memdev_media_operations_sanitize(n) ==
  [Ack(\h4402, 8 + 16 * n) EXCEPT !.ok = n <= MAX_MEDIA_OPS_DPA_RANGES]

cmd_memdev_get_security_state == Fixed(\h4500, 0, 4)
cmd_memdev_set_passphrase == Ack(\h4501, 96)
cmd_memdev_disable_passphrase == Ack(\h4502, 64)
cmd_memdev_unlock == Ack(\h4503, 32)
cmd_memdev_freeze_security_state == Ack(\h4504, 0)
cmd_memdev_passphrase_secure_erase == Ack(\h4505, 64)

cmd_memdev_security_send(n) == Ack(\h4600, 8 + n)
\* n is the protocol: only the one that lists the others is known.
cmd_memdev_security_receive(n) ==
  [Fixed(\h4601, 8, 6 + 2 + 256) EXCEPT !.ok = n = 0]

cmd_memdev_get_sld_qos_control == Fixed(\h4700, 0, 4)
cmd_memdev_set_sld_qos_control == Ack(\h4701, 4)
cmd_memdev_get_sld_qos_status == Fixed(\h4702, 0, 1)

\* Eight regions fit; four counters follow the last region returned.
cmd_memdev_get_dc_config == List(\h4800, 2, 8 + 16, 40, 0, 8, 8)
cmd_memdev_get_dc_extent_list(n) ==
  List(\h4801, 8, 16, 40, 0, IF n = 0 THEN 8 ELSE AtMost(n, 8), 8)
cmd_memdev_add_dc_response(n) == Ack(\h4802, 8 + 24 * n)
cmd_memdev_release_dc(n) == Ack(\h4803, 8 + 24 * n)

-----------------------------------------------------------------------------
(* FM-API *)

cmd_fmapi_identify_sw_device == Fixed(\h5100, 0, 73)
cmd_fmapi_get_phys_port_state(n) == Exactly(\h5101, 1 + u8(n), 4, 16, u8(n))
cmd_fmapi_phys_port_control == Ack(\h5102, 2)
cmd_fmapi_send_ppb_cxlio_config_request == Fixed(\h5103, 8, 4)
cmd_fmapi_get_domain_validation_sv_state == Fixed(\h5104, 0, 1)
cmd_fmapi_set_domain_validation_sv == Ack(\h5105, 16)
cmd_fmapi_get_vcs_domain_validation_sv_state == Fixed(\h5106, 1, 1)
cmd_fmapi_get_domain_validation_sv == Fixed(\h5107, 1, 16)

\* n VCSs with k vPPBs each; the whole buffer is copied, however much came.
cmd_fmapi_get_vcs_info(n, k) ==
  Reply(\h5200, 3 + u8(n), 4 + 4 + 4, 4 + u8(n) * (4 + u8(k) * 4))
cmd_fmapi_bind_vppb == Ack(\h5201, 6)
cmd_fmapi_unbind_vppb == Ack(\h5202, 3)

cmd_fmapi_send_ld_cxlio_config_request == Fixed(\h5301, 12, 4)
\* Data of more than 4 KB is cut; the reply says how much of it is data.
cmd_fmapi_send_ld_cxlio_mem_request(n) ==
  Exactly(\h5302, 15 + AtMost(n, 4096), 4, 1, AtMost(n, 4096))

cmd_fmapi_get_ld_info == Fixed(\h5400, 0, 11)
cmd_fmapi_get_ld_allocations(n) == Exactly(\h5401, 2, 4, 16, u8(n))
cmd_fmapi_set_ld_allocations(n) == Exactly(\h5402, 4 + 16 * u8(n), 4, 16, u8(n))
cmd_fmapi_get_qos_control == Fixed(\h5403, 0, 7)
cmd_fmapi_set_qos_control == Fixed(\h5404, 7, 7)
cmd_fmapi_get_qos_status == Fixed(\h5405, 0, 1)
cmd_fmapi_get_qos_allocated_bw(n) == Exactly(\h5406, 2, 2, 1, u8(n))
cmd_fmapi_set_qos_allocated_bw(n) == Exactly(\h5407, 2 + u8(n), 2, 1, u8(n))
cmd_fmapi_get_qos_bw_limit(n) == Exactly(\h5408, 2, 2, 1, u8(n))
cmd_fmapi_set_qos_bw_limit(n) == Exactly(\h5409, 2 + u8(n), 2, 1, u8(n))

\* "ld_map_list_limit only sets max returned. Min returned should be 1"
cmd_fmapi_get_multiheaded_info(n) == List(\h5500, 2, 8, 1, 1, u8(n), u8(n))
cmd_fmapi_get_head_info(n) == Exactly(\h5501, 2, 4, 9, u8(n))

cmd_fmapi_get_dcd_info == Fixed(\h5600, 0, 84)
cmd_fmapi_get_dc_reg_config == List(\h5601, 4, 4 + 16, 40, 0, 8, 8)
cmd_fmapi_set_dc_region_config == Ack(\h5602, 16)
cmd_fmapi_get_dc_region_ext_list(n) == UpTo(\h5603, 12, 24, 40, n)
cmd_fmapi_initiate_dc_add(n) == Ack(\h5604, 32 + 40 * n)
cmd_fmapi_initiate_dc_release(n) == Ack(\h5605, 32 + 40 * n)
cmd_fmapi_dc_add_reference == Ack(\h5606, 16)
cmd_fmapi_dc_remove_reference == Ack(\h5607, 16)
\* The return code of the exchange is looked at after the reply is decoded.
cmd_fmapi_dc_list_tags(n) ==
  [UpTo(\h5608, 8, 16, 84, n) EXCEPT !.checked = FALSE]

-----------------------------------------------------------------------------
(* Vendor commands *)

\* in_size and ret_size go with the pointers in and ret, or the call fails.
cmd_vendor_specific(opcode, in, in_size, ret, ret_size) ==
  [Fixed(opcode, in_size, ret_size)
     EXCEPT !.ok = opcode >= \hC000 /\ (in <=> in_size > 0)
                                    /\ (ret <=> ret_size > 0)]

-----------------------------------------------------------------------------
(* All of them, with the argument n *)

Generic(n) ==
  {cmd_identify, cmd_bg_op_status, cmd_get_response_msg_limit,
   cmd_set_response_msg_limit, cmd_request_bg_op_abort, cmd_get_event_records,
   cmd_clear_event_records(n), cmd_get_event_interrupt_policy,
   cmd_set_event_interrupt_policy, cmd_get_mctp_event_interrupt_policy,
   cmd_set_mctp_event_interrupt_policy, cmd_event_notification,
   cmd_get_fw_info, cmd_transfer_fw(n), cmd_activate_fw, cmd_get_timestamp,
   cmd_set_timestamp, cmd_get_supported_logs, cmd_get_log(n),
   cmd_get_log_cel(n), cmd_get_log_capabilities, cmd_clear_log,
   cmd_populate_log, cmd_get_supported_logs_sublist(n),
   cmd_get_supported_features(n), cmd_get_feature(n),
   cmd_set_feature(n),
   cmd_perform_maintenance(n)}

Memdev(n) ==
  {cmd_memdev_identify, cmd_memdev_get_partition_info,
   cmd_memdev_set_partition_info, cmd_memdev_get_lsa(n),
   cmd_memdev_set_lsa(n), cmd_memdev_get_health_info,
   cmd_memdev_get_alert_config, cmd_memdev_set_alert_config,
   cmd_memdev_get_shutdown_state, cmd_memdev_set_shutdown_state,
   cmd_get_poison_list, cmd_memdev_inject_poison,
   cmd_memdev_clear_poison, cmd_memdev_get_scan_media_capabilities,
   cmd_memdev_scan_media, cmd_memdev_get_scan_media_results,
   cmd_memdev_sanitize, cmd_memdev_secure_erase,
   cmd_memdev_media_operations_discovery(n),
   cmd_memdev_media_operations_sanitize(n), cmd_memdev_get_security_state,
   cmd_memdev_set_passphrase, cmd_memdev_disable_passphrase,
   cmd_memdev_unlock, cmd_memdev_freeze_security_state,
   cmd_memdev_passphrase_secure_erase, cmd_memdev_security_send(n),
   cmd_memdev_security_receive(n), cmd_memdev_get_sld_qos_control,
   cmd_memdev_set_sld_qos_control, cmd_memdev_get_sld_qos_status,
   cmd_memdev_get_dc_config, cmd_memdev_get_dc_extent_list(n),
   cmd_memdev_add_dc_response(n), cmd_memdev_release_dc(n)}

Fmapi(n) ==
  {cmd_fmapi_identify_sw_device, cmd_fmapi_get_phys_port_state(n),
   cmd_fmapi_phys_port_control, cmd_fmapi_send_ppb_cxlio_config_request,
   cmd_fmapi_get_domain_validation_sv_state,
   cmd_fmapi_set_domain_validation_sv,
   cmd_fmapi_get_vcs_domain_validation_sv_state,
   cmd_fmapi_get_domain_validation_sv, cmd_fmapi_get_vcs_info(n, n),
   cmd_fmapi_bind_vppb, cmd_fmapi_unbind_vppb,
   cmd_fmapi_send_ld_cxlio_config_request,
   cmd_fmapi_send_ld_cxlio_mem_request(n), cmd_fmapi_get_ld_info,
   cmd_fmapi_get_ld_allocations(n), cmd_fmapi_set_ld_allocations(n),
   cmd_fmapi_get_qos_control, cmd_fmapi_set_qos_control,
   cmd_fmapi_get_qos_status, cmd_fmapi_get_qos_allocated_bw(n),
   cmd_fmapi_set_qos_allocated_bw(n), cmd_fmapi_get_qos_bw_limit(n),
   cmd_fmapi_set_qos_bw_limit(n), cmd_fmapi_get_multiheaded_info(n),
   cmd_fmapi_get_head_info(n), cmd_fmapi_get_dcd_info,
   cmd_fmapi_get_dc_reg_config, cmd_fmapi_set_dc_region_config,
   cmd_fmapi_get_dc_region_ext_list(n), cmd_fmapi_initiate_dc_add(n),
   cmd_fmapi_initiate_dc_release(n), cmd_fmapi_dc_add_reference,
   cmd_fmapi_dc_remove_reference, cmd_fmapi_dc_list_tags(n)}

Vendor(n) ==
  {cmd_vendor_specific(opcode, in, n, ret, m) :
     opcode \in {\hBFFF, \hC000, \hCCCC}, in \in BOOLEAN,
     ret \in BOOLEAN, m \in {0, n}}

Library(n) == Generic(n) \cup Memdev(n) \cup Fmapi(n) \cup Vendor(n)
=============================================================================
