------------------------- MODULE CommandCodecProofs -------------------------
(***************************************************************************)
(* Proofs about CommandCodec: what holds of every wrapper of commands.c,   *)
(* with every argument, and of every reply to it.                          *)
(*                                                                         *)
(* A wrapper is a record of sizes, so the argument has three parts: a      *)
(* predicate Row that every record of the table satisfies; the outcome of  *)
(* an exchange as a function of link, record and reply, without the        *)
(* messages that carry it; and an inductive invariant that says the        *)
(* command called satisfies Row and that a call that is done ended in one  *)
(* of three ways.                                                          *)
(***************************************************************************)
EXTENDS CommandCodec, SequenceTheorems, TLAPS

-----------------------------------------------------------------------------
(* What the records of CommandTable have in common *)

\* Opcodes of the wrappers that bound what they decode by their buffer.
Bounded == {\h0400, \h0405, \h4300, \h4305, \h4402}

\* The fields have their types.
Typed(c) ==
  /\ c.op \in Nat /\ c.op <= \hFFFF
  /\ c.req \in Nat /\ c.min \in Nat /\ c.max \in Nat /\ c.hdr \in Nat
  /\ c.ent \in Nat /\ c.asked \in Nat /\ c.cap \in Nat

\* A reply that is not a list is decoded to its least length at most.
Plain(c) ==
  /\ ~c.carried /\ c.asked = 0 /\ c.op # \h0405
  /\ c.op \notin ZeroFilled => c.hdr <= c.min

\* Get Supported Logs Sub-List has room for 16 entries and insists on them.
Sublist(c) ==
  /\ c.hdr = 8 /\ c.ent = 20 /\ c.min = 328 /\ c.max = 328
  /\ c.cap = CXLMI_MAX_SUPPORTED_LOGS /\ ~c.carried

\* The entries asked for fit in the buffer and are all decoded; the shortest
\* list is taken, but for the wrappers that insist on the whole of it.
WholeList(c) ==
  /\ c.hdr + c.ent * c.asked <= c.max
  /\ LeastEntries(c) <= c.asked => c.min <= c.hdr + c.ent * c.asked
  /\ c.op \notin WholeListOnly =>
       /\ c.min <= c.hdr + c.ent * LeastEntries(c)
       /\ c.min = c.max => c.asked <= LeastEntries(c)
  /\ c.op \in WholeListOnly => c.min = c.max /\ c.max = c.hdr + c.ent * c.asked
  /\ c.asked <= c.cap

Listed(c) == IF c.op = \h0405 THEN Sublist(c) ELSE WholeList(c)

\* The limits of the wrappers for records and media operations.
Limited(c) ==
  /\ c.op \in Bounded => c.hdr + c.ent * c.cap <= c.max
  /\ c.carried => c.ent \in {2, 16}
  /\ c.op \in LooksAtLength =>
       /\ c.carried \/ (c.ent = 0 /\ c.hdr = 0)
       /\ c.ok => /\ c.req <= CXL_MAILBOX_MAX_PAYLOAD_SIZE
                  /\ c.max <= CXL_MAILBOX_MAX_PAYLOAD_SIZE

\* What every wrapper satisfies, whatever its arguments.
Row(c) ==
  /\ Typed(c) /\ Limited(c)
  /\ c.ent = 0 => Plain(c)
  /\ c.ent > 0 /\ c.ok => Listed(c)
  /\ c.op \notin DecodesAnyway => c.checked

\* The fields of a record, but for the flags.
Has(c, op, req, min, max, hdr, ent, asked, cap) ==
  /\ c.op = op /\ c.req = req /\ c.min = min /\ c.max = max
  /\ c.hdr = hdr /\ c.ent = ent /\ c.asked = asked /\ c.cap = cap

\* A reply of one size.
LEMMA FixedRow ==
  ASSUME NEW op \in Nat, op <= \hFFFF, op \notin Bounded \cup LooksAtLength,
         NEW req \in Nat, NEW rsp \in Nat
  PROVE  Row(Fixed(op, req, rsp))
<1> DEFINE c == Fixed(op, req, rsp)
<1>1. /\ Has(c, op, req, rsp, rsp, rsp, 0, 0, Unlimited)
      /\ c.ok /\ ~c.carried /\ c.checked
  BY DEF Has, Fixed, Reply
<1> HIDE DEF c
<1>2. Typed(c)
  BY <1>1 DEF Has, Typed, Unlimited
<1>3. Row(c)
  BY <1>1, <1>2, SMT DEF Has, Row, Plain, Limited, Bounded
<1> QED BY <1>3 DEF c

\* A list of any length up to the one asked for.
LEMMA ListRow ==
  ASSUME NEW op \in Nat, op <= \hFFFF,
         op \notin Bounded \cup LooksAtLength \cup WholeListOnly \cup {\h5500},
         NEW req \in Nat, NEW hdr \in Nat, NEW ent \in Nat \ {0},
         NEW asked \in Nat, asked <= Unlimited, NEW slots \in Nat,
         asked <= slots, slots = 0 \/ asked > 0
  PROVE  Row(List(op, req, hdr, ent, 0, asked, slots))
<1> DEFINE c == List(op, req, hdr, ent, 0, asked, slots)
<1>1. /\ Has(c, op, req, hdr + 0 * ent, hdr + slots * ent, hdr, ent, asked, Unlimited)
      /\ c.ok /\ ~c.carried /\ c.checked
  BY DEF Has, List, Reply
<1>2. ent * asked <= slots * ent /\ ent * asked \in Nat /\ slots * ent \in Nat
  OBVIOUS
<1>3. slots > 0 => slots * ent > 0
  OBVIOUS
<1> HIDE DEF c
<1>4. Typed(c)
  BY <1>1, <1>2 DEF Has, Typed, Unlimited
<1>5. Listed(c)
  BY <1>1, <1>2, <1>3 DEF Has, Listed, WholeList, LeastEntries, WholeListOnly, Bounded
<1>6. Row(c)
  BY <1>1, <1>4, <1>5 DEF Has, Row, Limited
<1> QED BY <1>6 DEF c

\* A list of exactly as many entries as asked for.
LEMMA ExactlyRow ==
  ASSUME NEW op \in Nat, op \in WholeListOnly,
         NEW req \in Nat, NEW hdr \in Nat, NEW ent \in Nat \ {0},
         NEW n \in Nat, n <= Unlimited
  PROVE  Row(Exactly(op, req, hdr, ent, n))
<1> DEFINE c == Exactly(op, req, hdr, ent, n)
<1>1. /\ Has(c, op, req, hdr + n * ent, hdr + n * ent, hdr, ent, n, Unlimited)
      /\ c.ok /\ ~c.carried /\ c.checked
  BY DEF Has, Exactly, List, Reply
<1>2. ent * n = n * ent /\ n * ent \in Nat
  OBVIOUS
<1>3. /\ op \in Nat /\ op <= \hFFFF /\ op # \h0405 /\ op # \h5500
      /\ op \notin Bounded \cup LooksAtLength
  BY DEF WholeListOnly, Bounded, LooksAtLength
<1> HIDE DEF c
<1>4. Typed(c)
  BY <1>1, <1>2, <1>3 DEF Has, Typed, Unlimited
<1>5. Listed(c)
  BY <1>1, <1>2, <1>3 DEF Has, Listed, WholeList, LeastEntries
<1>6. Row(c)
  BY <1>1, <1>3, <1>4, <1>5 DEF Has, Row, Limited
<1> QED BY <1>6 DEF c

\* What the arguments the structures hold in one byte amount to.
LEMMA Byte == \A n \in Nat : u8(n) \in Nat /\ u8(n) <= 255
BY DEF u8

-----------------------------------------------------------------------------
(* The table *)

\* Information and status, events, firmware, timestamp, logs, features.
LEMMA GenericRow ==
  ASSUME NEW n \in Nat, n <= Unlimited, NEW c \in Generic(n)
  PROVE  Row(c)
<1>0. u8(n) \in Nat
  BY Byte
<1>1. /\ Row(cmd_identify) /\ Row(cmd_bg_op_status)
      /\ Row(cmd_get_response_msg_limit) /\ Row(cmd_set_response_msg_limit)
      /\ Row(cmd_request_bg_op_abort) /\ Row(cmd_clear_event_records(n))
      /\ Row(cmd_get_event_interrupt_policy) /\ Row(cmd_set_event_interrupt_policy)
      /\ Row(cmd_get_mctp_event_interrupt_policy)
      /\ Row(cmd_set_mctp_event_interrupt_policy) /\ Row(cmd_event_notification)
      /\ Row(cmd_get_fw_info) /\ Row(cmd_transfer_fw(n)) /\ Row(cmd_activate_fw)
      /\ Row(cmd_get_timestamp) /\ Row(cmd_set_timestamp) /\ Row(cmd_get_log(n))
      /\ Row(cmd_get_log_capabilities) /\ Row(cmd_clear_log) /\ Row(cmd_populate_log)
      /\ Row(cmd_set_feature(n)) /\ Row(cmd_perform_maintenance(n))
  BY <1>0, FixedRow DEF Ack, Bounded, LooksAtLength, u8, cmd_identify,
                        cmd_bg_op_status, cmd_get_response_msg_limit,
                        cmd_set_response_msg_limit, cmd_request_bg_op_abort,
                        cmd_clear_event_records, cmd_get_event_interrupt_policy,
                        cmd_set_event_interrupt_policy,
                        cmd_get_mctp_event_interrupt_policy,
                        cmd_set_mctp_event_interrupt_policy, cmd_event_notification,
                        cmd_get_fw_info, cmd_transfer_fw, cmd_activate_fw,
                        cmd_get_timestamp, cmd_set_timestamp, cmd_get_log,
                        cmd_get_log_capabilities, cmd_clear_log, cmd_populate_log,
                        cmd_set_feature, cmd_perform_maintenance
<1>2. Row(cmd_get_event_records)
  BY ListRow DEF cmd_get_event_records, UpTo, CXLMI_MAX_SUPPORTED_EVENT_RECORDS,
                 Bounded, LooksAtLength, WholeListOnly, Unlimited
<1>3. Row(cmd_get_supported_logs)
  <2> DEFINE d == cmd_get_supported_logs
  <2>1. Has(d, \h0400, 0, 8, 328, 8, 20, 16, 16) /\ ~d.carried /\ d.checked
    BY DEF Has, cmd_get_supported_logs, UpTo, List, Reply, CXLMI_MAX_SUPPORTED_LOGS
  <2> HIDE DEF d
  <2>2. Row(d)
    BY <2>1 DEF Has, Row, Typed, Listed, WholeList, Limited, LeastEntries, LooksAtLength,
                WholeListOnly
  <2> QED BY <2>2 DEF d
<1>4. Row(cmd_get_log_cel(n))
  <2> DEFINE d == cmd_get_log_cel(n)
  <2>1. /\ Has(d, \h0401, 24, n, n, 4 * (n \div 4), 0, 0, Unlimited)
        /\ ~d.carried /\ d.checked
    BY DEF Has, cmd_get_log_cel, Fixed, Reply
  <2>2. 4 * (n \div 4) \in Nat /\ 4 * (n \div 4) <= n
    OBVIOUS
  <2> HIDE DEF d
  <2>3. Row(d)
    BY <2>1, <2>2 DEF Has, Row, Typed, Plain, Limited, Bounded, LooksAtLength, Unlimited
  <2> QED BY <2>3 DEF d
<1>5. Row(cmd_get_supported_logs_sublist(n))
  <2> DEFINE d == cmd_get_supported_logs_sublist(n)
  <2>1. PICK k \in Nat : k = u8(n)
    BY <1>0
  <2>2. Has(d, \h0405, 2, 328, 328, 8, 20, k, 16) /\ ~d.carried /\ d.checked
    BY <2>1 DEF Has, cmd_get_supported_logs_sublist, List, Reply,
                CXLMI_MAX_SUPPORTED_LOGS
  <2> HIDE DEF d
  <2>3. Row(d)
    BY <2>2 DEF Has, Row, Typed, Listed, Sublist, Limited, LooksAtLength,
                CXLMI_MAX_SUPPORTED_LOGS
  <2> QED BY <2>3 DEF d
<1>6. Row(cmd_get_supported_features(n))
  <2> DEFINE d == cmd_get_supported_features(n)
  <2>1. PICK k \in Nat : k = n \div 48 /\ 48 * k <= n /\ k <= n
    OBVIOUS
  <2>2. Has(d, \h0500, 8, 8, 8 + n, 8, 48, k, Unlimited) /\ ~d.carried /\ d.checked
    BY <2>1 DEF Has, cmd_get_supported_features, Reply
  <2> HIDE DEF d
  <2>3. n = 0 => k = 0
    BY <2>1
  <2>4. Row(d)
    BY <2>1, <2>2, <2>3 DEF Has, Row, Typed, Listed, WholeList, Limited, LeastEntries,
                            Bounded, LooksAtLength, WholeListOnly, Unlimited
  <2> QED BY <2>4 DEF d
<1>7. Row(cmd_get_feature(n))
  <2>1. PICK k \in Nat : k = u16(n)
    BY DEF u16
  <2> DEFINE d == cmd_get_feature(n)
  <2>2. Has(d, \h0501, 21, 0, FEATURE_DATA, k, 0, 0, Unlimited) /\ ~d.carried /\ d.checked
    BY <2>1 DEF Has, cmd_get_feature, Reply
  <2> HIDE DEF d
  <2>3. Row(d)
    BY <2>2 DEF Has, Row, Typed, Plain, Limited, Bounded, LooksAtLength, ZeroFilled,
                Unlimited, FEATURE_DATA
  <2> QED BY <2>3 DEF d
<1> QED BY <1>1, <1>2, <1>3, <1>4, <1>5, <1>6, <1>7 DEF Generic

\* Memory devices.
LEMMA MemdevRow ==
  ASSUME NEW n \in Nat, n <= Unlimited, NEW c \in Memdev(n)
  PROVE  Row(c)
<1>0. u8(n) \in Nat
  BY Byte
<1>1. /\ Row(cmd_memdev_identify) /\ Row(cmd_memdev_get_partition_info)
      /\ Row(cmd_memdev_set_partition_info) /\ Row(cmd_memdev_get_lsa(n))
      /\ Row(cmd_memdev_set_lsa(n)) /\ Row(cmd_memdev_get_health_info)
      /\ Row(cmd_memdev_get_alert_config) /\ Row(cmd_memdev_set_alert_config)
      /\ Row(cmd_memdev_get_shutdown_state) /\ Row(cmd_memdev_set_shutdown_state)
      /\ Row(cmd_memdev_inject_poison) /\ Row(cmd_memdev_clear_poison)
      /\ Row(cmd_memdev_get_scan_media_capabilities) /\ Row(cmd_memdev_scan_media)
      /\ Row(cmd_memdev_sanitize) /\ Row(cmd_memdev_secure_erase)
      /\ Row(cmd_memdev_get_security_state) /\ Row(cmd_memdev_set_passphrase)
      /\ Row(cmd_memdev_disable_passphrase) /\ Row(cmd_memdev_unlock)
      /\ Row(cmd_memdev_freeze_security_state)
      /\ Row(cmd_memdev_passphrase_secure_erase) /\ Row(cmd_memdev_security_send(n))
      /\ Row(cmd_memdev_get_sld_qos_control) /\ Row(cmd_memdev_set_sld_qos_control)
      /\ Row(cmd_memdev_get_sld_qos_status) /\ Row(cmd_memdev_add_dc_response(n))
      /\ Row(cmd_memdev_release_dc(n))
  BY <1>0, FixedRow DEF Ack, Bounded, LooksAtLength, u8, cmd_memdev_identify,
                        cmd_memdev_get_partition_info,
                        cmd_memdev_set_partition_info, cmd_memdev_get_lsa,
                        cmd_memdev_set_lsa, cmd_memdev_get_health_info,
                        cmd_memdev_get_alert_config, cmd_memdev_set_alert_config,
                        cmd_memdev_get_shutdown_state,
                        cmd_memdev_set_shutdown_state, cmd_memdev_inject_poison,
                        cmd_memdev_clear_poison,
                        cmd_memdev_get_scan_media_capabilities,
                        cmd_memdev_scan_media, cmd_memdev_sanitize,
                        cmd_memdev_secure_erase, cmd_memdev_get_security_state,
                        cmd_memdev_set_passphrase, cmd_memdev_disable_passphrase,
                        cmd_memdev_unlock, cmd_memdev_freeze_security_state,
                        cmd_memdev_passphrase_secure_erase,
                        cmd_memdev_security_send, cmd_memdev_get_sld_qos_control,
                        cmd_memdev_set_sld_qos_control,
                        cmd_memdev_get_sld_qos_status, cmd_memdev_add_dc_response,
                        cmd_memdev_release_dc
<1>2. Row(cmd_get_poison_list)
  <2> DEFINE d == cmd_get_poison_list
  <2>1. Has(d, \h4300, 16, 32, 2048, 32, 16, 126, 126) /\ d.carried /\ d.checked
    BY DEF Has, cmd_get_poison_list, UpTo, List, Reply, MAX_POISON_RECORDS,
           CXL_MAILBOX_MAX_PAYLOAD_SIZE
  <2> HIDE DEF d
  <2>2. Row(d)
    BY <2>1 DEF Has, Row, Typed, Listed, WholeList, Limited, LeastEntries, WholeListOnly,
                CXL_MAILBOX_MAX_PAYLOAD_SIZE
  <2> QED BY <2>2 DEF d
<1>3. Row(cmd_memdev_get_scan_media_results)
  <2> DEFINE d == cmd_memdev_get_scan_media_results
  <2>1. Has(d, \h4305, 0, 32, 2048, 32, 16, 126, 126) /\ d.carried /\ d.checked
    BY DEF Has, cmd_memdev_get_scan_media_results, UpTo, List, Reply,
           MAX_SCAN_MEDIA_RECORDS, CXL_MAILBOX_MAX_PAYLOAD_SIZE
  <2> HIDE DEF d
  <2>2. Row(d)
    BY <2>1 DEF Has, Row, Typed, Listed, WholeList, Limited, LeastEntries, WholeListOnly,
                CXL_MAILBOX_MAX_PAYLOAD_SIZE
  <2> QED BY <2>2 DEF d
<1>4. Row(cmd_memdev_media_operations_discovery(n))
  <2> DEFINE d == cmd_memdev_media_operations_discovery(n)
             k == AtMost(n, MAX_MEDIA_OPS_SUPPORTED)
  <2>1. Has(d, \h4402, 12, 12, 12 + n * 2, 12, 2, n, k) /\ d.carried /\ d.checked
    BY DEF Has, cmd_memdev_media_operations_discovery, UpTo, List, Reply
  <2>2. d.ok = (n <= MAX_MEDIA_OPS_SUPPORTED)
    BY DEF cmd_memdev_media_operations_discovery, UpTo, List, Reply
  <2>3. /\ k \in Nat /\ k <= n
        /\ n <= MAX_MEDIA_OPS_SUPPORTED => k = n /\ 12 + n * 2 <= 2048
    BY DEF AtMost, MAX_MEDIA_OPS_SUPPORTED, CXL_MAILBOX_MAX_PAYLOAD_SIZE
  <2> HIDE DEF d, k
  <2>4. d.ok => n <= MAX_MEDIA_OPS_SUPPORTED
    BY <2>2, Zenon
  <2>5. d.ok => k = n /\ 12 + n * 2 <= 2048
    BY <2>3, <2>4
  <2>6. Typed(d) /\ d.hdr + d.ent * d.cap <= d.max
    BY <2>1, <2>3 DEF Has, Typed
  <2>7. Limited(d)
    BY <2>1, <2>5, <2>6 DEF Has, Limited, CXL_MAILBOX_MAX_PAYLOAD_SIZE
  <2>8. d.ok => Listed(d)
    BY <2>1, <2>5 DEF Has, Listed, WholeList, LeastEntries, WholeListOnly
  <2>9. Row(d)
    BY <2>1, <2>6, <2>7, <2>8 DEF Has, Row
  <2> QED BY <2>9 DEF d
<1>5. Row(cmd_memdev_media_operations_sanitize(n))
  <2> DEFINE d == cmd_memdev_media_operations_sanitize(n)
  <2>1. /\ Has(d, \h4402, 8 + 16 * n, 0, 0, 0, 0, 0, Unlimited)
        /\ ~d.carried /\ d.checked
    BY DEF Has, cmd_memdev_media_operations_sanitize, Ack, Fixed, Reply
  <2>2. d.ok = (n <= MAX_MEDIA_OPS_DPA_RANGES)
    BY DEF cmd_memdev_media_operations_sanitize, Ack, Fixed, Reply
  <2>3. n <= MAX_MEDIA_OPS_DPA_RANGES => 8 + 16 * n <= 2048
    BY DEF MAX_MEDIA_OPS_DPA_RANGES, CXL_MAILBOX_MAX_PAYLOAD_SIZE
  <2> HIDE DEF d
  <2>4. d.ok => n <= MAX_MEDIA_OPS_DPA_RANGES
    BY <2>2, Zenon
  <2>5. Row(d)
    BY <2>1, <2>3, <2>4 DEF Has, Row, Typed, Plain, Limited, Bounded, Unlimited,
                      CXL_MAILBOX_MAX_PAYLOAD_SIZE
  <2> QED BY <2>5 DEF d
<1>6. Row(cmd_memdev_security_receive(n))
  <2> DEFINE d == cmd_memdev_security_receive(n)
  <2>1. Has(d, \h4601, 8, 264, 264, 264, 0, 0, Unlimited) /\ ~d.carried /\ d.checked
    BY DEF Has, cmd_memdev_security_receive, Fixed, Reply
  <2> HIDE DEF d
  <2>2. Row(d)
    BY <2>1 DEF Has, Row, Typed, Plain, Limited, Bounded, LooksAtLength, Unlimited
  <2> QED BY <2>2 DEF d
<1>7. Row(cmd_memdev_get_dc_config)
  BY ListRow DEF cmd_memdev_get_dc_config, Bounded, LooksAtLength, WholeListOnly,
                 Unlimited
<1>8. Row(cmd_memdev_get_dc_extent_list(n))
  <2>1. PICK k \in Nat : k = (IF n = 0 THEN 8 ELSE AtMost(n, 8)) /\ k > 0 /\ k <= 8
    BY DEF AtMost
  <2>2. \h4801 \notin Bounded \cup LooksAtLength \cup WholeListOnly \cup {\h5500}
    BY DEF Bounded, LooksAtLength, WholeListOnly
  <2>3. k <= Unlimited
    BY <2>1 DEF Unlimited
  <2>4. Row(List(\h4801, 8, 16, 40, 0, k, 8))
    BY <2>1, <2>2, <2>3, ListRow, SMTT(20)
  <2> QED BY <2>1, <2>4 DEF cmd_memdev_get_dc_extent_list
<1> QED BY <1>1, <1>2, <1>3, <1>4, <1>5, <1>6, <1>7, <1>8 DEF Memdev

\* The FM-API lists of exactly as many entries as asked for.
LEMMA FmapiExactlyRow ==
  ASSUME NEW k \in Nat, k <= Unlimited
  PROVE  /\ Row(Exactly(\h5101, 1 + k, 4, 16, k)) /\ Row(Exactly(\h5401, 2, 4, 16, k))
         /\ Row(Exactly(\h5402, 4 + 16 * k, 4, 16, k))
         /\ Row(Exactly(\h5406, 2, 2, 1, k)) /\ Row(Exactly(\h5407, 2 + k, 2, 1, k))
         /\ Row(Exactly(\h5408, 2, 2, 1, k)) /\ Row(Exactly(\h5409, 2 + k, 2, 1, k))
         /\ Row(Exactly(\h5501, 2, 4, 9, k))
<1>1. /\ Row(Exactly(\h5101, 1 + k, 4, 16, k)) /\ Row(Exactly(\h5401, 2, 4, 16, k))
      /\ Row(Exactly(\h5402, 4 + 16 * k, 4, 16, k)) /\ Row(Exactly(\h5501, 2, 4, 9, k))
  BY ExactlyRow DEF WholeListOnly
<1>2. /\ Row(Exactly(\h5406, 2, 2, 1, k)) /\ Row(Exactly(\h5407, 2 + k, 2, 1, k))
      /\ Row(Exactly(\h5408, 2, 2, 1, k)) /\ Row(Exactly(\h5409, 2 + k, 2, 1, k))
  BY ExactlyRow DEF WholeListOnly
<1> QED BY <1>1, <1>2

\* FM-API.
LEMMA FmapiRow ==
  ASSUME NEW n \in Nat, n <= Unlimited, NEW c \in Fmapi(n)
  PROVE  Row(c)
<1>0. u8(n) \in Nat /\ u8(n) <= Unlimited
  BY Byte DEF Unlimited
<1>1. /\ Row(cmd_fmapi_identify_sw_device) /\ Row(cmd_fmapi_phys_port_control)
      /\ Row(cmd_fmapi_send_ppb_cxlio_config_request)
      /\ Row(cmd_fmapi_get_domain_validation_sv_state)
      /\ Row(cmd_fmapi_set_domain_validation_sv)
      /\ Row(cmd_fmapi_get_vcs_domain_validation_sv_state)
      /\ Row(cmd_fmapi_get_domain_validation_sv) /\ Row(cmd_fmapi_bind_vppb)
      /\ Row(cmd_fmapi_unbind_vppb) /\ Row(cmd_fmapi_send_ld_cxlio_config_request)
      /\ Row(cmd_fmapi_get_ld_info) /\ Row(cmd_fmapi_get_qos_control)
      /\ Row(cmd_fmapi_set_qos_control) /\ Row(cmd_fmapi_get_qos_status)
      /\ Row(cmd_fmapi_get_dcd_info) /\ Row(cmd_fmapi_set_dc_region_config)
      /\ Row(cmd_fmapi_initiate_dc_add(n)) /\ Row(cmd_fmapi_initiate_dc_release(n))
      /\ Row(cmd_fmapi_dc_add_reference) /\ Row(cmd_fmapi_dc_remove_reference)
  BY <1>0, FixedRow DEF Ack, Bounded, LooksAtLength, u8, cmd_fmapi_identify_sw_device,
                        cmd_fmapi_phys_port_control,
                        cmd_fmapi_send_ppb_cxlio_config_request,
                        cmd_fmapi_get_domain_validation_sv_state,
                        cmd_fmapi_set_domain_validation_sv,
                        cmd_fmapi_get_vcs_domain_validation_sv_state,
                        cmd_fmapi_get_domain_validation_sv, cmd_fmapi_bind_vppb,
                        cmd_fmapi_unbind_vppb,
                        cmd_fmapi_send_ld_cxlio_config_request,
                        cmd_fmapi_get_ld_info, cmd_fmapi_get_qos_control,
                        cmd_fmapi_set_qos_control, cmd_fmapi_get_qos_status,
                        cmd_fmapi_get_dcd_info, cmd_fmapi_set_dc_region_config,
                        cmd_fmapi_initiate_dc_add, cmd_fmapi_initiate_dc_release,
                        cmd_fmapi_dc_add_reference, cmd_fmapi_dc_remove_reference
<1>2. /\ Row(cmd_fmapi_get_phys_port_state(n)) /\ Row(cmd_fmapi_get_ld_allocations(n))
      /\ Row(cmd_fmapi_set_ld_allocations(n)) /\ Row(cmd_fmapi_get_qos_allocated_bw(n))
      /\ Row(cmd_fmapi_set_qos_allocated_bw(n)) /\ Row(cmd_fmapi_get_qos_bw_limit(n))
      /\ Row(cmd_fmapi_set_qos_bw_limit(n)) /\ Row(cmd_fmapi_get_head_info(n))
  BY <1>0, FmapiExactlyRow
       DEF cmd_fmapi_get_phys_port_state, cmd_fmapi_get_ld_allocations,
           cmd_fmapi_set_ld_allocations, cmd_fmapi_get_qos_allocated_bw,
           cmd_fmapi_set_qos_allocated_bw, cmd_fmapi_get_qos_bw_limit,
           cmd_fmapi_set_qos_bw_limit, cmd_fmapi_get_head_info
<1>3. Row(cmd_fmapi_send_ld_cxlio_mem_request(n))
  <2>1. PICK k \in Nat : k = AtMost(n, 4096) /\ k <= Unlimited
    BY DEF AtMost, Unlimited
  <2>2. Row(Exactly(\h5302, 15 + k, 4, 1, k))
    BY <2>1, ExactlyRow DEF WholeListOnly
  <2> QED BY <2>1, <2>2 DEF cmd_fmapi_send_ld_cxlio_mem_request
<1>4. Row(cmd_fmapi_get_vcs_info(n, n))
  <2> DEFINE d == cmd_fmapi_get_vcs_info(n, n)
  <2>1. PICK m \in Nat : m = 4 + u8(n) * (4 + u8(n) * 4)
    BY <1>0
  <2>2. Has(d, \h5200, 3 + u8(n), 12, m, m, 0, 0, Unlimited) /\ ~d.carried /\ d.checked
    BY <2>1 DEF Has, cmd_fmapi_get_vcs_info, Reply
  <2> HIDE DEF d
  <2>3. Row(d)
    BY <1>0, <2>2 DEF Has, Row, Typed, Plain, Limited, Bounded, LooksAtLength, ZeroFilled,
                      Unlimited
  <2> QED BY <2>3 DEF d
<1>5. Row(cmd_fmapi_get_multiheaded_info(n))
  <2> DEFINE d == cmd_fmapi_get_multiheaded_info(n)
  <2>1. PICK k \in Nat : k = u8(n) /\ k <= Unlimited
    BY <1>0
  <2>2. Has(d, \h5500, 2, 9, 8 + k, 8, 1, k, Unlimited) /\ ~d.carried /\ d.checked
    BY <2>1 DEF Has, cmd_fmapi_get_multiheaded_info, List, Reply
  <2> HIDE DEF d
  <2>3. Row(d)
    BY <2>1, <2>2 DEF Has, Row, Typed, Listed, WholeList, Limited, LeastEntries, Bounded,
                      LooksAtLength, WholeListOnly, Unlimited
  <2> QED BY <2>3 DEF d
<1>6. Row(cmd_fmapi_get_dc_reg_config)
  BY ListRow DEF cmd_fmapi_get_dc_reg_config, Bounded, LooksAtLength, WholeListOnly,
                 Unlimited
<1>7. Row(cmd_fmapi_get_dc_region_ext_list(n))
  <2>1. \h5603 \notin Bounded \cup LooksAtLength \cup WholeListOnly \cup {\h5500}
    BY DEF Bounded, LooksAtLength, WholeListOnly
  <2>2. Row(List(\h5603, 12, 24, 40, 0, n, n))
    BY <2>1, ListRow
  <2> QED BY <2>2 DEF cmd_fmapi_get_dc_region_ext_list, UpTo
<1>8. Row(cmd_fmapi_dc_list_tags(n))
  <2> DEFINE d == cmd_fmapi_dc_list_tags(n)
  <2>1. Has(d, \h5608, 8, 16, 16 + n * 84, 16, 84, n, Unlimited) /\ ~d.carried
    BY DEF Has, cmd_fmapi_dc_list_tags, UpTo, List, Reply
  <2> HIDE DEF d
  <2>2. Row(d)
    BY <2>1 DEF Has, Row, Typed, Listed, WholeList, Limited, LeastEntries, Bounded,
                LooksAtLength, WholeListOnly, DecodesAnyway, Unlimited
  <2> QED BY <2>2 DEF d
<1> QED BY <1>1, <1>2, <1>3, <1>4, <1>5, <1>6, <1>7, <1>8 DEF Fmapi

\* Vendor commands.
LEMMA VendorRow ==
  ASSUME NEW n \in Nat, NEW c \in Vendor(n)
  PROVE  Row(c)
<1>1. PICK opcode \in {\hBFFF, \hC000, \hCCCC}, in \in BOOLEAN, out \in BOOLEAN,
           m \in {0, n} :
        c = cmd_vendor_specific(opcode, in, n, out, m)
  BY DEF Vendor
<1>2. Has(c, opcode, n, m, m, m, 0, 0, Unlimited) /\ ~c.carried /\ c.checked
  BY <1>1 DEF Has, cmd_vendor_specific, Fixed, Reply
<1>3. /\ m \in Nat /\ opcode \in Nat /\ opcode <= \hFFFF
      /\ opcode \notin Bounded \cup LooksAtLength
  BY DEF Bounded, LooksAtLength
<1> QED
  BY <1>2, <1>3 DEF Has, Row, Typed, Plain, Limited, Bounded, Unlimited

\* Every wrapper with every argument.
LEMMA TableRow ==
  ASSUME NEW n \in Nat, n <= Unlimited, NEW c \in Library(n)
  PROVE  Row(c)
BY GenericRow, MemdevRow, FmapiRow, VendorRow DEF Library

-----------------------------------------------------------------------------
(* An exchange *)

\* The bytes of payload of a reply that fit in the buffer of a command.
Took(c, r) == AtMost(r.len, c.max)

\* The length of a successful reply passes the checks of the MCTP transport.
Accepted(c, r) ==
  /\ Took(c, r) = r.len
  /\ IF c.min = c.max THEN Took(c, r) = c.min ELSE c.min <= Took(c, r)

\* The value of a call and the entries it decodes, as functions of the link, the
\* command and the reply.
Outcome(l, c, r) ==
  IF l # "mctp" \/ r.code # 0 THEN r.code ELSE IF Accepted(c, r) THEN 0 ELSE -1

Carried(c, r) == IF Took(c, r) > c.hdr THEN (Took(c, r) - c.hdr) \div c.ent ELSE 0

Entries(c, r) ==
  LET counted == AtMost(r.count, c.cap) IN
  IF c.carried THEN AtMost(counted, Carried(c, r)) ELSE counted

ReplyType == [code : Codes \cup {0}, len : Nat, count : Nat]

\* What send_cmd_cci and the decoder do, without the messages.
LEMMA Exchange ==
  ASSUME Row(call), reply \in ReplyType
  PROVE  /\ exchange_rc = Outcome(link, call, reply)
         /\ decoded(Received) = Entries(call, reply)
         /\ Received.len = Took(call, reply)
<1>0. call.min \in Nat /\ call.max \in Nat /\ reply.len \in Nat
  BY SMT DEF Row, Typed, ReplyType
<1> DEFINE took == Took(call, reply)
           req == Cci!arm_cci_request(0, call)
           rep == Cci!ReplyTo(req, 1, reply.code, reply.len)
           lay == [category |-> 1, tag |-> req[1].tag, opcode |-> req[1].opcode,
                   return_code |-> reply.code, pl_length |-> reply.len,
                   length |-> reply.len - 4]
<1>1. rep.len = 12 + reply.len /\ rep.layers = [i \in 1 .. 1 |-> lay]
  <2>1. \A i \in 1 .. 1 : i = 1
    OBVIOUS
  <2>2. reply.len + (1 - 1) * (12 + 4) = reply.len
    BY <1>0, SMT
  <2> HIDE DEF req
  <2> QED BY <2>1, <2>2, SMT DEF Cci!ReplyTo, Cci!RSP, Cci!HDR, Cci!THDR
<1>2. DOMAIN rep = {"layers", "len"}
  BY SMT DEF Cci!ReplyTo
<1> HIDE DEF rep, lay, req
<1>3. Cci!mctp_buffer(call, 0) = 12 + call.max
  BY <1>0, SMT DEF Cci!mctp_buffer, Cci!rsp_msg_sz, Cci!HDR, Cci!THDR, Cci!TunnelOverhead
<1>4. Datagram.len = 12 + took /\ Datagram.layers = rep.layers
  <2>1. Datagram = Cci!Received(rep, 12 + call.max)
    BY <1>3, SMT DEF Datagram, rep, req
  <2> QED BY <1>0, <1>1, <1>2, <2>1, SMT DEF Cci!Received, Took, AtMost
<1>5. took \in Nat /\ took <= reply.len
  BY <1>0, SMT DEF Took, AtMost
<1>6. Received.len = took /\ Received.count = reply.count
  BY <1>4, <1>5, SMT DEF Received, Cci!HDR, ReplyType
<1>7. decoded(Received) = Entries(call, reply)
  BY <1>6, SMT DEF decoded, Entries, Carried, entries_in_rsp, pl_length
<1>8. Cci!Layer(Datagram, 1) = lay
  <2>1. Len([i \in 1 .. 1 |-> lay]) = 1
    BY SMT
  <2> QED BY <1>1, <1>4, <2>1, SMT DEF Cci!Layer
<1>9. Cci!IsFixed(call) = (call.min = call.max) /\ Cci!rsp_msg_sz_min(call) = 12 + call.min
  <2>1. /\ [c \in {call} |-> c.min][call] = call.min
        /\ [c \in {call} |-> c.max][call] = call.max
    OBVIOUS
  <2> QED BY <2>1, Zenon DEF Cci!IsFixed, Cci!rsp_msg_sz_min, Cci!HDR
<1>10. /\ lay.category = 1 /\ lay.tag = req[1].tag /\ lay.opcode = req[1].opcode
       /\ lay.return_code = reply.code /\ lay.pl_length = reply.len
  BY SMT DEF lay
<1> HIDE DEF took
<1>11. ASSUME link # "mctp" PROVE exchange_rc = Outcome(link, call, reply)
  BY <1>8, <1>10, <1>11, SMT DEF exchange_rc, Cci!ioctl_direct_rc, Outcome
<1>12. ASSUME link = "mctp" PROVE exchange_rc = Outcome(link, call, reply)
  <2>1. exchange_rc = Cci!sanity_check_mctp_rsp(req[1], lay, 12 + took, call.min = call.max,
                                                12 + call.min)
    BY <1>4, <1>8, <1>9, <1>12, Zenon DEF exchange_rc, Cci!direct_rc, req
  <2>2. ~Cci!NotTheReply(req[1], lay, 12 + took)
    BY <1>5, <1>10, SMT DEF Cci!NotTheReply, Cci!HDR, Cci!RSP
  <2>3. Cci!WrongLength(lay, 12 + took, call.min = call.max, 12 + call.min)
          <=> ~Accepted(call, reply)
    <3>1. (12 + took) - 12 = lay.pl_length <=> took = reply.len
      BY <1>0, <1>5, <1>10, SMT
    <3>2. 12 + took = 12 + call.min <=> took = call.min
      BY <1>0, <1>5, SMT
    <3>3. 12 + took < 12 + call.min <=> ~(call.min <= took)
      BY <1>0, <1>5, SMT
    <3> QED BY <3>1, <3>2, <3>3, Zenon DEF Cci!WrongLength, Accepted, Cci!HDR, took
  <2> QED
    BY <1>10, <1>12, <2>1, <2>2, <2>3, Zenon DEF Cci!sanity_check_mctp_rsp, Outcome
<1> QED BY <1>6, <1>7, <1>11, <1>12, Zenon DEF took

-----------------------------------------------------------------------------
(* The invariant *)

Answers(c) == Conforming(c) \cup NonConforming(c) \cup Errors

\* The three ways a call ends: the wrapper refuses its arguments, the request
\* cannot be sent, the reply is looked at.
Refused == ~call.ok /\ reply = NoReply /\ rc = -1 /\ ret = Untouched

Failed ==
  /\ call.ok /\ reply = NoReply /\ rc = -1
  /\ ret = IF call.checked THEN Untouched ELSE 0

Returned ==
  /\ call.ok /\ reply \in Answers(call) /\ rc = Outcome(link, call, reply)
  /\ ret = IF call.checked /\ rc # 0 THEN Untouched ELSE Entries(call, reply)

IInv ==
  /\ Row(call) /\ link \in {"mctp", "ioctl"}
  /\ \/ pc = "idle" /\ reply = NoReply /\ rc = 0 /\ ret = Untouched
     \/ pc = "sent" /\ call.ok /\ reply = NoReply /\ rc = 0 /\ ret = Untouched
     \/ pc = "answered" /\ call.ok /\ reply \in Answers(call) /\ rc = 0 /\ ret = Untouched
     \/ pc = "done" /\ (Refused \/ Failed \/ Returned)

\* More entries take more bytes.
LEMMA MoreEntries ==
  ASSUME NEW e \in Nat, NEW a \in Nat, NEW b \in Nat, a <= b
  PROVE  e * a \in Nat /\ e * b \in Nat /\ e * a <= e * b
BY SMT

LEMMA LeastIsNat == \A c : LeastEntries(c) \in Nat
BY SMT DEF LeastEntries

\* Every reply has its type.
LEMMA AnswerTyped ==
  ASSUME NEW c, Row(c), NEW r \in Answers(c)
  PROVE  r \in ReplyType
<1>1. Typed(c)
  BY Zenon DEF Row
<1>2. ASSUME NEW q \in Conforming(c)
      PROVE  q \in ReplyType /\ q.code = 0
  <2>1. CASE c.ent > 0
    <3>1. PICK n \in Counts(c) : q = Success(c.hdr + c.ent * n, n)
      BY <1>2, <2>1, SMT DEF Conforming
    <3>2. n \in Nat
      BY <1>1, LeastIsNat, SMT DEF Counts, Typed
    <3>3. c.hdr + c.ent * n \in Nat
      BY <1>1, <3>2, SMT DEF Typed
    <3> QED BY <3>1, <3>2, <3>3, SMT DEF Success, ReplyType
  <2>2. CASE ~(c.ent > 0)
    <3>1. PICK len \in {c.min, IF c.min = c.max THEN c.max ELSE c.hdr} : q = Success(len, 0)
      BY <1>2, <2>2, SMT DEF Conforming
    <3>2. len \in Nat
      BY <1>1, SMT DEF Typed
    <3> QED BY <3>1, <3>2, SMT DEF Success, ReplyType
  <2> QED BY <2>1, <2>2
<1>3. CASE r \in Conforming(c)
  BY <1>2, <1>3
<1>4. CASE r \in Errors
  BY <1>4, SMT DEF Errors, ReplyType
<1>5. CASE r \in NonConforming(c)
  <2>1. CASE r \in {Success(0, 0), Success(c.max + 1, c.asked + 1)}
    BY <1>1, <2>1, SMT DEF Typed, Success, ReplyType
  <2>2. CASE \E q \in Conforming(c) : r = [q EXCEPT !.len = IF @ = 0 THEN 0 ELSE @ - 1]
    BY <1>2, <2>2, SMT DEF ReplyType
  <2> DEFINE claims == IF c.ent > 0 THEN {c.asked + 1, 65535} ELSE {}
  <2>3. CASE \E q \in Conforming(c), n \in claims : r = [q EXCEPT !.count = n]
    <3>1. \A n \in claims : n \in Nat
      BY <1>1, SMT DEF Typed
    <3> HIDE DEF claims
    <3> QED BY <1>2, <2>3, <3>1, SMT DEF ReplyType
  <2> QED BY <1>5, <2>1, <2>2, <2>3, SMT DEF NonConforming
<1> QED BY <1>3, <1>4, <1>5, Zenon DEF Answers

\* The number of entries decoded is bounded by the count, by the limit of the
\* wrapper and, where the wrapper looks at pl_length, by the bytes received.
LEMMA EntriesBounded ==
  ASSUME NEW c, Row(c), NEW r \in ReplyType
  PROVE  /\ Took(c, r) \in Nat /\ Took(c, r) <= r.len
         /\ Entries(c, r) \in Nat /\ Entries(c, r) <= r.count /\ Entries(c, r) <= c.cap
         /\ c.carried /\ Entries(c, r) # 0 => c.hdr + c.ent * Entries(c, r) <= Took(c, r)
<1>1. Typed(c) /\ (c.carried => c.ent \in {2, 16})
  BY Zenon DEF Row, Limited
<1>2. r.len \in Nat /\ r.count \in Nat
  BY SMT DEF ReplyType
<1>3. Took(c, r) \in Nat /\ Took(c, r) <= r.len
  BY <1>1, <1>2, SMT DEF Typed, Took, AtMost
<1>4. AtMost(r.count, c.cap) \in Nat /\ AtMost(r.count, c.cap) <= r.count
      /\ AtMost(r.count, c.cap) <= c.cap
  BY <1>1, <1>2, SMT DEF Typed, AtMost
<1>5. ASSUME c.carried
      PROVE  /\ Carried(c, r) \in Nat
             /\ Carried(c, r) # 0 => c.hdr + c.ent * Carried(c, r) <= Took(c, r)
  <2>1. CASE c.ent = 2
    BY <1>1, <1>3, <2>1, SMT DEF Typed, Carried
  <2>2. CASE c.ent = 16
    BY <1>1, <1>3, <2>2, SMT DEF Typed, Carried
  <2> QED BY <1>1, <1>5, <2>1, <2>2, SMT
<1>6. CASE ~c.carried
  BY <1>3, <1>4, <1>6, SMT DEF Entries
<1>7. CASE c.carried
  <2>1. /\ Entries(c, r) \in Nat /\ Entries(c, r) <= AtMost(r.count, c.cap)
        /\ Entries(c, r) <= Carried(c, r)
    BY <1>4, <1>5, <1>7, SMT DEF Entries, AtMost
  <2>2. /\ Carried(c, r) \in Nat
        /\ Carried(c, r) # 0 => c.hdr + c.ent * Carried(c, r) <= Took(c, r)
    BY <1>5, <1>7
  <2>3. /\ c.ent * Entries(c, r) \in Nat /\ c.ent * Carried(c, r) \in Nat
        /\ c.ent * Entries(c, r) <= c.ent * Carried(c, r)
    BY <1>1, <2>1, <2>2, MoreEntries, SMT DEF Typed
  <2>4. Entries(c, r) # 0 => c.hdr + c.ent * Entries(c, r) <= Took(c, r)
    BY <1>1, <1>3, <2>1, <2>2, <2>3, SMT DEF Typed
  <2>5. Entries(c, r) <= r.count /\ Entries(c, r) <= c.cap
    BY <1>1, <1>2, <1>4, <2>1, SMT DEF Typed
  <2> QED BY <1>3, <2>1, <2>4, <2>5
<1> QED BY <1>6, <1>7

LEMMA NoCallRow == Row(NoCall)
<1> DEFINE d == NoCall
<1>1. Has(d, 1, 0, 18, 18, 18, 0, 0, Unlimited) /\ ~d.carried /\ d.checked
  BY SMT DEF Has, NoCall, cmd_identify, Fixed, Reply
<1> HIDE DEF d
<1>2. Row(d)
  BY <1>1, SMT DEF Has, Row, Typed, Plain, Limited, Bounded, LooksAtLength, Unlimited
<1> QED BY <1>2 DEF d

LEMMA CallsRow == \A c \in Calls : Row(c)
<1>1. ASSUME NEW c \in Calls PROVE Row(c)
  <2>1. PICK n \in Args : c \in Library(n)
    BY <1>1, Zenon DEF Calls
  <2>2. n \in Nat /\ n <= Unlimited
    BY ArgAssumption, Zenon
  <2> QED BY <2>1, <2>2, TableRow
<1> QED BY <1>1

LEMMA NoReplyTyped == NoReply \in ReplyType
BY SMT DEF NoReply, ReplyType

LEMMA IInvInit == Init => IInv
BY NoCallRow, Zenon DEF Init, IInv

LEMMA IInvNext == IInv /\ [Next]_vars => IInv'
<1> SUFFICES ASSUME IInv, [Next]_vars
             PROVE  IInv'
  OBVIOUS
<1>1. ASSUME NEW c \in Calls, NEW l \in {"mctp", "ioctl"}, Refuse(c, l)
      PROVE  IInv'
  BY <1>1, CallsRow, Zenon DEF IInv, Refuse, Refused
<1>2. ASSUME NEW c \in Calls, NEW l \in {"mctp", "ioctl"}, Send(c, l)
      PROVE  IInv'
  BY <1>2, CallsRow, Zenon DEF IInv, Send
<1>3. CASE SendFails
  BY <1>3, Zenon DEF IInv, SendFails, Failed
<1>4. CASE Answer
  BY <1>4, Zenon DEF IInv, Answer, Answers
<1>5. CASE Return
  <2>1. pc = "answered" /\ call.ok /\ reply \in Answers(call) /\ ret = Untouched /\ Row(call)
    BY <1>5, Zenon DEF IInv, Return
  <2>2. exchange_rc = Outcome(link, call, reply) /\ decoded(Received) = Entries(call, reply)
    BY <2>1, AnswerTyped, Exchange
  <2>3. /\ call' = call /\ link' = link /\ reply' = reply /\ rc' = Outcome(link, call, reply)
        /\ ret' = IF call.checked /\ rc' # 0 THEN Untouched ELSE Entries(call, reply)
        /\ pc' = "done"
    BY <1>5, <2>1, <2>2, Zenon DEF Return
  <2> QED BY <2>1, <2>3, Zenon DEF IInv, Returned
<1>6. CASE Handled
  BY <1>6, NoCallRow, Zenon DEF IInv, Handled
<1>7. CASE UNCHANGED vars
  BY <1>7, Zenon DEF IInv, vars, Refused, Failed, Returned
<1> QED BY <1>1, <1>2, <1>3, <1>4, <1>5, <1>6, <1>7, Zenon DEF Next

LEMMA IInvHolds == Spec => []IInv
BY IInvInit, IInvNext, PTL DEF Spec

-----------------------------------------------------------------------------
(* What follows *)

\* What is known of a call that ended, was sent and was answered.
LEMMA Finished ==
  ASSUME IInv, Done
  PROVE  /\ Row(call) /\ reply \in ReplyType
         /\ Failed \/ Returned
         /\ Received.len = Took(call, reply)
<1>1. Row(call) /\ (Failed \/ Returned)
  BY Zenon DEF IInv, Done, Refused
<1>2. reply \in ReplyType
  BY <1>1, NoReplyTyped, AnswerTyped, Zenon DEF Failed, Returned
<1> QED BY <1>1, <1>2, Exchange

LEMMA OutcomeTyped ==
  ASSUME NEW l, NEW c, NEW r \in ReplyType
  PROVE  Outcome(l, c, r) \in {-1, 0} \cup Codes
<1>1. r.code \in Codes \cup {0}
  BY SMT DEF ReplyType
<1> QED BY <1>1, SMT DEF Outcome

\* The variables of a call have their types whatever the command, its arguments
\* and the reply; no size that commands.c computes is negative.
THEOREM TypeCorrect == Spec => []TypeOK
<1>1. ASSUME IInv PROVE TypeOK
  <2>1. /\ pc \in {"idle", "sent", "answered", "done"} /\ link \in {"mctp", "ioctl"}
        /\ Row(call)
    BY <1>1, Zenon DEF IInv
  <2>2. /\ call.op \in Nat /\ call.op <= \hFFFF
        /\ {call.req, call.min, call.max, call.hdr, call.ent, call.asked, call.cap}
             \subseteq Nat
    BY <2>1, SMT DEF Row, Typed
  <2>3. reply \in ReplyType
    BY <1>1, <2>1, NoReplyTyped, AnswerTyped, Zenon DEF IInv, Refused, Failed, Returned
  <2>4. /\ Outcome(link, call, reply) \in {-1, 0} \cup Codes
        /\ Entries(call, reply) \in Nat
    BY <2>1, <2>3, OutcomeTyped, EntriesBounded
  <2>5. rc \in {-1, 0} \cup Codes
    BY <1>1, <2>4, Zenon DEF IInv, Refused, Failed, Returned
  <2>6. ret \in Nat \cup {Untouched}
    <3>1. 0 \in Nat
      BY SMT
    <3> QED BY <1>1, <2>4, <3>1, Zenon DEF IInv, Refused, Failed, Returned
  <2> QED BY <2>1, <2>2, <2>3, <2>5, <2>6, SMT DEF TypeOK, ReplyType
<1> QED BY <1>1, IInvHolds, PTL

\* A conforming reply: its length and count, as what the command asked for has it.
LEMMA ConformingShape ==
  ASSUME NEW c, Row(c), c.ok, NEW r \in Conforming(c)
  PROVE  /\ r.code = 0
         /\ c.ent > 0 => /\ r.count \in Counts(c) /\ r.count \in Nat
                         /\ r.len = c.hdr + c.ent * r.count
                         /\ Listed(c)
         /\ c.ent = 0 => /\ r.count = 0 /\ r.len \in Nat
                         /\ c.min <= r.len /\ r.len <= c.max
                         /\ c.min = c.max => r.len = c.min
                         /\ Plain(c)
<1>1. Typed(c) /\ (c.ent = 0 => Plain(c)) /\ (c.ent > 0 => Listed(c))
  BY Zenon DEF Row
<1>2. CASE c.ent > 0
  <2>1. PICK n \in Counts(c) : r = Success(c.hdr + c.ent * n, n)
    BY <1>2, SMT DEF Conforming
  <2>2. n \in Nat
    BY <1>1, LeastIsNat, SMT DEF Counts, Typed
  <2>3. r.code = 0 /\ r.count = n /\ r.len = c.hdr + c.ent * n
    BY <2>1, SMT DEF Success
  <2> QED BY <1>1, <1>2, <2>2, <2>3, SMT
<1>3. CASE c.ent = 0
  <2>1. PICK len \in {c.min, IF c.min = c.max THEN c.max ELSE c.hdr} :
          r = Success(len, 0) /\ c.min <= len /\ len <= c.max
    BY <1>3, SMT DEF Conforming
  <2>2. r.code = 0 /\ r.count = 0 /\ r.len = len
    BY <2>1, SMT DEF Success
  <2>3. len \in Nat /\ (c.min = c.max => len = c.min)
    BY <1>1, <2>1, SMT DEF Typed
  <2> QED BY <1>1, <1>3, <2>1, <2>2, <2>3, SMT
<1> QED BY <1>1, <1>2, <1>3, SMT DEF Typed

\* A decoder never hands out bytes the device did not send: for every conforming
\* reply, every argument and every wrapper but Get Feature and Get VCS Info, and
\* for every reply at all for the three wrappers that look at pl_length.
THEOREM DecodingIsFaithful == Spec => []DecodesWhatCame
<1>1. ASSUME IInv, Done, rc = 0
      PROVE  /\ reply \in Conforming(call) /\ call.op \notin ZeroFilled =>
                  call.hdr + call.ent * ret <= reply.len
             /\ call.op \in LooksAtLength =>
                  ret = 0 \/ call.hdr + call.ent * ret <= Received.len
  <2>1. /\ Row(call) /\ reply \in ReplyType /\ Received.len = Took(call, reply)
        /\ Failed \/ Returned
    BY <1>1, Finished
  <2>2. ~Failed
    BY <1>1, SMT DEF Failed
  <2>3. call.ok /\ ret = Entries(call, reply)
    BY <1>1, <2>1, <2>2, Zenon DEF Returned
  <2>4. /\ Took(call, reply) \in Nat
        /\ ret \in Nat /\ ret <= reply.count
        /\ call.carried /\ ret # 0 => call.hdr + call.ent * ret <= Took(call, reply)
    BY <2>1, <2>3, EntriesBounded
  <2>5. Typed(call)
    BY <2>1, Zenon DEF Row
  <2>6. ASSUME reply \in Conforming(call), call.op \notin ZeroFilled
        PROVE  call.hdr + call.ent * ret <= reply.len
    <3>1. CASE call.ent > 0
      <4>1. reply.count \in Nat /\ reply.len = call.hdr + call.ent * reply.count
        BY <2>1, <2>3, <2>6, <3>1, ConformingShape
      <4>2. /\ call.ent * ret \in Nat /\ call.ent * reply.count \in Nat
            /\ call.ent * ret <= call.ent * reply.count
        BY <2>4, <2>5, <4>1, MoreEntries DEF Typed
      <4> QED BY <2>5, <4>1, <4>2, SMT DEF Typed
    <3>2. CASE call.ent = 0
      <4>1. Plain(call) /\ reply.len \in Nat /\ call.min <= reply.len
        BY <2>1, <2>3, <2>6, <3>2, ConformingShape
      <4>2. call.hdr <= call.min
        BY <2>6, <4>1, Zenon DEF Plain
      <4>3. call.ent * ret = 0
        BY <2>4, <3>2, SMT
      <4> QED BY <2>5, <4>1, <4>2, <4>3, SMT DEF Typed
    <3> QED BY <2>5, <3>1, <3>2, SMT DEF Typed
  <2>7. ASSUME call.op \in LooksAtLength
        PROVE  ret = 0 \/ call.hdr + call.ent * ret <= Received.len
    <3>1. call.carried \/ (call.ent = 0 /\ call.hdr = 0)
      BY <2>1, <2>7, Zenon DEF Row, Limited
    <3>2. CASE call.carried
      BY <2>1, <2>4, <3>2
    <3>3. CASE call.ent = 0 /\ call.hdr = 0
      BY <2>1, <2>4, <3>3, SMT
    <3> QED BY <3>1, <3>2, <3>3
  <2> QED BY <2>6, <2>7
<1>2. IInv => DecodesWhatCame
  BY <1>1, Zenon DEF DecodesWhatCame
<1> QED BY <1>2, IInvHolds, PTL

\* The length of a conforming reply passes the checks unless the list is one of
\* those refused.
LEMMA ConformingPasses ==
  ASSUME NEW c, Row(c), c.ok, NEW r \in Conforming(c)
  PROVE  /\ c.op # \h0405 => Took(c, r) = r.len
         /\ Accepted(c, r) <=> ~ListRefused(c, r.count)
<1>1. Typed(c)
  BY Zenon DEF Row
<1>2. CASE c.ent = 0
  <2>1. /\ r.len \in Nat /\ c.min <= r.len /\ r.len <= c.max
        /\ c.min = c.max => r.len = c.min
        /\ r.count = 0 /\ Plain(c)
    BY <1>2, ConformingShape
  <2>2. Took(c, r) = r.len
    BY <1>1, <2>1, SMT DEF Typed, Took, AtMost
  <2>3. ~ListRefused(c, r.count)
    BY <2>1, SMT DEF Plain, ListRefused
  <2> QED BY <1>1, <2>1, <2>2, <2>3, SMT DEF Typed, Accepted
<1>3. CASE c.ent > 0 /\ c.op = \h0405
  <2>1. r.count \in Nat /\ r.len = 8 + 20 * r.count /\ c.min = 328 /\ c.max = 328
    BY <1>3, ConformingShape, SMT DEF Listed, Sublist
  <2>2. Accepted(c, r) <=> r.len = 328
    BY <2>1, SMT DEF Accepted, Took, AtMost
  <2> QED BY <1>3, <2>1, <2>2, SMT DEF ListRefused, CXLMI_MAX_SUPPORTED_LOGS
<1>4. CASE c.ent > 0 /\ c.op # \h0405
  <2> DEFINE least == LeastEntries(c)
  <2>1. /\ r.count \in Counts(c) /\ r.count \in Nat /\ r.len = c.hdr + c.ent * r.count
        /\ WholeList(c)
    BY <1>4, ConformingShape DEF Listed
  <2>2. /\ r.count \in {least, c.asked} /\ least <= r.count /\ r.count <= c.asked
        /\ least \in Nat
    BY <2>1, LeastIsNat, SMT DEF Counts
  <2>3. /\ c.ent * r.count \in Nat /\ c.ent * c.asked \in Nat
        /\ c.ent * r.count <= c.ent * c.asked
    BY <1>1, <2>1, <2>2, MoreEntries DEF Typed
  <2>4. /\ c.hdr + c.ent * c.asked <= c.max
        /\ c.min <= c.hdr + c.ent * c.asked
        /\ c.op \notin WholeListOnly => /\ c.min <= c.hdr + c.ent * least
                                        /\ c.min = c.max => c.asked <= least
        /\ c.op \in WholeListOnly => c.min = c.max /\ c.max = c.hdr + c.ent * c.asked
    <3>1. least <= c.asked
      BY <1>1, <2>1, <2>2, SMT DEF Typed
    <3> QED BY <2>1, <3>1, Zenon DEF WholeList
  <2> HIDE DEF least
  <2>5. r.len \in Nat /\ Took(c, r) = r.len
    BY <1>1, <2>1, <2>3, <2>4, SMT DEF Typed, Took, AtMost
  <2>6. CASE r.count = c.asked
    <3>1. c.min <= r.len /\ (c.min = c.max => r.len = c.min)
      BY <1>1, <2>1, <2>4, <2>5, <2>6, SMT DEF Typed
    <3>2. ~ListRefused(c, r.count)
      BY <1>1, <1>4, <2>6, SMT DEF Typed, ListRefused
    <3> QED BY <2>5, <3>1, <3>2, SMT DEF Accepted
  <2>7. CASE r.count # c.asked /\ c.op \notin WholeListOnly
    <3>1. r.count = least /\ ~(c.asked <= least)
      <4>1. r.count \in Nat /\ c.asked \in Nat
        BY <1>1, <2>1, SMT DEF Typed
      <4>2. r.count = least
        BY <2>2, <2>7, Zenon
      <4> QED BY <2>2, <2>7, <4>1, <4>2, SMT
    <3>2. c.min <= r.len /\ c.min # c.max
      BY <2>1, <2>4, <2>7, <3>1, SMT
    <3> QED BY <1>4, <2>5, <2>7, <3>2, SMT DEF Accepted, ListRefused
  <2>8. CASE r.count # c.asked /\ c.op \in WholeListOnly
    <3>1. r.count < c.asked
      BY <1>1, <2>1, <2>2, <2>8, SMT DEF Typed
    <3>2. c.ent * r.count # c.ent * c.asked
      BY <1>1, <1>4, <2>1, <3>1, SMT DEF Typed
    <3>3. r.len # c.min /\ c.min = c.max
      BY <1>1, <2>1, <2>3, <2>4, <2>8, <3>2, SMT DEF Typed
    <3> QED BY <1>4, <2>5, <2>8, <3>1, <3>3, SMT DEF Accepted, ListRefused
  <2> QED BY <1>4, <2>5, <2>6, <2>7, <2>8
<1> QED BY <1>1, <1>2, <1>3, <1>4, SMT DEF Typed

\* All the entries of a conforming reply are decoded, but for the limit of Get
\* Supported Logs Sub-List.
LEMMA ConformingDecoded ==
  ASSUME NEW c, Row(c), c.ok, NEW r \in Conforming(c)
  PROVE  Entries(c, r) = ListKept(c, r.count)
<1>1. Typed(c) /\ (c.carried => c.ent \in {2, 16})
  BY Zenon DEF Row, Limited
<1>2. CASE c.ent = 0
  <2>0. Plain(c) /\ r.count = 0
    BY <1>2, ConformingShape, Zenon
  <2>1. ~c.carried /\ r.count = 0
    BY <2>0, SMT DEF Plain
  <2>2. Entries(c, r) = AtMost(r.count, c.cap)
    BY <2>1, Zenon DEF Entries
  <2>3. AtMost(r.count, c.cap) = 0 /\ AtMost(r.count, CXLMI_MAX_SUPPORTED_LOGS) = 0
    BY <1>1, <2>1, SMT DEF Typed, AtMost, CXLMI_MAX_SUPPORTED_LOGS
  <2> QED BY <2>1, <2>2, <2>3, SMT DEF ListKept
<1>3. CASE c.ent > 0
  <2>1. /\ r.count \in Counts(c) /\ r.count \in Nat /\ r.len = c.hdr + c.ent * r.count
        /\ Listed(c)
    BY <1>3, ConformingShape
  <2>2. CASE c.op = \h0405
    <3>1. c.cap = CXLMI_MAX_SUPPORTED_LOGS /\ ~c.carried
      BY <2>1, <2>2, SMT DEF Listed, Sublist
    <3> QED BY <2>2, <3>1, SMT DEF Entries, ListKept
  <2>3. CASE c.op # \h0405
    <3>1. c.asked <= c.cap
      BY <2>1, <2>3, SMT DEF Listed, WholeList
    <3>2. AtMost(r.count, c.cap) = r.count
      BY <1>1, <2>1, <3>1, SMT DEF Typed, Counts, AtMost
    <3>3. ASSUME c.carried PROVE Carried(c, r) = r.count
      <4>1. Took(c, r) = c.hdr + c.ent * r.count
        BY <2>1, <2>3, ConformingPasses
      <4>2. CASE c.ent = 2
        BY <1>1, <2>1, <4>1, <4>2, SMT DEF Typed, Carried
      <4>3. CASE c.ent = 16
        BY <1>1, <2>1, <4>1, <4>3, SMT DEF Typed, Carried
      <4> QED BY <1>1, <3>3, <4>2, <4>3, SMT
    <3>4. Entries(c, r) = r.count
      <4>1. AtMost(r.count, r.count) = r.count
        BY SMT DEF AtMost
      <4> QED BY <3>2, <3>3, <4>1, Zenon DEF Entries
    <3> QED BY <2>3, <3>4, SMT DEF ListKept
  <2> QED BY <2>2, <2>3
<1> QED BY <1>1, <1>2, <1>3, SMT DEF Typed

\* A device that follows the specification is always understood: whatever the
\* wrapper and its arguments, over both links, a conforming reply is accepted and
\* all its entries reach the caller, with the exceptions that ListRefused and
\* ListKept name and no others.
THEOREM ConformingIsAccepted == Spec => []ConformingAccepted
<1>1. ASSUME IInv, Done, reply \in Conforming(call), reply # NoReply
      PROVE  IF link = "mctp" /\ ListRefused(call, reply.count) THEN rc = -1
             ELSE rc = 0 /\ ret = ListKept(call, reply.count)
  <2>1. Row(call) /\ Returned
    BY <1>1, Finished, Zenon DEF Failed
  <2>2. call.ok /\ rc = Outcome(link, call, reply) /\ reply.code = 0
    BY <1>1, <2>1, ConformingShape, Zenon DEF Returned
  <2>3. Entries(call, reply) = ListKept(call, reply.count)
    BY <1>1, <2>1, <2>2, ConformingDecoded
  <2>4. Accepted(call, reply) <=> ~ListRefused(call, reply.count)
    BY <1>1, <2>1, <2>2, ConformingPasses
  <2>5. rc = 0 => ret = ListKept(call, reply.count)
    BY <2>1, <2>3, Zenon DEF Returned
  <2>6. rc = IF link = "mctp" /\ ~Accepted(call, reply) THEN -1 ELSE 0
    BY <2>2, Zenon DEF Outcome
  <2> QED BY <2>4, <2>5, <2>6, Zenon
<1>2. IInv => ConformingAccepted
  BY <1>1, Zenon DEF ConformingAccepted
<1> QED BY <1>2, IInvHolds, PTL

\* The caller's structure is written exactly when the call returns 0, for every
\* wrapper but the one that decodes before it looks at the result.
THEOREM WrittenOnSuccess == Spec => []RetOnSuccess
<1>1. ASSUME IInv, Done, call.op \notin DecodesAnyway
      PROVE  rc = 0 <=> ret # Untouched
  <2>1. Row(call) /\ reply \in ReplyType /\ (Failed \/ Returned)
    BY <1>1, Finished
  <2>2. call.checked
    BY <1>1, <2>1, Zenon DEF Row
  <2>3. Entries(call, reply) # Untouched
    <3>1. Entries(call, reply) \in Nat
      BY <2>1, EntriesBounded
    <3> QED BY <3>1, SMT DEF Untouched
  <2>4. CASE Failed
    <3>1. rc # 0
      BY <2>4, SMT DEF Failed
    <3> QED BY <2>2, <2>4, <3>1, Zenon DEF Failed
  <2>5. CASE Returned
    BY <2>2, <2>3, <2>5, Zenon DEF Returned
  <2> QED BY <2>1, <2>4, <2>5
<1>2. IInv => RetOnSuccess
  BY <1>1, Zenon DEF RetOnSuccess
<1> QED BY <1>2, IInvHolds, PTL

\* What the limits of the poison list, the scan media results and the media
\* operations let through fits in the mailbox, for every argument.
THEOREM LimitsFitMailbox == Spec => []FitsMailbox
<1>1. IInv => FitsMailbox
  BY SMT DEF IInv, FitsMailbox, Row, Limited, LooksAtLength
<1> QED BY <1>1, IInvHolds, PTL

\* A wrapper that cuts the count decodes no more entries than its buffer holds,
\* whatever number the device counts.
THEOREM DecodingIsBounded == Spec => []BoundedDecode
<1>1. ASSUME IInv, Done, ret # Untouched, call.op \in Bounded
      PROVE  call.hdr + call.ent * ret <= call.max
  <2>1. Row(call) /\ reply \in ReplyType /\ (Failed \/ Returned)
    BY <1>1, Finished
  <2>2. call.op \notin DecodesAnyway
    BY <1>1, SMT DEF Bounded, DecodesAnyway
  <2>3. call.checked
    BY <2>1, <2>2, Zenon DEF Row
  <2>4. ret = Entries(call, reply)
    BY <1>1, <2>1, <2>3, Zenon DEF Failed, Returned
  <2>5. ret \in Nat /\ ret <= call.cap
    BY <2>1, <2>4, EntriesBounded
  <2>6. Typed(call) /\ call.hdr + call.ent * call.cap <= call.max
    BY <1>1, <2>1, Zenon DEF Row, Limited
  <2>7. /\ call.ent * ret \in Nat /\ call.ent * call.cap \in Nat
        /\ call.ent * ret <= call.ent * call.cap
    BY <2>5, <2>6, MoreEntries DEF Typed
  <2> QED BY <2>6, <2>7, SMT DEF Typed
<1>2. IInv => BoundedDecode
  BY <1>1, SMT DEF BoundedDecode, Bounded
<1> QED BY <1>2, IInvHolds, PTL
=============================================================================
