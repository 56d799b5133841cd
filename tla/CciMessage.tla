----------------------------- MODULE CciMessage -----------------------------
(***************************************************************************)
(* CCI messages and the checks the library makes on a received reply, from *)
(* src/cxlmi/cxlmi.c.  A request is the sequence of the messages nested in *)
(* the datagram, outermost first: one for a direct command, two through    *)
(* one level of tunnel, three through two.  A reply is a record            *)
(*                                                                         *)
(*   layers : the nested reply messages, outermost first                   *)
(*   len    : the number of bytes of the datagram                          *)
(*                                                                         *)
(* Payload contents are left out; lengths and return codes are kept.       *)
(***************************************************************************)
EXTENDS Integers, Sequences

CONSTANTS
  Cmds,       \* the commands of the CCI and FM-API command sets
  FmapiCmds,  \* those of the FM-API command sets (0x51 .. 0x56)
  RspMin,     \* rsp_msg_sz_min - HDR of each command
  RspMax,     \* rsp_msg_sz - HDR of each command
  TUNNEL,     \* the opcode 5300h, Tunnel Management Command
  NOOP,       \* the opcode in a zeroed buffer
  TagSpace,   \* how many values the tag byte of a message has
  SizeMax     \* (size_t)-1: what a failed recvfrom() gives as a length

HDR == 12     \* sizeof(struct cxlmi_cci_msg)
THDR == 4     \* sizeof(struct cxlmi_cmd_fmapi_tunnel_command_rsp)
REQ == 0      \* CXL_MCTP_CATEGORY_REQ
RSP == 1      \* CXL_MCTP_CATEGORY_RSP

ASSUME CmdAssumption ==
  /\ Cmds # {} /\ FmapiCmds \subseteq Cmds
  /\ TUNNEL \notin Cmds /\ NOOP \notin Cmds /\ TUNNEL # NOOP
  /\ RspMin \in [Cmds -> Nat] /\ RspMax \in [Cmds -> Nat]
  /\ \A c \in Cmds : RspMin[c] <= RspMax[c]

ASSUME TagAssumption == TagSpace \in Nat /\ TagSpace > 0

ASSUME SizeAssumption ==
  SizeMax \in Nat /\ \A c \in Cmds : RspMax[c] + 3 * HDR + 2 * THDR < SizeMax

\* The size of the caller's response buffer, and the least acceptable reply.
rsp_msg_sz(cmd) == HDR + RspMax[cmd]
rsp_msg_sz_min(cmd) == HDR + RspMin[cmd]

\* cxlmi_cmd_is_fmapi()
cxlmi_cmd_is_fmapi(cmd) == cmd \in FmapiCmds

-----------------------------------------------------------------------------
(* Requests *)

\* The message of a command; its tag byte holds the low bits of the counter.
arm_cci_request(counter, cmd) ==
  << [tag |-> counter % TagSpace, opcode |-> cmd] >>

build_tunnel_req(counter, message) ==
  << [tag |-> counter % TagSpace, opcode |-> TUNNEL] >> \o message

\* What send_mctp_direct, send_mctp_tunnel1 and send_mctp_tunnel2 put on the
\* wire for a command armed with the tag counter at id.
Request(id, cmd, level) ==
  LET own == arm_cci_request(id, cmd) IN
  IF level = 0 THEN own
  ELSE IF level = 1 THEN build_tunnel_req(id + 1, own)
  ELSE build_tunnel_req(id + 2, build_tunnel_req(id + 1, own))

-----------------------------------------------------------------------------
(* Replies *)

\* The response buffers come from calloc(): what no datagram filled is zero.
ZeroLayer == [category |-> REQ, tag |-> 0, opcode |-> NOOP,
              return_code |-> 0, pl_length |-> 0, length |-> 0]

Layer(reply, i) ==
  IF i \in 1 .. Len(reply.layers) THEN reply.layers[i] ELSE ZeroLayer

\* recvfrom() into a buffer of sz bytes cuts a longer datagram.
Received(reply, sz) ==
  [reply EXCEPT !.len = IF reply.len > sz THEN sz ELSE reply.len]

\* recvfrom() that fails: nothing is written and -1 becomes a size_t.
NothingReceived == [layers |-> << >>, len |-> SizeMax]

NotTheReply_AnyTag(req, rsp, len) ==
  len < HDR \/ rsp.category # RSP \/ rsp.opcode # req.opcode

NotTheReply(req, rsp, len) ==
  \/ len < HDR
  \/ rsp.category # RSP
  \/ rsp.tag # req.tag
  \/ rsp.opcode # req.opcode

WrongLength(rsp, len, fixed_length, min_length) ==
  \/ IF fixed_length THEN len # min_length ELSE len < min_length
  \/ len - HDR # rsp.pl_length

sanity_check_LengthFirst(req, rsp, len, fixed_length, min_length) ==
  IF NotTheReply(req, rsp, len) THEN -1
  ELSE IF WrongLength(rsp, len, fixed_length, min_length) THEN -1
  ELSE rsp.return_code

sanity_check_mctp_rsp(req, rsp, len, fixed_length, min_length) ==
  IF NotTheReply(req, rsp, len) THEN -1
  ELSE IF rsp.return_code # 0 THEN rsp.return_code
  ELSE IF WrongLength(rsp, len, fixed_length, min_length) THEN -1
  ELSE 0

\* What a device answers to a request: the reply has depth layers, all of
\* them successful but the deepest, which has the given code and payload.
ReplyTo(req, depth, code, payload) ==
  LET rest(i) == payload + (depth - i) * (HDR + THDR) IN
  [layers |-> [i \in 1 .. depth |->
                 [category |-> RSP, tag |-> req[i].tag, opcode |-> req[i].opcode,
                  return_code |-> IF i = depth THEN code ELSE 0,
                  pl_length |-> rest(i), length |-> rest(i) - THDR]],
   len |-> HDR + rest(1)]

\* The answers to a command whose tunnel ends level layers deep: the
\* command's own result, or an error at one of the layers.
Replies(req, cmd, codes) ==
  {ReplyTo(req, Len(req), 0, n) : n \in RspMin[cmd] .. RspMax[cmd]}
    \cup {ReplyTo(req, d, code, 0) : d \in 1 .. Len(req), code \in codes}

-----------------------------------------------------------------------------
(* Unwinding a reply: the return value of a command, transport by transport *)

TunnelOverhead == HDR + THDR

IsFixed(cmd) == RspMin[cmd] = RspMax[cmd]

\* The tail of send_mctp_direct
direct_rc(req, reply, cmd) ==
  sanity_check_mctp_rsp(req[1], Layer(reply, 1), reply.len,
                        IsFixed(cmd), rsp_msg_sz_min(cmd))

\* The tail of send_ioctl_direct: only the return code is looked at.
ioctl_direct_rc(reply) == Layer(reply, 1).return_code

tunnel_rc_AnyLength(req, reply, i, len) ==
  sanity_check_mctp_rsp(req[i], Layer(reply, i), len, FALSE, TunnelOverhead)

\* One level of a tunnel: the tunnel message i of a reply of which len bytes
\* are left.  Its length is not fixed, as an error reply has no payload.
tunnel_rc(req, reply, i, len) ==
  LET rc == sanity_check_mctp_rsp(req[i], Layer(reply, i), len,
                                  FALSE, TunnelOverhead)
  IN IF rc # 0 THEN rc
     ELSE IF Layer(reply, i).length # len - TunnelOverhead THEN -1
     ELSE 0

\* The tail of send_mctp_tunnel1
tunnel1_rc(req, reply, cmd) ==
  LET outer == tunnel_rc(req, reply, 1, reply.len)
  IN IF outer # 0 THEN outer
     ELSE sanity_check_mctp_rsp(req[2], Layer(reply, 2),
                                reply.len - TunnelOverhead,
                                IsFixed(cmd), rsp_msg_sz_min(cmd))

\* The tail of send_mctp_tunnel2
tunnel2_rc(req, reply, cmd) ==
  LET outer == tunnel_rc(req, reply, 1, reply.len)
      inner == tunnel_rc(req, reply, 2, reply.len - TunnelOverhead)
  IN IF outer # 0 THEN outer
     ELSE IF inner # 0 THEN inner
     ELSE sanity_check_mctp_rsp(req[3], Layer(reply, 3),
                                reply.len - 2 * TunnelOverhead,
                                IsFixed(cmd), rsp_msg_sz_min(cmd))

\* The dispatch on the tunnel level in send_cmd_cci
mctp_rc(req, reply, cmd, level) ==
  IF level = 0 THEN direct_rc(req, reply, cmd)
  ELSE IF level = 1 THEN tunnel1_rc(req, reply, cmd)
  ELSE tunnel2_rc(req, reply, cmd)

\* The buffer the reply to a command is received in, tunnel headers included.
mctp_buffer(cmd, level) == rsp_msg_sz(cmd) + level * TunnelOverhead
=============================================================================
