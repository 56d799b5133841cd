-------------------------- MODULE CommandExchange --------------------------
(***************************************************************************)
(* One command through send_cmd_cci (src/cxlmi/cxlmi.c), over each link:   *)
(* where the library sends it, and what it returns for each reply, sound   *)
(* or damaged.  MctpTransport has the same checks with late and lost       *)
(* replies; here a reply always comes and may be anything.  On a mock      *)
(* endpoint the reply comes from the script of MockTransport.              *)
(*                                                                         *)
(* Over ioctl the outermost message of a reply stands for what the mailbox *)
(* gives the driver: a return code and len - HDR bytes of payload.         *)
(***************************************************************************)
EXTENDS MockTransport

CONSTANTS
  Codes,  \* CXL return codes, besides 0
  Ids,    \* port numbers and LD ids
  Sizes,  \* payload sizes a test scripts
  MaxScripted, MaxMockSent   \* bounds: responses and commands of one test

ASSUME CodeAssumption == Codes \subseteq Nat \ {0} /\ Ids \subseteq 0 .. 254

ASSUME MockAssumption ==
  Sizes \subseteq Nat /\ MaxScripted \in Nat /\ MaxMockSent \in Nat

VARIABLES
  link,       \* the transport of the endpoint
  has_fmapi,  \* ep->has_fmapi
  last,       \* the last command: what was asked, sent, answered, returned
  mock        \* the mock behind a mock endpoint

vars == <<link, has_fmapi, last, mock>>

Links == {"mctp", "ioctl", "mock"}

-----------------------------------------------------------------------------
(* Tunnels *)

\* __TUNNEL_INITIALIZER
Tunnel(port, ld, level, mhd) ==
  [port |-> port, ld |-> ld, level |-> level, mhd |-> mhd]

NO_TUNNEL == Tunnel(-1, -1, 0, FALSE)
TUNNEL_MLD(ld) == Tunnel(-1, ld, 1, FALSE)
TUNNEL_SWITCH(port) == Tunnel(port, -1, 1, FALSE)
TUNNEL_SWITCH_MLD(port, ld) == Tunnel(port, ld, 2, FALSE)
TUNNEL_MHD == Tunnel(-1, -1, 1, TRUE)

Tunnels ==
  {NO_TUNNEL, TUNNEL_MHD, Tunnel(-1, -1, 3, FALSE)}
    \cup {TUNNEL_MLD(ld) : ld \in Ids}
    \cup {TUNNEL_SWITCH(port) : port \in Ids}
    \cup {TUNNEL_SWITCH_MLD(port, ld) : port \in Ids, ld \in Ids}

\* target_type and id of a tunnel command; the id is one byte.
PortOrLd(id) == [type |-> "port_or_ld", id |-> id % 256]
LdPoolCci == [type |-> "ld_pool_cci", id |-> 0]

tunnel_target(port_or_ld) ==
  IF port_or_ld = -1 THEN LdPoolCci ELSE PortOrLd(port_or_ld)

OneHop(ti) == IF ti.ld = -1 THEN ti.port ELSE ti.ld

\* The targets of the tunnel commands around a message, outermost first.
mctp_route(ti) ==
  IF ti.level = 0 THEN << >>
  ELSE IF ti.level = 1 THEN << tunnel_target(OneHop(ti)) >>
  ELSE << tunnel_target(ti.port), tunnel_target(ti.ld) >>

ioctl_route(ti) ==
  IF ti.level = 0 THEN << >>
  ELSE IF ti.level = 1 THEN << PortOrLd(OneHop(ti)) >>
  ELSE << PortOrLd(ti.port), tunnel_target(ti.ld) >>

-----------------------------------------------------------------------------
(* Return values over ioctl *)

\* Over ioctl a message has no tag of its own, and build_tunnel_req uses 10h.
ioctl_request(cmd, level) ==
  LET outer == << [tag |-> 0, opcode |-> TUNNEL] >>
      own == << [tag |-> 0, opcode |-> cmd] >>
  IN IF level = 0 THEN own
     ELSE IF level = 1 THEN outer \o own
     ELSE outer \o << [tag |-> 16 % TagSpace, opcode |-> TUNNEL] >> \o own

\* What send_ioctl_tunnel1 and send_ioctl_tunnel2 do with the outer tunnel
\* before they check the message in it, which is at least min bytes.
ioctl_outer_rc(reply, min) ==
  LET outer == Layer(reply, 1)
      size == reply.len - HDR
  IN IF outer.return_code # 0 THEN -outer.return_code
     ELSE IF size < THDR + min THEN -1
     ELSE IF outer.length # size - THDR THEN -1
     ELSE 0

ioctl_tunnel1_rc(req, reply, cmd) ==
  LET outer == ioctl_outer_rc(reply, rsp_msg_sz_min(cmd))
  IN IF outer # 0 THEN outer
     ELSE sanity_check_mctp_rsp(req[2], Layer(reply, 2),
                                reply.len - TunnelOverhead,
                                IsFixed(cmd), rsp_msg_sz_min(cmd))

ioctl_tunnel2_rc(req, reply, cmd) ==
  LET min == TunnelOverhead + rsp_msg_sz_min(cmd)
      outer == ioctl_outer_rc(reply, min)
      len == reply.len - TunnelOverhead
      inner == sanity_check_mctp_rsp(req[2], Layer(reply, 2), len,
                                     IsFixed(cmd), min)
  IN IF outer # 0 THEN outer
     ELSE IF inner # 0 THEN inner
     ELSE IF Layer(reply, 2).length # len - TunnelOverhead THEN -1
     ELSE sanity_check_mctp_rsp(req[3], Layer(reply, 3), len - TunnelOverhead,
                                IsFixed(cmd), rsp_msg_sz_min(cmd))

ioctl_rc(req, reply, cmd, level) ==
  IF level = 0 THEN ioctl_direct_rc(reply)
  ELSE IF level = 1 THEN ioctl_tunnel1_rc(req, reply, cmd)
  ELSE ioctl_tunnel2_rc(req, reply, cmd)

-----------------------------------------------------------------------------
(* Replies, sound and damaged *)

\* A sound reply with one field of one of its messages off, cut short or with
\* bytes behind it.
Damaged(r) ==
  {[r EXCEPT !.layers[i].pl_length = @ + 1] : i \in DOMAIN r.layers}
  \cup {[r EXCEPT !.layers[i].return_code = @ + 1] : i \in DOMAIN r.layers}
  \cup {[r EXCEPT !.layers[i].length = @ + 1] : i \in 1 .. Len(r.layers) - 1}
  \cup {[r EXCEPT !.layers[i].tag = (@ + 1) % TagSpace] : i \in DOMAIN r.layers}
  \cup {[r EXCEPT !.layers[i].opcode = NOOP] : i \in DOMAIN r.layers}
  \cup {[r EXCEPT !.layers[i].category = REQ] : i \in DOMAIN r.layers}
  \cup {[r EXCEPT !.len = n] : n \in {0, HDR - 1, r.len - 1, r.len + 1}}

\* The driver hands over the mailbox's own header as a return code and a size.
DriverHeader(r) ==
  [r EXCEPT !.layers[1] = [@ EXCEPT !.category = RSP, !.tag = 0, !.pl_length = 0,
                                    !.opcode = NOOP],
            !.len = IF @ < HDR THEN HDR ELSE @]

Sound(req, cmd) == Replies(req, cmd, Codes)

AnyReply(req, cmd) ==
  Sound(req, cmd) \cup UNION {Damaged(r) : r \in Sound(req, cmd)}

-----------------------------------------------------------------------------
(* send_cmd_cci *)

Wire(cmd, level) ==
  IF link = "mctp" THEN Request(0, cmd, level) ELSE ioctl_request(cmd, level)

NoReply == [layers |-> << >>, len |-> 0]

Nothing == [link |-> "mctp", cmd |-> NOOP, ti |-> NO_TUNNEL,
            sent |-> FALSE, route |-> << >>, reply |-> NoReply, rc |-> -1]

Outcome(cmd, ti, sent, route, reply, rc) ==
  last' = [link |-> link, cmd |-> cmd, ti |-> ti,
           sent |-> sent, route |-> route, reply |-> reply, rc |-> rc]

\* A command runs when the caller has looked at the one before.
Ready == last = Nothing

Refused_AnyLevel(cmd, ti) == cxlmi_cmd_is_fmapi(cmd) /\ ~has_fmapi

Refused(cmd, ti) == (cxlmi_cmd_is_fmapi(cmd) /\ ~has_fmapi) \/ ti.level > 2

\* FM-API commands without FM-API, and tunnels of more than two levels.
Refuse(cmd, ti) ==
  /\ Ready /\ Refused(cmd, ti)
  /\ Outcome(cmd, ti, FALSE, << >>, NoReply, -1)
  /\ UNCHANGED <<link, has_fmapi, mock>>

\* Tunnelled and FM-API commands use the FM-API socket.
NeedsFmapiSocket(cmd, ti) == ti.level > 0 \/ cxlmi_cmd_is_fmapi(cmd)

SendMctp(cmd, ti) ==
  /\ Ready /\ link = "mctp" /\ ~Refused(cmd, ti)
  /\ NeedsFmapiSocket(cmd, ti) => has_fmapi
  /\ \E reply \in AnyReply(Wire(cmd, ti.level), cmd) :
       LET got == Received(reply, mctp_buffer(cmd, ti.level)) IN
       Outcome(cmd, ti, TRUE, mctp_route(ti), got,
               mctp_rc(Wire(cmd, ti.level), got, cmd, ti.level))
  /\ UNCHANGED <<link, has_fmapi, mock>>

\* sendto() fails, as it always does on a closed FM-API socket.
SendMctpFails(cmd, ti) ==
  /\ Ready /\ link = "mctp" /\ ~Refused(cmd, ti)
  /\ Outcome(cmd, ti, FALSE, mctp_route(ti), NoReply, -1)
  /\ UNCHANGED <<link, has_fmapi, mock>>

SendIoctl(cmd, ti) ==
  /\ Ready /\ link = "ioctl" /\ ~Refused(cmd, ti)
  /\ \E reply \in AnyReply(Wire(cmd, ti.level), cmd) :
       LET got == Received(DriverHeader(reply), mctp_buffer(cmd, ti.level)) IN
       Outcome(cmd, ti, TRUE, ioctl_route(ti), got,
               ioctl_rc(Wire(cmd, ti.level), got, cmd, ti.level))
  /\ UNCHANGED <<link, has_fmapi, mock>>

\* The driver refuses the command: ioctl() gives -1.
SendIoctlFails(cmd, ti) ==
  /\ Ready /\ link = "ioctl" /\ ~Refused(cmd, ti)
  /\ Outcome(cmd, ti, FALSE, ioctl_route(ti), NoReply, -1)
  /\ UNCHANGED <<link, has_fmapi, mock>>

Handled == ~Ready /\ last' = Nothing /\ UNCHANGED <<link, has_fmapi, mock>>

\* The tunnel is not looked at.
SendMock(cmd, ti) ==
  /\ Ready /\ link = "mock" /\ ~Refused(cmd, ti)
  /\ mock.commands_sent < MaxMockSent
  /\ Outcome(cmd, ti, TRUE, << >>, mock_reply(mock, cmd), mock_rc(mock, cmd))
  /\ mock' = mock_after(mock, cmd)
  /\ UNCHANGED <<link, has_fmapi>>

SetResponse(cmd, code, size) ==
  /\ link = "mock" /\ mock.scripted < MaxScripted
  /\ mock' = cxlmi_mock_set_response(mock, cmd, code, size)
  /\ UNCHANGED <<link, has_fmapi, last>>

ClearResponses ==
  /\ link = "mock"
  /\ mock' = cxlmi_mock_clear_responses(mock)
  /\ UNCHANGED <<link, has_fmapi, last>>

\* EndpointRegistry has what these two do to a mock endpoint.
enable_fmapi ==
  link # "mock" /\ has_fmapi' = TRUE /\ UNCHANGED <<link, last, mock>>
disable_fmapi ==
  link # "mock" /\ has_fmapi' = FALSE /\ UNCHANGED <<link, last, mock>>

Init ==
  /\ link \in Links /\ has_fmapi \in BOOLEAN /\ (link = "mock" => has_fmapi)
  /\ last = Nothing /\ mock = cxlmi_open_mock

Next ==
  \/ \E cmd \in Cmds, ti \in Tunnels :
       \/ Refuse(cmd, ti)
       \/ SendMctp(cmd, ti) \/ SendMctpFails(cmd, ti)
       \/ SendIoctl(cmd, ti) \/ SendIoctlFails(cmd, ti)
       \/ SendMock(cmd, ti)
  \/ \E cmd \in Cmds, code \in Codes \cup {0}, size \in Sizes : SetResponse(cmd, code, size)
  \/ ClearResponses
  \/ Handled \/ enable_fmapi \/ disable_fmapi

Spec == Init /\ [][Next]_vars

-----------------------------------------------------------------------------
(* Properties *)

\* The variables have their types; send_cmd_cci sends nothing through more than
\* two levels of tunnel, and a target id is one byte.
TypeOK ==
  /\ link \in Links
  /\ has_fmapi \in BOOLEAN
  /\ last.cmd \in Cmds \cup {NOOP}
  /\ last.ti \in Tunnels
  /\ last.sent \in BOOLEAN /\ (last.sent => last.ti.level <= 2)
  /\ last.route \in Seq([type : {"port_or_ld", "ld_pool_cci"}, id : 0 .. 255])
  /\ last.rc \in Int
  /\ mock.responses_returned <= mock.commands_sent
  /\ mock.last_command \in Cmds \cup {NOOP}

\* The sound replies to the last command, as its link hands them over.
AsHandedOver(r) == IF last.link = "ioctl" THEN DriverHeader(r) ELSE r

LastWire ==
  IF last.link = "mctp" THEN Request(0, last.cmd, last.ti.level)
  ELSE ioctl_request(last.cmd, last.ti.level)

Successes ==
  {AsHandedOver(ReplyTo(LastWire, last.ti.level + 1, 0, n)) :
     n \in RspMin[last.cmd] .. RspMax[last.cmd]}

\* The checks of the transports together accept exactly the successful
\* replies: whatever else comes, damaged at any level of a tunnel, is not
\* taken for a success.  A direct command over ioctl is out: send_ioctl_direct
\* accepts a short payload on purpose.  So is the mock, which checks nothing.
ExactAcceptance ==
  last.sent /\ (last.link = "mctp" \/ (last.link = "ioctl" /\ last.ti.level > 0)) =>
    (last.rc = 0 <=> last.reply \in Successes)

\* A sound reply that reports code at one of its levels.
Reports(code) ==
  \E d \in 1 .. last.ti.level + 1 :
    last.reply = AsHandedOver(ReplyTo(LastWire, d, code, 0))

\* Over MCTP the return code of a sound error reply is the value of the call,
\* at whichever level of the tunnel it was given, although such a reply is
\* shorter than the shortest successful one.
MctpErrorReturned ==
  last.sent /\ last.link = "mctp" =>
    \A code \in Codes : Reports(code) => last.rc = code

\* docs/Testing.md: "Responses are consumed in FIFO order per command".  Of two
\* responses for a command the one set first is given first, whatever was set,
\* sent or cleared in between, no response is given twice, and the counter for
\* the statistics counts those given.
ScriptedInOrder ==
  /\ \A i, j \in DOMAIN mock.given :
       i < j /\ mock.given[i].cmd = mock.given[j].cmd =>
         mock.given[i].number < mock.given[j].number
  /\ \A i \in DOMAIN mock.given, j \in DOMAIN mock.responses :
       mock.given[i].cmd = mock.responses[j].cmd =>
         mock.given[i].number < mock.responses[j].number
  /\ mock.responses_returned = Len(mock.given)

\* README.md: "-1 is returned to indicate a problem sending the command,
\* while > 0 corresponds to the CXL defined returned code".
ErrorReturned ==
  last.sent /\ last.link # "mock" => \A code \in Codes : Reports(code) => last.rc = code

\* The device a tunnel leads to, by the comments of the tunnel macros.
Route(ti) ==
  IF ti.mhd THEN << LdPoolCci >>
  ELSE LET hops == SelectSeq(<< ti.port, ti.ld >>, LAMBDA id : id # -1)
       IN [i \in DOMAIN hops |-> PortOrLd(hops[i])]

\* libcxlmi.h: each tunnel leads to the device its macro names,
\* "Tunneling Commands to the LD Pool CCI in a Multi-Headed Device" included.
TunnelReachesTarget == last.sent /\ last.link # "mock" => last.route = Route(last.ti)
=============================================================================
