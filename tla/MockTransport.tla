--------------------------- MODULE MockTransport ---------------------------
(***************************************************************************)
(* The mock transport (src/cxlmi/mock.c), which answers commands from a    *)
(* script for the tests.  A mock is a record                               *)
(*                                                                         *)
(*   responses     : the script, a sequence of responses still to be given *)
(*   commands_sent, responses_returned : the counters of get_stats         *)
(*   last_command  : the command received last                             *)
(*   scripted      : how many responses were ever set; numbers them        *)
(*   given         : those given, oldest first (with scripted, for the     *)
(*                   properties)                                           *)
(*                                                                         *)
(* A response is a command, a return code, a payload size and its number.  *)
(***************************************************************************)
EXTENDS CciMessage

UNSUPPORTED == 3     \* CXLMI_RET_UNSUPPORTED

cxlmi_open_mock ==
  [responses |-> << >>, commands_sent |-> 0, responses_returned |-> 0,
   last_command |-> NOOP, scripted |-> 0, given |-> << >>]

cxlmi_mock_set_response(m, cmd, code, size) ==
  [m EXCEPT !.responses = Append(@, [cmd |-> cmd, code |-> code, size |-> size,
                                     number |-> m.scripted + 1]),
            !.scripted = @ + 1]

cxlmi_mock_clear_responses(m) == [m EXCEPT !.responses = << >>]

\* The places of the script that have a response for the command.
Matching(m, cmd) == {i \in DOMAIN m.responses : m.responses[i].cmd = cmd}

mock_find_response_Last(m, cmd) ==
  CHOOSE i \in Matching(m, cmd) : \A j \in Matching(m, cmd) : j <= i

\* The first one.
mock_find_response(m, cmd) ==
  CHOOSE i \in Matching(m, cmd) : \A j \in Matching(m, cmd) : i <= j

\* The script without its place i.
Without(s, i) == SubSeq(s, 1, i - 1) \o SubSeq(s, i + 1, Len(s))

Recorded(m, cmd) == [m EXCEPT !.commands_sent = @ + 1, !.last_command = cmd]

\* The mock after a command ...
mock_after(m, cmd) ==
  IF Matching(m, cmd) = {} THEN Recorded(m, cmd)
  ELSE LET i == mock_find_response(m, cmd) IN
       [Recorded(m, cmd) EXCEPT !.responses = Without(@, i),
                                !.responses_returned = @ + 1,
                                !.given = Append(@, m.responses[i])]

\* ... its value, which is the scripted code whatever the size of the payload ...
mock_rc(m, cmd) ==
  IF Matching(m, cmd) = {} THEN UNSUPPORTED
  ELSE m.responses[mock_find_response(m, cmd)].code

\* ... and the reply, its payload cut to the caller's buffer.
mock_reply(m, cmd) ==
  IF Matching(m, cmd) = {}
  THEN [layers |-> << [ZeroLayer EXCEPT !.opcode = cmd, !.return_code = UNSUPPORTED] >>,
        len |-> HDR]
  ELSE LET r == m.responses[mock_find_response(m, cmd)]
           size == IF r.size > RspMax[cmd] THEN RspMax[cmd] ELSE r.size
       IN [layers |-> << [ZeroLayer EXCEPT !.category = RSP, !.opcode = cmd,
                                           !.return_code = r.code, !.pl_length = size] >>,
           len |-> HDR + size]
=============================================================================
