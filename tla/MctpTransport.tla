--------------------------- MODULE MctpTransport ---------------------------
(***************************************************************************)
(* One MCTP endpoint of the library (src/cxlmi/cxlmi.c): the tag counter,  *)
(* the CCI socket and the FM-API socket, and one command at a time going   *)
(* through send_cmd_cci.  The caller serialises its commands, as the       *)
(* library requires.  The device and the MCTP network are outside: they    *)
(* answer in any order, late, or not at all.                               *)
(*                                                                         *)
(* A socket is a queue of datagrams that only recvfrom() empties: a reply  *)
(* that comes after its command timed out is read by the next command.     *)
(***************************************************************************)
EXTENDS CciMessage, FiniteSets

CONSTANTS
  Codes,         \* the CXL return codes a device may give, besides 0
  MaxTag,        \* bound: the tag counter stops here
  Ticks,         \* ep->timeout_ms, in ticks of the model's clock; 0: no timeout
  MaxInterrupts  \* bound: signals that interrupt poll() during one command

ASSUME BoundAssumption ==
  /\ MaxTag \in Nat /\ Ticks \in Nat /\ MaxInterrupts \in Nat
  /\ Codes \subseteq Nat \ {0}

VARIABLES
  tag,         \* mctp->tag, an int of which a message carries the low bits
  has_fmapi,   \* ep->has_fmapi: the FM-API socket is open
  polling,     \* a command was sent and waits in poll()
  cur,         \* that command
  waited,      \* ticks since the last call of poll()
  interrupts,  \* EINTR returns of poll() during this command
  inflight,    \* commands sent, neither answered nor lost yet
  queue,       \* replies in the receive queue of each socket
  result,      \* what the last command returned, and the reply it came from
  abandoned,   \* history: commands given up after they were sent, per socket
  lost         \* history: commands whose request or reply got lost, per socket

device == <<inflight, queue, lost>>
poll == <<waited, interrupts>>
vars == <<tag, has_fmapi, polling, cur, waited, interrupts, inflight, queue,
          result, abandoned, lost>>

Levels == 0 .. 2        \* the tunnel levels send_cmd_cci accepts
TunnelLevels == 0 .. 3  \* those a caller may ask for
Sockets == {"sd", "fmapi_sd"}

\* A command as sent: id is the tag counter when its message was armed.
Command == [id : Nat, cmd : Cmds, level : Levels]
Attempt == [id : Nat, cmd : Cmds, level : TunnelLevels]

Socket(c) ==
  IF c.level > 0 \/ cxlmi_cmd_is_fmapi(c.cmd) THEN "fmapi_sd" ELSE "sd"

Wire(c) == Request(c.id, c.cmd, c.level)

\* The counter value in the outermost message: build_tunnel_req takes one
\* more tag for each level.
OuterTag(c) == c.id + c.level

NoCommand == [id |-> 0, cmd |-> CHOOSE c \in Cmds : TRUE, level |-> 0]
NoResult == [rc |-> -1, req |-> NoCommand, from |-> NoCommand]

Init ==
  /\ tag = 0
  /\ has_fmapi \in BOOLEAN
  /\ polling = FALSE
  /\ cur = NoCommand
  /\ waited = 0
  /\ interrupts = 0
  /\ inflight = {}
  /\ queue = [s \in Sockets |-> << >>]
  /\ result = NoResult
  /\ abandoned = [s \in Sockets |-> 0]
  /\ lost = [s \in Sockets |-> 0]

-----------------------------------------------------------------------------
(* The library *)

\* The command returns rc; from is the command the reply was an answer to.
Return(rc, from) ==
  /\ polling' = FALSE
  /\ result' = [rc |-> rc, req |-> cur, from |-> from]
  /\ cur' = NoCommand
  /\ waited' = 0
  /\ interrupts' = 0
  /\ UNCHANGED <<tag, has_fmapi>>

\* The command is given up with -1 while its answer is still owed.
GiveUp ==
  /\ Return(-1, cur)
  /\ abandoned' = [abandoned EXCEPT ![Socket(cur)] = @ + 1]
  /\ UNCHANGED device

Send_AnyLevel(cmd, level) ==
  LET c == [id |-> tag, cmd |-> cmd, level |-> level] IN
  /\ ~polling
  /\ tag + level < MaxTag
  /\ Socket(c) = "fmapi_sd" => has_fmapi
  /\ tag' = tag + level + 1
  /\ polling' = TRUE
  /\ cur' = c
  /\ result' = NoResult
  /\ inflight' = inflight \cup {c}
  /\ UNCHANGED <<has_fmapi, poll, queue, abandoned, lost>>

\* A command is armed, wrapped in its tunnels and sent whole.  A tunnelled
\* command uses the FM-API socket, which only an enabled FM-API has open.
Send(cmd, level) ==
  LET c == [id |-> tag, cmd |-> cmd, level |-> level] IN
  /\ ~polling
  /\ tag + level < MaxTag
  /\ level <= 2
  /\ Socket(c) = "fmapi_sd" => has_fmapi
  /\ tag' = tag + level + 1
  /\ polling' = TRUE
  /\ cur' = c
  /\ result' = NoResult
  /\ inflight' = inflight \cup {c}
  /\ UNCHANGED <<has_fmapi, poll, queue, abandoned, lost>>

\* Nothing is sent: an FM-API command without FM-API or a tunnel of more
\* than two levels (send_cmd_cci returns before it builds a tunnel), an
\* allocation that fails, or sendto() failing, as it does on the closed
\* FM-API socket.
SendFails(cmd, level) ==
  LET c == [id |-> tag, cmd |-> cmd, level |-> level] IN
  /\ ~polling
  /\ tag + level < MaxTag
  /\ \E used \in 1 .. level + 1 :
       /\ (cxlmi_cmd_is_fmapi(cmd) /\ ~has_fmapi) \/ level > 2 => used = 1
       /\ tag' = tag + used
  /\ result' = [rc |-> -1, req |-> c, from |-> c]
  /\ UNCHANGED <<has_fmapi, polling, cur, poll, device, abandoned>>

\* poll() reports a datagram and recvfrom() takes the oldest one, whichever
\* command it answers.
Receive ==
  LET s == Socket(cur)
      reply == Received(Head(queue[s]), mctp_buffer(cur.cmd, cur.level))
  IN /\ polling
     /\ queue[s] # << >>
     /\ Return(mctp_rc(Wire(cur), reply, cur.cmd, cur.level), reply.of)
     /\ queue' = [queue EXCEPT ![s] = Tail(@)]
     /\ UNCHANGED <<inflight, lost, abandoned>>

\* poll() reports the socket but recvfrom() fails: the zeroed buffer is
\* checked with the length (size_t)-1, and no datagram is taken.
ReceiveFails ==
  LET s == Socket(cur) IN
  /\ polling
  /\ queue[s] # << >>
  /\ Return(mctp_rc(Wire(cur), NothingReceived, cur.cmd, cur.level), cur)
  /\ abandoned' = [abandoned EXCEPT ![s] = @ + 1]
  /\ UNCHANGED device

\* Time passes in poll().
Tick ==
  /\ polling /\ Ticks > 0 /\ waited < Ticks
  /\ queue[Socket(cur)] = << >>
  /\ waited' = waited + 1
  /\ UNCHANGED <<tag, has_fmapi, polling, cur, interrupts, inflight, queue,
                 result, abandoned, lost>>

\* poll() fails with EINTR and is called again with the whole timeout.
Interrupt ==
  /\ polling /\ interrupts < MaxInterrupts
  /\ interrupts' = interrupts + 1
  /\ waited' = 0
  /\ UNCHANGED <<tag, has_fmapi, polling, cur, inflight, queue, result,
                 abandoned, lost>>

Timeout_Retries ==
  /\ polling /\ Ticks > 0 /\ waited = Ticks
  /\ queue[Socket(cur)] = << >>
  /\ waited' = 0
  /\ UNCHANGED <<tag, has_fmapi, polling, cur, interrupts, device, result,
                 abandoned>>

\* poll() returns 0.
Timeout ==
  /\ polling /\ Ticks > 0 /\ waited = Ticks
  /\ queue[Socket(cur)] = << >>
  /\ GiveUp

\* poll() fails with another error.
PollFails == polling /\ GiveUp

\* The new FM-API socket of cxlmi_endpoint_enable_fmapi starts empty.
EnableFmapi ==
  /\ ~polling /\ ~has_fmapi
  /\ has_fmapi' = TRUE
  /\ UNCHANGED <<tag, polling, cur, poll, device, result, abandoned>>

DisableFmapi_KeepsSocket ==
  /\ ~polling /\ has_fmapi
  /\ has_fmapi' = FALSE
  /\ abandoned' = [abandoned EXCEPT !["fmapi_sd"] = 0]
  /\ lost' = [lost EXCEPT !["fmapi_sd"] = 0]
  /\ UNCHANGED <<tag, polling, cur, poll, inflight, queue, result>>

\* Closing the FM-API socket drops what it holds and what is still to come.
DisableFmapi ==
  /\ ~polling /\ has_fmapi
  /\ has_fmapi' = FALSE
  /\ queue' = [queue EXCEPT !["fmapi_sd"] = << >>]
  /\ inflight' = {c \in inflight : Socket(c) # "fmapi_sd"}
  /\ abandoned' = [abandoned EXCEPT !["fmapi_sd"] = 0]
  /\ lost' = [lost EXCEPT !["fmapi_sd"] = 0]
  /\ UNCHANGED <<tag, polling, cur, poll, result>>

-----------------------------------------------------------------------------
(* The device and the network *)

\* Each reply remembers the command it answers.
Answers(c) ==
  {[of |-> c, layers |-> r.layers, len |-> r.len] :
     r \in Replies(Wire(c), c.cmd, Codes)}

DeviceAnswers(c) ==
  /\ c \in inflight
  /\ inflight' = inflight \ {c}
  /\ \E reply \in Answers(c) :
       queue' = [queue EXCEPT ![Socket(c)] = Append(@, reply)]
  /\ UNCHANGED <<tag, has_fmapi, polling, cur, poll, result, abandoned, lost>>

Lose(c) ==
  /\ c \in inflight
  /\ inflight' = inflight \ {c}
  /\ lost' = [lost EXCEPT ![Socket(c)] = @ + 1]
  /\ UNCHANGED <<tag, has_fmapi, polling, cur, poll, queue, result, abandoned>>

Next ==
  \/ \E cmd \in Cmds, level \in TunnelLevels : Send(cmd, level) \/ SendFails(cmd, level)
  \/ Receive \/ ReceiveFails
  \/ Tick \/ Interrupt \/ Timeout \/ PollFails
  \/ EnableFmapi \/ DisableFmapi
  \/ \E c \in inflight : DeviceAnswers(c) \/ Lose(c)

Spec == Init /\ [][Next]_vars

\* A process in poll() is woken by its timeout or by a datagram.
FairSpec == Spec /\ WF_vars(Tick) /\ WF_vars(Timeout) /\ WF_vars(Receive)

-----------------------------------------------------------------------------
(* Properties *)

LayerType == [category : {REQ, RSP}, tag : Nat, opcode : Cmds \cup {TUNNEL},
              return_code : Nat, pl_length : Int, length : Int]
ReplyType == [of : Command, layers : Seq(LayerType), len : Nat]

\* The variables have their types; in particular send_cmd_cci never sends a
\* command through more than two levels of tunnel.
TypeOK ==
  /\ tag \in Nat
  /\ has_fmapi \in BOOLEAN
  /\ polling \in BOOLEAN
  /\ cur \in Command
  /\ waited \in Nat
  /\ interrupts \in Nat
  /\ inflight \in SUBSET Command
  /\ queue \in [Sockets -> Seq(ReplyType)]
  /\ result \in [rc : Int, req : Attempt, from : Attempt]
  /\ abandoned \in [Sockets -> Nat]
  /\ lost \in [Sockets -> Nat]

\* A command that does not fail (send_cmd_cci gives 0 or a CXL code) returns
\* the answer to itself, however late, lost or reordered other answers are;
\* or, the one case the tag byte cannot tell, the answer to a command sent
\* TagSpace tags or more before.
FreshReply ==
  result.rc >= 0 =>
    \/ result.from = result.req
    \/ OuterTag(result.req) - OuterTag(result.from) >= TagSpace

\* No reply is ever drained: between two commands a socket owes one reply for
\* each command given up on it and not lost on the way.  So one late answer
\* leaves the socket out of step for good: each later command reads the
\* answer to an earlier one.
OwedReplies ==
  \A s \in Sockets :
    Cardinality({c \in inflight : Socket(c) = s}) + Len(queue[s]) + lost[s]
      = abandoned[s] + (IF polling /\ Socket(cur) = s THEN 1 ELSE 0)

RR == INSTANCE RequestReply
        WITH Commands <- Command, Attempts <- Attempt, Nothing <- NoCommand, busy <- polling

\* The promise of send_cmd_cci, kept as long as the tag byte does not wrap
\* (MaxTag <= TagSpace): one call at a time, and a call that does not fail
\* returns the answer to its own command, with late answers to earlier ones on
\* the socket, and in any order of timeouts, signals and FM-API switches.
AnswersItsCaller == RR!Spec

\* A sent command returns, when signals do not interrupt poll() forever.
CallReturns == polling ~> ~polling
=============================================================================
