---------------------------- MODULE CommandCodec ----------------------------
(***************************************************************************)
(* A call of one of the command wrappers of src/cxlmi/commands.c, from its *)
(* own checks to the caller's structure, over either link and with every   *)
(* kind of reply a device may give: an error, a conforming reply, one that *)
(* counts more entries than it carries, one cut short and one too long.    *)
(* CommandTable says how the wrappers differ; CciMessage has the checks of *)
(* the transports.                                                         *)
(***************************************************************************)
EXTENDS CommandTable

CONSTANTS
  Args,   \* the values of the argument that sizes a command
  Codes   \* CXL return codes, besides 0

\* No message carries more entries than Unlimited.
ASSUME ArgAssumption ==
  /\ Args \subseteq Nat /\ \A n \in Args : n <= Unlimited
  /\ Codes \subseteq Nat \ {0}

Calls == UNION {Library(n) : n \in Args}

VARIABLES
  pc,     \* where the call is
  link,   \* the transport of the endpoint
  call,   \* the command called
  reply,  \* what the device answered: code, bytes of payload, entries counted
  rc,     \* the value of the call
  ret     \* entries decoded into the caller's structure, or Untouched

vars == <<pc, link, call, reply, rc, ret>>

\* The checks of the transports, for the command called.
Cci == INSTANCE CciMessage
         WITH Cmds <- {call}, FmapiCmds <- {},
              RspMin <- [c \in {call} |-> c.min],
              RspMax <- [c \in {call} |-> c.max],
              TUNNEL <- "tunnel", NOOP <- "noop",
              TagSpace <- 256, SizeMax <- 2 * Unlimited

Untouched == -1
NoCall == [cmd_identify EXCEPT !.ok = FALSE]
NoReply == [code |-> 0, len |-> 0, count |-> 0]

-----------------------------------------------------------------------------
(* What a device answers *)

Success(len, count) == [code |-> 0, len |-> len, count |-> count]

\* "Min returned should be 1" of Get Multi-Headed Info; other lists may be
\* empty.
LeastEntries(c) == IF c.op = \h5500 THEN 1 ELSE 0

Counts(c) == {n \in {LeastEntries(c), c.asked} : LeastEntries(c) <= n /\ n <= c.asked}

\* As many entries as were asked for or fewer, all of them there.
Conforming(c) ==
  IF c.ent > 0
  THEN {Success(c.hdr + c.ent * n, n) : n \in Counts(c)}
  ELSE {Success(len, 0) :
          len \in {n \in {c.min, IF c.min = c.max THEN c.max ELSE c.hdr} :
                     c.min <= n /\ n <= c.max}}

\* A count beyond what is there, the last entry cut, a header cut, a reply
\* longer than was asked for.
NonConforming(c) ==
  {[r EXCEPT !.count = n] :
     r \in Conforming(c), n \in IF c.ent > 0 THEN {c.asked + 1, 65535} ELSE {}}
  \cup {[r EXCEPT !.len = IF @ = 0 THEN 0 ELSE @ - 1] : r \in Conforming(c)}
  \cup {Success(0, 0), Success(c.max + 1, c.asked + 1)}

Errors == {[code |-> e, len |-> 0, count |-> 0] : e \in Codes}

-----------------------------------------------------------------------------
(* What the library makes of it *)

\* The reply as the checks of CciMessage see it, cut to the buffer.
Datagram ==
  LET req == Cci!arm_cci_request(0, call) IN
  Cci!Received(Cci!ReplyTo(req, 1, reply.code, reply.len), Cci!mctp_buffer(call, 0))

exchange_rc ==
  IF link = "mctp"
  THEN Cci!direct_rc(Cci!arm_cci_request(0, call), Datagram, call)
  ELSE Cci!ioctl_direct_rc(Datagram)

pl_length_NotSet(len) == IF link = "mctp" THEN len ELSE 0

\* The payload length in the header: over MCTP it came with the reply, over
\* ioctl send_ioctl_direct fills it in from the bytes the driver returned.
pl_length(len) == len

entries_in_rsp_Unguarded(len) == (len - call.hdr) \div call.ent

entries_in_rsp(len) ==
  IF len > call.hdr THEN (len - call.hdr) \div call.ent ELSE 0

\* The number of entries a wrapper copies out of its buffer.
decoded(r) ==
  LET counted == AtMost(r.count, call.cap) IN
  IF call.carried THEN AtMost(counted, entries_in_rsp(pl_length(r.len))) ELSE counted

Received == [reply EXCEPT !.len = Datagram.len - Cci!HDR]

-----------------------------------------------------------------------------
(* The call *)

Refuse(c, l) ==
  /\ pc = "idle" /\ ~c.ok
  /\ pc' = "done" /\ call' = c /\ link' = l /\ rc' = -1
  /\ UNCHANGED <<reply, ret>>

Send(c, l) ==
  /\ pc = "idle" /\ c.ok
  /\ pc' = "sent" /\ call' = c /\ link' = l
  /\ UNCHANGED <<reply, rc, ret>>

\* sendto() or ioctl() fails; the buffer is as calloc() left it.
SendFails ==
  /\ pc = "sent"
  /\ pc' = "done" /\ rc' = -1
  /\ ret' = IF call.checked THEN ret ELSE 0
  /\ UNCHANGED <<link, call, reply>>

Answer ==
  /\ pc = "sent"
  /\ \E r \in Conforming(call) \cup NonConforming(call) \cup Errors : reply' = r
  /\ pc' = "answered"
  /\ UNCHANGED <<link, call, rc, ret>>

\* The wrapper after send_cmd_cci.
Return ==
  /\ pc = "answered"
  /\ pc' = "done" /\ rc' = exchange_rc
  /\ ret' = IF call.checked /\ exchange_rc # 0 THEN ret ELSE decoded(Received)
  /\ UNCHANGED <<link, call, reply>>

Handled ==
  /\ pc = "done"
  /\ pc' = "idle" /\ link' = "mctp" /\ call' = NoCall
  /\ reply' = NoReply /\ rc' = 0 /\ ret' = Untouched

Init ==
  /\ pc = "idle" /\ link = "mctp" /\ call = NoCall
  /\ reply = NoReply /\ rc = 0 /\ ret = Untouched

Next ==
  \/ \E c \in Calls, l \in {"mctp", "ioctl"} : Refuse(c, l) \/ Send(c, l)
  \/ SendFails \/ Answer \/ Return \/ Handled

Spec == Init /\ [][Next]_vars

-----------------------------------------------------------------------------
(* Properties *)

\* The variables have their types, a size a command declares is never
\* negative, and what is decoded is counted.
TypeOK ==
  /\ pc \in {"idle", "sent", "answered", "done"}
  /\ link \in {"mctp", "ioctl"}
  /\ call.op \in Nat /\ call.op <= \hFFFF
  /\ {call.req, call.min, call.max, call.hdr, call.ent, call.asked, call.cap}
       \subseteq Nat
  /\ reply \in [code : Codes \cup {0}, len : Nat, count : Nat]
  /\ rc \in {-1, 0} \cup Codes
  /\ ret \in Nat \cup {Untouched}

Done == pc = "done" /\ call.ok

\* Opcodes whose wrapper copies a length the caller chose out of a zeroed
\* buffer: Get Feature and Get VCS Info.
ZeroFilled == {\h0501, \h5200}

\* Opcodes whose wrapper looks at pl_length.
LooksAtLength == {\h4300, \h4305, \h4402}

\* An entry handed to the caller came from the device: when the reply conforms,
\* all the bytes decoded are in it; and the wrappers that look at pl_length
\* decode whole entries of the reply whatever count it claims.
DecodesWhatCame ==
  Done /\ rc = 0 =>
    /\ reply \in Conforming(call) /\ call.op \notin ZeroFilled =>
         call.hdr + call.ent * ret <= reply.len
    /\ call.op \in LooksAtLength =>
         ret = 0 \/ call.hdr + call.ent * ret <= Received.len

\* Opcodes whose wrapper gives rsp_sz as the least length of a list, so that
\* over MCTP it refuses a list shorter than the caller's limit.
WholeListOnly == {\h5101, \h5302, \h5401, \h5402, \h5406, \h5407,
                  \h5408, \h5409, \h5501}

\* A conforming list of count entries that is refused over MCTP.  Get Supported
\* Logs Sub-List gives the size of 16 logs as both lengths, whatever number of
\* them the caller asks for.
ListRefused(c, count) ==
  IF c.op = \h0405 THEN count # CXLMI_MAX_SUPPORTED_LOGS
  ELSE c.op \in WholeListOnly /\ count < c.asked

\* The entries of a conforming list that reach the caller.
ListKept(c, count) ==
  IF c.op = \h0405 THEN AtMost(count, CXLMI_MAX_SUPPORTED_LOGS) ELSE count

\* Every conforming reply is accepted over both links and all its entries reach
\* the caller, the largest and the smallest list included, with the exceptions
\* above and no others: over MCTP a short list for the wrappers that insist on
\* the whole of it, and of Get Supported Logs Sub-List every list over MCTP that
\* is not of 16 logs and, over ioctl, all but the first 16.
ConformingAccepted ==
  Done /\ reply \in Conforming(call) /\ reply # NoReply =>
    IF link = "mctp" /\ ListRefused(call, reply.count) THEN rc = -1
    ELSE rc = 0 /\ ret = ListKept(call, reply.count)

\* Opcodes whose wrapper decodes before it looks at the result: DC List Tags.
DecodesAnyway == {\h5608}

\* The caller's structure is written exactly when the call succeeds: a caller
\* that keeps a structure between calls does not find a failed reply in it.
RetOnSuccess ==
  Done /\ call.op \notin DecodesAnyway => (rc = 0 <=> ret # Untouched)

\* "Fit header + records into CXL_MAILBOX_MAX_PAYLOAD_SIZE (2048)": what the
\* limits of commands.c let through fits in the mailbox, in both directions.
FitsMailbox ==
  pc # "idle" /\ call.ok /\ call.op \in {\h4300, \h4305, \h4402} =>
    /\ call.req <= CXL_MAILBOX_MAX_PAYLOAD_SIZE
    /\ call.max <= CXL_MAILBOX_MAX_PAYLOAD_SIZE

\* The wrappers that cut the count decode no more entries than they made room
\* for, whatever the device counts.
BoundedDecode ==
  Done /\ ret # Untouched /\ call.op \in {\h0400, \h0405, \h4300, \h4305, \h4402} =>
    call.hdr + call.ent * ret <= call.max
=============================================================================
