# Verification of libcxlmi

TLA+ models of libcxlmi, the CXL Management Interface library, and of its tools
`mbcci-sfx` and `mctp-cci`. TLC checks them on small instances; TLAPS proves
the safety properties for every value of the constants. `PROJECT.json` maps
every definition to the source lines it models and lists the runs, mutants,
findings, hazards and theorems.

    tlc -workers 2 -config MctpTransport.cfg MCMctpTransport   # one run
    tlapm MctpTransportProofs.tla                              # one proof module

## The system

The library sends CXL Component Command Interface (CCI) commands to switches and
memory devices. An application makes a *context*, which keeps a list of
*endpoints*. An endpoint is a nid:eid pair on an MCTP bus, a character device
under `/dev/cxl` driven by ioctl, or a mock used by tests. A command is a request
message and a response message, and may be wrapped in one or two levels of the
Tunnel Management Command to reach a device behind a switch or a logical device
(LD) of a multi-logical device. Commands of the Fabric Manager API (FM-API)
need the endpoint's FM-API to be enabled; over MCTP they, and all tunnelled
commands, use a socket of their own. The library takes no locks: callers
serialise their calls.

The tools are command-line programs on top of it. Each run opens one device,
sends the commands of one subcommand and says by its exit status whether that
worked. The vendor commands of `mbcci-sfx` work only while the vendor mailbox of
the device is unlocked, and the tool unlocks it before and locks it after. The
SDB tunnel carries CCI messages, built by the tool, inside a vendor command.

| Part | Source | Module |
|---|---|---|
| CCI messages, reply checks | `src/cxlmi/cxlmi.c` | `CciMessage` |
| MCTP transport, both sockets, tags, timeouts | `src/cxlmi/cxlmi.c` | `MctpTransport`, implements `RequestReply` |
| Dispatch, tunnelling, ioctl transport | `src/cxlmi/cxlmi.c`, `src/libcxlmi.h` | `CommandExchange` |
| Mock transport: script, counters | `src/cxlmi/mock.c` | `MockTransport`, used by `CommandExchange` |
| Contexts, endpoints, probes, scans, descriptors | `src/cxlmi/cxlmi.c`, `src/cxlmi/mock.c` | `EndpointRegistry` |
| Command wrappers | `src/cxlmi/commands.c` | `CommandTable`, `CommandCodec` |
| Subcommands of both tools, SDB tunnel, paged readers | `tools/mbcci-sfx`, `tools/mctp-cci` | `ToolTable`, `ToolSession` |
| `transfer-fw`, `vu-dlcfg`, `get-vendor-log` | `tools/mbcci-sfx` | `ChunkedTransfer` |
| `vu-dlunion`: firmware download session | `tools/mbcci-sfx/cmd_vu_dlunion.c` | `FwDownload` |

`MctpTransport` and `CommandExchange` both extend `CciMessage`, so the checks
applied to a late reply and to a damaged one are the same definitions.
`ToolTable` extends `CommandTable`, so the sizes of a tunnelled message can be
compared with those the library uses for the same opcode. `EndpointRegistry`,
`FwDownload` and `ChunkedTransfer` stand alone: the first is about the list and
the descriptors, the others need of a command only that it succeeds, fails
before it took effect, or fails after.

## The modules

### CciMessage

A request is the sequence of nested messages, outermost first; a reply is a
record of nested messages and the length of the datagram. Payload bytes are left
out; lengths, tags, opcodes, categories and return codes are kept.
`sanity_check_mctp_rsp` and the unwinding of zero, one and two tunnels
(`direct_rc`, `tunnel1_rc`, `tunnel2_rc`) follow the code check by check and in
its order. The tag is the low byte of a counter (`TagSpace` values), and a failed
`recvfrom` gives the length `(size_t)-1` (`SizeMax`) with a zeroed buffer.

### MctpTransport and RequestReply

State: the tag counter, the FM-API flag, the command waiting in `poll`, the
receive queue of each socket, the commands in flight, and two history counters
(commands abandoned, commands lost). `Send` and `SendFails` are the part of
`send_cmd_cci` up to `sendto`. `Receive`, `ReceiveFails`, `Tick`, `Interrupt`,
`Timeout` and `PollFails` are the outcomes of `poll` and `recvfrom`. A socket's
queue is emptied by `recvfrom` alone, so the reply to a command that timed out is
read by the next one. `DeviceAnswers` and `Lose` are the outside: they answer in
any order, late or never. `EnableFmapi` and `DisableFmapi` open and close the
second socket.

`RequestReply` is what a caller of `send_cmd_cci` relies on: one call at a time,
and each returns once, with a failure or with the answer to that very command.
The mapping takes "a command waits in `poll`" for "a call is under way".

### CommandExchange and MockTransport

One command at a time over each of the three links. A reply over MCTP or ioctl
is sound, reports an error at some level, or has one field of one level damaged
or its bytes cut. The module keeps where each tunnel macro leads (`mctp_route`,
`ioctl_route`) and what the call returns. Over ioctl the driver replaces the
outer header by a return code and a size (`DriverHeader`). `MockTransport` holds
the script of a mock endpoint: responses are set, found by opcode, used up and
cleared. Each is numbered when it is set, so that their order can be stated.

### EndpointRegistry

State: the endpoint at each address, the open descriptors of the process, those
the application owns, the probe switch, the scan under way. `open` and `socket`
return the lowest free descriptor, so a number closed by mistake is soon somebody
else's. A probe that stops early leaves `fmapi_sd` at 0, which is a valid
descriptor number the endpoint does not own. Opens that fail restore the state
and are stutters. The FM-API switch of a mock endpoint treats its data as MCTP
data, as the code does; `intact` records it, and `crashed` that the broken list
was then walked.

### CommandTable and CommandCodec

`CommandTable` has one record per wrapper of `commands.c`: its opcode, its own
checks, the bytes it sends, the shortest and the longest reply it takes, the
bytes it decodes per entry, its limit on the entries, whether it cuts the count
to what `pl_length` has room for, and whether it returns before decoding when the
exchange failed. `CommandCodec` calls any of them over MCTP or ioctl with a
device that refuses, conforms, counts more than it sends, or sends too little or
too much. The contents of the fields are left out. Get Feature copies as many
bytes as the caller asked for, a 16-bit count that nothing compares with the
buffers of 2048 bytes; the model keeps the count and says nothing of what is
read beyond them.

### ToolTable and ToolSession

`ToolTable` has one record per subcommand of the tools that sends one command or
reads one list of pages, with the inner message of the tunnelled ones.
`ToolSession` is a set of runs sharing one device. A run checks its options,
looks up sizes where they were left out, unlocks the mailbox, works page by page,
locks and exits. Every command may fail before or after it took effect, may be
refused or run in the background. An answer of the tunnel may be too short to
hold the inner return code, and then reads as zeros, success included. A run may
be killed between any two commands. `Crash` is `mctp-cci dcd config`, which hands
a NULL request to the wrapper.

### ChunkedTransfer

The loops that move a file or a log in chunks. The chunk size, which is checked
as an `unsigned long` and then kept in 32 bits, and the offset have their width
(`OffsetSpace`, 2^32 in the code). A chunk size that becomes 0 is a divisor,
after the unlock in `vu-dlcfg`: the division kills the run, or gives 0 and no
chunk is sent; INIT, CONTINUE, END and FULL, padding to
whole words, and the unit of 128 bytes of firmware offsets are computed as in the
code. A file may be cut while it is read, an answer may be lost or too short, and
the end of a log may be lost in `fclose`, whose result nobody looks at.

### FwDownload

`pc` follows `vu_dlunion_download`; each `fwdownload_send` is unlock, command,
lock, each of which may fail, and the command and the unlock may fail after they
took effect. The device is external and marked so: it opens sessions, asks for
parts, works in busy states, goes from one to another, may fail, may drop a
session, and may report fields the tool rejects. `rsp` is arbitrary where the
code reads it uninitialised (`FileFails`). Time is counted in sleeps and queries.
The download through the SDB tunnel is the same function with another way to
send.

## The runs

| Run | Shows | States |
|---|---|---|
| `mctp_transport` | `FreshReply`: a result is the command's own answer unless a whole tag space passed. `OwedReplies`: replies left on a socket are never drained, so one late reply leaves it out of step | 1.75 M |
| `mctp_liveness` | `CallReturns`: a sent command returns. `AnswersItsCaller`: while the tag does not wrap, the transport implements `RequestReply` | 20 k |
| `command_exchange` | `ExactAcceptance`: exactly the sound successes are accepted. `MctpErrorReturned`: an error code is returned from any tunnel level. `ScriptedInOrder`: a mock gives its responses in the order they were set | 548 k |
| `endpoint_registry` | `NoDuplicates`, `Ownership` (one owner per descriptor), `ScanCount`, `ScanFindsDevices`, `ScanFindsEndpoints` (a scan that succeeds left nothing out) | 660 k |
| `fw_download` | `ImageComplete`, `MailboxRelocked`, `SessionCancelled`, `DataMatches`; `LeavesLess`: every step leaves less of the download to do, but for a change of busy state. `Terminates`: it returns even if the device stays in one busy state or silent | 672 k |
| `command_codec` | `DecodesWhatCame`: what is decoded of a conforming reply was in it, and for the three wrappers that look at `pl_length` of any reply. `ConformingAccepted`: a conforming reply is accepted whole. `RetOnSuccess`: the caller's structure is written on success only. `FitsMailbox`, `BoundedDecode`: the limits of the wrappers hold the mailbox and the buffer | 23 k |
| `tool_session` | `LeftOpenReported`: an open mailbox never goes unreported. `SuccessMeansDone`: what exit status 0 stands for. `TunnelledAlike`, `AnnouncedSize`: hand-built messages have the sizes of the library's for the same argument, and announce their own. `CommandsRunOut`: each command sent leaves fewer to send. `SessionEnds`: runs end | 300 k |
| `chunked_transfer` | `InOrder`: blocks arrive in order, and the last is announced only when all are there. `StatusTrue`: what status 0 stands for. `BracketKept`: the mailbox is open for the pieces and locked after | 91 k |

All but `mctp_liveness` also check the module's `TypeOK`. Some properties name
exceptions the code really has, so that they are exact about the rest:

- `ConformingAccepted`: over MCTP nine wrappers refuse a list shorter than the
  caller's limit. Get Supported Logs Sub-List gives its room for 16 logs as the
  least length too: over MCTP it refuses every list that is not of 16 logs,
  whatever the caller asked for, and over ioctl it keeps the first 16. The
  property says exactly which replies are refused and how many entries are kept.
- `DecodesWhatCame`: Get Feature and Get VCS Info decode what the caller asked
  for, from a zeroed buffer, when the reply is shorter. Of a device that counts
  more entries than it sends it speaks for Get Poison List, Get Scan Media
  Results and Media Operations alone (4300, 4305, 4402). The other list wrappers
  trust the count and read on behind the reply.
- `BoundedDecode` is about those three and Get Supported Logs Sub-List.
- `LeavesLess`, `Terminates`: the loop times each busy state anew, so a device
  that changes between busy states without end is waited for without end.
- `RetOnSuccess`: DC List Tags decodes before it looks at the result.
- `SuccessMeansDone`: `mctp-cci` reads the first page of a list and does not say
  that more follow; a short answer of the tunnel counts as success, there and in
  `LeftOpenReported`.
- `TunnelledAlike` compares a tunnelled message with the direct one for the same
  argument. A `clear-event-records --all` that also names handles is not
  compared: directly no handle is sent, and through the tunnel the handles are
  left zero and not counted.
- `AnnouncedSize` is about the subcommands of `ToolTable`, not the chunks of the
  tunnelled `transfer-fw` (below).
- `InOrder` and `StatusTrue` leave out files of more than 2^32 bytes, whose
  offsets wrap, and runs that were given too short an answer.
- `CommandsRunOut`, `SessionEnds`: the event reader and the device configuration
  reader of `mbcci-sfx` have no limit on their pages.
- `StatusTrue`: a file cut after its first chunk, a log lost in `fclose`, and a
  chunk size of 0 whose division is survived, end with status 0.
- `BracketKept`: a run that is killed, by its own division by zero included,
  leaves the mailbox open.

Four runs are expected to find a violation, each of something the repository
says of itself:

| Run | What the code does |
|---|---|
| `error_returned` | an ioctl tunnel returns CXL codes negated; 1 becomes -1, the value for a sending problem |
| `tunnel_target` | over ioctl the tunnel to the LD pool CCI goes to port or LD 255 |
| `mock_fmapi` | disabling FM-API on a mock damages its response list |
| `transfer_status` | a file cut while it is sent ends the transfer with status 0 |

Other behaviours a reader may not expect, visible in the models:

- over ioctl a generic command is tunnelled although FM-API is disabled;
- `cxlmi_scan_mctp` stops with an error at an endpoint that is open already;
- the timeout 0 passes the limit and waits for ever;
- a download session whose BEGIN response is lost or rejected gets no ABORT
  (`SessionCancelled` is about the sessions the tool knows of);
- `get-vendor-log` appends, so a second run after a partial one repeats blocks;
- `--chunk-size` has no upper limit, so a tunnelled transfer with chunks near 64
  KiB wraps the 16-bit `command_size` (`cmd_sdb_tunnel.c:663`). This is outside
  `ChunkedTransfer`, which does not keep the header of the tunnel; the default
  chunk is far below.

### Bounds

- `mctp_transport`: three tag values and five tags let the tag wrap with a
  command at level 2, and let two replies wait on one socket. The tag counter's
  bound stops the model, so deadlock is not checked. Signals are left to
  `mctp_liveness`, where they matter; there three tags do not wrap, as
  `AnswersItsCaller` requires.
- `command_exchange`: commands with a fixed, an optional and a variable response
  cover both length rules; ids 0 and 3 tell an LD from a port and from the -1 of
  no id; the tag space is the real 256. Three scripted responses and three
  commands to the mock have two for one command with another in between.
- `endpoint_registry`: three addresses are needed for two endpoints and a third
  that takes over a freed descriptor; five descriptors run out between the two
  sockets of an endpoint. A crashed process takes no step, so deadlock is not
  checked.
- `fw_download`: three parts allow a repeated request that is not the last one;
  waits of two steps expire and restart, also because the device changed its busy
  state. `AsksAgain` bounds how long the device
  asks again for parts it has. The code has no such limit: it only refuses the
  same range twice in a row, so `LeavesLess` and `Terminates` depend on that bound
  and hold for devices that ask again finitely often. Changes of the busy state
  are not bounded.
- `command_codec`: every wrapper, with the argument that sizes it at and around
  the limits of the code (the list is in `MCCommandCodec`).
- `tool_session`: one run is any subcommand, the other one of three that need the
  vendor mailbox, so that brackets overlap; sizes 0, 1, 16 and 65535.
  `MaxIterations` cuts the limits of the paged readers to three pages. The
  page counter of a reader without a limit is kept modulo 2.
- `chunked_transfer`: up to five chunks, sizes at, below and above multiples of
  the chunk and of a word, and beyond `OffsetSpace`, which is cut from 2^32 to
  8192. A `--chunk-size` of 8192 then becomes 0, and one of 10240 becomes 2048.

### Fairness

`mctp_liveness` assumes weak fairness of `Tick`, `Timeout` and `Receive`: time
passes and a process is woken by its timer or by data. Signals are finitely many,
since each restarts the whole timeout. `fw_download` assumes weak fairness of
the tool's own steps only. Of the device no step is assumed: it may stop for
good, anywhere. What `Terminates` does need of it is stated: that it asks again
at most `AsksAgain` times, a bound of the model, and that it does not change its
busy state for ever, an alternative of the property. `tool_session`
assumes it of the steps of each run: a call of the library or an ioctl returns,
with a timeout if with nothing else.

## The proofs

| Module | Theorem | Property |
|---|---|---|
| `MctpTransportProofs` | `TypeCorrect`, `Freshness`, `NothingDrained`, `Promise` | `TypeOK`, `FreshReply`, `OwedReplies`, `AnswersItsCaller` |
| `CommandExchangeProofs` | `TypeCorrect`, `AcceptedExactly`, `ErrorsReturned`, `FirstSetFirstGiven` | `TypeOK`, `ExactAcceptance`, `MctpErrorReturned`, `ScriptedInOrder` |
| `EndpointRegistryProofs` | `TypeCorrect`, `Unique`, `DescriptorsOwned`, `ScanCounts`, `DevicesFound`, `EndpointsFound` | `TypeOK`, `NoDuplicates`, `Ownership`, `ScanCount`, `ScanFindsDevices`, `ScanFindsEndpoints` |
| `FwDownloadProofs` | `TypeCorrect`, `CompleteOnSuccess`, `Relocked`, `Cancelled`, `DataFresh`, `AlwaysLessToDo` | `TypeOK`, `ImageComplete`, `MailboxRelocked`, `SessionCancelled`, `DataMatches`, `LeavesLess` |
| `ChunkedTransferProofs` | `TypeCorrect`, `Ordered`, `Status`, `Bracket` | `TypeOK`, `InOrder`, `StatusTrue`, `BracketKept` |
| `CommandCodecProofs` | `TypeCorrect`, `DecodingIsFaithful`, `ConformingIsAccepted`, `WrittenOnSuccess`, `LimitsFitMailbox`, `DecodingIsBounded` | `TypeOK`, `DecodesWhatCame`, `ConformingAccepted`, `RetOnSuccess`, `FitsMailbox`, `BoundedDecode` |
| `ToolSessionProofs` | `MailboxAccountedFor`, `StatusMeaning`, `TypeCorrect`, `TunnelMirrorsLibrary`, `CommandSizeExact`, `RunsAreLimited` | `LeftOpenReported`, `SuccessMeansDone`, `TypeOK`, `TunnelledAlike`, `AnnouncedSize`, `CommandsRunOut` |

`ReplyChecks` holds the lemmas `CommandExchangeProofs` rests on.

The theorems hold for any commands, response sizes, tag space, scripts, devices,
endpoints, descriptors, image, file and chunk sizes, arguments, runs and
subcommands that meet the named assumptions of the modules (`CmdAssumption`,
`TagAssumption`, `SizeAssumption`, `BoundAssumption`, `CodeAssumption`,
`MockAssumption`, `RegistryAssumption`, `NoneAssumption`, `DownloadAssumption`,
`TransferAssumption`, `ArgAssumption`, `SessionAssumption`, `OfferedAssumption`,
`IterationsAssumption`). Four of them say more than a type. `ArgAssumption` keeps
the arguments of the wrappers at 2^20 at most: the length of a message has 20
bits, so no message holds more entries, and the table uses the number for "no
limit". `DownloadAssumption` makes the image finite. `TransferAssumption` makes
`OffsetSpace` a multiple of 128, as 2^32 is, so that a chunk size stays aligned
when it is cut to 32 bits. `OfferedAssumption` lets a run start only subcommands
of `ToolTable`. The bounds `MaxTag`, `AsksAgain`, `MaxScripted` and `MaxMockSent`
are arbitrary numbers in them; only `Promise` needs `MaxTag <= TagSpace`, since a
wrapped tag does break the promise.

- **MctpTransport.** `FreshReply` alone is not inductive: it says nothing of
  replies still queued. `Ordered` adds that each carries the tag of the command
  it answers and that this command was armed before the one waiting now; then
  equal tags of different commands are a multiple of `TagSpace` apart. The owed
  replies are an equation per socket, kept by each action. `Promise` maps every
  step to one of `RequestReply` or a stutter, from the same invariant and the
  bound on the tag.
- **CommandExchange.** The inductive invariant remembers of the last command that
  its value is what the checks made of some reply (`LastInv`). The work is in
  `ReplyChecks`: the checks determine every field of every message of an accepted
  reply, except the length of the innermost, which is cut only together with
  bytes its header still counts. So an accepted reply is the sound success of
  some size, and the shortest reply and the buffer bound that size. The converse,
  that each success and each sound error passes the checks before the one that
  returns its code, is a calculation per tunnel level. For the mock, `MockInv`
  says that the script is in the order of the numbers, and that a number still to
  be given is larger than all in use.
- **EndpointRegistry.** `Inv` joins types, `NoDuplicates`, and ownership stated
  with a function from addresses to owned descriptors, pairwise disjoint and
  disjoint from the application's. Every call that writes one endpoint is shown
  to be a `Replaced(h, e)`, and that preserves `Inv` once and for all;
  `CloseAll` has its own lemma. `ScanInv` relates the count and the devices not
  yet visited to the list.
- **FwDownload.** The properties speak of the return; `Inv` says what the tool
  knows on the way: what the last response said of a completed or waiting session
  is still so (`RspInv`), a terminal session stays over (`OverInv`), responses
  acted on are of the own session (`SessionInv`), `abort_needed` is set while the
  session may be held (`AbortInv`), and the mailbox is locked between the
  commands (`MailInv`). The device keeps `Sound`: it is ready to finish only with
  the whole image. `ImageComplete` therefore rests on that promise of the device.

  `LeavesLess` is the argument behind `Terminates`: a measure with seven
  components, compared lexicographically. They are the phase (asking for a
  session, the loop, leaving), the BEGINs still allowed, the requests the device
  may still repeat, the set of parts it does not have, how far it is from the end
  without more DATA, the queries until the busy timer expires, and the steps of
  the command on its way. The set is ordered by inclusion and is finite, the
  others are natural numbers, so the order is well-founded. `LoopInv` adds to
  `Inv` what this needs: the session is the device's, a part the device has is
  asked for again only while it may be, and `busy` stays within its limit. The
  delicate step is a response that is out of date when the tool reads it: it may
  count a query for a state the device has left, so it is held at the price of a
  whole busy state, which the device paid by moving on. A device that
  enters a busy state after it has made progress has paid for the timer that
  `Busy` restarts. One that goes from busy to busy has not; this step alone
  (`TimedAnew`) gives queries back, and it leaves the six other components as they
  are. So an endless download is one with endless changes of the busy state.
- **ChunkedTransfer.** `BlockInv` says that the blocks that arrived are the first
  ones of the file and, in the loop, as many as it has sent; lemmas on the
  arithmetic of the chunks give that they adjoin and that exactly the last is
  announced as such. `StageInv`, `StatusInv` and `MailInv` say what the run knows
  at each place of the job, of the status and of the mailbox.
- **ToolSession.** `Inv` says that nothing has failed before the end of the work
  and that the status tells after it, for each run, and that some run accounts
  for an open mailbox. A step of one run may lock the mailbox that another has
  unlocked: then nothing is open and nothing is to be accounted for, and a
  command the other run sends is refused, which its status tells. `IInv` adds the
  course of each run: what it runs is a row of the table, its lookups and pages
  stay below the numbers of that row. The sizes rest on lemmas about the table
  for every argument (`DirectPlain`, `CciPlain`, `TunnelSizes`): each tunnelled
  row is compared with the row of `CommandTable` that has its opcode and
  argument. For `CommandsRunOut`, a step of a run lowers its `CommandsLeft` and
  leaves that of the other runs alone, since they share the mailbox only.
- **CommandCodec.** `Row` says what every record of `CommandTable` has in common:
  its numbers are natural, what is not a list is decoded no further than the
  shortest reply, the entries asked for fit in the buffer, and the limits taken
  from the mailbox hold. `TableRow` proves it of
  all wrappers and all arguments, group by group. The lemma `Exchange` then says
  what one call does with any reply to a command that is a `Row`, and `IInv` that
  the state of a call is before, refused, failed or that. So each property is a
  fact about `Row`, one reply and the arithmetic of lengths, and not about over a
  hundred wrappers.

Only model-checked: the liveness properties `CallReturns`, `Terminates` and
`SessionEnds` (the prover does not do fairness; of the last two the decreasing
measure is proved), and the four violations.

## What is abstracted

Payload contents, logging, errno and allocation of endpoint memory are left out;
an allocation that fails is one of the failures of the call. Responses over ioctl
may be short for direct commands; the code says so on purpose, and
`ExactAcceptance` leaves that case out. A command of a tool is one step, taken
when the device carries it out. The vendor mailbox is taken to have one lock for
the whole device, shared by all runs; the code does not say so, but sends no
identification with the lock. The exit statuses keep success apart from the rest
only. `--help`, which exits with 0 and sends nothing, is not a run in the model.

## Not modelled

- Inter-command pacing: `cxlmi_insert_delay` and `cxlmi_record_resp_time` run
  only with a quirk that `endpoint_probe` never sets, so they are dead code.
- Logging and the strings of return codes: text only.
- Decoding the reply of the MCTP daemon over D-Bus: I/O against libdbus. The
  order of opens and the stop at an error of the scan are modelled.
- Printing, option parsing and payload editing of the tools (`cmd_cel.c`,
  `cmd_feature_decode.c`, `cmd_fm.c`, `cmd_fm_qos.c`): tables of names and
  fields without state. The commands that carry these payloads are in
  `ToolTable`.
- The contents of the fields the wrappers convert between the byte order of the
  wire and of the host: straight-line assignments without a decision.
- Examples, Python bindings (generated) and the scripts of the test machine.
