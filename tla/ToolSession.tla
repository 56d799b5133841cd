----------------------------- MODULE ToolSession -----------------------------
(***************************************************************************)
(* Runs of mbcci-sfx and mctp-cci on one device: main() parses, the        *)
(* subcommand sends its commands one at a time, and the exit status says   *)
(* whether it worked.  Several runs may be under way at once, and share    *)
(* the lock of the vendor mailbox.  ToolTable says how the subcommands     *)
(* differ.                                                                 *)
(*                                                                         *)
(* A command is one step, taken when the device carries it out.  rc keeps  *)
(* the code of the device where mctp-cci returns 1 for all of them: main() *)
(* makes the same exit status of every value but 0.                        *)
(***************************************************************************)
EXTENDS ToolTable

CONSTANTS
  Runs,      \* the runs of the tool
  Args,      \* values of the argument that sizes a command
  Offered,   \* the subcommands each run may be
  Errors     \* return codes of a device that refuses a command

ASSUME SessionAssumption ==
  /\ Args \subseteq Nat
  /\ Errors \subseteq Nat \ {SUCCESS, BACKGROUND}
  /\ \A p \in Runs : \A c \in Offered[p] :
       c.locked \in BOOLEAN /\ c.accepts \subseteq {SUCCESS, BACKGROUND}

ASSUME OfferedAssumption ==
  \A p \in Runs : Offered[p] \subseteq UNION {Subcommands(n) : n \in Args}

VARIABLES
  at,      \* where each run is
  cmd,     \* its subcommand
  looks,   \* commands it still sends to find out sizes
  page,    \* pages it has read; modulo 2 for a list without a limit
  rc,      \* what the subcommand returns
  open,    \* the vendor mailbox of the device is unlocked
  did,     \* the device carried out the last command of the work
  more,    \* and said that more pages follow
  failed,  \* a step of the run failed
  short    \* an answer of the tunnel was too short to hold the inner code

vars == <<at, cmd, looks, page, rc, open, did, more, failed, short>>

None == Tunnel(0, 0, 0)
Signalled == -2          \* the run was killed; not a value of rc in the code

-----------------------------------------------------------------------------
(* One command *)

Outcome(code, ran, cut) == [rc |-> code, ran |-> ran, short |-> cut]

\* What sending a command comes to.  ran: the device carried it out, at once or
\* in the background.  Sending may fail before that, or the answer may be lost
\* after it.  A device may refuse.  Of the tunnel
\* the outer command may succeed with an answer that is too short: what is
\* missing reads as zeros, the inner return code included, unless the inner
\* length is checked.
Outcomes(c, codes, allowed) ==
  {Outcome(-1, FALSE, FALSE)} \cup {Outcome(e, FALSE, FALSE) : e \in Errors}
  \cup (IF c.via = "tunnel"
        THEN {Outcome(IF c.measured THEN -1 ELSE 0, ran, TRUE) :
                ran \in {FALSE, allowed}}
        ELSE {})
  \cup (IF allowed
        THEN {Outcome(code, TRUE, FALSE) : code \in codes \cup {-1, BACKGROUND}}
        ELSE {})

\* Vendor commands are refused while the mailbox is locked.
Allowed(c) == c.locked => open

-----------------------------------------------------------------------------
(* The steps of a run *)

\* Where the work starts, when nothing has to be looked up any more.
FirstStage(c) == IF c.locked THEN "unlock" ELSE "work"

Start(p, c, k) ==
  /\ at[p] = "idle" /\ c.ok
  /\ cmd' = [cmd EXCEPT ![p] = c]
  /\ looks' = [looks EXCEPT ![p] = k]
  /\ at' = [at EXCEPT ![p] = IF k > 0 THEN "lookup" ELSE FirstStage(c)]
  /\ UNCHANGED <<page, rc, open, did, more, failed, short>>

\* The name of the subcommand or an option is wrong, or the device cannot be
\* opened: nothing is sent.
Refuse(p) ==
  /\ at[p] = "idle"
  /\ at' = [at EXCEPT ![p] = "exit"] /\ rc' = [rc EXCEPT ![p] = -1]
  /\ failed' = [failed EXCEPT ![p] = TRUE]
  /\ UNCHANGED <<cmd, looks, page, open, did, more, short>>

\* mctp-cci dcd config hands the wrapper no request structure, which it reads
\* before anything is sent.
Crash(p) ==
  /\ at[p] = "idle"
  /\ at' = [at EXCEPT ![p] = "exit"] /\ rc' = [rc EXCEPT ![p] = Signalled]
  /\ UNCHANGED <<cmd, looks, page, open, did, more, failed, short>>

Exit(p, code) ==
  /\ at' = [at EXCEPT ![p] = "exit"]
  /\ rc' = [rc EXCEPT ![p] = code]

\* Get Supported Logs or Features; an entry that is not there is a failure too
\* (found = FALSE).  Only the tunnelled subcommands keep its return code.
Lookup(p) ==
  /\ at[p] = "lookup"
  /\ \E o \in Outcomes(cmd[p], {SUCCESS}, TRUE), found \in BOOLEAN :
       /\ o.short => ~found
       /\ IF o.rc = 0 /\ found
          THEN /\ looks' = [looks EXCEPT ![p] = @ - 1]
               /\ at' = [at EXCEPT ![p] = IF looks[p] > 1 THEN "lookup"
                                          ELSE FirstStage(cmd[p])]
               /\ UNCHANGED <<rc, failed>>
          ELSE /\ Exit(p, IF cmd[p].via # "tunnel" \/ o.rc = 0 THEN -1 ELSE o.rc)
               /\ failed' = [failed EXCEPT ![p] = TRUE]
               /\ UNCHANGED looks
  /\ UNCHANGED <<cmd, page, open, did, more, short>>

Unlock(p) ==
  /\ at[p] = "unlock"
  /\ \E o \in Outcomes(cmd[p], {SUCCESS}, TRUE) :
       /\ open' = (open \/ o.ran)
       /\ short' = [short EXCEPT ![p] = @ \/ o.short]
       /\ IF o.rc = 0
          THEN at' = [at EXCEPT ![p] = "work"] /\ UNCHANGED <<rc, failed>>
          ELSE Exit(p, o.rc) /\ failed' = [failed EXCEPT ![p] = TRUE]
  /\ UNCHANGED <<cmd, looks, page, did, more>>

Finish_Retries(p, code) ==
  IF code = -1 THEN UNCHANGED <<at, rc>>
  ELSE IF cmd[p].locked
       THEN at' = [at EXCEPT ![p] = "lock"] /\ rc' = [rc EXCEPT ![p] = code]
       ELSE Exit(p, code)

\* After the work: the mailbox is locked whatever came of it.
Finish(p, code) ==
  IF cmd[p].locked
  THEN at' = [at EXCEPT ![p] = "lock"] /\ rc' = [rc EXCEPT ![p] = code]
  ELSE Exit(p, code)

LastPage_OneMore(p) ==
  cmd[p].pages = 0 \/ (cmd[p].pages # Unlimited /\ page[p] = cmd[p].pages)

\* The loop over the pages stops here, whatever follows.
LastPage(p) ==
  cmd[p].pages = 0 \/ (cmd[p].pages # Unlimited /\ page[p] + 1 = cmd[p].pages)

page_rc_Stale(c, code, m) == code

\* The value of the loop over the pages: a list cut off at the limit is an
\* error, where there is a loop.
page_rc(c, code, m) == IF code = 0 /\ m /\ c.pages # 0 THEN -1 ELSE code

\* The command itself, or the next page of a list.  After a page that is not
\* the last one the loop goes on, unless that was as many as it reads; then it
\* gives up.
Work(p) ==
  /\ at[p] = "work"
  /\ \E o \in Outcomes(cmd[p], cmd[p].accepts, Allowed(cmd[p])), m \in BOOLEAN :
       /\ m => o.rc = 0 /\ ~o.short /\ cmd[p].pages # 1
       /\ did' = [did EXCEPT ![p] = o.ran]
       /\ more' = [more EXCEPT ![p] = m]
       /\ short' = [short EXCEPT ![p] = @ \/ o.short]
       /\ LET code == IF o.rc \in cmd[p].accepts THEN 0 ELSE o.rc IN
          \/ /\ code = 0 /\ m /\ ~LastPage(p)
             /\ page' = [page EXCEPT ![p] = IF cmd[p].pages = Unlimited
                                            THEN (@ + 1) % 2 ELSE @ + 1]
             /\ UNCHANGED <<at, rc, failed>>
          \/ /\ code # 0 \/ ~m \/ LastPage(p)
             /\ Finish(p, page_rc(cmd[p], code, m))
             /\ failed' = [failed EXCEPT ![p] = code # 0 \/ (m /\ cmd[p].pages # 0)]
             /\ UNCHANGED page
  /\ UNCHANGED <<cmd, looks, open>>

lock_rc_Dropped(code, lock) == code

\* The first failure is the one returned.
lock_rc(code, lock) == IF code = 0 THEN lock ELSE code

Lock(p) ==
  /\ at[p] = "lock"
  /\ \E o \in Outcomes(cmd[p], {SUCCESS}, TRUE) :
       /\ open' = (open /\ ~o.ran)
       /\ short' = [short EXCEPT ![p] = @ \/ o.short]
       /\ failed' = [failed EXCEPT ![p] = @ \/ o.rc # 0]
       /\ Exit(p, lock_rc(rc[p], o.rc))
  /\ UNCHANGED <<cmd, looks, page, did, more>>

\* The run is killed between two commands; no handler locks the mailbox.
Kill(p) ==
  /\ at[p] \notin {"idle", "exit"}
  /\ Exit(p, Signalled)
  /\ UNCHANGED <<cmd, looks, page, open, did, more, failed, short>>

Init ==
  /\ at = [p \in Runs |-> "idle"]
  /\ cmd = [p \in Runs |-> None]
  /\ looks = [p \in Runs |-> 0]
  /\ page = [p \in Runs |-> 0]
  /\ rc = [p \in Runs |-> 0]
  /\ open = FALSE
  /\ did = [p \in Runs |-> FALSE]
  /\ more = [p \in Runs |-> FALSE]
  /\ failed = [p \in Runs |-> FALSE]
  /\ short = [p \in Runs |-> FALSE]

Begin(p) ==
  \/ \E c \in Offered[p] : \E k \in 0 .. c.lookups : Start(p, c, k)
  \/ Refuse(p)
  \/ Crash(p)

Step(p) == Lookup(p) \/ Unlock(p) \/ Work(p) \/ Lock(p)

\* Every run has ended.
Done == (\A p \in Runs : at[p] = "exit") /\ UNCHANGED vars

Next == (\E p \in Runs : Begin(p) \/ Step(p) \/ Kill(p)) \/ Done

\* A run that has begun goes on: every ioctl and every call of the library
\* returns.
Spec == Init /\ [][Next]_vars /\ \A p \in Runs : WF_vars(Step(p))

-----------------------------------------------------------------------------
(* Properties *)

TypeOK ==
  /\ at \in [Runs -> {"idle", "lookup", "unlock", "work", "lock", "exit"}]
  /\ \A p \in Runs :
       /\ {cmd[p].op, cmd[p].req, cmd[p].rsp, cmd[p].pages} \subseteq Nat
       /\ looks[p] \in 0 .. cmd[p].lookups
       /\ page[p] = 0 \/ page[p] < cmd[p].pages
       /\ rc[p] \in {Signalled, -1, SUCCESS, BACKGROUND} \cup Errors
  /\ open \in BOOLEAN
  /\ {did, more, failed, short} \subseteq [Runs -> BOOLEAN]

\* Between the unlock and the lock.
Inside(p) == cmd[p].locked /\ at[p] \in {"work", "lock"}

\* The vendor mailbox is never left open in silence: when it is open, a run is
\* between its unlock and its lock, or one has ended with another exit status
\* than success, or took a short answer of the tunnel for one.
LeftOpenReported ==
  open => \E p \in Runs : Inside(p) \/ (at[p] = "exit" /\ rc[p] # 0) \/ short[p]

\* Exit status 0 means that no step failed, that the device carried out the
\* work, with a code the subcommand takes for success, and that a list was read
\* to its end (mctp-cci reads the first page only and does not say so); any
\* failure of a run that is not killed shows in its status.
SuccessMeansDone ==
  \A p \in Runs : at[p] = "exit" /\ rc[p] # Signalled =>
    /\ rc[p] = 0 <=> ~failed[p]
    /\ rc[p] = 0 => (more[p] => cmd[p].pages = 0) /\ (did[p] \/ short[p])

\* Inner opcodes whose tunnelled form differs: Set MCTP Event Interrupt Policy
\* expects the policy back, Get Feature makes room for --count bytes only.
Differs == {\h0105, \h0501}

Sizes(c, rsp) == <<c.op, c.req, rsp>>

\* The tunnelled subcommands by argument, and what the library and the direct
\* subcommands send and make room for with the same one.
Tunnels == [n \in Args |-> TunnelCommands(n)]
DirectSizes ==
  [n \in Args |-> {Sizes(c, c.max) : c \in Library(n)}
                  \cup {Sizes(c, c.rsp) : c \in DirectCommands(n)}]

\* A message cmd_sdb_tunnel.c builds by hand has the payload size and the room
\* for the reply that the library, or the direct vendor subcommand, uses for
\* the same opcode with the same argument.  (Not compared: clear-event-records
\* with both --all and handles, which directly sends no handle and through the
\* tunnel still has room for them.)
TunnelledAlike ==
  \A p \in Runs, n \in Args :
    /\ at[p] \notin {"idle", "exit"} /\ cmd[p].op \notin Differs
    /\ cmd[p] \in Tunnels[n]
    => Sizes(cmd[p], cmd[p].rsp) \in DirectSizes[n]

\* command_size of the tunnel header, 16 bits, holds the size of every message
\* that is sent (twelve bytes of header and the payload).
AnnouncedSize ==
  \A p \in Runs : at[p] \notin {"idle", "exit"} /\ cmd[p].via = "tunnel" =>
    u16(12 + cmd[p].req) = 12 + cmd[p].req

\* The commands a run may still send at most: lookups, unlock, pages, lock.
CommandsLeft(p) ==
  LET pages == IF cmd[p].pages = 0 THEN 1 ELSE cmd[p].pages IN
  IF at[p] = "lookup" THEN looks[p] + pages + 2
  ELSE IF at[p] = "unlock" THEN pages + 2
  ELSE IF at[p] = "work" THEN (pages - page[p]) + 1
  ELSE IF at[p] = "lock" THEN 1
  ELSE 0

\* A run sends a limited number of commands, whatever the device answers: each
\* uses up one of them at least, a page the device says more to follow
\* included, and no other run or signal gives it more to send.  Readers without
\* a limit on their pages are excepted.
CommandsRunOut ==
  [][\A p \in Runs : at[p] # "idle" /\ cmd[p].pages # Unlimited =>
       /\ CommandsLeft(p)' \in 0 .. CommandsLeft(p)
       /\ Step(p) => CommandsLeft(p)' < CommandsLeft(p)]_vars

\* A run that has begun ends whatever the device answers, except the two
\* readers without a limit on their pages (events, device configuration), which
\* go on for as long as the device says that more follow.
SessionEnds ==
  \A p \in Runs :
    \/ <>[](at[p] \in {"idle", "exit"})
    \/ <>[](at[p] = "work" /\ more[p] /\ cmd[p].op \in {\h0100, OPCODE_VU})
=============================================================================
