----------------------------- MODULE FwDownload -----------------------------
(***************************************************************************)
(* vu_dlunion_download of tools/mbcci-sfx/cmd_vu_dlunion.c: the tool       *)
(* downloads a firmware image in a session of the device.  The device says *)
(* which part of the image it needs next, and works on its own between the *)
(* commands.                                                               *)
(*                                                                         *)
(* Every fwdownload_send is three commands, since the vendor mailbox is    *)
(* unlocked before and locked after.  Each of the three may fail, and the  *)
(* middle one before or after the device acted on it.  The device is       *)
(* external: it does what the tool relies on, may refuse and may report    *)
(* fields the tool rejects.  The parts of the image stand for the ranges   *)
(* it asks for.                                                            *)
(***************************************************************************)
EXTENDS Integers, FiniteSets

CONSTANTS
  Parts,          \* the parts of the image
  BEGIN_RETRY,    \* FW_DLUNION_BEGIN_RETRY_MS, in sleeps of a second
  OP_TIMEOUT,     \* FW_DLUNION_OP_TIMEOUT_MS, in queries
  AsksAgain,      \* bound: DATA after which no part is asked for again
  None            \* no part

ASSUME DownloadAssumption ==
  /\ BEGIN_RETRY \in Nat /\ OP_TIMEOUT \in Nat /\ AsksAgain \in Nat
  /\ IsFiniteSet(Parts) /\ Parts # {} /\ None \notin Parts

VARIABLES
  pc,            \* where the tool is
  act,           \* the action being sent
  rsp,           \* the last response, zeroed before every send
  ret,           \* what fwdownload_send returned
  rc,            \* the return value of the download
  session_id,    \* 0 until BEGIN succeeded
  sequence,      \* of the DATA being sent
  part,          \* the part it carries
  last_data,     \* the part sent before it
  abort_needed,
  waited,        \* sleeps since the first BEGIN
  busy_state, busy,  \* the busy state seen last, and for how many queries
  locked,        \* the vendor mailbox
  dev,           \* the device
  opened,        \* the session the device opened for this download, or 0
  mailbox_lost,  \* the last lock failed, or an unlock took effect and failed
  abort_lost     \* ABORT did not reach the device

vars == <<pc, act, rsp, ret, rc, session_id, sequence, part, last_data,
          abort_needed, waited, busy_state, busy, locked, dev, opened,
          mailbox_lost, abort_lost>>

-----------------------------------------------------------------------------
(* The device *)

BusyStates == {"PREPARING", "WRITING", "ABORTING"}
Terminal == {"COMPLETE", "FAILED", "ABORTED"}
States == {"IDLE", "NEED_DATA", "READY_TO_FINISH"} \cup BusyStates \cup Terminal

Active(d) == d.state \notin {"IDLE"} \cup Terminal

\* The device needs a part it does not have, or again one it has.
Wanted(d) == IF d.accepted < AsksAgain THEN Parts ELSE Parts \ d.have

\* The device goes on to state s.
To(d, s, want) == [d EXCEPT !.state = s, !.want = want]

NeedsMore(d) ==
  {To(d, "NEED_DATA", p) : p \in Wanted(d)}
    \cup (IF d.have = Parts THEN {To(d, "READY_TO_FINISH", None)} ELSE {})
    \cup {To(d, "FAILED", None)}

Working(d) == {To(d, "PREPARING", None), To(d, "WRITING", None)}

DevBegin ==
  LET d == [session |-> dev.session + 1, state |-> "PREPARING", accepted |-> 0,
            have |-> {}, want |-> None, finishing |-> FALSE]
  IN {d} \cup {To(d, "NEED_DATA", p) : p \in Parts}

DevAccepts ==
  dev.session = session_id /\ dev.state = "NEED_DATA"
    /\ dev.want = part /\ dev.accepted + 1 = sequence

DevData ==
  LET d == [dev EXCEPT !.have = @ \cup {part}, !.accepted = sequence]
  IN NeedsMore(d) \cup Working(d)

DevReady == dev.session = session_id /\ dev.state = "READY_TO_FINISH"

DevFinish ==
  LET d == [dev EXCEPT !.finishing = TRUE]
  IN {To(d, "WRITING", None), To(d, "COMPLETE", None), To(d, "FAILED", None)}

DevAborts == dev.session = session_id /\ Active(dev)

DevAbort == {To(dev, "ABORTING", None), To(dev, "ABORTED", None)}

\* What the device becomes by the command, and the result it reports.
Handles(d, result) ==
  \/ /\ act = "BEGIN" /\ ~Active(dev) /\ d \in DevBegin /\ result = "OK"
  \/ /\ act = "BEGIN" /\ Active(dev) /\ d = dev /\ result = "BUSY"
  \/ /\ act = "DATA" /\ DevAccepts /\ d \in DevData /\ result = "OK"
  \/ /\ act = "DATA" /\ ~DevAccepts /\ d = dev /\ result = "INVALID_ACTION"
  \/ /\ act = "QUERY" /\ d = dev /\ result = "OK"
  \/ /\ act = "FINISH" /\ DevReady /\ d \in DevFinish /\ result = "OK"
  \/ /\ act = "FINISH" /\ ~DevReady /\ d = dev /\ result = "INVALID_ACTION"
  \/ /\ act = "ABORT" /\ DevAborts /\ d \in DevAbort /\ result = "OK"
  \/ /\ act = "ABORT" /\ ~DevAborts /\ d = dev /\ result = "INVALID_ACTION"

\* version: it is FW_DLUNION_VERSION.  totals: total_bytes is not the size of
\* the file ("wrong"), or received_bytes is larger ("more"), or "right".
Totals == {"right", "more", "wrong"}

Response(d, result, version, totals) ==
  [session |-> d.session, state |-> d.state, result |-> result,
   accepted |-> d.accepted, next |-> d.want, version |-> version, totals |-> totals]

NoResponse == [session |-> 0, state |-> "IDLE", result |-> "OK",
               accepted |-> 0, next |-> None, version |-> FALSE, totals |-> "wrong"]

-----------------------------------------------------------------------------
(* fwdownload_send *)

Send(action) == pc' = "unlock" /\ act' = action

SendVars == <<act, session_id, sequence, part, last_data, abort_needed, waited,
              busy_state, busy, rc>>

Unlock ==
  /\ pc = "unlock" /\ pc' = "command"
  /\ locked' = FALSE /\ rsp' = NoResponse
  /\ UNCHANGED <<SendVars, ret, dev, opened, mailbox_lost, abort_lost>>

\* An unlock may fail after the device acted on it; nothing locks it again.
UnlockFails ==
  /\ pc = "unlock" /\ pc' = "sent"
  /\ rsp' = NoResponse /\ ret' = "error"
  /\ \/ UNCHANGED <<locked, mailbox_lost>>
     \/ locked' = FALSE /\ mailbox_lost' = TRUE
  /\ abort_lost' = (abort_lost \/ act = "ABORT")
  /\ UNCHANGED <<SendVars, dev, opened>>

CommandFails_Returns ==
  /\ pc = "command" /\ pc' = "sent" /\ ret' = "error"
  /\ abort_lost' = (abort_lost \/ act = "ABORT")
  /\ UNCHANGED <<SendVars, rsp, locked, dev, opened, mailbox_lost>>

\* The command does not reach the device.
CommandFails ==
  /\ pc = "command" /\ pc' = "lock" /\ ret' = "error"
  /\ abort_lost' = (abort_lost \/ act = "ABORT")
  /\ UNCHANGED <<SendVars, rsp, locked, dev, opened, mailbox_lost>>

\* The device acts on it; its response may be lost, or be one to reject.
Command ==
  /\ pc = "command" /\ pc' = "lock"
  /\ \E d \in DevBegin \cup DevData \cup DevFinish \cup DevAbort \cup {dev},
        result \in {"OK", "BUSY", "INVALID_ACTION"} :
       /\ Handles(d, result)
       /\ dev' = d
       /\ opened' = IF act = "BEGIN" /\ result = "OK" THEN d.session ELSE opened
       /\ \/ ret' = "error" /\ rsp' = rsp
          \/ \E version \in BOOLEAN, totals \in Totals :
               ret' = "ok" /\ rsp' = Response(d, result, version, totals)
  /\ UNCHANGED <<SendVars, locked, mailbox_lost, abort_lost>>

\* fwdownload_send's checks, in order: the two return codes, the version, the
\* session, the result.
SendReturns(lock_ok) ==
  IF ret = "error" \/ ~lock_ok \/ ~rsp.version THEN "error"
  ELSE IF act # "BEGIN" /\ rsp.session # session_id THEN "error"
  ELSE rsp.result

Lock ==
  /\ pc = "lock" /\ pc' = "sent"
  /\ locked' = TRUE /\ mailbox_lost' = FALSE /\ ret' = SendReturns(TRUE)
  /\ UNCHANGED <<SendVars, rsp, dev, opened, abort_lost>>

LockFails ==
  /\ pc = "lock" /\ pc' = "sent"
  /\ locked' \in {locked, TRUE} /\ mailbox_lost' = TRUE /\ ret' = SendReturns(FALSE)
  /\ UNCHANGED <<SendVars, rsp, dev, opened, abort_lost>>

-----------------------------------------------------------------------------
(* vu_dlunion_download *)

DevVars == <<rsp, ret, locked, dev, opened, mailbox_lost, abort_lost>>

\* The file is opened and measured before the first BEGIN.
Begin ==
  /\ pc = "start" /\ Send("BEGIN")
  /\ UNCHANGED <<DevVars, rc, session_id, sequence, part, last_data, abort_needed,
                 waited, busy_state, busy>>

\* Opening, measuring or the clock fails; rsp is still uninitialized.
FileFails ==
  /\ pc = "start" /\ pc' = "out"
  /\ \E s \in States : rsp' = [NoResponse EXCEPT !.state = s]
  /\ UNCHANGED <<SendVars, ret, locked, dev, opened, mailbox_lost, abort_lost>>

BeginBusy_Forever ==
  /\ pc = "sent" /\ act = "BEGIN" /\ ret = "BUSY"
  /\ pc' = "unlock" /\ UNCHANGED waited
  /\ UNCHANGED <<DevVars, act, rc, session_id, sequence, part, last_data,
                 abort_needed, busy_state, busy>>

\* The device has a session already: try again every second.
BeginBusy ==
  /\ pc = "sent" /\ act = "BEGIN" /\ ret = "BUSY"
  /\ IF waited >= BEGIN_RETRY THEN pc' = "out" /\ UNCHANGED waited
     ELSE pc' = "unlock" /\ waited' = waited + 1
  /\ UNCHANGED <<DevVars, act, rc, session_id, sequence, part, last_data,
                 abort_needed, busy_state, busy>>

BegunBadly == rsp.session = 0 \/ rsp.state # "NEED_DATA" \/ rsp.totals = "wrong"

BeginDone ==
  /\ pc = "sent" /\ act = "BEGIN" /\ ret # "BUSY"
  /\ IF ret # "OK" \/ BegunBadly
     THEN pc' = "out" /\ UNCHANGED <<session_id, abort_needed>>
     ELSE pc' = "loop" /\ session_id' = rsp.session /\ abort_needed' = TRUE
  /\ UNCHANGED <<DevVars, act, rc, sequence, part, last_data, waited,
                 busy_state, busy>>

\* After DATA, the device must have accepted the sequence number sent.
DataDone ==
  /\ pc = "sent" /\ act = "DATA"
  /\ IF ret = "OK" /\ rsp.accepted = sequence
     THEN pc' = "loop" /\ last_data' = part
     ELSE pc' = "out" /\ UNCHANGED last_data
  /\ UNCHANGED <<DevVars, act, rc, session_id, sequence, part, abort_needed,
                 waited, busy_state, busy>>

SendDone ==
  /\ pc = "sent" /\ act \in {"QUERY", "FINISH"}
  /\ pc' = IF ret = "OK" THEN "loop" ELSE "out"
  /\ UNCHANGED <<DevVars, SendVars>>

\* Every turn of the loop checks the totals before the state.
Turn(states) == pc = "loop" /\ rsp.totals = "right" /\ rsp.state \in states

BadTotals ==
  /\ pc = "loop" /\ rsp.totals # "right" /\ pc' = "out"
  /\ UNCHANGED <<DevVars, SendVars>>

\* The clock is read when BEGIN is refused and in a busy state.
ClockFails ==
  /\ \/ pc = "sent" /\ act = "BEGIN" /\ ret = "BUSY"
     \/ Turn(BusyStates)
  /\ pc' = "out"
  /\ UNCHANGED <<DevVars, SendVars>>

NotBusy == busy_state' = None /\ busy' = 0

NextSequence_Same == rsp.accepted

NextSequence_Own == sequence + 1

NextSequence == rsp.accepted + 1

\* The part asked for is read from the file and sent, unless it is the one
\* just sent; or the range is not in the file, or cannot be read.
NeedData ==
  /\ Turn({"NEED_DATA"}) /\ NotBusy
  /\ \/ /\ last_data # rsp.next /\ Send("DATA")
        /\ sequence' = NextSequence /\ part' = rsp.next
     \/ pc' = "out" /\ UNCHANGED <<act, sequence, part>>
  /\ UNCHANGED <<DevVars, rc, session_id, last_data, abort_needed, waited>>

Busy_Restarts ==
  /\ Turn(BusyStates)
  /\ busy_state' = rsp.state /\ busy' = 1 /\ Send("QUERY")
  /\ UNCHANGED <<DevVars, rc, session_id, sequence, part, last_data, abort_needed,
                 waited>>

\* Ask again, until the state has been the same for too long.
Busy ==
  /\ Turn(BusyStates)
  /\ \/ /\ busy_state # rsp.state
        /\ busy_state' = rsp.state /\ busy' = 1 /\ Send("QUERY")
     \/ /\ busy_state = rsp.state /\ busy < OP_TIMEOUT
        /\ busy' = busy + 1 /\ Send("QUERY") /\ UNCHANGED busy_state
     \/ /\ busy_state = rsp.state /\ busy >= OP_TIMEOUT
        /\ pc' = "out" /\ UNCHANGED <<act, busy_state, busy>>
  /\ UNCHANGED <<DevVars, rc, session_id, sequence, part, last_data, abort_needed,
                 waited>>

ReadyToFinish_Done ==
  /\ Turn({"READY_TO_FINISH"}) /\ NotBusy
  /\ pc' = "out" /\ rc' = 0 /\ abort_needed' = FALSE
  /\ UNCHANGED <<DevVars, act, session_id, sequence, part, last_data, waited>>

ReadyToFinish ==
  /\ Turn({"READY_TO_FINISH"}) /\ NotBusy /\ Send("FINISH")
  /\ UNCHANGED <<DevVars, rc, session_id, sequence, part, last_data, abort_needed,
                 waited>>

Complete ==
  /\ Turn({"COMPLETE"}) /\ NotBusy
  /\ pc' = "out" /\ rc' = 0 /\ abort_needed' = FALSE
  /\ UNCHANGED <<DevVars, act, session_id, sequence, part, last_data, waited>>

Failed ==
  /\ Turn({"FAILED", "ABORTED", "IDLE"}) /\ NotBusy
  /\ pc' = "out" /\ abort_needed' = (abort_needed /\ rsp.state = "IDLE")
  /\ UNCHANGED <<DevVars, act, rc, session_id, sequence, part, last_data, waited>>

Over_Idle == Terminal \cup {"IDLE"}

\* The states in which a session needs no ABORT.
Over == Terminal

Out ==
  /\ pc = "out"
  /\ abort_needed' = (abort_needed /\ rsp.state \notin Over)
  /\ IF abort_needed' /\ session_id # 0 THEN Send("ABORT")
     ELSE pc' = "done" /\ UNCHANGED act
  /\ UNCHANGED <<DevVars, rc, session_id, sequence, part, last_data, waited,
                 busy_state, busy>>

\* What ABORT returns, in a response of its own, is not looked at.
AbortDone ==
  /\ pc = "sent" /\ act = "ABORT" /\ pc' = "done"
  /\ UNCHANGED <<DevVars, SendVars>>

Tool ==
  \/ Begin \/ FileFails \/ BeginBusy \/ BeginDone
  \/ Unlock \/ UnlockFails \/ Command \/ CommandFails \/ Lock \/ LockFails
  \/ BadTotals \/ ClockFails \/ NeedData \/ DataDone \/ Busy \/ SendDone
  \/ ReadyToFinish \/ Complete \/ Failed \/ Out \/ AbortDone

Returned == pc = "done" /\ UNCHANGED vars

-----------------------------------------------------------------------------
(* The device on its own *)

ToolVars == <<pc, rsp, ret, SendVars, locked, opened, mailbox_lost, abort_lost>>

\* It finishes what it works on.
DeviceWorks ==
  /\ dev.state \in BusyStates
  /\ dev' \in IF dev.state = "ABORTING" THEN {To(dev, "ABORTED", None)}
              ELSE IF dev.finishing
                   THEN {To(dev, "COMPLETE", None), To(dev, "FAILED", None)}
                   ELSE NeedsMore(dev)
  /\ UNCHANGED ToolVars

\* It goes over to another kind of work, any number of times.
DeviceSwitches ==
  /\ dev.state \in {"PREPARING", "WRITING"}
  /\ dev' \in Working(dev) \ {dev}
  /\ UNCHANGED ToolVars

\* A session nobody has used for long is dropped.
DeviceRecovers ==
  /\ Active(dev) /\ dev' = To(dev, "IDLE", None)
  /\ UNCHANGED ToolVars

\* The device may still hold the session of an earlier download.
Init ==
  /\ pc = "start" /\ act = "BEGIN" /\ rsp = NoResponse /\ ret = "ok" /\ rc = -1
  /\ session_id = 0 /\ sequence = 1 /\ part = None /\ last_data = None
  /\ abort_needed = FALSE /\ waited = 0 /\ busy_state = None /\ busy = 0
  /\ locked = TRUE /\ opened = 0 /\ mailbox_lost = FALSE /\ abort_lost = FALSE
  /\ dev \in [session : {1}, state : {"IDLE", "WRITING"}, accepted : {0},
              have : {{}}, want : {None}, finishing : {FALSE}]

Next == Tool \/ Returned \/ DeviceWorks \/ DeviceSwitches \/ DeviceRecovers

Spec == Init /\ [][Next]_vars

\* The tool runs on; the device need not.
FairSpec == Spec /\ WF_vars(Tool)

-----------------------------------------------------------------------------
(* Properties *)

\* Every variable has its type; sequence numbers of DATA start at 1.
TypeOK ==
  /\ pc \in {"start", "unlock", "command", "lock", "sent", "loop", "out", "done"}
  /\ act \in {"BEGIN", "DATA", "QUERY", "FINISH", "ABORT"}
  /\ ret \in {"ok", "error", "OK", "BUSY", "INVALID_ACTION"}
  /\ rc \in {0, -1} /\ session_id \in Nat /\ sequence \in Nat \ {0}
  /\ part \in Parts \cup {None} /\ last_data \in Parts \cup {None}
  /\ abort_needed \in BOOLEAN /\ waited \in 0 .. BEGIN_RETRY
  /\ busy_state \in BusyStates \cup {None} /\ busy \in Nat
  /\ locked \in BOOLEAN /\ mailbox_lost \in BOOLEAN /\ abort_lost \in BOOLEAN
  /\ dev \in [session : Nat \ {0}, state : States, accepted : Nat,
              have : SUBSET Parts, want : Parts \cup {None}, finishing : BOOLEAN]
  /\ opened \in Nat
  /\ rsp \in [session : Nat, state : States, accepted : Nat,
              result : {"OK", "BUSY", "INVALID_ACTION"},
              next : Parts \cup {None}, version : BOOLEAN, totals : Totals]

\* A download that returns 0 has left the device with the whole image, in the
\* session of this download, committed.
ImageComplete ==
  pc = "done" /\ rc = 0 =>
    dev.session = session_id /\ dev.state = "COMPLETE" /\ dev.have = Parts

\* The vendor mailbox is locked again when the download returns, on every
\* path, unless the last lock command itself failed or the device acted on
\* an unlock that was reported to fail.
MailboxRelocked == pc = "done" => locked \/ mailbox_lost

\* The session is the one of this download.
Held(s) == dev.session = s /\ Active(dev) /\ dev.state # "ABORTING"

\* A download that returns leaves no session behind that the device opened for
\* it, unless the ABORT could not be sent or no answer to BEGIN was accepted:
\* the session it cancels is the one it was given.
SessionCancelled ==
  pc = "done" /\ opened # 0 /\ Held(opened) => abort_lost \/ session_id = 0

\* The DATA about to reach the device is the part it waits for, with the
\* number that follows the last one it accepted, although the tool decided on
\* it from an earlier response.
DataMatches ==
  pc \in {"unlock", "command"} /\ act = "DATA" /\ Held(session_id)
    => DevAccepts

\* What is left of the download, most significant first.  Leaving, asking for a
\* session, and the loop in between:
Phase ==
  IF pc = "done" THEN 0
  ELSE IF pc = "out" \/ act = "ABORT" THEN 1
  ELSE IF session_id # 0 THEN 2
  ELSE 3

\* the BEGINs still allowed;
BeginsLeft == IF Phase = 3 THEN BEGIN_RETRY - waited ELSE 0

\* the DATA that may carry any part, and the parts for which others are left;
AsksLeft ==
  IF Phase = 2 /\ dev.accepted < AsksAgain THEN AsksAgain - dev.accepted ELSE 0

Missing == IF Phase = 2 THEN Parts \ dev.have ELSE {}

\* The command for the present state of the device is on its way, or failed.
Sending(action) == act = action /\ (pc \in {"unlock", "command"} \/ ret = "error")

\* how far the device is from the end without more DATA;
StageLeft ==
  IF Phase # 2 \/ ~Active(dev) THEN 0
  ELSE IF dev.state = "NEED_DATA" THEN IF Sending("DATA") THEN 4 ELSE 5
  ELSE IF dev.state = "READY_TO_FINISH" THEN IF Sending("FINISH") THEN 2 ELSE 3
  ELSE IF dev.finishing THEN 1
  ELSE 6

\* The response the tool goes by is not the state of the device any more.
Stale ==
  rsp.state # dev.state /\ (pc = "loop" \/ (pc \in {"lock", "sent"} /\ ret # "error"))

MaxBusy == IF OP_TIMEOUT > 1 THEN OP_TIMEOUT ELSE 1

\* the queries in this state of the device, after those that a response out of
\* date may still count for another state;
QueriesLeft ==
  IF Phase = 2
  THEN (IF dev.state \notin BusyStates THEN 0
        ELSE IF busy_state = dev.state THEN MaxBusy - busy ELSE MaxBusy)
       + (IF Stale THEN MaxBusy + 1 ELSE 0)
  ELSE 0

\* and the steps of one command.
StepsLeft ==
  IF pc = "start" THEN 7 ELSE IF pc = "out" THEN 6 ELSE IF pc = "unlock" THEN 5
  ELSE IF pc = "command" THEN 4 ELSE IF pc = "lock" THEN 3 ELSE IF pc = "sent" THEN 2
  ELSE IF pc = "loop" THEN 1 ELSE 0

Left == <<Phase, BeginsLeft, AsksLeft, Missing, StageLeft, QueriesLeft, StepsLeft>>

Counted ==
  {Phase, BeginsLeft, AsksLeft, StageLeft, QueriesLeft, StepsLeft} \subseteq Nat

\* The lexicographic order.
Shorter ==
  \/ Phase' < Phase
  \/ /\ Phase' = Phase
     /\ \/ BeginsLeft' < BeginsLeft
        \/ /\ BeginsLeft' = BeginsLeft
           /\ \/ AsksLeft' < AsksLeft
              \/ /\ AsksLeft' = AsksLeft
                 /\ \/ Missing' \subseteq Missing /\ Missing' # Missing
                    \/ /\ Missing' = Missing
                       /\ \/ StageLeft' < StageLeft
                          \/ /\ StageLeft' = StageLeft
                             /\ \/ QueriesLeft' < QueriesLeft
                                \/ /\ QueriesLeft' = QueriesLeft
                                   /\ StepsLeft' < StepsLeft

\* The device went over to another busy state, which gives the tool the queries
\* of a busy state again and nothing else.
TimedAnew ==
  DeviceSwitches /\ UNCHANGED <<Phase, BeginsLeft, AsksLeft, Missing, StageLeft, StepsLeft>>

\* Every step of the tool leaves less of the download to do: refusals of BEGIN,
\* parts asked for again, queries in one busy state, responses out of date and
\* failures all use up a limit of their own.  A step of the device leaves no
\* more, except a change of its busy state: the loop times each state anew.
LeavesLess ==
  [][Counted' /\ (Shorter \/ UNCHANGED <<Left, pc>> \/ TimedAnew)]_vars

\* The download returns, whatever fails and even if the device stops answering
\* for good or stays in one busy state for ever.  The device can keep it going
\* by changing its busy state again and again, or by asking for parts again and
\* again (which AsksAgain bounds here): the code limits neither.
Terminates == <>(pc = "done") \/ []<><<DeviceSwitches>>_vars
=============================================================================
