-------------------------- MODULE FwDownloadProofs --------------------------
(***************************************************************************)
(* The invariants of FwDownload, for an image of any number of parts and   *)
(* any limits of the waits.                                                *)
(***************************************************************************)
EXTENDS FwDownload, TLAPS

Device == [session : Nat \ {0}, state : States, accepted : Nat,
           have : SUBSET Parts, want : Parts \cup {None}, finishing : BOOLEAN]

Results == {"OK", "BUSY", "INVALID_ACTION"}

\* What holds of the device d whenever the tool can look at it.
Sound(d) ==
  /\ d \in Device
  /\ d.state = "NEED_DATA" => d.want \in Parts
  /\ d.state \in {"READY_TO_FINISH", "COMPLETE"} \/ d.finishing => d.have = Parts

\* Between the commands the mailbox is locked.
MailInv == pc \notin {"command", "lock"} => locked \/ mailbox_lost

\* What the tool knows from the last response is still so.
RspInv ==
  pc \in {"lock", "sent", "loop"} =>
    /\ rsp.state = "COMPLETE" => dev.state = "COMPLETE" /\ dev.session = rsp.session
    /\ rsp.state = "NEED_DATA" /\ Held(rsp.session) =>
         dev.state = "NEED_DATA" /\ dev.want = rsp.next /\ dev.accepted = rsp.accepted

\* A session that is over stays over.
OverInv ==
  session_id # 0 /\ pc \in {"lock", "sent", "loop", "out"} /\ rsp.state \in Terminal
    => ~Active(dev)

\* The session of the responses the tool goes by is its own.
SessionInv ==
  /\ pc = "loop" => rsp.session = session_id
  /\ pc = "sent" /\ act # "BEGIN" /\ ret = "OK" => rsp.session = session_id

\* Where the tool can be, with and without a session.
PathInv ==
  /\ pc = "start" => act = "BEGIN" /\ session_id = 0
  /\ pc \in {"unlock", "command", "lock", "sent"} => (act = "BEGIN" <=> session_id = 0)
  /\ pc = "loop" => session_id # 0
  /\ pc \in {"loop", "out"} => act # "ABORT"
  /\ pc = "command" => rsp = NoResponse

\* A session is to be cancelled until it is over.
AbortInv ==
  /\ pc \in {"unlock", "command", "lock", "sent", "loop"} /\ act # "ABORT"
       => (session_id # 0 => abort_needed)
  /\ pc = "out" /\ session_id # 0 => abort_needed \/ ~Held(session_id)
  /\ act = "ABORT" /\ pc \in {"lock", "sent"} => ~Held(session_id) \/ abort_lost
  /\ pc = "done" /\ session_id # 0 => ~Held(session_id) \/ abort_lost

\* 0 is returned for a session that is complete.
RcInv ==
  rc = 0 => /\ pc \in {"out", "done"} /\ ~abort_needed
            /\ dev.session = session_id /\ dev.state = "COMPLETE"

Inv ==
  /\ TypeOK /\ Sound(dev) /\ MailInv /\ RspInv /\ OverInv /\ SessionInv /\ PathInv
  /\ AbortInv /\ RcInv /\ DataMatches

\* No session of e begins: what is over in dev is over in e.
NoneBegins(e) ==
  /\ e.session = dev.session
  /\ Active(e) => Active(dev)
  /\ Active(e) /\ e.state # "ABORTING" => dev.state # "ABORTING"

-----------------------------------------------------------------------------
(* The device *)

\* A step of the device's state machine changes its state and request only.
LEMMA ToFields ==
  ASSUME NEW d \in Device, NEW s \in States, NEW w \in Parts \cup {None}
  PROVE  /\ To(d, s, w) \in Device
         /\ To(d, s, w).state = s /\ To(d, s, w).want = w
         /\ To(d, s, w).session = d.session /\ To(d, s, w).have = d.have
         /\ To(d, s, w).accepted = d.accepted
         /\ To(d, s, w).finishing = d.finishing
  BY Zenon DEF To, Device

\* A device that goes on with a session asks for parts of the image, and
\* offers to finish when it has them all.
LEMMA NeedsMoreSound ==
  ASSUME NEW d \in Device, d.finishing => d.have = Parts, NEW e \in NeedsMore(d)
  PROVE  Sound(e) /\ e.session = d.session /\ e.state # "ABORTING"
  <1>1. CASE \E p \in Wanted(d) : e = To(d, "NEED_DATA", p)
    <2>1. PICK p \in Wanted(d) : e = To(d, "NEED_DATA", p)
      BY Zenon, <1>1
    <2>2. p \in Parts
      BY Zenon DEF Wanted
    <2> QED
      BY <2>1, <2>2, ToFields DEF Sound, States
  <1>2. CASE d.have = Parts /\ e = To(d, "READY_TO_FINISH", None)
    BY <1>2, ToFields DEF Sound, States
  <1>3. CASE e = To(d, "FAILED", None)
    BY <1>3, ToFields DEF Sound, States, Terminal
  <1> QED
    BY Zenon, <1>1, <1>2, <1>3 DEF NeedsMore

\* BEGIN opens a session with none of the image.
LEMMA BeginSound ==
  ASSUME dev \in Device, NEW e \in DevBegin
  PROVE  Sound(e)
  <1> DEFINE d == [session |-> dev.session + 1, state |-> "PREPARING", accepted |-> 0,
                   have |-> {}, want |-> None, finishing |-> FALSE]
  <1>1. d \in Device /\ d.state = "PREPARING" /\ d.finishing = FALSE
    BY DEF Device, States, BusyStates
  <1>2. e = d \/ \E p \in Parts : e = To(d, "NEED_DATA", p)
    BY Zenon DEF DevBegin
  <1> HIDE DEF d
  <1> QED
    BY <1>1, <1>2, ToFields DEF Sound, States

\* DATA that is accepted leaves the device in the same session.
LEMMA DataSound ==
  ASSUME Sound(dev), sequence \in Nat, DevAccepts, NEW e \in DevData
  PROVE  Sound(e) /\ e.session = dev.session /\ e.state # "ABORTING"
  <1> DEFINE d == [dev EXCEPT !.have = @ \cup {part}, !.accepted = sequence]
  <1>1. part \in Parts
    BY Zenon DEF DevAccepts, Sound
  <1>2. d \in Device
    <2>1. dev.have \cup {part} \in SUBSET Parts /\ dev \in Device
      BY Zenon, <1>1 DEF Sound, Device
    <2>2. PICK h \in SUBSET Parts : h = dev.have \cup {part}
      BY Zenon, <2>1
    <2>3. d = [dev EXCEPT !.have = h, !.accepted = sequence]
      BY Zenon, <2>2
    <2> HIDE DEF d
    <2> QED
      BY Zenon, <2>1, <2>3 DEF Device
  <1>3. (d.finishing => d.have = Parts) /\ d.session = dev.session
    BY <1>1 DEF Sound, Device
  <1>4. e \in NeedsMore(d) \/ e = To(d, "PREPARING", None)
          \/ e = To(d, "WRITING", None)
    BY Zenon DEF DevData, Working
  <1> HIDE DEF d
  <1> QED
    BY <1>2, <1>3, <1>4, NeedsMoreSound, ToFields DEF Sound, States, BusyStates

\* FINISH is acted on with the whole image.
LEMMA FinishSound ==
  ASSUME Sound(dev), DevReady, NEW e \in DevFinish
  PROVE  Sound(e) /\ e.session = dev.session /\ e.state # "ABORTING"
  <1> DEFINE d == [dev EXCEPT !.finishing = TRUE]
  <1>1. d \in Device /\ d.have = Parts /\ d.session = dev.session
    BY Zenon DEF Sound, Device, DevReady
  <1>2. e = To(d, "WRITING", None) \/ e = To(d, "COMPLETE", None)
          \/ e = To(d, "FAILED", None)
    BY Zenon DEF DevFinish
  <1> HIDE DEF d
  <1> QED
    BY <1>1, <1>2, ToFields DEF Sound, States, BusyStates, Terminal

\* ABORT ends the session, now or soon.
LEMMA AbortSound ==
  ASSUME Sound(dev), NEW e \in DevAbort
  PROVE  Sound(e) /\ e.session = dev.session /\ e.state \in {"ABORTING", "ABORTED"}
  BY ToFields DEF DevAbort, Sound, States, BusyStates, Terminal

\* What a command does to the device: only BEGIN opens a session, and after
\* ABORT the session is not held.
LEMMA HandlesSound ==
  ASSUME Sound(dev), sequence \in Nat, NEW e, NEW result, Handles(e, result)
  PROVE  /\ Sound(e) /\ result \in Results
         /\ act # "BEGIN" => NoneBegins(e)
         /\ act = "ABORT" =>
              ~(e.session = session_id /\ Active(e) /\ e.state # "ABORTING")
  <1> USE DEF Handles, Results
  <1>1. CASE e = dev /\ ~(act = "ABORT" /\ DevAborts)
    BY Zenon, <1>1 DEF NoneBegins, DevAborts
  <1>2. CASE act = "BEGIN" /\ e \in DevBegin
    <2>1. Sound(e)
      BY Zenon, <1>2, BeginSound DEF Sound
    <2> QED
      BY Zenon, <1>2, <2>1
  <1>3. CASE act = "DATA" /\ DevAccepts /\ e \in DevData
    <2>1. Sound(e) /\ e.session = dev.session /\ e.state # "ABORTING"
      BY Zenon, <1>3, DataSound
    <2>2. Active(dev) /\ dev.state # "ABORTING"
      BY Zenon, <1>3 DEF DevAccepts, Active, Terminal
    <2> QED
      BY Zenon, <1>3, <2>1, <2>2 DEF NoneBegins
  <1>4. CASE act = "FINISH" /\ DevReady /\ e \in DevFinish
    <2>1. Sound(e) /\ e.session = dev.session /\ e.state # "ABORTING"
      BY Zenon, <1>4, FinishSound
    <2>2. Active(dev) /\ dev.state # "ABORTING"
      BY Zenon, <1>4 DEF DevReady, Active, Terminal
    <2> QED
      BY Zenon, <1>4, <2>1, <2>2 DEF NoneBegins
  <1>5. CASE act = "ABORT" /\ DevAborts /\ e \in DevAbort
    <2>1. Sound(e) /\ e.session = dev.session /\ e.state \in {"ABORTING", "ABORTED"}
      BY Zenon, <1>5, AbortSound
    <2> QED
      BY Zenon, <1>5, <2>1 DEF NoneBegins, DevAborts, Active, Terminal
  <1> QED
    BY Zenon, <1>1, <1>2, <1>3, <1>4, <1>5

\* A change of the busy state changes nothing else.
LEMMA SwitchSound ==
  ASSUME Sound(dev), DeviceSwitches
  PROVE  /\ Sound(dev') /\ dev'.session = dev.session /\ dev'.have = dev.have
         /\ dev'.accepted = dev.accepted /\ dev'.finishing = dev.finishing
         /\ dev.state \in {"PREPARING", "WRITING"}
         /\ dev'.state \in {"PREPARING", "WRITING"}
  <1>1. dev.state \in {"PREPARING", "WRITING"}
    BY Zenon DEF DeviceSwitches
  <1>2. PICK s \in {"PREPARING", "WRITING"} : dev' = To(dev, s, None)
    BY Zenon DEF DeviceSwitches, Working
  <1>3. s \in States /\ dev \in Device
    BY Zenon DEF States, BusyStates, Sound
  <1> QED
    BY <1>1, <1>2, <1>3, ToFields DEF Sound

\* What the device does on its own: a session that waits for data or is
\* complete changes only by being dropped.
LEMMA DeviceSound ==
  ASSUME Sound(dev), DeviceWorks \/ DeviceSwitches \/ DeviceRecovers
  PROVE  /\ Sound(dev') /\ NoneBegins(dev')
         /\ dev.state # "COMPLETE"
         /\ dev.state = "NEED_DATA" => ~Active(dev')
  <1>1. CASE DeviceRecovers
    <2>1. /\ Sound(dev') /\ dev'.session = dev.session /\ dev'.state = "IDLE"
      BY <1>1, ToFields DEF DeviceRecovers, Sound, States
    <2> QED
      BY Zenon, <1>1, <2>1 DEF DeviceRecovers, NoneBegins, Active, Terminal
  <1>2. CASE DeviceWorks
    <2>1. dev.state \in BusyStates
      BY Zenon, <1>2 DEF DeviceWorks
    <2>2. CASE dev.state = "ABORTING"
      <3>1. dev' = To(dev, "ABORTED", None)
        BY Zenon, <1>2, <2>2 DEF DeviceWorks
      <3>2. Sound(dev') /\ dev'.session = dev.session /\ dev'.state = "ABORTED"
        BY <3>1, ToFields DEF Sound, States, Terminal
      <3> QED
        BY Zenon, <2>2, <3>2 DEF NoneBegins, Active, Terminal
    <2>3. CASE dev.state # "ABORTING" /\ dev.finishing
      <3>1. dev' = To(dev, "COMPLETE", None) \/ dev' = To(dev, "FAILED", None)
        BY Zenon, <1>2, <2>3 DEF DeviceWorks
      <3>2. Sound(dev') /\ dev'.session = dev.session /\ dev'.state \in Terminal
        BY <2>3, <3>1, ToFields DEF Sound, States, Terminal
      <3> QED
        BY Zenon, <2>1, <2>3, <3>2 DEF NoneBegins, Active, Terminal, BusyStates
    <2>4. CASE dev.state # "ABORTING" /\ ~dev.finishing
      <3>1. dev' \in NeedsMore(dev)
        BY Zenon, <1>2, <2>4 DEF DeviceWorks
      <3>2. Sound(dev') /\ dev'.session = dev.session /\ dev'.state # "ABORTING"
        BY Zenon, <3>1, NeedsMoreSound DEF Sound
      <3>3. Active(dev)
        BY Zenon, <2>1 DEF Active, BusyStates, Terminal
      <3> QED
        BY Zenon, <2>1, <2>4, <3>2, <3>3 DEF NoneBegins, BusyStates
    <2> QED
      BY Zenon, <2>2, <2>3, <2>4
  <1>3. CASE DeviceSwitches
    <2>1. /\ Sound(dev') /\ dev'.session = dev.session
          /\ dev.state \in {"PREPARING", "WRITING"}
      BY Zenon, <1>3, SwitchSound
    <2> QED
      BY Zenon, <2>1 DEF NoneBegins, Active, Terminal
  <1> QED
    BY Zenon, <1>1, <1>2, <1>3

-----------------------------------------------------------------------------
(* Types *)

Response_ == [session : Nat, state : States, accepted : Nat, result : Results,
              next : Parts \cup {None}, version : BOOLEAN, totals : Totals]

\* A response of the device, and the zeroed one, are of one type.
LEMMA ResponseType ==
  ASSUME NEW d \in Device, NEW result \in Results,
         NEW version \in BOOLEAN, NEW totals \in Totals
  PROVE  Response(d, result, version, totals) \in Response_
  BY Zenon DEF Response, Response_, Device

\* So is the response memset before every send.
LEMMA NoResponseType == NoResponse \in Response_
  BY Zenon DEF Totals, NoResponse, Response_, States, Results

\* TypeOK in two halves, for the provers: the flags and the rest.
FlagsOK ==
  /\ abort_needed \in BOOLEAN /\ locked \in BOOLEAN
  /\ mailbox_lost \in BOOLEAN /\ abort_lost \in BOOLEAN

ValuesOK ==
  /\ pc \in {"start", "unlock", "command", "lock", "sent", "loop", "out", "done"}
  /\ act \in {"BEGIN", "DATA", "QUERY", "FINISH", "ABORT"}
  /\ ret \in {"ok", "error"} \cup Results
  /\ rc \in {0, -1} /\ session_id \in Nat /\ sequence \in Nat \ {0}
  /\ part \in Parts \cup {None} /\ last_data \in Parts \cup {None}
  /\ waited \in 0 .. BEGIN_RETRY
  /\ busy_state \in BusyStates \cup {None} /\ busy \in Nat
  /\ opened \in Nat
  /\ rsp \in Response_

\* The two halves make up TypeOK.
LEMMA TypeHalves == TypeOK <=> FlagsOK /\ ValuesOK /\ dev \in Device
  BY Zenon DEF TypeOK, FlagsOK, ValuesOK, Device, Response_, Results

\* The initial states are typed.
LEMMA InitTypes == Init => FlagsOK /\ ValuesOK /\ Sound(dev)
  <1> SUFFICES ASSUME Init PROVE FlagsOK /\ ValuesOK /\ Sound(dev)
    OBVIOUS
  <1>1. PICK s \in {"IDLE", "WRITING"} :
          dev = [session |-> 1, state |-> s, accepted |-> 0, have |-> {},
                 want |-> None, finishing |-> FALSE]
    BY Zenon DEF Init
  <1>2. Sound(dev)
    BY <1>1 DEF Sound, Device, States, BusyStates
  <1>3. rsp \in Response_
    BY Zenon, NoResponseType DEF Init
  <1>4. FlagsOK
    BY Zenon DEF Init, FlagsOK
  <1>5. ValuesOK
    BY <1>3, DownloadAssumption DEF Init, ValuesOK
  <1> QED
    BY Zenon, <1>2, <1>4, <1>5

\* Every step keeps the flags Boolean.
LEMMA FlagsStep ==
  ASSUME FlagsOK, [Next]_vars
  PROVE  FlagsOK'
  <1> USE DEF FlagsOK
  <1>1. CASE BeginDone
    BY <1>1, Zenon DEF BeginDone, DevVars, SendVars
  <1>2. CASE Unlock
    BY <1>2, Zenon DEF Unlock, DevVars, SendVars
  <1>3. CASE UnlockFails
    BY <1>3, Zenon DEF UnlockFails, DevVars, SendVars
  <1>4. CASE CommandFails
    BY <1>4, Zenon DEF CommandFails, DevVars, SendVars
  <1>5. CASE Lock
    BY <1>5, Zenon DEF Lock, DevVars, SendVars
  <1>6. CASE LockFails
    BY <1>6, Zenon DEF LockFails, DevVars, SendVars
  <1>7. CASE Complete
    BY <1>7, Zenon DEF Complete, DevVars, SendVars
  <1>8. CASE Failed
    BY <1>8, Zenon DEF Failed, DevVars, SendVars
  <1>9. CASE Out
    BY <1>9, Zenon DEF Out, DevVars, SendVars
  <1>10. CASE UNCHANGED <<abort_needed, locked, mailbox_lost, abort_lost>>
    BY Zenon, <1>10
  <1>11. CASE Begin \/ FileFails \/ BeginBusy \/ Command \/ BadTotals \/ ClockFails \/ NeedData
    BY Zenon, <1>11, <1>10 DEF Begin, FileFails, BeginBusy, Command, BadTotals, ClockFails,
       NeedData, DevVars, SendVars
  <1>12. CASE DataDone \/ Busy \/ SendDone \/ ReadyToFinish \/ AbortDone \/ DeviceWorks
              \/ DeviceSwitches \/ DeviceRecovers \/ Returned \/ UNCHANGED vars
    BY Zenon, <1>12, <1>10 DEF DataDone, Busy, SendDone, ReadyToFinish, AbortDone,
       DeviceWorks, DeviceSwitches, DeviceRecovers, Returned, vars, DevVars, SendVars,
       ToolVars
  <1> QED
    BY Zenon, <1>1, <1>2, <1>3, <1>4, <1>5, <1>6, <1>7, <1>8, <1>9, <1>10,
       <1>11, <1>12 DEF Next, Tool

\* Every step keeps the other types, and the device sound.
LEMMA ValuesStep ==
  ASSUME ValuesOK, Sound(dev), [Next]_vars
  PROVE  ValuesOK' /\ Sound(dev')
  <1> USE DownloadAssumption DEF ValuesOK
  <1>1. CASE Begin
    BY Zenon, <1>1 DEF Begin, DevVars, SendVars, Send
  <1>2. CASE BeginBusy
    BY <1>2 DEF BeginBusy, DevVars, SendVars
  <1>3. CASE BeginDone
    BY Zenon, <1>3 DEF BeginDone, DevVars, SendVars, Response_
  <1>4. CASE CommandFails
    BY Zenon, <1>4 DEF CommandFails, DevVars, SendVars
  <1>5. CASE BadTotals
    BY Zenon, <1>5 DEF BadTotals, DevVars, SendVars
  <1>6. CASE ClockFails
    BY Zenon, <1>6 DEF ClockFails, DevVars, SendVars
  <1>7. CASE DataDone
    BY Zenon, <1>7 DEF DataDone, DevVars, SendVars
  <1>8. CASE SendDone
    BY Zenon, <1>8 DEF SendDone, DevVars, SendVars
  <1>9. CASE ReadyToFinish
    BY Zenon, <1>9 DEF ReadyToFinish, DevVars, SendVars, Send, NotBusy
  <1>10. CASE Complete
    BY Zenon, <1>10 DEF Complete, DevVars, SendVars, NotBusy
  <1>11. CASE Failed
    BY Zenon, <1>11 DEF Failed, DevVars, SendVars, NotBusy
  <1>12. CASE Out
    BY Zenon, <1>12 DEF Out, DevVars, SendVars, Send
  <1>13. CASE AbortDone
    BY Zenon, <1>13 DEF AbortDone, DevVars, SendVars
  <1>14. CASE Unlock
    BY Zenon, <1>14, NoResponseType DEF Unlock, SendVars
  <1>15. CASE UnlockFails
    BY Zenon, <1>15, NoResponseType DEF UnlockFails, SendVars
  <1>16. CASE Lock
    <2>1. ret' \in {"error"} \cup Results
      BY Zenon, <1>16 DEF Lock, SendReturns, Response_
    <2> QED
      BY Zenon, <1>16, <2>1 DEF Lock, SendVars
  <1>17. CASE LockFails
    <2>1. ret' \in {"error"} \cup Results
      BY Zenon, <1>17 DEF LockFails, SendReturns, Response_
    <2> QED
      BY Zenon, <1>17, <2>1 DEF LockFails, SendVars
  <1>18. CASE FileFails
    <2>1. PICK s \in States : rsp' = [NoResponse EXCEPT !.state = s]
      BY Zenon, <1>18 DEF FileFails
    <2>2. rsp' \in Response_
      BY Zenon, <2>1, NoResponseType DEF Response_
    <2> QED
      BY Zenon, <1>18, <2>2 DEF FileFails, SendVars
  <1>19. CASE Command
    <2>1. PICK d, result : Handles(d, result) /\ dev' = d
            /\ opened' = (IF act = "BEGIN" /\ result = "OK" THEN d.session ELSE opened)
            /\ \/ ret' = "error" /\ rsp' = rsp
               \/ \E version \in BOOLEAN, totals \in Totals :
                    ret' = "ok" /\ rsp' = Response(d, result, version, totals)
      BY Zenon, <1>19 DEF Command
    <2>2. Sound(d) /\ result \in Results
      BY Zenon, <2>1, HandlesSound
    <2>3. d \in Device /\ d.session \in Nat
      BY Zenon, <2>2 DEF Sound, Device
    <2>4. rsp' \in Response_ /\ ret' \in {"error", "ok"}
      BY <2>1, <2>2, <2>3, ResponseType
    <2>5. opened' \in Nat
      BY Zenon, <2>1, <2>3
    <2> QED
      BY Zenon, <1>19, <2>1, <2>2, <2>4, <2>5 DEF Command, SendVars
  <1>20. CASE NeedData
    <2>1. rsp.accepted + 1 \in Nat \ {0} /\ rsp.next \in Parts \cup {None}
      BY DEF Response_
    <2> QED
      BY Zenon, <1>20, <2>1 DEF NeedData, NextSequence, NotBusy, Send, DevVars
  <1>21. CASE Busy
    BY <1>21 DEF Busy, Turn, Send, DevVars
  <1>22. CASE DeviceWorks \/ DeviceSwitches \/ DeviceRecovers
    <2>1. Sound(dev')
      BY Zenon, <1>22, DeviceSound
    <2>2. UNCHANGED ToolVars
      BY Zenon, <1>22 DEF DeviceWorks, DeviceSwitches, DeviceRecovers
    <2> QED
      BY <2>1, <2>2 DEF ToolVars, SendVars
  <1>23. CASE Returned \/ UNCHANGED vars
    BY <1>23 DEF Returned, vars
  <1> QED
    BY Zenon, <1>1, <1>2, <1>3, <1>4, <1>5, <1>6, <1>7, <1>8, <1>9, <1>10, <1>11,
       <1>12, <1>13, <1>14, <1>15, <1>16, <1>17, <1>18, <1>19, <1>20, <1>21,
       <1>22, <1>23 DEF Next, Tool

-----------------------------------------------------------------------------
(* The invariant *)

\* The part of the invariant beyond the types.
Knows ==
  /\ MailInv /\ RspInv /\ OverInv /\ SessionInv /\ PathInv /\ AbortInv
  /\ RcInv /\ DataMatches

\* The steps of the tool that do not reach the device keep what it knows.
LEMMA ToolKnows ==
  ASSUME TypeOK, Knows, Tool, ~Command
  PROVE  Knows'
  <1> USE DEF Knows, MailInv, RspInv, OverInv, SessionInv, PathInv, AbortInv,
              RcInv, DataMatches, Held, DevAccepts
  <1>1. CASE Begin
    BY Zenon, <1>1 DEF Begin, Send, DevVars
  <1>2. CASE FileFails
    BY Zenon, <1>2 DEF FileFails, SendVars
  <1>3. CASE BeginBusy
    BY Zenon, <1>3 DEF BeginBusy, DevVars
  <1>4. CASE BeginDone
    <2>1. CASE ret # "OK" \/ BegunBadly
      BY Zenon, <1>4, <2>1 DEF BeginDone, DevVars
    <2>2. CASE ret = "OK" /\ ~BegunBadly
      <3>1. pc' = "loop" /\ session_id' = rsp.session /\ rsp.session # 0
        BY Zenon, <1>4, <2>2 DEF BeginDone, BegunBadly
      <3>2. abort_needed'
        BY Zenon, <1>4, <2>2 DEF BeginDone
      <3>3. UNCHANGED <<DevVars, act, rc>> /\ pc = "sent" /\ act = "BEGIN"
        BY Zenon, <1>4, <2>2 DEF BeginDone
      <3>4. rsp.state = "NEED_DATA"
        BY Zenon, <2>2 DEF BegunBadly
      <3> QED
        BY Zenon, <3>1, <3>2, <3>3, <3>4 DEF DevVars, Terminal
    <2> QED
      BY Zenon, <2>1, <2>2
  <1>5. CASE Unlock
    BY Zenon, <1>5 DEF Unlock, SendVars, NoResponse, Terminal
  <1>6. CASE UnlockFails
    <2>1. locked' \/ mailbox_lost'
      BY Zenon, <1>6 DEF UnlockFails
    <2>2. act = "ABORT" => abort_lost'
      BY Zenon, <1>6 DEF UnlockFails
    <2>3. /\ pc = "unlock" /\ pc' = "sent" /\ rsp' = NoResponse /\ ret' = "error"
          /\ UNCHANGED <<SendVars, dev>>
      BY Zenon, <1>6 DEF UnlockFails
    <2>4. rsp'.state = "IDLE"
      BY Zenon, <2>3 DEF NoResponse
    <2> QED
      BY Zenon, <2>1, <2>2, <2>3, <2>4 DEF SendVars, Terminal
  <1>7. CASE CommandFails
    <2>1. act = "ABORT" => abort_lost'
      BY Zenon, <1>7 DEF CommandFails
    <2>2. /\ pc = "command" /\ pc' = "lock" /\ ret' = "error"
          /\ UNCHANGED <<SendVars, rsp, dev>>
      BY Zenon, <1>7 DEF CommandFails
    <2>3. rsp'.state = "IDLE"
      BY <2>2 DEF NoResponse
    <2> QED
      BY Zenon, <2>1, <2>2, <2>3 DEF SendVars, Terminal
  <1>8. CASE Lock
    BY Zenon, <1>8 DEF Lock, SendVars, SendReturns, TypeOK
  <1>9. CASE LockFails
    BY Zenon, <1>9 DEF LockFails, SendVars, SendReturns
  <1>10. CASE BadTotals
    BY Zenon, <1>10 DEF BadTotals, DevVars, SendVars
  <1>11. CASE ClockFails
    BY Zenon, <1>11 DEF ClockFails, Turn, DevVars, SendVars
  <1>12. CASE NeedData
    BY Zenon, <1>12 DEF NeedData, Turn, Send, DevVars, NextSequence
  <1>13. CASE DataDone
    BY Zenon, <1>13 DEF DataDone, DevVars
  <1>14. CASE Busy
    BY Zenon, <1>14 DEF Busy, Turn, Send, DevVars
  <1>15. CASE SendDone
    BY Zenon, <1>15 DEF SendDone, DevVars, SendVars
  <1>16. CASE ReadyToFinish
    BY Zenon, <1>16 DEF ReadyToFinish, Turn, Send, DevVars
  <1>17. CASE Complete
    <2>1. ~abort_needed'
      BY Zenon, <1>17 DEF Complete
    <2>2. /\ pc = "loop" /\ rsp.state = "COMPLETE" /\ pc' = "out"
          /\ UNCHANGED <<DevVars, act, session_id>>
      BY Zenon, <1>17 DEF Complete, Turn
    <2>3. ~Active(dev) /\ dev.session = session_id /\ dev.state = "COMPLETE"
      BY Zenon, <2>2 DEF Active, Terminal
    <2> QED
      BY Zenon, <2>1, <2>2, <2>3 DEF DevVars
  <1>18. CASE Failed
    <2>1. rsp.state = "IDLE" /\ abort_needed => abort_needed'
      BY Zenon, <1>18 DEF Failed
    <2>2. /\ pc = "loop" /\ rsp.state \in {"FAILED", "ABORTED", "IDLE"} /\ pc' = "out"
          /\ UNCHANGED <<DevVars, act, session_id, rc>>
      BY Zenon, <1>18 DEF Failed, Turn
    <2>3. rsp.state # "IDLE" => ~Active(dev)
      BY Zenon, <2>2 DEF Terminal
    <2> QED
      BY Zenon, <2>1, <2>2, <2>3 DEF DevVars
  <1>19. CASE Out
    BY Zenon, <1>19 DEF Out, Over, Send, DevVars, Terminal
  <1>20. CASE AbortDone
    BY Zenon, <1>20 DEF AbortDone, DevVars, SendVars
  <1> QED
    BY Zenon, <1>1, <1>2, <1>3, <1>4, <1>5, <1>6, <1>7, <1>8, <1>9, <1>10, <1>11,
       <1>12, <1>13, <1>14, <1>15, <1>16, <1>17, <1>18, <1>19, <1>20 DEF Tool

\* The step in which the device acts on a command.
LEMMA CommandKnows ==
  ASSUME TypeOK, Sound(dev), Knows, Command
  PROVE  Knows'
  <1> USE DEF Knows
  <1>1. PICK d, result : Handles(d, result) /\ dev' = d
          /\ \/ rsp' = rsp
             \/ \E version \in BOOLEAN, totals \in Totals :
                  rsp' = Response(d, result, version, totals)
    BY Zenon DEF Command
  <1>2. /\ pc = "command" /\ pc' = "lock"
        /\ UNCHANGED <<act, session_id, sequence, part, rc>>
    BY Zenon DEF Command, SendVars
  <1>3. rsp = NoResponse /\ (act = "BEGIN" <=> session_id = 0) /\ rc # 0
    BY Zenon, <1>2 DEF PathInv, RcInv
  <1>4. /\ act # "BEGIN" => NoneBegins(d)
        /\ act = "ABORT" =>
             ~(d.session = session_id /\ Active(d) /\ d.state # "ABORTING")
    BY Zenon, <1>1, HandlesSound DEF TypeOK
  <1>5. rsp'.state \in {"IDLE", dev'.state}
    <2>1. CASE rsp' = rsp
      BY Zenon, <1>3, <2>1 DEF NoResponse
    <2>2. CASE \E version \in BOOLEAN, totals \in Totals :
                 rsp' = Response(d, result, version, totals)
      BY <1>1, <2>2 DEF Response
    <2> QED
      BY Zenon, <1>1, <2>1, <2>2
  <1>6. MailInv' /\ SessionInv' /\ PathInv' /\ RcInv' /\ DataMatches'
    <2>1. MailInv' /\ SessionInv' /\ DataMatches'
      BY Zenon, <1>2 DEF MailInv, SessionInv, DataMatches
    <2>2. PathInv'
      BY Zenon, <1>2, <1>3 DEF PathInv
    <2>3. RcInv'
      BY Zenon, <1>2, <1>3 DEF RcInv
    <2> QED
      BY Zenon, <2>1, <2>2, <2>3
  <1>7. RspInv'
    <2>1. CASE rsp' = rsp
      BY Zenon, <1>3, <2>1 DEF RspInv, NoResponse
    <2>2. CASE \E version \in BOOLEAN, totals \in Totals :
                 rsp' = Response(d, result, version, totals)
      <3>1. /\ rsp'.state = dev'.state /\ rsp'.session = dev'.session
            /\ rsp'.next = dev'.want /\ rsp'.accepted = dev'.accepted
        BY <1>1, <2>2 DEF Response
      <3> QED
        BY Zenon, <3>1 DEF RspInv
    <2> QED
      BY Zenon, <1>1, <2>1, <2>2
  <1>8. OverInv'
    BY Zenon, <1>5 DEF OverInv, Active, Terminal
  <1>9. AbortInv'
    <2>1. act # "ABORT" /\ session_id # 0 => abort_needed'
      BY Zenon, <1>2 DEF AbortInv, Command, SendVars
    <2> QED
      BY Zenon, <1>1, <1>2, <1>4, <2>1 DEF AbortInv, Held
  <1> QED
    BY Zenon, <1>6, <1>7, <1>8, <1>9

\* The steps of the device.
LEMMA DeviceKnows ==
  ASSUME Sound(dev), Knows, DeviceWorks \/ DeviceSwitches \/ DeviceRecovers
  PROVE  Knows'
  <1>1. UNCHANGED <<pc, act, rsp, ret, rc, session_id, sequence, part>>
    BY Zenon DEF DeviceWorks, DeviceSwitches, DeviceRecovers, ToolVars, SendVars
  <1>2. /\ NoneBegins(dev') /\ dev.state # "COMPLETE"
        /\ dev.state = "NEED_DATA" => ~Active(dev')
    BY Zenon, DeviceSound
  <1>3. MailInv' /\ SessionInv' /\ PathInv'
    BY Zenon DEF DeviceWorks, DeviceSwitches, DeviceRecovers, ToolVars, SendVars, Knows,
           MailInv, SessionInv, PathInv
  <1>4. \A s : Held(s)' => Held(s)
    BY Zenon, <1>2 DEF Held, NoneBegins
  <1>5. RspInv'
    BY Zenon, <1>1, <1>2, <1>4 DEF Knows, RspInv, Held
  <1>6. OverInv' /\ RcInv'
    BY Zenon, <1>1, <1>2 DEF Knows, OverInv, RcInv, NoneBegins
  <1>7. DataMatches'
    BY Zenon, <1>1, <1>2, <1>4 DEF Knows, DataMatches, DevAccepts, Held
  <1>8. AbortInv'
    <2>1. UNCHANGED <<abort_needed, abort_lost>>
      BY Zenon DEF DeviceWorks, DeviceSwitches, DeviceRecovers, ToolVars, SendVars
    <2>2. Held(session_id)' => Held(session_id)
      BY Zenon, <1>1, <1>4
    <2> QED
      BY Zenon, <1>1, <2>1, <2>2 DEF Knows, AbortInv
  <1> QED
    BY Zenon, <1>3, <1>5, <1>6, <1>7, <1>8 DEF Knows

\* At the start there is nothing to know.
LEMMA InitKnows == Init => Knows
  BY DEF Init, Knows, MailInv, RspInv, OverInv, SessionInv, PathInv, AbortInv,
         RcInv, DataMatches

\* The inductive invariant holds in every reachable state of the download.
THEOREM Invariance == Spec => []Inv
  <1>1. Init => Inv
    BY Zenon, InitTypes, InitKnows, TypeHalves DEF Inv, Knows, Sound
  <1>2. Inv /\ [Next]_vars => Inv'
    <2> SUFFICES ASSUME Inv, [Next]_vars PROVE Inv'
      OBVIOUS
    <2>1. TypeOK /\ FlagsOK /\ ValuesOK /\ Sound(dev) /\ Knows
      BY Zenon, TypeHalves DEF Inv, Knows
    <2>2. FlagsOK' /\ ValuesOK' /\ Sound(dev')
      BY Zenon, <2>1, FlagsStep, ValuesStep
    <2>3. TypeOK'
      BY Zenon, <2>2, TypeHalves DEF TypeOK, FlagsOK, ValuesOK, Sound, Device, Response_, Results
    <2>4. Knows'
      <3>1. CASE Returned \/ UNCHANGED vars
        <4> USE DEF Knows
        <4>1. UNCHANGED vars
          BY Zenon, <3>1 DEF Returned
        <4>2. MailInv' /\ RspInv'
          BY Zenon, <2>1, <4>1 DEF vars, MailInv, RspInv, Held, Active
        <4>3. OverInv' /\ SessionInv' /\ PathInv' /\ RcInv'
          BY Zenon, <2>1, <4>1 DEF vars, OverInv, SessionInv, PathInv, RcInv, Active
        <4>4. AbortInv' /\ DataMatches'
          BY Zenon, <2>1, <4>1 DEF vars, AbortInv, DataMatches, Held, Active, DevAccepts
        <4> QED
          BY Zenon, <4>2, <4>3, <4>4
      <3> QED
        BY Zenon, <2>1, <3>1, ToolKnows, CommandKnows, DeviceKnows DEF Next
    <2> QED
      BY Zenon, <2>2, <2>3, <2>4 DEF Inv, Knows
  <1> QED
    BY <1>1, <1>2, PTL DEF Spec

\* Every variable of the download has its type.
THEOREM TypeCorrect == Spec => []TypeOK
  BY Invariance, PTL DEF Inv

\* vu_dlunion_download returns 0 only for a session the device completed with
\* the whole image, whatever fails on the way.
THEOREM CompleteOnSuccess == Spec => []ImageComplete
  <1>1. Inv => ImageComplete
    BY Zenon DEF Inv, RcInv, Sound, ImageComplete
  <1> QED
    BY <1>1, Invariance, PTL

\* fwdownload_send never forgets to lock the vendor mailbox.
THEOREM Relocked == Spec => []MailboxRelocked
  <1>1. Inv => MailboxRelocked
    BY Zenon DEF Inv, MailInv, MailboxRelocked
  <1> QED
    BY <1>1, Invariance, PTL

\* The session the tool goes by is the one the device opened for it.
OpenedInv ==
  /\ session_id # 0 => session_id = opened
  /\ pc = "lock" /\ act = "BEGIN" /\ ret # "error" /\ rsp.result = "OK"
       => rsp.session = opened
  /\ pc = "sent" /\ act = "BEGIN" /\ ret = "OK" => rsp.session = opened

\* Every step keeps it so.
LEMMA OpenedStep == Inv /\ OpenedInv /\ [Next]_vars => OpenedInv'
  <1> SUFFICES ASSUME Inv, OpenedInv, [Next]_vars PROVE OpenedInv'
    OBVIOUS
  <1>1. PathInv /\ ValuesOK
    BY Zenon, TypeHalves DEF Inv
  <1>2. CASE Command
    <2>1. PICK d, result :
            /\ opened' = IF act = "BEGIN" /\ result = "OK" THEN d.session ELSE opened
            /\ \/ ret' = "error"
               \/ \E version \in BOOLEAN, totals \in Totals :
                    rsp' = Response(d, result, version, totals)
      BY <1>2, Zenon DEF Command
    <2>2. pc = "command" /\ pc' = "lock" /\ act' = act /\ session_id' = session_id
      BY Zenon, <1>2 DEF Command, SendVars
    <2>3. session_id # 0 => session_id = opened'
      BY Zenon, <1>1, <2>1, <2>2 DEF PathInv, OpenedInv
    <2>4. ret' # "error" /\ act = "BEGIN" /\ rsp'.result = "OK" => rsp'.session = opened'
      BY <2>1 DEF Response
    <2> QED
      BY Zenon, <2>2, <2>3, <2>4 DEF OpenedInv
  <1>3. CASE Lock \/ LockFails
    <2>1. /\ pc = "lock" /\ pc' = "sent" /\ act' = act /\ session_id' = session_id
          /\ opened' = opened /\ rsp' = rsp
          /\ ret' = SendReturns(TRUE) \/ ret' = SendReturns(FALSE)
      BY Zenon, <1>3 DEF Lock, LockFails, SendVars
    <2>2. act = "BEGIN" /\ ret' = "OK" => ret # "error" /\ rsp.result = "OK"
      BY Zenon, <2>1 DEF SendReturns
    <2> QED
      BY Zenon, <2>1, <2>2 DEF OpenedInv
  <1>4. CASE BeginDone
    BY Zenon, <1>1, <1>4 DEF BeginDone, DevVars, OpenedInv
  <1>5. CASE UnlockFails \/ CommandFails
    BY Zenon, <1>5 DEF UnlockFails, CommandFails, SendVars, OpenedInv
  <1>6. ASSUME UNCHANGED <<opened, session_id>>, pc' \notin {"lock", "sent"}
        PROVE  OpenedInv'
    BY Zenon, <1>6 DEF OpenedInv
  <1>7. ASSUME UNCHANGED <<opened, session_id, pc, act, ret, rsp>>
        PROVE  OpenedInv'
    BY Zenon, <1>7 DEF OpenedInv
  <1>8. CASE Begin \/ FileFails \/ BeginBusy \/ Unlock \/ DataDone \/ SendDone \/ AbortDone
    BY Zenon, <1>6, <1>8 DEF Begin, FileFails, BeginBusy, Unlock, DataDone, SendDone,
                      AbortDone, Send, SendVars, DevVars
  <1>9. CASE BadTotals \/ ClockFails \/ NeedData \/ Busy \/ ReadyToFinish \/ Complete
               \/ Failed \/ Out
    BY Zenon, <1>6, <1>9 DEF BadTotals, ClockFails, NeedData, Busy, ReadyToFinish, Complete,
                      Failed, Out, Send, SendVars, DevVars
  <1>10. CASE Returned \/ DeviceWorks \/ DeviceSwitches \/ DeviceRecovers \/ UNCHANGED vars
    BY Zenon, <1>7, <1>10 DEF Returned, DeviceWorks, DeviceSwitches, DeviceRecovers, vars,
                       ToolVars, SendVars
  <1> QED
    BY Zenon, <1>2, <1>3, <1>4, <1>5, <1>8, <1>9, <1>10 DEF Next, Tool

\* A session the device opened for this download is complete, over or cancelled
\* when vu_dlunion_download returns, unless the ABORT could not be sent or the
\* tool never accepted an answer to BEGIN.
THEOREM Cancelled == Spec => []SessionCancelled
  <1>1. Init => OpenedInv
    BY Zenon DEF Init, OpenedInv
  <1>2. Inv /\ OpenedInv => SessionCancelled
    BY Zenon DEF Inv, OpenedInv, AbortInv, SessionCancelled
  <1> QED
    BY <1>1, <1>2, OpenedStep, Invariance, PTL DEF Spec

\* DATA answers the request the device is waiting on, never an older one.
THEOREM DataFresh == Spec => []DataMatches
  BY Invariance, PTL DEF Inv

-----------------------------------------------------------------------------
(* What is left of the download *)

\* The device asks for a part it does not have, or again while it may.
Entitled(d) == d.state = "NEED_DATA" => d.accepted < AsksAgain \/ d.want \notin d.have

\* What the device is to the session, and how the tool counts: the session is
\* the one of the device; a part it has is asked for again only while it may;
\* queries are counted.
LoopInv ==
  /\ session_id # 0 => dev.session = session_id
  /\ pc \in {"lock", "sent"} /\ act = "BEGIN" /\ rsp.session # 0
       => rsp.session = dev.session
  /\ Entitled(dev)
  /\ pc = "loop" => ret = "OK"
  /\ busy <= MaxBusy

\* Nothing is busy after such a step of the device, and what it asks for it may.
LEMMA DeviceSettles ==
  ASSUME Sound(dev), DeviceWorks \/ DeviceRecovers
  PROVE  /\ dev'.session = dev.session /\ dev'.have = dev.have
         /\ dev'.accepted = dev.accepted /\ Active(dev)
         /\ dev'.state \notin BusyStates
         /\ dev.finishing \/ dev.state \notin BusyStates => ~Active(dev')
         /\ Entitled(dev')
  <1>1. dev \in Device
    BY Zenon DEF Sound
  <1>2. \A s \in States, w \in Parts \cup {None} :
          /\ To(dev, s, w).session = dev.session /\ To(dev, s, w).have = dev.have
          /\ To(dev, s, w).accepted = dev.accepted
          /\ To(dev, s, w).state = s /\ To(dev, s, w).want = w
    BY <1>1, ToFields
  <1>3. CASE DeviceRecovers
    <2>1. dev' = To(dev, "IDLE", None) /\ Active(dev)
      BY Zenon, <1>3 DEF DeviceRecovers
    <2> QED
      BY <1>2, <2>1 DEF States, BusyStates, Active, Entitled
  <1>4. CASE DeviceWorks
    <2>1. /\ dev.state \in BusyStates
          /\ \/ \E s \in {"ABORTED", "COMPLETE", "FAILED"} : dev' = To(dev, s, None)
             \/ ~dev.finishing /\ \E w \in Wanted(dev) : dev' = To(dev, "NEED_DATA", w)
             \/ ~dev.finishing /\ dev' = To(dev, "READY_TO_FINISH", None)
      BY Zenon, <1>4 DEF DeviceWorks, NeedsMore
    <2>2. Active(dev)
      BY Zenon, <2>1 DEF Active, BusyStates, Terminal
    <2>3. CASE \E s \in {"ABORTED", "COMPLETE", "FAILED"} : dev' = To(dev, s, None)
      BY <1>2, <2>2, <2>3 DEF States, BusyStates, Active, Terminal, Entitled
    <2>4. CASE ~dev.finishing /\ \E w \in Wanted(dev) : dev' = To(dev, "NEED_DATA", w)
      <3>1. PICK w \in Wanted(dev) : dev' = To(dev, "NEED_DATA", w)
        BY Zenon, <2>4
      <3>2. w \in Parts /\ (dev.accepted < AsksAgain \/ w \notin dev.have)
        BY Zenon DEF Wanted
      <3> QED
        BY <1>2, <2>1, <2>2, <2>4, <3>1, <3>2 DEF States, BusyStates, Entitled
    <2>5. CASE ~dev.finishing /\ dev' = To(dev, "READY_TO_FINISH", None)
      BY <1>2, <2>1, <2>2, <2>5 DEF States, BusyStates, Entitled
    <2> QED
      BY Zenon, <2>1, <2>3, <2>4, <2>5
  <1> QED
    BY Zenon, <1>3, <1>4

\* What the commands of the loop do to the device.
LEMMA CommandEffect ==
  ASSUME Sound(dev), Entitled(dev), sequence \in Nat,
         NEW e, NEW result, Handles(e, result)
  PROVE  /\ Entitled(e)
         /\ act = "DATA" /\ DevAccepts =>
              e.have = dev.have \cup {part} /\ e.accepted = dev.accepted + 1
         /\ act = "FINISH" /\ DevReady =>
              /\ e.have = dev.have /\ e.accepted = dev.accepted /\ e.finishing
              /\ e.state \in {"WRITING", "COMPLETE", "FAILED"}
         /\ act = "QUERY" \/ (act = "DATA" /\ ~DevAccepts) \/ (act = "FINISH" /\ ~DevReady)
              => e = dev
  <1>1. dev \in Device
    BY Zenon DEF Sound
  <1>2. CASE e = dev /\ ~(act = "DATA" /\ DevAccepts) /\ ~(act = "FINISH" /\ DevReady)
    BY <1>2, Zenon
  <1>3. CASE act = "BEGIN" /\ e \in DevBegin
    <2> DEFINE d == [session |-> dev.session + 1, state |-> "PREPARING", accepted |-> 0,
                     have |-> {}, want |-> None, finishing |-> FALSE]
    <2>1. d \in Device /\ d.state = "PREPARING" /\ d.have = {}
      BY <1>1 DEF Device, States, BusyStates
    <2>2. e = d \/ \E p \in Parts : e = To(d, "NEED_DATA", p)
      BY <1>3, Zenon DEF DevBegin
    <2> HIDE DEF d
    <2>3. e.have = {}
      BY <2>1, <2>2, ToFields DEF States
    <2> QED
      BY Zenon, <1>3, <2>3 DEF Entitled
  <1>4. CASE act = "DATA" /\ DevAccepts /\ e \in DevData
    <2> DEFINE d == [dev EXCEPT !.have = @ \cup {part}, !.accepted = sequence]
    <2>1. d.have = dev.have \cup {part} /\ d.accepted = dev.accepted + 1
      BY Zenon, <1>1, <1>4 DEF Device, DevAccepts
    <2>2. d \in Device
      <3>1. dev.have \cup {part} \in SUBSET Parts
        BY Zenon, <1>1, <1>4 DEF Sound, Device, DevAccepts
      <3>2. PICK h \in SUBSET Parts : h = dev.have \cup {part}
        BY Zenon, <3>1
      <3>3. d = [dev EXCEPT !.have = h, !.accepted = sequence]
        BY Zenon, <3>2
      <3> HIDE DEF d
      <3> QED
        BY Zenon, <1>1, <3>3 DEF Device
    <2>3. \/ \E w \in Wanted(d) : e = To(d, "NEED_DATA", w)
          \/ \E s \in {"READY_TO_FINISH", "FAILED", "PREPARING", "WRITING"} : e = To(d, s, None)
      BY Zenon, <1>4 DEF DevData, NeedsMore, Working
    <2> HIDE DEF d
    <2>4. CASE \E w \in Wanted(d) : e = To(d, "NEED_DATA", w)
      <3>1. PICK w \in Wanted(d) : e = To(d, "NEED_DATA", w)
        BY Zenon, <2>4
      <3>2. w \in Parts /\ (d.accepted < AsksAgain \/ w \notin d.have)
        BY Zenon DEF Wanted
      <3> QED
        BY <1>4, <2>1, <2>2, <3>1, <3>2, ToFields DEF Entitled, States
    <2>5. CASE \E s \in {"READY_TO_FINISH", "FAILED", "PREPARING", "WRITING"} : e = To(d, s, None)
      <3>1. PICK s \in {"READY_TO_FINISH", "FAILED", "PREPARING", "WRITING"} : e = To(d, s, None)
        BY Zenon, <2>5
      <3>2. s \in States /\ s # "NEED_DATA"
        BY Zenon DEF States, BusyStates, Terminal
      <3>3. e.have = d.have /\ e.accepted = d.accepted /\ e.state = s
        BY <2>2, <3>1, <3>2, ToFields
      <3> QED
        BY <1>4, <2>1, <3>2, <3>3, Zenon DEF Entitled
    <2> QED
      BY Zenon, <2>3, <2>4, <2>5
  <1>5. CASE act = "FINISH" /\ DevReady /\ e \in DevFinish
    <2> DEFINE d == [dev EXCEPT !.finishing = TRUE]
    <2>1. d \in Device /\ d.have = dev.have /\ d.accepted = dev.accepted /\ d.finishing
      BY <1>1, Zenon DEF Device
    <2>2. e = To(d, "WRITING", None) \/ e = To(d, "COMPLETE", None)
            \/ e = To(d, "FAILED", None)
      BY Zenon, <1>5 DEF DevFinish
    <2> HIDE DEF d
    <2>3. /\ e.have = d.have /\ e.accepted = d.accepted /\ e.finishing = d.finishing
          /\ e.state \in {"WRITING", "COMPLETE", "FAILED"}
      <3>1. PICK s \in {"WRITING", "COMPLETE", "FAILED"} : e = To(d, s, None)
        BY <2>2, Zenon
      <3>2. s \in States /\ None \in Parts \cup {None}
        BY Zenon DEF States, BusyStates, Terminal
      <3>3. /\ To(d, s, None).have = d.have /\ To(d, s, None).accepted = d.accepted
            /\ To(d, s, None).finishing = d.finishing /\ To(d, s, None).state = s
        BY <2>1, <3>2, ToFields, Zenon
      <3> QED
        BY <3>1, <3>3, Zenon
    <2> QED
      BY <1>5, <2>1, <2>3, Zenon DEF Entitled
  <1>6. CASE act = "ABORT" /\ e \in DevAbort
    BY Zenon, <1>6, AbortSound DEF Entitled
  <1> QED
    BY <1>2, <1>3, <1>4, <1>5, <1>6, Zenon DEF Handles

\* Every step keeps it so.
LEMMA LoopStep == Inv /\ LoopInv /\ [Next]_vars => LoopInv'
  <1> SUFFICES ASSUME Inv, LoopInv, [Next]_vars PROVE LoopInv'
    OBVIOUS
  <1>1. PathInv /\ ValuesOK /\ Sound(dev)
    BY Zenon, TypeHalves DEF Inv
  <1>2. CASE Command
    <2>1. PICK d, result : Handles(d, result) /\ dev' = d
            /\ \/ ret' = "error" /\ rsp' = rsp
               \/ \E version \in BOOLEAN, totals \in Totals :
                    ret' = "ok" /\ rsp' = Response(d, result, version, totals)
      BY <1>2, Zenon DEF Command
    <2>2. /\ pc = "command" /\ pc' = "lock"
          /\ UNCHANGED <<act, session_id, sequence, busy_state, busy>>
      BY Zenon, <1>2 DEF Command, SendVars
    <2>3. sequence \in Nat
      BY Zenon, <1>1 DEF ValuesOK
    <2>4. (act # "BEGIN" => dev'.session = dev.session) /\ Entitled(dev')
      BY Zenon, <1>1, <2>1, <2>3, HandlesSound, CommandEffect DEF LoopInv, NoneBegins
    <2>5. rsp'.session # 0 => rsp'.session = dev'.session
      BY <1>1, <2>1, <2>2 DEF PathInv, NoResponse, Response
    <2>6. session_id # 0 => act # "BEGIN"
      BY Zenon, <1>1, <2>2 DEF PathInv
    <2> QED
      BY Zenon, <2>2, <2>4, <2>5, <2>6 DEF LoopInv
  <1>3. CASE Lock \/ LockFails
    <2>1. /\ pc = "lock" /\ pc' = "sent"
          /\ UNCHANGED <<act, session_id, rsp, dev, busy_state, busy>>
      BY <1>3, Zenon DEF Lock, LockFails, SendVars
    <2> QED
      BY <2>1, Zenon DEF LoopInv
  <1>4. CASE UnlockFails \/ CommandFails
    <2>1. /\ ret' = "error" /\ rsp'.session = 0 /\ pc' \in {"lock", "sent"}
          /\ UNCHANGED <<act, session_id, dev, busy_state, busy>>
      BY <1>1, <1>4 DEF UnlockFails, CommandFails, SendVars, PathInv, NoResponse
    <2> QED
      BY Zenon, <2>1 DEF LoopInv
  <1>5. CASE BeginDone \/ DataDone \/ SendDone
    <2>1. /\ pc = "sent"
          /\ pc' = "out" \/ (pc' = "loop" /\ ret = "OK")
          /\ UNCHANGED <<rsp, ret, dev, busy>>
          /\ \/ session_id' = session_id
             \/ act = "BEGIN" /\ session_id' = rsp.session /\ rsp.session # 0
      BY <1>5, Zenon DEF BeginDone, BegunBadly, DataDone, SendDone, SendVars, DevVars
    <2>2. session_id' # 0 => dev'.session = session_id'
      BY Zenon, <2>1 DEF LoopInv
    <2> QED
      BY Zenon, <2>1, <2>2 DEF LoopInv
  <1>6. ASSUME UNCHANGED <<session_id, dev>>, pc' \notin {"lock", "sent", "loop"},
               busy' <= MaxBusy
        PROVE  LoopInv'
    BY Zenon, <1>6 DEF LoopInv
  <1>7. busy <= MaxBusy /\ 0 <= MaxBusy /\ 1 <= MaxBusy /\ OP_TIMEOUT <= MaxBusy
    BY DownloadAssumption DEF LoopInv, MaxBusy
  <1>8. CASE Begin \/ FileFails \/ BeginBusy \/ Unlock \/ BadTotals \/ ClockFails
               \/ Out \/ AbortDone
    BY Zenon, <1>6, <1>7, <1>8 DEF Begin, FileFails, BeginBusy, Unlock, BadTotals, ClockFails,
                            Out, AbortDone, Send, SendVars, DevVars
  <1>9. CASE NeedData \/ ReadyToFinish \/ Complete \/ Failed
    BY Zenon, <1>6, <1>7, <1>9 DEF NeedData, ReadyToFinish, Complete, Failed, NotBusy, Send,
                            DevVars
  <1>10. CASE Busy
    <2>1. busy' = 1 \/ (busy < OP_TIMEOUT /\ busy' = busy + 1) \/ busy' = busy
      BY <1>10, Zenon DEF Busy
    <2>2. busy \in Nat /\ OP_TIMEOUT \in Nat
      BY Zenon, <1>1, DownloadAssumption DEF ValuesOK
    <2>3. busy' <= MaxBusy
      BY <1>7, <2>1, <2>2, DownloadAssumption DEF MaxBusy
    <2> QED
      BY Zenon, <1>6, <1>10, <2>3 DEF Busy, Send, DevVars
  <1>11. CASE DeviceWorks \/ DeviceRecovers
    <2>1. UNCHANGED <<pc, act, rsp, ret, session_id, busy>>
      BY Zenon, <1>11 DEF DeviceWorks, DeviceRecovers, ToolVars, SendVars
    <2> QED
      BY Zenon, <1>1, <1>11, <2>1, DeviceSettles DEF LoopInv
  <1>12. CASE DeviceSwitches
    <2>1. UNCHANGED <<pc, act, rsp, ret, session_id, busy>>
      BY Zenon, <1>12 DEF DeviceSwitches, ToolVars, SendVars
    <2> QED
      BY Zenon, <1>1, <1>12, <2>1, SwitchSound DEF LoopInv, Entitled
  <1>13. CASE Returned \/ UNCHANGED vars
    BY <1>13, Zenon DEF Returned, vars, LoopInv, Entitled
  <1> QED
    BY Zenon, <1>2, <1>3, <1>4, <1>5, <1>8, <1>9, <1>10, <1>11, <1>12,
       <1>13 DEF Next, Tool

\* What is left is counted in natural numbers.
LEMMA LeftTypes == Inv /\ LoopInv => Counted
  <1> SUFFICES ASSUME Inv, LoopInv PROVE Counted
    OBVIOUS
  <1>1. ValuesOK /\ dev \in Device
    BY Zenon, TypeHalves DEF Inv
  <1>2. Phase \in Nat /\ StageLeft \in Nat /\ StepsLeft \in Nat
    BY Zenon DEF Phase, StageLeft, StepsLeft
  <1>3. BeginsLeft \in Nat
    BY <1>1, DownloadAssumption DEF BeginsLeft, ValuesOK
  <1>4. AsksLeft \in Nat
    BY <1>1, DownloadAssumption DEF AsksLeft, Device
  <1>5. QueriesLeft \in Nat
    <2>1. busy \in Nat /\ busy <= MaxBusy /\ MaxBusy \in Nat
      BY Zenon, <1>1, DownloadAssumption DEF ValuesOK, LoopInv, MaxBusy
    <2> QED
      BY <2>1 DEF QueriesLeft
  <1> QED
    BY Zenon, <1>2, <1>3, <1>4, <1>5 DEF Counted

\* Giving up, or being done, is a later phase.
LEMMA LeavingShorter ==
  ASSUME pc \in {"start", "sent", "loop"}, act # "ABORT", pc' = "out"
  PROVE  Shorter
  <1>1. Phase' = 1 /\ Phase > 1
    BY DEF Phase
  <1> QED
    BY Zenon, <1>1 DEF Shorter

\* Nothing that is counted changes.
Same == UNCHANGED <<dev, session_id, act, waited, busy_state, busy>>

\* A command on its way, with nothing new from the device.
LEMMA OnwardShorter ==
  ASSUME Inv, LoopInv, Same,
         pc \in {"start", "unlock", "command", "lock", "sent", "loop"},
         pc' \in {"start", "unlock", "command", "lock", "sent", "loop"},
         StepsLeft' < StepsLeft,
         dev.state = "NEED_DATA" /\ Sending("DATA") => Sending("DATA")',
         dev.state = "READY_TO_FINISH" /\ Sending("FINISH") => Sending("FINISH")',
         Stale' => Stale
  PROVE  Shorter
  <1>1. Counted
    BY Zenon, LeftTypes
  <1>2. Phase' = Phase
    BY Zenon DEF Phase, Same
  <1>3. BeginsLeft' = BeginsLeft /\ AsksLeft' = AsksLeft /\ Missing' = Missing
    BY Zenon, <1>2 DEF BeginsLeft, AsksLeft, Missing, Same
  <1>4. StageLeft' <= StageLeft
    BY <1>2 DEF StageLeft, Same, Active
  <1>5. QueriesLeft' <= QueriesLeft
    <2>1. busy \in Nat /\ MaxBusy \in Nat
      BY Zenon, TypeHalves, DownloadAssumption DEF Inv, ValuesOK, MaxBusy
    <2> QED
      BY <1>2, <2>1 DEF QueriesLeft, Same, MaxBusy
  <1>6. StageLeft' \in Int /\ QueriesLeft' \in Int
    <2>1. busy' \in Nat /\ MaxBusy \in Nat
      BY Zenon, TypeHalves, DownloadAssumption DEF Inv, ValuesOK, MaxBusy, Same
    <2> QED
      BY <2>1 DEF StageLeft, QueriesLeft
  <1> QED
    BY <1>1, <1>2, <1>3, <1>4, <1>5, <1>6 DEF Counted, Shorter

\* fwdownload_send, but for the step in which the device acts.
LEMMA SendShorter ==
  ASSUME Inv, LoopInv, Unlock \/ UnlockFails \/ CommandFails \/ Lock \/ LockFails
  PROVE  Shorter
  <1>1. CASE Unlock
    <2>1. Same /\ pc = "unlock" /\ pc' = "command" /\ ret' = ret
      BY Zenon, <1>1 DEF Unlock, Same, SendVars
    <2> QED
      BY <2>1, OnwardShorter DEF Same, StepsLeft, Sending, Stale
  <1>2. CASE UnlockFails \/ CommandFails
    <2>1. /\ Same /\ ret' = "error"
          /\ (pc = "unlock" /\ pc' = "sent") \/ (pc = "command" /\ pc' = "lock")
      BY <1>2, Zenon DEF UnlockFails, CommandFails, Same, SendVars
    <2> QED
      BY <2>1, OnwardShorter DEF Same, StepsLeft, Sending, Stale
  <1>3. CASE Lock \/ LockFails
    <2>1. /\ Same /\ rsp' = rsp /\ pc = "lock" /\ pc' = "sent"
          /\ ret' = SendReturns(TRUE) \/ ret' = SendReturns(FALSE)
      BY <1>3, Zenon DEF Lock, LockFails, Same, SendVars
    <2>2. ret = "error" => ret' = "error"
      BY Zenon, <2>1 DEF SendReturns
    <2> QED
      BY <2>1, <2>2, OnwardShorter DEF Same, StepsLeft, Sending, Stale
  <1> QED
    BY Zenon, <1>1, <1>2, <1>3

\* The step in which the device acts: only DATA and FINISH that it takes change
\* it in the loop, and it takes them in the states they are sent for.
LEMMA CommandShorter == ASSUME Inv, LoopInv, Command PROVE Shorter
  <1>1. PathInv /\ ValuesOK /\ Sound(dev) /\ DataMatches /\ Counted
    BY Zenon, TypeHalves, LeftTypes DEF Inv
  <1>2. PICK d, result : Handles(d, result) /\ dev' = d
          /\ \/ ret' = "error" /\ rsp' = rsp
             \/ \E version \in BOOLEAN, totals \in Totals :
                  ret' = "ok" /\ rsp' = Response(d, result, version, totals)
    BY Zenon DEF Command
  <1>3. /\ pc = "command" /\ pc' = "lock"
        /\ UNCHANGED <<act, session_id, waited, busy_state, busy>>
    BY Zenon DEF Command, SendVars
  <1>4. Phase' = Phase /\ BeginsLeft' = BeginsLeft
    BY Zenon, <1>3 DEF Phase, BeginsLeft
  <1>5. StepsLeft' < StepsLeft /\ ~Stale'
    BY <1>2, <1>3 DEF StepsLeft, Stale, Response
  <1>6. CASE dev' = dev /\ act \notin {"DATA", "FINISH"}
    <2>1. Same
      BY Zenon, <1>3, <1>6 DEF Same
    <2> QED
      BY Zenon, <1>3, <1>5, <1>6, <2>1, OnwardShorter DEF Sending
  <1>7. CASE Phase # 2
    <2>1. /\ AsksLeft = 0 /\ AsksLeft' = 0 /\ Missing = {} /\ Missing' = {}
          /\ StageLeft = 0 /\ StageLeft' = 0
          /\ QueriesLeft = 0 /\ QueriesLeft' = 0
      BY Zenon, <1>4, <1>7 DEF AsksLeft, Missing, StageLeft, QueriesLeft
    <2> QED
      BY Zenon, <1>4, <1>5, <2>1 DEF Shorter
  <1>8. CASE Phase = 2
    <2>1. session_id # 0 /\ act \notin {"BEGIN", "ABORT"} /\ dev.session = session_id
      BY <1>1, <1>3, <1>8 DEF Phase, PathInv, LoopInv
    <2>2. /\ act = "DATA" /\ DevAccepts =>
               dev'.have = dev.have \cup {part} /\ dev'.accepted = dev.accepted + 1
          /\ act = "FINISH" /\ DevReady =>
               /\ dev'.have = dev.have /\ dev'.accepted = dev.accepted /\ dev'.finishing
               /\ dev'.state \in {"WRITING", "COMPLETE", "FAILED"}
          /\ act = "QUERY" \/ (act = "DATA" /\ ~DevAccepts) \/ (act = "FINISH" /\ ~DevReady)
               => dev' = dev
      BY Zenon, <1>1, <1>2, CommandEffect DEF ValuesOK, LoopInv
    <2>3. CASE act = "QUERY"
      BY Zenon, <1>6, <2>2, <2>3
    <2>4. CASE act = "DATA" /\ ~DevAccepts
      <3>1. dev.state # "NEED_DATA"
        BY Zenon, <1>1, <1>3, <2>1, <2>4 DEF DataMatches, Held, Active, Terminal
      <3>2. Same
        BY Zenon, <1>3, <2>2, <2>4 DEF Same
      <3> QED
        BY Zenon, <1>3, <1>5, <2>4, <3>1, <3>2, OnwardShorter DEF Sending
    <2>5. CASE act = "FINISH" /\ ~DevReady
      <3>1. dev.state # "READY_TO_FINISH"
        BY Zenon, <2>1, <2>5 DEF DevReady
      <3>2. Same
        BY Zenon, <1>3, <2>2, <2>5 DEF Same
      <3> QED
        BY Zenon, <1>3, <1>5, <2>5, <3>1, <3>2, OnwardShorter DEF Sending
    <2>6. CASE act = "DATA" /\ DevAccepts
      <3>1. /\ dev.have \in SUBSET Parts /\ part \in Parts /\ dev.accepted \in Nat
            /\ dev.accepted < AsksAgain \/ part \notin dev.have
        BY Zenon, <1>1, <2>6 DEF Sound, Device, DevAccepts, LoopInv, Entitled
      <3>2. CASE dev.accepted < AsksAgain
        <4>1. AsksLeft' < AsksLeft
          BY <1>4, <1>8, <2>2, <2>6, <3>1, <3>2, DownloadAssumption DEF AsksLeft
        <4> QED
          BY Zenon, <1>4, <4>1 DEF Shorter
      <3>3. CASE ~(dev.accepted < AsksAgain)
        <4>1. AsksLeft = 0 /\ AsksLeft' = 0
          BY <1>4, <1>8, <2>2, <2>6, <3>1, <3>3, DownloadAssumption DEF AsksLeft
        <4>2. Missing = Parts \ dev.have /\ Missing' = Parts \ (dev.have \cup {part})
          BY <1>4, <1>8, <2>2, <2>6, Zenon DEF Missing
        <4>3. Missing' \subseteq Missing /\ Missing' # Missing
          BY Zenon, <3>1, <3>3, <4>2
        <4> QED
          BY Zenon, <1>4, <4>1, <4>3 DEF Shorter
      <3> QED
        BY Zenon, <3>2, <3>3
    <2>7. CASE act = "FINISH" /\ DevReady
      <3>1. AsksLeft' = AsksLeft /\ Missing' = Missing
        BY <1>4, <1>8, <2>2, <2>7, Zenon DEF AsksLeft, Missing
      <3>2. StageLeft = 2
        BY Zenon, <1>3, <1>8, <2>7 DEF StageLeft, DevReady, Active, Terminal, Sending
      <3>3. StageLeft' \in {0, 1}
        BY Zenon, <1>4, <1>8, <2>2, <2>7 DEF StageLeft, Active, Terminal
      <3> QED
        BY <1>4, <3>1, <3>2, <3>3 DEF Shorter
    <2> QED
      BY Zenon, <1>1, <2>1, <2>3, <2>4, <2>5, <2>6, <2>7 DEF ValuesOK
  <1> QED
    BY Zenon, <1>7, <1>8

\* The next command of the loop: it answers the state of the device, or the
\* response was out of date and the next one will not be.
LEMMA TurnShorter ==
  ASSUME Inv, LoopInv, pc = "loop", pc' = "unlock", NeedData \/ ReadyToFinish \/ Busy
  PROVE  Shorter
  <1>1. PathInv /\ ValuesOK /\ Counted /\ ret = "OK"
    BY Zenon, TypeHalves, LeftTypes DEF Inv, LoopInv
  <1>2. UNCHANGED <<dev, session_id, waited, rsp, ret>> /\ act' # "ABORT"
    BY Zenon DEF NeedData, ReadyToFinish, Busy, Send, DevVars
  <1>3. Phase = 2 /\ Phase' = 2
    BY Zenon, <1>1, <1>2 DEF Phase, PathInv
  <1>4. BeginsLeft' = BeginsLeft /\ AsksLeft' = AsksLeft /\ Missing' = Missing
    BY <1>2, <1>3, Zenon DEF BeginsLeft, AsksLeft, Missing
  <1>5. ~Sending("DATA") /\ ~Sending("FINISH")
    BY Zenon, <1>1 DEF Sending
  <1>6. StageLeft' <= StageLeft
    BY <1>2, <1>3, <1>5 DEF StageLeft, Active
  <1>7. StageLeft \in Nat /\ StageLeft' \in Nat
    BY Zenon DEF StageLeft
  <1>8. ~Stale' /\ (Stale <=> rsp.state # dev.state)
    BY Zenon, <1>1 DEF Stale
  <1>9. CASE Stale
    <2>1. MaxBusy \in Nat /\ busy \in Nat /\ busy <= MaxBusy
      BY Zenon, <1>1, DownloadAssumption DEF ValuesOK, LoopInv, MaxBusy
    <2>2. QueriesLeft > MaxBusy
      BY <1>3, <1>9, <2>1 DEF QueriesLeft
    <2>3. busy' \in Nat /\ QueriesLeft' <= MaxBusy
      <3>1. busy' \in Nat
        BY <2>1 DEF NeedData, ReadyToFinish, Busy, NotBusy
      <3>2. MaxBusy' = MaxBusy
        BY Zenon DEF MaxBusy
      <3>3. \E q \in {0, MaxBusy - busy', MaxBusy} : QueriesLeft' = q + 0
        BY Zenon, <1>3, <1>8, <3>2 DEF QueriesLeft
      <3>4. PICK q \in {0, MaxBusy - busy', MaxBusy} : QueriesLeft' = q + 0
        BY Zenon, <3>3
      <3>5. \A m, b \in Nat : 0 <= m /\ m - b <= m /\ m - b \in Int /\ m \in Int
                              /\ m <= m /\ 0 \in Int
        OBVIOUS
      <3>6. q \in Int /\ q <= MaxBusy
        BY Zenon, <2>1, <3>1, <3>5
      <3> QED
        BY <2>1, <3>1, <3>4, <3>6
    <2>4. QueriesLeft \in Int /\ QueriesLeft' \in Int
      BY <2>1, <2>3 DEF QueriesLeft, MaxBusy
    <2>5. QueriesLeft' < QueriesLeft
      BY <2>1, <2>2, <2>3, <2>4
    <2> QED
      BY <1>3, <1>4, <1>6, <1>7, <2>5 DEF Shorter
  <1>10. CASE ~Stale /\ NeedData
    <2>1. dev.state = "NEED_DATA" /\ Sending("DATA")'
      BY Zenon, <1>8, <1>10 DEF NeedData, Turn, Send, Sending
    <2>2. StageLeft = 5 /\ StageLeft' = 4
      BY Zenon, <1>2, <1>3, <1>5, <2>1 DEF StageLeft, Active, Terminal
    <2> QED
      BY <1>3, <1>4, <2>2 DEF Shorter
  <1>11. CASE ~Stale /\ ReadyToFinish
    <2>1. dev.state = "READY_TO_FINISH" /\ Sending("FINISH")'
      BY Zenon, <1>8, <1>11 DEF ReadyToFinish, Turn, Send, Sending
    <2>2. StageLeft = 3 /\ StageLeft' = 2
      BY Zenon, <1>2, <1>3, <1>5, <2>1 DEF StageLeft, Active, Terminal
    <2> QED
      BY <1>3, <1>4, <2>2 DEF Shorter
  <1>12. CASE ~Stale /\ Busy
    <2>1. dev.state \in BusyStates /\ dev.state = rsp.state
      BY Zenon, <1>8, <1>12 DEF Busy, Turn
    <2>2. \/ busy_state # dev.state /\ busy_state' = dev.state /\ busy' = 1
          \/ /\ busy_state = dev.state /\ busy_state' = dev.state
             /\ busy < OP_TIMEOUT /\ busy' = busy + 1
      BY Zenon, <1>12, <2>1 DEF Busy
    <2>3. busy \in Nat /\ OP_TIMEOUT \in Nat
      BY Zenon, <1>1, DownloadAssumption DEF ValuesOK
    <2>4. QueriesLeft = IF busy_state = dev.state THEN MaxBusy - busy ELSE MaxBusy
      BY <1>3, <1>12, <2>1, <2>3 DEF QueriesLeft, MaxBusy
    <2>5. QueriesLeft' = MaxBusy - busy'
      BY <1>2, <1>3, <1>8, <2>1, <2>2, <2>3 DEF QueriesLeft, MaxBusy
    <2>6. QueriesLeft' < QueriesLeft
      BY <2>2, <2>3, <2>4, <2>5 DEF MaxBusy
    <2> QED
      BY <1>3, <1>4, <1>6, <1>7, <2>6 DEF Shorter
  <1> QED
    BY Zenon, <1>9, <1>10, <1>11, <1>12

\* The other steps of the tool.
LEMMA PathShorter ==
  ASSUME Inv, LoopInv, Begin \/ BeginBusy \/ BeginDone \/ DataDone \/ SendDone
                         \/ Out \/ AbortDone
  PROVE  Shorter
  <1>1. PathInv /\ ValuesOK /\ Counted
    BY Zenon, TypeHalves, LeftTypes DEF Inv
  <1>2. CASE Begin
    <2>1. /\ pc = "start" /\ pc' = "unlock" /\ act = "BEGIN" /\ act' = "BEGIN"
          /\ session_id = 0 /\ UNCHANGED <<session_id, waited>>
      BY Zenon, <1>1, <1>2 DEF Begin, Send, PathInv
    <2>2. Phase = 3 /\ Phase' = 3 /\ StepsLeft = 7 /\ StepsLeft' = 5
      BY Zenon, <2>1 DEF Phase, StepsLeft
    <2>3. /\ BeginsLeft' = BeginsLeft /\ AsksLeft = 0 /\ AsksLeft' = 0
          /\ Missing = {} /\ Missing' = {} /\ StageLeft = 0
          /\ StageLeft' = 0 /\ QueriesLeft = 0 /\ QueriesLeft' = 0
      BY <2>1, <2>2 DEF BeginsLeft, AsksLeft, Missing, StageLeft, QueriesLeft
    <2> QED
      BY <2>2, <2>3 DEF Shorter
  <1>3. CASE BeginBusy /\ pc' # "out"
    <2>1. /\ pc = "sent" /\ pc' = "unlock" /\ act = "BEGIN" /\ act' = "BEGIN"
          /\ session_id = 0 /\ session_id' = 0 /\ waited' = waited + 1
          /\ waited < BEGIN_RETRY /\ waited \in Nat
      BY <1>1, <1>3, DownloadAssumption DEF BeginBusy, PathInv, ValuesOK
    <2>2. Phase = 3 /\ Phase' = 3
      BY Zenon, <2>1 DEF Phase
    <2>3. BeginsLeft' < BeginsLeft
      BY <2>1, <2>2, DownloadAssumption DEF BeginsLeft
    <2> QED
      BY Zenon, <2>2, <2>3 DEF Shorter
  <1>4. CASE BeginDone /\ pc' # "out"
    <2>1. /\ pc = "sent" /\ pc' = "loop" /\ act = "BEGIN" /\ act' = "BEGIN"
          /\ session_id = 0 /\ session_id' # 0
      BY Zenon, <1>1, <1>4 DEF BeginDone, BegunBadly, PathInv
    <2>2. Phase = 3 /\ Phase' = 2
      BY Zenon, <2>1 DEF Phase
    <2> QED
      BY <2>2 DEF Shorter
  <1>5. CASE (DataDone \/ SendDone) /\ pc' # "out"
    <2>1. Same /\ pc = "sent" /\ pc' = "loop" /\ ret = "OK" /\ UNCHANGED <<ret, rsp>>
      BY Zenon, <1>5 DEF DataDone, SendDone, Same, SendVars, DevVars
    <2> QED
      BY <2>1, OnwardShorter DEF Same, StepsLeft, Sending, Stale
  <1>6. CASE Out
    <2>1. pc = "out" /\ (pc' = "done" \/ (pc' = "unlock" /\ act' = "ABORT"))
      BY <1>6, Zenon DEF Out, Send
    <2>2. Phase = 1 /\ (Phase' = 0 \/ (Phase' = 1 /\ StepsLeft = 6 /\ StepsLeft' = 5))
      BY Zenon, <2>1 DEF Phase, StepsLeft
    <2>3. /\ Phase' = 1 =>
               /\ BeginsLeft = 0 /\ BeginsLeft' = 0 /\ AsksLeft = 0 /\ AsksLeft' = 0
               /\ Missing = {} /\ Missing' = {}
               /\ StageLeft = 0 /\ StageLeft' = 0 /\ QueriesLeft = 0 /\ QueriesLeft' = 0
      BY <2>2 DEF BeginsLeft, AsksLeft, Missing, StageLeft, QueriesLeft
    <2> QED
      BY <2>2, <2>3 DEF Shorter
  <1>7. CASE AbortDone
    <2>1. Phase = 1 /\ Phase' = 0
      BY Zenon, <1>7 DEF AbortDone, Phase
    <2> QED
      BY <2>1 DEF Shorter
  <1>8. CASE pc' = "out"
    BY Zenon, <1>8, LeavingShorter, <1>2, <1>6, <1>7 DEF BeginBusy, BeginDone, DataDone, SendDone
  <1> QED
    BY Zenon, <1>2, <1>3, <1>4, <1>5, <1>6, <1>7, <1>8

LEMMA ToolShorter == ASSUME Inv, LoopInv, Tool PROVE Shorter
  <1>1. PathInv
    BY Zenon DEF Inv
  <1>2. CASE FileFails \/ BadTotals \/ ClockFails \/ Complete \/ Failed
    BY Zenon, <1>1, <1>2, LeavingShorter DEF FileFails, BadTotals, ClockFails, Complete, Failed, Turn,
                               PathInv
  <1>3. CASE NeedData \/ ReadyToFinish \/ Busy
    <2>1. pc = "loop" /\ (pc' = "out" \/ pc' = "unlock")
      BY <1>3, Zenon DEF NeedData, ReadyToFinish, Busy, Turn, Send
    <2> QED
      BY Zenon, <1>1, <1>3, <2>1, LeavingShorter, TurnShorter DEF PathInv
  <1> QED
    BY Zenon, <1>2, <1>3, SendShorter, CommandShorter, PathShorter DEF Tool

\* A step of the device that ends its work takes the session further or changes
\* nothing.
LEMMA DeviceShorter ==
  ASSUME Inv, LoopInv, DeviceWorks \/ DeviceRecovers
  PROVE  pc' = pc /\ (Shorter \/ Left' = Left)
  <1>1. UNCHANGED <<pc, act, rsp, ret, session_id, waited, busy_state, busy>>
    BY Zenon DEF DeviceWorks, DeviceRecovers, ToolVars, SendVars
  <1>2. Phase' = Phase /\ BeginsLeft' = BeginsLeft /\ StepsLeft' = StepsLeft
    BY Zenon, <1>1 DEF Phase, BeginsLeft, StepsLeft
  <1>3. Sound(dev)
    BY Zenon DEF Inv
  <1>4. CASE Phase # 2
    <2>1. /\ AsksLeft' = AsksLeft /\ Missing' = Missing /\ StageLeft' = StageLeft
          /\ QueriesLeft' = QueriesLeft
      BY Zenon, <1>2, <1>4 DEF AsksLeft, Missing, StageLeft, QueriesLeft
    <2> QED
      BY <1>1, <1>2, <2>1, Zenon DEF Left
  <1>5. CASE Phase = 2
    <2>1. /\ dev'.have = dev.have /\ dev'.accepted = dev.accepted /\ Active(dev)
          /\ dev'.state \notin BusyStates
          /\ dev.finishing \/ dev.state \notin BusyStates => ~Active(dev')
      BY <1>3, DeviceSettles, Zenon
    <2>2. AsksLeft' = AsksLeft /\ Missing' = Missing
      BY <1>2, <2>1, Zenon DEF AsksLeft, Missing
    <2>3. CASE ~Active(dev')
      <3>1. StageLeft' = 0 /\ StageLeft > 0
        BY <1>5, <2>1, <2>3 DEF StageLeft
      <3> QED
        BY Zenon, <1>1, <1>2, <2>2, <3>1 DEF Shorter
    <2>4. CASE Active(dev')
      <3>1. ~dev.finishing /\ dev.state \in BusyStates
        BY <2>1, <2>4, Zenon
      <3>2. StageLeft = 6
        BY Zenon, <1>5, <2>1, <3>1 DEF StageLeft, BusyStates
      <3>3. dev'.state \in {"NEED_DATA", "READY_TO_FINISH"}
        <4>1. dev' \in Device
          BY Zenon, <1>3, DeviceSound DEF Sound
        <4> QED
          BY Zenon, <2>1, <2>4, <4>1 DEF Device, States, Active
      <3>4. StageLeft' < 6
        BY <3>3 DEF StageLeft
      <3> QED
        BY Zenon, <1>1, <1>2, <2>2, <3>2, <3>4 DEF Shorter
    <2> QED
      BY Zenon, <2>3, <2>4
  <1> QED
    BY Zenon, <1>1, <1>4, <1>5

\* A change of its busy state changes the queries that are left and nothing else.
LEMMA SwitchTimesAnew ==
  ASSUME Inv, DeviceSwitches
  PROVE  TimedAnew
  <1>1. UNCHANGED <<pc, act, ret, session_id, waited>>
    BY Zenon DEF DeviceSwitches, ToolVars, SendVars
  <1>2. /\ dev'.have = dev.have /\ dev'.accepted = dev.accepted
        /\ dev'.finishing = dev.finishing
        /\ dev.state \in {"PREPARING", "WRITING"} /\ dev'.state \in {"PREPARING", "WRITING"}
    BY Zenon, SwitchSound DEF Inv
  <1>3. Phase' = Phase /\ BeginsLeft' = BeginsLeft /\ StepsLeft' = StepsLeft
    BY Zenon, <1>1 DEF Phase, BeginsLeft, StepsLeft
  <1>4. AsksLeft' = AsksLeft /\ Missing' = Missing
    BY Zenon, <1>2, <1>3 DEF AsksLeft, Missing
  <1>5. StageLeft' = StageLeft
    BY Zenon, <1>2, <1>3 DEF StageLeft, Active, Terminal
  <1> QED
    BY Zenon, <1>3, <1>4, <1>5 DEF TimedAnew

\* Every step of vu_dlunion_download leaves less of it to do, for an image of any
\* number of parts, any limits of the waits and any bound on the parts asked for
\* again, and only a change of the device's busy state gives it more: this, and a
\* tool that runs on, is why the download returns unless the device goes on
\* changing that state.
THEOREM AlwaysLessToDo == Spec => LeavesLess
  <1>1. Init => LoopInv
    BY DownloadAssumption DEF Init, LoopInv, Entitled, MaxBusy
  <1>2. Spec => []LoopInv
    BY <1>1, LoopStep, Invariance, PTL DEF Spec
  <1>3. Inv /\ LoopInv /\ Counted' /\ [Next]_vars
          => [Counted' /\ (Shorter \/ UNCHANGED <<Left, pc>> \/ TimedAnew)]_vars
    BY ToolShorter, DeviceShorter, SwitchTimesAnew, Zenon DEF Next, Returned
  <1> QED
    BY <1>2, <1>3, LeftTypes, Invariance, PTL DEF Spec, LeavesLess
=============================================================================
