----------------------- MODULE CommandExchangeProofs -----------------------
(***************************************************************************)
(* Theorems about CommandExchange, for every set of commands, response     *)
(* sizes, return codes and ids, and for any script of a mock.              *)
(***************************************************************************)
EXTENDS ReplyChecks, WellFoundedInduction

-----------------------------------------------------------------------------
(* The mock *)

ResponseType == [cmd : Cmds, code : Nat, size : Nat, number : Nat]

MockTyped(m) ==
  /\ DOMAIN m = {"responses", "commands_sent", "responses_returned",
                 "last_command", "scripted", "given"}
  /\ m.responses \in Seq(ResponseType) /\ m.given \in Seq(ResponseType)
  /\ m.commands_sent \in Nat /\ m.responses_returned \in Nat
  /\ m.scripted \in Nat /\ m.last_command \in Cmds \cup {NOOP}

\* The script is in the order of the numbers, and no number was used yet that
\* a response still to be set will get.
MockInv ==
  /\ MockTyped(mock)
  /\ \A i, j \in DOMAIN mock.responses :
       i < j => mock.responses[i].number < mock.responses[j].number
  /\ \A i \in DOMAIN mock.responses : mock.responses[i].number <= mock.scripted
  /\ \A i \in DOMAIN mock.given : mock.given[i].number <= mock.scripted
  /\ mock.responses_returned <= mock.commands_sent
  /\ ScriptedInOrder

\* A set of natural numbers that is not empty has a least element.
LEMMA Least ==
  ASSUME NEW S, S \subseteq Nat, S # {}
  PROVE  \E x \in S : \A y \in S : x <= y
<1>1. PICK x \in S : \A y \in S : ~ (<<y, x>> \in OpToRel(<, Nat))
  BY WFMin, NatLessThanWellFounded, Zenon
<1>2. \A y \in S : <<y, x>> \in OpToRel(<, Nat) <=> y < x
  BY Zenon DEF OpToRel
<1>3. \A y \in S : ~ (y < x)
  BY <1>1, <1>2, Zenon
<1>4. QED BY <1>3

\* What mock_find_response finds: the first response for the command.
LEMMA Found ==
  ASSUME MockInv, NEW cmd, Matching(mock, cmd) # {}
  PROVE  LET i == mock_find_response(mock, cmd) IN
         /\ i \in DOMAIN mock.responses
         /\ mock.responses[i].cmd = cmd
         /\ \A j \in DOMAIN mock.responses : mock.responses[j].cmd = cmd => i <= j
<1>1. Matching(mock, cmd) \subseteq Nat
  BY DEF Matching, MockInv, MockTyped
<1>2. \E i \in Matching(mock, cmd) : \A j \in Matching(mock, cmd) : i <= j
  BY <1>1, Least, Zenon
<1>3. /\ mock_find_response(mock, cmd) \in Matching(mock, cmd)
      /\ \A j \in Matching(mock, cmd) : mock_find_response(mock, cmd) <= j
  BY <1>2, Zenon DEF mock_find_response
<1>4. QED BY <1>3, Zenon DEF Matching

\* The script without one of its places keeps the others in order.
LEMMA WithoutShape ==
  ASSUME NEW T, NEW s \in Seq(T), NEW i \in DOMAIN s
  PROVE  /\ Without(s, i) \in Seq(T)
         /\ Len(Without(s, i)) = Len(s) - 1
         /\ \A j \in 1 .. Len(s) - 1 :
              Without(s, i)[j] = IF j < i THEN s[j] ELSE s[j + 1]
<1> DEFINE a == SubSeq(s, 1, i - 1)
           b == SubSeq(s, i + 1, Len(s))
<1>1. i \in 1 .. Len(s) /\ Len(s) \in Nat
  OBVIOUS
<1>2. /\ a \in Seq(T) /\ Len(a) = i - 1
      /\ \A j \in 1 .. i - 1 : a[j] = s[j]
  BY <1>1
<1>3. /\ b \in Seq(T) /\ Len(b) = Len(s) - i
      /\ \A j \in 1 .. Len(s) - i : b[j] = s[i + j]
  BY <1>1
<1> DEFINE c == a \o b
<1>4. Without(s, i) = c
  BY DEF Without
<1> HIDE DEF a, b
<1>5. /\ c \in Seq(T) /\ Len(c) = Len(a) + Len(b)
      /\ \A j \in 1 .. Len(a) + Len(b) :
           c[j] = IF j <= Len(a) THEN a[j] ELSE b[j - Len(a)]
  BY <1>2, <1>3, ConcatProperties, Zenon
<1> HIDE DEF c
<1>6. Len(a) = i - 1 /\ Len(b) = Len(s) - i /\ Len(c) = Len(s) - 1
  BY <1>1, <1>2, <1>3, <1>5
<1>7. ASSUME NEW j \in 1 .. Len(s) - 1
      PROVE  c[j] = IF j < i THEN s[j] ELSE s[j + 1]
  <2>1. c[j] = IF j <= i - 1 THEN a[j] ELSE b[j - (i - 1)]
    BY <1>1, <1>5, <1>6
  <2>2. CASE j < i
    <3>1. c[j] = a[j] /\ j \in 1 .. i - 1
      BY <1>1, <2>1, <2>2
    <3>2. QED BY <1>2, <2>2, <3>1
  <2>3. CASE j >= i
    <3>1. c[j] = b[j - (i - 1)] /\ j - (i - 1) \in 1 .. Len(s) - i
      BY <1>1, <2>1, <2>3
    <3>2. b[j - (i - 1)] = s[i + (j - (i - 1))]
      BY <1>3, <3>1
    <3>3. i + (j - (i - 1)) = j + 1 /\ ~ (j < i)
      BY <1>1, <2>3
    <3>4. QED BY <3>1, <3>2, <3>3
  <2>4. QED BY <1>1, <2>2, <2>3
<1>8. QED BY <1>4, <1>5, <1>6, <1>7

\* Responses are numbered.
LEMMA Numbered ==
  ASSUME NEW q \in Seq(ResponseType)
  PROVE  \A i \in DOMAIN q : q[i].number \in Nat
<1>1. \A i \in DOMAIN q : q[i] \in ResponseType
  OBVIOUS
<1>2. \A e \in ResponseType : e.number \in Nat
  BY DEF ResponseType
<1>3. QED BY <1>1, <1>2, Zenon

\* cxlmi_mock_set_response puts the highest number at the end.
LEMMA ScriptSet ==
  ASSUME MockInv, NEW cmd \in Cmds, NEW code \in Nat, NEW size \in Nat,
         mock' = cxlmi_mock_set_response(mock, cmd, code, size)
  PROVE  MockInv'
<1> DEFINE s == mock.responses
           r == [cmd |-> cmd, code |-> code, size |-> size,
                 number |-> mock.scripted + 1]
           t == Append(s, r)
<1>1. /\ s \in Seq(ResponseType) /\ mock.given \in Seq(ResponseType)
      /\ mock.scripted \in Nat /\ MockTyped(mock)
  BY DEF MockInv, MockTyped
<1>2. r \in ResponseType /\ r.cmd = cmd /\ r.number = mock.scripted + 1
  BY <1>1 DEF ResponseType
<1>3. mock' = [mock EXCEPT !.responses = t, !.scripted = mock.scripted + 1]
  BY DEF cxlmi_mock_set_response
<1> HIDE DEF r
<1>4. t \in Seq(ResponseType) /\ Len(t) = Len(s) + 1 /\ Len(s) \in Nat
  BY <1>1, <1>2
<1>5. (\A i \in 1 .. Len(s) : t[i] = s[i]) /\ t[Len(s) + 1] = r
  BY <1>1, <1>2
<1>6. DOMAIN t = 1 .. Len(s) + 1 /\ DOMAIN s = 1 .. Len(s)
  BY <1>1, <1>4
<1> HIDE DEF t
<1>7. /\ mock'.responses = t /\ mock'.scripted = mock.scripted + 1
      /\ mock'.given = mock.given /\ mock'.commands_sent = mock.commands_sent
      /\ mock'.responses_returned = mock.responses_returned
      /\ MockTyped(mock')
  BY <1>1, <1>3, <1>4 DEF MockTyped
<1>8. \A i \in DOMAIN s : s[i].number \in Nat /\ s[i].number <= mock.scripted
  BY <1>1, Numbered, Zenon DEF MockInv
<1>9. \A i \in DOMAIN mock.given :
        mock.given[i].number \in Nat /\ mock.given[i].number <= mock.scripted
  BY <1>1, Numbered, Zenon DEF MockInv
\* A place of the new script is the last one or was there before.
<1>10. ASSUME NEW j \in DOMAIN t
       PROVE  \/ j = Len(s) + 1 /\ t[j] = r
              \/ j \in DOMAIN s /\ j <= Len(s) /\ t[j] = s[j]
  BY <1>4, <1>5, <1>6
<1>10a. \A i \in DOMAIN t : t[i].number <= mock.scripted + 1
  BY <1>1, <1>2, <1>8, <1>10
<1>11. \A i, j \in DOMAIN t : i < j => t[i].number < t[j].number
  <2> SUFFICES ASSUME NEW i \in DOMAIN t, NEW j \in DOMAIN t, i < j
               PROVE  t[i].number < t[j].number
    OBVIOUS
  <2>1. i \in Nat /\ j \in Nat /\ j <= Len(s) + 1
    BY <1>4, <1>6
  <2>2. i \in DOMAIN s /\ t[i] = s[i]
    BY <1>4, <1>10, <2>1
  <2>3. CASE t[j] = r
    BY <1>1, <1>2, <1>8, <2>2, <2>3
  <2>4. CASE j \in DOMAIN s /\ t[j] = s[j]
    BY <2>2, <2>4 DEF MockInv
  <2>5. QED BY <1>10, <2>3, <2>4
<1>12. \A i \in DOMAIN mock.given, j \in DOMAIN t :
         mock.given[i].cmd = t[j].cmd => mock.given[i].number < t[j].number
  <2> SUFFICES ASSUME NEW i \in DOMAIN mock.given, NEW j \in DOMAIN t,
                      mock.given[i].cmd = t[j].cmd
               PROVE  mock.given[i].number < t[j].number
    OBVIOUS
  <2>1. CASE t[j] = r
    BY <1>1, <1>2, <1>9, <2>1
  <2>2. CASE j \in DOMAIN s /\ t[j] = s[j]
    BY <2>2 DEF MockInv, ScriptedInOrder
  <2>3. QED BY <1>10, <2>1, <2>2
<1>13. \A i \in DOMAIN mock.given : mock.given[i].number <= mock.scripted + 1
  BY <1>1, <1>9
<1>14. QED
  BY <1>7, <1>10a, <1>11, <1>12, <1>13 DEF MockInv, ScriptedInOrder

\* A command takes the first response for it off the script.
LEMMA ScriptGiven ==
  ASSUME MockInv, NEW cmd \in Cmds, mock' = mock_after(mock, cmd)
  PROVE  MockInv'
<1> DEFINE s == mock.responses
           g == mock.given
           m == Recorded(mock, cmd)
<1>1. /\ s \in Seq(ResponseType) /\ g \in Seq(ResponseType)
      /\ mock.scripted \in Nat /\ MockTyped(mock)
      /\ mock.commands_sent \in Nat /\ mock.responses_returned \in Nat
  BY DEF MockInv, MockTyped
<1>2. /\ MockTyped(m) /\ m.responses = s /\ m.given = g
      /\ m.scripted = mock.scripted
      /\ m.responses_returned = mock.responses_returned
      /\ m.commands_sent = mock.commands_sent + 1
  BY <1>1 DEF Recorded, MockTyped
<1> HIDE DEF m
<1>3. CASE Matching(mock, cmd) = {}
  <2>1. mock' = m
    BY <1>3 DEF mock_after, m
  <2>2. /\ mock'.responses = mock.responses /\ mock'.given = mock.given
        /\ mock'.scripted = mock.scripted
        /\ mock'.responses_returned = mock.responses_returned
        /\ MockTyped(mock')
    BY <1>2, <2>1
  <2>3. mock.responses_returned <= mock'.commands_sent
    BY <1>1, <1>2, <2>1 DEF MockInv
  <2>4. QED BY <2>2, <2>3 DEF MockInv, ScriptedInOrder
<1>4. CASE Matching(mock, cmd) # {}
  <2> DEFINE k == mock_find_response(mock, cmd)
             t == Without(s, k)
             h == Append(g, s[k])
  <2>1. /\ k \in DOMAIN s /\ s[k].cmd = cmd
        /\ \A j \in DOMAIN s : s[j].cmd = cmd => k <= j
    BY <1>4, Found, Zenon
  <2>2. mock' = [m EXCEPT !.responses = t, !.responses_returned = m.responses_returned + 1,
                          !.given = h]
    BY <1>2, <1>4 DEF mock_after, m
  <2> HIDE DEF k
  <2>3. /\ t \in Seq(ResponseType) /\ Len(t) = Len(s) - 1
        /\ \A j \in 1 .. Len(s) - 1 : t[j] = IF j < k THEN s[j] ELSE s[j + 1]
    BY <1>1, <2>1, WithoutShape, Zenon
  <2>4. /\ Len(s) \in Nat /\ DOMAIN s = 1 .. Len(s) /\ k \in 1 .. Len(s)
        /\ DOMAIN t = 1 .. Len(s) - 1
    BY <1>1, <2>1, <2>3
  <2> HIDE DEF t
  \* Where the j-th place of the new script was.
  <2> DEFINE old(j) == IF j < k THEN j ELSE j + 1
  <2>5. \A j \in DOMAIN t : old(j) \in DOMAIN s /\ t[j] = s[old(j)] /\ old(j) # k
    BY <2>3, <2>4
  <2>6. \A i, j \in DOMAIN t : i < j => old(i) < old(j)
    BY <2>4
  <2>6a. \A j \in DOMAIN t : old(j) \in Nat
    BY <2>4
  <2> HIDE DEF old
  <2>7. s[k] \in ResponseType
    BY <1>1, <2>1
  <2>8. /\ h \in Seq(ResponseType) /\ Len(h) = Len(g) + 1 /\ Len(g) \in Nat
        /\ DOMAIN g = 1 .. Len(g) /\ DOMAIN h = 1 .. Len(g) + 1
        /\ (\A i \in 1 .. Len(g) : h[i] = g[i]) /\ h[Len(g) + 1] = s[k]
    BY <1>1, <2>7
  <2> HIDE DEF h
  <2>9. /\ mock'.responses = t /\ mock'.given = h
        /\ mock'.scripted = mock.scripted
        /\ mock'.commands_sent = mock.commands_sent + 1
        /\ mock'.responses_returned = mock.responses_returned + 1
        /\ MockTyped(mock')
    BY <1>1, <1>2, <2>2, <2>3, <2>8 DEF MockTyped
  <2>10. \A i, j \in DOMAIN t : i < j => t[i].number < t[j].number
    BY <2>5, <2>6 DEF MockInv
  <2>11. \A i \in DOMAIN t : t[i].number <= mock.scripted
    BY <2>5 DEF MockInv
  <2>12. \A i \in DOMAIN h : h[i].number <= mock.scripted
    <3> SUFFICES ASSUME NEW i \in DOMAIN h PROVE h[i].number <= mock.scripted
      OBVIOUS
    <3>1. CASE i = Len(g) + 1
      BY <2>1, <2>8, <3>1 DEF MockInv
    <3>2. CASE i # Len(g) + 1
      <4>1. i \in 1 .. Len(g) /\ h[i] = g[i]
        BY <2>8, <3>2
      <4>2. QED BY <2>8, <4>1 DEF MockInv
    <3>3. QED BY <3>1, <3>2
  <2>13. \A i, j \in DOMAIN h :
           i < j /\ h[i].cmd = h[j].cmd => h[i].number < h[j].number
    <3> SUFFICES ASSUME NEW i \in DOMAIN h, NEW j \in DOMAIN h,
                        i < j, h[i].cmd = h[j].cmd
                 PROVE  h[i].number < h[j].number
      OBVIOUS
    <3>1. i \in DOMAIN g /\ h[i] = g[i]
      BY <2>8
    <3>2. CASE j = Len(g) + 1
      <4>1. h[j] = s[k]
        BY <2>8, <3>2
      <4>2. QED BY <2>1, <3>1, <4>1 DEF MockInv, ScriptedInOrder
    <3>3. CASE j # Len(g) + 1
      <4>1. j \in DOMAIN g /\ h[j] = g[j]
        BY <2>8, <3>3
      <4>2. QED BY <3>1, <4>1 DEF MockInv, ScriptedInOrder
    <3>4. QED BY <3>2, <3>3
  <2>14. \A i \in DOMAIN h, j \in DOMAIN t :
           h[i].cmd = t[j].cmd => h[i].number < t[j].number
    <3> SUFFICES ASSUME NEW i \in DOMAIN h, NEW j \in DOMAIN t, h[i].cmd = t[j].cmd
                 PROVE  h[i].number < t[j].number
      OBVIOUS
    <3>1. old(j) \in DOMAIN s /\ t[j] = s[old(j)] /\ old(j) # k /\ old(j) \in Nat
      BY <2>5, <2>6a
    <3>2. CASE i = Len(g) + 1
      <4>1. h[i] = s[k]
        BY <2>8, <3>2
      <4>2. s[old(j)].cmd = cmd
        BY <2>1, <3>1, <4>1
      <4>3. k < old(j)
        <5>1. k <= old(j)
          BY <2>1, <3>1, <4>2
        <5>2. QED BY <2>4, <3>1, <5>1
      <4>4. QED BY <2>1, <3>1, <4>1, <4>3 DEF MockInv
    <3>3. CASE i # Len(g) + 1
      <4>1. i \in DOMAIN g /\ h[i] = g[i]
        BY <2>8, <3>3
      <4>2. QED BY <3>1, <4>1 DEF MockInv, ScriptedInOrder
    <3>4. QED BY <3>2, <3>3
  <2>15. /\ mock.responses_returned = Len(g)
         /\ mock.responses_returned <= mock.commands_sent
    BY DEF MockInv, ScriptedInOrder
  <2>16. /\ mock'.responses_returned = Len(h)
         /\ mock'.responses_returned <= mock'.commands_sent
    BY <1>1, <2>8, <2>9, <2>15
  <2>17. QED
    BY <2>9, <2>10, <2>11, <2>12, <2>13, <2>14, <2>16 DEF MockInv, ScriptedInOrder
<1>5. QED BY <1>3, <1>4

\* cxlmi_mock_clear_responses forgets the script and nothing else.
LEMMA ScriptCleared ==
  ASSUME MockInv, mock' = cxlmi_mock_clear_responses(mock)
  PROVE  MockInv'
<1>1. MockTyped(mock)
  BY DEF MockInv
<1>2. /\ mock'.responses = << >> /\ mock'.given = mock.given
      /\ mock'.scripted = mock.scripted
      /\ mock'.commands_sent = mock.commands_sent
      /\ mock'.responses_returned = mock.responses_returned
      /\ MockTyped(mock')
  BY <1>1 DEF cxlmi_mock_clear_responses, MockTyped
<1>3. DOMAIN << >> = {}
  OBVIOUS
<1>4. QED BY <1>2, <1>3 DEF MockInv, ScriptedInOrder

-----------------------------------------------------------------------------
(* The last command *)

TargetType == [type : {"port_or_ld", "ld_pool_cci"}, id : 0 .. 255]

LastInv ==
  /\ last.cmd \in Cmds \cup {NOOP} /\ last.ti \in Tunnels /\ last.sent \in BOOLEAN
  /\ last.route \in Seq(TargetType) /\ last.rc \in Int
  /\ last.sent => last.cmd \in Cmds /\ last.ti.level \in 0 .. 2
  /\ last.sent /\ last.link = "mctp" =>
       MctpAnswered(last.cmd, last.ti.level, last.reply, last.rc)
  /\ last.sent /\ last.link = "ioctl" =>
       IoctlAnswered(last.cmd, last.ti.level, last.reply, last.rc)

\* The inductive invariant: what came of the last command is remembered as the
\* checks made it, and the mock gives its script in order.
IInv == link \in Links /\ has_fmapi \in BOOLEAN /\ LastInv /\ MockInv

\* A tunnel has at most three levels, and the targets of its commands are bytes.
LEMMA TunnelShape ==
  ASSUME NEW ti \in Tunnels
  PROVE  /\ ti.level \in 0 .. 3
         /\ mctp_route(ti) \in Seq(TargetType) /\ ioctl_route(ti) \in Seq(TargetType)
<1>1. /\ ti.level \in 0 .. 3 /\ ti.port \in Int /\ ti.ld \in Int
  BY CodeAssumption DEF Tunnels, NO_TUNNEL, TUNNEL_MHD, TUNNEL_MLD, TUNNEL_SWITCH,
                        TUNNEL_SWITCH_MLD, Tunnel
<1>2. \A id \in Int : PortOrLd(id) \in TargetType /\ tunnel_target(id) \in TargetType
  BY DEF PortOrLd, LdPoolCci, tunnel_target, TargetType
<1>3. OneHop(ti) \in Int
  BY <1>1 DEF OneHop
<1>4. \A x, y \in TargetType :
        << >> \in Seq(TargetType) /\ << x >> \in Seq(TargetType) /\ << x, y >> \in Seq(TargetType)
  OBVIOUS
<1>5. mctp_route(ti) \in Seq(TargetType)
  BY <1>1, <1>2, <1>3, <1>4 DEF mctp_route
<1>6. ioctl_route(ti) \in Seq(TargetType)
  BY <1>1, <1>2, <1>3, <1>4 DEF ioctl_route
<1>7. QED BY <1>1, <1>5, <1>6

\* The outcome of a command as LastInv asks for it.
LEMMA OutcomeKept ==
  ASSUME NEW cmd \in Cmds, NEW ti \in Tunnels, NEW sent \in BOOLEAN, NEW route,
         route \in Seq(TargetType), NEW reply, NEW rc \in Int,
         Outcome(cmd, ti, sent, route, reply, rc),
         sent => ti.level \in 0 .. 2,
         sent /\ link = "mctp" => MctpAnswered(cmd, ti.level, reply, rc),
         sent /\ link = "ioctl" => IoctlAnswered(cmd, ti.level, reply, rc)
  PROVE  LastInv'
<1>1. /\ last'.link = link /\ last'.cmd = cmd /\ last'.ti = ti
      /\ last'.sent = sent /\ last'.route = route /\ last'.reply = reply /\ last'.rc = rc
  BY DEF Outcome
<1>2. QED BY <1>1, Zenon DEF LastInv

\* The record of no command.
LEMMA NothingTyped ==
  /\ Nothing.cmd \in Cmds \cup {NOOP} /\ Nothing.ti \in Tunnels
  /\ Nothing.sent = FALSE /\ Nothing.sent \in BOOLEAN
  /\ Nothing.route = << >> /\ Nothing.rc = -1
<1>1. NO_TUNNEL \in Tunnels
  BY DEF Tunnels
<1>2. /\ Nothing.cmd = NOOP /\ Nothing.ti = NO_TUNNEL /\ Nothing.sent = FALSE
      /\ Nothing.route = << >> /\ Nothing.rc = -1
  BY DEF Nothing
<1>3. QED BY <1>1, <1>2, Zenon

\* Every step keeps the inductive invariant.
LEMMA Step ==
  IInv /\ [Next]_vars => IInv'
<1> SUFFICES ASSUME IInv, [Next]_vars
             PROVE  IInv'
  OBVIOUS
<1>1. /\ link \in Links /\ has_fmapi \in BOOLEAN /\ LastInv /\ MockInv
  BY DEF IInv
<1>2. ASSUME UNCHANGED mock PROVE MockInv'
  BY <1>1, <1>2 DEF MockInv, ScriptedInOrder
<1>3. ASSUME UNCHANGED last PROVE LastInv'
  BY <1>1, <1>3, Zenon DEF LastInv
<1>4. << >> \in Seq(TargetType) /\ -1 \in Int
  OBVIOUS
<1>5. ASSUME NEW cmd \in Cmds, NEW ti \in Tunnels, Refuse(cmd, ti)
      PROVE  IInv'
  <2>1. LastInv'
    <3>1. Outcome(cmd, ti, FALSE, << >>, NoReply, -1)
      BY <1>5 DEF Refuse
    <3>2. QED BY <1>4, <3>1, OutcomeKept, Zenon
  <2>2. QED BY <1>1, <1>2, <1>5, <2>1 DEF Refuse, IInv
<1>6. ASSUME NEW cmd \in Cmds, NEW ti \in Tunnels, SendMctp(cmd, ti)
      PROVE  IInv'
  <2>1. link = "mctp" /\ ti.level \in 0 .. 2
    BY <1>6, TunnelShape DEF SendMctp, Refused
  <2> DEFINE W == WireOf("mctp", cmd, ti.level)
             got(r) == Received(r, mctp_buffer(cmd, ti.level))
             value(r) == mctp_rc(W, got(r), cmd, ti.level)
  <2>2. Wire(cmd, ti.level) = W
    BY <2>1 DEF Wire, WireOf
  <2>3. PICK r \in AnyReply(W, cmd) : Outcome(cmd, ti, TRUE, mctp_route(ti), got(r), value(r))
    BY <1>6, <2>2, Zenon DEF SendMctp
  <2>4. MctpAnswered(cmd, ti.level, got(r), value(r))
    BY Zenon DEF MctpAnswered
  <2> HIDE DEF got, value
  <2>5. value(r) \in Int
    BY <2>1, <2>4, AnsweredTyped, Zenon
  <2>6. mctp_route(ti) \in Seq(TargetType) /\ ~ (link = "ioctl")
    BY <2>1, TunnelShape
  <2>7. LastInv'
    BY <2>1, <2>3, <2>4, <2>5, <2>6, OutcomeKept, Zenon
  <2>8. QED BY <1>1, <1>2, <1>6, <2>7 DEF SendMctp, IInv
<1>7. ASSUME NEW cmd \in Cmds, NEW ti \in Tunnels, SendMctpFails(cmd, ti)
      PROVE  IInv'
  <2>1. LastInv'
    <3>1. Outcome(cmd, ti, FALSE, mctp_route(ti), NoReply, -1)
      BY <1>7 DEF SendMctpFails
    <3>2. mctp_route(ti) \in Seq(TargetType)
      BY TunnelShape
    <3>3. QED BY <1>4, <3>1, <3>2, OutcomeKept, Zenon
  <2>2. QED BY <1>1, <1>2, <1>7, <2>1 DEF SendMctpFails, IInv
<1>8. ASSUME NEW cmd \in Cmds, NEW ti \in Tunnels, SendIoctl(cmd, ti)
      PROVE  IInv'
  <2>1. link = "ioctl" /\ ti.level \in 0 .. 2
    BY <1>8, TunnelShape DEF SendIoctl, Refused
  <2> DEFINE W == WireOf("ioctl", cmd, ti.level)
             got(r) == Received(DriverHeader(r), mctp_buffer(cmd, ti.level))
             value(r) == ioctl_rc(W, got(r), cmd, ti.level)
  <2>2. Wire(cmd, ti.level) = W
    BY <2>1 DEF Wire, WireOf
  <2>3. PICK r \in AnyReply(W, cmd) : Outcome(cmd, ti, TRUE, ioctl_route(ti), got(r), value(r))
    BY <1>8, <2>2, Zenon DEF SendIoctl
  <2>4. IoctlAnswered(cmd, ti.level, got(r), value(r))
    BY Zenon DEF IoctlAnswered
  <2> HIDE DEF got, value
  <2>5. value(r) \in Int
    BY <2>1, <2>4, AnsweredTyped, Zenon
  <2>6. ioctl_route(ti) \in Seq(TargetType) /\ ~ (link = "mctp")
    BY <2>1, TunnelShape
  <2>7. LastInv'
    BY <2>1, <2>3, <2>4, <2>5, <2>6, OutcomeKept, Zenon
  <2>8. QED BY <1>1, <1>2, <1>8, <2>7 DEF SendIoctl, IInv
<1>9. ASSUME NEW cmd \in Cmds, NEW ti \in Tunnels, SendIoctlFails(cmd, ti)
      PROVE  IInv'
  <2>1. LastInv'
    <3>1. Outcome(cmd, ti, FALSE, ioctl_route(ti), NoReply, -1)
      BY <1>9 DEF SendIoctlFails
    <3>2. ioctl_route(ti) \in Seq(TargetType)
      BY TunnelShape
    <3>3. QED BY <1>4, <3>1, <3>2, OutcomeKept, Zenon
  <2>2. QED BY <1>1, <1>2, <1>9, <2>1 DEF SendIoctlFails, IInv
<1>10. ASSUME NEW cmd \in Cmds, NEW ti \in Tunnels, SendMock(cmd, ti)
       PROVE  IInv'
  <2>1. link = "mock" /\ ti.level \in 0 .. 2
    BY <1>10, TunnelShape DEF SendMock, Refused
  <2>2. mock_rc(mock, cmd) \in Int
    <3>1. CASE Matching(mock, cmd) = {}
      BY <3>1 DEF mock_rc, UNSUPPORTED
    <3>2. CASE Matching(mock, cmd) # {}
      <4>1. mock_find_response(mock, cmd) \in DOMAIN mock.responses
        BY <1>1, <3>2, Found, Zenon
      <4>2. mock.responses \in Seq(ResponseType)
        BY <1>1 DEF MockInv, MockTyped
      <4>3. mock.responses[mock_find_response(mock, cmd)] \in ResponseType
        BY <4>1, <4>2
      <4>4. QED BY <3>2, <4>3 DEF mock_rc, ResponseType
    <3>3. QED BY <3>1, <3>2
  <2>3. Outcome(cmd, ti, TRUE, << >>, mock_reply(mock, cmd), mock_rc(mock, cmd))
    BY <1>10 DEF SendMock
  <2>4. ~ (link = "mctp") /\ ~ (link = "ioctl")
    BY <2>1
  <2>5. LastInv'
    BY <1>4, <2>1, <2>2, <2>3, <2>4, OutcomeKept, Zenon
  <2>6. mock' = mock_after(mock, cmd) /\ UNCHANGED <<link, has_fmapi>>
    BY <1>10 DEF SendMock
  <2>7. MockInv'
    BY <1>1, <2>6, ScriptGiven
  <2>8. QED BY <1>1, <2>5, <2>6, <2>7 DEF IInv
<1>11. ASSUME NEW cmd \in Cmds, NEW code \in Codes \cup {0}, NEW size \in Sizes,
              SetResponse(cmd, code, size)
       PROVE  IInv'
  <2>1. code \in Nat /\ size \in Nat
    BY CodeAssumption, MockAssumption
  <2>2. /\ mock' = cxlmi_mock_set_response(mock, cmd, code, size)
        /\ UNCHANGED <<link, has_fmapi, last>>
    BY <1>11 DEF SetResponse
  <2>3. MockInv'
    BY <1>1, <2>1, <2>2, ScriptSet
  <2>4. QED BY <1>1, <1>3, <2>2, <2>3 DEF IInv
<1>12. ASSUME ClearResponses PROVE IInv'
  <2>1. mock' = cxlmi_mock_clear_responses(mock) /\ UNCHANGED <<link, has_fmapi, last>>
    BY <1>12 DEF ClearResponses
  <2>2. MockInv'
    BY <1>1, <2>1, ScriptCleared
  <2>3. QED BY <1>1, <1>3, <2>1, <2>2 DEF IInv
<1>13. ASSUME Handled PROVE IInv'
  <2>1. last' = Nothing /\ UNCHANGED <<link, has_fmapi, mock>>
    BY <1>13 DEF Handled
  <2>2. LastInv'
    BY <1>4, <2>1, NothingTyped, Zenon DEF LastInv
  <2>3. QED BY <1>1, <1>2, <2>1, <2>2 DEF IInv
<1>14. ASSUME enable_fmapi \/ disable_fmapi PROVE IInv'
  <2>1. has_fmapi' \in BOOLEAN /\ UNCHANGED <<link, last, mock>>
    BY <1>14, Zenon DEF enable_fmapi, disable_fmapi
  <2>2. QED BY <1>1, <1>2, <1>3, <2>1 DEF IInv
<1>15. CASE UNCHANGED vars
  BY <1>1, <1>2, <1>3, <1>15 DEF vars, IInv
<1>16. QED
  BY <1>5, <1>6, <1>7, <1>8, <1>9, <1>10, <1>11, <1>12, <1>13, <1>14, <1>15, Zenon DEF Next

\* The inductive invariant holds of every state.
LEMMA Invariance ==
  Spec => []IInv
<1>1. Init => IInv
  <2> SUFFICES ASSUME Init PROVE IInv
    OBVIOUS
  <2>1. link \in Links /\ has_fmapi \in BOOLEAN /\ last = Nothing /\ mock = cxlmi_open_mock
    BY Zenon DEF Init
  <2>2. << >> \in Seq(TargetType) /\ -1 \in Int
    OBVIOUS
  <2>3. LastInv
    BY <2>1, <2>2, NothingTyped, Zenon DEF LastInv
  <2>4. MockInv
    BY <2>1 DEF MockInv, MockTyped, ScriptedInOrder, cxlmi_open_mock
  <2>5. QED BY <2>1, <2>3, <2>4 DEF IInv
<1>2. QED BY <1>1, Step, PTL DEF Spec

-----------------------------------------------------------------------------
(* The theorems *)

\* Every variable has its type: send_cmd_cci sends nothing through more than two
\* levels of tunnel, and its target ids are bytes.
THEOREM TypeCorrect == Spec => []TypeOK
<1>1. IInv => TypeOK
  <2> SUFFICES ASSUME IInv PROVE TypeOK
    OBVIOUS
  <2>1. /\ link \in Links /\ has_fmapi \in BOOLEAN
        /\ last.cmd \in Cmds \cup {NOOP} /\ last.ti \in Tunnels /\ last.sent \in BOOLEAN
        /\ last.route \in Seq(TargetType) /\ last.rc \in Int
    BY Zenon DEF IInv, LastInv
  <2>2. last.sent => last.ti.level <= 2
    <3>1. last.sent => last.ti.level \in 0 .. 2
      BY Zenon DEF IInv, LastInv
    <3>2. QED BY <3>1
  <2>3. /\ mock.responses_returned <= mock.commands_sent
        /\ mock.last_command \in Cmds \cup {NOOP}
    BY DEF IInv, MockInv, MockTyped
  <2>4. QED BY <2>1, <2>2, <2>3, Zenon DEF TypeOK, TargetType
<1>2. QED BY <1>1, Invariance, PTL

\* The mock gives the responses set for a command in the order they were set,
\* and none of them twice.
THEOREM FirstSetFirstGiven == Spec => []ScriptedInOrder
<1>1. IInv => ScriptedInOrder
  BY DEF IInv, MockInv
<1>2. QED BY <1>1, Invariance, PTL

\* Over MCTP the return code of a sound error reply is the value of the call, at
\* whichever level of a tunnel it was given.
THEOREM ErrorsReturned == Spec => []MctpErrorReturned
<1>1. IInv => MctpErrorReturned
  <2> SUFFICES ASSUME IInv, last.sent, last.link = "mctp", NEW code \in Codes, Reports(code)
               PROVE  last.rc = code
    BY Zenon DEF MctpErrorReturned
  <2> DEFINE level == last.ti.level
             W == WireOf("mctp", last.cmd, level)
  <2>1. level \in 0 .. 2 /\ last.rc = mctp_rc(W, last.reply, last.cmd, level)
    BY Zenon DEF IInv, LastInv, MctpAnswered
  <2>2. LastWire = W
    BY Zenon DEF LastWire, WireOf
  <2> HIDE DEF W
  <2>3. PICK d \in 1 .. level + 1 : last.reply = ReplyTo(W, d, code, 0)
    <3>1. \A r : AsHandedOver(r) = r
      BY DEF AsHandedOver
    <3>2. QED BY <2>2, <3>1, Zenon DEF Reports
  <2>4. code \in Nat \ {0}
    BY CodeAssumption
  <2> HIDE DEF level
  <2>5. level + 1 \in 1 .. 3 /\ (level + 1) - 1 = level
    BY <2>1
  <2>6. mctp_rc(W, last.reply, last.cmd, (level + 1) - 1) = code
    BY <2>3, <2>4, <2>5, ErrorIsReturned
  <2>7. QED BY <2>1, <2>5, <2>6
<1>2. QED BY <1>1, Invariance, PTL

\* A reply is taken for a success exactly when it is one: over MCTP at every
\* level of tunnel, over ioctl through a tunnel, and however one field of it was
\* damaged or its bytes were cut.
THEOREM AcceptedExactly == Spec => []ExactAcceptance
<1>1. IInv => ExactAcceptance
  <2> SUFFICES ASSUME IInv, last.sent,
                      last.link = "mctp" \/ (last.link = "ioctl" /\ last.ti.level > 0)
               PROVE  last.rc = 0 <=> last.reply \in Successes
    BY Zenon DEF ExactAcceptance
  <2> DEFINE level == last.ti.level
             S(n) == ReplyTo(LastWire, level + 1, 0, n)
  <2>1. last.cmd \in Cmds /\ level \in 0 .. 2
    BY Zenon DEF IInv, LastInv
  <2>2. last.reply \in Successes <=>
          \E n \in RspMin[last.cmd] .. RspMax[last.cmd] : last.reply = AsHandedOver(S(n))
    BY Zenon DEF Successes
  <2>3. CASE last.link = "mctp"
    <3>1. MctpAnswered(last.cmd, level, last.reply, last.rc)
      BY <2>3, Zenon DEF IInv, LastInv
    <3>2. last.rc = 0 <=> \E n \in RspMin[last.cmd] .. RspMax[last.cmd] :
                            last.reply = ReplyTo(WireOf("mctp", last.cmd, level), level + 1, 0, n)
      BY <2>1, <3>1, MctpExact
    <3>3. LastWire = WireOf("mctp", last.cmd, level)
      BY <2>3, Zenon DEF LastWire, WireOf
    <3>4. \A r : AsHandedOver(r) = r
      BY <2>3 DEF AsHandedOver
    <3>5. QED BY <2>2, <3>2, <3>3, <3>4, Zenon
  <2>4. CASE last.link = "ioctl" /\ last.ti.level > 0
    <3>1. IoctlAnswered(last.cmd, level, last.reply, last.rc)
      BY <2>4, Zenon DEF IInv, LastInv
    <3>2. level \in 1 .. 2
      BY <2>1, <2>4
    <3>3. last.rc = 0 <=> \E n \in RspMin[last.cmd] .. RspMax[last.cmd] :
                            last.reply = DriverHeader(
                              ReplyTo(WireOf("ioctl", last.cmd, level), level + 1, 0, n))
      BY <2>1, <3>1, <3>2, IoctlExact
    <3>4. LastWire = WireOf("ioctl", last.cmd, level)
      BY <2>4 DEF LastWire, WireOf
    <3>5. \A r : AsHandedOver(r) = DriverHeader(r)
      BY <2>4 DEF AsHandedOver
    <3>6. QED BY <2>2, <3>3, <3>4, <3>5, Zenon
  <2>5. QED BY <2>3, <2>4
<1>2. QED BY <1>1, Invariance, PTL
=============================================================================
