------------------------ MODULE MctpTransportProofs ------------------------
(***************************************************************************)
(* Theorems about MctpTransport, for every set of commands, every size of  *)
(* the tag byte and every timeout.                                         *)
(***************************************************************************)
EXTENDS MctpTransport, FiniteSetTheorems, TLAPS

\* Two counters with the same tag byte are the whole tag space apart: what
\* the tag comparison of sanity_check_mctp_rsp is worth.
LEMMA SameTagFarApart ==
  ASSUME NEW T \in Nat, T > 0, NEW a \in Nat, NEW b \in Nat, a < b,
         a % T = b % T
  PROVE  b - a >= T
<1> DEFINE p == a \div T
           q == b \div T
           r == a % T
<1>1. p \in Int /\ q \in Int /\ r \in Int
  OBVIOUS
<1>2. a = (T * p) + r /\ b = (T * q) + (b % T)
  OBVIOUS
<1>3. b - a = (T * q) - (T * p)
  BY <1>1, <1>2
<1> HIDE DEF p, q, r
<1>4. (T * q) - (T * p) = T * (q - p)
  BY <1>1
<1>5. q - p >= 1
  <2> SUFFICES ASSUME q - p <= 0 PROVE FALSE
    BY <1>1
  <2>1. PICK k \in Nat : p = q + k
    BY <1>1
  <2>2. T * p = (T * q) + (T * k)
    BY <1>1, <2>1
  <2>3. T * k >= 0
    OBVIOUS
  <2>4. QED BY <1>1, <1>3, <2>2, <2>3
<1>6. PICK k \in Nat : q - p = 1 + k
  BY <1>1, <1>5
<1>7. T * (q - p) = T + (T * k)
  BY <1>1, <1>6
<1>8. T * k >= 0 /\ (T * k) \in Int
  OBVIOUS
<1>9. QED BY <1>3, <1>4, <1>7, <1>8

-----------------------------------------------------------------------------
(* Messages *)

WireType == [tag : Nat, opcode : Cmds \cup {TUNNEL}]

\* A request has one message per tunnel level and its own; the outermost
\* carries the last tag taken (arm_cci_request, build_tunnel_req).
LEMMA WireShape ==
  ASSUME NEW c \in Command
  PROVE  /\ Wire(c) \in Seq(WireType)
         /\ Len(Wire(c)) = c.level + 1
         /\ Wire(c)[1].tag = OuterTag(c) % TagSpace
<1> DEFINE M(k, o) == [tag |-> k % TagSpace, opcode |-> o]
<1>1. /\ c.id \in Nat /\ c.cmd \in Cmds /\ c.level \in 0 .. 2
  BY DEF Command, Levels
<1>2. \A k \in Nat : k % TagSpace \in Nat
  BY TagAssumption
<1>3. /\ M(c.id, c.cmd) \in WireType
      /\ M(c.id + 1, TUNNEL) \in WireType
      /\ M(c.id + 2, TUNNEL) \in WireType
  BY <1>1, <1>2 DEF WireType
<1>4. CASE c.level = 0
  <2>1. Wire(c) = << M(c.id, c.cmd) >>
    BY <1>4 DEF Wire, Request, arm_cci_request
  <2>2. QED BY <1>1, <1>3, <1>4, <2>1 DEF OuterTag
<1>5. CASE c.level = 1
  <2>1. Wire(c) = << M(c.id + 1, TUNNEL) >> \o << M(c.id, c.cmd) >>
    BY <1>5 DEF Wire, Request, arm_cci_request, build_tunnel_req
  <2>2. QED BY <1>1, <1>3, <1>5, <2>1 DEF OuterTag
<1>6. CASE c.level = 2
  <2>1. Wire(c) = << M(c.id + 2, TUNNEL) >>
                    \o (<< M(c.id + 1, TUNNEL) >> \o << M(c.id, c.cmd) >>)
    BY <1>6 DEF Wire, Request, arm_cci_request, build_tunnel_req
  <2>2. QED BY <1>1, <1>3, <1>6, <2>1 DEF OuterTag
<1>7. QED BY <1>1, <1>4, <1>5, <1>6

\* Every answer of a device has the tag of the command it answers.
LEMMA AnswerShape ==
  ASSUME NEW c \in Command, NEW reply \in Answers(c)
  PROVE  /\ reply \in ReplyType
         /\ reply.of = c
         /\ Len(reply.layers) >= 1
         /\ reply.layers[1].tag = OuterTag(c) % TagSpace
<1>1. PICK r \in Replies(Wire(c), c.cmd, Codes) :
         reply = [of |-> c, layers |-> r.layers, len |-> r.len]
  BY DEF Answers
<1>2. /\ c.cmd \in Cmds /\ c.level \in 0 .. 2
      /\ RspMin[c.cmd] \in Nat /\ RspMax[c.cmd] \in Nat
  BY CmdAssumption DEF Command, Levels
<1> DEFINE IsReply(d, code, n) == r = ReplyTo(Wire(c), d, code, n)
<1>3. \E d \in 1 .. c.level + 1, code \in Nat, n \in Nat : IsReply(d, code, n)
  <2>1. /\ Len(Wire(c)) = c.level + 1 /\ c.level + 1 \in 1 .. c.level + 1
        /\ 0 \in Nat /\ Codes \subseteq Nat
        /\ RspMin[c.cmd] .. RspMax[c.cmd] \subseteq Nat
    BY <1>2, WireShape, BoundAssumption
  <2>2. CASE \E n \in RspMin[c.cmd] .. RspMax[c.cmd] :
               IsReply(Len(Wire(c)), 0, n)
    <3> HIDE DEF IsReply
    <3>1. QED BY <2>1, <2>2
  <2>3. CASE \E d \in 1 .. Len(Wire(c)), code \in Codes : IsReply(d, code, 0)
    <3> HIDE DEF IsReply
    <3>1. QED BY <2>1, <2>3
  <2>4. QED BY <2>2, <2>3 DEF Replies
<1>3a. PICK d \in 1 .. c.level + 1, code \in Nat, n \in Nat :
         IsReply(d, code, n)
  BY <1>3
<1> DEFINE rest(i) == n + (d - i) * (HDR + THDR)
           L(i) == [category |-> RSP, tag |-> Wire(c)[i].tag,
                    opcode |-> Wire(c)[i].opcode,
                    return_code |-> IF i = d THEN code ELSE 0,
                    pl_length |-> rest(i), length |-> rest(i) - THDR]
<1>4. r = [layers |-> [i \in 1 .. d |-> L(i)], len |-> HDR + rest(1)]
  BY <1>3a DEF ReplyTo
<1>5. d \in Nat /\ d >= 1 /\ d <= Len(Wire(c))
  BY <1>2, WireShape
<1>6. \A i \in 1 .. d : Wire(c)[i] \in WireType
  BY <1>5, WireShape
<1>7. \A i \in 1 .. d : L(i) \in LayerType
  BY <1>5, <1>6 DEF LayerType, WireType, RSP, REQ, HDR, THDR
<1>8. [i \in 1 .. d |-> L(i)] \in Seq(LayerType)
  BY <1>5, <1>7
<1>9. HDR + rest(1) \in Nat
  BY <1>5 DEF HDR, THDR
<1>10. Len([i \in 1 .. d |-> L(i)]) = d
  BY <1>5
<1>11. L(1).tag = OuterTag(c) % TagSpace
  BY WireShape
<1> HIDE DEF rest, L
<1>12. QED
  BY <1>1, <1>4, <1>5, <1>8, <1>9, <1>10, <1>11 DEF ReplyType

\* A check that does not fail has seen the tag of the request.
LEMMA CheckedTag ==
  ASSUME NEW req \in WireType, NEW rsp \in LayerType \cup {ZeroLayer},
         NEW len \in Int, NEW fixed \in BOOLEAN, NEW min \in Int
  PROVE  /\ sanity_check_mctp_rsp(req, rsp, len, fixed, min) \in Int
         /\ sanity_check_mctp_rsp(req, rsp, len, fixed, min) >= 0
              => rsp.tag = req.tag
BY DEF sanity_check_mctp_rsp, NotTheReply, LayerType, ZeroLayer, REQ

\* A command that does not return -1 read a reply whose outermost message
\* has the tag of its own.
LEMMA AcceptedTag ==
  ASSUME NEW c \in Command, NEW layers \in Seq(LayerType), NEW len \in Int,
         NEW reply, reply.layers = layers, reply.len = len
  PROVE  /\ mctp_rc(Wire(c), reply, c.cmd, c.level) \in Int
         /\ mctp_rc(Wire(c), reply, c.cmd, c.level) >= 0
              => Layer(reply, 1).tag = Wire(c)[1].tag
<1>1. /\ c.cmd \in Cmds /\ c.level \in 0 .. 2
      /\ RspMin[c.cmd] \in Nat /\ RspMax[c.cmd] \in Nat
  BY CmdAssumption DEF Command, Levels
<1>2. \A i \in 1 .. c.level + 1 : Wire(c)[i] \in WireType
  BY WireShape, <1>1
<1>3. \A i \in Nat : Layer(reply, i) \in LayerType \cup {ZeroLayer}
  BY DEF Layer
<1>4. /\ IsFixed(c.cmd) \in BOOLEAN
      /\ rsp_msg_sz_min(c.cmd) \in Int
      /\ TunnelOverhead \in Int
  BY <1>1 DEF IsFixed, rsp_msg_sz_min, TunnelOverhead, HDR, THDR
<1> DEFINE S(i, n, f, k) ==
             sanity_check_mctp_rsp(Wire(c)[i], Layer(reply, i), n, f, k)
<1>5. \A i \in 1 .. c.level + 1, n \in Int, f \in BOOLEAN, k \in Int :
        S(i, n, f, k) \in Int /\ (S(i, n, f, k) >= 0 =>
                                   Layer(reply, i).tag = Wire(c)[i].tag)
  <2> TAKE i \in 1 .. c.level + 1, n \in Int, f \in BOOLEAN, k \in Int
  <2>1. /\ Wire(c)[i] \in WireType
        /\ Layer(reply, i) \in LayerType \cup {ZeroLayer}
    BY <1>1, <1>2, <1>3
  <2>2. QED BY Zenon, <2>1, CheckedTag
<1> HIDE DEF S
<1>5a. \A i \in 1 .. c.level + 1, n \in Int :
         LET s == S(i, n, IsFixed(c.cmd), rsp_msg_sz_min(c.cmd))
         IN  s \in Int /\ (s >= 0 => Layer(reply, i).tag = Wire(c)[i].tag)
  BY <1>4, <1>5, Zenon
<1>6. CASE c.level = 0
  <2>1. mctp_rc(Wire(c), reply, c.cmd, c.level)
          = S(1, len, IsFixed(c.cmd), rsp_msg_sz_min(c.cmd))
    BY <1>6 DEF mctp_rc, direct_rc, S
  <2>2. QED BY <1>4, <1>5, <1>6, <2>1
<1> DEFINE T(i, n) == tunnel_rc(Wire(c), reply, i, n)
<1>7. \A i \in 1 .. c.level + 1, n \in Int :
        T(i, n) \in Int /\ (T(i, n) >= 0 =>
                             Layer(reply, i).tag = Wire(c)[i].tag)
  <2> TAKE i \in 1 .. c.level + 1, n \in Int
  <2> DEFINE t == S(i, n, FALSE, TunnelOverhead)
  <2>1. T(i, n) = IF t # 0 THEN t
                  ELSE IF Layer(reply, i).length # n - TunnelOverhead
                  THEN -1 ELSE 0
    BY DEF tunnel_rc, S
  <2>2. t \in Int /\ (t >= 0 => Layer(reply, i).tag = Wire(c)[i].tag)
    BY <1>4, <1>5, Zenon
  <2> HIDE DEF T, t
  <2>3. QED BY <2>1, <2>2
<1> HIDE DEF T
<1>8. CASE c.level = 1
  <2> DEFINE t == T(1, len)
             s == S(2, len - TunnelOverhead, IsFixed(c.cmd),
                    rsp_msg_sz_min(c.cmd))
  <2>1. mctp_rc(Wire(c), reply, c.cmd, c.level) = IF t # 0 THEN t ELSE s
    BY <1>8 DEF mctp_rc, tunnel1_rc, S, T
  <2>2. /\ 1 \in 1 .. c.level + 1 /\ 2 \in 1 .. c.level + 1
        /\ len - TunnelOverhead \in Int
    BY <1>4, <1>8
  <2>3. t \in Int /\ (t >= 0 => Layer(reply, 1).tag = Wire(c)[1].tag)
    BY <1>7, <2>2
  <2>4. s \in Int
    BY <1>5a, <2>2
  <2> HIDE DEF s, t
  <2>5. QED BY <2>1, <2>3, <2>4
<1>9. CASE c.level = 2
  <2> DEFINE n2 == len - TunnelOverhead
             n3 == len - 2 * TunnelOverhead
             t == T(1, len)
             u == T(2, n2)
             s == S(3, n3, IsFixed(c.cmd), rsp_msg_sz_min(c.cmd))
  <2>1. mctp_rc(Wire(c), reply, c.cmd, c.level)
          = IF t # 0 THEN t ELSE IF u # 0 THEN u ELSE s
    BY <1>9 DEF mctp_rc, tunnel2_rc, S, T
  <2>2. /\ 1 \in 1 .. c.level + 1 /\ 2 \in 1 .. c.level + 1
        /\ 3 \in 1 .. c.level + 1 /\ n2 \in Int /\ n3 \in Int
    BY <1>4, <1>9
  <2> HIDE DEF n2, n3
  <2>3. t \in Int /\ (t >= 0 => Layer(reply, 1).tag = Wire(c)[1].tag)
    BY Zenon, <1>7, <2>2
  <2>4. u \in Int /\ s \in Int
    BY Zenon, <1>5a, <1>7, <2>2
  <2> HIDE DEF s, t, u
  <2>5. QED BY <2>1, <2>3, <2>4
<1>10. QED BY <1>1, <1>6, <1>8, <1>9

-----------------------------------------------------------------------------
(* The invariant *)

\* A reply carries the tag of the command it answers.
Tagged(r) == Len(r.layers) >= 1 /\ r.layers[1].tag = OuterTag(r.of) % TagSpace

\* A command whose answer is still to come, or to be read, was sent before
\* the counter reached tag, and before the command that waits now.
Older(c, counter, waiting, waiter) ==
  /\ OuterTag(c) < counter
  /\ waiting => c = waiter \/ OuterTag(c) < OuterTag(waiter)

Ordered ==
  /\ \A c \in inflight : Older(c, tag, polling, cur)
  /\ \A s \in Sockets : \A i \in 1 .. Len(queue[s]) :
       Tagged(queue[s][i]) /\ Older(queue[s][i].of, tag, polling, cur)
  /\ polling => OuterTag(cur) < tag

IInv == TypeOK /\ Ordered /\ FreshReply

\* The outermost tag counter of a command is a number.
LEMMA OuterTagNat ==
  /\ \A c \in Attempt : OuterTag(c) \in Nat
  /\ Command \subseteq Attempt
BY DEF Attempt, Command, OuterTag, Levels, TunnelLevels

\* The placeholder of an idle endpoint is a command.
LEMMA NoCommandType == NoCommand \in Command
<1>1. (CHOOSE c \in Cmds : TRUE) \in Cmds
  BY CmdAssumption
<1>2. QED BY <1>1 DEF NoCommand, Command, Levels

\* Every command has one of the two sockets.
LEMMA SocketType == \A c \in Attempt : Socket(c) \in Sockets
BY DEF Socket, Sockets

\* The invariant holds for an endpoint just opened.
LEMMA InitInv == Init => IInv
<1> SUFFICES ASSUME Init PROVE IInv
  OBVIOUS
<1>0. /\ NoResult \in [rc : Int, req : Attempt, from : Attempt]
      /\ [s \in Sockets |-> << >>] \in [Sockets -> Seq(ReplyType)]
  BY NoCommandType, OuterTagNat DEF NoResult
<1>1. TypeOK
  BY Zenon, <1>0, NoCommandType DEF Init, TypeOK
<1>2. Ordered
  BY DEF Init, Ordered
<1>3. FreshReply
  BY DEF Init, FreshReply, NoResult
<1>4. QED BY <1>1, <1>2, <1>3 DEF IInv

\* Each step of the library, of the device and of the network keeps IInv.
LEMMA NextInv == IInv /\ [Next]_vars => IInv'
<1> SUFFICES ASSUME IInv, [Next]_vars PROVE IInv'
  OBVIOUS
<1> USE DEF IInv
<1> DEFINE ResultType == [rc : Int, req : Attempt, from : Attempt]
<1>a. Socket(cur) \in Sockets /\ cur \in Attempt /\ OuterTag(cur) \in Nat
  BY SocketType, OuterTagNat DEF TypeOK
<1>b. /\ inflight \subseteq Command
      /\ \A s \in Sockets : queue[s] \in Seq(ReplyType)
      /\ \A s \in Sockets : \A i \in 1 .. Len(queue[s]) :
           queue[s][i].of \in Command
  <2>1. /\ inflight \subseteq Command
        /\ \A s \in Sockets : queue[s] \in Seq(ReplyType)
    BY DEF TypeOK
  <2>2. \A s \in Sockets : \A i \in 1 .. Len(queue[s]) :
          queue[s][i] \in ReplyType
    BY <2>1
  <2>3. QED BY Zenon, <2>1, <2>2 DEF ReplyType
<1>c. \A d \in Command : OuterTag(d) \in Nat /\ Socket(d) \in Sockets
  BY OuterTagNat, SocketType
<1>1. ASSUME NEW cmd \in Cmds, NEW level \in TunnelLevels, Send(cmd, level)
      PROVE  IInv'
  <2> DEFINE c == [id |-> tag, cmd |-> cmd, level |-> level]
  <2>1. c \in Command /\ tag' \in Nat /\ OuterTag(c) = tag' - 1
        /\ tag <= OuterTag(c)
    BY <1>1 DEF Send, TypeOK, TunnelLevels, Levels, Command, OuterTag
  <2>2. TypeOK'
    BY <1>1, <2>1, NoCommandType, OuterTagNat DEF Send, TypeOK, NoResult, poll
  <2>3. cur' = c /\ polling' /\ inflight' = inflight \cup {c}
        /\ queue' = queue
    BY <1>1 DEF Send
  <2>4. \A d \in Command : OuterTag(d) < tag => Older(d, tag', polling', cur')
    <3>1. /\ tag \in Nat /\ tag' \in Nat /\ OuterTag(cur') \in Nat
          /\ OuterTag(cur') = tag' - 1 /\ tag <= OuterTag(cur')
      BY Zenon, <1>c, <2>1, <2>3 DEF TypeOK
    <3>2. \A x, y, z, t \in Nat : y = t - 1 /\ z <= y /\ x < z => x < t /\ x < y
      OBVIOUS
    <3> TAKE d \in Command
    <3> HAVE OuterTag(d) < tag
    <3>3. OuterTag(d) < tag' /\ OuterTag(d) < OuterTag(cur')
      <4>1. OuterTag(d) \in Nat
        BY <1>c
      <4>2. QED BY <3>1, <3>2, <4>1, Zenon
    <3>4. QED BY <3>3 DEF Older
  <2>5. ASSUME NEW d, d = c
        PROVE  Older(d, tag', polling', cur') /\ OuterTag(cur') < tag'
    BY <2>1, <2>3, <2>5 DEF Older, OuterTag
  <2>6. Ordered'
    <3>1. \A d \in inflight' : Older(d, tag', polling', cur')
      BY <1>b, <2>3, <2>4, <2>5 DEF Ordered, Older
    <3>2. \A s \in Sockets : \A i \in 1 .. Len(queue'[s]) :
            /\ Tagged(queue'[s][i])
            /\ Older(queue'[s][i].of, tag', polling', cur')
      BY <1>b, <2>3, <2>4 DEF Ordered, Older
    <3>3. QED BY Zenon, <2>5, <3>1, <3>2 DEF Ordered, Tagged
  <2>7. FreshReply'
    BY <1>1 DEF Send, FreshReply, NoResult
  <2>8. QED BY <2>2, <2>6, <2>7
<1>2. ASSUME NEW cmd \in Cmds, NEW level \in TunnelLevels,
             SendFails(cmd, level)
      PROVE  IInv'
  <2> DEFINE c == [id |-> tag, cmd |-> cmd, level |-> level]
  <2>1. c \in Attempt /\ tag' \in Nat /\ tag <= tag'
    BY <1>2 DEF SendFails, TypeOK, TunnelLevels, Attempt
  <2>2. TypeOK'
    BY <1>2, <2>1 DEF SendFails, TypeOK, poll, device
  <2>3. Ordered'
    <3>1. \A d \in Command :
            Older(d, tag, polling, cur) => Older(d, tag', polling', cur')
      BY <1>2, <2>1, OuterTagNat DEF SendFails, Older, TypeOK, OuterTag
    <3>2. QED
      BY Zenon, <1>2, <1>b, <3>1 DEF SendFails, Ordered, Tagged, OuterTag, device
  <2>4. FreshReply'
    BY <1>2 DEF SendFails, FreshReply
  <2>5. QED BY <2>2, <2>3, <2>4
<1>3. CASE Receive
  <2> DEFINE s == Socket(cur)
             head == Head(queue[s])
             reply == Received(head, mctp_buffer(cur.cmd, cur.level))
             rc == mctp_rc(Wire(cur), reply, cur.cmd, cur.level)
  <2>1. /\ s \in Sockets /\ queue[s] \in Seq(ReplyType) /\ queue[s] # << >>
        /\ polling
    BY <1>3, <1>a DEF Receive, TypeOK
  <2>2. /\ head \in ReplyType /\ Tail(queue[s]) \in Seq(ReplyType)
        /\ head = queue[s][1] /\ 1 \in 1 .. Len(queue[s])
    BY <2>1
  <2>3. /\ reply.of = head.of /\ reply.layers = head.layers
        /\ reply.len \in Int
    <3>1. mctp_buffer(cur.cmd, cur.level) \in Int
      BY CmdAssumption
      DEF mctp_buffer, rsp_msg_sz, TunnelOverhead, HDR, THDR, TypeOK, Command,
          Levels
    <3>2. QED BY <2>2, <3>1 DEF Received, ReplyType
  <2>4. rc \in Int /\ (rc >= 0 => Layer(reply, 1).tag = Wire(cur)[1].tag)
    <3>1. cur \in Command /\ reply.layers \in Seq(LayerType)
      BY <2>2, <2>3 DEF TypeOK, ReplyType
    <3> HIDE DEF reply
    <3>2. QED BY Zenon, <2>3, <3>1, AcceptedTag
  <2>5. result' = [rc |-> rc, req |-> cur, from |-> head.of]
    BY <1>3, <2>3 DEF Receive, Return
  <2> HIDE DEF rc
  <2>6. TypeOK'
    <3>1. queue' \in [Sockets -> Seq(ReplyType)]
      BY <1>3, <2>1, <2>2 DEF Receive, TypeOK
    <3>2. result' \in ResultType
      BY <1>a, <2>2, <2>4, <2>5, OuterTagNat DEF ReplyType
    <3>3. QED
      BY Zenon, <1>3, <3>1, <3>2, NoCommandType DEF Receive, Return, TypeOK
  <2>7. Ordered'
    <3>1. \A d : Older(d, tag, polling, cur) => Older(d, tag', polling', cur')
      BY <1>3 DEF Receive, Return, Older
    <3>2. queue' = [queue EXCEPT ![s] = Tail(@)] /\ inflight' = inflight
          /\ ~polling'
      BY <1>3 DEF Receive, Return
    <3>3. ASSUME NEW t \in Sockets, NEW i \in 1 .. Len(queue'[t])
          PROVE  \E j \in 1 .. Len(queue[t]) : queue'[t][i] = queue[t][j]
      <4>1. CASE t = s
        <5>1. queue'[t] = Tail(queue[s])
          BY <2>1, <3>2, <4>1 DEF TypeOK
        <5>2. /\ Len(queue'[t]) = Len(queue[s]) - 1
              /\ i + 1 \in 1 .. Len(queue[t])
              /\ queue'[t][i] = queue[t][i + 1]
          BY <2>1, <4>1, <5>1
        <5>3. QED BY <5>2
      <4>2. CASE t # s
        BY <3>2, <3>3, <4>2 DEF TypeOK
      <4>3. QED BY <4>1, <4>2
    <3>4. \A d \in inflight' : Older(d, tag', polling', cur')
      BY <3>1, <3>2 DEF Ordered
    <3>5. ASSUME NEW t \in Sockets, NEW i \in 1 .. Len(queue'[t])
          PROVE  /\ Tagged(queue'[t][i])
                 /\ Older(queue'[t][i].of, tag', polling', cur')
      <4>1. PICK j \in 1 .. Len(queue[t]) : queue'[t][i] = queue[t][j]
        BY <3>3, <3>5
      <4>2. QED BY <3>1, <4>1 DEF Ordered
    <3>6. QED
      BY Zenon, <3>2, <3>4, <3>5 DEF Ordered, Tagged
  <2>8. FreshReply'
    <3>1. SUFFICES ASSUME rc >= 0, head.of # cur
                   PROVE  OuterTag(cur) - OuterTag(head.of) >= TagSpace
      BY <2>5 DEF FreshReply
    <3>2. Tagged(head) /\ OuterTag(head.of) < OuterTag(cur)
      BY <2>1, <2>2, <3>1 DEF Ordered, Older
    <3>3. Layer(reply, 1).tag = OuterTag(head.of) % TagSpace
      <4>1. 1 \in 1 .. Len(head.layers)
            /\ head.layers[1].tag = OuterTag(head.of) % TagSpace
        BY <2>2, <3>2 DEF Tagged, ReplyType
      <4> HIDE DEF reply, head
      <4>2. QED BY <2>3, <4>1 DEF Layer
    <3>4. Wire(cur)[1].tag = OuterTag(cur) % TagSpace
      BY WireShape DEF TypeOK
    <3>5. OuterTag(head.of) \in Nat /\ OuterTag(cur) \in Nat
      BY <1>a, <2>2, OuterTagNat DEF ReplyType
    <3>6. QED
      BY Zenon, <2>4, <3>1, <3>2, <3>3, <3>4, <3>5, SameTagFarApart, TagAssumption
  <2>9. QED BY <2>6, <2>7, <2>8
<1>4. CASE ReceiveFails
  <2> DEFINE rc == mctp_rc(Wire(cur), NothingReceived, cur.cmd, cur.level)
  <2>1. rc \in Int
    <3>1. /\ cur \in Command /\ << >> \in Seq(LayerType) /\ SizeMax \in Int
          /\ NothingReceived.layers = << >> /\ NothingReceived.len = SizeMax
      BY SizeAssumption DEF TypeOK, NothingReceived
    <3>2. QED BY Zenon, <3>1, AcceptedTag
  <2>2. result' = [rc |-> rc, req |-> cur, from |-> cur]
    BY <1>4 DEF ReceiveFails, Return
  <2> HIDE DEF rc
  <2>3. TypeOK'
    <3>1. result' \in ResultType
      BY <1>a, <2>1, <2>2
    <3>2. abandoned' \in [Sockets -> Nat]
      BY <1>4, <1>a DEF ReceiveFails, TypeOK
    <3>3. QED
      BY Zenon, <1>4, <3>1, <3>2, NoCommandType
      DEF ReceiveFails, Return, TypeOK, device
  <2>4. Ordered'
    BY Zenon, <1>4 DEF ReceiveFails, Return, Ordered, Older, Tagged, device
  <2>5. FreshReply'
    BY <2>2 DEF FreshReply
  <2>6. QED BY <2>3, <2>4, <2>5
<1>5. ASSUME polling, GiveUp PROVE IInv'
  <2>1. result' = [rc |-> -1, req |-> cur, from |-> cur]
    BY <1>5 DEF GiveUp, Return
  <2>2. abandoned' \in [Sockets -> Nat]
    BY <1>5, <1>a DEF GiveUp, TypeOK
  <2>3. TypeOK'
    <3>1. result' \in ResultType
      BY <1>a, <2>1
    <3>2. QED
      BY Zenon, <1>5, <2>2, <3>1, NoCommandType DEF GiveUp, Return, TypeOK, device
  <2>4. Ordered'
    BY Zenon, <1>5 DEF GiveUp, Return, Ordered, Older, Tagged, device
  <2>5. FreshReply'
    BY <2>1 DEF FreshReply
  <2>6. QED BY <2>3, <2>4, <2>5
<1>6. CASE Tick \/ Interrupt
  <2>1. TypeOK'
    BY <1>6 DEF Tick, Interrupt, TypeOK
  <2>2. Ordered' /\ FreshReply'
    BY Zenon, <1>6 DEF Tick, Interrupt, Ordered, Older, Tagged, FreshReply
  <2>3. QED BY <2>1, <2>2
<1>7. CASE EnableFmapi
  BY Zenon, <1>7 DEF EnableFmapi, TypeOK, Ordered, Older, Tagged, FreshReply, poll,
              device
<1>8. CASE DisableFmapi
  <2>1. /\ queue' \in [Sockets -> Seq(ReplyType)]
        /\ abandoned' \in [Sockets -> Nat] /\ lost' \in [Sockets -> Nat]
    BY <1>8 DEF DisableFmapi, TypeOK, Sockets
  <2>2. TypeOK'
    BY Zenon, <1>8, <2>1 DEF DisableFmapi, TypeOK, poll
  <2>3. Ordered'
    <3>1. \A t \in Sockets : queue'[t] = queue[t] \/ queue'[t] = << >>
      BY <1>8 DEF DisableFmapi, TypeOK
    <3>2. /\ inflight' \subseteq inflight
          /\ tag' = tag /\ polling' = polling /\ cur' = cur
      BY <1>8 DEF DisableFmapi
    <3>3. ASSUME NEW t \in Sockets, NEW i \in 1 .. Len(queue'[t])
          PROVE  i \in 1 .. Len(queue[t]) /\ queue'[t][i] = queue[t][i]
      <4>1. CASE queue'[t] = queue[t]
        BY <3>3, <4>1
      <4>2. CASE queue'[t] = << >>
        BY <3>3, <4>2
      <4>3. QED BY <3>1, <4>1, <4>2
    <3>4. QED
      BY Zenon, <3>2, <3>3 DEF Ordered
  <2>4. FreshReply'
    BY <1>8 DEF DisableFmapi, FreshReply
  <2>5. QED BY <2>2, <2>3, <2>4
<1>9. ASSUME NEW c \in inflight, DeviceAnswers(c) PROVE IInv'
  <2>1. c \in Command /\ Socket(c) \in Sockets
    BY SocketType, OuterTagNat DEF TypeOK
  <2>2. PICK reply \in Answers(c) :
          queue' = [queue EXCEPT ![Socket(c)] = Append(@, reply)]
    BY Zenon, <1>9 DEF DeviceAnswers
  <2>3. reply \in ReplyType /\ reply.of = c /\ Tagged(reply)
    BY <2>1, AnswerShape DEF Tagged
  <2>4. TypeOK'
    <3>1. queue' \in [Sockets -> Seq(ReplyType)]
      BY <2>1, <2>2, <2>3 DEF TypeOK
    <3>2. QED BY <1>9, <3>1 DEF DeviceAnswers, TypeOK, poll
  <2>5. Ordered'
    <3>1. \A d : Older(d, tag, polling, cur) <=> Older(d, tag', polling', cur')
      BY <1>9 DEF DeviceAnswers, Older
    <3>2. ASSUME NEW t \in Sockets, NEW i \in 1 .. Len(queue'[t])
          PROVE  \/ queue'[t][i] = reply
                 \/ i \in 1 .. Len(queue[t]) /\ queue'[t][i] = queue[t][i]
      <4>1. queue[t] \in Seq(ReplyType)
        BY DEF TypeOK
      <4>2. CASE t = Socket(c)
        <5>1. queue'[t] = Append(queue[t], reply)
          BY <2>1, <2>2, <4>2 DEF TypeOK
        <5>2. /\ Len(queue'[t]) = Len(queue[t]) + 1
              /\ Len(queue[t]) \in Nat
              /\ queue'[t][Len(queue[t]) + 1] = reply
              /\ \A j \in 1 .. Len(queue[t]) : queue'[t][j] = queue[t][j]
          BY <4>1, <5>1
        <5>3. i \in 1 .. Len(queue[t]) \/ i = Len(queue[t]) + 1
          BY <3>2, <5>2
        <5>4. QED BY <5>2, <5>3
      <4>3. CASE t # Socket(c)
        BY <2>2, <3>2, <4>3 DEF TypeOK
      <4>4. QED BY <4>2, <4>3
    <3>3. Older(c, tag, polling, cur)
      BY DEF Ordered
    <3>4. inflight' \subseteq inflight /\ polling' = polling
          /\ cur' = cur /\ tag' = tag
      BY <1>9 DEF DeviceAnswers
    <3>5. \A d \in inflight' : Older(d, tag', polling', cur')
      BY <3>1, <3>4 DEF Ordered
    <3>6. ASSUME NEW t \in Sockets, NEW i \in 1 .. Len(queue'[t])
          PROVE  /\ Tagged(queue'[t][i])
                 /\ Older(queue'[t][i].of, tag', polling', cur')
      <4>1. CASE queue'[t][i] = reply
        BY <2>3, <3>1, <3>3, <4>1
      <4>2. CASE i \in 1 .. Len(queue[t]) /\ queue'[t][i] = queue[t][i]
        BY <3>1, <4>2 DEF Ordered
      <4>3. QED BY Zenon, <3>2, <3>6, <4>1, <4>2
    <3>7. QED
      BY Zenon, <3>4, <3>5, <3>6 DEF Ordered, Tagged
  <2>6. FreshReply'
    BY Zenon, <1>9 DEF DeviceAnswers, FreshReply
  <2>7. QED BY <2>4, <2>5, <2>6
<1>10. ASSUME NEW c \in inflight, Lose(c) PROVE IInv'
  <2>1. lost' \in [Sockets -> Nat]
    <3>1. Socket(c) \in Sockets
      BY <1>b, <1>c
    <3>2. QED BY <1>10, <3>1 DEF Lose, TypeOK
  <2>2. TypeOK'
    BY <1>10, <2>1 DEF Lose, TypeOK, poll
  <2>3. Ordered' /\ FreshReply'
    BY Zenon, <1>10 DEF Lose, Ordered, Older, Tagged, FreshReply
  <2>4. QED BY <2>2, <2>3
<1>11. CASE UNCHANGED vars
  BY Zenon, <1>11 DEF vars, TypeOK, Ordered, Older, Tagged, FreshReply
<1>12. QED
  BY <1>1, <1>2, <1>3, <1>4, <1>5, <1>6, <1>7, <1>8, <1>9, <1>10, <1>11
  DEF Next, Timeout, PollFails

\* IInv holds in every reachable state.
LEMMA Invariance == Spec => []IInv
BY InitInv, NextInv, PTL DEF Spec

\* The variables of the endpoint, its sockets and the network keep their
\* types, for every command set, tag size and timeout.
THEOREM TypeCorrect == Spec => []TypeOK
<1>1. IInv => TypeOK
  BY DEF IInv
<1>2. QED BY <1>1, Invariance, PTL

\* The tag check of sanity_check_mctp_rsp does its work: a command that does
\* not fail returns the answer to itself, or one that is a whole tag space
\* old, whatever the network delays, reorders or loses.
THEOREM Freshness == Spec => []FreshReply
<1>1. IInv => FreshReply
  BY DEF IInv
<1>2. QED BY <1>1, Invariance, PTL

-----------------------------------------------------------------------------
(* The replies a socket owes *)

On(s, commands) == {c \in commands : Socket(c) = s}

Owed == IsFiniteSet(inflight) /\ OwedReplies

\* The commands in flight on a socket are finitely many.
LEMMA OnFinite ==
  ASSUME NEW S, IsFiniteSet(S), NEW s
  PROVE  IsFiniteSet(On(s, S)) /\ Cardinality(On(s, S)) \in Nat
<1>1. On(s, S) \subseteq S
  BY DEF On
<1>2. IsFiniteSet(On(s, S))
  BY <1>1, FS_Subset
<1>3. QED BY <1>2, FS_CardinalityType

\* Sending adds one command to its own socket only.
LEMMA OnAdd ==
  ASSUME NEW S, IsFiniteSet(S), NEW s, NEW c, c \notin S
  PROVE  Cardinality(On(s, S \cup {c}))
           = Cardinality(On(s, S)) + (IF Socket(c) = s THEN 1 ELSE 0)
<1>1. CASE Socket(c) = s
  <2>1. On(s, S \cup {c}) = On(s, S) \cup {c} /\ c \notin On(s, S)
    BY <1>1 DEF On
  <2>2. QED BY Zenon, <1>1, <2>1, OnFinite, FS_AddElement
<1>2. CASE Socket(c) # s
  <2>1. On(s, S \cup {c}) = On(s, S)
    BY <1>2 DEF On
  <2>2. QED BY <1>2, <2>1, OnFinite
<1>3. QED BY <1>1, <1>2

\* Answering or losing a command takes it from its own socket only.
LEMMA OnRemove ==
  ASSUME NEW S, IsFiniteSet(S), NEW s, NEW c \in S
  PROVE  Cardinality(On(s, S \ {c}))
           = Cardinality(On(s, S)) - (IF Socket(c) = s THEN 1 ELSE 0)
<1>1. CASE Socket(c) = s
  <2>1. On(s, S \ {c}) = On(s, S) \ {c} /\ c \in On(s, S)
    BY <1>1 DEF On
  <2>2. QED BY Zenon, <1>1, <2>1, OnFinite, FS_RemoveElement
<1>2. CASE Socket(c) # s
  <2>1. On(s, S \ {c}) = On(s, S)
    BY <1>2 DEF On
  <2>2. QED BY <1>2, <2>1, OnFinite
<1>3. QED BY <1>1, <1>2

\* The replies socket s still has to deliver, waiting for w if p.
Balance(s, f, q, l, a, p, w) ==
  Cardinality(On(s, f)) + Len(q[s]) + l[s]
    = a[s] + (IF p /\ Socket(w) = s THEN 1 ELSE 0)

\* The balance of a socket, as one equation between its counters.
LEMMA OwedBalance ==
  OwedReplies <=> \A s \in Sockets :
    Balance(s, inflight, queue, lost, abandoned, polling, cur)
BY DEF OwedReplies, Balance, On

\* A new endpoint owes nothing.
LEMMA OwedInit == Init => Owed
<1> SUFFICES ASSUME Init PROVE Owed
  OBVIOUS
<1>1. IsFiniteSet(inflight)
  BY FS_EmptySet DEF Init
<1>2. ASSUME NEW s \in Sockets
      PROVE  Balance(s, inflight, queue, lost, abandoned, polling, cur)
  <2>1. On(s, inflight) = {}
    BY DEF Init, On
  <2>2. QED BY <2>1, FS_EmptySet DEF Init, Balance
<1>3. QED BY <1>1, <1>2, OwedBalance DEF Owed

\* Every step keeps the balance of both sockets.
LEMMA OwedNext == IInv /\ Owed /\ [Next]_vars => Owed'
<1> SUFFICES ASSUME IInv, Owed, [Next]_vars PROVE Owed'
  OBVIOUS
<1> DEFINE B(s) == Balance(s, inflight, queue, lost, abandoned, polling, cur)
           C(s) == Balance(s, inflight', queue', lost', abandoned', polling',
                           cur')
<1>a. /\ IsFiniteSet(inflight) /\ inflight \subseteq Command
      /\ \A s \in Sockets : B(s)
  BY OwedBalance DEF Owed, IInv, TypeOK
<1>b. SUFFICES IsFiniteSet(inflight') /\ \A s \in Sockets : C(s)
  BY DEF Owed, OwedReplies, Balance, On
<1>c. /\ \A s \in Sockets : Cardinality(On(s, inflight)) \in Nat
      /\ \A s \in Sockets : /\ queue[s] \in Seq(ReplyType)
                            /\ Len(queue[s]) \in Nat
                            /\ lost[s] \in Nat
                            /\ abandoned[s] \in Nat
      /\ Socket(cur) \in Sockets
  <2>1. \A s \in Sockets : queue[s] \in Seq(ReplyType)
    BY DEF IInv, TypeOK
  <2>2. \A s \in Sockets : Cardinality(On(s, inflight)) \in Nat
    BY <1>a, OnFinite
  <2>3. \A s \in Sockets : Len(queue[s]) \in Nat
    BY <2>1
  <2>4. \A s \in Sockets : lost[s] \in Nat /\ abandoned[s] \in Nat
    BY DEF IInv, TypeOK
  <2>5. Socket(cur) \in Sockets
    BY SocketType, OuterTagNat DEF IInv, TypeOK
  <2>6. QED BY <2>1, <2>2, <2>3, <2>4, <2>5
<1>1. ASSUME NEW cmd \in Cmds, NEW level \in TunnelLevels, Send(cmd, level)
      PROVE  IsFiniteSet(inflight') /\ \A s \in Sockets : C(s)
  <2> DEFINE c == [id |-> tag, cmd |-> cmd, level |-> level]
  <2>1. c \notin inflight
    <3>1. tag <= OuterTag(c)
      BY DEF IInv, TypeOK, OuterTag, TunnelLevels
    <3>2. \A d \in inflight : OuterTag(d) < tag
      BY DEF IInv, Ordered, Older
    <3>3. \A d \in inflight : OuterTag(d) \in Nat
      BY <1>a, OuterTagNat
    <3>4. tag \in Nat
      BY DEF IInv, TypeOK
    <3> HIDE DEF c
    <3>5. QED BY <3>1, <3>2, <3>3, <3>4
  <2>2. /\ inflight' = inflight \cup {c} /\ queue' = queue /\ lost' = lost
        /\ abandoned' = abandoned /\ ~polling /\ polling' /\ cur' = c
    BY <1>1 DEF Send
  <2> HIDE DEF c
  <2>3. IsFiniteSet(inflight')
    BY <1>a, <2>2, FS_AddElement
  <2>4. ASSUME NEW s \in Sockets PROVE C(s)
    <3>1. Cardinality(On(s, inflight'))
            = Cardinality(On(s, inflight)) + (IF Socket(c) = s THEN 1 ELSE 0)
      BY <1>a, <2>1, <2>2, OnAdd
    <3>2. Cardinality(On(s, inflight)) + Len(queue[s]) + lost[s] = abandoned[s]
      BY <1>a, <1>c, <2>2 DEF Balance
    <3>3. PICK n \in Nat, q \in Nat, l \in Nat, a \in Nat, e \in Nat :
            /\ n = Cardinality(On(s, inflight)) /\ q = Len(queue[s])
            /\ l = lost[s] /\ a = abandoned[s]
            /\ e = IF Socket(c) = s THEN 1 ELSE 0
      <4>1. (IF Socket(c) = s THEN 1 ELSE 0) \in Nat
        OBVIOUS
      <4>2. QED BY <1>c, <4>1
    <3>4. n + q + l = a
      BY <3>2, <3>3
    <3>5. (n + e) + q + l = a + e
      BY <3>4
    <3>6. QED BY Zenon, <2>2, <3>1, <3>3, <3>5 DEF Balance
  <2>5. QED BY <2>3, <2>4
<1>2. ASSUME NEW cmd \in Cmds, NEW level \in TunnelLevels,
             SendFails(cmd, level)
      PROVE  IsFiniteSet(inflight') /\ \A s \in Sockets : C(s)
  BY <1>2, <1>a DEF SendFails, device
<1>3. CASE Receive
  <2>1. /\ inflight' = inflight /\ lost' = lost /\ abandoned' = abandoned
        /\ polling /\ ~polling' /\ queue[Socket(cur)] # << >>
        /\ queue' = [queue EXCEPT ![Socket(cur)] = Tail(@)]
    BY <1>3 DEF Receive, Return
  <2>2. ASSUME NEW s \in Sockets PROVE C(s)
    <3>1. CASE s = Socket(cur)
      <4>1. queue'[s] = Tail(queue[s])
        BY <2>1, <3>1 DEF IInv, TypeOK
      <4>2. Len(queue'[s]) \in Nat /\ Len(queue'[s]) = Len(queue[s]) - 1
        <5>1. queue[s] \in Seq(ReplyType) /\ queue[s] # << >>
          BY <1>c, <2>1, <3>1
        <5>2. QED BY <4>1, <5>1
      <4>3. Cardinality(On(s, inflight)) + Len(queue[s]) + lost[s]
              = abandoned[s] + 1
        BY <1>a, <2>1, <3>1 DEF Balance
      <4>4. Cardinality(On(s, inflight)) + Len(queue'[s]) + lost[s]
              = abandoned[s]
        <5>1. PICK n \in Nat, q \in Nat, r \in Nat, l \in Nat, a \in Nat :
                /\ n = Cardinality(On(s, inflight)) /\ q = Len(queue[s])
                /\ r = Len(queue'[s]) /\ l = lost[s] /\ a = abandoned[s]
          BY Zenon, <1>c, <4>2
        <5>2. r = q - 1 /\ n + q + l = a + 1
          BY <4>2, <4>3, <5>1
        <5>3. n + r + l = a
          BY <5>2
        <5>4. QED BY <5>1, <5>3
      <4>5. abandoned[s] + 0 = abandoned[s]
        BY <1>c
      <4>6. QED BY <2>1, <4>4, <4>5 DEF Balance
    <3>2. CASE s # Socket(cur)
      <4>1. queue'[s] = queue[s]
        BY <2>1, <3>2 DEF IInv, TypeOK
      <4>2. QED BY <1>a, <2>1, <3>2, <4>1 DEF Balance
    <3>3. QED BY <3>1, <3>2
  <2>3. QED BY Zenon, <1>a, <2>1, <2>2
<1>4. ASSUME polling, ReceiveFails \/ GiveUp
      PROVE  IsFiniteSet(inflight') /\ \A s \in Sockets : C(s)
  <2>1. /\ inflight' = inflight /\ lost' = lost /\ queue' = queue /\ ~polling'
        /\ abandoned' = [abandoned EXCEPT ![Socket(cur)] = @ + 1]
    BY Zenon, <1>4 DEF ReceiveFails, GiveUp, Return, device
  <2>2. ASSUME NEW s \in Sockets PROVE C(s)
    <3>1. abandoned'[s] = abandoned[s] + (IF Socket(cur) = s THEN 1 ELSE 0)
      BY <1>c, <2>1 DEF IInv, TypeOK
    <3>2. Cardinality(On(s, inflight)) + Len(queue[s]) + lost[s]
            = abandoned[s] + (IF Socket(cur) = s THEN 1 ELSE 0)
      BY <1>4, <1>a DEF Balance
    <3>3. Cardinality(On(s, inflight)) + Len(queue[s]) + lost[s] = abandoned'[s]
      BY <3>1, <3>2
    <3>4. abandoned[s] \in Nat
      BY Zenon, <1>c DEF IInv, TypeOK
    <3>5. abandoned'[s] + 0 = abandoned'[s]
      <4>1. PICK k \in Nat : abandoned'[s] = k
        BY <3>1, <3>4
      <4>2. QED BY <4>1
    <3>6. QED BY Zenon, <2>1, <3>3, <3>5 DEF Balance
  <2>3. QED BY Zenon, <1>a, <2>1, <2>2
<1>5. CASE Tick \/ Interrupt
  BY Zenon, <1>5, <1>a DEF Tick, Interrupt
<1>6. CASE EnableFmapi
  BY <1>6, <1>a DEF EnableFmapi, device
<1>7. CASE DisableFmapi
  <2>1. /\ inflight' = {c \in inflight : Socket(c) # "fmapi_sd"}
        /\ queue' = [queue EXCEPT !["fmapi_sd"] = << >>]
        /\ abandoned' = [abandoned EXCEPT !["fmapi_sd"] = 0]
        /\ lost' = [lost EXCEPT !["fmapi_sd"] = 0]
        /\ ~polling /\ ~polling'
    BY <1>7 DEF DisableFmapi
  <2>2. IsFiniteSet(inflight')
    <3>1. inflight' \subseteq inflight
      BY <2>1
    <3>2. QED BY <1>a, <3>1, FS_Subset
  <2>3. ASSUME NEW s \in Sockets PROVE C(s)
    <3>1. CASE s = "fmapi_sd"
      <4>1. On(s, inflight') = {}
        BY <2>1, <3>1 DEF On
      <4>2. queue'[s] = << >> /\ abandoned'[s] = 0 /\ lost'[s] = 0
        BY <2>1, <3>1 DEF IInv, TypeOK
      <4>3. Cardinality(On(s, inflight')) = 0 /\ Len(queue'[s]) = 0
        BY <4>1, <4>2, FS_EmptySet
      <4>4. QED BY <2>1, <4>2, <4>3 DEF Balance
    <3>2. CASE s # "fmapi_sd"
      <4>1. On(s, inflight') = On(s, inflight)
        BY <2>1, <3>2 DEF On
      <4>2. /\ queue'[s] = queue[s] /\ abandoned'[s] = abandoned[s]
            /\ lost'[s] = lost[s]
        BY <2>1, <3>2 DEF IInv, TypeOK
      <4>3. QED BY <1>a, <2>1, <4>1, <4>2 DEF Balance
    <3>3. QED BY <3>1, <3>2
  <2>4. QED BY <2>2, <2>3
<1>8. ASSUME NEW c \in inflight, DeviceAnswers(c) \/ Lose(c)
      PROVE  IsFiniteSet(inflight') /\ \A s \in Sockets : C(s)
  <2>1. /\ inflight' = inflight \ {c} /\ abandoned' = abandoned
        /\ polling' = polling /\ cur' = cur
    BY <1>8 DEF DeviceAnswers, Lose
  <2>2. IsFiniteSet(inflight')
    BY <1>a, <2>1, FS_RemoveElement
  <2>3. ASSUME NEW s \in Sockets PROVE C(s)
    <3> DEFINE one == IF Socket(c) = s THEN 1 ELSE 0
    <3>1. Cardinality(On(s, inflight')) = Cardinality(On(s, inflight)) - one
      BY <1>a, <2>1, OnRemove
    <3>2. Len(queue'[s]) + lost'[s] = Len(queue[s]) + lost[s] + one
      <4>1. CASE DeviceAnswers(c)
        <5>1. PICK r : queue' = [queue EXCEPT ![Socket(c)] = Append(@, r)]
          BY Zenon, <4>1 DEF DeviceAnswers
        <5>2. Len(queue'[s]) = Len(queue[s]) + one
          <6>1. CASE Socket(c) = s
            <7>1. queue'[s] = Append(queue[s], r)
              BY <5>1, <6>1 DEF IInv, TypeOK
            <7>2. Len(Append(queue[s], r)) = Len(queue[s]) + 1
              BY <1>c
            <7>3. QED BY <6>1, <7>1, <7>2
          <6>2. CASE Socket(c) # s
            BY <1>c, <5>1, <6>2 DEF IInv, TypeOK
          <6>3. QED BY Zenon, <6>1, <6>2
        <5>3. lost' = lost
          BY <4>1 DEF DeviceAnswers
        <5>4. lost'[s] = lost[s] /\ lost[s] \in Nat /\ Len(queue[s]) \in Nat
          BY Zenon, <1>c, <5>3
        <5>5. one \in Nat
          OBVIOUS
        <5> HIDE DEF one
        <5>6. QED BY <5>2, <5>4, <5>5
      <4>2. CASE Lose(c)
        BY <1>c, <4>2 DEF Lose, IInv, TypeOK
      <4>3. QED BY Zenon, <1>8, <4>1, <4>2
    <3>3. Len(queue'[s]) \in Nat /\ lost'[s] \in Nat /\ one \in Int
      <4>1. TypeOK'
        BY NextInv DEF IInv
      <4>2. queue'[s] \in Seq(ReplyType) /\ lost'[s] \in Nat
        BY <4>1 DEF TypeOK
      <4>3. QED BY <4>2
    <3>4. B(s)
      BY <1>a
    <3> DEFINE w == IF polling /\ Socket(cur) = s THEN 1 ELSE 0
               n == Cardinality(On(s, inflight))
    <3>5. w \in Int /\ n \in Nat /\ abandoned[s] \in Nat
          /\ Len(queue[s]) \in Nat /\ lost[s] \in Nat
      <4>1. w \in Int
        OBVIOUS
      <4> HIDE DEF w
      <4>2. QED BY Zenon, <1>c, <4>1
    <3>6. n + Len(queue[s]) + lost[s] = abandoned[s] + w
      BY Zenon, <3>4 DEF Balance
    <3> HIDE DEF one, w, n
    <3>7. n - one + Len(queue'[s]) + lost'[s] = abandoned[s] + w
      <4>1. PICK q \in Nat, r \in Nat, l \in Nat, m \in Nat, a \in Nat,
                 k \in Nat, e \in Int, x \in Int :
              /\ q = Len(queue[s]) /\ r = Len(queue'[s])
              /\ l = lost[s] /\ m = lost'[s]
              /\ a = abandoned[s] /\ k = n /\ e = one /\ x = w
        BY Zenon, <3>3, <3>5
      <4>2. r + m = q + l + e /\ k + q + l = a + x
        BY <3>2, <3>6, <4>1
      <4>3. k - e + r + m = a + x
        BY <4>2
      <4>4. QED BY Zenon, <4>1, <4>3
    <3>8. QED BY Zenon, <2>1, <3>1, <3>7 DEF Balance, w, n
  <2>4. QED BY <2>2, <2>3
<1>9. CASE UNCHANGED vars
  BY <1>9, <1>a DEF vars
<1>10. QED
  BY Zenon, <1>1, <1>2, <1>3, <1>4, <1>5, <1>6, <1>7, <1>8, <1>9
  DEF Next, Timeout, PollFails, ReceiveFails

\* Nothing in the library drains a socket: between two commands it owes one
\* reply for each command given up on it and not lost on the way.
THEOREM NothingDrained == Spec => []OwedReplies
<1>1. Owed => OwedReplies
  BY DEF Owed
<1>2. QED BY <1>1, Invariance, OwedInit, OwedNext, PTL DEF Spec

-----------------------------------------------------------------------------
(* The promise to the caller *)

\* The counter stops at its bound.
TagBound == tag <= MaxTag

\* No step takes the counter past MaxTag.
LEMMA TagBounded == Spec => []TagBound
<1>1. Init => TagBound
  BY BoundAssumption DEF Init, TagBound
<1>2. IInv /\ TagBound /\ [Next]_vars => TagBound'
  <2> SUFFICES ASSUME IInv, TagBound, [Next]_vars PROVE TagBound'
    OBVIOUS
  <2>0. tag \in Nat /\ MaxTag \in Nat
    BY BoundAssumption DEF IInv, TypeOK
  <2>1. ASSUME NEW cmd \in Cmds, NEW level \in TunnelLevels, Send(cmd, level)
        PROVE  TagBound'
    BY <2>0, <2>1 DEF Send, TagBound, TunnelLevels
  <2>2. ASSUME NEW cmd \in Cmds, NEW level \in TunnelLevels, SendFails(cmd, level)
        PROVE  TagBound'
    BY <2>0, <2>2 DEF SendFails, TagBound, TunnelLevels
  <2>3. CASE tag' = tag
    BY <2>3 DEF TagBound
  <2>4. QED
    BY Zenon, <2>1, <2>2, <2>3 DEF Next, vars, Receive, ReceiveFails, Tick, Interrupt,
       Timeout, PollFails, GiveUp, Return, EnableFmapi, DisableFmapi, DeviceAnswers, Lose
<1>3. QED BY <1>1, <1>2, Invariance, PTL DEF Spec

\* A call that returns without a failure returns the answer to itself: an
\* older one would be a whole tag space away, and there are not that many tags.
LEMMA ReturnAnswers ==
  ASSUME MaxTag <= TagSpace, IInv, IInv', TagBound, polling,
         NEW rc, NEW from, Return(rc, from)
  PROVE  RR!Answer \/ RR!Fail
<1>1. /\ polling' = FALSE /\ cur' = NoCommand
      /\ result' = [rc |-> rc, req |-> cur, from |-> from]
  BY DEF Return
<1>2. /\ result'.rc = rc /\ result'.req = cur /\ result'.from = from
  BY <1>1
<1>3. /\ rc \in Int /\ from \in Attempt /\ cur \in Attempt
      /\ OuterTag(from) \in Nat /\ OuterTag(cur) \in Nat
  BY <1>2, OuterTagNat DEF IInv, TypeOK
<1>4. CASE rc < 0
  BY <1>1, <1>2, <1>4 DEF RR!Fail, RR!Failed
<1>5. CASE rc >= 0
  <2>1. from = cur \/ OuterTag(cur) - OuterTag(from) >= TagSpace
    BY <1>2, <1>5 DEF IInv, FreshReply
  <2>2. OuterTag(cur) < tag /\ tag <= MaxTag /\ tag \in Nat
    BY DEF IInv, Ordered, TypeOK, TagBound
  <2>3. from = cur
    BY <1>3, <2>1, <2>2, BoundAssumption, TagAssumption
  <2>4. QED BY <1>1, <1>2, <1>5, <2>3 DEF RR!Answer
<1>6. QED BY <1>3, <1>4, <1>5

\* Every step of the transport is a step of RequestReply or leaves it as it is.
LEMMA StepPromised ==
  ASSUME MaxTag <= TagSpace, IInv, IInv', TagBound, [Next]_vars
  PROVE  [RR!Next]_(RR!vars)
<1>1. ASSUME NEW cmd \in Cmds, NEW level \in TunnelLevels, Send(cmd, level)
      PROVE  RR!Call
  <2>1. cur' \in Command
    BY DEF IInv, TypeOK
  <2>2. result'.rc < 0 /\ result'.req = NoCommand
    BY <1>1 DEF Send, NoResult
  <2>3. QED BY Zenon, <1>1, <2>1, <2>2 DEF Send, RR!Call, RR!Failed
<1>2. ASSUME NEW cmd \in Cmds, NEW level \in TunnelLevels, SendFails(cmd, level)
      PROVE  RR!Refuse
  <2>1. result'.rc < 0 /\ result'.req \in Attempt
    BY SMTT(30), <1>2 DEF SendFails, IInv, TypeOK
  <2>2. QED BY Zenon, <1>2, <2>1 DEF SendFails, RR!Refuse, RR!Failed
<1>3. ASSUME NEW rc, NEW from, polling, Return(rc, from)
      PROVE  RR!Next
  BY <1>3, ReturnAnswers DEF RR!Next
<1>4. CASE Receive \/ ReceiveFails \/ Timeout \/ PollFails
  BY Zenon, <1>3, <1>4 DEF Receive, ReceiveFails, Timeout, PollFails, GiveUp
<1>5. CASE UNCHANGED <<polling, cur, result>>
  BY <1>5 DEF RR!vars
<1>6. QED
  BY Zenon, <1>1, <1>2, <1>4, <1>5
  DEF Next, vars, RR!Next, Tick, Interrupt, EnableFmapi, DisableFmapi, DeviceAnswers, Lose

\* While the tag byte does not wrap, the MCTP transport implements what
\* send_cmd_cci promises (RequestReply): a call returns once, and unless it
\* fails, with the answer to its own command.
THEOREM Promise ==
  ASSUME MaxTag <= TagSpace
  PROVE  Spec => AnswersItsCaller
<1>1. Init => RR!Init
  BY DEF Init, NoResult, RR!Init, RR!Failed
<1>2. IInv /\ IInv' /\ TagBound /\ [Next]_vars => [RR!Next]_(RR!vars)
  BY StepPromised
<1>3. QED BY <1>1, <1>2, Invariance, TagBounded, PTL DEF Spec, AnswersItsCaller, RR!Spec
=============================================================================
