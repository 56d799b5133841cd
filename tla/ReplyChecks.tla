---------------------------- MODULE ReplyChecks ----------------------------
(***************************************************************************)
(* What the checks on a reply accept, for every command, response size,    *)
(* return code and damage: the lemmas CommandExchangeProofs rests on.      *)
(***************************************************************************)
EXTENDS CommandExchange, SequenceTheorems, TLAPS

-----------------------------------------------------------------------------
(* Requests and replies *)

WireType == [tag : Nat, opcode : Cmds \cup {TUNNEL}]

WireOf(l, cmd, level) ==
  IF l = "mctp" THEN Request(0, cmd, level) ELSE ioctl_request(cmd, level)

\* A request has one message per tunnel level and its own.
LEMMA WireShape ==
  ASSUME NEW l, NEW cmd \in Cmds, NEW level \in 0 .. 2
  PROVE  WireOf(l, cmd, level) \in Seq(WireType) /\ Len(WireOf(l, cmd, level)) = level + 1
<1> DEFINE M(k, o) == [tag |-> k % TagSpace, opcode |-> o]
           N(o) == [tag |-> 0, opcode |-> o]
<1>1. \A k \in Nat : k % TagSpace \in Nat
  BY TagAssumption
<1>2. /\ M(0, cmd) \in WireType /\ M(0 + 1, TUNNEL) \in WireType
      /\ M(0 + 2, TUNNEL) \in WireType /\ M(16, TUNNEL) \in WireType
      /\ N(cmd) \in WireType /\ N(TUNNEL) \in WireType
  BY <1>1 DEF WireType
<1>0. \A x, y, z \in WireType :
        /\ << x >> \in Seq(WireType) /\ Len(<< x >>) = 1
        /\ << x >> \o << y >> \in Seq(WireType) /\ Len(<< x >> \o << y >>) = 2
        /\ << x >> \o << y >> \o << z >> \in Seq(WireType)
        /\ Len(<< x >> \o << y >> \o << z >>) = 3
        /\ << x >> \o (<< y >> \o << z >>) \in Seq(WireType)
        /\ Len(<< x >> \o (<< y >> \o << z >>)) = 3
  OBVIOUS
<1>3. CASE l = "mctp"
  <2>1. CASE level = 0
    <3>1. WireOf(l, cmd, level) = << M(0, cmd) >>
      BY <1>3, <2>1 DEF WireOf, Request, arm_cci_request
    <3> DEFINE W == WireOf(l, cmd, level)
    <3> HIDE DEF M, N, W
    <3>2. W \in Seq(WireType) /\ Len(W) = 1
      BY <1>0, <1>2, <3>1, Zenon DEF W
    <3>3. QED BY <2>1, <3>2 DEF W
  <2>2. CASE level = 1
    <3>1. WireOf(l, cmd, level) = << M(0 + 1, TUNNEL) >> \o << M(0, cmd) >>
      BY <1>3, <2>2 DEF WireOf, Request, arm_cci_request, build_tunnel_req
    <3> DEFINE W == WireOf(l, cmd, level)
    <3> HIDE DEF M, N, W
    <3>2. W \in Seq(WireType) /\ Len(W) = 2
      BY <1>0, <1>2, <3>1, SMTT(20) DEF W
    <3>3. QED BY <2>2, <3>2 DEF W
  <2>3. CASE level = 2
    <3>1. WireOf(l, cmd, level) =
            << M(0 + 2, TUNNEL) >> \o (<< M(0 + 1, TUNNEL) >> \o << M(0, cmd) >>)
      BY <1>3, <2>3 DEF WireOf, Request, arm_cci_request, build_tunnel_req
    <3> DEFINE W == WireOf(l, cmd, level)
    <3> HIDE DEF M, N, W
    <3>2. W \in Seq(WireType) /\ Len(W) = 3
      BY <1>0, <1>2, <3>1, SMTT(20) DEF W
    <3>3. QED BY <2>3, <3>2 DEF W
  <2>4. QED BY <2>1, <2>2, <2>3
<1>4. CASE l # "mctp"
  <2>1. CASE level = 0
    <3>1. WireOf(l, cmd, level) = << N(cmd) >>
      BY <1>4, <2>1 DEF WireOf, ioctl_request
    <3> DEFINE W == WireOf(l, cmd, level)
    <3> HIDE DEF M, N, W
    <3>2. W \in Seq(WireType) /\ Len(W) = 1
      BY <1>0, <1>2, <3>1, Zenon DEF W
    <3>3. QED BY <2>1, <3>2 DEF W
  <2>2. CASE level = 1
    <3>1. WireOf(l, cmd, level) = << N(TUNNEL) >> \o << N(cmd) >>
      BY <1>4, <2>2 DEF WireOf, ioctl_request
    <3> DEFINE W == WireOf(l, cmd, level)
    <3> HIDE DEF M, N, W
    <3>2. W \in Seq(WireType) /\ Len(W) = 2
      BY <1>0, <1>2, <3>1, SMTT(20) DEF W
    <3>3. QED BY <2>2, <3>2 DEF W
  <2>3. CASE level = 2
    <3>1. WireOf(l, cmd, level) = << N(TUNNEL) >> \o << M(16, TUNNEL) >> \o << N(cmd) >>
      BY <1>4, <2>3 DEF WireOf, ioctl_request
    <3> DEFINE W == WireOf(l, cmd, level)
    <3> HIDE DEF M, N, W
    <3>2. W \in Seq(WireType) /\ Len(W) = 3
      BY <1>0, <1>2, <3>1, SMTT(20) DEF W
    <3>3. QED BY <2>3, <3>2 DEF W
  <2>4. QED BY <2>1, <2>2, <2>3
<1>5. QED BY <1>3, <1>4

LayerFields == {"category", "tag", "opcode", "return_code", "pl_length", "length"}

\* A reply message with its six fields.
IsLayer(l) ==
  /\ DOMAIN l = LayerFields /\ l = [f \in LayerFields |-> l[f]]
  /\ l.return_code \in Nat /\ l.pl_length \in Int /\ l.length \in Int

\* A reply of d messages.
IsReply(r, d) ==
  /\ DOMAIN r = {"layers", "len"} /\ r = [x \in {"layers", "len"} |-> r[x]]
  /\ r.len \in Int
  /\ r.layers = [i \in 1 .. d |-> r.layers[i]]
  /\ \A i \in 1 .. d : IsLayer(r.layers[i])

\* A sound reply of d messages with n bytes of payload in the deepest.
SoundReply(r, d, n) ==
  /\ IsReply(r, d)
  /\ r.layers[d].pl_length = n /\ r.layers[d].length = n - THDR
  /\ r.len = HDR + n + (d - 1) * TunnelOverhead

\* What damage leaves of it: the length field of the deepest message, and its
\* pl_length or the number of bytes.
OnceSound(r, d, n) ==
  /\ IsReply(r, d)
  /\ r.layers[d].length = n - THDR
  /\ \/ r.layers[d].pl_length = n
     \/ /\ r.layers[d].pl_length = n + 1
        /\ r.len = HDR + n + (d - 1) * TunnelOverhead

\* A reply of a device is sound.
LEMMA SoundShape ==
  ASSUME NEW W, NEW d \in 1 .. 3, NEW code \in Nat, NEW n \in Nat
  PROVE  SoundReply(ReplyTo(W, d, code, n), d, n)
<1> DEFINE rest(i) == n + (d - i) * (HDR + THDR)
           lay(i) == [category |-> RSP, tag |-> W[i].tag, opcode |-> W[i].opcode,
                      return_code |-> IF i = d THEN code ELSE 0,
                      pl_length |-> rest(i), length |-> rest(i) - THDR]
           R == [layers |-> [i \in 1 .. d |-> lay(i)], len |-> HDR + rest(1)]
<1>1. ReplyTo(W, d, code, n) = R
  BY DEF ReplyTo
<1>2. \A i \in 1 .. d : rest(i) \in Int
  BY DEF HDR, THDR
<1>3. \A i \in 1 .. d : IsLayer(lay(i))
  BY <1>2 DEF IsLayer, LayerFields, THDR
<1>4. R.len \in Int /\ R.len = HDR + n + (d - 1) * TunnelOverhead
  BY <1>2 DEF HDR, THDR, TunnelOverhead
<1>5. lay(d).pl_length = n /\ lay(d).length = n - THDR
  BY DEF HDR, THDR
<1> HIDE DEF lay, rest
<1>6. IsReply(R, d)
  BY <1>3, <1>4 DEF IsReply
<1>7. QED BY <1>1, <1>4, <1>5, <1>6 DEF SoundReply

\* A sound reply with another message in one place.
LEMMA SpoiltShape ==
  ASSUME NEW d \in 1 .. 3, NEW n \in Nat, NEW r, SoundReply(r, d, n),
         NEW i \in 1 .. d, NEW l, IsLayer(l),
         i = d => /\ l.length = r.layers[d].length
                  /\ \/ l.pl_length = r.layers[d].pl_length
                     \/ l.pl_length = r.layers[d].pl_length + 1
  PROVE  OnceSound([r EXCEPT !.layers[i] = l], d, n)
<1> DEFINE F == [r.layers EXCEPT ![i] = l]
           R == [r EXCEPT !.layers[i] = l]
<1>1. /\ DOMAIN R = {"layers", "len"} /\ R = [x \in {"layers", "len"} |-> R[x]]
      /\ R.layers = F /\ R.len = r.len
  BY Zenon DEF SoundReply, IsReply
<1>2. /\ F = [k \in 1 .. d |-> F[k]]
      /\ \A k \in 1 .. d : F[k] = IF k = i THEN l ELSE r.layers[k]
  BY DEF SoundReply, IsReply
<1> HIDE DEF F, R
<1>3. IsReply(R, d)
  <2>1. r.len \in Int /\ \A k \in 1 .. d : IsLayer(F[k])
    BY <1>2 DEF SoundReply, IsReply
  <2>2. QED BY <1>1, <1>2, <2>1 DEF IsReply
<1>4. R.layers[d] = F[d] /\ R.len = r.len /\ d \in 1 .. d
  BY <1>1
<1>5. OnceSound(R, d, n)
  BY <1>2, <1>3, <1>4 DEF OnceSound, SoundReply
<1>6. QED BY <1>5 DEF R

\* A message with a number of one of its fields changed is a message.
LEMMA LayerEdited ==
  ASSUME NEW l, IsLayer(l)
  PROVE  /\ \A v \in Int : /\ IsLayer([l EXCEPT !.pl_length = v])
                           /\ [l EXCEPT !.pl_length = v].length = l.length
                           /\ [l EXCEPT !.pl_length = v].pl_length = v
         /\ \A v \in Int : IsLayer([l EXCEPT !.length = v])
         /\ \A v \in Nat : /\ IsLayer([l EXCEPT !.return_code = v])
                           /\ [l EXCEPT !.return_code = v].length = l.length
                           /\ [l EXCEPT !.return_code = v].pl_length = l.pl_length
BY DEF IsLayer, LayerFields

\* Any reply has as many messages as the request or fewer, and its deepest is
\* what damage leaves of a sound one.
LEMMA AnyShape ==
  ASSUME NEW N \in 1 .. 3, NEW W, Len(W) = N, NEW cmd \in Cmds,
         NEW r \in AnyReply(W, cmd)
  PROVE  \E d \in 1 .. N, n \in Nat : OnceSound(r, d, n)
<1>1. \A q \in Sound(W, cmd) : \E d \in 1 .. N, n \in Nat : SoundReply(q, d, n)
  <2> TAKE q \in Sound(W, cmd)
  <2>1. CASE \E n \in RspMin[cmd] .. RspMax[cmd] : q = ReplyTo(W, Len(W), 0, n)
    <3>1. PICK n \in RspMin[cmd] .. RspMax[cmd] : q = ReplyTo(W, N, 0, n)
      BY <2>1
    <3>2. n \in Nat
      <4>1. RspMin[cmd] \in Nat /\ RspMax[cmd] \in Nat
        BY CmdAssumption
      <4>2. QED BY <4>1
    <3>3. SoundReply(q, N, n)
      BY <3>1, <3>2, SoundShape
    <3>4. N \in 1 .. N
      OBVIOUS
    <3>5. QED BY <3>2, <3>3, <3>4, Zenon
  <2>2. CASE \E d \in 1 .. Len(W), code \in Codes : q = ReplyTo(W, d, code, 0)
    <3>1. PICK d \in 1 .. N, code \in Codes : q = ReplyTo(W, d, code, 0)
      BY <2>2
    <3>2. code \in Nat
      BY CodeAssumption
    <3>3. d \in 1 .. 3 /\ 0 \in Nat
      OBVIOUS
    <3>4. SoundReply(q, d, 0)
      BY <3>1, <3>2, <3>3, SoundShape
    <3>5. QED BY <3>3, <3>4, Zenon
  <2>3. q \in Replies(W, cmd, Codes)
    BY DEF Sound
  <2>4. QED BY <2>1, <2>2, <2>3 DEF Replies
<1>2. CASE r \in Sound(W, cmd)
  <2>1. PICK d \in 1 .. N, n \in Nat : SoundReply(r, d, n)
    BY <1>1, <1>2
  <2>2. OnceSound(r, d, n)
    BY <2>1 DEF OnceSound, SoundReply
  <2>3. QED BY <2>2
<1>3. CASE \E q \in Sound(W, cmd) : r \in Damaged(q)
  <2>1. PICK q \in Sound(W, cmd) : r \in Damaged(q)
    BY <1>3
  <2>2. PICK d \in 1 .. N, n \in Nat : SoundReply(q, d, n)
    BY <1>1
  <2> DEFINE F == q.layers
  <2>3. /\ d \in 1 .. 3 /\ DOMAIN F = 1 .. d /\ Len(F) = d
        /\ \A i \in 1 .. d : IsLayer(F[i])
    BY <2>2 DEF SoundReply, IsReply
  <2>4. SUFFICES OnceSound(r, d, n)
    OBVIOUS
  <2>5. CASE \E i \in 1 .. d :
             r = [q EXCEPT !.layers[i] = [F[i] EXCEPT !.pl_length = F[i].pl_length + 1]]
    <3>1. PICK i \in 1 .. d :
               r = [q EXCEPT !.layers[i] = [F[i] EXCEPT !.pl_length = F[i].pl_length + 1]]
      BY <2>5, Zenon
    <3> DEFINE l == [F[i] EXCEPT !.pl_length = F[i].pl_length + 1]
    <3>2. IsLayer(l) /\ l.length = F[i].length /\ l.pl_length = F[i].pl_length + 1
      <4>1. IsLayer(F[i]) /\ F[i].pl_length + 1 \in Int
        BY <2>3 DEF IsLayer
      <4>2. QED BY <4>1, LayerEdited
    <3> HIDE DEF l
    <3>3. QED BY <2>2, <2>3, <3>1, <3>2, SpoiltShape, Zenon DEF l
  <2>6. CASE \E i \in 1 .. d :
             r = [q EXCEPT !.layers[i] = [F[i] EXCEPT !.return_code = F[i].return_code + 1]]
    <3>1. PICK i \in 1 .. d :
               r = [q EXCEPT !.layers[i] = [F[i] EXCEPT !.return_code = F[i].return_code + 1]]
      BY <2>6, Zenon
    <3> DEFINE l == [F[i] EXCEPT !.return_code = F[i].return_code + 1]
    <3>2. IsLayer(l) /\ l.length = F[i].length /\ l.pl_length = F[i].pl_length
      <4>1. IsLayer(F[i]) /\ F[i].return_code + 1 \in Nat
        BY <2>3 DEF IsLayer
      <4>2. QED BY <4>1, LayerEdited
    <3> HIDE DEF l
    <3>3. QED BY <2>2, <2>3, <3>1, <3>2, SpoiltShape, Zenon DEF l
  <2>7. CASE \E i \in 1 .. d - 1 :
             r = [q EXCEPT !.layers[i] = [F[i] EXCEPT !.length = F[i].length + 1]]
    <3>1. PICK i \in 1 .. d - 1 :
               r = [q EXCEPT !.layers[i] = [F[i] EXCEPT !.length = F[i].length + 1]]
      BY <2>7, Zenon
    <3> DEFINE l == [F[i] EXCEPT !.length = F[i].length + 1]
    <3>2. IsLayer(l)
      <4>1. IsLayer(F[i]) /\ F[i].length + 1 \in Int
        BY <2>3 DEF IsLayer
      <4>2. QED BY <4>1, LayerEdited
    <3>3. i \in 1 .. d /\ i # d
      OBVIOUS
    <3> HIDE DEF l
    <3>4. QED BY <2>2, <2>3, <3>1, <3>2, <3>3, SpoiltShape, Zenon DEF l
  <2>8. CASE \E i \in 1 .. d : \E x : r = [q EXCEPT !.layers[i] = [F[i] EXCEPT !.tag = x]]
    <3>0. PICK i \in 1 .. d : \E x : r = [q EXCEPT !.layers[i] = [F[i] EXCEPT !.tag = x]]
      BY <2>8, Zenon
    <3>1. PICK x : r = [q EXCEPT !.layers[i] = [F[i] EXCEPT !.tag = x]]
      BY <3>0, Zenon
    <3> DEFINE l == [F[i] EXCEPT !.tag = x]
    <3>2. IsLayer(l) /\ l.length = F[i].length /\ l.pl_length = F[i].pl_length
      BY <2>3, Zenon DEF IsLayer, LayerFields
    <3> HIDE DEF l
    <3>3. QED BY <2>2, <2>3, <3>1, <3>2, SpoiltShape, Zenon DEF l
  <2>9. CASE \E i \in 1 .. d : r = [q EXCEPT !.layers[i] = [F[i] EXCEPT !.opcode = NOOP]]
    <3>1. PICK i \in 1 .. d : r = [q EXCEPT !.layers[i] = [F[i] EXCEPT !.opcode = NOOP]]
      BY <2>9, Zenon
    <3> DEFINE l == [F[i] EXCEPT !.opcode = NOOP]
    <3>2. IsLayer(l) /\ l.length = F[i].length /\ l.pl_length = F[i].pl_length
      BY <2>3, Zenon DEF IsLayer, LayerFields
    <3> HIDE DEF l
    <3>3. QED BY <2>2, <2>3, <3>1, <3>2, SpoiltShape, Zenon DEF l
  <2>10. CASE \E i \in 1 .. d : r = [q EXCEPT !.layers[i] = [F[i] EXCEPT !.category = REQ]]
    <3>1. PICK i \in 1 .. d : r = [q EXCEPT !.layers[i] = [F[i] EXCEPT !.category = REQ]]
      BY <2>10, Zenon
    <3> DEFINE l == [F[i] EXCEPT !.category = REQ]
    <3>2. IsLayer(l) /\ l.length = F[i].length /\ l.pl_length = F[i].pl_length
      BY <2>3, Zenon DEF IsLayer, LayerFields
    <3> HIDE DEF l
    <3>3. QED BY <2>2, <2>3, <3>1, <3>2, SpoiltShape, Zenon DEF l
  <2>11. CASE \E m \in Int : r = [q EXCEPT !.len = m]
    BY <2>2, <2>11 DEF OnceSound, SoundReply, IsReply
  <2>12. {0, HDR - 1, q.len - 1, q.len + 1} \subseteq Int
    BY <2>2 DEF SoundReply, IsReply, HDR
  <2> DEFINE Counts == {[q EXCEPT !.layers[i].pl_length = @ + 1] : i \in DOMAIN q.layers}
             Results == {[q EXCEPT !.layers[i].return_code = @ + 1] : i \in DOMAIN q.layers}
             Lengths == {[q EXCEPT !.layers[i].length = @ + 1] : i \in 1 .. Len(q.layers) - 1}
             Tags == {[q EXCEPT !.layers[i].tag = (@ + 1) % TagSpace] : i \in DOMAIN q.layers}
             Opcodes == {[q EXCEPT !.layers[i].opcode = NOOP] : i \in DOMAIN q.layers}
             Categories == {[q EXCEPT !.layers[i].category = REQ] : i \in DOMAIN q.layers}
             Cuts == {[q EXCEPT !.len = k] : k \in {0, HDR - 1, q.len - 1, q.len + 1}}
  <2>13. CASE r \in Counts
    BY <2>3, <2>5, <2>13, Zenon
  <2>13a. CASE r \in Results
    BY <2>3, <2>6, <2>13a, Zenon
  <2>14. CASE r \in Lengths
    BY <2>3, <2>7, <2>14, Zenon
  <2>15. CASE r \in Tags
    BY <2>3, <2>8, <2>15, Zenon
  <2>16. CASE r \in Opcodes
    BY <2>3, <2>9, <2>16, Zenon
  <2>17. CASE r \in Categories
    BY <2>3, <2>10, <2>17, Zenon
  <2>18. CASE r \in Cuts
    BY <2>11, <2>12, <2>18, Zenon
  <2>19. QED
    BY <2>1, <2>13, <2>13a, <2>14, <2>15, <2>16, <2>17, <2>18, Zenon DEF Damaged
<1>4. QED BY <1>2, <1>3, Zenon DEF AnyReply

-----------------------------------------------------------------------------
(* What the checks ask *)

\* The bytes left of a reply at message i.
LenAt(got, i) == got.len - (i - 1) * TunnelOverhead

\* Message i of a reply of N messages passes its checks.
Passes(W, got, i, N) ==
  /\ Layer(got, i).category = RSP
  /\ Layer(got, i).tag = W[i].tag /\ Layer(got, i).opcode = W[i].opcode
  /\ Layer(got, i).return_code = 0
  /\ LenAt(got, i) - HDR = Layer(got, i).pl_length
  /\ i < N => Layer(got, i).length = LenAt(got, i) - TunnelOverhead

\* The outer tunnel message over ioctl passes its checks.
PassesOuter(got) ==
  /\ Layer(got, 1).return_code = 0
  /\ Layer(got, 1).length = LenAt(got, 1) - TunnelOverhead

\* The deepest message has a size the command may have.
Fits(got, cmd, N) ==
  /\ LenAt(got, N) >= rsp_msg_sz_min(cmd)
  /\ IsFixed(cmd) => LenAt(got, N) = rsp_msg_sz_min(cmd)

\* Over MCTP a reply is accepted when each of its messages passes.
LEMMA MctpChecks ==
  ASSUME NEW level \in 0 .. 2, NEW cmd \in Cmds, NEW W, NEW got, got.len \in Int
  PROVE  mctp_rc(W, got, cmd, level) = 0 <=>
           /\ \A i \in 1 .. level + 1 : Passes(W, got, i, level + 1)
           /\ Fits(got, cmd, level + 1)
<1> USE DEF HDR, THDR, TunnelOverhead
<1>0. RspMin[cmd] \in Nat
  BY CmdAssumption
<1>1. CASE level = 0
  <2>1. mctp_rc(W, got, cmd, level) = direct_rc(W, got, cmd)
    BY <1>1 DEF mctp_rc
  <2>2. direct_rc(W, got, cmd) = 0 <=> Passes(W, got, 1, 1) /\ Fits(got, cmd, 1)
    BY <1>0 DEF direct_rc, sanity_check_mctp_rsp, NotTheReply, WrongLength, Passes, Fits,
                LenAt, rsp_msg_sz_min
  <2>3. \A i : i \in 1 .. level + 1 <=> i = 1
    BY <1>1
  <2>4. QED BY <1>1, <2>1, <2>2, <2>3
<1>2. CASE level = 1
  <2>1. mctp_rc(W, got, cmd, level) = tunnel1_rc(W, got, cmd)
    BY <1>2 DEF mctp_rc
  <2>2. tunnel1_rc(W, got, cmd) = 0 <=>
          Passes(W, got, 1, 2) /\ Passes(W, got, 2, 2) /\ Fits(got, cmd, 2)
    BY <1>0, SMTT(40) DEF tunnel1_rc, tunnel_rc, sanity_check_mctp_rsp, NotTheReply,
                          WrongLength, Passes, Fits, LenAt, rsp_msg_sz_min
  <2>3. \A i : i \in 1 .. level + 1 <=> i = 1 \/ i = 2
    BY <1>2
  <2>4. QED BY <1>2, <2>1, <2>2, <2>3
<1>3. CASE level = 2
  <2>1. mctp_rc(W, got, cmd, level) = tunnel2_rc(W, got, cmd)
    BY <1>3 DEF mctp_rc
  <2>2. tunnel2_rc(W, got, cmd) = 0 <=>
          /\ Passes(W, got, 1, 3) /\ Passes(W, got, 2, 3) /\ Passes(W, got, 3, 3)
          /\ Fits(got, cmd, 3)
    BY <1>0, SMTT(40) DEF tunnel2_rc, tunnel_rc, sanity_check_mctp_rsp, NotTheReply,
                          WrongLength, Passes, Fits, LenAt, rsp_msg_sz_min
  <2>3. \A i : i \in 1 .. level + 1 <=> i = 1 \/ i = 2 \/ i = 3
    BY <1>3
  <2>4. QED BY <1>3, <2>1, <2>2, <2>3
<1>4. QED BY <1>1, <1>2, <1>3

\* Over ioctl a tunnelled reply is accepted when the outer message passes the
\* checks of the driver's header, and each of the others its own.
LEMMA IoctlChecks ==
  ASSUME NEW level \in 1 .. 2, NEW cmd \in Cmds, NEW W, NEW got, got.len \in Int,
         Layer(got, 1).return_code \in Int
  PROVE  ioctl_rc(W, got, cmd, level) = 0 <=>
           /\ PassesOuter(got)
           /\ \A i \in 2 .. level + 1 : Passes(W, got, i, level + 1)
           /\ Fits(got, cmd, level + 1)
<1> USE DEF HDR, THDR, TunnelOverhead
<1>0. RspMin[cmd] \in Nat
  BY CmdAssumption
<1>1. CASE level = 1
  <2>1. ioctl_rc(W, got, cmd, level) = ioctl_tunnel1_rc(W, got, cmd)
    BY <1>1 DEF ioctl_rc
  <2>2. ioctl_tunnel1_rc(W, got, cmd) = 0 <=>
          PassesOuter(got) /\ Passes(W, got, 2, 2) /\ Fits(got, cmd, 2)
    BY <1>0, SMTT(40) DEF ioctl_tunnel1_rc, ioctl_outer_rc, sanity_check_mctp_rsp, NotTheReply,
                WrongLength, PassesOuter, Passes, Fits, LenAt, rsp_msg_sz_min
  <2>3. \A i : i \in 2 .. level + 1 <=> i = 2
    BY <1>1
  <2>4. QED BY <1>1, <2>1, <2>2, <2>3
<1>2. CASE level = 2
  <2>1. ioctl_rc(W, got, cmd, level) = ioctl_tunnel2_rc(W, got, cmd)
    BY <1>2 DEF ioctl_rc
  <2>2. ioctl_tunnel2_rc(W, got, cmd) = 0 <=>
          /\ PassesOuter(got) /\ Passes(W, got, 2, 3) /\ Passes(W, got, 3, 3)
          /\ Fits(got, cmd, 3)
    BY <1>0, SMTT(40) DEF ioctl_tunnel2_rc, ioctl_outer_rc, sanity_check_mctp_rsp, NotTheReply,
                WrongLength, PassesOuter, Passes, Fits, LenAt, rsp_msg_sz_min
  <2>3. \A i : i \in 2 .. level + 1 <=> i = 2 \/ i = 3
    BY <1>2
  <2>4. QED BY <1>2, <2>1, <2>2, <2>3
<1>3. QED BY <1>1, <1>2

-----------------------------------------------------------------------------
(* What an accepted reply is *)

\* The messages of a sound success.
SuccessLayer(W, N, n, i) ==
  [category |-> RSP, tag |-> W[i].tag, opcode |-> W[i].opcode, return_code |-> 0,
   pl_length |-> n + (N - i) * TunnelOverhead,
   length |-> (n + (N - i) * TunnelOverhead) - THDR]

\* A successful reply, message by message.
LEMMA SuccessShape ==
  ASSUME NEW W, NEW N \in 1 .. 3, NEW n \in Int
  PROVE  /\ ReplyTo(W, N, 0, n).layers = [i \in 1 .. N |-> SuccessLayer(W, N, n, i)]
         /\ ReplyTo(W, N, 0, n).len = HDR + (n + (N - 1) * TunnelOverhead)
<1> DEFINE rest(i) == n + (N - i) * (HDR + THDR)
           code(i) == IF i = N THEN 0 ELSE 0
           lay(i) == [category |-> RSP, tag |-> W[i].tag, opcode |-> W[i].opcode,
                      return_code |-> code(i),
                      pl_length |-> rest(i), length |-> rest(i) - THDR]
<1>1. ReplyTo(W, N, 0, n) = [layers |-> [i \in 1 .. N |-> lay(i)], len |-> HDR + rest(1)]
  BY DEF ReplyTo
<1>2. \A i : rest(i) = n + (N - i) * TunnelOverhead /\ code(i) = 0
  BY Zenon DEF TunnelOverhead
<1> HIDE DEF rest, code
<1>3. \A i \in 1 .. N : lay(i) = SuccessLayer(W, N, n, i)
  <2> TAKE i \in 1 .. N
  <2>1. rest(i) = n + (N - i) * TunnelOverhead /\ code(i) = 0
    BY <1>2
  <2>2. QED BY <2>1, Zenon DEF SuccessLayer
<1> HIDE DEF lay
<1>4. [i \in 1 .. N |-> lay(i)] = [i \in 1 .. N |-> SuccessLayer(W, N, n, i)]
  BY <1>3
<1>5. ReplyTo(W, N, 0, n) =
        [layers |-> [i \in 1 .. N |-> SuccessLayer(W, N, n, i)],
         len |-> HDR + (n + (N - 1) * TunnelOverhead)]
  BY <1>1, <1>2, <1>4, Zenon
<1> DEFINE Ls == [i \in 1 .. N |-> SuccessLayer(W, N, n, i)]
           K == HDR + (n + (N - 1) * TunnelOverhead)
<1>6. ReplyTo(W, N, 0, n) = [layers |-> Ls, len |-> K]
  BY <1>5
<1> HIDE DEF Ls, K
<1>7. ReplyTo(W, N, 0, n).layers = Ls /\ ReplyTo(W, N, 0, n).len = K
  BY <1>6
<1>8. QED BY <1>7, Zenon DEF Ls, K

\* A reply r came as got, with the same deepest message and no more bytes, and
\* its last message passed.
PassedWith(W, N, d, n, r, got) ==
  /\ N \in 1 .. 3 /\ d \in 1 .. N /\ n \in Nat
  /\ OnceSound(r, d, n) /\ IsReply(got, d) /\ got.layers[d] = r.layers[d]
  /\ got.len <= r.len \/ r.len < HDR
  /\ Passes(W, got, N, N)

\* Then all its messages came, and the deepest agrees with the bytes.
LEMMA DeepestKept ==
  ASSUME NEW N, NEW W, NEW d, NEW n, NEW r, NEW got, PassedWith(W, N, d, n, r, got)
  PROVE  d = N /\ LenAt(got, N) - HDR = n /\ got.layers[N].length = n - THDR
<1> USE DEF PassedWith
<1>1. d = N
  <2>1. SUFFICES ASSUME d # N PROVE FALSE
    OBVIOUS
  <2>2. Len(got.layers) = d
    BY DEF IsReply
  <2>3. Layer(got, N) = ZeroLayer
    BY <2>1, <2>2 DEF Layer
  <2>4. QED BY <2>3 DEF Passes, ZeroLayer, RSP, REQ
<1>2. Layer(got, N) = r.layers[N]
  BY <1>1 DEF Layer, IsReply
<1>3. got.len - (N - 1) * TunnelOverhead - HDR = r.layers[N].pl_length
  BY <1>2 DEF Passes, LenAt
<1>4. r.len \in Int /\ got.len \in Int
  BY DEF OnceSound, IsReply
<1>5. QED BY <1>1, <1>3, <1>4 DEF OnceSound, LenAt, HDR, THDR, TunnelOverhead

\* recvfrom() keeps the messages of a reply and may cut its length.
LEMMA ReceivedShape ==
  ASSUME NEW d \in 1 .. 3, NEW r, IsReply(r, d), NEW sz \in Int
  PROVE  /\ IsReply(Received(r, sz), d)
         /\ Received(r, sz).layers = r.layers
         /\ Received(r, sz).len <= r.len /\ Received(r, sz).len <= sz
BY DEF IsReply, Received

\* The outermost message as the driver's header shows it.
LEMMA HeaderShape ==
  ASSUME NEW m, IsLayer(m)
  PROVE  LET l == [m EXCEPT !.category = RSP, !.tag = 0, !.pl_length = 0, !.opcode = NOOP]
         IN /\ IsLayer(l)
            /\ l = [category |-> RSP, tag |-> 0, opcode |-> NOOP,
                    return_code |-> m.return_code, pl_length |-> 0, length |-> m.length]
<1> DEFINE l == [m EXCEPT !.category = RSP, !.tag = 0, !.pl_length = 0, !.opcode = NOOP]
<1>1. /\ DOMAIN l = LayerFields /\ l = [f \in LayerFields |-> l[f]]
  BY Zenon DEF IsLayer, LayerFields
<1>2. /\ l.category = RSP /\ l.tag = 0 /\ l.opcode = NOOP
      /\ l.return_code = m.return_code /\ l.pl_length = 0 /\ l.length = m.length
  BY DEF IsLayer, LayerFields
<1>3. m.return_code \in Nat /\ m.length \in Int
  BY DEF IsLayer
<1> HIDE DEF l
<1>4. IsLayer(l)
  BY <1>1, <1>2, <1>3 DEF IsLayer
<1>5. l = [category |-> RSP, tag |-> 0, opcode |-> NOOP,
           return_code |-> m.return_code, pl_length |-> 0, length |-> m.length]
  BY <1>1, <1>2 DEF LayerFields
<1>6. QED BY <1>4, <1>5 DEF l

\* The driver's header stands for the outermost message.
LEMMA DriverShape ==
  ASSUME NEW d \in 1 .. 3, NEW r, IsReply(r, d)
  PROVE  LET q == DriverHeader(r) IN
         /\ IsReply(q, d)
         /\ \A i \in 2 .. d : q.layers[i] = r.layers[i]
         /\ q.layers[1] =
              [category |-> RSP, tag |-> 0, opcode |-> NOOP,
               return_code |-> r.layers[1].return_code, pl_length |-> 0,
               length |-> r.layers[1].length]
         /\ q.len = IF r.len < HDR THEN HDR ELSE r.len
<1> DEFINE q == DriverHeader(r)
           l == [r.layers[1] EXCEPT !.category = RSP, !.tag = 0, !.pl_length = 0,
                                    !.opcode = NOOP]
           F == [r.layers EXCEPT ![1] = l]
<1>1. IsLayer(r.layers[1]) /\ 1 \in 1 .. d
  BY DEF IsReply
<1>2. IsLayer(l)
  BY <1>1, HeaderShape, Zenon
<1>3. l = [category |-> RSP, tag |-> 0, opcode |-> NOOP,
           return_code |-> r.layers[1].return_code, pl_length |-> 0,
           length |-> r.layers[1].length]
  BY <1>1, HeaderShape, Zenon
<1> HIDE DEF l
<1>4. /\ F = [k \in 1 .. d |-> F[k]] /\ F[1] = l
      /\ \A k \in 2 .. d : F[k] = r.layers[k]
      /\ \A k \in 1 .. d : IsLayer(F[k])
  BY <1>1, <1>2 DEF IsReply
<1>5. /\ DOMAIN q = {"layers", "len"} /\ q = [x \in {"layers", "len"} |-> q[x]]
      /\ q.layers = F /\ q.len = IF r.len < HDR THEN HDR ELSE r.len
  BY <1>1, Zenon DEF IsReply, DriverHeader, l
<1>6. q.len \in Int
  BY <1>5 DEF IsReply, HDR
<1> HIDE DEF q, F
<1>7. IsReply(q, d)
  BY <1>4, <1>5, <1>6 DEF IsReply
<1>8. QED BY <1>3, <1>4, <1>5, <1>7, Zenon DEF q

\* A number of bytes that fits the command's buffer and its smallest reply.
LEMMA PayloadFits ==
  ASSUME NEW N \in 1 .. 3, NEW cmd \in Cmds, NEW got, got.len \in Int,
         got.len <= mctp_buffer(cmd, N - 1), Fits(got, cmd, N)
  PROVE  LenAt(got, N) - HDR \in RspMin[cmd] .. RspMax[cmd]
<1>1. RspMin[cmd] \in Nat /\ RspMax[cmd] \in Nat
  BY CmdAssumption
<1>2. QED
  BY <1>1
     DEF Fits, LenAt, mctp_buffer, rsp_msg_sz, rsp_msg_sz_min, HDR, THDR, TunnelOverhead

\* A reply r to a command came as got, and passed the checks over MCTP ...
PassedMctp(W, N, cmd, r, got) ==
  /\ N \in 1 .. 3 /\ Len(W) = N /\ cmd \in Cmds /\ r \in AnyReply(W, cmd)
  /\ got = Received(r, mctp_buffer(cmd, N - 1))
  /\ \A i \in 1 .. N : Passes(W, got, i, N)
  /\ Fits(got, cmd, N)

\* ... or over ioctl.
PassedIoctl(W, N, cmd, r, got) ==
  /\ N \in 2 .. 3 /\ Len(W) = N /\ cmd \in Cmds /\ r \in AnyReply(W, cmd)
  /\ got = Received(DriverHeader(r), mctp_buffer(cmd, N - 1))
  /\ PassesOuter(got)
  /\ \A i \in 2 .. N : Passes(W, got, i, N)
  /\ Fits(got, cmd, N)

\* A reply of N messages whose bytes are those of n bytes of payload, and of
\* which message i passed.
PassedOf(W, N, n, got, i) ==
  /\ N \in 1 .. 3 /\ n \in Nat /\ i \in 1 .. N
  /\ IsReply(got, N) /\ Passes(W, got, i, N)
  /\ got.len = HDR + (n + (N - 1) * TunnelOverhead)
  /\ got.layers[N].length = n - THDR

\* The checks leave no choice: the message is that of a successful reply.
LEMMA MessageRebuilt ==
  ASSUME NEW W, NEW N, NEW n, NEW got, NEW i, PassedOf(W, N, n, got, i)
  PROVE  got.layers[i] = SuccessLayer(W, N, n, i)
<1> DEFINE l == got.layers[i]
           p == n + (N - i) * TunnelOverhead
<1>1. N \in 1 .. 3 /\ n \in Nat /\ i \in 1 .. N
  BY DEF PassedOf
<1>2. IsReply(got, N) /\ Passes(W, got, i, N)
  BY DEF PassedOf
<1>3. IsLayer(l) /\ Len(got.layers) = N
  BY <1>1, <1>2 DEF IsReply
<1>4. Layer(got, i) = l
  BY <1>1, <1>3 DEF Layer
<1>5. p \in Int /\ LenAt(got, i) = HDR + p
  <2>1. got.len = HDR + (n + (N - 1) * TunnelOverhead)
    BY DEF PassedOf
  <2>2. QED BY <1>1, <2>1 DEF LenAt, HDR, THDR, TunnelOverhead
<1>6. i = N => l.length = p - THDR
  <2>1. got.layers[N].length = n - THDR
    BY DEF PassedOf
  <2>2. QED BY <1>1, <2>1 DEF HDR, THDR, TunnelOverhead
<1> HIDE DEF l, p
<1>7. /\ l.category = RSP /\ l.tag = W[i].tag /\ l.opcode = W[i].opcode
      /\ l.return_code = 0 /\ LenAt(got, i) - HDR = l.pl_length
      /\ i < N => l.length = LenAt(got, i) - TunnelOverhead
  BY <1>2, <1>4, Zenon DEF Passes
<1>8. l.pl_length = p
  BY <1>5, <1>7 DEF HDR
<1>9. l.length = p - THDR
  <2>1. i = N \/ i < N
    BY <1>1
  <2>2. CASE i < N
    BY <1>5, <1>7, <2>2 DEF HDR, THDR, TunnelOverhead
  <2>3. QED BY <1>6, <2>1, <2>2
<1>10. l = [category |-> RSP, tag |-> W[i].tag, opcode |-> W[i].opcode,
            return_code |-> 0, pl_length |-> p, length |-> p - THDR]
  BY <1>3, <1>7, <1>8, <1>9 DEF IsLayer, LayerFields
<1>11. QED BY <1>10, Zenon DEF SuccessLayer, l, p

\* Bytes and payload.
LEMMA BytesOf ==
  ASSUME NEW N \in 1 .. 3, NEW n \in Nat, NEW got, got.len \in Int, LenAt(got, N) - HDR = n
  PROVE  got.len = HDR + (n + (N - 1) * TunnelOverhead)
BY DEF LenAt, HDR, THDR, TunnelOverhead

\* The buffer has a size.
LEMMA BufferTyped ==
  ASSUME NEW cmd \in Cmds, NEW level \in 0 .. 2
  PROVE  mctp_buffer(cmd, level) \in Int
<1>1. RspMax[cmd] \in Nat
  BY CmdAssumption
<1>2. QED BY <1>1 DEF mctp_buffer, rsp_msg_sz, HDR, THDR, TunnelOverhead

\* A reply that passes the checks over MCTP is a successful one.
LEMMA MctpRebuilt ==
  ASSUME NEW W, NEW N, NEW cmd, NEW r, NEW got, PassedMctp(W, N, cmd, r, got)
  PROVE  \E n \in RspMin[cmd] .. RspMax[cmd] : got = ReplyTo(W, N, 0, n)
<1>1. N \in 1 .. 3 /\ Len(W) = N /\ cmd \in Cmds /\ r \in AnyReply(W, cmd)
  BY DEF PassedMctp
<1>2. (\A i \in 1 .. N : Passes(W, got, i, N)) /\ Fits(got, cmd, N)
  BY Zenon DEF PassedMctp
<1>3. PICK d \in 1 .. N, n \in Nat : OnceSound(r, d, n)
  BY <1>1, AnyShape, Zenon
<1>4. d \in 1 .. 3 /\ N - 1 \in 0 .. 2 /\ mctp_buffer(cmd, N - 1) \in Int
  BY <1>1, <1>3, BufferTyped
<1>5. /\ IsReply(got, d) /\ got.layers = r.layers
      /\ got.len <= r.len /\ got.len <= mctp_buffer(cmd, N - 1)
  <2>1. got = Received(r, mctp_buffer(cmd, N - 1))
    BY DEF PassedMctp
  <2>2. IsReply(r, d)
    BY <1>3 DEF OnceSound
  <2>3. QED BY <1>4, <2>1, <2>2, ReceivedShape
<1>6. got.len \in Int
  BY <1>5 DEF IsReply
<1>7. d = N /\ LenAt(got, N) - HDR = n /\ got.layers[N].length = n - THDR
  <2>1. Passes(W, got, N, N)
    BY <1>1, <1>2
  <2>2. PassedWith(W, N, d, n, r, got)
    BY <1>1, <1>3, <1>5, <2>1 DEF PassedWith
  <2>3. QED BY <2>2, DeepestKept
<1>8. n \in RspMin[cmd] .. RspMax[cmd]
  BY <1>1, <1>2, <1>5, <1>6, <1>7, PayloadFits
<1>9. got.len = HDR + (n + (N - 1) * TunnelOverhead)
  BY <1>1, <1>3, <1>6, <1>7, BytesOf
<1>10. ASSUME NEW i \in 1 .. N
       PROVE  got.layers[i] = SuccessLayer(W, N, n, i)
  <2>1. Passes(W, got, i, N) /\ IsReply(got, N)
    BY <1>2, <1>5, <1>7, Zenon
  <2>2. PassedOf(W, N, n, got, i)
    BY <1>1, <1>3, <1>7, <1>9, <2>1, Zenon DEF PassedOf
  <2>3. QED BY <2>2, MessageRebuilt, ZenonT(40)
<1> DEFINE S == ReplyTo(W, N, 0, n)
           Ls == [i \in 1 .. N |-> SuccessLayer(W, N, n, i)]
<1>11. S.layers = Ls /\ S.len = HDR + (n + (N - 1) * TunnelOverhead) /\ IsReply(S, N)
  <2>1. n \in Int /\ 0 \in Nat
    BY <1>3
  <2>2. S.layers = Ls /\ S.len = HDR + (n + (N - 1) * TunnelOverhead)
    BY <1>1, <2>1, SuccessShape, Zenon
  <2>3. SoundReply(S, N, n)
    BY <1>1, <1>3, <2>1, SoundShape, Zenon
  <2>4. QED BY <2>2, <2>3, Zenon DEF SoundReply
<1>12. got.layers = Ls
  BY <1>5, <1>7, <1>10 DEF IsReply
<1> HIDE DEF S, Ls
<1>13. got = S
  BY <1>5, <1>9, <1>11, <1>12 DEF IsReply
<1>14. QED BY <1>8, <1>13 DEF S

\* A tunnelled reply that passes the checks over ioctl is a successful one.
LEMMA IoctlRebuilt ==
  ASSUME NEW W, NEW N, NEW cmd, NEW r, NEW got, PassedIoctl(W, N, cmd, r, got)
  PROVE  \E n \in RspMin[cmd] .. RspMax[cmd] : got = DriverHeader(ReplyTo(W, N, 0, n))
<1>1. N \in 2 .. 3 /\ Len(W) = N /\ cmd \in Cmds /\ r \in AnyReply(W, cmd)
  BY DEF PassedIoctl
<1>2. /\ PassesOuter(got) /\ Fits(got, cmd, N)
      /\ \A i \in 2 .. N : Passes(W, got, i, N)
  BY Zenon DEF PassedIoctl
<1>3. N \in 1 .. 3 /\ N - 1 \in 0 .. 2 /\ N \in 2 .. N
  BY <1>1
<1>4. PICK d \in 1 .. N, n \in Nat : OnceSound(r, d, n)
  BY <1>1, <1>3, AnyShape, Zenon
<1>5. d \in 1 .. 3 /\ mctp_buffer(cmd, N - 1) \in Int /\ IsReply(r, d)
  BY <1>1, <1>3, <1>4, BufferTyped DEF OnceSound
<1> DEFINE q == DriverHeader(r)
<1>6. /\ IsReply(q, d) /\ \A i \in 2 .. d : q.layers[i] = r.layers[i]
      /\ q.len = IF r.len < HDR THEN HDR ELSE r.len
  BY <1>5, DriverShape, Zenon
<1>7. q.layers[1] = [category |-> RSP, tag |-> 0, opcode |-> NOOP,
                     return_code |-> r.layers[1].return_code, pl_length |-> 0,
                     length |-> r.layers[1].length]
  BY <1>5, DriverShape, Zenon
<1>8. /\ IsReply(got, d) /\ got.layers = q.layers
      /\ got.len <= q.len /\ got.len <= mctp_buffer(cmd, N - 1)
  <2>1. got = Received(q, mctp_buffer(cmd, N - 1))
    BY DEF PassedIoctl
  <2>2. QED BY <1>5, <1>6, <2>1, ReceivedShape
<1> HIDE DEF q
<1>9. got.len \in Int /\ r.len \in Int /\ Len(got.layers) = d
  BY <1>5, <1>8 DEF IsReply
<1>10. Passes(W, got, N, N)
  BY <1>2, <1>3
<1>11. d \in 2 .. d
  <2>1. CASE d = 1
    <3>1. Layer(got, N) = ZeroLayer
      BY <1>1, <1>9, <2>1 DEF Layer
    <3>2. QED BY <1>10, <3>1 DEF Passes, ZeroLayer, RSP, REQ
  <2>2. CASE d # 1
    BY <1>5, <2>2
  <2>3. QED BY <2>1, <2>2
<1>12. d = N /\ LenAt(got, N) - HDR = n /\ got.layers[N].length = n - THDR
  <2>1. got.layers[d] = r.layers[d]
    BY <1>6, <1>8, <1>11, Zenon
  <2>2. got.len <= r.len \/ r.len < HDR
    BY <1>6, <1>8
  <2>3. PassedWith(W, N, d, n, r, got)
    BY <1>3, <1>4, <1>8, <1>10, <2>1, <2>2, Zenon DEF PassedWith
  <2>4. QED BY <2>3, DeepestKept
<1>13. n \in RspMin[cmd] .. RspMax[cmd]
  BY <1>1, <1>2, <1>3, <1>8, <1>9, <1>12, PayloadFits
<1>14. got.len = HDR + (n + (N - 1) * TunnelOverhead)
  BY <1>3, <1>4, <1>9, <1>12, BytesOf
<1> DEFINE S == ReplyTo(W, N, 0, n)
           Ls == [i \in 1 .. N |-> SuccessLayer(W, N, n, i)]
           D == DriverHeader(S)
<1>15. S.layers = Ls /\ S.len = HDR + (n + (N - 1) * TunnelOverhead) /\ IsReply(S, N)
  <2>1. n \in Int /\ 0 \in Nat
    BY <1>4
  <2>2. S.layers = Ls /\ S.len = HDR + (n + (N - 1) * TunnelOverhead)
    BY <1>3, <2>1, SuccessShape, Zenon
  <2>3. SoundReply(S, N, n)
    BY <1>3, <1>4, <2>1, SoundShape, Zenon
  <2>4. QED BY <2>2, <2>3, Zenon DEF SoundReply
<1> HIDE DEF S
<1>16. /\ IsReply(D, N) /\ \A i \in 2 .. N : D.layers[i] = S.layers[i]
       /\ D.len = IF S.len < HDR THEN HDR ELSE S.len
  BY <1>3, <1>15, DriverShape, Zenon
<1>17. D.layers[1] = [category |-> RSP, tag |-> 0, opcode |-> NOOP,
                      return_code |-> S.layers[1].return_code, pl_length |-> 0,
                      length |-> S.layers[1].length]
  BY <1>3, <1>15, DriverShape, Zenon
<1> HIDE DEF D
<1>18. got.len = D.len
  <2>1. ~ (S.len < HDR)
    BY <1>1, <1>4, <1>15 DEF HDR, THDR, TunnelOverhead
  <2>2. QED BY <1>14, <1>15, <1>16, <2>1, Zenon
<1>19. got.layers[1] = D.layers[1]
  <2>1. Layer(got, 1) = got.layers[1]
    BY <1>5, <1>9 DEF Layer
  <2>2. r.layers[1].return_code = 0 /\ r.layers[1].length = LenAt(got, 1) - TunnelOverhead
    <3>1. got.layers[1].return_code = 0 /\ got.layers[1].length = LenAt(got, 1) - TunnelOverhead
      BY <1>2, <2>1, Zenon DEF PassesOuter
    <3>2. /\ got.layers[1].return_code = r.layers[1].return_code
          /\ got.layers[1].length = r.layers[1].length
      BY <1>7, <1>8
    <3>3. QED BY <3>1, <3>2, Zenon
  <2>3. S.layers[1] = SuccessLayer(W, N, n, 1)
    <3>1. 1 \in 1 .. N
      BY <1>1
    <3>2. QED BY <1>15, <3>1, Zenon
  <2>4. /\ S.layers[1].return_code = 0
        /\ S.layers[1].length = (n + (N - 1) * TunnelOverhead) - THDR
    BY <2>3 DEF SuccessLayer
  <2>5. LenAt(got, 1) - TunnelOverhead = (n + (N - 1) * TunnelOverhead) - THDR
    BY <1>1, <1>4, <1>14 DEF LenAt, HDR, THDR, TunnelOverhead
  <2>6. QED BY <1>7, <1>8, <1>17, <2>2, <2>4, <2>5, Zenon
<1>20. ASSUME NEW i \in 2 .. N
       PROVE  got.layers[i] = D.layers[i]
  <2>1. i \in 1 .. N
    BY <1>1, <1>20
  <2>2. Passes(W, got, i, N) /\ IsReply(got, N)
    BY <1>2, <1>8, <1>12, <1>20, Zenon
  <2>3. PassedOf(W, N, n, got, i)
    BY <1>3, <1>4, <1>12, <1>14, <2>1, <2>2, Zenon DEF PassedOf
  <2>4. got.layers[i] = SuccessLayer(W, N, n, i)
    BY <2>3, MessageRebuilt, ZenonT(40)
  <2>5. S.layers[i] = SuccessLayer(W, N, n, i)
    BY <1>15, <2>1, Zenon
  <2>6. QED BY <1>16, <1>20, <2>4, <2>5, Zenon
<1>21. got = D
  <2>1. \A i \in 1 .. N : got.layers[i] = D.layers[i]
    <3>1. \A i \in 1 .. N : i = 1 \/ i \in 2 .. N
      BY <1>1
    <3>2. QED BY <1>19, <1>20, <3>1, Zenon
  <2>2. got.layers = D.layers
    BY <1>8, <1>12, <1>16, <2>1 DEF IsReply
  <2>3. QED BY <1>8, <1>16, <1>18, <2>2 DEF IsReply
<1>22. QED BY <1>13, <1>21 DEF D, S

\* A successful reply passes every check.
LEMMA SuccessPasses ==
  ASSUME NEW N \in 1 .. 3, NEW W, NEW cmd \in Cmds, NEW n \in RspMin[cmd] .. RspMax[cmd]
  PROVE  LET S == ReplyTo(W, N, 0, n) IN
         /\ S.len \in Int
         /\ \A i \in 1 .. N : Passes(W, S, i, N)
         /\ Fits(S, cmd, N)
<1> DEFINE S == ReplyTo(W, N, 0, n)
<1>1. RspMin[cmd] \in Nat /\ RspMax[cmd] \in Nat
  BY CmdAssumption
<1>2. n \in Int /\ n \in Nat
  BY <1>1
<1>3. /\ S.layers = [i \in 1 .. N |-> SuccessLayer(W, N, n, i)]
      /\ S.len = HDR + (n + (N - 1) * TunnelOverhead)
  BY <1>2, SuccessShape, Zenon
<1>4. S.len \in Int /\ LenAt(S, N) = HDR + n
  BY <1>2, <1>3 DEF LenAt, HDR, THDR, TunnelOverhead
<1> HIDE DEF S
<1>5. Fits(S, cmd, N)
  BY <1>1, <1>4 DEF Fits, rsp_msg_sz_min, IsFixed, HDR
<1>6. ASSUME NEW i \in 1 .. N
      PROVE  Passes(W, S, i, N)
  <2>1. Layer(S, i) = SuccessLayer(W, N, n, i)
    BY <1>3 DEF Layer
  <2>2. LenAt(S, i) = HDR + (n + (N - i) * TunnelOverhead)
    BY <1>2, <1>3 DEF LenAt, HDR, THDR, TunnelOverhead
  <2>3. QED BY <1>2, <2>1, <2>2 DEF Passes, SuccessLayer, HDR, THDR, TunnelOverhead
<1>7. QED BY <1>4, <1>5, <1>6 DEF S

\* So does a tunnelled one behind the driver's header.
LEMMA DriverSuccessPasses ==
  ASSUME NEW N \in 2 .. 3, NEW W, NEW cmd \in Cmds, NEW n \in RspMin[cmd] .. RspMax[cmd]
  PROVE  LET D == DriverHeader(ReplyTo(W, N, 0, n)) IN
         /\ D.len \in Int /\ Layer(D, 1).return_code \in Int
         /\ PassesOuter(D)
         /\ \A i \in 2 .. N : Passes(W, D, i, N)
         /\ Fits(D, cmd, N)
<1> DEFINE S == ReplyTo(W, N, 0, n)
           D == DriverHeader(S)
<1>0. N \in 1 .. 3
  OBVIOUS
<1>1. RspMin[cmd] \in Nat /\ RspMax[cmd] \in Nat
  BY CmdAssumption
<1>2. n \in Int /\ n \in Nat
  BY <1>1
<1>3. /\ S.layers = [i \in 1 .. N |-> SuccessLayer(W, N, n, i)]
      /\ S.len = HDR + (n + (N - 1) * TunnelOverhead)
  BY <1>0, <1>2, SuccessShape, Zenon
<1>4. IsReply(S, N)
  BY <1>0, <1>2, SoundShape DEF SoundReply
<1>5. /\ IsReply(D, N) /\ \A i \in 2 .. N : D.layers[i] = S.layers[i]
      /\ D.layers[1] = [category |-> RSP, tag |-> 0, opcode |-> NOOP,
                        return_code |-> S.layers[1].return_code, pl_length |-> 0,
                        length |-> S.layers[1].length]
      /\ D.len = IF S.len < HDR THEN HDR ELSE S.len
  BY <1>0, <1>4, DriverShape
<1>6. /\ S.len \in Int
      /\ \A i \in 1 .. N : Passes(W, S, i, N)
      /\ Fits(S, cmd, N)
  BY <1>0, SuccessPasses
<1> HIDE DEF D, S
<1>7. D.len = S.len
  BY <1>2, <1>3, <1>5 DEF HDR, THDR, TunnelOverhead
<1>8. \A i \in 2 .. N : Layer(D, i) = Layer(S, i)
  BY <1>4, <1>5 DEF Layer, IsReply
<1>9. /\ Layer(D, 1).return_code = Layer(S, 1).return_code
      /\ Layer(D, 1).length = Layer(S, 1).length
  BY <1>4, <1>5 DEF Layer, IsReply
<1>10. Passes(W, S, 1, N) /\ 1 < N
  BY <1>6
<1>11. PassesOuter(D) /\ Layer(D, 1).return_code \in Int
  BY <1>7, <1>9, <1>10 DEF Passes, PassesOuter, LenAt
<1>12. \A i \in 2 .. N : Passes(W, D, i, N)
  BY <1>6, <1>7, <1>8 DEF Passes, LenAt
<1>13. Fits(D, cmd, N)
  BY <1>6, <1>7 DEF Fits, LenAt
<1>14. QED BY <1>6, <1>7, <1>11, <1>12, <1>13 DEF D, S

\* The messages of a sound error reply.
ErrorReply(W, d, code, R) ==
  /\ R.len = HDR + (d - 1) * TunnelOverhead
  /\ \A i \in 1 .. d :
       /\ Layer(R, i).category = RSP
       /\ Layer(R, i).tag = W[i].tag /\ Layer(R, i).opcode = W[i].opcode
       /\ Layer(R, i).return_code = IF i = d THEN code ELSE 0
       /\ Layer(R, i).pl_length = (d - i) * TunnelOverhead
       /\ Layer(R, i).length = (d - i) * TunnelOverhead - THDR

\* A reply to d messages with a code and no payload is one.
LEMMA ErrorShape ==
  ASSUME NEW W, NEW d \in 1 .. 3, NEW code \in Nat
  PROVE  ErrorReply(W, d, code, ReplyTo(W, d, code, 0))
<1> DEFINE R == ReplyTo(W, d, code, 0)
           rest(i) == 0 + (d - i) * (HDR + THDR)
           lay(i) == [category |-> RSP, tag |-> W[i].tag, opcode |-> W[i].opcode,
                      return_code |-> IF i = d THEN code ELSE 0,
                      pl_length |-> rest(i), length |-> rest(i) - THDR]
<1>1. R = [layers |-> [i \in 1 .. d |-> lay(i)], len |-> HDR + rest(1)]
  BY DEF ReplyTo
<1>2. \A i \in 1 .. d : rest(i) = (d - i) * TunnelOverhead
  BY DEF TunnelOverhead, HDR, THDR
<1> HIDE DEF rest
<1>3. ASSUME NEW i \in 1 .. d
      PROVE  /\ lay(i).category = RSP
             /\ lay(i).tag = W[i].tag /\ lay(i).opcode = W[i].opcode
             /\ lay(i).return_code = IF i = d THEN code ELSE 0
             /\ lay(i).pl_length = (d - i) * TunnelOverhead
             /\ lay(i).length = (d - i) * TunnelOverhead - THDR
  BY <1>2
<1> HIDE DEF lay, R
<1>4. \A i \in 1 .. d : Layer(R, i) = lay(i)
  BY <1>1 DEF Layer
<1>5. R.len = HDR + (d - 1) * TunnelOverhead
  BY <1>1, <1>2
<1>6. QED BY <1>3, <1>4, <1>5, Zenon DEF ErrorReply, R

\* Over MCTP the code of a sound error reply is the value of the call.
LEMMA ErrorIsReturned ==
  ASSUME NEW N \in 1 .. 3, NEW W, NEW cmd, NEW d \in 1 .. N, NEW code \in Nat \ {0}
  PROVE  mctp_rc(W, ReplyTo(W, d, code, 0), cmd, N - 1) = code
<1> DEFINE R == ReplyTo(W, d, code, 0)
           len(i) == R.len - (i - 1) * TunnelOverhead
<1>1. /\ R.len = HDR + (d - 1) * TunnelOverhead
      /\ \A i \in 1 .. d :
           /\ Layer(R, i).category = RSP
           /\ Layer(R, i).tag = W[i].tag /\ Layer(R, i).opcode = W[i].opcode
           /\ Layer(R, i).return_code = IF i = d THEN code ELSE 0
           /\ Layer(R, i).pl_length = (d - i) * TunnelOverhead
           /\ Layer(R, i).length = (d - i) * TunnelOverhead - THDR
  <2>1. d \in 1 .. 3 /\ code \in Nat
    OBVIOUS
  <2>2. ErrorReply(W, d, code, R)
    BY <2>1, ErrorShape
  <2> HIDE DEF R
  <2>3. QED BY <2>2, Zenon DEF ErrorReply
<1> HIDE DEF R
<1>2. \A i \in 1 .. d : len(i) = HDR + (d - i) * TunnelOverhead
  BY <1>1 DEF HDR, THDR, TunnelOverhead
<1>3. \A fixed, min : sanity_check_mctp_rsp(W[d], Layer(R, d), len(d), fixed, min) = code
  <2>1. d \in 1 .. d
    OBVIOUS
  <2>2. ~NotTheReply(W[d], Layer(R, d), len(d))
    BY <1>1, <1>2, <2>1 DEF NotTheReply, HDR, THDR, TunnelOverhead
  <2>3. Layer(R, d).return_code = code
    BY <1>1, <2>1
  <2>4. QED BY <2>2, <2>3 DEF sanity_check_mctp_rsp
<1>4. tunnel_rc(W, R, d, len(d)) = code
  BY <1>3, Zenon DEF tunnel_rc
<1>5. ASSUME NEW i \in 1 .. d, i < d
      PROVE  tunnel_rc(W, R, i, len(i)) = 0
  <2>1. /\ Layer(R, i).category = RSP
        /\ Layer(R, i).tag = W[i].tag /\ Layer(R, i).opcode = W[i].opcode
        /\ Layer(R, i).return_code = 0
        /\ Layer(R, i).pl_length = (d - i) * TunnelOverhead
        /\ Layer(R, i).length = (d - i) * TunnelOverhead - THDR
    BY <1>1, <1>5
  <2>2. len(i) = HDR + (d - i) * TunnelOverhead
    BY <1>2
  <2> HIDE DEF len
  <2>3. QED
    BY <1>5, <2>1, <2>2
       DEF tunnel_rc, sanity_check_mctp_rsp, NotTheReply, WrongLength, HDR, THDR, TunnelOverhead
<1>6. len(1) = R.len /\ len(2) = R.len - TunnelOverhead /\ len(3) = R.len - 2 * TunnelOverhead
  BY <1>1 DEF HDR, THDR, TunnelOverhead
<1> HIDE DEF len
<1>7. CASE N = 1
  BY <1>3, <1>6, <1>7 DEF mctp_rc, direct_rc, R
<1>8. CASE N = 2
  <2>1. CASE d = 1
    BY <1>4, <1>6, <1>8, <2>1 DEF mctp_rc, tunnel1_rc, R
  <2>2. CASE d = 2
    <3>1. tunnel_rc(W, R, 1, len(1)) = 0
      BY <1>5, <2>2
    <3>2. QED BY <1>3, <1>6, <1>8, <2>2, <3>1 DEF mctp_rc, tunnel1_rc, R
  <2>3. QED BY <1>8, <2>1, <2>2
<1>9. CASE N = 3
  <2>1. CASE d = 1
    BY <1>4, <1>6, <1>9, <2>1 DEF mctp_rc, tunnel2_rc, R
  <2>2. CASE d = 2
    <3>1. tunnel_rc(W, R, 1, len(1)) = 0
      BY <1>5, <2>2
    <3>2. QED BY <1>4, <1>6, <1>9, <2>2, <3>1 DEF mctp_rc, tunnel2_rc, R
  <2>3. CASE d = 3
    <3>1. tunnel_rc(W, R, 1, len(1)) = 0 /\ tunnel_rc(W, R, 2, len(2)) = 0
      BY <1>5, <2>3
    <3>2. QED BY <1>3, <1>6, <1>9, <2>3, <3>1 DEF mctp_rc, tunnel2_rc, R
  <2>4. QED BY <1>9, <2>1, <2>2, <2>3
<1>10. QED BY <1>7, <1>8, <1>9

\* The value of a call is a number.
LEMMA ValueTyped ==
  ASSUME NEW W, NEW got, got.len \in Int, NEW cmd, NEW level,
         \A i \in 1 .. 3 : Layer(got, i).return_code \in Int
  PROVE  mctp_rc(W, got, cmd, level) \in Int /\ ioctl_rc(W, got, cmd, level) \in Int
<1>1. /\ Layer(got, 1).return_code \in Int /\ Layer(got, 2).return_code \in Int
      /\ Layer(got, 3).return_code \in Int
  OBVIOUS
<1>2. \A w, l, len, fixed, min : l.return_code \in Int =>
        sanity_check_mctp_rsp(w, l, len, fixed, min) \in Int
  BY DEF sanity_check_mctp_rsp
<1>3. \A i, len : Layer(got, i).return_code \in Int => tunnel_rc(W, got, i, len) \in Int
  <2> TAKE i, len
  <2> HAVE Layer(got, i).return_code \in Int
  <2> DEFINE rc == sanity_check_mctp_rsp(W[i], Layer(got, i), len, FALSE, TunnelOverhead)
  <2>1. rc \in Int
    BY <1>2, Zenon
  <2> HIDE DEF rc
  <2>2. tunnel_rc(W, got, i, len) \in {rc, -1, 0}
    BY Zenon DEF tunnel_rc, rc
  <2>3. QED BY <2>1, <2>2
<1>4. \A min : ioctl_outer_rc(got, min) \in Int
  BY <1>1 DEF ioctl_outer_rc
<1>5. direct_rc(W, got, cmd) \in Int
  BY <1>1, <1>2 DEF direct_rc
<1>6. tunnel1_rc(W, got, cmd) \in Int
  BY <1>1, <1>2, <1>3 DEF tunnel1_rc
<1>7. tunnel2_rc(W, got, cmd) \in Int
  BY <1>1, <1>2, <1>3 DEF tunnel2_rc
<1>8. ioctl_direct_rc(got) \in Int
  BY <1>1 DEF ioctl_direct_rc
<1>9. ioctl_tunnel1_rc(W, got, cmd) \in Int
  BY <1>1, <1>2, <1>4 DEF ioctl_tunnel1_rc
<1>10. ioctl_tunnel2_rc(W, got, cmd) \in Int
  BY <1>1, <1>2, <1>4 DEF ioctl_tunnel2_rc
<1>11. QED BY <1>5, <1>6, <1>7, <1>8, <1>9, <1>10 DEF mctp_rc, ioctl_rc

-----------------------------------------------------------------------------
(* A command and its answer *)

\* reply is some reply to the command as its link hands it over, and rc what
\* the checks make of it.
MctpAnswered(cmd, level, reply, rc) ==
  /\ \E r \in AnyReply(WireOf("mctp", cmd, level), cmd) :
       reply = Received(r, mctp_buffer(cmd, level))
  /\ rc = mctp_rc(WireOf("mctp", cmd, level), reply, cmd, level)

IoctlAnswered(cmd, level, reply, rc) ==
  /\ \E r \in AnyReply(WireOf("ioctl", cmd, level), cmd) :
       reply = Received(DriverHeader(r), mctp_buffer(cmd, level))
  /\ rc = ioctl_rc(WireOf("ioctl", cmd, level), reply, cmd, level)

\* A reply as it is handed over has a length, and a return code at each level.
LEMMA ReceivedTyped ==
  ASSUME NEW N \in 1 .. 3, NEW W, Len(W) = N, NEW cmd \in Cmds,
         NEW r \in AnyReply(W, cmd), NEW got,
         \/ got = Received(r, mctp_buffer(cmd, N - 1))
         \/ got = Received(DriverHeader(r), mctp_buffer(cmd, N - 1))
  PROVE  /\ got.len \in Int
         /\ Layer(got, 1).return_code \in Int
         /\ \A i \in 1 .. 3 : Layer(got, i).return_code \in Int
<1>1. mctp_buffer(cmd, N - 1) \in Int
  <2>1. RspMax[cmd] \in Nat
    BY CmdAssumption
  <2>2. QED BY <2>1 DEF mctp_buffer, rsp_msg_sz, HDR, THDR, TunnelOverhead
<1>2. PICK d \in 1 .. N, n \in Nat : OnceSound(r, d, n)
  BY AnyShape, Zenon
<1>3. d \in 1 .. 3 /\ IsReply(r, d)
  BY <1>2 DEF OnceSound
<1>4. IsReply(DriverHeader(r), d)
  BY <1>3, DriverShape, Zenon
<1>5. IsReply(got, d)
  BY <1>1, <1>3, <1>4, ReceivedShape, Zenon
<1>6. got.len \in Int /\ Len(got.layers) = d
  BY <1>3, <1>5 DEF IsReply
<1>7. ASSUME NEW i \in 1 .. 3
      PROVE  Layer(got, i).return_code \in Int
  <2>1. CASE i \in 1 .. d
    <3>1. Layer(got, i) = got.layers[i]
      BY <1>6, <2>1 DEF Layer
    <3>2. IsLayer(got.layers[i])
      BY <1>5, <2>1 DEF IsReply
    <3>3. QED BY <3>1, <3>2 DEF IsLayer
  <2>2. CASE i \notin 1 .. d
    BY <1>6, <2>2 DEF Layer, ZeroLayer
  <2>3. QED BY <2>1, <2>2
<1>8. QED BY <1>6, <1>7

\* The value of a call that was answered is a number.
LEMMA AnsweredTyped ==
  ASSUME NEW cmd \in Cmds, NEW level \in 0 .. 2, NEW reply, NEW rc
  PROVE  /\ MctpAnswered(cmd, level, reply, rc) => rc \in Int
         /\ IoctlAnswered(cmd, level, reply, rc) => rc \in Int
<1> DEFINE N == level + 1
<1>1. N \in 1 .. 3 /\ N - 1 = level
  OBVIOUS
<1>2. \A l : Len(WireOf(l, cmd, level)) = N
  BY WireShape, Zenon
<1> HIDE DEF N
<1>3. ASSUME MctpAnswered(cmd, level, reply, rc)
      PROVE  rc \in Int
  <2> DEFINE W == WireOf("mctp", cmd, level)
  <2>1. PICK r \in AnyReply(W, cmd) : reply = Received(r, mctp_buffer(cmd, N - 1))
    BY <1>1, <1>3, Zenon DEF MctpAnswered
  <2>2. Len(W) = N
    BY <1>2
  <2> HIDE DEF W
  <2>3. reply.len \in Int /\ \A i \in 1 .. 3 : Layer(reply, i).return_code \in Int
    BY <1>1, <2>1, <2>2, ReceivedTyped, Zenon
  <2>4. mctp_rc(W, reply, cmd, level) \in Int
    BY <2>3, ValueTyped
  <2>5. QED BY <1>3, <2>4 DEF MctpAnswered, W
<1>4. ASSUME IoctlAnswered(cmd, level, reply, rc)
      PROVE  rc \in Int
  <2> DEFINE W == WireOf("ioctl", cmd, level)
  <2>1. PICK r \in AnyReply(W, cmd) :
           reply = Received(DriverHeader(r), mctp_buffer(cmd, N - 1))
    BY <1>1, <1>4, Zenon DEF IoctlAnswered
  <2>2. Len(W) = N
    BY <1>2
  <2> HIDE DEF W
  <2>3. reply.len \in Int /\ \A i \in 1 .. 3 : Layer(reply, i).return_code \in Int
    BY <1>1, <2>1, <2>2, ReceivedTyped, Zenon
  <2>4. ioctl_rc(W, reply, cmd, level) \in Int
    BY <2>3, ValueTyped
  <2>5. QED BY <1>4, <2>4 DEF IoctlAnswered, W
<1>5. QED BY <1>3, <1>4

\* A reply over MCTP is accepted exactly when it is a successful one.
LEMMA MctpExact ==
  ASSUME NEW cmd \in Cmds, NEW level \in 0 .. 2, NEW reply, NEW rc,
         MctpAnswered(cmd, level, reply, rc)
  PROVE  rc = 0 <=> \E n \in RspMin[cmd] .. RspMax[cmd] :
                      reply = ReplyTo(WireOf("mctp", cmd, level), level + 1, 0, n)
<1> DEFINE W == WireOf("mctp", cmd, level)
           N == level + 1
<1>1. N \in 1 .. 3 /\ N - 1 = level
  OBVIOUS
<1>2. Len(W) = N
  BY WireShape, Zenon
<1>3. PICK r \in AnyReply(W, cmd) : reply = Received(r, mctp_buffer(cmd, N - 1))
  BY <1>1, Zenon DEF MctpAnswered
<1>4. rc = mctp_rc(W, reply, cmd, level)
  BY Zenon DEF MctpAnswered
<1> HIDE DEF W, N
<1>5. reply.len \in Int
  BY <1>1, <1>2, <1>3, ReceivedTyped, Zenon
<1>6. rc = 0 <=> (\A i \in 1 .. N : Passes(W, reply, i, N)) /\ Fits(reply, cmd, N)
  BY <1>4, <1>5, MctpChecks, Zenon DEF N
<1>7. ASSUME rc = 0
      PROVE  \E n \in RspMin[cmd] .. RspMax[cmd] : reply = ReplyTo(W, N, 0, n)
  <2>1. PassedMctp(W, N, cmd, r, reply)
    BY <1>1, <1>2, <1>3, <1>6, <1>7, Zenon DEF PassedMctp
  <2>2. QED BY <2>1, MctpRebuilt, SMTT(40)
<1>8. ASSUME NEW n \in RspMin[cmd] .. RspMax[cmd], reply = ReplyTo(W, N, 0, n)
      PROVE  rc = 0
  <2>1. (\A i \in 1 .. N : Passes(W, reply, i, N)) /\ Fits(reply, cmd, N)
    BY <1>1, <1>8, SuccessPasses, Zenon
  <2>2. QED BY <1>6, <2>1, Zenon
<1>9. QED BY <1>7, <1>8, Zenon DEF W, N

\* A tunnelled reply over ioctl is accepted exactly when it is a successful one.
LEMMA IoctlExact ==
  ASSUME NEW cmd \in Cmds, NEW level \in 1 .. 2, NEW reply, NEW rc,
         IoctlAnswered(cmd, level, reply, rc)
  PROVE  rc = 0 <=> \E n \in RspMin[cmd] .. RspMax[cmd] :
                      reply = DriverHeader(
                                ReplyTo(WireOf("ioctl", cmd, level), level + 1, 0, n))
<1> DEFINE W == WireOf("ioctl", cmd, level)
           N == level + 1
<1>1. N \in 1 .. 3 /\ N \in 2 .. 3 /\ N - 1 = level /\ level \in 0 .. 2
  OBVIOUS
<1>2. Len(W) = N
  BY <1>1, WireShape, Zenon
<1>3. PICK r \in AnyReply(W, cmd) :
         reply = Received(DriverHeader(r), mctp_buffer(cmd, N - 1))
  BY <1>1, Zenon DEF IoctlAnswered
<1>4. rc = ioctl_rc(W, reply, cmd, level)
  BY Zenon DEF IoctlAnswered
<1> HIDE DEF W, N
<1>5. reply.len \in Int /\ Layer(reply, 1).return_code \in Int
  BY <1>1, <1>2, <1>3, ReceivedTyped, Zenon
<1>6. rc = 0 <=> /\ PassesOuter(reply)
                 /\ \A i \in 2 .. N : Passes(W, reply, i, N)
                 /\ Fits(reply, cmd, N)
  BY <1>4, <1>5, IoctlChecks, Zenon DEF N
<1>7. ASSUME rc = 0
      PROVE  \E n \in RspMin[cmd] .. RspMax[cmd] : reply = DriverHeader(ReplyTo(W, N, 0, n))
  <2>1. PassedIoctl(W, N, cmd, r, reply)
    BY <1>1, <1>2, <1>3, <1>6, <1>7, Zenon DEF PassedIoctl
  <2>2. QED BY <2>1, IoctlRebuilt, SMTT(40)
<1>8. ASSUME NEW n \in RspMin[cmd] .. RspMax[cmd], reply = DriverHeader(ReplyTo(W, N, 0, n))
      PROVE  rc = 0
  <2>1. /\ PassesOuter(reply)
        /\ \A i \in 2 .. N : Passes(W, reply, i, N)
        /\ Fits(reply, cmd, N)
    BY <1>1, <1>8, DriverSuccessPasses, Zenon
  <2>2. QED BY <1>6, <2>1, Zenon
<1>9. QED BY <1>7, <1>8, Zenon DEF W, N
=============================================================================
