------------------------ MODULE ChunkedTransferProofs ------------------------
(***************************************************************************)
(* The properties of ChunkedTransfer for files and logs of any size, any   *)
(* chunk size the option parsers accept, and 32-bit numbers of any width   *)
(* that is a multiple of 128.                                              *)
(***************************************************************************)
EXTENDS ChunkedTransfer, TLAPS

-----------------------------------------------------------------------------
(* Arithmetic of the chunks *)

\* The number of chunks rounds up: all but the last one do not reach the end.
LEMMA RoundedUp ==
  ASSUME NEW c \in Nat, c > 1, NEW s \in Nat, s > 0
  PROVE  LET n == (s + c - 1) \div c
         IN  n \in Nat /\ n >= 1 /\ (n - 1) * c < s /\ s <= n * c
<1> DEFINE n == (s + c - 1) \div c
           r == (s + c - 1) % c
<1>1. n \in Int /\ r \in 0 .. c - 1 /\ s + c - 1 = c * n + r
  OBVIOUS
<1> HIDE DEF n, r
<1>2. (n - 1) * c = c * n - c /\ n * c = c * n
  BY <1>1
<1>3. (n - 1) * c < s /\ s <= n * c
  BY <1>1, <1>2
<1>4. n >= 1
  <2> SUFFICES ASSUME n <= 0 PROVE FALSE
    BY <1>1
  <2>1. PICK k \in Nat : n = -k
    BY <1>1
  <2>2. n * c = -(k * c) /\ k * c >= 0
    BY <2>1
  <2>3. QED BY <1>3, <2>2
<1>5. QED BY <1>1, <1>3, <1>4 DEF n

\* Products with the chunk size keep the order of the indices.
LEMMA Monotone ==
  ASSUME NEW c \in Nat, NEW i \in Nat, NEW k \in Nat, i <= k
  PROVE  i * c \in Nat /\ k * c \in Nat /\ i * c <= k * c
<1>1. PICK d \in Nat : k = i + d
  BY i <= k
<1>2. k * c = i * c + d * c /\ d * c >= 0 /\ i * c >= 0
  BY <1>1
<1>3. QED BY <1>2

\* A multiple of 128 that is not zero is more than one.
LEMMA SpaceTyped == OffsetSpace \in Nat /\ OffsetSpace > 1
BY TransferAssumption

\* There are fewer chunks than values of a 32-bit number.
LEMMA FewChunks ==
  ASSUME NEW c \in Nat, c > 1, NEW s \in Nat, s > 0, s <= OffsetSpace,
         NEW n \in Nat, n >= 1, (n - 1) * c < s
  PROVE  n < OffsetSpace
<1>1. OffsetSpace \in Nat /\ OffsetSpace > 1
  BY SpaceTyped
<1>2. PICK d \in Nat : c = 2 + d
  OBVIOUS
<1>3. (n - 1) * c = 2 * (n - 1) + (n - 1) * d
  BY <1>2
<1>4. (n - 1) * d >= 0
  <2>1. PICK m \in Nat : n - 1 = m
    OBVIOUS
  <2>2. m * d >= 0
    OBVIOUS
  <2>3. QED BY <2>1, <2>2
<1>5. 2 * (n - 1) < s
  <2>1. PICK p \in Int : p = (n - 1) * d
    OBVIOUS
  <2>2. QED BY <1>3, <1>4, <2>1
<1>6. QED BY <1>1, <1>5

\* The remainder of a multiple of d by a multiple of d is a multiple of d.
LEMMA MultipleKept ==
  ASSUME NEW d \in Nat, NEW x \in Nat, NEW y \in Nat, d * y \in Nat \ {0}
  PROVE  \E k \in Int : (d * x) % (d * y) = d * k
<1> DEFINE a == d * x
           m == d * y
<1>1. a \in Nat /\ m \in Nat \ {0}
  OBVIOUS
<1> HIDE DEF a, m
<1>2. a \div m \in Int /\ a % m \in Int /\ a = m * (a \div m) + (a % m)
  BY <1>1
<1>3. PICK q \in Int : q = a \div m
  BY <1>2
<1>4. a % m = a - m * q
  BY <1>1, <1>2, <1>3
<1>5. PICK k \in Int : k = x - y * q
  OBVIOUS
<1>6. a - m * q = d * k
  BY <1>5 DEF a, m
<1>7. QED BY Zenon, <1>4, <1>5, <1>6 DEF a, m

\* So an aligned size stays aligned.
LEMMA AlignmentKept ==
  ASSUME NEW a \in Nat, NEW m \in Nat \ {0}, m % 128 = 0
  PROVE  /\ a % m \in Nat
         /\ a % 128 = 0 => (a % m) % 128 = 0
         /\ a % 4 = 0 => (a % m) % 4 = 0
<1>1. a % m \in Nat
  OBVIOUS
<1>2. PICK y \in Nat : m = 128 * y /\ m = 4 * (32 * y)
  BY m = 128 * (m \div 128) + (m % 128)
<1>3. ASSUME a % 128 = 0 PROVE (a % m) % 128 = 0
  <2>1. PICK x \in Nat : a = 128 * x
    BY <1>3, a = 128 * (a \div 128) + (a % 128)
  <2>2. PICK k \in Int : a % m = 128 * k
    <3>1. PICK d \in Nat : d = 128
      OBVIOUS
    <3>2. d * y \in Nat \ {0} /\ m = d * y
      BY <1>2, <3>1
    <3>3. \E k \in Int : (d * x) % (d * y) = d * k
      BY <3>2, MultipleKept
    <3>4. QED BY <2>1, <3>1, <3>2, <3>3
  <2>3. QED BY <2>2
<1>4. ASSUME a % 4 = 0 PROVE (a % m) % 4 = 0
  <2>1. PICK x \in Nat : a = 4 * x
    BY <1>4, a = 4 * (a \div 4) + (a % 4)
  <2>2. PICK k \in Int : a % m = 4 * k
    <3>1. PICK z \in Nat : z = 32 * y
      OBVIOUS
    <3>2. 4 * z \in Nat \ {0} /\ m = 4 * z
      BY <1>2, <3>1
    <3>3. \E k \in Int : (4 * x) % (4 * z) = 4 * k
      BY <3>2, MultipleKept
    <3>4. QED BY <2>1, <3>2, <3>3
  <2>3. QED BY <2>2
<1>5. QED BY <1>1, <1>3, <1>4

\* The jobs whose chunk size the parsers let through: it is not 1, and still
\* aligned, when it is kept in 32 bits.
LEMMA AcceptedJob ==
  ASSUME NEW j \in Jobs, chunk_size_ok(j)
  PROVE  /\ chunk_size(j) \in Nat /\ chunk_size(j) # 1
         /\ j.kind = "fw" => chunk_size(j) % 128 = 0
         /\ j.kind = "cfg" => chunk_size(j) % 4 = 0
<1>1. /\ j.chunk \in Nat /\ OffsetSpace \in Nat \ {0} /\ OffsetSpace % 128 = 0
      /\ j.kind \in {"fw", "cfg", "log"} /\ (j.kind = "log" => j.chunk = 2048)
  BY TransferAssumption
<1>a. /\ j.chunk % OffsetSpace \in Nat
      /\ j.chunk % 128 = 0 => (j.chunk % OffsetSpace) % 128 = 0
      /\ j.chunk % 4 = 0 => (j.chunk % OffsetSpace) % 4 = 0
  <2>1. PICK a \in Nat, m \in Nat \ {0} : a = j.chunk /\ m = OffsetSpace /\ m % 128 = 0
    BY <1>1
  <2>2. /\ a % m \in Nat
        /\ a % 128 = 0 => (a % m) % 128 = 0
        /\ a % 4 = 0 => (a % m) % 4 = 0
    BY <2>1, AlignmentKept
  <2>3. QED BY Zenon, <2>1, <2>2
<1>2. CASE j.kind = "fw"
  <2>1. j.chunk % 128 = 0
    BY <1>2 DEF chunk_size_ok, Align
  <2>2. (j.chunk % OffsetSpace) % 128 = 0 /\ j.chunk % OffsetSpace \in Nat
    BY <1>a, <2>1
  <2>3. chunk_size(j) = j.chunk % OffsetSpace
    BY <1>2 DEF chunk_size
  <2>4. QED BY <1>2, <2>2, <2>3
<1>3. CASE j.kind = "cfg"
  <2>1. j.chunk % 4 = 0
    BY <1>3 DEF chunk_size_ok, Align
  <2>2. (j.chunk % OffsetSpace) % 4 = 0 /\ j.chunk % OffsetSpace \in Nat
    BY <1>a, <2>1
  <2>3. chunk_size(j) = j.chunk % OffsetSpace
    BY <1>3 DEF chunk_size
  <2>4. QED BY <1>3, <2>2, <2>3
<1>4. CASE j.kind = "log"
  BY <1>1, <1>4 DEF chunk_size
<1>5. QED BY <1>1, <1>2, <1>3, <1>4

\* Where the chunks of a file begin and how long they are.
LEMMA ChunkShape ==
  ASSUME NEW j \in Jobs, chunk_size_ok(j), chunk_size(j) # 0,
         NEW s \in Nat, s > 0, s <= OffsetSpace
  PROVE  /\ num_chunks(j, s) \in Nat /\ num_chunks(j, s) >= 1
         /\ \A i \in 0 .. num_chunks(j, s) - 1 :
              /\ i * chunk_size(j) \in Nat
              /\ byte_offset(j, i) = i * chunk_size(j)
              /\ i < num_chunks(j, s) - 1 => data_sz(j, s, i) = chunk_size(j)
              /\ i = num_chunks(j, s) - 1 =>
                   /\ data_sz(j, s, i) = s - i * chunk_size(j)
                   /\ data_sz(j, s, i) >= 1 /\ data_sz(j, s, i) <= chunk_size(j)
<1> DEFINE c == chunk_size(j)
           n == (s + c - 1) \div c
<1>1. c \in Nat /\ c > 1 /\ OffsetSpace \in Nat /\ OffsetSpace > 1
  BY AcceptedJob, SpaceTyped
<1>2. n \in Nat /\ n >= 1 /\ (n - 1) * c < s /\ s <= n * c
  BY <1>1, RoundedUp
<1> HIDE DEF c, n
<1>3. n < OffsetSpace
  BY <1>1, <1>2, FewChunks
<1>4. num_chunks(j, s) = n
  <2>1. n % OffsetSpace = n
    BY <1>1, <1>2, <1>3
  <2>2. QED BY Zenon, <2>1 DEF num_chunks, n, c
<1>5. ASSUME NEW i \in 0 .. n - 1
      PROVE  /\ i * c \in Nat
             /\ byte_offset(j, i) = i * c
             /\ i < n - 1 => data_sz(j, s, i) = c
             /\ i = n - 1 => /\ data_sz(j, s, i) = s - i * c
                             /\ data_sz(j, s, i) >= 1 /\ data_sz(j, s, i) <= c
  <2>1. i * c \in Nat /\ (n - 1) * c \in Nat /\ i * c <= (n - 1) * c
    BY <1>1, <1>2, Monotone
  <2>2. PICK p \in Nat : p = i * c
    BY <2>1
  <2>3. p < s /\ p < OffsetSpace
    BY <1>1, <1>2, <2>1, <2>2
  <2>4. byte_offset(j, i) = p
    <3>1. p % OffsetSpace = p
      BY <1>1, <2>3
    <3>2. QED BY <2>2, <3>1 DEF byte_offset, c
  <2>5. data_sz(j, s, i) = IF s - p > c THEN c ELSE s - p
    BY <2>4 DEF data_sz, c
  <2>6. ASSUME i < n - 1 PROVE s - p > c
    <3>1. (i + 1) * c <= (n - 1) * c
      BY <1>1, <1>2, <2>6, Monotone
    <3>2. (i + 1) * c = p + c
      BY <1>1, <2>2
    <3>3. QED BY <1>1, <1>2, <2>1, <3>1, <3>2
  <2>7. ASSUME i = n - 1 PROVE s - p <= c
    <3>1. n * c = (n - 1) * c + c
      BY <1>1, <1>2
    <3>2. n * c = p + c
      BY <2>2, <2>7, <3>1
    <3>3. QED BY <1>1, <1>2, <3>2
  <2>8. QED BY <1>1, <2>2, <2>3, <2>4, <2>5, <2>6, <2>7
<1>6. QED BY <1>2, <1>4, <1>5 DEF c

\* A multiple of the alignment is not changed by dividing and multiplying.
LEMMA Exact128 ==
  ASSUME NEW c \in Nat, c % 128 = 0, NEW i \in Nat
  PROVE  128 * ((i * c) \div 128) = i * c
<1>1. PICK k \in Nat : c = 128 * k
  BY c = 128 * (c \div 128) + (c % 128)
<1>2. i * c = 128 * (i * k)
  BY <1>1
<1>3. PICK p \in Nat : p = i * k
  OBVIOUS
<1>4. (128 * p) \div 128 = p
  OBVIOUS
<1>5. QED BY <1>2, <1>3, <1>4

\* What a block is when its chunk is not lost in the arithmetic.
LEMMA BlockShape ==
  ASSUME NEW j \in Jobs, chunk_size_ok(j), chunk_size(j) # 0,
         NEW s \in Nat, s > 0, s <= OffsetSpace,
         NEW i \in 0 .. num_chunks(j, s) - 1
  PROVE  LET b == Block(j, s, i)
             n == num_chunks(j, s)
             f == IF j.kind = "fw" THEN 128 * b.offset ELSE b.offset
         IN  /\ f = i * chunk_size(j) /\ i * chunk_size(j) \in Nat
             /\ b.len \in Int /\ b.len > 0
             /\ i < n - 1 => f + b.len = (i + 1) * chunk_size(j)
             /\ i = n - 1 => s <= f + b.len /\ f + b.len <= s + 3
<1> DEFINE c == chunk_size(j)
           n == num_chunks(j, s)
           b == Block(j, s, i)
           f == IF j.kind = "fw" THEN 128 * b.offset ELSE b.offset
           d == data_sz(j, s, i)
<1>1. c \in Nat /\ c > 1
  BY AcceptedJob
<1>2. /\ n \in Nat /\ i * c \in Nat /\ byte_offset(j, i) = i * c
      /\ i < n - 1 => d = c
      /\ i = n - 1 => d = s - i * c /\ d >= 1 /\ d <= c
  BY ChunkShape
<1>0. i \in Nat
  BY <1>2
<1>3. /\ b.offset = IF j.kind = "fw" THEN byte_offset(j, i) \div 128 ELSE byte_offset(j, i)
      /\ b.len = pad_len(j, d)
  BY DEF Block
<1>4. f = i * c
  <2>1. CASE j.kind = "fw"
    <3>1. c % 128 = 0
      BY <2>1, AcceptedJob
    <3>2. 128 * ((i * c) \div 128) = i * c
      BY <1>0, <1>1, <3>1, Exact128
    <3>3. QED BY <1>2, <1>3, <2>1, <3>2
  <2>2. QED BY <1>2, <1>3, <2>1
<1>5. PICK p \in Nat : p = i * c
  BY <1>2
<1>6. (i + 1) * c = p + c
  BY <1>1, <1>5
<1> HIDE DEF c, n, b, f, d
<1>6a. d \in Nat
  BY <1>1, <1>2, <1>5 DEF n
<1>7. /\ pad_len(j, d) \in Int /\ pad_len(j, d) >= d /\ pad_len(j, d) <= d + 3
      /\ d = c => pad_len(j, d) = c
  <2>2. CASE j.kind = "cfg"
    <3>1. c % 4 = 0
      BY <2>2, AcceptedJob DEF c
    <3>2. pad_len(j, d) = 4 * ((d + 3) \div 4)
      BY <2>2 DEF pad_len
    <3>3. QED BY <1>1, <1>6a, <3>1, <3>2
  <2>3. CASE j.kind # "cfg"
    BY <1>6a, <2>3 DEF pad_len
  <2>4. QED BY <2>2, <2>3
<1>8. d >= 1
  BY <1>1, <1>2 DEF n
<1>9. QED
  <2>1. f = p /\ p = i * chunk_size(j) /\ (i + 1) * chunk_size(j) = p + c
    BY <1>4, <1>5, <1>6 DEF c
  <2>a. i = n - 1 => d = s - p
    BY <1>2, <1>5
  <2>b. PICK l \in Int : l = b.len /\ l >= d /\ l <= d + 3 /\ (d = c => l = c)
    BY <1>3, <1>7
  <2>2. /\ b.len \in Int /\ b.len > 0
        /\ i < n - 1 => f + b.len = p + c
        /\ i = n - 1 => s <= f + b.len /\ f + b.len <= s + 3
    BY <1>0, <1>1, <1>2, <1>6a, <1>8, <2>1, <2>a, <2>b
  <2>3. QED BY Zenon, <2>1, <2>2, <1>2 DEF f, b, n, c

\* The action of a block tells the first and the last one.
LEMMA ActionShape ==
  ASSUME NEW j \in Jobs, NEW s \in Nat, num_chunks(j, s) \in Nat,
         NEW i \in 0 .. num_chunks(j, s) - 1
  PROVE  LET a == Block(j, s, i).action
         IN  /\ j.kind = "log" => a = "READ"
             /\ a \in {"FULL", "INIT"} => i = 0
             /\ i = 0 => a \in {"FULL", "INIT", "READ"}
             /\ a \in {"FULL", "END"} => i = num_chunks(j, s) - 1
             /\ j.kind # "log" /\ i = num_chunks(j, s) - 1 => a \in {"FULL", "END"}
             /\ a \in {"FULL", "INIT", "CONTINUE", "END", "READ"}
BY DEF Block, pick_action

-----------------------------------------------------------------------------
(* The invariant *)

Accepted(j) == j \in Jobs /\ chunk_size_ok(j)

BlockType == [action : {"FULL", "INIT", "CONTINUE", "END", "READ"},
              offset : Nat, len : Int]

\* What the run knows of its job where it is.
StageInv ==
  /\ at \notin {"idle", "exit"} => Accepted(job)
  /\ at = "chunk" => size > 0 /\ idx <= num_chunks(job, size)
  /\ at \in {"idle", "lookup", "unlock", "file"} => idx = 0 /\ moved = <<>> /\ rc # 0
  /\ at = "chunk" /\ rc = 0 => idx > 0
  /\ at \in {"unlock", "lock"} => job.kind = "cfg"
  /\ at = "lookup" => job.kind = "log"
  /\ at = "file" /\ job.kind = "log" => size > 0

\* Unless an answer was short, the blocks that arrived are the first ones, and
\* in the loop as many as it has sent.
BlockInv ==
  ~short =>
    /\ moved # <<>> => Accepted(job) /\ size > 0
    /\ \A i \in 1 .. Len(moved) :
         moved[i] = Block(job, size, i - 1) /\ i <= num_chunks(job, size)
    /\ at = "chunk" => Len(moved) = idx

\* What status 0 stands for after the loop.
StatusInv ==
  at \in {"lock", "exit"} /\ rc = 0 /\ ~short =>
    \/ Accepted(job) /\ size > 0 /\ Len(moved) = num_chunks(job, size)
    \/ cut /\ moved # <<>>
    \/ unsaved

\* The mailbox is open from the unlock to the lock.
MailInv ==
  /\ at \in {"idle", "lookup", "unlock"} \/ job.kind # "cfg" => ~open
  /\ at \in {"file", "chunk", "lock"} /\ job.kind = "cfg" => open \/ short
  /\ at = "exit" /\ open => lost \/ rc = Signalled
  /\ lost => at = "exit" /\ (rc # 0 \/ short)

Inv == TypeOK /\ StageInv /\ BlockInv /\ StatusInv /\ MailInv

\* Every block has its type, also one whose offset wrapped.
LEMMA BlockTyped ==
  ASSUME NEW j, Accepted(j), NEW s \in Nat, NEW i \in Nat
  PROVE  Block(j, s, i) \in BlockType
<1>1. chunk_size(j) \in Nat /\ OffsetSpace \in Nat \ {0}
  BY AcceptedJob, SpaceTyped DEF Accepted
<1>2. PICK p \in Nat : p = i * chunk_size(j)
  BY <1>1
<1>3. byte_offset(j, i) \in Nat
  BY <1>1, <1>2 DEF byte_offset
<1>4. data_sz(j, s, i) \in Int
  BY <1>1, <1>3 DEF data_sz
<1>5. pad_len(j, data_sz(j, s, i)) \in Int
  <2> DEFINE d == data_sz(j, s, i)
  <2>1. d \in Int
    BY <1>4
  <2> HIDE DEF d
  <2>2. pad_len(j, d) \in Int
    BY <2>1 DEF pad_len
  <2>3. QED BY <2>2 DEF d
<1>6. byte_offset(j, i) \div 128 \in Nat
  BY <1>3
<1>7. QED
  BY <1>3, <1>5, <1>6 DEF Block, BlockType, pick_action

\* The number of chunks is a number, also when it wrapped.
LEMMA CountTyped ==
  ASSUME NEW j, Accepted(j), NEW s \in Nat
  PROVE  num_chunks(j, s) \in Nat
<1>1. chunk_size(j) \in Nat /\ OffsetSpace \in Nat /\ OffsetSpace > 1
  BY AcceptedJob, SpaceTyped DEF Accepted
<1>2. CASE chunk_size(j) = 0
  BY <1>2 DEF num_chunks
<1>3. CASE chunk_size(j) # 0
  <2>1. PICK q \in Int : q = (s + chunk_size(j) - 1) \div chunk_size(j)
    BY <1>1, <1>3
  <2>2. q % OffsetSpace \in Nat
    BY <1>1, <2>1
  <2>3. QED BY <1>3, <2>1, <2>2 DEF num_chunks
<1>4. QED BY <1>2, <1>3

\* The next block goes behind those that arrived.
LEMMA NextBlock ==
  ASSUME NEW j, NEW s, NEW n \in Nat, NEW m \in Seq(BlockType), Len(m) < n,
         \A i \in 1 .. Len(m) : m[i] = Block(j, s, i - 1) /\ i <= n,
         Block(j, s, Len(m)) \in BlockType
  PROVE  LET p == Append(m, Block(j, s, Len(m)))
         IN  \A i \in 1 .. Len(p) : p[i] = Block(j, s, i - 1) /\ i <= n
<1> DEFINE p == Append(m, Block(j, s, Len(m)))
<1>1. Len(p) = Len(m) + 1 /\ Len(m) \in Nat
  OBVIOUS
<1>2. \A i \in 1 .. Len(m) : p[i] = m[i]
  OBVIOUS
<1>3. p[Len(m) + 1] = Block(j, s, Len(m))
  OBVIOUS
<1> HIDE DEF p
<1>4. ASSUME NEW i \in 1 .. Len(p) PROVE p[i] = Block(j, s, i - 1) /\ i <= n
  <2>1. CASE i = Len(m) + 1
    <3>1. i - 1 = Len(m)
      BY <1>1, <2>1
    <3>2. QED BY <1>1, <1>3, <2>1, <3>1
  <2>2. CASE i \in 1 .. Len(m)
    BY <1>2, <2>2
  <2>3. QED BY <1>1, <2>1, <2>2
<1>5. QED BY Zenon, <1>4 DEF p

\* What the outcomes of a command have in common: the device took part unless
\* the code says otherwise or the answer was short.
LEMMA OutcomeShape ==
  ASSUME NEW codes \in SUBSET Nat, NEW allowed \in BOOLEAN, NEW o \in Outcomes(codes, allowed)
  PROVE  /\ o.rc \in {-1, 0, BACKGROUND} \cup codes \cup Errors
         /\ o.ran \in BOOLEAN /\ o.short \in BOOLEAN
         /\ o.ran \/ o.short \/ o.rc \in {-1} \cup Errors
         /\ o.short => o.rc = 0
<1>1. \/ o = Outcome(-1, FALSE, FALSE)
      \/ \E e \in Errors : o = Outcome(e, FALSE, FALSE)
      \/ \E ran \in {FALSE, allowed} : o = Outcome(0, ran, TRUE)
      \/ \E code \in codes \cup {-1, BACKGROUND} : o = Outcome(code, TRUE, FALSE)
  BY Zenon DEF Outcomes
<1>2. ASSUME NEW c, NEW r, NEW l, o = Outcome(c, r, l)
      PROVE  o.rc = c /\ o.ran = r /\ o.short = l
  BY <1>2 DEF Outcome
<1>3. QED BY Zenon, <1>1, <1>2

\* The start of a run.
LEMMA InitInv == Init => Inv
<1> SUFFICES ASSUME Init PROVE Inv
  OBVIOUS
<1>1. TypeOK
  <2>1. moved \in Seq(BlockType)
    BY DEF Init
  <2>2. {open, cut, short, unsaved, lost} \subseteq BOOLEAN
    BY Zenon DEF Init
  <2>3. QED BY <2>1, <2>2 DEF Init, TypeOK, BlockType
<1>2. StageInv /\ BlockInv /\ StatusInv
  BY DEF Init, StageInv, BlockInv, StatusInv
<1>3. MailInv
  BY DEF Init, MailInv
<1>4. QED BY <1>1, <1>2, <1>3 DEF Inv

\* Each step of the run keeps Inv.
LEMMA NextInv == Inv /\ [Next]_vars => Inv'
<1> SUFFICES ASSUME Inv, [Next]_vars PROVE Inv'
  OBVIOUS
<1>a. /\ TypeOK /\ StageInv /\ BlockInv /\ StatusInv /\ MailInv
      /\ moved \in Seq(BlockType) /\ size \in Nat /\ idx \in Nat /\ rc \in Int
      /\ open \in BOOLEAN /\ cut \in BOOLEAN /\ short \in BOOLEAN
      /\ unsaved \in BOOLEAN /\ lost \in BOOLEAN
  BY TransferAssumption DEF Inv, TypeOK, BlockType, Signalled, BACKGROUND
<1>e. Errors \subseteq Nat \ {0, 1} /\ Sizes \subseteq Nat
  BY TransferAssumption
<1>1. ASSUME NEW j \in Jobs, Start(j) PROVE Inv'
  <2>1. TypeOK'
    BY <1>a, <1>1 DEF Start, TypeOK
  <2>2. StageInv' /\ BlockInv' /\ StatusInv'
    BY <1>a, <1>1 DEF Start, StageInv, BlockInv, StatusInv, Accepted
  <2>3. MailInv'
    BY <1>a, <1>1 DEF Start, MailInv
  <2>4. QED BY <2>1, <2>2, <2>3 DEF Inv
<1>2. CASE Refuse
  <2>1. TypeOK'
    BY <1>a, <1>2 DEF Refuse, Exit, TypeOK
  <2>2. StageInv' /\ BlockInv' /\ StatusInv'
    BY <1>a, <1>2 DEF Refuse, Exit, StageInv, BlockInv, StatusInv
  <2>3. MailInv'
    BY <1>a, <1>2 DEF Refuse, Exit, MailInv
  <2>4. QED BY <2>1, <2>2, <2>3 DEF Inv
<1>3. CASE Lookup
  <2>1. TypeOK'
    BY <1>a, <1>e, <1>3 DEF Lookup, Exit, TypeOK
  <2>2. StageInv' /\ BlockInv' /\ StatusInv'
    BY <1>a, <1>3 DEF Lookup, Exit, StageInv, BlockInv, StatusInv
  <2>3. MailInv'
    BY <1>a, <1>3 DEF Lookup, Exit, MailInv, StageInv
  <2>4. QED BY <2>1, <2>2, <2>3 DEF Inv
<1>4. CASE File
  <2>1. TypeOK'
    <3>1. at' \in {"chunk", "lock", "exit"} /\ rc' \in {-1, Signalled}
          /\ (at' = "chunk" => rc' = -1)
      BY <1>4 DEF File, Leave, Exit
    <3>2. size' \in Sizes \cup {0}
      BY <1>a, <1>4 DEF File, TypeOK
    <3>3. QED BY <1>a, <1>4, <3>1, <3>2 DEF File, TypeOK
  <2>2. StageInv'
    <3>1. \A n \in Nat : num_chunks(job, n) >= 0
      <4>1. Accepted(job)
        BY <1>a, <1>4 DEF File, StageInv
      <4>2. \A n \in Nat : num_chunks(job, n) \in Nat
        BY <4>1, CountTyped
      <4>3. QED BY <4>2
    <3>2. size' \in Nat
      BY <1>a, <1>e, <1>4 DEF File
    <3>3. at' = "chunk" => size' > 0
      <4>1. CASE Leave(-1)
        BY <4>1 DEF Leave, Exit
      <4>2. CASE IF job.kind = "log" THEN UNCHANGED size ELSE size' \in Sizes \ {0}
        <5>1. CASE job.kind = "log"
          <6>1. at = "file"
            BY Zenon, <1>4 DEF File
          <6>2. size' = size
            BY <4>2, <5>1
          <6>3. QED BY <1>a, <5>1, <6>1, <6>2 DEF StageInv
        <5>2. CASE job.kind # "log"
          <6>1. size' \in Sizes \ {0}
            BY <4>2, <5>2
          <6>2. size' \in Nat \ {0}
            BY Zenon, <1>e, <6>1
          <6>3. QED BY <6>2
        <5>3. QED BY <5>1, <5>2
      <4>3. QED BY <1>4, <4>1, <4>2 DEF File
    <3>4. QED BY <1>a, <1>4, <3>1, <3>2, <3>3 DEF File, Leave, Exit, StageInv, Accepted
  <2>3. BlockInv' /\ StatusInv'
    BY <1>a, <1>4 DEF File, Leave, Exit, StageInv, BlockInv, StatusInv, Signalled
  <2>4. MailInv'
    BY <1>a, <1>4 DEF File, Leave, Exit, MailInv, Signalled
  <2>5. QED BY <2>1, <2>2, <2>3, <2>4 DEF Inv
<1>5. CASE ReadShort
  <2>1. TypeOK'
    BY <1>a, <1>5 DEF ReadShort, More, Leave, Exit, TypeOK
  <2>2. StageInv' /\ BlockInv'
    BY <1>a, <1>5 DEF ReadShort, More, Leave, Exit, StageInv, BlockInv
  <2>3. StatusInv'
    BY <1>a, <1>5 DEF ReadShort, More, Leave, Exit, StageInv, BlockInv, StatusInv
  <2>4. MailInv'
    BY <1>a, <1>5 DEF ReadShort, More, Leave, Exit, MailInv
  <2>5. QED BY <2>1, <2>2, <2>3, <2>4 DEF Inv
<1>6. CASE Kill
  <2>1. TypeOK'
    BY <1>a, <1>6 DEF Kill, Exit, TypeOK
  <2>2. StageInv' /\ BlockInv' /\ StatusInv'
    BY <1>a, <1>6 DEF Kill, Exit, StageInv, BlockInv, StatusInv, Signalled
  <2>3. MailInv'
    BY <1>a, <1>6 DEF Kill, Exit, MailInv, Signalled
  <2>4. QED BY <2>1, <2>2, <2>3 DEF Inv
<1>7. CASE UNCHANGED vars
  BY <1>a, <1>7 DEF vars, Inv, TypeOK, StageInv, BlockInv, StatusInv, MailInv
<1>8. CASE Unlock
  <2>1. PICK o \in Outcomes({0}, TRUE) :
          /\ open' = o.ran /\ short' = (short \/ o.short) /\ lost' = (o.ran /\ o.rc # 0)
          /\ IF o.rc = 0 THEN at' = "file" /\ UNCHANGED rc ELSE Exit(o.rc)
    BY Zenon, <1>8 DEF Unlock
  <2>2. /\ o.rc \in {-1, 0, BACKGROUND} \cup Errors /\ o.ran \in BOOLEAN /\ o.short \in BOOLEAN
        /\ o.rc = 0 => o.ran \/ o.short
    <3>1. {0} \in SUBSET Nat /\ TRUE \in BOOLEAN
      OBVIOUS
    <3>2. /\ o.rc \in {-1, 0, BACKGROUND} \cup {0} \cup Errors /\ o.ran \in BOOLEAN
          /\ o.short \in BOOLEAN /\ (o.ran \/ o.short \/ o.rc \in {-1} \cup Errors)
      BY Zenon, <3>1, OutcomeShape
    <3>3. QED BY <1>e, <3>2
  <2>3. at = "unlock" /\ UNCHANGED <<job, size, idx, moved, cut, unsaved>>
    BY Zenon, <1>8 DEF Unlock
  <2>4. TypeOK'
    BY <1>a, <2>1, <2>2, <2>3 DEF Exit, TypeOK
  <2>5. StageInv' /\ BlockInv' /\ StatusInv'
    BY <1>a, <2>1, <2>2, <2>3 DEF Exit, StageInv, BlockInv, StatusInv
  <2>6. MailInv'
    BY <1>a, <2>1, <2>2, <2>3 DEF Exit, MailInv, StageInv
  <2>7. QED BY <2>4, <2>5, <2>6 DEF Inv
<1>9. CASE Lock
  <2>1. PICK o \in Outcomes({0}, TRUE) :
          /\ open' = (open /\ ~o.ran) /\ short' = (short \/ o.short)
          /\ lost' = (open /\ ~o.ran) /\ Exit(IF rc = 0 THEN o.rc ELSE rc)
    BY Zenon, <1>9 DEF Lock
  <2>2. /\ o.rc \in {-1, 0, BACKGROUND} \cup Errors /\ o.ran \in BOOLEAN /\ o.short \in BOOLEAN
        /\ o.rc = 0 => o.ran \/ o.short
    <3>1. {0} \in SUBSET Nat /\ TRUE \in BOOLEAN
      OBVIOUS
    <3>2. /\ o.rc \in {-1, 0, BACKGROUND} \cup {0} \cup Errors /\ o.ran \in BOOLEAN
          /\ o.short \in BOOLEAN /\ (o.ran \/ o.short \/ o.rc \in {-1} \cup Errors)
      BY Zenon, <3>1, OutcomeShape
    <3>3. QED BY <1>e, <3>2
  <2>3. at = "lock" /\ UNCHANGED <<job, size, idx, moved, cut, unsaved>>
    BY Zenon, <1>9 DEF Lock
  <2>4. TypeOK'
    BY <1>a, <2>1, <2>2, <2>3 DEF Exit, TypeOK
  <2>5. StageInv' /\ BlockInv' /\ StatusInv'
    BY <1>a, <2>1, <2>2, <2>3 DEF Exit, StageInv, BlockInv, StatusInv
  <2>6. MailInv'
    BY <1>a, <2>1, <2>2, <2>3 DEF Exit, MailInv, StageInv
  <2>7. QED BY <2>4, <2>5, <2>6 DEF Inv
<1>10. CASE SendChunk
  <2> DEFINE b == Block(job, size, idx)
             ok == xfer_ok(job)
             may == (job.kind = "cfg" => open)
  <2>1. PICK o \in Outcomes(ok, may) :
          /\ moved' = IF o.ran THEN Append(moved, b) ELSE moved
          /\ short' = (short \/ o.short)
          /\ IF o.rc \in ok THEN idx' = idx + 1 /\ rc' = o.rc /\ UNCHANGED at
             ELSE Leave(o.rc) /\ UNCHANGED idx
    BY Zenon, <1>10 DEF SendChunk
  <2>2. /\ at = "chunk" /\ idx < num_chunks(job, size)
        /\ UNCHANGED <<job, size, open, cut, unsaved, lost>>
    BY Zenon, <1>10 DEF SendChunk, More
  <2>3. ok \in SUBSET Nat /\ may \in BOOLEAN /\ 0 \in ok /\ ok \subseteq {0, BACKGROUND}
    BY DEF xfer_ok, BACKGROUND
  <2>4. /\ o.rc \in {-1, 0, BACKGROUND} \cup ok \cup Errors /\ o.ran \in BOOLEAN
        /\ o.short \in BOOLEAN /\ (o.ran \/ o.short \/ o.rc \in {-1} \cup Errors)
    BY Zenon, <2>3, OutcomeShape
  <2>5. o.rc \in ok => o.ran \/ o.short
    BY <1>e, <2>3, <2>4 DEF BACKGROUND
  <2>6. b \in BlockType /\ Accepted(job) /\ size > 0 /\ num_chunks(job, size) \in Nat
    BY <1>a, <2>2, BlockTyped, CountTyped DEF StageInv
  <2> HIDE DEF ok, may, b
  <2>7. TypeOK'
    <3>1. moved' \in Seq(BlockType)
      BY <1>a, <2>1, <2>6
    <3>2. short' \in BOOLEAN
      BY Zenon, <1>a, <2>1, <2>4
    <3>3. {open', cut', short', unsaved', lost'} \subseteq BOOLEAN
      BY Zenon, <1>a, <2>2, <3>2
    <3>4. /\ at' \in {"chunk", "lock", "exit"} /\ idx' \in Nat
          /\ rc' \in {-1, 0, BACKGROUND} \cup Errors
          /\ at' = "chunk" => rc' \in {-1, 0, BACKGROUND}
      <4>1. CASE o.rc \in ok
        <5>1. idx' = idx + 1 /\ rc' = o.rc /\ at' = at
          BY Zenon, <2>1, <4>1
        <5>2. o.rc \in {0, BACKGROUND}
          BY Zenon, <2>3, <4>1
        <5>3. QED BY <1>a, <2>2, <5>1, <5>2
      <4>2. CASE o.rc \notin ok
        <5>1. o.rc \in {-1, BACKGROUND} \cup Errors
          BY <2>3, <2>4, <4>2
        <5>2. rc' = o.rc /\ at' \in {"lock", "exit"} /\ idx' = idx
          BY <2>1, <4>2 DEF Leave, Exit
        <5>3. QED BY <1>a, <5>1, <5>2
      <4>3. QED BY <4>1, <4>2
    <3>5. QED BY <1>a, <2>2, <3>1, <3>3, <3>4 DEF TypeOK, BlockType
  <2>8. StageInv'
    BY <1>a, <2>1, <2>2, <2>3, <2>6 DEF Leave, Exit, StageInv
  <2>9. BlockInv'
    <3> SUFFICES ASSUME ~short' PROVE BlockInv'
      BY DEF BlockInv
    <3>1. ~short /\ ~o.short
      BY Zenon, <2>1
    <3>2. Len(moved) = idx /\ moved' = IF o.ran THEN Append(moved, b) ELSE moved
      BY <1>a, <2>1, <2>2, <3>1 DEF BlockInv
    <3>3. \A i \in 1 .. Len(moved') :
            moved'[i] = Block(job, size, i - 1) /\ i <= num_chunks(job, size)
      <4>1. \A i \in 1 .. Len(moved) :
              moved[i] = Block(job, size, i - 1) /\ i <= num_chunks(job, size)
        BY <1>a, <3>1 DEF BlockInv
      <4>2. CASE o.ran
        BY Zenon, <1>a, <2>2, <2>6, <3>2, <4>1, <4>2, NextBlock DEF b
      <4>3. CASE ~o.ran
        BY Zenon, <3>2, <4>1, <4>3
      <4>4. QED BY Zenon, <2>4, <4>2, <4>3
    <3>4. at' = "chunk" => Len(moved') = idx'
      BY <1>a, <2>1, <2>2, <2>5, <2>6, <3>1, <3>2 DEF Leave, Exit
    <3>5. QED BY <2>2, <2>6, <3>3, <3>4 DEF BlockInv
  <2>10. StatusInv'
    BY <1>a, <2>1, <2>2, <2>3 DEF Leave, Exit, StatusInv
  <2>11. MailInv'
    <3>1. short => short'
      BY Zenon, <2>1
    <3>2. at' \in {"chunk", "lock", "exit"} /\ (at' = "exit" => at = at' \/ job.kind # "cfg")
      BY <2>1, <2>2 DEF Leave, Exit
    <3>3. QED BY Zenon, <1>a, <2>2, <3>1, <3>2 DEF MailInv
  <2>12. QED BY <2>7, <2>8, <2>9, <2>10, <2>11 DEF Inv
<1>11. CASE ReadLog
  <2> DEFINE b == Block(job, size, idx)
  <2>1. PICK o \in Outcomes({0}, TRUE), written \in BOOLEAN :
          /\ short' = (short \/ o.short)
          /\ IF o.rc = 0 /\ written
             THEN /\ moved' = Append(moved, b)
                  /\ idx' = idx + 1 /\ rc' = 0 /\ UNCHANGED at
             ELSE Exit(IF o.rc = 0 THEN -1 ELSE o.rc) /\ UNCHANGED <<idx, moved>>
    BY Zenon, <1>11 DEF ReadLog
  <2>2. /\ at = "chunk" /\ idx < num_chunks(job, size) /\ job.kind = "log"
        /\ UNCHANGED <<job, size, open, cut, unsaved, lost>>
    BY Zenon, <1>11 DEF ReadLog, More
  <2>3. o.rc \in {-1, 0, BACKGROUND} \cup Errors /\ o.short \in BOOLEAN
    <3>1. {0} \in SUBSET Nat /\ TRUE \in BOOLEAN
      OBVIOUS
    <3>2. o.rc \in {-1, 0, BACKGROUND} \cup {0} \cup Errors /\ o.short \in BOOLEAN
      BY Zenon, <3>1, OutcomeShape
    <3>3. QED BY <3>2
  <2>4. b \in BlockType /\ Accepted(job) /\ size > 0 /\ num_chunks(job, size) \in Nat
    BY <1>a, <2>2, BlockTyped, CountTyped DEF StageInv
  <2> HIDE DEF b
  <2>5. TypeOK'
    <3>1. moved' \in Seq(BlockType)
      <4>1. moved' \in {moved, Append(moved, b)}
        BY Zenon, <2>1
      <4>2. moved \in Seq(BlockType) /\ Append(moved, b) \in Seq(BlockType)
        BY <1>a, <2>4
      <4>3. QED BY Zenon, <4>1, <4>2
    <3>2. short' \in BOOLEAN
      BY Zenon, <1>a, <2>1, <2>3
    <3>3. {open', cut', short', unsaved', lost'} \subseteq BOOLEAN
      BY Zenon, <1>a, <2>2, <3>2
    <3>4. /\ at' \in {"chunk", "exit"} /\ idx' \in Nat
          /\ rc' \in {-1, 0, BACKGROUND} \cup Errors /\ (at' = "chunk" => rc' = 0)
      BY <1>a, <2>1, <2>2, <2>3 DEF Exit
    <3>5. QED BY <1>a, <2>2, <3>1, <3>3, <3>4 DEF TypeOK, BlockType
  <2>6. StageInv'
    BY <1>a, <2>1, <2>2, <2>4 DEF Exit, StageInv
  <2>7. BlockInv'
    <3> SUFFICES ASSUME ~short' PROVE BlockInv'
      BY DEF BlockInv
    <3>1. ~short
      BY Zenon, <2>1
    <3>2. Len(moved) = idx /\ moved' \in {moved, Append(moved, b)}
      BY <1>a, <2>1, <2>2, <3>1 DEF BlockInv
    <3>3. \A i \in 1 .. Len(moved') :
            moved'[i] = Block(job, size, i - 1) /\ i <= num_chunks(job, size)
      <4>1. \A i \in 1 .. Len(moved) :
              moved[i] = Block(job, size, i - 1) /\ i <= num_chunks(job, size)
        BY <1>a, <3>1 DEF BlockInv
      <4>2. CASE moved' = Append(moved, b)
        BY ZenonT(40), <1>a, <2>2, <2>4, <3>2, <4>1, <4>2, NextBlock DEF b
      <4>3. CASE moved' = moved
        BY Zenon, <4>1, <4>3
      <4>4. QED BY Zenon, <3>2, <4>2, <4>3
    <3>4. at' = "chunk" => Len(moved') = idx'
      BY <1>a, <2>1, <2>2, <2>4, <3>2 DEF Exit
    <3>5. QED BY <2>2, <2>4, <3>3, <3>4 DEF BlockInv
  <2>8. StatusInv'
    BY <1>a, <1>e, <2>1, <2>2, <2>3 DEF Exit, StatusInv
  <2>9. MailInv'
    <3>1. at' \in {"chunk", "exit"}
      BY <2>1, <2>2 DEF Exit
    <3>2. QED BY Zenon, <1>a, <2>2, <3>1 DEF MailInv
  <2>10. QED BY <2>5, <2>6, <2>7, <2>8, <2>9 DEF Inv
<1>12. CASE Complete
  <2>1. /\ at = "chunk" /\ ~More /\ Leave(0)
        /\ unsaved' \in {FALSE, job.kind = "log"}
        /\ moved' = IF unsaved' THEN SubSeq(moved, 1, Len(moved) - 1) ELSE moved
        /\ UNCHANGED <<job, size, idx, open, cut, short, lost>>
    BY Zenon, <1>12 DEF Complete
  <2>2. Accepted(job) /\ size > 0 /\ idx <= num_chunks(job, size)
    BY <1>a, <2>1 DEF StageInv
  <2>3. num_chunks(job, size) \in Int
    BY <1>a, <2>2, CountTyped
  <2>4. idx = num_chunks(job, size)
    BY <1>a, <2>1, <2>2, <2>3 DEF More
  <2>5. unsaved' \in BOOLEAN
    BY Zenon, <2>1
  <2>6. /\ moved' \in Seq(BlockType) /\ Len(moved') <= Len(moved)
        /\ \A i \in 1 .. Len(moved') : moved'[i] = moved[i]
    <3>1. CASE ~unsaved'
      BY <1>a, <2>1, <3>1
    <3>2. CASE unsaved' /\ moved = <<>>
      BY <1>a, <2>1, <3>2
    <3>3. CASE unsaved' /\ moved # <<>>
      BY <1>a, <2>1, <3>3
    <3>4. QED BY <3>1, <3>2, <3>3
  <2>7. at' \in {"lock", "exit"} /\ rc' = 0 /\ (at' = "lock" <=> job.kind = "cfg")
    BY <2>1 DEF Leave, Exit
  <2>8. TypeOK'
    <3>1. {open', cut', short', unsaved', lost'} \subseteq BOOLEAN
      BY Zenon, <1>a, <2>1, <2>5
    <3>2. QED BY <1>a, <2>1, <2>6, <2>7, <3>1 DEF TypeOK, BlockType
  <2>9. StageInv'
    BY <1>a, <2>1, <2>2, <2>7 DEF StageInv
  <2>10. BlockInv'
    BY <1>a, <2>1, <2>2, <2>6, <2>7 DEF BlockInv
  <2>11. StatusInv'
    <3>1. CASE unsaved'
      BY <3>1 DEF StatusInv
    <3>2. CASE ~unsaved'
      BY <1>a, <2>1, <2>2, <2>4, <3>2 DEF StatusInv, BlockInv
    <3>3. QED BY <3>1, <3>2
  <2>12. MailInv'
    BY Zenon, <1>a, <2>1, <2>7 DEF MailInv
  <2>13. QED BY <2>8, <2>9, <2>10, <2>11, <2>12 DEF Inv
<1>13. QED
  BY Zenon, <1>1, <1>2, <1>3, <1>4, <1>5, <1>6, <1>7, <1>8, <1>9, <1>10, <1>11, <1>12
  DEF Next, Done

\* Inv holds in every reachable state.
LEMMA Invariance == Spec => []Inv
BY InitInv, NextInv, PTL DEF Spec

-----------------------------------------------------------------------------
(* Theorems *)

\* The variables keep their types, for all jobs and sizes.
THEOREM TypeCorrect == Spec => []TypeOK
<1>1. Inv => TypeOK
  BY DEF Inv
<1>2. QED BY <1>1, Invariance, PTL

\* A block that arrived, as the properties see it.
LEMMA Arrived ==
  ASSUME Inv, Plain, NEW i \in 1 .. Len(moved)
  PROVE  LET n == num_chunks(job, size)
         IN  /\ job \in Jobs /\ chunk_size_ok(job) /\ size \in Nat /\ size > 0
             /\ n \in Nat /\ i - 1 \in 0 .. n - 1
             /\ moved[i] = Block(job, size, i - 1)
             /\ First(moved[i]) = (i - 1) * chunk_size(job)
             /\ moved[i].len > 0
             /\ i < n => Behind(moved[i]) = i * chunk_size(job)
             /\ i = n => Last(moved[i])
<1> DEFINE n == num_chunks(job, size)
<1>1. moved \in Seq(BlockType) /\ size \in Nat /\ ~short /\ size <= OffsetSpace
  BY TransferAssumption DEF Inv, TypeOK, BlockType, Plain
<1>2. moved # <<>>
  BY <1>1
<1>3. /\ job \in Jobs /\ chunk_size_ok(job) /\ size > 0
      /\ moved[i] = Block(job, size, i - 1) /\ i <= n
  BY <1>1, <1>2 DEF Inv, BlockInv, Accepted
<1>4. n \in Nat /\ i - 1 \in 0 .. n - 1 /\ i \in Nat
  <2>1. n \in Nat
    BY <1>1, <1>3, CountTyped DEF Accepted
  <2>2. QED BY <1>1, <1>3, <2>1
<1>4a. chunk_size(job) # 0
  BY <1>4 DEF num_chunks
<1> DEFINE b == Block(job, size, i - 1)
           f == IF job.kind = "fw" THEN 128 * b.offset ELSE b.offset
<1>5. /\ f = (i - 1) * chunk_size(job)
      /\ b.len > 0
      /\ i - 1 < n - 1 => f + b.len = ((i - 1) + 1) * chunk_size(job)
      /\ i - 1 = n - 1 => size <= f + b.len /\ f + b.len <= size + 3
  BY <1>1, <1>3, <1>4, <1>4a, BlockShape
<1>6. (i - 1) + 1 = i /\ (i < n => i - 1 < n - 1) /\ (i = n => i - 1 = n - 1)
  BY <1>4
<1>7. First(moved[i]) = f /\ Behind(moved[i]) = f + b.len
  BY <1>3 DEF First, Behind
<1> HIDE DEF b, f, n
<1>8. QED BY Zenon, <1>1, <1>3, <1>4, <1>5, <1>6, <1>7 DEF Last, b, n

\* The blocks of a file or a log arrive in order and without a gap, and none is
\* declared the last one before all have arrived (transfer_fw_file,
\* vu_dlcfg_file, cmd_get_vendor_log).
THEOREM Ordered == Spec => []InOrder
<1>1. Inv => InOrder
  <2> SUFFICES ASSUME Inv, Plain, NEW i \in 1 .. Len(moved)
               PROVE  /\ First(moved[i]) = IF i = 1 THEN 0 ELSE Behind(moved[i - 1])
                      /\ moved[i].len > 0
                      /\ moved[i].action \in {"FULL", "INIT"} => i = 1
                      /\ i = 1 => moved[i].action \in {"FULL", "INIT", "READ"}
                      /\ moved[i].action \in {"FULL", "END"} => i = Len(moved) /\ Last(moved[i])
    BY DEF InOrder
  <2> DEFINE n == num_chunks(job, size)
             a == Block(job, size, i - 1).action
  <2>1. /\ job \in Jobs /\ size \in Nat /\ chunk_size(job) \in Nat
        /\ n \in Nat /\ i - 1 \in 0 .. n - 1
        /\ moved[i].action = a /\ moved[i].len > 0
        /\ First(moved[i]) = (i - 1) * chunk_size(job)
        /\ i = n => Last(moved[i])
    BY Arrived, AcceptedJob
  <2>2. /\ a \in {"FULL", "INIT"} => i - 1 = 0
        /\ i - 1 = 0 => a \in {"FULL", "INIT", "READ"}
        /\ a \in {"FULL", "END"} => i - 1 = n - 1
    BY <2>1, ActionShape
  <2>3. Len(moved) \in Nat /\ i \in Nat
    BY DEF Inv, TypeOK
  <2>4. First(moved[i]) = IF i = 1 THEN 0 ELSE Behind(moved[i - 1])
    <3>1. CASE i = 1
      BY <2>1, <3>1
    <3>2. CASE i # 1
      <4>1. i - 1 \in 1 .. Len(moved) /\ i - 1 < n
        BY <2>1, <2>3, <3>2
      <4>2. Behind(moved[i - 1]) = (i - 1) * chunk_size(job)
        BY <4>1, Arrived
      <4>3. QED BY <2>1, <3>2, <4>2
    <3>3. QED BY <3>1, <3>2
  <2>5. i = n => i = Len(moved)
    <3>1. Len(moved) \in 1 .. Len(moved)
      BY <2>3
    <3>2. Len(moved) - 1 \in 0 .. n - 1
      BY <3>1, Arrived
    <3>3. QED BY <2>1, <2>3, <3>2
  <2> HIDE DEF a, n
  <2>6. i - 1 = n - 1 => i = n
    BY <2>1, <2>3
  <2>7. QED BY <2>1, <2>2, <2>3, <2>4, <2>5, <2>6
<1>2. QED BY <1>1, Invariance, PTL

\* Status 0 of a transfer means that all of it arrived and that the mailbox is
\* locked, with the three exceptions the property names.
THEOREM Status == Spec => []StatusTrue
<1>1. Inv => StatusTrue
  <2> SUFFICES ASSUME Inv, at = "exit", rc = 0, Plain
               PROVE  /\ Whole \/ (cut /\ moved # <<>>) \/ unsaved \/ chunk_size(job) = 0
                      /\ ~lost
    BY DEF StatusTrue
  <2>1. ~short /\ size <= OffsetSpace
    BY DEF Plain
  <2>2. ~lost
    BY Zenon, <2>1 DEF Inv, MailInv
  <2>3. ASSUME Accepted(job), size > 0, Len(moved) = num_chunks(job, size),
               chunk_size(job) # 0
        PROVE  Whole
    <3> DEFINE n == num_chunks(job, size)
    <3>1. size \in Nat
      BY TransferAssumption DEF Inv, TypeOK
    <3>2. n \in Nat /\ n >= 1
      BY <2>1, <2>3, <3>1, ChunkShape DEF Accepted
    <3>3. n \in 1 .. Len(moved) /\ n - 1 \in 0 .. n - 1
      BY <2>3, <3>2
    <3>4. moved[n] = Block(job, size, n - 1) /\ Last(moved[n])
      BY <3>3, Arrived
    <3>5. job.kind # "log" => moved[n].action \in {"FULL", "END"}
      BY <2>3, <3>1, <3>2, <3>3, <3>4, ActionShape DEF Accepted
    <3>6. moved # <<>>
      BY <3>3
    <3>7. QED BY Zenon, <2>3, <3>4, <3>5, <3>6 DEF Whole
  <2>4. QED BY Zenon, <2>1, <2>2, <2>3 DEF Inv, StatusInv
<1>2. QED BY <1>1, Invariance, PTL

\* The mailbox is open while a configuration is sent and locked on every way
\* out (cmd_vu_dlcfg, sdb_tunnel_vu_dlcfg).
THEOREM Bracket == Spec => []BracketKept
<1>1. Inv => BracketKept
  BY Zenon DEF Inv, MailInv, BracketKept
<1>2. QED BY <1>1, Invariance, PTL
=============================================================================
