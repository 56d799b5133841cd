--------------------------- MODULE ChunkedTransfer ---------------------------
(***************************************************************************)
(* The transfers of mbcci-sfx that take many commands: transfer-fw and     *)
(* vu-dlcfg send a file to the device in chunks, directly or through the   *)
(* SDB tunnel; get-vendor-log appends a log of the device to a file.       *)
(*                                                                         *)
(* A block is what one command moves.  Bytes are not kept, only which part *)
(* of the file or of the log a block is.                                   *)
(***************************************************************************)
EXTENDS Integers, Sequences

CONSTANTS
  Jobs,         \* [kind : "fw", "cfg" or "log", via : "direct" or "tunnel",
                \*  chunk : the value of --chunk-size]
  Sizes,        \* sizes of files and logs
  Errors,       \* return codes of a device that refuses a command
  OffsetSpace   \* values of a uint32_t (2^32)

ASSUME TransferAssumption ==
  /\ Jobs \subseteq [kind : {"fw", "cfg", "log"}, via : {"direct", "tunnel"}, chunk : Nat]
  /\ \A j \in Jobs : j.kind = "log" => j.via = "direct" /\ j.chunk = 2048
  /\ Sizes \subseteq Nat
  /\ Errors \subseteq Nat \ {0, 1}
  /\ OffsetSpace \in Nat \ {0} /\ OffsetSpace % 128 = 0

VARIABLES
  at,      \* where the run is
  job,     \* the subcommand
  size,    \* file_size or total_size
  idx,     \* chunk_idx
  rc,      \* what the subcommand returns
  moved,   \* the blocks that arrived: at the device, or in the file of the log
  open,    \* the vendor mailbox is unlocked
  cut,     \* the file could not be read to its end
  short,   \* an answer was too short, and what it lacks was read as zeros
  unsaved, \* the end of the log did not reach the disk
  lost     \* the mailbox stayed open because an unlock or a lock failed

vars == <<at, job, size, idx, rc, moved, open, cut, short, unsaved, lost>>

BACKGROUND == 1
Signalled == -2          \* the run was killed; not a value of rc in the code
NoJob == [kind |-> "fw", via |-> "direct", chunk |-> 0]

-----------------------------------------------------------------------------
(* Chunks *)

\* Alignment of --chunk-size: CXL_FW_OFFSET_ALIGN, DLCFG_ALIGN.
Align(j) == IF j.kind = "fw" THEN 128 ELSE IF j.kind = "cfg" THEN 4 ELSE 1

chunk_size_ok_AnySize(j) == j.chunk > 0

\* The option as strtoul() reads it, before it is kept in 32 bits.
chunk_size_ok(j) == j.chunk >= Align(j) /\ j.chunk % Align(j) = 0

chunk_size(j) == IF j.kind = "log" THEN j.chunk ELSE j.chunk % OffsetSpace

\* A quotient by zero is undefined: where it does not kill the run (File), it
\* is zero.
num_chunks(j, sz) ==
  IF chunk_size(j) = 0 THEN 0
  ELSE ((sz + chunk_size(j) - 1) \div chunk_size(j)) % OffsetSpace

byte_offset(j, i) == (i * chunk_size(j)) % OffsetSpace

data_sz(j, sz, i) ==
  LET rest == sz - byte_offset(j, i)
  IN  IF rest > chunk_size(j) THEN chunk_size(j) ELSE rest

\* A configuration is padded to whole words.
pad_len(j, n) == IF j.kind = "cfg" THEN 4 * ((n + 3) \div 4) ELSE n

pick_action(i, n) ==
  IF n = 1 THEN "FULL"
  ELSE IF i = 0 THEN "INIT"
  ELSE IF i = n - 1 THEN "END" ELSE "CONTINUE"

\* The offset of firmware counts units of 128 bytes; Get Log has no action.
Block(j, sz, i) ==
  [action |-> IF j.kind = "log" THEN "READ" ELSE pick_action(i, num_chunks(j, sz)),
   offset |-> IF j.kind = "fw" THEN byte_offset(j, i) \div 128 ELSE byte_offset(j, i),
   len |-> pad_len(j, data_sz(j, sz, i))]

xfer_ok_AnyCode(j) == {0, BACKGROUND} \cup Errors

\* Return codes after which the loop goes on.
xfer_ok(j) == IF j.kind = "fw" THEN {0, BACKGROUND} ELSE {0}

-----------------------------------------------------------------------------
(* One command *)

Outcome(code, ran, lacks) == [rc |-> code, ran |-> ran, short |-> lacks]

\* The ioctl fails before or after the device carried the command out, or the
\* device refuses, or it succeeds with one of codes.  An answer through the
\* tunnel that is too short for the inner code reads as success, and so does
\* too short a piece of a log.
Outcomes(codes, allowed) ==
  {Outcome(-1, FALSE, FALSE)} \cup {Outcome(e, FALSE, FALSE) : e \in Errors}
  \cup (IF job.via = "tunnel" \/ job.kind = "log"
        THEN {Outcome(0, ran, TRUE) : ran \in {FALSE, allowed}} ELSE {})
  \cup (IF allowed
        THEN {Outcome(code, TRUE, FALSE) : code \in codes \cup {-1, BACKGROUND}}
        ELSE {})

-----------------------------------------------------------------------------
(* The run *)

Exit(code) == at' = "exit" /\ rc' = code

Start(j) ==
  /\ at = "idle" /\ chunk_size_ok(j)
  /\ job' = j
  /\ at' = IF j.kind = "cfg" THEN "unlock" ELSE IF j.kind = "log" THEN "lookup" ELSE "file"
  /\ UNCHANGED <<size, idx, rc, moved, open, cut, short, unsaved, lost>>

\* An option is wrong.
Refuse ==
  /\ at = "idle"
  /\ Exit(-1)
  /\ UNCHANGED <<job, size, idx, moved, open, cut, short, unsaved, lost>>

\* The size of the vendor log, from Get Supported Logs.
Lookup ==
  /\ at = "lookup"
  /\ \/ Exit(-1) /\ UNCHANGED size
     \/ /\ size' \in {n \in Sizes : 0 < n /\ n < OffsetSpace}
        /\ at' = "file" /\ UNCHANGED rc
  /\ UNCHANGED <<job, idx, moved, open, cut, short, unsaved, lost>>

Unlock ==
  /\ at = "unlock"
  /\ \E o \in Outcomes({0}, TRUE) :
       /\ open' = o.ran
       /\ short' = (short \/ o.short)
       /\ lost' = (o.ran /\ o.rc # 0)
       /\ IF o.rc = 0 THEN at' = "file" /\ UNCHANGED rc ELSE Exit(o.rc)
  /\ UNCHANGED <<job, size, idx, moved, cut, unsaved>>

Leave_NoLock(code) ==
  IF job.kind = "cfg" /\ code = 0 THEN at' = "lock" /\ rc' = code ELSE Exit(code)

\* The end of the transfer; the mailbox is locked whatever came of it.
Leave(code) ==
  IF job.kind = "cfg" THEN at' = "lock" /\ rc' = code ELSE Exit(code)

File_Zero ==
  /\ at = "file"
  /\ \/ Leave(-1) /\ UNCHANGED size
     \/ /\ at' = "chunk" /\ rc' = 0
        /\ IF job.kind = "log" THEN UNCHANGED size ELSE size' \in Sizes \ {0}
  /\ UNCHANGED <<job, idx, moved, open, cut, short, unsaved, lost>>

\* Open the file, find its size, count the chunks, allocate the buffer.  An
\* empty file is refused.  A division by zero may kill the run.
File ==
  /\ at = "file"
  /\ \/ Leave(-1) /\ UNCHANGED size
     \/ /\ \/ at' = "chunk" /\ rc' = -1
           \/ chunk_size(job) = 0 /\ Exit(Signalled)
        /\ IF job.kind = "log" THEN UNCHANGED size ELSE size' \in Sizes \ {0}
  /\ UNCHANGED <<job, idx, moved, open, cut, short, unsaved, lost>>

More == at = "chunk" /\ idx < num_chunks(job, size)

\* fread() comes back short: the file was cut since its size was taken, or
\* cannot be read.  rc keeps the value of the chunk before.
ReadShort ==
  /\ More /\ job.kind # "log"
  /\ Leave(rc) /\ cut' = TRUE
  /\ UNCHANGED <<job, size, idx, moved, open, short, unsaved, lost>>

\* The file has as many bytes left as the chunk takes.
Readable == data_sz(job, size, idx) <= size - idx * chunk_size(job)

SendChunk ==
  /\ More /\ job.kind # "log" /\ Readable
  /\ \E o \in Outcomes(xfer_ok(job), job.kind = "cfg" => open) :
       /\ moved' = IF o.ran THEN Append(moved, Block(job, size, idx)) ELSE moved
       /\ short' = (short \/ o.short)
       /\ IF o.rc \in xfer_ok(job)
          THEN idx' = idx + 1 /\ rc' = o.rc /\ UNCHANGED at
          ELSE Leave(o.rc) /\ UNCHANGED idx
  /\ UNCHANGED <<job, size, open, cut, unsaved, lost>>

\* Get Log and fwrite(); a write that fails ends the run.
ReadLog ==
  /\ More /\ job.kind = "log"
  /\ \E o \in Outcomes({0}, TRUE), written \in BOOLEAN :
       /\ short' = (short \/ o.short)
       /\ IF o.rc = 0 /\ written
          THEN /\ moved' = Append(moved, Block(job, size, idx))
               /\ idx' = idx + 1 /\ rc' = 0 /\ UNCHANGED at
          ELSE Exit(IF o.rc = 0 THEN -1 ELSE o.rc) /\ UNCHANGED <<idx, moved>>
  /\ UNCHANGED <<job, size, open, cut, unsaved, lost>>

\* All chunks are through.  What stdio still holds of a log is written by
\* fclose(), whose result nobody looks at.
Complete ==
  /\ at = "chunk" /\ ~More
  /\ Leave(0)
  /\ unsaved' \in {FALSE, job.kind = "log"}
  /\ moved' = IF unsaved' THEN SubSeq(moved, 1, Len(moved) - 1) ELSE moved
  /\ UNCHANGED <<job, size, idx, open, cut, short, lost>>

Lock ==
  /\ at = "lock"
  /\ \E o \in Outcomes({0}, TRUE) :
       /\ open' = (open /\ ~o.ran)
       /\ short' = (short \/ o.short)
       /\ lost' = (open /\ ~o.ran)
       /\ Exit(IF rc = 0 THEN o.rc ELSE rc)
  /\ UNCHANGED <<job, size, idx, moved, cut, unsaved>>

Kill ==
  /\ at \notin {"idle", "exit"}
  /\ Exit(Signalled)
  /\ UNCHANGED <<job, size, idx, moved, open, cut, short, unsaved, lost>>

Init ==
  /\ at = "idle" /\ job = NoJob /\ size = 0 /\ idx = 0 /\ rc = -1 /\ moved = <<>>
  /\ open = FALSE /\ cut = FALSE /\ short = FALSE /\ unsaved = FALSE /\ lost = FALSE

Done == at = "exit" /\ UNCHANGED vars

Next ==
  \/ \E j \in Jobs : Start(j)
  \/ Refuse \/ Lookup \/ Unlock \/ File \/ ReadShort \/ SendChunk \/ ReadLog
  \/ Complete \/ Lock \/ Kill \/ Done

Spec == Init /\ [][Next]_vars

-----------------------------------------------------------------------------
(* Properties *)

TypeOK ==
  /\ at \in {"idle", "lookup", "unlock", "file", "chunk", "lock", "exit"}
  /\ job \in Jobs \cup {NoJob}
  /\ size \in Sizes \cup {0} /\ idx \in Nat
  /\ rc \in {Signalled, -1, 0, BACKGROUND} \cup Errors
  /\ at = "chunk" => rc \in {-1, 0, BACKGROUND}
  /\ moved \in Seq([action : {"FULL", "INIT", "CONTINUE", "END", "READ"},
                    offset : Nat, len : Int])
  /\ {open, cut, short, unsaved, lost} \subseteq BOOLEAN

\* Nothing was hidden from the run, and the offsets fit in 32 bits.
Plain == ~short /\ size <= OffsetSpace

\* The first byte of a block, and the byte behind it.
First(b) == IF job.kind = "fw" THEN 128 * b.offset ELSE b.offset
Behind(b) == First(b) + b.len

\* The block reaches the end of the file or of the log; a configuration may be
\* padded.
Last(b) == size <= Behind(b) /\ Behind(b) <= size + 3

\* The blocks arrive from the first byte on, each where the one before ended,
\* and only the first one opens the transfer.  The device is told that it has
\* the last one (FULL or END) only when it has them all, so a transfer that
\* stops early never passes for a whole one.
InOrder ==
  Plain => \A i \in 1 .. Len(moved) :
    /\ First(moved[i]) = IF i = 1 THEN 0 ELSE Behind(moved[i - 1])
    /\ moved[i].len > 0
    /\ moved[i].action \in {"FULL", "INIT"} => i = 1
    /\ i = 1 => moved[i].action \in {"FULL", "INIT", "READ"}
    /\ moved[i].action \in {"FULL", "END"} => i = Len(moved) /\ Last(moved[i])

\* The whole file or log has arrived.
Whole ==
  /\ moved # <<>> /\ Last(moved[Len(moved)])
  /\ job.kind # "log" => moved[Len(moved)].action \in {"FULL", "END"}

\* Status 0 means that everything arrived, except when a later chunk of the
\* file could not be read (the loop leaves with the status of the chunk before),
\* when the end of a log was lost in fclose(), or when 32 bits left nothing of
\* the chunk size and the run survived dividing by it.  The mailbox was locked
\* again.
StatusTrue ==
  at = "exit" /\ rc = 0 /\ Plain =>
    /\ Whole \/ (cut /\ moved # <<>>) \/ unsaved \/ chunk_size(job) = 0
    /\ ~lost

\* The pieces of a configuration are sent to an open mailbox, and it is closed
\* on every way out, the failures of the file included, unless the command to
\* lock it was not carried out, an unlock failed after it took effect, or the
\* run was killed, by its own division by a chunk size of zero included.
BracketKept ==
  /\ at = "chunk" /\ job.kind = "cfg" => open \/ short
  /\ at = "exit" /\ open => lost \/ rc = Signalled

\* docs/mbcci-sfx-memdev-plan.md, common conventions of all cmd_*.c: the value
\* 0 means success.  For transfer-fw and vu-dlcfg: the device has the whole file.
\* (A chunk size of zero is left out; StatusTrue names it.)
ZeroIsSuccess ==
  at = "exit" /\ rc = 0 /\ Plain /\ job.kind # "log" /\ chunk_size(job) # 0 => Whole
=============================================================================
