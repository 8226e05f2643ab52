--------------------------- MODULE BinderMarshal ---------------------------
(***************************************************************************)
(* handle_binder_write_read of Venus (android/venus/binder.c).  A worker   *)
(* performs the Binder ioctl, copies the commands the driver returned into *)
(* a fixed buffer, replaces every pointer into the mapped Binder memory by *)
(* an offset, appends the memory the pointers designate, and answers with  *)
(* the whole.  ExpressOS unpacks the answer without seeing the memory.     *)
(*                                                                         *)
(* Sizes are constants: the sources have 4, 40, 8 and 8 bytes for the four *)
(* structures, 8K and 16K for the buffers, 16 segments, 4M - 4K of memory. *)
(***************************************************************************)
EXTENDS Integers, Sequences

CONSTANTS
    WORD,                \* sizeof(unsigned): a command word
    TXN,                 \* sizeof(struct binder_transaction_data)
    REFS,                \* 2 * sizeof(void *): the body of a reference command
    SEG,                 \* sizeof(struct data_segment)
    READ_BUFFER_SIZE,
    MARSHALER_BUF_SIZE,
    MAX_SEGMENT_NUM,
    VM_START,            \* g_binder_vm_start
    BINDER_VM_SIZE,
    SIZE_MOD,            \* size_t holds 0 .. SIZE_MOD - 1
    Commands,            \* commands the driver may return
    MAX_COMMANDS         \* bound: commands in one read

Simple    == {"BR_NOOP", "BR_TRANSACTION_COMPLETE", "BR_SPAWN_LOOPER"}
RefCmds   == {"BR_INCREFS", "BR_DECREFS", "BR_ACQUIRE", "BR_RELEASE"}
Txns      == {"BR_TRANSACTION", "BR_REPLY"}
OtherCmds == {"BR_ERROR", "BR_DEAD_REPLY", "BR_FAILED_REPLY"}

\* A pointer and the number of bytes it designates.
Ref == [ptr : Nat, len : Nat]
Command == [cmd : Simple \cup RefCmds \cup Txns \cup OtherCmds,
            data : Ref, offsets : Ref]
Segment == [offset : Nat, length : Nat]

ASSUME SizesAssumption ==
    /\ WORD \in Nat /\ WORD > 0
    /\ TXN \in Nat /\ REFS \in Nat
    /\ SEG \in Nat /\ SEG > 0
    /\ MAX_SEGMENT_NUM \in Nat /\ MAX_COMMANDS \in Nat
ASSUME BuffersAssumption ==
    /\ READ_BUFFER_SIZE \in Nat /\ MARSHALER_BUF_SIZE \in Nat
    /\ READ_BUFFER_SIZE <= MARSHALER_BUF_SIZE
    /\ VM_START \in Nat /\ BINDER_VM_SIZE \in Nat
    /\ SIZE_MOD \in Nat /\ SIZE_MOD > MARSHALER_BUF_SIZE
\* The driver hands out buffers of the memory it manages: none is longer than that
\* memory, none that starts in it reaches beyond it, and the memory is far
\* smaller than the address space.
InVm(p) == VM_START <= p /\ p < VM_START + BINDER_VM_SIZE
WithinVm(r) == InVm(r.ptr) => r.ptr + r.len <= VM_START + BINDER_VM_SIZE
ASSUME DriverAssumption ==
    /\ Commands \subseteq Command
    /\ \A c \in Commands : /\ c.data.len <= BINDER_VM_SIZE
                           /\ c.offsets.len <= BINDER_VM_SIZE
                           /\ WithinVm(c.data) /\ WithinVm(c.offsets)
    /\ BINDER_VM_SIZE + SEG < SIZE_MOD

VARIABLES
    pc,         \* "ioctl", "parse", "append", "answer", "sent" or "crashed"
    buf,        \* the commands at the start of the marshaler's buffer
    read_buffer,\* the commands as the driver left them, which buf is a copy of
    start,      \* start[i]: the byte at which command i begins
    end,        \* read_consumed: the bytes of buf that the driver filled
    k,          \* commands parsed
    ptr,        \* how far the parser has come, in bytes
    write_ptr,  \* the bytes of the buffer in use
    segments,   \* this_->segments[0 .. data_entries - 1]
    e,          \* segments appended
    payload,    \* what was appended: <offset, length, data>
    ret,        \* "ok" or the error
    down        \* the downcall

vars == <<pc, buf, read_buffer, start, end, k, ptr, write_ptr, segments, e,
          payload, ret, down>>

NoDowncall == [ret |-> "none", read_consumed |-> 0, payload_size |-> 0,
               data_entries |-> 0, payload |-> <<>>]

-----------------------------------------------------------------------------
(* The Binder driver (external) *)

Body(c) == CASE c.cmd \in Txns    -> TXN
             [] c.cmd \in RefCmds -> REFS
             [] OTHER             -> 0

Size(c) == WORD + Body(c)

\* The driver puts one more command into the read buffer.
DriverPut(c) ==
    /\ pc = "ioctl"
    /\ Len(buf) < MAX_COMMANDS
    /\ end + Size(c) <= READ_BUFFER_SIZE
    /\ buf' = Append(buf, c)
    /\ start' = Append(start, end)
    /\ end' = end + Size(c)
    /\ UNCHANGED <<pc, read_buffer, k, ptr, write_ptr, segments, e, payload, ret, down>>

\* The ioctl fails without having read anything.
IoctlFails ==
    /\ pc = "ioctl" /\ buf = <<>>
    /\ ret' = "ioctl"
    /\ pc' = "answer"
    /\ UNCHANGED <<buf, read_buffer, start, end, k, ptr, write_ptr, segments, e,
                   payload, down>>

\* The ioctl returns, and marshaler_marshal copies the read buffer to the start
\* of its own.  The parser does not rely on the last command being complete, so
\* its tail may be missing.
IoctlReturns ==
    /\ pc = "ioctl"
    /\ \/ end' = end
       \/ buf # <<>> /\ end' \in start[Len(start)] + 1 .. end
    /\ read_buffer' = buf
    /\ write_ptr' = end'
    /\ pc' = "parse"
    /\ UNCHANGED <<buf, start, k, ptr, segments, e, payload, ret, down>>

-----------------------------------------------------------------------------
(* marshaler_marshal *)

Fail(err) == pc' = "answer" /\ ret' = err

LeftAlone(err, segs, r) == [ret |-> err, segs |-> segs, ptr |-> r.ptr]
Recorded(segs, r) ==
    [ret  |-> "ok",
     segs |-> Append(segs, [offset |-> r.ptr - VM_START, length |-> r.len]),
     ptr  |-> r.ptr - VM_START]

\* Mutant: the first byte of the mapped memory counts as outside of it.
record_segment_SkipFirst(segs, r) ==
    IF Len(segs) >= MAX_SEGMENT_NUM THEN LeftAlone("ENOMEM", segs, r)
    ELSE IF ~InVm(r.ptr) \/ r.ptr = VM_START THEN LeftAlone("EFAULT", segs, r)
    ELSE Recorded(segs, r)

\* record_segment: note what the pointer designates and make it an offset.
record_segment(segs, r) ==
    IF Len(segs) >= MAX_SEGMENT_NUM THEN LeftAlone("ENOMEM", segs, r)
    ELSE IF ~InVm(r.ptr) THEN LeftAlone("EFAULT", segs, r)
    ELSE Recorded(segs, r)

\* A reference of length 0 is left alone.
RecordIfAny(segs, r) ==
    IF r.len = 0 THEN LeftAlone("ok", segs, r)
    ELSE record_segment(segs, r)

\* Mutant: the offsets of a transaction are not recorded.
marshal_transaction_DataOnly(tr) ==
    LET d == RecordIfAny(segments, tr.data)
    IN  /\ segments' = d.segs
        /\ buf' = [buf EXCEPT ![k + 1].data.ptr = d.ptr]
        /\ IF d.ret = "ok" THEN UNCHANGED <<pc, ret>> ELSE Fail(d.ret)

\* marshal_transaction: the data, then the offsets; the first error ends it, and
\* what was recorded before stays recorded.
marshal_transaction(tr) ==
    LET d == RecordIfAny(segments, tr.data)
        o == RecordIfAny(d.segs, tr.offsets)
    IN  \/ /\ d.ret # "ok"
           /\ Fail(d.ret)
           /\ UNCHANGED <<buf, segments>>
        \/ /\ d.ret = "ok"
           /\ segments' = o.segs
           /\ buf' = [buf EXCEPT ![k + 1].data.ptr = d.ptr,
                                 ![k + 1].offsets.ptr = o.ptr]
           /\ IF o.ret = "ok" THEN UNCHANGED <<pc, ret>> ELSE Fail(o.ret)

Parsing == pc = "parse" /\ ptr < end
Next1 == buf[k + 1]
parseRest == <<read_buffer, start, end, write_ptr, e, payload, down>>

\* The command word itself is cut off.
ParseShortWord ==
    /\ Parsing
    /\ ptr + WORD > end
    /\ Fail("EFAULT")
    /\ UNCHANGED <<buf, k, ptr, segments, parseRest>>

ParseSimple ==
    /\ Parsing /\ ptr + WORD <= end
    /\ Next1.cmd \in Simple
    /\ ptr' = ptr + WORD
    /\ k' = k + 1
    /\ UNCHANGED <<pc, buf, segments, ret, parseRest>>

\* Mutant: the parser does not advance over a reference command.
ParseRefs_NoAdvance ==
    /\ Parsing /\ ptr + WORD <= end
    /\ Next1.cmd \in RefCmds
    /\ UNCHANGED vars

\* The body of a reference command is skipped without a look at end.
ParseRefs ==
    /\ Parsing /\ ptr + WORD <= end
    /\ Next1.cmd \in RefCmds
    /\ ptr' = ptr + WORD + REFS
    /\ k' = k + 1
    /\ UNCHANGED <<pc, buf, segments, ret, parseRest>>

ParseShortTransaction ==
    /\ Parsing /\ ptr + WORD <= end
    /\ Next1.cmd \in Txns
    /\ ptr + WORD + TXN > end
    /\ ptr' = ptr + WORD
    /\ Fail("EFAULT")
    /\ UNCHANGED <<buf, k, segments, parseRest>>

ParseTransaction ==
    /\ Parsing /\ ptr + WORD <= end
    /\ Next1.cmd \in Txns
    /\ ptr + WORD + TXN <= end
    /\ ptr' = ptr + WORD + TXN
    /\ k' = k + 1
    /\ marshal_transaction(Next1)
    /\ UNCHANGED parseRest

ParseUnsupported ==
    /\ Parsing /\ ptr + WORD <= end
    /\ Next1.cmd \in OtherCmds
    /\ ptr' = ptr + WORD
    /\ Fail("-1")
    /\ UNCHANGED <<buf, k, segments, parseRest>>

ParseDone ==
    /\ pc = "parse" /\ ptr >= end
    /\ pc' = "append"
    /\ UNCHANGED <<buf, k, ptr, segments, ret, parseRest>>

-----------------------------------------------------------------------------
(* append_data_segments and the answer *)

appendRest == <<buf, read_buffer, start, end, k, ptr, segments, down>>

\* Mutant: the header of the segment is not counted.
Fits_NoHeader(s) == MARSHALER_BUF_SIZE - write_ptr >= s.length

\* The comparison in size_t of the room left with header and data.
Fits(s) == (MARSHALER_BUF_SIZE - write_ptr) % SIZE_MOD >= (SEG + s.length) % SIZE_MOD

AppendSegment ==
    /\ pc = "append" /\ e < Len(segments)
    /\ LET s == segments[e + 1]
       IN  \/ /\ Fits(s)
              /\ payload' = Append(payload, s)
              /\ write_ptr' = write_ptr + SEG + s.length
              /\ e' = e + 1
              /\ UNCHANGED <<pc, ret>>
           \/ /\ ~Fits(s)
              /\ Fail("-1")
              /\ UNCHANGED <<payload, write_ptr, e>>
    /\ UNCHANGED appendRest

AppendDone ==
    /\ pc = "append" /\ e = Len(segments)
    /\ pc' = "answer"
    /\ ret' = "ok"
    /\ UNCHANGED <<write_ptr, e, payload, appendRest>>

\* Mutant: the answer carries the buffer whether or not it is complete.
Answer_IgnoreError ==
    /\ pc = "answer"
    /\ down' = [ret |-> ret, read_consumed |-> end, payload_size |-> write_ptr,
                data_entries |-> Len(segments), payload |-> payload]
    /\ pc' = "sent"
    /\ UNCHANGED <<buf, read_buffer, start, end, k, ptr, write_ptr, segments, e,
                   payload, ret>>

\* The downcall.  After an error it has no payload, but read_consumed and
\* data_entries say what the ioctl and the marshaler had done.  The result of
\* malloc is used unchecked.
Answer ==
    /\ pc = "answer"
    /\ \/ /\ down' = [ret           |-> ret,
                      read_consumed |-> end,
                      payload_size  |-> IF ret = "ok" THEN write_ptr ELSE 0,
                      data_entries  |-> Len(segments),
                      payload       |-> IF ret = "ok" THEN payload ELSE <<>>]
          /\ pc' = "sent"
       \/ /\ pc' = "crashed"
          /\ UNCHANGED down
    /\ UNCHANGED <<buf, read_buffer, start, end, k, ptr, write_ptr, segments, e,
                   payload, ret>>

-----------------------------------------------------------------------------
Init ==
    /\ pc = "ioctl"
    /\ buf = <<>> /\ read_buffer = <<>> /\ start = <<>> /\ end = 0
    /\ k = 0 /\ ptr = 0
    /\ write_ptr = 0
    /\ segments = <<>>
    /\ e = 0
    /\ payload = <<>>
    /\ ret = "none"
    /\ down = NoDowncall

Parse ==
    \/ ParseShortWord \/ ParseSimple \/ ParseRefs \/ ParseShortTransaction
    \/ ParseTransaction \/ ParseUnsupported \/ ParseDone

Ioctl == (\E c \in Commands : DriverPut(c)) \/ IoctlFails \/ IoctlReturns

Next == Ioctl \/ Parse \/ AppendSegment \/ AppendDone \/ Answer

Spec == Init /\ [][Next]_vars

FairSpec == Spec /\ WF_vars(Parse \/ AppendSegment \/ AppendDone \/ Answer)

-----------------------------------------------------------------------------
(* Properties *)

Errors == {"none", "ok", "ioctl", "EFAULT", "ENOMEM", "-1"}

\* Type correctness.
TypeOK ==
    /\ pc \in {"ioctl", "parse", "append", "answer", "sent", "crashed"}
    /\ buf \in Seq(Command) /\ read_buffer \in Seq(Command)
    /\ start \in Seq(Nat) /\ Len(start) = Len(buf)
    /\ end \in 0 .. READ_BUFFER_SIZE
    /\ k \in Nat /\ ptr \in Nat /\ write_ptr \in Nat
    /\ segments \in Seq(Segment)
    /\ e \in 0 .. Len(segments)
    /\ payload \in Seq(Segment)
    /\ ret \in Errors

\* No copy of the marshaler leaves its arrays: the buffer of MARSHALER_BUF_SIZE,
\* the MAX_SEGMENT_NUM segments, and the mapped Binder memory it copies from.
NoOverrun ==
    /\ write_ptr <= MARSHALER_BUF_SIZE
    /\ Len(segments) <= MAX_SEGMENT_NUM
    /\ \A i \in 1 .. Len(segments) :
          segments[i].offset + segments[i].length <= BINDER_VM_SIZE

\* An answer carries all of the recorded segments, in order, or nothing at all:
\* an error in the middle never leaks the part that was done.
AllOrNothing ==
    pc = "sent" =>
        \/ /\ down.ret = "ok"
           /\ down.payload = segments
        \/ /\ down.ret # "ok"
           /\ down.payload_size = 0 /\ down.payload = <<>>

\* The references of a command whose pointers have been made offsets.
OneSegment(r) == IF r.len = 0 THEN <<>> ELSE << [offset |-> r.ptr, length |-> r.len] >>
SegmentsOf(c) ==
    IF c.cmd \in Txns THEN OneSegment(c.data) \o OneSegment(c.offsets) ELSE <<>>

\* Those of the first n commands, and the bytes that n segments take.
References(cmds, n) ==
    LET x[m \in 0 .. n] == IF m = 0 THEN <<>> ELSE x[m - 1] \o SegmentsOf(cmds[m])
    IN  x[n]
BytesOf(segs, n) ==
    LET b[m \in 0 .. n] == IF m = 0 THEN 0 ELSE b[m - 1] + SEG + segs[m].length
    IN  b[n]

\* What ExpressOS expects behind the commands.
Expected == References(buf, Len(buf))
Bytes(segs) == BytesOf(segs, Len(segs))

\* A reader who takes read_consumed bytes of commands and then one segment for
\* every reference in them, in order, finds exactly the answer: each rewritten
\* pointer has its segment, nothing is left over, and the sizes add up.
Decodable ==
    pc = "sent" /\ down.ret = "ok" =>
        /\ down.payload = Expected
        /\ down.data_entries = Len(Expected)
        /\ down.payload_size = down.read_consumed + Bytes(Expected)

\* What the parser must refuse with EFAULT: a command that the end of the read
\* buffer cuts off before what the parser reads of it, and a transaction that
\* refers to bytes that do not start in the mapped memory.
CutOff(i) ==
    end < start[i] + WORD + (IF read_buffer[i].cmd \in Txns THEN TXN ELSE 0)
Misplaced(r) == r.len # 0 /\ ~InVm(r.ptr)
Unreadable(i) ==
    \/ CutOff(i)
    \/ read_buffer[i].cmd \in Txns /\ ( \/ Misplaced(read_buffer[i].data)
                                       \/ Misplaced(read_buffer[i].offsets) )

\* Every refusal has its reason in what the driver returned: ENOMEM in more
\* references than segments, -1 in a command the parser does not know or in more
\* data than the buffer holds, EFAULT in a command that is cut off or points
\* outside the mapped memory.  A read that has none of these is answered.
ErrorsJustified ==
    pc = "sent" =>
        /\ down.ret \in {"ok", "ioctl", "ENOMEM", "-1", "EFAULT"}
        /\ down.ret = "ENOMEM" => Len(Expected) > MAX_SEGMENT_NUM
        /\ down.ret = "-1" =>
              \/ \E i \in 1 .. Len(buf) : buf[i].cmd \in OtherCmds
              \/ end + Bytes(Expected) > MARSHALER_BUF_SIZE
        /\ down.ret = "EFAULT" => \E i \in 1 .. Len(read_buffer) : Unreadable(i)

\* The handler comes to an end once the driver has returned.
Terminates == pc # "ioctl" ~> pc \in {"sent", "crashed"}
=============================================================================
