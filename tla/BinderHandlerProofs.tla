------------------------ MODULE BinderHandlerProofs ------------------------
(***************************************************************************)
(* Proofs about the two halves of the Binder handler of Venus, for any     *)
(* sizes: PatchPayload, which prepares the write buffer, and BinderMarshal,*)
(* which answers with what the driver returned.                            *)
(***************************************************************************)
EXTENDS MCBinderHandler, SequenceTheorems, NaturalsInduction,
        WellFoundedInduction, TLAPS

-----------------------------------------------------------------------------
(* The answer *)

\* The recorded segments fit their array and lie inside the mapped memory.
SegmentsOK(segs) ==
    /\ segs \in Seq(Segment)
    /\ Len(segs) <= MAX_SEGMENT_NUM
    /\ \A i \in 1 .. Len(segs) : segs[i].offset + segs[i].length <= BINDER_VM_SIZE

\* Where the commands are, how far the parser is, and that it has not touched
\* the commands that are still ahead of it.
Layout ==
    /\ Len(buf) > 0 => start[1] = 0
    /\ \A i \in 1 .. Len(buf) : start[i] >= 0
    /\ \A i \in 1 .. Len(buf) - 1 : start[i + 1] = start[i] + Size(buf[i])
    /\ Len(buf) = 0 => end = 0
    /\ Len(buf) > 0 => end <= start[Len(buf)] + Size(buf[Len(buf)])
    /\ k <= Len(buf)
    /\ pc = "parse" => /\ k < Len(buf) => ptr = start[k + 1]
                       /\ k = Len(buf) => ptr >= end
    /\ \A i \in k + 1 .. Len(buf) : buf[i] \in Commands
    /\ pc = "ioctl" =>
          /\ k = 0 /\ ptr = 0
          /\ Len(buf) > 0 => end = start[Len(buf)] + Size(buf[Len(buf)])

\* What has been appended is the first part of what was recorded.
Appended ==
    /\ Len(payload) = e
    /\ \A i \in 1 .. e : payload[i] = segments[i]
    /\ pc \in {"ioctl", "parse"} => e = 0
    /\ pc \in {"ioctl", "parse", "append"} => ret = "none"
    /\ pc = "answer" /\ ret = "ok" => e = Len(segments)
    /\ pc = "sent" => AllOrNothing

Room == write_ptr <= MARSHALER_BUF_SIZE

IInv == TypeOK /\ SegmentsOK(segments) /\ Layout /\ Appended /\ Room

-----------------------------------------------------------------------------
LEMMA InitIInv == Init => IInv
<1> SUFFICES ASSUME Init PROVE IInv
  OBVIOUS
<1>1. /\ Len(buf) = 0 /\ Len(start) = 0 /\ Len(segments) = 0 /\ Len(payload) = 0
      /\ buf \in Seq(Command) /\ read_buffer \in Seq(Command) /\ start \in Seq(Nat)
      /\ segments \in Seq(Segment) /\ payload \in Seq(Segment)
  BY EmptySeq DEF Init
<1>2. TypeOK
  BY <1>1, BuffersAssumption, SMT DEF Init, TypeOK, Errors
<1>3. SegmentsOK(segments)
  BY <1>1, SizesAssumption, SMT DEF SegmentsOK
<1>4. Layout
  BY <1>1, SMT DEF Init, Layout
<1>5. Appended /\ Room
  BY <1>1, BuffersAssumption, SMT DEF Init, Appended, Room
<1> QED
  BY <1>2, <1>3, <1>4, <1>5 DEF IInv

LEMMA SizeType ==
    /\ \A c \in Command : Size(c) \in Nat /\ Size(c) >= WORD /\ Size(c) > 0
BY SizesAssumption, SMT DEF Size, Body

\* record_segment keeps the array within bounds and the pointers typed.
LEMMA RecordOK ==
    ASSUME NEW segs, SegmentsOK(segs), NEW r \in Ref, WithinVm(r)
    PROVE  LET x == RecordIfAny(segs, r)
           IN  /\ SegmentsOK(x.segs)
               /\ x.ptr \in Nat
               /\ x.ret \in {"ok", "ENOMEM", "EFAULT"}
               /\ Len(x.segs) >= Len(segs)
<1> DEFINE x == RecordIfAny(segs, r)
           s == [offset |-> r.ptr - VM_START, length |-> r.len]
<1>1. r.ptr \in Nat /\ r.len \in Nat
  BY DEF Ref
<1>2. segs \in Seq(Segment) /\ Len(segs) \in Nat
  BY LenProperties DEF SegmentsOK
<1>3. \/ x = [ret |-> "ok", segs |-> segs, ptr |-> r.ptr]
      \/ x = [ret |-> "ENOMEM", segs |-> segs, ptr |-> r.ptr]
      \/ x = [ret |-> "EFAULT", segs |-> segs, ptr |-> r.ptr]
      \/ /\ Len(segs) < MAX_SEGMENT_NUM /\ InVm(r.ptr)
         /\ x = [ret |-> "ok", ptr |-> r.ptr - VM_START, segs |-> Append(segs, s)]
  BY <1>1, <1>2, SizesAssumption, SMT DEF RecordIfAny, record_segment, LeftAlone, Recorded
<1>4. CASE /\ Len(segs) < MAX_SEGMENT_NUM /\ InVm(r.ptr)
           /\ x = [ret |-> "ok", ptr |-> r.ptr - VM_START, segs |-> Append(segs, s)]
  <2>1. r.ptr - VM_START \in Nat /\ (r.ptr - VM_START) + r.len <= BINDER_VM_SIZE
    BY <1>1, <1>4, BuffersAssumption, SMT DEF InVm, WithinVm
  <2>2. s \in Segment
    BY <1>1, <2>1 DEF Segment
  <2>3. /\ Append(segs, s) \in Seq(Segment)
        /\ Len(Append(segs, s)) = Len(segs) + 1
        /\ \A i \in 1 .. Len(segs) : Append(segs, s)[i] = segs[i]
        /\ Append(segs, s)[Len(segs) + 1] = s
    BY <1>2, <2>2, AppendProperties
  <2>4. s.offset + s.length <= BINDER_VM_SIZE
    BY <2>1
  <2> HIDE DEF s
  <2>5. \A i \in 1 .. Len(segs) + 1 :
          Append(segs, s)[i].offset + Append(segs, s)[i].length <= BINDER_VM_SIZE
    BY <1>2, <2>3, <2>4, SMT DEF SegmentsOK
  <2>6. SegmentsOK(Append(segs, s))
    BY <1>2, <1>4, <2>3, <2>5, SizesAssumption, SMT DEF SegmentsOK
  <2>7. Len(Append(segs, s)) >= Len(segs)
    BY <1>2, <2>3, SMT
  <2> QED
    BY <1>4, <2>1, <2>6, <2>7
<1> QED
  BY <1>1, <1>2, <1>3, <1>4, SMT

-----------------------------------------------------------------------------
LEMMA IoctlStep == IInv /\ Ioctl => IInv'
<1> SUFFICES ASSUME IInv, Ioctl PROVE IInv'
  OBVIOUS
<1>0. /\ buf \in Seq(Command) /\ start \in Seq(Nat) /\ Len(buf) \in Nat
      /\ Len(start) = Len(buf) /\ Len(segments) \in Nat
      /\ READ_BUFFER_SIZE \in Nat /\ MARSHALER_BUF_SIZE \in Nat
      /\ READ_BUFFER_SIZE <= MARSHALER_BUF_SIZE
  BY LenProperties, BuffersAssumption DEF IInv, TypeOK
<1>1. ASSUME NEW c \in Commands, DriverPut(c)
      PROVE  IInv'
  <2>1. c \in Command /\ Size(c) \in Nat /\ Size(c) > 0
    BY DriverAssumption, SizeType
  <2>2. /\ pc = "ioctl"
        /\ end + Size(c) <= READ_BUFFER_SIZE
        /\ buf' = Append(buf, c) /\ start' = Append(start, end)
        /\ end' = end + Size(c)
        /\ UNCHANGED <<pc, read_buffer, k, ptr, write_ptr, segments, e, payload, ret, down>>
    BY <1>1 DEF DriverPut
  <2>3. end \in Nat
    BY <1>0, SMT DEF IInv, TypeOK
  <2>4. /\ buf' \in Seq(Command) /\ Len(buf') = Len(buf) + 1
        /\ \A i \in 1 .. Len(buf) : buf'[i] = buf[i]
        /\ buf'[Len(buf) + 1] = c
    BY <1>0, <2>1, <2>2, AppendProperties
  <2>5. /\ start' \in Seq(Nat) /\ Len(start') = Len(buf) + 1
        /\ \A i \in 1 .. Len(buf) : start'[i] = start[i]
        /\ start'[Len(buf) + 1] = end
    BY <1>0, <2>2, <2>3, AppendProperties
  <2>6. TypeOK'
    BY <1>0, <2>1, <2>2, <2>3, <2>4, <2>5, SMT DEF IInv, TypeOK
  <2>7. Layout'
    <3>1. k' = 0 /\ ptr' = 0 /\ k = 0 /\ pc' = "ioctl"
      BY <2>2 DEF IInv, Layout
    <3>2. (Len(buf) > 0 => start[1] = 0)'
      BY <1>0, <2>4, <2>5, SMT DEF IInv, Layout
    <3>3. (\A i \in 1 .. Len(buf) : start[i] >= 0)'
      BY <1>0, <2>3, <2>4, <2>5, SMT DEF IInv, Layout
    <3>4. (\A i \in 1 .. Len(buf) - 1 : start[i + 1] = start[i] + Size(buf[i]))'
      <4>1. SUFFICES ASSUME NEW i \in 1 .. Len(buf)
                     PROVE  start'[i + 1] = start'[i] + Size(buf'[i])
        BY <1>0, <2>4, SMT DEF Size, Body
      <4>2. buf'[i] = buf[i] /\ start'[i] = start[i]
        BY <2>4, <2>5
      <4>3. CASE i = Len(buf)
        BY <1>0, <2>2, <2>5, <4>2, <4>3, SMT DEF IInv, Layout
      <4>4. CASE i # Len(buf)
        <5>1. i \in 1 .. Len(buf) - 1 /\ i + 1 \in 1 .. Len(buf)
          BY <1>0, <4>4, SMT
        <5> QED
          BY <2>5, <4>2, <5>1 DEF IInv, Layout
      <4> QED
        BY <4>3, <4>4
    <3>5. (Len(buf) > 0 => end = start[Len(buf)] + Size(buf[Len(buf)]))'
      BY <2>2, <2>4, <2>5 DEF Size, Body
    <3>6. Len(buf') > 0 /\ k' <= Len(buf')
      BY <1>0, <2>4, <3>1, SMT
    <3>7. end' \in Nat
      BY <2>1, <2>2, <2>3, SMT
    <3>8. (\A i \in k + 1 .. Len(buf) : buf[i] \in Commands)'
      BY <1>0, <2>2, <2>4, <3>1, SMT DEF IInv, Layout
    <3> QED
      BY <3>1, <3>2, <3>3, <3>4, <3>5, <3>6, <3>7, <3>8, SMT DEF Layout
  <2>8. SegmentsOK(segments)'
    BY <2>2 DEF IInv, SegmentsOK
  <2>9. Appended' /\ Room'
    BY <2>2 DEF IInv, Appended, Room
  <2> QED
    BY <2>6, <2>7, <2>8, <2>9 DEF IInv
<1>2. CASE IoctlFails
  <2>1. UNCHANGED <<buf, read_buffer, start, end, k, ptr, write_ptr, segments, e,
                    payload, down>>
    BY <1>2 DEF IoctlFails
  <2>2. pc = "ioctl" /\ pc' = "answer" /\ ret' = "ioctl"
    BY <1>2 DEF IoctlFails
  <2>3. TypeOK'
    BY <2>1, <2>2 DEF IInv, TypeOK, Errors
  <2>4. SegmentsOK(segments)' /\ Room'
    BY <2>1 DEF IInv, SegmentsOK, Room
  <2>5. Layout'
    BY <2>1, <2>2 DEF IInv, Layout, Size, Body
  <2>6. Appended'
    BY <2>1, <2>2 DEF IInv, Appended
  <2> QED
    BY <2>3, <2>4, <2>5, <2>6 DEF IInv
<1>3. CASE IoctlReturns
  <2>1. /\ UNCHANGED <<buf, start, k, ptr, segments, e, payload, ret, down>>
        /\ pc = "ioctl" /\ pc' = "parse" /\ write_ptr' = end' /\ read_buffer' = buf
    BY <1>3 DEF IoctlReturns
  <2>2. /\ end' \in 0 .. READ_BUFFER_SIZE /\ end' <= end
        /\ Len(buf) = 0 => end' = 0
    <3>1. CASE end' = end
      BY <1>0, <3>1, SMT DEF IInv, TypeOK, Layout
    <3>2. CASE buf # <<>> /\ end' \in start[Len(start)] + 1 .. end
      <4>1. Len(buf) > 0
        BY <1>0, <3>2, EmptySeq, SMT
      <4>2. start[Len(start)] \in Nat
        BY <1>0, <4>1, ElementOfSeq, SMT
      <4> QED
        BY <1>0, <3>2, <4>1, <4>2, SMT DEF IInv, TypeOK
    <3> QED
      BY <1>3, <3>1, <3>2 DEF IoctlReturns
  <2>3. TypeOK'
    BY <1>0, <2>1, <2>2, SMT DEF IInv, TypeOK
  <2>4. SegmentsOK(segments)'
    BY <2>1 DEF IInv, SegmentsOK
  <2>5. Room'
    BY <1>0, <2>1, <2>2, SMT DEF Room
  <2>6. k = 0 /\ ptr = 0 /\ (Len(buf) > 0 => start[1] = 0)
    BY <2>1 DEF IInv, Layout
  <2>7. Len(buf) > 0 => end' <= start[Len(buf)] + Size(buf[Len(buf)])
    <3> SUFFICES ASSUME Len(buf) > 0
                 PROVE  end' <= start[Len(buf)] + Size(buf[Len(buf)])
      OBVIOUS
    <3>1. start[Len(buf)] \in Nat /\ buf[Len(buf)] \in Command
      BY <1>0, ElementOfSeq, SMT
    <3>2. Size(buf[Len(buf)]) \in Nat
      BY <3>1, SizeType
    <3> QED
      BY <1>0, <2>2, <3>1, <3>2, SMT DEF IInv, Layout, TypeOK
  <2>8. Layout'
    BY <1>0, <2>1, <2>2, <2>6, <2>7, SMT DEF IInv, Layout, Size, Body
  <2>9. Appended'
    BY <2>1 DEF IInv, Appended
  <2> QED
    BY <2>3, <2>4, <2>5, <2>8, <2>9 DEF IInv
<1> QED
  BY <1>1, <1>2, <1>3 DEF Ioctl

\* While the parser runs there is a command at ptr, and it is as the driver
\* wrote it.
LEMMA CommandAhead ==
    ASSUME IInv, Parsing
    PROVE  /\ k \in Nat /\ Len(buf) \in Nat /\ k + 1 \in 1 .. Len(buf)
           /\ Next1 \in Commands /\ Next1 \in Command
           /\ ptr = start[k + 1]
<1>1. k \in Nat /\ Len(buf) \in Nat /\ ptr \in Nat /\ end \in Nat
  BY LenProperties, BuffersAssumption, SMT DEF IInv, TypeOK
<1>2. k < Len(buf)
  BY <1>1, SMT DEF IInv, Layout, Parsing
<1>3. k + 1 \in 1 .. Len(buf) /\ k + 1 \in k + 1 .. Len(buf)
  BY <1>1, <1>2, SMT
<1> QED
  BY <1>1, <1>2, <1>3, DriverAssumption DEF IInv, Layout, Parsing, Next1

\* Advancing over one command, which may be rewritten but keeps its kind, keeps
\* the layout.
LEMMA Advance ==
    ASSUME IInv, Parsing,
           k' = k + 1, ptr' = ptr + Size(Next1),
           UNCHANGED <<start, end>>, pc' \in {"parse", "answer"},
           buf' \in Seq(Command), Len(buf') = Len(buf),
           buf'[k + 1].cmd = buf[k + 1].cmd,
           \A i \in 1 .. Len(buf) : i # k + 1 => buf'[i] = buf[i]
    PROVE  Layout' /\ k' \in Nat /\ ptr' \in Nat
<1>1. /\ k \in Nat /\ Len(buf) \in Nat /\ k + 1 \in 1 .. Len(buf)
      /\ Next1 \in Command /\ ptr = start[k + 1]
  BY CommandAhead
<1>2. \A i \in 1 .. Len(buf) : Size(buf'[i]) = Size(buf[i])
  BY DEF Size, Body
<1>3. ptr \in Nat /\ end \in Nat /\ Size(Next1) \in Nat
  BY <1>1, SizeType, BuffersAssumption, SMT DEF IInv, TypeOK
<1>4. k' \in Nat /\ ptr' \in Nat /\ k' <= Len(buf)
  BY <1>1, <1>3, SMT
<1>5. /\ Len(buf) > 0
      /\ \A i \in 1 .. Len(buf) - 1 : i \in 1 .. Len(buf)
      /\ Len(buf) \in 1 .. Len(buf)
  BY <1>1, SMT
<1>6. (\A i \in 1 .. Len(buf) - 1 : start[i + 1] = start[i] + Size(buf[i]))'
  <2>1. \A i \in 1 .. Len(buf) - 1 : start[i + 1] = start[i] + Size(buf'[i])
    BY <1>2, <1>5 DEF IInv, Layout
  <2> QED
    BY <2>1 DEF Size, Body
<1>7. (Len(buf) > 0 => end <= start[Len(buf)] + Size(buf[Len(buf)]))'
  <2>1. end <= start[Len(buf)] + Size(buf'[Len(buf)])
    BY <1>2, <1>5 DEF IInv, Layout
  <2> QED
    BY <2>1 DEF Size, Body
<1>8. k' < Len(buf) => ptr' = start[k' + 1]
  <2>1. k' < Len(buf) => k + 1 \in 1 .. Len(buf) - 1
    BY <1>1, SMT
  <2> QED
    BY <1>1, <2>1 DEF IInv, Layout, Next1
<1>9. k' = Len(buf) => ptr' >= end
  BY <1>1, <1>3, <1>5 DEF IInv, Layout, Next1
<1>10. \A i \in k' + 1 .. Len(buf) : buf'[i] \in Commands
  BY <1>1, SMT DEF IInv, Layout
<1> QED
  BY <1>4, <1>5, <1>6, <1>7, <1>8, <1>9, <1>10 DEF IInv, Layout

LEMMA ParseStep == IInv /\ Parse => IInv'
<1> SUFFICES ASSUME IInv, Parse PROVE IInv'
  OBVIOUS
\* The steps that leave the commands and the segments alone and fail.
<1>1. CASE ParseShortWord \/ ParseShortTransaction \/ ParseUnsupported
  <2>1. /\ UNCHANGED <<buf, read_buffer, k, segments, start, end, write_ptr, e, payload, down>>
        /\ pc = "parse" /\ pc' = "answer" /\ ret' \in {"EFAULT", "-1"}
        /\ ptr' \in {ptr, ptr + WORD}
    BY <1>1 DEF ParseShortWord, ParseShortTransaction, ParseUnsupported, Parsing,
                Fail, parseRest
  <2>2. ptr' \in Nat
    BY <2>1, SizesAssumption, SMT DEF IInv, TypeOK
  <2>3. TypeOK'
    BY <2>1, <2>2 DEF IInv, TypeOK, Errors
  <2>4. SegmentsOK(segments)' /\ Room'
    BY <2>1 DEF IInv, SegmentsOK, Room
  <2>5. Layout'
    BY <2>1 DEF IInv, Layout, Size, Body
  <2>6. Appended'
    BY <2>1 DEF IInv, Appended
  <2> QED
    BY <2>3, <2>4, <2>5, <2>6 DEF IInv
\* The steps that only advance.
<1>2. CASE ParseSimple \/ ParseRefs
  <2>1. /\ Parsing /\ pc = "parse" /\ k' = k + 1
        /\ UNCHANGED <<pc, buf, read_buffer, segments, ret, start, end, write_ptr, e,
                       payload, down>>
    BY <1>2 DEF ParseSimple, ParseRefs, Parsing, parseRest
  <2>2. ptr' = ptr + Size(Next1)
    <3>1. CASE ParseSimple
      <4>1. Body(Next1) = 0 /\ ptr' = ptr + WORD
        BY <3>1 DEF ParseSimple, Body, Simple, RefCmds, Txns
      <4>2. ptr \in Nat /\ WORD \in Nat
        BY SizesAssumption DEF IInv, TypeOK
      <4> QED
        BY <4>1, <4>2, SMT DEF Size
    <3>2. CASE ParseRefs
      <4>1. Body(Next1) = REFS /\ ptr' = ptr + WORD + REFS
        BY <3>2 DEF ParseRefs, Body, Simple, RefCmds, Txns
      <4>2. ptr \in Nat /\ WORD \in Nat /\ REFS \in Nat
        BY SizesAssumption DEF IInv, TypeOK
      <4> QED
        BY <4>1, <4>2, SMT DEF Size
    <3> QED
      BY <1>2, <3>1, <3>2
  <2>3. buf \in Seq(Command)
    BY DEF IInv, TypeOK
  <2>4. Layout' /\ k' \in Nat /\ ptr' \in Nat
    BY <2>1, <2>2, <2>3, Advance
  <2>5. TypeOK'
    BY <2>1, <2>4 DEF IInv, TypeOK
  <2>6. SegmentsOK(segments)' /\ Room' /\ Appended'
    BY <2>1 DEF IInv, SegmentsOK, Room, Appended
  <2> QED
    BY <2>4, <2>5, <2>6 DEF IInv
<1>3. CASE ParseTransaction
  <2> DEFINE tr == Next1
             d == RecordIfAny(segments, tr.data)
             o == RecordIfAny(d.segs, tr.offsets)
  <2>1. /\ Parsing /\ pc = "parse" /\ k' = k + 1 /\ tr.cmd \in Txns
        /\ ptr' = ptr + WORD + TXN
        /\ UNCHANGED <<read_buffer, start, end, write_ptr, e, payload, down>>
        /\ marshal_transaction(tr)
    BY <1>3 DEF ParseTransaction, Parsing, parseRest
  <2>2. /\ tr \in Commands /\ tr \in Command /\ tr = buf[k + 1]
        /\ k \in Nat /\ k + 1 \in 1 .. Len(buf)
    BY <2>1, CommandAhead DEF Next1
  <2>3. ptr' = ptr + Size(tr)
    <3>1. Body(tr) = TXN
      BY <2>1 DEF Body, RefCmds, Txns
    <3>2. ptr \in Nat /\ WORD \in Nat /\ TXN \in Nat
      BY SizesAssumption DEF IInv, TypeOK
    <3> QED
      BY <2>1, <3>1, <3>2, SMT DEF Size
  <2>4. /\ tr.data \in Ref /\ tr.offsets \in Ref
        /\ WithinVm(tr.data) /\ WithinVm(tr.offsets)
    BY <2>2, DriverAssumption DEF Command
  <2>5. /\ SegmentsOK(d.segs) /\ d.ptr \in Nat /\ d.ret \in {"ok", "ENOMEM", "EFAULT"}
    BY <2>4, RecordOK DEF IInv
  <2>6. /\ SegmentsOK(o.segs) /\ o.ptr \in Nat /\ o.ret \in {"ok", "ENOMEM", "EFAULT"}
    BY <2>4, <2>5, RecordOK
  <2> HIDE DEF d, o
  <2>7. /\ SegmentsOK(segments')
        /\ \/ pc' = pc /\ ret' = ret
           \/ pc' = "answer" /\ ret' \in {"ENOMEM", "EFAULT"}
        /\ \/ buf' = buf
           \/ buf' = [buf EXCEPT ![k + 1].data.ptr = d.ptr,
                                 ![k + 1].offsets.ptr = o.ptr]
    BY <2>1, <2>5, <2>6 DEF marshal_transaction, Fail, IInv, d, o
  <2>8. /\ buf' \in Seq(Command) /\ Len(buf') = Len(buf)
        /\ buf'[k + 1].cmd = buf[k + 1].cmd
        /\ \A i \in 1 .. Len(buf) : i # k + 1 => buf'[i] = buf[i]
    <3>1. CASE buf' = buf
      BY <3>1 DEF IInv, TypeOK
    <3>2. CASE buf' = [buf EXCEPT ![k + 1].data.ptr = d.ptr,
                                  ![k + 1].offsets.ptr = o.ptr]
      <4> DEFINE c == [tr EXCEPT !.data.ptr = d.ptr, !.offsets.ptr = o.ptr]
      <4>1. buf' = [buf EXCEPT ![k + 1] = c]
        BY <2>2, <3>2 DEF IInv, TypeOK, Command
      <4>2. c \in Command /\ c.cmd = tr.cmd
        BY <2>2, <2>5, <2>6 DEF Command, Ref
      <4> HIDE DEF c
      <4>3. buf \in Seq(Command)
        BY DEF IInv, TypeOK
      <4>4. buf' \in Seq(Command) /\ Len(buf') = Len(buf)
        BY <2>2, <4>1, <4>2, <4>3, ExceptSeq
      <4>5. buf'[k + 1] = c /\ \A i \in 1 .. Len(buf) : i # k + 1 => buf'[i] = buf[i]
        BY <2>2, <4>1, <4>3, ExceptSeq
      <4> QED
        BY <2>2, <4>2, <4>4, <4>5
    <3> QED
      BY <2>7, <3>1, <3>2
  <2>9. Layout' /\ k' \in Nat /\ ptr' \in Nat
    <3>1. pc' \in {"parse", "answer"}
      BY <2>1, <2>7
    <3> QED
      BY <2>1, <2>3, <2>8, <3>1, Advance
  <2>10. e = 0 /\ e' = 0 /\ Len(segments') \in Nat
    BY <2>1, <2>7, LenProperties DEF IInv, Appended, SegmentsOK
  <2>11. TypeOK'
    BY <2>1, <2>7, <2>8, <2>9, <2>10, SMTT(20) DEF IInv, TypeOK, Errors, SegmentsOK
  <2>12. Appended'
    BY <2>1, <2>7, <2>10, SMT DEF IInv, Appended
  <2>13. SegmentsOK(segments)' /\ Room'
    BY <2>1, <2>7 DEF IInv, Room, SegmentsOK
  <2> QED
    BY <2>9, <2>11, <2>12, <2>13 DEF IInv
<1>4. CASE ParseDone
  <2>1. /\ UNCHANGED <<buf, read_buffer, k, ptr, segments, ret, start, end, write_ptr, e,
                       payload, down>>
        /\ pc = "parse" /\ pc' = "append"
    BY <1>4 DEF ParseDone, parseRest
  <2>2. TypeOK' /\ SegmentsOK(segments)' /\ Room' /\ Appended'
    BY <2>1 DEF IInv, TypeOK, SegmentsOK, Room, Appended
  <2>3. Layout'
    BY <2>1 DEF IInv, Layout, Size, Body
  <2> QED
    BY <2>2, <2>3 DEF IInv
<1> QED
  BY <1>1, <1>2, <1>3, <1>4 DEF Parse

\* The comparison in size_t is the comparison of the integers: nothing wraps.
LEMMA FitsMeansFits ==
    ASSUME IInv, NEW s \in Segment, s.offset + s.length <= BINDER_VM_SIZE, Fits(s)
    PROVE  write_ptr + SEG + s.length <= MARSHALER_BUF_SIZE
<1>1. /\ s.length \in Nat /\ s.offset \in Nat /\ write_ptr \in Nat
      /\ write_ptr <= MARSHALER_BUF_SIZE
  BY DEF Segment, IInv, TypeOK, Room
<1> DEFINE room == MARSHALER_BUF_SIZE - write_ptr
           need == SEG + s.length
<1>2. /\ room \in 0 .. SIZE_MOD - 1
      /\ need \in 0 .. SIZE_MOD - 1
      /\ SIZE_MOD \in Nat /\ SIZE_MOD > 0
  BY <1>1, SizesAssumption, BuffersAssumption, DriverAssumption, SMT
<1>3. Fits(s) <=> room % SIZE_MOD >= need % SIZE_MOD
  BY DEF Fits
<1> HIDE DEF room, need
<1>4. room % SIZE_MOD = room /\ need % SIZE_MOD = need
  BY <1>2, SMT
<1>5. room >= need
  BY <1>3, <1>4
<1> QED
  BY <1>1, <1>5, SizesAssumption, BuffersAssumption, SMT DEF room, need

LEMMA AppendStep == IInv /\ (AppendSegment \/ AppendDone) => IInv'
<1> SUFFICES ASSUME IInv, AppendSegment \/ AppendDone PROVE IInv'
  OBVIOUS
<1>1. /\ UNCHANGED <<buf, read_buffer, start, end, k, ptr, segments, down>>
      /\ pc = "append" /\ pc' \in {"append", "answer"}
  BY DEF AppendSegment, AppendDone, appendRest, Fail
<1>2. Layout' /\ SegmentsOK(segments)'
  BY <1>1 DEF IInv, Layout, Size, Body, SegmentsOK
<1>3. /\ segments \in Seq(Segment) /\ Len(segments) \in Nat /\ e \in Nat
      /\ payload \in Seq(Segment) /\ Len(payload) = e
  BY LenProperties, SMT DEF IInv, TypeOK, Appended
<1>4. CASE AppendDone
  <2>1. UNCHANGED <<write_ptr, e, payload>> /\ e = Len(segments) /\ ret' = "ok"
    BY <1>4 DEF AppendDone
  <2>2. TypeOK' /\ Room'
    BY <1>1, <2>1 DEF IInv, TypeOK, Errors, Room
  <2>3. Appended'
    BY <1>1, <2>1, <1>4 DEF IInv, Appended, AppendDone
  <2> QED
    BY <1>2, <2>2, <2>3 DEF IInv
<1>5. CASE AppendSegment /\ UNCHANGED <<payload, write_ptr, e>> /\ Fail("-1")
  <2>1. TypeOK' /\ Room'
    BY <1>1, <1>5 DEF IInv, TypeOK, Errors, Room, Fail
  <2>2. Appended'
    BY <1>1, <1>5 DEF IInv, Appended, Fail
  <2> QED
    BY <1>2, <2>1, <2>2 DEF IInv
<1>6. CASE AppendSegment /\ UNCHANGED <<pc, ret>>
  <2> DEFINE s == segments[e + 1]
  <2>0. e < Len(segments)
    BY <1>6 DEF AppendSegment
  <2>1. e + 1 \in 1 .. Len(segments) /\ s \in Segment
    BY <1>3, <2>0, ElementOfSeq, SMT
  <2>2. /\ Fits(s) /\ payload' = Append(payload, s)
        /\ write_ptr' = write_ptr + SEG + s.length /\ e' = e + 1
    BY <1>1, <1>6 DEF AppendSegment, Fail
  <2>3. s.offset + s.length <= BINDER_VM_SIZE
    BY <2>1 DEF IInv, SegmentsOK
  <2> HIDE DEF s
  <2>4. write_ptr' <= MARSHALER_BUF_SIZE
    BY <2>1, <2>2, <2>3, FitsMeansFits
  <2>5. write_ptr' \in Nat
    <3>1. s.length \in Nat /\ write_ptr \in Nat /\ SEG \in Nat
      BY <2>1, SizesAssumption DEF Segment, IInv, TypeOK
    <3> QED
      BY <2>2, <3>1, SMT
  <2>6. /\ payload' \in Seq(Segment) /\ Len(payload') = e + 1
        /\ \A i \in 1 .. e : payload'[i] = payload[i]
        /\ payload'[e + 1] = s
    BY <1>3, <2>1, <2>2, AppendProperties
  <2>7. TypeOK'
    BY <1>1, <1>3, <1>6, <2>0, <2>2, <2>5, <2>6, SMT DEF IInv, TypeOK
  <2>8. \A i \in 1 .. e + 1 : payload'[i] = segments[i]
    BY <1>3, <2>6, SMT DEF IInv, Appended, s
  <2>9. Appended'
    BY <1>1, <1>6, <2>2, <2>6, <2>8 DEF IInv, Appended
  <2>10. Room'
    BY <2>4 DEF Room
  <2> QED
    BY <1>2, <2>7, <2>9, <2>10 DEF IInv
<1> QED
  BY <1>4, <1>5, <1>6 DEF AppendSegment

LEMMA AnswerStep == IInv /\ Answer => IInv'
<1> SUFFICES ASSUME IInv, Answer PROVE IInv'
  OBVIOUS
<1>1. /\ UNCHANGED <<buf, read_buffer, start, end, k, ptr, write_ptr, segments, e,
                    payload, ret>>
      /\ pc = "answer" /\ pc' \in {"sent", "crashed"}
  BY DEF Answer
<1>2. TypeOK' /\ Room' /\ SegmentsOK(segments)'
  BY <1>1 DEF IInv, TypeOK, Room, SegmentsOK
<1>3. Layout'
  BY <1>1 DEF IInv, Layout, Size, Body
<1>4. pc' = "sent" => AllOrNothing'
  <2> SUFFICES ASSUME pc' = "sent" PROVE AllOrNothing'
    OBVIOUS
  <2>1. /\ down'.ret = ret
        /\ down'.payload_size = IF ret = "ok" THEN write_ptr ELSE 0
        /\ down'.payload = IF ret = "ok" THEN payload ELSE <<>>
    BY DEF Answer
  <2>2. CASE ret = "ok"
    <3>1. /\ payload \in Seq(Segment) /\ segments \in Seq(Segment)
          /\ Len(payload) = Len(segments)
          /\ \A i \in 1 .. Len(payload) : payload[i] = segments[i]
      BY <1>1, <2>2 DEF IInv, TypeOK, Appended
    <3>2. payload = segments
      BY <3>1, SeqEqual
    <3> QED
      BY <1>1, <2>1, <2>2, <3>2 DEF AllOrNothing
  <2>3. CASE ret # "ok"
    BY <1>1, <2>1, <2>3 DEF AllOrNothing
  <2> QED
    BY <2>2, <2>3
<1>5. Appended'
  BY <1>1, <1>4 DEF IInv, Appended
<1> QED
  BY <1>2, <1>3, <1>5 DEF IInv

LEMMA StutterStep == IInv /\ UNCHANGED vars => IInv'
BY DEF vars, IInv, TypeOK, SegmentsOK, Layout, Appended, AllOrNothing, Room, Size, Body

LEMMA IInvCorrect == Spec => []IInv
<1>1. IInv /\ [Next]_vars => IInv'
  BY IoctlStep, ParseStep, AppendStep, AnswerStep, StutterStep DEF Next
<1> QED
  BY InitIInv, <1>1, PTL DEF Spec

\* The marshaler's state is always well typed.
THEOREM MarshalTypeCorrect == Spec => []TypeOK
<1>1. IInv => TypeOK
  BY DEF IInv
<1> QED
  BY <1>1, IInvCorrect, PTL

\* Whatever the driver returns, no copy of the marshaler leaves its buffer, its
\* array of segments or the mapped memory.
THEOREM NoOverrunCorrect == Spec => []NoOverrun
<1>1. IInv => NoOverrun
  BY DEF IInv, NoOverrun, SegmentsOK, Room
<1> QED
  BY <1>1, IInvCorrect, PTL

\* An answer of Venus to a BINDER_WRITE_READ carries every recorded segment in
\* order, or no payload at all.
THEOREM AllOrNothingCorrect == Spec => []AllOrNothing
<1>1. IInv => AllOrNothing
  BY DEF IInv, Appended, AllOrNothing
<1> QED
  BY <1>1, IInvCorrect, PTL

-----------------------------------------------------------------------------
(* What the answer says.  The references of the commands and the bytes of  *)
(* the segments are recursive functions of their number, so the argument   *)
(* needs induction.  It is taken in first-order form, over a set in place  *)
(* of a predicate, from the fact that a set of naturals has a least        *)
(* element.                                                                *)

\* A set that holds 0, and with a number the next one, holds all up to N.
LEMMA SetInduction ==
    ASSUME NEW N \in Nat, NEW S, 0 \in S,
           \A n \in 0..(N - 1) : n \in S => n + 1 \in S
    PROVE  \A n \in 0..N : n \in S
<1> SUFFICES ASSUME NEW m \in 0..N, m \notin S PROVE FALSE
  OBVIOUS
<1>1. PICK R : R = {n \in 0..N : n \notin S}
  OBVIOUS
<1>2. R \in SUBSET Nat /\ R # {}
  BY <1>1
<1>3. \E n \in R : \A j \in R : ~ (<<j, n>> \in OpToRel(<, Nat))
  BY <1>2, NatLessThanWellFounded, WFMin
<1>4. \A j, n \in Nat : j < n => <<j, n>> \in OpToRel(<, Nat)
  BY Zenon DEF OpToRel
<1>5. PICK n \in R : \A j \in R : ~(j < n)
  BY <1>2, <1>3, <1>4, Zenon
<1>6. n \in 0..N /\ n \notin S /\ n # 0
  BY <1>1
<1>7. n - 1 \in 0..(N - 1) /\ n - 1 < n /\ (n - 1) + 1 = n /\ n - 1 \in 0..N
  BY <1>6
<1>8. n - 1 \in S
  BY <1>1, <1>5, <1>7
<1> QED BY <1>6, <1>7, <1>8

\* Two functions that start alike and go on alike are alike.
Alike(f, g, N) ==
    f[0] = g[0] /\ \A n \in 1..N : f[n - 1] = g[n - 1] => f[n] = g[n]

LEMMA SameRecursion ==
    ASSUME NEW N \in Nat, NEW f, NEW g, Alike(f, g, N)
    PROVE  \A n \in 0..N : f[n] = g[n]
<1> USE DEF Alike
<1>1. PICK S : S = {n \in 0..N : f[n] = g[n]}
  OBVIOUS
<1>2. 0 \in S
  BY <1>1
<1>3. \A n \in 0..(N - 1) : n \in S => n + 1 \in S
  <2> SUFFICES ASSUME NEW n \in 0..(N - 1), n \in S PROVE n + 1 \in S
    OBVIOUS
  <2>1. n + 1 \in 1..N /\ n + 1 \in 0..N /\ (n + 1) - 1 = n
    OBVIOUS
  <2> QED BY <1>1, <2>1
<1>4. \A n \in 0..N : n \in S
  BY ONLY <1>2, <1>3, N \in Nat, SetInduction, Zenon
<1> QED BY <1>1, <1>4

\* f starts at a, and G[n] takes its value at n - 1 to the one at n.
Steps(f, X, a, G, N) ==
    /\ f \in [0..N -> X]
    /\ f[0] = a
    /\ \A n \in 1..N : f[n] = G[n][f[n - 1]]

\* There is such a function.
LEMMA Iterate ==
    ASSUME NEW N \in Nat, NEW X, NEW a \in X, NEW G \in [1..N -> [X -> X]]
    PROVE  \E f : Steps(f, X, a, G, N)
<1>1. PICK S : S = {n \in 0..N : \E f : Steps(f, X, a, G, n)}
  OBVIOUS
<1>2. 0 \in S
  <2>1. Steps([n \in 0..0 |-> a], X, a, G, 0)
    BY DEF Steps
  <2> QED BY <1>1, <2>1
<1>3. \A n \in 0..(N - 1) : n \in S => n + 1 \in S
  <2> SUFFICES ASSUME NEW n \in 0..(N - 1), n \in S PROVE n + 1 \in S
    OBVIOUS
  <2>1. PICK f : Steps(f, X, a, G, n)
    BY <1>1
  <2>2. n + 1 \in 1..N /\ n + 1 \in 0..N /\ n \in 0..n
    OBVIOUS
  <2>3. G[n + 1][f[n]] \in X
    BY <2>1, <2>2 DEF Steps
  <2>4. PICK g : g = [m \in 0..(n + 1) |-> IF m = n + 1 THEN G[n + 1][f[n]] ELSE f[m]]
    OBVIOUS
  <2>5. \A m \in 0..n : g[m] = f[m] /\ g[m] \in X
    BY <2>1, <2>4 DEF Steps
  <2>6. g[n + 1] = G[n + 1][f[n]]
    BY <2>4
  <2>7. g \in [0..(n + 1) -> X]
    BY <2>1, <2>3, <2>4 DEF Steps
  <2>8. ASSUME NEW m \in 1..(n + 1) PROVE g[m] = G[m][g[m - 1]]
    <3>1. CASE m = n + 1
      BY <2>2, <2>5, <2>6, <3>1
    <3>2. CASE m # n + 1
      <4>1. m \in 1..n /\ m \in 0..n /\ m - 1 \in 0..n
        BY <3>2
      <4> QED BY <2>1, <2>5, <4>1 DEF Steps
    <3> QED BY <3>1, <3>2
  <2>9. g[0] = a
    BY <2>1, <2>5 DEF Steps
  <2>10. Steps(g, X, a, G, n + 1)
    BY <2>7, <2>8, <2>9 DEF Steps
  <2> QED BY <1>1, <2>2, <2>10
<1>4. \A n \in 0..N : n \in S
  BY ONLY <1>2, <1>3, N \in Nat, SetInduction, Zenon
<1> QED BY <1>1, <1>4

-----------------------------------------------------------------------------
LEMMA OneSegmentType ==
    ASSUME NEW r \in Ref
    PROVE  /\ OneSegment(r) \in Seq(Segment)
           /\ Len(OneSegment(r)) = IF r.len = 0 THEN 0 ELSE 1
<1>1. r.ptr \in Nat /\ r.len \in Nat
  BY DEF Ref
<1>2. PICK s : s = [offset |-> r.ptr, length |-> r.len]
  OBVIOUS
<1>3. s \in Segment
  BY <1>1, <1>2 DEF Segment
<1>4. <<s>> \in Seq(Segment) /\ Len(<<s>>) = 1
  BY <1>3
<1>5. <<>> \in Seq(Segment) /\ Len(<<>>) = 0
  OBVIOUS
<1>6. OneSegment(r) = IF r.len = 0 THEN <<>> ELSE <<s>>
  BY <1>2 DEF OneSegment
<1> QED BY <1>4, <1>5, <1>6

LEMMA SegmentsOfType ==
    ASSUME NEW c \in Command PROVE SegmentsOf(c) \in Seq(Segment)
<1>1. c.data \in Ref /\ c.offsets \in Ref
  BY DEF Command
<1>2. OneSegment(c.data) \in Seq(Segment) /\ OneSegment(c.offsets) \in Seq(Segment)
  BY <1>1, OneSegmentType
<1>3. OneSegment(c.data) \o OneSegment(c.offsets) \in Seq(Segment)
  BY <1>2, ConcatProperties
<1> QED BY <1>3 DEF SegmentsOf

\* f[m] is the references of the first m commands.
IsReferences(f, cmds, n) ==
    /\ f \in [0 .. n -> Seq(Segment)]
    /\ f[0] = <<>>
    /\ \A m \in 1 .. n : f[m] = f[m - 1] \o SegmentsOf(cmds[m])

\* The recursive definition of References has the function it asks for.
LEMMA ReferencesSteps ==
    ASSUME NEW cmds \in Seq(Command), NEW n \in 0 .. Len(cmds)
    PROVE  \E f : IsReferences(f, cmds, n) /\ References(cmds, n) = f[n]
<1> DEFINE Rec(f) == [m \in 0 .. n |-> IF m = 0 THEN <<>> ELSE f[m - 1] \o SegmentsOf(cmds[m])]
<1>0. n \in Nat /\ \A m \in 1 .. n : SegmentsOf(cmds[m]) \in Seq(Segment)
  <2>1. ASSUME NEW m \in 1 .. n PROVE SegmentsOf(cmds[m]) \in Seq(Segment)
    <3>1. cmds[m] \in Command
      OBVIOUS
    <3> QED BY <3>1, SegmentsOfType
  <2> QED BY <2>1
<1>1. PICK G : G = [m \in 1 .. n |-> [y \in Seq(Segment) |-> y \o SegmentsOf(cmds[m])]]
  OBVIOUS
<1>2. G \in [1 .. n -> [Seq(Segment) -> Seq(Segment)]]
  <2>1. ASSUME NEW m \in 1 .. n PROVE [y \in Seq(Segment) |-> y \o SegmentsOf(cmds[m])] \in [Seq(Segment) -> Seq(Segment)]
    <3>1. ASSUME NEW y \in Seq(Segment) PROVE y \o SegmentsOf(cmds[m]) \in Seq(Segment)
      BY <1>0, ConcatProperties
    <3> QED BY <3>1
  <2> QED BY <1>1, <2>1
<1>3. PICK f : Steps(f, Seq(Segment), <<>>, G, n)
  <2>1. <<>> \in Seq(Segment) /\ n \in Nat
    BY <1>0
  <2> QED BY ONLY <1>2, <2>1, Iterate, Zenon
<1>4. f = Rec(f)
  <2>1. ASSUME NEW m \in 0 .. n PROVE f[m] = Rec(f)[m]
    <3>1. CASE m = 0
      BY <3>1, <1>3 DEF Steps
    <3>2. CASE m # 0
      <4>1. m \in 1 .. n /\ m - 1 \in 0 .. n
        BY <1>0, <3>2
      <4>2. f[m - 1] \in Seq(Segment) /\ f[m] = G[m][f[m - 1]]
        BY <1>3, <4>1 DEF Steps
      <4> QED BY <1>1, <3>2, <4>1, <4>2
    <3> QED BY <3>1, <3>2
  <2> QED BY <2>1, <1>3 DEF Steps
<1>5. PICK g : g = CHOOSE h : h = Rec(h)
  OBVIOUS
<1>6. g = Rec(g)
  BY <1>4, <1>5
<1>7. References(cmds, n) = g[n]
  BY <1>5 DEF References
<1>8. \A m \in 0 .. n : g[m] = f[m]
  <2>1. g[0] = f[0]
    BY <1>0, <1>6, <1>4
  <2>2. \A m \in 1 .. n : g[m - 1] = f[m - 1] => g[m] = f[m]
    <3> SUFFICES ASSUME NEW m \in 1 .. n, g[m - 1] = f[m - 1] PROVE g[m] = f[m]
      OBVIOUS
    <3>1. /\ Rec(g)[m] = g[m - 1] \o SegmentsOf(cmds[m])
          /\ Rec(f)[m] = f[m - 1] \o SegmentsOf(cmds[m])
      <4>1. m \in 0 .. n /\ m # 0
        BY <1>0
      <4> QED BY <4>1, Zenon
    <3> QED BY <1>4, <1>6, <3>1
  <2>3. n \in Nat
    BY <1>0
  <2>4. Alike(g, f, n)
    BY ONLY <2>1, <2>2, Zenon DEF Alike
  <2> QED BY ONLY <2>4, <2>3, SameRecursion, Zenon
<1>9. IsReferences(g, cmds, n)
  <2>1. g \in [0 .. n -> Seq(Segment)]
    <3>1. g = [m \in 0 .. n |-> g[m]]
      BY <1>6
    <3> QED BY <3>1, <1>3, <1>8 DEF Steps
  <2>2. g[0] = <<>>
    BY <1>6, <1>0
  <2>3. \A m \in 1 .. n : g[m] = g[m - 1] \o SegmentsOf(cmds[m])
    <3>1. \A m \in 1 .. n : m \in 0 .. n /\ m # 0
      BY <1>0
    <3>2. \A m \in 0 .. n : m # 0 => Rec(g)[m] = g[m - 1] \o SegmentsOf(cmds[m])
      BY Zenon
    <3> QED BY <1>6, <3>1, <3>2, Zenon
  <2> QED BY <2>1, <2>2, <2>3 DEF IsReferences
<1> QED BY <1>7, <1>9

\* The references of no command, of one command more, and of fewer commands.
LEMMA ReferencesNone ==
    ASSUME NEW cmds \in Seq(Command) PROVE References(cmds, 0) = <<>>
<1>1. 0 \in 0 .. Len(cmds)
  OBVIOUS
<1>2. PICK f : IsReferences(f, cmds, 0) /\ References(cmds, 0) = f[0]
  BY <1>1, ReferencesSteps
<1> QED BY <1>2 DEF IsReferences

LEMMA ReferencesType ==
    ASSUME NEW cmds \in Seq(Command), NEW n \in 0 .. Len(cmds)
    PROVE  References(cmds, n) \in Seq(Segment)
<1>1. PICK f : IsReferences(f, cmds, n) /\ References(cmds, n) = f[n]
  BY ReferencesSteps
<1> QED BY <1>1 DEF IsReferences

LEMMA ReferencesSame ==
    ASSUME NEW cmds \in Seq(Command), NEW others \in Seq(Command),
           NEW n \in 0 .. Len(cmds), n <= Len(others),
           \A m \in 1 .. n : cmds[m] = others[m]
    PROVE  References(cmds, n) = References(others, n)
<1>1. n \in 0 .. Len(others) /\ n \in Nat
  OBVIOUS
<1>2. PICK f : IsReferences(f, cmds, n) /\ References(cmds, n) = f[n]
  BY ReferencesSteps
<1>3. PICK g : IsReferences(g, others, n) /\ References(others, n) = g[n]
  BY <1>1, ReferencesSteps
<1>4. f[0] = g[0]
  BY <1>2, <1>3 DEF IsReferences
<1>5. \A m \in 1 .. n : f[m - 1] = g[m - 1] => f[m] = g[m]
  BY <1>2, <1>3, Zenon DEF IsReferences
<1>6. n \in Nat
  BY <1>1
<1>7. \A m \in 0 .. n : f[m] = g[m]
  <2>1. Alike(f, g, n)
    BY ONLY <1>4, <1>5, Zenon DEF Alike
  <2> QED BY ONLY <2>1, <1>6, SameRecursion, Zenon
<1> QED BY <1>2, <1>3, <1>6, <1>7

LEMMA ReferencesNext ==
    ASSUME NEW cmds \in Seq(Command), NEW n \in 0 .. Len(cmds) - 1
    PROVE  References(cmds, n + 1) = References(cmds, n) \o SegmentsOf(cmds[n + 1])
<1>1. n \in 0 .. Len(cmds) /\ n + 1 \in 0 .. Len(cmds) /\ n \in Nat
  OBVIOUS
<1>2. PICK f : IsReferences(f, cmds, n) /\ References(cmds, n) = f[n]
  BY <1>1, ReferencesSteps
<1>3. PICK g : IsReferences(g, cmds, n + 1) /\ References(cmds, n + 1) = g[n + 1]
  BY <1>1, ReferencesSteps
<1>4. f[0] = g[0]
  BY <1>2, <1>3 DEF IsReferences
<1>5. \A m \in 1 .. n : f[m - 1] = g[m - 1] => f[m] = g[m]
  <2>1. \A m \in 1 .. n : m \in 1 .. n + 1
    BY <1>1
  <2> QED BY <1>2, <1>3, <2>1, Zenon DEF IsReferences
<1>6. n \in Nat /\ n \in 0 .. n /\ n + 1 \in 1 .. n + 1 /\ (n + 1) - 1 = n
  BY <1>1
<1>7. \A m \in 0 .. n : f[m] = g[m]
  <2>1. n \in Nat
    BY <1>6
  <2>2. Alike(f, g, n)
    BY ONLY <1>4, <1>5, Zenon DEF Alike
  <2> QED BY ONLY <2>2, <2>1, SameRecursion, Zenon
<1>8. g[n + 1] = g[(n + 1) - 1] \o SegmentsOf(cmds[n + 1])
  BY <1>3, <1>6, Zenon DEF IsReferences
<1>9. g[(n + 1) - 1] = f[n]
  BY <1>6, <1>7
<1> QED BY <1>2, <1>3, <1>8, <1>9, Zenon

LEMMA ReferencesGrow ==
    ASSUME NEW cmds \in Seq(Command), NEW n \in 0 .. Len(cmds)
    PROVE  Len(References(cmds, n)) <= Len(References(cmds, Len(cmds)))
<1>0. PICK N \in Nat : N = Len(cmds)
  OBVIOUS
<1>1. PICK len : len = [m \in 0 .. N |-> Len(References(cmds, m))]
  OBVIOUS
<1>2. \A m \in 0 .. N : len[m] \in Nat
  BY <1>0, <1>1, ReferencesType, LenProperties
<1>3. ASSUME NEW m \in 0 .. N - 1 PROVE len[m] <= len[m + 1]
  <2>1. m \in 0 .. N /\ m + 1 \in 0 .. N /\ m \in 0 .. Len(cmds) /\ m \in 0 .. Len(cmds) - 1
    BY <1>0
  <2>2. References(cmds, m + 1) = References(cmds, m) \o SegmentsOf(cmds[m + 1])
    BY <2>1, ReferencesNext
  <2>3. cmds[m + 1] \in Command
    BY <2>1
  <2>4. References(cmds, m) \in Seq(Segment) /\ SegmentsOf(cmds[m + 1]) \in Seq(Segment)
    BY <2>1, <2>3, ReferencesType, SegmentsOfType
  <2>5. PICK x \in Seq(Segment), y \in Seq(Segment) :
            x = References(cmds, m) /\ y = SegmentsOf(cmds[m + 1])
    BY <2>4
  <2>6. Len(x \o y) = Len(x) + Len(y) /\ Len(x) \in Nat /\ Len(y) \in Nat
    BY ConcatProperties, LenProperties
  <2>7. len[m] = Len(x) /\ len[m + 1] = Len(x \o y)
    BY <1>1, <2>1, <2>2, <2>5
  <2> QED BY <2>6, <2>7
<1>4. PICK S : S = {m \in 0 .. N : n <= m => len[n] <= len[m]}
  OBVIOUS
<1>5. n \in 0 .. N
  BY <1>0
<1>6. 0 \in S
  BY <1>2, <1>4, <1>5
<1>7. \A m \in 0 .. N - 1 : m \in S => m + 1 \in S
  <2> SUFFICES ASSUME NEW m \in 0 .. N - 1, m \in S PROVE m + 1 \in S
    OBVIOUS
  <2>1. m \in 0 .. N /\ m + 1 \in 0 .. N /\ len[m] <= len[m + 1]
    BY <1>3
  <2>2. len[m] \in Nat /\ len[m + 1] \in Nat /\ len[n] \in Nat
    BY <1>2, <1>5, <2>1
  <2>3. CASE n = m + 1
    BY <1>4, <2>1, <2>2, <2>3
  <2>4. CASE n # m + 1
    BY <1>4, <1>5, <2>1, <2>2, <2>4
  <2> QED BY <2>3, <2>4
<1>8. \A m \in 0 .. N : m \in S
  BY ONLY <1>6, <1>7, N \in Nat, SetInduction, Zenon
<1>9. n <= N /\ N \in 0 .. N
  BY <1>5
<1> QED BY <1>0, <1>1, <1>4, <1>5, <1>8, <1>9

\* f[m] is the bytes that the first m segments take.
IsBytesOf(f, segs, n) ==
    /\ f \in [0 .. n -> Nat]
    /\ f[0] = 0
    /\ \A m \in 1 .. n : f[m] = f[m - 1] + SEG + segs[m].length

\* The recursive definition of BytesOf has the function it asks for.
LEMMA BytesOfSteps ==
    ASSUME NEW segs \in Seq(Segment), NEW n \in 0 .. Len(segs)
    PROVE  \E f : IsBytesOf(f, segs, n) /\ BytesOf(segs, n) = f[n]
<1> DEFINE Rec(f) == [m \in 0 .. n |-> IF m = 0 THEN 0 ELSE f[m - 1] + SEG + segs[m].length]
<1>0. n \in Nat /\ \A m \in 1 .. n : segs[m].length \in Nat
  <2>1. ASSUME NEW m \in 1 .. n PROVE segs[m].length \in Nat
    <3>1. segs[m] \in Segment
      OBVIOUS
    <3> QED BY <3>1 DEF Segment
  <2> QED BY <2>1
<1>1. PICK G : G = [m \in 1 .. n |-> [y \in Nat |-> y + SEG + segs[m].length]]
  OBVIOUS
<1>2. G \in [1 .. n -> [Nat -> Nat]]
  <2>1. ASSUME NEW m \in 1 .. n PROVE [y \in Nat |-> y + SEG + segs[m].length] \in [Nat -> Nat]
    <3>1. ASSUME NEW y \in Nat PROVE y + SEG + segs[m].length \in Nat
      BY <1>0, SizesAssumption
    <3> QED BY <3>1
  <2> QED BY <1>1, <2>1
<1>3. PICK f : Steps(f, Nat, 0, G, n)
  <2>1. 0 \in Nat /\ n \in Nat
    BY <1>0
  <2> QED BY ONLY <1>2, <2>1, Iterate, Zenon
<1>4. f = Rec(f)
  <2>1. ASSUME NEW m \in 0 .. n PROVE f[m] = Rec(f)[m]
    <3>1. CASE m = 0
      BY <3>1, <1>3 DEF Steps
    <3>2. CASE m # 0
      <4>1. m \in 1 .. n /\ m - 1 \in 0 .. n
        BY <1>0, <3>2
      <4>2. f[m - 1] \in Nat /\ f[m] = G[m][f[m - 1]]
        BY <1>3, <4>1 DEF Steps
      <4> QED BY <1>1, <3>2, <4>1, <4>2
    <3> QED BY <3>1, <3>2
  <2> QED BY <2>1, <1>3 DEF Steps
<1>5. PICK g : g = CHOOSE h : h = Rec(h)
  OBVIOUS
<1>6. g = Rec(g)
  BY <1>4, <1>5
<1>7. BytesOf(segs, n) = g[n]
  BY <1>5 DEF BytesOf
<1>8. \A m \in 0 .. n : g[m] = f[m]
  <2>1. g[0] = f[0]
    BY <1>0, <1>6, <1>4
  <2>2. \A m \in 1 .. n : g[m - 1] = f[m - 1] => g[m] = f[m]
    <3> SUFFICES ASSUME NEW m \in 1 .. n, g[m - 1] = f[m - 1] PROVE g[m] = f[m]
      OBVIOUS
    <3>1. /\ Rec(g)[m] = g[m - 1] + SEG + segs[m].length
          /\ Rec(f)[m] = f[m - 1] + SEG + segs[m].length
      BY <1>0
    <3> QED BY <1>4, <1>6, <3>1
  <2>3. n \in Nat
    BY <1>0
  <2>4. Alike(g, f, n)
    BY ONLY <2>1, <2>2, Zenon DEF Alike
  <2> QED BY ONLY <2>4, <2>3, SameRecursion, Zenon
<1>9. IsBytesOf(g, segs, n)
  <2>1. g \in [0 .. n -> Nat]
    <3>1. g = [m \in 0 .. n |-> g[m]]
      BY <1>6
    <3> QED BY <3>1, <1>3, <1>8 DEF Steps
  <2>2. g[0] = 0
    BY <1>6, <1>0
  <2>3. \A m \in 1 .. n : g[m] = g[m - 1] + SEG + segs[m].length
    BY <1>6, <1>0
  <2> QED BY <2>1, <2>2, <2>3 DEF IsBytesOf
<1> QED BY <1>7, <1>9

\* The bytes of no segment, of one segment more, and of fewer segments.
LEMMA BytesOfNone ==
    ASSUME NEW segs \in Seq(Segment) PROVE BytesOf(segs, 0) = 0
<1>1. 0 \in 0 .. Len(segs)
  OBVIOUS
<1>2. PICK f : IsBytesOf(f, segs, 0) /\ BytesOf(segs, 0) = f[0]
  BY <1>1, BytesOfSteps
<1> QED BY <1>2 DEF IsBytesOf

LEMMA BytesOfNext ==
    ASSUME NEW segs \in Seq(Segment), NEW n \in 0 .. Len(segs) - 1
    PROVE  /\ BytesOf(segs, n + 1) = BytesOf(segs, n) + SEG + segs[n + 1].length
           /\ BytesOf(segs, n) \in Nat
<1>1. n \in 0 .. Len(segs) /\ n + 1 \in 0 .. Len(segs) /\ n \in Nat
  OBVIOUS
<1>2. PICK f : IsBytesOf(f, segs, n) /\ BytesOf(segs, n) = f[n]
  BY <1>1, BytesOfSteps
<1>3. PICK g : IsBytesOf(g, segs, n + 1) /\ BytesOf(segs, n + 1) = g[n + 1]
  BY <1>1, BytesOfSteps
<1>4. f[0] = g[0]
  BY <1>2, <1>3 DEF IsBytesOf
<1>5. \A m \in 1 .. n : f[m - 1] = g[m - 1] => f[m] = g[m]
  <2>1. \A m \in 1 .. n : m \in 1 .. n + 1
    BY <1>1
  <2> QED BY <1>2, <1>3, <2>1, Zenon DEF IsBytesOf
<1>6. n \in Nat /\ n \in 0 .. n /\ n + 1 \in 1 .. n + 1 /\ (n + 1) - 1 = n
  BY <1>1
<1>7. \A m \in 0 .. n : f[m] = g[m]
  <2>1. n \in Nat
    BY <1>6
  <2>2. Alike(f, g, n)
    BY ONLY <1>4, <1>5, Zenon DEF Alike
  <2> QED BY ONLY <2>2, <2>1, SameRecursion, Zenon
<1>8. g[n + 1] = g[(n + 1) - 1] + SEG + segs[n + 1].length
  BY <1>3, <1>6, Zenon DEF IsBytesOf
<1>9. g[(n + 1) - 1] = f[n] /\ f[n] \in Nat
  BY <1>2, <1>6, <1>7 DEF IsBytesOf
<1> QED BY <1>2, <1>3, <1>8, <1>9, Zenon

LEMMA BytesOfGrow ==
    ASSUME NEW segs \in Seq(Segment), NEW n \in 0 .. Len(segs)
    PROVE  /\ BytesOf(segs, n) <= BytesOf(segs, Len(segs))
           /\ BytesOf(segs, n) \in Nat /\ BytesOf(segs, Len(segs)) \in Nat
<1>0. PICK N \in Nat : N = Len(segs)
  OBVIOUS
<1>1. PICK b : b = [m \in 0 .. N |-> BytesOf(segs, m)]
  OBVIOUS
<1>2. ASSUME NEW m \in 0 .. N PROVE b[m] \in Nat
  <2>1. PICK f : IsBytesOf(f, segs, m) /\ BytesOf(segs, m) = f[m]
    BY <1>0, BytesOfSteps
  <2> QED BY <1>1, <2>1 DEF IsBytesOf
<1>3. ASSUME NEW m \in 0 .. N - 1 PROVE b[m] <= b[m + 1]
  <2>1. m \in 0 .. N /\ m + 1 \in 0 .. N /\ m \in 0 .. Len(segs) - 1
    BY <1>0
  <2>2. BytesOf(segs, m + 1) = BytesOf(segs, m) + SEG + segs[m + 1].length
    BY <2>1, BytesOfNext
  <2>3. segs[m + 1] \in Segment
    BY <2>1
  <2>4. segs[m + 1].length \in Nat /\ SEG \in Nat /\ b[m] \in Nat
    BY <1>2, <2>1, <2>3, SizesAssumption DEF Segment
  <2> QED BY <1>1, <2>1, <2>2, <2>4
<1>4. PICK S : S = {m \in 0 .. N : n <= m => b[n] <= b[m]}
  OBVIOUS
<1>5. n \in 0 .. N
  BY <1>0
<1>6. 0 \in S
  BY <1>2, <1>4, <1>5
<1>7. \A m \in 0 .. N - 1 : m \in S => m + 1 \in S
  <2> SUFFICES ASSUME NEW m \in 0 .. N - 1, m \in S PROVE m + 1 \in S
    OBVIOUS
  <2>1. m \in 0 .. N /\ m + 1 \in 0 .. N /\ b[m] <= b[m + 1]
    BY <1>3
  <2>2. b[m] \in Nat /\ b[m + 1] \in Nat /\ b[n] \in Nat
    BY <1>2, <1>5, <2>1
  <2>3. CASE n = m + 1
    BY <1>4, <2>1, <2>2, <2>3
  <2>4. CASE n # m + 1
    BY <1>4, <1>5, <2>1, <2>2, <2>4
  <2> QED BY <2>3, <2>4
<1>8. \A m \in 0 .. N : m \in S
  BY ONLY <1>6, <1>7, N \in Nat, SetInduction, Zenon
<1>9. n <= N /\ N \in 0 .. N
  BY <1>5
<1> QED BY <1>0, <1>1, <1>2, <1>4, <1>5, <1>8, <1>9

-----------------------------------------------------------------------------
\* The commands follow each other, and each begins before the end.
Starts == \A n \in 1 .. Len(buf) : start[n] <= start[Len(buf)] /\ start[n] < end

\* What is recorded is what the commands parsed so far refer to, as they are now
\* that their pointers are offsets; the parser leaves no command out, and an
\* error has its reason in the commands.
Account ==
    /\ pc \in {"ioctl", "parse"} => segments = References(buf, k)
    /\ pc = "parse" => write_ptr = end
    /\ pc = "append" \/ ret = "ok" =>
          segments = Expected /\ write_ptr = end + BytesOf(segments, e)
    /\ ret = "ok" => e = Len(segments)
    /\ ret = "ENOMEM" => Len(Expected) > MAX_SEGMENT_NUM
    /\ ret = "-1" => \/ \E n \in 1 .. Len(buf) : buf[n].cmd \in OtherCmds
                     \/ end + Bytes(Expected) > MARSHALER_BUF_SIZE

\* The answer is taken from the state of the marshaler.
Told ==
    pc = "sent" =>
        /\ down.ret = ret /\ down.read_consumed = end
        /\ down.data_entries = Len(segments)
        /\ ret = "ok" => down.payload = segments /\ down.payload_size = write_ptr

Accounted == Starts /\ Account /\ Told

LEMMA AccountedInit == Init => Accounted
<1> SUFFICES ASSUME Init PROVE Accounted
  OBVIOUS
<1>1. buf \in Seq(Command) /\ Len(buf) = 0
  BY EmptySeq DEF Init
<1>2. References(buf, 0) = <<>>
  BY <1>1, ReferencesNone
<1> QED BY <1>1, <1>2 DEF Init, Accounted, Starts, Account, Told

\* What the driver and the ioctl do.
LEMMA AccountedIoctl == IInv /\ Accounted /\ Ioctl => Accounted'
<1> SUFFICES ASSUME IInv, Accounted, Ioctl PROVE Accounted'
  OBVIOUS
<1>0. /\ buf \in Seq(Command) /\ start \in Seq(Nat) /\ Len(buf) \in Nat
      /\ Len(start) = Len(buf) /\ end \in Nat /\ pc = "ioctl" /\ k = 0 /\ ret = "none"
  <2>1. pc = "ioctl"
    BY DEF Ioctl, DriverPut, IoctlFails, IoctlReturns
  <2> QED BY <2>1, LenProperties, BuffersAssumption DEF IInv, TypeOK, Layout, Appended
<1>1. Starts /\ Account /\ References(buf, 0) = <<>> /\ segments = <<>>
  BY <1>0, ReferencesNone DEF Accounted, Account
<1>2. ASSUME NEW c \in Commands, DriverPut(c) PROVE Accounted'
  <2>1. c \in Command /\ Size(c) \in Nat /\ Size(c) > 0
    BY DriverAssumption, SizeType
  <2>2. /\ buf' = Append(buf, c) /\ start' = Append(start, end) /\ end' = end + Size(c)
        /\ UNCHANGED <<pc, k, ptr, write_ptr, segments, e, payload, ret, down>>
    BY <1>2 DEF DriverPut
  <2>3. buf' \in Seq(Command) /\ Len(buf') = Len(buf) + 1
    BY <1>0, <2>1, <2>2, AppendProperties
  <2>4. /\ \A n \in 1 .. Len(buf) : start'[n] = start[n]
        /\ start'[Len(buf) + 1] = end
    BY <1>0, <2>2, AppendProperties
  <2>5. Starts'
    <3>1. ASSUME NEW n \in 1 .. Len(buf) + 1
          PROVE  start'[n] <= start'[Len(buf) + 1] /\ start'[n] < end'
      <4>1. CASE n = Len(buf) + 1
        BY <1>0, <2>1, <2>2, <2>4, <4>1
      <4>2. CASE n # Len(buf) + 1
        <5>1. n \in 1 .. Len(buf)
          BY <1>0, <4>2
        <5>2. start[n] \in Nat
          BY <1>0, <5>1
        <5> QED BY <1>0, <1>1, <2>1, <2>2, <2>4, <5>1, <5>2 DEF Starts
      <4> QED BY <4>1, <4>2
    <3> QED BY <2>3, <3>1 DEF Starts
  <2>6. References(buf', 0) = <<>>
    BY <2>3, ReferencesNone
  <2>7. Account' /\ Told'
    BY <1>0, <1>1, <2>2, <2>6 DEF Account, Told
  <2> QED BY <2>5, <2>7 DEF Accounted
<1>3. CASE IoctlFails
  <2>1. /\ UNCHANGED <<buf, start, end, k, segments>>
        /\ pc' = "answer" /\ ret' = "ioctl"
    BY <1>3 DEF IoctlFails
  <2> QED BY <1>1, <2>1 DEF Accounted, Starts, Account, Told
<1>4. CASE IoctlReturns
  <2>1. /\ UNCHANGED <<buf, start, k, segments, ret>>
        /\ pc' = "parse" /\ write_ptr' = end'
        /\ \/ end' = end
           \/ buf # <<>> /\ end' \in start[Len(start)] + 1 .. end
    BY <1>4 DEF IoctlReturns
  <2>2. Starts'
    <3>1. CASE end' = end
      BY <1>1, <2>1, <3>1 DEF Starts
    <3>2. CASE buf # <<>> /\ end' \in start[Len(start)] + 1 .. end
      <4>1. ASSUME NEW n \in 1 .. Len(buf)
            PROVE  start[n] <= start[Len(buf)] /\ start[n] < end'
        <5>1. start[n] \in Nat /\ start[Len(buf)] \in Nat
          BY <1>0
        <5> QED BY <1>0, <1>1, <3>2, <5>1 DEF Starts
      <4> QED BY <2>1, <4>1 DEF Starts
    <3> QED BY <2>1, <3>1, <3>2
  <2>3. Account' /\ Told'
    BY <1>0, <1>1, <2>1 DEF Account, Told
  <2> QED BY <2>2, <2>3 DEF Accounted
<1> QED BY <1>2, <1>3, <1>4 DEF Ioctl

\* A reference as record_segment has rewritten it.
Rewritten(r, p) == [r EXCEPT !.ptr = p]

\* record_segment appends what the rewritten pointer designates, and runs out of
\* segments only if they are all in use.
LEMMA RecordAppends ==
    ASSUME NEW segs \in Seq(Segment), NEW r \in Ref
    PROVE  LET x == RecordIfAny(segs, r)
           IN  /\ x.ret = "ok" => /\ x.segs = segs \o OneSegment(Rewritten(r, x.ptr))
                                  /\ Rewritten(r, x.ptr) \in Ref
               /\ x.ret = "ENOMEM" => r.len # 0 /\ Len(segs) >= MAX_SEGMENT_NUM
<1> DEFINE x == RecordIfAny(segs, r)
<1>1. r.ptr \in Nat /\ r.len \in Nat /\ r = [ptr |-> r.ptr, len |-> r.len]
  BY DEF Ref
<1>2. PICK s : s = [offset |-> r.ptr - VM_START, length |-> r.len]
  OBVIOUS
<1>3. \/ r.len = 0 /\ x = [ret |-> "ok", segs |-> segs, ptr |-> r.ptr]
      \/ /\ r.len # 0 /\ Len(segs) >= MAX_SEGMENT_NUM
         /\ x = [ret |-> "ENOMEM", segs |-> segs, ptr |-> r.ptr]
      \/ x = [ret |-> "EFAULT", segs |-> segs, ptr |-> r.ptr]
      \/ /\ r.len # 0 /\ InVm(r.ptr)
         /\ x = [ret |-> "ok", ptr |-> r.ptr - VM_START, segs |-> Append(segs, s)]
  BY <1>2 DEF RecordIfAny, record_segment, LeftAlone, Recorded
<1>4. CASE r.len = 0 /\ x = [ret |-> "ok", segs |-> segs, ptr |-> r.ptr]
  <2>1. Rewritten(r, x.ptr) = r
    BY <1>1, <1>4 DEF Rewritten
  <2>2. OneSegment(r) = <<>>
    BY <1>4 DEF OneSegment
  <2>3. segs \o <<>> = segs
    BY ConcatEmptySeq
  <2> QED BY <1>4, <2>1, <2>2, <2>3
<1>5. CASE /\ r.len # 0 /\ InVm(r.ptr)
           /\ x = [ret |-> "ok", ptr |-> r.ptr - VM_START, segs |-> Append(segs, s)]
  <2>1. r.ptr - VM_START \in Nat
    BY <1>1, <1>5, BuffersAssumption DEF InVm
  <2>2. s \in Segment
    BY <1>1, <1>2, <2>1 DEF Segment
  <2>3. Append(segs, s) = segs \o <<s>>
    BY <2>2, AppendIsConcat
  <2>4. Rewritten(r, x.ptr) = [ptr |-> r.ptr - VM_START, len |-> r.len]
    BY <1>1, <1>5 DEF Rewritten
  <2>5. OneSegment(Rewritten(r, x.ptr)) = <<s>>
    BY <1>2, <1>5, <2>4 DEF OneSegment
  <2>6. Rewritten(r, x.ptr) \in Ref
    BY <1>1, <2>1, <2>4 DEF Ref
  <2>7. x.segs = Append(segs, s) /\ x.ret = "ok"
    BY <1>5
  <2>8. x.segs = segs \o OneSegment(Rewritten(r, x.ptr))
    BY <2>3, <2>5, <2>7, Zenon
  <2> HIDE DEF x
  <2>9. x.ret # "ENOMEM"
    BY <2>7
  <2> QED BY <2>6, <2>8, <2>9, Zenon DEF x
<1> QED BY <1>3, <1>4, <1>5

\* The parser fails, and leaves the commands and the segments alone.
LEMMA AccountedParseFails ==
    IInv /\ Accounted /\ (ParseShortWord \/ ParseShortTransaction \/ ParseUnsupported)
        => Accounted'
<1> SUFFICES ASSUME IInv, Accounted, ParseShortWord \/ ParseShortTransaction \/ ParseUnsupported
             PROVE  Accounted'
  OBVIOUS
<1>1. /\ UNCHANGED <<buf, k, segments, start, end, write_ptr, e>>
      /\ pc = "parse" /\ pc' = "answer" /\ Parsing
      /\ \/ ret' = "EFAULT"
         \/ ret' = "-1" /\ Next1.cmd \in OtherCmds
  BY DEF ParseShortWord, ParseShortTransaction, ParseUnsupported, Parsing, Fail, parseRest
<1>2. k + 1 \in 1 .. Len(buf)
  BY <1>1, CommandAhead
<1>3. ret' = "-1" => \E n \in 1 .. Len(buf) : buf[n].cmd \in OtherCmds
  BY <1>1, <1>2 DEF Next1
<1>4. Starts'
  BY <1>1 DEF Accounted, Starts
<1>5. Account' /\ Told'
  BY <1>1, <1>3 DEF Account, Told
<1> QED BY <1>4, <1>5 DEF Accounted

\* A command without references.
LEMMA AccountedParseAdvances ==
    IInv /\ Accounted /\ (ParseSimple \/ ParseRefs) => Accounted'
<1> SUFFICES ASSUME IInv, Accounted, ParseSimple \/ ParseRefs PROVE Accounted'
  OBVIOUS
<1>1. /\ UNCHANGED <<pc, buf, segments, ret, start, end, write_ptr, e>>
      /\ pc = "parse" /\ k' = k + 1 /\ Parsing /\ Next1.cmd \notin Txns
  BY DEF ParseSimple, ParseRefs, Parsing, parseRest, Simple, RefCmds, Txns
<1>2. /\ k \in Nat /\ k + 1 \in 1 .. Len(buf) /\ buf \in Seq(Command) /\ ret = "none"
      /\ segments \in Seq(Segment)
  BY <1>1, CommandAhead DEF IInv, TypeOK, Appended
<1>3. k \in 0 .. Len(buf) - 1
  BY <1>2
<1>4. References(buf, k + 1) = References(buf, k) \o SegmentsOf(buf[k + 1])
  BY <1>2, <1>3, ReferencesNext
<1>5. SegmentsOf(buf[k + 1]) = <<>>
  BY <1>1 DEF SegmentsOf, Next1
<1>6. segments = References(buf, k)
  BY <1>1 DEF Accounted, Account
<1>7. References(buf, k + 1) = segments
  <2>1. segments \o <<>> = segments
    BY <1>2, ConcatEmptySeq
  <2> QED BY <1>4, <1>5, <1>6, <2>1
<1>8. Starts'
  BY <1>1 DEF Accounted, Starts
<1>9. Account' /\ Told'
  BY <1>1, <1>2, <1>7 DEF Accounted, Account, Told
<1> QED BY <1>8, <1>9 DEF Accounted

\* All commands are parsed when the loop ends.
LEMMA AccountedParseDone == IInv /\ Accounted /\ ParseDone => Accounted'
<1> SUFFICES ASSUME IInv, Accounted, ParseDone PROVE Accounted'
  OBVIOUS
<1>1. /\ UNCHANGED <<buf, k, segments, ret, start, end, write_ptr, e>>
      /\ pc = "parse" /\ ptr >= end /\ pc' = "append"
  BY DEF ParseDone, parseRest
<1>2. /\ k \in Nat /\ k <= Len(buf) /\ Len(buf) \in Nat /\ start \in Seq(Nat)
      /\ Len(start) = Len(buf) /\ end \in Nat /\ ptr \in Nat
      /\ k < Len(buf) => ptr = start[k + 1]
      /\ segments \in Seq(Segment) /\ ret = "none" /\ e = 0
  BY <1>1, LenProperties, BuffersAssumption DEF IInv, TypeOK, Layout, Appended
<1>3. k = Len(buf)
  <2> SUFFICES ASSUME k # Len(buf) PROVE FALSE
    OBVIOUS
  <2>1. k < Len(buf) /\ k + 1 \in 1 .. Len(buf)
    BY <1>2
  <2>2. start[k + 1] < end /\ start[k + 1] \in Nat
    BY <1>2, <2>1 DEF Accounted, Starts
  <2> QED BY <1>1, <1>2, <2>1, <2>2
<1>4. segments = References(buf, Len(buf)) /\ write_ptr = end
  BY <1>1, <1>3 DEF Accounted, Account
<1>5. BytesOf(segments, 0) = 0
  BY <1>2, BytesOfNone
<1>6. write_ptr = end + BytesOf(segments, e)
  BY <1>2, <1>4, <1>5
<1>7. Starts'
  BY <1>1 DEF Accounted, Starts
<1>8. Account' /\ Told'
  BY <1>1, <1>2, <1>4, <1>6 DEF Account, Told, Expected
<1> QED BY <1>7, <1>8 DEF Accounted

\* A transaction: its data and its offsets are recorded in this order.
LEMMA AccountedParseTransaction == IInv /\ Accounted /\ ParseTransaction => Accounted'
<1> SUFFICES ASSUME IInv, Accounted, ParseTransaction PROVE Accounted'
  OBVIOUS
<1>1. /\ Parsing /\ pc = "parse" /\ k' = k + 1 /\ Next1.cmd \in Txns
      /\ UNCHANGED <<start, end, write_ptr, e, payload, down>>
      /\ marshal_transaction(Next1)
  BY DEF ParseTransaction, Parsing, parseRest
<1>2. PICK tr : tr = buf[k + 1]
  OBVIOUS
<1>3. /\ tr \in Command /\ tr = Next1 /\ k \in Nat /\ k + 1 \in 1 .. Len(buf)
      /\ buf \in Seq(Command) /\ Len(buf) \in Nat /\ ret = "none"
      /\ segments \in Seq(Segment) /\ segments = References(buf, k)
      /\ MAX_SEGMENT_NUM \in Nat /\ write_ptr = end
  BY <1>1, <1>2, CommandAhead, SizesAssumption
     DEF Next1, IInv, TypeOK, Appended, Accounted, Account
<1>4. tr.data \in Ref /\ tr.offsets \in Ref /\ tr.cmd \in Txns
  BY <1>1, <1>3 DEF Command
<1>5. PICK d : d = RecordIfAny(segments, tr.data)
  OBVIOUS
<1>6. /\ d.ret = "ok" => /\ d.segs = segments \o OneSegment(Rewritten(tr.data, d.ptr))
                         /\ Rewritten(tr.data, d.ptr) \in Ref
      /\ d.ret = "ENOMEM" => tr.data.len # 0 /\ Len(segments) >= MAX_SEGMENT_NUM
  BY <1>3, <1>4, <1>5, RecordAppends
<1>7. PICK o : o = RecordIfAny(d.segs, tr.offsets)
  OBVIOUS
<1>8. \/ d.ret # "ok" /\ pc' = "answer" /\ ret' = d.ret /\ buf' = buf /\ segments' = segments
      \/ /\ d.ret = "ok" /\ segments' = o.segs
         /\ buf' = [buf EXCEPT ![k + 1].data.ptr = d.ptr, ![k + 1].offsets.ptr = o.ptr]
         /\ IF o.ret = "ok" THEN pc' = pc /\ ret' = ret ELSE pc' = "answer" /\ ret' = o.ret
  BY <1>1, <1>3, <1>5, <1>7 DEF marshal_transaction, Fail
<1>9. Len(buf') = Len(buf) /\ start' = start /\ end' = end /\ buf' \in Seq(Command) => Starts'
  BY DEF Accounted, Starts
<1>10. d.ret \in {"ok", "ENOMEM", "EFAULT"} /\ o.ret \in {"ok", "ENOMEM", "EFAULT"}
  BY <1>5, <1>7 DEF RecordIfAny, record_segment, LeftAlone, Recorded
<1>11. k \in 0 .. Len(buf) - 1 /\ k \in 0 .. Len(buf) /\ k + 1 \in 0 .. Len(buf)
  BY <1>3
\* The data cannot be recorded.
<1>12. CASE d.ret # "ok" /\ pc' = "answer" /\ ret' = d.ret /\ buf' = buf /\ segments' = segments
  <2>1. ASSUME d.ret = "ENOMEM" PROVE Len(References(buf, Len(buf))) > MAX_SEGMENT_NUM
    <3>1. PICK x \in Seq(Segment), y \in Seq(Segment) :
              x = OneSegment(tr.data) /\ y = OneSegment(tr.offsets)
      BY <1>4, OneSegmentType
    <3>2. Len(x) = 1 /\ Len(y) \in Nat
      BY <1>4, <1>6, <2>1, <3>1, OneSegmentType, LenProperties
    <3>3. SegmentsOf(buf[k + 1]) = x \o y
      BY <1>2, <1>4, <3>1 DEF SegmentsOf
    <3>4. x \o y \in Seq(Segment) /\ Len(x \o y) = Len(x) + Len(y)
      BY ConcatProperties
    <3>5. References(buf, k + 1) = segments \o (x \o y)
      BY <1>3, <1>11, <3>3, ReferencesNext
    <3>6. Len(segments \o (x \o y)) = Len(segments) + Len(x \o y) /\ Len(segments) \in Nat
      BY <1>3, <3>4, ConcatProperties, LenProperties
    <3>7. Len(References(buf, k + 1)) > MAX_SEGMENT_NUM
      BY <1>3, <1>6, <2>1, <3>2, <3>4, <3>5, <3>6
    <3>8. Len(References(buf, k + 1)) <= Len(References(buf, Len(buf)))
      BY <1>3, <1>11, ReferencesGrow
    <3>9. Len(References(buf, Len(buf))) \in Nat
      <4>1. Len(buf) \in 0 .. Len(buf)
        BY <1>3
      <4> QED BY <1>3, <4>1, ReferencesType, LenProperties
    <3>10. Len(References(buf, k + 1)) \in Nat
      BY <1>3, <1>11, ReferencesType, LenProperties
    <3> QED BY <1>3, <3>7, <3>8, <3>9, <3>10
  <2>2. ret' \in {"ENOMEM", "EFAULT"} /\ (ret' = "ENOMEM" => d.ret = "ENOMEM")
    BY <1>10, <1>12
  <2>3. Account' /\ Told'
    BY <1>12, <2>1, <2>2 DEF Account, Told, Expected
  <2> QED BY <1>1, <1>3, <1>9, <1>12, <2>3 DEF Accounted
\* The data is recorded, and the offsets may be.
<1>13. CASE /\ d.ret = "ok" /\ segments' = o.segs
            /\ buf' = [buf EXCEPT ![k + 1].data.ptr = d.ptr, ![k + 1].offsets.ptr = o.ptr]
            /\ IF o.ret = "ok" THEN pc' = pc /\ ret' = ret ELSE pc' = "answer" /\ ret' = o.ret
  <2>1. PICK x \in Seq(Segment) : x = OneSegment(Rewritten(tr.data, d.ptr))
    BY <1>6, <1>13, OneSegmentType
  <2>2. d.segs = segments \o x /\ d.segs \in Seq(Segment)
    BY <1>3, <1>6, <1>13, <2>1, ConcatProperties
  <2>3. /\ o.ret = "ok" => o.segs = d.segs \o OneSegment(Rewritten(tr.offsets, o.ptr))
        /\ o.ret = "ENOMEM" => tr.offsets.len # 0 /\ Len(d.segs) >= MAX_SEGMENT_NUM
    BY <1>4, <1>7, <2>2, RecordAppends
  <2>4. o.ptr \in Nat /\ Rewritten(tr.offsets, o.ptr) \in Ref
    <3>1. o.ptr \in {tr.offsets.ptr, tr.offsets.ptr - VM_START}
      BY <1>7 DEF RecordIfAny, record_segment, LeftAlone, Recorded
    <3>2. o.ptr = tr.offsets.ptr \/ InVm(tr.offsets.ptr)
      BY <1>7 DEF RecordIfAny, record_segment, LeftAlone, Recorded
    <3>3. tr.offsets.ptr \in Nat /\ tr.offsets.len \in Nat
      BY <1>4 DEF Ref
    <3>4. o.ptr \in Nat
      BY <3>1, <3>2, <3>3, BuffersAssumption DEF InVm
    <3> QED BY <1>4, <3>3, <3>4 DEF Rewritten, Ref
  <2>5. PICK y \in Seq(Segment) : y = OneSegment(Rewritten(tr.offsets, o.ptr))
    BY <2>4, OneSegmentType
  <2>6. PICK c : c = [tr EXCEPT !.data = Rewritten(tr.data, d.ptr),
                                !.offsets = Rewritten(tr.offsets, o.ptr)]
    OBVIOUS
  <2>7. /\ c \in Command /\ c.cmd \in Txns
        /\ c.data = Rewritten(tr.data, d.ptr) /\ c.offsets = Rewritten(tr.offsets, o.ptr)
    BY <1>3, <1>4, <1>6, <1>13, <2>4, <2>6 DEF Command
  <2>8. buf' = [buf EXCEPT ![k + 1] = c]
    BY <1>2, <1>3, <1>13, <2>6 DEF Rewritten, Command
  <2>9. /\ buf' \in Seq(Command) /\ Len(buf') = Len(buf) /\ buf'[k + 1] = c
        /\ \A n \in 1 .. Len(buf) : n # k + 1 => buf'[n] = buf[n]
    BY <1>3, <2>7, <2>8, ExceptSeq
  <2>10. References(buf', k) = segments
    <3>1. \A m \in 1 .. k : buf'[m] = buf[m]
      BY <1>3, <2>9
    <3>2. k \in 0 .. Len(buf') /\ k <= Len(buf)
      BY <1>11, <2>9
    <3>3. References(buf', k) = References(buf, k)
      BY ONLY <1>3, <2>9, <3>1, <3>2, ReferencesSame
    <3> QED BY <1>3, <3>3
  <2>11. References(buf', k + 1) = segments \o (x \o y)
    <3>1. SegmentsOf(buf'[k + 1]) = x \o y
      BY <2>1, <2>5, <2>7, <2>9 DEF SegmentsOf
    <3>2. k \in 0 .. Len(buf') - 1
      BY <1>11, <2>9
    <3>3. References(buf', k + 1) = References(buf', k) \o SegmentsOf(buf'[k + 1])
      BY <2>9, <3>2, ReferencesNext
    <3> QED BY <2>10, <3>1, <3>3
  <2>12. References(buf', k + 1) = d.segs \o y
    <3>1. (segments \o x) \o y = segments \o (x \o y)
      BY <1>3, ConcatAssociative
    <3> QED BY <2>2, <2>11, <3>1
  <2>13. Starts'
    BY <1>1, <1>9, <2>9
  <2>14. CASE o.ret = "ok"
    <3>1. segments' = References(buf', k')
      BY <1>1, <1>13, <2>3, <2>5, <2>12, <2>14
    <3>2. pc' = "parse" /\ ret' = "none" /\ write_ptr' = end'
      BY <1>1, <1>3, <1>13, <2>14
    <3>3. Account' /\ Told'
      BY <3>1, <3>2 DEF Account, Told
    <3> QED BY <2>13, <3>3 DEF Accounted
  <2>15. CASE o.ret # "ok"
    <3>1. pc' = "answer" /\ ret' = o.ret /\ ret' \in {"ENOMEM", "EFAULT"}
      BY <1>10, <1>13, <2>15
    <3>2. ASSUME o.ret = "ENOMEM" PROVE Len(References(buf', Len(buf'))) > MAX_SEGMENT_NUM
      <4>1. Rewritten(tr.offsets, o.ptr).len = tr.offsets.len
        BY <1>4 DEF Rewritten, Ref
      <4>2. Len(y) = 1
        BY <2>3, <2>4, <2>5, <3>2, <4>1, OneSegmentType
      <4>3. Len(d.segs \o y) = Len(d.segs) + Len(y) /\ Len(d.segs) \in Nat
        BY <2>2, ConcatProperties, LenProperties
      <4>4. k + 1 \in 0 .. Len(buf') /\ Len(buf') \in 0 .. Len(buf')
        BY <1>3, <1>11, <2>9
      <4>5. Len(References(buf', k + 1)) <= Len(References(buf', Len(buf')))
        BY <2>9, <4>4, ReferencesGrow
      <4>6. Len(References(buf', Len(buf'))) \in Nat
        BY <2>9, <4>4, ReferencesType, LenProperties
      <4> QED BY <1>3, <2>3, <2>12, <3>2, <4>2, <4>3, <4>5, <4>6
    <3>3. Account' /\ Told'
      BY <3>1, <3>2 DEF Account, Told, Expected
    <3> QED BY <2>13, <3>3 DEF Accounted
  <2> QED BY <2>14, <2>15
<1> QED BY <1>8, <1>12, <1>13

LEMMA AccountedParse == IInv /\ Accounted /\ Parse => Accounted'
BY AccountedParseFails, AccountedParseAdvances, AccountedParseDone,
   AccountedParseTransaction DEF Parse

\* A segment that does not fit does not fit as an integer either.
LEMMA NotFitsMeansNoRoom ==
    ASSUME IInv, NEW s \in Segment, s.offset + s.length <= BINDER_VM_SIZE, ~Fits(s)
    PROVE  write_ptr + SEG + s.length > MARSHALER_BUF_SIZE
<1>1. /\ s.length \in Nat /\ s.offset \in Nat /\ write_ptr \in Nat
      /\ write_ptr <= MARSHALER_BUF_SIZE
  BY DEF Segment, IInv, TypeOK, Room
<1> DEFINE room == MARSHALER_BUF_SIZE - write_ptr
           need == SEG + s.length
<1>2. /\ room \in 0 .. SIZE_MOD - 1
      /\ need \in 0 .. SIZE_MOD - 1
      /\ SIZE_MOD \in Nat /\ SIZE_MOD > 0
  BY <1>1, SizesAssumption, BuffersAssumption, DriverAssumption, SMT
<1>3. Fits(s) <=> room % SIZE_MOD >= need % SIZE_MOD
  BY DEF Fits
<1> HIDE DEF room, need
<1>4. room % SIZE_MOD = room /\ need % SIZE_MOD = need
  BY <1>2, SMT
<1>5. ~(room >= need)
  BY <1>3, <1>4
<1> QED BY <1>1, <1>5, SizesAssumption, BuffersAssumption, SMT DEF room, need

\* append_data_segments: what is written is what the segments so far take.
LEMMA AccountedAppend == IInv /\ Accounted /\ (AppendSegment \/ AppendDone) => Accounted'
<1> SUFFICES ASSUME IInv, Accounted, AppendSegment \/ AppendDone PROVE Accounted'
  OBVIOUS
<1>1. UNCHANGED <<buf, start, end, k, ptr, segments, down>> /\ pc = "append"
  BY DEF AppendSegment, AppendDone, appendRest
<1>2. Starts'
  BY <1>1 DEF Accounted, Starts
<1>3. /\ segments \in Seq(Segment) /\ Len(segments) \in Nat /\ e \in 0 .. Len(segments)
      /\ segments = Expected /\ write_ptr = end + BytesOf(segments, e) /\ ret = "none"
      /\ end \in Nat /\ write_ptr \in Nat /\ SEG \in Nat /\ MARSHALER_BUF_SIZE \in Nat
  BY <1>1, LenProperties, BuffersAssumption, SizesAssumption
     DEF IInv, TypeOK, Appended, Accounted, Account
<1>4. Expected' = Expected
  BY <1>1 DEF Expected
<1>5. CASE AppendDone
  <2>1. UNCHANGED <<write_ptr, e>> /\ e = Len(segments) /\ ret' = "ok" /\ pc' = "answer"
    BY <1>5 DEF AppendDone
  <2>2. Account' /\ Told'
    BY <1>1, <1>3, <1>4, <2>1 DEF Account, Told
  <2> QED BY <1>2, <2>2 DEF Accounted
<1>6. CASE AppendSegment
  <2>1. PICK s : s = segments[e + 1]
    OBVIOUS
  <2>2. /\ e \in 0 .. Len(segments) - 1
        /\ \/ /\ Fits(s) /\ write_ptr' = write_ptr + SEG + s.length /\ e' = e + 1
              /\ UNCHANGED <<pc, ret>>
           \/ ~Fits(s) /\ pc' = "answer" /\ ret' = "-1" /\ UNCHANGED <<write_ptr, e>>
    BY <1>3, <1>6, <2>1 DEF AppendSegment, Fail
  <2>3. e + 1 \in 1 .. Len(segments) /\ e + 1 \in 0 .. Len(segments)
    BY <1>3, <2>2
  <2>4. s \in Segment /\ s.offset + s.length <= BINDER_VM_SIZE
    BY <1>3, <2>1, <2>3 DEF IInv, SegmentsOK
  <2>5. /\ BytesOf(segments, e + 1) = BytesOf(segments, e) + SEG + s.length
        /\ BytesOf(segments, e) \in Nat
    BY <1>3, <2>1, <2>2, BytesOfNext
  <2>6. s.length \in Nat
    BY <2>4 DEF Segment
  <2>7. write_ptr + SEG + s.length = end + BytesOf(segments, e + 1)
    BY <1>3, <2>5, <2>6
  <2>8. CASE /\ Fits(s) /\ write_ptr' = write_ptr + SEG + s.length /\ e' = e + 1
             /\ UNCHANGED <<pc, ret>>
    <3>1. write_ptr' = end + BytesOf(segments, e + 1)
      BY <2>7, <2>8
    <3>2. Account' /\ Told'
      BY <1>1, <1>3, <1>4, <2>8, <3>1 DEF Account, Told
    <3> QED BY <1>2, <3>2 DEF Accounted
  <2>9. CASE ~Fits(s) /\ pc' = "answer" /\ ret' = "-1" /\ UNCHANGED <<write_ptr, e>>
    <3>1. write_ptr + SEG + s.length > MARSHALER_BUF_SIZE
      BY <2>4, <2>9, NotFitsMeansNoRoom
    <3>2. /\ BytesOf(segments, e + 1) <= BytesOf(segments, Len(segments))
          /\ BytesOf(segments, e + 1) \in Nat /\ BytesOf(segments, Len(segments)) \in Nat
      BY <1>3, <2>3, BytesOfGrow
    <3>3. end + BytesOf(segments, e + 1) > MARSHALER_BUF_SIZE
      BY <2>7, <3>1
    <3>4. end + BytesOf(segments, Len(segments)) > MARSHALER_BUF_SIZE
      BY <1>3, <3>2, <3>3
    <3>5. end + Bytes(Expected) > MARSHALER_BUF_SIZE
      BY <1>3, <3>4 DEF Bytes
    <3>6. (end + Bytes(Expected) > MARSHALER_BUF_SIZE)'
      BY <1>1, <1>4, <3>5 DEF Bytes
    <3>7. Account' /\ Told'
      BY <2>9, <3>6 DEF Account, Told
    <3> QED BY <1>2, <3>7 DEF Accounted
  <2> QED BY <2>2, <2>8, <2>9
<1> QED BY <1>5, <1>6

LEMMA AccountedAnswer == IInv /\ Accounted /\ Answer => Accounted'
<1> SUFFICES ASSUME IInv, Accounted, Answer PROVE Accounted'
  OBVIOUS
<1>1. /\ UNCHANGED <<buf, start, end, k, ptr, write_ptr, segments, e, payload, ret>>
      /\ pc = "answer" /\ pc' \in {"sent", "crashed"}
  BY DEF Answer
<1>2. Starts' /\ Account'
  BY <1>1 DEF Accounted, Starts, Account, Expected, Bytes
<1>3. IInv'
  BY AnswerStep
<1>4. pc' = "sent" => /\ down'.ret = ret /\ down'.read_consumed = end
                      /\ down'.data_entries = Len(segments)
                      /\ ret = "ok" => down'.payload_size = write_ptr
  BY DEF Answer
<1>5. pc' = "sent" /\ ret = "ok" => down'.payload = segments
  BY <1>1, <1>3, <1>4 DEF IInv, Appended, AllOrNothing
<1>6. Told'
  BY <1>1, <1>4, <1>5 DEF Told
<1> QED BY <1>2, <1>6 DEF Accounted

LEMMA AccountedStutters == Accounted /\ UNCHANGED vars => Accounted'
BY DEF vars, Accounted, Starts, Account, Told, Expected, Bytes

LEMMA AccountedCorrect == Spec => []Accounted
<1>1. IInv /\ Accounted /\ [Next]_vars => Accounted'
  BY AccountedIoctl, AccountedParse, AccountedAppend, AccountedAnswer, AccountedStutters DEF Next
<1> QED BY <1>1, AccountedInit, IInvCorrect, PTL DEF Spec

\* A reader who takes the commands of an answer and one segment for each of their
\* references, in order, finds exactly the answer: for any commands of the driver,
\* any of them cut short, and any sizes.
THEOREM DecodableCorrect == Spec => []Decodable
<1>1. Accounted => Decodable
  BY DEF Accounted, Account, Told, Decodable, Bytes
<1> QED BY <1>1, AccountedCorrect, PTL

\* What the parser has not reached is still as the driver left it, so a command
\* it refuses with EFAULT is one that the driver left unreadable.
Given ==
    /\ pc = "parse" => /\ Len(read_buffer) = Len(buf)
                       /\ \A i \in k + 1 .. Len(buf) : read_buffer[i] = buf[i]
    /\ ret = "EFAULT" => \E i \in 1 .. Len(read_buffer) : Unreadable(i)
    /\ pc \in {"answer", "sent"} => ret # "none"

\* Steps after which the read buffer and the error are what they were.
LEMMA GivenKept ==
    ASSUME Given, UNCHANGED <<read_buffer, start, end, ret>>, pc' # "parse",
           pc' \in {"answer", "sent"} => ret # "none"
    PROVE  Given'
  BY DEF Given, Unreadable, CutOff

\* RecordIfAny says EFAULT of a misplaced reference only.
LEMMA EfaultMeansMisplaced ==
    ASSUME NEW segs, NEW r, RecordIfAny(segs, r).ret = "EFAULT"
    PROVE  Misplaced(r)
  BY DEF RecordIfAny, record_segment, LeftAlone, Recorded, Misplaced

LEMMA GivenParse == ASSUME IInv, Given, Parse PROVE Given'
<1>0. UNCHANGED <<read_buffer, start, end>> /\ pc = "parse" /\ ret = "none"
  BY DEF Parse, ParseShortWord, ParseSimple, ParseRefs, ParseShortTransaction,
     ParseTransaction, ParseUnsupported, ParseDone, Parsing, parseRest, IInv, Appended
<1>1. /\ Len(read_buffer) = Len(buf)
      /\ \A i \in k + 1 .. Len(buf) : read_buffer[i] = buf[i]
  BY <1>0 DEF Given
<1>2. ASSUME Parsing
      PROVE  /\ k \in Nat /\ Len(buf) \in Nat /\ k + 1 \in 1 .. Len(buf)
             /\ ptr = start[k + 1] /\ ptr \in Nat /\ end \in Nat
             /\ read_buffer[k + 1] = Next1
  <2>1. /\ k \in Nat /\ Len(buf) \in Nat /\ k + 1 \in 1 .. Len(buf) /\ ptr = start[k + 1]
    BY <1>2, CommandAhead
  <2>2. ptr \in Nat /\ end \in Nat
    BY BuffersAssumption DEF IInv, TypeOK
  <2> QED BY <1>1, <2>1, <2>2 DEF Next1
<1>3. ASSUME NEW i \in 1 .. Len(read_buffer), Unreadable(i), pc' = "answer",
             ret' = "EFAULT"
      PROVE  Given'
  BY <1>0, <1>3 DEF Given, Unreadable, CutOff
<1>4. CASE ParseShortWord
  <2>1. Parsing /\ ptr + WORD > end /\ pc' = "answer" /\ ret' = "EFAULT"
    BY <1>4 DEF ParseShortWord, Fail
  <2>2. CutOff(k + 1)
    BY <1>2, <2>1, SizesAssumption DEF CutOff
  <2> QED BY <1>1, <1>2, <1>3, <2>1, <2>2 DEF Unreadable
<1>5. CASE ParseShortTransaction
  <2>1. /\ Parsing /\ Next1.cmd \in Txns /\ ptr + WORD + TXN > end
        /\ pc' = "answer" /\ ret' = "EFAULT"
    BY <1>5 DEF ParseShortTransaction, Fail
  <2>2. CutOff(k + 1)
    BY <1>2, <2>1, SizesAssumption DEF CutOff
  <2> QED BY <1>1, <1>2, <1>3, <2>1, <2>2 DEF Unreadable
<1>6. CASE ParseUnsupported
  BY <1>0, <1>6 DEF ParseUnsupported, Fail, Given
<1>7. CASE ParseDone
  BY <1>0, <1>7 DEF ParseDone, Given
<1>8. CASE ParseSimple \/ ParseRefs
  <2>1. Parsing /\ k' = k + 1 /\ buf' = buf /\ ret' = ret /\ pc' = pc
    BY <1>8 DEF ParseSimple, ParseRefs
  <2> QED BY <1>0, <1>1, <1>2, <2>1 DEF Given
<1>9. CASE ParseTransaction
  <2> DEFINE d == RecordIfAny(segments, Next1.data)
             o == RecordIfAny(d.segs, Next1.offsets)
  <2>1. Parsing /\ Next1.cmd \in Txns /\ k' = k + 1 /\ marshal_transaction(Next1)
    BY <1>9 DEF ParseTransaction
  <2>2. \/ pc' = "answer" /\ ret' = d.ret
        \/ pc' = "answer" /\ ret' = o.ret
        \/ /\ ret' = ret
           /\ buf' = [buf EXCEPT ![k + 1].data.ptr = d.ptr, ![k + 1].offsets.ptr = o.ptr]
    BY <2>1 DEF marshal_transaction, Fail
  <2>3. d.ret \in {"ok", "ENOMEM", "EFAULT"} /\ o.ret \in {"ok", "ENOMEM", "EFAULT"}
    BY DEF RecordIfAny, record_segment, LeftAlone, Recorded
  <2>4. d.ret = "EFAULT" \/ o.ret = "EFAULT" => Unreadable(k + 1)
    BY <1>2, <2>1, EfaultMeansMisplaced DEF Unreadable
  <2> HIDE DEF d, o
  <2>5. CASE ret' = ret /\ buf' = [buf EXCEPT ![k + 1].data.ptr = d.ptr,
                                             ![k + 1].offsets.ptr = o.ptr]
    <3>1. Len(buf') = Len(buf) /\ \A i \in k + 2 .. Len(buf) : buf'[i] = buf[i]
      <4>1. buf \in Seq(Command)
        BY DEF IInv, TypeOK
      <4> QED BY <1>2, <2>1, <2>5, <4>1
    <3>2. pc' # "answer" /\ pc' # "sent"
      BY <1>0, <1>9, <2>5, <2>3 DEF ParseTransaction, marshal_transaction, Fail, d, o
    <3> QED BY <1>0, <1>1, <1>2, <2>1, <2>5, <3>1, <3>2 DEF Given
  <2>6. CASE pc' = "answer" /\ ret' \in {d.ret, o.ret}
    <3>1. CASE ret' = "EFAULT"
      BY <1>1, <1>2, <1>3, <2>1, <2>4, <2>6, <3>1
    <3>2. CASE ret' # "EFAULT"
      BY <2>3, <2>6, <3>2 DEF Given
    <3> QED BY <3>1, <3>2
  <2> QED BY <2>2, <2>5, <2>6
<1> QED BY <1>4, <1>5, <1>6, <1>7, <1>8, <1>9 DEF Parse

LEMMA GivenCorrect == Spec => []Given
<1>1. Init => Given
  BY DEF Init, Given
<1>2. IInv /\ Given /\ [Next]_vars => Given'
  <2> SUFFICES ASSUME IInv, Given, [Next]_vars PROVE Given'
    OBVIOUS
  <2>1. CASE \E c \in Commands : DriverPut(c)
    BY <2>1 DEF DriverPut, Given, IInv, Appended
  <2>2. CASE IoctlFails
    BY <2>2 DEF IoctlFails, Given
  <2>3. CASE IoctlReturns
    BY <2>3 DEF IoctlReturns, Given, IInv, Appended
  <2>4. CASE AppendSegment \/ AppendDone
    <3>1. UNCHANGED <<read_buffer, start, end>> /\ pc' # "parse" /\ ret = "none"
      BY <2>4 DEF AppendSegment, AppendDone, appendRest, Fail, IInv, Appended
    <3>2. \/ pc' = "append" /\ ret' = ret
          \/ pc' = "answer" /\ ret' \in {"-1", "ok"}
      BY <2>4 DEF AppendSegment, AppendDone, Fail
    <3> QED BY <3>1, <3>2 DEF Given
  <2>5. CASE Answer
    <3>1. UNCHANGED <<read_buffer, start, end, ret>> /\ pc' # "parse" /\ ret # "none"
      BY <2>5 DEF Answer, Given
    <3> QED BY <3>1, GivenKept
  <2>6. CASE UNCHANGED vars
    BY <2>6 DEF vars, Given, Unreadable, CutOff
  <2> QED BY <2>1, <2>2, <2>3, <2>4, <2>5, <2>6, GivenParse DEF Next, Ioctl
<1> QED BY <1>1, <1>2, IInvCorrect, PTL DEF Spec

\* Every refusal has its reason in what the driver returned: too many references,
\* too much data, a command that is unknown, cut off, or that points outside the
\* mapped memory.
THEOREM ErrorsJustifiedCorrect == Spec => []ErrorsJustified
<1>1. IInv /\ Accounted /\ Given => ErrorsJustified
  BY DEF IInv, TypeOK, Errors, Accounted, Account, Told, Given, ErrorsJustified
<1> QED BY <1>1, IInvCorrect, AccountedCorrect, GivenCorrect, PTL

-----------------------------------------------------------------------------
(* That the handler ends.  Liveness needs fairness; what it rests on does  *)
(* not: each step of the handler leaves fewer to come, and until the last  *)
(* one the next can be taken.                                              *)

\* The steps that the handler can still take, at most.
StepsLeft ==
    IF pc = "parse" THEN (Len(buf) - k) + MAX_SEGMENT_NUM + 4
    ELSE IF pc = "append" THEN (Len(segments) - e) + 3
    ELSE IF pc = "answer" THEN 2
    ELSE 0

Shorter == pc # "ioctl" => StepsLeft \in Nat /\ StepsLeft' \in Nat /\ StepsLeft' < StepsLeft

\* The parser always finds a command to parse, and append_data_segments never
\* has more segments behind it than there are.
NeverStuck ==
    /\ pc = "parse" /\ ptr < end =>
          /\ k < Len(buf)
          /\ Next1.cmd \in Simple \cup RefCmds \cup Txns \cup OtherCmds
    /\ pc = "append" => e <= Len(segments)

LEMMA ShorterStep == IInv /\ IInv' /\ [Next]_vars => [Shorter]_vars
<1> SUFFICES ASSUME IInv, IInv', Next, pc # "ioctl"
             PROVE  StepsLeft \in Nat /\ StepsLeft' \in Nat /\ StepsLeft' < StepsLeft
  BY DEF Shorter
<1>1. /\ k \in Nat /\ Len(buf) \in Nat /\ k <= Len(buf) /\ Len(buf) = Len(start)
      /\ Len(segments) \in Nat /\ Len(segments) <= MAX_SEGMENT_NUM
      /\ e \in 0 .. Len(segments) /\ MAX_SEGMENT_NUM \in Nat
  BY SizesAssumption, LenProperties DEF IInv, TypeOK, Layout, SegmentsOK
<1>2. /\ k' \in Nat /\ Len(buf') \in Nat /\ k' <= Len(buf') /\ Len(buf') = Len(start')
      /\ Len(segments') \in Nat /\ Len(segments') <= MAX_SEGMENT_NUM
      /\ e' \in 0 .. Len(segments')
  BY SizesAssumption, LenProperties DEF IInv, TypeOK, Layout, SegmentsOK
<1>3. CASE ParseDone
  <2>1. pc = "parse" /\ pc' = "append" /\ e' \in Nat
    BY <1>2, <1>3 DEF ParseDone
  <2> QED BY <1>1, <1>2, <2>1 DEF StepsLeft
<1>4. CASE Parse /\ ~ParseDone
  <2>1. pc = "parse" /\ start' = start /\ (pc' = "answer" \/ (pc' = "parse" /\ k' = k + 1))
    BY <1>4 DEF Parse, ParseShortWord, ParseSimple, ParseRefs, ParseShortTransaction,
                ParseTransaction, ParseUnsupported, Parsing, Fail, marshal_transaction, parseRest
  <2>2. Len(buf') = Len(buf)
    BY <1>1, <1>2, <2>1
  <2>3. StepsLeft = (Len(buf) - k) + MAX_SEGMENT_NUM + 4
    BY <2>1 DEF StepsLeft
  <2>4. CASE pc' = "answer"
    BY <1>1, <2>3, <2>4 DEF StepsLeft
  <2>5. CASE pc' = "parse" /\ k' = k + 1
    <3>1. StepsLeft' = (Len(buf) - (k + 1)) + MAX_SEGMENT_NUM + 4 /\ k + 1 <= Len(buf)
      BY <1>2, <2>2, <2>5 DEF StepsLeft
    <3> QED BY <1>1, <2>3, <3>1
  <2> QED BY <2>1, <2>4, <2>5
<1>5. CASE AppendSegment \/ AppendDone
  <2>1. /\ pc = "append" /\ segments' = segments
        /\ pc' = "answer" \/ (pc' = "append" /\ e' = e + 1)
    BY <1>5 DEF AppendSegment, AppendDone, Fail, appendRest
  <2> QED BY <1>1, <1>2, <2>1 DEF StepsLeft
<1>6. CASE Answer
  <2>1. pc = "answer" /\ pc' \in {"sent", "crashed"}
    BY <1>6 DEF Answer
  <2> QED BY <2>1 DEF StepsLeft
<1>7. ~Ioctl
  BY DEF Ioctl, DriverPut, IoctlFails, IoctlReturns
<1> QED BY <1>3, <1>4, <1>5, <1>6, <1>7 DEF Next

\* Once the driver has returned, every step of the handler leaves fewer to come:
\* it ends after at most MAX_SEGMENT_NUM + 4 steps more than there are commands.
THEOREM HandlerGetsShorter == Spec => [][Shorter]_vars
<1>1. IInv /\ IInv' /\ [Next]_vars => [Shorter]_vars
  BY ShorterStep
<1> QED BY <1>1, IInvCorrect, PTL DEF Spec

\* Until then it can go on: there is a command where the parser looks for one.
THEOREM HandlerNeverStuck == Spec => []NeverStuck
<1>1. IInv => NeverStuck
  <2> SUFFICES ASSUME IInv PROVE NeverStuck
    OBVIOUS
  <2>1. ASSUME pc = "parse", ptr < end
        PROVE  k < Len(buf) /\ Next1.cmd \in Simple \cup RefCmds \cup Txns \cup OtherCmds
    <3>1. k \in Nat /\ Len(buf) \in Nat /\ k + 1 \in 1 .. Len(buf) /\ Next1 \in Command
      BY <2>1, CommandAhead DEF Parsing
    <3> QED BY <3>1 DEF Command
  <2>2. e <= Len(segments)
    BY LenProperties DEF IInv, TypeOK
  <2> QED BY <2>1, <2>2 DEF NeverStuck
<1> QED BY <1>1, IInvCorrect, PTL

-----------------------------------------------------------------------------
(* The write buffer.  The inductive invariant says what the loop has done  *)
(* after i turns; that it has left the table itself alone is what makes    *)
(* the entry it reads next the one that was sent.                          *)

\* The types the argument needs.
PatchType ==
    /\ original \in [Words -> Values] /\ words \in [Words -> Values]
    /\ offset \in 0..PAYLOAD_WORDS /\ entries \in 0..(PAYLOAD_WORDS - offset)
    /\ turn \in 0..entries
    /\ patchAt \in {"loop", "ioctl", "wild"}
    /\ patchAt = "ioctl" => turn = entries

\* After i turns exactly the words of the first i entries are relocated.
PatchedSoFar ==
    GoodTable =>
        /\ patchAt # "wild"
        /\ \A w \in Words :
              words[w] = IF Named(w, turn) THEN (original[w] + PAYLOAD_ADDR) % Modulus
                       ELSE original[w]

PatchInv == PatchType /\ PatchedSoFar

-----------------------------------------------------------------------------
\* A word that is relocated stays a word.
LEMMA PatchedIsValue ==
    ASSUME NEW x \in Values PROVE (x + PAYLOAD_ADDR) % Modulus \in Values
  BY PatchAssumption, SMTT(30) DEF Values

\* The table lies in the payload, so the entry that is read is a word of it.
LEMMA EntryInside ==
    ASSUME PatchType, turn < entries
    PROVE  offset + turn \in Words /\ offset + turn \in TableWords /\ turn \in 0..(entries - 1)
  BY PatchAssumption DEF PatchType, Words, TableWords

\* One more turn adds exactly its own entry to the words that are named.
LEMMA NamedNext ==
    ASSUME NEW w, NEW n \in Nat
    PROVE  Named(w, n + 1) <=> (Named(w, n) \/ Entry(n) = w)
  BY DEF Named

LEMMA PatchInvInit == PatchInit => PatchInv
<1> SUFFICES ASSUME PatchInit PROVE PatchInv
  OBVIOUS
<1>1. PatchType
  BY PatchAssumption DEF PatchInit, PatchType
<1>2. \A w : ~Named(w, turn)
  BY DEF PatchInit, Named
<1>3. PatchedSoFar
  BY <1>2 DEF PatchInit, PatchedSoFar
<1> QED BY <1>1, <1>3 DEF PatchInv

LEMMA PatchInvStep == PatchInv /\ [PatchNext]_patchVars => PatchInv'
<1> SUFFICES ASSUME PatchInv, [PatchNext]_patchVars PROVE PatchInv'
  OBVIOUS
<1>0. PatchType /\ PatchedSoFar
  BY DEF PatchInv
<1>1. CASE PatchEntry
  <2>1. /\ entries' = entries /\ offset' = offset /\ original' = original
        /\ patchAt' = patchAt /\ turn' = turn + 1 /\ patchAt = "loop" /\ turn < entries
    BY <1>1 DEF PatchEntry
  <2> DEFINE entry == words[offset + turn]
  <2>2. entry \in Words /\ words' = [words EXCEPT ![entry] = (words[entry] + PAYLOAD_ADDR) % Modulus]
    BY <1>1 DEF PatchEntry
  <2>3. offset + turn \in Words /\ offset + turn \in TableWords /\ turn \in 0..(entries - 1)
    BY <1>0, <2>1, EntryInside
  <2>4. PatchType'
    <3>1. words[entry] \in Values
      BY <1>0, <2>2 DEF PatchType
    <3>2. words' \in [Words -> Values]
      BY <1>0, <2>2, <3>1, PatchedIsValue DEF PatchType
    <3> QED BY <1>0, <2>1, <3>2 DEF PatchType, Words, Values
  <2>5. PatchedSoFar'
    <3> SUFFICES ASSUME GoodTable
                 PROVE  /\ patchAt' # "wild"
                        /\ \A w \in Words :
                              words'[w] = IF Named(w, turn + 1)
                                        THEN (original[w] + PAYLOAD_ADDR) % Modulus
                                        ELSE original[w]
      <4>1. GoodTable' <=> GoodTable
        BY <2>1 DEF GoodTable, Entry, TableWords
      <4>2. \A w : Named(w, turn)' <=> Named(w, turn + 1)
        BY <2>1 DEF Named, Entry
      <4> QED BY <2>1, <4>1, <4>2 DEF PatchedSoFar
    <3>1. \A w \in Words : words[w] = IF Named(w, turn) THEN (original[w] + PAYLOAD_ADDR) % Modulus
                                    ELSE original[w]
      BY <1>0 DEF PatchedSoFar
    <3>2. ~Named(offset + turn, turn)
      BY <1>0, <2>1, <2>3 DEF GoodTable, Named, PatchType, TableWords
    <3>3. entry = Entry(turn)
      BY <2>3, <3>1, <3>2 DEF Entry
    <3>4. ~Named(entry, turn)
      BY <1>0, <2>1, <2>3, <3>3 DEF GoodTable, Named, PatchType
    <3>5. ASSUME NEW w \in Words
          PROVE  words'[w] = IF Named(w, turn + 1) THEN (original[w] + PAYLOAD_ADDR) % Modulus
                           ELSE original[w]
      <4>1. Named(w, turn + 1) <=> (Named(w, turn) \/ w = entry)
        <5>1. turn \in Nat
          BY <1>0 DEF PatchType
        <5> QED BY <5>1, <3>3, NamedNext
      <4>2. CASE w = entry
        BY <4>1, <4>2, <2>2, <3>1, <3>4, <1>0 DEF PatchType
      <4>3. CASE w # entry
        BY <4>1, <4>3, <2>2, <3>1, <1>0 DEF PatchType
      <4> QED BY <4>2, <4>3
    <3> QED BY <2>1, <3>5
  <2> QED BY <2>4, <2>5 DEF PatchInv
<1>2. CASE PatchWild
  <2>1. /\ entries' = entries /\ offset' = offset /\ original' = original
        /\ words' = words /\ turn' = turn /\ patchAt' = "wild" /\ patchAt = "loop" /\ turn < entries
        /\ words[offset + turn] \notin Words
    BY <1>2 DEF PatchWild
  <2>2. offset + turn \in Words /\ offset + turn \in TableWords /\ turn \in 0..(entries - 1)
    BY <1>0, <2>1, EntryInside
  <2>3. ~GoodTable
    <3> SUFFICES ASSUME GoodTable PROVE FALSE
      OBVIOUS
    <3>1. ~Named(offset + turn, turn)
      BY <1>0, <2>1, <2>2 DEF GoodTable, Named, PatchType, TableWords
    <3>2. words[offset + turn] = Entry(turn)
      BY <1>0, <2>2, <3>1 DEF PatchedSoFar, Entry
    <3> QED BY <2>1, <2>2, <3>2 DEF GoodTable
  <2>4. ~GoodTable'
    BY <2>1, <2>3 DEF GoodTable, Entry, TableWords
  <2> QED BY <1>0, <2>1, <2>4 DEF PatchInv, PatchType, PatchedSoFar, Words, Values
<1>3. CASE PatchDone
  <2>1. /\ entries' = entries /\ offset' = offset /\ original' = original
        /\ words' = words /\ turn' = turn /\ patchAt' = "ioctl" /\ turn >= entries
    BY <1>3 DEF PatchDone
  <2>2. GoodTable' <=> GoodTable
    BY <2>1 DEF GoodTable, Entry, TableWords
  <2>3. \A w : Named(w, turn)' <=> Named(w, turn)
    BY <2>1 DEF Named, Entry
  <2>4. PatchType'
    BY <1>0, <2>1 DEF PatchType, Words, Values
  <2>5. PatchedSoFar'
    BY <1>0, <2>1, <2>2, <2>3 DEF PatchedSoFar
  <2> QED BY <2>4, <2>5 DEF PatchInv
<1>4. CASE UNCHANGED patchVars
  <2>1. /\ entries' = entries /\ offset' = offset /\ original' = original
        /\ words' = words /\ turn' = turn /\ patchAt' = patchAt
    BY <1>4 DEF patchVars
  <2> QED BY <1>0, <2>1 DEF PatchInv, PatchType, PatchedSoFar, GoodTable, Entry,
             TableWords, Named, Words, Values
<1> QED BY <1>1, <1>2, <1>3, <1>4 DEF PatchNext

LEMMA PatchInvariant == PatchSpec => []PatchInv
<1>1. PatchInit => PatchInv
  BY PatchInvInit
<1>2. PatchInv /\ [PatchNext]_patchVars => PatchInv'
  BY PatchInvStep
<1> QED BY <1>1, <1>2, PTL DEF PatchSpec

\* patch_payload_ptr relocates every word that a good table names exactly once,
\* leaves every other one alone and writes nothing outside of the payload.
THEOREM PatchedOnceCorrect == PatchSpec => []PatchedOnce
<1>1. PatchInv => PatchedOnce
  BY DEF PatchInv, PatchType, PatchedSoFar, PatchedOnce
<1> QED BY <1>1, PatchInvariant, PTL

-----------------------------------------------------------------------------
\* What is proved of one half of the handler holds of it in the composition that
\* the run checks: there it takes its own steps or none.
THEOREM HandlerHalves == HandlerSpec => Spec /\ PatchSpec
<1>1. HandlerInit => Init /\ PatchInit
  BY DEF HandlerInit
<1>2. [HandlerNext]_handlerVars => [Next]_vars /\ [PatchNext]_patchVars
  BY DEF HandlerNext, Patch, GoesOn, handlerVars
<1> QED BY <1>1, <1>2, PTL DEF HandlerSpec, Spec, PatchSpec
=============================================================================
