-------------------------- MODULE MCBinderMarshal --------------------------
(***************************************************************************)
(* BinderMarshal on small sizes, with every kind of command, and the       *)
(* format of the answer that a comment in the source describes.            *)
(***************************************************************************)
EXTENDS BinderMarshal

\* A reference to n bytes at offset o of the mapped memory.
At(o, n) == [ptr |-> VM_START + o, len |-> n]
Nowhere  == [ptr |-> 0, len |-> 0]
Beyond   == [ptr |-> VM_START + BINDER_VM_SIZE, len |-> 1]
Below    == [ptr |-> VM_START - 1, len |-> 1]
Cmd(c, d, o) == [cmd |-> c, data |-> d, offsets |-> o]

MCCommands ==
    {Cmd("BR_NOOP", Nowhere, Nowhere),
     Cmd("BR_INCREFS", Nowhere, Nowhere),
     Cmd("BR_DEAD_REPLY", Nowhere, Nowhere),
     Cmd("BR_TRANSACTION", Nowhere, Nowhere),
     Cmd("BR_TRANSACTION", At(0, 1), At(1, 1)),
     Cmd("BR_TRANSACTION", At(2, 6), Nowhere),
     Cmd("BR_REPLY", Nowhere, At(3, 2)),
     Cmd("BR_REPLY", At(7, 1), Beyond),
     Cmd("BR_REPLY", Below, At(0, 1))}

\* The format of the comment at binder.c:174-180: the read buffer, then the
\* number of entries, then the entries.
DocumentedFormat ==
    pc = "sent" /\ down.ret = "ok" /\ down.data_entries > 0 =>
        down.payload_size = down.read_consumed + WORD + Bytes(Expected)
=============================================================================
