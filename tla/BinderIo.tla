------------------------------ MODULE BinderIo ------------------------------
(***************************************************************************)
(* struct binder_io of the Binder client library                           *)
(* (android/bench-binder/binder.c): a message is put together item by item *)
(* in a fixed buffer, travels as a transaction or as the reply to one, and *)
(* is taken apart item by item by the receiver, who asks for the same      *)
(* kinds of items in the same order.                                       *)
(*                                                                         *)
(* Positions and sizes are in bytes from data0.  Text is abstracted to its *)
(* length, an object to its pointer.                                       *)
(***************************************************************************)
EXTENDS Integers, Sequences

CONSTANTS
    U32,          \* uint32_t holds 0 .. U32 - 1
    OBJ,          \* sizeof(struct binder_object)
    MAX_STRING,   \* MAX_BIO_SIZE / sizeof(uint16_t)
    MaxData,      \* the sizes of buffers bio_init is called with
    MaxOffs,      \* the numbers of offsets it is to reserve in them
    Words,        \* the numbers that are put
    Lengths,      \* the lengths of the strings that are put
    Pointers,     \* the pointers that are put, 0 among them
    Owned,        \* those of objects that belong to the receiver
    MAX_ITEMS     \* bound: items in one message

MISSING == U32 - 1   \* 0xffffffff, the length of a string that is not there

ASSUME WidthAssumption ==
    /\ U32 \in Nat /\ U32 % 4 = 0 /\ U32 > 0
    /\ OBJ \in Nat /\ OBJ % 4 = 0 /\ OBJ > 0 /\ OBJ < U32
ASSUME StringAssumption ==
    /\ MAX_STRING \in Nat /\ 2 * MAX_STRING + 3 < U32
    /\ Lengths \subseteq 0 .. U32 - 2
ASSUME ItemAssumption ==
    /\ Words \subseteq 0 .. U32 - 1
    /\ Pointers \subseteq Nat /\ Owned \subseteq Pointers
    /\ MAX_ITEMS \in Nat
ASSUME BuffersAssumption ==
    MaxData \subseteq 0 .. U32 - 1 /\ MaxOffs \subseteq 0 .. U32 \div 4 - 1

VARIABLES
    phase,  \* "init", "write", "refused" or "read"
    size,   \* maxdata and maxoffs, as bio_init was called with them
    bio,    \* the binder_io of the sender
    mem,    \* what has been stored in the buffer, and where
    sent,   \* the items put, in order
    rbio,   \* the binder_io of the receiver
    got     \* what the receiver got for each item it asked for

vars == <<phase, size, bio, mem, sent, rbio, got>>

\* (size + 3) & ~3
Aligned(n) == (((n + 3) % U32) \div 4) * 4

-----------------------------------------------------------------------------
(* The sender *)

Empty == [data |-> 0, offs |-> <<>>, data_avail |-> 0, offs_avail |-> 0,
          overflow |-> FALSE]

\* The offsets are reserved at the start of the buffer; one that is too small for
\* them is refused.
bio_init ==
    /\ phase = "init"
    /\ \E maxdata \in MaxData, maxoffs \in MaxOffs :
          /\ size' = [data |-> maxdata, offs |-> maxoffs]
          /\ bio' = IF maxoffs * 4 > maxdata THEN [Empty EXCEPT !.overflow = TRUE]
                    ELSE [Empty EXCEPT !.data_avail = maxdata - maxoffs * 4,
                                       !.offs_avail = maxoffs]
    /\ phase' = "write"
    /\ UNCHANGED <<mem, sent, rbio, got>>

\* Whether bio_alloc(b, n) returns memory; if it does, it is at b.data.
HasRoom(b, n) == Aligned(n) <= b.data_avail

\* Mutant: the room is compared with the size before it was rounded up.
bio_alloc_NotAligned(b, n) ==
    IF n > b.data_avail THEN [b EXCEPT !.overflow = TRUE]
    ELSE [b EXCEPT !.data = @ + Aligned(n), !.data_avail = @ - Aligned(n)]

\* Mutant: the sender does not align what it puts.
bio_alloc_NoRounding(b, n) ==
    IF HasRoom(b, n) THEN [b EXCEPT !.data = @ + n, !.data_avail = @ - n]
    ELSE [b EXCEPT !.overflow = TRUE]

bio_alloc(b, n) ==
    IF HasRoom(b, n)
    THEN [b EXCEPT !.data = @ + Aligned(n), !.data_avail = @ - Aligned(n)]
    ELSE [b EXCEPT !.overflow = TRUE]

\* bio_alloc_obj returns an object only if there is an entry for its offset
\* too; without one the memory is used up all the same.
HasObject(b) == HasRoom(b, OBJ) /\ b.offs_avail > 0

bio_alloc_obj(b) ==
    LET a == bio_alloc(b, OBJ)
    IN  IF HasObject(b)
        THEN [a EXCEPT !.offs = Append(@, b.data), !.offs_avail = @ - 1]
        ELSE [a EXCEPT !.overflow = TRUE]

\* What is stored at a position, and for which item.
Chunk(b, kind, val) ==
    {[at |-> b.data, item |-> Len(sent) + 1, kind |-> kind, val |-> val]}
Store(ok, b, kind, val) == IF ok THEN Chunk(b, kind, val) ELSE {}

Put(item) ==
    /\ phase = "write"
    /\ Len(sent) < MAX_ITEMS
    /\ sent' = Append(sent, item)
    /\ UNCHANGED <<phase, size, rbio, got>>

bio_put_uint32(n) ==
    /\ Put([kind |-> "uint32", val |-> n])
    /\ bio' = bio_alloc(bio, 4)
    /\ mem' = mem \cup Store(HasRoom(bio, 4), bio, "word", n)

\* A string that is missing or too long is put as its length MISSING alone.
PutNoString(n) ==
    /\ Put([kind |-> "string16", val |-> MISSING])
    /\ n = MISSING \/ n >= MAX_STRING
    /\ bio' = bio_alloc(bio, 4)
    /\ mem' = mem \cup Store(HasRoom(bio, 4), bio, "word", MISSING)

\* The length, then the text with its terminating 0.  The second is tried even
\* when there was no room for the first.
PutText(n) ==
    /\ Put([kind |-> "string16", val |-> n])
    /\ n < MAX_STRING
    /\ LET b == bio_alloc(bio, 4)
           bytes == (n + 1) * 2
       IN  /\ bio' = bio_alloc(b, bytes)
           /\ mem' = mem \cup Store(HasRoom(bio, 4), bio, "word", n)
                         \cup Store(HasRoom(b, bytes), b, "text", n)

\* bio_put_string16 and bio_put_string16_x, which differ in the width of the
\* characters they read and put the same.
bio_put_string16(n) == PutNoString(n) \/ PutText(n)

bio_put_obj(p) ==
    /\ Put([kind |-> "obj", val |-> p])
    /\ bio' = bio_alloc_obj(bio)
    /\ mem' = mem \cup Store(HasObject(bio), bio, "binder", p)

\* A null reference gets its memory but no entry in the offsets.
bio_put_ref(p) ==
    /\ Put([kind |-> "ref", val |-> p])
    /\ \/ /\ p # 0
          /\ bio' = bio_alloc_obj(bio)
          /\ mem' = mem \cup Store(HasObject(bio), bio, "handle", p)
       \/ /\ p = 0
          /\ bio' = bio_alloc(bio, OBJ)
          /\ mem' = mem \cup Store(HasRoom(bio, OBJ), bio, "handle", p)

-----------------------------------------------------------------------------
(* Its way to the receiver *)

\* bio_init_from_txn on the message as it was sent.
bio_init_from_txn ==
    rbio' = [data |-> 0, offs |-> bio.offs, data_avail |-> bio.data,
             offs_avail |-> Len(bio.offs), overflow |-> FALSE]

\* The start of binder_call: a message that overflowed is not sent.
binder_call ==
    /\ phase = "write"
    /\ \/ /\ bio.overflow
          /\ phase' = "refused"
          /\ UNCHANGED rbio
       \/ /\ ~bio.overflow
          /\ phase' = "read"
          /\ bio_init_from_txn
    /\ UNCHANGED <<size, bio, mem, sent, got>>

\* binder_send_reply of a buffer that bio_init accepted, as binder_parse calls
\* it: whether the reply overflowed is not asked.
binder_send_reply ==
    /\ phase = "write"
    /\ size.offs * 4 <= size.data
    /\ phase' = "read"
    /\ bio_init_from_txn
    /\ UNCHANGED <<size, bio, mem, sent, got>>

-----------------------------------------------------------------------------
(* The receiver *)

\* bio_get returns b.data if it succeeds, as HasRoom says; after it failed
\* nothing more can be got.
bio_get(b, n) ==
    IF b.data_avail < Aligned(n)
    THEN [b EXCEPT !.data_avail = 0, !.overflow = TRUE]
    ELSE [b EXCEPT !.data = @ + Aligned(n), !.data_avail = @ - Aligned(n)]

IsObject(b) == \E i \in 1 .. b.offs_avail : b.offs[i] = b.data

\* Mutant: what is left stays available when no object is found.
_bio_get_obj_KeepRest(b) ==
    IF IsObject(b) THEN bio_get(b, OBJ)
    ELSE [b EXCEPT !.overflow = TRUE]

\* Mutant: the receiver takes any position for an object.
_bio_get_obj_Anywhere(b) == bio_get(b, OBJ)

_bio_get_obj(b) ==
    IF IsObject(b) THEN bio_get(b, OBJ)
    ELSE [b EXCEPT !.data_avail = 0, !.overflow = TRUE]

At(p, kinds) == {c \in mem : c.at = p /\ c.kind \in kinds}

\* The word that may be read at p: anything where none was stored.
WordsAt(p) == IF At(p, {"word"}) = {} THEN 0 .. U32 - 1
              ELSE {c.val : c \in At(p, {"word"})}
Objects == {"binder", "handle"}

\* The items whose put stored what is read at p.
OriginOf(p, kinds) == {c.item : c \in At(p, kinds)}
Nothing == [ok |-> FALSE, val |-> 0, from |-> {}]

\* The receiver asks for the next item of the message.
Get(kinds) ==
    /\ phase = "read"
    /\ Len(got) < Len(sent)
    /\ sent[Len(got) + 1].kind \in kinds
    /\ UNCHANGED <<phase, size, bio, mem, sent>>

bio_get_uint32 ==
    /\ Get({"uint32"})
    /\ rbio' = bio_get(rbio, 4)
    /\ \E v \in WordsAt(rbio.data) :
          got' = Append(got, IF ~HasRoom(rbio, 4) THEN Nothing
                             ELSE [ok |-> TRUE, val |-> v,
                                   from |-> OriginOf(rbio.data, {"word"})])

\* The length is got with bio_get_uint32, which is 0 when it fails, then
\* (len + 1) * 2 bytes; that product wraps.
bio_get_string16 ==
    /\ Get({"string16"})
    /\ \E v \in WordsAt(rbio.data) :
          LET len   == IF HasRoom(rbio, 4) THEN v ELSE 0
              b     == bio_get(rbio, 4)
              bytes == ((len + 1) * 2) % U32
          IN  /\ rbio' = bio_get(b, bytes)
              /\ got' = Append(got, IF ~HasRoom(b, bytes) THEN Nothing
                                    ELSE [ok |-> TRUE, val |-> len,
                                          from |-> OriginOf(rbio.data, {"word"})])

\* The driver (external) translates the objects of a message: one of the sender
\* arrives as a BINDER_TYPE_HANDLE, and so does a reference, unless it refers to
\* an object of the receiver, to whom it comes as a BINDER_TYPE_BINDER.
TypeOnArrival(c) ==
    IF c.kind = "handle" /\ c.val \in Owned THEN "BINDER_TYPE_BINDER"
    ELSE "BINDER_TYPE_HANDLE"

\* The pointer bio_get_ref returns for the object it finds: 0 for any other type.
PointerOf(c) == IF TypeOnArrival(c) = "BINDER_TYPE_HANDLE" THEN c.val ELSE 0

\* What it may return for an object at p: anything where none was stored.
PointersAt(p) == IF At(p, Objects) = {} THEN Pointers \cup {0}
                 ELSE {PointerOf(c) : c \in At(p, Objects)}

bio_get_ref ==
    /\ Get({"obj", "ref"})
    /\ rbio' = _bio_get_obj(rbio)
    /\ \E v \in PointersAt(rbio.data) :
          got' = Append(got, IF ~(IsObject(rbio) /\ HasRoom(rbio, OBJ)) THEN Nothing
                             ELSE [ok |-> TRUE, val |-> v,
                                   from |-> OriginOf(rbio.data, Objects)])

-----------------------------------------------------------------------------
Init ==
    /\ phase = "init"
    /\ size = [data |-> 0, offs |-> 0]
    /\ bio = Empty /\ rbio = Empty
    /\ mem = {}
    /\ sent = <<>> /\ got = <<>>

Next ==
    \/ bio_init
    \/ \E n \in Words : bio_put_uint32(n)
    \/ \E n \in Lengths \cup {MISSING} : bio_put_string16(n)
    \/ \E p \in Pointers : bio_put_obj(p) \/ bio_put_ref(p)
    \/ binder_call \/ binder_send_reply
    \/ bio_get_uint32 \/ bio_get_string16 \/ bio_get_ref

Spec == Init /\ [][Next]_vars

-----------------------------------------------------------------------------
(* Properties *)

Bio == [data : Nat, offs : Seq(Nat), data_avail : Nat, offs_avail : Nat,
        overflow : BOOLEAN]

\* The bytes a chunk takes up.
Extent(c) == CASE c.kind = "word" -> 4
               [] c.kind = "text" -> (c.val + 1) * 2
               [] OTHER           -> OBJ

\* What is stored lies between data0 and data, never over anything stored
\* before, and data and data_avail together are always the whole buffer, with no
\* counter wrapping around; a receiver stays within what was sent.
InBounds ==
    /\ bio \in Bio /\ rbio \in Bio
    /\ size.offs * 4 <= size.data =>
          /\ bio.data + bio.data_avail = size.data - size.offs * 4
          /\ Len(bio.offs) + bio.offs_avail = size.offs
    /\ \A c \in mem : c.at + Extent(c) <= bio.data
    /\ \A c, d \in mem : c = d \/ c.at + Extent(c) <= d.at \/ d.at + Extent(d) <= c.at
    /\ phase = "read" => rbio.data + rbio.data_avail <= bio.data

\* Whatever did not fit and whatever was lost on the way: an item the receiver
\* gets is the one that was put for it, never a later one or part of one.  The
\* gets that follow a damaged item fail.
NeverShifted == \A i \in 1 .. Len(got) : got[i].ok => got[i].from = {i}

NullRef(item) == item.kind = "ref" /\ item.val = 0

\* What the receiver is to get for an item.
Received(item) == IF item.kind = "ref" /\ item.val \in Owned THEN 0 ELSE item.val

\* A message that fitted is got as it was put, with three exceptions: a string
\* longer than MAX_STRING is one that is missing; a reference to an object of the
\* receiver itself is found, but bio_get_ref returns 0 for it; and a null
\* reference is not found, as it has no offset, nor is anything behind it.
RoundTrip ==
    \A i \in 1 .. Len(got) :
        ~bio.overflow /\ (\A j \in 1 .. i : ~NullRef(sent[j]))
            => got[i].ok /\ got[i].val = Received(sent[i])

\* A reply that overflowed is sent all the same; its receiver finds out, though
\* not at which item.
OverflowDetected ==
    phase = "read" /\ bio.overflow /\ Len(got) = Len(sent) => rbio.overflow
=============================================================================
