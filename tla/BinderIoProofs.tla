--------------------------- MODULE BinderIoProofs ---------------------------
(***************************************************************************)
(* Proofs about BinderIo, for every width, every size of buffer and every  *)
(* message.  The argument: a message has a layout, which gives every item  *)
(* the place where it was to go and says whether it is there whole; a      *)
(* receiver is at the place of the item it asks for, or it has met one     *)
(* that is not there and gets nothing more.                                *)
(***************************************************************************)
EXTENDS BinderIo, SequenceTheorems, TLAPS

Kinds == {"uint32", "string16", "obj", "ref"}
Items == [kind : Kinds, val : Nat]
Chunks == [at : Nat, item : Nat, kind : {"word", "text", "binder", "handle"}, val : Nat]
Results == [ok : BOOLEAN, val : Nat, from : SUBSET Nat]

\* The types of the state.
BType ==
    /\ phase \in {"init", "write", "refused", "read"}
    /\ size \in [data : Nat, offs : Nat]
    /\ bio \in Bio /\ rbio \in Bio
    /\ mem \subseteq Chunks
    /\ sent \in Seq(Items)
    /\ \A i \in 1 .. Len(sent) : sent[i].kind = "string16" =>
           sent[i].val = MISSING \/ sent[i].val < MAX_STRING
    /\ got \in Seq(Results) /\ Len(got) <= Len(sent)

\* The memory that was available for items.
Top == bio.data + bio.data_avail

\* The buffer, what is in it, and the part of it that the receiver has.
BMemory ==
    /\ \A c \in mem : c.at + Extent(c) <= bio.data
    /\ \A c, d \in mem : c = d \/ c.at + Extent(c) <= d.at \/ d.at + Extent(d) <= c.at
    /\ size.offs * 4 <= size.data =>
          Top = size.data - size.offs * 4 /\ Len(bio.offs) + bio.offs_avail = size.offs
    /\ \A j \in 1 .. Len(bio.offs) :
          \E c \in mem : c.at = bio.offs[j] /\ c.kind \in Objects
    /\ phase = "read" => rbio.data + rbio.data_avail <= bio.data
    /\ size.offs * 4 > size.data => bio.overflow

-----------------------------------------------------------------------------
(* Arithmetic *)

\* The memory for the text of a string of n characters.
Text(n) == Aligned((n + 1) * 2)

LEMMA SmallMod == ASSUME NEW x \in 0 .. U32 - 1 PROVE x % U32 = x
  BY WidthAssumption

LEMMA AlignedSizes ==
    /\ Aligned(4) = 4 /\ Aligned(OBJ) = OBJ /\ Aligned(0) = 0
    /\ OBJ \in Nat /\ OBJ >= 4
    /\ U32 \in Nat /\ U32 >= 8 /\ MISSING \in Nat
    /\ \A n \in Nat : n < MAX_STRING =>
          Text(n) \in Nat /\ Text(n) >= (n + 1) * 2 /\ Text(n) >= 4 /\ n # MISSING
<1>1. OBJ \in Nat /\ OBJ >= 4 /\ OBJ + 3 \in 0 .. U32 - 1 /\ U32 \in Nat /\ U32 >= 8
  BY WidthAssumption
<1>2. Aligned(4) = 4 /\ Aligned(0) = 0
  <2>1. (4 + 3) % U32 = 7 /\ (0 + 3) % U32 = 3
    BY <1>1, SmallMod
  <2> QED BY <2>1 DEF Aligned
<1>3. Aligned(OBJ) = OBJ
  <2>1. (OBJ + 3) % U32 = OBJ + 3
    BY <1>1, SmallMod
  <2> QED BY <1>1, <2>1, WidthAssumption DEF Aligned
<1>4. ASSUME NEW n \in Nat, n < MAX_STRING
      PROVE  Text(n) \in Nat /\ Text(n) >= (n + 1) * 2 /\ Text(n) >= 4 /\ n # MISSING
  <2>1. (n + 1) * 2 + 3 \in 0 .. U32 - 1
    BY <1>4, StringAssumption, WidthAssumption
  <2>2. ((n + 1) * 2 + 3) % U32 = (n + 1) * 2 + 3
    BY <2>1, SmallMod
  <2>3. Text(n) = (((n + 1) * 2 + 3) \div 4) * 4
    BY <2>2 DEF Text, Aligned
  <2>4. n # MISSING
    BY <1>4, StringAssumption, WidthAssumption DEF MISSING
  <2> QED BY <2>3, <2>4
<1>5. MISSING \in Nat
  BY <1>1 DEF MISSING
<1> QED BY <1>1, <1>2, <1>3, <1>4, <1>5

\* The length of a string that is not there takes no text: its product wraps.
LEMMA MissingHasNoText == ((MISSING + 1) * 2) % U32 = 0
<1>1. MISSING + 1 = U32 /\ U32 \in Nat /\ U32 > 0
  BY WidthAssumption DEF MISSING
<1>2. (U32 * 2) % U32 = 0
  BY <1>1
<1> QED BY <1>1, <1>2

LEMMA ExtentValue ==
    ASSUME NEW c \in Chunks
    PROVE  /\ c.kind = "word" => Extent(c) = 4
           /\ c.kind = "text" => Extent(c) = (c.val + 1) * 2
           /\ c.kind \in Objects => Extent(c) = OBJ
           /\ Extent(c) \in Nat /\ Extent(c) > 0
           /\ c.at \in Nat /\ c.val \in Nat
<1>1. c.kind = "word" => Extent(c) = 4
  BY DEF Extent
<1>2. c.kind = "text" => Extent(c) = (c.val + 1) * 2
  BY DEF Extent
<1>3. c.kind \in Objects => Extent(c) = OBJ
  BY DEF Extent, Objects
<1>4. c.at \in Nat /\ c.val \in Nat /\ (c.kind \in {"word", "text"} \/ c.kind \in Objects)
  BY DEF Chunks, Objects
<1> QED BY <1>1, <1>2, <1>3, <1>4, AlignedSizes

\* Two chunks that begin at one place are one.
LEMMA OneChunk ==
    ASSUME BType, BMemory, NEW c \in mem, NEW d \in mem, c.at = d.at
    PROVE  c = d
<1>1. /\ Extent(c) \in Nat /\ Extent(c) > 0 /\ c.at \in Nat
      /\ Extent(d) \in Nat /\ Extent(d) > 0
  BY ExtentValue DEF BType
<1> QED BY <1>1 DEF BMemory

-----------------------------------------------------------------------------
(* The layout of a message *)

Has(p, i, kind, val) == [at |-> p, item |-> i, kind |-> kind, val |-> val] \in mem
Offered(p) == \E j \in 1 .. Len(bio.offs) : bio.offs[j] = p
IsRef(item) == item.kind \in {"obj", "ref"}
PutAs(item) == IF item.kind = "ref" THEN "handle" ELSE "binder"

\* Item i is in the buffer from p to q; a null reference is there without an
\* offset.
Whole(i, p, q) ==
    \/ sent[i].kind = "uint32" /\ q = p + 4 /\ Has(p, i, "word", sent[i].val)
    \/ /\ sent[i].kind = "string16" /\ sent[i].val = MISSING
       /\ q = p + 4 /\ Has(p, i, "word", MISSING)
    \/ /\ sent[i].kind = "string16" /\ sent[i].val # MISSING
       /\ q = p + 4 + Text(sent[i].val) /\ Has(p, i, "word", sent[i].val)
    \/ /\ IsRef(sent[i]) /\ ~NullRef(sent[i]) /\ q = p + OBJ /\ Offered(p)
       /\ Has(p, i, PutAs(sent[i]), sent[i].val)
    \/ NullRef(sent[i]) /\ q = p + OBJ /\ ~Offered(p)

\* Item i did not fit, or only its length did, or its offset did not.
Damaged(i, p, q) ==
    \/ ~IsRef(sent[i]) /\ q = p /\ p + 4 > Top
    \/ /\ sent[i].kind = "string16" /\ sent[i].val # MISSING /\ q = p + 4
       /\ Has(p, i, "word", sent[i].val) /\ p + 4 + Text(sent[i].val) > Top
    \/ IsRef(sent[i]) /\ q = p + OBJ /\ ~Offered(p) /\ ~NullRef(sent[i])
    \/ IsRef(sent[i]) /\ q = p /\ p + OBJ > Top

\* f[i] is where item i was to go.
Layout(f) ==
    /\ f \in [1 .. Len(sent) + 1 -> Nat]
    /\ f[1] = 0 /\ f[Len(sent) + 1] = bio.data
    /\ \A i \in 1 .. Len(sent) + 1 : f[i] <= bio.data
    /\ \A i \in 1 .. Len(sent) :
          \/ Whole(i, f[i], f[i + 1])
          \/ Damaged(i, f[i], f[i + 1]) /\ bio.overflow
    /\ bio.overflow /\ size.offs * 4 <= size.data =>
          \E i \in 1 .. Len(sent) : Damaged(i, f[i], f[i + 1])

\* The items that are got as they were put.
Good(i, f) == Whole(i, f[i], f[i + 1]) /\ ~NullRef(sent[i])

\* The receiver is where the next item was to go, and has all before it ...
InSync(f) ==
    /\ rbio.data = f[Len(got) + 1]
    /\ rbio.data_avail = bio.data - rbio.data
    /\ \A i \in 1 .. Len(got) : Good(i, f)
\* ... or has nothing left and knows.
Dead(f) ==
    /\ rbio.data_avail = 0 /\ rbio.overflow
    /\ \E i \in 1 .. Len(got) : Damaged(i, f[i], f[i + 1]) \/ NullRef(sent[i])

Reading(f) ==
    phase = "read" =>
        /\ rbio.offs = bio.offs /\ rbio.offs_avail = Len(bio.offs)
        /\ size.offs * 4 <= size.data
        /\ InSync(f) \/ Dead(f)
        /\ \A i \in 1 .. Len(got) : (\A j \in 1 .. i : Good(j, f)) =>
              got[i].ok /\ got[i].val = Received(sent[i])

\* The inductive invariant.
BInv ==
    /\ BType /\ BMemory
    /\ phase # "read" => got = <<>>
    /\ phase = "init" => sent = <<>> /\ bio = Empty /\ mem = {}
    /\ NeverShifted
    /\ \E f : Layout(f) /\ Reading(f)

\* An item is whole or damaged.
LEMMA NotBoth ==
    ASSUME BType, NEW i \in 1 .. Len(sent), NEW p \in Nat, NEW q \in Nat,
           Whole(i, p, q), Damaged(i, p, q)
    PROVE  FALSE
<1>1. sent[i] \in Items
  BY DEF BType
<1>2. sent[i].kind = "string16" /\ sent[i].val # MISSING =>
         Text(sent[i].val) \in Nat /\ Text(sent[i].val) >= 4
  BY <1>1, AlignedSizes DEF BType, Items
<1> HIDE DEF Text
<1> QED BY <1>1, <1>2, AlignedSizes
        DEF Whole, Damaged, IsRef, NullRef, Items, Kinds

-----------------------------------------------------------------------------
(* The sender *)

\* What bio_alloc makes of b, for a size n that is aligned to a.
Allocated(b, n, a, r) ==
    /\ r \in Bio /\ r.data + r.data_avail = b.data + b.data_avail
    /\ r.offs = b.offs /\ r.offs_avail = b.offs_avail
    /\ HasRoom(b, n) <=> a <= b.data_avail
    /\ a <= b.data_avail => r.data = b.data + a /\ r.overflow = b.overflow
    /\ ~(a <= b.data_avail) => r.data = b.data /\ r.overflow = TRUE

LEMMA AllocValue ==
    ASSUME NEW b \in Bio, NEW n, NEW a \in Nat, Aligned(n) = a
    PROVE  Allocated(b, n, a, bio_alloc(b, n))
<1> USE DEF Allocated
<1>1. HasRoom(b, n) <=> a <= b.data_avail
  BY DEF HasRoom
<1>2. CASE a <= b.data_avail
  <2>1. bio_alloc(b, n) = [b EXCEPT !.data = @ + a, !.data_avail = @ - a]
    BY <1>1, <1>2 DEF bio_alloc
  <2>2. b.data + a \in Nat /\ b.data_avail - a \in Nat
    BY <1>2 DEF Bio
  <2>3. /\ bio_alloc(b, n) \in Bio
        /\ bio_alloc(b, n).data = b.data + a /\ bio_alloc(b, n).data_avail = b.data_avail - a
        /\ bio_alloc(b, n).offs = b.offs /\ bio_alloc(b, n).offs_avail = b.offs_avail
        /\ bio_alloc(b, n).overflow = b.overflow
    BY <2>1, <2>2 DEF Bio
  <2>4. (b.data + a) + (b.data_avail - a) = b.data + b.data_avail
    BY DEF Bio
  <2> QED BY <1>1, <1>2, <2>3, <2>4
<1>3. CASE ~(a <= b.data_avail)
  <2>1. bio_alloc(b, n) = [b EXCEPT !.overflow = TRUE]
    BY <1>1, <1>3 DEF bio_alloc
  <2> QED BY <1>1, <1>3, <2>1 DEF Bio
<1> QED BY <1>2, <1>3

LEMMA AllocObjValue ==
    ASSUME NEW b \in Bio
    PROVE  /\ bio_alloc_obj(b) \in Bio
           /\ bio_alloc_obj(b).data + bio_alloc_obj(b).data_avail = b.data + b.data_avail
           /\ OBJ <= b.data_avail => bio_alloc_obj(b).data = b.data + OBJ
           /\ ~(OBJ <= b.data_avail) => bio_alloc_obj(b).data = b.data
           /\ HasObject(b) <=> OBJ <= b.data_avail /\ b.offs_avail > 0
           /\ HasObject(b) => /\ bio_alloc_obj(b).offs = Append(b.offs, b.data)
                              /\ bio_alloc_obj(b).offs_avail = b.offs_avail - 1
                              /\ bio_alloc_obj(b).overflow = b.overflow
           /\ ~HasObject(b) => /\ bio_alloc_obj(b).offs = b.offs
                               /\ bio_alloc_obj(b).offs_avail = b.offs_avail
                               /\ bio_alloc_obj(b).overflow = TRUE
<1> DEFINE a == bio_alloc(b, OBJ)
<1>1. /\ a \in Bio /\ a.data + a.data_avail = b.data + b.data_avail
      /\ a.offs = b.offs /\ a.offs_avail = b.offs_avail
      /\ HasRoom(b, OBJ) <=> OBJ <= b.data_avail
      /\ OBJ <= b.data_avail => a.data = b.data + OBJ /\ a.overflow = b.overflow
      /\ ~(OBJ <= b.data_avail) => a.data = b.data
  <2>1. Allocated(b, OBJ, OBJ, a)
    BY AllocValue, AlignedSizes
  <2> QED BY <2>1 DEF Allocated
<1>2. bio_alloc_obj(b) = IF HasObject(b)
        THEN [a EXCEPT !.offs = Append(@, b.data), !.offs_avail = @ - 1]
        ELSE [a EXCEPT !.overflow = TRUE]
  BY DEF bio_alloc_obj
<1>3. HasObject(b) <=> OBJ <= b.data_avail /\ b.offs_avail > 0
  BY <1>1 DEF HasObject
<1> HIDE DEF a
<1>4. CASE HasObject(b)
  <2>1. bio_alloc_obj(b) = [a EXCEPT !.offs = Append(@, b.data), !.offs_avail = @ - 1]
    BY <1>2, <1>4
  <2>2. Append(a.offs, b.data) \in Seq(Nat) /\ a.offs_avail - 1 \in Nat
    BY <1>1, <1>3, <1>4 DEF Bio
  <2> QED BY <1>1, <1>3, <1>4, <2>1, <2>2 DEF Bio
<1>5. CASE ~HasObject(b)
  <2>1. bio_alloc_obj(b) = [a EXCEPT !.overflow = TRUE]
    BY <1>2, <1>5
  <2> QED BY <1>1, <1>3, <1>5, <2>1 DEF Bio
<1> QED BY <1>4, <1>5

\* Item k goes from p to q: its chunks N lie behind all others, what is offered
\* is one of them, and the item itself is whole or damaged.
Laid(k, p, q, N) ==
    /\ k = Len(sent) + 1 /\ p = bio.data /\ q = bio'.data /\ q >= p
    /\ bio' \in Bio /\ Top' = Top
    /\ N \in SUBSET Chunks /\ mem' = mem \cup N
    /\ \A c \in N : p <= c.at /\ c.at + Extent(c) <= q
    /\ \A c, d \in N : c = d \/ c.at + Extent(c) <= d.at \/ d.at + Extent(d) <= c.at
    /\ \/ bio'.offs = bio.offs /\ bio'.offs_avail = bio.offs_avail
       \/ /\ bio'.offs = Append(bio.offs, p)
          /\ bio.offs_avail > 0 /\ bio'.offs_avail = bio.offs_avail - 1
          /\ \E c \in N : c.at = p /\ c.kind \in Objects
    /\ \/ Whole(k, p, q)' /\ bio'.overflow = bio.overflow
       \/ Damaged(k, p, q)' /\ bio'.overflow = TRUE

\* Then all is as before.
LEMMA PutKeeps ==
    ASSUME BInv, NEW item \in Items, Put(item),
           item.kind = "string16" => item.val = MISSING \/ item.val < MAX_STRING,
           NEW k, NEW p, NEW q, NEW N, Laid(k, p, q, N)
    PROVE  BInv'
<1> USE DEF Laid
<1>1. /\ sent \in Seq(Items) /\ sent' = Append(sent, item) /\ sent' \in Seq(Items)
      /\ Len(sent) \in Nat /\ Len(sent') = Len(sent) + 1
      /\ \A i \in 1 .. Len(sent) : sent'[i] = sent[i]
      /\ sent'[Len(sent) + 1] = item
      /\ UNCHANGED <<phase, size, rbio, got>> /\ phase = "write" /\ got = <<>>
  BY DEF BInv, BType, Put
<1>2. bio \in Bio /\ p \in Nat /\ q \in Nat /\ mem \subseteq Chunks
  BY DEF BInv, BType, Bio
<1>3. BType'
  <2>1. Len(got') <= Len(sent') /\ got' \in Seq(Results)
    BY <1>1 DEF BInv, BType
  <2>2. \A i \in 1 .. Len(sent') : sent'[i].kind = "string16" =>
           sent'[i].val = MISSING \/ sent'[i].val < MAX_STRING
    <3> TAKE i \in 1 .. Len(sent')
    <3>1. CASE i \in 1 .. Len(sent)
      BY <1>1, <3>1 DEF BInv, BType
    <3>2. CASE i = Len(sent) + 1
      BY <1>1, <3>2
    <3> QED BY <1>1, <3>1, <3>2
  <2>3. mem' \subseteq Chunks
    BY <1>2
  <2>4. phase' = "write" /\ size' = size /\ rbio' = rbio
    BY <1>1
  <2> QED BY <1>1, <2>1, <2>2, <2>3, <2>4 DEF BInv, BType
<1>4. ASSUME NEW c \in mem'
      PROVE  c.at \in Nat /\ Extent(c) \in Nat /\ Extent(c) > 0
  BY <1>2, <1>4, ExtentValue
<1>5. /\ Len(bio.offs) \in Nat /\ bio.offs \in Seq(Nat)
      /\ \A j \in 1 .. Len(bio.offs) : bio'.offs[j] = bio.offs[j] /\ j \in 1 .. Len(bio'.offs)
      /\ \A j \in 1 .. Len(bio'.offs) : j \in 1 .. Len(bio.offs) \/ bio'.offs[j] = p
      /\ Len(bio'.offs) + bio'.offs_avail = Len(bio.offs) + bio.offs_avail
  <2>1. Len(bio.offs) \in Nat /\ bio.offs \in Seq(Nat) /\ bio.offs_avail \in Nat
    BY <1>2 DEF Bio
  <2>2. CASE bio'.offs = bio.offs /\ bio'.offs_avail = bio.offs_avail
    BY <2>1, <2>2
  <2>3. CASE bio'.offs = Append(bio.offs, p) /\ bio'.offs_avail = bio.offs_avail - 1
    <3>1. Len(bio'.offs) = Len(bio.offs) + 1
      BY <2>1, <2>3
    <3>2. \A j \in 1 .. Len(bio.offs) : bio'.offs[j] = bio.offs[j]
      BY <2>1, <2>3
    <3>3. bio'.offs[Len(bio.offs) + 1] = p
      BY <2>1, <2>3
    <3>4. \A j \in 1 .. Len(bio.offs) + 1 : j \in 1 .. Len(bio.offs) \/ j = Len(bio.offs) + 1
      BY <2>1
    <3>5. \A j \in 1 .. Len(bio'.offs) : j \in 1 .. Len(bio.offs) \/ bio'.offs[j] = p
      BY <3>1, <3>3, <3>4
    <3>6. \A j \in 1 .. Len(bio.offs) : j \in 1 .. Len(bio'.offs)
      BY <2>1, <3>1
    <3>7. Len(bio'.offs) + bio'.offs_avail = Len(bio.offs) + bio.offs_avail
      <4>1. \A m, a \in Nat : (m + 1) + (a - 1) = m + a
        OBVIOUS
      <4>2. (Len(bio.offs) + 1) + (bio.offs_avail - 1) = Len(bio.offs) + bio.offs_avail
        BY ONLY <2>1, <4>1
      <4> QED BY ONLY <4>2, <3>1, <2>3
    <3> QED BY <2>1, <3>2, <3>5, <3>6, <3>7
  <2> QED BY <2>2, <2>3
<1>6. BMemory'
  <2>1. \A c \in mem' : c.at + Extent(c) <= bio'.data
    <3> TAKE c \in mem'
    <3>1. c \in mem => c.at + Extent(c) <= p
      BY DEF BInv, BMemory
    <3> QED BY <1>2, <1>4, <3>1
  <2>2. \A c, d \in mem' : c = d \/ c.at + Extent(c) <= d.at \/ d.at + Extent(d) <= c.at
    <3> TAKE c, d \in mem'
    <3>1. CASE c \in mem /\ d \in mem
      BY <3>1 DEF BInv, BMemory
    <3>2. CASE c \in mem /\ d \in N
      <4>1. c.at + Extent(c) <= p /\ p <= d.at
        BY <3>2 DEF BInv, BMemory
      <4> QED BY <4>1, <1>2, <1>4
    <3>3. CASE c \in N /\ d \in mem
      <4>1. d.at + Extent(d) <= p /\ p <= c.at
        BY <3>3 DEF BInv, BMemory
      <4> QED BY <4>1, <1>2, <1>4
    <3>4. CASE c \in N /\ d \in N
      BY <3>4
    <3> QED BY <3>1, <3>2, <3>3, <3>4
  <2>3. size'.offs * 4 <= size'.data =>
          Top' = size'.data - size'.offs * 4 /\ Len(bio'.offs) + bio'.offs_avail = size'.offs
    BY <1>1, <1>5 DEF BInv, BMemory
  <2>4. \A j \in 1 .. Len(bio'.offs) :
          \E c \in mem' : c.at = bio'.offs[j] /\ c.kind \in Objects
    <3> TAKE j \in 1 .. Len(bio'.offs)
    <3>1. CASE j \in 1 .. Len(bio.offs)
      BY <3>1, <1>5 DEF BInv, BMemory
    <3>2. CASE ~(j \in 1 .. Len(bio.offs))
      <4>1. bio'.offs[j] = p
        BY <1>5, <3>2
      <4>2. \E c \in N : c.at = p /\ c.kind \in Objects
        BY <3>2
      <4> QED BY <4>1, <4>2
    <3> QED BY <3>1, <3>2
  <2>5. phase' # "read" /\ (size'.offs * 4 > size'.data => bio'.overflow)
    BY <1>1 DEF BInv, BMemory
  <2> QED BY <2>1, <2>2, <2>3, <2>4, <2>5 DEF BMemory
<1>7. PICK f : Layout(f)
  BY DEF BInv
<1>8. PICK g : g = [i \in 1 .. Len(sent) + 2 |-> IF i <= Len(sent) + 1 THEN f[i] ELSE q]
  OBVIOUS
<1>9. /\ g \in [1 .. Len(sent) + 2 -> Nat]
      /\ \A i \in 1 .. Len(sent) + 1 : g[i] = f[i] /\ f[i] \in Nat /\ f[i] <= p
      /\ g[1] = 0 /\ g[Len(sent) + 1] = p /\ g[Len(sent) + 2] = q
  <2>1. p = bio.data
    OBVIOUS
  <2> HIDE DEF Laid
  <2>2. /\ f \in [1 .. Len(sent) + 1 -> Nat] /\ f[1] = 0 /\ f[Len(sent) + 1] = p
        /\ \A i \in 1 .. Len(sent) + 1 : f[i] <= p
    BY <1>7, <2>1 DEF Layout
  <2>3. Len(sent) \in Nat
    BY <1>1
  <2>4. /\ DOMAIN g = 1 .. Len(sent) + 2
        /\ \A i \in 1 .. Len(sent) + 2 : g[i] = IF i <= Len(sent) + 1 THEN f[i] ELSE q
    BY ONLY <1>8
  <2>5. \A i \in 1 .. Len(sent) + 1 : g[i] = f[i] /\ f[i] \in Nat /\ f[i] <= p
    BY ONLY <2>2, <2>3, <2>4
  <2>6. g[Len(sent) + 2] = q /\ 1 \in 1 .. Len(sent) + 1 /\ Len(sent) + 1 \in 1 .. Len(sent) + 1
    BY ONLY <2>3, <2>4
  <2>7. g \in [1 .. Len(sent) + 2 -> Nat]
    BY ONLY <1>2, <1>8, <2>2, <2>3
  <2> QED BY ONLY <2>2, <2>5, <2>6, <2>7
<1>11. ASSUME NEW i \in 1 .. Len(sent), NEW x \in Nat, NEW y \in Nat, y <= p
       PROVE  /\ Whole(i, x, y) => Whole(i, x, y)'
              /\ Damaged(i, x, y) => Damaged(i, x, y)'
  <2>1. \A kind, val : Has(x, i, kind, val) => Has(x, i, kind, val)'
    BY DEF Has
  <2>2. Offered(x) => Offered(x)'
    BY <1>5 DEF Offered
  <2>3. x + OBJ <= p /\ ~Offered(x) => ~Offered(x)'
    <3>1. x + OBJ <= p => x # p
      BY <1>2, AlignedSizes
    <3> QED BY <3>1, <1>5 DEF Offered
  <2>4. sent'[i] = sent[i] /\ Top' = Top
    BY <1>1
  <2>5. Whole(i, x, y) => Whole(i, x, y)'
    <3> SUFFICES ASSUME Whole(i, x, y) PROVE Whole(i, x, y)'
      OBVIOUS
    <3> HIDE DEF Text, IsRef, NullRef
    <3> QED BY <1>11, <2>1, <2>2, <2>3, <2>4 DEF Whole
  <2>6. Damaged(i, x, y) => Damaged(i, x, y)'
    <3> SUFFICES ASSUME Damaged(i, x, y) PROVE Damaged(i, x, y)'
      OBVIOUS
    <3> HIDE DEF Text, IsRef, NullRef
    <3> QED BY <1>11, <2>1, <2>2, <2>3, <2>4 DEF Damaged
  <2> QED BY <2>5, <2>6
<1>12. ASSUME NEW i \in 1 .. Len(sent)
       PROVE  /\ Whole(i, f[i], f[i + 1]) => Whole(i, g[i], g[i + 1])'
              /\ Damaged(i, f[i], f[i + 1]) => Damaged(i, g[i], g[i + 1])'
  <2>1. i \in 1 .. Len(sent) + 1 /\ i + 1 \in 1 .. Len(sent) + 1
    BY <1>1
  <2>2. PICK x \in Nat, y \in Nat : x = f[i] /\ y = f[i + 1] /\ x = g[i] /\ y = g[i + 1] /\ y <= p
    BY <2>1, <1>9
  <2>3. (Whole(i, x, y) => Whole(i, x, y)') /\ (Damaged(i, x, y) => Damaged(i, x, y)')
    BY <2>2, <1>11
  <2> QED BY <2>2, <2>3
<1>13. Layout(g)'
  <2>1. /\ g \in [1 .. Len(sent') + 1 -> Nat] /\ g[1] = 0 /\ g[Len(sent') + 1] = bio'.data
        /\ \A i \in 1 .. Len(sent') + 1 : g[i] <= bio'.data
    <3>1. Len(sent') + 1 = Len(sent) + 2
      BY <1>1
    <3>2. \A i \in 1 .. Len(sent) + 2 : i \in 1 .. Len(sent) + 1 \/ i = Len(sent) + 2
      BY <1>1
    <3>3. \A i \in 1 .. Len(sent) + 1 : g[i] <= q
      BY <1>9, <1>2
    <3> QED BY <1>9, <1>2, <3>1, <3>2, <3>3
  <2>2. PICK z : z = Len(sent) + 2
    OBVIOUS
  <2>3. k \in 1 .. Len(sent') /\ k + 1 = z /\ g[k] = p /\ g[k + 1] = q
    BY <1>1, <1>9, <2>2
  <2>4. \A i \in 1 .. Len(sent') :
          Whole(i, g[i], g[i + 1])' \/ (Damaged(i, g[i], g[i + 1])' /\ bio'.overflow)
    <3> TAKE i \in 1 .. Len(sent')
    <3>1. CASE i \in 1 .. Len(sent)
      <4>1. Whole(i, f[i], f[i + 1]) \/ (Damaged(i, f[i], f[i + 1]) /\ bio.overflow)
        BY <1>7, <3>1 DEF Layout
      <4> QED BY <4>1, <3>1, <1>12
    <3>2. CASE i = k
      BY <3>2, <2>3
    <3> QED BY <1>1, <3>1, <3>2
  <2>5. ASSUME bio'.overflow, size'.offs * 4 <= size'.data
        PROVE  \E i \in 1 .. Len(sent') : Damaged(i, g[i], g[i + 1])'
    <3>1. CASE Damaged(k, p, q)'
      <4>1. Damaged(k, g[k], g[k + 1])'
        BY <3>1, <2>3
      <4> QED BY <4>1, <2>3
    <3>2. CASE bio'.overflow = bio.overflow
      <4>1. PICK i \in 1 .. Len(sent) : Damaged(i, f[i], f[i + 1])
        BY <3>2, <2>5, <1>1, <1>7 DEF Layout
      <4>2. Damaged(i, g[i], g[i + 1])' /\ i \in 1 .. Len(sent')
        BY <4>1, <1>12, <1>1
      <4> QED BY <4>2
    <3> QED BY <3>1, <3>2
  <2> QED BY <2>1, <2>4, <2>5 DEF Layout
<1>14. Reading(g)' /\ NeverShifted' /\ got' = <<>> /\ phase' = "write"
  BY <1>1 DEF Reading, NeverShifted
<1> QED BY <1>3, <1>6, <1>13, <1>14 DEF BInv

\* The place and the number of the item that is put.
LEMMA PutFacts ==
    ASSUME BInv, NEW item \in Items, Put(item)
    PROVE  /\ bio \in Bio /\ bio.data \in Nat /\ bio.data_avail \in Nat
           /\ Len(sent) + 1 \in Nat /\ sent'[Len(sent) + 1] = item
           /\ item.kind \in Kinds /\ item.val \in Nat
           /\ bio.offs \in Seq(Nat) /\ bio.offs_avail \in Nat /\ bio.overflow \in BOOLEAN
  BY DEF BInv, BType, Bio, Put, Items

\* One word is put: a number, or the length of a string that is not there.
LEMMA PutWord ==
    ASSUME BInv, NEW item \in Items, Put(item),
           item.kind = "uint32" \/ (item.kind = "string16" /\ item.val = MISSING),
           bio' = bio_alloc(bio, 4),
           mem' = mem \cup Store(HasRoom(bio, 4), bio, "word", item.val)
    PROVE  BInv'
<1> PICK k, p, q : k = Len(sent) + 1 /\ p = bio.data /\ q = bio'.data
  OBVIOUS
<1>1. /\ bio \in Bio /\ p \in Nat /\ bio.data_avail \in Nat
      /\ k \in Nat /\ sent'[k] = item /\ item.val \in Nat
  BY PutFacts
<1>2. /\ bio' \in Bio /\ bio'.data + bio'.data_avail = bio.data + bio.data_avail
      /\ bio'.offs = bio.offs /\ bio'.offs_avail = bio.offs_avail
      /\ HasRoom(bio, 4) <=> 4 <= bio.data_avail
      /\ 4 <= bio.data_avail => q = p + 4 /\ bio'.overflow = bio.overflow
      /\ ~(4 <= bio.data_avail) => q = p /\ bio'.overflow = TRUE
  <2>1. Allocated(bio, 4, 4, bio')
    BY <1>1, AllocValue, AlignedSizes
  <2> QED BY <2>1 DEF Allocated
<1>3. Top' = Top /\ Top = p + bio.data_avail
  BY <1>2 DEF Top
<1>4. ~IsRef(item)
  BY DEF IsRef
<1> PICK w : w = [at |-> p, item |-> k, kind |-> "word", val |-> item.val]
  OBVIOUS
<1>5. w \in Chunks /\ w.at = p /\ Extent(w) = 4
  <2>1. w \in Chunks /\ w.kind = "word" /\ w.at = p
    BY <1>1 DEF Chunks
  <2> QED BY <2>1, ExtentValue
<1>6. CASE 4 <= bio.data_avail
  <2>1. mem' = mem \cup {w}
    BY <1>2, <1>6 DEF Store, Chunk
  <2>2. Whole(k, p, q)'
    <3>1. Has(p, k, "word", item.val)'
      BY <2>1 DEF Has
    <3> QED BY <3>1, <1>1, <1>2, <1>6 DEF Whole
  <2>3. /\ \A c \in {w} : p <= c.at /\ c.at + Extent(c) <= q
        /\ \A c, d \in {w} : c = d \/ c.at + Extent(c) <= d.at \/ d.at + Extent(d) <= c.at
        /\ {w} \in SUBSET Chunks
    BY <1>1, <1>2, <1>5, <1>6
  <2>4. q >= p /\ bio'.overflow = bio.overflow
    BY <1>1, <1>2, <1>6
  <2>8. Laid(k, p, q, {w})
    BY <1>2, <1>3, <2>1, <2>2, <2>3, <2>4 DEF Laid
  <2> QED BY <2>8, PutKeeps
<1>7. CASE ~(4 <= bio.data_avail)
  <2>1. mem' = mem \cup {}
    BY <1>2, <1>7 DEF Store
  <2>2. p + 4 > Top'
    BY <1>1, <1>3, <1>7
  <2>3. Damaged(k, p, q)'
    BY <2>2, <1>1, <1>2, <1>4, <1>7 DEF Damaged
  <2>4. q >= p /\ bio'.overflow = TRUE /\ {} \in SUBSET Chunks
    BY <1>1, <1>2, <1>7
  <2>8. Laid(k, p, q, {})
    BY <1>2, <1>3, <2>1, <2>3, <2>4 DEF Laid
  <2> QED BY <2>8, PutKeeps
<1> QED BY <1>6, <1>7

\* A string is put: its length and its text, or only its length, or neither.
LEMMA PutTextKeeps ==
    ASSUME BInv, NEW n \in Lengths \cup {MISSING}, PutText(n)
    PROVE  BInv'
<1> PICK item : item = [kind |-> "string16", val |-> n]
  OBVIOUS
<1> PICK k, p, q, b : k = Len(sent) + 1 /\ p = bio.data /\ q = bio'.data /\ b = bio_alloc(bio, 4)
  OBVIOUS
<1>0. n \in Nat /\ n < MAX_STRING /\ item \in Items /\ Put(item)
  <2>1. n \in Nat
    BY StringAssumption, AlignedSizes
  <2> QED BY <2>1 DEF PutText, Items, Kinds
<1> PICK t : t = Text(n)
  OBVIOUS
<1>1. t \in Nat /\ t >= 4 /\ t >= (n + 1) * 2 /\ n # MISSING /\ t = Aligned((n + 1) * 2)
  BY <1>0, AlignedSizes DEF Text
<1>2. /\ bio \in Bio /\ p \in Nat /\ bio.data_avail \in Nat
      /\ k \in Nat /\ sent'[k] = item /\ item.val = n /\ item.kind = "string16"
  BY <1>0, PutFacts
<1>3. /\ b \in Bio /\ b.data + b.data_avail = p + bio.data_avail
      /\ b.offs = bio.offs /\ b.offs_avail = bio.offs_avail
      /\ HasRoom(bio, 4) <=> 4 <= bio.data_avail
      /\ 4 <= bio.data_avail => b.data = p + 4 /\ b.overflow = bio.overflow
      /\ ~(4 <= bio.data_avail) => b.data = p /\ b.overflow = TRUE
  <2>1. Allocated(bio, 4, 4, b)
    BY <1>2, AllocValue, AlignedSizes
  <2> QED BY <2>1 DEF Allocated
<1>4. b.data \in Nat /\ b.data_avail \in Nat
  BY <1>3 DEF Bio
<1>5. bio' = bio_alloc(b, (n + 1) * 2)
  BY DEF PutText
<1>6. /\ bio' \in Bio /\ bio'.data + bio'.data_avail = b.data + b.data_avail
      /\ bio'.offs = b.offs /\ bio'.offs_avail = b.offs_avail
      /\ HasRoom(b, (n + 1) * 2) <=> t <= b.data_avail
      /\ t <= b.data_avail => q = b.data + t /\ bio'.overflow = b.overflow
      /\ ~(t <= b.data_avail) => q = b.data /\ bio'.overflow = TRUE
  <2>1. Allocated(b, (n + 1) * 2, t, bio')
    BY <1>1, <1>3, <1>5, AllocValue
  <2> QED BY <2>1 DEF Allocated
<1>7. Top' = Top /\ Top = p + bio.data_avail
  BY <1>3, <1>6 DEF Top
<1>8. bio'.offs = bio.offs /\ bio'.offs_avail = bio.offs_avail
  BY <1>3, <1>6
<1>9. ~IsRef(item)
  BY <1>2 DEF IsRef
<1> PICK w, x : /\ w = [at |-> p, item |-> k, kind |-> "word", val |-> n]
                /\ x = [at |-> p + 4, item |-> k, kind |-> "text", val |-> n]
  OBVIOUS
<1>10. /\ w \in Chunks /\ w.at = p /\ Extent(w) = 4
       /\ x \in Chunks /\ x.at = p + 4 /\ Extent(x) = (n + 1) * 2
  <2>1. /\ w \in Chunks /\ w.kind = "word" /\ w.at = p
        /\ x \in Chunks /\ x.kind = "text" /\ x.at = p + 4 /\ x.val = n
    BY <1>0, <1>2 DEF Chunks
  <2> QED BY <2>1, ExtentValue
<1>11. mem' = mem \cup Store(HasRoom(bio, 4), bio, "word", n)
                  \cup Store(HasRoom(b, (n + 1) * 2), b, "text", n)
  BY DEF PutText
<1>12. 4 <= bio.data_avail => Has(p, k, "word", n)'
  BY <1>3, <1>11 DEF Has, Store, Chunk
<1>13. CASE 4 <= bio.data_avail /\ t <= b.data_avail
  <2>1. mem' = mem \cup {w, x}
    BY <1>3, <1>6, <1>11, <1>13 DEF Store, Chunk
  <2>2. q = p + 4 + t
    BY <1>1, <1>2, <1>3, <1>6, <1>13
  <2>3. Whole(k, p, q)'
    BY <2>2, <1>1, <1>2, <1>12, <1>13 DEF Whole
  <2>4. \A c \in {w, x} : p <= c.at /\ c.at + Extent(c) <= q
    BY <1>0, <1>1, <1>2, <1>10, <2>2
  <2>5. w.at + Extent(w) <= x.at /\ {w, x} \in SUBSET Chunks
    BY <1>2, <1>10
  <2>6. \A c, d \in {w, x} : c = d \/ c.at + Extent(c) <= d.at \/ d.at + Extent(d) <= c.at
    BY <2>5
  <2>7. q >= p /\ bio'.overflow = bio.overflow
    BY <1>1, <1>2, <1>3, <1>6, <1>13, <2>2
  <2>8. Laid(k, p, q, {w, x})
    BY <1>0, <1>2, <1>6, <1>7, <1>8, <2>1, <2>3, <2>4, <2>5, <2>6, <2>7 DEF Laid
  <2> QED BY <1>0, <2>8, PutKeeps
<1>14. CASE 4 <= bio.data_avail /\ ~(t <= b.data_avail)
  <2>1. mem' = mem \cup {w}
    BY <1>3, <1>6, <1>11, <1>14 DEF Store, Chunk
  <2>2. q = p + 4 /\ bio'.overflow = TRUE
    BY <1>2, <1>3, <1>6, <1>14
  <2>3. p + 4 + t > Top'
    BY <1>1, <1>2, <1>3, <1>4, <1>7, <1>14
  <2>4. Damaged(k, p, q)'
    BY <2>2, <2>3, <1>1, <1>2, <1>12, <1>14 DEF Damaged
  <2>5. /\ \A c \in {w} : p <= c.at /\ c.at + Extent(c) <= q
        /\ \A c, d \in {w} : c = d \/ c.at + Extent(c) <= d.at \/ d.at + Extent(d) <= c.at
        /\ {w} \in SUBSET Chunks /\ q >= p
    BY <1>2, <1>10, <2>2
  <2>8. Laid(k, p, q, {w})
    BY <1>0, <1>2, <1>6, <1>7, <1>8, <2>1, <2>2, <2>4, <2>5 DEF Laid
  <2> QED BY <1>0, <2>8, PutKeeps
<1>15. CASE ~(4 <= bio.data_avail)
  <2>1. ~(t <= b.data_avail)
    BY <1>1, <1>2, <1>3, <1>4, <1>15
  <2>2. mem' = mem \cup {} /\ q = p /\ bio'.overflow = TRUE
    BY <1>3, <1>6, <1>11, <1>15, <2>1 DEF Store
  <2>3. p + 4 > Top'
    BY <1>2, <1>7, <1>15
  <2>4. Damaged(k, p, q)'
    BY <2>2, <2>3, <1>2, <1>9 DEF Damaged
  <2>5. q >= p /\ {} \in SUBSET Chunks
    BY <1>2, <2>2
  <2>8. Laid(k, p, q, {})
    BY <1>0, <1>2, <1>6, <1>7, <1>8, <2>2, <2>4, <2>5 DEF Laid
  <2> QED BY <1>0, <2>8, PutKeeps
<1> QED BY <1>13, <1>14, <1>15

\* An object, or a reference that is not null, is put: with its memory and its
\* entry, or with its memory alone, or with neither.
LEMMA PutObject ==
    ASSUME BInv, NEW item \in Items, Put(item), IsRef(item), ~NullRef(item),
           NEW kind \in Objects, kind = PutAs(item), bio' = bio_alloc_obj(bio),
           mem' = mem \cup Store(HasObject(bio), bio, kind, item.val)
    PROVE  BInv'
<1> PICK k, p, q : k = Len(sent) + 1 /\ p = bio.data /\ q = bio'.data
  OBVIOUS
<1>1. /\ bio \in Bio /\ p \in Nat /\ bio.data_avail \in Nat
      /\ k \in Nat /\ sent'[k] = item /\ item.val \in Nat
      /\ bio.offs \in Seq(Nat) /\ Len(bio.offs) \in Nat
  BY PutFacts
<1>2. /\ bio' \in Bio /\ bio'.data + bio'.data_avail = bio.data + bio.data_avail
      /\ OBJ <= bio.data_avail => q = p + OBJ
      /\ ~(OBJ <= bio.data_avail) => q = p
      /\ HasObject(bio) <=> OBJ <= bio.data_avail /\ bio.offs_avail > 0
      /\ HasObject(bio) => /\ bio'.offs = Append(bio.offs, p)
                           /\ bio'.offs_avail = bio.offs_avail - 1
                           /\ bio'.overflow = bio.overflow
      /\ ~HasObject(bio) => /\ bio'.offs = bio.offs
                            /\ bio'.offs_avail = bio.offs_avail
                            /\ bio'.overflow = TRUE
  BY <1>1, AllocObjValue
<1>3. Top' = Top /\ Top = p + bio.data_avail
  BY <1>2 DEF Top
<1>4. item.kind # "string16" /\ OBJ \in Nat
  BY AlignedSizes DEF IsRef
<1>5. CASE HasObject(bio)
  <2> PICK w : w = [at |-> p, item |-> k, kind |-> kind, val |-> item.val]
    OBVIOUS
  <2>1. w \in Chunks /\ w.at = p /\ w.kind \in Objects
    BY <1>1 DEF Chunks, Objects
  <2>2. Extent(w) = OBJ
    BY <2>1, ExtentValue
  <2>3. mem' = mem \cup {w} /\ Has(p, k, kind, item.val)'
    BY <1>5 DEF Store, Chunk, Has
  <2>4. q = p + OBJ
    BY <1>2, <1>5
  <2>5. Offered(p)'
    <3>1. /\ Len(bio'.offs) = Len(bio.offs) + 1
          /\ bio'.offs[Len(bio.offs) + 1] = p
      BY <1>1, <1>2, <1>5
    <3>2. Len(bio.offs) + 1 \in 1 .. Len(bio'.offs)
      BY <1>1, <3>1
    <3> QED BY <3>1, <3>2 DEF Offered
  <2>6. Whole(k, p, q)'
    BY <1>1, <2>3, <2>4, <2>5 DEF Whole
  <2>7. /\ \A c \in {w} : p <= c.at /\ c.at + Extent(c) <= q
        /\ \A c, d \in {w} : c = d \/ c.at + Extent(c) <= d.at \/ d.at + Extent(d) <= c.at
        /\ {w} \in SUBSET Chunks /\ q >= p /\ \E c \in {w} : c.at = p /\ c.kind \in Objects
    BY <1>1, <1>4, <2>1, <2>2, <2>4
  <2>8. Laid(k, p, q, {w})
    BY <1>2, <1>3, <1>5, <2>3, <2>6, <2>7 DEF Laid
  <2> QED BY <1>4, <2>8, PutKeeps
<1>6. CASE ~HasObject(bio)
  <2>1. mem' = mem \cup {}
    BY <1>6 DEF Store
  <2>2. Damaged(k, p, q)'
    <3>1. CASE ~(OBJ <= bio.data_avail)
      <4>1. q = p /\ p + OBJ > Top'
        BY <1>1, <1>2, <1>3, <1>4, <3>1
      <4> QED BY <4>1, <1>1 DEF Damaged
    <3>2. CASE OBJ <= bio.data_avail
      <4>1. ~Offered(p)
        <5> SUFFICES ASSUME Offered(p) PROVE FALSE
          OBVIOUS
        <5>1. PICK c \in mem : c.at = p
          BY DEF Offered, BInv, BMemory
        <5>2. c.at + Extent(c) <= p /\ Extent(c) \in Nat /\ Extent(c) > 0
          BY <5>1, ExtentValue DEF BInv, BMemory, BType
        <5> QED BY <1>1, <5>1, <5>2
      <4>2. ~Offered(p)'
        BY <4>1, <1>2, <1>6 DEF Offered
      <4>3. q = p + OBJ
        BY <1>2, <3>2
      <4> QED BY <4>2, <4>3, <1>1 DEF Damaged
    <3> QED BY <3>1, <3>2
  <2>3. q >= p /\ {} \in SUBSET Chunks
    BY <1>1, <1>2, <1>4
  <2>8. Laid(k, p, q, {})
    BY <1>2, <1>3, <1>6, <2>1, <2>2, <2>3 DEF Laid
  <2> QED BY <1>4, <2>8, PutKeeps
<1> QED BY <1>5, <1>6

\* A null reference is put: with its memory or without.
LEMMA PutNull ==
    ASSUME BInv, NEW item \in Items, Put(item), NullRef(item),
           bio' = bio_alloc(bio, OBJ),
           mem' = mem \cup Store(HasRoom(bio, OBJ), bio, "handle", item.val)
    PROVE  BInv'
<1> PICK k, p, q : k = Len(sent) + 1 /\ p = bio.data /\ q = bio'.data
  OBVIOUS
<1>1. /\ bio \in Bio /\ p \in Nat /\ bio.data_avail \in Nat
      /\ k \in Nat /\ sent'[k] = item /\ item.val \in Nat
  BY PutFacts
<1>2. /\ bio' \in Bio /\ bio'.data + bio'.data_avail = bio.data + bio.data_avail
      /\ bio'.offs = bio.offs /\ bio'.offs_avail = bio.offs_avail
      /\ HasRoom(bio, OBJ) <=> OBJ <= bio.data_avail
      /\ OBJ <= bio.data_avail => q = p + OBJ /\ bio'.overflow = bio.overflow
      /\ ~(OBJ <= bio.data_avail) => q = p /\ bio'.overflow = TRUE
  <2>1. Allocated(bio, OBJ, OBJ, bio')
    BY <1>1, AllocValue, AlignedSizes
  <2> QED BY <2>1 DEF Allocated
<1>3. Top' = Top /\ Top = p + bio.data_avail
  BY <1>2 DEF Top
<1>4. item.kind = "ref" /\ IsRef(item) /\ OBJ \in Nat
  BY AlignedSizes DEF IsRef, NullRef
<1>5. CASE OBJ <= bio.data_avail
  <2> PICK w : w = [at |-> p, item |-> k, kind |-> "handle", val |-> item.val]
    OBVIOUS
  <2>1. w \in Chunks /\ w.at = p /\ w.kind \in Objects
    BY <1>1 DEF Chunks, Objects
  <2>2. Extent(w) = OBJ
    BY <2>1, ExtentValue
  <2>3. mem' = mem \cup {w}
    BY <1>2, <1>5 DEF Store, Chunk
  <2>4. q = p + OBJ
    BY <1>2, <1>5
  <2>5. ~Offered(p)'
    <3> SUFFICES ASSUME Offered(p) PROVE FALSE
      BY <1>2 DEF Offered
    <3>1. PICK c \in mem : c.at = p
      BY DEF Offered, BInv, BMemory
    <3>2. c.at + Extent(c) <= p /\ Extent(c) \in Nat /\ Extent(c) > 0
      BY <3>1, ExtentValue DEF BInv, BMemory, BType
    <3> QED BY <1>1, <3>1, <3>2
  <2>6. Whole(k, p, q)'
    BY <1>1, <2>4, <2>5 DEF Whole
  <2>7. /\ \A c \in {w} : p <= c.at /\ c.at + Extent(c) <= q
        /\ \A c, d \in {w} : c = d \/ c.at + Extent(c) <= d.at \/ d.at + Extent(d) <= c.at
        /\ {w} \in SUBSET Chunks /\ q >= p
    BY <1>1, <1>4, <2>1, <2>2, <2>4
  <2>8. Laid(k, p, q, {w})
    BY <1>2, <1>3, <1>5, <2>3, <2>6, <2>7 DEF Laid
  <2> QED BY <1>4, <2>8, PutKeeps
<1>6. CASE ~(OBJ <= bio.data_avail)
  <2>1. mem' = mem \cup {}
    BY <1>2, <1>6 DEF Store
  <2>2. q = p /\ p + OBJ > Top'
    BY <1>1, <1>2, <1>3, <1>4, <1>6
  <2>3. Damaged(k, p, q)'
    BY <2>2, <1>1, <1>4 DEF Damaged
  <2>4. q >= p /\ {} \in SUBSET Chunks
    BY <1>1, <2>2
  <2>8. Laid(k, p, q, {})
    BY <1>2, <1>3, <1>6, <2>1, <2>3, <2>4 DEF Laid
  <2> QED BY <1>4, <2>8, PutKeeps
<1> QED BY <1>5, <1>6

LEMMA InitLayout == Init => BInv
<1> SUFFICES ASSUME Init PROVE BInv
  OBVIOUS
<1>1. Empty \in Bio /\ Empty.data = 0 /\ Empty.data_avail = 0 /\ Empty.offs = <<>>
      /\ Empty.offs_avail = 0 /\ Empty.overflow = FALSE
  BY DEF Empty, Bio
<1>2. BType
  BY <1>1 DEF Init, BType
<1>3. BMemory
  BY <1>1 DEF Init, BMemory, Top
<1>4. PICK f : f = [i \in 1 .. 1 |-> 0]
  OBVIOUS
<1>5. Layout(f)
  <2>1. Len(sent) = 0 /\ bio.data = 0 /\ bio.overflow = FALSE
    BY <1>1 DEF Init
  <2>2. f \in [1 .. Len(sent) + 1 -> Nat] /\ f[1] = 0
    BY <1>4, <2>1
  <2> QED BY <2>1, <2>2 DEF Layout
<1>6. Reading(f) /\ NeverShifted
  BY DEF Init, Reading, NeverShifted
<1> QED BY <1>2, <1>3, <1>5, <1>6 DEF BInv, Init

\* A buffer that is refused has overflowed; in one that is not nothing is used.
LEMMA BioInitKeeps == ASSUME BInv, bio_init PROVE BInv'
<1>1. PICK maxdata \in MaxData, maxoffs \in MaxOffs :
          /\ size' = [data |-> maxdata, offs |-> maxoffs]
          /\ bio' = IF maxoffs * 4 > maxdata THEN [Empty EXCEPT !.overflow = TRUE]
                    ELSE [Empty EXCEPT !.data_avail = maxdata - maxoffs * 4,
                                       !.offs_avail = maxoffs]
  BY DEF bio_init
<1>2. maxdata \in Nat /\ maxoffs \in Nat
  BY BuffersAssumption, WidthAssumption
<1>3. /\ phase = "init" /\ phase' = "write" /\ sent = <<>> /\ mem = {} /\ got = <<>>
      /\ UNCHANGED <<mem, sent, rbio, got>>
  BY DEF bio_init, BInv
<1>4. /\ bio' \in Bio /\ bio'.data = 0 /\ bio'.offs = <<>>
      /\ maxoffs * 4 > maxdata => bio'.overflow = TRUE /\ bio'.data_avail = 0
      /\ ~(maxoffs * 4 > maxdata) => /\ bio'.overflow = FALSE
                                     /\ bio'.data_avail = maxdata - maxoffs * 4
                                     /\ bio'.offs_avail = maxoffs
  <2>1. CASE maxoffs * 4 > maxdata
    <3>1. bio' = [data |-> 0, offs |-> <<>>, data_avail |-> 0, offs_avail |-> 0,
                  overflow |-> TRUE]
      BY <1>1, <2>1 DEF Empty
    <3>2. bio' \in Bio
      BY <3>1 DEF Bio
    <3> QED BY <3>1, <3>2, <2>1
  <2>2. CASE ~(maxoffs * 4 > maxdata)
    <3>1. maxdata - maxoffs * 4 \in Nat
      BY <1>2, <2>2
    <3>2. bio' = [data |-> 0, offs |-> <<>>, data_avail |-> maxdata - maxoffs * 4,
                  offs_avail |-> maxoffs, overflow |-> FALSE]
      BY <1>1, <2>2 DEF Empty
    <3>3. bio' \in Bio
      BY <1>2, <3>1, <3>2 DEF Bio
    <3> QED BY <3>2, <3>3, <2>2
  <2> QED BY <2>1, <2>2
<1>5. /\ size' \in [data : Nat, offs : Nat] /\ size'.data = maxdata /\ size'.offs = maxoffs
  BY <1>1, <1>2
<1>6. BType'
  <2>1. sent' = <<>> /\ got' = <<>>
    BY <1>3
  <2> QED BY <1>3, <1>4, <1>5, <2>1 DEF BInv, BType
<1>7. BMemory'
  <2>1. size'.offs * 4 <= size'.data =>
           Top' = size'.data - size'.offs * 4 /\ Len(bio'.offs) + bio'.offs_avail = size'.offs
    BY <1>2, <1>4, <1>5 DEF Top
  <2>2. size'.offs * 4 > size'.data => bio'.overflow
    BY <1>4, <1>5
  <2>3. mem' = {} /\ Len(bio'.offs) = 0 /\ phase' # "read"
    BY <1>3, <1>4
  <2> QED BY <2>1, <2>2, <2>3 DEF BMemory
<1>8. PICK f : f = [i \in 1 .. 1 |-> 0]
  OBVIOUS
<1>9. Layout(f)'
  <2>1. Len(sent') = 0
    BY <1>3
  <2>2. f \in [1 .. Len(sent') + 1 -> Nat] /\ f[1] = 0
    BY <1>8, <2>1
  <2>3. ~(bio'.overflow /\ size'.offs * 4 <= size'.data)
    BY <1>2, <1>4, <1>5
  <2> QED BY <1>4, <2>1, <2>2, <2>3 DEF Layout
<1>10. Reading(f)' /\ NeverShifted' /\ phase' # "init" /\ got' = <<>>
  BY <1>3 DEF Reading, NeverShifted
<1> QED BY <1>6, <1>7, <1>9, <1>10 DEF BInv

-----------------------------------------------------------------------------
(* The way to the receiver *)

LEMMA SameLayout ==
    ASSUME UNCHANGED <<size, bio, mem, sent>>, NEW f
    PROVE  /\ Layout(f)' <=> Layout(f)
           /\ \A i : /\ Whole(i, f[i], f[i + 1])' <=> Whole(i, f[i], f[i + 1])
                     /\ Damaged(i, f[i], f[i + 1])' <=> Damaged(i, f[i], f[i + 1])
                     /\ Good(i, f)' <=> Good(i, f)
<1>1. \A p, i, kind, val : Has(p, i, kind, val)' <=> Has(p, i, kind, val)
  BY DEF Has
<1>2. \A p : Offered(p)' <=> Offered(p)
  BY DEF Offered
<1>3. Top' = Top
  BY DEF Top
<1>4. ASSUME NEW i, NEW p, NEW q
      PROVE  (Whole(i, p, q)' <=> Whole(i, p, q)) /\ (Damaged(i, p, q)' <=> Damaged(i, p, q))
  <2>1. Whole(i, p, q)' <=> Whole(i, p, q)
    BY <1>1, <1>2 DEF Whole
  <2>2. Damaged(i, p, q)' <=> Damaged(i, p, q)
    BY <1>1, <1>2, <1>3 DEF Damaged
  <2> QED BY <2>1, <2>2
<1>5. \A i : /\ Whole(i, f[i], f[i + 1])' <=> Whole(i, f[i], f[i + 1])
             /\ Damaged(i, f[i], f[i + 1])' <=> Damaged(i, f[i], f[i + 1])
  BY <1>4
<1>6. \A i : Good(i, f)' <=> Good(i, f)
  BY <1>5 DEF Good
<1>7. Layout(f)' <=> Layout(f)
  BY <1>5 DEF Layout
<1> QED BY <1>5, <1>6, <1>7

\* A receiver starts with the first item and all of the memory.
LEMMA SendKeeps ==
    ASSUME BInv, binder_call \/ binder_send_reply
    PROVE  BInv'
<1>1. UNCHANGED <<size, bio, mem, sent, got>> /\ phase = "write" /\ got = <<>>
  BY DEF binder_call, binder_send_reply, BInv
<1>2. PICK f : Layout(f)
  BY DEF BInv
<1>3. Layout(f)'
  BY <1>1, <1>2, SameLayout
<1>4. CASE phase' = "refused" /\ rbio' = rbio
  <2>1. BType'
    BY <1>1, <1>4 DEF BInv, BType
  <2>2. BMemory'
    BY <1>1, <1>4 DEF BInv, BMemory, Top
  <2>3. Reading(f)' /\ NeverShifted' /\ got' = <<>>
    BY <1>1, <1>4 DEF Reading, NeverShifted
  <2> QED BY <1>3, <1>4, <2>1, <2>2, <2>3 DEF BInv
<1>5. CASE phase' = "read" /\ bio_init_from_txn /\ size.offs * 4 <= size.data
  <2>1. /\ rbio' \in Bio /\ rbio'.data = 0 /\ rbio'.data_avail = bio.data
        /\ rbio'.offs = bio.offs /\ rbio'.offs_avail = Len(bio.offs)
    BY <1>5 DEF bio_init_from_txn, BInv, BType, Bio
  <2>2. BType'
    BY <1>1, <1>5, <2>1 DEF BInv, BType
  <2>3. bio.data \in Nat
    BY DEF BInv, BType, Bio
  <2>4. BMemory'
    BY <1>1, <1>5, <2>1, <2>3 DEF BInv, BMemory, Top
  <2>5. Len(got') = 0 /\ got' = <<>> /\ f[1] = 0
    BY <1>1, <1>2 DEF Layout
  <2>6. InSync(f)'
    BY <1>1, <2>1, <2>3, <2>5 DEF InSync
  <2>7. Reading(f)' /\ NeverShifted'
    BY <1>1, <1>5, <2>1, <2>5, <2>6 DEF Reading, NeverShifted
  <2> QED BY <1>3, <1>5, <2>2, <2>4, <2>7 DEF BInv
<1>6. binder_call => (phase' = "refused" /\ rbio' = rbio) \/
                     (phase' = "read" /\ bio_init_from_txn /\ size.offs * 4 <= size.data)
  <2>1. size.offs \in Nat /\ size.data \in Nat
    BY DEF BInv, BType
  <2> QED BY <2>1 DEF binder_call, BInv, BMemory
<1>7. binder_send_reply => phase' = "read" /\ bio_init_from_txn /\ size.offs * 4 <= size.data
  BY DEF binder_send_reply
<1> QED BY <1>4, <1>5, <1>6, <1>7

-----------------------------------------------------------------------------
(* The receiver *)

\* What bio_get makes of b, for a size n that is aligned to a.
Taken(b, a, r) ==
    /\ r \in Bio /\ r.offs = b.offs /\ r.offs_avail = b.offs_avail
    /\ a <= b.data_avail => /\ r.data = b.data + a /\ r.data_avail = b.data_avail - a
                            /\ r.overflow = b.overflow
    /\ ~(a <= b.data_avail) => r.data = b.data /\ r.data_avail = 0 /\ r.overflow = TRUE

LEMMA GetValue ==
    ASSUME NEW b \in Bio, NEW n, NEW a \in Nat, Aligned(n) = a
    PROVE  Taken(b, a, bio_get(b, n)) /\ (HasRoom(b, n) <=> a <= b.data_avail)
<1>1. HasRoom(b, n) <=> a <= b.data_avail
  BY DEF HasRoom
<1>2. b.data \in Nat /\ b.data_avail \in Nat
  BY DEF Bio
<1>3. CASE a <= b.data_avail
  <2>1. bio_get(b, n) = [b EXCEPT !.data = @ + a, !.data_avail = @ - a]
    BY <1>2, <1>3 DEF bio_get
  <2>2. b.data + a \in Nat /\ b.data_avail - a \in Nat
    BY <1>2, <1>3
  <2>3. /\ bio_get(b, n) \in Bio
        /\ bio_get(b, n).data = b.data + a /\ bio_get(b, n).data_avail = b.data_avail - a
        /\ bio_get(b, n).offs = b.offs /\ bio_get(b, n).offs_avail = b.offs_avail
        /\ bio_get(b, n).overflow = b.overflow
    BY <2>1, <2>2 DEF Bio
  <2> QED BY <1>1, <1>3, <2>3 DEF Taken
<1>4. CASE ~(a <= b.data_avail)
  <2>1. bio_get(b, n) = [b EXCEPT !.data_avail = 0, !.overflow = TRUE]
    BY <1>2, <1>4 DEF bio_get
  <2>2. PICK r : r = bio_get(b, n)
    OBVIOUS
  <2>3. r = [data |-> b.data, offs |-> b.offs, data_avail |-> 0,
             offs_avail |-> b.offs_avail, overflow |-> TRUE]
    BY <2>1, <2>2 DEF Bio
  <2>4. r \in Bio
    BY <2>3 DEF Bio
  <2>5. /\ r.data = b.data /\ r.offs = b.offs /\ r.data_avail = 0
        /\ r.offs_avail = b.offs_avail /\ r.overflow = TRUE
    BY <2>3
  <2>6. Taken(b, a, r)
    BY ONLY <1>4, <2>4, <2>5 DEF Taken
  <2> QED BY ONLY <1>1, <2>2, <2>6
<1> QED BY <1>3, <1>4

\* The answer r to a request for item k: the receiver was there and the item is
\* whole, or it gets nothing and is now out of memory.
Answered(k, f, r) ==
    /\ k = Len(got) + 1 /\ r \in Results /\ got' = Append(got, r)
    /\ rbio' \in Bio /\ rbio'.offs = rbio.offs /\ rbio'.offs_avail = rbio.offs_avail
    /\ \/ /\ InSync(f) /\ Good(k, f)
          /\ rbio'.data = f[k + 1] /\ rbio'.data_avail = bio.data - f[k + 1]
          /\ r.ok /\ r.val = Received(sent[k]) /\ r.from = {k}
       \/ /\ ~r.ok /\ rbio'.data <= bio.data
          /\ rbio'.data_avail = 0 /\ rbio'.overflow
          /\ Dead(f) \/ Damaged(k, f[k], f[k + 1]) \/ NullRef(sent[k])

LEMMA GetKeeps ==
    ASSUME BInv, NEW kinds, Get(kinds), NEW f, Layout(f), Reading(f),
           NEW k, NEW r, Answered(k, f, r)
    PROVE  BInv'
<1>1. /\ UNCHANGED <<phase, size, bio, mem, sent>> /\ phase = "read"
      /\ Len(got) \in Nat /\ Len(sent) \in Nat /\ Len(got) < Len(sent)
      /\ k = Len(got) + 1 /\ k \in 1 .. Len(sent)
      /\ got \in Seq(Results) /\ got' = Append(got, r) /\ r \in Results
      /\ sent \in Seq(Items)
  BY DEF Get, BInv, BType, Answered
<1>2. /\ Len(got') = k /\ got' \in Seq(Results)
      /\ \A i \in 1 .. Len(got) : got'[i] = got[i]
      /\ got'[k] = r
      /\ \A i \in 1 .. k : i \in 1 .. Len(got) \/ i = k
  BY <1>1
<1>3. BType'
  <2>1. Len(got') <= Len(sent') /\ rbio' \in Bio
    BY <1>1, <1>2 DEF Answered
  <2> QED BY <1>1, <1>2, <2>1 DEF BInv, BType
<1>4. bio.data \in Nat /\ f[k] \in Nat /\ f[k + 1] \in Nat /\ f[k + 1] <= bio.data
  <2>1. bio.data \in Nat
    BY DEF BInv, BType, Bio
  <2>2. k \in 1 .. Len(sent) + 1 /\ k + 1 \in 1 .. Len(sent) + 1
    BY <1>1
  <2> QED BY <2>1, <2>2 DEF Layout
<1>5. BMemory'
  <2>1. rbio'.data + rbio'.data_avail <= bio'.data
    <3>1. \/ rbio'.data = f[k + 1] /\ rbio'.data_avail = bio.data - f[k + 1]
          \/ rbio'.data <= bio.data /\ rbio'.data_avail = 0
      BY DEF Answered
    <3>2. rbio'.data \in Nat /\ bio' = bio
      BY <1>1 DEF Answered, Bio
    <3> QED BY <1>4, <3>1, <3>2
  <2> QED BY <1>1, <2>1 DEF BInv, BMemory, Top
<1>6. NeverShifted'
  <2> SUFFICES ASSUME NEW i \in 1 .. k, got'[i].ok PROVE got'[i].from = {i}
    BY <1>2 DEF NeverShifted
  <2>1. CASE i \in 1 .. Len(got)
    BY <1>2, <2>1 DEF BInv, NeverShifted
  <2>2. CASE i = k
    BY <1>2, <2>2 DEF Answered
  <2> QED BY <1>2, <2>1, <2>2
<1>7. /\ Layout(f)' /\ \A i : Good(i, f)' <=> Good(i, f)
      /\ \A i : Damaged(i, f[i], f[i + 1])' <=> Damaged(i, f[i], f[i + 1])
  BY <1>1, SameLayout
<1>8. ASSUME NEW i \in 1 .. Len(sent), Good(i, f)
      PROVE  ~Damaged(i, f[i], f[i + 1]) /\ ~NullRef(sent[i])
  <2>1. i \in 1 .. Len(sent) + 1 /\ i + 1 \in 1 .. Len(sent) + 1
    BY <1>1
  <2>2. f[i] \in Nat /\ f[i + 1] \in Nat
    BY <2>1 DEF Layout
  <2> QED BY <1>8, <2>2, NotBoth DEF Good, BInv
<1>9. /\ rbio.offs = bio.offs /\ rbio.offs_avail = Len(bio.offs)
      /\ size.offs * 4 <= size.data
      /\ \A i \in 1 .. Len(got) : (\A j \in 1 .. i : Good(j, f)) =>
             got[i].ok /\ got[i].val = Received(sent[i])
  BY <1>1 DEF Reading
<1>10. CASE /\ InSync(f) /\ Good(k, f)
            /\ rbio'.data = f[k + 1] /\ rbio'.data_avail = bio.data - f[k + 1]
            /\ r.ok /\ r.val = Received(sent[k])
  <2>1. InSync(f)'
    <3>1. \A i \in 1 .. k : Good(i, f)
      BY <1>2, <1>10 DEF InSync
    <3> QED BY <1>1, <1>2, <1>7, <1>10, <3>1 DEF InSync
  <2>2. \A i \in 1 .. k : (\A j \in 1 .. i : Good(j, f)) =>
             got'[i].ok /\ got'[i].val = Received(sent[i])
    BY <1>2, <1>9, <1>10
  <2>3. Reading(f)'
    BY <1>1, <1>2, <1>7, <1>9, <2>1, <2>2 DEF Reading, Answered
  <2> QED BY <1>1, <1>3, <1>5, <1>6, <1>7, <2>3 DEF BInv
<1>11. CASE /\ rbio'.data_avail = 0 /\ rbio'.overflow
            /\ Dead(f) \/ Damaged(k, f[k], f[k + 1]) \/ NullRef(sent[k])
  <2>1. PICK m \in 1 .. k : Damaged(m, f[m], f[m + 1]) \/ NullRef(sent[m])
    <3>1. CASE Dead(f)
      <4>1. PICK m \in 1 .. Len(got) : Damaged(m, f[m], f[m + 1]) \/ NullRef(sent[m])
        BY <3>1 DEF Dead
      <4>2. m \in 1 .. k
        BY <1>1
      <4> QED BY <4>1, <4>2
    <3>2. CASE Damaged(k, f[k], f[k + 1]) \/ NullRef(sent[k])
      <4>1. k \in 1 .. k
        BY <1>1
      <4> QED BY <3>2, <4>1
    <3> QED BY <1>11, <3>1, <3>2
  <2>2. Dead(f)'
    BY <1>1, <1>2, <1>7, <1>11, <2>1 DEF Dead
  <2>3. ~Good(m, f)
    <3>1. m \in 1 .. Len(sent)
      BY <1>1
    <3> QED BY <2>1, <3>1, <1>8
  <2>4. \A i \in 1 .. k : (\A j \in 1 .. i : Good(j, f)) =>
             got'[i].ok /\ got'[i].val = Received(sent[i])
    <3> SUFFICES ASSUME NEW i \in 1 .. k, \A j \in 1 .. i : Good(j, f)
                 PROVE  got'[i].ok /\ got'[i].val = Received(sent[i])
      OBVIOUS
    <3>1. i \in 1 .. Len(got)
      <4>1. m <= i => m \in 1 .. i
        BY <1>1
      <4> QED BY <4>1, <2>3, <1>1
    <3> QED BY <3>1, <1>2, <1>9
  <2>5. Reading(f)'
    BY <1>1, <1>2, <1>7, <1>9, <2>2, <2>4 DEF Reading, Answered
  <2> QED BY <1>1, <1>3, <1>5, <1>6, <1>7, <2>5 DEF BInv
<1> QED BY <1>10, <1>11 DEF Answered

\* What is known when the receiver asks for item k, which was to go to p.
LEMMA GetFacts ==
    ASSUME BInv, NEW kinds, Get(kinds), NEW f, Layout(f), Reading(f),
           NEW k, k = Len(got) + 1
    PROVE  /\ rbio \in Bio /\ rbio.data \in Nat /\ rbio.data_avail \in Nat
           /\ rbio.data + rbio.data_avail <= bio.data
           /\ bio.data \in Nat /\ bio.data <= Top /\ Top \in Nat
           /\ k \in 1 .. Len(sent) /\ k \in Nat /\ sent[k] \in Items /\ sent[k].kind \in kinds
           /\ f[k] \in Nat /\ f[k + 1] \in Nat /\ f[k] <= bio.data /\ f[k + 1] <= bio.data
           /\ Whole(k, f[k], f[k + 1]) \/ Damaged(k, f[k], f[k + 1])
           /\ InSync(f) \/ Dead(f)
           /\ InSync(f) => rbio.data = f[k] /\ rbio.data_avail = bio.data - f[k]
           /\ Dead(f) => rbio.data_avail = 0
           /\ IsObject(rbio) <=> Offered(rbio.data)
<1>1. /\ phase = "read" /\ Len(got) \in Nat /\ Len(sent) \in Nat /\ Len(got) < Len(sent)
      /\ k \in 1 .. Len(sent) /\ k \in Nat /\ sent[k] \in Items /\ sent[k].kind \in kinds
  BY DEF Get, BInv, BType
<1>2. k \in 1 .. Len(sent) + 1 /\ k + 1 \in 1 .. Len(sent) + 1
  BY <1>1
<1>3. /\ f[k] \in Nat /\ f[k + 1] \in Nat /\ f[k] <= bio.data /\ f[k + 1] <= bio.data
      /\ Whole(k, f[k], f[k + 1]) \/ Damaged(k, f[k], f[k + 1])
  BY <1>1, <1>2 DEF Layout
<1>4. /\ rbio \in Bio /\ rbio.data \in Nat /\ rbio.data_avail \in Nat
      /\ bio.data \in Nat /\ bio.data_avail \in Nat
      /\ rbio.data + rbio.data_avail <= bio.data
  BY <1>1 DEF BInv, BType, Bio, BMemory
<1>5. bio.data <= Top /\ Top \in Nat
  BY <1>4 DEF Top
<1>6. IsObject(rbio) <=> Offered(rbio.data)
  BY <1>1 DEF IsObject, Offered, Reading
<1>7. InSync(f) => rbio.data = f[k] /\ rbio.data_avail = bio.data - f[k]
  BY DEF InSync
<1>8. Dead(f) => rbio.data_avail = 0
  BY DEF Dead
<1>9. InSync(f) \/ Dead(f)
  BY <1>1 DEF Reading
<1> QED BY <1>1, <1>3, <1>4, <1>5, <1>6, <1>7, <1>8, <1>9

\* What is read where a word was stored, and whose it is.
LEMMA WordThere ==
    ASSUME BInv, NEW p, NEW k, NEW val, Has(p, k, "word", val)
    PROVE  WordsAt(p) = {val} /\ OriginOf(p, {"word"}) = {k}
<1>1. PICK c : c = [at |-> p, item |-> k, kind |-> "word", val |-> val]
  OBVIOUS
<1>2. c \in mem /\ c.at = p /\ c.kind = "word" /\ c.val = val /\ c.item = k
  BY <1>1 DEF Has
<1>3. \A d \in mem : d.at = p => d = c
  BY <1>2, OneChunk DEF BInv
<1>4. At(p, {"word"}) = {c}
  BY <1>2, <1>3 DEF At
<1> QED BY <1>2, <1>4 DEF WordsAt, OriginOf

\* The same of an object.
LEMMA ObjectThere ==
    ASSUME BInv, NEW p, NEW k, NEW val, NEW kind \in Objects, Has(p, k, kind, val)
    PROVE  /\ PointersAt(p) = {IF kind = "handle" /\ val \in Owned THEN 0 ELSE val}
           /\ OriginOf(p, Objects) = {k}
<1>1. PICK c : c = [at |-> p, item |-> k, kind |-> kind, val |-> val]
  OBVIOUS
<1>2. c \in mem /\ c.at = p /\ c.kind \in Objects /\ c.val = val /\ c.item = k
      /\ c.kind = kind
  BY <1>1 DEF Has
<1>3. \A d \in mem : d.at = p => d = c
  BY <1>2, OneChunk DEF BInv
<1>4. At(p, Objects) = {c}
  BY <1>2, <1>3 DEF At
<1>5. PointerOf(c) = IF kind = "handle" /\ val \in Owned THEN 0 ELSE val
  BY <1>2 DEF PointerOf, TypeOnArrival
<1> QED BY <1>2, <1>4, <1>5 DEF PointersAt, OriginOf

LEMMA GetUint32Keeps == ASSUME BInv, bio_get_uint32 PROVE BInv'
<1> PICK f, k, p : Layout(f) /\ Reading(f) /\ k = Len(got) + 1 /\ p = rbio.data
  BY DEF BInv
<1>0. Get({"uint32"})
  BY DEF bio_get_uint32
<1>1. /\ rbio \in Bio /\ p \in Nat /\ rbio.data_avail \in Nat
      /\ p + rbio.data_avail <= bio.data
      /\ bio.data \in Nat /\ bio.data <= Top /\ Top \in Nat
      /\ k \in Nat /\ sent[k] \in Items /\ sent[k].kind = "uint32"
      /\ f[k] \in Nat /\ f[k + 1] \in Nat /\ f[k + 1] <= bio.data
      /\ Whole(k, f[k], f[k + 1]) \/ Damaged(k, f[k], f[k + 1])
      /\ InSync(f) \/ Dead(f)
      /\ InSync(f) => p = f[k] /\ rbio.data_avail = bio.data - f[k]
      /\ Dead(f) => rbio.data_avail = 0
  BY <1>0, GetFacts
<1>2. /\ Taken(rbio, 4, rbio') /\ (HasRoom(rbio, 4) <=> 4 <= rbio.data_avail)
  BY <1>1, GetValue, AlignedSizes DEF bio_get_uint32
<1>3. PICK v \in WordsAt(p) :
          got' = Append(got, IF ~HasRoom(rbio, 4) THEN Nothing
                             ELSE [ok |-> TRUE, val |-> v,
                                   from |-> OriginOf(p, {"word"})])
  BY DEF bio_get_uint32
<1>4. ~IsRef(sent[k]) /\ ~NullRef(sent[k]) /\ Received(sent[k]) = sent[k].val
  BY <1>1 DEF IsRef, NullRef, Received
<1>5. CASE InSync(f) /\ Whole(k, f[k], f[k + 1])
  <2>1. f[k + 1] = p + 4 /\ Has(p, k, "word", sent[k].val)
    BY <1>1, <1>4, <1>5 DEF Whole
  <2>2. v = sent[k].val /\ OriginOf(p, {"word"}) = {k}
    BY <1>3, <2>1, WordThere
  <2>3. 4 <= rbio.data_avail
    BY <1>1, <1>5, <2>1
  <2>4. PICK r : r = [ok |-> TRUE, val |-> sent[k].val, from |-> {k}]
    OBVIOUS
  <2>5. got' = Append(got, r)
    BY <1>2, <1>3, <2>2, <2>3, <2>4
  <2>6. r \in Results /\ r.ok /\ r.val = Received(sent[k]) /\ r.from = {k}
    BY <1>1, <1>4, <2>4 DEF Results, Items
  <2>7. rbio'.data = f[k + 1] /\ rbio'.data_avail = bio.data - f[k + 1]
    BY <1>1, <1>2, <1>5, <2>1, <2>3 DEF Taken
  <2>8. Answered(k, f, r)
    BY <1>2, <1>4, <1>5, <2>5, <2>6, <2>7 DEF Answered, Taken, Good
  <2> QED BY <1>0, <2>8, GetKeeps
<1>6. CASE Dead(f) \/ Damaged(k, f[k], f[k + 1])
  <2>1. ~(4 <= rbio.data_avail)
    <3>1. InSync(f) /\ Damaged(k, f[k], f[k + 1]) => p + 4 > Top
      BY <1>1, <1>4 DEF Damaged
    <3> QED BY <1>1, <1>6, <3>1
  <2>2. got' = Append(got, Nothing)
    BY <1>2, <1>3, <2>1
  <2>3. Nothing \in Results /\ ~Nothing.ok
    BY DEF Nothing, Results
  <2>4. rbio'.data <= bio.data /\ rbio'.data_avail = 0 /\ rbio'.overflow
    BY <1>1, <1>2, <2>1 DEF Taken
  <2>5. Answered(k, f, Nothing)
    BY <1>2, <1>6, <2>2, <2>3, <2>4 DEF Answered, Taken
  <2> QED BY <1>0, <2>5, GetKeeps
<1> QED BY <1>1, <1>5, <1>6

LEMMA GetString16Keeps == ASSUME BInv, bio_get_string16 PROVE BInv'
<1> PICK f, k, p : Layout(f) /\ Reading(f) /\ k = Len(got) + 1 /\ p = rbio.data
  BY DEF BInv
<1>0. Get({"string16"})
  BY DEF bio_get_string16
<1>1. /\ rbio \in Bio /\ p \in Nat /\ rbio.data_avail \in Nat
      /\ p + rbio.data_avail <= bio.data
      /\ bio.data \in Nat /\ bio.data <= Top /\ Top \in Nat
      /\ k \in 1 .. Len(sent) /\ k \in Nat /\ sent[k] \in Items /\ sent[k].kind = "string16"
      /\ f[k] \in Nat /\ f[k + 1] \in Nat /\ f[k + 1] <= bio.data
      /\ Whole(k, f[k], f[k + 1]) \/ Damaged(k, f[k], f[k + 1])
      /\ InSync(f) \/ Dead(f)
      /\ InSync(f) => p = f[k] /\ rbio.data_avail = bio.data - f[k]
      /\ Dead(f) => rbio.data_avail = 0
  BY <1>0, GetFacts
<1>2. PICK v, len, b, bytes :
         /\ v \in WordsAt(p)
         /\ len = IF HasRoom(rbio, 4) THEN v ELSE 0
         /\ b = bio_get(rbio, 4)
         /\ bytes = ((len + 1) * 2) % U32
         /\ rbio' = bio_get(b, bytes)
         /\ got' = Append(got, IF ~HasRoom(b, bytes) THEN Nothing
                               ELSE [ok |-> TRUE, val |-> len,
                                     from |-> OriginOf(p, {"word"})])
  BY DEF bio_get_string16
<1>3. /\ Taken(rbio, 4, b) /\ (HasRoom(rbio, 4) <=> 4 <= rbio.data_avail)
  BY <1>1, <1>2, GetValue, AlignedSizes
<1>4. /\ b \in Bio /\ b.offs = rbio.offs /\ b.offs_avail = rbio.offs_avail
      /\ b.data \in Nat /\ b.data_avail \in Nat
      /\ 4 <= rbio.data_avail => b.data = p + 4 /\ b.data_avail = rbio.data_avail - 4
      /\ ~(4 <= rbio.data_avail) => b.data = p /\ b.data_avail = 0
  BY <1>3 DEF Taken, Bio
<1>5. /\ ~IsRef(sent[k]) /\ ~NullRef(sent[k]) /\ sent[k].val \in Nat
      /\ Received(sent[k]) = sent[k].val
  BY <1>1 DEF IsRef, NullRef, Items, Received
\* The bytes of a text that was put are what its length says.
<1>6. ASSUME NEW n \in Nat, n < MAX_STRING
      PROVE  ((n + 1) * 2) % U32 = (n + 1) * 2
  <2>1. (n + 1) * 2 \in 0 .. U32 - 1
    BY <1>6, StringAssumption, WidthAssumption
  <2> QED BY <2>1, SmallMod
<1>7. sent[k].val # MISSING => sent[k].val < MAX_STRING
  BY <1>1 DEF BInv, BType
<1>8. CASE InSync(f) /\ Whole(k, f[k], f[k + 1])
  <2>1. PICK a \in Nat : /\ f[k + 1] = p + 4 + a /\ Has(p, k, "word", sent[k].val)
                         /\ a = Aligned(((sent[k].val + 1) * 2) % U32)
    <3>1. CASE sent[k].val = MISSING
      <4>1. f[k + 1] = p + 4 /\ Has(p, k, "word", sent[k].val)
        BY <1>1, <1>5, <1>8, <3>1 DEF Whole
      <4>2. Aligned(((sent[k].val + 1) * 2) % U32) = 0
        BY <3>1, MissingHasNoText, AlignedSizes
      <4>3. f[k + 1] = p + 4 + 0
        BY <1>1, <4>1
      <4> QED BY <4>1, <4>2, <4>3
    <3>2. CASE sent[k].val # MISSING
      <4>1. f[k + 1] = p + 4 + Text(sent[k].val) /\ Has(p, k, "word", sent[k].val)
        BY <1>1, <1>5, <1>8, <3>2 DEF Whole
      <4>2. Text(sent[k].val) = Aligned(((sent[k].val + 1) * 2) % U32)
        BY <1>5, <1>6, <1>7, <3>2 DEF Text
      <4>3. Text(sent[k].val) \in Nat
        BY <1>5, <1>7, <3>2, AlignedSizes
      <4> QED BY <4>1, <4>2, <4>3
    <3> QED BY <3>1, <3>2
  <2>2. v = sent[k].val /\ OriginOf(p, {"word"}) = {k}
    BY <1>2, <2>1, WordThere
  <2>3. 4 <= rbio.data_avail /\ a <= b.data_avail
    BY <1>1, <1>4, <1>8, <2>1
  <2>4. len = sent[k].val /\ Aligned(bytes) = a
    BY <1>2, <1>3, <2>1, <2>2, <2>3
  <2>5. Taken(b, a, rbio') /\ HasRoom(b, bytes)
    BY <1>2, <1>4, <2>3, <2>4, GetValue
  <2>6. PICK r : r = [ok |-> TRUE, val |-> sent[k].val, from |-> {k}]
    OBVIOUS
  <2>7. got' = Append(got, r)
    BY <1>2, <2>2, <2>4, <2>5, <2>6
  <2>8. r \in Results /\ r.ok /\ r.val = Received(sent[k]) /\ r.from = {k}
    BY <1>1, <1>5, <2>6 DEF Results
  <2>9. rbio'.data = f[k + 1] /\ rbio'.data_avail = bio.data - f[k + 1]
    <3>1. rbio'.data = b.data + a /\ rbio'.data_avail = b.data_avail - a
      BY <2>3, <2>5 DEF Taken
    <3>2. \A w, x, y \in Nat : w - x - 4 - y = w - (x + 4 + y)
      OBVIOUS
    <3>3. rbio'.data = p + 4 + a /\ rbio'.data_avail = bio.data - p - 4 - a
      BY <1>1, <1>4, <1>8, <2>3, <3>1
    <3>4. p \in Nat /\ bio.data \in Nat /\ a \in Nat
      BY <1>1
    <3>5. bio.data - p - 4 - a = bio.data - (p + 4 + a)
      BY ONLY <3>2, <3>4
    <3> QED BY ONLY <2>1, <3>3, <3>5
  <2>10. rbio' \in Bio /\ rbio'.offs = rbio.offs /\ rbio'.offs_avail = rbio.offs_avail
    BY <1>4, <2>5 DEF Taken
  <2>11. Answered(k, f, r)
    BY <1>5, <1>8, <2>7, <2>8, <2>9, <2>10 DEF Answered, Good
  <2> QED BY <1>0, <2>11, GetKeeps
<1>9. CASE Dead(f) \/ Damaged(k, f[k], f[k + 1])
  <2>1. PICK a \in Nat : Aligned(bytes) = a /\ ~(a <= b.data_avail)
    <3>1. CASE ~(4 <= rbio.data_avail)
      <4>2. bytes = 2
        <5>1. 2 % U32 = 2
          BY SmallMod, AlignedSizes
        <5> QED BY <1>2, <1>3, <3>1, <5>1
      <4>3. Aligned(2) = 4
        <5>1. (2 + 3) % U32 = 5
          BY SmallMod, AlignedSizes
        <5> QED BY <5>1 DEF Aligned
      <4> QED BY <4>2, <4>3, <1>4, <3>1
    <3>2. CASE 4 <= rbio.data_avail
      <4>1. InSync(f) /\ ~(p + 4 > Top)
        BY <1>1, <3>2
      <4>2. /\ sent[k].val # MISSING /\ Has(p, k, "word", sent[k].val)
            /\ p + 4 + Text(sent[k].val) > Top
        BY <1>1, <1>5, <1>9, <3>2, <4>1 DEF Damaged
      <4>3. len = sent[k].val
        BY <1>2, <1>3, <3>2, <4>2, WordThere
      <4>4. Text(sent[k].val) \in Nat /\ Aligned(bytes) = Text(sent[k].val)
        BY <1>2, <1>5, <1>6, <1>7, <4>2, <4>3, AlignedSizes DEF Text
      <4>5. ~(Text(sent[k].val) <= b.data_avail)
        BY <1>1, <1>4, <3>2, <4>1, <4>2, <4>4
      <4> QED BY <4>4, <4>5
    <3> QED BY <3>1, <3>2
  <2>2. Taken(b, a, rbio') /\ ~HasRoom(b, bytes)
    BY <1>2, <1>4, <2>1, GetValue
  <2>3. got' = Append(got, Nothing)
    BY <1>2, <2>2
  <2>4. Nothing \in Results /\ ~Nothing.ok
    BY DEF Nothing, Results
  <2>5. /\ rbio'.data = b.data /\ rbio'.data_avail = 0 /\ rbio'.overflow
        /\ rbio' \in Bio /\ rbio'.offs = rbio.offs /\ rbio'.offs_avail = rbio.offs_avail
    BY <1>4, <2>1, <2>2 DEF Taken
  <2>6. rbio'.data <= bio.data
    BY <1>1, <1>4, <2>5
  <2>7. Answered(k, f, Nothing)
    BY <1>9, <2>3, <2>4, <2>5, <2>6 DEF Answered
  <2> QED BY <1>0, <2>7, GetKeeps
<1> QED BY <1>1, <1>8, <1>9

LEMMA GetRefKeeps == ASSUME BInv, bio_get_ref PROVE BInv'
<1> PICK f, k, p : Layout(f) /\ Reading(f) /\ k = Len(got) + 1 /\ p = rbio.data
  BY DEF BInv
<1>0. Get({"obj", "ref"})
  BY DEF bio_get_ref
<1>1. /\ rbio \in Bio /\ p \in Nat /\ rbio.data_avail \in Nat
      /\ p + rbio.data_avail <= bio.data
      /\ bio.data \in Nat /\ bio.data <= Top /\ Top \in Nat
      /\ k \in Nat /\ sent[k] \in Items /\ sent[k].kind \in {"obj", "ref"}
      /\ f[k] \in Nat /\ f[k + 1] \in Nat /\ f[k + 1] <= bio.data
      /\ Whole(k, f[k], f[k + 1]) \/ Damaged(k, f[k], f[k + 1])
      /\ InSync(f) \/ Dead(f)
      /\ InSync(f) => p = f[k] /\ rbio.data_avail = bio.data - f[k]
      /\ Dead(f) => rbio.data_avail = 0
      /\ IsObject(rbio) <=> Offered(p)
  BY <1>0, GetFacts
<1>2. /\ Taken(rbio, OBJ, bio_get(rbio, OBJ)) /\ (HasRoom(rbio, OBJ) <=> OBJ <= rbio.data_avail)
      /\ OBJ \in Nat /\ OBJ >= 4
  BY <1>1, GetValue, AlignedSizes
<1>3. PICK v \in PointersAt(p) :
          got' = Append(got, IF ~(IsObject(rbio) /\ HasRoom(rbio, OBJ)) THEN Nothing
                             ELSE [ok |-> TRUE, val |-> v, from |-> OriginOf(p, Objects)])
  BY DEF bio_get_ref
<1>4. IsRef(sent[k]) /\ Received(sent[k]) \in Nat
  BY <1>1 DEF IsRef, Items, Received
<1>5. /\ IsObject(rbio) => rbio' = bio_get(rbio, OBJ)
      /\ ~IsObject(rbio) => rbio' = [rbio EXCEPT !.data_avail = 0, !.overflow = TRUE]
  BY DEF bio_get_ref, _bio_get_obj
<1>6. CASE InSync(f) /\ Good(k, f)
  <2>1. /\ f[k + 1] = p + OBJ /\ Offered(p)
        /\ Has(p, k, PutAs(sent[k]), sent[k].val)
    BY <1>1, <1>4, <1>6 DEF Whole, Good, IsRef
  <2>2. v = Received(sent[k]) /\ OriginOf(p, Objects) = {k}
    <3>1. PutAs(sent[k]) \in Objects
      BY DEF PutAs, Objects
    <3> QED BY <1>1, <1>3, <2>1, <3>1, ObjectThere DEF PutAs, Received
  <2>3. OBJ <= rbio.data_avail /\ IsObject(rbio)
    BY <1>1, <1>2, <1>6, <2>1
  <2>4. PICK r : r = [ok |-> TRUE, val |-> Received(sent[k]), from |-> {k}]
    OBVIOUS
  <2>5. got' = Append(got, r)
    BY <1>2, <1>3, <2>2, <2>3, <2>4
  <2>6. r \in Results /\ r.ok /\ r.val = Received(sent[k]) /\ r.from = {k}
    BY <1>1, <1>4, <2>4 DEF Results
  <2>7. Taken(rbio, OBJ, rbio')
    BY <1>2, <1>5, <2>3
  <2>8. rbio'.data = f[k + 1] /\ rbio'.data_avail = bio.data - f[k + 1]
    BY <1>1, <1>2, <1>6, <2>1, <2>3, <2>7 DEF Taken
  <2>9. Answered(k, f, r)
    BY <1>6, <2>5, <2>6, <2>7, <2>8 DEF Answered, Taken
  <2> QED BY <1>0, <2>9, GetKeeps
<1>7. CASE Dead(f) \/ Damaged(k, f[k], f[k + 1]) \/ NullRef(sent[k])
  <2>1. ~IsObject(rbio) \/ ~(OBJ <= rbio.data_avail)
    <3>1. CASE Dead(f)
      BY <1>1, <1>2, <3>1
    <3>2. CASE InSync(f) /\ ~Dead(f)
      <4>1. Damaged(k, p, f[k + 1]) => ~Offered(p) \/ p + OBJ > Top
        BY <1>4 DEF Damaged, IsRef
      <4>2. Whole(k, p, f[k + 1]) /\ NullRef(sent[k]) => ~Offered(p)
        BY DEF Whole, IsRef, NullRef
      <4>3. ~Offered(p) \/ p + OBJ > Top
        BY <1>1, <1>7, <3>2, <4>1, <4>2
      <4> QED BY <1>1, <1>2, <3>2, <4>3
    <3> QED BY <1>1, <3>1, <3>2
  <2>2. got' = Append(got, Nothing)
    BY <1>2, <1>3, <2>1
  <2>3. Nothing \in Results /\ ~Nothing.ok
    BY DEF Nothing, Results
  <2>4. /\ rbio'.data = p /\ rbio'.data_avail = 0 /\ rbio'.overflow
        /\ rbio' \in Bio /\ rbio'.offs = rbio.offs /\ rbio'.offs_avail = rbio.offs_avail
    <3>1. CASE IsObject(rbio)
      BY <1>2, <1>5, <2>1, <3>1 DEF Taken
    <3>2. CASE ~IsObject(rbio)
      <4>1. rbio' = [data |-> rbio.data, offs |-> rbio.offs, data_avail |-> 0,
                     offs_avail |-> rbio.offs_avail, overflow |-> TRUE]
        BY <1>1, <1>5, <3>2 DEF Bio
      <4>2. rbio' \in Bio
        BY <1>1, <4>1 DEF Bio
      <4> QED BY <4>1, <4>2
    <3> QED BY <3>1, <3>2
  <2>5. rbio'.data <= bio.data
    BY <1>1, <2>4
  <2>6. Answered(k, f, Nothing)
    BY <1>7, <2>2, <2>3, <2>4, <2>5 DEF Answered
  <2> QED BY <1>0, <2>6, GetKeeps
<1>8. Good(k, f) \/ Damaged(k, f[k], f[k + 1]) \/ NullRef(sent[k])
  BY <1>1 DEF Good
<1> QED BY <1>1, <1>6, <1>7, <1>8

-----------------------------------------------------------------------------
(* The theorems *)

LEMMA NextKeepsLayout == ASSUME BInv, [Next]_vars PROVE BInv'
<1>1. CASE UNCHANGED vars
  <2>1. UNCHANGED <<phase, size, bio, mem, sent, rbio, got>>
    BY <1>1 DEF vars
  <2>2. PICK f : Layout(f) /\ Reading(f)
    BY DEF BInv
  <2>3. /\ Layout(f)' /\ \A i : Good(i, f)' <=> Good(i, f)
        /\ \A i : Damaged(i, f[i], f[i + 1])' <=> Damaged(i, f[i], f[i + 1])
    BY <2>1, <2>2, SameLayout
  <2>4. Reading(f)'
    BY <2>1, <2>2, <2>3 DEF Reading, InSync, Dead
  <2>5. BType' /\ BMemory' /\ NeverShifted'
    BY <2>1 DEF BInv, BType, BMemory, Top, NeverShifted
  <2> QED BY <2>1, <2>3, <2>4, <2>5 DEF BInv
<1>2. ASSUME NEW n \in Words, bio_put_uint32(n) PROVE BInv'
  <2>1. PICK item : item = [kind |-> "uint32", val |-> n]
    OBVIOUS
  <2>2. item \in Items /\ item.kind = "uint32" /\ item.val = n
    BY <2>1, ItemAssumption, WidthAssumption DEF Items, Kinds
  <2> QED BY <1>2, <2>1, <2>2, PutWord DEF bio_put_uint32
<1>3. ASSUME NEW n \in Lengths \cup {MISSING}, PutNoString(n) PROVE BInv'
  <2>1. PICK item : item = [kind |-> "string16", val |-> MISSING]
    OBVIOUS
  <2>2. item \in Items /\ item.kind = "string16" /\ item.val = MISSING
    BY <2>1, AlignedSizes DEF Items, Kinds
  <2> QED BY <1>3, <2>1, <2>2, PutWord DEF PutNoString
<1>4. ASSUME NEW n \in Pointers, bio_put_obj(n) PROVE BInv'
  <2>1. PICK item : item = [kind |-> "obj", val |-> n]
    OBVIOUS
  <2>2. item \in Items /\ item.val = n /\ IsRef(item) /\ ~NullRef(item) /\ "binder" \in Objects
        /\ "binder" = PutAs(item)
    BY <2>1, ItemAssumption DEF Items, Kinds, IsRef, NullRef, Objects, PutAs
  <2> QED BY <1>4, <2>1, <2>2, PutObject DEF bio_put_obj
<1>5. ASSUME NEW n \in Pointers, bio_put_ref(n) PROVE BInv'
  <2>1. PICK item : item = [kind |-> "ref", val |-> n]
    OBVIOUS
  <2>2. item \in Items /\ item.val = n /\ IsRef(item) /\ (NullRef(item) <=> n = 0)
    BY <2>1, ItemAssumption DEF Items, Kinds, IsRef, NullRef
  <2>3. CASE n = 0
    BY <1>5, <2>1, <2>2, <2>3, PutNull DEF bio_put_ref
  <2>4. CASE n # 0
    <3>1. "handle" \in Objects /\ "handle" = PutAs(item)
      BY <2>1 DEF Objects, PutAs
    <3> QED BY <1>5, <2>1, <2>2, <2>4, <3>1, PutObject DEF bio_put_ref
  <2> QED BY <2>3, <2>4
<1> QED BY <1>1, <1>2, <1>3, <1>4, <1>5, PutTextKeeps, BioInitKeeps, SendKeeps,
           GetUint32Keeps, GetString16Keeps, GetRefKeeps
        DEF Next, bio_put_string16

\* Every message has a layout, and its receiver reads along it or not at all.
THEOREM BInvCorrect == Spec => []BInv
<1>1. BInv /\ [Next]_vars => BInv'
  BY NextKeepsLayout
<1> QED BY InitLayout, <1>1, PTL DEF Spec

\* Nothing is stored outside the buffer or over something else, and nothing is
\* read behind what was sent, whatever is put and whatever does not fit.
THEOREM InBoundsCorrect == Spec => []InBounds
<1>1. BInv => InBounds
  BY DEF BInv, BType, BMemory, InBounds, Top
<1> QED BY <1>1, BInvCorrect, PTL

\* An item that is got is the one that was put for it.
THEOREM NeverShiftedCorrect == Spec => []NeverShifted
<1>1. BInv => NeverShifted
  BY DEF BInv
<1> QED BY <1>1, BInvCorrect, PTL

\* A message that fitted is got as it was put.
THEOREM RoundTripCorrect == Spec => []RoundTrip
<1>1. ASSUME BInv PROVE RoundTrip
  <2>1. PICK f : Layout(f) /\ Reading(f)
    BY <1>1 DEF BInv
  <2> SUFFICES ASSUME NEW i \in 1 .. Len(got), ~bio.overflow, \A j \in 1 .. i : ~NullRef(sent[j])
               PROVE  got[i].ok /\ got[i].val = Received(sent[i])
    BY DEF RoundTrip
  <2>2. Len(got) \in Nat /\ Len(sent) \in Nat /\ Len(got) <= Len(sent)
    BY <1>1 DEF BInv, BType
  <2>3. phase = "read"
    <3>1. got = <<>> => Len(got) = 0
      OBVIOUS
    <3> QED BY <1>1, <2>2, <3>1 DEF BInv
  <2>4. \A j \in 1 .. i : Good(j, f)
    <3> TAKE j \in 1 .. i
    <3>1. j \in 1 .. Len(sent)
      BY <2>2
    <3> QED BY <2>1, <3>1 DEF Layout, Good
  <2> QED BY <2>1, <2>3, <2>4 DEF Reading
<1> QED BY <1>1, BInvCorrect, PTL

\* The receiver of a reply that overflowed has found out by its end.
THEOREM OverflowDetectedCorrect == Spec => []OverflowDetected
<1>1. ASSUME BInv PROVE OverflowDetected
  <2> SUFFICES ASSUME phase = "read", bio.overflow, Len(got) = Len(sent) PROVE rbio.overflow
    BY DEF OverflowDetected
  <2>1. PICK f : Layout(f) /\ Reading(f)
    BY <1>1 DEF BInv
  <2>2. PICK i \in 1 .. Len(sent) : Damaged(i, f[i], f[i + 1])
    BY <2>1 DEF Layout, Reading
  <2>3. Len(sent) \in Nat
    BY <1>1 DEF BInv, BType
  <2>4. i \in 1 .. Len(sent) + 1 /\ i + 1 \in 1 .. Len(sent) + 1
    BY <2>3
  <2>5. f[i] \in Nat /\ f[i + 1] \in Nat
    BY <2>1, <2>4 DEF Layout
  <2>6. ~Good(i, f)
    BY <1>1, <2>2, <2>5, NotBoth DEF Good, BInv
  <2> QED BY <2>1, <2>2, <2>6 DEF Reading, InSync, Dead
<1> QED BY <1>1, BInvCorrect, PTL
=============================================================================
