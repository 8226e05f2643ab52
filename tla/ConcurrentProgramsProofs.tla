---------------------- MODULE ConcurrentProgramsProofs ----------------------
(***************************************************************************)
(* Proofs about the programs with several threads or with callbacks:       *)
(* LibR2 for any set of threads and any number of calls, BenchVBinder for  *)
(* any list of sizes, any number of rounds and of failed calls,            *)
(* BootAnimation for any number of frames and any faults, and EvalRecorder *)
(* for any list of pages, of redirections and of repeated callbacks.       *)
(***************************************************************************)
EXTENDS ConcurrentPrograms, TLAPS

-----------------------------------------------------------------------------
(* tests/libr2.  The mutex is held by exactly the threads that print; and  *)
(* while the pointer is null after the flag was set, the thread that won   *)
(* the compare-and-swap is in dlsym.                                       *)

\* The places of a thread.
Labels == {"idle", "init", "dlsym", "spin", "lock1", "dump1", "call", "kernel",
           "lock2", "dump2"}

\* The thread is in one of the two critical sections.
Printing(t) == pc[t] \in {"dump1", "dump2"}

\* The mutex and those who hold it.
MutexInv ==
    /\ mutex \subseteq Threads
    /\ \A t \in Threads : t \in mutex <=> Printing(t)
    /\ \A t, u \in mutex : t = u

\* The flag, the pointer and the thread between them.
PointerInv ==
    /\ ~initialized => \A t \in Threads : pc[t] \in {"idle", "init"}
    /\ initialized /\ old_ioctl # "libc" => \E t \in Threads : pc[t] = "dlsym"
    /\ crashed => initialized /\ old_ioctl # "libc"

LInv == pc \in [Threads -> Labels] /\ MutexInv /\ PointerInv

-----------------------------------------------------------------------------
\* A thread that moves moves alone.
LEMMA GotoAlone ==
    ASSUME pc \in [Threads -> Labels], NEW t \in Threads, NEW l \in Labels, Goto(t, l)
    PROVE  /\ pc' \in [Threads -> Labels] /\ pc'[t] = l
           /\ \A u \in Threads : u # t => pc'[u] = pc[u]
  BY DEF Goto

\* A step of the interposer outside of the mutex, from a place where the flag
\* is known to be set, disturbs neither part.
LEMMA PlainMove ==
    ASSUME LInv, NEW t \in Threads, NEW l \in Labels, Goto(t, l),
           ~Printing(t), l \notin {"dump1", "dump2"},
           mutex' = mutex, initialized, initialized' = initialized, pc[t] # "dlsym",
           old_ioctl' = old_ioctl, crashed' = crashed
    PROVE  LInv'
<1>1. /\ pc' \in [Threads -> Labels] /\ pc'[t] = l
      /\ \A u \in Threads : u # t => pc'[u] = pc[u]
  BY GotoAlone DEF LInv
<1>2. MutexInv'
  BY <1>1 DEF LInv, MutexInv, Printing
<1>3. PointerInv'
  BY <1>1 DEF LInv, PointerInv
<1> QED BY <1>1, <1>2, <1>3 DEF LInv

LEMMA LockKeeps ==
    ASSUME LInv, NEW t \in Threads, NEW from \in {"lock1", "lock2"},
           NEW to \in {"dump1", "dump2"}, Lock(t, from, to)
    PROVE  LInv'
<1>1. /\ pc' \in [Threads -> Labels] /\ pc'[t] = to
      /\ \A u \in Threads : u # t => pc'[u] = pc[u]
  <2>1. to \in Labels /\ Goto(t, to)
    BY DEF Lock, Labels
  <2> QED BY <2>1, GotoAlone DEF LInv
<1>2. mutex = {} /\ mutex' = {t} /\ pc[t] = from
  BY DEF Lock
<1>3. MutexInv'
  BY <1>1, <1>2 DEF LInv, MutexInv, Printing
<1>4. PointerInv'
  BY <1>1, <1>2 DEF LInv, PointerInv, Lock
<1> QED BY <1>1, <1>3, <1>4 DEF LInv

LEMMA UnlockKeeps ==
    ASSUME LInv, NEW t \in Threads, NEW from \in {"dump1", "dump2"},
           NEW to \in {"call", "idle"}, Unlock(t, from, to)
    PROVE  LInv'
<1>1. /\ pc' \in [Threads -> Labels] /\ pc'[t] = to
      /\ \A u \in Threads : u # t => pc'[u] = pc[u]
  <2>1. to \in Labels /\ Goto(t, to)
    BY DEF Unlock, Labels
  <2> QED BY <2>1, GotoAlone DEF LInv
<1>2. mutex' = mutex \ {t} /\ pc[t] = from
  BY DEF Unlock
<1>3. MutexInv'
  BY <1>1, <1>2 DEF LInv, MutexInv, Printing
<1>4. PointerInv'
  BY <1>1, <1>2 DEF LInv, PointerInv, Unlock
<1> QED BY <1>1, <1>3, <1>4 DEF LInv

LEMMA LInit == R2Init => LInv
  BY DEF R2Init, LInv, Labels, MutexInv, PointerInv, Printing

LEMMA LStep == LInv /\ [R2Next]_r2Vars => LInv'
<1> SUFFICES ASSUME LInv, [R2Next]_r2Vars PROVE LInv'
  OBVIOUS
<1>1. ASSUME NEW t \in Threads, Enter(t) PROVE LInv'
  <2>1. /\ pc' \in [Threads -> Labels] /\ pc'[t] = "init" /\ pc[t] = "idle"
        /\ \A u \in Threads : u # t => pc'[u] = pc[u]
    BY <1>1, GotoAlone DEF LInv, Enter, Labels
  <2>2. /\ initialized' = initialized /\ old_ioctl' = old_ioctl
        /\ mutex' = mutex /\ crashed' = crashed
    BY <1>1 DEF Enter
  <2>3. MutexInv'
    BY <2>1, <2>2 DEF LInv, MutexInv, Printing
  <2>4. PointerInv'
    BY <2>1, <2>2 DEF LInv, PointerInv
  <2> QED BY <2>1, <2>3, <2>4 DEF LInv
<1>2. ASSUME NEW t \in Threads, init(t) PROVE LInv'
  <2> DEFINE l == IF initialized THEN "spin" ELSE "dlsym"
  <2>1. /\ initialized' = TRUE /\ old_ioctl' = old_ioctl /\ pc[t] = "init"
        /\ mutex' = mutex /\ crashed' = crashed /\ ~crashed /\ Goto(t, l)
    BY <1>2 DEF init
  <2>2. /\ pc' \in [Threads -> Labels] /\ pc'[t] = l
        /\ \A u \in Threads : u # t => pc'[u] = pc[u]
    BY <2>1, GotoAlone DEF LInv, Labels
  <2>3. MutexInv'
    BY <2>1, <2>2 DEF LInv, MutexInv, Printing
  <2>4. PointerInv'
    BY <2>1, <2>2 DEF LInv, PointerInv
  <2> QED BY <2>2, <2>3, <2>4 DEF LInv
<1>3. ASSUME NEW t \in Threads, dlsym(t) PROVE LInv'
  <2>1. /\ pc' \in [Threads -> Labels] /\ pc'[t] = "spin" /\ pc[t] = "dlsym"
        /\ \A u \in Threads : u # t => pc'[u] = pc[u]
    BY <1>3, GotoAlone DEF LInv, dlsym, Labels
  <2>2. /\ initialized' = initialized /\ old_ioctl' = "libc"
        /\ mutex' = mutex /\ crashed' = crashed /\ ~crashed
    BY <1>3 DEF dlsym
  <2>3. MutexInv'
    BY <2>1, <2>2 DEF LInv, MutexInv, Printing
  <2>4. PointerInv'
    BY <2>1, <2>2 DEF LInv, PointerInv
  <2> QED BY <2>1, <2>3, <2>4 DEF LInv
<1>4. ASSUME NEW t \in Threads, Spin(t) PROVE LInv'
  <2> DEFINE l == IF IsBwr(t) THEN "lock1" ELSE "call"
  <2>1. /\ initialized /\ initialized' = initialized /\ old_ioctl' = old_ioctl
        /\ mutex' = mutex /\ crashed' = crashed /\ pc[t] = "spin" /\ Goto(t, l)
    BY <1>4 DEF Spin
  <2>2. l \in Labels /\ l \notin {"dump1", "dump2"} /\ ~Printing(t)
    BY <2>1 DEF Printing, Labels
  <2> HIDE DEF l
  <2> QED BY <2>1, <2>2, PlainMove
<1>5. ASSUME NEW t \in Threads, DumpBefore(t) PROVE LInv'
  BY <1>5, LockKeeps, UnlockKeeps DEF DumpBefore
<1>6. ASSUME NEW t \in Threads, CallOld(t) PROVE LInv'
  <2>0. /\ initialized' = initialized /\ old_ioctl' = old_ioctl /\ mutex' = mutex
        /\ pc[t] = "call"
    BY <1>6 DEF CallOld
  <2>1. initialized
    BY <2>0 DEF LInv, PointerInv
  <2>2. CASE old_ioctl = "null" /\ crashed' = TRUE /\ UNCHANGED pc
    <3>1. MutexInv'
      BY <2>0, <2>2 DEF LInv, MutexInv, Printing
    <3>2. PointerInv'
      BY <2>0, <2>1, <2>2 DEF LInv, PointerInv
    <3> QED BY <2>2, <3>1, <3>2 DEF LInv
  <2>3. CASE old_ioctl = "libc" /\ Goto(t, "kernel") /\ UNCHANGED crashed
    BY <2>0, <2>1, <2>3, PlainMove DEF Printing, Labels
  <2> QED BY <1>6, <2>2, <2>3 DEF CallOld
<1>7. ASSUME NEW t \in Threads, RealIoctl(t) PROVE LInv'
  <2>0. /\ initialized' = initialized /\ old_ioctl' = old_ioctl /\ mutex' = mutex
        /\ crashed' = crashed /\ pc[t] = "kernel" /\ Goto(t, "lock2")
    BY <1>7 DEF RealIoctl
  <2>1. initialized
    BY <2>0 DEF LInv, PointerInv
  <2> QED BY <2>0, <2>1, PlainMove DEF Printing, Labels
<1>8. ASSUME NEW t \in Threads, DumpAfter(t) PROVE LInv'
  BY <1>8, LockKeeps, UnlockKeeps DEF DumpAfter
<1>9. CASE UNCHANGED r2Vars
  BY <1>9 DEF r2Vars, LInv, MutexInv, PointerInv, Printing
<1> QED BY <1>1, <1>2, <1>3, <1>4, <1>5, <1>6, <1>7, <1>8, <1>9 DEF R2Next, ioctl

LEMMA LInvariant == R2Spec => []LInv
<1>1. R2Init => LInv
  BY LInit
<1>2. LInv /\ [R2Next]_r2Vars => LInv'
  BY LStep
<1> QED BY <1>1, <1>2, PTL DEF R2Spec

\* Two threads never print at the same time, in either critical section.
THEOREM DumpsNotMixedCorrect == R2Spec => []DumpsNotMixed
<1>1. LInv => DumpsNotMixed
  BY DEF LInv, MutexInv, Printing, DumpsNotMixed
<1> QED BY <1>1, LInvariant, PTL

\* A null pointer is called only while the thread that won the
\* compare-and-swap is still looking up ioctl.
THEOREM NullOnlyAtStartCorrect == R2Spec => []NullOnlyAtStart
<1>1. LInv => NullOnlyAtStart
  BY DEF LInv, PointerInv, NullOnlyAtStart
<1> QED BY <1>1, LInvariant, PTL

\* A thread that waits in the library waits for one that has only to print and
\* to unlock, never for one that sleeps in the real ioctl; and the loop that
\* waits for initialized does not wait at all.
NeverHeldUp ==
    \A t \in Threads :
        /\ pc[t] = "spin" => initialized
        /\ pc[t] \in {"lock1", "lock2"} /\ mutex # {} =>
              \E u \in Threads : u # t /\ mutex = {u} /\ Printing(u)

\* What SleepsOnlyInKernel rests on besides fairness, for any threads.
THEOREM NeverHeldUpCorrect == R2Spec => []NeverHeldUp
<1>1. LInv => NeverHeldUp
  <2> SUFFICES ASSUME LInv, NEW t \in Threads
               PROVE  /\ pc[t] = "spin" => initialized
                      /\ pc[t] \in {"lock1", "lock2"} /\ mutex # {} =>
                            \E u \in Threads : u # t /\ mutex = {u} /\ Printing(u)
    BY DEF NeverHeldUp
  <2>1. pc[t] = "spin" => initialized
    BY DEF LInv, PointerInv
  <2>2. ASSUME pc[t] \in {"lock1", "lock2"}, mutex # {}
        PROVE  \E u \in Threads : u # t /\ mutex = {u} /\ Printing(u)
    <3>1. PICK u \in mutex : TRUE
      BY <2>2
    <3>2. u \in Threads /\ Printing(u) /\ mutex = {u}
      BY DEF LInv, MutexInv
    <3>3. u # t
      BY <2>2, <3>2 DEF Printing
    <3> QED BY <3>2, <3>3
  <2> QED BY <2>1, <2>2
<1> QED BY <1>1, LInvariant, PTL

-----------------------------------------------------------------------------
(* bench-vbinder.  The messages under way, from the one main has received  *)
(* last over its inbox, the pong thread and the pong thread's inbox, are   *)
(* messages as main has sent them and younger from place to place, so each *)
(* receive of main that succeeds brings it forward by one; and as long as  *)
(* no call has failed exactly one message is under way while main waits,   *)
(* unless it woke up too early.                                            *)

\* The types of what the argument is about.
VType ==
    /\ main \in {"create", "spawn", "sleep", "send", "recv", "done"}
    /\ pong \in {"unborn", "create", "tid", "acquire", "recv", "send"}
    /\ ping_thr_tid \in {0, 1} /\ pong_thr_tid \in {0, 2}
    /\ channels \subseteq {1, 2}
    /\ cap \in [VThreads -> {-1, 1, 2}]
    /\ cap["main"] # 1 /\ cap["pong"] # 2
    /\ inbox \in [Tids -> Seq(Message)]
    /\ round \in 1..Len(Sizes) /\ i \in 0..(TEST_TIMES - 1)
    /\ sent \in Seq(Message) /\ buf \in [VThreads -> Message]
    /\ failures \in 0..MaxFailures /\ skipped \in Nat

\* Nothing is under way.
Quiet == inbox[1] = <<>> /\ inbox[2] = <<>> /\ pong # "send"

\* The start: who has stored its tid has its channel, and pong begins when
\* main has done both.
VStart ==
    /\ main \in {"create", "spawn", "sleep"} => Quiet /\ sent = <<>>
    /\ main # "create" => ping_thr_tid = 1
    /\ pong # "unborn" => main \notin {"create", "spawn"}
    /\ failures = 0 => /\ {ping_thr_tid, pong_thr_tid} \ {0} \subseteq channels
                       /\ pong \in {"acquire", "tid"} => 2 \in channels
                       /\ pong \in {"recv", "send"} => cap["pong"] = 1

\* One message is under way to pong, with pong, or on its way back.
UnderWay ==
    \/ inbox[1] = <<>> /\ Len(inbox[2]) = 1 /\ pong # "send"
    \/ inbox[1] = <<>> /\ inbox[2] = <<>> /\ pong = "send"
    \/ Len(inbox[1]) = 1 /\ inbox[2] = <<>> /\ pong # "send"

\* main knew pong's channel too late: its first message goes nowhere.
TooEarly == cap["main"] = -1 /\ Len(sent) = 1

VFlow ==
    failures = 0 =>
        /\ main = "send" => Quiet /\ (cap["main"] = -1 => Len(sent) = 0)
        /\ main = "recv" => (UnderWay /\ cap["main"] = 2) \/ (Quiet /\ TooEarly)

\* The message is the one of its number among those in s.
Genuine(m, s) == m.n \in 1..Len(s) /\ m = s[m.n]

Held(q) == {q[k] : k \in 1..Len(q)}
Before(S, T) == \A a \in S, b \in T : a.n < b.n
Rising(q) == \A j, k \in 1..Len(q) : j < k => q[j].n < q[k].n

\* What main has received last (b), its inbox (q), what pong holds (w) and pong's
\* inbox (r) are in order, and of what main has sent (s).
Ordered(b, q, w, r, s) ==
    /\ b = NoMessage \/ Genuine(b, s)
    /\ \A m \in Held(q) \cup w \cup Held(r) : Genuine(m, s)
    /\ Rising(q) /\ Rising(r)
    /\ Before({b}, Held(q) \cup w \cup Held(r))
    /\ Before(Held(q), w \cup Held(r))
    /\ Before(w, Held(r))

\* The message pong has received and not yet sent back.
WithPong == IF pong = "send" THEN {buf["pong"]} ELSE {}

VOrder == Ordered(buf["main"], inbox[1], WithPong, inbox[2], sent)

\* How far main is behind what it has sent.
VLag ==
    /\ main = "send" => buf["main"].n + skipped >= Len(sent)
    /\ main = "recv" => buf["main"].n + skipped + 1 >= Len(sent)

VInv == VType /\ VStart /\ VFlow /\ VOrder /\ VLag

-----------------------------------------------------------------------------
(* The order of the messages, for any sequences *)

\* What a message at the end of a queue, and taking its first one, change.
LEMMA HeldAppend ==
    ASSUME NEW q \in Seq(Message), NEW m \in Message
    PROVE  /\ Append(q, m) \in Seq(Message)
           /\ Held(Append(q, m)) = Held(q) \cup {m}
           /\ Rising(q) /\ Before(Held(q), {m}) => Rising(Append(q, m))
<1> DEFINE p == Append(q, m)
<1>1. /\ p \in Seq(Message) /\ Len(p) = Len(q) + 1 /\ p[Len(q) + 1] = m
      /\ \A k \in 1..Len(q) : p[k] = q[k]
  OBVIOUS
<1>2. Len(q) \in Nat
  OBVIOUS
<1>3. Held(p) = Held(q) \cup {m}
  <2>1. 1..Len(p) = (1..Len(q)) \cup {Len(q) + 1}
    BY <1>1, <1>2
  <2> HIDE DEF p
  <2> QED BY <1>1, <2>1 DEF Held
<1>4. ASSUME Rising(q), Before(Held(q), {m}) PROVE Rising(p)
  <2> HIDE DEF p
  <2> SUFFICES ASSUME NEW j \in 1..Len(p), NEW k \in 1..Len(p), j < k
               PROVE  p[j].n < p[k].n
    BY DEF Rising
  <2>1. j \in 1..Len(q) /\ p[j] = q[j]
    BY <1>1, <1>2
  <2>2. CASE k \in 1..Len(q)
    BY <1>1, <1>4, <2>1, <2>2 DEF Rising
  <2>3. CASE k = Len(q) + 1
    BY <1>1, <1>4, <2>1, <2>3 DEF Before, Held
  <2> QED BY <1>1, <1>2, <2>2, <2>3
<1> QED BY <1>1, <1>3, <1>4

LEMMA HeldTail ==
    ASSUME NEW q \in Seq(Message), q # <<>>
    PROVE  /\ Head(q) \in Message /\ Tail(q) \in Seq(Message)
           /\ Len(q) = 1 => Tail(q) = <<>>
           /\ Head(q) \in Held(q) /\ Held(Tail(q)) \subseteq Held(q)
           /\ Rising(q) => Rising(Tail(q)) /\ Before({Head(q)}, Held(Tail(q)))
<1> DEFINE p == Tail(q)
<1>1. /\ Len(q) \in Nat /\ Len(q) >= 1 /\ Head(q) = q[1] /\ Head(q) \in Message
      /\ p \in Seq(Message) /\ Len(p) = Len(q) - 1
      /\ \A k \in 1..Len(p) : k + 1 \in 1..Len(q) /\ p[k] = q[k + 1]
  OBVIOUS
<1> HIDE DEF p
<1>2. Head(q) \in Held(q) /\ Held(p) \subseteq Held(q)
  BY <1>1 DEF Held
<1>3. ASSUME Rising(q) PROVE Rising(p) /\ Before({Head(q)}, Held(p))
  <2>1. Rising(p)
    <3> SUFFICES ASSUME NEW j \in 1..Len(p), NEW k \in 1..Len(p), j < k
                 PROVE  p[j].n < p[k].n
      BY DEF Rising
    <3>1. j + 1 \in 1..Len(q) /\ k + 1 \in 1..Len(q) /\ j + 1 < k + 1
      BY <1>1
    <3>2. q[j + 1].n < q[k + 1].n
      BY <1>3, <3>1 DEF Rising
    <3> QED BY <1>1, <3>2
  <2>2. ASSUME NEW k \in 1..Len(p) PROVE Head(q).n < p[k].n
    <3>1. 1 \in 1..Len(q) /\ k + 1 \in 1..Len(q) /\ 1 < k + 1
      BY <1>1
    <3>2. q[1].n < q[k + 1].n
      BY <1>3, <3>1 DEF Rising
    <3> QED BY <1>1, <3>2
  <2> QED BY <2>1, <2>2 DEF Before, Held
<1>4. \A e \in Seq(Message) : Len(e) = 0 => e = <<>>
  OBVIOUS
<1> QED BY <1>1, <1>2, <1>3, <1>4 DEF p

\* main sends a message, which pong's channel takes or not.
LEMMA OrderedSendPing ==
    ASSUME NEW b \in Message, NEW q \in Seq(Message), NEW w \in SUBSET Message,
           NEW r \in Seq(Message), NEW s \in Seq(Message), Ordered(b, q, w, r, s),
           NEW m \in Message, m.n = Len(s) + 1
    PROVE  /\ Ordered(b, q, w, r, Append(s, m))
           /\ Ordered(b, q, w, Append(r, m), Append(s, m))
<1> DEFINE t == Append(s, m)
<1>1. /\ Len(s) \in Nat /\ Len(t) = Len(s) + 1 /\ t[Len(s) + 1] = m
      /\ \A k \in 1..Len(s) : t[k] = s[k]
  OBVIOUS
<1> HIDE DEF t
<1>2. ASSUME NEW x, Genuine(x, s) PROVE Genuine(x, t) /\ x.n < m.n
  BY <1>1, <1>2 DEF Genuine
<1>3. Genuine(m, t)
  BY <1>1 DEF Genuine
<1>4. NoMessage.n < m.n
  BY <1>1 DEF NoMessage
<1>5. Ordered(b, q, w, r, t)
  BY <1>2 DEF Ordered
<1>6. /\ Held(Append(r, m)) = Held(r) \cup {m}
      /\ Before(Held(r), {m}) => Rising(Append(r, m))
  BY HeldAppend DEF Ordered
<1>7. Before({b} \cup Held(q) \cup w \cup Held(r), {m})
  BY <1>2, <1>4 DEF Ordered, Before
<1>8. Rising(Append(r, m))
  BY <1>6, <1>7 DEF Before
<1>9. Ordered(b, q, w, Append(r, m), t)
  <2>1. \A x \in Held(q) \cup w \cup Held(Append(r, m)) : Genuine(x, t)
    BY <1>3, <1>5, <1>6 DEF Ordered
  <2>2. /\ Before({b}, Held(q) \cup w \cup Held(Append(r, m)))
        /\ Before(Held(q), w \cup Held(Append(r, m)))
        /\ Before(w, Held(Append(r, m)))
    BY <1>5, <1>6, <1>7 DEF Ordered, Before
  <2> QED BY <1>5, <1>8, <2>1, <2>2 DEF Ordered
<1> QED BY <1>5, <1>9 DEF t

\* pong takes a message out of its inbox.
LEMMA OrderedRecvPong ==
    ASSUME NEW b \in Message, NEW q \in Seq(Message),
           NEW r \in Seq(Message), NEW s \in Seq(Message), Ordered(b, q, {}, r, s),
           r # <<>>
    PROVE  Ordered(b, q, {Head(r)}, Tail(r), s)
<1>1. /\ Head(r) \in Held(r) /\ Held(Tail(r)) \subseteq Held(r)
      /\ Rising(Tail(r)) /\ Before({Head(r)}, Held(Tail(r)))
  BY HeldTail DEF Ordered
<1> QED BY <1>1 DEF Ordered, Before

\* pong sends back what it holds, and main's channel takes it or not.
LEMMA OrderedSendPong ==
    ASSUME NEW b \in Message, NEW q \in Seq(Message), NEW m \in Message,
           NEW r \in Seq(Message), NEW s \in Seq(Message), Ordered(b, q, {m}, r, s)
    PROVE  Ordered(b, q, {}, r, s) /\ Ordered(b, Append(q, m), {}, r, s)
<1>1. /\ Held(Append(q, m)) = Held(q) \cup {m} /\ Rising(Append(q, m))
  BY HeldAppend DEF Ordered, Before
<1>2. Ordered(b, q, {}, r, s)
  BY DEF Ordered, Before
<1> QED BY <1>1, <1>2 DEF Ordered, Before

\* main takes a message out of its inbox: a younger one than it had.
LEMMA OrderedRecvPing ==
    ASSUME NEW b \in Message, NEW q \in Seq(Message), NEW w \in SUBSET Message,
           NEW r \in Seq(Message), NEW s \in Seq(Message), Ordered(b, q, w, r, s),
           q # <<>>
    PROVE  Ordered(Head(q), Tail(q), w, r, s) /\ b.n < Head(q).n
<1>1. /\ Head(q) \in Held(q) /\ Held(Tail(q)) \subseteq Held(q)
      /\ Rising(Tail(q)) /\ Before({Head(q)}, Held(Tail(q)))
  BY HeldTail DEF Ordered
<1> QED BY <1>1 DEF Ordered, Before
-----------------------------------------------------------------------------
(* The steps *)

LEMMA VInvInit == VInit => VInv
<1> SUFFICES ASSUME VInit PROVE VInv
  OBVIOUS
<1>1. NoMessage \in Message
  BY DEF NoMessage, Message
<1>2. VType
  BY <1>1, SizesAssumption, TimesAssumption DEF VInit, VType, VThreads, Tids
<1>3. VStart
  BY DEF VInit, VStart, Quiet, VThreads, Tids
<1>4. VFlow /\ VLag
  BY DEF VInit, VFlow, VLag
<1>5. VOrder
  <2>1. Held(<<>>) = {} /\ Rising(<<>>)
    BY DEF Held, Rising
  <2>2. inbox[1] = <<>> /\ inbox[2] = <<>> /\ WithPong = {} /\ buf["main"] = NoMessage
    BY DEF VInit, Tids, VThreads, WithPong
  <2>3. Ordered(NoMessage, <<>>, {}, <<>>, sent)
    BY <2>1 DEF Ordered, Before
  <2> QED BY <2>2, <2>3 DEF VOrder
<1> QED BY <1>2, <1>3, <1>4, <1>5 DEF VInv

\* A call fails at most MaxFailures times, and then some call has failed.
LEMMA FailsOrNot ==
    ASSUME VType, Fails \/ Succeeds
    PROVE  /\ failures' \in 0..MaxFailures
           /\ failures' = 0 => failures = 0 /\ ~Fails
  BY TimesAssumption DEF VType, Fails, Succeeds

\* What pong holds changes only with the places "recv" and "send".
LEMMA WithPongKept ==
    ASSUME pong # "send", pong' # "send" PROVE WithPong = {} /\ WithPong' = {}
  BY DEF WithPong

\* The parts of the state that the order is about.
LEMMA PartsType ==
    ASSUME VType
    PROVE  /\ buf["main"] \in Message /\ buf["pong"] \in Message
           /\ inbox[1] \in Seq(Message) /\ inbox[2] \in Seq(Message)
           /\ WithPong \in SUBSET Message
           /\ buf["main"].n \in Nat /\ Len(sent) \in Nat
<1>1. /\ buf["main"] \in Message /\ buf["pong"] \in Message
      /\ inbox[1] \in Seq(Message) /\ inbox[2] \in Seq(Message) /\ sent \in Seq(Message)
  BY DEF VType, VThreads, Tids
<1>2. WithPong \in SUBSET Message
  BY <1>1 DEF WithPong
<1>3. buf["main"].n \in Nat
  BY <1>1 DEF Message
<1> QED BY <1>1, <1>2, <1>3

LEMMA SetupKeeps == ASSUME VInv, Setup PROVE VInv'
<1>1. /\ main \in {"create", "spawn"} /\ main' \in {"spawn", "sleep"}
      /\ cap' = cap /\ inbox' = inbox /\ round' = round /\ i' = i /\ sent' = sent
      /\ buf' = buf /\ skipped' = skipped
      /\ pong_thr_tid' = pong_thr_tid /\ (Fails \/ Succeeds)
  BY DEF Setup, setupRest, tids, vbinder_create_channel
<1>2. pong = "unborn" /\ pong' \in {"unborn", "create"}
  BY <1>1 DEF Setup, VInv, VStart, VType
<1>3. /\ ping_thr_tid' = 1 /\ channels' \subseteq {1, 2} /\ channels \subseteq channels'
      /\ ~Fails /\ main = "create" => 1 \in channels'
  BY <1>1 DEF Setup, VInv, VStart, VType, vbinder_create_channel, gettid, tids
<1>4. failures' \in 0..MaxFailures /\ (failures' = 0 => failures = 0 /\ ~Fails)
  BY <1>1, FailsOrNot DEF VInv
<1>5. VType'
  BY <1>1, <1>2, <1>3, <1>4 DEF VInv, VType
<1>6. VStart'
  <2>1. Quiet' /\ sent' = <<>>
    BY <1>1, <1>2 DEF VInv, VStart, Quiet
  <2>2. pong' # "unborn" => main' = "sleep"
    BY <1>2 DEF Setup, VInv, VStart
  <2>3. failures' = 0 => {ping_thr_tid', pong_thr_tid'} \ {0} \subseteq channels'
    <3>1. CASE main = "create"
      BY <1>1, <1>3, <1>4, <3>1 DEF VInv, VStart
    <3>2. CASE main = "spawn"
      BY <1>1, <1>3, <1>4, <3>2 DEF VInv, VStart
    <3> QED BY <1>1, <3>1, <3>2
  <2> QED BY <1>2, <1>3, <2>1, <2>2, <2>3 DEF VStart
<1>7. VFlow' /\ VLag'
  BY <1>1 DEF VFlow, VLag
<1>8. VOrder'
  BY <1>1, <1>2, WithPongKept DEF VInv, VOrder
<1> QED BY <1>5, <1>6, <1>7, <1>8 DEF VInv

LEMMA WakeUpKeeps == ASSUME VInv, WakeUp PROVE VInv'
<1>1. /\ main = "sleep" /\ main' = "send" /\ pong' = pong /\ ping_thr_tid' = ping_thr_tid
      /\ pong_thr_tid' = pong_thr_tid /\ channels' = channels /\ inbox' = inbox
      /\ round' = round /\ i' = i /\ sent' = sent /\ buf' = buf /\ skipped' = skipped
      /\ (Fails \/ Succeeds)
  BY DEF WakeUp, tids, vbinder_acquire_channel
<1>2. /\ cap' \in [VThreads -> {-1, 1, 2}] /\ cap'["pong"] = cap["pong"]
      /\ cap'["main"] \in {-1, 2}
  BY DEF WakeUp, vbinder_acquire_channel, VInv, VType, VThreads
<1>3. failures' \in 0..MaxFailures /\ (failures' = 0 => failures = 0)
  BY <1>1, FailsOrNot DEF VInv
<1>4. VType'
  BY <1>1, <1>2, <1>3 DEF VInv, VType
<1>5. VStart'
  BY <1>1, <1>2, <1>3 DEF VInv, VStart
<1>6. sent = <<>> /\ Quiet
  BY <1>1 DEF VInv, VStart
<1>7. VFlow'
  BY <1>1, <1>6 DEF VFlow, Quiet
<1>8. VLag'
  BY <1>1, <1>6, PartsType DEF VInv, VLag, VType
<1>9. VOrder'
  BY <1>1 DEF VInv, VOrder, WithPong
<1> QED BY <1>4, <1>5, <1>7, <1>8, <1>9 DEF VInv

LEMMA SendPingKeeps == ASSUME VInv, SendPing PROVE VInv'
<1> DEFINE m == [n |-> Len(sent) + 1, size |-> Sizes[round]]
<1>1. /\ main = "send" /\ main' = "recv" /\ pong' = pong /\ ping_thr_tid' = ping_thr_tid
      /\ pong_thr_tid' = pong_thr_tid /\ channels' = channels /\ cap' = cap
      /\ round' = round /\ i' = i /\ buf' = buf /\ skipped' = skipped
      /\ sent' = Append(sent, m)
  BY DEF SendPing, tids
<1>2. m \in Message /\ m.n = Len(sent) + 1
  <2>1. Len(sent) \in Nat
    BY PartsType DEF VInv
  <2>2. Sizes[round] \in Nat
    <3>1. Sizes \in Seq(Nat \ {0}) /\ round \in 1..Len(Sizes)
      BY SizesAssumption DEF VInv, VType
    <3> QED BY <3>1
  <2> QED BY <2>1, <2>2 DEF Message
<1>3. /\ \/ cap["main"] # -1 /\ Succeeds /\ inbox' = [inbox EXCEPT ![2] = Append(@, m)]
         \/ cap["main"] = -1 /\ Succeeds /\ inbox' = inbox
         \/ Fails /\ inbox' = inbox
  <2>1. cap["main"] \in {-1, 2}
    BY DEF VInv, VType, VThreads
  <2>2. vbinder_send("main", m)
    BY DEF SendPing
  <2> HIDE DEF m
  <2> QED BY <2>1, <2>2 DEF vbinder_send, Succeeds
<1> HIDE DEF m
<1>4. sent' \in Seq(Message) /\ Len(sent') = Len(sent) + 1 /\ Len(sent) \in Nat
  BY <1>1, <1>2 DEF VInv, VType
<1>5. failures' \in 0..MaxFailures /\ (failures' = 0 => failures = 0 /\ ~Fails)
  BY <1>3, FailsOrNot DEF VInv
<1>6. /\ inbox' \in [Tids -> Seq(Message)] /\ inbox'[1] = inbox[1]
      /\ inbox'[2] \in {inbox[2], Append(inbox[2], m)}
      /\ cap["main"] # -1 /\ Succeeds /\ ~Fails => inbox'[2] = Append(inbox[2], m)
      /\ cap["main"] = -1 => inbox'[2] = inbox[2]
  <2>1. Append(inbox[2], m) \in Seq(Message)
    BY <1>2, PartsType, HeldAppend DEF VInv
  <2>2. inbox \in [Tids -> Seq(Message)]
    BY DEF VInv, VType
  <2>3. CASE inbox' = [inbox EXCEPT ![2] = Append(@, m)] /\ cap["main"] # -1
    BY <2>1, <2>2, <2>3 DEF Tids
  <2>4. CASE inbox' = inbox /\ (cap["main"] = -1 \/ Fails)
    BY <2>2, <2>4
  <2> QED BY <1>3, <2>3, <2>4
<1>7. VType'
  BY <1>1, <1>4, <1>5, <1>6 DEF VInv, VType
<1>8. VStart'
  BY <1>1, <1>5 DEF VInv, VStart
<1>9. VFlow'
  <2> SUFFICES ASSUME failures' = 0
               PROVE  (UnderWay' /\ cap'["main"] = 2) \/ (Quiet' /\ TooEarly')
    BY <1>1 DEF VFlow
  <2>1. Quiet /\ (cap["main"] = -1 => Len(sent) = 0)
    BY <1>1, <1>5 DEF VInv, VFlow
  <2>2. CASE cap["main"] = -1
    BY <1>1, <1>4, <1>6, <2>1, <2>2 DEF Quiet, TooEarly
  <2>3. CASE cap["main"] # -1
    <3>1. inbox'[2] = Append(<<>>, m) /\ inbox'[1] = <<>> /\ pong' # "send"
      BY <1>1, <1>3, <1>5, <1>6, <2>1, <2>3 DEF Quiet
    <3>2. Len(Append(<<>>, m)) = 1
      OBVIOUS
    <3>3. cap'["main"] = 2
      BY <1>1, <2>3 DEF VInv, VType, VThreads
    <3> QED BY <3>1, <3>2, <3>3 DEF UnderWay
  <2> QED BY <2>2, <2>3
<1>10. VOrder'
  <2>1. WithPong' = WithPong
    BY <1>1 DEF WithPong
  <2>2. /\ Ordered(buf["main"], inbox[1], WithPong, inbox[2], sent')
        /\ Ordered(buf["main"], inbox[1], WithPong, Append(inbox[2], m), sent')
    BY <1>1, <1>2, PartsType, OrderedSendPing DEF VInv, VType, VOrder
  <2> QED BY <1>1, <1>6, <2>1, <2>2 DEF VOrder
<1>11. VLag'
  BY <1>1, <1>4, PartsType DEF VInv, VLag, VType
<1> QED BY <1>7, <1>8, <1>9, <1>10, <1>11 DEF VInv

LEMMA RecvPingKeeps == ASSUME VInv, RecvPing PROVE VInv'
<1>1. /\ main = "recv" /\ main' \in {"send", "done"} /\ pong' = pong
      /\ ping_thr_tid' = ping_thr_tid
      /\ pong_thr_tid' = pong_thr_tid /\ channels' = channels /\ cap' = cap
      /\ sent' = sent
  BY DEF RecvPing, NextIteration, tids
<1>2. round' \in 1..Len(Sizes) /\ i' \in 0..(TEST_TIMES - 1)
  BY SizesAssumption, TimesAssumption DEF RecvPing, NextIteration, VInv, VType
<1>3. CASE vbinder_recv("main") /\ UNCHANGED skipped
  <2>1. /\ inbox[1] # <<>> /\ failures' = failures /\ skipped' = skipped
        /\ buf' = [buf EXCEPT !["main"] = Head(inbox[1])]
        /\ inbox' = [inbox EXCEPT ![1] = Tail(inbox[1])]
    BY <1>3 DEF vbinder_recv, gettid, Succeeds
  <2>2. /\ Head(inbox[1]) \in Message /\ Tail(inbox[1]) \in Seq(Message)
        /\ Len(inbox[1]) = 1 => Tail(inbox[1]) = <<>>
    BY <2>1, PartsType, HeldTail DEF VInv
  <2>3. /\ buf' \in [VThreads -> Message] /\ inbox' \in [Tids -> Seq(Message)]
        /\ buf'["main"] = Head(inbox[1]) /\ buf'["pong"] = buf["pong"]
        /\ inbox'[1] = Tail(inbox[1]) /\ inbox'[2] = inbox[2]
    BY <2>1, <2>2 DEF VInv, VType, VThreads, Tids
  <2>4. VType'
    BY <1>1, <1>2, <2>1, <2>3 DEF VInv, VType
  <2>5. VStart'
    BY <1>1, <2>1 DEF VInv, VStart
  <2>6. VFlow'
    <3> SUFFICES ASSUME failures' = 0
                 PROVE  Quiet' /\ cap'["main"] # -1
      BY <1>1 DEF VFlow
    <3>1. UnderWay /\ cap["main"] = 2
      BY <1>1, <2>1 DEF VInv, VFlow, Quiet
    <3>2. Len(inbox[1]) = 1 /\ inbox[2] = <<>> /\ pong # "send"
      BY <2>1, <3>1 DEF UnderWay
    <3>3. Tail(inbox[1]) = <<>>
      BY <2>2, <3>2
    <3> QED BY <1>1, <2>3, <3>1, <3>2, <3>3 DEF Quiet
  <2>7. /\ Ordered(Head(inbox[1]), Tail(inbox[1]), WithPong, inbox[2], sent)
        /\ buf["main"].n < Head(inbox[1]).n
    BY <2>1, PartsType, OrderedRecvPing DEF VInv, VType, VOrder
  <2>8. VOrder'
    BY <1>1, <2>3, <2>7 DEF VOrder, WithPong
  <2>9. VLag'
    <3>1. Head(inbox[1]).n \in Nat
      BY <2>2 DEF Message
    <3>2. /\ buf["main"].n \in Nat /\ Len(sent) \in Nat /\ skipped \in Nat
          /\ buf["main"].n + skipped + 1 >= Len(sent)
      BY <1>1, PartsType DEF VInv, VLag, VType
    <3>3. \A b, h, z, l \in Nat : b < h /\ b + z + 1 >= l => h + z >= l
      OBVIOUS
    <3>4. Head(inbox[1]).n + skipped >= Len(sent)
      BY <2>7, <3>1, <3>2, <3>3
    <3> QED BY <1>1, <2>1, <2>3, <3>4 DEF VLag
  <2> QED BY <2>4, <2>5, <2>6, <2>8, <2>9 DEF VInv
<1>4. CASE Fails /\ skipped' = skipped + 1 /\ UNCHANGED <<buf, inbox>>
  <2>1. failures' \in 0..MaxFailures /\ failures' # 0
    BY <1>4, FailsOrNot DEF VInv
  <2>2. VType'
    BY <1>1, <1>2, <1>4, <2>1 DEF VInv, VType
  <2>3. VStart' /\ VFlow'
    BY <1>1, <2>1 DEF VInv, VStart, VFlow
  <2>4. VOrder'
    BY <1>1, <1>4 DEF VInv, VOrder, WithPong
  <2>5. VLag'
    BY <1>1, <1>4, PartsType DEF VInv, VLag, VType
  <2> QED BY <2>2, <2>3, <2>4, <2>5 DEF VInv
<1> QED BY <1>3, <1>4 DEF RecvPing

LEMMA StartPongKeeps == ASSUME VInv, StartPong PROVE VInv'
<1>1. /\ main' = main /\ ping_thr_tid' = ping_thr_tid /\ inbox' = inbox /\ buf' = buf
      /\ round' = round /\ i' = i /\ sent' = sent /\ skipped' = skipped
      /\ pong \in {"create", "tid", "acquire"} /\ pong' \in {"tid", "acquire", "recv"}
      /\ (Fails \/ Succeeds)
  BY DEF StartPong, vbinder_create_channel, vbinder_acquire_channel, Succeeds
<1>2. failures' \in 0..MaxFailures /\ (failures' = 0 => failures = 0 /\ ~Fails)
  BY <1>1, FailsOrNot DEF VInv
<1>3. /\ ping_thr_tid = 1 /\ main \notin {"create", "spawn"}
      /\ failures = 0 => 1 \in channels
  BY <1>1 DEF VInv, VStart, VType
<1>4. /\ cap' \in [VThreads -> {-1, 1, 2}] /\ cap'["main"] = cap["main"]
      /\ cap'["pong"] # 2 /\ (pong' = "recv" /\ failures' = 0 => cap'["pong"] = 1)
  BY <1>2, <1>3 DEF StartPong, VInv, VType, VThreads, vbinder_acquire_channel
<1>5. channels' \subseteq {1, 2} /\ channels \subseteq channels' /\ pong_thr_tid' \in {0, 2}
      /\ (failures' = 0 => /\ pong' \in {"acquire", "tid"} => 2 \in channels'
                           /\ pong_thr_tid' = 2 => 2 \in channels')
  BY <1>2 DEF StartPong, VInv, VType, VStart, vbinder_create_channel, gettid
<1>6. VType'
  BY <1>1, <1>2, <1>4, <1>5 DEF VInv, VType
<1>7. VStart'
  <2>1. Quiet => Quiet'
    BY <1>1 DEF Quiet
  <2>2. failures' = 0 => {ping_thr_tid', pong_thr_tid'} \ {0} \subseteq channels'
    BY <1>1, <1>2, <1>3, <1>5
  <2>3. main' \in {"create", "spawn", "sleep"} => Quiet' /\ sent' = <<>>
    BY <1>1, <2>1 DEF VInv, VStart
  <2> QED BY <1>1, <1>2, <1>3, <1>4, <1>5, <2>2, <2>3 DEF VStart
<1>8. VFlow' /\ VLag'
  BY <1>1, <1>2, <1>4 DEF VInv, VFlow, VLag, Quiet, UnderWay, TooEarly
<1>9. VOrder'
  BY <1>1, WithPongKept DEF VInv, VOrder
<1> QED BY <1>6, <1>7, <1>8, <1>9 DEF VInv

LEMMA RecvPongKeeps == ASSUME VInv, RecvPong PROVE VInv'
<1>1. /\ main # "done" /\ pong = "recv" /\ main' = main
      /\ ping_thr_tid' = ping_thr_tid
      /\ pong_thr_tid' = pong_thr_tid /\ channels' = channels /\ cap' = cap
      /\ round' = round /\ i' = i /\ sent' = sent /\ skipped' = skipped
  BY DEF RecvPong, Running, tids
<1>2. CASE vbinder_recv("pong") /\ pong' = "send"
  <2>1. /\ inbox[2] # <<>> /\ failures' = failures
        /\ buf' = [buf EXCEPT !["pong"] = Head(inbox[2])]
        /\ inbox' = [inbox EXCEPT ![2] = Tail(inbox[2])]
    BY <1>2 DEF vbinder_recv, gettid, Succeeds
  <2>2. /\ Head(inbox[2]) \in Message /\ Tail(inbox[2]) \in Seq(Message)
        /\ Len(inbox[2]) = 1 => Tail(inbox[2]) = <<>>
    BY <2>1, PartsType, HeldTail DEF VInv
  <2>3. /\ buf' \in [VThreads -> Message] /\ inbox' \in [Tids -> Seq(Message)]
        /\ buf'["pong"] = Head(inbox[2]) /\ buf'["main"] = buf["main"]
        /\ inbox'[2] = Tail(inbox[2]) /\ inbox'[1] = inbox[1]
    BY <2>1, <2>2 DEF VInv, VType, VThreads, Tids
  <2>4. main \in {"send", "recv"}
    BY <1>1, <2>1 DEF VInv, VStart, VType, Quiet
  <2>5. VType'
    BY <1>1, <1>2, <2>1, <2>3 DEF VInv, VType
  <2>6. VStart'
    BY <1>1, <1>2, <2>1, <2>4 DEF VInv, VStart
  <2>7. VFlow'
    <3> SUFFICES ASSUME failures' = 0
                 PROVE  main' = "recv" /\ UnderWay' /\ cap'["main"] = 2
      BY DEF VFlow
    <3>1. main = "recv" /\ UnderWay /\ cap["main"] = 2
      BY <2>1, <2>4 DEF VInv, VFlow, Quiet
    <3>2. inbox[1] = <<>> /\ Len(inbox[2]) = 1
      BY <1>1, <2>1, <3>1 DEF UnderWay
    <3>3. Tail(inbox[2]) = <<>>
      BY <2>2, <3>2
    <3> QED BY <1>1, <1>2, <2>3, <3>1, <3>2, <3>3 DEF UnderWay
  <2>8. VOrder'
    <3>1. WithPong = {} /\ WithPong' = {Head(inbox[2])}
      BY <1>1, <1>2, <2>3 DEF WithPong
    <3>2. Ordered(buf["main"], inbox[1], {Head(inbox[2])}, Tail(inbox[2]), sent)
      BY <2>1, <3>1, PartsType, OrderedRecvPong DEF VInv, VType, VOrder
    <3> QED BY <1>1, <2>3, <3>1, <3>2 DEF VOrder
  <2>9. VLag'
    BY <1>1, <2>3 DEF VInv, VLag
  <2> QED BY <2>5, <2>6, <2>7, <2>8, <2>9 DEF VInv
<1>3. CASE Fails /\ UNCHANGED <<pong, buf, inbox>>
  <2>1. failures' \in 0..MaxFailures /\ failures' # 0
    BY <1>3, FailsOrNot DEF VInv
  <2>2. VType'
    BY <1>1, <1>3, <2>1 DEF VInv, VType
  <2>3. VStart' /\ VFlow' /\ VLag'
    BY <1>1, <1>3, <2>1 DEF VInv, VStart, VFlow, VLag, Quiet
  <2>4. VOrder'
    BY <1>1, <1>3 DEF VInv, VOrder, WithPong
  <2> QED BY <2>2, <2>3, <2>4 DEF VInv
<1> QED BY <1>2, <1>3 DEF RecvPong

LEMMA SendPongKeeps == ASSUME VInv, SendPong PROVE VInv'
<1>1. /\ main # "done" /\ pong = "send" /\ pong' = "recv" /\ main' = main
      /\ ping_thr_tid' = ping_thr_tid
      /\ pong_thr_tid' = pong_thr_tid /\ channels' = channels /\ cap' = cap
      /\ round' = round /\ i' = i /\ sent' = sent /\ buf' = buf /\ skipped' = skipped
  BY DEF SendPong, Running, tids
<1>2. /\ \/ cap["pong"] # -1 /\ Succeeds
            /\ inbox' = [inbox EXCEPT ![1] = Append(@, buf["pong"])]
         \/ cap["pong"] = -1 /\ Succeeds /\ inbox' = inbox
         \/ Fails /\ inbox' = inbox
  <2>1. cap["pong"] \in {-1, 1}
    BY DEF VInv, VType, VThreads
  <2> QED BY <2>1 DEF SendPong, vbinder_send, Succeeds
<1>3. failures' \in 0..MaxFailures /\ (failures' = 0 => failures = 0 /\ ~Fails)
  BY <1>2, FailsOrNot DEF VInv
<1>4. /\ inbox' \in [Tids -> Seq(Message)] /\ inbox'[2] = inbox[2]
      /\ inbox'[1] \in {inbox[1], Append(inbox[1], buf["pong"])}
      /\ cap["pong"] # -1 /\ ~Fails => inbox'[1] = Append(inbox[1], buf["pong"])
  <2>1. Append(inbox[1], buf["pong"]) \in Seq(Message)
    BY PartsType, HeldAppend DEF VInv
  <2>2. inbox \in [Tids -> Seq(Message)]
    BY DEF VInv, VType
  <2>3. CASE inbox' = [inbox EXCEPT ![1] = Append(@, buf["pong"])] /\ cap["pong"] # -1
    BY <2>1, <2>2, <2>3 DEF Tids
  <2>4. CASE inbox' = inbox /\ (cap["pong"] = -1 \/ Fails)
    BY <2>2, <2>4
  <2> QED BY <1>2, <2>3, <2>4
<1>5. main \in {"send", "recv"}
  BY <1>1 DEF VInv, VStart, VType, Quiet
<1>6. VType'
  BY <1>1, <1>3, <1>4 DEF VInv, VType
<1>7. VStart'
  BY <1>1, <1>3, <1>5 DEF VInv, VStart
<1>8. VFlow'
  <2> SUFFICES ASSUME failures' = 0
               PROVE  main' = "recv" /\ UnderWay' /\ cap'["main"] = 2
    BY DEF VFlow
  <2>1. main = "recv" /\ UnderWay /\ cap["main"] = 2 /\ cap["pong"] = 1
    BY <1>1, <1>3, <1>5 DEF VInv, VStart, VFlow, Quiet
  <2>2. inbox'[1] = Append(<<>>, buf["pong"]) /\ inbox'[2] = <<>>
    BY <1>1, <1>3, <1>4, <2>1 DEF UnderWay
  <2>3. Len(Append(<<>>, buf["pong"])) = 1
    OBVIOUS
  <2> QED BY <1>1, <2>1, <2>2, <2>3 DEF UnderWay
<1>9. VOrder'
  <2>1. WithPong = {buf["pong"]} /\ WithPong' = {}
    BY <1>1 DEF WithPong
  <2>2. /\ Ordered(buf["main"], inbox[1], {}, inbox[2], sent)
        /\ Ordered(buf["main"], Append(inbox[1], buf["pong"]), {}, inbox[2], sent)
    BY <2>1, PartsType, OrderedSendPong DEF VInv, VType, VOrder
  <2> QED BY <1>1, <1>4, <2>1, <2>2 DEF VOrder
<1>10. VLag'
  BY <1>1 DEF VInv, VLag
<1> QED BY <1>6, <1>7, <1>8, <1>9, <1>10 DEF VInv

LEMMA VInvariant == VSpec => []VInv
<1>1. VInit => VInv
  BY VInvInit
<1>2. VInv /\ [VNext]_vbinderVars => VInv'
  <2> SUFFICES ASSUME VInv, [VNext]_vbinderVars PROVE VInv'
    OBVIOUS
  <2>1. CASE UNCHANGED vbinderVars
    BY <2>1 DEF vbinderVars, VInv, VType, VStart, VFlow, VOrder, VLag, WithPong, Quiet,
       UnderWay, TooEarly
  <2> QED BY <2>1, SetupKeeps, WakeUpKeeps, SendPingKeeps, RecvPingKeeps,
             StartPongKeeps, RecvPongKeeps, SendPongKeeps DEF VNext, Main, Pong
<1> QED BY <1>1, <1>2, PTL DEF VSpec

\* Type correctness: i, round and the number of failures stay in their ranges.
THEOREM VTypeCorrect == VSpec => []VTypeOK
<1>1. VInv => VTypeOK
  BY DEF VInv, VType, VTypeOK
<1> QED BY <1>1, VInvariant, PTL

\* An iteration of start_ping that ends has received its own message, or one that
\* is behind it by no more than the receives of main that have failed (main.c
\* ignores their results), for any number of failures of any call.
THEOREM EchoIsOwnCorrect == VSpec => []EchoIsOwn
<1>1. VInv => EchoIsOwn
  <2> SUFFICES ASSUME VInv, main = "send", Len(sent) > skipped
               PROVE  \E behind \in 0..skipped : buf["main"] = sent[Len(sent) - behind]
    BY DEF EchoIsOwn
  <2>1. /\ buf["main"].n \in Nat /\ Len(sent) \in Nat /\ skipped \in Nat
        /\ buf["main"].n + skipped >= Len(sent)
    BY PartsType DEF VInv, VType, VLag
  <2>2. buf["main"] # NoMessage
    BY <2>1 DEF NoMessage
  <2>3. buf["main"].n \in 1..Len(sent) /\ buf["main"] = sent[buf["main"].n]
    BY <2>2 DEF VInv, VOrder, Ordered, Genuine
  <2>4. \A l, k, z \in Nat : k \in 1..l /\ k + z >= l =>
            l - k \in 0..z /\ l - (l - k) = k
    OBVIOUS
  <2>5. /\ Len(sent) - buf["main"].n \in 0..skipped
        /\ Len(sent) - (Len(sent) - buf["main"].n) = buf["main"].n
    BY <2>1, <2>3, <2>4
  <2> QED BY <2>3, <2>5
<1> QED BY <1>1, VInvariant, PTL

\* The two threads sleep on each other only after an early wake-up or a call
\* that failed.
THEOREM StuckOnlyIfEarlyCorrect == VSpec => []StuckOnlyIfEarly
<1>1. VInv => StuckOnlyIfEarly
  <2> SUFFICES ASSUME VInv, main = "recv", pong = "recv",
                      inbox[1] = <<>>, inbox[2] = <<>>, ~(failures > 0)
               PROVE  cap["main"] = -1 /\ Len(sent) = 1
    BY DEF StuckOnlyIfEarly
  <2>1. failures = 0
    BY TimesAssumption DEF VInv, VType
  <2>2. Len(inbox[1]) # 1 /\ Len(inbox[2]) # 1
    OBVIOUS
  <2> QED BY <2>1, <2>2 DEF VInv, VFlow, UnderWay, TooEarly
<1> QED BY <1>1, VInvariant, PTL

\* A tid that can be read belongs to a channel that exists, if no call has failed.
THEOREM TidMeansChannelCorrect == VSpec => []TidMeansChannel
<1>1. VInv => TidMeansChannel
  BY DEF VInv, VStart, TidMeansChannel
<1> QED BY <1>1, VInvariant, PTL

-----------------------------------------------------------------------------
(* bench-bootanim *)

\* The inductive invariant: what the thread has let go of before each of its
\* last steps; once the driver is closed it does nothing more.
BootInv ==
    /\ tex \in [1..2 -> {"none", "loaded", "deleted"}]
    /\ mainThread = "construct" => anim = "off"
    /\ ~driver => anim = "gone"
    /\ anim \in {"teardown", "stop"} => tex = [k \in 1..2 |-> "deleted"]
    /\ anim = "stop" => gl = "destroyed" /\ ~surface
    /\ ~driver => /\ gl = "destroyed" /\ ~surface
                  /\ tex = [k \in 1..2 |-> "deleted"]

LEMMA BootInvStep == BootInv /\ [BootNext]_bootVars => BootInv'
<1> SUFFICES ASSUME BootInv, [BootNext]_bootVars PROVE BootInv'
  OBVIOUS
<1> USE DEF BootInv, drawVars
<1>1. CASE Construct
  BY <1>1 DEF Construct
<1>2. CASE LeavePool
  BY <1>2 DEF LeavePool
<1>3. CASE FlingerDies
  BY <1>3 DEF FlingerDies
<1>4. CASE readyToRun
  BY <1>4 DEF readyToRun
<1>5. CASE initTexture
  BY <1>5 DEF initTexture
<1>6. CASE Clear \/ Frame \/ FramesDone
  BY <1>6 DEF Clear, Frame, FramesDone
<1>7. CASE Report
  BY <1>7 DEF Report
<1>8. CASE Teardown
  BY <1>8 DEF Teardown
<1>9. CASE StopProcess
  BY <1>9 DEF StopProcess
<1>10. CASE UNCHANGED bootVars
  BY <1>10 DEF bootVars
<1> QED BY <1>1, <1>2, <1>3, <1>4, <1>5, <1>6, <1>7, <1>8, <1>9, <1>10 DEF BootNext, Animation

\* A process that is stopped has released all it had set up.
THEOREM NothingLeftBehindCorrect == BootSpec => []NothingLeftBehind
<1>1. BootInit => BootInv
  BY DEF BootInit, BootInv
<1>2. BootInv => NothingLeftBehind
  BY DEF BootInv, NothingLeftBehind
<1> QED BY <1>1, <1>2, BootInvStep, PTL DEF BootSpec

-----------------------------------------------------------------------------
(* BrowserBench *)

Load == [url : Int, for : Int]
Page == [url : Int, for : Int, started : Int]
Entry == [first : Int, second : Int]

\* The types of the recorder and of the WebView.
EvalType ==
    /\ lines \in Nat /\ mCurrentEvaluation \in Nat
    /\ mResult \in [0..(Size - 1) -> Entry]
    /\ loads \in Seq(Load)
    /\ page \in Page
    /\ last \in Page
    /\ now \in Int /\ repeats \in Nat

\* A page that is loading or waits to be loaded for an entry: at most as many
\* entries behind the current one as onPageFinished was repeated.
Behind(l) ==
    /\ l.url # Blank <=> l.for >= 0
    /\ l.for >= 0 => l.for <= mCurrentEvaluation /\ mCurrentEvaluation - l.for <= repeats

\* The inductive invariant: pages are loaded in the order of their entries, and
\* the entries after the current one are as loadSiteLists made them.
EvalInv ==
    /\ EvalType
    /\ Behind(page)
    /\ \A n \in 1..Len(loads) : Behind(loads[n])
    /\ \A m, n \in 1..Len(loads) : m < n /\ loads[m].for >= 0 /\ loads[n].for >= 0 =>
          loads[m].for < loads[n].for
    /\ \A n \in 1..Len(loads) : page.for >= 0 /\ loads[n].for >= 0 => page.for < loads[n].for
    /\ \A k \in 0..(Size - 1) : k > mCurrentEvaluation => mResult[k].first = SiteOf(k)
    /\ ~mFinished /\ mCurrentEvaluation < Size /\ page.for = mCurrentEvaluation =>
          mResult[mCurrentEvaluation].second = page.started

LEMMA SizePositive == ASSUME lines \in Nat PROVE Size \in Nat /\ Size > 0
<1>1. PICK n \in Nat \ {0} : n = IF lines = 0 THEN 1 ELSE lines
  OBVIOUS
<1>2. \A x, y \in Nat \ {0} : x * y \in Nat /\ x * y > 0
  OBVIOUS
<1> QED BY <1>1, <1>2, ListAssumption DEF Size

LEMMA SiteIsAPage == ASSUME NEW k \in Nat PROVE SiteOf(k) \in Nat /\ SiteOf(k) > 0
<1>1. k \div sRepeatTimes \in Nat
  BY ListAssumption
<1> QED BY <1>1 DEF SiteOf

LEMMA NoneValue ==
    /\ None \in Page
    /\ None.url = 0 /\ None.for = -1 /\ Blank = 0
  BY DEF None, Blank, Page

LEMMA EvalInvInit == EvalInit => EvalInv
<1> SUFFICES ASSUME EvalInit PROVE EvalInv
  OBVIOUS
<1>1. lines \in Nat /\ Size \in Nat /\ Size > 0
  BY SizePositive, ListAssumption DEF EvalInit
<1>2. \A k \in 0..(Size - 1) : SiteOf(k) \in Nat /\ SiteOf(k) > 0
  BY <1>1, SiteIsAPage
<1>3. SiteOf(0) \in Nat /\ SiteOf(0) > 0
  BY SiteIsAPage
<1>4. /\ mResult \in [0..(Size - 1) -> Entry]
      /\ \A k \in 0..(Size - 1) : mResult[k].first = SiteOf(k)
  BY <1>2 DEF EvalInit, loadSiteLists, Entry
<1>5. /\ loads \in Seq(Load) /\ Len(loads) = 2
      /\ loads[1].url = 0 /\ loads[1].for = -1 /\ loads[2].url = SiteOf(0) /\ loads[2].for = 0
  BY <1>3 DEF EvalInit, Load, Blank
<1>6. EvalType
  BY <1>1, <1>4, <1>5, NoneValue DEF EvalInit, EvalType
<1>7. \A n \in 1..Len(loads) : n = 1 \/ n = 2
  BY <1>5
<1>8. /\ page.url = 0 /\ page.for = -1 /\ mCurrentEvaluation = 0 /\ repeats = 0 /\ Blank = 0
  BY NoneValue DEF EvalInit
<1>9. \A n \in 1..Len(loads) : Behind(loads[n])
  BY <1>3, <1>5, <1>7, <1>8 DEF Behind
<1>10. Behind(page)
  BY <1>8 DEF Behind
<1>11. \A m, n \in 1..Len(loads) : m < n => loads[m].for = -1
  BY <1>5, <1>7
<1> QED BY <1>4, <1>6, <1>8, <1>9, <1>10, <1>11 DEF EvalInv

\* The recorder is still measuring.
Active == mCurrentEvaluation < Size /\ ~mFinished

\* What is on its way may fall one entry further behind.
MayFallBehind ==
    \A n \in 1..Len(loads) : loads[n].for >= 0 =>
        mCurrentEvaluation + 1 - loads[n].for <= repeats'

\* The page of the current entry ends: the next one is loaded, and what was on its
\* way before is one entry further behind.
LEMMA FinishKeeps ==
    ASSUME EvalInv, NEW url \in Int, url # Blank, Active, PageFinished(url),
           page' = None, last' \in Page, now' \in Int, repeats' \in Nat, MayFallBehind
    PROVE  EvalInv'
<1>1. PICK c, q : c = mCurrentEvaluation /\ q = Len(loads)
  OBVIOUS
<1>2. lines \in Nat /\ c \in Nat /\ Size \in Nat /\ c < Size
  BY <1>1, SizePositive DEF EvalInv, EvalType, Active
<1>3. /\ mResult \in [0..(Size - 1) -> Entry] /\ c \in 0..(Size - 1) /\ now \in Int
  BY <1>1, <1>2 DEF EvalInv, EvalType
<1>4. loads \in Seq(Load) /\ q \in Nat
  BY <1>1 DEF EvalInv, EvalType
<1>5. /\ mResult' = [mResult EXCEPT ![c] = [first |-> url, second |-> now - @.second]]
      /\ lines' = lines /\ loadNextPage(mResult')
  BY <1>1, <1>2 DEF PageFinished, Active
<1>6. Size' = Size
  BY <1>5 DEF Size
<1>7. /\ mResult' \in [0..(Size - 1) -> Entry]
      /\ \A k \in 0..(Size - 1) : k > c => mResult'[k] = mResult[k]
  <2>1. now - mResult[c].second \in Int
    BY <1>3 DEF Entry
  <2>2. [first |-> url, second |-> now - mResult[c].second] \in Entry
    BY <2>1 DEF Entry
  <2> HIDE DEF Entry
  <2> QED BY <1>2, <1>3, <1>5, <2>2
<1>8. mCurrentEvaluation' = c + 1
  BY <1>1, <1>5 DEF loadNextPage
<1>9. \A k \in 0..(Size - 1) : k > c + 1 => mResult'[k].first = SiteOf(k)
  BY <1>1, <1>2, <1>7 DEF EvalInv
<1>10. PICK b, t : /\ b = [url |-> Blank, for |-> -1]
                   /\ t = [url |-> mResult'[c + 1].first, for |-> c + 1]
  OBVIOUS
<1>11. b \in Load /\ b.url = 0 /\ b.for = -1 /\ t.for = c + 1
  BY <1>10 DEF Load, Blank
<1>12. ASSUME c + 1 < Size PROVE t \in Load /\ t.url # Blank
  <2>1. c + 1 \in 0..(Size - 1) /\ c + 1 > c /\ c + 1 \in Nat
    BY ONLY <1>2, <1>12
  <2>2. mResult'[c + 1].first = SiteOf(c + 1)
    BY <1>1, <1>7, <2>1 DEF EvalInv
  <2>3. SiteOf(c + 1) \in Nat /\ SiteOf(c + 1) > 0
    BY ONLY <2>1, SiteIsAPage
  <2>4. t.url = SiteOf(c + 1)
    BY <1>10, <2>2
  <2>5. t \in Load
    BY <1>10, <2>1, <2>2, <2>3 DEF Load
  <2> QED BY ONLY <2>3, <2>4, <2>5 DEF Blank
<1>13. loads' = loads \o (IF c + 1 >= Size THEN <<b>> ELSE <<b, t>>)
  BY <1>1, <1>5, <1>10 DEF loadNextPage
<1>14. /\ loads' \in Seq(Load) /\ Len(loads') \in {q + 1, q + 2}
       /\ \A n \in 1..q : loads'[n] = loads[n]
       /\ loads'[q + 1] = b
       /\ Len(loads') = q + 2 => c + 1 < Size /\ loads'[q + 2] = t
  <2>0. b \in Load
    BY <1>11
  <2>1. CASE c + 1 >= Size
    <3>1. loads' = loads \o <<b>>
      BY ONLY <1>13, <2>1
    <3> QED BY ONLY <1>1, <1>4, <2>0, <3>1
  <2>2. CASE c + 1 < Size
    <3>1. ~(c + 1 >= Size)
      BY ONLY <1>2, <2>2
    <3>2. loads' = loads \o <<b, t>>
      BY ONLY <1>13, <3>1
    <3>3. t \in Load
      BY <1>12, <2>2
    <3> QED BY ONLY <1>1, <1>4, <2>0, <2>2, <3>2, <3>3
  <2> QED BY ONLY <1>2, <2>1, <2>2
<1>15. EvalType'
  <2>1. c + 1 \in Nat /\ None \in Page
    BY <1>2, NoneValue
  <2> QED BY <1>2, <1>5, <1>6, <1>7, <1>8, <1>14, <2>1 DEF EvalType
<1>16. ASSUME NEW n \in 1..Len(loads')
       PROVE  \/ n \in 1..q /\ loads'[n] = loads[n]
              \/ n = q + 1 /\ loads'[n] = b
              \/ n = q + 2 /\ loads'[n] = t /\ c + 1 < Size
  BY ONLY <1>4, <1>14, <1>16
<1>17. ASSUME NEW n \in 1..q
       PROVE  /\ loads[n].url # Blank <=> loads[n].for >= 0
              /\ loads[n].for >= 0 => loads[n].for <= c /\ c + 1 - loads[n].for <= repeats'
              /\ loads[n].for \in Int
  <2>1. Behind(loads[n])
    BY <1>1, <1>17 DEF EvalInv
  <2>2. loads[n] \in Load
    BY ONLY <1>1, <1>4, <1>17
  <2>3. loads[n].for \in Int
    BY <2>2 DEF Load
  <2>4. loads[n].for >= 0 => c + 1 - loads[n].for <= repeats'
    BY <1>1, <1>17 DEF MayFallBehind
  <2> QED BY <1>1, <2>1, <2>3, <2>4 DEF Behind
<1>18. ASSUME NEW n \in 1..Len(loads') PROVE Behind(loads[n])'
  <2>1. CASE n \in 1..q /\ loads'[n] = loads[n]
    <3>1. PICK l : l = loads[n] /\ l = loads'[n]
      BY ONLY <2>1
    <3>2. /\ l.url # Blank <=> l.for >= 0
          /\ l.for >= 0 => l.for <= c /\ c + 1 - l.for <= repeats'
          /\ l.for \in Int
      BY <1>17, <2>1, <3>1
    <3>3. l.for >= 0 => l.for <= c + 1
      BY ONLY <1>2, <3>2
    <3>4. Behind(l)'
      BY ONLY <1>2, <1>8, <3>2, <3>3 DEF Behind
    <3> QED BY ONLY <3>1, <3>4
  <2>2. CASE n = q + 1 /\ loads'[n] = b
    BY ONLY <1>11, <2>2 DEF Behind, Blank
  <2>3. CASE n = q + 2 /\ loads'[n] = t /\ c + 1 < Size
    <3>1. c + 1 - (c + 1) = 0 /\ c + 1 >= 0
      BY ONLY <1>2
    <3>2. repeats' >= 0 /\ c + 1 <= c + 1
      BY ONLY <1>2, repeats' \in Nat
    <3>3. t.for = c + 1 /\ t.url # Blank
      BY <1>11, <1>12, <2>3
    <3>4. loads'[n].for = c + 1 /\ loads'[n].url # Blank /\ mCurrentEvaluation' = c + 1
      BY ONLY <1>8, <2>3, <3>3
    <3>5. mCurrentEvaluation' - loads'[n].for <= repeats'
      BY ONLY <3>1, <3>2, <3>4
    <3> QED BY ONLY <3>1, <3>2, <3>4, <3>5 DEF Behind
  <2> QED BY ONLY <1>16, <1>18, <2>1, <2>2, <2>3
<1>19. ASSUME NEW m \in 1..Len(loads'), NEW n \in 1..Len(loads'),
              m < n, loads'[m].for >= 0, loads'[n].for >= 0
       PROVE  loads'[m].for < loads'[n].for
  <2>1. loads'[m] # b /\ loads'[n] # b
    BY ONLY <1>11, <1>19
  <2>2. \/ n \in 1..q /\ loads'[n] = loads[n]
        \/ n = q + 2 /\ loads'[n] = t
    BY ONLY <1>16, <1>19, <2>1
  <2>3. m \in 1..q /\ loads'[m] = loads[m]
    <3>1. m # q + 2
      BY ONLY <1>4, <1>14, <1>19
    <3> QED BY ONLY <1>16, <1>19, <2>1, <3>1
  <2>4. CASE n \in 1..q /\ loads'[n] = loads[n]
    BY <1>1, <1>19, <2>3, <2>4 DEF EvalInv
  <2>5. CASE n = q + 2 /\ loads'[n] = t
    <3>1. loads[m].for <= c /\ loads[m].for \in Int
      BY ONLY <1>17, <1>19, <2>3
    <3> QED BY ONLY <1>2, <1>11, <2>3, <2>5, <3>1
  <2> QED BY ONLY <2>2, <2>4, <2>5
<1>20. page'.for = -1 /\ page'.url = Blank
  BY NoneValue
<1>21. Behind(page)'
  BY ONLY <1>20 DEF Behind
<1>22. page'.for # mCurrentEvaluation'
  BY ONLY <1>2, <1>8, <1>20
<1> QED BY ONLY <1>6, <1>8, <1>9, <1>15, <1>18, <1>19, <1>20, <1>21, <1>22 DEF EvalInv

\* The first load is taken out of the queue; what follows it stays in order.
LEMMA TailKeepsOrder ==
    ASSUME EvalInv, loads # <<>>, loads' = Tail(loads),
           UNCHANGED <<mCurrentEvaluation, repeats>>
    PROVE  /\ loads' \in Seq(Load) /\ loads[1] \in Load /\ 1 \in 1..Len(loads)
           /\ \A n \in 1..Len(loads') :
                 loads'[n] = loads[n + 1] /\ n + 1 \in 1..Len(loads) /\ 1 < n + 1
           /\ \A n \in 1..Len(loads') : Behind(loads[n])'
           /\ \A m, n \in 1..Len(loads') : m < n /\ loads'[m].for >= 0 /\ loads'[n].for >= 0 =>
                 loads'[m].for < loads'[n].for
<1>1. loads \in Seq(Load) /\ Len(loads) \in Nat /\ Len(loads) > 0
  BY DEF EvalInv, EvalType
<1>2. loads' \in Seq(Load) /\ Len(loads') = Len(loads) - 1
  BY <1>1
<1>3. \A n \in 1..Len(loads') : loads'[n] = loads[n + 1]
  BY <1>1, <1>2
<1>4. \A n \in 1..Len(loads') : n + 1 \in 1..Len(loads) /\ 1 < n + 1
  BY ONLY <1>1, <1>2
<1>5. ASSUME NEW n \in 1..Len(loads') PROVE Behind(loads[n])'
  <2>1. Behind(loads[n + 1])
    BY <1>4, <1>5 DEF EvalInv
  <2>2. loads'[n] = loads[n + 1] /\ mCurrentEvaluation' = mCurrentEvaluation /\ repeats' = repeats
    BY <1>3, <1>5
  <2> QED BY ONLY <2>1, <2>2 DEF Behind
<1>6. ASSUME NEW m \in 1..Len(loads'), NEW n \in 1..Len(loads'),
             m < n, loads'[m].for >= 0, loads'[n].for >= 0
      PROVE  loads'[m].for < loads'[n].for
  <2>1. /\ loads'[m] = loads[m + 1] /\ m + 1 \in 1..Len(loads)
        /\ loads'[n] = loads[n + 1] /\ n + 1 \in 1..Len(loads)
    BY ONLY <1>3, <1>4, <1>6
  <2>2. m + 1 < n + 1
    BY ONLY <1>2, <1>1, <1>6
  <2> QED BY <1>6, <2>1, <2>2 DEF EvalInv
<1>7. loads[1] \in Load /\ 1 \in 1..Len(loads)
  BY <1>1
<1> QED BY ONLY <1>2, <1>3, <1>4, <1>5, <1>6, <1>7

\* A page starts, for the first time or after a redirection.
LEMMA StartedValue ==
    ASSUME EvalInv, NEW url \in Int, PageStarted(url)
    PROVE  /\ UNCHANGED <<lines, mCurrentEvaluation, mFinished>> /\ Size' = Size
           /\ mResult' \in [0..(Size - 1) -> Entry]
           /\ \A k \in 0..(Size - 1) : k > mCurrentEvaluation => mResult'[k] = mResult[k]
           /\ Active => mResult'[mCurrentEvaluation].second = now
<1>1. /\ lines \in Nat /\ Size \in Nat /\ mCurrentEvaluation \in Nat /\ now \in Int
      /\ mResult \in [0..(Size - 1) -> Entry]
  BY SizePositive DEF EvalInv, EvalType
<1>2. CASE ~Active
  <2>1. UNCHANGED <<lines, mCurrentEvaluation, mFinished, mResult>>
    BY <1>1, <1>2 DEF PageStarted, Active, recorderVars
  <2>2. Size' = Size
    BY <2>1 DEF Size
  <2> QED BY <1>1, <1>2, <2>1, <2>2
<1>3. CASE Active
  <2>1. /\ UNCHANGED <<lines, mCurrentEvaluation, mFinished>>
        /\ mResult' = [mResult EXCEPT ![mCurrentEvaluation] = [first |-> url, second |-> now]]
    BY <1>1, <1>3 DEF PageStarted, Active
  <2>2. Size' = Size
    BY <2>1 DEF Size
  <2>3. PICK e : e = [first |-> url, second |-> now]
    OBVIOUS
  <2>4. e \in Entry /\ e.second = now
    BY <1>1, <2>3 DEF Entry
  <2>5. mCurrentEvaluation \in 0..(Size - 1)
    BY <1>1, <1>3 DEF Active
  <2>6. mResult' = [mResult EXCEPT ![mCurrentEvaluation] = e]
    BY <2>1, <2>3
  <2>7. /\ mResult' \in [0..(Size - 1) -> Entry]
        /\ \A k \in 0..(Size - 1) : k > mCurrentEvaluation => mResult'[k] = mResult[k]
        /\ mResult'[mCurrentEvaluation] = e
    BY ONLY <1>1, <2>4, <2>5, <2>6
  <2> QED BY <2>1, <2>2, <2>4, <2>7
<1> QED BY <1>2, <1>3

LEMMA EvalInvStep == ASSUME EvalInv, [EvalNext]_evalVars PROVE EvalInv'
<1>0. /\ lines \in Nat /\ Size \in Nat /\ mCurrentEvaluation \in Nat /\ now \in Int
      /\ now + 1 \in Int /\ repeats \in Nat /\ page \in Page /\ last \in Page
      /\ loads \in Seq(Load) /\ mResult \in [0..(Size - 1) -> Entry]
  BY SizePositive DEF EvalInv, EvalType
<1>1. CASE onPageStarted
  <2>1. /\ loads # <<>> /\ loads' = Tail(loads) /\ Head(loads) = loads[1]
        /\ page' = [url |-> loads[1].url, for |-> loads[1].for, started |-> now]
        /\ PageStarted(loads[1].url) /\ now' = now + 1 /\ UNCHANGED <<last, repeats>>
    BY <1>0, <1>1 DEF onPageStarted, Tick
  <2>2. loads[1] \in Load
    BY <1>0, <2>1
  <2>3. loads[1].url \in Int /\ loads[1].for \in Int
    BY <2>2 DEF Load
  <2>4. /\ UNCHANGED <<lines, mCurrentEvaluation, mFinished>> /\ Size' = Size
        /\ mResult' \in [0..(Size - 1) -> Entry]
        /\ \A k \in 0..(Size - 1) : k > mCurrentEvaluation => mResult'[k] = mResult[k]
        /\ Active => mResult'[mCurrentEvaluation].second = now
    BY <2>1, <2>3, StartedValue
  <2>5. /\ loads' \in Seq(Load) /\ 1 \in 1..Len(loads)
        /\ \A n \in 1..Len(loads') :
              loads'[n] = loads[n + 1] /\ n + 1 \in 1..Len(loads) /\ 1 < n + 1
        /\ \A n \in 1..Len(loads') : Behind(loads[n])'
        /\ \A m, n \in 1..Len(loads') : m < n /\ loads'[m].for >= 0 /\ loads'[n].for >= 0 =>
              loads'[m].for < loads'[n].for
    BY <2>1, <2>4, TailKeepsOrder
  <2>6. /\ page' \in Page /\ page'.url = loads[1].url /\ page'.for = loads[1].for
        /\ page'.started = now
    BY <1>0, <2>1, <2>3 DEF Page
  <2>7. Behind(page)'
    <3>1. Behind(loads[1])
      BY <2>5 DEF EvalInv
    <3> QED BY ONLY <2>1, <2>4, <2>6, <3>1 DEF Behind
  <2>8. ASSUME NEW n \in 1..Len(loads'), page'.for >= 0, loads'[n].for >= 0
        PROVE  page'.for < loads'[n].for
    <3>1. loads'[n] = loads[n + 1] /\ n + 1 \in 1..Len(loads) /\ 1 < n + 1
      BY ONLY <2>5, <2>8
    <3> QED BY <2>5, <2>6, <2>8, <3>1 DEF EvalInv
  <2>9. EvalType'
    BY <1>0, <2>1, <2>4, <2>5, <2>6 DEF EvalType
  <2>10. \A k \in 0..(Size' - 1) : k > mCurrentEvaluation' => mResult'[k].first = SiteOf(k)
    BY <2>4 DEF EvalInv
  <2>11. ~mFinished' /\ mCurrentEvaluation' < Size' =>
            mResult'[mCurrentEvaluation'].second = page'.started
    BY <2>4, <2>6 DEF Active
  <2> QED BY ONLY <2>5, <2>7, <2>8, <2>9, <2>10, <2>11 DEF EvalInv
<1>2. CASE Redirect
  <2>0. PICK url : url = RedirectOf(page.url)
    OBVIOUS
  <2>1. /\ page.url > 0 /\ page' = [page EXCEPT !.url = url, !.started = now]
        /\ PageStarted(url) /\ now' = now + 1 /\ UNCHANGED <<loads, last, repeats>>
    BY <1>2, <2>0 DEF Redirect, Tick
  <2>2. page.url \in Int /\ page.for \in Int /\ url \in Int /\ url # Blank /\ page.url # Blank
    BY <1>0, <2>0, <2>1 DEF Page, RedirectOf, Blank
  <2>4. /\ UNCHANGED <<lines, mCurrentEvaluation, mFinished>> /\ Size' = Size
        /\ mResult' \in [0..(Size - 1) -> Entry]
        /\ \A k \in 0..(Size - 1) : k > mCurrentEvaluation => mResult'[k] = mResult[k]
        /\ Active => mResult'[mCurrentEvaluation].second = now
    BY <2>1, <2>2, StartedValue
  <2>6. page' \in Page /\ page'.url = url /\ page'.for = page.for /\ page'.started = now
    BY <1>0, <2>1, <2>2 DEF Page
  <2>7. Behind(page)'
    <3>1. Behind(page)
      BY DEF EvalInv
    <3> QED BY ONLY <2>1, <2>2, <2>4, <2>6, <3>1 DEF Behind
  <2>8. \A n \in 1..Len(loads') : Behind(loads[n])'
    BY <2>1, <2>4 DEF EvalInv, Behind
  <2>9. EvalType'
    BY <1>0, <2>1, <2>4, <2>6 DEF EvalType
  <2>10. \A k \in 0..(Size' - 1) : k > mCurrentEvaluation' => mResult'[k].first = SiteOf(k)
    BY <2>4 DEF EvalInv
  <2>11. ~mFinished' /\ mCurrentEvaluation' < Size' =>
            mResult'[mCurrentEvaluation'].second = page'.started
    BY <2>4, <2>6 DEF Active
  <2>12. /\ \A m, n \in 1..Len(loads') : m < n /\ loads'[m].for >= 0 /\ loads'[n].for >= 0 =>
              loads'[m].for < loads'[n].for
         /\ \A n \in 1..Len(loads') : page'.for >= 0 /\ loads'[n].for >= 0 =>
              page'.for < loads'[n].for
    BY <2>1, <2>6 DEF EvalInv
  <2> QED BY ONLY <2>7, <2>8, <2>9, <2>10, <2>11, <2>12 DEF EvalInv
<1>3. CASE Supersede
  <2>1. /\ loads # <<>> /\ loads' = Tail(loads)
        /\ UNCHANGED <<lines, mCurrentEvaluation, mFinished, mResult, page, last, now, repeats>>
    BY <1>0, <1>3 DEF Supersede, recorderVars
  <2>2. /\ loads' \in Seq(Load)
        /\ \A n \in 1..Len(loads') :
              loads'[n] = loads[n + 1] /\ n + 1 \in 1..Len(loads) /\ 1 < n + 1
        /\ \A n \in 1..Len(loads') : Behind(loads[n])'
        /\ \A m, n \in 1..Len(loads') : m < n /\ loads'[m].for >= 0 /\ loads'[n].for >= 0 =>
              loads'[m].for < loads'[n].for
    BY <2>1, TailKeepsOrder
  <2>3. \A n \in 1..Len(loads') : page'.for >= 0 /\ loads'[n].for >= 0 => page'.for < loads'[n].for
    BY <2>1, <2>2 DEF EvalInv
  <2>4. Size' = Size
    BY <2>1 DEF Size
  <2>5. EvalType'
    BY <2>1, <2>2, <2>4 DEF EvalInv, EvalType
  <2>6. Behind(page)'
    BY <2>1 DEF EvalInv, Behind
  <2> QED BY <2>1, <2>2, <2>3, <2>4, <2>5, <2>6 DEF EvalInv
\* A callback that the recorder ignores.
<1>4. ASSUME UNCHANGED <<lines, mCurrentEvaluation, mFinished, mResult, loads>>,
             page' = page \/ page' = None, last' \in Page, now' \in Int,
             repeats' \in Nat, repeats <= repeats'
      PROVE  EvalInv'
  <2>1. Size' = Size /\ (page' \in Page)
    BY <1>0, <1>4, NoneValue DEF Size
  <2>2. EvalType'
    BY <1>4, <2>1 DEF EvalInv, EvalType
  <2>3. page'.for >= 0 => page' = page
    BY <1>4, NoneValue
  <2>4. Behind(page)'
    <3>1. CASE page' = page
      <4>1. Behind(page) /\ page.for \in Int
        BY <1>0 DEF EvalInv, Page
      <4> QED BY <1>0, <1>4, <3>1, <4>1 DEF Behind
    <3>2. CASE page' = None
      BY <3>2, NoneValue DEF Behind
    <3> QED BY <1>4, <3>1, <3>2
  <2>5. ASSUME NEW n \in 1..Len(loads') PROVE Behind(loads[n])'
    <3>1. loads' = loads /\ mCurrentEvaluation' = mCurrentEvaluation
      BY <1>4
    <3>2. Behind(loads[n]) /\ loads[n] \in Load
      BY <1>0, <2>5, <3>1 DEF EvalInv
    <3>3. loads[n].for \in Int
      BY <3>2 DEF Load
    <3> QED BY ONLY <1>0, <1>4, <3>1, <3>2, <3>3 DEF Behind
  <2>6. page'.for = mCurrentEvaluation' => page' = page
    BY <1>0, <1>4, NoneValue
  <2> QED BY <1>4, <2>1, <2>2, <2>3, <2>4, <2>5, <2>6 DEF EvalInv
<1>5. CASE onPageFinished
  <2>1. /\ page' = None /\ last' = page /\ PageFinished(page.url) /\ now' = now + 1
        /\ UNCHANGED repeats /\ page.url \in Int /\ page.for \in Int
    BY <1>0, <1>5 DEF onPageFinished, Tick, Page
  <2>2. CASE Active /\ page.url # Blank
    <3>1. ASSUME NEW n \in 1..Len(loads), loads[n].for >= 0
          PROVE  mCurrentEvaluation + 1 - loads[n].for <= repeats'
      <4>1. page.for >= 0 /\ mCurrentEvaluation - page.for <= repeats
        BY <2>2 DEF EvalInv, Behind
      <4>2. page.for < loads[n].for
        BY <3>1, <4>1 DEF EvalInv
      <4>3. loads[n].for \in Int
        <5>1. loads[n] \in Load
          BY ONLY <1>0, <3>1
        <5> QED BY <5>1 DEF Load
      <4> QED BY ONLY <1>0, <2>1, <4>1, <4>2, <4>3
    <3>2. MayFallBehind
      BY <3>1 DEF MayFallBehind
    <3> QED BY <1>0, <2>1, <2>2, <3>2, FinishKeeps
  <2>3. CASE ~(Active /\ page.url # Blank)
    <3>1. UNCHANGED <<lines, mCurrentEvaluation, mFinished, mResult, loads>>
      BY <1>0, <2>1, <2>3 DEF PageFinished, Active, recorderVars
    <3> QED BY <1>0, <1>4, <2>1, <3>1
  <2> QED BY <2>2, <2>3
<1>6. CASE FinishedAgain
  <2>1. /\ page' = page /\ page = None /\ last' = last /\ PageFinished(last.url)
        /\ now' = now + 1 /\ repeats' = repeats + 1 /\ last.url \in Int
    BY <1>0, <1>6 DEF FinishedAgain, Tick, Page
  <2>2. repeats' \in Nat /\ repeats <= repeats'
    BY <1>0, <2>1
  <2>3. CASE Active /\ last.url # Blank
    <3>1. ASSUME NEW n \in 1..Len(loads), loads[n].for >= 0
          PROVE  mCurrentEvaluation + 1 - loads[n].for <= repeats'
      <4>1. mCurrentEvaluation - loads[n].for <= repeats
        BY <3>1 DEF EvalInv, Behind
      <4>2. loads[n].for \in Int
        <5>1. loads[n] \in Load
          BY ONLY <1>0, <3>1
        <5> QED BY <5>1 DEF Load
      <4> QED BY ONLY <1>0, <2>1, <4>1, <4>2
    <3>2. MayFallBehind
      BY <3>1 DEF MayFallBehind
    <3> QED BY <1>0, <2>1, <2>2, <2>3, <3>2, FinishKeeps
  <2>4. CASE ~(Active /\ last.url # Blank)
    <3>1. UNCHANGED <<lines, mCurrentEvaluation, mFinished, mResult, loads>>
      BY <1>0, <2>1, <2>4 DEF PageFinished, Active, recorderVars
    <3> QED BY <1>0, <1>4, <2>1, <2>2, <3>1
  <2> QED BY <2>3, <2>4
<1>7. CASE UNCHANGED evalVars
  BY <1>0, <1>4, <1>7 DEF evalVars
<1> QED BY <1>1, <1>2, <1>3, <1>5, <1>6, <1>7 DEF EvalNext

LEMMA EvalInvariant == EvalSpec => []EvalInv
<1>1. EvalInv /\ [EvalNext]_evalVars => EvalInv'
  BY EvalInvStep
<1> QED BY EvalInvInit, <1>1, PTL DEF EvalSpec

\* A page is booked at most as many entries late as onPageFinished was repeated.
THEOREM ShiftIsBoundedCorrect == EvalSpec => []ShiftIsBounded
<1>1. EvalInv => ShiftIsBounded
  BY DEF EvalInv, Behind, ShiftIsBounded
<1> QED BY <1>1, EvalInvariant, PTL

\* A step that closes an entry books the page that was loaded for it, with the
\* time since its last start, as long as onPageFinished was not repeated.
THEOREM MeasuresOwnPageCorrect == EvalSpec => MeasuresOwnPage
<1>1. ASSUME EvalInv, EvalNext, mCurrentEvaluation' # mCurrentEvaluation, repeats' = 0
      PROVE  /\ page.for = mCurrentEvaluation
             /\ mResult'[mCurrentEvaluation] = [first |-> page.url, second |-> now - page.started]
  <2>1. /\ lines \in Nat /\ Size \in Nat /\ mCurrentEvaluation \in Nat /\ repeats \in Nat
        /\ page \in Page /\ mResult \in [0..(Size - 1) -> Entry]
    BY <1>1, SizePositive DEF EvalInv, EvalType
  <2>2. onPageFinished
    <3>1. ~FinishedAgain
      BY <1>1, <2>1 DEF FinishedAgain
    <3>2. ~onPageStarted /\ ~Redirect /\ ~Supersede
      BY <1>1 DEF onPageStarted, Redirect, Supersede, PageStarted, recorderVars
    <3> QED BY <1>1, <3>1, <3>2 DEF EvalNext
  <2>3. PageFinished(page.url) /\ UNCHANGED repeats
    BY <2>2 DEF onPageFinished
  <2>4. Active /\ page.url # Blank
    BY <1>1, <2>1, <2>3 DEF PageFinished, Active, recorderVars
  <2>5. mResult' = [mResult EXCEPT ![mCurrentEvaluation] =
                        [first |-> page.url, second |-> now - @.second]]
    BY <2>1, <2>3, <2>4 DEF PageFinished, Active
  <2>6. page.for = mCurrentEvaluation
    <3>1. /\ page.for >= 0 /\ page.for <= mCurrentEvaluation
          /\ mCurrentEvaluation - page.for <= repeats /\ page.for \in Int
      BY <1>1, <2>1, <2>4 DEF EvalInv, Behind, Page
    <3> QED BY ONLY <1>1, <2>1, <2>3, <3>1
  <2>7. mResult[mCurrentEvaluation].second = page.started
    BY <1>1, <2>4, <2>6 DEF EvalInv, Active
  <2>8. mCurrentEvaluation \in 0..(Size - 1)
    BY <2>1, <2>4 DEF Active
  <2>9. mResult'[mCurrentEvaluation] =
            [first |-> page.url, second |-> now - mResult[mCurrentEvaluation].second]
    BY ONLY <2>1, <2>5, <2>8
  <2> QED BY ONLY <2>6, <2>7, <2>9
<1>2. EvalInv /\ [EvalNext]_evalVars =>
        [mCurrentEvaluation' # mCurrentEvaluation /\ repeats' = 0 =>
            /\ page.for = mCurrentEvaluation
            /\ mResult'[mCurrentEvaluation] =
                  [first |-> page.url, second |-> now - page.started]]_evalVars
  BY <1>1
<1> QED BY <1>2, EvalInvariant, PTL DEF EvalSpec, MeasuresOwnPage

-----------------------------------------------------------------------------
\* What is proved of one program holds of it in the composition that the run
\* checks: there it takes its own steps or none.
THEOREM ProgramsApart == Spec => R2Spec /\ VSpec /\ BootSpec /\ EvalSpec
<1>1. Init => R2Init /\ VInit /\ BootInit /\ EvalInit
  BY DEF Init
<1>2. [Next]_allVars => [R2Next]_r2Vars /\ [VNext]_vbinderVars
                        /\ [BootNext]_bootVars /\ [EvalNext]_evalVars
  <2> SUFFICES ASSUME [Next]_allVars
               PROVE  [R2Next]_r2Vars /\ [VNext]_vbinderVars
                      /\ [BootNext]_bootVars /\ [EvalNext]_evalVars
    OBVIOUS
  <2>1. CASE Runs("libr2", R2Next)
    BY <2>1 DEF Runs
  <2>2. CASE Runs("vbinder", VNext)
    BY <2>2 DEF Runs
  <2>3. CASE Runs("bootanim", BootNext)
    BY <2>3 DEF Runs
  <2>4. CASE Runs("browser", EvalNext)
    BY <2>4 DEF Runs
  <2>5. CASE UNCHANGED allVars
    BY <2>5 DEF allVars
  <2> QED BY <2>1, <2>2, <2>3, <2>4, <2>5 DEF Next
<1> QED BY <1>1, <1>2, PTL DEF Spec, R2Spec, VSpec, BootSpec, EvalSpec
=============================================================================
