------------------------- MODULE VenusServiceProofs -------------------------
(***************************************************************************)
(* Venus loses no upcall and implements UpcallService, for every number of *)
(* workers and every set of threads whose handles fall on distinct         *)
(* workers.  The argument: an upcall is in one place at a time, and where  *)
(* it is says how far the request of its thread has come.                  *)
(***************************************************************************)
EXTENDS VenusProofs, VenusService, FiniteSetTheorems

\* Where an upcall of thread t is.
InSeq(s, t) == \E i \in 1 .. Len(s) : s[i].caller = t
InMailbox(t, w) == arg[w] # NULL /\ arg[w].caller = t
InHands(t, w) == u[w] # NULL /\ u[w].caller = t
Located(t) ==
    \/ InSeq(batch, t) \/ InSeq(glue, t)
    \/ \E w \in Workers : InMailbox(t, w) \/ InHands(t, w)

\* The dispatcher starts when all workers have been created, with empty
\* mailboxes.
Started ==
    /\ proc = "dispatcher_loop" => \A w \in Workers : pc[w] # "none"
    /\ \A w \in Workers : pc[w] = "none" => arg[w] = NULL

-----------------------------------------------------------------------------
(* Places *)

\* Two upcalls of one thread are the same upcall, which is in one place.
LEMMA OnePlace ==
    ASSUME TypeOK, Accounted, NEW t \in Threads
    PROVE  /\ \A v, w \in Workers : InMailbox(t, v) /\ InMailbox(t, w) => v = w
           /\ \A v, w \in Workers : InHands(t, v) /\ InHands(t, w) => v = w
           /\ \A v, w \in Workers : ~(InMailbox(t, v) /\ InHands(t, w))
           /\ \A w \in Workers : InMailbox(t, w) \/ InHands(t, w)
                 => ~InSeq(batch, t) /\ ~InSeq(glue, t)
           /\ ~(InSeq(batch, t) /\ InSeq(glue, t))
<1>1. \A m, n \in Upcall : m.caller = t /\ n.caller = t /\ Outstanding(m) /\ Outstanding(n)
          => m = n
  BY DEF Upcall, Outstanding
<1>2. \A w \in Workers : InMailbox(t, w) => arg[w] \in Upcall /\ Held(arg[w], w)
  BY DEF TypeOK, Accounted, InMailbox
<1>3. \A w \in Workers : InHands(t, w) => u[w] \in Upcall /\ Held(u[w], w)
  BY DEF TypeOK, Accounted, InHands
<1>4. \A v, w \in Workers : InMailbox(t, v) /\ InMailbox(t, w) => v = w
  BY <1>1, <1>2 DEF Held, InMailbox
<1>5. \A v, w \in Workers : InHands(t, v) /\ InHands(t, w) => v = w
  BY <1>1, <1>3 DEF Held, InHands
<1>6. \A v, w \in Workers : ~(InMailbox(t, v) /\ InHands(t, w))
  <2>1. SUFFICES ASSUME NEW v \in Workers, NEW w \in Workers,
                        InMailbox(t, v), InHands(t, w)
                 PROVE  FALSE
    OBVIOUS
  <2>2. v = w
    BY <1>1, <1>2, <1>3, <2>1 DEF Held, InMailbox, InHands
  <2> QED BY <2>1, <2>2 DEF Accounted, InMailbox, InHands
<1>7. \A w \in Workers : InMailbox(t, w) \/ InHands(t, w)
          => ~InSeq(batch, t) /\ ~InSeq(glue, t)
  BY <1>2, <1>3 DEF Held, Absent, InSeq, InMailbox, InHands
<1>8. ~(InSeq(batch, t) /\ InSeq(glue, t))
  BY DEF Accounted, Absent, InSeq
<1> QED BY <1>4, <1>5, <1>6, <1>7, <1>8

\* Queue holds what batch and glue hold.
LEMMA QueueIsBoth ==
    ASSUME TypeOK
    PROVE  /\ Queue \in Seq(Upcall) /\ Len(Queue) = Len(batch) + Len(glue)
           /\ \A i \in 1 .. Len(batch) : Queue[i] = batch[i]
           /\ \A i \in 1 .. Len(glue) : Queue[Len(batch) + i] = glue[i]
           /\ Len(batch) \in Nat /\ Len(glue) \in Nat
<1>1. batch \in Seq(Upcall) /\ glue \in Seq(Upcall)
  BY DEF TypeOK
<1>2. Len(batch) \in Nat /\ Len(glue) \in Nat
  BY <1>1, LenProperties
<1> QED BY <1>1, <1>2, ConcatProperties, SMT DEF Queue

LEMMA QueuedPlaces ==
    ASSUME TypeOK, NEW t \in Threads
    PROVE  Places(t).queued # {} <=> InSeq(batch, t) \/ InSeq(glue, t)
<1> DEFINE P == {i \in 1 .. Len(Queue) : Queue[i].caller = t}
<1>1. Places(t).queued = P
  BY DEF Places
<1>2. ASSUME P # {} PROVE InSeq(batch, t) \/ InSeq(glue, t)
  <2>1. PICK i \in 1 .. Len(Queue) : Queue[i].caller = t
    BY <1>2
  <2>2. CASE i <= Len(batch)
    BY <2>1, <2>2, QueueIsBoth DEF InSeq
  <2>3. CASE i > Len(batch)
    <3>1. i - Len(batch) \in 1 .. Len(glue) /\ i = Len(batch) + (i - Len(batch))
      BY <2>1, <2>3, QueueIsBoth
    <3>2. Queue[i] = glue[i - Len(batch)]
      BY <3>1, QueueIsBoth
    <3> QED BY <2>1, <3>1, <3>2 DEF InSeq
  <2> QED BY <2>1, <2>2, <2>3, QueueIsBoth
<1>3. ASSUME InSeq(batch, t) PROVE P # {}
  <2>1. PICK i \in 1 .. Len(batch) : batch[i].caller = t
    BY <1>3 DEF InSeq
  <2>2. i \in 1 .. Len(Queue) /\ Queue[i] = batch[i]
    BY <2>1, QueueIsBoth
  <2> QED BY <2>1, <2>2
<1>4. ASSUME InSeq(glue, t) PROVE P # {}
  <2>1. PICK i \in 1 .. Len(glue) : glue[i].caller = t
    BY <1>4 DEF InSeq
  <2>2. Len(batch) + i \in 1 .. Len(Queue) /\ Queue[Len(batch) + i] = glue[i]
    BY <2>1, QueueIsBoth
  <2> QED BY <2>1, <2>2
<1> QED BY <1>1, <1>2, <1>3, <1>4

LEMMA QueuedOnce ==
    ASSUME TypeOK, Accounted, NEW t \in Threads,
           NEW i \in Places(t).queued, NEW j \in Places(t).queued
    PROVE  i = j
<1>1. /\ i \in 1 .. Len(Queue) /\ Queue[i].caller = t
      /\ j \in 1 .. Len(Queue) /\ Queue[j].caller = t
  BY DEF Places
<1> DEFINE Index(k) == k - Len(batch)
<1>2. \A k \in 1 .. Len(Queue) :
         \/ k \in 1 .. Len(batch) /\ Queue[k] = batch[k]
         \/ Index(k) \in 1 .. Len(glue) /\ Queue[k] = glue[Index(k)]
  <2> TAKE k \in 1 .. Len(Queue)
  <2>1. CASE k <= Len(batch)
    BY <2>1, QueueIsBoth
  <2>2. CASE k > Len(batch)
    <3>1. Index(k) \in 1 .. Len(glue) /\ k = Len(batch) + Index(k)
      BY <2>2, QueueIsBoth
    <3> QED BY <3>1, QueueIsBoth
  <2> QED BY <2>1, <2>2, QueueIsBoth
<1>3. SeqAccounted(batch) /\ SeqAccounted(glue) /\ ~(InSeq(batch, t) /\ InSeq(glue, t))
  BY OnePlace DEF Accounted
<1>4. CASE i \in 1 .. Len(batch) /\ Queue[i] = batch[i]
  <2>1. j \in 1 .. Len(batch) /\ Queue[j] = batch[j]
    BY <1>1, <1>2, <1>3, <1>4 DEF InSeq
  <2> QED BY <1>1, <1>3, <1>4, <2>1 DEF SeqAccounted
<1>5. CASE Index(i) \in 1 .. Len(glue) /\ Queue[i] = glue[Index(i)]
  <2>1. Index(j) \in 1 .. Len(glue) /\ Queue[j] = glue[Index(j)]
    BY <1>1, <1>2, <1>3, <1>5 DEF InSeq
  <2>2. Index(i) = Index(j)
    BY <1>1, <1>3, <1>5, <2>1 DEF SeqAccounted
  <2> QED BY <1>1, <2>2, QueueIsBoth
<1> QED BY <1>1, <1>2, <1>4, <1>5

\* How many places that makes.
LEMMA CountPlaces ==
    ASSUME TypeOK, Accounted, NEW t \in Threads, kreq[t] # "none" <=> Located(t)
    PROVE  Cardinality(Places(t).queued) + Cardinality(Places(t).mailbox)
             + Cardinality(Places(t).handled) = (IF kreq[t] = "none" THEN 0 ELSE 1)
<1> DEFINE Q == Places(t).queued
           M == Places(t).mailbox
           H == Places(t).handled
<1>1. M = {w \in Workers : InMailbox(t, w)} /\ H = {w \in Workers : InHands(t, w)}
  BY DEF Places, InMailbox, InHands
<1>2. \A x, y \in Q : x = y
  BY QueuedOnce
<1>3. Q # {} <=> InSeq(batch, t) \/ InSeq(glue, t)
  BY QueuedPlaces
<1>4. (Q # {} \/ M # {} \/ H # {}) <=> kreq[t] # "none"
  BY <1>1, <1>3 DEF Located
<1>5. /\ \A x, y \in M : x = y
      /\ \A x, y \in H : x = y
      /\ M = {} \/ (Q = {} /\ H = {})
      /\ H = {} \/ (Q = {} /\ M = {})
  BY <1>1, <1>3, OnePlace
<1>6. \A S : (\A x, y \in S : x = y) => Cardinality(S) = (IF S = {} THEN 0 ELSE 1)
  <2> TAKE S
  <2> HAVE \A x, y \in S : x = y
  <2>1. CASE S = {}
    BY <2>1, FS_EmptySet
  <2>2. CASE S # {}
    <3>1. PICK x : S = {x}
      BY <2>2
    <3> QED BY <2>2, <3>1, FS_Singleton
  <2> QED BY <2>1, <2>2
<1> HIDE DEF Q, M, H
<1>7. /\ Cardinality(Q) = (IF Q = {} THEN 0 ELSE 1)
      /\ Cardinality(M) = (IF M = {} THEN 0 ELSE 1)
      /\ Cardinality(H) = (IF H = {} THEN 0 ELSE 1)
  BY <1>2, <1>5, <1>6
<1>8. Cardinality(Q) + Cardinality(M) + Cardinality(H) = (IF kreq[t] = "none" THEN 0 ELSE 1)
  BY <1>4, <1>5, <1>7
<1> QED BY <1>8 DEF Q, M, H

-----------------------------------------------------------------------------
(* The start *)

LEMMA StartedNext == TypeOK /\ Started /\ [Next]_vars => Started'
<1> SUFFICES ASSUME TypeOK, Started, [Next]_vars PROVE Started'
  OBVIOUS
<1>1. ASSUME NEW t \in Threads, NEW op \in Opcodes, Issue(t, op) PROVE Started'
  BY <1>1 DEF Issue, Started, workerVars
<1>2. CASE init_binder_ipc \/ init_glue \/ LeaveDispatcher \/ ReadUpcalls
  BY <1>2 DEF init_binder_ipc, init_glue, LeaveDispatcher, ReadUpcalls, Exit,
              Started, workerVars
<1>3. CASE init_workers
  <2>1. ASSUME NEW w \in Workers, CreateWorker(w) PROVE Started'
    <3>1. \A v \in Workers : /\ pc'[v] = IF v = w THEN "check" ELSE pc[v]
                             /\ arg'[v] = IF v = w THEN NULL ELSE arg[v]
      BY <2>1 DEF CreateWorker, TypeOK
    <3>2. w = WORKER_NUM - 1 => \A v \in Workers : v = w \/ v \in 0 .. w - 1
      BY WorkerNumAssumption DEF Workers
    <3>3. /\ \A v \in 0 .. w - 1 : pc[v] # "none"
          /\ proc = "init_workers"
          /\ proc' = IF w = WORKER_NUM - 1 THEN "dispatcher_loop" ELSE proc
      BY <2>1 DEF CreateWorker
    <3> QED BY <3>1, <3>2, <3>3 DEF Started
  <2>2. CASE proc = "init_workers" /\ "init" \in Faults /\ Exit
    BY <2>2 DEF Exit, Started, workerVars
  <2> QED BY <1>3, <2>1, <2>2 DEF init_workers
<1>4. CASE post_upcall
  <2> DEFINE w == find_worker(Head(batch))
  <2>1. proc = "dispatcher_loop" /\ \A v \in Workers : pc[v] # "none"
    BY <1>4 DEF post_upcall, Started
  <2>2. UNCHANGED pc \/ pc' = [pc EXCEPT ![w] = "check"]
    BY <1>4 DEF post_upcall, Exit, workerVars
  <2>3. \A v \in Workers : pc'[v] # "none"
    BY <2>1, <2>2 DEF TypeOK
  <2> QED BY <2>3 DEF Started
<1>5. ASSUME NEW w \in Workers, WorkerStep(w) PROVE Started'
  <2>1. /\ pc[w] # "none"
        /\ \A v \in Workers : pc[v] # "none" => pc'[v] # "none"
        /\ \A v \in Workers : pc'[v] = "none" => pc[v] = "none" /\ arg'[v] = arg[v]
        /\ proc' = proc \/ proc' = "exited"
    <3>1. CASE TakeArg(w)
      BY <3>1 DEF TakeArg, Running, Goto, mainVars, TypeOK
    <3>2. CASE Handle(w)
      <4>1. /\ UNCHANGED <<proc, arg>> /\ pc[w] = "handle"
            /\ \/ \E x \in {"reply", "blocked", "dead", "check"} : pc' = [pc EXCEPT ![w] = x]
               \/ \E v \in Sleepers : pc' = [pc EXCEPT ![w] = "reply", ![v] = "reply"]
        BY <3>2 DEF Handle, HandleAtOnce, handle_close, handle_pipe, handle_socket,
             handle_alien_mmap2, handle_poll, handle_binder_write_read,
             handle_futex_wait, handle_futex_wake, HandleUnknown, mainVars, Running, Goto
      <4> QED BY <4>1 DEF TypeOK
    <3>3. CASE BinderReplyNoMemory(w)
      BY <3>3 DEF BinderReplyNoMemory, Running, Exit, workerVars
    <3>4. CASE send_downcall(w)
      BY <3>4 DEF send_downcall, Running, Goto, TypeOK
    <3>5. CASE SpuriousWakeup(w) \/ Unblock(w)
      BY <3>5 DEF SpuriousWakeup, Unblock, Running, Goto, mainVars, TypeOK
    <3> QED BY <1>5, <3>1, <3>2, <3>3, <3>4, <3>5 DEF WorkerStep, worker_loop
  <2> QED BY <2>1 DEF Started
<1>6. CASE UNCHANGED vars
  BY <1>6 DEF vars, Started
<1> QED BY <1>1, <1>2, <1>3, <1>4, <1>5, <1>6 DEF Next, Main, MainRuns, WorkerStep

-----------------------------------------------------------------------------
(* The refinement mapping, on the inductive invariant *)

RInv == TypeOK /\ Accounted /\ Started

LEMMA RInvCorrect == Spec => []RInv
<1>1. Init => RInv
  <2>1. Init => Started
    BY DEF Init, Started
  <2> QED BY <2>1, TypeInit, AccountedInit DEF RInv
<1>2. RInv /\ [Next]_vars => RInv'
  BY TypeNext, AccountedNext, StartedNext DEF RInv
<1> QED BY <1>1, <1>2, PTL DEF Spec

\* The answer to the upcall of t is ready.
AtReply(t) == \E w \in Workers : InHands(t, w) /\ pc[w] = "reply"

\* StageOf in terms of the places.
Stage(t) == IF kreq[t] = "none" THEN "idle"
            ELSE IF AtReply(t) THEN "done"
            ELSE IF Located(t) THEN "pending"
            ELSE "lost"

LEMMA StageValue == TypeOK /\ Accounted => \A t \in Threads : StageOf(t) = Stage(t)
<1> SUFFICES ASSUME TypeOK, Accounted, NEW t \in Threads PROVE StageOf(t) = Stage(t)
  OBVIOUS
<1> DEFINE Q == Places(t).queued
           M == Places(t).mailbox
           H == Places(t).handled
<1>1. M = {w \in Workers : InMailbox(t, w)} /\ H = {w \in Workers : InHands(t, w)}
  BY DEF Places, InMailbox, InHands
<1>2. Q # {} <=> InSeq(batch, t) \/ InSeq(glue, t)
  BY QueuedPlaces
<1>3. Q \cup M \cup H # {} <=> Located(t)
  BY <1>1, <1>2 DEF Located
<1>4. (\E w \in H : pc[w] = "reply") <=> AtReply(t)
  BY <1>1 DEF AtReply
<1>5. StageOf(t) = CASE kreq[t] = "none" -> "idle"
          [] \E w \in H : pc[w] = "reply" -> "done"
          [] Q \cup M \cup H # {} /\ \A w \in H : pc[w] # "reply" -> "pending"
          [] OTHER -> "lost"
  BY DEF StageOf
<1> HIDE DEF Q, M, H
<1>6. CASE kreq[t] = "none"
  <2>1. H = {} /\ Q \cup M \cup H = {}
    <3>1. \A m \in Upcall : Outstanding(m) => m.caller # t
      BY <1>6, OpcodesAssumption DEF Outstanding, Upcall, AsyncOps, SyncOps, BadOps
    <3>2. ~Located(t)
      BY <3>1 DEF Located, InSeq, InMailbox, InHands, Accounted, SeqAccounted, Held, TypeOK
    <3> QED BY <1>1, <1>3, <3>2
  <2> QED BY <1>5, <1>6, <2>1 DEF Stage
<1>7. CASE kreq[t] # "none"
  BY <1>3, <1>4, <1>5, <1>7 DEF Stage
<1> QED BY <1>6, <1>7

\* A step, and what it does to the places, in terms of the service.
LEMMA StageValueNext ==
    ASSUME TypeOK', Accounted' PROVE \A t \in Threads : StageOf(t)' = Stage(t)'
<1>1. (TypeOK /\ Accounted => \A t \in Threads : StageOf(t) = Stage(t))'
  BY StageValue, PTL
<1> QED BY <1>1

Stages == [t \in Threads |-> StageOf(t)]
up == proc # "exited"

\* Where nothing changes for a thread, its stage does not change.
LEMMA SameStage ==
    ASSUME RInv, RInv', NEW t \in Threads, kreq'[t] = kreq[t],
           Located(t)' <=> Located(t), AtReply(t)' <=> AtReply(t)
    PROVE  StageOf(t)' = StageOf(t)
<1>1. StageOf(t) = Stage(t) /\ StageOf(t)' = Stage(t)'
  BY StageValue, StageValueNext DEF RInv
<1> QED BY <1>1 DEF Stage

\* A step that no thread can tell from no step at all.
LEMMA Invisible ==
    ASSUME RInv, RInv', kreq' = kreq, up' <=> up,
           \A t \in Threads : (Located(t)' <=> Located(t)) /\ (AtReply(t)' <=> AtReply(t))
    PROVE  UNCHANGED Service!vars
<1>1. \A t \in Threads : StageOf(t)' = StageOf(t)
  BY SameStage
<1>2. Stages' = Stages
  BY <1>1 DEF Stages
<1>3. (proc # "exited")' = (proc # "exited")
  BY DEF up
<1> QED BY <1>2, <1>3 DEF Service!vars, Stages

\* A step in which only thread t moves on.
LEMMA OneMoves ==
    ASSUME NEW t \in Threads, NEW x,
           \A s \in Threads : StageOf(s)' = IF s = t THEN x ELSE StageOf(s)
    PROVE  Stages' = [Stages EXCEPT ![t] = x]
  BY DEF Stages

\* The process ends: only where something may fail.
LEMMA ExitStops ==
    ASSUME RInv, RInv', Exit, MayLose, up
    PROVE  Service!Stop
<1>1. \A t \in Threads : StageOf(t)' = StageOf(t)
  BY SameStage DEF Exit, workerVars, Located, AtReply, InSeq, InMailbox, InHands
<1>2. Stages' = Stages
  BY <1>1 DEF Stages
<1> QED BY <1>2 DEF Service!Stop, Exit, up, Stages

LEMMA IssueAsks ==
    ASSUME RInv, RInv', NEW t \in Threads, NEW op \in Opcodes, Issue(t, op)
    PROVE  Service!Ask(t, op)
<1> DEFINE m == [op |-> op, caller |-> t]
<1>1. /\ up /\ up' /\ kreq[t] = "none"
      /\ kreq' = [kreq EXCEPT ![t] = op] /\ glue' = Append(glue, m)
      /\ UNCHANGED <<batch, arg, u, pc>>
  BY DEF Issue, up, workerVars
<1>2. op # "none" /\ m.caller = t /\ m \in Upcall
  BY OpcodesAssumption DEF Upcall, AsyncOps, SyncOps, BadOps
<1>3. /\ Len(glue') = Len(glue) + 1 /\ Len(glue) \in Nat
      /\ glue'[Len(glue) + 1] = m
      /\ \A i \in 1 .. Len(glue) : glue'[i] = glue[i]
  BY <1>1, <1>2, AppendProperties, LenProperties DEF RInv, TypeOK
<1>4. \A s \in Threads : s # t => (InSeq(glue, s)' <=> InSeq(glue, s))
  <2> TAKE s \in Threads
  <2> HAVE s # t
  <2>1. ASSUME NEW i \in 1 .. Len(glue'), glue'[i].caller = s PROVE InSeq(glue, s)
    <3>1. i # Len(glue) + 1
      BY <1>2, <1>3, <2>1
    <3> QED BY <1>3, <2>1, <3>1 DEF InSeq
  <2>2. ASSUME NEW i \in 1 .. Len(glue), glue[i].caller = s PROVE InSeq(glue', s)
    BY <1>3, <2>2 DEF InSeq
  <2> QED BY <2>1, <2>2 DEF InSeq
<1>5. InSeq(glue, t)'
  BY <1>2, <1>3 DEF InSeq
<1>6. ~AtReply(t)'
  <2>1. \A w \in Workers : ~InHands(t, w)
    <3>1. \A x \in Upcall : Outstanding(x) => x.caller # t
      BY <1>1, OpcodesAssumption DEF Outstanding, Upcall, AsyncOps, SyncOps, BadOps
    <3> QED BY <3>1 DEF RInv, TypeOK, Accounted, Held, InHands
  <2> QED BY <1>1, <2>1 DEF AtReply, InHands
<1>7. StageOf(t) = "idle" /\ StageOf(t)' = "pending"
  <2>1. StageOf(t) = Stage(t) /\ StageOf(t)' = Stage(t)'
    BY StageValue, StageValueNext DEF RInv
  <2>2. Stage(t) = "idle"
    BY <1>1 DEF Stage
  <2>3. kreq'[t] # "none" /\ Located(t)'
    BY <1>1, <1>2, <1>5 DEF Located, RInv, TypeOK
  <2> QED BY <1>6, <2>1, <2>2, <2>3 DEF Stage
<1>8. \A s \in Threads : s # t => StageOf(s)' = StageOf(s)
  <2> TAKE s \in Threads
  <2> HAVE s # t
  <2>1. kreq'[s] = kreq[s]
    BY <1>1 DEF RInv, TypeOK
  <2>2. (Located(s)' <=> Located(s)) /\ (AtReply(s)' <=> AtReply(s))
    BY <1>1, <1>4 DEF Located, AtReply, InSeq, InMailbox, InHands
  <2> QED BY <2>1, <2>2, SameStage
<1>9. Stages' = [Stages EXCEPT ![t] = "pending"]
  BY <1>7, <1>8, OneMoves
<1> QED BY <1>1, <1>7, <1>9 DEF Service!Ask, Stages, up

LEMMA ReadIsInvisible ==
    ASSUME RInv, RInv', ReadUpcalls
    PROVE  UNCHANGED Service!vars
<1>1. PICK n \in 1 .. Len(glue) : /\ batch' = SubSeq(glue, 1, n)
                                  /\ glue' = SubSeq(glue, n + 1, Len(glue))
  BY DEF ReadUpcalls
<1>2. UNCHANGED <<kreq, arg, u, pc, proc>> /\ batch = <<>>
  BY DEF ReadUpcalls, workerVars
<1>3. glue \in Seq(Upcall) /\ Len(glue) \in Nat /\ n \in Nat /\ n <= Len(glue)
  BY LenProperties DEF RInv, TypeOK
<1>4. Len(batch') = n /\ \A i \in 1 .. n : batch'[i] = glue[i]
  BY <1>1, <1>3, SubSeqProperties, SMT
<1>5. /\ Len(glue') = Len(glue) - n
      /\ \A i \in 1 .. Len(glue) - n : glue'[i] = glue[n + i]
  BY <1>1, <1>3, SubSeqProperties, SMT
<1>6. ASSUME NEW t \in Threads
      PROVE  InSeq(batch, t)' \/ InSeq(glue, t)' <=> InSeq(batch, t) \/ InSeq(glue, t)
  <2>1. ~InSeq(batch, t)
    BY <1>2, EmptySeq DEF InSeq
  <2>2. ASSUME NEW i \in 1 .. Len(glue), glue[i].caller = t
        PROVE  InSeq(batch', t) \/ InSeq(glue', t)
    <3>1. CASE i <= n
      BY <1>3, <1>4, <2>2, <3>1 DEF InSeq
    <3>2. CASE i > n
      <4>1. i - n \in 1 .. Len(glue) - n /\ glue[n + (i - n)] = glue[i]
        BY <1>3, <3>2
      <4>2. glue'[i - n] = glue[i] /\ i - n \in 1 .. Len(glue')
        BY <1>5, <4>1
      <4> QED BY <2>2, <4>2 DEF InSeq
    <3> QED BY <1>3, <3>1, <3>2
  <2>3. ASSUME NEW i \in 1 .. n, batch'[i].caller = t PROVE InSeq(glue, t)
    BY <1>3, <1>4, <2>3 DEF InSeq
  <2>4. ASSUME NEW i \in 1 .. Len(glue) - n, glue'[i].caller = t PROVE InSeq(glue, t)
    <3>1. n + i \in 1 .. Len(glue)
      BY <1>3
    <3> QED BY <1>5, <2>4, <3>1 DEF InSeq
  <2> QED BY <1>4, <1>5, <2>1, <2>2, <2>3, <2>4 DEF InSeq
<1>7. \A t \in Threads : (Located(t)' <=> Located(t)) /\ (AtReply(t)' <=> AtReply(t))
  BY <1>2, <1>6 DEF Located, AtReply, InMailbox, InHands
<1> QED BY <1>2, <1>7, Invisible DEF up

\* The upcall at the head of the batch goes into its mailbox, which is empty,
\* or is dropped for want of a worker.
LEMMA PostIsServed ==
    ASSUME OneToOne, RInv, RInv', post_upcall
    PROVE  Service!Next \/ UNCHANGED Service!vars
<1>0. PICK m, w, t : m = Head(batch) /\ w = find_worker(m) /\ t = m.caller
  OBVIOUS
<1>1. batch # <<>> /\ batch \in Seq(Upcall) /\ proc = "dispatcher_loop" /\ up
  BY DEF post_upcall, RInv, TypeOK, up
<1>2. /\ m \in Upcall /\ m = batch[1] /\ Len(batch) \in Nat /\ Len(batch) >= 1
      /\ t \in Threads /\ m.op \in Opcodes
  <2>1. m \in Upcall /\ m = batch[1]
    BY <1>0, <1>1, HeadTailProperties
  <2>2. Len(batch) \in Nat /\ Len(batch) >= 1
    BY <1>1, EmptySeq, LenProperties, SMT
  <2> QED BY <1>0, <2>1, <2>2 DEF Upcall
<1>3. /\ Len(Tail(batch)) = Len(batch) - 1
      /\ \A i \in 1 .. Len(batch) - 1 : Tail(batch)[i] = batch[i + 1]
  BY <1>1, HeadTailProperties, SMT
<1>4. InSeq(batch, t) /\ kreq[t] = m.op /\ m.op # "none"
  BY <1>0, <1>2, OpcodesAssumption
     DEF InSeq, RInv, Accounted, SeqAccounted, Outstanding, AsyncOps, SyncOps, BadOps
<1>5. ~InSeq(Tail(batch), t)
  <2>1. \A i \in 2 .. Len(batch) : batch[i].caller # t
    BY <1>0, <1>2 DEF RInv, Accounted, SeqAccounted
  <2> QED BY <1>2, <1>3, <2>1 DEF InSeq
<1>6. ASSUME NEW s \in Threads, s # t PROVE InSeq(Tail(batch), s) <=> InSeq(batch, s)
  <2>1. ASSUME NEW i \in 1 .. Len(batch), batch[i].caller = s PROVE InSeq(Tail(batch), s)
    <3>1. i # 1
      BY <1>0, <1>2, <1>6, <2>1
    <3>2. i - 1 \in 1 .. Len(Tail(batch)) /\ Tail(batch)[i - 1] = batch[i]
      BY <1>2, <1>3, <3>1
    <3> QED BY <2>1, <3>2 DEF InSeq
  <2>2. ASSUME NEW i \in 1 .. Len(Tail(batch)), Tail(batch)[i].caller = s
        PROVE  InSeq(batch, s)
    BY <1>2, <1>3, <2>2 DEF InSeq
  <2> QED BY <2>1, <2>2 DEF InSeq
<1>7. CASE w = NoWorker /\ batch' = Tail(batch) /\ UNCHANGED <<proc, kreq, glue, workerVars>>
  <2>1. m.op \in BadOps
    <3>1. m.op \notin AsyncOps
      BY <1>0, <1>2, <1>7, Routing, WorkerNumAssumption DEF NoWorker
    <3> QED BY <1>0, <1>2, <1>7, <3>1, WorkerNumAssumption
            DEF find_worker, SyncWorker, NoWorker, BadOps
  <2>2. MayLose
    BY <1>2, <2>1 DEF MayLose
  <2>3. \A v \in Workers : ~InMailbox(t, v) /\ ~InHands(t, v)
    BY <1>2, <1>4, OnePlace DEF RInv
  <2>4. ~InSeq(glue, t)
    BY <1>2, <1>4, OnePlace DEF RInv
  <2>5. ~Located(t)' /\ ~AtReply(t)' /\ ~AtReply(t) /\ Located(t)
    BY <1>4, <1>5, <1>7, <2>3, <2>4
       DEF Located, AtReply, workerVars, InMailbox, InHands, InSeq
  <2>6. StageOf(t) = "pending" /\ StageOf(t)' = "lost"
    <3>1. StageOf(t) = Stage(t) /\ StageOf(t)' = Stage(t)'
      BY <1>2, StageValue, StageValueNext DEF RInv
    <3> QED BY <1>4, <1>7, <2>5, <3>1 DEF Stage
  <2>7. \A s \in Threads : s # t => StageOf(s)' = StageOf(s)
    <3> TAKE s \in Threads
    <3> HAVE s # t
    <3>1. (Located(s)' <=> Located(s)) /\ (AtReply(s)' <=> AtReply(s))
      BY <1>6, <1>7 DEF Located, AtReply, workerVars, InMailbox, InHands, InSeq
    <3> QED BY <1>7, <3>1, SameStage
  <2>8. Stages' = [Stages EXCEPT ![t] = "lost"]
    BY <1>2, <2>6, <2>7, OneMoves
  <2>9. Service!Lose(t)
    BY <1>1, <1>2, <1>7, <2>2, <2>6, <2>8 DEF Service!Lose, Stages, up
  <2> QED BY <1>2, <2>9 DEF Service!Next
<1>8. CASE /\ w # NoWorker /\ batch' = Tail(batch)
           /\ arg' = [arg EXCEPT ![w] = m]
           /\ pc' = (IF pc[w] = "wait" THEN [pc EXCEPT ![w] = "check"] ELSE pc)
           /\ UNCHANGED <<proc, kreq, glue, u>>
  <2>1. w \in Workers
    BY <1>0, <1>2, <1>8, Routing
  <2>2. arg[w] = NULL
    BY <1>0, <1>1, <1>8, MailboxIsFree DEF NoSpuriousCommand, RInv, IInv
  <2>3. m # NULL
    BY <1>2, NullAssumption
  <2>4. \A v \in Workers : arg'[v] = IF v = w THEN m ELSE arg[v]
    BY <1>8 DEF RInv, TypeOK
  <2>5. \A s \in Threads : AtReply(s)' <=> AtReply(s)
    <3>1. \A v \in Workers : pc'[v] = "reply" <=> pc[v] = "reply"
      BY <1>8 DEF RInv, TypeOK
    <3> QED BY <1>8, <3>1 DEF AtReply, InHands
  <2>6. \A s \in Threads : Located(s)' <=> Located(s)
    <3> TAKE s \in Threads
    <3>1. CASE s = t
      <4>1. InMailbox(t, w)'
        BY <1>0, <2>1, <2>3, <2>4 DEF InMailbox
      <4> QED BY <1>4, <2>1, <3>1, <4>1 DEF Located
    <3>2. CASE s # t
      <4>1. \A v \in Workers : InMailbox(s, v)' <=> InMailbox(s, v)
        BY <1>0, <2>2, <2>4, <3>2 DEF InMailbox
      <4>2. InSeq(batch', s) <=> InSeq(batch, s)
        BY <1>6, <1>8, <3>2
      <4> QED BY <1>8, <4>1, <4>2 DEF Located, InHands, InSeq
    <3> QED BY <3>1, <3>2
  <2> QED BY <1>8, <2>5, <2>6, Invisible DEF up
<1>9. CASE w # NoWorker /\ "nomem" \in Faults /\ Exit
  <2>1. MayLose
    BY <1>9 DEF MayLose
  <2> QED BY <1>1, <1>9, <2>1, ExitStops DEF Service!Next
<1> QED BY <1>0, <1>7, <1>8, <1>9 DEF post_upcall

LEMMA MainIsServed ==
    ASSUME OneToOne, RInv, RInv', Main
    PROVE  Service!Next \/ UNCHANGED Service!vars
<1> USE DEF up
<1>1. CASE Exit /\ Faults # {} /\ up
  BY <1>1, ExitStops DEF Service!Next, MayLose
<1>2. CASE UNCHANGED <<kreq, glue, batch, workerVars>> /\ up /\ up'
  BY <1>2, Invisible
     DEF workerVars, Located, AtReply, InSeq, InMailbox, InHands
<1>3. CASE init_binder_ipc \/ init_glue \/ LeaveDispatcher
  <2>1. proc # "exited"
    BY <1>3 DEF init_binder_ipc, init_glue, LeaveDispatcher
  <2> QED BY <1>1, <1>2, <1>3, <2>1 DEF init_binder_ipc, init_glue, LeaveDispatcher
<1>4. ASSUME NEW w \in Workers, CreateWorker(w) PROVE UNCHANGED Service!vars
  <2>1. /\ proc = "init_workers" /\ pc[w] = "none" /\ arg' = [arg EXCEPT ![w] = NULL]
        /\ pc' = [pc EXCEPT ![w] = "check"] /\ UNCHANGED <<kreq, glue, batch, u>>
        /\ proc' \in {"dispatcher_loop", proc}
    BY <1>4 DEF CreateWorker
  <2>2. \A v \in Workers : arg'[v] = arg[v]
    BY <2>1 DEF RInv, Started, TypeOK
  <2>3. \A v \in Workers : pc'[v] = "reply" <=> pc[v] = "reply"
    BY <2>1 DEF RInv, TypeOK
  <2>4. \A t \in Threads : (Located(t)' <=> Located(t)) /\ (AtReply(t)' <=> AtReply(t))
    BY <2>1, <2>2, <2>3 DEF Located, AtReply, InSeq, InMailbox, InHands
  <2> QED BY <2>1, <2>4, Invisible
<1>5. CASE init_workers
  <2>1. CASE proc = "init_workers" /\ "init" \in Faults /\ Exit
    BY <1>1, <2>1
  <2> QED BY <1>4, <1>5, <2>1 DEF init_workers
<1> QED BY <1>3, <1>5, ReadIsInvisible, PostIsServed DEF Main, MainRuns

-----------------------------------------------------------------------------
(* The workers *)

\* What a worker does to an upcall in its hands shows to its thread alone.
LEMMA OthersKeepStage ==
    ASSUME RInv, RInv', NEW w \in Workers, NEW t \in Threads, InHands(t, w),
           UNCHANGED <<glue, batch, arg>>,
           u' = u \/ u' = [u EXCEPT ![w] = NULL],
           \A v \in Workers : v # w /\ ~InHands(t, v) =>
               (pc'[v] = "reply" <=> pc[v] = "reply"),
           NEW s \in Threads, s # t, kreq'[s] = kreq[s]
    PROVE  StageOf(s)' = StageOf(s)
<1>1. \A v \in Workers : InHands(s, v) => v # w /\ ~InHands(t, v)
  BY DEF InHands
<1>2. \A v \in Workers : InHands(s, v)' <=> InHands(s, v)
  BY <1>1 DEF InHands, RInv, TypeOK
<1>3. Located(s)' <=> Located(s)
  BY <1>2 DEF Located, InSeq, InMailbox
<1>4. AtReply(s)' <=> AtReply(s)
  BY <1>1, <1>2 DEF AtReply
<1> QED BY <1>3, <1>4, SameStage

\* The upcall of t is with worker w and nowhere else.
LEMMA StageInHands ==
    ASSUME RInv, NEW w \in Workers, u[w] # NULL
    PROVE  /\ u[w] \in Upcall /\ u[w].caller \in Threads /\ u[w].op \in Opcodes
           /\ InHands(u[w].caller, w)
           /\ kreq[u[w].caller] = u[w].op /\ u[w].op # "none"
           /\ StageOf(u[w].caller) = IF pc[w] = "reply" THEN "done" ELSE "pending"
           /\ \A v \in Workers : InHands(u[w].caller, v) => v = w
           /\ \A v \in Workers : ~InMailbox(u[w].caller, v)
           /\ ~InSeq(batch, u[w].caller) /\ ~InSeq(glue, u[w].caller)
<1> DEFINE t == u[w].caller
<1>1. u[w] \in Upcall /\ t \in Threads /\ u[w].op \in Opcodes /\ InHands(t, w)
  BY DEF RInv, TypeOK, Upcall, InHands
<1>2. u[w].op # "none"
  BY <1>1, OpcodesAssumption DEF AsyncOps, SyncOps, BadOps
<1>3. kreq[t] = u[w].op
  BY DEF RInv, Accounted, Held, Outstanding
<1> HIDE DEF t
<1>4. /\ \A v \in Workers : InHands(t, v) => v = w
      /\ \A v \in Workers : ~InMailbox(t, v)
      /\ ~InSeq(batch, t) /\ ~InSeq(glue, t)
  BY <1>1, OnePlace DEF RInv
<1>5. Stage(t) = IF pc[w] = "reply" THEN "done" ELSE "pending"
  BY <1>1, <1>2, <1>3, <1>4 DEF Stage, AtReply, Located
<1>6. StageOf(t) = Stage(t)
  BY <1>1, StageValue DEF RInv
<1> QED BY <1>1, <1>2, <1>3, <1>4, <1>5, <1>6 DEF t

\* After the step the upcall is gone without an answer, or still there.
LEMMA StageAfter ==
    ASSUME RInv, RInv', NEW w \in Workers, u[w] # NULL,
           NEW t \in Threads, t = u[w].caller, UNCHANGED <<kreq, glue, batch, arg>>
    PROVE  /\ u' = u => StageOf(t)' = IF pc'[w] = "reply" THEN "done" ELSE "pending"
           /\ u' = [u EXCEPT ![w] = NULL] => StageOf(t)' = "lost"
<1>1. StageOf(t)' = Stage(t)'
  BY StageValueNext DEF RInv
<1>2. kreq'[t] # "none" /\ InHands(t, w)
  BY StageInHands
<1>3. ASSUME u' = u
      PROVE  StageOf(t)' = IF pc'[w] = "reply" THEN "done" ELSE "pending"
  <2>1. \A v \in Workers : InHands(t, v)' <=> v = w
    BY <1>3, StageInHands DEF InHands
  <2> QED BY <1>1, <1>2, <1>3, <2>1 DEF Stage, AtReply, Located
<1>4. ASSUME u' = [u EXCEPT ![w] = NULL] PROVE StageOf(t)' = "lost"
  <2>1. \A v \in Workers : ~InHands(t, v)'
    <3>1. \A v \in Workers : InHands(t, v) => v = w
      BY StageInHands
    <3> QED BY <1>4, <3>1 DEF InHands, RInv, TypeOK
  <2>2. ~Located(t)'
    <3>1. /\ \A v \in Workers : ~InMailbox(t, v)
          /\ ~InSeq(batch, t) /\ ~InSeq(glue, t)
      BY StageInHands
    <3> QED BY <2>1, <3>1 DEF Located, InSeq, InMailbox
  <2> QED BY <1>1, <1>2, <1>4, <2>1, <2>2 DEF Stage, AtReply
<1> QED BY <1>3, <1>4

\* The handler of w ends or falls asleep.
LEMMA HandledIsServed ==
    ASSUME RInv, RInv', NEW w \in Workers, up, UNCHANGED <<mainVars, arg, u>>,
           pc[w] \in {"handle", "blocked"},
           NEW x \in {"reply", "blocked"}, pc' = [pc EXCEPT ![w] = x]
    PROVE  Service!Next \/ UNCHANGED Service!vars
<1>0. u[w] # NULL
  BY DEF RInv, TypeOK
<1>1. PICK t \in Threads : t = u[w].caller
  BY <1>0, StageInHands
<1>2. /\ InHands(t, w) /\ StageOf(t) = "pending" /\ pc'[w] = x
      /\ StageOf(t)' = IF x = "reply" THEN "done" ELSE "pending"
  BY <1>0, <1>1, StageInHands, StageAfter DEF RInv, TypeOK, mainVars
<1>3. \A s \in Threads : s # t => StageOf(s)' = StageOf(s)
  <2>1. \A v \in Workers : v # w => pc'[v] = pc[v]
    BY DEF RInv, TypeOK
  <2> QED BY <1>2, <2>1, OthersKeepStage DEF mainVars
<1>4. CASE x = "reply"
  <2>1. Stages' = [Stages EXCEPT ![t] = "done"]
    BY <1>2, <1>3, <1>4, OneMoves
  <2>2. Service!Perform(t)
    BY <1>2, <2>1 DEF Service!Perform, Stages, up, mainVars
  <2> QED BY <2>2 DEF Service!Next
<1>5. CASE x = "blocked"
  <2>1. Stages' = Stages
    BY <1>2, <1>3, <1>5 DEF Stages
  <2> QED BY <2>1 DEF Service!vars, Stages, mainVars
<1> QED BY <1>4, <1>5

\* The upcall of w is freed without an answer.
LEMMA DroppedIsLost ==
    ASSUME RInv, RInv', MayLose, NEW w \in Workers, up, UNCHANGED <<mainVars, arg>>,
           u[w] # NULL, u' = [u EXCEPT ![w] = NULL],
           NEW x, pc' = [pc EXCEPT ![w] = x]
    PROVE  Service!Next
<1>1. PICK t \in Threads : t = u[w].caller
  BY StageInHands
<1>2. InHands(t, w) /\ StageOf(t) \in {"pending", "done"} /\ StageOf(t)' = "lost"
  BY <1>1, StageInHands, StageAfter DEF mainVars
<1>3. \A s \in Threads : s # t => StageOf(s)' = StageOf(s)
  <2>1. \A v \in Workers : v # w => pc'[v] = pc[v]
    BY DEF RInv, TypeOK
  <2> QED BY <1>2, <2>1, OthersKeepStage DEF mainVars
<1>4. Stages' = [Stages EXCEPT ![t] = "lost"]
  BY <1>2, <1>3, OneMoves
<1>5. Service!Lose(t)
  BY <1>2, <1>4 DEF Service!Lose, Stages, up, mainVars
<1> QED BY <1>5 DEF Service!Next

\* A FUTEX_WAKE that ends the FUTEX_WAIT of another worker.
LEMMA WakeIsServed ==
    ASSUME RInv, RInv', NEW w \in Workers, NEW v \in Sleepers, up,
           UNCHANGED <<mainVars, arg, u>>, pc[w] = "handle", u[w].op = "FUTEX_WAKE",
           pc' = [pc EXCEPT ![w] = "reply", ![v] = "reply"]
    PROVE  Service!Next
<1>0. /\ v \in Workers /\ v # w /\ u[v].op = "FUTEX_WAIT" /\ pc[v] = "blocked"
      /\ u[w] # NULL /\ u[v] # NULL
  BY DEF Sleepers, RInv, TypeOK
<1>1. PICK t \in Threads : t = u[w].caller
  BY <1>0, StageInHands
<1>2. PICK s \in Threads : s = u[v].caller
  BY <1>0, StageInHands
<1>3. pc'[w] = "reply" /\ pc'[v] = "reply"
      /\ \A x \in Workers : x # w /\ x # v => pc'[x] = pc[x]
  BY <1>0 DEF RInv, TypeOK
<1>4. /\ InHands(t, w) /\ StageOf(t) = "pending" /\ kreq[t] = "FUTEX_WAKE"
      /\ StageOf(t)' = "done"
  BY <1>0, <1>1, <1>3, StageInHands, StageAfter DEF mainVars
<1>5. /\ InHands(s, v) /\ StageOf(s) = "pending" /\ kreq[s] = "FUTEX_WAIT"
      /\ StageOf(s)' = "done"
  BY <1>0, <1>2, <1>3, StageInHands, StageAfter DEF mainVars
<1>6. \A r \in Threads : r # t /\ r # s => StageOf(r)' = StageOf(r)
  <2> TAKE r \in Threads
  <2> HAVE r # t /\ r # s
  <2>1. \A x \in Workers : InHands(r, x) => x # w /\ x # v
    BY <1>1, <1>2 DEF InHands
  <2>2. Located(r)' <=> Located(r)
    BY DEF Located, InSeq, InMailbox, InHands, mainVars
  <2>3. AtReply(r)' <=> AtReply(r)
    BY <1>3, <2>1 DEF AtReply, InHands
  <2> QED BY <2>2, <2>3, SameStage DEF mainVars
<1>7. t # s
  BY <1>4, <1>5
<1>8. Stages' = [Stages EXCEPT ![t] = "done", ![s] = "done"]
  BY <1>4, <1>5, <1>6, <1>7 DEF Stages
<1>9. Service!PerformWake(t, s)
  BY <1>4, <1>5, <1>8 DEF Service!PerformWake, Stages, up, mainVars
<1> QED BY <1>9 DEF Service!Next

\* The upcall moves from the mailbox into the hands of its worker.
LEMMA TakeIsInvisible ==
    ASSUME RInv, RInv', NEW w \in Workers, TakeArg(w)
    PROVE  UNCHANGED Service!vars
<1>1. pc[w] = "check" /\ u[w] = NULL /\ up /\ UNCHANGED <<kreq, glue, batch, proc>>
  BY DEF TakeArg, Running, RInv, TypeOK, up, mainVars
<1>2. \A v \in Workers : pc'[v] = "reply" <=> pc[v] = "reply"
  BY DEF TakeArg, Goto, Running, RInv, TypeOK
<1>3. CASE arg[w] # NULL
  <2>1. \A v \in Workers : /\ u'[v] = IF v = w THEN arg[w] ELSE u[v]
                           /\ arg'[v] = IF v = w THEN NULL ELSE arg[v]
    BY <1>3 DEF TakeArg, RInv, TypeOK
  <2>2. \A t \in Threads : Located(t)' <=> Located(t)
    <3> TAKE t \in Threads
    <3>1. \A v \in Workers : (InMailbox(t, v) \/ InHands(t, v))'
                                <=> InMailbox(t, v) \/ InHands(t, v)
      BY <1>1, <2>1 DEF InMailbox, InHands
    <3> QED BY <1>1, <3>1 DEF Located, InSeq
  <2>3. \A t \in Threads : AtReply(t)' <=> AtReply(t)
    BY <1>1, <1>2, <2>1 DEF AtReply, InHands
  <2> QED BY <1>1, <2>2, <2>3, Invisible DEF up
<1>4. CASE arg[w] = NULL
  <2>1. UNCHANGED <<arg, u>>
    BY <1>4 DEF TakeArg
  <2> QED BY <1>1, <1>2, <2>1, Invisible
          DEF up, Located, AtReply, InSeq, InMailbox, InHands
<1> QED BY <1>3, <1>4

\* The downcall releases the thread that asked, or gets lost with its worker.
LEMMA DowncallIsServed ==
    ASSUME RInv, RInv', NEW w \in Workers, send_downcall(w)
    PROVE  Service!Next
<1>1. /\ pc[w] = "reply" /\ up /\ up' /\ u[w] # NULL
      /\ u' = [u EXCEPT ![w] = NULL] /\ UNCHANGED <<proc, glue, batch, arg>>
  BY DEF send_downcall, Running, RInv, TypeOK, up
<1>2. PICK t \in Threads : t = u[w].caller
  BY <1>1, StageInHands
<1>3. InHands(t, w) /\ StageOf(t) = "done" /\ Recipients(u[w]) = {t}
  BY <1>1, <1>2, StageInHands, ReplyHasOneRecipient DEF RInv
<1>4. CASE /\ kreq' = [s \in Threads |-> IF s \in Recipients(u[w]) THEN "none" ELSE kreq[s]]
           /\ Goto(w, "check")
  <2>1. kreq' = [kreq EXCEPT ![t] = "none"]
    BY <1>3, <1>4 DEF RInv, TypeOK
  <2>2. StageOf(t)' = "idle"
    <3>1. StageOf(t)' = Stage(t)'
      BY StageValueNext DEF RInv
    <3> QED BY <2>1, <3>1 DEF Stage, RInv, TypeOK
  <2>3. \A s \in Threads : s # t => StageOf(s)' = StageOf(s)
    <3>1. \A v \in Workers : v # w => pc'[v] = pc[v]
      BY <1>4 DEF Goto, RInv, TypeOK
    <3>2. \A s \in Threads : s # t => kreq'[s] = kreq[s]
      BY <2>1 DEF RInv, TypeOK
    <3> QED BY <1>1, <1>3, <3>1, <3>2, OthersKeepStage
  <2>4. Stages' = [Stages EXCEPT ![t] = "idle"]
    BY <2>2, <2>3, OneMoves
  <2>5. Service!Answer(t)
    BY <1>1, <1>3, <2>1, <2>4 DEF Service!Answer, Stages, up
  <2> QED BY <2>5 DEF Service!Next
<1>5. CASE "send" \in Faults /\ Goto(w, "dead") /\ UNCHANGED kreq
  BY <1>1, <1>5, DroppedIsLost DEF MayLose, Goto, mainVars
<1> QED BY <1>4, <1>5 DEF send_downcall

LEMMA HandleIsServed ==
    ASSUME RInv, RInv', NEW w \in Workers, Handle(w)
    PROVE  Service!Next \/ UNCHANGED Service!vars
<1> USE DEF Running, Goto
<1>1. up /\ pc[w] = "handle" /\ u[w] # NULL
  <2>1. proc # "exited" /\ pc[w] = "handle"
    BY DEF Handle, HandleAtOnce, handle_close, handle_pipe, handle_socket,
           handle_alien_mmap2, handle_poll, handle_binder_write_read,
           handle_futex_wait, handle_futex_wake, HandleUnknown
  <2> QED BY <2>1 DEF up, RInv, TypeOK
<1>2. CASE HandleAtOnce(w, u[w].op)
  BY <1>1, <1>2, HandledIsServed DEF HandleAtOnce
<1>3. CASE handle_close(w) \/ handle_pipe(w) \/ handle_socket(w) \/ handle_alien_mmap2(w)
  <2>1. HandleAtOnce(w, u[w].op)
    BY <1>3 DEF handle_close, handle_pipe, handle_socket, handle_alien_mmap2, HandleAtOnce
  <2> QED BY <1>2, <2>1
<1>4. CASE handle_poll(w)
  <2>1. CASE /\ pc' = [pc EXCEPT ![w] = "reply"] \/ pc' = [pc EXCEPT ![w] = "blocked"]
             /\ UNCHANGED u
    BY <1>1, <1>4, <2>1, HandledIsServed DEF handle_poll
  <2>2. CASE /\ "nomem" \in Faults /\ pc' = [pc EXCEPT ![w] = "dead"]
             /\ u' = [u EXCEPT ![w] = NULL]
    BY <1>1, <1>4, <2>2, DroppedIsLost DEF handle_poll, MayLose
  <2> QED BY <1>4, <2>1, <2>2 DEF handle_poll
<1>5. CASE handle_binder_write_read(w)
  BY <1>1, <1>5, HandledIsServed DEF handle_binder_write_read
<1>6. CASE handle_futex_wait(w)
  BY <1>1, <1>6, HandledIsServed DEF handle_futex_wait
<1>7. CASE handle_futex_wake(w)
  <2>1. ASSUME NEW v \in Sleepers, pc' = [pc EXCEPT ![w] = "reply", ![v] = "reply"]
        PROVE  Service!Next
    BY <1>1, <1>7, <2>1, WakeIsServed DEF handle_futex_wake
  <2>2. CASE pc' = [pc EXCEPT ![w] = "reply"]
    BY <1>1, <1>7, <2>2, HandledIsServed DEF handle_futex_wake
  <2> QED BY <1>7, <2>1, <2>2 DEF handle_futex_wake
<1>8. CASE HandleUnknown(w)
  <2>1. u[w].op \in Opcodes \cap BadOps
    BY <1>1, <1>8, StageInHands, OpcodesAssumption DEF HandleUnknown
  <2> QED BY <1>1, <1>8, <2>1, DroppedIsLost DEF HandleUnknown, MayLose
<1> QED BY <1>3, <1>4, <1>5, <1>6, <1>7, <1>8 DEF Handle

LEMMA WorkerIsServed ==
    ASSUME RInv, RInv', NEW w \in Workers, WorkerStep(w)
    PROVE  Service!Next \/ UNCHANGED Service!vars
<1>1. CASE BinderReplyNoMemory(w)
  BY <1>1, ExitStops DEF BinderReplyNoMemory, MayLose, Running, up, Service!Next
<1>2. CASE SpuriousWakeup(w)
  <2>1. /\ pc[w] = "wait" /\ pc' = [pc EXCEPT ![w] = "check"]
        /\ UNCHANGED <<proc, kreq, glue, batch, arg, u>>
    BY <1>2 DEF SpuriousWakeup, Running, Goto, mainVars
  <2>2. \A v \in Workers : pc'[v] = "reply" <=> pc[v] = "reply"
    BY <2>1 DEF RInv, TypeOK
  <2> QED BY <2>1, <2>2, Invisible DEF up, Located, AtReply, InSeq, InMailbox, InHands
<1>3. CASE Unblock(w)
  BY <1>3, HandledIsServed DEF Unblock, Running, Goto, up
<1> QED BY <1>1, <1>2, <1>3, TakeIsInvisible, HandleIsServed, DowncallIsServed
        DEF WorkerStep, worker_loop

-----------------------------------------------------------------------------
(* The refinement *)

LEMMA InitIsServed == Init => Service!Init
<1> SUFFICES ASSUME Init PROVE Service!Init
  OBVIOUS
<1>1. \A t \in Threads : StageOf(t) = "idle"
  BY TypeInit, AccountedInit, StageValue DEF Init, Stage
<1>2. Stages = [t \in Threads |-> "idle"]
  BY <1>1 DEF Stages
<1> QED BY <1>2 DEF Init, Service!Init, Stages

LEMMA StepIsServed ==
    ASSUME OneToOne, RInv, RInv', [Next]_vars
    PROVE  [Service!Next]_Service!vars
<1>1. ASSUME NEW t \in Threads, NEW op \in Opcodes, Issue(t, op) PROVE Service!Next
  BY <1>1, IssueAsks DEF Service!Next
<1>2. CASE UNCHANGED vars
  BY <1>2, Invisible DEF vars, up, Located, AtReply, InSeq, InMailbox, InHands
<1> QED BY <1>1, <1>2, MainIsServed, WorkerIsServed DEF Next, WorkerStep

\* Venus implements UpcallService: whatever fails, every step of the dispatcher
\* and of a worker is one step of the service or none.  A request is performed
\* once and answered once, to the thread that asked; it can be lost only where
\* a failure or an upcall without a handler allows it, and no answer is
\* given to a request that was lost.
THEOREM VenusImplementsService ==
    ASSUME OneToOne
    PROVE  Spec => ImplementsService
<1>1. RInv /\ RInv' /\ [Next]_vars => [Service!Next]_Service!vars
  BY StepIsServed
<1> QED BY <1>1, InitIsServed, RInvCorrect, PTL
        DEF Spec, ImplementsService, Service!Spec

-----------------------------------------------------------------------------
(* Nothing is lost *)

\* No request is lost.
NoneLost == \A t \in Threads : StageOf(t) # "lost"

\* Without failures, and with a handler for every upcall, a service that may
\* not lose requests has none that is lost, and then each is in one place.
LEMMA NothingLostState == ASSUME RInv, NoneLost PROVE NothingLost
<1> SUFFICES ASSUME NEW t \in Threads
             PROVE  Cardinality(Places(t).queued) + Cardinality(Places(t).mailbox)
                      + Cardinality(Places(t).handled)
                      = (IF kreq[t] = "none" THEN 0 ELSE 1)
  BY DEF NothingLost
<1>1. StageOf(t) = Stage(t) /\ Stage(t) # "lost"
  BY StageValue DEF RInv, NoneLost
<1>2. Located(t) => kreq[t] # "none"
  <2>1. \A m \in Upcall : Outstanding(m) /\ m.caller = t => kreq[t] # "none"
    BY OpcodesAssumption DEF Outstanding, Upcall, AsyncOps, SyncOps, BadOps
  <2> QED BY <2>1 DEF Located, InSeq, InMailbox, InHands, RInv, TypeOK, Accounted,
                      SeqAccounted, Held
<1>3. kreq[t] # "none" => Located(t)
  BY <1>1 DEF Stage, AtReply, Located
<1> QED BY <1>2, <1>3, CountPlaces DEF RInv

\* With handles that fall on distinct workers, and as long as nothing fails and
\* every upcall has a handler, the upcall of a sleeping thread is in exactly
\* one place from Issue to send_downcall: post_upcall and worker_loop neither
\* overwrite, nor drop, nor duplicate one.
THEOREM NothingLostCorrect ==
    ASSUME OneToOne, ~MayLose
    PROVE  Spec => []NothingLost
<1>1. Init => NoneLost
  <2>1. Init => \A t \in Threads : StageOf(t) = "idle"
    BY TypeInit, AccountedInit, StageValue DEF Init, Stage
  <2> QED BY <2>1 DEF NoneLost
<1>2. NoneLost /\ [Service!Next]_Service!vars => NoneLost'
  <2> SUFFICES ASSUME NoneLost, [Service!Next]_Service!vars PROVE NoneLost'
    OBVIOUS
  <2>1. NoneLost <=> \A t \in Threads : Stages[t] # "lost"
    BY DEF NoneLost, Stages
  <2>2. NoneLost' <=> \A t \in Threads : Stages'[t] # "lost"
    BY DEF NoneLost, Stages
  <2>3. \/ Stages' = Stages
        \/ \E t \in Threads : \E x \in {"pending", "done", "idle"} :
              Stages' = [Stages EXCEPT ![t] = x]
        \/ \E t, s \in Threads : Stages' = [Stages EXCEPT ![t] = "done", ![s] = "done"]
    BY DEF Service!Next, Service!vars, Service!Ask, Service!Perform, Service!PerformWake,
           Service!Answer, Service!Lose, Service!Stop, Stages
  <2>4. DOMAIN Stages = Threads
    BY DEF Stages
  <2> QED BY <2>1, <2>2, <2>3, <2>4
<1>3. RInv /\ RInv' /\ [Next]_vars => [Service!Next]_Service!vars
  BY StepIsServed
<1>4. RInv /\ NoneLost => NothingLost
  BY NothingLostState
<1> QED BY <1>1, <1>2, <1>3, <1>4, RInvCorrect, PTL DEF Spec
=============================================================================
