---------------------------- MODULE VenusProofs ----------------------------
(***************************************************************************)
(* Proofs about Venus for every number of workers, every set of threads    *)
(* and handles, every set of failures.                                     *)
(***************************************************************************)
EXTENDS Venus, SequenceTheorems, TLAPS

\* An upcall is routed to a worker that exists, or dropped; asynchronous upcalls
\* never go to the last worker, the others only there.
LEMMA Routing ==
    ASSUME NEW m \in Upcall
    PROVE  /\ find_worker(m) \in Workers \cup {NoWorker}
           /\ m.op \in AsyncOps => find_worker(m) = AsyncWorker(m.caller)
           /\ m.op \in AsyncOps => find_worker(m) \in 0 .. WORKER_NUM - 2
           /\ find_worker(m) = SyncWorker => m.op \notin AsyncOps
           /\ SyncWorker # NoWorker
<1>1. m.op \in AsyncOps => m.op # "UNKNOWN"
  BY DEF AsyncOps
<1>2. AsyncWorker(m.caller) \in 0 .. WORKER_NUM - 2
  <2>1. m.caller \in Nat /\ HANDLE_UNIT \in Nat /\ HANDLE_UNIT > 0
    <3>1. m.caller \in Threads
      BY DEF Upcall
    <3> QED
      BY <3>1, HandleAssumption
  <2>2. WORKER_NUM - 1 \in Nat /\ WORKER_NUM - 1 > 0
    BY WorkerNumAssumption
  <2>3. m.caller \div HANDLE_UNIT \in Int
    BY <2>1, SMT
  <2>4. (m.caller \div HANDLE_UNIT) % (WORKER_NUM - 1) \in 0 .. (WORKER_NUM - 1) - 1
    BY <2>2, <2>3, SMT
  <2> QED
    BY <2>4, WorkerNumAssumption DEF AsyncWorker
<1> QED
  BY <1>1, <1>2, WorkerNumAssumption, SMT
     DEF find_worker, Workers, SyncWorker, NoWorker

-----------------------------------------------------------------------------
\* The names the proofs split Next by.
WorkerStep(w) == worker_loop(w) \/ SpuriousWakeup(w) \/ Unblock(w)

LEMMA TypeInit == Init => TypeOK
BY NullAssumption, EmptySeq DEF Init, TypeOK, Procs, PCs

\* What the main thread does keeps the types.
LEMMA TypeMain == TypeOK /\ Main => TypeOK'
<1> SUFFICES ASSUME TypeOK, Main PROVE TypeOK'
  OBVIOUS
<1> USE DEF Exit, workerVars
<1>1. CASE init_binder_ipc
  BY <1>1, SMT DEF TypeOK, init_binder_ipc, Procs
<1>2. CASE init_glue
  BY <1>2, SMT DEF TypeOK, init_glue, Procs
<1>3. CASE init_workers
  <2>1. ASSUME NEW w \in Workers, CreateWorker(w)
        PROVE  TypeOK'
    BY <2>1, SMT DEF TypeOK, CreateWorker, Procs, PCs
  <2>2. CASE proc = "init_workers" /\ "init" \in Faults /\ Exit
    BY <2>2, SMT DEF TypeOK, Procs
  <2> QED
    BY <1>3, <2>1, <2>2 DEF init_workers
<1>4. CASE ReadUpcalls
  <2>1. PICK n \in 1 .. Len(glue) : /\ batch' = SubSeq(glue, 1, n)
                                    /\ glue' = SubSeq(glue, n + 1, Len(glue))
    BY <1>4 DEF ReadUpcalls
  <2>2. glue \in Seq(Upcall) /\ Len(glue) \in Nat
    BY LenProperties DEF TypeOK
  <2>3. batch' \in Seq(Upcall) /\ glue' \in Seq(Upcall)
    BY <2>1, <2>2, SubSeqProperties, SMT
  <2> QED
    BY <1>4, <2>3, SMT DEF ReadUpcalls, TypeOK
<1>5. CASE LeaveDispatcher
  BY <1>5, SMT DEF LeaveDispatcher, TypeOK, Procs
<1>6. CASE post_upcall
  <2> DEFINE m == Head(batch)
             w == find_worker(m)
  <2>1. batch # <<>> /\ batch \in Seq(Upcall)
    BY <1>6 DEF post_upcall, TypeOK
  <2>2. m \in Upcall /\ Tail(batch) \in Seq(Upcall)
    BY <2>1, HeadTailProperties
  <2>3. w \in Workers \cup {NoWorker}
    BY <2>2, Routing
  <2> HIDE DEF m, w
  <2>4. CASE w = NoWorker /\ batch' = Tail(batch)
               /\ UNCHANGED <<proc, kreq, glue, workerVars>>
    BY <2>2, <2>4, SMT DEF TypeOK
  <2>5. CASE /\ w # NoWorker
             /\ batch' = Tail(batch)
             /\ arg' = [arg EXCEPT ![w] = m]
             /\ pc' = IF pc[w] = "wait" THEN [pc EXCEPT ![w] = "check"] ELSE pc
             /\ UNCHANGED <<proc, kreq, glue, u>>
    BY <2>2, <2>3, <2>5, SMT DEF TypeOK, PCs
  <2>6. CASE w # NoWorker /\ "nomem" \in Faults /\ Exit
    BY <2>6, SMT DEF TypeOK, Procs
  <2> QED
    BY <1>6, <2>4, <2>5, <2>6 DEF post_upcall, m, w
<1> QED
  BY <1>1, <1>2, <1>3, <1>4, <1>5, <1>6 DEF Main, MainRuns

\* Only the place of one worker changes, and it holds an upcall before and after.
LEMMA TypeMove ==
    ASSUME TypeOK, NEW w \in Workers,
           NEW x \in {"handle", "blocked", "reply"},
           pc[w] \in {"handle", "blocked", "reply"},
           pc' = [pc EXCEPT ![w] = x],
           UNCHANGED <<proc, kreq, glue, batch, arg, u>>
    PROVE  TypeOK'
BY SMT DEF TypeOK, PCs

\* What a worker does, and what happens to it, keeps the types.
LEMMA TypeWorker ==
    ASSUME TypeOK, NEW w \in Workers, WorkerStep(w)
    PROVE  TypeOK'
<1> USE DEF TypeOK, PCs, Running, Goto, mainVars
<1>1. CASE TakeArg(w)
  <2>1. CASE arg[w] # NULL
    <3>1. arg[w] \in Upcall
      BY <2>1
    <3>2. /\ u' = [u EXCEPT ![w] = arg[w]]
          /\ arg' = [arg EXCEPT ![w] = NULL]
          /\ pc' = [pc EXCEPT ![w] = "handle"]
          /\ UNCHANGED <<proc, kreq, glue, batch>>
      BY <1>1, <2>1 DEF TakeArg
    <3>3. u' \in [Workers -> Upcall \cup {NULL}] /\ arg' \in [Workers -> Upcall \cup {NULL}]
      BY <3>1, <3>2
    <3>4. pc' \in [Workers -> PCs]
      BY <3>2
    <3>5. \A v \in Workers : u'[v] # NULL <=> pc'[v] \in {"handle", "blocked", "reply"}
      BY <2>1, <3>2, SMTT(20)
    <3> QED
      BY <3>2, <3>3, <3>4, <3>5
  <2>2. CASE arg[w] = NULL
    <3>1. /\ pc[w] = "check" /\ pc' = [pc EXCEPT ![w] = "wait"]
          /\ UNCHANGED <<proc, kreq, glue, batch, arg, u>>
      BY <1>1, <2>2 DEF TakeArg
    <3> QED
      BY <3>1, SMT
  <2> QED
    BY <2>1, <2>2
<1>2. CASE Handle(w)
  <2>1. ASSUME NEW op, HandleAtOnce(w, op)
        PROVE  TypeOK'
    BY <2>1, SMT DEF HandleAtOnce
  <2>2. CASE handle_poll(w)
    <3>1. UNCHANGED <<proc, kreq, glue, batch, arg>> /\ pc[w] = "handle"
      BY <2>2 DEF handle_poll
    <3>2. CASE pc' = [pc EXCEPT ![w] = "dead"] /\ u' = [u EXCEPT ![w] = NULL]
      BY <3>1, <3>2, SMT
    <3>3. ASSUME NEW x \in {"reply", "blocked"}, pc' = [pc EXCEPT ![w] = x],
                 UNCHANGED u
          PROVE  TypeOK'
      BY <3>1, <3>3, TypeMove
    <3> QED
      BY <2>2, <3>2, <3>3 DEF handle_poll
  <2>3. ASSUME handle_binder_write_read(w) \/ handle_futex_wait(w)
        PROVE  TypeOK'
    <3>1. UNCHANGED <<proc, kreq, glue, batch, arg, u>> /\ pc[w] = "handle"
      BY <2>3 DEF handle_binder_write_read, handle_futex_wait
    <3>2. ASSUME NEW x \in {"reply", "blocked"}, pc' = [pc EXCEPT ![w] = x]
          PROVE  TypeOK'
      BY <3>1, <3>2, TypeMove
    <3> QED
      BY <2>3, <3>2 DEF handle_binder_write_read, handle_futex_wait
  <2>4. CASE handle_futex_wake(w)
    BY <2>4, SMT DEF handle_futex_wake, Sleepers
  <2>5. CASE HandleUnknown(w)
    BY <2>5, SMT DEF HandleUnknown
  <2> QED
    BY <1>2, <2>1, <2>2, <2>3, <2>4, <2>5
       DEF Handle, handle_close, handle_pipe, handle_socket, handle_alien_mmap2
<1>3. CASE BinderReplyNoMemory(w)
  BY <1>3, SMT DEF BinderReplyNoMemory, Exit, workerVars, Procs
<1>4. CASE send_downcall(w)
  BY <1>4, SMT DEF send_downcall
<1>5. CASE SpuriousWakeup(w)
  BY <1>5, SMT DEF SpuriousWakeup
<1>6. CASE Unblock(w)
  BY <1>6, SMT DEF Unblock
<1> QED
  BY <1>1, <1>2, <1>3, <1>4, <1>5, <1>6 DEF WorkerStep, worker_loop

LEMMA TypeNext == TypeOK /\ [Next]_vars => TypeOK'
<1> SUFFICES ASSUME TypeOK, [Next]_vars PROVE TypeOK'
  OBVIOUS
<1>1. ASSUME NEW t \in Threads, NEW op \in Opcodes, Issue(t, op)
      PROVE  TypeOK'
  <2>1. [op |-> op, caller |-> t] \in Upcall
    BY DEF Upcall
  <2>2. glue' \in Seq(Upcall)
    BY <1>1, <2>1, AppendProperties DEF Issue, TypeOK
  <2> QED
    BY <1>1, <2>2, SMT DEF Issue, TypeOK, workerVars
<1>2. CASE Main
  BY <1>2, TypeMain
<1>3. ASSUME NEW w \in Workers, WorkerStep(w)
      PROVE  TypeOK'
  BY <1>3, TypeWorker
<1>4. CASE UNCHANGED vars
  BY <1>4, SMT DEF TypeOK, vars
<1> QED
  BY <1>1, <1>2, <1>3, <1>4 DEF Next, WorkerStep

\* Every reachable state of Venus is well typed, and a worker holds an upcall
\* exactly while it handles one: no handler runs on a null pointer.
THEOREM TypeCorrect == Spec => []TypeOK
<1>1. QED
  BY TypeInit, TypeNext, PTL DEF Spec

-----------------------------------------------------------------------------
\* The inductive invariant: types and the account of every upcall.
IInv == TypeOK /\ Accounted

LEMMA AccountedInit == Init => Accounted
<1> SUFFICES ASSUME Init PROVE Accounted
  OBVIOUS
<1>1. Len(batch) = 0 /\ Len(glue) = 0
  BY EmptySeq DEF Init
<1>2. SyncCallers = {}
  BY OpcodesAssumption DEF Init, SyncCallers, AsyncOps, SyncOps, BadOps
<1> QED
  BY <1>1, <1>2, SMT DEF Init, Accounted, SeqAccounted

\* A step that changes neither the requests nor the queues, and after which
\* every mailbox and worker holds what it held or nothing, keeps the account.
LEMMA AccountedShrink ==
    ASSUME Accounted,
           UNCHANGED <<kreq, glue, batch>>,
           \A w \in Workers : arg'[w] \in {arg[w], NULL},
           \A w \in Workers : u'[w] \in {u[w], NULL}
    PROVE  Accounted'
BY SMT DEF Accounted, SeqAccounted, Held, Absent, Outstanding, SyncCallers

LEMMA AccountedIssue ==
    ASSUME TypeOK, Accounted, NEW t \in Threads, NEW op \in Opcodes, Issue(t, op)
    PROVE  Accounted'
<1> DEFINE m == [op |-> op, caller |-> t]
<1>1. /\ kreq[t] = "none"
      /\ kreq' = [kreq EXCEPT ![t] = op]
      /\ glue' = Append(glue, m)
      /\ UNCHANGED <<batch, arg, u>>
  BY DEF Issue, workerVars
<1>2. m \in Upcall /\ m.op = op /\ m.caller = t
  BY DEF Upcall
<1>3. op # "none" /\ \A x \in Upcall : x.op # "none"
  BY OpcodesAssumption DEF Upcall, AsyncOps, SyncOps, BadOps
<1> HIDE DEF m
<1>4. /\ Len(glue') = Len(glue) + 1
      /\ \A i \in 1 .. Len(glue) : glue'[i] = glue[i]
      /\ glue'[Len(glue) + 1] = m
  BY <1>1, <1>2, AppendProperties DEF TypeOK
<1>5. \A x \in Upcall : Outstanding(x) => x.caller # t /\ Outstanding(x)'
  BY <1>1, <1>3 DEF Outstanding, TypeOK, Upcall
<1>6. /\ \A i \in 1 .. Len(glue) : glue[i] \in Upcall
      /\ \A i \in 1 .. Len(batch) : batch[i] \in Upcall
      /\ Len(glue) \in Nat
  BY ElementOfSeq, LenProperties DEF TypeOK
<1>7. SeqAccounted(batch)'
  BY <1>1, <1>5, <1>6, SMT DEF Accounted, SeqAccounted
<1>8. SeqAccounted(glue)'
  <2>1. Outstanding(m)'
    BY <1>1, <1>2 DEF Outstanding, TypeOK
  <2>2. \A i \in 1 .. Len(glue) : /\ glue[i].caller # t
                                  /\ kreq'[glue[i].caller] = glue[i].op
    BY <1>5, <1>6, SMT DEF Accounted, SeqAccounted, Outstanding
  <2> QED
    BY <1>2, <1>4, <1>6, <2>1, <2>2, SMT DEF Accounted, SeqAccounted, Outstanding
<1>9. (\A i \in 1 .. Len(glue) : Absent(batch, glue[i].caller))'
  <2>1. \A i \in 1 .. Len(batch) : batch[i].caller # t
    BY <1>5, <1>6 DEF Accounted, SeqAccounted
  <2> QED
    BY <1>1, <1>2, <1>4, <1>6, <2>1, SMT DEF Accounted, Absent
<1>10. \A w \in Workers, x \in Upcall : Held(x, w) => Held(x, w)'
  BY <1>1, <1>2, <1>4, <1>5, <1>6, SMT DEF Held, Absent
<1>11. (\A s, r \in SyncCallers : s = r)'
  <2>1. CASE op \in AsyncOps
    BY <1>1, <2>1 DEF SyncCallers, Accounted, TypeOK
  <2>2. CASE op \notin AsyncOps
    BY <1>1, <2>2 DEF SyncCallers, TypeOK, Issue
  <2> QED
    BY <2>1, <2>2
<1>12. \A w \in Workers : /\ arg'[w] = arg[w] /\ (arg[w] # NULL => arg[w] \in Upcall)
                          /\ u'[w] = u[w] /\ (u[w] # NULL => u[w] \in Upcall)
  BY <1>1 DEF TypeOK
<1>13. \A w \in Workers : /\ arg'[w] # NULL => Held(arg[w], w)'
                          /\ u'[w] # NULL => Held(u[w], w)'
  BY <1>10, <1>12 DEF Accounted
<1>14. /\ (\A w \in Workers : arg[w] # NULL => Held(arg[w], w))'
       /\ (\A w \in Workers : u[w] # NULL => Held(u[w], w))'
  BY <1>1, <1>13, SMT DEF Held, Absent, Outstanding
<1> QED
  BY <1>1, <1>7, <1>8, <1>9, <1>11, <1>14 DEF Accounted

LEMMA AccountedRead ==
    ASSUME TypeOK, Accounted, ReadUpcalls
    PROVE  Accounted'
<1>1. PICK n \in 1 .. Len(glue) : /\ batch' = SubSeq(glue, 1, n)
                                  /\ glue' = SubSeq(glue, n + 1, Len(glue))
  BY DEF ReadUpcalls
<1>2. UNCHANGED <<kreq, arg, u>>
  BY DEF ReadUpcalls, workerVars
<1>3. glue \in Seq(Upcall) /\ Len(glue) \in Nat /\ n \in Nat /\ n <= Len(glue)
  BY LenProperties DEF TypeOK
<1>4. Len(batch') = n /\ \A i \in 1 .. n : batch'[i] = glue[i]
  BY <1>1, <1>3, SubSeqProperties, SMT
<1>5. /\ Len(glue') = Len(glue) - n
      /\ \A i \in 1 .. Len(glue) - n : glue'[i] = glue[i + n]
  BY <1>1, <1>3, SubSeqProperties, SMT
<1>6. SeqAccounted(batch)'
  BY <1>2, <1>3, <1>4, SMT DEF Accounted, SeqAccounted, Outstanding
<1>7. SeqAccounted(glue)'
  <2>1. \A i \in 1 .. Len(glue') : i + n \in 1 .. Len(glue) /\ glue'[i] = glue[i + n]
    BY <1>3, <1>5, SMT
  <2>2. \A i \in 1 .. Len(glue') : kreq'[glue'[i].caller] = glue'[i].op
    BY <1>2, <2>1 DEF Accounted, SeqAccounted, Outstanding
  <2>3. \A i, j \in 1 .. Len(glue') : glue'[i].caller = glue'[j].caller => i + n = j + n
    BY <2>1, SMTT(20) DEF Accounted, SeqAccounted
  <2>4. \A i, j \in 1 .. Len(glue') : i + n = j + n => i = j
    BY <1>3, <1>5, SMT
  <2> QED
    BY <2>2, <2>3, <2>4 DEF SeqAccounted, Outstanding
<1>8. (\A i \in 1 .. Len(glue) : Absent(batch, glue[i].caller))'
  <2> SUFFICES ASSUME NEW i \in 1 .. Len(glue'), NEW j \in 1 .. Len(batch'),
                      batch'[j].caller = glue'[i].caller
               PROVE  FALSE
    BY DEF Absent
  <2>1. /\ i + n \in 1 .. Len(glue) /\ glue'[i] = glue[i + n]
        /\ j \in 1 .. Len(glue) /\ batch'[j] = glue[j] /\ i + n # j
    BY <1>3, <1>4, <1>5, SMT
  <2> QED
    BY <2>1 DEF Accounted, SeqAccounted
<1>9. \A t \in Threads : Absent(glue, t) => Absent(batch', t) /\ Absent(glue', t)
  <2> SUFFICES ASSUME NEW t \in Threads, Absent(glue, t)
               PROVE  Absent(batch', t) /\ Absent(glue', t)
    OBVIOUS
  <2>1. \A i \in 1 .. Len(glue') : i + n \in 1 .. Len(glue)
    BY <1>3, <1>5, SMT
  <2>2. \A i \in 1 .. n : i \in 1 .. Len(glue)
    BY <1>3, SMT
  <2> QED
    BY <1>4, <1>5, <2>1, <2>2 DEF Absent
<1>10. \A w \in Workers :
          /\ arg[w] # NULL => arg[w].caller \in Threads
          /\ u[w] # NULL => u[w].caller \in Threads
  BY DEF TypeOK, Upcall
<1>11. (\A w \in Workers : arg[w] # NULL => Held(arg[w], w))'
  BY <1>2, <1>9, <1>10 DEF Accounted, Held, Outstanding
<1>12. (\A w \in Workers : u[w] # NULL => Held(u[w], w))'
  BY <1>2, <1>9, <1>10 DEF Accounted, Held, Outstanding
<1> QED
  BY <1>2, <1>6, <1>7, <1>8, <1>11, <1>12 DEF Accounted, SyncCallers

LEMMA AccountedPost ==
    ASSUME TypeOK, Accounted, post_upcall
    PROVE  Accounted'
<1> DEFINE m == Head(batch)
           w == find_worker(m)
<1>1. batch # <<>> /\ batch \in Seq(Upcall)
  BY DEF post_upcall, TypeOK
<1>2. m \in Upcall /\ m = batch[1] /\ Len(batch) \in Nat /\ Len(batch) >= 1
  BY <1>1, HeadTailProperties, EmptySeq, LenProperties, SMT
<1>3. /\ Len(Tail(batch)) = Len(batch) - 1
      /\ \A i \in 1 .. Len(batch) - 1 : Tail(batch)[i] = batch[i + 1]
  BY <1>1, HeadTailProperties, SMT
<1>4. w \in Workers \cup {NoWorker}
  BY <1>2, Routing
<1>5. CASE "nomem" \in Faults /\ Exit
  BY <1>5, AccountedShrink DEF Exit, workerVars
<1>6. CASE batch' = Tail(batch) /\ UNCHANGED <<kreq, glue, u>>
  <2>1. SeqAccounted(batch)'
    BY <1>2, <1>3, <1>6, SMT DEF Accounted, SeqAccounted, Outstanding
  <2>2. \A t \in Threads : Absent(batch, t) => Absent(batch', t)
    BY <1>2, <1>3, <1>6, SMT DEF Absent
  <2>3. \A i \in 1 .. Len(glue) : glue[i].caller \in Threads
    <3>1. \A i \in 1 .. Len(glue) : glue[i] \in Upcall
      BY ElementOfSeq DEF TypeOK
    <3> QED
      BY <3>1 DEF Upcall
  <2>4. \A v \in Workers :
          /\ arg[v] # NULL => arg[v].caller \in Threads
          /\ u[v] # NULL => u[v].caller \in Threads
    BY DEF TypeOK, Upcall
  <2>5. SeqAccounted(glue)'
    BY <1>6 DEF Accounted, SeqAccounted, Outstanding
  <2>6. (\A i \in 1 .. Len(glue) : Absent(batch, glue[i].caller))'
    BY <1>6, <2>2, <2>3 DEF Accounted
  <2>7. (\A v \in Workers : u[v] # NULL => Held(u[v], v))'
    BY <1>6, <2>2, <2>4 DEF Accounted, Held, Outstanding
  <2>8. (\A s, t \in SyncCallers : s = t)'
    BY <1>6 DEF Accounted, SyncCallers
  <2>9. CASE UNCHANGED arg
    <3>1. (\A v \in Workers : arg[v] # NULL => Held(arg[v], v))'
      BY <1>6, <2>2, <2>4, <2>9 DEF Accounted, Held, Outstanding
    <3> QED
      BY <1>6, <2>1, <2>5, <2>6, <2>7, <2>8, <2>9, <3>1 DEF Accounted
  <2>10. CASE w # NoWorker /\ arg' = [arg EXCEPT ![w] = m]
    <3>1. Outstanding(m) /\ m.caller \in Threads
      BY <1>2, SMT DEF Accounted, SeqAccounted, Upcall
    <3>2. Absent(batch', m.caller)
      BY <1>2, <1>3, <1>6, SMT DEF Accounted, SeqAccounted, Absent
    <3>3. Absent(glue, m.caller)
      BY <1>2, SMT DEF Accounted, Absent
    <3>4. w \in Workers /\ arg'[w] = m /\ \A v \in Workers \ {w} : arg'[v] = arg[v]
      BY <1>4, <2>10 DEF TypeOK
    <3>5. (\A v \in Workers : arg[v] # NULL => Held(arg[v], v))'
      BY <1>6, <2>2, <2>4, <3>1, <3>2, <3>3, <3>4
         DEF Accounted, Held, Outstanding
    <3>6. u[w] # NULL => u[w].caller # m.caller
      BY <1>2, <3>4, SMT DEF Accounted, Held, Absent
    <3>7. (\A v \in Workers : arg[v] # NULL /\ u[v] # NULL
                                 => arg[v].caller # u[v].caller)'
      BY <1>6, <3>4, <3>6 DEF Accounted
    <3> QED
      BY <2>1, <2>5, <2>6, <2>7, <2>8, <3>5, <3>7 DEF Accounted
  <2> QED
    BY <1>6, <2>9, <2>10 DEF post_upcall, workerVars, Exit
<1> QED
  BY <1>5, <1>6 DEF post_upcall, workerVars

LEMMA AccountedTake ==
    ASSUME TypeOK, Accounted, NEW w \in Workers, TakeArg(w)
    PROVE  Accounted'
<1>1. CASE arg[w] = NULL
  <2>1. UNCHANGED <<kreq, glue, batch, arg, u>>
    BY <1>1 DEF TakeArg, mainVars
  <2> QED
    BY <2>1, AccountedShrink
<1>2. CASE arg[w] # NULL
  <2>1. /\ UNCHANGED <<kreq, glue, batch>>
        /\ u' = [u EXCEPT ![w] = arg[w]]
        /\ arg' = [arg EXCEPT ![w] = NULL]
    BY <1>2 DEF TakeArg, mainVars
  <2>2. /\ \A v \in Workers : arg'[v] # NULL => v # w /\ arg'[v] = arg[v]
        /\ \A v \in Workers : u'[v] = IF v = w THEN arg[w] ELSE u[v]
    BY <2>1 DEF TypeOK
  <2>3. /\ SeqAccounted(batch)'
        /\ SeqAccounted(glue)'
        /\ (\A i \in 1 .. Len(glue) : Absent(batch, glue[i].caller))'
        /\ (\A s, t \in SyncCallers : s = t)'
    BY <2>1 DEF Accounted, SeqAccounted, Absent, Outstanding, SyncCallers
  <2>4. (\A v \in Workers : arg[v] # NULL => Held(arg[v], v))'
    BY <2>1, <2>2 DEF Accounted, Held, Absent, Outstanding
  <2>5. (\A v \in Workers : u[v] # NULL => Held(u[v], v))'
    BY <1>2, <2>1, <2>2 DEF Accounted, Held, Absent, Outstanding
  <2>6. (\A v \in Workers : arg[v] # NULL /\ u[v] # NULL
                               => arg[v].caller # u[v].caller)'
    BY <2>2 DEF Accounted
  <2> QED
    BY <2>3, <2>4, <2>5, <2>6 DEF Accounted
<1> QED
  BY <1>1, <1>2

\* A downcall releases exactly the thread that asked.
LEMMA ReplyHasOneRecipient ==
    ASSUME TypeOK, Accounted, NEW w \in Workers, u[w] # NULL
    PROVE  /\ u[w] \in Upcall
           /\ kreq[u[w].caller] = u[w].op
           /\ Recipients(u[w]) = {u[w].caller}
<1>1. u[w] \in Upcall /\ u[w].op \in Opcodes /\ u[w].caller \in Threads
  BY DEF TypeOK, Upcall
<1>2. kreq[u[w].caller] = u[w].op
  BY DEF Accounted, Held, Outstanding
<1>3. CASE u[w].op \in AsyncOps
  BY <1>1, <1>2, <1>3 DEF Recipients
<1>4. CASE u[w].op \notin AsyncOps
  <2>1. u[w].caller \in SyncCallers
    BY <1>1, <1>2, <1>4 DEF SyncCallers
  <2>2. SyncCallers = {u[w].caller}
    BY <2>1 DEF Accounted
  <2> QED
    BY <1>1, <1>2, <1>4, <2>2 DEF Recipients
<1> QED
  BY <1>3, <1>4

LEMMA AccountedReply ==
    ASSUME TypeOK, Accounted, NEW w \in Workers, send_downcall(w)
    PROVE  Accounted'
<1>1. /\ UNCHANGED <<glue, batch, arg>>
      /\ u' = [u EXCEPT ![w] = NULL]
      /\ pc[w] = "reply"
  BY DEF send_downcall, Running
<1>2. \A v \in Workers : u'[v] = IF v = w THEN NULL ELSE u[v]
  BY <1>1 DEF TypeOK
<1>3. CASE UNCHANGED kreq
  BY <1>1, <1>2, <1>3, AccountedShrink
<1>4. CASE kreq' = [t \in Threads |->
                      IF t \in Recipients(u[w]) THEN "none" ELSE kreq[t]]
  <2> DEFINE c == u[w].caller
  <2>1. u[w] # NULL
    BY <1>1 DEF TypeOK
  <2>2. u[w] \in Upcall /\ kreq[c] = u[w].op /\ Recipients(u[w]) = {c}
    BY <2>1, ReplyHasOneRecipient
  <2>3. \A t \in Threads : t # c => kreq'[t] = kreq[t]
    BY <1>4, <2>2
  <2>4. /\ \A i \in 1 .. Len(batch) : batch[i] \in Upcall /\ batch[i].caller # c
        /\ \A i \in 1 .. Len(glue) : glue[i] \in Upcall /\ glue[i].caller # c
    BY <2>1, ElementOfSeq DEF TypeOK, Accounted, Held, Absent
  <2>5. \A x \in Upcall : x.caller # c /\ Outstanding(x) => Outstanding(x)'
    BY <2>3 DEF Outstanding, Upcall
  <2>6. \A v \in Workers : arg[v] # NULL => arg[v] \in Upcall /\ arg[v].caller # c
    <3>1. SUFFICES ASSUME NEW v \in Workers, arg[v] # NULL, arg[v].caller = c
                   PROVE  FALSE
      BY DEF TypeOK
    <3>2. arg[v] \in Upcall /\ kreq[c] = arg[v].op /\ find_worker(arg[v]) = v
      BY <3>1 DEF TypeOK, Accounted, Held, Outstanding
    <3>3. arg[v].op = u[w].op /\ find_worker(u[w]) = w
      BY <2>1, <2>2, <3>2 DEF Accounted, Held
    <3>4. v = w
      BY <3>1, <3>2, <3>3 DEF find_worker
    <3> QED
      BY <2>1, <3>1, <3>4 DEF Accounted
  <2>7. \A v \in Workers \ {w} : u[v] # NULL => u[v] \in Upcall /\ u[v].caller # c
    <3>1. SUFFICES ASSUME NEW v \in Workers, v # w, u[v] # NULL, u[v].caller = c
                   PROVE  FALSE
      BY DEF TypeOK
    <3>2. u[v] \in Upcall /\ kreq[c] = u[v].op /\ find_worker(u[v]) = v
      BY <3>1 DEF TypeOK, Accounted, Held, Outstanding
    <3>3. u[v].op = u[w].op /\ find_worker(u[w]) = w
      BY <2>1, <2>2, <3>2 DEF Accounted, Held
    <3> QED
      BY <3>1, <3>2, <3>3 DEF find_worker
  <2> HIDE DEF c
  <2>8. SeqAccounted(batch)' /\ SeqAccounted(glue)'
    BY <1>1, <2>4, <2>5 DEF Accounted, SeqAccounted, Outstanding
  <2>9. (\A i \in 1 .. Len(glue) : Absent(batch, glue[i].caller))'
    BY <1>1 DEF Accounted, Absent
  <2>10. (\A v \in Workers : arg[v] # NULL => Held(arg[v], v))'
    BY <1>1, <2>5, <2>6 DEF Accounted, Held, Absent, Outstanding
  <2>11. (\A v \in Workers : u[v] # NULL => Held(u[v], v))'
    BY <1>1, <1>2, <2>5, <2>7 DEF Accounted, Held, Absent, Outstanding
  <2>12. (\A v \in Workers : arg[v] # NULL /\ u[v] # NULL
                                => arg[v].caller # u[v].caller)'
    BY <1>1, <1>2 DEF Accounted
  <2>13. (\A s, t \in SyncCallers : s = t)'
    <3>1. "none" \notin Opcodes
      BY OpcodesAssumption DEF AsyncOps, SyncOps, BadOps
    <3>2. SyncCallers' \subseteq SyncCallers
      BY <1>4, <3>1 DEF SyncCallers
    <3> QED
      BY <3>2 DEF Accounted
  <2> QED
    BY <2>8, <2>9, <2>10, <2>11, <2>12, <2>13 DEF Accounted
<1> QED
  BY <1>3, <1>4 DEF send_downcall

\* The account survives every step, whatever fails and however the handles fall
\* on the workers.
LEMMA AccountedNext == TypeOK /\ Accounted /\ [Next]_vars => Accounted'
<1> SUFFICES ASSUME TypeOK, Accounted, [Next]_vars PROVE Accounted'
  OBVIOUS
<1>1. ASSUME NEW t \in Threads, NEW op \in Opcodes, Issue(t, op)
      PROVE  Accounted'
  BY <1>1, AccountedIssue
<1>2. CASE Main
  <2>1. CASE init_binder_ipc \/ init_glue \/ LeaveDispatcher
    <3>1. UNCHANGED <<kreq, glue, batch, arg, u>>
      BY <2>1 DEF init_binder_ipc, init_glue, LeaveDispatcher, Exit, workerVars
    <3> QED
      BY <3>1, AccountedShrink
  <2>2. CASE init_workers
    <3>1. ASSUME NEW w \in Workers, CreateWorker(w)
          PROVE  Accounted'
      BY <3>1, AccountedShrink DEF CreateWorker, TypeOK
    <3>2. CASE proc = "init_workers" /\ "init" \in Faults /\ Exit
      BY <3>2, AccountedShrink DEF Exit, workerVars
    <3> QED
      BY <2>2, <3>1, <3>2 DEF init_workers
  <2>3. CASE ReadUpcalls
    BY <2>3, AccountedRead
  <2>4. CASE post_upcall
    BY <2>4, AccountedPost
  <2> QED
    BY <1>2, <2>1, <2>2, <2>3, <2>4 DEF Main, MainRuns
<1>3. ASSUME NEW w \in Workers, WorkerStep(w)
      PROVE  Accounted'
  <2>1. CASE TakeArg(w)
    BY <2>1, AccountedTake
  <2>2. CASE Handle(w)
    <3>1. /\ UNCHANGED <<kreq, glue, batch, arg>>
          /\ \/ UNCHANGED u
             \/ u' = [u EXCEPT ![w] = NULL]
      BY <2>2
         DEF Handle, HandleAtOnce, handle_close, handle_pipe, handle_socket,
             handle_alien_mmap2, handle_poll, handle_binder_write_read,
             handle_futex_wait, handle_futex_wake, HandleUnknown, mainVars
    <3> QED
      BY <3>1, AccountedShrink DEF TypeOK
  <2>3. CASE BinderReplyNoMemory(w)
    BY <2>3, AccountedShrink DEF BinderReplyNoMemory, Exit, workerVars
  <2>4. CASE send_downcall(w)
    BY <2>4, AccountedReply
  <2>5. CASE SpuriousWakeup(w) \/ Unblock(w)
    BY <2>5, AccountedShrink DEF SpuriousWakeup, Unblock, mainVars
  <2> QED
    BY <1>3, <2>1, <2>2, <2>3, <2>4, <2>5 DEF WorkerStep, worker_loop
<1>4. CASE UNCHANGED vars
  BY <1>4, AccountedShrink DEF vars
<1> QED
  BY <1>1, <1>2, <1>3, <1>4 DEF Next, WorkerStep

LEMMA IInvCorrect == Spec => []IInv
<1>1. Init => IInv
  BY TypeInit, AccountedInit DEF IInv
<1>2. IInv /\ [Next]_vars => IInv'
  BY TypeNext, AccountedNext DEF IInv
<1> QED
  BY <1>1, <1>2, PTL DEF Spec

\* Every upcall anywhere in Venus is the one its thread sleeps on, exists once
\* and is with the worker find_worker names, whatever fails.
THEOREM AccountedCorrect == Spec => []Accounted
<1>1. IInv => Accounted
  BY DEF IInv
<1> QED
  BY <1>1, IInvCorrect, PTL

\* A downcall always releases exactly the thread that made the upcall, and that
\* thread still waits for this very operation: no answer is given twice or to a
\* thread that did not ask, even when workers die or threads share a worker.
THEOREM ReplyToAskerCorrect == Spec => []ReplyToAsker
<1>1. IInv => ReplyToAsker
  <2> SUFFICES ASSUME IInv, NEW w \in Workers, pc[w] = "reply"
               PROVE  /\ Recipients(u[w]) = {u[w].caller}
                      /\ kreq[u[w].caller] = u[w].op
    BY DEF ReplyToAsker
  <2>1. u[w] # NULL
    BY DEF IInv, TypeOK
  <2> QED
    BY <2>1, ReplyHasOneRecipient DEF IInv
<1> QED
  BY <1>1, IInvCorrect, PTL

-----------------------------------------------------------------------------
\* What the 1:1 mapping adds: two upcalls that are routed to the same worker and
\* are both outstanding have the same caller.
LEMMA SameWorkerSameCaller ==
    ASSUME OneToOne, TypeOK, Accounted,
           NEW m \in Upcall, NEW n \in Upcall,
           Outstanding(m), Outstanding(n),
           find_worker(m) = find_worker(n), find_worker(m) # NoWorker
    PROVE  m.caller = n.caller
<1>1. /\ m.op \in Opcodes /\ m.caller \in Threads
      /\ n.op \in Opcodes /\ n.caller \in Threads
  BY DEF Upcall
<1>2. CASE m.op \in AsyncOps /\ n.op \in AsyncOps
  <2>1. AsyncWorker(m.caller) = AsyncWorker(n.caller)
    BY <1>2, Routing
  <2> QED
    BY <1>1, <2>1 DEF OneToOne
<1>3. CASE m.op \notin AsyncOps /\ n.op \notin AsyncOps
  <2>1. m.caller \in SyncCallers /\ n.caller \in SyncCallers
    BY <1>1, <1>3 DEF SyncCallers, Outstanding
  <2> QED
    BY <2>1 DEF Accounted
<1>4. ASSUME NEW x \in Upcall, NEW y \in Upcall,
             x.op \in AsyncOps, y.op \notin AsyncOps,
             find_worker(x) = find_worker(y)
      PROVE  FALSE
  <2>1. find_worker(x) \in 0 .. WORKER_NUM - 2
    BY <1>4, Routing
  <2>2. find_worker(y) \in {SyncWorker, NoWorker}
    BY <1>4 DEF find_worker
  <2> QED
    BY <1>4, <2>1, <2>2, WorkerNumAssumption, SMT DEF SyncWorker, NoWorker
<1> QED
  BY <1>2, <1>3, <1>4

\* The mailbox of the next upcall of the batch is empty.
LEMMA MailboxIsFree ==
    ASSUME OneToOne, IInv
    PROVE  NoSpuriousCommand
<1> SUFFICES ASSUME IInv, batch # <<>>,
                    find_worker(Head(batch)) # NoWorker,
                    arg[find_worker(Head(batch))] # NULL
             PROVE  FALSE
  BY DEF NoSpuriousCommand
<1> DEFINE m == Head(batch)
           w == find_worker(m)
<1>1. m \in Upcall /\ m = batch[1] /\ Len(batch) \in Nat /\ Len(batch) >= 1
  BY HeadTailProperties, EmptySeq, LenProperties, SMT DEF IInv, TypeOK
<1>2. w \in Workers
  BY <1>1, Routing
<1>3. Outstanding(m)
  BY <1>1, SMT DEF IInv, Accounted, SeqAccounted
<1>4. arg[w] \in Upcall /\ Held(arg[w], w)
  BY <1>2 DEF IInv, Accounted, TypeOK
<1>5. arg[w].caller = m.caller
  <2>1. Outstanding(arg[w]) /\ find_worker(arg[w]) = find_worker(m)
    BY <1>4 DEF Held
  <2> QED
    BY <1>1, <1>3, <1>4, <2>1, SameWorkerSameCaller DEF IInv
<1>6. batch[1].caller # arg[w].caller
  BY <1>1, <1>4, SMT DEF Held, Absent
<1> QED
  BY <1>1, <1>5, <1>6

\* With handles that fall on distinct workers the spurious command that
\* post_upcall warns of never happens: no upcall is overwritten in its mailbox.
THEOREM NoSpuriousCommandCorrect ==
    ASSUME OneToOne
    PROVE  Spec => []NoSpuriousCommand
<1>1. IInv => NoSpuriousCommand
  BY MailboxIsFree
<1> QED
  BY <1>1, IInvCorrect, PTL

\* With handles that fall on distinct workers no upcall ever waits behind a
\* worker that is busy, or asleep, on behalf of another thread: the absence of
\* deadlocks that the comment at the head of upcall.c is about.
THEOREM NoHeadOfLineBlockingCorrect ==
    ASSUME OneToOne
    PROVE  Spec => []NoHeadOfLineBlocking
<1>1. IInv => NoHeadOfLineBlocking
  <2> SUFFICES ASSUME IInv, NEW w \in Workers, arg[w] # NULL, u[w] # NULL
               PROVE  FALSE
    BY DEF NoHeadOfLineBlocking
  <2>1. arg[w] \in Upcall /\ u[w] \in Upcall
    BY DEF IInv, TypeOK
  <2>2. Held(arg[w], w) /\ Held(u[w], w)
    BY DEF IInv, Accounted
  <2>3. w # NoWorker
    BY WorkerNumAssumption DEF Workers, NoWorker
  <2>4. arg[w].caller = u[w].caller
    BY <2>1, <2>2, <2>3, SameWorkerSameCaller DEF IInv, Held
  <2> QED
    BY <2>4 DEF IInv, Accounted
<1> QED
  BY <1>1, IInvCorrect, PTL
=============================================================================
