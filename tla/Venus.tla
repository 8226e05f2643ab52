------------------------------- MODULE Venus -------------------------------
(***************************************************************************)
(* Venus, the user-space helper of ExpressOS (android/venus).  A kernel    *)
(* thread that needs an Android service queues an upcall in the glue       *)
(* device /dev/expressos and sleeps.  The dispatcher thread of Venus reads *)
(* the upcalls in batches and hands each one to a worker thread through a  *)
(* one-slot mailbox (arg) protected by a mutex and a condition variable;   *)
(* the worker performs the system call, possibly blocking in it, and       *)
(* answers with a downcall that releases the kernel thread.                *)
(*                                                                         *)
(* The ExpressOS kernel is external: it is modelled from what upcall.c     *)
(* expects of it.  A thread has at most one upcall outstanding; at most    *)
(* one upcall without a handle is outstanding in the whole system, because *)
(* its answer does not say whom it is for.                                 *)
(***************************************************************************)
EXTENDS Integers, Sequences, FiniteSets

CONSTANTS
    WORKER_NUM,   \* number of worker threads
    HANDLE_UNIT,  \* 2^HANDLE_SHIFT: distance of the handles of two threads
    BATCH_MAX,    \* bound: most upcalls one read of the device returns
    Threads,      \* handles of the ExpressOS threads that make upcalls
    Opcodes,      \* operations these threads ask for
    Faults,       \* the kinds of failure that may happen
    NULL          \* the null pointer

AsyncOps == {"SOCKET", "BINDER_WRITE_READ", "POLL", "FUTEX_WAIT", "FUTEX_WAKE"}
SyncOps  == {"CLOSE", "PIPE", "ALIEN_MMAP2"}
\* An opcode below CALL_COUNT that no handler answers, and one above it.
BadOps   == {"REGISTER_HELPER", "UNKNOWN"}

\* The handlers that may sleep in their system call, and those that do not.
MayBlock    == {"BINDER_WRITE_READ", "POLL", "FUTEX_WAIT"}
NonBlocking == (AsyncOps \cup SyncOps) \ MayBlock

FaultKinds == {"init", "ioctl", "malformed", "send", "nomem"}

Upcall == [op : Opcodes, caller : Threads]

ASSUME WorkerNumAssumption == WORKER_NUM \in Nat /\ WORKER_NUM >= 2
ASSUME HandleAssumption    == HANDLE_UNIT \in Nat /\ HANDLE_UNIT > 0 /\ Threads \subseteq Nat
ASSUME BatchAssumption     == BATCH_MAX \in Nat \ {0}
ASSUME OpcodesAssumption   == Opcodes \subseteq AsyncOps \cup SyncOps \cup BadOps
ASSUME FaultsAssumption    == Faults \subseteq FaultKinds
ASSUME NullAssumption      == NULL \notin Upcall

Workers    == 0 .. WORKER_NUM - 1
SyncWorker == WORKER_NUM - 1
NoWorker   == -1

VARIABLES
    proc,   \* what the main thread executes, or "exited"
    kreq,   \* kreq[t]: the operation thread t sleeps on, or "none"
    glue,   \* upcalls queued in the device, oldest first
    batch,  \* what the dispatcher has read and not yet posted (ptr .. end)
    arg,    \* arg[w]: the mailbox of worker w
    u,      \* u[w]: the upcall worker w is handling
    pc      \* pc[w]: where worker w is in worker_loop

vars == <<proc, kreq, glue, batch, arg, u, pc>>
workerVars == <<arg, u, pc>>

-----------------------------------------------------------------------------
(* Routing *)

\* Mutant: HANDLE_SHIFT one too large, so that neighbouring threads collide.
AsyncWorker_ShiftTooFar(h) == (h \div (2 * HANDLE_UNIT)) % (WORKER_NUM - 1)

\* The asynchronous part of find_worker: which of the workers below the last
\* one serves handle h.
AsyncWorker(h) == (h \div HANDLE_UNIT) % (WORKER_NUM - 1)

\* Mutant: the case label of FUTEX_WAKE is missing.
find_worker_NoFutexWake(m) ==
    CASE m.op = "UNKNOWN"                   -> NoWorker
      [] m.op \in AsyncOps \ {"FUTEX_WAKE"} -> AsyncWorker(m.caller)
      [] OTHER                              -> SyncWorker

\* find_worker: the worker an upcall is posted to.
find_worker(m) ==
    CASE m.op = "UNKNOWN"    -> NoWorker
      [] m.op \in AsyncOps   -> AsyncWorker(m.caller)
      [] OTHER               -> SyncWorker

\* "1:1 mapping between a thread in ExpressOS and a thread in venus": the
\* handles in use fall on distinct workers.  It is a fact about the handles the
\* kernel gives out, and find_worker does not check it.
OneToOne == \A s, t \in Threads : s # t => AsyncWorker(s) # AsyncWorker(t)

-----------------------------------------------------------------------------
(* The ExpressOS kernel (external) *)

\* The threads asleep on an upcall that carries no handle.
SyncCallers == {t \in Threads : kreq[t] \in Opcodes \ AsyncOps}

\* Thread t queues an upcall and goes to sleep.
Issue(t, op) ==
    /\ proc # "exited"
    /\ kreq[t] = "none"
    /\ op \notin AsyncOps => SyncCallers = {}
    /\ kreq' = [kreq EXCEPT ![t] = op]
    /\ glue' = Append(glue, [op |-> op, caller |-> t])
    /\ UNCHANGED <<proc, batch, workerVars>>

\* The threads that the answer to upcall m releases: an asynchronous downcall
\* names its thread with the handle it echoes, a synchronous one goes to the
\* thread that waits for a synchronous answer.
Recipients(m) == IF m.op \in AsyncOps THEN {m.caller} ELSE SyncCallers

-----------------------------------------------------------------------------
(* main: initialisation, then the dispatcher *)

Exit == proc' = "exited" /\ UNCHANGED <<kreq, glue, batch, workerVars>>

init_binder_ipc ==
    /\ proc = "init_binder_ipc"
    /\ \/ proc' = "init_glue" /\ UNCHANGED <<kreq, glue, batch, workerVars>>
       \/ "init" \in Faults /\ Exit

init_glue ==
    /\ proc = "init_glue"
    /\ \/ proc' = "init_workers" /\ UNCHANGED <<kreq, glue, batch, workerVars>>
       \/ "init" \in Faults /\ Exit

\* One iteration of the loop of init_workers: reset workers[w] and start it.
\* main goes on to dispatcher_loop after the last one.
CreateWorker(w) ==
    /\ proc = "init_workers"
    /\ pc[w] = "none"
    /\ \A v \in 0 .. w - 1 : pc[v] # "none"
    /\ arg' = [arg EXCEPT ![w] = NULL]
    /\ pc' = [pc EXCEPT ![w] = "check"]
    /\ proc' = IF w = WORKER_NUM - 1 THEN "dispatcher_loop" ELSE proc
    /\ UNCHANGED <<kreq, glue, batch, u>>

init_workers ==
    \/ \E w \in Workers : CreateWorker(w)
    \/ proc = "init_workers" /\ "init" \in Faults /\ Exit

\* dispatcher_loop reads the device when it has posted all of the last batch;
\* the read sleeps while the device has nothing.
ReadUpcalls ==
    /\ proc = "dispatcher_loop"
    /\ batch = <<>>
    /\ \E n \in 1 .. Len(glue) :
          /\ n <= BATCH_MAX
          /\ batch' = SubSeq(glue, 1, n)
          /\ glue' = SubSeq(glue, n + 1, Len(glue))
    /\ UNCHANGED <<proc, kreq, workerVars>>

\* The read fails, or a message of the batch does not fit: dispatcher_loop
\* returns and main with it, which ends every worker.
LeaveDispatcher ==
    /\ proc = "dispatcher_loop"
    /\ \/ batch = <<>> /\ "ioctl" \in Faults
       \/ batch # <<>> /\ "malformed" \in Faults
    /\ Exit

\* Mutant: post_upcall does not signal the condition variable.
post_upcall_NoSignal ==
    /\ proc = "dispatcher_loop"
    /\ batch # <<>>
    /\ batch' = Tail(batch)
    /\ LET w == find_worker(Head(batch))
       IN  arg' = IF w = NoWorker THEN arg ELSE [arg EXCEPT ![w] = Head(batch)]
    /\ UNCHANGED <<proc, kreq, glue, u, pc>>

\* Mutant: only the first upcall of a batch is posted.
post_upcall_FirstOnly ==
    /\ proc = "dispatcher_loop"
    /\ batch # <<>>
    /\ batch' = <<>>
    /\ LET m == Head(batch)
           w == find_worker(m)
       IN  IF w = NoWorker THEN UNCHANGED <<arg, pc>>
           ELSE /\ arg' = [arg EXCEPT ![w] = m]
                /\ pc' = IF pc[w] = "wait" THEN [pc EXCEPT ![w] = "check"] ELSE pc
    /\ UNCHANGED <<proc, kreq, glue, u>>

\* post_upcall for the next message of the batch.  The mailbox is overwritten
\* whether or not it is empty; a failed malloc is not checked and the memcpy
\* through it kills the process.
post_upcall ==
    /\ proc = "dispatcher_loop"
    /\ batch # <<>>
    /\ LET m == Head(batch)
           w == find_worker(m)
       IN  \/ /\ w = NoWorker
              /\ batch' = Tail(batch)
              /\ UNCHANGED <<proc, kreq, glue, workerVars>>
           \/ /\ w # NoWorker
              /\ batch' = Tail(batch)
              /\ arg' = [arg EXCEPT ![w] = m]
              /\ pc' = IF pc[w] = "wait" THEN [pc EXCEPT ![w] = "check"] ELSE pc
              /\ UNCHANGED <<proc, kreq, glue, u>>
           \/ w # NoWorker /\ "nomem" \in Faults /\ Exit

\* What main does when it is scheduled, and all it may do.
MainRuns == init_binder_ipc \/ init_glue \/ init_workers
              \/ ReadUpcalls \/ post_upcall
Main == MainRuns \/ LeaveDispatcher

-----------------------------------------------------------------------------
(* worker_loop *)

Running(w, where) == proc # "exited" /\ pc[w] = where
Goto(w, where) == pc' = [pc EXCEPT ![w] = where]
mainVars == <<proc, kreq, glue, batch>>

\* Mutant: the test of arg is an if instead of a while, so that a spurious
\* wakeup goes on without an upcall.
TakeArg_NoLoop(w) ==
    /\ Running(w, "check")
    /\ \/ /\ u' = [u EXCEPT ![w] = arg[w]]
          /\ arg' = [arg EXCEPT ![w] = NULL]
          /\ Goto(w, "handle")
       \/ /\ arg[w] = NULL
          /\ Goto(w, "wait")
          /\ UNCHANGED <<arg, u>>
    /\ UNCHANGED mainVars

\* Mutant: w->arg = NULL is missing and the upcall is handled twice.
TakeArg_KeepArg(w) ==
    /\ Running(w, "check")
    /\ \/ /\ arg[w] # NULL
          /\ u' = [u EXCEPT ![w] = arg[w]]
          /\ Goto(w, "handle")
       \/ /\ arg[w] = NULL
          /\ Goto(w, "wait")
          /\ UNCHANGED u
    /\ UNCHANGED <<mainVars, arg>>

\* Under the mutex: take the upcall out of the mailbox, or sleep on the
\* condition variable.
TakeArg(w) ==
    /\ Running(w, "check")
    /\ \/ /\ arg[w] # NULL
          /\ u' = [u EXCEPT ![w] = arg[w]]
          /\ arg' = [arg EXCEPT ![w] = NULL]
          /\ Goto(w, "handle")
       \/ /\ arg[w] = NULL
          /\ Goto(w, "wait")
          /\ UNCHANGED <<arg, u>>
    /\ UNCHANGED mainVars

\* pthread_cond_wait may return without a signal; the loop tests arg again.
SpuriousWakeup(w) ==
    /\ Running(w, "wait")
    /\ Goto(w, "check")
    /\ UNCHANGED <<mainVars, arg, u>>

\* The handler of a call that returns at once.  Errors are part of the answer.
HandleAtOnce(w, op) ==
    /\ Running(w, "handle")
    /\ u[w].op = op
    /\ Goto(w, "reply")
    /\ UNCHANGED <<mainVars, arg, u>>

handle_close(w)       == HandleAtOnce(w, "CLOSE")
handle_pipe(w)        == HandleAtOnce(w, "PIPE")
handle_socket(w)      == HandleAtOnce(w, "SOCKET")
handle_alien_mmap2(w) == HandleAtOnce(w, "ALIEN_MMAP2")

\* handle_poll: no memory for the answer is the handler's own error, which
\* ends the worker without an answer.  poll may return at once or sleep.
handle_poll(w) ==
    /\ Running(w, "handle")
    /\ u[w].op = "POLL"
    /\ \/ Goto(w, "reply") /\ UNCHANGED u
       \/ Goto(w, "blocked") /\ UNCHANGED u
       \/ "nomem" \in Faults /\ Goto(w, "dead") /\ u' = [u EXCEPT ![w] = NULL]
    /\ UNCHANGED <<mainVars, arg>>

\* handle_binder_write_read up to the end of its ioctl, which may sleep.
handle_binder_write_read(w) ==
    /\ Running(w, "handle")
    /\ u[w].op = "BINDER_WRITE_READ"
    /\ Goto(w, "reply") \/ Goto(w, "blocked")
    /\ UNCHANGED <<mainVars, arg, u>>

\* The answer of handle_binder_write_read is allocated after the ioctl and the
\* result of malloc is not checked.
BinderReplyNoMemory(w) ==
    /\ Running(w, "reply")
    /\ u[w].op = "BINDER_WRITE_READ"
    /\ "nomem" \in Faults
    /\ Exit

\* handle_futex_wait: the futex word differs, or the worker sleeps on it.
handle_futex_wait(w) ==
    /\ Running(w, "handle")
    /\ u[w].op = "FUTEX_WAIT"
    /\ Goto(w, "reply") \/ Goto(w, "blocked")
    /\ UNCHANGED <<mainVars, arg, u>>

\* The workers asleep on a futex.
Sleepers == {v \in Workers : pc[v] = "blocked" /\ u[v].op = "FUTEX_WAIT"}

\* handle_futex_wake passes a count of 0, for which the futex call wakes at most
\* one sleeper; it wakes none when nobody sleeps on this address.
handle_futex_wake(w) ==
    /\ Running(w, "handle")
    /\ u[w].op = "FUTEX_WAKE"
    /\ \/ Goto(w, "reply")
       \/ \E v \in Sleepers : pc' = [pc EXCEPT ![w] = "reply", ![v] = "reply"]
    /\ UNCHANGED <<mainVars, arg, u>>

\* default: the upcall is freed and nobody is answered.
HandleUnknown(w) ==
    /\ Running(w, "handle")
    /\ u[w].op \notin AsyncOps \cup SyncOps
    /\ u' = [u EXCEPT ![w] = NULL]
    /\ Goto(w, "check")
    /\ UNCHANGED <<mainVars, arg>>

\* send_downcall, then free(u) and the next iteration; when the ioctl fails the
\* handler returns its error and the worker ends.
send_downcall(w) ==
    /\ Running(w, "reply")
    /\ u' = [u EXCEPT ![w] = NULL]
    /\ \/ /\ kreq' = [t \in Threads |->
                        IF t \in Recipients(u[w]) THEN "none" ELSE kreq[t]]
          /\ Goto(w, "check")
       \/ /\ "send" \in Faults
          /\ Goto(w, "dead")
          /\ UNCHANGED kreq
    /\ UNCHANGED <<proc, glue, batch, arg>>

\* The call a worker sleeps in ends for a reason outside Venus: a descriptor
\* becomes ready, a Binder transaction arrives, a timeout, a wake from elsewhere.
Unblock(w) ==
    /\ Running(w, "blocked")
    /\ Goto(w, "reply")
    /\ UNCHANGED <<mainVars, arg, u>>

Handle(w) ==
    \/ handle_close(w) \/ handle_pipe(w) \/ handle_socket(w)
    \/ handle_alien_mmap2(w) \/ handle_poll(w) \/ handle_binder_write_read(w)
    \/ handle_futex_wait(w) \/ handle_futex_wake(w) \/ HandleUnknown(w)

worker_loop(w) ==
    TakeArg(w) \/ Handle(w) \/ BinderReplyNoMemory(w) \/ send_downcall(w)

-----------------------------------------------------------------------------
Init ==
    /\ proc = "init_binder_ipc"
    /\ kreq = [t \in Threads |-> "none"]
    /\ glue = <<>>
    /\ batch = <<>>
    /\ arg = [w \in Workers |-> NULL]
    /\ u = [w \in Workers |-> NULL]
    /\ pc = [w \in Workers |-> "none"]

Next ==
    \/ \E t \in Threads, op \in Opcodes : Issue(t, op)
    \/ Main
    \/ \E w \in Workers : worker_loop(w) \/ SpuriousWakeup(w) \/ Unblock(w)

Spec == Init /\ [][Next]_vars

\* Every runnable thread of Venus is scheduled.  Nothing is assumed of the
\* kernel threads, of the calls a worker sleeps in, or of spurious wakeups, and
\* no failure is ever forced: a dispatcher asleep in its read may sleep for ever,
\* and every other failure is an alternative to a step that succeeds.
Fairness == WF_vars(MainRuns) /\ \A w \in Workers : WF_vars(worker_loop(w))

FairSpec == Spec /\ Fairness

-----------------------------------------------------------------------------
(* Properties *)

PCs == {"none", "check", "wait", "handle", "blocked", "reply", "dead"}
Procs == {"init_binder_ipc", "init_glue", "init_workers", "dispatcher_loop",
          "exited"}

\* Type correctness; a worker holds an upcall exactly while it handles one.
TypeOK ==
    /\ proc \in Procs
    /\ kreq \in [Threads -> Opcodes \cup {"none"}]
    /\ glue \in Seq(Upcall)
    /\ batch \in Seq(Upcall)
    /\ arg \in [Workers -> Upcall \cup {NULL}]
    /\ u \in [Workers -> Upcall \cup {NULL}]
    /\ pc \in [Workers -> PCs]
    /\ \A w \in Workers : u[w] # NULL <=> pc[w] \in {"handle", "blocked", "reply"}

\* "Has spurious command" (upcall.c:235-241): post_upcall never overwrites an
\* upcall that its worker has not taken yet.
NoSpuriousCommand ==
    batch # <<>> /\ find_worker(Head(batch)) # NoWorker
        => arg[find_worker(Head(batch))] = NULL

\* What keeps the system free of deadlocks (upcall.c:56-59): an upcall never
\* waits in a mailbox while its worker is busy, possibly asleep, with another.
NoHeadOfLineBlocking ==
    \A w \in Workers : arg[w] # NULL => u[w] = NULL

\* An answer releases the thread that asked, which still waits for exactly this
\* operation, and no other.
ReplyToAsker ==
    \A w \in Workers : pc[w] = "reply" =>
        /\ Recipients(u[w]) = {u[w].caller}
        /\ kreq[u[w].caller] = u[w].op

\* "To enforce there is no deadlocks in the system" (upcall.c:56-59): it never
\* comes to this, that every thread sleeps, every worker that holds an upcall is
\* asleep on a futex, and the upcall that could wake one is in its mailbox.
NoDeadlock ==
    ~ /\ \A t \in Threads : kreq[t] # "none"
      /\ batch = <<>> /\ glue = <<>>
      /\ \A w \in Workers : u[w] # NULL => w \in Sleepers
      /\ \A w \in Workers : arg[w] # NULL => w \in Sleepers
      /\ \E w \in Workers : arg[w] # NULL /\ arg[w].op = "FUTEX_WAKE"

\* The upcalls on their way to a worker, oldest first.
Queue == batch \o glue

\* The places in Venus and the device where an upcall of thread t is.
Places(t) ==
    [queued  |-> {i \in 1 .. Len(Queue) : Queue[i].caller = t},
     mailbox |-> {w \in Workers : arg[w] # NULL /\ arg[w].caller = t},
     handled |-> {w \in Workers : u[w] # NULL /\ u[w].caller = t}]

\* When nothing fails, a thread that sleeps has its upcall in exactly one place,
\* and a thread that does not sleep in none: post_upcall and worker_loop neither
\* lose nor duplicate an upcall.
NothingLost ==
    \A t \in Threads :
        LET p == Places(t)
        IN  Cardinality(p.queued) + Cardinality(p.mailbox) + Cardinality(p.handled)
              = (IF kreq[t] = "none" THEN 0 ELSE 1)

\* What an upcall found anywhere in Venus is worth: its thread still sleeps on
\* it, and no other copy of it, nor another upcall of its thread, is queued.
Outstanding(m) == kreq[m.caller] = m.op
Absent(s, t) == \A i \in 1 .. Len(s) : s[i].caller # t

SeqAccounted(s) ==
    /\ \A i \in 1 .. Len(s) : Outstanding(s[i])
    /\ \A i, j \in 1 .. Len(s) : s[i].caller = s[j].caller => i = j

Held(m, w) ==
    /\ Outstanding(m)
    /\ find_worker(m) = w
    /\ Absent(batch, m.caller)
    /\ Absent(glue, m.caller)

\* Whatever fails and however handles collide: an upcall in the device, in the
\* batch, in a mailbox or in the hands of a worker is the one upcall its thread
\* sleeps on, it is nowhere twice, and it is with the worker find_worker names.
Accounted ==
    /\ SeqAccounted(batch)
    /\ SeqAccounted(glue)
    /\ \A i \in 1 .. Len(glue) : Absent(batch, glue[i].caller)
    /\ \A w \in Workers : arg[w] # NULL => Held(arg[w], w)
    /\ \A w \in Workers : u[w] # NULL => Held(u[w], w)
    /\ \A w \in Workers :
          arg[w] # NULL /\ u[w] # NULL => arg[w].caller # u[w].caller
    /\ \A s, t \in SyncCallers : s = t

\* A request to Venus whose system call does not sleep is answered, unless the
\* process ended or the worker responsible for it died.
Answered ==
    \A t \in Threads : \A op \in NonBlocking \cap Opcodes :
        kreq[t] = op ~> \/ kreq[t] = "none"
                        \/ proc = "exited"
                        \/ pc[find_worker([op |-> op, caller |-> t])] = "dead"
=============================================================================
