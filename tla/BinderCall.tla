----------------------------- MODULE BinderCall -----------------------------
(***************************************************************************)
(* Blocking calls over /dev/binder (android/bench-binder/binder.c): the    *)
(* caller's loop binder_call, the server's loop binder_loop, and the       *)
(* parser binder_parse they share.  The kernel driver and the service      *)
(* manager are external: the driver queues what a process reads next,      *)
(* holds one open transaction per thread, and owns the buffers until a     *)
(* BC_FREE_BUFFER.  The programs that call this library are in modules     *)
(* that extend this one.                                                   *)
(***************************************************************************)
EXTENDS Naturals, Sequences, FiniteSets

CONSTANTS
    BufferRoom,       \* the buffers that fit into the mapping of binder_open
    MaxInterrupts,    \* bound on the ioctls of binder_call that fail
    MaxFailedWrites,  \* bound on the ioctls of binder_write that fail
    MaxLoopErrors     \* bound on the ioctls of binder_loop that fail

ASSUME RoomAssumption == BufferRoom \in Nat \ {0}
ASSUME FaultBounds ==
    MaxInterrupts \in Nat /\ MaxFailedWrites \in Nat /\ MaxLoopErrors \in Nat

Procs == {"parent", "child"}
Nodes == Procs \cup {"svcmgr"}
\* A target is a handle: 0, the service manager, or the one of the service
\* that "parent" publishes.
Targets == {0, 1}
Owner(target) == IF target = 0 THEN "svcmgr" ELSE "parent"
Codes == {"ADD_SERVICE", "GET_SERVICE", "PINGPONG"}

\* What the driver puts into a read buffer.  "complete" stands for every
\* command that binder_parse skips.  n numbers the calls; peer is who sent
\* it; arg is the code of a transaction, or for a reply "ref" when an object
\* comes with it, "status" when a failure does, "data" otherwise.
Command == [cmd : {"complete", "txn", "reply", "failed", "dead"}, n : Nat,
            peer : Nodes, arg : Codes \cup {"ref", "status", "data", "none"}]
Cmd(c, n, p, a) == [cmd |-> c, n |-> n, peer |-> p, arg |-> a]
NoReply == Cmd("failed", 0, "svcmgr", "none")

VARIABLES
    pc,           \* "main", "write", "read", "parse", "returned" or "exited"
    looping,      \* the process is in binder_loop
    call,         \* the call in progress: its number, target and code
    readbuf,      \* the part of readbuf that is not parsed yet
    r,            \* the result of binder_parse so far: 1, 0, or 2 for -1
    reply,        \* what *reply was initialised from, NoReply after a failure
    calls         \* the number of calls made so far

VARIABLES
    todo,         \* driver: what each process reads next
    err,          \* driver: the error it reads before that, or "none"
    stack,        \* driver: the open transaction of each caller, 0 for none
    alive,        \* driver: the processes whose fd is open
    held,         \* driver: the buffers a process has been given and not freed
    refs,         \* driver: strong references on handle 1
    registered,   \* service manager: it knows the service
    interrupts, failedWrites, loopErrors

callVars == <<pc, looping, call, readbuf, r, reply, calls>>
faultVars == <<interrupts, failedWrites, loopErrors>>
driverVars == <<todo, err, stack, alive, held, refs, registered>>
libVars == <<callVars, driverVars, faultVars>>

Goto(p, l) == pc' = [pc EXCEPT ![p] = l]

-----------------------------------------------------------------------------
(* The driver. *)

\* A handle is valid while it is referenced or a buffer in use carries it.
ValidHandle(p, target) ==
    \/ target = 0
    \/ refs[p] > 0
    \/ \E b \in held[p] : b.arg = "ref"

IsBuffer(b) == b.cmd \in {"txn", "reply"}

\* A buffer is taken when it is queued, and given back by BC_FREE_BUFFER.
HasRoom(q) ==
    \/ q = "svcmgr"
    \/ Cardinality(held[q]) + Cardinality({k \in DOMAIN todo[q] : IsBuffer(todo[q][k])})
           < BufferRoom

\* BC_TRANSACTION.  A caller that already waits for an answer is refused.
DriverTransaction(p, c) ==
    LET n == c.n
        to == Owner(c.target)
        refused == stack[p] # 0 \/ ~ValidHandle(p, c.target) \/ ~HasRoom(to)
    IN  \/ /\ refused \/ ~alive[to]
           /\ err' = [err EXCEPT ![p] = IF refused THEN "failed" ELSE "dead"]
           /\ UNCHANGED <<todo, stack>>
        \/ /\ ~refused /\ alive[to]
           /\ todo' = [todo EXCEPT ![to] = Append(@, Cmd("txn", n, p, c.code)),
                                   ![p] = Append(@, Cmd("complete", n, p, "none"))]
           /\ stack' = [stack EXCEPT ![p] = n]
           /\ UNCHANGED err

\* BC_REPLY to transaction t, with queues q after t has been taken from one:
\* the caller's transaction is closed, by an error if it has no room for it.
DriverReply(q, from, t, a) ==
    LET to == t.peer
    IN  /\ todo' = IF alive[to] /\ HasRoom(to)
                   THEN [q EXCEPT ![to] = Append(@, Cmd("reply", t.n, from, a))] ELSE q
        /\ err' = IF alive[to] /\ ~HasRoom(to) THEN [err EXCEPT ![to] = "failed"] ELSE err
        /\ stack' = [stack EXCEPT ![to] = 0]

\* The commands of one read: up to and including the first transaction or
\* reply, the rest stays queued.
Delivered(q) ==
    LET ends == {k \in 1..Len(q) : IsBuffer(q[k])}
    IN  IF ends = {} THEN Len(q)
        ELSE CHOOSE k \in ends : \A j \in ends : k <= j

DriverRead(p) ==
    \/ /\ err[p] # "none"
       /\ readbuf' = [readbuf EXCEPT ![p] = <<Cmd(err[p], 0, p, "none")>>]
       /\ err' = [err EXCEPT ![p] = "none"]
       /\ UNCHANGED <<todo, held>>
    \/ /\ err[p] = "none"
       /\ todo[p] # <<>>
       /\ LET k == Delivered(todo[p])
          IN  /\ readbuf' = [readbuf EXCEPT ![p] = SubSeq(todo[p], 1, k)]
              /\ todo' = [todo EXCEPT ![p] = SubSeq(@, k + 1, Len(@))]
              /\ held' = [held EXCEPT ![p] =
                    @ \cup {b \in {todo[p][k]} : IsBuffer(b)}]
       /\ UNCHANGED err

\* The process is gone: whoever waits for it reads BR_DEAD_REPLY.
DriverExit(p) ==
    LET owed == {b.n : b \in {todo[p][k] : k \in 1..Len(todo[p])} \cup held[p]}
        waits(q) == q # p /\ stack[q] # 0 /\ stack[q] \in owed
    IN  /\ alive' = [alive EXCEPT ![p] = FALSE]
        /\ todo' = [todo EXCEPT ![p] = <<>>]
        /\ held' = [held EXCEPT ![p] = {}]
        /\ refs' = [refs EXCEPT ![p] = 0]
        /\ err' = [q \in Procs |-> IF waits(q) THEN "dead" ELSE err[q]]
        /\ stack' = [q \in Procs |-> IF waits(q) THEN 0 ELSE stack[q]]

\* binder_write: one ioctl without a read part; it happens whole or not at
\* all, and no caller looks at its result.
binder_write(effect, noEffect) ==
    \/ effect /\ UNCHANGED faultVars
    \/ /\ failedWrites < MaxFailedWrites
       /\ failedWrites' = failedWrites + 1
       /\ noEffect
       /\ UNCHANGED <<interrupts, loopErrors>>

-----------------------------------------------------------------------------
(* binder_call *)

\* The call is entered.  The messages of the programs modelled here fit their
\* buffers, so the test for BIO_F_OVERFLOW lets them pass.
BeginCall(p, target, code) ==
    /\ calls' = calls + 1
    /\ call' = [call EXCEPT ![p] = [n |-> calls + 1, target |-> target, code |-> code]]
    /\ Goto(p, "write")
    /\ reply' = [reply EXCEPT ![p] = NoReply]
    /\ UNCHANGED <<looping, readbuf, r>>

\* goto fail: *reply is cleared, -1 is returned.
CallFails(p) ==
    /\ Goto(p, "returned")
    /\ reply' = [reply EXCEPT ![p] = NoReply]

\* The write half of the first ioctl; write_consumed stays, so no later
\* iteration writes again.
IoctlWrite(p) ==
    /\ pc[p] = "write"
    /\ DriverTransaction(p, call[p])
    /\ Goto(p, "read")
    /\ UNCHANGED <<looping, call, readbuf, r, reply, calls, alive, held, refs,
                   registered, faultVars>>

\* The read half, in binder_call and in binder_loop.
IoctlRead(p) ==
    /\ pc[p] = "read"
    /\ DriverRead(p)
    /\ Goto(p, "parse")
    /\ r' = [r EXCEPT ![p] = 1]
    /\ UNCHANGED <<looping, call, reply, calls, stack, alive, refs, registered,
                   faultVars>>

\* The ioctl of binder_call fails: before it wrote, or while it sleeps for
\* an answer, with the transaction on its way.
IoctlFails(p) ==
    /\ ~looping[p]
    /\ \/ pc[p] = "write"
       \/ pc[p] = "read" /\ todo[p] = <<>> /\ err[p] = "none"
    /\ interrupts < MaxInterrupts
    /\ interrupts' = interrupts + 1
    /\ CallFails(p)
    /\ UNCHANGED <<looping, call, readbuf, r, calls, driverVars, failedWrites, loopErrors>>

-----------------------------------------------------------------------------
(* binder_parse, one command of the buffer at a time *)

Parsing(p, c) ==
    /\ pc[p] = "parse"
    /\ readbuf[p] # <<>>
    /\ Head(readbuf[p]).cmd = c
    /\ readbuf' = [readbuf EXCEPT ![p] = Tail(@)]

ParseSkip(p) ==
    /\ Parsing(p, "complete")
    /\ UNCHANGED <<pc, looping, call, r, reply, calls, driverVars, faultVars>>

\* bio is taken by the first reply; binder_loop passes none.
ParseReply(p) ==
    /\ Parsing(p, "reply")
    /\ reply' = IF looping[p] \/ r[p] = 0 THEN reply
                ELSE [reply EXCEPT ![p] = Head(readbuf[p])]
    /\ r' = [r EXCEPT ![p] = 0]
    /\ UNCHANGED <<pc, looping, call, calls, driverVars, faultVars>>

\* Mutant: BR_DEAD_REPLY leaves the result alone.
ParseError_DeadSkipped(p) ==
    /\ \/ Parsing(p, "failed") /\ r' = [r EXCEPT ![p] = 2]
       \/ Parsing(p, "dead") /\ UNCHANGED r
    /\ UNCHANGED <<pc, looping, call, reply, calls, driverVars, faultVars>>

\* BR_FAILED_REPLY and BR_DEAD_REPLY.
ParseError(p) ==
    /\ Parsing(p, "failed") \/ Parsing(p, "dead")
    /\ r' = [r EXCEPT ![p] = 2]
    /\ UNCHANGED <<pc, looping, call, reply, calls, driverVars, faultVars>>

\* Mutant: the reply does not free the transaction's buffer.
binder_send_reply_NoFree(p, t, a) ==
    binder_write(DriverReply(todo, p, t, a) /\ UNCHANGED held,
                 UNCHANGED <<todo, err, stack, held>>)

\* func answers, then binder_send_reply frees the transaction's buffer and
\* replies in one write.
binder_send_reply(p, t, a) ==
    binder_write(/\ DriverReply(todo, p, t, a)
                 /\ held' = [held EXCEPT ![p] = @ \ {t}],
                 UNCHANGED <<todo, err, stack, held>>)

ParseTransaction(p) ==
    /\ Parsing(p, "txn")
    /\ looping[p]
    /\ binder_send_reply(p, Head(readbuf[p]), "data")
    /\ UNCHANGED <<pc, looping, call, r, reply, calls, alive, refs, registered>>

\* Mutant: write_consumed is reset in the loop, so the call is sent again.
ParsedInCall_Resends(p) ==
    /\ pc[p] = "parse" /\ readbuf[p] = <<>> /\ ~looping[p]
    /\ \/ r[p] = 0 /\ Goto(p, "returned") /\ UNCHANGED reply
       \/ r[p] = 2 /\ CallFails(p)
       \/ r[p] = 1 /\ Goto(p, "write") /\ UNCHANGED reply
    /\ UNCHANGED <<looping, call, readbuf, r, calls, driverVars, faultVars>>

\* The end of the buffer, in binder_call.
ParsedInCall(p) ==
    /\ pc[p] = "parse" /\ readbuf[p] = <<>> /\ ~looping[p]
    /\ \/ r[p] = 0 /\ Goto(p, "returned") /\ UNCHANGED reply
       \/ r[p] = 2 /\ CallFails(p)
       \/ r[p] = 1 /\ Goto(p, "read") /\ UNCHANGED reply
    /\ UNCHANGED <<looping, call, readbuf, r, calls, driverVars, faultVars>>

\* binder_loop returns, and with it the program.
LoopEnds(p) ==
    /\ Goto(p, "exited")
    /\ looping' = [looping EXCEPT ![p] = FALSE]
    /\ DriverExit(p)
    /\ UNCHANGED registered

\* The end of the buffer, in binder_loop: only 1 goes on.
ParsedInLoop(p) ==
    /\ pc[p] = "parse" /\ readbuf[p] = <<>> /\ looping[p]
    /\ IF r[p] = 1
       THEN Goto(p, "read") /\ UNCHANGED <<looping, driverVars>>
       ELSE LoopEnds(p)
    /\ UNCHANGED <<call, readbuf, r, reply, calls, faultVars>>

LoopIoctlFails(p) ==
    /\ looping[p] /\ pc[p] = "read"
    /\ loopErrors < MaxLoopErrors
    /\ loopErrors' = loopErrors + 1
    /\ LoopEnds(p)
    /\ UNCHANGED <<call, readbuf, r, reply, calls, interrupts, failedWrites>>

\* The transaction of a process that makes a call is never for it: only
\* binder_loop has a handler.
Library(p) ==
    \/ IoctlWrite(p) \/ IoctlRead(p) \/ IoctlFails(p)
    \/ ParseSkip(p) \/ ParseReply(p) \/ ParseError(p) \/ ParseTransaction(p)
    \/ ParsedInCall(p) \/ ParsedInLoop(p) \/ LoopIoctlFails(p)

-----------------------------------------------------------------------------
(* binder_acquire and binder_done, which callers use on what they got *)

\* BC_ACQUIRE counts only on a handle that is still valid.
binder_acquire(p) ==
    binder_write(refs' = IF ValidHandle(p, 1) THEN [refs EXCEPT ![p] = @ + 1] ELSE refs,
                 UNCHANGED refs)

\* Only a reply that came from the driver is given back (BIO_F_SHARED).
binder_done(p) ==
    IF reply[p].cmd = "reply"
    THEN binder_write(held' = [held EXCEPT ![p] = @ \ {reply[p]}], UNCHANGED held)
    ELSE UNCHANGED <<held, faultVars>>

-----------------------------------------------------------------------------
(* The service manager answers in order, and forgets a service whose owner *)
(* has died.  It may refuse to add a service.                              *)

SvcMgrServes ==
    /\ todo["svcmgr"] # <<>>
    /\ LET t == Head(todo["svcmgr"])
           Answers(a) == DriverReply([todo EXCEPT !["svcmgr"] = Tail(@)], "svcmgr", t, a)
       IN  \/ /\ t.arg = "ADD_SERVICE"
              /\ \/ Answers("data") /\ registered' = TRUE
                 \/ Answers("status") /\ UNCHANGED registered
           \/ /\ t.arg = "GET_SERVICE"
              /\ Answers(IF registered THEN "ref" ELSE "status")
              /\ UNCHANGED registered
           \/ /\ t.arg = "PINGPONG"
              /\ Answers("status")
              /\ UNCHANGED registered
    /\ UNCHANGED <<callVars, alive, held, refs, faultVars>>

SvcMgrForgets ==
    /\ registered /\ ~alive["parent"]
    /\ registered' = FALSE
    /\ UNCHANGED <<callVars, todo, err, stack, alive, held, refs, faultVars>>

-----------------------------------------------------------------------------
LibInit ==
    /\ pc = [p \in Procs |-> "main"]
    /\ looping = [p \in Procs |-> FALSE]
    /\ call = [p \in Procs |-> [n |-> 0, target |-> 0, code |-> "PINGPONG"]]
    /\ readbuf = [p \in Procs |-> <<>>]
    /\ r = [p \in Procs |-> 1]
    /\ reply = [p \in Procs |-> NoReply]
    /\ calls = 0
    /\ todo = [q \in Nodes |-> <<>>]
    /\ err = [p \in Procs |-> "none"]
    /\ stack = [p \in Procs |-> 0]
    /\ alive = [q \in Nodes |-> TRUE]
    /\ held = [p \in Procs |-> {}]
    /\ refs = [p \in Procs |-> 0]
    /\ registered = FALSE
    /\ interrupts = 0 /\ failedWrites = 0 /\ loopErrors = 0
=============================================================================
