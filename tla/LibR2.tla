------------------------------- MODULE LibR2 -------------------------------
(***************************************************************************)
(* The interposer of android/tests/libr2: an ioctl that looks up the real  *)
(* one on its first call, prints what a BINDER_WRITE_READ carries before   *)
(* and after, and passes the call on.  Threads call it freely.  The real   *)
(* ioctl is external: a thread that receives sleeps in it until another    *)
(* one has sent.  What is printed is left out; that it is printed under    *)
(* the mutex is not.                                                       *)
(***************************************************************************)
EXTENDS Naturals, FiniteSets

CONSTANTS
    Threads,   \* the threads that call ioctl
    MaxCalls   \* bound on the calls of a thread

ASSUME ThreadsAssumption == IsFiniteSet(Threads) /\ MaxCalls \in Nat

VARIABLES
    pc,           \* where a thread is; "idle" outside of ioctl
    request,      \* what it asks for: "send", "receive" (both
                  \* BINDER_WRITE_READ) or "other"
    calls,        \* the calls it has begun
    initialized, old_ioctl,   \* old_ioctl: "null" or "libc"
    mutex,        \* the threads that hold it
    messages,         \* external: messages not received yet
    crashed       \* a null pointer was called

r2Vars == <<pc, request, calls, initialized, old_ioctl, mutex, messages, crashed>>

IsBwr(t) == request[t] # "other"

Goto(t, l) == pc' = [pc EXCEPT ![t] = l]

-----------------------------------------------------------------------------
\* The program calls ioctl.
Enter(t) ==
    /\ ~crashed /\ pc[t] = "idle" /\ calls[t] < MaxCalls
    /\ calls' = [calls EXCEPT ![t] = @ + 1]
    /\ \E r \in {"send", "receive", "other"} : request' = [request EXCEPT ![t] = r]
    /\ Goto(t, "init")
    /\ UNCHANGED <<initialized, old_ioctl, mutex, messages, crashed>>

\* init: the thread that changes initialized from 0 to 1 looks up ioctl.
init(t) ==
    /\ ~crashed /\ pc[t] = "init"
    /\ initialized' = TRUE
    /\ Goto(t, IF initialized THEN "spin" ELSE "dlsym")
    /\ UNCHANGED <<request, calls, old_ioctl, mutex, messages, crashed>>

\* Mutant: the address goes to a local variable of the same name.
dlsym_Shadowed(t) ==
    /\ ~crashed /\ pc[t] = "dlsym"
    /\ Goto(t, "spin")
    /\ UNCHANGED <<request, calls, initialized, old_ioctl, mutex, messages, crashed>>

dlsym(t) ==
    /\ ~crashed /\ pc[t] = "dlsym"
    /\ old_ioctl' = "libc"
    /\ Goto(t, "spin")
    /\ UNCHANGED <<request, calls, initialized, mutex, messages, crashed>>

\* The wait for initialized, and the test of the request.
Spin(t) ==
    /\ ~crashed /\ pc[t] = "spin" /\ initialized
    /\ Goto(t, IF IsBwr(t) THEN "lock1" ELSE "call")
    /\ UNCHANGED <<request, calls, initialized, old_ioctl, mutex, messages, crashed>>

Lock(t, from, to) ==
    /\ ~crashed /\ pc[t] = from /\ mutex = {}
    /\ mutex' = {t}
    /\ Goto(t, to)
    /\ UNCHANGED <<request, calls, initialized, old_ioctl, messages, crashed>>

Unlock(t, from, to) ==
    /\ ~crashed /\ pc[t] = from
    /\ mutex' = mutex \ {t}
    /\ Goto(t, to)
    /\ UNCHANGED <<request, calls, initialized, old_ioctl, messages, crashed>>

\* Mutant: one critical section around both dumps and the call.
DumpBefore_HoldsLock(t) ==
    \/ Lock(t, "lock1", "dump1")
    \/ /\ ~crashed /\ pc[t] = "dump1"
       /\ Goto(t, "call")
       /\ UNCHANGED <<request, calls, initialized, old_ioctl, mutex, messages, crashed>>

DumpBefore(t) == Lock(t, "lock1", "dump1") \/ Unlock(t, "dump1", "call")

\* The call of old_ioctl, whatever it holds.
CallOld(t) ==
    /\ ~crashed /\ pc[t] = "call"
    /\ \/ old_ioctl = "null" /\ crashed' = TRUE /\ UNCHANGED pc
       \/ old_ioctl = "libc" /\ Goto(t, "kernel") /\ UNCHANGED crashed
    /\ UNCHANGED <<request, calls, initialized, old_ioctl, mutex, messages>>

\* External: the real ioctl returns, to a receiver once there is a message.
RealIoctl(t) ==
    /\ ~crashed /\ pc[t] = "kernel"
    /\ \/ request[t] = "send" /\ messages' = messages + 1
       \/ request[t] = "receive" /\ messages > 0 /\ messages' = messages - 1
       \/ request[t] = "other" /\ UNCHANGED messages
    /\ Goto(t, "lock2")
    /\ UNCHANGED <<request, calls, initialized, old_ioctl, mutex, crashed>>

\* The second critical section is entered for every request.
DumpAfter(t) == Lock(t, "lock2", "dump2") \/ Unlock(t, "dump2", "idle")

R2Init ==
    /\ pc = [t \in Threads |-> "idle"]
    /\ request = [t \in Threads |-> "other"]
    /\ calls = [t \in Threads |-> 0]
    /\ initialized = FALSE /\ old_ioctl = "null"
    /\ mutex = {} /\ messages = 0 /\ crashed = FALSE

ioctl(t) == \/ init(t) \/ dlsym(t) \/ Spin(t) \/ DumpBefore(t) \/ CallOld(t)
            \/ RealIoctl(t) \/ DumpAfter(t)

R2Next == \E t \in Threads : Enter(t) \/ ioctl(t)

R2Spec == R2Init /\ [][R2Next]_r2Vars

-----------------------------------------------------------------------------
\* What two threads print is never mixed: they are not both between the lock
\* and the unlock of the mutex, in either of the two critical sections.
DumpsNotMixed ==
    \A t, u \in Threads :
        pc[t] \in {"dump1", "dump2"} /\ pc[u] \in {"dump1", "dump2"} => t = u

\* The pointer is null only until the first thread has stored it: a call that
\* crashes is one that overtook the thread which is still in dlsym.
NullOnlyAtStart == crashed => \E t \in Threads : pc[t] = "dlsym"

\* No thread waits for good inside the library: a call that does not return is
\* asleep in the real ioctl with nothing to receive.  A sender is never held
\* up by a receiver that sleeps.
SleepsOnlyInKernel ==
    \A t \in Threads :
        <>[](pc[t] = "idle" \/ (pc[t] = "kernel" /\ request[t] = "receive" /\ messages = 0)
             \/ crashed)

\* Every call is intercepted and passed on to the real ioctl.
NoNullCall == ~crashed
=============================================================================
