---------------------------- MODULE BenchVBinder ----------------------------
(***************************************************************************)
(* The vbinder benchmark (android/bench-vbinder): a main thread and a pong *)
(* thread, each with a channel of its own, find each other through two     *)
(* global tids and send a message back and forth.  What main waits for     *)
(* before it looks for pong's channel is three seconds of sleep: in the    *)
(* model it may wake up at any time.  The vbinder system calls are         *)
(* external: a channel delivers to the thread that created it, a           *)
(* capability of -1 sends nothing, a receive sleeps until there is a       *)
(* message, and any call may fail.  The program looks at the result of     *)
(* none of them.                                                           *)
(***************************************************************************)
EXTENDS Integers, Sequences

CONSTANTS
    Sizes,         \* the payload sizes of main, in order
    TEST_TIMES,    \* the messages of each size
    MaxFailures    \* bound on the calls that fail

ASSUME SizesAssumption == Sizes \in Seq(Nat \ {0}) /\ Len(Sizes) > 0
ASSUME TimesAssumption == TEST_TIMES \in Nat \ {0} /\ MaxFailures \in Nat

VThreads == {"main", "pong"}
Tids == {0, 1, 2}
gettid(t) == IF t = "main" THEN 1 ELSE 2
Message == [n : Nat, size : Nat]

VARIABLES
    main,          \* "create", "spawn", "sleep", "send", "recv" or "done"
    pong,          \* "unborn", "create", "tid", "acquire", "recv" or "send"
    ping_thr_tid, pong_thr_tid,
    channels,      \* the tids that have created their channel
    cap,           \* for each thread the tid its capability leads to, or -1
    inbox,         \* the messages that wait for each tid
    round, i,      \* where start_ping is
    sent,          \* the messages main has sent, or tried to send, in order
    buf,           \* for each thread the last message it has received
    failures,      \* the calls that have failed
    skipped        \* the receives of main among them

vbinderVars == <<main, pong, ping_thr_tid, pong_thr_tid, channels, cap, inbox, round, i,
          sent, buf, failures, skipped>>
tids == <<ping_thr_tid, pong_thr_tid>>

NoMessage == [n |-> 0, size |-> 0]

-----------------------------------------------------------------------------
(* The system calls *)

Fails == failures < MaxFailures /\ failures' = failures + 1
Succeeds == failures' = failures

vbinder_create_channel(t) ==
    \/ Succeeds /\ channels' = channels \cup {gettid(t)}
    \/ Fails /\ UNCHANGED channels

\* There is no capability for a thread that has no channel.
vbinder_acquire_channel(t, tid) ==
    \/ Succeeds /\ cap' = [cap EXCEPT ![t] = IF tid \in channels THEN tid ELSE -1]
    \/ Fails /\ cap' = [cap EXCEPT ![t] = -1]

vbinder_send(t, m) ==
    \/ /\ cap[t] # -1 /\ Succeeds
       /\ inbox' = [inbox EXCEPT ![cap[t]] = Append(@, m)]
    \/ /\ cap[t] = -1 /\ UNCHANGED <<inbox, failures>>
    \/ /\ cap[t] # -1 /\ Fails
       /\ UNCHANGED inbox

\* A receive that succeeds; one that fails leaves the buffer as it was.
vbinder_recv(t) ==
    LET tid == gettid(t)
    IN  /\ inbox[tid] # <<>> /\ Succeeds
        /\ buf' = [buf EXCEPT ![t] = Head(inbox[tid])]
        /\ inbox' = [inbox EXCEPT ![tid] = Tail(@)]

-----------------------------------------------------------------------------
(* main and start_ping *)

setupRest == <<cap, inbox, round, i, sent, buf, skipped>>

\* Mutant: the thread is started before main has its channel and its tid.
Setup_SpawnFirst ==
    /\ \/ /\ main = "create" /\ main' = "spawn" /\ pong' = "create"
          /\ UNCHANGED <<channels, tids, failures>>
       \/ /\ main = "spawn" /\ main' = "sleep"
          /\ vbinder_create_channel("main")
          /\ ping_thr_tid' = gettid("main")
          /\ UNCHANGED <<pong, pong_thr_tid>>
    /\ UNCHANGED setupRest

\* main creates its channel and stores its tid before it creates pong.
Setup ==
    /\ \/ /\ main = "create" /\ main' = "spawn"
          /\ vbinder_create_channel("main")
          /\ ping_thr_tid' = gettid("main")
          /\ UNCHANGED <<pong, pong_thr_tid>>
       \/ /\ main = "spawn" /\ main' = "sleep"
          /\ (Succeeds /\ pong' = "create") \/ (Fails /\ UNCHANGED pong)
          /\ UNCHANGED <<channels, tids>>
    /\ UNCHANGED setupRest

\* sleep(3) is over; pong_thr_tid is what it is.
WakeUp ==
    /\ main = "sleep"
    /\ vbinder_acquire_channel("main", pong_thr_tid)
    /\ main' = "send"
    /\ UNCHANGED <<pong, tids, channels, inbox, round, i, sent, buf, skipped>>

SendPing ==
    /\ main = "send"
    /\ LET m == [n |-> Len(sent) + 1, size |-> Sizes[round]]
       IN  sent' = Append(sent, m) /\ vbinder_send("main", m)
    /\ main' = "recv"
    /\ UNCHANGED <<pong, tids, channels, cap, round, i, buf, skipped>>

\* The next iteration; the last one of a size ends start_ping, and the last size
\* ends main and with it the process.
NextIteration ==
    \/ /\ i + 1 < TEST_TIMES
       /\ i' = i + 1 /\ main' = "send" /\ UNCHANGED round
    \/ /\ i + 1 = TEST_TIMES /\ round < Len(Sizes)
       /\ i' = 0 /\ round' = round + 1 /\ main' = "send"
    \/ /\ i + 1 = TEST_TIMES /\ round = Len(Sizes)
       /\ main' = "done" /\ UNCHANGED <<i, round>>

\* The answer ends an iteration, and so does a receive that fails.
RecvPing ==
    /\ main = "recv"
    /\ \/ vbinder_recv("main") /\ UNCHANGED skipped
       \/ Fails /\ skipped' = skipped + 1 /\ UNCHANGED <<buf, inbox>>
    /\ NextIteration
    /\ UNCHANGED <<pong, tids, channels, cap, sent>>

-----------------------------------------------------------------------------
(* pong_thread *)

Running == main # "done"

StartPong ==
    /\ Running
    /\ \/ /\ pong = "create" /\ pong' = "tid"
          /\ vbinder_create_channel("pong")
          /\ UNCHANGED <<pong_thr_tid, cap>>
       \/ /\ pong = "tid" /\ pong' = "acquire"
          /\ pong_thr_tid' = gettid("pong")
          /\ UNCHANGED <<channels, cap, failures>>
       \/ /\ pong = "acquire" /\ pong' = "recv"
          /\ vbinder_acquire_channel("pong", ping_thr_tid)
          /\ UNCHANGED <<pong_thr_tid, channels>>
    /\ UNCHANGED <<main, ping_thr_tid, inbox, round, i, sent, buf, skipped>>

\* After a receive that fails pong sends as many bytes as it says, which is a
\* negative number and as a size_t more than there are: that is refused, and
\* pong receives again.
RecvPong ==
    /\ Running /\ pong = "recv"
    /\ \/ vbinder_recv("pong") /\ pong' = "send"
       \/ Fails /\ UNCHANGED <<pong, buf, inbox>>
    /\ UNCHANGED <<main, tids, channels, cap, round, i, sent, skipped>>

\* Mutant: the whole buffer is sent back instead of what was received.
SendPong_WholeBuffer ==
    /\ Running /\ pong = "send"
    /\ vbinder_send("pong", [buf["pong"] EXCEPT !.size = Sizes[Len(Sizes)]])
    /\ pong' = "recv"
    /\ UNCHANGED <<main, tids, channels, cap, round, i, sent, buf, skipped>>

\* As many bytes go back as came.
SendPong ==
    /\ Running /\ pong = "send"
    /\ vbinder_send("pong", buf["pong"])
    /\ pong' = "recv"
    /\ UNCHANGED <<main, tids, channels, cap, round, i, sent, buf, skipped>>

VInit ==
    /\ main = "create" /\ pong = "unborn"
    /\ ping_thr_tid = 0 /\ pong_thr_tid = 0
    /\ channels = {}
    /\ cap = [t \in VThreads |-> -1]
    /\ inbox = [t \in Tids |-> <<>>]
    /\ round = 1 /\ i = 0
    /\ sent = <<>> /\ buf = [t \in VThreads |-> NoMessage]
    /\ failures = 0 /\ skipped = 0

Main == Setup \/ WakeUp \/ SendPing \/ RecvPing
Pong == StartPong \/ RecvPong \/ SendPong
VNext == Main \/ Pong

VSpec == VInit /\ [][VNext]_vbinderVars

-----------------------------------------------------------------------------
VTypeOK ==
    /\ main \in {"create", "spawn", "sleep", "send", "recv", "done"}
    /\ pong \in {"unborn", "create", "tid", "acquire", "recv", "send"}
    /\ ping_thr_tid \in {0, 1} /\ pong_thr_tid \in {0, 2}
    /\ channels \subseteq {1, 2}
    /\ cap \in [VThreads -> {-1, 1, 2}]
    /\ inbox \in [Tids -> Seq(Message)]
    /\ round \in 1..Len(Sizes) /\ i \in 0..(TEST_TIMES - 1)
    /\ sent \in Seq(Message) /\ buf \in [VThreads -> Message]
    /\ failures \in 0..MaxFailures /\ skipped \in Nat

\* What an iteration of start_ping that ends has received, with its size: its own
\* message, as long as no receive of main has failed.  A receive that fails ends
\* its iteration without an answer, and that answer, if it comes, is taken by
\* the next one: each of them puts main at most one message behind, whatever
\* else fails, and what it receives is always a message as it was sent.
EchoIsOwn ==
    main = "send" /\ Len(sent) > skipped =>
        \E behind \in 0..skipped : buf["main"] = sent[Len(sent) - behind]

\* Both threads sleep on each other with nothing under way only when main woke
\* up before pong had stored its tid, or when a call has failed.  In
\* particular pong finds main's channel, and a tid that is there leads to one.
StuckOnlyIfEarly ==
    main = "recv" /\ pong = "recv" /\ inbox[1] = <<>> /\ inbox[2] = <<>> =>
        (cap["main"] = -1 /\ Len(sent) = 1) \/ failures > 0

\* A tid that another thread can read belongs to a channel that exists, if no
\* call has failed, so the sleep is all that the start depends on.
TidMeansChannel ==
    failures = 0 => {ping_thr_tid, pong_thr_tid} \ {0} \subseteq channels

\* Once main holds a capability the benchmark ends, unless a call fails.
PingPongEnds == main = "send" /\ cap["main"] # -1 ~> main = "done" \/ failures > 0
=============================================================================
