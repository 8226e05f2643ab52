---------------------------- MODULE BenchBinder ----------------------------
(***************************************************************************)
(* The Binder benchmark (android/bench-binder/bench-binder.c) on top of    *)
(* the call library: main publishes the pong service and forks; the parent *)
(* serves in binder_loop, the child reopens the driver and measures rounds *)
(* of pings, one start_ping for each payload size.                         *)
(***************************************************************************)
EXTENDS BinderCall

CONSTANTS
    Rounds,      \* the calls of start_ping in main
    TEST_TIMES   \* the pings of a round

ASSUME RoundsAssumption == Rounds \in Nat \ {0} /\ TEST_TIMES \in Nat \ {0}

VARIABLES
    at,          \* where each process is in main, start_ping and their helpers
    round,       \* the round the child is in
    i,           \* the pings of this round that have returned 0
    pong_srv,    \* what svcmgr_lookup returned
    answers,     \* who answered the pings of this round
    reports      \* for each round that printed its time, who answered it

mainVars == <<at, round, i, pong_srv, answers, reports>>
vars == <<libVars, mainVars>>

At(p, l) == pc[p] = "main" /\ at[p] = l
Returned(p, l) == pc[p] = "returned" /\ at[p] = l
Moves(p, l) == at' = [at EXCEPT ![p] = l]
Exits(p) ==
    /\ Goto(p, "exited")
    /\ DriverExit(p)
    /\ UNCHANGED <<looping, call, readbuf, r, reply, calls, registered, faultVars>>

-----------------------------------------------------------------------------
(* main, in the parent *)

svcmgr_publish ==
    /\ At("parent", "publish")
    /\ BeginCall("parent", 0, "ADD_SERVICE")
    /\ UNCHANGED <<driverVars, faultVars, mainVars>>

\* Mutant: the status of the service manager is not looked at.
Published_Unchecked ==
    /\ Returned("parent", "publish")
    /\ binder_done("parent")
    /\ Goto("parent", "main")
    /\ Moves("parent", "fork")
    /\ UNCHANGED <<looping, call, readbuf, r, reply, calls, todo, err, stack,
                   alive, refs, registered, round, i, pong_srv, answers, reports>>

\* The status is read before binder_done gives the reply back; a failed call
\* or a negative status ends main.
Published ==
    /\ Returned("parent", "publish")
    /\ IF reply["parent"].arg = "data"
       THEN /\ binder_done("parent")
            /\ Goto("parent", "main")
            /\ Moves("parent", "fork")
            /\ UNCHANGED <<looping, call, readbuf, r, reply, calls, todo, err, stack,
                           alive, refs, registered>>
       ELSE /\ Exits("parent")
            /\ UNCHANGED at
    /\ UNCHANGED <<round, i, pong_srv, answers, reports>>

\* fork: the parent enters binder_loop, whose BC_ENTER_LOOPER changes nothing
\* here; the child has its own fd from here.
Fork ==
    /\ At("parent", "fork")
    /\ at' = [at EXCEPT !["parent"] = "loop", !["child"] = "open"]
    /\ looping' = [looping EXCEPT !["parent"] = TRUE]
    /\ Goto("parent", "read")
    /\ UNCHANGED <<call, readbuf, r, reply, calls, driverVars, faultVars,
                   round, i, pong_srv, answers, reports>>

-----------------------------------------------------------------------------
(* main and start_ping, in the child *)

\* binder_close and binder_open: nothing is left of the inherited driver
\* state.  When the open fails the first use of bs ends the process.
Reopen ==
    /\ At("child", "open")
    /\ \/ Moves("child", "lookup") /\ UNCHANGED <<callVars, driverVars, faultVars>>
       \/ Exits("child") /\ UNCHANGED at
    /\ UNCHANGED <<round, i, pong_srv, answers, reports>>

svcmgr_lookup ==
    /\ At("child", "lookup")
    /\ BeginCall("child", 0, "GET_SERVICE")
    /\ UNCHANGED <<driverVars, faultVars, mainVars>>

\* The lookup has returned: bio_get_ref finds a handle or 0, and only a
\* handle is acquired.
LookedUp ==
    /\ Returned("child", "lookup")
    /\ pong_srv' = IF reply["child"].arg = "ref" THEN 1 ELSE 0
    /\ IF pong_srv' = 1 THEN binder_acquire("child") ELSE UNCHANGED <<refs, faultVars>>
    /\ Moves("child", "looked")
    /\ UNCHANGED <<callVars, todo, err, stack, alive, held, registered,
                   round, i, answers, reports>>

\* binder_done of the lookup; start_ping goes on with whatever it got.
StartRound ==
    /\ Returned("child", "looked")
    /\ binder_done("child")
    /\ Goto("child", "main")
    /\ Moves("child", "ping")
    /\ i' = 0 /\ answers' = {}
    /\ UNCHANGED <<looping, call, readbuf, r, reply, calls, todo, err, stack, alive,
                   refs, registered, round, pong_srv, reports>>

Ping ==
    /\ At("child", "ping")
    /\ i < TEST_TIMES
    /\ BeginCall("child", pong_srv, "PINGPONG")
    /\ UNCHANGED <<driverVars, faultVars, mainVars>>

\* Mutant: binder_done is missing.
PingAnswered_NoDone ==
    /\ Returned("child", "ping")
    /\ reply["child"] # NoReply
    /\ i' = i + 1
    /\ answers' = answers \cup {reply["child"].peer}
    /\ Goto("child", "main")
    /\ UNCHANGED <<looping, call, readbuf, r, reply, calls, driverVars, faultVars,
                   at, round, pong_srv, reports>>

\* A call that returned 0 is counted and its reply given back.
PingAnswered ==
    /\ Returned("child", "ping")
    /\ reply["child"] # NoReply
    /\ binder_done("child")
    /\ i' = i + 1
    /\ answers' = answers \cup {reply["child"].peer}
    /\ Goto("child", "main")
    /\ UNCHANGED <<looping, call, readbuf, r, reply, calls, todo, err, stack, alive,
                   refs, registered, at, round, pong_srv, reports>>

\* start_ping returns to main, which goes on with the next size.
NextRound(p) ==
    /\ round' = round + 1
    /\ IF round < Rounds
       THEN /\ Goto(p, "main")
            /\ Moves(p, "lookup")
            /\ UNCHANGED <<driverVars, looping, call, readbuf, r, reply, calls, faultVars>>
       ELSE Exits(p) /\ UNCHANGED at
    /\ UNCHANGED <<i, pong_srv, answers>>

PingFailed ==
    /\ Returned("child", "ping")
    /\ reply["child"] = NoReply
    /\ NextRound("child")
    /\ UNCHANGED reports

Report ==
    /\ At("child", "ping")
    /\ i = TEST_TIMES
    /\ reports' = Append(reports, answers)
    /\ NextRound("child")

Init ==
    /\ LibInit
    /\ at = [p \in Procs |-> IF p = "parent" THEN "publish" ELSE "unborn"]
    /\ round = 1 /\ i = 0 /\ pong_srv = 0 /\ answers = {} /\ reports = <<>>

Parent == svcmgr_publish \/ Published \/ Fork
Child == \/ Reopen \/ svcmgr_lookup \/ LookedUp \/ StartRound
         \/ Ping \/ PingAnswered \/ PingFailed \/ Report
Kernel == SvcMgrServes \/ SvcMgrForgets

Next ==
    \/ Parent
    \/ Child
    \/ (Kernel \/ \E p \in Procs : Library(p)) /\ UNCHANGED mainVars

Spec == Init /\ [][Next]_vars

\* Every process runs on unless it sleeps in an ioctl; the failures are not
\* part of what must happen.
Progress(p) ==
    \/ IoctlWrite(p) \/ IoctlRead(p) \/ ParseSkip(p) \/ ParseReply(p)
    \/ ParseError(p) \/ ParseTransaction(p) \/ ParsedInCall(p) \/ ParsedInLoop(p)
FairSpec ==
    /\ Spec
    /\ WF_vars(Parent) /\ WF_vars(Child)
    /\ WF_vars(SvcMgrServes /\ UNCHANGED mainVars)
    /\ \A p \in Procs : WF_vars(Progress(p) /\ UNCHANGED mainVars)

-----------------------------------------------------------------------------

\* A call that returns 0 returns the answer to the transaction it sent, unless
\* an earlier call was interrupted in its ioctl with the transaction on its
\* way: then the late answer is taken for the one of a later call.  No answer
\* is ever from the future.
ReplyIsOwn ==
    \A p \in Procs : pc[p] = "returned" /\ reply[p] # NoReply =>
        /\ reply[p].n <= call[p].n
        /\ reply[p].n < call[p].n => interrupts > 0

\* Between two calls a process keeps no buffer of the driver: binder_done and
\* binder_send_reply have given back every one, but for the writes that failed.
BuffersReturned ==
    \A p \in Procs :
        pc[p] = "main" \/ (looping[p] /\ pc[p] = "read") =>
            Cardinality(held[p]) <= failedWrites

\* When nothing fails from outside no call fails: no transaction is refused
\* for want of a buffer, of a handle, or because an earlier one is open.
NoCallFails ==
    interrupts + failedWrites + loopErrors = 0 =>
        \A p \in Procs : err[p] = "none" /\ ~(r[p] = 2)

\* A round that prints its time was answered by the pong handler alone, as
\* long as nothing failed: the service is published before the child exists.
ReportsMeasurePong ==
    interrupts + failedWrites + loopErrors = 0 =>
        \A k \in DOMAIN reports : reports[k] = {"parent"}

\* The benchmark ends unless a write fails: every call of the child returns,
\* also when its server dies or its own ioctl is interrupted.
ChildFinishes ==
    at["child"] = "open" ~> pc["child"] = "exited" \/ failedWrites > 0
=============================================================================
