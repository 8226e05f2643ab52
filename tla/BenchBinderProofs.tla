------------------------- MODULE BenchBinderProofs -------------------------
(***************************************************************************)
(* The safety properties of BenchBinder, for every number of rounds and    *)
(* pings, every room for buffers and every bound on the faults.            *)
(*                                                                         *)
(*   BuffersReturned: each process by itself; a buffer it holds is one it  *)
(*     still has to look at, or one whose release was not written (Local). *)
(*   ReplyIsOwn: who calls when (Stages), that no answer is from the       *)
(*     future (Past), and that there is one call at a time with one buffer *)
(*     of it anywhere (Serial).                                            *)
(*   NoCallFails, ReportsMeasurePong: without faults there is room, the    *)
(*     parent lives, the service is registered and the child has a         *)
(*     reference on its handle (FlowInv).                                  *)
(***************************************************************************)
EXTENDS BenchBinder, FiniteSetTheorems, SequenceTheorems, TLAPS

-----------------------------------------------------------------------------
(* Types *)

Labels == {"main", "write", "read", "parse", "returned", "exited"}
Args == Codes \cup {"ref", "status", "data", "none"}

\* What the driver queues; the errors go another way.
Queued == [cmd : {"complete", "txn", "reply"}, n : Nat, peer : Nodes, arg : Args]

CallTypes ==
    /\ pc \in [Procs -> Labels]
    /\ looping \in [Procs -> BOOLEAN]
    /\ call \in [Procs -> [n : Nat, target : Targets, code : Codes]]
    /\ readbuf \in [Procs -> Seq(Command)]
    /\ r \in [Procs -> {0, 1, 2}]
    /\ reply \in [Procs -> Command]
    /\ calls \in Nat

QueueTypes ==
    /\ todo \in [Nodes -> Seq(Queued)]
    /\ err \in [Procs -> {"none", "failed", "dead"}]
    /\ stack \in [Procs -> Nat]

HeldTypes == held \in [Procs -> SUBSET Queued] /\ \A p \in Procs : IsFiniteSet(held[p])

RestTypes ==
    /\ alive \in [Nodes -> BOOLEAN]
    /\ refs \in [Procs -> Nat]
    /\ registered \in BOOLEAN
    /\ interrupts \in Nat /\ failedWrites \in Nat /\ loopErrors \in Nat

MainTypes ==
    /\ at \in [Procs -> {"publish", "fork", "loop", "unborn", "open", "lookup", "looked", "ping"}]
    /\ round \in Nat /\ i \in Nat /\ pong_srv \in Targets
    /\ answers \subseteq Nodes /\ reports \in Seq(SUBSET Nodes)

Types == CallTypes /\ QueueTypes /\ HeldTypes /\ RestTypes /\ MainTypes

LEMMA CmdType ==
    ASSUME NEW c \in {"complete", "txn", "reply"}, NEW n \in Nat, NEW p \in Nodes, NEW a \in Args
    PROVE  /\ Cmd(c, n, p, a) \in Queued
           /\ Cmd(c, n, p, a).cmd = c /\ Cmd(c, n, p, a).n = n
           /\ Cmd(c, n, p, a).peer = p /\ Cmd(c, n, p, a).arg = a
  BY DEF Cmd, Queued

LEMMA QueuedIsCommand == Queued \subseteq Command
  BY DEF Queued, Command, Args

LEMMA NoReplyType == NoReply \in Command /\ NoReply.cmd = "failed" /\ NoReply.n = 0 /\ NoReply.arg = "none"
  BY DEF NoReply, Cmd, Command, Nodes

LEMMA OwnerType == \A t : Owner(t) \in {"svcmgr", "parent"} /\ Owner(t) \in Nodes
  BY DEF Owner, Nodes, Procs

LEMMA TransactionTypes ==
    ASSUME CallTypes, QueueTypes, NEW p \in Procs, DriverTransaction(p, call[p])
    PROVE  QueueTypes'
<1> DEFINE c == call[p]
           to == Owner(c.target)
           t == Cmd("txn", c.n, p, c.code)
           d == Cmd("complete", c.n, p, "none")
<1>1. c.n \in Nat /\ c.code \in Args /\ p \in Nodes /\ to \in Nodes
  BY OwnerType DEF CallTypes, Nodes, Args
<1>2. t \in Queued /\ d \in Queued
  BY <1>1, CmdType DEF Args
<1>3. todo' = todo \/ todo' = [todo EXCEPT ![to] = Append(@, t), ![p] = Append(@, d)]
  BY DEF DriverTransaction
<1>4. todo' \in [Nodes -> Seq(Queued)]
  <2> HIDE DEF t, d, to
  <2>1. \A q \in Nodes : todo[q] \in Seq(Queued)
    BY DEF QueueTypes
  <2>2. \A s \in Seq(Queued) : Append(s, t) \in Seq(Queued) /\ Append(s, d) \in Seq(Queued)
    BY <1>2
  <2> QED BY <1>1, <1>3, <2>1, <2>2 DEF QueueTypes
<1>5. /\ stack' = stack \/ stack' = [stack EXCEPT ![p] = c.n]
      /\ err' = err \/ err' = [err EXCEPT ![p] = "failed"] \/ err' = [err EXCEPT ![p] = "dead"]
  BY DEF DriverTransaction
<1> QED BY <1>1, <1>4, <1>5 DEF QueueTypes

LEMMA ReplyTypes ==
    ASSUME QueueTypes, NEW q \in [Nodes -> Seq(Queued)], NEW from \in Nodes, NEW t \in Queued,
           NEW a \in Args, DriverReply(q, from, t, a)
    PROVE  QueueTypes'
<1> DEFINE b == Cmd("reply", t.n, from, a)
<1>1. b \in Queued /\ t.peer \in Nodes
  <2>1. t.n \in Nat /\ t.peer \in Nodes
    BY DEF Queued
  <2> QED BY <2>1, CmdType
<1>2. \/ todo' = q
      \/ todo' = [q EXCEPT ![t.peer] = Append(@, b)]
  BY DEF DriverReply
<1>3. todo' \in [Nodes -> Seq(Queued)]
  <2>1. \A x \in Nodes : q[x] \in Seq(Queued)
    OBVIOUS
  <2> HIDE DEF b
  <2>2. \A x \in Seq(Queued) : Append(x, b) \in Seq(Queued)
    BY <1>1
  <2> QED BY <1>1, <1>2, <2>1, <2>2
<1>4. /\ stack' = [stack EXCEPT ![t.peer] = 0]
      /\ err' = err \/ err' = [err EXCEPT ![t.peer] = "failed"]
  BY DEF DriverReply
<1> QED BY <1>3, <1>4 DEF QueueTypes

\* The commands of one read are some of those queued.
LEMMA DeliveredRange ==
    ASSUME NEW s \in Seq(Queued), s # <<>>
    PROVE  /\ Delivered(s) \in 1..Len(s)
           /\ \A j \in 1..Len(s) : j < Delivered(s) => ~IsBuffer(s[j])
           /\ IsBuffer(s[Delivered(s)]) \/ Delivered(s) = Len(s)
<1> DEFINE ends == {k \in 1..Len(s) : IsBuffer(s[k])}
<1>1. Len(s) \in Nat \ {0}
  BY EmptySeq, LenProperties
<1>2. CASE ends = {}
  <2>1. Delivered(s) = Len(s)
    BY <1>2 DEF Delivered
  <2> QED BY <1>1, <1>2, <2>1
<1>3. CASE ends # {}
  <2>1. PICK m \in ends : TRUE
    BY <1>3
  <2>2. \E k \in ends : \A j \in ends : k <= j
    <3>1. ends \subseteq 1..Len(s)
      OBVIOUS
    <3>2. ends \in SUBSET Nat
      BY <3>1, <1>1
    <3>3. \E k \in ends : \A j \in ends : ~ (<<j, k>> \in OpToRel(<, Nat))
      BY <1>3, <3>2, NatLessThanWellFounded, WFMin
    <3>4. \A j, k \in Nat : j < k => <<j, k>> \in OpToRel(<, Nat)
      BY Zenon DEF OpToRel
    <3>5. \A j, k \in Nat : ~(j < k) => k <= j
      OBVIOUS
    <3> HIDE DEF ends
    <3> QED BY <3>2, <3>3, <3>4, <3>5, Zenon
  <2>3. Delivered(s) \in ends /\ \A j \in ends : Delivered(s) <= j
    BY <1>3, <2>2 DEF Delivered
  <2> QED BY <1>1, <2>3
<1> QED BY <1>2, <1>3

LEMMA ReadTypes ==
    ASSUME CallTypes, QueueTypes, HeldTypes, NEW p \in Procs, DriverRead(p), UNCHANGED stack
    PROVE  readbuf' \in [Procs -> Seq(Command)] /\ QueueTypes' /\ HeldTypes'
<1>1. p \in Nodes /\ todo[p] \in Seq(Queued)
  BY DEF QueueTypes, Nodes
<1>2. CASE /\ err[p] # "none"
           /\ readbuf' = [readbuf EXCEPT ![p] = <<Cmd(err[p], 0, p, "none")>>]
           /\ err' = [err EXCEPT ![p] = "none"]
           /\ UNCHANGED <<todo, held>>
  <2>1. Cmd(err[p], 0, p, "none") \in Command
    BY <1>1, <1>2 DEF QueueTypes, Cmd, Command
  <2>2. <<Cmd(err[p], 0, p, "none")>> \in Seq(Command)
    BY <2>1
  <2> QED BY <1>2, <2>2 DEF CallTypes, QueueTypes, HeldTypes
<1>3. CASE /\ err[p] = "none" /\ todo[p] # <<>>
           /\ LET k == Delivered(todo[p])
              IN  /\ readbuf' = [readbuf EXCEPT ![p] = SubSeq(todo[p], 1, k)]
                  /\ todo' = [todo EXCEPT ![p] = SubSeq(@, k + 1, Len(@))]
                  /\ held' = [held EXCEPT ![p] = @ \cup {b \in {todo[p][k]} : IsBuffer(b)}]
           /\ UNCHANGED err
  <2> DEFINE k == Delivered(todo[p])
             new == {b \in {todo[p][k]} : IsBuffer(b)}
  <2>1. k \in 1..Len(todo[p]) /\ Len(todo[p]) \in Nat
    BY <1>1, <1>3, DeliveredRange, LenProperties
  <2>2. todo[p][k] \in Queued /\ \A j \in 1..Len(todo[p]) : todo[p][j] \in Queued
    BY <1>1, <2>1, ElementOfSeq
  <2>3. SubSeq(todo[p], 1, k) \in Seq(Queued) /\ SubSeq(todo[p], k + 1, Len(todo[p])) \in Seq(Queued)
    BY <2>1, <2>2, SubSeqProperties
  <2>4. SubSeq(todo[p], 1, k) \in Seq(Command)
    BY <2>1, <2>2, QueuedIsCommand, SubSeqProperties
  <2>5. new \subseteq Queued /\ IsFiniteSet(new)
    <3>1. IsFiniteSet({todo[p][k]})
      BY FS_Singleton
    <3> QED BY <2>2, <3>1, FS_Subset
  <2>6. IsFiniteSet(held[p] \cup new)
    BY <2>5, FS_Union DEF HeldTypes
  <2>7. HeldTypes'
    <3>1. held' = [held EXCEPT ![p] = held[p] \cup new]
      BY <1>3 DEF HeldTypes
    <3> HIDE DEF new
    <3> QED BY <2>5, <2>6, <3>1 DEF HeldTypes
  <2>8. /\ readbuf' = [readbuf EXCEPT ![p] = SubSeq(todo[p], 1, k)]
        /\ todo' = [todo EXCEPT ![p] = SubSeq(todo[p], k + 1, Len(todo[p]))]
        /\ err' = err /\ stack' = stack
    BY <1>1, <1>3 DEF QueueTypes
  <2>9. readbuf' \in [Procs -> Seq(Command)]
    BY <2>4, <2>8 DEF CallTypes
  <2>10. QueueTypes'
    BY <1>1, <2>3, <2>8 DEF QueueTypes
  <2> QED BY <2>7, <2>9, <2>10
<1> QED BY <1>2, <1>3 DEF DriverRead

LEMMA ExitTypes ==
    ASSUME QueueTypes, HeldTypes, RestTypes, NEW p \in Procs, DriverExit(p),
           UNCHANGED <<registered, interrupts, failedWrites>>, loopErrors' \in Nat
    PROVE  QueueTypes' /\ HeldTypes' /\ RestTypes'
<1>1. HeldTypes'
  BY FS_EmptySet DEF HeldTypes, DriverExit
<1>2. QueueTypes'
  BY DEF QueueTypes, DriverExit, Nodes
<1>3. RestTypes'
  BY DEF RestTypes, DriverExit, Nodes
<1> QED BY <1>1, <1>2, <1>3

LEMMA FreeTypes ==
    ASSUME HeldTypes, NEW p \in Procs, NEW c,
           held' = held \/ held' = [held EXCEPT ![p] = @ \ {c}]
    PROVE  HeldTypes'
<1>1. IsFiniteSet(held[p] \ {c})
  BY FS_Subset DEF HeldTypes
<1> QED BY <1>1 DEF HeldTypes

LEMMA DoneEffect ==
    ASSUME NEW p \in Procs, binder_done(p), RestTypes
    PROVE  /\ held' = held \/ held' = [held EXCEPT ![p] = @ \ {reply[p]}]
           /\ interrupts' = interrupts /\ loopErrors' = loopErrors
           /\ failedWrites' = failedWrites \/ failedWrites' = failedWrites + 1
  BY DEF binder_done, binder_write, faultVars

LEMMA AcquireEffect ==
    ASSUME NEW p \in Procs, binder_acquire(p), RestTypes
    PROVE  /\ refs' = refs \/ refs' = [refs EXCEPT ![p] = @ + 1]
           /\ interrupts' = interrupts /\ loopErrors' = loopErrors
           /\ failedWrites' = failedWrites \/ failedWrites' = failedWrites + 1
  BY DEF binder_acquire, binder_write, faultVars

LEMMA BeginTypes ==
    ASSUME Types, NEW p \in Procs, NEW t \in Targets, NEW c \in Codes, BeginCall(p, t, c),
           UNCHANGED <<driverVars, faultVars, mainVars>>
    PROVE  Types'
<1>1. CallTypes'
  BY NoReplyType DEF Types, CallTypes, BeginCall, Goto, Labels
<1> QED BY <1>1 DEF Types, QueueTypes, HeldTypes, RestTypes, MainTypes, driverVars, faultVars, mainVars

LEMMA ExitsTypes ==
    ASSUME CallTypes, QueueTypes, HeldTypes, RestTypes, NEW p \in Procs, Exits(p)
    PROVE  CallTypes' /\ QueueTypes' /\ HeldTypes' /\ RestTypes'
<1>1. QueueTypes' /\ HeldTypes' /\ RestTypes'
  BY ExitTypes DEF Exits, faultVars, RestTypes
<1>2. CallTypes'
  BY DEF CallTypes, Exits, Goto, Labels
<1> QED BY <1>1, <1>2

LEMMA DoneTypes ==
    ASSUME CallTypes, QueueTypes, HeldTypes, RestTypes, NEW p \in Procs, binder_done(p), Goto(p, "main"),
           UNCHANGED <<looping, call, readbuf, r, reply, calls, todo, err, stack, alive, refs, registered>>
    PROVE  CallTypes' /\ QueueTypes' /\ HeldTypes' /\ RestTypes'
<1>1. HeldTypes' /\ RestTypes'
  <2>1. HeldTypes'
    BY DoneEffect, FreeTypes
  <2> QED BY <2>1, DoneEffect DEF RestTypes
<1>2. CallTypes'
  BY DEF CallTypes, Goto, Labels
<1>3. QueueTypes'
  BY DEF QueueTypes
<1> QED BY <1>1, <1>2, <1>3

LEMMA ParsingHead ==
    ASSUME CallTypes, NEW p \in Procs, NEW c, Parsing(p, c)
    PROVE  /\ pc[p] = "parse" /\ readbuf[p] # <<>> /\ readbuf[p] \in Seq(Command)
           /\ Head(readbuf[p]) \in Command /\ Head(readbuf[p]).cmd = c
           /\ Tail(readbuf[p]) \in Seq(Command)
           /\ readbuf' = [readbuf EXCEPT ![p] = Tail(readbuf[p])]
           /\ readbuf' \in [Procs -> Seq(Command)]
<1>1. /\ pc[p] = "parse" /\ readbuf[p] # <<>> /\ readbuf[p] \in Seq(Command)
      /\ Head(readbuf[p]).cmd = c
      /\ readbuf' = [readbuf EXCEPT ![p] = Tail(readbuf[p])]
  BY DEF CallTypes, Parsing
<1>2. Head(readbuf[p]) \in Command /\ Tail(readbuf[p]) \in Seq(Command)
  BY <1>1, HeadTailProperties
<1> QED BY <1>1, <1>2 DEF CallTypes

LEMMA SendReplyTypes ==
    ASSUME QueueTypes, HeldTypes, RestTypes, NEW p \in Procs, NEW t \in Queued,
           binder_send_reply(p, t, "data"), UNCHANGED <<alive, refs, registered>>
    PROVE  QueueTypes' /\ HeldTypes' /\ RestTypes'
<1>1. HeldTypes'
  <2>1. held' = held \/ held' = [held EXCEPT ![p] = @ \ {t}]
    BY DEF binder_send_reply, binder_write
  <2> QED BY <2>1, FreeTypes
<1>2. QueueTypes'
  <2>1. CASE DriverReply(todo, p, t, "data")
    <3>1. todo \in [Nodes -> Seq(Queued)] /\ p \in Nodes /\ "data" \in Args
      BY DEF QueueTypes, Nodes, Args
    <3> QED BY <2>1, <3>1, ReplyTypes
  <2>2. CASE UNCHANGED <<todo, err, stack>>
    BY <2>2 DEF QueueTypes
  <2> QED BY <2>1, <2>2 DEF binder_send_reply, binder_write
<1>3. RestTypes'
  BY DEF RestTypes, binder_send_reply, binder_write, faultVars
<1> QED BY <1>1, <1>2, <1>3

LEMMA ServesTypes ==
    ASSUME QueueTypes, RestTypes, SvcMgrServes
    PROVE  /\ QueueTypes' /\ RestTypes' /\ UNCHANGED <<callVars, alive, held, refs, faultVars>>
           /\ todo["svcmgr"] # <<>> /\ todo["svcmgr"] \in Seq(Queued)
           /\ Head(todo["svcmgr"]) \in Queued
           /\ \E a \in {"data", "status", "ref"} :
                 DriverReply([todo EXCEPT !["svcmgr"] = Tail(@)], "svcmgr", Head(todo["svcmgr"]), a)
<1> DEFINE t == Head(todo["svcmgr"])
           q == [todo EXCEPT !["svcmgr"] = Tail(@)]
<1>1. todo["svcmgr"] # <<>> /\ todo["svcmgr"] \in Seq(Queued) /\ "svcmgr" \in Nodes
  BY DEF QueueTypes, SvcMgrServes, Nodes
<1>2. t \in Queued /\ Tail(todo["svcmgr"]) \in Seq(Queued)
  BY <1>1, HeadTailProperties
<1>3. q \in [Nodes -> Seq(Queued)]
  BY <1>1, <1>2 DEF QueueTypes
<1>4. /\ \E a \in {"data", "status", "ref"} : DriverReply(q, "svcmgr", t, a)
      /\ registered' \in BOOLEAN /\ UNCHANGED <<callVars, alive, held, refs, faultVars>>
  BY DEF SvcMgrServes, RestTypes
<1>5. QueueTypes'
  <2>1. PICK a \in {"data", "status", "ref"} : DriverReply(q, "svcmgr", t, a)
    BY <1>4
  <2>2. a \in Args
    BY DEF Args
  <2> HIDE DEF q, t
  <2> QED BY <1>1, <1>2, <1>3, <2>1, <2>2, ReplyTypes
<1>6. RestTypes'
  BY <1>4 DEF RestTypes, faultVars
<1> QED BY <1>1, <1>2, <1>4, <1>5, <1>6

LEMMA TxnIsQueued == \A c \in Command : IsBuffer(c) => c \in Queued
  BY DEF Command, Queued, IsBuffer, Args

LEMMA LibraryTypes ==
    ASSUME Types, NEW p \in Procs, Library(p), UNCHANGED mainVars
    PROVE  Types'
<1> USE DEF Types
<1>m. MainTypes'
  BY DEF MainTypes, mainVars
<1>1. CASE IoctlWrite(p)
  <2>1. QueueTypes'
    BY <1>1, TransactionTypes DEF IoctlWrite
  <2>2. CallTypes' /\ HeldTypes' /\ RestTypes'
    BY <1>1 DEF IoctlWrite, CallTypes, HeldTypes, RestTypes, Goto, Labels, faultVars
  <2> QED BY <2>1, <2>2, <1>m
<1>2. CASE IoctlRead(p)
  <2>1. readbuf' \in [Procs -> Seq(Command)] /\ QueueTypes' /\ HeldTypes'
    BY <1>2, ReadTypes DEF IoctlRead
  <2>2. CallTypes' /\ RestTypes'
    BY <1>2, <2>1 DEF IoctlRead, CallTypes, RestTypes, Goto, Labels, faultVars
  <2> QED BY <2>1, <2>2, <1>m
<1>3. CASE IoctlFails(p)
  <2>1. CallTypes'
    BY <1>3, NoReplyType DEF IoctlFails, CallFails, CallTypes, Goto, Labels
  <2> QED BY <1>3, <2>1, <1>m DEF IoctlFails, QueueTypes, HeldTypes, RestTypes, driverVars
<1>4. CASE ParseSkip(p)
  <2>1. CallTypes'
    BY <1>4, ParsingHead DEF ParseSkip, CallTypes
  <2> QED BY <1>4, <2>1, <1>m DEF ParseSkip, QueueTypes, HeldTypes, RestTypes, driverVars, faultVars
<1>5. CASE ParseReply(p)
  <2>1. CallTypes'
    BY <1>5, ParsingHead DEF ParseReply, CallTypes
  <2> QED BY <1>5, <2>1, <1>m DEF ParseReply, QueueTypes, HeldTypes, RestTypes, driverVars, faultVars
<1>6. CASE ParseError(p)
  <2>1. CallTypes'
    BY <1>6, ParsingHead DEF ParseError, CallTypes
  <2> QED BY <1>6, <2>1, <1>m DEF ParseError, QueueTypes, HeldTypes, RestTypes, driverVars, faultVars
<1>7. CASE ParseTransaction(p)
  <2>1. Parsing(p, "txn")
    BY <1>7 DEF ParseTransaction
  <2>2. CallTypes'
    BY <1>7, <2>1, ParsingHead DEF ParseTransaction, CallTypes
  <2>3. Head(readbuf[p]) \in Queued
    BY <2>1, ParsingHead, TxnIsQueued DEF IsBuffer
  <2>4. QueueTypes' /\ HeldTypes' /\ RestTypes'
    BY <1>7, <2>3, SendReplyTypes DEF ParseTransaction
  <2> QED BY <2>2, <2>4, <1>m
<1>8. CASE ParsedInCall(p)
  <2>1. CallTypes'
    BY <1>8, NoReplyType DEF ParsedInCall, CallFails, CallTypes, Goto, Labels
  <2> QED BY <1>8, <2>1, <1>m DEF ParsedInCall, QueueTypes, HeldTypes, RestTypes, driverVars, faultVars
<1>9. CASE ParsedInLoop(p)
  <2>1. CallTypes'
    BY <1>9 DEF ParsedInLoop, LoopEnds, CallTypes, Goto, Labels
  <2>2. CASE UNCHANGED driverVars
    BY <1>9, <2>1, <2>2, <1>m DEF ParsedInLoop, QueueTypes, HeldTypes, RestTypes, driverVars, faultVars
  <2>3. CASE LoopEnds(p)
    <3>1. QueueTypes' /\ HeldTypes' /\ RestTypes'
      BY <1>9, <2>3, ExitTypes DEF ParsedInLoop, LoopEnds, faultVars, RestTypes
    <3> QED BY <2>1, <3>1, <1>m
  <2> QED BY <1>9, <2>2, <2>3 DEF ParsedInLoop
<1>10. CASE LoopIoctlFails(p)
  <2>1. CallTypes'
    BY <1>10 DEF LoopIoctlFails, LoopEnds, CallTypes, Goto, Labels
  <2>2. QueueTypes' /\ HeldTypes' /\ RestTypes'
    BY <1>10, ExitTypes DEF LoopIoctlFails, LoopEnds, RestTypes
  <2> QED BY <2>1, <2>2, <1>m
<1> QED BY <1>1, <1>2, <1>3, <1>4, <1>5, <1>6, <1>7, <1>8, <1>9, <1>10 DEF Library

LEMMA ProcsType == "parent" \in Procs /\ "child" \in Procs /\ Procs \subseteq Nodes
  BY DEF Procs, Nodes

LEMMA ProgramTypes == Types /\ (Parent \/ Child) => Types'
<1> SUFFICES ASSUME Types, Parent \/ Child PROVE Types'
  OBVIOUS
<1> USE ProcsType DEF Types
<1>1. CASE svcmgr_publish
  BY <1>1, BeginTypes DEF svcmgr_publish, Targets, Codes
<1>2. CASE Published
  <2>1. CallTypes' /\ QueueTypes' /\ HeldTypes' /\ RestTypes'
    BY <1>2, DoneTypes, ExitsTypes DEF Published
  <2>2. MainTypes'
    BY <1>2 DEF Published, MainTypes, Moves
  <2> QED BY <2>1, <2>2
<1>3. CASE Fork
  <2>1. CallTypes' /\ MainTypes'
    BY <1>3 DEF Fork, CallTypes, MainTypes, Goto, Labels
  <2> QED BY <1>3, <2>1 DEF Fork, QueueTypes, HeldTypes, RestTypes, driverVars, faultVars
<1>4. CASE Reopen
  <2>1. MainTypes'
    BY <1>4 DEF Reopen, MainTypes, Moves
  <2>2. CASE UNCHANGED <<callVars, driverVars, faultVars>>
    BY <2>1, <2>2 DEF CallTypes, QueueTypes, HeldTypes, RestTypes, callVars, driverVars, faultVars
  <2>3. CASE Exits("child")
    BY <2>1, <2>3, ExitsTypes
  <2> QED BY <1>4, <2>2, <2>3 DEF Reopen
<1>5. CASE svcmgr_lookup
  BY <1>5, BeginTypes DEF svcmgr_lookup, Targets, Codes
<1>6. CASE LookedUp
  <2>1. MainTypes'
    BY <1>6 DEF LookedUp, MainTypes, Moves, Targets
  <2>2. RestTypes'
    BY <1>6, AcquireEffect DEF LookedUp, RestTypes, faultVars
  <2> QED BY <1>6, <2>1, <2>2 DEF LookedUp, CallTypes, QueueTypes, HeldTypes, callVars
<1>7. CASE StartRound
  <2>1. CallTypes' /\ QueueTypes' /\ HeldTypes' /\ RestTypes'
    BY <1>7, DoneTypes DEF StartRound
  <2>2. MainTypes'
    BY <1>7 DEF StartRound, MainTypes, Moves
  <2> QED BY <2>1, <2>2
<1>8. CASE Ping
  BY <1>8, BeginTypes DEF Ping, MainTypes, Codes
<1>9. CASE PingAnswered
  <2>1. CallTypes' /\ QueueTypes' /\ HeldTypes' /\ RestTypes'
    BY <1>9, DoneTypes DEF PingAnswered
  <2>2. reply["child"].peer \in Nodes
    BY DEF CallTypes, Command
  <2>3. MainTypes'
    BY <1>9, <2>2 DEF PingAnswered, MainTypes
  <2> QED BY <2>1, <2>3
<1>10. ASSUME NextRound("child"), reports' \in Seq(SUBSET Nodes) PROVE Types'
  <2>1. MainTypes'
    BY <1>10 DEF NextRound, MainTypes, Moves
  <2>2. CASE Exits("child")
    BY <2>1, <2>2, ExitsTypes
  <2>3. CASE ~Exits("child")
    <3>1. Goto("child", "main") /\ UNCHANGED <<driverVars, looping, call, readbuf, r, reply, calls, faultVars>>
      BY <1>10, <2>3 DEF NextRound
    <3>2. CallTypes'
      BY <3>1 DEF CallTypes, Goto, Labels
    <3> QED BY <2>1, <3>1, <3>2 DEF QueueTypes, HeldTypes, RestTypes, driverVars, faultVars
  <2> QED BY <2>2, <2>3
<1>11. CASE PingFailed
  <2>1. reports' \in Seq(SUBSET Nodes)
    BY <1>11 DEF PingFailed, MainTypes
  <2> QED BY <1>11, <2>1, <1>10 DEF PingFailed
<1>12. CASE Report
  <2>1. reports' \in Seq(SUBSET Nodes)
    BY <1>12 DEF Report, MainTypes
  <2> QED BY <1>12, <2>1, <1>10 DEF Report
<1> QED BY <1>1, <1>2, <1>3, <1>4, <1>5, <1>6, <1>7, <1>8, <1>9, <1>11, <1>12 DEF Parent, Child

LEMMA TypesStep == Types /\ [Next]_vars => Types'
<1> SUFFICES ASSUME Types, [Next]_vars PROVE Types'
  OBVIOUS
<1>1. CASE Parent \/ Child
  BY <1>1, ProgramTypes
<1>2. ASSUME NEW p \in Procs, Library(p), UNCHANGED mainVars PROVE Types'
  BY <1>2, LibraryTypes
<1>3. CASE SvcMgrServes /\ UNCHANGED mainVars
  <2>1. QueueTypes' /\ RestTypes' /\ UNCHANGED <<callVars, alive, held, refs, faultVars>>
    BY <1>3, ServesTypes DEF Types
  <2> QED BY <1>3, <2>1 DEF Types, CallTypes, HeldTypes, MainTypes, callVars, mainVars
<1>4. CASE SvcMgrForgets /\ UNCHANGED mainVars
  BY <1>4 DEF SvcMgrForgets, Types, CallTypes, QueueTypes, HeldTypes, RestTypes, MainTypes,
     callVars, faultVars, mainVars
<1>5. CASE UNCHANGED vars
  BY <1>5 DEF vars, libVars, Types, CallTypes, QueueTypes, HeldTypes, RestTypes, MainTypes,
     callVars, driverVars, faultVars, mainVars
<1> QED BY <1>1, <1>2, <1>3, <1>4, <1>5 DEF Next, Kernel

LEMMA TypesInit == Init => Types
<1> SUFFICES ASSUME Init PROVE Types
  OBVIOUS
<1>1. <<>> \in Seq(Command) /\ <<>> \in Seq(Queued) /\ <<>> \in Seq(SUBSET Nodes)
  OBVIOUS
<1>2. CallTypes
  BY <1>1, NoReplyType DEF Init, LibInit, CallTypes, Labels, Targets, Codes
<1>3. QueueTypes /\ RestTypes
  BY <1>1 DEF Init, LibInit, QueueTypes, RestTypes
<1>4. HeldTypes
  BY FS_EmptySet DEF Init, LibInit, HeldTypes
<1>5. MainTypes
  BY <1>1, ProcsType DEF Init, MainTypes, Targets
<1> QED BY <1>2, <1>3, <1>4, <1>5 DEF Types

-----------------------------------------------------------------------------
(* Each process by itself: what it has read and the buffers it holds *)

\* The buffers among the commands of s.
Buffers(s) == {c \in {s[k] : k \in 1..Len(s)} : IsBuffer(c)}

\* The reply that the caller of binder_call is about to use.
Taken(p) == {c \in {reply[p]} :
               c.cmd = "reply" /\ pc[p] \in {"parse", "returned"} /\ ~looping[p]}

\* The buffers a process still has to look at.
InUse(p) == Buffers(readbuf[p]) \cup Taken(p)

\* Nothing of a read buffer is left when it is read again, and at most its
\* last command takes a buffer or sets the result; the reply of a call in
\* progress is the one binder_parse has found, if any.
Reads(p) ==
    /\ pc[p] # "parse" => readbuf[p] = <<>>
    /\ \A k \in 1..Len(readbuf[p]) : k < Len(readbuf[p]) => readbuf[p][k].cmd = "complete"
    /\ pc[p] = "parse" /\ r[p] # 1 => readbuf[p] = <<>>
    /\ looping[p] => pc[p] \in {"read", "parse"}

Replies(p) ==
    ~looping[p] =>
       /\ pc[p] \in {"write", "read"} => reply[p] = NoReply
       /\ pc[p] = "parse" /\ r[p] # 0 => reply[p] = NoReply
       /\ pc[p] = "parse" /\ r[p] = 0 => reply[p].cmd = "reply"
       /\ pc[p] = "returned" => reply[p] = NoReply \/ reply[p].cmd = "reply"

\* A loop that has read a reply is about to end.
Ending(p) == looping[p] /\ pc[p] = "parse" /\ r[p] = 0

\* The buffers that nobody is going to give back are those whose
\* BC_FREE_BUFFER was not written.
Kept(p) ==
    /\ InUse(p) \subseteq held[p]
    /\ ~Ending(p) => Cardinality(held[p] \ InUse(p)) <= failedWrites

Local(p) == Reads(p) /\ Replies(p) /\ Kept(p)

LEMMA BuffersEmpty == Buffers(<<>>) = {} /\ \A c : ~IsBuffer(c) => Buffers(<<c>>) = {}
  BY DEF Buffers

LEMMA BuffersTail ==
    ASSUME NEW s \in Seq(Command), s # <<>>
    PROVE  Buffers(s) = Buffers(Tail(s)) \cup {c \in {Head(s)} : IsBuffer(c)}
<1>1. /\ Len(s) \in Nat \ {0} /\ Head(s) = s[1]
      /\ Len(Tail(s)) = Len(s) - 1
      /\ \A k \in 1..(Len(s) - 1) : Tail(s)[k] = s[k + 1]
  BY EmptySeq, LenProperties, HeadTailProperties
<1>2. {s[k] : k \in 1..Len(s)} = {Tail(s)[k] : k \in 1..Len(Tail(s))} \cup {Head(s)}
  <2>1. ASSUME NEW k \in 1..Len(s)
        PROVE  s[k] \in {Tail(s)[j] : j \in 1..Len(Tail(s))} \cup {Head(s)}
    <3>1. CASE k = 1
      BY <1>1, <3>1
    <3>2. CASE k # 1
      <4>1. k - 1 \in 1..Len(Tail(s)) /\ Tail(s)[k - 1] = s[k]
        BY <1>1, <3>2
      <4> QED BY <4>1
    <3> QED BY <3>1, <3>2
  <2>2. ASSUME NEW k \in 1..Len(Tail(s))
        PROVE  Tail(s)[k] \in {s[j] : j \in 1..Len(s)}
    <3>1. k + 1 \in 1..Len(s) /\ Tail(s)[k] = s[k + 1]
      BY <1>1
    <3> QED BY <3>1
  <2>3. Head(s) \in {s[j] : j \in 1..Len(s)}
    BY <1>1
  <2> QED BY <2>1, <2>2, <2>3
<1> QED BY <1>2 DEF Buffers

\* The first k commands of s: only the last one may take a buffer.
IsReadOf(t, s, k) ==
    /\ Buffers(t) = {b \in {s[k]} : IsBuffer(b)}
    /\ Len(t) = k
    /\ \A j \in 1..k : t[j] = s[j] /\ (j < k => s[j].cmd = "complete")

LEMMA BuffersRead ==
    ASSUME NEW s \in Seq(Queued), s # <<>>, NEW k, k = Delivered(s), NEW t, t = SubSeq(s, 1, k)
    PROVE  IsReadOf(t, s, k)
<1>1. /\ k \in 1..Len(s) /\ Len(s) \in Nat
      /\ \A j \in 1..Len(s) : j < k => ~IsBuffer(s[j])
  BY DeliveredRange, LenProperties
<1>2. \A j \in 1..Len(s) : s[j] \in Queued
  BY ElementOfSeq
<1>3. Len(t) = k /\ \A j \in 1..k : t[j] = s[j]
  BY <1>1, <1>2, SubSeqProperties
<1>4. \A j \in 1..k : j < k => s[j].cmd = "complete"
  BY <1>1, <1>2 DEF Queued, IsBuffer
<1>5. Buffers(t) = {b \in {s[k]} : IsBuffer(b)}
  BY <1>1, <1>3 DEF Buffers
<1> QED BY <1>3, <1>4, <1>5 DEF IsReadOf

LEMMA KeptSame ==
    ASSUME HeldTypes, RestTypes, RestTypes', NEW p \in Procs, Kept(p), ~Ending(p),
           InUse(p)' \subseteq held'[p],
           held'[p] \ InUse(p)' \subseteq held[p] \ InUse(p), failedWrites' >= failedWrites
    PROVE  Kept(p)'
<1>1. IsFiniteSet(held[p] \ InUse(p))
  BY FS_Subset DEF HeldTypes
<1>2. /\ Cardinality(held'[p] \ InUse(p)') <= Cardinality(held[p] \ InUse(p))
      /\ Cardinality(held'[p] \ InUse(p)') \in Nat
      /\ Cardinality(held[p] \ InUse(p)) \in Nat
  BY <1>1, FS_Subset, FS_CardinalityType
<1>3. Cardinality(held[p] \ InUse(p)) <= failedWrites
  BY DEF Kept
<1> QED BY <1>2, <1>3 DEF Kept, RestTypes

LEMMA KeptOneMore ==
    ASSUME HeldTypes, HeldTypes', RestTypes, RestTypes', NEW p \in Procs, Kept(p), ~Ending(p), NEW c,
           InUse(p)' \subseteq held'[p],
           held'[p] \ InUse(p)' \subseteq (held[p] \ InUse(p)) \cup {c},
           failedWrites' >= failedWrites + 1
    PROVE  Kept(p)'
<1> DEFINE old == held[p] \ InUse(p)
<1>1. IsFiniteSet(old) /\ Cardinality(old) \in Nat
  BY FS_Subset, FS_CardinalityType DEF HeldTypes
<1>2. IsFiniteSet(old \cup {c}) /\ Cardinality(old \cup {c}) \in Nat
      /\ Cardinality(old \cup {c}) <= Cardinality(old) + 1
  <2>1. IsFiniteSet(old \cup {c}) /\ (Cardinality(old \cup {c}) = Cardinality(old)
                                      \/ Cardinality(old \cup {c}) = Cardinality(old) + 1)
    <3> HIDE DEF old
    <3> QED BY <1>1, FS_AddElement
  <2> HIDE DEF old
  <2> QED BY <1>1, <2>1
<1>3. /\ Cardinality(held'[p] \ InUse(p)') <= Cardinality(old \cup {c})
      /\ Cardinality(held'[p] \ InUse(p)') \in Nat
  BY <1>2, FS_Subset, FS_CardinalityType
<1>4. Cardinality(old) <= failedWrites
  BY DEF Kept
<1> HIDE DEF old
<1> QED BY <1>1, <1>2, <1>3, <1>4 DEF Kept, RestTypes

\* A step of another process.
View(p) == <<pc[p], looping[p], readbuf[p], r[p], reply[p], held[p]>>

LEMMA LocalFrame ==
    ASSUME RestTypes, RestTypes', HeldTypes, NEW p \in Procs, Local(p), View(p)' = View(p),
           failedWrites' >= failedWrites
    PROVE  Local(p)'
<1>1. /\ pc'[p] = pc[p] /\ looping'[p] = looping[p] /\ readbuf'[p] = readbuf[p]
      /\ r'[p] = r[p] /\ reply'[p] = reply[p] /\ held'[p] = held[p]
  BY DEF View
<1>2. Reads(p)' /\ Replies(p)'
  BY <1>1 DEF Local, Reads, Replies
<1>3. InUse(p)' = InUse(p) /\ (Ending(p)' <=> Ending(p))
  BY <1>1 DEF InUse, Taken, Ending
<1>4. IsFiniteSet(held[p] \ InUse(p))
  BY FS_Subset DEF HeldTypes
<1>5. Cardinality(held[p] \ InUse(p)) \in Nat
  BY <1>4, FS_CardinalityType
<1>6. Kept(p)'
  BY <1>1, <1>3, <1>5 DEF Local, Kept, RestTypes
<1> QED BY <1>2, <1>6 DEF Local

\* The steps of binder_call, binder_loop and binder_parse.
LEMMA LibraryLocal ==
    ASSUME Types, Types', NEW p \in Procs, Library(p), Local(p)
    PROVE  Local(p)'
<1> USE DEF Types
<1>0. Reads(p) /\ Replies(p) /\ Kept(p) /\ failedWrites \in Nat
  BY DEF Local, RestTypes
<1>d. /\ \A x : pc' = [pc EXCEPT ![p] = x] => pc'[p] = x
      /\ \A x : r' = [r EXCEPT ![p] = x] => r'[p] = x
      /\ \A x : reply' = [reply EXCEPT ![p] = x] => reply'[p] = x
      /\ \A x : readbuf' = [readbuf EXCEPT ![p] = x] => readbuf'[p] = x
      /\ \A x : looping' = [looping EXCEPT ![p] = x] => looping'[p] = x
      /\ \A x : held' = [held EXCEPT ![p] = x] => held'[p] = x
  BY DEF CallTypes, HeldTypes
<1>e. ASSUME DriverExit(p), pc'[p] = "exited", ~looping'[p], readbuf'[p] = <<>> PROVE Local(p)'
  <2>1. held'[p] = {}
    BY <1>e DEF DriverExit, HeldTypes
  <2>2. InUse(p)' = {}
    BY <1>e, BuffersEmpty DEF InUse, Taken
  <2>3. Kept(p)'
    BY <2>1, <2>2, FS_EmptySet DEF Kept, RestTypes
  <2>4. Reads(p)' /\ Replies(p)'
    BY <1>e DEF Reads, Replies
  <2> QED BY <2>3, <2>4 DEF Local
<1>1. CASE IoctlWrite(p)
  <2>1. /\ pc[p] = "write" /\ pc'[p] = "read"
        /\ UNCHANGED <<looping, readbuf, r, reply, held, failedWrites>>
    BY <1>1, <1>d DEF IoctlWrite, Goto, faultVars
  <2>2. Reads(p)' /\ Replies(p)'
    BY <1>0, <2>1 DEF Reads, Replies
  <2>3. InUse(p)' = {} /\ InUse(p) = {} /\ ~Ending(p)
    BY <1>0, <2>1, BuffersEmpty DEF InUse, Taken, Reads, Ending
  <2>4. Kept(p)'
    BY <1>0, <2>1, <2>3, KeptSame
  <2> QED BY <2>2, <2>4 DEF Local
<1>2. CASE IoctlRead(p)
  <2>1. /\ pc[p] = "read" /\ pc'[p] = "parse" /\ r'[p] = 1
        /\ UNCHANGED <<looping, reply, failedWrites>> /\ DriverRead(p)
    BY <1>2, <1>d DEF IoctlRead, Goto, faultVars
  <2>2. InUse(p) = {} /\ ~Ending(p) /\ Taken(p)' = {}
    BY <1>0, <2>1, BuffersEmpty, NoReplyType DEF InUse, Taken, Reads, Replies, Ending
  <2>3. p \in Nodes /\ todo[p] \in Seq(Queued)
    BY DEF QueueTypes, Nodes
  <2>4. Replies(p)'
    BY <1>0, <2>1 DEF Replies
  <2>5. CASE err[p] # "none"
    <3> DEFINE c == Cmd(err[p], 0, p, "none")
    <3>1. readbuf'[p] = <<c>> /\ held' = held
      BY <1>d, <2>1, <2>5 DEF DriverRead
    <3>2. ~IsBuffer(c)
      BY <2>5 DEF QueueTypes, IsBuffer, Cmd
    <3>3. InUse(p)' = {}
      BY <2>2, <3>1, <3>2, BuffersEmpty DEF InUse
    <3>4. Kept(p)'
      BY <1>0, <2>1, <2>2, <3>1, <3>3, KeptSame
    <3>5. Reads(p)'
      BY <2>1, <3>1 DEF Reads
    <3> QED BY <2>4, <3>4, <3>5 DEF Local
  <2>6. CASE err[p] = "none"
    <3>1. PICK k : k = Delivered(todo[p])
      OBVIOUS
    <3>2. /\ todo[p] # <<>> /\ readbuf'[p] = SubSeq(todo[p], 1, k)
          /\ held'[p] = held[p] \cup {b \in {todo[p][k]} : IsBuffer(b)}
      BY <1>d, <2>1, <2>6, <3>1 DEF DriverRead
    <3>3. /\ Buffers(readbuf'[p]) = {b \in {todo[p][k]} : IsBuffer(b)}
          /\ Len(readbuf'[p]) = k
          /\ \A j \in 1..k : readbuf'[p][j] = todo[p][j] /\ (j < k => todo[p][j].cmd = "complete")
      <4>1. readbuf'[p] = SubSeq(todo[p], 1, k)
        BY <3>2
      <4>2. IsReadOf(readbuf'[p], todo[p], k)
        BY ONLY <2>3, <3>1, <3>2, <4>1, BuffersRead
      <4> QED BY <4>2 DEF IsReadOf
    <3>4. InUse(p)' = {b \in {todo[p][k]} : IsBuffer(b)}
      BY <2>2, <3>3 DEF InUse
    <3>5. Kept(p)'
      <4> DEFINE new == {b \in {todo[p][k]} : IsBuffer(b)}
      <4>1. InUse(p)' = new /\ held'[p] = held[p] \cup new
        BY <3>2, <3>4
      <4> HIDE DEF new
      <4> QED BY <1>0, <2>1, <2>2, <4>1, KeptSame
    <3>6. Reads(p)'
      BY <1>0, <2>1, <3>3 DEF Reads
    <3> QED BY <2>4, <3>5, <3>6 DEF Local
  <2> QED BY <2>5, <2>6
<1>3. CASE IoctlFails(p)
  <2>1. /\ pc[p] \in {"write", "read"} /\ pc'[p] = "returned" /\ ~looping[p] /\ reply'[p] = NoReply
        /\ UNCHANGED <<looping, readbuf, r, held, failedWrites>>
    BY <1>3, <1>d DEF IoctlFails, CallFails, Goto, driverVars
  <2>2. Reads(p)' /\ Replies(p)'
    BY <1>0, <2>1 DEF Reads, Replies
  <2>3. InUse(p)' = {} /\ InUse(p) = {} /\ ~Ending(p)
    BY <1>0, <2>1, BuffersEmpty, NoReplyType DEF InUse, Taken, Reads, Ending
  <2>4. Kept(p)'
    BY <1>0, <2>1, <2>3, KeptSame
  <2> QED BY <2>2, <2>4 DEF Local
<1>h. ASSUME NEW c, Parsing(p, c)
      PROVE  /\ pc[p] = "parse" /\ r[p] = 1 /\ ~Ending(p)
             /\ readbuf'[p] = Tail(readbuf[p])
             /\ Head(readbuf[p]) \in Command /\ Head(readbuf[p]).cmd = c
             /\ Buffers(readbuf[p]) = Buffers(Tail(readbuf[p])) \cup {b \in {Head(readbuf[p])} : IsBuffer(b)}
             /\ c # "complete" => Tail(readbuf[p]) = <<>>
             /\ \A k \in 1..Len(Tail(readbuf[p])) :
                   k < Len(Tail(readbuf[p])) => Tail(readbuf[p])[k].cmd = "complete"
  <2> DEFINE s == readbuf[p]
  <2>1. /\ pc[p] = "parse" /\ s # <<>> /\ s \in Seq(Command) /\ readbuf'[p] = Tail(s)
        /\ Head(s) \in Command /\ Head(s).cmd = c
    BY <1>h, <1>d, ParsingHead
  <2>2. r[p] = 1 /\ \A k \in 1..Len(s) : k < Len(s) => s[k].cmd = "complete"
    BY <1>0, <2>1 DEF Reads
  <2>3. /\ Len(s) \in Nat \ {0} /\ Head(s) = s[1] /\ Len(Tail(s)) = Len(s) - 1
        /\ \A k \in 1..(Len(s) - 1) : Tail(s)[k] = s[k + 1]
        /\ Tail(s) \in Seq(Command)
    BY <2>1, EmptySeq, LenProperties, HeadTailProperties
  <2>4. c # "complete" => Tail(s) = <<>>
    <3> SUFFICES ASSUME c # "complete" PROVE Tail(s) = <<>>
      OBVIOUS
    <3> HIDE DEF s
    <3>1. 1 \in 1..Len(s) /\ s[1].cmd # "complete"
      BY <2>1, <2>3
    <3>2. Len(s) = 1
      BY <2>2, <2>3, <3>1
    <3>3. Len(Tail(s)) = 0
      BY <2>3, <3>2
    <3> QED BY <2>3, <3>3, EmptySeq
  <2>5. \A k \in 1..Len(Tail(s)) : k < Len(Tail(s)) => Tail(s)[k].cmd = "complete"
    BY <2>2, <2>3
  <2> QED BY <2>1, <2>2, <2>4, <2>5, BuffersTail DEF Ending
<1>4. CASE ParseSkip(p)
  <2>1. Parsing(p, "complete") /\ UNCHANGED <<pc, looping, r, reply, held, failedWrites>>
    BY <1>4 DEF ParseSkip, driverVars, faultVars
  <2>2. Reads(p)' /\ Replies(p)'
    BY <1>0, <1>h, <2>1 DEF Reads, Replies
  <2>3. InUse(p)' = InUse(p)
    BY <1>h, <2>1 DEF InUse, Taken, IsBuffer
  <2>4. Kept(p)'
    BY <1>0, <1>h, <2>1, <2>3, KeptSame DEF Kept
  <2> QED BY <2>2, <2>4 DEF Local
<1>5. CASE ParseReply(p)
  <2>1. Parsing(p, "reply") /\ UNCHANGED <<pc, looping, held, failedWrites>> /\ r'[p] = 0
    BY <1>5, <1>d DEF ParseReply, driverVars, faultVars
  <2>2. ~looping[p] => reply'[p] = Head(readbuf[p])
    <3>1. r[p] = 1
      BY <1>h, <2>1
    <3>2. ~looping[p] => reply' = [reply EXCEPT ![p] = Head(readbuf[p])]
      BY <1>5, <3>1 DEF ParseReply
    <3> QED BY <3>2 DEF CallTypes
  <2>3. readbuf'[p] = <<>> /\ Buffers(readbuf[p]) = {Head(readbuf[p])} /\ Buffers(readbuf'[p]) = {}
    BY <1>h, <2>1, BuffersEmpty DEF IsBuffer
  <2>4. Reads(p)' /\ Replies(p)'
    <3>1. Len(<<>>) = 0
      OBVIOUS
    <3> QED BY <1>0, <1>h, <2>1, <2>2, <2>3, <3>1 DEF Reads, Replies
  <2>5. Kept(p)'
    <3>1. CASE looping[p]
      <4>1. Ending(p)' /\ InUse(p)' = {}
        BY <1>h, <2>1, <2>3, <3>1 DEF Ending, InUse, Taken
      <4> QED BY <4>1 DEF Kept
    <3>2. CASE ~looping[p]
      <4>1. InUse(p)' = {Head(readbuf[p])}
        BY <1>h, <2>1, <2>2, <2>3, <3>2 DEF InUse, Taken
      <4>2. Taken(p) = {}
        BY <1>0, <1>h, <2>1, <3>2, NoReplyType DEF Taken, Replies
      <4>3. InUse(p) = {Head(readbuf[p])}
        BY <2>3, <4>2 DEF InUse
      <4> QED BY <1>0, <1>h, <2>1, <4>1, <4>3, KeptSame DEF Kept
    <3> QED BY <3>1, <3>2
  <2> QED BY <2>4, <2>5 DEF Local
<1>6. CASE ParseError(p)
  <2>1. PICK c \in {"failed", "dead"} : Parsing(p, c)
    BY <1>6 DEF ParseError
  <2>2. UNCHANGED <<pc, looping, reply, held, failedWrites>> /\ r'[p] = 2
    BY <1>6, <1>d DEF ParseError, driverVars, faultVars
  <2>3. readbuf'[p] = <<>> /\ InUse(p)' = InUse(p)
    BY <1>h, <2>1, <2>2 DEF InUse, Taken, IsBuffer
  <2>4. Reads(p)' /\ Replies(p)'
    <3>1. Len(<<>>) = 0
      OBVIOUS
    <3> QED BY <1>0, <1>h, <2>1, <2>2, <2>3, <3>1 DEF Reads, Replies
  <2>5. Kept(p)'
    BY <1>0, <1>h, <2>1, <2>2, <2>3, KeptSame DEF Kept
  <2> QED BY <2>4, <2>5 DEF Local
<1>7. CASE ParseTransaction(p)
  <2>1. /\ Parsing(p, "txn") /\ UNCHANGED <<pc, looping, r, reply>> /\ looping[p]
        /\ binder_send_reply(p, Head(readbuf[p]), "data")
    BY <1>7 DEF ParseTransaction
  <2>2. readbuf'[p] = <<>> /\ Buffers(readbuf[p]) = {Head(readbuf[p])} /\ Buffers(readbuf'[p]) = {}
    BY <1>h, <2>1, BuffersEmpty DEF IsBuffer
  <2>3. InUse(p) = {Head(readbuf[p])} /\ InUse(p)' = {}
    BY <2>1, <2>2 DEF InUse, Taken
  <2>4. \/ held'[p] = held[p] \ {Head(readbuf[p])} /\ failedWrites' = failedWrites
        \/ held' = held /\ failedWrites' = failedWrites + 1
    BY <1>d, <2>1 DEF binder_send_reply, binder_write, faultVars
  <2>5. Kept(p)'
    <3>1. CASE held'[p] = held[p] \ {Head(readbuf[p])} /\ failedWrites' = failedWrites
      BY <1>0, <1>h, <2>1, <2>3, <3>1, KeptSame
    <3>2. CASE held' = held /\ failedWrites' = failedWrites + 1
      BY <1>0, <1>h, <2>1, <2>3, <3>2, KeptOneMore
    <3> QED BY <2>4, <3>1, <3>2
  <2>6. Reads(p)' /\ Replies(p)'
    <3>1. Len(<<>>) = 0
      OBVIOUS
    <3> QED BY <1>0, <1>h, <2>1, <2>2, <3>1 DEF Reads, Replies
  <2> QED BY <2>5, <2>6 DEF Local
<1>8. CASE ParsedInCall(p)
  <2>1. /\ pc[p] = "parse" /\ readbuf[p] = <<>> /\ ~looping[p]
        /\ UNCHANGED <<looping, readbuf, r, held, failedWrites>>
        /\ \/ r[p] = 0 /\ pc'[p] = "returned" /\ reply'[p] = reply[p]
           \/ r[p] = 2 /\ pc'[p] = "returned" /\ reply'[p] = NoReply
           \/ r[p] = 1 /\ pc'[p] = "read" /\ reply'[p] = reply[p]
    BY <1>8, <1>d DEF ParsedInCall, CallFails, Goto, driverVars, faultVars
  <2>2. Reads(p)' /\ Replies(p)'
    BY <1>0, <2>1 DEF Reads, Replies
  <2>3. InUse(p)' = InUse(p) /\ ~Ending(p)
    BY <1>0, <2>1, NoReplyType DEF InUse, Taken, Replies, Ending
  <2>4. Kept(p)'
    BY <1>0, <2>1, <2>3, KeptSame DEF Kept
  <2> QED BY <2>2, <2>4 DEF Local
<1>9. CASE ParsedInLoop(p)
  <2>1. pc[p] = "parse" /\ readbuf[p] = <<>> /\ looping[p] /\ UNCHANGED <<readbuf, r, reply, failedWrites>>
    BY <1>9 DEF ParsedInLoop, faultVars
  <2>2. CASE r[p] = 1
    <3>1. pc'[p] = "read" /\ UNCHANGED <<looping, held>>
      BY <1>9, <1>d, <2>2 DEF ParsedInLoop, Goto, driverVars
    <3>2. Reads(p)' /\ Replies(p)'
      BY <1>0, <2>1, <3>1 DEF Reads, Replies
    <3>3. InUse(p)' = {} /\ InUse(p) = {} /\ ~Ending(p)
      BY <2>1, <2>2, <3>1, BuffersEmpty DEF InUse, Taken, Ending
    <3>4. Kept(p)'
      BY <1>0, <2>1, <3>1, <3>3, KeptSame
    <3> QED BY <3>2, <3>4 DEF Local
  <2>3. CASE r[p] # 1
    BY <1>9, <1>d, <1>e, <2>1, <2>3 DEF ParsedInLoop, LoopEnds, Goto
  <2> QED BY <2>2, <2>3
<1>10. CASE LoopIoctlFails(p)
  BY <1>0, <1>10, <1>d, <1>e DEF LoopIoctlFails, LoopEnds, Goto, Reads
<1> QED BY <1>1, <1>2, <1>3, <1>4, <1>5, <1>6, <1>7, <1>8, <1>9, <1>10 DEF Library

LEMMA BeginLocal ==
    ASSUME Types, Types', NEW p \in Procs, NEW t, NEW c, BeginCall(p, t, c), pc[p] = "main", Local(p),
           UNCHANGED <<held, failedWrites>>
    PROVE  Local(p)'
<1> USE DEF Types
<1>1. /\ pc'[p] = "write" /\ reply'[p] = NoReply /\ UNCHANGED <<looping, readbuf, r>>
      /\ failedWrites \in Nat
  BY DEF BeginCall, Goto, CallTypes, RestTypes
<1>2. readbuf[p] = <<>> /\ ~looping[p] /\ Kept(p)
  BY DEF Local, Reads
<1>3. Reads(p)' /\ Replies(p)'
  BY <1>1, <1>2 DEF Local, Reads, Replies
<1>4. InUse(p)' = {} /\ InUse(p) = {} /\ ~Ending(p)
  BY <1>1, <1>2, BuffersEmpty DEF InUse, Taken, Ending
<1>5. Kept(p)'
  BY <1>1, <1>2, <1>4, KeptSame
<1> QED BY <1>3, <1>5 DEF Local

LEMMA DoneLocal ==
    ASSUME Types, Types', NEW p \in Procs, binder_done(p), Goto(p, "main"), pc[p] = "returned", Local(p),
           UNCHANGED <<looping, readbuf, r, reply>>
    PROVE  Local(p)'
<1> USE DEF Types
<1>1. pc'[p] = "main" /\ failedWrites \in Nat
  BY DEF Goto, CallTypes, RestTypes
<1>2. readbuf[p] = <<>> /\ ~looping[p] /\ Kept(p)
  BY DEF Local, Reads
<1>3. Reads(p)' /\ Replies(p)'
  BY <1>1, <1>2 DEF Local, Reads, Replies
<1>4. InUse(p)' = {} /\ InUse(p) = {c \in {reply[p]} : c.cmd = "reply"} /\ ~Ending(p)
  BY <1>1, <1>2, BuffersEmpty DEF InUse, Taken, Ending
<1>5. Kept(p)'
  <2>1. CASE reply[p].cmd # "reply"
    <3>1. InUse(p) = {} /\ held' = held /\ failedWrites' = failedWrites
      BY <1>4, <2>1 DEF binder_done, faultVars
    <3> QED BY <1>1, <1>2, <1>4, <3>1, KeptSame
  <2>2. CASE reply[p].cmd = "reply"
    <3>1. /\ InUse(p) = {reply[p]}
          /\ \/ held'[p] = held[p] \ {reply[p]} /\ failedWrites' = failedWrites
             \/ held' = held /\ failedWrites' = failedWrites + 1
      BY <1>4, <2>2 DEF binder_done, binder_write, faultVars, HeldTypes
    <3>2. CASE held'[p] = held[p] \ {reply[p]} /\ failedWrites' = failedWrites
      BY <1>1, <1>2, <1>4, <3>1, <3>2, KeptSame
    <3>3. CASE held' = held /\ failedWrites' = failedWrites + 1
      BY <1>1, <1>2, <1>4, <3>1, <3>3, KeptOneMore
    <3> QED BY <3>1, <3>2, <3>3
  <2> QED BY <2>1, <2>2
<1> QED BY <1>3, <1>5 DEF Local

LEMMA ExitsLocal ==
    ASSUME Types, Types', NEW p \in Procs, Exits(p), pc[p] \in {"main", "returned"}, Local(p)
    PROVE  Local(p)'
<1> USE DEF Types
<1>1. pc'[p] = "exited" /\ held'[p] = {} /\ UNCHANGED <<looping, readbuf>>
  BY DEF Exits, Goto, DriverExit, CallTypes, HeldTypes
<1>2. readbuf[p] = <<>> /\ ~looping[p]
  BY DEF Local, Reads
<1>3. InUse(p)' = {}
  BY <1>1, <1>2, BuffersEmpty DEF InUse, Taken
<1>4. Kept(p)'
  BY <1>1, <1>3, FS_EmptySet DEF Kept, RestTypes
<1>5. Reads(p)' /\ Replies(p)'
  BY <1>1, <1>2 DEF Local, Reads, Replies
<1> QED BY <1>4, <1>5 DEF Local

\* Where a call of the programs leaves a process that was between two calls.
LEMMA IdleLocal ==
    ASSUME Types, Types', NEW p \in Procs, pc[p] \in {"main", "returned"}, Local(p), InUse(p) = {},
           pc'[p] = "main" \/ (pc'[p] = "read" /\ looping'[p]),
           looping'[p] => pc'[p] = "read",
           UNCHANGED <<readbuf, r, reply, held, failedWrites>>
    PROVE  Local(p)'
<1> USE DEF Types
<1>1. readbuf[p] = <<>> /\ ~looping[p] /\ Kept(p) /\ failedWrites \in Nat
  BY DEF Local, Reads, RestTypes
<1>2. Reads(p)' /\ Replies(p)'
  BY <1>1 DEF Local, Reads, Replies
<1>3. InUse(p)' = {} /\ ~Ending(p)
  BY <1>1, BuffersEmpty DEF InUse, Taken, Ending
<1>4. Kept(p)'
  BY <1>1, <1>3, KeptSame
<1> QED BY <1>2, <1>4 DEF Local

\* What a step of p leaves alone of q.
Apart(p) ==
    \A q \in Procs \ {p} :
        /\ pc'[q] = pc[q] /\ looping'[q] = looping[q] /\ readbuf'[q] = readbuf[q]
        /\ r'[q] = r[q] /\ reply'[q] = reply[q] /\ held'[q] = held[q]

LEMMA LibraryApart ==
    ASSUME Types, Types', NEW p \in Procs, Library(p)
    PROVE  Apart(p) /\ failedWrites' >= failedWrites
<1> USE DEF Types, Apart
<1>0. failedWrites \in Nat
  BY DEF RestTypes
<1>1. CASE IoctlWrite(p)
  BY <1>0, <1>1 DEF IoctlWrite, Goto, faultVars, CallTypes
<1>2. CASE IoctlRead(p)
  BY <1>0, <1>2 DEF IoctlRead, DriverRead, Goto, faultVars, CallTypes, HeldTypes
<1>3. CASE IoctlFails(p)
  BY <1>0, <1>3 DEF IoctlFails, CallFails, Goto, driverVars, CallTypes
<1>4. CASE ParseSkip(p)
  BY <1>0, <1>4 DEF ParseSkip, Parsing, driverVars, faultVars, CallTypes
<1>5. CASE ParseReply(p)
  BY <1>0, <1>5 DEF ParseReply, Parsing, driverVars, faultVars, CallTypes
<1>6. CASE ParseError(p)
  BY <1>0, <1>6 DEF ParseError, Parsing, driverVars, faultVars, CallTypes
<1>7. CASE ParseTransaction(p)
  BY <1>0, <1>7 DEF ParseTransaction, Parsing, binder_send_reply, binder_write, faultVars, CallTypes, HeldTypes
<1>8. CASE ParsedInCall(p)
  BY <1>0, <1>8 DEF ParsedInCall, CallFails, Goto, driverVars, faultVars, CallTypes
<1>9. CASE ParsedInLoop(p)
  BY <1>0, <1>9 DEF ParsedInLoop, LoopEnds, DriverExit, Goto, driverVars, faultVars, CallTypes, HeldTypes
<1>10. CASE LoopIoctlFails(p)
  BY <1>0, <1>10 DEF LoopIoctlFails, LoopEnds, DriverExit, Goto, CallTypes, HeldTypes
<1> QED BY <1>1, <1>2, <1>3, <1>4, <1>5, <1>6, <1>7, <1>8, <1>9, <1>10 DEF Library

LEMMA ApartLocal ==
    ASSUME Types, Types', NEW p \in Procs, Apart(p), failedWrites' >= failedWrites,
           \A q \in Procs : Local(q), Local(p)'
    PROVE  \A q \in Procs : Local(q)'
<1> SUFFICES ASSUME NEW q \in Procs, q # p PROVE Local(q)'
  OBVIOUS
<1>1. View(q)' = View(q)
  BY DEF View, Apart
<1> QED BY <1>1, LocalFrame DEF Types

AllLocal == \A p \in Procs : Local(p)

LEMMA BeginAllLocal ==
    ASSUME Types, Types', AllLocal, NEW p \in Procs, NEW t, NEW c, BeginCall(p, t, c), pc[p] = "main",
           UNCHANGED <<driverVars, faultVars>>
    PROVE  AllLocal'
<1>1. Local(p)' /\ UNCHANGED <<held, failedWrites>>
  BY BeginLocal DEF AllLocal, driverVars, faultVars
<1>2. Apart(p) /\ failedWrites' >= failedWrites
  BY <1>1 DEF Apart, BeginCall, Goto, Types, CallTypes, RestTypes
<1> QED BY <1>1, <1>2, ApartLocal DEF AllLocal

LEMMA DoneAllLocal ==
    ASSUME Types, Types', AllLocal, NEW p \in Procs, binder_done(p), Goto(p, "main"), pc[p] = "returned",
           UNCHANGED <<looping, readbuf, r, reply>>
    PROVE  AllLocal'
<1>1. Local(p)'
  BY DoneLocal DEF AllLocal
<1>2. Apart(p) /\ failedWrites' >= failedWrites
  <2>1. /\ held' = held \/ held' = [held EXCEPT ![p] = @ \ {reply[p]}]
        /\ failedWrites' = failedWrites \/ failedWrites' = failedWrites + 1
    BY DoneEffect DEF Types
  <2> QED BY <2>1 DEF Apart, Goto, Types, CallTypes, HeldTypes, RestTypes
<1> QED BY <1>1, <1>2, ApartLocal DEF AllLocal

LEMMA ExitsAllLocal ==
    ASSUME Types, Types', AllLocal, NEW p \in Procs, Exits(p), pc[p] \in {"main", "returned"}
    PROVE  AllLocal'
<1>1. Local(p)'
  BY ExitsLocal DEF AllLocal
<1>2. Apart(p) /\ failedWrites' >= failedWrites
  BY DEF Apart, Exits, DriverExit, Goto, faultVars, Types, CallTypes, HeldTypes, RestTypes
<1> QED BY <1>1, <1>2, ApartLocal DEF AllLocal

LEMMA NextRoundLocal ==
    ASSUME Types, Types', AllLocal, NextRound("child"), pc["child"] \in {"main", "returned"},
           InUse("child") = {}
    PROVE  AllLocal'
<1> USE ProcsType
<1>1. CASE Exits("child")
  BY <1>1, ExitsAllLocal
<1>2. CASE ~Exits("child")
  <2>1. Goto("child", "main") /\ UNCHANGED <<looping, readbuf, r, reply, held, failedWrites>>
    BY <1>2 DEF NextRound, driverVars, faultVars
  <2>2. pc'["child"] = "main" /\ ~looping["child"]
    BY <2>1 DEF Goto, Types, CallTypes, AllLocal, Local, Reads
  <2>3. Local("child")'
    BY <2>1, <2>2, IdleLocal DEF AllLocal
  <2>4. Apart("child") /\ failedWrites' >= failedWrites
    BY <2>1 DEF Apart, Goto, Types, CallTypes, RestTypes
  <2> QED BY <2>3, <2>4, ApartLocal DEF AllLocal
<1> QED BY <1>1, <1>2

LEMMA ProgramLocal ==
    ASSUME Types, Types', AllLocal, Parent \/ Child
    PROVE  AllLocal'
<1> USE ProcsType
<1>u. \A p \in Procs : pc[p] = "main" => InUse(p) = {} /\ ~looping[p]
  BY BuffersEmpty DEF InUse, Taken, AllLocal, Local, Reads
<1>1. CASE svcmgr_publish
  BY <1>1, BeginAllLocal DEF svcmgr_publish, At
<1>2. CASE Published
  <2>1. CASE Exits("parent")
    BY <1>2, <2>1, ExitsAllLocal DEF Published, Returned
  <2>2. CASE ~Exits("parent")
    BY <1>2, <2>2, DoneAllLocal DEF Published, Returned
  <2> QED BY <2>1, <2>2
<1>3. CASE Fork
  <2>1. /\ pc["parent"] = "main" /\ pc' = [pc EXCEPT !["parent"] = "read"]
        /\ looping' = [looping EXCEPT !["parent"] = TRUE]
        /\ UNCHANGED <<readbuf, r, reply, held, failedWrites>>
    BY <1>3 DEF Fork, At, Goto, driverVars, faultVars
  <2>2. pc'["parent"] = "read" /\ looping'["parent"]
    BY <2>1 DEF Types, CallTypes
  <2>3. Local("parent")'
    BY <1>u, <2>1, <2>2, IdleLocal DEF AllLocal
  <2>4. Apart("parent") /\ failedWrites' >= failedWrites
    BY <2>1 DEF Apart, Types, CallTypes, RestTypes
  <2> QED BY <2>3, <2>4, ApartLocal DEF AllLocal
<1>4. CASE Reopen
  <2>1. CASE Exits("child")
    BY <1>4, <2>1, ExitsAllLocal DEF Reopen, At
  <2>2. CASE UNCHANGED <<callVars, driverVars, faultVars>>
    <3>1. \A p \in Procs : View(p)' = View(p)
      BY <2>2 DEF View, callVars, driverVars
    <3>2. failedWrites' >= failedWrites
      BY <2>2 DEF faultVars, Types, RestTypes
    <3> QED BY <3>1, <3>2, LocalFrame DEF AllLocal, Types
  <2> QED BY <1>4, <2>1, <2>2 DEF Reopen
<1>5. CASE svcmgr_lookup
  BY <1>5, BeginAllLocal DEF svcmgr_lookup, At
<1>6. CASE LookedUp
  <2>1. \A p \in Procs : View(p)' = View(p)
    BY <1>6 DEF View, LookedUp, callVars
  <2>2. failedWrites' >= failedWrites
    BY <1>6, AcquireEffect DEF LookedUp, faultVars, Types, RestTypes
  <2> QED BY <2>1, <2>2, LocalFrame DEF AllLocal, Types
<1>7. CASE StartRound
  BY <1>7, DoneAllLocal DEF StartRound, Returned
<1>8. CASE Ping
  BY <1>8, BeginAllLocal DEF Ping, At
<1>9. CASE PingAnswered
  BY <1>9, DoneAllLocal DEF PingAnswered, Returned
<1>10. CASE PingFailed
  <2>1. pc["child"] = "returned" /\ reply["child"] = NoReply /\ NextRound("child")
    BY <1>10 DEF PingFailed, Returned
  <2>2. InUse("child") = {}
    BY <2>1, BuffersEmpty, NoReplyType DEF InUse, Taken, AllLocal, Local, Reads
  <2> QED BY <2>1, <2>2, NextRoundLocal
<1>11. CASE Report
  BY <1>11, <1>u, NextRoundLocal DEF Report, At
<1> QED BY <1>1, <1>2, <1>3, <1>4, <1>5, <1>6, <1>7, <1>8, <1>9, <1>10, <1>11 DEF Parent, Child

LEMMA LocalStep ==
    ASSUME Types, Types', AllLocal, [Next]_vars
    PROVE  AllLocal'
<1>1. CASE Parent \/ Child
  BY <1>1, ProgramLocal
<1>2. ASSUME NEW p \in Procs, Library(p) PROVE AllLocal'
  <2>1. Local(p)' /\ Apart(p) /\ failedWrites' >= failedWrites
    BY <1>2, LibraryLocal, LibraryApart DEF AllLocal
  <2> QED BY <2>1, ApartLocal DEF AllLocal
<1>3. CASE Kernel \/ UNCHANGED vars
  <2>1. UNCHANGED <<callVars, held, faultVars>>
    BY <1>3 DEF Kernel, SvcMgrServes, SvcMgrForgets, vars, libVars, driverVars
  <2>2. \A p \in Procs : View(p)' = View(p)
    BY <2>1 DEF View, callVars
  <2>3. failedWrites' >= failedWrites
    BY <2>1 DEF faultVars, Types, RestTypes
  <2> QED BY <2>2, <2>3, LocalFrame DEF AllLocal, Types
<1> QED BY <1>1, <1>2, <1>3 DEF Next

LEMMA LocalInit == Init => AllLocal
<1> SUFFICES ASSUME Init, NEW p \in Procs PROVE Local(p)
  BY DEF AllLocal
<1>1. pc[p] = "main" /\ ~looping[p] /\ readbuf[p] = <<>> /\ held[p] = {} /\ failedWrites = 0
  BY DEF Init, LibInit
<1>2. InUse(p) = {}
  BY <1>1, BuffersEmpty DEF InUse, Taken
<1>3. Kept(p)
  BY <1>1, <1>2, FS_EmptySet DEF Kept
<1>4. Reads(p) /\ Replies(p)
  BY <1>1 DEF Reads, Replies
<1> QED BY <1>3, <1>4 DEF Local

LEMMA LocalInvariant == Spec => [](Types /\ AllLocal)
<1>1. Init => Types /\ AllLocal
  BY TypesInit, LocalInit
<1>2. Types /\ AllLocal /\ [Next]_vars => (Types /\ AllLocal)'
  BY TypesStep, LocalStep
<1> QED BY <1>1, <1>2, PTL DEF Spec

\* Between two calls a process of bench-binder keeps only the buffers whose
\* BC_FREE_BUFFER was not written.
THEOREM BuffersReturnedCorrect == Spec => []BuffersReturned
<1>1. Types /\ AllLocal => BuffersReturned
  <2> SUFFICES ASSUME Types, AllLocal, NEW p \in Procs, pc[p] = "main" \/ (looping[p] /\ pc[p] = "read")
               PROVE  Cardinality(held[p]) <= failedWrites
    BY DEF BuffersReturned
  <2>1. InUse(p) = {} /\ ~Ending(p)
    BY BuffersEmpty DEF InUse, Taken, Ending, AllLocal, Local, Reads
  <2>2. held[p] \ InUse(p) = held[p]
    BY <2>1
  <2> QED BY <2>1, <2>2 DEF AllLocal, Local, Kept
<1> QED BY <1>1, LocalInvariant, PTL

-----------------------------------------------------------------------------
(* The programs: who calls when *)

\* Before the fork only the parent runs, and it calls the service manager; from
\* then on it is in binder_loop until it exits, and only the child calls.
Stages ==
    /\ at["child"] = "unborn" =>
          /\ at["parent"] \in {"publish", "fork"} /\ ~looping["parent"]
          /\ at["parent"] = "fork" => pc["parent"] = "main"
          /\ pc["child"] = "main" /\ call["child"].n = 0
    /\ at["child"] # "unborn" =>
          /\ at["parent"] = "loop" /\ pc["parent"] \in {"read", "parse", "exited"}
          /\ looping["parent"] <=> pc["parent"] # "exited"
    /\ at["child"] \in {"unborn", "open", "lookup", "looked", "ping"}
    /\ ~looping["child"]
    /\ call["parent"].target = 0
    /\ \A p \in Procs : pc[p] = "write" => call[p].n > 0

LEMMA LibraryStages ==
    ASSUME Types, Stages, NEW p \in Procs, Library(p), UNCHANGED mainVars
    PROVE  Stages'
<1> USE DEF Types, Procs
<1>0. UNCHANGED at
  BY DEF mainVars
<1>1. CASE IoctlWrite(p)
  BY <1>0, <1>1 DEF IoctlWrite, Goto, Stages, CallTypes
<1>2. CASE IoctlRead(p)
  BY <1>0, <1>2 DEF IoctlRead, Goto, Stages, CallTypes
<1>3. CASE IoctlFails(p)
  BY <1>0, <1>3 DEF IoctlFails, CallFails, Goto, Stages, CallTypes
<1>4. CASE ParseSkip(p)
  BY <1>0, <1>4 DEF ParseSkip, Stages, CallTypes
<1>5. CASE ParseReply(p)
  BY <1>0, <1>5 DEF ParseReply, Stages, CallTypes
<1>6. CASE ParseError(p)
  BY <1>0, <1>6 DEF ParseError, Stages, CallTypes
<1>7. CASE ParseTransaction(p)
  BY <1>0, <1>7 DEF ParseTransaction, Stages, CallTypes
<1>8. CASE ParsedInCall(p)
  BY <1>0, <1>8 DEF ParsedInCall, CallFails, Goto, Stages, CallTypes
<1>9. CASE ParsedInLoop(p)
  BY <1>0, <1>9 DEF ParsedInLoop, LoopEnds, Goto, Stages, CallTypes
<1>10. CASE LoopIoctlFails(p)
  BY <1>0, <1>10 DEF LoopIoctlFails, LoopEnds, Goto, Stages, CallTypes
<1> QED BY <1>1, <1>2, <1>3, <1>4, <1>5, <1>6, <1>7, <1>8, <1>9, <1>10 DEF Library

LEMMA ProgramStages ==
    ASSUME Types, Stages, Parent \/ Child
    PROVE  Stages'
<1> USE DEF Types, Procs
<1>1. CASE svcmgr_publish
  BY <1>1 DEF svcmgr_publish, BeginCall, At, Goto, Stages, CallTypes, MainTypes, mainVars
<1>2. CASE Published
  BY <1>2 DEF Published, Returned, Moves, Exits, Goto, Stages, CallTypes, MainTypes
<1>3. CASE Fork
  BY <1>3 DEF Fork, At, Goto, Stages, CallTypes, MainTypes
<1>4. CASE Reopen
  BY <1>4 DEF Reopen, At, Moves, Exits, Goto, Stages, CallTypes, MainTypes, callVars
<1>5. CASE svcmgr_lookup
  BY <1>5 DEF svcmgr_lookup, BeginCall, At, Goto, Stages, CallTypes, MainTypes, mainVars
<1>6. CASE LookedUp
  BY <1>6 DEF LookedUp, Returned, Moves, Stages, CallTypes, MainTypes, callVars
<1>7. CASE StartRound
  BY <1>7 DEF StartRound, Returned, Moves, Goto, Stages, CallTypes, MainTypes
<1>8. CASE Ping
  BY <1>8 DEF Ping, BeginCall, At, Goto, Stages, CallTypes, MainTypes, mainVars
<1>9. CASE PingAnswered
  BY <1>9 DEF PingAnswered, Returned, Goto, Stages, CallTypes, MainTypes
<1>10. CASE PingFailed
  BY <1>10 DEF PingFailed, NextRound, Returned, Moves, Exits, Goto, Stages, CallTypes, MainTypes
<1>11. CASE Report
  BY <1>11 DEF Report, NextRound, At, Moves, Exits, Goto, Stages, CallTypes, MainTypes
<1> QED BY <1>1, <1>2, <1>3, <1>4, <1>5, <1>6, <1>7, <1>8, <1>9, <1>10, <1>11 DEF Parent, Child

LEMMA StagesStep ==
    ASSUME Types, Stages, [Next]_vars
    PROVE  Stages'
<1>1. CASE Parent \/ Child
  BY <1>1, ProgramStages
<1>2. ASSUME NEW p \in Procs, Library(p), UNCHANGED mainVars PROVE Stages'
  BY <1>2, LibraryStages
<1>3. CASE (Kernel /\ UNCHANGED mainVars) \/ UNCHANGED vars
  BY <1>3 DEF Kernel, SvcMgrServes, SvcMgrForgets, vars, libVars, callVars, mainVars, Stages
<1> QED BY <1>1, <1>2, <1>3 DEF Next

LEMMA StagesInit == Init => Stages
  BY ProcsType DEF Init, LibInit, Stages

-----------------------------------------------------------------------------
(* What the steps of the driver do to the queues *)

Members(s) == {s[k] : k \in 1..Len(s)}

LEMMA MembersAppend ==
    ASSUME NEW s \in Seq(Queued), NEW c \in Queued
    PROVE  Members(Append(s, c)) = Members(s) \cup {c}
<1>1. /\ Len(s) \in Nat /\ Len(Append(s, c)) = Len(s) + 1
      /\ \A k \in 1..Len(s) : Append(s, c)[k] = s[k]
      /\ Append(s, c)[Len(s) + 1] = c
  BY LenProperties, AppendProperties
<1>2. ASSUME NEW k \in 1..Len(Append(s, c))
      PROVE  Append(s, c)[k] \in {s[j] : j \in 1..Len(s)} \cup {c}
  BY <1>1
<1>3. ASSUME NEW k \in 1..Len(s)
      PROVE  s[k] \in {Append(s, c)[j] : j \in 1..Len(Append(s, c))}
  <2>1. k \in 1..Len(Append(s, c)) /\ s[k] = Append(s, c)[k]
    BY <1>1
  <2> QED BY <2>1
<1>4. c \in {Append(s, c)[j] : j \in 1..Len(Append(s, c))}
  <2>1. Len(s) + 1 \in 1..Len(Append(s, c))
    BY <1>1
  <2> QED BY <1>1, <2>1
<1> QED BY <1>2, <1>3, <1>4 DEF Members

LEMMA BuffersAppend ==
    ASSUME NEW s \in Seq(Queued), NEW c \in Queued
    PROVE  Buffers(Append(s, c)) = Buffers(s) \cup {b \in {c} : IsBuffer(b)}
<1>1. \A v : Buffers(v) = {b \in Members(v) : IsBuffer(b)}
  BY DEF Buffers, Members
<1>2. Buffers(Append(s, c)) = {b \in Members(Append(s, c)) : IsBuffer(b)} /\ Buffers(s) = {b \in Members(s) : IsBuffer(b)}
  BY <1>1
<1>3. Members(Append(s, c)) = Members(s) \cup {c}
  BY MembersAppend
<1> QED BY ONLY <1>2, <1>3

LEMMA MembersSplit ==
    ASSUME NEW s \in Seq(Queued), s # <<>>, NEW k, k = Delivered(s)
    PROVE  s[k] \in Members(s) /\ Members(SubSeq(s, k + 1, Len(s))) \subseteq Members(s)
<1>1. k \in 1..Len(s) /\ Len(s) \in Nat
  BY DeliveredRange, LenProperties
<1>2. \A j \in 1..Len(s) : s[j] \in Queued
  BY ElementOfSeq
<1>3. PICK v : v = SubSeq(s, k + 1, Len(s))
  OBVIOUS
<1>4. Len(v) = Len(s) - k /\ \A j \in 1..(Len(s) - k) : v[j] = s[k + j]
  <2>1. /\ Len(v) = IF k + 1 <= Len(s) THEN Len(s) - (k + 1) + 1 ELSE 0
        /\ \A j \in 1..(Len(s) - (k + 1) + 1) : v[j] = s[(k + 1) + j - 1]
    BY <1>1, <1>2, <1>3, SubSeqProperties
  <2> QED BY <1>1, <2>1
<1>5. ASSUME NEW j \in 1..Len(v) PROVE v[j] \in Members(s)
  <2>1. k + j \in 1..Len(s) /\ v[j] = s[k + j]
    BY <1>1, <1>4
  <2> QED BY <2>1 DEF Members
<1>6. Members(v) \subseteq Members(s)
  BY <1>5 DEF Members
<1> QED BY <1>1, <1>3, <1>6 DEF Members

LEMMA BuffersSplit ==
    ASSUME NEW s \in Seq(Queued), s # <<>>, NEW k, k = Delivered(s)
    PROVE  /\ Buffers(SubSeq(s, 1, k)) \subseteq Buffers(s)
           /\ Buffers(SubSeq(s, k + 1, Len(s))) \subseteq Buffers(s)
<1>1. k \in 1..Len(s) /\ Len(s) \in Nat
  BY DeliveredRange, LenProperties
<1>2. \A j \in 1..Len(s) : s[j] \in Queued
  BY ElementOfSeq
<1>3. PICK t, v : t = SubSeq(s, 1, k) /\ v = SubSeq(s, k + 1, Len(s))
  OBVIOUS
<1>4. Len(t) = k /\ \A j \in 1..k : t[j] = s[j]
  BY <1>1, <1>2, <1>3, SubSeqProperties
<1>5. Len(v) = Len(s) - k /\ \A j \in 1..(Len(s) - k) : v[j] = s[k + j]
  <2>1. /\ Len(v) = IF k + 1 <= Len(s) THEN Len(s) - (k + 1) + 1 ELSE 0
        /\ \A j \in 1..(Len(s) - (k + 1) + 1) : v[j] = s[(k + 1) + j - 1]
    BY <1>1, <1>2, <1>3, SubSeqProperties
  <2> QED BY <1>1, <2>1
<1>6. Buffers(t) \subseteq Buffers(s)
  BY <1>1, <1>4 DEF Buffers
<1>7. Buffers(v) \subseteq Buffers(s)
  <2> SUFFICES ASSUME NEW j \in 1..Len(v), IsBuffer(v[j]) PROVE v[j] \in Buffers(s)
    BY DEF Buffers
  <2>1. k + j \in 1..Len(s) /\ v[j] = s[k + j]
    BY <1>1, <1>5
  <2> QED BY <2>1 DEF Buffers
<1> QED BY <1>3, <1>6, <1>7

LEMMA TransactionEffect ==
    ASSUME Types, NEW p \in Procs, NEW to \in Nodes, to = Owner(call[p].target), to # p,
           DriverTransaction(p, call[p])
    PROVE  \/ /\ UNCHANGED <<todo, stack>> /\ err'[p] # "none"
              /\ \A q \in Procs \ {p} : err'[q] = err[q]
              /\ \/ stack[p] # 0 \/ ~ValidHandle(p, call[p].target) \/ ~HasRoom(to) \/ ~alive[to]
           \/ /\ todo'[to] = Append(todo[to], Cmd("txn", call[p].n, p, call[p].code))
              /\ todo'[p] = Append(todo[p], Cmd("complete", call[p].n, p, "none"))
              /\ \A q \in Nodes \ {p, to} : todo'[q] = todo[q]
              /\ stack'[p] = call[p].n /\ \A q \in Procs \ {p} : stack'[q] = stack[q]
              /\ UNCHANGED err /\ stack[p] = 0
<1> USE ProcsType DEF Types, QueueTypes
<1>1. CASE /\ stack[p] # 0 \/ ~ValidHandle(p, call[p].target) \/ ~HasRoom(to) \/ ~alive[to]
           /\ err' = [err EXCEPT ![p] = "failed"] \/ err' = [err EXCEPT ![p] = "dead"]
           /\ UNCHANGED <<todo, stack>>
  BY <1>1
<1>2. CASE /\ stack[p] = 0
           /\ todo' = [todo EXCEPT ![to] = Append(@, Cmd("txn", call[p].n, p, call[p].code)),
                                   ![p] = Append(@, Cmd("complete", call[p].n, p, "none"))]
           /\ stack' = [stack EXCEPT ![p] = call[p].n]
           /\ UNCHANGED err
  BY <1>2
<1> QED BY <1>1, <1>2 DEF DriverTransaction

LEMMA ReplyEffect ==
    ASSUME Types, NEW q \in [Nodes -> Seq(Queued)], NEW from, NEW t, NEW a, NEW p \in Procs, p = t.peer,
           DriverReply(q, from, t, a)
    PROVE  /\ \A x \in Nodes \ {p} : todo'[x] = q[x]
           /\ \/ alive[p] /\ HasRoom(p) /\ todo'[p] = Append(q[p], Cmd("reply", t.n, from, a)) /\ UNCHANGED err
              \/ alive[p] /\ ~HasRoom(p) /\ todo'[p] = q[p] /\ err'[p] = "failed"
              \/ ~alive[p] /\ todo'[p] = q[p] /\ UNCHANGED err
           /\ \A x \in Procs \ {p} : err'[x] = err[x] /\ stack'[x] = stack[x]
           /\ stack'[p] = 0
  BY ProcsType DEF Types, QueueTypes, DriverReply

-----------------------------------------------------------------------------
(* No answer is from the future *)

\* A transaction is of a call its caller has made, and so is a reply.
Numbered(q, c) ==
    /\ c.cmd = "txn" => c.peer \in Procs /\ c.n <= call[c.peer].n
    /\ c.cmd = "reply" => q \in Procs /\ c.n <= call[q].n

Past ==
    /\ \A p \in Procs : call[p].n <= calls /\ reply[p].n <= call[p].n
    /\ \A q \in Nodes : \A c \in Buffers(todo[q]) : Numbered(q, c)
    /\ \A q \in Procs : \A c \in Buffers(readbuf[q]) : Numbered(q, c)

LEMMA NumberedLater ==
    ASSUME Types, Types', \A p \in Procs : call[p].n <= call'[p].n, NEW q \in Nodes, NEW c \in Queued,
           Numbered(q, c)
    PROVE  Numbered(q, c)'
<1>1. \A p \in Procs : call[p].n \in Nat /\ call'[p].n \in Nat
  BY DEF Types, CallTypes
<1>2. c.n \in Nat
  BY DEF Queued
<1> QED BY <1>1, <1>2 DEF Numbered

LEMMA BuffersType == \A s \in Seq(Command) : Buffers(s) \subseteq Queued
<1> SUFFICES ASSUME NEW s \in Seq(Command), NEW k \in 1..Len(s), IsBuffer(s[k]) PROVE s[k] \in Queued
  BY DEF Buffers
<1> QED BY ElementOfSeq, TxnIsQueued

LEMMA QueuedSeq == Seq(Queued) \subseteq Seq(Command)
<1>1. Queued \subseteq Command
  BY QueuedIsCommand
<1> SUFFICES ASSUME NEW s \in Seq(Queued) PROVE s \in Seq(Command)
  OBVIOUS
<1>2. \A k \in 1..Len(s) : s[k] \in Command
  BY <1>1, ElementOfSeq
<1>3. s = [k \in 1..Len(s) |-> s[k]] /\ Len(s) \in Nat
  BY LenProperties
<1> QED BY <1>2, <1>3, IsASeq

\* Every buffer of the next state was there before or is numbered.
LEMMA PastKept ==
    ASSUME Types, Types', Past, calls' >= calls,
           \A p \in Procs : /\ call[p].n <= call'[p].n /\ call'[p].n <= calls'
                            /\ reply'[p] = reply[p] \/ reply'[p].n <= call'[p].n,
           \A q \in Nodes : \A c \in Buffers(todo'[q]) : c \in Buffers(todo[q]) \/ Numbered(q, c)',
           \A q \in Procs : \A c \in Buffers(readbuf'[q]) :
                 c \in Buffers(readbuf[q]) \/ c \in Buffers(todo[q])
    PROVE  Past'
<1>1. \A q \in Nodes : Buffers(todo[q]) \subseteq Queued
  BY BuffersType, QueuedSeq DEF Types, QueueTypes
<1>2. \A q \in Procs : Buffers(readbuf[q]) \subseteq Queued /\ q \in Nodes
  BY BuffersType, ProcsType DEF Types, CallTypes
<1>3. \A p \in Procs : reply'[p].n <= call'[p].n
  <2>1. \A p \in Procs : reply[p].n \in Nat /\ call[p].n \in Nat /\ call'[p].n \in Nat
    BY DEF Types, CallTypes, Command
  <2> QED BY <2>1 DEF Past
<1>4. \A q \in Nodes : \A c \in Buffers(todo'[q]) : Numbered(q, c)'
  BY <1>1, NumberedLater DEF Past
<1>5. \A q \in Procs : \A c \in Buffers(readbuf'[q]) : Numbered(q, c)'
  BY <1>1, <1>2, NumberedLater DEF Past
<1> QED BY <1>3, <1>4, <1>5 DEF Past

\* The common case: the calls stay as they are.
LEMMA PastSame ==
    ASSUME Types, Types', Past, UNCHANGED <<calls, call>>,
           \A p \in Procs : reply'[p] = reply[p] \/ reply'[p] = NoReply \/ reply'[p] \in Buffers(readbuf[p]),
           \A q \in Nodes : \A c \in Buffers(todo'[q]) : c \in Buffers(todo[q]) \/ Numbered(q, c),
           \A q \in Procs : \A c \in Buffers(readbuf'[q]) :
                 c \in Buffers(readbuf[q]) \/ c \in Buffers(todo[q]),
           \A p \in Procs : reply'[p] # reply[p] => reply'[p].cmd \in {"reply", "failed"}
    PROVE  Past'
<1>1. \A p \in Procs : call[p].n \in Nat /\ calls \in Nat
  BY DEF Types, CallTypes
<1>2. \A q, c : Numbered(q, c)' <=> Numbered(q, c)
  BY DEF Numbered
<1>3. \A p \in Procs : reply'[p] = reply[p] \/ reply'[p].n <= call'[p].n
  BY <1>1, NoReplyType DEF Past, Numbered, Buffers, IsBuffer
<1> QED BY <1>1, <1>2, <1>3, PastKept DEF Past

LEMMA ExitTodo ==
    ASSUME Types, NEW p \in Procs, DriverExit(p)
    PROVE  \A q \in Nodes : Buffers(todo'[q]) \subseteq Buffers(todo[q])
  BY BuffersEmpty, ProcsType DEF DriverExit, Types, QueueTypes

LEMMA OwnerElsewhere ==
    ASSUME Types, Stages, NEW p \in Procs
    PROVE  Owner(call[p].target) \in Nodes /\ Owner(call[p].target) # p
  BY OwnerType DEF Stages, Owner, Procs

\* Where the buffers of the next state come from.
LEMMA ParseBuffers ==
    ASSUME Types, NEW p \in Procs, NEW c, Parsing(p, c)
    PROVE  /\ \A q \in Procs : Buffers(readbuf'[q]) \subseteq Buffers(readbuf[q])
           /\ IsBuffer(Head(readbuf[p])) => Head(readbuf[p]) \in Buffers(readbuf[p])
           /\ Head(readbuf[p]).cmd = c
<1>1. /\ readbuf[p] \in Seq(Command) /\ readbuf[p] # <<>> /\ Head(readbuf[p]).cmd = c
      /\ readbuf' = [readbuf EXCEPT ![p] = Tail(readbuf[p])]
  BY ParsingHead DEF Types
<1>2. Buffers(readbuf[p]) = Buffers(Tail(readbuf[p])) \cup {b \in {Head(readbuf[p])} : IsBuffer(b)}
  BY <1>1, BuffersTail
<1>3. \A q \in Procs : readbuf'[q] = IF q = p THEN Tail(readbuf[p]) ELSE readbuf[q]
  BY <1>1 DEF Types, CallTypes
<1> QED BY <1>1, <1>2, <1>3

LEMMA SendBuffers ==
    ASSUME Types, NEW p \in Procs, NEW to \in Nodes, to = Owner(call[p].target), to # p,
           DriverTransaction(p, call[p]), NEW t, t = Cmd("txn", call[p].n, p, call[p].code)
    PROVE  \A q \in Nodes : \A c \in Buffers(todo'[q]) : c \in Buffers(todo[q]) \/ (q = to /\ c = t)
<1> USE DEF Types
<1>1. PICK d : d = Cmd("complete", call[p].n, p, "none")
  OBVIOUS
<1>2. t \in Queued /\ d \in Queued /\ d.cmd = "complete"
  <2>1. call[p].n \in Nat /\ call[p].code \in Args /\ "none" \in Args /\ p \in Nodes
    BY ProcsType DEF CallTypes, Args
  <2> QED BY <1>1, <2>1, CmdType
<1>3. \A q \in Nodes :
        \/ todo'[q] = todo[q]
        \/ q = to /\ todo'[q] = Append(todo[q], t)
        \/ q = p /\ todo'[q] = Append(todo[q], d)
  BY <1>1, TransactionEffect
<1>4. \A q \in Nodes : /\ Buffers(Append(todo[q], t)) \subseteq Buffers(todo[q]) \cup {t}
                       /\ Buffers(Append(todo[q], d)) = Buffers(todo[q])
  <2> SUFFICES ASSUME NEW q \in Nodes
               PROVE  /\ Buffers(Append(todo[q], t)) \subseteq Buffers(todo[q]) \cup {t}
                      /\ Buffers(Append(todo[q], d)) = Buffers(todo[q])
    OBVIOUS
  <2>1. todo[q] \in Seq(Queued) /\ ~IsBuffer(d)
    BY <1>2 DEF QueueTypes, IsBuffer
  <2>2. Buffers(Append(todo[q], t)) = Buffers(todo[q]) \cup {b \in {t} : IsBuffer(b)}
    BY ONLY <1>2, <2>1, BuffersAppend
  <2>3. Buffers(Append(todo[q], d)) = Buffers(todo[q]) \cup {b \in {d} : IsBuffer(b)}
    BY ONLY <1>2, <2>1, BuffersAppend
  <2> QED BY ONLY <2>1, <2>2, <2>3
<1> SUFFICES ASSUME NEW q \in Nodes, NEW c \in Buffers(todo'[q]) PROVE c \in Buffers(todo[q]) \/ (q = to /\ c = t)
  OBVIOUS
<1>5. CASE todo'[q] = todo[q]
  BY ONLY <1>5, c \in Buffers(todo'[q])
<1>6. CASE q = to /\ todo'[q] = Append(todo[q], t)
  <2>1. c \in Buffers(Append(todo[q], t))
    BY <1>6
  <2> QED BY ONLY <1>4, <1>6, <2>1, q \in Nodes
<1>7. CASE todo'[q] = Append(todo[q], d)
  <2>1. c \in Buffers(Append(todo[q], d))
    BY <1>7
  <2> QED BY ONLY <1>4, <2>1, q \in Nodes
<1> QED BY <1>3, <1>5, <1>6, <1>7

LEMMA ReadBuffers ==
    ASSUME Types, NEW p \in Procs, DriverRead(p)
    PROVE  /\ \A q \in Procs : \A c \in Buffers(readbuf'[q]) : c \in Buffers(readbuf[q]) \/ c \in Buffers(todo[q])
           /\ \A q \in Nodes : Buffers(todo'[q]) \subseteq Buffers(todo[q])
<1> USE DEF Types
<1>1. CASE err[p] # "none"
  <2> DEFINE c == Cmd(err[p], 0, p, "none")
  <2>1. todo' = todo /\ readbuf' = [readbuf EXCEPT ![p] = <<c>>]
    BY <1>1 DEF DriverRead
  <2>2. ~IsBuffer(c)
    BY <1>1 DEF QueueTypes, IsBuffer, Cmd
  <2>3. Buffers(<<c>>) = {}
    BY <2>2, BuffersEmpty
  <2> HIDE DEF c
  <2> QED BY <2>1, <2>3 DEF CallTypes
<1>2. CASE err[p] = "none"
  <2>1. PICK k : k = Delivered(todo[p])
    OBVIOUS
  <2>2. /\ todo[p] # <<>> /\ todo[p] \in Seq(Queued)
        /\ readbuf' = [readbuf EXCEPT ![p] = SubSeq(todo[p], 1, k)]
        /\ todo' = [todo EXCEPT ![p] = SubSeq(todo[p], k + 1, Len(todo[p]))]
    BY <1>2, <2>1, ProcsType DEF DriverRead, QueueTypes
  <2>3. /\ Buffers(SubSeq(todo[p], 1, k)) \subseteq Buffers(todo[p])
        /\ Buffers(SubSeq(todo[p], k + 1, Len(todo[p]))) \subseteq Buffers(todo[p])
    BY <2>1, <2>2, BuffersSplit
  <2>4. \A q \in Procs : readbuf'[q] = IF q = p THEN SubSeq(todo[p], 1, k) ELSE readbuf[q]
    BY <2>2 DEF CallTypes
  <2>5. \A q \in Nodes : todo'[q] = IF q = p THEN SubSeq(todo[p], k + 1, Len(todo[p])) ELSE todo[q]
    BY <2>2 DEF QueueTypes
  <2> QED BY <2>3, <2>4, <2>5
<1> QED BY <1>1, <1>2

\* The queues hold what those of q did, and b for d.
Adds(q, d, b) == \A y \in Nodes : \A c \in Buffers(todo[y]) : c \in Buffers(q[y]) \/ (y = d /\ c = b)

LEMMA ReplyBuffers ==
    ASSUME Types, NEW q \in [Nodes -> Seq(Queued)], NEW from \in Nodes, NEW t \in Queued, NEW a \in Args,
           NEW d \in Procs, d = t.peer, DriverReply(q, from, t, a)
    PROVE  Adds(q, d, Cmd("reply", t.n, from, a))'
<1>0. PICK b : b = Cmd("reply", t.n, from, a)
  OBVIOUS
<1>1. b \in Queued /\ d \in Nodes
  <2>1. t.n \in Nat
    BY DEF Queued
  <2> QED BY <1>0, <2>1, CmdType, ProcsType
<1>2. /\ \A y \in Nodes \ {d} : todo'[y] = q[y]
      /\ todo'[d] = q[d] \/ todo'[d] = Append(q[d], b)
  <2>1. todo' = q \/ todo' = [q EXCEPT ![d] = Append(q[d], b)]
    BY <1>0 DEF DriverReply
  <2> QED BY <1>1, <2>1
<1>3. Buffers(Append(q[d], b)) \subseteq Buffers(q[d]) \cup {b}
  <2>1. q[d] \in Seq(Queued)
    BY <1>1
  <2> QED BY <1>1, <2>1, BuffersAppend
<1> QED BY <1>0, <1>2, <1>3 DEF Adds

\* A reply that answers a numbered transaction is numbered.
LEMMA ReplyNumbered ==
    ASSUME Types, NEW q \in [Nodes -> Seq(Queued)], NEW from \in Nodes, NEW t \in Queued, NEW a \in Args,
           NEW x \in Nodes, Numbered(x, t), t.cmd = "txn", DriverReply(q, from, t, a)
    PROVE  \A y \in Nodes : \A c \in Buffers(todo'[y]) : c \in Buffers(q[y]) \/ Numbered(y, c)
<1>1. t.peer \in Procs /\ t.n <= call[t.peer].n /\ t.n \in Nat
  BY DEF Numbered, Queued
<1>2. PICK b : b = Cmd("reply", t.n, from, a)
  OBVIOUS
<1>3. b.cmd = "reply" /\ b.n = t.n
  BY <1>1, <1>2, CmdType
<1>4. Numbered(t.peer, b)
  BY <1>1, <1>3 DEF Numbered
<1>5. PICK d \in Procs : d = t.peer
  BY <1>1
<1>6. Adds(q, d, Cmd("reply", t.n, from, a))'
  BY ONLY Types, q \in [Nodes -> Seq(Queued)], from \in Nodes, t \in Queued, a \in Args,
     DriverReply(q, from, t, a), <1>5, ReplyBuffers
<1> QED BY <1>2, <1>4, <1>5, <1>6 DEF Adds

LEMMA LibraryPast ==
    ASSUME Types, Types', Stages, Past, NEW p \in Procs, Library(p)
    PROVE  Past'
<1> USE DEF Types
<1>p. p \in Nodes
  BY ProcsType
<1>t. ASSUME NEW c, Parsing(p, c)
      PROVE  /\ \A q \in Procs : Buffers(readbuf'[q]) \subseteq Buffers(readbuf[q])
             /\ IsBuffer(Head(readbuf[p])) => Head(readbuf[p]) \in Buffers(readbuf[p])
             /\ Head(readbuf[p]).cmd = c
  BY <1>t, ParseBuffers
<1>1. CASE IoctlWrite(p)
  <2>1. DriverTransaction(p, call[p]) /\ UNCHANGED <<call, calls, reply, readbuf>>
    BY <1>1 DEF IoctlWrite
  <2>2. PICK to \in Nodes : to = Owner(call[p].target) /\ to # p
    BY OwnerElsewhere
  <2>3. PICK t : t = Cmd("txn", call[p].n, p, call[p].code)
    OBVIOUS
  <2>4. Numbered(to, t)
    <3>1. call[p].n \in Nat /\ call[p].code \in Args
      BY DEF CallTypes, Args
    <3>2. t.cmd = "txn" /\ t.peer = p /\ t.n = call[p].n
      BY <1>p, <2>3, <3>1, CmdType
    <3> QED BY <3>1, <3>2 DEF Numbered
  <2>5. \A q \in Nodes : \A c \in Buffers(todo'[q]) : c \in Buffers(todo[q]) \/ Numbered(q, c)
    BY <2>1, <2>2, <2>3, <2>4, SendBuffers
  <2> QED BY <2>1, <2>5, PastSame
<1>2. CASE IoctlRead(p)
  <2>1. DriverRead(p) /\ UNCHANGED <<call, calls, reply>>
    BY <1>2 DEF IoctlRead
  <2>2. /\ \A q \in Procs : \A c \in Buffers(readbuf'[q]) : c \in Buffers(readbuf[q]) \/ c \in Buffers(todo[q])
        /\ \A q \in Nodes : Buffers(todo'[q]) \subseteq Buffers(todo[q])
    BY <2>1, ReadBuffers
  <2> QED BY <2>1, <2>2, PastSame
<1>3. CASE IoctlFails(p)
  <2>1. UNCHANGED <<call, calls, readbuf, todo>> /\ reply' = [reply EXCEPT ![p] = NoReply]
    BY <1>3 DEF IoctlFails, CallFails, driverVars
  <2>2. \A q \in Procs : reply'[q] = reply[q] \/ reply'[q] = NoReply
    BY <2>1 DEF CallTypes
  <2> QED BY <2>1, <2>2, NoReplyType, PastSame
<1>4. CASE ParseSkip(p) \/ ParseError(p)
  <2>1. UNCHANGED <<call, calls, reply, todo>> /\ \E c : Parsing(p, c)
    BY <1>4 DEF ParseSkip, ParseError, driverVars
  <2> QED BY <1>t, <2>1, PastSame
<1>5. CASE ParseReply(p)
  <2>1. UNCHANGED <<call, calls, todo>> /\ Parsing(p, "reply")
    BY <1>5 DEF ParseReply, driverVars
  <2>2. \A q \in Procs : reply'[q] = reply[q] \/ (q = p /\ reply'[q] = Head(readbuf[p]))
    BY <1>5 DEF ParseReply, CallTypes
  <2>3. Head(readbuf[p]) \in Buffers(readbuf[p]) /\ Head(readbuf[p]).cmd = "reply"
    BY <1>t, <2>1 DEF IsBuffer
  <2> QED BY <1>t, <2>1, <2>2, <2>3, PastSame
<1>7. CASE ParseTransaction(p)
  <2>1. UNCHANGED <<call, calls, reply>> /\ Parsing(p, "txn") /\ binder_send_reply(p, Head(readbuf[p]), "data")
    BY <1>7 DEF ParseTransaction
  <2>2. PICK t : t = Head(readbuf[p])
    OBVIOUS
  <2>3. t \in Queued /\ t.cmd = "txn" /\ Numbered(p, t)
    <3>1. t \in Buffers(readbuf[p]) /\ t.cmd = "txn"
      BY <1>t, <2>1, <2>2 DEF IsBuffer
    <3>2. t \in Queued
      BY <3>1, BuffersType DEF CallTypes
    <3> QED BY <3>1, <3>2 DEF Past
  <2>4. \A y \in Nodes : \A c \in Buffers(todo'[y]) : c \in Buffers(todo[y]) \/ Numbered(y, c)
    <3>1. CASE DriverReply(todo, p, t, "data")
      <4>1. todo \in [Nodes -> Seq(Queued)] /\ "data" \in Args
        BY DEF QueueTypes, Args
      <4> QED BY <1>p, <2>3, <3>1, <4>1, ReplyNumbered
    <3>2. CASE UNCHANGED todo
      BY <3>2
    <3> QED BY <2>1, <2>2, <3>1, <3>2 DEF binder_send_reply, binder_write
  <2> QED BY <1>t, <2>1, <2>4, PastSame
<1>8. CASE ParsedInCall(p)
  <2>1. /\ UNCHANGED <<call, calls, readbuf, todo>>
        /\ reply' = reply \/ reply' = [reply EXCEPT ![p] = NoReply]
    BY <1>8 DEF ParsedInCall, CallFails, driverVars
  <2>2. \A q \in Procs : reply'[q] = reply[q] \/ reply'[q] = NoReply
    BY <2>1 DEF CallTypes
  <2> QED BY <2>1, <2>2, NoReplyType, PastSame
<1>9. CASE ParsedInLoop(p) \/ LoopIoctlFails(p)
  <2>1. UNCHANGED <<call, calls, readbuf, reply>> /\ (todo' = todo \/ DriverExit(p))
    BY <1>9 DEF ParsedInLoop, LoopIoctlFails, LoopEnds, driverVars
  <2>2. \A q \in Nodes : Buffers(todo'[q]) \subseteq Buffers(todo[q])
    BY <2>1, ExitTodo
  <2> QED BY <2>1, <2>2, PastSame
<1> QED BY <1>1, <1>2, <1>3, <1>4, <1>5, <1>7, <1>8, <1>9 DEF Library

LEMMA BeginPast ==
    ASSUME Types, Types', Past, NEW p \in Procs, NEW t, NEW c, BeginCall(p, t, c), UNCHANGED driverVars
    PROVE  Past'
<1>1. /\ calls' = calls + 1 /\ calls \in Nat /\ UNCHANGED <<readbuf, todo>>
      /\ \A q \in Procs : call[q].n \in Nat /\ call[q].n <= calls
      /\ call'[p].n = calls + 1 /\ \A q \in Procs \ {p} : call'[q] = call[q]
      /\ reply'[p] = NoReply /\ \A q \in Procs \ {p} : reply'[q] = reply[q]
  BY DEF BeginCall, Types, CallTypes, Past, driverVars
<1>2. \A q \in Procs : call[q].n <= call'[q].n /\ call'[q].n <= calls'
  BY <1>1
<1>3. \A q \in Procs : reply'[q] = reply[q] \/ reply'[q].n <= call'[q].n
  BY <1>1, NoReplyType
<1> QED BY <1>1, <1>2, <1>3, PastKept

\* The steps of main that leave the calls and the buffers read alone.
LEMMA MainPast ==
    ASSUME Types, Types', Past, UNCHANGED <<call, calls, readbuf, reply>>,
           \/ UNCHANGED todo
           \/ \E p \in Procs : DriverExit(p)
    PROVE  Past'
<1>1. \A q \in Nodes : Buffers(todo'[q]) \subseteq Buffers(todo[q])
  BY ExitTodo
<1> QED BY <1>1, PastSame

LEMMA ProgramPast ==
    ASSUME Types, Types', Past, Parent \/ Child
    PROVE  Past'
<1> USE ProcsType
<1>1. CASE svcmgr_publish
  BY <1>1, BeginPast DEF svcmgr_publish
<1>2. CASE Published
  BY <1>2, MainPast DEF Published, Exits
<1>3. CASE Fork
  BY <1>3, MainPast DEF Fork, driverVars
<1>4. CASE Reopen
  BY <1>4, MainPast DEF Reopen, Exits, callVars, driverVars
<1>5. CASE svcmgr_lookup
  BY <1>5, BeginPast DEF svcmgr_lookup
<1>6. CASE LookedUp
  BY <1>6, MainPast DEF LookedUp, callVars
<1>7. CASE StartRound
  BY <1>7, MainPast DEF StartRound
<1>8. CASE Ping
  BY <1>8, BeginPast DEF Ping
<1>9. CASE PingAnswered
  BY <1>9, MainPast DEF PingAnswered
<1>10. CASE PingFailed
  BY <1>10, MainPast DEF PingFailed, NextRound, Exits, driverVars
<1>11. CASE Report
  BY <1>11, MainPast DEF Report, NextRound, Exits, driverVars
<1> QED BY <1>1, <1>2, <1>3, <1>4, <1>5, <1>6, <1>7, <1>8, <1>9, <1>10, <1>11 DEF Parent, Child

\* Only transactions are queued for the service manager: what tells a caller
\* that its own was taken is queued for the caller.
ServiceQueue == \A k \in 1..Len(todo["svcmgr"]) : IsBuffer(todo["svcmgr"][k])

LEMMA ServiceQueueStep ==
    ASSUME Types, Types', Stages, ServiceQueue, [Next]_vars
    PROVE  ServiceQueue'
<1> USE DEF Types
<1>0. "svcmgr" \in Nodes /\ "svcmgr" \notin Procs /\ todo["svcmgr"] \in Seq(Queued)
  BY DEF Nodes, Procs, QueueTypes
<1>s. ASSUME todo'["svcmgr"] = todo["svcmgr"] PROVE ServiceQueue'
  BY <1>s DEF ServiceQueue
<1>a. ASSUME NEW c \in Queued, IsBuffer(c), todo'["svcmgr"] = Append(todo["svcmgr"], c) PROVE ServiceQueue'
  <2>1. PICK s \in Seq(Queued) : s = todo["svcmgr"]
    BY <1>0
  <2>2. /\ Len(Append(s, c)) = Len(s) + 1 /\ Len(s) \in Nat
        /\ \A k \in 1..Len(s) : Append(s, c)[k] = s[k]
        /\ Append(s, c)[Len(s) + 1] = c
    BY <1>a, AppendProperties, LenProperties
  <2>3. \A k \in 1..Len(Append(s, c)) : IsBuffer(Append(s, c)[k])
    <3> SUFFICES ASSUME NEW k \in 1..Len(Append(s, c)) PROVE IsBuffer(Append(s, c)[k])
      OBVIOUS
    <3>1. k \in 1..Len(s) \/ k = Len(s) + 1
      BY <2>2
    <3> QED BY <1>a, <2>1, <2>2, <3>1 DEF ServiceQueue
  <2> QED BY <1>a, <2>1, <2>3 DEF ServiceQueue
<1>e. ASSUME NEW p \in Procs, DriverExit(p) PROVE ServiceQueue'
  BY <1>0, <1>e, <1>s DEF DriverExit, QueueTypes
<1>r. ASSUME NEW q, NEW from, NEW t, NEW a, DriverReply(q, from, t, a), q["svcmgr"] = todo["svcmgr"],
             q \in [Nodes -> Seq(Queued)], t \in Queued, from \in Nodes, a \in Args
      PROVE  ServiceQueue'
  <2>1. PICK b : b = Cmd("reply", t.n, from, a)
    OBVIOUS
  <2>2. b \in Queued /\ IsBuffer(b)
    <3>1. t.n \in Nat
      BY <1>r DEF Queued
    <3> QED BY <1>r, <2>1, <3>1, CmdType DEF IsBuffer
  <2>3. todo' = q \/ todo' = [q EXCEPT ![t.peer] = Append(q[t.peer], b)]
    BY <1>r, <2>1 DEF DriverReply
  <2>4. todo'["svcmgr"] = todo["svcmgr"] \/ todo'["svcmgr"] = Append(todo["svcmgr"], b)
    BY <1>0, <1>r, <2>3
  <2> QED BY <1>a, <1>s, <2>2, <2>4
<1>1. CASE Parent
  BY <1>1, <1>e, <1>s, ProcsType DEF Parent, svcmgr_publish, Published, Fork, Exits, driverVars
<1>2. CASE Child
  BY <1>2, <1>e, <1>s, ProcsType DEF Child, Reopen, svcmgr_lookup, LookedUp, StartRound, Ping, PingAnswered,
     PingFailed, Report, NextRound, Exits, driverVars
<1>3. ASSUME NEW p \in Procs, IoctlWrite(p) PROVE ServiceQueue'
  <2>1. DriverTransaction(p, call[p])
    BY <1>3 DEF IoctlWrite
  <2>2. PICK to \in Nodes : to = Owner(call[p].target) /\ to # p
    BY OwnerElsewhere
  <2>3. PICK t : t = Cmd("txn", call[p].n, p, call[p].code)
    OBVIOUS
  <2>4. t \in Queued /\ IsBuffer(t)
    <3>1. call[p].n \in Nat /\ call[p].code \in Args /\ p \in Nodes
      BY ProcsType DEF CallTypes, Args
    <3> QED BY <2>3, <3>1, CmdType DEF IsBuffer
  <2>5. todo'["svcmgr"] = todo["svcmgr"] \/ todo'["svcmgr"] = Append(todo["svcmgr"], t)
    BY <1>0, <2>1, <2>2, <2>3, TransactionEffect
  <2> QED BY <1>a, <1>s, <2>4, <2>5
<1>4. ASSUME NEW p \in Procs, IoctlRead(p) PROVE ServiceQueue'
  BY <1>0, <1>4, <1>s DEF IoctlRead, DriverRead, QueueTypes
<1>5. ASSUME NEW p \in Procs, ParseTransaction(p) PROVE ServiceQueue'
  <2>1. Parsing(p, "txn") /\ binder_send_reply(p, Head(readbuf[p]), "data")
    BY <1>5 DEF ParseTransaction
  <2>2. Head(readbuf[p]) \in Queued /\ todo \in [Nodes -> Seq(Queued)] /\ p \in Nodes /\ "data" \in Args
    BY <2>1, ParsingHead, TxnIsQueued, ProcsType DEF IsBuffer, QueueTypes, Args
  <2>3. UNCHANGED todo \/ DriverReply(todo, p, Head(readbuf[p]), "data")
    BY <2>1 DEF binder_send_reply, binder_write
  <2> QED BY <1>r, <1>s, <2>2, <2>3
<1>6. ASSUME NEW p \in Procs, ParsedInLoop(p) \/ LoopIoctlFails(p) PROVE ServiceQueue'
  BY <1>6, <1>e, <1>s DEF ParsedInLoop, LoopIoctlFails, LoopEnds, driverVars
<1>7. ASSUME NEW p \in Procs, IoctlFails(p) \/ ParseSkip(p) \/ ParseReply(p) \/ ParseError(p) \/ ParsedInCall(p)
      PROVE  ServiceQueue'
  BY <1>7, <1>s DEF IoctlFails, ParseSkip, ParseReply, ParseError, ParsedInCall, driverVars
<1>8. CASE SvcMgrServes
  <2>1. /\ todo["svcmgr"] # <<>> /\ Head(todo["svcmgr"]) \in Queued
        /\ \E a \in {"data", "status", "ref"} :
              DriverReply([todo EXCEPT !["svcmgr"] = Tail(@)], "svcmgr", Head(todo["svcmgr"]), a)
    BY <1>8, ServesTypes
  <2>2. PICK s \in Seq(Queued) : s = todo["svcmgr"] /\ s # <<>>
    BY <1>0, <2>1
  <2>3. /\ Tail(s) \in Seq(Queued) /\ Len(Tail(s)) = Len(s) - 1 /\ Len(s) \in Nat
        /\ \A k \in 1..Len(Tail(s)) : Tail(s)[k] = s[k + 1]
    BY <2>2, HeadTailProperties, LenProperties
  <2>4. \A k \in 1..Len(Tail(s)) : IsBuffer(Tail(s)[k])
    BY <2>2, <2>3 DEF ServiceQueue
  <2>5. PICK q : q = [todo EXCEPT !["svcmgr"] = Tail(@)]
    OBVIOUS
  <2>6. PICK a \in {"data", "status", "ref"} : DriverReply(q, "svcmgr", Head(s), a)
    BY <2>1, <2>2, <2>5
  <2>7. PICK b : b = Cmd("reply", Head(s).n, "svcmgr", a)
    OBVIOUS
  <2>8. b \in Queued /\ IsBuffer(b)
    <3>1. Head(s).n \in Nat /\ a \in Args
      BY <2>1, <2>2 DEF Queued, Args
    <3> QED BY <1>0, <2>7, <3>1, CmdType DEF IsBuffer
  <2>9. todo' = q \/ todo' = [q EXCEPT ![Head(s).peer] = Append(q[Head(s).peer], b)]
    BY <2>6, <2>7 DEF DriverReply
  <2>10. todo'["svcmgr"] = Tail(s) \/ todo'["svcmgr"] = Append(Tail(s), b)
    BY <1>0, <2>2, <2>5, <2>9 DEF QueueTypes
  <2>11. \A k \in 1..Len(Append(Tail(s), b)) : IsBuffer(Append(Tail(s), b)[k])
    <3>1. PICK v \in Seq(Queued) : v = Tail(s)
      BY <2>3
    <3>2. /\ Len(Append(v, b)) = Len(v) + 1 /\ Len(v) \in Nat
          /\ \A k \in 1..Len(v) : Append(v, b)[k] = v[k]
          /\ Append(v, b)[Len(v) + 1] = b
      BY <2>8, AppendProperties, LenProperties
    <3> SUFFICES ASSUME NEW k \in 1..Len(Append(v, b)) PROVE IsBuffer(Append(v, b)[k])
      BY <3>1
    <3>3. k \in 1..Len(v) \/ k = Len(v) + 1
      BY <3>2
    <3> QED BY <2>4, <2>8, <3>1, <3>2, <3>3
  <2> QED BY <2>4, <2>10, <2>11 DEF ServiceQueue
<1>9. CASE SvcMgrForgets \/ UNCHANGED vars
  BY <1>9, <1>s DEF SvcMgrForgets, vars, libVars, driverVars
<1> QED BY <1>1, <1>2, <1>3, <1>4, <1>5, <1>6, <1>7, <1>8, <1>9 DEF Next, Library, Kernel

\* The service manager takes the transaction at the head of its queue.
LEMMA ServesHead ==
    ASSUME Types, Past, ServiceQueue, SvcMgrServes
    PROVE  \E t \in Queued, q \in [Nodes -> Seq(Queued)], a \in {"data", "status", "ref"} :
              /\ t = Head(todo["svcmgr"]) /\ q = [todo EXCEPT !["svcmgr"] = Tail(@)]
              /\ DriverReply(q, "svcmgr", t, a)
              /\ todo["svcmgr"] # <<>> /\ todo["svcmgr"] \in Seq(Queued)
              /\ t.cmd = "txn" /\ Numbered("svcmgr", t) /\ t \in Buffers(todo["svcmgr"])
              /\ \A y \in Nodes : Buffers(q[y]) \subseteq Buffers(todo[y])
<1>1. /\ todo["svcmgr"] # <<>> /\ todo["svcmgr"] \in Seq(Queued) /\ Head(todo["svcmgr"]) \in Queued
      /\ \E a \in {"data", "status", "ref"} :
            DriverReply([todo EXCEPT !["svcmgr"] = Tail(@)], "svcmgr", Head(todo["svcmgr"]), a)
  BY ServesTypes DEF Types
<1>2. PICK t \in Queued : t = Head(todo["svcmgr"])
  BY <1>1
<1>3. PICK q : q = [todo EXCEPT !["svcmgr"] = Tail(@)]
  OBVIOUS
<1>4. PICK a \in {"data", "status", "ref"} : DriverReply(q, "svcmgr", t, a)
  BY <1>1, <1>2, <1>3
<1>5. "svcmgr" \in Nodes /\ Tail(todo["svcmgr"]) \in Seq(Queued)
  BY <1>1, HeadTailProperties DEF Nodes
<1>6. q \in [Nodes -> Seq(Queued)] /\ \A y \in Nodes : q[y] = IF y = "svcmgr" THEN Tail(todo[y]) ELSE todo[y]
  BY <1>3, <1>5 DEF Types, QueueTypes
<1>7. Buffers(todo["svcmgr"]) = Buffers(Tail(todo["svcmgr"])) \cup {c \in {t} : IsBuffer(c)}
  BY <1>1, <1>2, QueuedSeq, BuffersTail
<1>8. IsBuffer(t)
  <2>1. Len(todo["svcmgr"]) \in Nat \ {0} /\ t = todo["svcmgr"][1]
    BY <1>1, <1>2, EmptySeq, LenProperties
  <2> QED BY <2>1 DEF ServiceQueue
<1>9. t.cmd = "txn" /\ Numbered("svcmgr", t) /\ t \in Buffers(todo["svcmgr"])
  <2>1. t \in Buffers(todo["svcmgr"])
    BY <1>7, <1>8
  <2>2. Numbered("svcmgr", t)
    BY <1>5, <2>1 DEF Past
  <2>3. t.cmd # "reply"
    BY <2>2 DEF Numbered, Procs
  <2> QED BY <1>8, <2>1, <2>2, <2>3 DEF IsBuffer
<1>10. \A y \in Nodes : Buffers(q[y]) \subseteq Buffers(todo[y])
  BY <1>6, <1>7
<1> QED BY <1>1, <1>2, <1>3, <1>4, <1>6, <1>9, <1>10

LEMMA PastStep ==
    ASSUME Types, Types', Stages, ServiceQueue, Past, [Next]_vars
    PROVE  Past'
<1>1. CASE Parent \/ Child
  BY <1>1, ProgramPast
<1>2. ASSUME NEW p \in Procs, Library(p) PROVE Past'
  BY <1>2, LibraryPast
<1>3. CASE SvcMgrServes
  <2>1. UNCHANGED <<call, calls, readbuf, reply>>
    BY <1>3 DEF SvcMgrServes, callVars
  <2>2. PICK t \in Queued, q \in [Nodes -> Seq(Queued)], a \in {"data", "status", "ref"} :
              /\ DriverReply(q, "svcmgr", t, a)
              /\ t.cmd = "txn" /\ Numbered("svcmgr", t)
              /\ \A y \in Nodes : Buffers(q[y]) \subseteq Buffers(todo[y])
    BY <1>3, ServesHead
  <2>3. "svcmgr" \in Nodes /\ a \in Args
    BY DEF Nodes, Args
  <2>4. \A y \in Nodes : \A c \in Buffers(todo'[y]) : c \in Buffers(q[y]) \/ Numbered(y, c)
    BY <2>2, <2>3, ReplyNumbered
  <2>5. \A y \in Nodes : \A c \in Buffers(todo'[y]) : c \in Buffers(todo[y]) \/ Numbered(y, c)
    BY <2>2, <2>4
  <2> QED BY <2>1, <2>5, PastSame
<1>4. CASE SvcMgrForgets \/ UNCHANGED vars
  BY <1>4, MainPast DEF SvcMgrForgets, vars, libVars, callVars, driverVars
<1> QED BY <1>1, <1>2, <1>3, <1>4 DEF Next, Kernel

LEMMA PastInit == Init => Past /\ ServiceQueue
<1> SUFFICES ASSUME Init PROVE Past /\ ServiceQueue
  OBVIOUS
<1>1. /\ \A p \in Procs : call[p].n = 0 /\ reply[p] = NoReply /\ readbuf[p] = <<>>
      /\ \A q \in Nodes : todo[q] = <<>>
      /\ calls = 0
  BY DEF Init, LibInit
<1>2. Past
  BY <1>1, BuffersEmpty, NoReplyType DEF Past
<1>3. Len(<<>>) = 0 /\ "svcmgr" \in Nodes
  BY DEF Nodes
<1> QED BY <1>1, <1>2, <1>3 DEF ServiceQueue

-----------------------------------------------------------------------------
(* One buffer in the whole system, as long as no call is interrupted *)

\* b is the one buffer in s.
Single(s, b) ==
    /\ IsBuffer(b)
    /\ \E k \in 1..Len(s) : s[k] = b /\ \A j \in 1..Len(s) : j # k => ~IsBuffer(s[j])

LEMMA SingleBuffers == ASSUME NEW s, NEW b, Single(s, b) PROVE Buffers(s) = {b}
  BY DEF Single, Buffers

LEMMA SingleNew ==
    ASSUME NEW s \in Seq(Queued), Buffers(s) = {}, NEW b \in Queued, IsBuffer(b)
    PROVE  Single(Append(s, b), b)
<1>1. /\ Len(s) \in Nat /\ Len(Append(s, b)) = Len(s) + 1
      /\ \A k \in 1..Len(s) : Append(s, b)[k] = s[k]
      /\ Append(s, b)[Len(s) + 1] = b
  BY LenProperties, AppendProperties
<1>2. \A k \in 1..Len(s) : ~IsBuffer(s[k])
  BY DEF Buffers
<1>3. PICK v : v = Append(s, b)
  OBVIOUS
<1>4. Len(s) + 1 \in 1..Len(v) /\ v[Len(s) + 1] = b
  BY <1>1, <1>3
<1>5. \A j \in 1..Len(v) : j # Len(s) + 1 => ~IsBuffer(v[j])
  BY <1>1, <1>2, <1>3
<1> QED BY <1>3, <1>4, <1>5 DEF Single

LEMMA SingleKept ==
    ASSUME NEW s \in Seq(Queued), NEW b, Single(s, b), NEW c \in Queued, ~IsBuffer(c)
    PROVE  Single(Append(s, c), b)
<1>1. /\ Len(s) \in Nat /\ Len(Append(s, c)) = Len(s) + 1
      /\ \A k \in 1..Len(s) : Append(s, c)[k] = s[k]
      /\ Append(s, c)[Len(s) + 1] = c
  BY LenProperties, AppendProperties
<1>2. PICK k \in 1..Len(s) : s[k] = b /\ \A j \in 1..Len(s) : j # k => ~IsBuffer(s[j])
  BY DEF Single
<1>3. PICK v : v = Append(s, c)
  OBVIOUS
<1>4. k \in 1..Len(v) /\ v[k] = b
  BY <1>1, <1>2, <1>3
<1>5. \A j \in 1..Len(v) : j # k => ~IsBuffer(v[j])
  <2> SUFFICES ASSUME NEW j \in 1..Len(v), j # k PROVE ~IsBuffer(v[j])
    OBVIOUS
  <2>1. j \in 1..Len(s) \/ j = Len(s) + 1
    BY <1>1, <1>3
  <2> QED BY <1>1, <1>2, <1>3, <2>1
<1> QED BY <1>3, <1>4, <1>5 DEF Single

LEMMA SingleTail ==
    ASSUME NEW s \in Seq(Command), s # <<>>, NEW b, Single(s, b)
    PROVE  /\ IsBuffer(Head(s)) => Head(s) = b /\ Buffers(Tail(s)) = {}
           /\ ~IsBuffer(Head(s)) => Single(Tail(s), b)
<1>1. /\ Len(s) \in Nat \ {0} /\ Head(s) = s[1]
      /\ Len(Tail(s)) = Len(s) - 1
      /\ \A k \in 1..(Len(s) - 1) : Tail(s)[k] = s[k + 1]
  BY EmptySeq, LenProperties, HeadTailProperties
<1>2. PICK k \in 1..Len(s) : s[k] = b /\ \A j \in 1..Len(s) : j # k => ~IsBuffer(s[j])
  BY DEF Single
<1>3. PICK v : v = Tail(s)
  OBVIOUS
<1>4. IsBuffer(Head(s)) => k = 1 /\ Head(s) = b
  BY <1>1, <1>2
<1>5. k = 1 => \A j \in 1..Len(v) : ~IsBuffer(v[j])
  <2> SUFFICES ASSUME k = 1, NEW j \in 1..Len(v) PROVE ~IsBuffer(v[j])
    OBVIOUS
  <2>1. j + 1 \in 1..Len(s) /\ j + 1 # 1 /\ v[j] = s[j + 1]
    BY <1>1, <1>3
  <2> QED BY <1>2, <2>1
<1>6. k = 1 => Buffers(v) = {}
  BY <1>5 DEF Buffers
<1>7. ~IsBuffer(Head(s)) => Single(v, b)
  <2> SUFFICES ASSUME ~IsBuffer(Head(s)) PROVE Single(v, b)
    OBVIOUS
  <2>0. IsBuffer(b)
    BY DEF Single
  <2>1. k # 1
    BY <1>1, <1>2, <2>0
  <2>2. k - 1 \in 1..Len(v) /\ v[k - 1] = b
    BY <1>1, <1>2, <1>3, <2>1
  <2>3. \A j \in 1..Len(v) : j # k - 1 => ~IsBuffer(v[j])
    <3> SUFFICES ASSUME NEW j \in 1..Len(v), j # k - 1 PROVE ~IsBuffer(v[j])
      OBVIOUS
    <3>1. j + 1 \in 1..Len(s) /\ j + 1 # k /\ v[j] = s[j + 1]
      BY <1>1, <1>2, <1>3
    <3> QED BY <1>2, <3>1
  <2> QED BY <2>0, <2>2, <2>3 DEF Single
<1> QED BY <1>3, <1>4, <1>6, <1>7

LEMMA SingleSplit ==
    ASSUME NEW s \in Seq(Queued), s # <<>>, NEW k, k = Delivered(s), NEW b, Single(s, b)
    PROVE  Single(SubSeq(s, 1, k), b) /\ Buffers(SubSeq(s, k + 1, Len(s))) = {}
<1>1. /\ k \in 1..Len(s) /\ Len(s) \in Nat
      /\ \A j \in 1..Len(s) : j < k => ~IsBuffer(s[j])
      /\ IsBuffer(s[k]) \/ k = Len(s)
  BY DeliveredRange, LenProperties
<1>2. \A j \in 1..Len(s) : s[j] \in Queued
  BY ElementOfSeq
<1>3. PICK m \in 1..Len(s) : s[m] = b /\ \A j \in 1..Len(s) : j # m => ~IsBuffer(s[j])
  BY DEF Single
<1>4. IsBuffer(b)
  BY DEF Single
<1>5. m = k
  BY <1>1, <1>3, <1>4
<1>6. PICK t, v : t = SubSeq(s, 1, k) /\ v = SubSeq(s, k + 1, Len(s))
  OBVIOUS
<1>7. Len(t) = k /\ \A j \in 1..k : t[j] = s[j]
  BY <1>1, <1>2, <1>6, SubSeqProperties
<1>8. Len(v) = Len(s) - k /\ \A j \in 1..(Len(s) - k) : v[j] = s[k + j]
  <2>1. /\ Len(v) = IF k + 1 <= Len(s) THEN Len(s) - (k + 1) + 1 ELSE 0
        /\ \A j \in 1..(Len(s) - (k + 1) + 1) : v[j] = s[(k + 1) + j - 1]
    BY <1>1, <1>2, <1>6, SubSeqProperties
  <2> QED BY <1>1, <2>1
<1>9. Single(t, b)
  <2>1. k \in 1..Len(t) /\ t[k] = b
    BY <1>1, <1>3, <1>5, <1>7
  <2>2. \A j \in 1..Len(t) : j # k => ~IsBuffer(t[j])
    BY <1>1, <1>3, <1>5, <1>7
  <2> QED BY <1>4, <2>1, <2>2 DEF Single
<1>10. \A j \in 1..Len(v) : ~IsBuffer(v[j])
  <2> SUFFICES ASSUME NEW j \in 1..Len(v) PROVE ~IsBuffer(v[j])
    OBVIOUS
  <2>1. k + j \in 1..Len(s) /\ k + j # m /\ v[j] = s[k + j]
    BY <1>1, <1>5, <1>8
  <2> QED BY <1>3, <2>1
<1>11. Buffers(v) = {}
  BY <1>10 DEF Buffers
<1> QED BY <1>6, <1>9, <1>11

\* The commands a node has been given or will be given.
Fetched(q) == IF q \in Procs THEN readbuf[q] ELSE <<>>
Free(q) == Buffers(Fetched(q)) = {} /\ Buffers(todo[q]) = {}
Has(q, b) == \/ Single(Fetched(q), b) /\ Buffers(todo[q]) = {}
             \/ Buffers(Fetched(q)) = {} /\ Single(todo[q], b)

Nowhere == \A q \in Nodes : Free(q)
Only(q, b) == Has(q, b) /\ \A x \in Nodes \ {q} : Free(x)

\* Steps that move no buffer from one node to another.
Boxes == \A q \in Nodes : (Free(q) => Free(q)') /\ \A b : Has(q, b) => Has(q, b)'

LEMMA BoxesKeep ==
    ASSUME Boxes
    PROVE  (Nowhere => Nowhere') /\ \A q \in Nodes : \A b : Only(q, b) => Only(q, b)'
  BY DEF Boxes, Nowhere, Only

LEMMA SameBoxes == UNCHANGED <<todo, readbuf>> => Boxes
  BY DEF Boxes, Free, Has, Fetched

LEMMA ReadBoxes ==
    ASSUME Types, AllLocal, NEW p \in Procs, IoctlRead(p)
    PROVE  Boxes
<1> USE DEF Types
<1>1. pc[p] = "read" /\ DriverRead(p) /\ p \in Nodes
  BY ProcsType DEF IoctlRead
<1>2. readbuf[p] = <<>> /\ Buffers(readbuf[p]) = {} /\ Fetched(p) = readbuf[p]
  BY <1>1, BuffersEmpty DEF AllLocal, Local, Reads, Fetched
<1>3. \A b : ~Single(readbuf[p], b)
  BY <1>2, SingleBuffers
<1>4. \A q \in Nodes \ {p} : Fetched(q)' = Fetched(q) /\ todo'[q] = todo[q]
  BY <1>1 DEF DriverRead, Fetched, CallTypes, QueueTypes
<1>5. \A q \in Nodes \ {p} : (Free(q) => Free(q)') /\ \A b : Has(q, b) => Has(q, b)'
  BY <1>4 DEF Free, Has
<1>6. (Free(p) => Free(p)') /\ \A b : Has(p, b) => Has(p, b)'
  <2>1. CASE err[p] # "none"
    <3> DEFINE c == Cmd(err[p], 0, p, "none")
    <3>1. todo' = todo /\ Fetched(p)' = <<c>>
      BY <1>1, <2>1 DEF DriverRead, Fetched, CallTypes
    <3>2. ~IsBuffer(c)
      BY <2>1 DEF QueueTypes, IsBuffer, Cmd
    <3>3. Buffers(<<c>>) = {}
      BY <3>2, BuffersEmpty
    <3> HIDE DEF c
    <3> QED BY <1>2, <1>3, <3>1, <3>3 DEF Free, Has
  <2>2. CASE err[p] = "none"
    <3>1. PICK k, s, t, v : k = Delivered(s) /\ s = todo[p] /\ t = SubSeq(s, 1, k) /\ v = SubSeq(s, k + 1, Len(s))
      OBVIOUS
    <3>2. s # <<>> /\ s \in Seq(Queued) /\ Fetched(p)' = t /\ todo'[p] = v
      BY <1>1, <2>2, <3>1 DEF DriverRead, QueueTypes, CallTypes, Fetched
    <3>3. Buffers(s) = {} => Buffers(t) = {} /\ Buffers(v) = {}
      BY <3>1, <3>2, BuffersSplit
    <3>4. \A b : Single(s, b) => Single(t, b) /\ Buffers(v) = {}
      BY <3>1, <3>2, SingleSplit
    <3> QED BY <1>2, <1>3, <3>1, <3>2, <3>3, <3>4 DEF Free, Has
  <2> QED BY <2>1, <2>2
<1> QED BY <1>5, <1>6 DEF Boxes

\* A command that takes no buffer is parsed.
LEMMA ParseBoxes ==
    ASSUME Types, NEW p \in Procs, NEW c \in {"complete", "failed", "dead"}, Parsing(p, c), UNCHANGED todo
    PROVE  Boxes
<1> USE DEF Types
<1>1. /\ readbuf[p] \in Seq(Command) /\ readbuf[p] # <<>> /\ Head(readbuf[p]).cmd = c
      /\ readbuf' = [readbuf EXCEPT ![p] = Tail(readbuf[p])]
  BY ParsingHead
<1>2. ~IsBuffer(Head(readbuf[p]))
  BY <1>1 DEF IsBuffer
<1>3. /\ Buffers(readbuf[p]) = Buffers(Tail(readbuf[p]))
      /\ \A b : Single(readbuf[p], b) => Single(Tail(readbuf[p]), b)
  <2>1. Buffers(readbuf[p]) = Buffers(Tail(readbuf[p]))
    <3>1. Buffers(readbuf[p]) = Buffers(Tail(readbuf[p])) \cup {b \in {Head(readbuf[p])} : IsBuffer(b)}
      BY ONLY <1>1, BuffersTail
    <3> QED BY ONLY <1>2, <3>1
  <2>2. ASSUME NEW b, Single(readbuf[p], b) PROVE Single(Tail(readbuf[p]), b)
    BY ONLY <1>1, <1>2, <2>2, SingleTail
  <2> QED BY <2>1, <2>2
<1>4. \A q \in Nodes : Fetched(q)' = IF q = p THEN Tail(readbuf[p]) ELSE Fetched(q)
  BY <1>1 DEF Fetched, CallTypes
<1>5. Fetched(p) = readbuf[p]
  BY DEF Fetched
<1> QED BY <1>3, <1>4, <1>5 DEF Boxes, Free, Has

\* A buffer is parsed: it was the only one.
LEMMA TakeBox ==
    ASSUME Types, NEW p \in Procs, NEW c \in {"txn", "reply"}, Parsing(p, c)
    PROVE  /\ ~Nowhere
           /\ \A q \in Nodes : \A b : Only(q, b) =>
                 /\ q = p /\ b = Head(readbuf[p])
                 /\ Buffers(Fetched(p)') = {}
                 /\ \A x \in Nodes : Buffers(todo[x]) = {}
                 /\ \A x \in Nodes \ {p} : Buffers(Fetched(x)') = {}
<1> USE DEF Types
<1>1. /\ readbuf[p] \in Seq(Command) /\ readbuf[p] # <<>> /\ Head(readbuf[p]).cmd = c
      /\ readbuf' = [readbuf EXCEPT ![p] = Tail(readbuf[p])] /\ p \in Nodes
  BY ParsingHead, ProcsType
<1>2. IsBuffer(Head(readbuf[p]))
  BY <1>1 DEF IsBuffer
<1>3. Head(readbuf[p]) \in Buffers(readbuf[p]) /\ Fetched(p) = readbuf[p]
  BY <1>1, <1>2, BuffersTail DEF Fetched
<1>4. ~Nowhere
  BY <1>1, <1>3 DEF Nowhere, Free
<1>5. ASSUME NEW q \in Nodes, NEW b, Only(q, b)
      PROVE  /\ q = p /\ b = Head(readbuf[p]) /\ Buffers(Tail(readbuf[p])) = {}
             /\ \A x \in Nodes : Buffers(todo[x]) = {}
             /\ \A x \in Nodes \ {p} : Buffers(Fetched(x)) = {}
  <2>1. q = p
    BY <1>1, <1>3, <1>5 DEF Only, Free
  <2>2. Single(readbuf[p], b) /\ Buffers(todo[p]) = {}
    BY <1>3, <1>5, <2>1 DEF Only, Has
  <2>3. b = Head(readbuf[p]) /\ Buffers(Tail(readbuf[p])) = {}
    BY <1>1, <1>2, <2>2, SingleTail
  <2> QED BY <1>5, <2>1, <2>2, <2>3 DEF Only, Free
<1>6. \A q \in Nodes : Fetched(q)' = IF q = p THEN Tail(readbuf[p]) ELSE Fetched(q)
  BY <1>1 DEF Fetched, CallTypes
<1>7. Fetched(p)' = Tail(readbuf[p]) /\ \A x \in Nodes \ {p} : Fetched(x)' = Fetched(x)
  BY <1>1, <1>6
<1>8. ASSUME NEW q \in Nodes, NEW b, Only(q, b)
      PROVE  /\ q = p /\ b = Head(readbuf[p]) /\ Buffers(Fetched(p)') = {}
             /\ \A x \in Nodes : Buffers(todo[x]) = {}
             /\ \A x \in Nodes \ {p} : Buffers(Fetched(x)') = {}
  <2>1. /\ q = p /\ b = Head(readbuf[p]) /\ Buffers(Tail(readbuf[p])) = {}
        /\ \A x \in Nodes : Buffers(todo[x]) = {}
        /\ \A x \in Nodes \ {p} : Buffers(Fetched(x)) = {}
    BY <1>5, <1>8
  <2>2. Buffers(Fetched(p)') = {}
    BY ONLY <1>7, <2>1
  <2>3. ASSUME NEW x \in Nodes \ {p} PROVE Buffers(Fetched(x)') = {}
    BY ONLY <1>7, <2>1, <2>3
  <2> QED BY <2>1, <2>2, <2>3
<1> QED BY <1>4, <1>8

\* A process is known to the driver until it exits.
Living == \A p \in Procs : pc[p] # "exited" => alive[p]

LEMMA LivingStep ==
    ASSUME Types, Living, [Next]_vars
    PROVE  Living'
<1> USE ProcsType DEF Types
<1>s. ASSUME UNCHANGED alive, \A p \in Procs : pc[p] = "exited" => pc'[p] = "exited" PROVE Living'
  BY <1>s DEF Living
<1>g. ASSUME NEW p \in Procs, NEW l, pc[p] # "exited", Goto(p, l), UNCHANGED alive PROVE Living'
  BY <1>g DEF Living, Goto, CallTypes
<1>e. ASSUME NEW p \in Procs, Goto(p, "exited"), DriverExit(p) PROVE Living'
  BY <1>e DEF Living, Goto, DriverExit, CallTypes, RestTypes
<1>1. CASE Parent
  BY <1>1, <1>e, <1>g DEF Parent, svcmgr_publish, Published, Fork, At, Returned, BeginCall, Exits, driverVars
<1>2. CASE Reopen
  BY <1>2, <1>e, <1>s DEF Reopen, Exits, callVars, driverVars
<1>3. CASE LookedUp
  BY <1>3, <1>s DEF LookedUp, callVars
<1>4. CASE svcmgr_lookup \/ Ping \/ StartRound \/ PingAnswered
  BY <1>4, <1>g DEF svcmgr_lookup, Ping, StartRound, PingAnswered, At, Returned, BeginCall, driverVars
<1>5. CASE PingFailed \/ Report
  BY <1>5, <1>e, <1>g DEF PingFailed, Report, NextRound, At, Returned, Exits, driverVars
<1>6. ASSUME NEW p \in Procs, Library(p) PROVE Living'
  <2>1. CASE ParsedInLoop(p) \/ LoopIoctlFails(p)
    BY <2>1, <1>e, <1>g, <1>6 DEF ParsedInLoop, LoopIoctlFails, LoopEnds, driverVars
  <2>2. CASE IoctlWrite(p) \/ IoctlRead(p) \/ IoctlFails(p) \/ ParsedInCall(p)
    BY <2>2, <1>g, <1>6 DEF IoctlWrite, IoctlRead, IoctlFails, ParsedInCall, CallFails, driverVars
  <2>3. CASE ParseSkip(p) \/ ParseReply(p) \/ ParseError(p) \/ ParseTransaction(p)
    BY <2>3, <1>s, <1>6 DEF ParseSkip, ParseReply, ParseError, ParseTransaction, driverVars
  <2> QED BY <1>6, <2>1, <2>2, <2>3 DEF Library
<1>7. CASE Kernel \/ UNCHANGED vars
  BY <1>7, <1>s DEF Kernel, SvcMgrServes, SvcMgrForgets, vars, libVars, callVars, driverVars
<1> QED BY <1>1, <1>2, <1>3, <1>4, <1>5, <1>6, <1>7 DEF Next, Child

\* The errors of the driver.
IsError(c) == c.cmd \in {"failed", "dead"}
NoError(s) == \A k \in 1..Len(s) : ~IsError(s[k])
Open(p) == err[p] = "none" /\ NoError(readbuf[p])

Caller == IF at["child"] = "unborn" THEN "parent" ELSE "child"
Other == IF at["child"] = "unborn" THEN "child" ELSE "parent"

Waiting(p) == pc[p] = "read" \/ (pc[p] = "parse" /\ r[p] = 1)

\* What has become of the call in progress: it is not sent, or answered; its
\* transaction is under way; the reply to it was not written; its reply is
\* under way; it was refused, or whoever should answer it died.
Idle(p) == Nowhere /\ stack[p] = 0 /\ Open(p) /\ ~Waiting(p)
AskedWith(p, b) ==
    /\ b.cmd = "txn" /\ b.n = call[p].n /\ b.peer = p /\ b.arg = call[p].code
    /\ Only(Owner(call[p].target), b)
    /\ stack[p] = call[p].n /\ call[p].n > 0 /\ Open(p) /\ Waiting(p)
Asked(p) == \E b \in Queued : AskedWith(p, b)
Lost(p) == Nowhere /\ stack[p] = call[p].n /\ Open(p) /\ Waiting(p) /\ failedWrites > 0
AnsweredWith(p, b) ==
    /\ b.cmd = "reply" /\ b.n = call[p].n /\ b.peer = Owner(call[p].target)
    /\ Only(p, b)
    /\ stack[p] = 0 /\ Open(p) /\ Waiting(p)
Answered(p) == \E b \in Queued : AnsweredWith(p, b)
Refused(p) ==
    /\ Nowhere /\ stack[p] = 0 /\ Waiting(p)
    /\ \/ err[p] # "none" /\ NoError(readbuf[p])
       \/ err[p] = "none" /\ ~NoError(readbuf[p])
Phase(p) == Idle(p) \/ Asked(p) \/ Lost(p) \/ Answered(p) \/ Refused(p)

LEMMA NoErrorFacts ==
    /\ NoError(<<>>)
    /\ \A s \in Seq(Queued) : NoError(s)
    /\ \A c : IsError(c) => ~NoError(<<c>>)
<1>1. \A s \in Seq(Queued) : NoError(s)
  <2> SUFFICES ASSUME NEW s \in Seq(Queued), NEW k \in 1..Len(s) PROVE ~IsError(s[k])
    BY DEF NoError
  <2>1. s[k] \in Queued
    BY ElementOfSeq
  <2> QED BY <2>1 DEF Queued, IsError
<1>2. ASSUME NEW c, IsError(c) PROVE ~NoError(<<c>>)
  <2>1. 1 \in 1..Len(<<c>>) /\ <<c>>[1] = c
    OBVIOUS
  <2> QED BY <1>2, <2>1 DEF NoError
<1>3. NoError(<<>>)
  BY DEF NoError
<1> QED BY <1>1, <1>2, <1>3

LEMMA NoErrorTail ==
    ASSUME NEW s \in Seq(Command), s # <<>>
    PROVE  NoError(s) <=> (~IsError(Head(s)) /\ NoError(Tail(s)))
<1>1. /\ Len(s) \in Nat \ {0} /\ Head(s) = s[1]
      /\ Len(Tail(s)) = Len(s) - 1
      /\ \A k \in 1..(Len(s) - 1) : Tail(s)[k] = s[k + 1]
  BY EmptySeq, LenProperties, HeadTailProperties
<1>2. PICK v : v = Tail(s)
  OBVIOUS
<1>3. ASSUME NoError(s) PROVE ~IsError(Head(s)) /\ NoError(v)
  <2>1. ~IsError(Head(s))
    BY <1>1, <1>3 DEF NoError
  <2>2. ASSUME NEW k \in 1..Len(v) PROVE ~IsError(v[k])
    <3>1. k + 1 \in 1..Len(s) /\ v[k] = s[k + 1]
      BY <1>1, <1>2
    <3> QED BY <1>3, <3>1 DEF NoError
  <2> QED BY <2>1, <2>2 DEF NoError
<1>4. ASSUME ~IsError(Head(s)), NoError(v) PROVE NoError(s)
  <2> SUFFICES ASSUME NEW k \in 1..Len(s) PROVE ~IsError(s[k])
    BY DEF NoError
  <2>1. CASE k = 1
    BY <1>1, <1>4, <2>1
  <2>2. CASE k # 1
    <3>1. k - 1 \in 1..Len(v) /\ v[k - 1] = s[k]
      BY <1>1, <1>2, <2>2
    <3> QED BY <1>4, <3>1 DEF NoError
  <2> QED BY <2>1, <2>2
<1> QED BY <1>2, <1>3, <1>4

\* Steps that leave the call in progress where it is.
LEMMA PhaseKept ==
    ASSUME Types, Types', NEW p \in Procs, Phase(p), Boxes, call'[p] = call[p],
           stack'[p] = stack[p], err'[p] = err[p], NoError(readbuf'[p]) <=> NoError(readbuf[p]),
           Waiting(p)' <=> Waiting(p), failedWrites' >= failedWrites
    PROVE  Phase(p)'
<1>0. (Nowhere => Nowhere') /\ \A q \in Nodes : \A b : Only(q, b) => Only(q, b)'
  BY BoxesKeep
<1>1. Open(p)' <=> Open(p)
  BY DEF Open
<1>2. Owner(call[p].target) \in Nodes /\ p \in Nodes /\ Owner(call[p].target)' = Owner(call[p].target)
  BY OwnerType, ProcsType
<1>3. CASE Idle(p)
  BY <1>0, <1>1, <1>3 DEF Idle, Phase
<1>4. ASSUME NEW b \in Queued, AskedWith(p, b) PROVE Phase(p)'
  <2>1. AskedWith(p, b)'
    BY <1>0, <1>1, <1>2, <1>4 DEF AskedWith
  <2> QED BY <2>1 DEF Phase, Asked
<1>5. CASE Lost(p)
  <2>1. failedWrites \in Nat /\ failedWrites' \in Nat
    BY DEF Types, RestTypes
  <2> QED BY <1>0, <1>1, <1>5, <2>1 DEF Lost, Phase
<1>6. ASSUME NEW b \in Queued, AnsweredWith(p, b) PROVE Phase(p)'
  <2>1. AnsweredWith(p, b)'
    BY <1>0, <1>1, <1>2, <1>6 DEF AnsweredWith
  <2> QED BY <2>1 DEF Phase, Answered
<1>7. CASE Refused(p)
  BY <1>0, <1>7 DEF Refused, Phase
<1> QED BY <1>3, <1>4, <1>5, <1>6, <1>7 DEF Phase, Asked, Answered

LEMMA PhaseIdle ==
    ASSUME NEW p \in Procs, Phase(p)
    PROVE  ~Waiting(p) <=> Idle(p)
  BY DEF Phase, Idle, Asked, AskedWith, Lost, Answered, AnsweredWith, Refused

\* The common case: nothing of the driver that the caller sees has changed.
LEMMA PhaseFrame ==
    ASSUME Types, Types', NEW p \in Procs, Phase(p), call'[p] = call[p], UNCHANGED <<todo, err, stack, readbuf>>,
           Waiting(p)' <=> Waiting(p), failedWrites' >= failedWrites
    PROVE  Phase(p)'
<1>1. Boxes
  BY SameBoxes
<1> QED BY <1>1, PhaseKept

LEMMA IdleKept ==
    ASSUME NEW p \in Procs, Idle(p), UNCHANGED <<todo, err, stack, readbuf>>, ~Waiting(p)'
    PROVE  Phase(p)'
<1>1. Nowhere'
  BY SameBoxes, BoxesKeep DEF Idle
<1> QED BY <1>1 DEF Phase, Idle, Open

-----------------------------------------------------------------------------
(* The driver's steps on the call in progress *)

\* No buffer in the queues q, and none read and not yet parsed.
Quiet(q) == \A x \in Nodes : Buffers(q[x]) = {}
Emptied == \A x \in Nodes : Buffers(Fetched(x)) = {}

LEMMA SendPhase ==
    ASSUME Types, NEW p \in Procs, NEW to \in Nodes, to = Owner(call[p].target), to # p, Idle(p),
           call[p].n > 0, DriverTransaction(p, call[p]), UNCHANGED <<call, readbuf>>, Waiting(p)'
    PROVE  /\ \A q \in Procs \ {p} : err'[q] = err[q] /\ stack'[q] = stack[q]
           /\ \/ /\ ~ValidHandle(p, call[p].target) \/ ~HasRoom(to) \/ ~alive[to]
                 /\ Refused(p)' /\ UNCHANGED todo
              \/ /\ Asked(p)'
                 /\ todo'[to] = Append(todo[to], Cmd("txn", call[p].n, p, call[p].code))
                 /\ todo'[p] = Append(todo[p], Cmd("complete", call[p].n, p, "none"))
                 /\ \A x \in Nodes \ {p, to} : todo'[x] = todo[x]
<1> USE ProcsType DEF Types
<1>0. p \in Nodes /\ Nowhere /\ stack[p] = 0 /\ err[p] = "none" /\ NoError(readbuf[p])
  BY DEF Idle, Open
<1>1. CASE /\ UNCHANGED <<todo, stack>> /\ err'[p] # "none"
           /\ \A q \in Procs \ {p} : err'[q] = err[q]
           /\ \/ stack[p] # 0 \/ ~ValidHandle(p, call[p].target) \/ ~HasRoom(to) \/ ~alive[to]
  <2>1. Nowhere'
    BY <1>0, <1>1, SameBoxes, BoxesKeep
  <2> QED BY <1>0, <1>1, <2>1 DEF Refused
<1>2. ASSUME todo'[to] = Append(todo[to], Cmd("txn", call[p].n, p, call[p].code)),
             todo'[p] = Append(todo[p], Cmd("complete", call[p].n, p, "none")),
             \A q \in Nodes \ {p, to} : todo'[q] = todo[q],
             stack'[p] = call[p].n,
             UNCHANGED err
      PROVE  Asked(p)'
  <2>1. PICK b : b = Cmd("txn", call[p].n, p, call[p].code)
    OBVIOUS
  <2>2. PICK c : c = Cmd("complete", call[p].n, p, "none")
    OBVIOUS
  <2>3. call[p].n \in Nat /\ call[p].code \in Args /\ "none" \in Args
    BY DEF CallTypes, Args
  <2>4. b \in Queued /\ IsBuffer(b) /\ b.cmd = "txn" /\ b.n = call[p].n /\ b.peer = p /\ b.arg = call[p].code
    BY <1>0, <2>1, <2>3, CmdType DEF IsBuffer
  <2>5. c \in Queued /\ ~IsBuffer(c)
    BY <1>0, <2>2, <2>3, CmdType DEF IsBuffer
  <2>6. /\ todo[to] \in Seq(Queued) /\ todo[p] \in Seq(Queued)
        /\ \A x \in Nodes : Buffers(todo[x]) = {} /\ Buffers(Fetched(x)) = {}
    BY <1>0 DEF QueueTypes, Nowhere, Free
  <2>7. \A x \in Nodes : Fetched(x)' = Fetched(x)
    BY DEF Fetched
  <2>8. Single(todo'[to], b)
    BY <1>2, <2>1, <2>4, <2>6, SingleNew
  <2>9. Buffers(todo'[p]) = {}
    <3>1. Buffers(Append(todo[p], c)) = Buffers(todo[p]) \cup {x \in {c} : IsBuffer(x)}
      BY <2>5, <2>6, BuffersAppend
    <3>2. Buffers(Append(todo[p], c)) = {}
      BY <1>0, <2>5, <2>6, <3>1
    <3> QED BY <1>2, <2>2, <3>2
  <2>10. \A x \in Nodes \ {to} : Buffers(todo'[x]) = {}
    BY <1>2, <2>6, <2>9
  <2>11. \A x \in Nodes \ {to} : Free(x)'
    BY <2>6, <2>7, <2>10 DEF Free
  <2>12. Has(to, b)'
    BY <2>6, <2>7, <2>8 DEF Has
  <2>13. Only(to, b)'
    BY <2>11, <2>12 DEF Only
  <2>14. Owner(call[p].target)' = to
    OBVIOUS
  <2>15. Open(p)'
    BY <1>0, <1>2 DEF Open
  <2>16. AskedWith(p, b)'
    BY <1>2, <2>4, <2>13, <2>14, <2>15 DEF AskedWith
  <2> QED BY <2>4, <2>16 DEF Asked
<1> QED BY <1>0, <1>1, <1>2, TransactionEffect

LEMMA ReplyPhase ==
    ASSUME Types, NEW q \in [Nodes -> Seq(Queued)], NEW t, NEW a \in Args, NEW p \in Procs, NEW from,
           DriverReply(q, from, t, a), t.peer = p, t.n = call[p].n, from = Owner(call[p].target), alive[p],
           Quiet(q), Emptied',
           err[p] = "none", NoError(readbuf'[p]), Waiting(p)', call'[p] = call[p]
    PROVE  /\ \A x \in Procs \ {p} : err'[x] = err[x] /\ stack'[x] = stack[x]
           /\ \A x \in Nodes \ {p} : todo'[x] = q[x]
           /\ \/ AnsweredWith(p, Cmd("reply", call[p].n, from, a))' /\ todo'[p] = Append(q[p], Cmd("reply", call[p].n, from, a))
              \/ ~HasRoom(p) /\ Refused(p)' /\ todo'[p] = q[p]
<1> USE ProcsType DEF Types
<1>0. p \in Nodes /\ from \in Nodes
  BY OwnerType
<1>1. /\ \A x \in Nodes \ {p} : todo'[x] = q[x]
      /\ \/ HasRoom(p) /\ todo'[p] = Append(q[p], Cmd("reply", t.n, from, a)) /\ UNCHANGED err
         \/ ~HasRoom(p) /\ todo'[p] = q[p] /\ err'[p] = "failed"
      /\ \A x \in Procs \ {p} : err'[x] = err[x] /\ stack'[x] = stack[x]
      /\ stack'[p] = 0
  <2>1. p = t.peer /\ DriverReply(q, from, t, a) /\ alive[p]
    OBVIOUS
  <2>2. Types
    OBVIOUS
  <2> HIDE DEF Types
  <2>3. /\ \A x \in Nodes \ {p} : todo'[x] = q[x]
        /\ \/ alive[p] /\ HasRoom(p) /\ todo'[p] = Append(q[p], Cmd("reply", t.n, from, a)) /\ UNCHANGED err
           \/ alive[p] /\ ~HasRoom(p) /\ todo'[p] = q[p] /\ err'[p] = "failed"
           \/ ~alive[p] /\ todo'[p] = q[p] /\ UNCHANGED err
        /\ \A x \in Procs \ {p} : err'[x] = err[x] /\ stack'[x] = stack[x]
        /\ stack'[p] = 0
    BY ONLY <2>1, <2>2, ReplyEffect, q \in [Nodes -> Seq(Queued)], p \in Procs
  <2> QED BY ONLY <2>1, <2>3
<1>2. \A x \in Nodes \ {p} : Free(x)'
  BY <1>1 DEF Free, Quiet, Emptied
<1>3. CASE ~HasRoom(p) /\ todo'[p] = q[p] /\ err'[p] = "failed"
  <2>1. Free(p)'
    BY <1>0, <1>3 DEF Free, Quiet, Emptied
  <2>2. Nowhere'
    BY <1>2, <2>1 DEF Nowhere
  <2>3. Refused(p)'
    BY <1>1, <1>3, <2>2 DEF Refused
  <2> QED BY <1>1, <1>3, <2>3
<1>4. CASE HasRoom(p) /\ todo'[p] = Append(q[p], Cmd("reply", t.n, from, a)) /\ UNCHANGED err
  <2>1. PICK b : b = Cmd("reply", call[p].n, from, a)
    OBVIOUS
  <2>2. call[p].n \in Nat
    BY DEF CallTypes
  <2>3. b \in Queued /\ b.cmd = "reply" /\ b.n = call[p].n /\ b.peer = from /\ IsBuffer(b)
    BY <1>0, <2>1, <2>2, CmdType DEF IsBuffer
  <2>4. Single(todo'[p], b)
    <3>1. q[p] \in Seq(Queued) /\ Buffers(q[p]) = {}
      BY <1>0 DEF Quiet
    <3> QED BY <1>4, <2>1, <2>3, <3>1, SingleNew
  <2>5. Has(p, b)'
    BY <1>0, <2>4 DEF Has, Emptied
  <2>6. Only(p, b)'
    BY <1>2, <2>5 DEF Only
  <2>7. Open(p)'
    BY <1>4 DEF Open
  <2>8. AnsweredWith(p, b)'
    BY <1>1, <2>3, <2>6, <2>7 DEF AnsweredWith
  <2> QED BY <1>1, <1>4, <2>1, <2>8
<1> QED BY <1>1, <1>3, <1>4

LEMMA ReadErrors ==
    ASSUME Types, AllLocal, NEW p \in Procs, IoctlRead(p)
    PROVE  /\ pc[p] = "read" /\ readbuf[p] = <<>> /\ NoError(readbuf[p])
           /\ err[p] = "none" => err' = err /\ NoError(readbuf'[p])
           /\ err[p] # "none" => err'[p] = "none" /\ ~NoError(readbuf'[p])
           /\ \A q \in Procs \ {p} : err'[q] = err[q] /\ readbuf'[q] = readbuf[q]
<1> USE DEF Types
<1>1. pc[p] = "read" /\ DriverRead(p)
  BY DEF IoctlRead
<1>2. readbuf[p] = <<>> /\ NoError(readbuf[p])
  BY <1>1, NoErrorFacts DEF AllLocal, Local, Reads
<1>3. CASE err[p] # "none"
  <2>1. PICK c : c = Cmd(err[p], 0, p, "none")
    OBVIOUS
  <2>2. readbuf' = [readbuf EXCEPT ![p] = <<c>>] /\ err' = [err EXCEPT ![p] = "none"]
    BY <1>1, <1>3, <2>1 DEF DriverRead
  <2>3. IsError(c)
    BY <1>3, <2>1 DEF IsError, Cmd, QueueTypes
  <2>4. ~NoError(<<c>>)
    BY <2>3, NoErrorFacts
  <2>5. readbuf'[p] = <<c>>
    BY <2>2 DEF CallTypes
  <2>6. ~NoError(readbuf'[p])
    BY <2>4, <2>5
  <2> QED BY <1>1, <1>2, <1>3, <2>2, <2>6 DEF CallTypes, QueueTypes
<1>4. CASE err[p] = "none"
  <2>1. PICK k, s : k = Delivered(s) /\ s = todo[p]
    OBVIOUS
  <2>2. /\ s # <<>> /\ s \in Seq(Queued) /\ err' = err
        /\ readbuf' = [readbuf EXCEPT ![p] = SubSeq(s, 1, k)]
    BY <1>1, <1>4, <2>1, ProcsType DEF DriverRead, QueueTypes
  <2>3. SubSeq(s, 1, k) \in Seq(Queued)
    <3>1. k \in 1..Len(s) /\ Len(s) \in Nat
      BY <2>1, <2>2, DeliveredRange, LenProperties
    <3>2. \A j \in 1..k : s[j] \in Queued
      BY <2>2, <3>1, ElementOfSeq
    <3> QED BY <2>2, <3>1, <3>2, SubSeqProperties
  <2>4. NoError(SubSeq(s, 1, k))
    BY <2>3, NoErrorFacts
  <2>5. NoError(readbuf'[p])
    BY <2>2, <2>4 DEF CallTypes
  <2> QED BY <1>1, <1>2, <1>4, <2>2, <2>5 DEF CallTypes
<1> QED BY <1>3, <1>4

\* A reply the caller is about to use is the one to its own transaction, from
\* whom it called.
OwnReply(p) ==
    (pc[p] = "parse" /\ r[p] = 0) \/ (pc[p] = "returned" /\ reply[p] # NoReply) =>
        reply[p].n = call[p].n /\ reply[p].peer = Owner(call[p].target)

\* p is the one who calls, o the one who does not.
Serial(p, o) ==
    /\ Phase(p) /\ OwnReply(p)
    /\ stack[o] = 0 /\ Open(o)
    /\ looping["parent"] /\ pc["parent"] = "parse" => r["parent"] = 1

LEMMA CallerFacts ==
    ASSUME Types, Stages, NEW p, p = Caller, NEW o, o = Other
    PROVE  /\ p \in Procs /\ o \in Procs /\ p # o /\ \A q \in Procs : q = p \/ q = o
           /\ ~looping[p] /\ Owner(call[p].target) # p /\ Owner(call[p].target) \in Nodes
           /\ p = "parent" => pc["child"] = "main" /\ call["child"].n = 0 /\ ~looping["child"]
           /\ p = "child" => /\ o = "parent" /\ pc["parent"] \in {"read", "parse", "exited"}
                             /\ looping["parent"] <=> pc["parent"] # "exited"
  BY DEF Stages, Caller, Other, Procs, Owner, Nodes

\* The steps of the call itself.
LEMMA CallerStep ==
    ASSUME Types, Types', AllLocal, Stages, NEW p, p = Caller, NEW o, o = Other, Serial(p, o),
           Library(p), interrupts' = 0, interrupts = 0
    PROVE  Serial(p, o)'
<1> USE DEF Types
<1>0. /\ p \in Procs /\ o \in Procs /\ p # o /\ ~looping[p] /\ p \in Nodes
      /\ p = "parent" \/ o = "parent"
  BY CallerFacts, ProcsType DEF Procs
<1>1. Phase(p) /\ OwnReply(p) /\ stack[o] = 0 /\ Open(o)
  BY DEF Serial
<1>f. ASSUME Phase(p)', OwnReply(p)', stack'[o] = stack[o], err'[o] = err[o], readbuf'[o] = readbuf[o],
             pc'[o] = pc[o], r'[o] = r[o], UNCHANGED looping
      PROVE  Serial(p, o)'
  BY <1>0, <1>1, <1>f DEF Serial, Open
<1>w. failedWrites \in Nat
  BY DEF RestTypes
<1>2. CASE IoctlWrite(p)
  <2>1. /\ pc[p] = "write" /\ pc' = [pc EXCEPT ![p] = "read"] /\ DriverTransaction(p, call[p])
        /\ UNCHANGED <<looping, call, readbuf, r, reply>>
    BY <1>2 DEF IoctlWrite, Goto
  <2>2. Idle(p) /\ Waiting(p)' /\ pc'[o] = pc[o]
    BY <1>0, <1>1, <2>1, PhaseIdle DEF Waiting, CallTypes
  <2>3. PICK to \in Nodes : to = Owner(call[p].target) /\ to # p /\ call[p].n > 0
    BY <1>0, <2>1, OwnerElsewhere DEF Stages
  <2>4. Phase(p)' /\ err'[o] = err[o] /\ stack'[o] = stack[o]
    BY <1>0, <2>1, <2>2, <2>3, SendPhase DEF Phase
  <2>5. OwnReply(p)'
    BY <1>0, <2>1 DEF OwnReply, CallTypes
  <2> QED BY <1>f, <2>1, <2>2, <2>4, <2>5
<1>3. CASE IoctlRead(p)
  <2>1. /\ pc' = [pc EXCEPT ![p] = "parse"] /\ r' = [r EXCEPT ![p] = 1]
        /\ UNCHANGED <<looping, call, reply, stack, failedWrites>>
    BY <1>3 DEF IoctlRead, Goto, faultVars
  <2>2. /\ pc[p] = "read" /\ NoError(readbuf[p])
        /\ err[p] = "none" => err' = err /\ NoError(readbuf'[p])
        /\ err[p] # "none" => err'[p] = "none" /\ ~NoError(readbuf'[p])
        /\ err'[o] = err[o] /\ readbuf'[o] = readbuf[o]
    BY <1>0, <1>3, ReadErrors
  <2>3. Waiting(p) /\ Waiting(p)' /\ pc'[o] = pc[o] /\ r'[o] = r[o]
    BY <1>0, <2>1, <2>2 DEF Waiting, CallTypes
  <2>4. Boxes
    BY <1>0, <1>3, ReadBoxes
  <2>5. Phase(p)'
    <3>1. CASE err[p] = "none"
      BY <1>0, <1>1, <1>w, <2>1, <2>2, <2>3, <2>4, <3>1, PhaseKept
    <3>2. CASE err[p] # "none"
      <4>1. Refused(p)
        BY <1>1, <3>2 DEF Phase, Idle, Asked, AskedWith, Lost, Answered, AnsweredWith, Open
      <4>2. Nowhere'
        BY <2>4, <4>1, BoxesKeep DEF Refused
      <4> QED BY <2>1, <2>2, <2>3, <3>2, <4>1, <4>2 DEF Phase, Refused
    <3> QED BY <3>1, <3>2
  <2>6. OwnReply(p)'
    BY <1>0, <2>1 DEF OwnReply, CallTypes
  <2> QED BY <1>f, <2>1, <2>2, <2>3, <2>5, <2>6
<1>4. CASE ParseSkip(p)
  <2>1. Parsing(p, "complete") /\ UNCHANGED <<pc, looping, call, r, reply, todo, err, stack, failedWrites>>
    BY <1>4 DEF ParseSkip, driverVars, faultVars
  <2>2. Boxes
    BY <1>0, <2>1, ParseBoxes
  <2>3. /\ readbuf[p] \in Seq(Command) /\ readbuf[p] # <<>> /\ Head(readbuf[p]).cmd = "complete"
        /\ readbuf' = [readbuf EXCEPT ![p] = Tail(readbuf[p])]
    BY <1>0, <2>1, ParsingHead
  <2>4. NoError(readbuf'[p]) <=> NoError(readbuf[p])
    <3>1. readbuf'[p] = Tail(readbuf[p])
      BY <1>0, <2>3 DEF CallTypes
    <3>2. ~IsError(Head(readbuf[p]))
      BY <2>3 DEF IsError
    <3>3. NoError(readbuf[p]) <=> (~IsError(Head(readbuf[p])) /\ NoError(Tail(readbuf[p])))
      BY ONLY <2>3, NoErrorTail, Zenon
    <3> QED BY ONLY <3>1, <3>2, <3>3, Zenon
  <2>5. Phase(p)'
    BY <1>0, <1>1, <1>w, <2>1, <2>2, <2>4, PhaseKept DEF Waiting
  <2>6. OwnReply(p)' /\ readbuf'[o] = readbuf[o]
    BY <1>0, <1>1, <2>1, <2>3 DEF OwnReply, CallTypes
  <2> QED BY <1>f, <2>1, <2>5, <2>6
<1>5. CASE ParseReply(p)
  <2>1. /\ Parsing(p, "reply") /\ r' = [r EXCEPT ![p] = 0]
        /\ UNCHANGED <<pc, looping, call, todo, err, stack>>
        /\ r[p] # 0 => reply' = [reply EXCEPT ![p] = Head(readbuf[p])]
    BY <1>0, <1>5 DEF ParseReply, driverVars
  <2>2. /\ readbuf[p] \in Seq(Command) /\ readbuf[p] # <<>> /\ Head(readbuf[p]).cmd = "reply" /\ pc[p] = "parse"
        /\ readbuf' = [readbuf EXCEPT ![p] = Tail(readbuf[p])]
    BY <1>0, <2>1, ParsingHead
  <2>3. ~Nowhere
    BY <1>0, <2>1, TakeBox
  <2>4. ASSUME NEW q \in Nodes, NEW b, Only(q, b)
        PROVE  /\ b = Head(readbuf[p]) /\ Nowhere'
    <3>1. /\ q = p /\ b = Head(readbuf[p]) /\ Buffers(Fetched(p)') = {}
          /\ \A x \in Nodes : Buffers(todo[x]) = {}
          /\ \A x \in Nodes \ {p} : Buffers(Fetched(x)') = {}
      BY <1>0, <2>1, <2>4, TakeBox
    <3> QED BY <2>1, <3>1 DEF Nowhere, Free
  <2>5. PICK b \in Queued : AnsweredWith(p, b)
    <3>1. ASSUME NEW b \in Queued, AskedWith(p, b) PROVE FALSE
      BY <2>2, <2>4, <3>1, OwnerType DEF AskedWith
    <3> QED BY <1>1, <2>3, <3>1 DEF Phase, Idle, Asked, Lost, Answered, Refused
  <2>6. b = Head(readbuf[p]) /\ Nowhere'
    BY <1>0, <2>4, <2>5 DEF AnsweredWith
  <2>7. stack[p] = 0 /\ Open(p) /\ r[p] = 1
    BY <2>2, <2>5 DEF AnsweredWith, Waiting
  <2>8. Open(p)'
    BY <1>0, <2>1, <2>2, <2>7, NoErrorTail DEF Open, CallTypes
  <2>9. ~Waiting(p)' /\ r'[o] = r[o] /\ readbuf'[o] = readbuf[o]
    BY <1>0, <2>1, <2>2 DEF Waiting, CallTypes
  <2>10. Phase(p)'
    BY <2>1, <2>6, <2>7, <2>8, <2>9 DEF Phase, Idle
  <2>11. OwnReply(p)'
    <3>1. reply'[p] = b /\ b.n = call[p].n /\ b.peer = Owner(call[p].target)
      BY <1>0, <2>1, <2>5, <2>6, <2>7 DEF AnsweredWith, CallTypes
    <3> QED BY <2>1, <3>1 DEF OwnReply
  <2> QED BY <1>f, <2>1, <2>9, <2>10, <2>11
<1>6. CASE ParseError(p)
  <2>1. PICK c \in {"failed", "dead"} : Parsing(p, c)
    BY <1>6 DEF ParseError
  <2>2. r' = [r EXCEPT ![p] = 2] /\ UNCHANGED <<pc, looping, call, reply, todo, err, stack>>
    BY <1>6 DEF ParseError, driverVars
  <2>3. /\ readbuf[p] \in Seq(Command) /\ readbuf[p] # <<>> /\ Head(readbuf[p]).cmd = c /\ pc[p] = "parse"
        /\ readbuf' = [readbuf EXCEPT ![p] = Tail(readbuf[p])]
    BY <1>0, <2>1, ParsingHead
  <2>4. ~NoError(readbuf[p])
    BY <2>3, NoErrorTail DEF IsError
  <2>5. Refused(p) /\ err[p] = "none" /\ stack[p] = 0 /\ Nowhere
    BY <1>1, <2>4 DEF Phase, Idle, Asked, AskedWith, Lost, Answered, AnsweredWith, Open, Refused
  <2>6. Nowhere'
    <3>1. Boxes
      BY <1>0, <2>1, <2>2, ParseBoxes
    <3> QED BY <2>5, <3>1, BoxesKeep
  <2>7. NoError(Tail(readbuf[p]))
    <3>1. PICK s \in Seq(Command) : s = readbuf[p] /\ s # <<>>
      BY <2>3
    <3>2. Len(s) \in Nat \ {0} /\ s[1] = Head(s) /\ Len(Tail(s)) = Len(s) - 1
      BY <3>1, EmptySeq, LenProperties, HeadTailProperties
    <3>3. s[1].cmd # "complete"
      BY <2>3, <3>1, <3>2
    <3>4. Len(s) = 1
      <4>1. \A k \in 1..Len(s) : k < Len(s) => s[k].cmd = "complete"
        BY <1>0, <3>1 DEF AllLocal, Local, Reads
      <4>2. 1 < Len(s) => 1 \in 1..Len(s)
        BY <3>2
      <4> QED BY ONLY <3>2, <3>3, <4>1, <4>2
    <3> QED BY <3>1, <3>2, <3>4 DEF NoError
  <2>8. Open(p)' /\ ~Waiting(p)' /\ r'[o] = r[o] /\ readbuf'[o] = readbuf[o] /\ r'[p] = 2
    BY <1>0, <2>2, <2>3, <2>5, <2>7 DEF Open, Waiting, CallTypes
  <2>9. Phase(p)'
    BY <2>2, <2>5, <2>6, <2>8 DEF Phase, Idle
  <2>10. OwnReply(p)'
    BY <2>2, <2>3, <2>8 DEF OwnReply
  <2> QED BY <1>f, <2>2, <2>8, <2>9, <2>10
<1>7. CASE ParsedInCall(p)
  <2>1. /\ pc[p] = "parse" /\ UNCHANGED <<looping, call, readbuf, r, todo, err, stack, failedWrites>>
        /\ \/ r[p] = 0 /\ pc' = [pc EXCEPT ![p] = "returned"] /\ UNCHANGED reply
           \/ r[p] = 2 /\ pc' = [pc EXCEPT ![p] = "returned"] /\ reply' = [reply EXCEPT ![p] = NoReply]
           \/ r[p] = 1 /\ pc' = [pc EXCEPT ![p] = "read"] /\ UNCHANGED reply
    BY <1>7 DEF ParsedInCall, CallFails, Goto, driverVars, faultVars
  <2>2. pc'[o] = pc[o] /\ (Waiting(p)' <=> Waiting(p))
    BY <1>0, <2>1 DEF CallTypes, Waiting
  <2>3. Phase(p)'
    BY <1>0, <1>1, <1>w, <2>1, <2>2, PhaseFrame
  <2>4. OwnReply(p)'
    BY <1>0, <1>1, <2>1 DEF OwnReply, CallTypes
  <2> QED BY <1>f, <2>1, <2>2, <2>3, <2>4
<1>8. ~IoctlFails(p)
  BY DEF IoctlFails
<1>9. ~ParseTransaction(p) /\ ~ParsedInLoop(p) /\ ~LoopIoctlFails(p)
  BY <1>0 DEF ParseTransaction, ParsedInLoop, LoopIoctlFails
<1> QED BY <1>2, <1>3, <1>4, <1>5, <1>6, <1>7, <1>8, <1>9 DEF Library

\* What the parent owes an answer to, as the driver sees it: the transactions
\* queued for it and the buffers it holds.  Those of the child's call are there
\* only if the child called it.
Debts == held["parent"] \cup Members(todo["parent"])
Owed ==
    \A c \in Debts :
        /\ c.n <= calls
        /\ c.n = call["child"].n /\ call["child"].n > 0 => call["child"].target = 1

\* The parent exits: whoever waits for it is told.
LEMMA ParentExit ==
    ASSUME Types, AllLocal, Stages, NEW p, p = Caller, p = "child", Phase(p), Owed,
           DriverExit("parent"), pc["parent"] # "parse" \/ readbuf["parent"] = <<>>,
           UNCHANGED <<call, readbuf, r, failedWrites>>, pc'[p] = pc[p]
    PROVE  Phase(p)' /\ stack'["parent"] = stack["parent"] /\ err'["parent"] = err["parent"]
<1> USE ProcsType DEF Types
<1>0. p \in Procs /\ p \in Nodes /\ "parent" \in Procs /\ "parent" \in Nodes
  BY DEF Procs
<1>1. PICK waits : /\ waits \in BOOLEAN
                   /\ waits <=> (stack[p] # 0 /\ \E c \in Debts : c.n = stack[p])
  OBVIOUS
<1>2. /\ todo' = [todo EXCEPT !["parent"] = <<>>]
      /\ err'[p] = IF waits THEN "dead" ELSE err[p]
      /\ stack'[p] = IF waits THEN 0 ELSE stack[p]
      /\ stack'["parent"] = stack["parent"] /\ err'["parent"] = err["parent"]
  BY <1>0, <1>1 DEF DriverExit, Debts, Members
<1>3. readbuf["parent"] = <<>>
  BY <1>0 DEF AllLocal, Local, Reads
<1>4. Free("parent")' /\ (\A b : Has("parent", b) => Single(todo["parent"], b))
  <2>1. Fetched("parent") = <<>> /\ Fetched("parent")' = <<>> /\ todo'["parent"] = <<>>
    BY <1>0, <1>2, <1>3 DEF Fetched, QueueTypes
  <2>2. \A b : ~Single(<<>>, b)
    BY BuffersEmpty, SingleBuffers
  <2> QED BY <2>1, <2>2, BuffersEmpty DEF Free, Has
<1>5. \A x \in Nodes \ {"parent"} : Fetched(x)' = Fetched(x) /\ todo'[x] = todo[x]
  BY <1>2 DEF Fetched, QueueTypes
<1>6. \A x \in Nodes \ {"parent"} : (Free(x) => Free(x)') /\ \A b : Has(x, b) => Has(x, b)'
  BY <1>5 DEF Free, Has
<1>7. Nowhere => Nowhere'
  BY <1>4, <1>6 DEF Nowhere
<1>8. \A x \in Nodes \ {"parent"} : \A b : Only(x, b) => Only(x, b)'
  BY <1>4, <1>6 DEF Only
<1>9. \A b : Only("parent", b) => Nowhere' /\ b \in Debts
  <2> SUFFICES ASSUME NEW b, Only("parent", b) PROVE Nowhere' /\ b \in Debts
    OBVIOUS
  <2>1. Nowhere'
    BY <1>4, <1>6 DEF Only, Nowhere
  <2>2. Single(todo["parent"], b)
    BY <1>4 DEF Only
  <2> QED BY <2>1, <2>2 DEF Debts, Members, Single
<1>10. /\ Waiting(p)' <=> Waiting(p)
       /\ call'[p] = call[p] /\ NoError(readbuf'[p]) <=> NoError(readbuf[p])
  BY DEF Waiting
<1>11. Phase(p)'
  <2>1. CASE ~waits
    <3>1. err'[p] = err[p] /\ stack'[p] = stack[p] /\ (Open(p)' <=> Open(p))
      BY <1>2, <2>1 DEF Open
    <3>2. ASSUME NEW b \in Queued, AskedWith(p, b) PROVE Phase(p)'
      <4>1. Owner(call[p].target) = "svcmgr"
        <5>1. Only(Owner(call[p].target), b) /\ b.n = stack[p]
          BY <3>2 DEF AskedWith
        <5>2. Owner(call[p].target) = "parent" => stack[p] = 0
          BY <1>1, <1>9, <2>1, <5>1
        <5>3. stack[p] # 0
          BY <3>2 DEF AskedWith, CallTypes
        <5> QED BY <5>2, <5>3, OwnerType
      <4>2. AskedWith(p, b)'
        BY <1>8, <1>10, <3>1, <3>2, <4>1 DEF AskedWith, Nodes, Procs
      <4> QED BY <4>2 DEF Phase, Asked
    <3>3. ASSUME NEW b \in Queued, AnsweredWith(p, b) PROVE Phase(p)'
      <4>1. AnsweredWith(p, b)'
        BY <1>0, <1>8, <1>10, <3>1, <3>3 DEF AnsweredWith
      <4> QED BY <4>1 DEF Phase, Answered
    <3> QED BY <1>7, <1>10, <3>1, <3>2, <3>3 DEF Phase, Idle, Asked, Lost, Answered, Refused
  <2>2. CASE waits
    <3>1. stack[p] # 0 /\ stack'[p] = 0 /\ err'[p] = "dead"
      BY <1>1, <1>2, <2>2
    <3>2. ASSUME NEW b \in Queued, AskedWith(p, b) PROVE Nowhere'
      <4>1. Only(Owner(call[p].target), b) /\ stack[p] = call[p].n /\ call[p].n > 0
        BY <3>2 DEF AskedWith
      <4>2. call[p].target = 1
        BY <1>1, <2>2, <4>1 DEF Owed
      <4>3. Owner(call[p].target) = "parent"
        BY <4>2 DEF Owner
      <4> QED BY <1>9, <4>1, <4>3
    <3>3. Nowhere' /\ Waiting(p) /\ NoError(readbuf[p])
      BY <1>7, <3>1, <3>2 DEF Phase, Idle, Asked, AskedWith, Lost, Answered, AnsweredWith, Refused, Open
    <3>4. Refused(p)'
      BY <1>10, <3>1, <3>3 DEF Refused
    <3> QED BY <3>4 DEF Phase
  <2> QED BY <1>1, <2>1, <2>2
<1> QED BY <1>2, <1>11

\* The steps of the parent in binder_loop.
LEMMA OtherStep ==
    ASSUME Types, Types', AllLocal, Stages, Living, NEW p, p = Caller, NEW o, o = Other, Serial(p, o), Owed,
           Library(o)
    PROVE  Serial(p, o)'
<1> USE DEF Types
<1>0. /\ p \in Procs /\ o \in Procs /\ p # o /\ ~looping[p] /\ p \in Nodes /\ o \in Nodes
      /\ Owner(call[p].target) \in Nodes
      /\ p = "parent" => o = "child" /\ pc[o] = "main" /\ ~looping[o]
      /\ p = "child" => o = "parent" /\ pc[o] \in {"read", "parse", "exited"} /\ (looping[o] <=> pc[o] # "exited")
  BY CallerFacts, ProcsType DEF Procs
<1>1. /\ Phase(p) /\ OwnReply(p) /\ stack[o] = 0 /\ Open(o) /\ err[o] = "none" /\ NoError(readbuf[o])
      /\ looping["parent"] /\ pc["parent"] = "parse" => r["parent"] = 1
  BY DEF Serial, Open
<1>2. /\ pc[o] \in {"read", "parse"} /\ p = "child" /\ o = "parent" /\ looping[o]
  <2>1. pc[o] \in {"write", "read", "parse"}
    BY DEF Library, IoctlWrite, IoctlRead, IoctlFails, ParseSkip, ParseReply, ParseError, ParseTransaction,
           Parsing, ParsedInCall, ParsedInLoop, LoopIoctlFails
  <2> QED BY <1>0, <2>1 DEF Procs
<1>3. ~IoctlWrite(o) /\ ~IoctlFails(o) /\ ~ParsedInCall(o)
  BY <1>2 DEF IoctlWrite, IoctlFails, ParsedInCall
<1>o. ASSUME UNCHANGED <<call, reply>>, pc'[p] = pc[p], r'[p] = r[p] PROVE OwnReply(p)'
  BY <1>1, <1>o DEF OwnReply
<1>w. ASSUME pc'[p] = pc[p], r'[p] = r[p] PROVE Waiting(p)' <=> Waiting(p)
  BY <1>w DEF Waiting
<1>4. CASE IoctlRead(o)
  <2>1. /\ pc' = [pc EXCEPT ![o] = "parse"] /\ r' = [r EXCEPT ![o] = 1]
        /\ UNCHANGED <<looping, call, reply, stack, failedWrites>>
    BY <1>4 DEF IoctlRead, Goto, faultVars
  <2>2. err' = err /\ NoError(readbuf'[o]) /\ readbuf'[p] = readbuf[p]
    BY <1>0, <1>1, <1>4, ReadErrors
  <2>3. pc'[p] = pc[p] /\ r'[p] = r[p] /\ r'[o] = 1
    BY <1>0, <2>1 DEF CallTypes
  <2>4. Boxes
    BY <1>0, <1>4, ReadBoxes
  <2>5. Phase(p)'
    BY <1>0, <1>1, <1>w, <2>1, <2>2, <2>3, <2>4, PhaseKept DEF RestTypes
  <2> QED BY <1>1, <1>2, <1>o, <2>1, <2>2, <2>3, <2>5 DEF Serial, Open
<1>5. CASE ParseSkip(o)
  <2>1. Parsing(o, "complete") /\ UNCHANGED <<pc, looping, call, r, reply, todo, err, stack, failedWrites>>
    BY <1>5 DEF ParseSkip, driverVars, faultVars
  <2>2. Boxes
    BY <1>0, <2>1, ParseBoxes
  <2>3. /\ readbuf[o] \in Seq(Command) /\ readbuf[o] # <<>>
        /\ readbuf' = [readbuf EXCEPT ![o] = Tail(readbuf[o])]
    BY <1>0, <2>1, ParsingHead
  <2>4. NoError(readbuf'[o]) /\ readbuf'[p] = readbuf[p]
    BY <1>0, <1>1, <2>3, NoErrorTail DEF CallTypes
  <2>5. Phase(p)'
    BY <1>0, <1>1, <1>w, <2>1, <2>2, <2>4, PhaseKept DEF RestTypes
  <2> QED BY <1>1, <1>2, <1>o, <2>1, <2>4, <2>5 DEF Serial, Open
<1>6. ~ParseReply(o)
  <2> SUFFICES ASSUME ParseReply(o) PROVE FALSE
    OBVIOUS
  <2>1. Parsing(o, "reply")
    BY DEF ParseReply
  <2>2. Head(readbuf[o]).cmd = "reply"
    BY <1>0, <2>1, ParsingHead
  <2>3. ~Nowhere
    BY <1>0, <2>1, TakeBox
  <2>4. ASSUME NEW q \in Nodes, NEW b, Only(q, b) PROVE q = o /\ b = Head(readbuf[o])
    BY <1>0, <2>1, <2>4, TakeBox
  <2>5. ASSUME NEW b \in Queued, AskedWith(p, b) PROVE FALSE
    BY <1>0, <2>2, <2>4, <2>5 DEF AskedWith
  <2>6. ASSUME NEW b \in Queued, AnsweredWith(p, b) PROVE FALSE
    BY <1>0, <2>4, <2>6 DEF AnsweredWith
  <2> QED BY <1>1, <2>3, <2>5, <2>6 DEF Phase, Idle, Asked, Lost, Answered, Refused
<1>7. ~ParseError(o)
  <2> SUFFICES ASSUME NEW c \in {"failed", "dead"}, Parsing(o, c) PROVE FALSE
    BY DEF ParseError
  <2>1. readbuf[o] \in Seq(Command) /\ readbuf[o] # <<>> /\ Head(readbuf[o]).cmd = c
    BY <1>0, ParsingHead
  <2> QED BY <1>1, <2>1, NoErrorTail DEF IsError
<1>8. CASE ParseTransaction(o)
  <2>1. /\ Parsing(o, "txn") /\ binder_send_reply(o, Head(readbuf[o]), "data")
        /\ UNCHANGED <<pc, looping, call, r, reply, alive>>
    BY <1>8 DEF ParseTransaction
  <2>2. /\ readbuf[o] \in Seq(Command) /\ readbuf[o] # <<>> /\ Head(readbuf[o]).cmd = "txn"
        /\ readbuf' = [readbuf EXCEPT ![o] = Tail(readbuf[o])]
    BY <1>0, <2>1, ParsingHead
  <2>3. NoError(readbuf'[o]) /\ readbuf'[p] = readbuf[p]
    BY <1>0, <1>1, <2>2, NoErrorTail DEF CallTypes
  <2>4. ~Nowhere
    BY <1>0, <2>1, TakeBox
  <2>5. ASSUME NEW q \in Nodes, NEW b, Only(q, b)
        PROVE  /\ q = o /\ b = Head(readbuf[o])
               /\ Quiet(todo) /\ Emptied'
    <3>1. /\ q = o /\ b = Head(readbuf[o]) /\ Buffers(Fetched(o)') = {}
          /\ \A x \in Nodes : Buffers(todo[x]) = {}
          /\ \A x \in Nodes \ {o} : Buffers(Fetched(x)') = {}
      BY <1>0, <2>1, <2>5, TakeBox
    <3> QED BY <3>1 DEF Quiet, Emptied
  <2>6. PICK b \in Queued : AskedWith(p, b)
    <3>1. ASSUME NEW b \in Queued, AnsweredWith(p, b) PROVE FALSE
      BY <1>0, <2>5, <3>1 DEF AnsweredWith
    <3> QED BY <1>1, <2>4, <3>1 DEF Phase, Idle, Asked, Lost, Answered, Refused
  <2>7. /\ Owner(call[p].target) = o /\ b = Head(readbuf[o]) /\ b.n = call[p].n /\ b.peer = p
        /\ stack[p] = call[p].n /\ err[p] = "none" /\ NoError(readbuf[p]) /\ Waiting(p) /\ Waiting(p)'
    BY <1>0, <1>w, <2>1, <2>5, <2>6 DEF AskedWith, Open
  <2>8. Quiet(todo) /\ Emptied'
    BY <1>0, <2>5, <2>6 DEF AskedWith
  <2>9. CASE DriverReply(todo, o, Head(readbuf[o]), "data")
    <3>1. alive[p] /\ todo \in [Nodes -> Seq(Queued)] /\ "data" \in Args
      BY <1>0, <2>7 DEF Living, Waiting, QueueTypes, Args
    <3>2. NoError(readbuf'[p]) /\ call'[p] = call[p]
      BY <2>1, <2>3, <2>7
    <3>3. /\ err'[o] = err[o] /\ stack'[o] = stack[o]
          /\ AnsweredWith(p, Cmd("reply", call[p].n, o, "data"))' \/ Refused(p)'
      <4>1. PICK q \in [Nodes -> Seq(Queued)] : q = todo
        BY <3>1
      <4>2. Types /\ DriverReply(q, o, b, "data") /\ o = Owner(call[p].target) /\ Waiting(p)'
        BY <2>7, <2>9, <4>1
      <4>3. Quiet(q) /\ Emptied' /\ p \in Procs /\ o \in Procs \ {p}
        BY <1>0, <2>8, <4>1
      <4>4. PICK a \in Args : a = "data"
        BY <3>1
      <4>5. /\ b.n = call[p].n /\ b.peer = p /\ err[p] = "none" /\ alive[p] /\ DriverReply(q, o, b, a)
            /\ NoError(readbuf'[p]) /\ call'[p] = call[p]
        BY <2>7, <3>1, <3>2, <4>2, <4>4
      <4> HIDE DEF Types
      <4>6. /\ err'[o] = err[o] /\ stack'[o] = stack[o]
            /\ AnsweredWith(p, Cmd("reply", call[p].n, o, a))' \/ Refused(p)'
        BY ONLY <4>1, <4>2, <4>3, <4>4, <4>5, ReplyPhase
      <4> QED BY <4>4, <4>6
    <3>4. Cmd("reply", call[p].n, o, "data") \in Queued /\ call' = call
      BY <1>0, <2>1, <3>1, CmdType DEF CallTypes
    <3>5. Phase(p)'
      BY <3>3, <3>4 DEF Phase, Answered
    <3> QED BY <1>1, <1>2, <1>o, <2>1, <2>3, <3>3, <3>5 DEF Serial, Open
  <2>10. CASE failedWrites' = failedWrites + 1 /\ UNCHANGED <<todo, err, stack>>
    <3>1. Nowhere'
      BY <2>8, <2>10 DEF Nowhere, Free, Quiet, Emptied
    <3>2. failedWrites' > 0
      BY <2>10 DEF RestTypes
    <3>3. Lost(p)'
      BY <2>1, <2>3, <2>7, <2>10, <3>1, <3>2 DEF Lost, Open
    <3> QED BY <1>1, <1>2, <1>o, <2>1, <2>3, <2>10, <3>3 DEF Serial, Open, Phase
  <2> QED BY <2>1, <2>9, <2>10 DEF binder_send_reply, binder_write
<1>9. CASE ParsedInLoop(o)
  <2>1. /\ r[o] = 1 /\ pc' = [pc EXCEPT ![o] = "read"]
        /\ UNCHANGED <<looping, call, readbuf, r, reply, todo, err, stack, failedWrites>>
    BY <1>1, <1>2, <1>9 DEF ParsedInLoop, Goto, driverVars, faultVars
  <2>2. pc'[p] = pc[p] /\ pc'[o] = "read"
    BY <1>0, <2>1 DEF CallTypes
  <2>3. Phase(p)'
    BY <1>0, <1>1, <1>w, <2>1, <2>2, PhaseFrame DEF RestTypes
  <2> QED BY <1>1, <1>2, <1>o, <2>1, <2>2, <2>3 DEF Serial, Open
<1>10. CASE LoopIoctlFails(o)
  <2>1. /\ pc[o] = "read" /\ pc' = [pc EXCEPT ![o] = "exited"] /\ looping' = [looping EXCEPT ![o] = FALSE]
        /\ DriverExit(o) /\ UNCHANGED <<call, readbuf, r, reply, failedWrites>>
    BY <1>10 DEF LoopIoctlFails, LoopEnds, Goto
  <2>2. pc'[p] = pc[p] /\ pc'[o] = "exited" /\ r'[p] = r[p]
    BY <1>0, <2>1 DEF CallTypes
  <2>3. Phase(p)' /\ stack'[o] = stack[o] /\ err'[o] = err[o]
    BY <1>1, <1>2, <2>1, <2>2, ParentExit
  <2>4. OwnReply(p)'
    BY <1>o, <2>1, <2>2
  <2> QED BY <1>1, <1>2, <2>1, <2>2, <2>3, <2>4 DEF Serial, Open
<1> QED BY <1>3, <1>4, <1>5, <1>6, <1>7, <1>8, <1>9, <1>10 DEF Library

\* The service manager answers the caller.
LEMMA ServesCaller ==
    ASSUME Types, Types', Stages, Past, ServiceQueue, NEW p, p = Caller, Phase(p), SvcMgrServes
    PROVE  \E t \in Queued, q \in [Nodes -> Seq(Queued)], a \in {"data", "status", "ref"} :
              /\ t = Head(todo["svcmgr"]) /\ q = [todo EXCEPT !["svcmgr"] = Tail(@)]
              /\ DriverReply(q, "svcmgr", t, a) /\ AskedWith(p, t) /\ Owner(call[p].target) = "svcmgr"
              /\ Quiet(q) /\ Emptied'
<1> USE DEF Types
<1>0. p \in Procs /\ p \in Nodes /\ p # "svcmgr" /\ Owner(call[p].target) \in Nodes /\ "svcmgr" \in Nodes
      /\ "svcmgr" \notin Procs
  BY CallerFacts DEF Nodes, Procs
<1>1. PICK t \in Queued, q \in [Nodes -> Seq(Queued)], a \in {"data", "status", "ref"} :
              /\ t = Head(todo["svcmgr"]) /\ q = [todo EXCEPT !["svcmgr"] = Tail(@)]
              /\ DriverReply(q, "svcmgr", t, a)
              /\ todo["svcmgr"] # <<>> /\ todo["svcmgr"] \in Seq(Queued)
              /\ t.cmd = "txn" /\ t \in Buffers(todo["svcmgr"])
  BY ServesHead
<1>2. ~Nowhere
  BY <1>0, <1>1 DEF Nowhere, Free
<1>3. ASSUME NEW x \in Nodes, NEW b, Only(x, b)
      PROVE  x = "svcmgr" /\ b = t /\ Buffers(Tail(todo["svcmgr"])) = {}
  <2>1. x = "svcmgr"
    BY <1>0, <1>1, <1>3 DEF Only, Free
  <2>2. Single(todo["svcmgr"], b)
    BY <1>1, <1>3, <2>1 DEF Only, Has
  <2>3. Buffers(todo["svcmgr"]) = {b}
    BY <2>2, SingleBuffers
  <2>4. t = b /\ IsBuffer(t)
    BY <1>1, <2>3 DEF IsBuffer
  <2>5. Buffers(Tail(todo["svcmgr"])) = {}
    BY <1>1, <2>2, <2>4, QueuedSeq, SingleTail
  <2> QED BY <2>1, <2>4, <2>5
<1>4. AskedWith(p, t) /\ Owner(call[p].target) = "svcmgr" /\ Buffers(Tail(todo["svcmgr"])) = {}
  <2>1. ASSUME NEW b \in Queued, AnsweredWith(p, b) PROVE FALSE
    BY <1>0, <1>3, <2>1 DEF AnsweredWith
  <2>2. PICK b \in Queued : AskedWith(p, b)
    BY <1>2, <2>1 DEF Phase, Idle, Asked, Lost, Answered, Refused
  <2>3. Only(Owner(call[p].target), b)
    BY <2>2 DEF AskedWith
  <2>4. b = t /\ Owner(call[p].target) = "svcmgr" /\ Buffers(Tail(todo["svcmgr"])) = {}
    BY <1>0, <1>3, <2>3
  <2> QED BY <2>2, <2>4
<1>5. Quiet(q) /\ Emptied'
  <2>1. Only("svcmgr", t)
    BY <1>4 DEF AskedWith
  <2>2. \A x \in Nodes \ {"svcmgr"} : Free(x) /\ q[x] = todo[x]
    BY <1>1, <2>1 DEF Only, QueueTypes
  <2>3. q["svcmgr"] = Tail(todo["svcmgr"])
    BY <1>0, <1>1 DEF QueueTypes
  <2>4. \A x \in Nodes : Fetched(x)' = Fetched(x)
    BY DEF SvcMgrServes, callVars, Fetched
  <2>5. Buffers(Fetched("svcmgr")) = {}
    BY <1>0, BuffersEmpty DEF Fetched
  <2>6. \A x \in Nodes : Buffers(q[x]) = {} /\ Buffers(Fetched(x)) = {}
    BY <1>4, <2>2, <2>3, <2>5 DEF Free
  <2> QED BY <2>4, <2>6 DEF Quiet, Emptied
<1> QED BY <1>1, <1>4, <1>5

LEMMA ServesStep ==
    ASSUME Types, Types', Stages, Past, ServiceQueue, Living, NEW p, p = Caller, NEW o, o = Other, Serial(p, o),
           SvcMgrServes
    PROVE  Serial(p, o)'
<1> USE DEF Types
<1>0. p \in Procs /\ o \in Procs /\ p # o /\ p \in Nodes /\ "svcmgr" \in Nodes
  BY CallerFacts, ProcsType DEF Nodes
<1>1. PICK t \in Queued, q \in [Nodes -> Seq(Queued)], a \in {"data", "status", "ref"} :
              /\ DriverReply(q, "svcmgr", t, a) /\ AskedWith(p, t) /\ Owner(call[p].target) = "svcmgr"
              /\ Quiet(q) /\ Emptied'
  <2>1. Phase(p) /\ Types /\ Types'
    BY DEF Serial
  <2> HIDE DEF Types
  <2> QED BY <2>1, ServesCaller
<1>2. UNCHANGED <<pc, looping, call, readbuf, r, reply>>
  BY DEF SvcMgrServes, callVars
<1>3. /\ t.n = call[p].n /\ t.peer = p /\ err[p] = "none" /\ NoError(readbuf'[p]) /\ Waiting(p)' /\ call'[p] = call[p]
      /\ alive[p] /\ a \in Args
  BY <1>0, <1>1, <1>2 DEF AskedWith, Open, Waiting, Living, Args
<1>4. /\ err'[o] = err[o] /\ stack'[o] = stack[o]
      /\ AnsweredWith(p, Cmd("reply", call[p].n, "svcmgr", a))' \/ Refused(p)'
  <2>1. Types /\ "svcmgr" = Owner(call[p].target) /\ Waiting(p)'
    BY <1>1, <1>3
  <2> HIDE DEF Types
  <2> QED BY ONLY <1>0, <1>1, <1>3, <2>1, ReplyPhase
<1>5. Cmd("reply", call[p].n, "svcmgr", a) \in Queued
  BY <1>0, <1>3, CmdType DEF CallTypes
<1>6. Phase(p)'
  BY <1>2, <1>4, <1>5 DEF Phase, Answered
<1> QED BY <1>2, <1>4, <1>6 DEF Serial, Open, OwnReply

\* The steps of main that leave the driver's queues alone.
LEMMA MainSerial ==
    ASSUME Types, Types', NEW p \in Procs, NEW o \in Procs, p # o, p = "parent" => ~looping[p], Serial(p, o),
           pc[p] \in {"main", "returned"}, pc'[p] \in {"main", "write", "returned"}, pc'[o] = pc[o],
           UNCHANGED <<todo, err, stack, readbuf, r, looping>>,
           pc'[p] = "returned" => reply'[p] = reply[p] /\ call'[p] = call[p] /\ pc[p] = "returned"
    PROVE  Serial(p, o)'
<1>1. Idle(p)
  BY PhaseIdle DEF Serial, Waiting
<1>2. Phase(p)'
  BY <1>1, IdleKept DEF Waiting
<1>3. OwnReply(p)'
  BY DEF Serial, OwnReply
<1>4. p = "parent" \/ o = "parent"
  BY DEF Procs
<1> QED BY <1>2, <1>3, <1>4 DEF Serial, Open

LEMMA MainExit ==
    ASSUME Types, NEW p \in Procs, NEW o \in Procs, p # o, p = "parent" => ~looping[p], Serial(p, o),
           pc[p] \in {"main", "returned"}, Exits(p)
    PROVE  Serial(p, o)'
<1> USE DEF Types
<1>1. Idle(p)
  BY PhaseIdle DEF Serial, Waiting
<1>2. /\ pc' = [pc EXCEPT ![p] = "exited"] /\ DriverExit(p) /\ UNCHANGED <<looping, readbuf, r>>
  BY DEF Exits, Goto
<1>3. stack[o] = 0
  BY DEF Serial
<1>4. /\ todo' = [todo EXCEPT ![p] = <<>>]
      /\ err'[p] = err[p] /\ stack'[p] = stack[p] /\ err'[o] = err[o] /\ stack'[o] = stack[o]
  BY <1>2, <1>3 DEF DriverExit
<1>5. pc'[p] = "exited" /\ pc'[o] = pc[o]
  BY <1>2 DEF CallTypes
<1>6. Nowhere'
  <2>1. \A x \in Nodes : Buffers(todo'[x]) = {} /\ Fetched(x)' = Fetched(x) /\ Buffers(Fetched(x)) = {}
    BY <1>1, <1>2, <1>4, BuffersEmpty DEF Idle, Nowhere, Free, QueueTypes, Fetched
  <2> QED BY <2>1 DEF Nowhere, Free
<1>7. Phase(p)'
  BY <1>1, <1>2, <1>4, <1>5, <1>6 DEF Phase, Idle, Open, Waiting
<1>8. OwnReply(p)' /\ (p = "parent" \/ o = "parent")
  BY <1>5 DEF OwnReply, Procs
<1> QED BY <1>2, <1>4, <1>5, <1>7, <1>8 DEF Serial, Open

LEMMA ParentSerial ==
    ASSUME Types, Types', Stages, at["child"] = "unborn", Serial("parent", "child"), svcmgr_publish \/ Published
    PROVE  Serial("parent", "child")'
<1> USE ProcsType DEF Types
<1>0. ~looping["parent"] /\ "parent" # "child"
  BY DEF Stages
<1>1. CASE svcmgr_publish
  <2>1. /\ pc["parent"] = "main" /\ pc' = [pc EXCEPT !["parent"] = "write"]
        /\ UNCHANGED <<todo, err, stack, readbuf, r, looping>>
    BY <1>1 DEF svcmgr_publish, At, BeginCall, Goto, driverVars
  <2>2. pc'["parent"] = "write" /\ pc'["child"] = pc["child"]
    BY <2>1 DEF CallTypes
  <2> QED BY <1>0, <2>1, <2>2, MainSerial
<1>2. CASE Published /\ ~Exits("parent")
  <2>1. /\ pc["parent"] = "returned" /\ pc' = [pc EXCEPT !["parent"] = "main"]
        /\ UNCHANGED <<todo, err, stack, readbuf, r, looping>>
    BY <1>2 DEF Published, Returned, Goto
  <2>2. pc'["parent"] = "main" /\ pc'["child"] = pc["child"]
    BY <2>1 DEF CallTypes
  <2> QED BY <1>0, <2>1, <2>2, MainSerial
<1>3. CASE Published /\ Exits("parent")
  <2>1. pc["parent"] = "returned"
    BY <1>3 DEF Published, Returned
  <2> QED BY <1>0, <1>3, <2>1, MainExit
<1> QED BY <1>1, <1>2, <1>3

LEMMA ForkSerial ==
    ASSUME Types, Types', Stages, at["child"] = "unborn", Serial("parent", "child"), Fork
    PROVE  Serial("child", "parent")'
<1> USE ProcsType DEF Types
<1>1. /\ pc["parent"] = "main" /\ pc' = [pc EXCEPT !["parent"] = "read"] /\ pc["child"] = "main"
      /\ UNCHANGED <<todo, err, stack, readbuf, r>>
  BY DEF Fork, At, Goto, driverVars, Stages
<1>2. pc'["child"] = "main" /\ pc'["parent"] = "read"
  BY <1>1 DEF CallTypes
<1>3. Idle("parent") /\ stack["child"] = 0 /\ Open("child")
  BY <1>1, PhaseIdle DEF Serial, Waiting
<1>4. Idle("child")
  BY <1>1, <1>3 DEF Idle, Waiting
<1>5. Phase("child")'
  BY <1>1, <1>2, <1>4, IdleKept DEF Waiting
<1> QED BY <1>1, <1>2, <1>3, <1>5 DEF Serial, OwnReply, Open, Idle

LEMMA ChildSerial ==
    ASSUME Types, Types', Stages, at["child"] # "unborn", Serial("child", "parent"), Child
    PROVE  Serial("child", "parent")'
<1> USE ProcsType DEF Types
<1>0. "child" # "parent"
  OBVIOUS
<1>m. ASSUME pc["child"] \in {"main", "returned"}, UNCHANGED <<todo, err, stack, readbuf, r, looping>>,
             pc'["child"] \in {"main", "write"}, pc'["parent"] = pc["parent"]
      PROVE  Serial("child", "parent")'
  BY <1>0, <1>m, MainSerial
<1>e. ASSUME pc["child"] \in {"main", "returned"}, Exits("child") PROVE Serial("child", "parent")'
  BY <1>0, <1>e, MainExit
<1>g. ASSUME NEW l, Goto("child", l) PROVE pc'["child"] = l /\ pc'["parent"] = pc["parent"]
  BY <1>g DEF Goto, CallTypes
<1>n. ASSUME pc["child"] \in {"main", "returned"}, NextRound("child") PROVE Serial("child", "parent")'
  <2>1. CASE Exits("child")
    BY <1>n, <1>e, <2>1
  <2>2. CASE ~Exits("child")
    BY <1>n, <1>g, <1>m, <2>2 DEF NextRound, driverVars
  <2> QED BY <2>1, <2>2
<1>1. CASE svcmgr_lookup \/ Ping
  BY <1>1, <1>g, <1>m DEF svcmgr_lookup, Ping, At, BeginCall, driverVars
<1>2. CASE StartRound \/ PingAnswered
  BY <1>2, <1>g, <1>m DEF StartRound, PingAnswered, Returned
<1>3. CASE Reopen
  BY <1>3, <1>e, <1>m DEF Reopen, At, callVars, driverVars
<1>4. CASE PingFailed \/ Report
  BY <1>4, <1>n DEF PingFailed, Report, Returned, At
<1>5. CASE LookedUp
  <2>1. pc["child"] = "returned" /\ UNCHANGED <<pc, looping, call, readbuf, r, reply, todo, err, stack>>
    BY <1>5 DEF LookedUp, Returned, callVars
  <2> QED BY <1>0, <2>1, MainSerial
<1> QED BY <1>1, <1>2, <1>3, <1>4, <1>5 DEF Child

\* The transaction that the parent parses is the one of the caller.
LEMMA ParsesCaller ==
    ASSUME Types, Stages, NEW p, p = Caller, Phase(p), NEW q \in Procs, Parsing(q, "txn")
    PROVE  AskedWith(p, Head(readbuf[q])) /\ Owner(call[p].target) = q
<1>1. p \in Procs /\ p \in Nodes /\ Owner(call[p].target) \in Nodes
  BY CallerFacts, ProcsType
<1>2. PICK t : t = Head(readbuf[q])
  OBVIOUS
<1>3. t.cmd = "txn"
  BY <1>2, ParsingHead DEF Types
<1>4. ~Nowhere
  BY TakeBox
<1>5. ASSUME NEW x \in Nodes, NEW b, Only(x, b) PROVE x = q /\ b = t
  BY <1>2, <1>5, TakeBox
<1>6. ASSUME NEW b \in Queued, AnsweredWith(p, b) PROVE FALSE
  BY <1>1, <1>3, <1>5, <1>6 DEF AnsweredWith
<1>7. PICK b \in Queued : AskedWith(p, b)
  BY <1>4, <1>6 DEF Phase, Idle, Asked, Lost, Answered, Refused
<1> QED BY <1>1, <1>2, <1>5, <1>7 DEF AskedWith

LEMMA OwedLess ==
    ASSUME Types, Types', Owed, Debts' \subseteq Debts, call'["child"] = call["child"], calls' >= calls
    PROVE  Owed'
<1>1. \A c \in Debts : c.n \in Nat
  <2>1. \A s \in Seq(Queued) : Members(s) \subseteq Queued
    BY ElementOfSeq DEF Members
  <2>2. Debts \subseteq Queued
    BY <2>1, ProcsType DEF Debts, Types, QueueTypes, HeldTypes
  <2> QED BY <2>2 DEF Queued
<1>2. calls \in Nat /\ calls' \in Nat
  BY DEF Types, CallTypes
<1> QED BY <1>1, <1>2 DEF Owed

LEMMA OwedMore ==
    ASSUME Types, Types', Owed, NEW d, Debts' \subseteq Debts \cup {d}, UNCHANGED <<call, calls>>,
           d.n <= calls, d.n = call["child"].n /\ call["child"].n > 0 => call["child"].target = 1
    PROVE  Owed'
  BY DEF Owed

\* A new call of the child has a number that nothing the parent owes can have.
LEMMA OwedBegin ==
    ASSUME Types, Types', Owed, NEW p \in Procs, NEW t, NEW c, BeginCall(p, t, c), UNCHANGED driverVars
    PROVE  Owed'
<1>1. /\ Debts' = Debts /\ calls' = calls + 1 /\ calls \in Nat
      /\ \/ call'["child"] = call["child"]
         \/ call'["child"].n = calls + 1
  BY ProcsType DEF BeginCall, driverVars, Debts, Types, CallTypes, Procs
<1>2. CASE call'["child"] = call["child"]
  BY <1>1, <1>2, OwedLess
<1>3. CASE call'["child"].n = calls + 1
  <2>1. \A x \in Debts : x.n \in Nat
    <3>1. \A s \in Seq(Queued) : Members(s) \subseteq Queued
      BY ElementOfSeq DEF Members
    <3>2. Debts \subseteq Queued
      BY <3>1, ProcsType DEF Debts, Types, QueueTypes, HeldTypes
    <3> QED BY <3>2 DEF Queued
  <2> QED BY <1>1, <1>3, <2>1 DEF Owed
<1> QED BY <1>1, <1>2, <1>3

LEMMA ExitDebts ==
    ASSUME Types, NEW p \in Procs, DriverExit(p)
    PROVE  Debts' \subseteq Debts
<1>1. /\ held'["parent"] = held["parent"] \/ held'["parent"] = {}
      /\ todo'["parent"] = todo["parent"] \/ todo'["parent"] = <<>>
  BY ProcsType DEF DriverExit, Types, QueueTypes, HeldTypes
<1>2. Members(<<>>) = {}
  BY DEF Members
<1> QED BY <1>1, <1>2 DEF Debts

LEMMA OwedStep ==
    ASSUME Types, Types', Stages, Past, ServiceQueue, NEW p, p = Caller, Phase(p), Owed, [Next]_vars
    PROVE  Owed'
<1> USE ProcsType DEF Types
<1>0. calls \in Nat
  BY DEF CallTypes
<1>s. ASSUME held'["parent"] \subseteq held["parent"], todo'["parent"] = todo["parent"], UNCHANGED <<call, calls>>
      PROVE  Owed'
  <2>1. Debts' \subseteq Debts
    BY <1>s DEF Debts
  <2> QED BY <1>0, <1>s, <2>1, OwedLess
<1>e. ASSUME NEW q \in Procs, DriverExit(q), UNCHANGED <<call, calls>> PROVE Owed'
  BY <1>0, <1>e, ExitDebts, OwedLess
<1>d. ASSUME NEW q \in Procs, binder_done(q), UNCHANGED <<call, calls, todo>> PROVE Owed'
  <2>1. held'["parent"] \subseteq held["parent"]
    BY <1>d, DoneEffect DEF HeldTypes, RestTypes
  <2> QED BY <1>d, <1>s, <2>1
<1>1. CASE svcmgr_publish \/ svcmgr_lookup \/ Ping
  BY <1>1, OwedBegin DEF svcmgr_publish, svcmgr_lookup, Ping
<1>2. CASE Published
  BY <1>2, <1>d, <1>e DEF Published, Exits
<1>3. CASE Fork \/ LookedUp
  BY <1>3, <1>s DEF Fork, LookedUp, driverVars, callVars
<1>4. CASE StartRound \/ PingAnswered
  BY <1>4, <1>d DEF StartRound, PingAnswered
<1>5. CASE Reopen
  BY <1>5, <1>e, <1>s DEF Reopen, Exits, callVars, driverVars
<1>6. CASE PingFailed \/ Report
  BY <1>6, <1>e, <1>s DEF PingFailed, Report, NextRound, Exits, driverVars
<1>7. ASSUME NEW q \in Procs, IoctlWrite(q) PROVE Owed'
  <2>1. /\ pc[q] = "write" /\ DriverTransaction(q, call[q]) /\ UNCHANGED <<call, calls, held>> /\ q \in Nodes
    BY <1>7 DEF IoctlWrite
  <2>2. PICK to \in Nodes : to = Owner(call[q].target) /\ to # q
    BY OwnerElsewhere
  <2>3. PICK b, c : b = Cmd("txn", call[q].n, q, call[q].code) /\ c = Cmd("complete", call[q].n, q, "none")
    OBVIOUS
  <2>4. b \in Queued /\ c \in Queued /\ b.n = call[q].n /\ c.n = call[q].n
    <3>1. call[q].n \in Nat /\ call[q].code \in Args /\ "none" \in Args
      BY DEF CallTypes, Args
    <3> QED BY <2>1, <2>3, <3>1, CmdType
  <2>5. \/ todo'["parent"] = todo["parent"]
        \/ q = "parent" /\ todo'["parent"] = Append(todo["parent"], c)
        \/ q = "child" /\ to = "parent" /\ todo'["parent"] = Append(todo["parent"], b)
    BY <2>1, <2>2, <2>3, TransactionEffect DEF Procs
  <2>6. call[q].n <= calls
    BY DEF Past
  <2>7. ASSUME NEW d \in Queued, d.n = call[q].n, todo'["parent"] = Append(todo["parent"], d),
               d.n = call["child"].n /\ call["child"].n > 0 => call["child"].target = 1
        PROVE  Owed'
    <3>1. Debts' \subseteq Debts \cup {d}
      BY <2>1, <2>7, MembersAppend DEF Debts, QueueTypes
    <3> QED BY <2>1, <2>6, <2>7, <3>1, OwedMore
  <2>8. CASE todo'["parent"] = todo["parent"]
    BY <1>s, <2>1, <2>8
  <2>9. CASE q = "parent" /\ todo'["parent"] = Append(todo["parent"], c)
    <3>1. call["child"].n = 0
      BY <2>1, <2>9 DEF Stages
    <3> QED BY <2>4, <2>7, <2>9, <3>1
  <2>10. CASE q = "child" /\ to = "parent" /\ todo'["parent"] = Append(todo["parent"], b)
    <3>1. call["child"].target = 1
      BY <2>2, <2>10 DEF Owner, CallTypes, Targets
    <3> QED BY <2>4, <2>7, <2>10, <3>1
  <2> QED BY <2>5, <2>8, <2>9, <2>10
<1>8. ASSUME NEW q \in Procs, IoctlRead(q) PROVE Owed'
  <2>1. DriverRead(q) /\ UNCHANGED <<call, calls>>
    BY <1>8 DEF IoctlRead
  <2>2. PICK s, k : s = todo[q] /\ k = Delivered(s)
    OBVIOUS
  <2>3. \/ UNCHANGED <<todo, held>>
        \/ /\ s # <<>> /\ s \in Seq(Queued)
           /\ todo' = [todo EXCEPT ![q] = SubSeq(s, k + 1, Len(s))]
           /\ held' = [held EXCEPT ![q] = @ \cup {b \in {s[k]} : IsBuffer(b)}]
    BY <2>1, <2>2 DEF DriverRead, QueueTypes
  <2>4. CASE s # <<>> /\ s \in Seq(Queued)
    <3>1. s[k] \in Members(s) /\ Members(SubSeq(s, k + 1, Len(s))) \subseteq Members(s)
      BY <2>2, <2>4, MembersSplit
    <3>2. \/ held'["parent"] = held["parent"] /\ todo'["parent"] = todo["parent"]
          \/ /\ q = "parent" /\ todo'["parent"] = SubSeq(s, k + 1, Len(s))
             /\ held'["parent"] \subseteq held["parent"] \cup {s[k]}
      BY <2>3 DEF QueueTypes, HeldTypes
    <3>3. Debts' \subseteq Debts
      BY <2>2, <3>1, <3>2 DEF Debts
    <3> QED BY <1>0, <2>1, <3>3, OwedLess
  <2> QED BY <1>s, <2>1, <2>3, <2>4
<1>9. ASSUME NEW q \in Procs, ParsedInLoop(q) \/ LoopIoctlFails(q) PROVE Owed'
  BY <1>9, <1>e, <1>s DEF ParsedInLoop, LoopIoctlFails, LoopEnds, driverVars
<1>10. ASSUME NEW q \in Procs, IoctlFails(q) \/ ParseSkip(q) \/ ParseReply(q) \/ ParseError(q) \/ ParsedInCall(q)
      PROVE  Owed'
  BY <1>10, <1>s DEF IoctlFails, ParseSkip, ParseReply, ParseError, ParsedInCall, driverVars
<1>r. ASSUME NEW q \in [Nodes -> Seq(Queued)], NEW from \in Nodes, NEW t \in Queued, NEW a \in Args,
             DriverReply(q, from, t, a), q["parent"] = todo["parent"], held'["parent"] \subseteq held["parent"],
             UNCHANGED <<call, calls>>, t.peer = p, t.n = call[p].n
      PROVE  Owed'
  <2>1. PICK b : b = Cmd("reply", t.n, from, a)
    OBVIOUS
  <2>2. b \in Queued /\ b.n = call[p].n /\ p \in Procs
    <3>1. t.n \in Nat
      BY DEF Queued
    <3> QED BY <1>r, <2>1, <3>1, CmdType, CallerFacts
  <2>3. todo' = q \/ todo' = [q EXCEPT ![p] = Append(q[p], b)]
    BY <1>r, <2>1 DEF DriverReply
  <2>4. \/ todo'["parent"] = todo["parent"]
        \/ p = "parent" /\ todo'["parent"] = Append(todo["parent"], b)
    BY <1>r, <2>2, <2>3 DEF QueueTypes
  <2>5. CASE p = "parent" /\ todo'["parent"] = Append(todo["parent"], b)
    <3>1. call["child"].n = 0 /\ call["parent"].n <= calls
      BY <2>5, CallerFacts DEF Past
    <3>2. Debts' \subseteq Debts \cup {b}
      BY <1>r, <2>2, <2>5, MembersAppend DEF Debts, QueueTypes
    <3> QED BY <1>r, <2>2, <2>5, <3>1, <3>2, OwedMore
  <2> QED BY <1>r, <1>s, <2>4, <2>5
<1>11. ASSUME NEW q \in Procs, ParseTransaction(q) PROVE Owed'
  <2>1. /\ Parsing(q, "txn") /\ binder_send_reply(q, Head(readbuf[q]), "data") /\ UNCHANGED <<call, calls>>
        /\ looping[q]
    BY <1>11 DEF ParseTransaction
  <2>2. q = "parent"
    BY <2>1 DEF Stages, Procs
  <2>3. PICK t : t = Head(readbuf[q])
    OBVIOUS
  <2>4. t \in Queued /\ todo \in [Nodes -> Seq(Queued)] /\ q \in Nodes /\ "data" \in Args /\ t.cmd = "txn"
    BY <2>1, <2>3, ParsingHead, TxnIsQueued DEF IsBuffer, QueueTypes, Args
  <2>5. held'["parent"] \subseteq held["parent"]
    BY <2>1 DEF binder_send_reply, binder_write, HeldTypes
  <2>6. UNCHANGED todo \/ DriverReply(todo, q, t, "data")
    BY <2>1, <2>3 DEF binder_send_reply, binder_write
  <2>7. t.peer = p /\ t.n = call[p].n
    BY <2>1, <2>3, ParsesCaller DEF AskedWith
  <2> QED BY <1>r, <1>s, <2>1, <2>4, <2>5, <2>6, <2>7
<1>12. CASE SvcMgrServes
  <2>1. PICK t \in Queued, q \in [Nodes -> Seq(Queued)], a \in {"data", "status", "ref"} :
              /\ q = [todo EXCEPT !["svcmgr"] = Tail(@)]
              /\ DriverReply(q, "svcmgr", t, a) /\ AskedWith(p, t)
    <3> HIDE DEF Types
    <3> QED BY <1>12, ServesCaller
  <2>2. UNCHANGED <<call, calls, held>>
    BY <1>12 DEF SvcMgrServes, callVars
  <2>3. q["parent"] = todo["parent"] /\ t.peer = p /\ t.n = call[p].n /\ a \in Args /\ "svcmgr" \in Nodes
    BY <2>1 DEF AskedWith, Args, Nodes, QueueTypes
  <2> QED BY <1>r, <2>1, <2>2, <2>3
<1>13. CASE SvcMgrForgets \/ UNCHANGED vars
  BY <1>13, <1>s DEF SvcMgrForgets, vars, libVars, driverVars, callVars
<1> QED BY <1>1, <1>2, <1>3, <1>4, <1>5, <1>6, <1>7, <1>8, <1>9, <1>10, <1>11, <1>12, <1>13
        DEF Next, Parent, Child, Library, Kernel

-----------------------------------------------------------------------------
(* A reply is the one to the caller's own transaction *)

SerialInv ==
    interrupts = 0 =>
        /\ Owed
        /\ at["child"] = "unborn" => Serial("parent", "child")
        /\ at["child"] # "unborn" => Serial("child", "parent")

LEMMA FaultsGrow ==
    ASSUME Types, [Next]_vars
    PROVE  interrupts' >= interrupts /\ failedWrites' >= failedWrites /\ loopErrors' >= loopErrors
<1> USE DEF RestTypes, Types
<1>0. interrupts \in Nat /\ failedWrites \in Nat /\ loopErrors \in Nat
  OBVIOUS
<1>d. ASSUME NEW p \in Procs, binder_done(p)
      PROVE  interrupts' >= interrupts /\ failedWrites' >= failedWrites /\ loopErrors' >= loopErrors
  BY <1>d, DoneEffect
<1>1. CASE Parent
  BY <1>0, <1>1, <1>d, ProcsType DEF Parent, svcmgr_publish, Published, Fork, Exits, faultVars
<1>2. CASE Child
  BY <1>0, <1>2, <1>d, AcquireEffect, ProcsType DEF Child, Reopen, svcmgr_lookup, LookedUp, StartRound, Ping, PingAnswered,
     PingFailed, Report, NextRound, Exits, faultVars
<1>3. ASSUME NEW p \in Procs, Library(p)
      PROVE  interrupts' >= interrupts /\ failedWrites' >= failedWrites /\ loopErrors' >= loopErrors
  BY <1>0, <1>3 DEF Library, IoctlWrite, IoctlRead, IoctlFails, ParseSkip, ParseReply, ParseError, ParseTransaction,
     binder_send_reply, binder_write, ParsedInCall, ParsedInLoop, LoopIoctlFails, faultVars
<1>4. CASE Kernel \/ UNCHANGED vars
  BY <1>0, <1>4 DEF Kernel, SvcMgrServes, SvcMgrForgets, vars, libVars, faultVars
<1> QED BY <1>1, <1>2, <1>3, <1>4 DEF Next

LEMMA SerialStep ==
    ASSUME Types, Types', AllLocal, Stages, Past, ServiceQueue, Living, SerialInv, [Next]_vars
    PROVE  SerialInv'
<1> SUFFICES ASSUME interrupts' = 0 PROVE SerialInv'
  BY DEF SerialInv
<1>0. interrupts = 0
  BY FaultsGrow DEF Types, RestTypes
<1>1. PICK p, o : p = Caller /\ o = Other
  OBVIOUS
<1>2. /\ at["child"] = "unborn" => p = "parent" /\ o = "child"
      /\ at["child"] # "unborn" => p = "child" /\ o = "parent"
  BY <1>1 DEF Caller, Other
<1>3. Serial(p, o) /\ Owed /\ Phase(p)
  BY <1>0, <1>2 DEF SerialInv, Serial
<1>4. Owed'
  BY <1>1, <1>3, OwedStep
<1>s. ASSUME Serial(p, o)', at'["child"] = "unborn" <=> at["child"] = "unborn" PROVE SerialInv'
  BY <1>2, <1>4, <1>s DEF SerialInv
<1>5. CASE svcmgr_publish \/ Published
  <2>1. at["child"] = "unborn" /\ at'["child"] = at["child"]
    BY <1>5, ProcsType DEF svcmgr_publish, Published, At, Returned, Moves, mainVars, Stages, Types, MainTypes
  <2>2. Serial("parent", "child")'
    BY <1>2, <1>3, <1>5, <2>1, ParentSerial
  <2> QED BY <1>2, <1>s, <2>1, <2>2
<1>6. CASE Fork
  <2>1. at["child"] = "unborn" /\ at'["child"] = "open"
    BY <1>6, ProcsType DEF Fork, At, Stages, Types, MainTypes
  <2>2. Serial("child", "parent")'
    BY <1>2, <1>3, <1>6, <2>1, ForkSerial
  <2> QED BY <1>4, <2>1, <2>2 DEF SerialInv
<1>7. CASE Child
  <2>1. at["child"] # "unborn" /\ at'["child"] # "unborn"
    BY <1>7, ProcsType DEF Child, Reopen, svcmgr_lookup, LookedUp, StartRound, Ping, PingAnswered, PingFailed, Report,
       NextRound, At, Returned, Moves, mainVars, Types, MainTypes
  <2>2. Serial("child", "parent")'
    BY <1>2, <1>3, <1>7, <2>1, ChildSerial
  <2> QED BY <1>2, <1>s, <2>1, <2>2
<1>8. ASSUME NEW q \in Procs, Library(q), UNCHANGED mainVars PROVE SerialInv'
  <2>1. q = p \/ q = o
    BY <1>1, CallerFacts
  <2>2. Serial(p, o)'
    <3>1. CASE q = p
      BY <1>0, <1>1, <1>3, <1>8, <3>1, CallerStep
    <3>2. CASE q = o
      BY <1>1, <1>3, <1>8, <3>2, OtherStep
    <3> QED BY <2>1, <3>1, <3>2
  <2> QED BY <1>8, <1>s, <2>2 DEF mainVars
<1>9. CASE SvcMgrServes /\ UNCHANGED mainVars
  <2>1. Serial(p, o)'
    BY <1>1, <1>3, <1>9, ServesStep
  <2> QED BY <1>9, <1>s, <2>1 DEF mainVars
<1>10. CASE (SvcMgrForgets /\ UNCHANGED mainVars) \/ UNCHANGED vars
  <2>1. UNCHANGED <<pc, looping, call, readbuf, r, reply, todo, err, stack, failedWrites, at>>
    BY <1>10 DEF SvcMgrForgets, vars, libVars, callVars, driverVars, faultVars, mainVars
  <2>2. p \in Procs /\ failedWrites \in Nat
    BY <1>1, CallerFacts DEF Types, RestTypes
  <2>3. Phase(p)'
    BY <1>3, <2>1, <2>2, PhaseFrame DEF Waiting
  <2>4. Serial(p, o)'
    BY <1>3, <2>1, <2>3 DEF Serial, Open, OwnReply
  <2> QED BY <1>s, <2>1, <2>4
<1> QED BY <1>5, <1>6, <1>7, <1>8, <1>9, <1>10 DEF Next, Parent, Kernel

LEMMA SerialInit == Init => SerialInv /\ Living
<1> SUFFICES ASSUME Init PROVE SerialInv /\ Living
  OBVIOUS
<1> USE ProcsType
<1>1. /\ \A p \in Procs : pc[p] = "main" /\ readbuf[p] = <<>> /\ stack[p] = 0 /\ err[p] = "none" /\ ~looping[p]
      /\ \A q \in Nodes : todo[q] = <<>> /\ alive[q]
      /\ held["parent"] = {} /\ at["child"] = "unborn"
  BY DEF Init, LibInit
<1>2. Nowhere
  BY <1>1, BuffersEmpty DEF Nowhere, Free, Fetched
<1>3. \A p \in Procs : Open(p)
  BY <1>1, NoErrorFacts DEF Open
<1>4. Idle("parent")
  BY <1>1, <1>2, <1>3 DEF Idle, Waiting
<1>5. Owed
  BY <1>1 DEF Owed, Debts, Members
<1> QED BY <1>1, <1>3, <1>4, <1>5 DEF SerialInv, Serial, Phase, OwnReply, Living

\* Everything about the calls that holds whatever fails.
Calls == Types /\ AllLocal /\ Stages /\ Past /\ ServiceQueue /\ Living /\ SerialInv

LEMMA CallsInvariant == Spec => []Calls
<1>1. Init => Calls
  BY TypesInit, LocalInit, StagesInit, PastInit, SerialInit DEF Calls
<1>2. Calls /\ [Next]_vars => Calls'
  <2> SUFFICES ASSUME Calls, [Next]_vars PROVE Calls'
    OBVIOUS
  <2> USE DEF Calls
  <2>1. Types' /\ AllLocal'
    BY TypesStep, LocalStep
  <2>2. Stages' /\ Living' /\ ServiceQueue'
    BY <2>1, StagesStep, LivingStep, ServiceQueueStep
  <2>3. Past' /\ SerialInv'
    BY <2>1, PastStep, SerialStep
  <2> QED BY <2>1, <2>2, <2>3
<1> QED BY <1>1, <1>2, PTL DEF Spec

\* A call that returns 0 returns the answer to its own transaction, unless an
\* ioctl of an earlier call was interrupted; no answer is from the future.
THEOREM ReplyIsOwnCorrect == Spec => []ReplyIsOwn
<1>1. Calls => ReplyIsOwn
  <2> SUFFICES ASSUME Calls, NEW p \in Procs, pc[p] = "returned", reply[p] # NoReply
               PROVE  reply[p].n <= call[p].n /\ (reply[p].n < call[p].n => interrupts > 0)
    BY DEF ReplyIsOwn
  <2>1. reply[p].n <= call[p].n
    BY DEF Calls, Past
  <2>2. call[p].n \in Nat /\ interrupts \in Nat
    BY DEF Calls, Types, CallTypes, RestTypes
  <2>3. ASSUME interrupts = 0 PROVE reply[p].n = call[p].n
    <3>1. p = "parent" <=> at["child"] = "unborn"
      BY DEF Calls, Stages, Procs
    <3>2. OwnReply(p)
      BY <2>3, <3>1 DEF Calls, SerialInv, Serial, Procs
    <3> QED BY <3>2 DEF OwnReply
  <2> QED BY <2>1, <2>2, <2>3
<1> QED BY <1>1, CallsInvariant, PTL

-----------------------------------------------------------------------------
(* When nothing fails from outside *)

NoFault == interrupts = 0 /\ failedWrites = 0 /\ loopErrors = 0

\* The errors of the driver have not been seen.
Smooth ==
    /\ alive["svcmgr"]
    /\ \A p \in Procs : Open(p) /\ r[p] # 2

\* A reply has been found for the call in progress.
GotReply(p) == pc[p] = "returned" \/ (pc[p] = "parse" /\ r[p] = 0)

\* The buffers a process will look at.
ParentBox == Buffers(readbuf["parent"]) \cup Buffers(todo["parent"])
ChildBox == Buffers(readbuf["child"]) \cup Buffers(todo["child"])

\* The service is registered before the child exists, and stays so.
Publishing ==
    /\ at["parent"] = "fork" \/ at["child"] # "unborn" => registered
    /\ at["child"] # "unborn" => looping["parent"]
    /\ at["child"] = "unborn" => call["child"].target = 0 /\ pong_srv = 0
    /\ GotReply("parent") /\ reply["parent"].arg = "data" => registered
    /\ \A c \in ParentBox : c.arg = "data" => registered

\* The child has a reference on the handle it calls, and got it from a lookup
\* that was answered with one; every ping so far was answered by the parent.
Measuring ==
    at["child"] # "unborn" /\ pc["child"] # "exited" =>
        /\ pong_srv = 1 \/ call["child"].target = 1 => refs["child"] > 0
        /\ at["child"] = "open" => pc["child"] = "main"
        /\ at["child"] = "looked" => pc["child"] = "returned"
        /\ at["child"] \in {"looked", "ping"} => pong_srv = 1
        /\ pc["child"] # "main" => (call["child"].target = 1 <=> at["child"] = "ping")
        /\ pc["child"] # "main" /\ call["child"].target = 0 => call["child"].code = "GET_SERVICE"
        /\ GotReply("child") =>
              reply["child"].cmd = "reply" /\ (call["child"].target = 0 => reply["child"].arg = "ref")
        /\ \A c \in ChildBox : call["child"].target = 0 => c.arg = "ref"
        /\ at["child"] = "ping" => answers \subseteq {"parent"} /\ (i > 0 => answers # {})

Reports == \A k \in DOMAIN reports : reports[k] = {"parent"}

FlowInv == NoFault => Smooth /\ Publishing /\ Measuring /\ Reports

\* Nobody who is about to be sent a buffer holds one.
LEMMA RoomHere ==
    ASSUME Types, AllLocal, failedWrites = 0, NEW p \in Procs, Free(p), ~Ending(p), Taken(p) = {}
    PROVE  HasRoom(p)
<1> USE DEF Types
<1>1. Buffers(readbuf[p]) = {} /\ Buffers(todo[p]) = {} /\ p \in Nodes
  BY ProcsType DEF Free, Fetched
<1>2. held[p] = {}
  <2>1. InUse(p) = {}
    BY <1>1 DEF InUse
  <2>2. Cardinality(held[p]) <= 0
    <3>1. Cardinality(held[p] \ InUse(p)) <= failedWrites /\ held[p] \ InUse(p) = held[p]
      BY <2>1 DEF AllLocal, Local, Kept
    <3> QED BY <3>1
  <2>3. IsFiniteSet(held[p])
    BY DEF HeldTypes
  <2>4. Cardinality(held[p]) \in Nat /\ (Cardinality(held[p]) = 0 <=> held[p] = {})
    BY <2>3, FS_CardinalityType, FS_EmptySet
  <2> QED BY <2>2, <2>4
<1>3. {k \in DOMAIN todo[p] : IsBuffer(todo[p][k])} = {}
  <2>1. todo[p] \in Seq(Queued)
    BY <1>1 DEF QueueTypes
  <2>2. DOMAIN todo[p] = 1..Len(todo[p])
    BY <2>1, LenProperties
  <2>3. \A k \in 1..Len(todo[p]) : ~IsBuffer(todo[p][k])
    BY <1>1 DEF Buffers
  <2> QED BY <2>2, <2>3
<1>4. Cardinality({}) = 0 /\ 0 + 0 < BufferRoom
  BY FS_EmptySet, RoomAssumption
<1> QED BY <1>2, <1>3, <1>4 DEF HasRoom

\* A caller that waits holds no buffer.
LEMMA RoomWaiting ==
    ASSUME Types, AllLocal, Stages, failedWrites = 0, NEW p, p = Caller, Waiting(p), Free(p)
    PROVE  HasRoom(p)
<1>1. p \in Procs /\ ~looping[p]
  BY CallerFacts
<1>2. reply[p] = NoReply
  BY <1>1 DEF AllLocal, Local, Replies, Waiting
<1>3. Taken(p) = {}
  BY <1>2, NoReplyType DEF Taken
<1>4. ~Ending(p)
  BY <1>1 DEF Ending
<1> QED BY <1>1, <1>3, <1>4, RoomHere

LEMMA AskerFree ==
    ASSUME Types, Stages, NEW p, p = Caller, NEW b, AskedWith(p, b)
    PROVE  Free(p) /\ Waiting(p) /\ b.n = call[p].n /\ b.peer = p /\ b.arg = call[p].code
<1>1. p \in Nodes /\ Owner(call[p].target) # p
  BY CallerFacts, ProcsType
<1> QED BY <1>1 DEF AskedWith, Only

\* No error is seen as long as the call in progress is not refused.
LEMMA StaysSmooth ==
    ASSUME interrupts' = 0, SerialInv', NEW p, p = Caller', ~Refused(p)', \A q \in Procs : r'[q] # 2, alive'["svcmgr"]
    PROVE  Smooth'
<1>1. PICK o : o = Other'
  OBVIOUS
<1>2. \A q \in Procs : q = p \/ q = o
  BY <1>1 DEF Caller, Other, Procs
<1>3. Phase(p)' /\ Open(o)'
  BY <1>1 DEF SerialInv, Serial, Caller, Other
<1>4. Open(p)'
  BY <1>3 DEF Phase, Idle, Asked, AskedWith, Lost, Answered, AnsweredWith
<1> QED BY <1>2, <1>3, <1>4 DEF Smooth

Calm == NoFault /\ Smooth /\ Publishing /\ Measuring /\ Reports

\* Whom the caller sends its transaction to is there and has room, and the
\* caller has the handle.
LEMMA NotRefused ==
    ASSUME Calls, Calm, NEW p, p = Caller, NEW to, to = Owner(call[p].target), pc[p] = "write"
    PROVE  ValidHandle(p, call[p].target) /\ HasRoom(to) /\ alive[to]
<1> USE DEF Calls
<1>1. CASE to = "svcmgr"
  <2>1. call[p].target = 0
    BY <1>1 DEF Owner
  <2> QED BY <1>1, <2>1 DEF ValidHandle, HasRoom, Calm, Smooth
<1>2. CASE to = "parent"
  <2>1. p = "child" /\ call[p].target = 1 /\ at["child"] # "unborn"
    BY <1>2 DEF Owner, Stages, Caller, Types, CallTypes, Targets, Procs
  <2>2. looping["parent"] /\ alive["parent"] /\ refs["child"] > 0
    BY <2>1, ProcsType DEF Calm, Publishing, Measuring, Stages, Living
  <2>3. Serial("child", "parent") /\ failedWrites = 0
    BY <2>1 DEF SerialInv, Calm, NoFault
  <2>4. Free("parent")
    <3>1. Idle("child")
      BY <2>1, <2>3, ProcsType, PhaseIdle DEF Serial, Waiting
    <3> QED BY <3>1, ProcsType DEF Idle, Nowhere
  <2>5. ~Ending("parent") /\ Taken("parent") = {}
    BY <2>2, <2>3 DEF Ending, Taken, Serial
  <2>6. HasRoom("parent")
    BY <2>3, <2>4, <2>5, ProcsType, RoomHere
  <2> QED BY <1>2, <2>1, <2>2, <2>6 DEF ValidHandle
<1> QED BY <1>1, <1>2, OwnerType

LEMMA SmoothStep ==
    ASSUME Calls, Calls', Calm, NoFault', [Next]_vars
    PROVE  Smooth'
<1> USE DEF Calls
<1>0. interrupts' = 0 /\ failedWrites' = 0 /\ loopErrors' = 0 /\ interrupts = 0 /\ failedWrites = 0 /\ loopErrors = 0
  BY DEF NoFault, Calm
<1>1. PICK p, o : p = Caller /\ o = Other
  OBVIOUS
<1>2. /\ p \in Procs /\ o \in Procs /\ p # o /\ \A q \in Procs : q = p \/ q = o
      /\ ~looping[p] /\ Owner(call[p].target) # p /\ Owner(call[p].target) \in Nodes
  BY <1>1, CallerFacts
<1>3. Serial(p, o) /\ Phase(p) /\ Open(p) /\ Open(o) /\ alive["svcmgr"] /\ \A q \in Procs : r[q] # 2
  BY <1>0, <1>1, <1>2 DEF SerialInv, Serial, Caller, Other, Calm, Smooth
<1>a. alive'["svcmgr"]
  <2>1. "svcmgr" \in Nodes /\ "svcmgr" \notin Procs
    BY DEF Nodes, Procs
  <2>2. \A q \in Procs : DriverExit(q) => alive'["svcmgr"]
    BY <1>3, <2>1 DEF DriverExit, Types, RestTypes
  <2>3. UNCHANGED alive \/ \E q \in Procs : DriverExit(q)
    <3>1. CASE Parent \/ Child
      BY <3>1, ProcsType DEF Parent, svcmgr_publish, Published, Fork, Exits, driverVars, Child, Reopen, svcmgr_lookup,
         LookedUp, StartRound, Ping, PingAnswered, PingFailed, Report, NextRound
    <3>2. ASSUME NEW q \in Procs, Library(q) PROVE UNCHANGED alive \/ DriverExit(q)
      BY <3>2 DEF Library, IoctlWrite, IoctlRead, IoctlFails, ParseSkip, ParseReply, ParseError, ParseTransaction,
         ParsedInCall, ParsedInLoop, LoopIoctlFails, LoopEnds, driverVars
    <3>3. CASE Kernel \/ UNCHANGED vars
      BY <3>3 DEF Kernel, SvcMgrServes, SvcMgrForgets, vars, libVars, driverVars
    <3> QED BY <3>1, <3>2, <3>3 DEF Next
  <2> QED BY <1>3, <2>2, <2>3
<1>4. CASE Parent \/ Child
  <2>1. UNCHANGED r
    BY <1>4 DEF Parent, svcmgr_publish, Published, Fork, BeginCall, Exits, driverVars, callVars, Child, Reopen, svcmgr_lookup,
         LookedUp, StartRound, Ping, PingAnswered, PingFailed, Report, NextRound
  <2>2. PICK q : q = Caller'
    OBVIOUS
  <2>3. ~Waiting(q)'
    <3>1. CASE svcmgr_publish \/ Published
      <4>1. q = "parent" /\ pc'["parent"] \in {"write", "main", "exited"}
        BY <3>1, <2>2, ProcsType DEF svcmgr_publish, Published, At, Returned, BeginCall, Exits, Goto, Moves, Stages, Types, CallTypes,
           MainTypes, mainVars, Caller
      <4> QED BY <4>1 DEF Waiting
    <3>2. CASE Fork
      <4>1. q = "child" /\ pc'["child"] = "main"
        BY <3>2, <2>2, ProcsType DEF Fork, At, Goto, Stages, Types, CallTypes, MainTypes, Caller
      <4> QED BY <4>1 DEF Waiting
    <3>3. CASE Child
      <4>1. q = "child"
        BY <3>3, <2>2, ProcsType DEF Child, Reopen, svcmgr_lookup, LookedUp, StartRound, Ping, PingAnswered, PingFailed, Report,
           NextRound, At, Returned, Moves, mainVars, Types, MainTypes, Caller
      <4>2. pc'["child"] \in {"main", "write", "returned", "exited"}
        BY <3>3, ProcsType DEF Child, Reopen, svcmgr_lookup, LookedUp, StartRound, Ping, PingAnswered, PingFailed, Report,
           NextRound, At, Returned, BeginCall, Exits, Goto, callVars, Types, CallTypes
      <4> QED BY <4>1, <4>2 DEF Waiting
    <3> QED BY <1>4, <3>1, <3>2, <3>3 DEF Parent
  <2> QED BY <1>0, <1>3, <1>a, <2>1, <2>2, <2>3, StaysSmooth DEF Refused
<1>s. ASSUME ~Refused(p)', \A q \in Procs : r'[q] # 2, UNCHANGED at PROVE Smooth'
  <2>1. p = Caller'
    BY <1>1, <1>s DEF Caller
  <2> QED BY <1>0, <1>a, <1>s, <2>1, StaysSmooth
<1>5. ASSUME NEW q \in Procs, Library(q), UNCHANGED mainVars PROVE Smooth'
  <2>0. UNCHANGED at
    BY <1>5 DEF mainVars
  <2>s. ASSUME err'[p] = "none", NoError(readbuf'[p]), \A x \in Procs : r'[x] # 2 PROVE Smooth'
    BY <1>s, <2>0, <2>s DEF Refused
  <2>h. err[p] = "none" /\ NoError(readbuf[p]) /\ NoError(readbuf[o])
    BY <1>3 DEF Open
  <2>t. ASSUME NEW c, Parsing(q, c) PROVE NoError(readbuf'[p]) /\ c \notin {"failed", "dead"}
    <3>1. /\ readbuf[q] \in Seq(Command) /\ readbuf[q] # <<>> /\ Head(readbuf[q]).cmd = c
          /\ readbuf' = [readbuf EXCEPT ![q] = Tail(readbuf[q])]
      BY <1>5, <2>t, ParsingHead DEF Types
    <3>2. ~IsError(Head(readbuf[q])) /\ NoError(Tail(readbuf[q]))
      BY <1>2, <1>5, <2>h, <3>1, NoErrorTail
    <3> QED BY <1>2, <2>h, <3>1, <3>2 DEF IsError, Types, CallTypes
  <2>1. CASE IoctlWrite(q)
    <3>1. q = p
      <4>1. pc[q] = "write"
        BY <2>1 DEF IoctlWrite
      <4> QED BY <1>1, <1>2, <1>5, <4>1, CallerFacts DEF Procs
    <3>2. /\ pc[p] = "write" /\ DriverTransaction(p, call[p]) /\ UNCHANGED <<call, readbuf, r>>
          /\ pc' = [pc EXCEPT ![p] = "read"]
      BY <2>1, <3>1 DEF IoctlWrite, Goto
    <3>3. Waiting(p)' /\ Idle(p) /\ call[p].n > 0
      BY <1>2, <1>3, <3>2, PhaseIdle DEF Waiting, Types, CallTypes, Stages
    <3>4. PICK to \in Nodes : to = Owner(call[p].target) /\ to # p
      BY <1>2
    <3>5. ValidHandle(p, call[p].target) /\ HasRoom(to) /\ alive[to]
      BY <1>1, <3>2, <3>4, NotRefused
    <3>6. Asked(p)'
      BY <1>2, <3>2, <3>3, <3>4, <3>5, SendPhase
    <3>7. ~Refused(p)'
      BY <3>6 DEF Asked, AskedWith, Open, Refused
    <3> QED BY <1>3, <1>s, <2>0, <3>2, <3>7
  <2>2. CASE IoctlRead(q)
    <3>1. r' = [r EXCEPT ![q] = 1]
      BY <2>2 DEF IoctlRead
    <3>2. \A x \in Procs : r'[x] # 2
      BY <1>3, <1>5, <3>1 DEF Types, CallTypes
    <3>3. err[q] = "none"
      BY <1>2, <1>3, <1>5 DEF Open
    <3>4. err'[p] = "none" /\ NoError(readbuf'[p])
      BY <1>2, <1>5, <2>2, <2>h, <3>3, ReadErrors
    <3> QED BY <2>s, <3>2, <3>4
  <2>3. CASE ParseSkip(q) \/ ParseReply(q)
    <3>1. \A x \in Procs : r'[x] # 2
      BY <1>3, <1>5, <2>3 DEF ParseSkip, ParseReply, Types, CallTypes
    <3>2. err' = err /\ \E c : Parsing(q, c)
      BY <2>3 DEF ParseSkip, ParseReply, driverVars
    <3> QED BY <2>h, <2>s, <2>t, <3>1, <3>2
  <2>4. ~ParseError(q)
    BY <2>t DEF ParseError
  <2>5. CASE ParseTransaction(q)
    <3>1. Parsing(q, "txn") /\ binder_send_reply(q, Head(readbuf[q]), "data") /\ UNCHANGED r
      BY <2>5 DEF ParseTransaction
    <3>2. PICK t : t = Head(readbuf[q])
      OBVIOUS
    <3>3. AskedWith(p, t)
      BY <1>1, <1>3, <1>5, <3>1, <3>2, ParsesCaller
    <3>4. t.peer = p /\ HasRoom(p)
      <4>1. Free(p) /\ Waiting(p) /\ t.peer = p
        BY <1>1, <3>3, AskerFree
      <4> QED BY <1>0, <1>1, <4>1, RoomWaiting
    <3>5. err' = err
      BY <3>1, <3>2, <3>4 DEF binder_send_reply, binder_write, DriverReply
    <3> QED BY <1>3, <2>h, <2>s, <2>t, <3>1, <3>5
  <2>6. CASE ParsedInCall(q)
    BY <1>3, <2>6, <2>h, <2>s DEF ParsedInCall, driverVars
  <2>7. CASE ParsedInLoop(q)
    <3>1. q = "parent" /\ looping[q] /\ pc[q] = "parse"
      BY <2>7, <1>5 DEF ParsedInLoop, Stages, Procs
    <3>2. r[q] = 1
      BY <1>3, <3>1 DEF Serial
    <3> QED BY <1>3, <2>7, <2>h, <2>s, <3>2 DEF ParsedInLoop, driverVars
  <2>8. ~IoctlFails(q) /\ ~LoopIoctlFails(q)
    BY <1>0 DEF IoctlFails, LoopIoctlFails
  <2> QED BY <1>5, <2>1, <2>2, <2>3, <2>4, <2>5, <2>6, <2>7, <2>8 DEF Library
<1>6. CASE SvcMgrServes /\ UNCHANGED mainVars
  <2>1. PICK t \in Queued, q \in [Nodes -> Seq(Queued)], a \in {"data", "status", "ref"} :
              DriverReply(q, "svcmgr", t, a) /\ AskedWith(p, t)
    <3> HIDE DEF Calls
    <3>1. Types /\ Types' /\ Stages /\ Past /\ ServiceQueue
      BY DEF Calls
    <3> QED BY <1>1, <1>3, <1>6, <3>1, ServesCaller
  <2>2. t.peer = p /\ HasRoom(p)
    <3>1. Free(p) /\ Waiting(p) /\ t.peer = p
      BY <1>1, <2>1, AskerFree
    <3> QED BY <1>0, <1>1, <3>1, RoomWaiting
  <2>3. err' = err
    BY <2>1, <2>2 DEF DriverReply
  <2>4. UNCHANGED <<readbuf, r, at>>
    BY <1>6 DEF SvcMgrServes, callVars, mainVars
  <2> QED BY <1>3, <1>s, <2>3, <2>4 DEF Open, Refused
<1>7. CASE (SvcMgrForgets /\ UNCHANGED mainVars) \/ UNCHANGED vars
  <2>1. UNCHANGED <<err, readbuf, r, at>>
    BY <1>7 DEF SvcMgrForgets, vars, libVars, callVars, driverVars, mainVars
  <2> QED BY <1>3, <1>s, <2>1 DEF Open, Refused
<1> QED BY <1>4, <1>5, <1>6, <1>7 DEF Next, Kernel

\* Steps that put no buffer where a process will look.
LEMMA BoxesShrink ==
    ASSUME Types, UNCHANGED <<todo, readbuf>> \/ (\E q \in Procs : DriverExit(q) /\ UNCHANGED readbuf)
                  \/ (\E q \in Procs : IoctlRead(q)) \/ (\E q \in Procs : \E c : Parsing(q, c) /\ UNCHANGED todo)
    PROVE  ParentBox' \subseteq ParentBox /\ ChildBox' \subseteq ChildBox
<1> SUFFICES /\ \A q \in Procs : \A c \in Buffers(readbuf'[q]) : c \in Buffers(readbuf[q]) \/ c \in Buffers(todo[q])
             /\ \A q \in Procs : Buffers(todo'[q]) \subseteq Buffers(todo[q])
  BY ProcsType DEF ParentBox, ChildBox
<1> USE ProcsType
<1>1. CASE UNCHANGED <<todo, readbuf>>
  BY <1>1
<1>2. ASSUME NEW q \in Procs, DriverExit(q), UNCHANGED readbuf
      PROVE  \A x \in Procs : Buffers(todo'[x]) \subseteq Buffers(todo[x]) /\ readbuf'[x] = readbuf[x]
  BY <1>2, ExitTodo
<1>3. ASSUME NEW q \in Procs, IoctlRead(q)
      PROVE  /\ \A x \in Procs : \A c \in Buffers(readbuf'[x]) : c \in Buffers(readbuf[x]) \/ c \in Buffers(todo[x])
             /\ \A x \in Procs : Buffers(todo'[x]) \subseteq Buffers(todo[x])
  BY <1>3, ReadBuffers DEF IoctlRead
<1>4. ASSUME NEW q \in Procs, NEW c, Parsing(q, c), UNCHANGED todo
      PROVE  \A x \in Procs : Buffers(readbuf'[x]) \subseteq Buffers(readbuf[x]) /\ todo'[x] = todo[x]
  BY <1>4, ParseBuffers
<1> QED BY <1>1, <1>2, <1>3, <1>4

LEMMA BoxesSend ==
    ASSUME Types, Stages, NEW p \in Procs, IoctlWrite(p)
    PROVE  /\ ChildBox' \subseteq ChildBox
           /\ p = "parent" => ParentBox' \subseteq ParentBox
<1> USE ProcsType
<1>1. DriverTransaction(p, call[p]) /\ UNCHANGED readbuf
  BY DEF IoctlWrite
<1>2. PICK to \in Nodes : to = Owner(call[p].target) /\ to # p
  BY OwnerElsewhere
<1>3. PICK t : t = Cmd("txn", call[p].n, p, call[p].code)
  OBVIOUS
<1>4. \A q \in Nodes : \A c \in Buffers(todo'[q]) : c \in Buffers(todo[q]) \/ (q = to /\ c = t)
  BY <1>1, <1>2, <1>3, SendBuffers
<1>5. to # "child" /\ (p = "parent" => to # "parent")
  BY <1>2, OwnerType
<1> QED BY <1>1, <1>4, <1>5 DEF ParentBox, ChildBox

LEMMA ServesBox ==
    ASSUME Types, Types', Stages, Past, ServiceQueue, NEW p, p = Caller, Phase(p), SvcMgrServes
    PROVE  \E a \in {"data", "status", "ref"} :
              /\ a = "data" => registered'
              /\ call[p].code = "GET_SERVICE" /\ registered => a = "ref"
              /\ registered => registered'
              /\ call[p].target = 0 /\ Waiting(p)
              /\ p = "parent" => \A c \in ParentBox' : c.arg = a
              /\ p = "child" => \A c \in ChildBox' : c.arg = a
<1>0. p \in Procs /\ "svcmgr" \in Nodes /\ "parent" \in Nodes /\ "child" \in Nodes
  BY CallerFacts DEF Nodes, Procs
<1>1. PICK t \in Queued, q \in [Nodes -> Seq(Queued)], a0 \in {"data", "status", "ref"} :
              /\ t = Head(todo["svcmgr"]) /\ q = [todo EXCEPT !["svcmgr"] = Tail(@)]
              /\ AskedWith(p, t) /\ Owner(call[p].target) = "svcmgr" /\ Quiet(q) /\ Emptied'
  BY ServesCaller
<1>2. PICK a \in {"data", "status", "ref"} :
              /\ DriverReply(q, "svcmgr", t, a)
              /\ a = "data" => registered'
              /\ t.arg = "GET_SERVICE" /\ registered => a = "ref"
              /\ registered => registered'
  BY <1>1 DEF SvcMgrServes, Types, RestTypes
<1>3. t.peer = p /\ t.arg = call[p].code /\ Waiting(p) /\ t.n \in Nat /\ a \in Args
  BY <1>1 DEF AskedWith, Queued, Args
<1>4. call[p].target = 0
  BY <1>0, <1>1 DEF Owner, Types, CallTypes, Targets
<1>5. Adds(q, p, Cmd("reply", t.n, "svcmgr", a))'
  BY ONLY Types, q \in [Nodes -> Seq(Queued)], t \in Queued, <1>0, <1>2, <1>3, ReplyBuffers
<1>6. Cmd("reply", t.n, "svcmgr", a).arg = a
  BY <1>0, <1>3, CmdType
<1>7. \A c \in Buffers(todo'[p]) : c.arg = a
  BY <1>0, <1>1, <1>5, <1>6, ProcsType DEF Adds, Quiet
<1>8. Buffers(readbuf'[p]) = {}
  BY <1>0, <1>1, ProcsType DEF Emptied, Fetched
<1> QED BY <1>2, <1>3, <1>4, <1>7, <1>8 DEF ParentBox, ChildBox

LEMMA PublishingStep ==
    ASSUME Calls, Calls', Calm, NoFault', [Next]_vars
    PROVE  Publishing'
<1> USE ProcsType DEF Calls
<1>0. /\ interrupts' = 0 /\ loopErrors' = 0 /\ interrupts = 0 /\ loopErrors = 0 /\ Publishing
      /\ interrupts \in Nat /\ loopErrors \in Nat
  BY DEF NoFault, Calm, Types, RestTypes
<1>1. PICK p, o : p = Caller /\ o = Other
  OBVIOUS
<1>2. Serial(p, o) /\ Phase(p)
  BY <1>0, <1>1 DEF SerialInv, Serial, Caller, Other
<1>g. Publishing' <=>
        /\ at'["parent"] = "fork" \/ at'["child"] # "unborn" => registered'
        /\ at'["child"] # "unborn" => looping'["parent"]
        /\ at'["child"] = "unborn" => call'["child"].target = 0 /\ pong_srv' = 0
        /\ GotReply("parent")' /\ reply'["parent"].arg = "data" => registered'
        /\ \A c \in ParentBox' : c.arg = "data" => registered'
  BY DEF Publishing
<1>b. ASSUME at["child"] # "unborn", at'["child"] # "unborn", UNCHANGED <<registered, looping>> PROVE Publishing'
  BY <1>0, <1>b, <1>g DEF Publishing
<1>u. ASSUME at["child"] = "unborn", UNCHANGED <<at, pong_srv, registered>>, call'["child"] = call["child"],
             ParentBox' \subseteq ParentBox,
             GotReply("parent")' => \/ reply'["parent"].arg # "data"
                                    \/ GotReply("parent") /\ reply'["parent"] = reply["parent"]
                                    \/ reply'["parent"] \in ParentBox
      PROVE  Publishing'
  BY <1>0, <1>u, <1>g DEF Publishing
<1>3. CASE svcmgr_publish
  <2>1. /\ at["child"] = "unborn" /\ UNCHANGED <<at, pong_srv, registered, todo, readbuf>>
        /\ call'["child"] = call["child"] /\ pc'["parent"] = "write"
    BY <1>3 DEF svcmgr_publish, At, BeginCall, Goto, mainVars, driverVars, Stages, Types, CallTypes
  <2>2. ParentBox' \subseteq ParentBox /\ ~GotReply("parent")'
    BY <2>1, BoxesShrink DEF GotReply
  <2> QED BY <1>u, <2>1, <2>2
<1>4. CASE Published
  <2>1. /\ at["child"] = "unborn" /\ at'["child"] = "unborn" /\ UNCHANGED <<pong_srv, registered, call, readbuf>>
        /\ pc'["parent"] \in {"main", "exited"}
        /\ UNCHANGED todo \/ DriverExit("parent")
        /\ at'["parent"] = "fork" => at["parent"] = "fork" \/ reply["parent"].arg = "data"
        /\ pc["parent"] = "returned"
    BY <1>4 DEF Published, Returned, Exits, Moves, Goto, Stages, Types, CallTypes, MainTypes
  <2>2. ParentBox' \subseteq ParentBox /\ ~GotReply("parent")'
    <3>1. ParentBox' \subseteq ParentBox
      BY <2>1, BoxesShrink
    <3> QED BY <2>1, <3>1 DEF GotReply
  <2>3. GotReply("parent")
    BY <2>1 DEF GotReply
  <2> QED BY <1>0, <1>g, <2>1, <2>2, <2>3 DEF Publishing
<1>5. CASE Fork
  <2>1. at["parent"] = "fork" /\ at'["child"] = "open" /\ looping'["parent"] /\ UNCHANGED registered
    BY <1>5 DEF Fork, At, driverVars, Types, CallTypes, MainTypes
  <2> QED BY <1>0, <1>g, <2>1 DEF Publishing
<1>6. CASE Child
  <2>1. at["child"] # "unborn" /\ at'["child"] # "unborn"
    BY <1>6 DEF Child, Reopen, svcmgr_lookup, LookedUp, StartRound, Ping, PingAnswered, PingFailed, Report,
       NextRound, At, Returned, Moves, mainVars, Types, MainTypes
  <2>2. UNCHANGED <<registered, looping>>
    BY <1>6 DEF Child, Reopen, svcmgr_lookup, LookedUp, StartRound, Ping, PingAnswered, PingFailed, Report,
       NextRound, Exits, BeginCall, callVars, driverVars
  <2> QED BY <1>b, <2>1, <2>2
<1>7. ASSUME NEW q \in Procs, Library(q), UNCHANGED mainVars PROVE Publishing'
  <2>0. UNCHANGED <<at, pong_srv>>
    BY <1>7 DEF mainVars
  <2>i. ~IoctlFails(q) /\ ~LoopIoctlFails(q)
    BY <1>0 DEF IoctlFails, LoopIoctlFails
  <2>l. UNCHANGED <<registered, looping, call>>
    <3>1. CASE ParsedInLoop(q)
      <4>1. q = "parent" /\ r[q] = 1
        BY <3>1, <1>2, <1>7 DEF ParsedInLoop, Stages, Serial, Procs
      <4> QED BY <3>1, <4>1 DEF ParsedInLoop, driverVars
    <3> QED BY <1>7, <2>i, <3>1 DEF Library, IoctlWrite, IoctlRead, ParseSkip, ParseReply, ParseError, ParseTransaction,
            ParsedInCall, driverVars
  <2>1. CASE at["child"] # "unborn"
    BY <1>b, <2>0, <2>1, <2>l
  <2>2. CASE at["child"] = "unborn"
    <3>1. pc[q] \in {"write", "read", "parse"}
      BY <1>7 DEF Library, IoctlWrite, IoctlRead, IoctlFails, ParseSkip, ParseReply, ParseError, ParseTransaction,
           Parsing, ParsedInCall, ParsedInLoop, LoopIoctlFails
    <3>2. q = "parent" /\ ~looping[q]
      BY <1>7, <2>2, <3>1 DEF Stages, Procs
    <3>u. ASSUME ParentBox' \subseteq ParentBox,
                 GotReply("parent")' => \/ reply'["parent"].arg # "data"
                                        \/ GotReply("parent") /\ reply'["parent"] = reply["parent"]
                                        \/ reply'["parent"] \in ParentBox
          PROVE  Publishing'
      BY <1>u, <2>0, <2>2, <2>l, <3>u
    <3>3. CASE IoctlWrite(q)
      <4>1. pc'[q] = "read"
        BY <3>3, <1>7 DEF IoctlWrite, Goto, Types, CallTypes
      <4> QED BY <3>2, <3>3, <3>u, <4>1, BoxesSend DEF GotReply
    <3>4. CASE IoctlRead(q)
      <4>1. pc'[q] = "parse" /\ r'[q] = 1
        BY <3>4, <1>7 DEF IoctlRead, Goto, Types, CallTypes
      <4> QED BY <3>2, <3>4, <3>u, <4>1, BoxesShrink DEF GotReply
    <3>5. CASE ParseSkip(q)
      <4>1. Parsing(q, "complete") /\ UNCHANGED <<pc, r, reply, todo>>
        BY <3>5 DEF ParseSkip, driverVars
      <4>2. ParentBox' \subseteq ParentBox
        BY <1>7, <4>1, BoxesShrink
      <4> QED BY <3>2, <3>u, <4>1, <4>2 DEF GotReply
    <3>6. CASE ParseReply(q)
      <4>1. Parsing(q, "reply") /\ UNCHANGED <<pc, todo>>
        BY <3>6 DEF ParseReply, driverVars
      <4>2. ParentBox' \subseteq ParentBox
        BY <1>7, <4>1, BoxesShrink
      <4>3. Head(readbuf[q]) \in ParentBox
        BY <1>7, <3>2, <4>1, ParseBuffers DEF ParentBox, IsBuffer
      <4>4. r[q] # 0
        BY <1>7, <4>1 DEF Parsing, AllLocal, Local, Reads
      <4>5. reply'[q] = Head(readbuf[q])
        BY <1>7, <3>2, <3>6, <4>4 DEF ParseReply, Types, CallTypes
      <4> QED BY <3>2, <3>u, <4>2, <4>3, <4>5
    <3>7. CASE ParseError(q)
      <4>1. (\E c : Parsing(q, c)) /\ UNCHANGED <<pc, todo>> /\ r'[q] = 2 /\ pc[q] = "parse"
        BY <1>7, <3>7 DEF ParseError, Parsing, driverVars, Types, CallTypes
      <4>2. ParentBox' \subseteq ParentBox
        BY <1>7, <4>1, BoxesShrink
      <4> QED BY <3>2, <3>u, <4>1, <4>2 DEF GotReply
    <3>8. CASE ParsedInCall(q)
      <4>1. UNCHANGED <<todo, readbuf, r>> /\ pc[q] = "parse"
        BY <3>8 DEF ParsedInCall, driverVars
      <4>2. ParentBox' \subseteq ParentBox
        BY <4>1, BoxesShrink
      <4>3. \/ r[q] = 0 /\ reply' = reply
            \/ reply'[q] = NoReply
            \/ r[q] = 1 /\ pc'[q] = "read"
        BY <1>7, <3>8 DEF ParsedInCall, CallFails, Goto, Types, CallTypes
      <4> QED BY <3>2, <3>u, <4>1, <4>2, <4>3, NoReplyType DEF GotReply
    <3>9. ~ParseTransaction(q) /\ ~ParsedInLoop(q)
      BY <3>2 DEF ParseTransaction, ParsedInLoop
    <3> QED BY <1>7, <2>i, <3>3, <3>4, <3>5, <3>6, <3>7, <3>8, <3>9 DEF Library
  <2> QED BY <2>1, <2>2
<1>8. CASE SvcMgrServes /\ UNCHANGED mainVars
  <2>1. UNCHANGED <<at, pong_srv, pc, r, reply, call, looping>>
    BY <1>8 DEF mainVars, SvcMgrServes, callVars
  <2>2. PICK a \in {"data", "status", "ref"} :
              /\ a = "data" => registered'
              /\ registered => registered'
              /\ p = "parent" => \A c \in ParentBox' : c.arg = a
    <3> HIDE DEF Calls
    <3>1. Types /\ Types' /\ Stages /\ Past /\ ServiceQueue
      BY DEF Calls
    <3> QED BY <1>1, <1>2, <1>8, <3>1, ServesBox
  <2>3. p = "parent" \/ registered'
    BY <1>0, <1>1, <2>2 DEF Publishing, Caller
  <2>4. \A c \in ParentBox' : c.arg = "data" => registered'
    BY <2>2, <2>3
  <2>5. GotReply("parent")' => GotReply("parent")
    BY <2>1 DEF GotReply
  <2> QED BY <1>0, <1>g, <2>1, <2>2, <2>4, <2>5 DEF Publishing
<1>9. CASE SvcMgrForgets /\ UNCHANGED mainVars
  <2>1. UNCHANGED <<at, pong_srv, pc, r, reply, call, looping, todo, readbuf>> /\ ~alive["parent"]
    BY <1>9 DEF mainVars, SvcMgrForgets, callVars
  <2>2. pc["parent"] = "exited"
    BY <2>1 DEF Living
  <2>3. at["child"] = "unborn" /\ at["parent"] # "fork" /\ p = "parent"
    BY <1>0, <1>1, <2>2 DEF Publishing, Stages, Caller
  <2>4. ~GotReply("parent")'
    BY <2>1, <2>2 DEF GotReply
  <2>5. Idle("parent")
    BY <1>2, <2>2, <2>3, PhaseIdle DEF Waiting
  <2>6. ParentBox = {}
    BY <2>5 DEF Idle, Nowhere, Free, Fetched, ParentBox
  <2>7. ParentBox' = {}
    BY <2>1, <2>6, BoxesShrink
  <2> QED BY <1>0, <1>g, <2>1, <2>3, <2>4, <2>7 DEF Publishing
<1>10. CASE UNCHANGED vars
  <2>1. UNCHANGED <<at, pong_srv, pc, r, reply, call, looping, todo, readbuf, registered>>
    BY <1>10 DEF vars, libVars, callVars, driverVars, mainVars
  <2> QED BY <1>0, <2>1 DEF Publishing, ParentBox, GotReply
<1> QED BY <1>3, <1>4, <1>5, <1>6, <1>7, <1>8, <1>9, <1>10 DEF Next, Parent, Kernel

LEMMA MeasuringStep ==
    ASSUME Calls, Calls', Calm, NoFault', [Next]_vars
    PROVE  Measuring'
<1> USE ProcsType DEF Calls
<1>0. /\ interrupts = 0 /\ interrupts' = 0 /\ loopErrors = 0 /\ loopErrors' = 0 /\ failedWrites = 0 /\ failedWrites' = 0
      /\ Publishing /\ Measuring
  BY DEF NoFault, Calm
<1>1. SUFFICES ASSUME at'["child"] # "unborn", pc'["child"] # "exited" PROVE Measuring'
  BY DEF Measuring
<1>g. ASSUME /\ pong_srv' = 1 \/ call'["child"].target = 1 => refs'["child"] > 0
             /\ at'["child"] = "open" => pc'["child"] = "main"
             /\ at'["child"] = "looked" => pc'["child"] = "returned"
             /\ at'["child"] \in {"looked", "ping"} => pong_srv' = 1
             /\ pc'["child"] # "main" => (call'["child"].target = 1 <=> at'["child"] = "ping")
             /\ pc'["child"] # "main" /\ call'["child"].target = 0 => call'["child"].code = "GET_SERVICE"
             /\ GotReply("child")' =>
                   reply'["child"].cmd = "reply" /\ (call'["child"].target = 0 => reply'["child"].arg = "ref")
             /\ \A c \in ChildBox' : call'["child"].target = 0 => c.arg = "ref"
             /\ at'["child"] = "ping" => answers' \subseteq {"parent"} /\ (i' > 0 => answers' # {})
      PROVE  Measuring'
  BY <1>g DEF Measuring
<1>n. ASSUME Nowhere, UNCHANGED <<todo, readbuf>> PROVE ChildBox' = {}
  <2>1. ChildBox = {}
    BY <1>n DEF Nowhere, Free, Fetched, ChildBox
  <2> QED BY <1>n, <2>1, BoxesShrink
<1>2. CASE svcmgr_publish \/ Published
  <2>1. at["child"] = "unborn" /\ at'["child"] = at["child"]
    BY <1>2 DEF svcmgr_publish, Published, At, Returned, Moves, mainVars, Stages, Types, MainTypes
  <2> QED BY <1>1, <2>1
<1>3. CASE Fork
  <2>1. /\ at["child"] = "unborn" /\ at'["child"] = "open" /\ pc["parent"] = "main" /\ pc'["child"] = pc["child"]
        /\ UNCHANGED <<call, pong_srv, todo, readbuf>>
    BY <1>3 DEF Fork, At, Goto, Stages, Types, CallTypes, MainTypes, driverVars
  <2>2. pc'["child"] = "main" /\ call["child"].target = 0 /\ pong_srv = 0
    BY <1>0, <2>1 DEF Stages, Publishing
  <2>3. Idle("parent")
    BY <1>0, <2>1, PhaseIdle DEF SerialInv, Serial, Waiting
  <2>4. ChildBox' = {}
    BY <1>n, <2>1, <2>3 DEF Idle
  <2>5. ~GotReply("child")'
    BY <2>2 DEF GotReply
  <2> QED BY <1>g, <2>1, <2>2, <2>4, <2>5
<1>c. ASSUME at["child"] # "unborn"
      PROVE  /\ Serial("child", "parent") /\ Phase("child") /\ Caller = "child" /\ registered /\ looping["parent"]
             /\ ~looping["child"] /\ (~Waiting("child") => Nowhere)
  <2>1. Serial("child", "parent") /\ Phase("child")
    BY <1>0, <1>c DEF SerialInv, Serial
  <2>2. ~Waiting("child") => Nowhere
    BY <2>1, PhaseIdle DEF Idle
  <2> QED BY <1>0, <1>c, <2>1, <2>2 DEF Publishing, Stages, Caller
<1>4. CASE Child
  <2>1. at["child"] # "unborn" /\ pc["child"] \in {"main", "returned"}
    BY <1>4 DEF Child, Reopen, svcmgr_lookup, LookedUp, StartRound, Ping, PingAnswered, PingFailed, Report,
       At, Returned
  <2>2. Serial("child", "parent") /\ Nowhere
    BY <1>c, <2>1 DEF Waiting
  <2>3. /\ pong_srv = 1 \/ call["child"].target = 1 => refs["child"] > 0
        /\ at["child"] \in {"looked", "ping"} => pong_srv = 1
        /\ pc["child"] # "main" => (call["child"].target = 1 <=> at["child"] = "ping")
        /\ pc["child"] # "main" /\ call["child"].target = 0 => call["child"].code = "GET_SERVICE"
        /\ pc["child"] = "returned" =>
              reply["child"].cmd = "reply" /\ (call["child"].target = 0 => reply["child"].arg = "ref")
        /\ at["child"] = "ping" => answers \subseteq {"parent"} /\ (i > 0 => answers # {})
    BY <1>0, <2>1 DEF Measuring, GotReply
  <2>t. call["child"].target \in {0, 1} /\ call'["child"].target \in {0, 1} /\ refs["child"] \in Nat
    BY DEF Types, CallTypes, RestTypes, Targets
  <2>b. UNCHANGED <<todo, readbuf>> => ChildBox' = {}
    BY <1>n, <2>2
  <2>m. ASSUME pc'["child"] = "main", UNCHANGED <<pong_srv, call, refs, todo, readbuf>>,
               at'["child"] \in {"lookup", "ping"}, at'["child"] = "ping" => at["child"] \in {"looked", "ping"},
               at'["child"] = "ping" => answers' \subseteq {"parent"} /\ (i' > 0 => answers' # {})
        PROVE  Measuring'
    <3>1. ~GotReply("child")'
      BY <2>m DEF GotReply
    <3> QED BY <1>g, <2>3, <2>b, <2>m, <3>1
  <2>w. ASSUME NEW t \in {0, 1}, NEW c, BeginCall("child", t, c), UNCHANGED <<driverVars, faultVars, mainVars>>,
               t = 1 <=> at["child"] = "ping", t = 0 => c = "GET_SERVICE", at["child"] \in {"lookup", "ping"}
        PROVE  Measuring'
    <3>1. /\ call'["child"].target = t /\ call'["child"].code = c /\ pc'["child"] = "write"
          /\ UNCHANGED <<pong_srv, refs, todo, readbuf, at, answers, i>>
      BY <2>w DEF BeginCall, Goto, driverVars, mainVars, Types, CallTypes
    <3>2. ~GotReply("child")'
      BY <3>1 DEF GotReply
    <3> QED BY <1>g, <2>3, <2>b, <2>w, <3>1, <3>2
  <2>4. CASE Reopen
    <3>1. ~Exits("child")
      BY <1>1 DEF Exits, Goto, Types, CallTypes
    <3>2. UNCHANGED <<pc, pong_srv, call, refs, todo, readbuf>> /\ at'["child"] = "lookup" /\ pc["child"] = "main"
      BY <2>4, <3>1 DEF Reopen, At, Moves, callVars, driverVars, Types, MainTypes
    <3> QED BY <2>m, <3>2
  <2>5. CASE svcmgr_lookup
    BY <2>5, <2>w DEF svcmgr_lookup, At
  <2>6. CASE LookedUp
    <3>1. /\ pc["child"] = "returned" /\ at["child"] = "lookup" /\ at'["child"] = "looked"
          /\ UNCHANGED <<pc, r, call, reply, todo, readbuf, held>>
          /\ pong_srv' = IF reply["child"].arg = "ref" THEN 1 ELSE 0
          /\ pong_srv' = 1 => binder_acquire("child")
      BY <2>6 DEF LookedUp, Returned, Moves, callVars, Types, MainTypes
    <3>2. call["child"].target = 0 /\ reply["child"].cmd = "reply" /\ pong_srv' = 1
      BY <2>3, <2>t, <3>1
    <3>3. reply["child"] \in held["child"]
      <4>1. reply["child"] \in Taken("child")
        BY <1>c, <2>1, <3>1, <3>2 DEF Taken
      <4> QED BY <4>1 DEF AllLocal, Local, Kept, InUse
    <3>4. reply["child"].arg = "ref"
      BY <2>3, <3>1, <3>2
    <3>5. ValidHandle("child", 1)
      BY <3>3, <3>4 DEF ValidHandle
    <3>6. refs'["child"] > 0
      <4>1. refs' = [refs EXCEPT !["child"] = @ + 1]
        BY <1>0, <3>1, <3>2, <3>5 DEF binder_acquire, binder_write
      <4> QED BY <2>t, <4>1 DEF Types, RestTypes
    <3>7. call["child"].code = "GET_SERVICE"
      BY <2>3, <3>1, <3>2
    <3> QED BY <1>g, <2>b, <3>1, <3>2, <3>4, <3>6, <3>7
  <2>7. CASE StartRound
    <3>1. /\ at["child"] = "looked" /\ at'["child"] = "ping" /\ pc'["child"] = "main" /\ i' = 0 /\ answers' = {}
          /\ UNCHANGED <<pong_srv, call, refs, todo, readbuf>>
      BY <2>7 DEF StartRound, Returned, Goto, Moves, Types, CallTypes, MainTypes
    <3> QED BY <2>m, <3>1
  <2>8. CASE Ping
    <3>1. BeginCall("child", 1, "PINGPONG") /\ at["child"] = "ping" /\ UNCHANGED <<driverVars, faultVars, mainVars>>
      BY <2>3, <2>8 DEF Ping, At
    <3> QED BY <2>w, <3>1
  <2>9. CASE PingAnswered
    <3>1. /\ at["child"] = "ping" /\ pc["child"] = "returned" /\ reply["child"] # NoReply /\ pc'["child"] = "main"
          /\ answers' = answers \cup {reply["child"].peer}
          /\ UNCHANGED <<at, pong_srv, call, refs, todo, readbuf>>
      BY <2>9 DEF PingAnswered, Returned, Goto, Types, CallTypes
    <3>2. reply["child"].peer = Owner(call["child"].target)
      BY <2>2, <3>1 DEF Serial, OwnReply
    <3>3. reply["child"].peer = "parent"
      BY <2>3, <3>1, <3>2 DEF Owner
    <3> QED BY <2>3, <2>m, <3>1, <3>3
  <2>10. ~PingFailed
    BY <2>3, NoReplyType DEF PingFailed, Returned
  <2>11. CASE Report
    <3>1. ~Exits("child")
      BY <1>1 DEF Exits, Goto, Types, CallTypes
    <3>2. UNCHANGED <<pong_srv, call, refs, todo, readbuf>> /\ at'["child"] = "lookup" /\ pc'["child"] = "main"
      BY <2>11, <3>1 DEF Report, NextRound, Goto, Moves, driverVars, Types, CallTypes, MainTypes
    <3> QED BY <2>m, <3>2
  <2> QED BY <1>4, <2>4, <2>5, <2>6, <2>7, <2>8, <2>9, <2>10, <2>11 DEF Child
<1>f. ASSUME UNCHANGED <<call, refs, mainVars>>,
             pc'["child"] = pc["child"] \/ pc["child"] \in {"write", "read", "parse"},
             pc'["child"] = "main" => pc["child"] = "main",
             \/ ChildBox' \subseteq ChildBox
             \/ call["child"].target = 1
             \/ \A c \in ChildBox' : c.arg = "ref",
             GotReply("child")' => \/ GotReply("child") /\ reply'["child"] = reply["child"]
                                   \/ reply'["child"] \in ChildBox /\ reply'["child"].cmd = "reply"
      PROVE  Measuring'
  <2>1. UNCHANGED <<at, pong_srv, i, answers>>
    BY <1>f DEF mainVars
  <2>2. at["child"] # "unborn" /\ pc["child"] # "exited"
    BY <1>1, <1>f, <2>1
  <2>3. /\ pong_srv = 1 \/ call["child"].target = 1 => refs["child"] > 0
        /\ at["child"] = "open" => pc["child"] = "main"
        /\ at["child"] = "looked" => pc["child"] = "returned"
        /\ at["child"] \in {"looked", "ping"} => pong_srv = 1
        /\ pc["child"] # "main" => (call["child"].target = 1 <=> at["child"] = "ping")
        /\ pc["child"] # "main" /\ call["child"].target = 0 => call["child"].code = "GET_SERVICE"
        /\ GotReply("child") =>
              reply["child"].cmd = "reply" /\ (call["child"].target = 0 => reply["child"].arg = "ref")
        /\ \A c \in ChildBox : call["child"].target = 0 => c.arg = "ref"
        /\ at["child"] = "ping" => answers \subseteq {"parent"} /\ (i > 0 => answers # {})
    BY <1>0, <2>2 DEF Measuring
  <2>4. GotReply("child")' =>
              reply'["child"].cmd = "reply" /\ (call["child"].target = 0 => reply'["child"].arg = "ref")
    BY <1>f, <2>3
  <2>5. \A c \in ChildBox' : call["child"].target = 0 => c.arg = "ref"
    BY <1>f, <2>3
  <2>6. pc["child"] = "main" => pc'["child"] = "main"
    BY <1>f
  <2>7. /\ at["child"] = "open" => pc'["child"] = "main"
        /\ at["child"] = "looked" => pc'["child"] = "returned"
    BY <1>f, <2>3
  <2> QED BY <1>f, <1>g, <2>1, <2>3, <2>4, <2>5, <2>7
<1>5. ASSUME NEW q \in Procs, Library(q), UNCHANGED mainVars PROVE Measuring'
  <2>0. at["child"] # "unborn"
    BY <1>1, <1>5 DEF mainVars
  <2>c. /\ Serial("child", "parent") /\ Phase("child") /\ Caller = "child" /\ looping["parent"] /\ ~looping["child"]
        /\ pc["parent"] \in {"read", "parse"}
    BY <1>c, <2>0 DEF Stages
  <2>1. CASE q = "child"
    <3>u. ASSUME UNCHANGED <<call, refs>>, pc["child"] \in {"write", "read", "parse"}, pc'["child"] # "main",
                 ChildBox' \subseteq ChildBox,
                 GotReply("child")' => \/ GotReply("child") /\ reply'["child"] = reply["child"]
                                       \/ reply'["child"] \in ChildBox /\ reply'["child"].cmd = "reply"
          PROVE  Measuring'
      BY <1>5, <1>f, <3>u
    <3>1. CASE IoctlWrite("child")
      <4>1. pc["child"] = "write" /\ pc'["child"] = "read" /\ UNCHANGED <<call, refs>>
        BY <3>1 DEF IoctlWrite, Goto, Types, CallTypes
      <4>2. ChildBox' \subseteq ChildBox
        BY <3>1, BoxesSend
      <4>3. ~GotReply("child")'
        BY <4>1 DEF GotReply
      <4> QED BY <3>u, <4>1, <4>2, <4>3
    <3>2. CASE IoctlRead("child")
      <4>1. pc["child"] = "read" /\ pc'["child"] = "parse" /\ r'["child"] = 1 /\ UNCHANGED <<call, refs>>
        BY <3>2 DEF IoctlRead, Goto, Types, CallTypes
      <4>2. ChildBox' \subseteq ChildBox
        BY <3>2, BoxesShrink
      <4>3. ~GotReply("child")'
        BY <4>1 DEF GotReply
      <4> QED BY <3>u, <4>1, <4>2, <4>3
    <3>p. ASSUME NEW c, Parsing("child", c), UNCHANGED todo
          PROVE  pc["child"] = "parse" /\ ChildBox' \subseteq ChildBox
      <4>1. ChildBox' \subseteq ChildBox
        BY <3>p, BoxesShrink
      <4> QED BY <3>p, <4>1 DEF Parsing
    <3>3. CASE ParseSkip("child")
      <4>1. Parsing("child", "complete") /\ UNCHANGED <<pc, r, reply, todo, call, refs>>
        BY <3>3 DEF ParseSkip, driverVars
      <4> QED BY <3>p, <3>u, <4>1 DEF GotReply
    <3>4. CASE ParseReply("child")
      <4>1. Parsing("child", "reply") /\ UNCHANGED <<pc, todo, call, refs>>
        BY <3>4 DEF ParseReply, driverVars
      <4>2. Head(readbuf["child"]) \in ChildBox /\ Head(readbuf["child"]).cmd = "reply"
        BY <4>1, ParseBuffers DEF ChildBox, IsBuffer
      <4>3. r["child"] # 0
        BY <4>1 DEF Parsing, AllLocal, Local, Reads
      <4>4. reply'["child"] = Head(readbuf["child"])
        BY <2>c, <3>4, <4>3 DEF ParseReply, Types, CallTypes
      <4> QED BY <3>p, <3>u, <4>1, <4>2, <4>4
    <3>5. CASE ParseError("child")
      <4>1. PICK c : Parsing("child", c)
        BY <3>5 DEF ParseError
      <4>2. UNCHANGED <<pc, todo, call, refs>> /\ r'["child"] = 2
        BY <3>5 DEF ParseError, driverVars, Types, CallTypes
      <4>3. pc["child"] = "parse" /\ ChildBox' \subseteq ChildBox
        BY <3>p, <4>1, <4>2
      <4>4. ~GotReply("child")'
        BY <4>2, <4>3 DEF GotReply
      <4> QED BY <3>u, <4>2, <4>3, <4>4
    <3>6. CASE ParsedInCall("child")
      <4>1. UNCHANGED <<todo, readbuf, r, call, refs>> /\ pc["child"] = "parse"
        BY <3>6 DEF ParsedInCall, driverVars
      <4>2. ChildBox' \subseteq ChildBox
        BY <4>1, BoxesShrink
      <4>3. r["child"] # 2
        BY DEF Calm, Smooth
      <4>4. /\ \/ r["child"] = 0 /\ reply' = reply
               \/ r["child"] = 1 /\ pc'["child"] = "read"
            /\ pc'["child"] # "main"
        BY <3>6, <4>3 DEF ParsedInCall, Goto, Types, CallTypes
      <4> QED BY <3>u, <4>1, <4>2, <4>4 DEF GotReply
    <3>7. ~ParseTransaction("child") /\ ~ParsedInLoop("child") /\ ~LoopIoctlFails("child") /\ ~IoctlFails("child")
      BY <1>0, <2>c DEF ParseTransaction, ParsedInLoop, LoopIoctlFails, IoctlFails
    <3> QED BY <1>5, <2>1, <3>1, <3>2, <3>3, <3>4, <3>5, <3>6, <3>7 DEF Library
  <2>2. CASE q = "parent"
    <3>u. ASSUME UNCHANGED <<call, refs>>, pc'["child"] = pc["child"], r'["child"] = r["child"],
                 reply'["child"] = reply["child"], ChildBox' \subseteq ChildBox \/ call["child"].target = 1
          PROVE  Measuring'
      BY <1>5, <1>f, <3>u DEF GotReply
    <3>1. CASE IoctlRead("parent")
      <4>1. ChildBox' \subseteq ChildBox
        BY <3>1, BoxesShrink
      <4>2. UNCHANGED <<call, refs, reply>> /\ pc'["child"] = pc["child"] /\ r'["child"] = r["child"]
        BY <3>1 DEF IoctlRead, Goto, Types, CallTypes
      <4> QED BY <3>u, <4>1, <4>2
    <3>2. CASE ParseSkip("parent") \/ ParseReply("parent") \/ ParseError("parent")
      <4>1. PICK c : Parsing("parent", c)
        BY <3>2 DEF ParseSkip, ParseReply, ParseError
      <4>2. UNCHANGED <<call, refs, reply, pc, todo>> /\ r'["child"] = r["child"]
        BY <2>c, <3>2 DEF ParseSkip, ParseReply, ParseError, driverVars, Types, CallTypes
      <4>3. ChildBox' \subseteq ChildBox
        BY <4>1, <4>2, BoxesShrink
      <4> QED BY <3>u, <4>2, <4>3
    <3>3. CASE ParseTransaction("parent")
      <4>1. Parsing("parent", "txn") /\ UNCHANGED <<call, refs, reply, pc, r>>
        BY <3>3 DEF ParseTransaction
      <4>2. Owner(call["child"].target) = "parent"
        BY <2>c, <4>1, ParsesCaller
      <4>3. call["child"].target = 1
        BY <4>2 DEF Owner, Types, CallTypes, Targets
      <4> QED BY <3>u, <4>1, <4>3
    <3>4. CASE ParsedInLoop("parent")
      <4>1. r["parent"] = 1
        BY <2>c, <3>4 DEF ParsedInLoop, Serial
      <4>2. UNCHANGED <<call, refs, reply, r, todo, readbuf>> /\ pc'["child"] = pc["child"]
        BY <3>4, <4>1 DEF ParsedInLoop, Goto, driverVars, Types, CallTypes
      <4>3. ChildBox' \subseteq ChildBox
        BY <4>2, BoxesShrink
      <4> QED BY <3>u, <4>2, <4>3
    <3>5. ~IoctlWrite("parent") /\ ~IoctlFails("parent") /\ ~ParsedInCall("parent") /\ ~LoopIoctlFails("parent")
      BY <1>0, <2>c DEF IoctlWrite, IoctlFails, ParsedInCall, LoopIoctlFails
    <3> QED BY <1>5, <2>2, <3>1, <3>2, <3>3, <3>4, <3>5 DEF Library
  <2> QED BY <2>1, <2>2 DEF Procs
<1>6. CASE SvcMgrServes /\ UNCHANGED mainVars
  <2>1. UNCHANGED <<pc, r, reply, call, refs, at>> /\ at["child"] # "unborn"
    BY <1>1, <1>6 DEF SvcMgrServes, callVars, mainVars
  <2>2. PICK p : p = "child"
    OBVIOUS
  <2>3. p = Caller /\ Phase(p) /\ registered
    BY <1>c, <2>1, <2>2
  <2>4. PICK a \in {"data", "status", "ref"} :
              /\ call[p].code = "GET_SERVICE" /\ registered => a = "ref"
              /\ call[p].target = 0 /\ Waiting(p)
              /\ p = "child" => \A c \in ChildBox' : c.arg = a
    <3> HIDE DEF Calls
    <3>1. Types /\ Types' /\ Stages /\ Past /\ ServiceQueue
      BY DEF Calls
    <3> QED BY <1>6, <2>3, <3>1, ServesBox
  <2>5. call["child"].code = "GET_SERVICE"
    BY <1>0, <2>1, <2>2, <2>4 DEF Measuring, Waiting
  <2>6. \A c \in ChildBox' : c.arg = "ref"
    BY <2>2, <2>3, <2>4, <2>5
  <2> QED BY <1>6, <1>f, <2>1, <2>6 DEF GotReply
<1>7. CASE (SvcMgrForgets /\ UNCHANGED mainVars) \/ UNCHANGED vars
  <2>1. UNCHANGED <<pc, r, reply, call, refs, todo, readbuf, mainVars>>
    BY <1>7 DEF SvcMgrForgets, callVars, vars, libVars, driverVars
  <2>2. ChildBox' \subseteq ChildBox
    BY <2>1, BoxesShrink
  <2> QED BY <1>f, <2>1, <2>2 DEF GotReply
<1> QED BY <1>2, <1>3, <1>4, <1>5, <1>6, <1>7 DEF Next, Parent, Kernel

LEMMA ReportsStep ==
    ASSUME Calls, Calls', Calm, NoFault', [Next]_vars
    PROVE  Reports'
<1> USE ProcsType DEF Calls
<1>1. Reports /\ Measuring /\ reports \in Seq(SUBSET Nodes) /\ answers \in SUBSET Nodes
  BY DEF Calm, Types, MainTypes
<1>2. CASE Report
  <2>1. reports' = Append(reports, answers) /\ at["child"] = "ping" /\ pc["child"] = "main" /\ i = TEST_TIMES
    BY <1>2 DEF Report, At
  <2>2. answers = {"parent"}
    BY <1>1, <2>1, RoundsAssumption DEF Measuring
  <2>3. \A k \in DOMAIN reports' : (reports'[k] = reports[k] /\ k \in DOMAIN reports) \/ reports'[k] = answers
    BY <1>1, <2>1, AppendProperties
  <2> QED BY <1>1, <2>2, <2>3 DEF Reports
<1>3. CASE UNCHANGED reports
  BY <1>1, <1>3 DEF Reports
<1> QED BY <1>2, <1>3 DEF Next, Parent, svcmgr_publish, Published, Fork, Child, Reopen, svcmgr_lookup, LookedUp, StartRound,
        Ping, PingAnswered, PingFailed, vars, mainVars

LEMMA FlowInit == Init => FlowInv
<1> SUFFICES ASSUME Init PROVE FlowInv
  OBVIOUS
<1> USE ProcsType
<1>1. /\ \A p \in Procs : pc[p] = "main" /\ readbuf[p] = <<>> /\ err[p] = "none" /\ r[p] = 1
      /\ \A q \in Nodes : todo[q] = <<>> /\ alive[q]
      /\ at["child"] = "unborn" /\ at["parent"] = "publish" /\ pong_srv = 0 /\ reports = <<>>
      /\ call["child"].target = 0
  BY DEF Init, LibInit
<1>2. Smooth
  <2>1. "svcmgr" \in Nodes
    BY DEF Nodes
  <2> QED BY <1>1, <2>1, NoErrorFacts DEF Smooth, Open
<1>3. Publishing
  <2>1. ParentBox = {}
    BY <1>1, BuffersEmpty DEF ParentBox
  <2> QED BY <1>1, <2>1 DEF Publishing, GotReply
<1>4. Measuring /\ Reports
  BY <1>1 DEF Measuring, Reports
<1> QED BY <1>2, <1>3, <1>4 DEF FlowInv

LEMMA FlowInvariant == Spec => [](Calls /\ FlowInv)
<1>1. Calls /\ Calls' /\ FlowInv /\ [Next]_vars => FlowInv'
  <2> SUFFICES ASSUME Calls, Calls', FlowInv, [Next]_vars, NoFault' PROVE (Smooth /\ Publishing /\ Measuring /\ Reports)'
    BY DEF FlowInv
  <2>1. NoFault
    BY FaultsGrow DEF Calls, Types, RestTypes, NoFault
  <2>2. Calm
    BY <2>1 DEF Calm, FlowInv
  <2> QED BY <2>2, SmoothStep, PublishingStep, MeasuringStep, ReportsStep
<1> QED BY <1>1, FlowInit, CallsInvariant, PTL DEF Spec

LEMMA NoFaultSum ==
    ASSUME Calls
    PROVE  interrupts + failedWrites + loopErrors = 0 => NoFault
  BY DEF Calls, Types, RestTypes, NoFault

\* When no ioctl fails no call does: the driver refuses no transaction for
\* want of a buffer, of a handle or of a living server, and binder_parse never
\* returns -1.  It rests on one call being in progress at a time and on every
\* buffer but the ones in use having been given back.
THEOREM NoCallFailsCorrect == Spec => []NoCallFails
<1>1. Calls /\ FlowInv => NoCallFails
  BY NoFaultSum DEF FlowInv, Smooth, Open, NoCallFails
<1> QED BY <1>1, FlowInvariant, PTL

\* When no ioctl fails, a round that prints its time was answered by the pong
\* handler of the parent alone, never by the service manager: start_ping goes
\* on with handle 0 after a lookup that found nothing, but the service is
\* registered before the child is forked.
THEOREM ReportsMeasurePongCorrect == Spec => []ReportsMeasurePong
<1>1. Calls /\ FlowInv => ReportsMeasurePong
  BY NoFaultSum DEF FlowInv, Reports, ReportsMeasurePong
<1> QED BY <1>1, FlowInvariant, PTL

\* A process that sleeps in the ioctl of binder_call, with nothing to read and no
\* error to return.
Sleeps(p) == ~looping[p] /\ pc[p] = "read" /\ todo[p] = <<>> /\ err[p] = "none"

\* What node q has still to serve: queued for it, or read and not yet parsed.
Unserved(q) == Buffers(Fetched(q)) \cup Buffers(todo[q])

\* Whoever sleeps for an answer has its transaction with the one who owns the
\* handle it called, unless an ioctl was interrupted or a write failed.
NobodySleepsInVain ==
    interrupts = 0 /\ failedWrites = 0 =>
        \A p \in Procs : Sleeps(p) =>
            \E b \in Unserved(Owner(call[p].target)) :
                b.cmd = "txn" /\ b.n = call[p].n /\ b.peer = p

\* The parent, the child and the service manager never all wait for each other:
\* a caller that sleeps has something for its server to serve.  That is what
\* ChildFinishes rests on besides fairness, for any number of rounds and pings.
THEOREM NobodySleepsInVainCorrect == Spec => []NobodySleepsInVain
<1>1. Calls => NobodySleepsInVain
  <2> SUFFICES ASSUME Calls, interrupts = 0, failedWrites = 0, NEW p \in Procs, Sleeps(p)
               PROVE  \E b \in Unserved(Owner(call[p].target)) :
                         b.cmd = "txn" /\ b.n = call[p].n /\ b.peer = p
    BY DEF NobodySleepsInVain
  <2>1. p = "parent" <=> at["child"] = "unborn"
    BY DEF Calls, Stages, Procs, Sleeps
  <2>2. Phase(p)
    BY <2>1 DEF Calls, SerialInv, Serial, Procs
  <2>3. readbuf[p] = <<>> /\ Waiting(p) /\ Fetched(p) = <<>>
    BY DEF Calls, AllLocal, Local, Reads, Sleeps, Waiting, Fetched
  <2>4. ~Idle(p) /\ ~Lost(p)
    BY <2>3 DEF Idle, Lost
  <2>5. ~Refused(p)
    BY <2>3, NoErrorFacts DEF Refused, Sleeps
  <2>6. ~Answered(p)
    <3> SUFFICES ASSUME NEW b, Only(p, b) PROVE FALSE
      BY DEF Answered, AnsweredWith
    <3>1. Single(<<>>, b)
      BY <2>3 DEF Only, Has, Sleeps
    <3> QED BY <3>1 DEF Single
  <2>7. PICK b : AskedWith(p, b)
    BY <2>2, <2>4, <2>5, <2>6 DEF Phase, Asked
  <2>8. Has(Owner(call[p].target), b)
    BY <2>7 DEF AskedWith, Only
  <2>9. b \in Unserved(Owner(call[p].target))
    BY <2>8, SingleBuffers DEF Has, Unserved
  <2> QED BY <2>7, <2>9 DEF AskedWith
<1> QED BY <1>1, CallsInvariant, PTL

=============================================================================
