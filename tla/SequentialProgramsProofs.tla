---------------------- MODULE SequentialProgramsProofs ----------------------
(***************************************************************************)
(* Proofs about the programs that do one thing after the other: OwnTty for *)
(* any set of faults and of closed files, BenchNet for any stream, buffer  *)
(* and width of an int, BenchSqlite for any number of rows, and NumToStr   *)
(* for any numbers that its arrays have room for.                          *)
(***************************************************************************)
EXTENDS SequentialPrograms, SequenceTheorems,
        NaturalsInduction, WellFoundedInduction, TLAPS

(* own-tty *)

Started == {"setsid", "ctty", "execv", "program"}
TtyLabels == Started \cup {"none", "usage", "open", "dup2", "close", "fork", "wait", "gone"}

TtyType ==
    /\ pc \in [Procs -> TtyLabels]
    /\ files \in [Procs -> [Fds -> {"closed", "caller", "tty"}]]
    /\ fd \in Fds
    /\ leader \in [Procs -> {"none", "group", "session"}]
    /\ ctty \in [Procs -> BOOLEAN]

\* The standard files are the terminal, but for the one close(fd) has closed.
SetUp(p) == files[p][3] = "closed" /\ \A f \in 0..2 \ {fd} : files[p][f] = "tty"

\* The inductive invariant: what each call before the fork leaves to the next.
TtyInv ==
    /\ TtyType
    /\ pc["child"] # "none" => pc["parent"] \in {"wait", "gone"}
    /\ pc["parent"] \in {"usage", "open"} =>
          /\ files["parent"][3] = "closed"
          /\ \A f \in 0..2 : files["parent"][f] = "closed" => f \in MayBeClosed
    /\ pc["child"] # "none" => fd \in MayBeClosed \/ fd = 3
    /\ pc["parent"] \in Started \cup {"dup2", "close", "fork", "wait"} =>
          fd \in MayBeClosed \/ fd = 3
    /\ pc["parent"] = "dup2" =>
          files["parent"][fd] = "tty" /\ (fd # 3 => files["parent"][3] = "closed")
    /\ pc["parent"] = "close" =>
          /\ fd # 3 => files["parent"][3] = "closed"
          /\ \A f \in 0..2 : files["parent"][f] = "tty"
    /\ pc["parent"] = "fork" => SetUp("parent")
    /\ \A p \in Procs : pc[p] \in Started => SetUp(p)
    /\ \A p \in Procs : pc[p] \in {"execv", "program"} =>
          files[p][0] = "tty" /\ leader[p] = "session" /\ ctty[p]

LEMMA TtyInvInit == TtyInit => TtyInv
<1> SUFFICES ASSUME TtyInit PROVE TtyInv
  OBVIOUS
<1>1. PICK closed \in SUBSET MayBeClosed :
          files = [p \in Procs |-> [f \in Fds |->
                      IF f = 3 \/ f \in closed THEN "closed" ELSE "caller"]]
  BY DEF TtyInit
<1>2. TtyType /\ pc["parent"] = "usage" /\ pc["child"] = "none"
  <2>1. fd \in Fds /\ 3 \in Fds
    BY DEF TtyInit, Fds
  <2> QED BY <1>1, <2>1 DEF TtyInit, TtyType, TtyLabels, Started, Procs
<1>3. /\ files["parent"][3] = "closed"
      /\ \A f \in 0..2 : files["parent"][f] = "closed" => f \in MayBeClosed
  BY <1>1 DEF Procs, Fds
<1>4. \A p \in Procs : pc[p] \notin Started
  BY <1>2 DEF Procs, Started
<1> QED BY <1>2, <1>3, <1>4 DEF TtyInv, Started

LEMMA TtyInvStep == TtyInv /\ [TtyNext]_ttyVars => TtyInv'
<1> SUFFICES ASSUME TtyInv, [TtyNext]_ttyVars PROVE TtyInv'
  OBVIOUS
<1> USE DEF Procs, Goto, Ends, Started, TtyLabels
<1>0. /\ DOMAIN pc = Procs /\ pc["parent"] \in TtyLabels /\ pc["child"] \in TtyLabels
      /\ Fds = {0, 1, 2, 3}
  BY DEF TtyInv, TtyType, Fds
<1>1. CASE Usage
  BY <1>0, <1>1 DEF Usage, TtyInv, TtyType, SetUp
<1>2. CASE Open
  <2>1. CASE Ends("parent", Exited(1)) /\ UNCHANGED <<files, fd>>
    BY <1>0, <1>2, <2>1 DEF Open, TtyInv, TtyType, SetUp
  <2>2. CASE /\ fd' = CHOOSE f \in Fds : /\ files["parent"][f] = "closed"
                                         /\ \A g \in 0..(f - 1) : files["parent"][g] # "closed"
             /\ files' = [files EXCEPT !["parent"][fd'] = "tty"]
             /\ Goto("parent", "dup2")
    <3>1. \E f \in Fds : /\ files["parent"][f] = "closed"
                         /\ \A g \in 0..(f - 1) : files["parent"][g] # "closed"
      <4>1. files["parent"][3] = "closed"
        BY <1>2 DEF Open, TtyInv
      <4>2. 0..(0 - 1) = {} /\ 0..(1 - 1) = {0} /\ 0..(2 - 1) = {0, 1} /\ 0..(3 - 1) = {0, 1, 2}
        OBVIOUS
      <4> QED BY <4>1, <4>2, <1>0
    <3>2. fd' \in Fds /\ files["parent"][fd'] = "closed"
      BY <2>2, <3>1
    <3>3. fd' \in MayBeClosed \/ fd' = 3
      BY <3>2, <1>0, <1>2 DEF Open, TtyInv
    <3>4. /\ pc' = [pc EXCEPT !["parent"] = "dup2"] /\ pc["parent"] = "open"
          /\ pc["child"] = "none" /\ UNCHANGED <<leader, ctty>>
      BY <1>2, <2>2 DEF Open, TtyInv
    <3>5. /\ files' \in [Procs -> [Fds -> {"closed", "caller", "tty"}]]
          /\ files'["parent"][fd'] = "tty"
          /\ fd' # 3 => files'["parent"][3] = "closed"
      BY <1>0, <2>2, <3>2, <3>4 DEF TtyInv, TtyType
    <3> QED BY <1>0, <3>2, <3>3, <3>4, <3>5 DEF TtyInv, TtyType
  <2> QED BY <1>2, <2>1, <2>2 DEF Open
<1>3. CASE dup2_wrap
  <2>1. CASE Ends("parent", Exited(1)) /\ UNCHANGED files
    BY <1>0, <1>3, <2>1 DEF dup2_wrap, TtyInv, TtyType, SetUp
  <2>2. CASE /\ files' = [files EXCEPT !["parent"] =
                           [f \in Fds |-> IF f \in 0..2 THEN @[fd] ELSE @[f]]]
             /\ Goto("parent", "close")
    <3>1. /\ pc' = [pc EXCEPT !["parent"] = "close"] /\ pc["parent"] = "dup2"
          /\ pc["child"] = "none" /\ UNCHANGED <<fd, leader, ctty>>
          /\ files["parent"][fd] = "tty" /\ fd \in Fds
          /\ fd # 3 => files["parent"][3] = "closed"
      BY <1>3, <2>2 DEF dup2_wrap, TtyInv, TtyType
    <3>2. files'["parent"] = [f \in Fds |-> IF f \in 0..2 THEN "tty" ELSE files["parent"][f]]
      BY <2>2, <3>1 DEF TtyInv, TtyType
    <3>3. files' \in [Procs -> [Fds -> {"closed", "caller", "tty"}]]
      BY <2>2, <3>1 DEF TtyInv, TtyType
    <3>4. /\ \A f \in 0..2 : files'["parent"][f] = "tty"
          /\ fd # 3 => files'["parent"][3] = "closed"
      BY <1>0, <3>1, <3>2
    <3> QED BY <1>0, <3>1, <3>3, <3>4 DEF TtyInv, TtyType
  <2> QED BY <1>3, <2>1, <2>2 DEF dup2_wrap
<1>4. CASE CloseFd
  <2>1. /\ pc' = [pc EXCEPT !["parent"] = "fork"] /\ pc["parent"] = "close"
        /\ pc["child"] = "none" /\ UNCHANGED <<fd, leader, ctty>> /\ fd \in Fds
        /\ files' = [files EXCEPT !["parent"][fd] = "closed"]
    BY <1>4 DEF CloseFd, TtyInv, TtyType
  <2>2. files' \in [Procs -> [Fds -> {"closed", "caller", "tty"}]]
    BY <2>1 DEF TtyInv, TtyType
  <2>3. \A f \in Fds : f # fd => files'["parent"][f] = files["parent"][f]
    BY <2>1 DEF TtyInv, TtyType
  <2>4. files'["parent"][fd] = "closed"
    BY <2>1 DEF TtyInv, TtyType
  <2>5. SetUp("parent")'
    <3>1. files'["parent"][3] = "closed"
      BY <1>0, <2>1, <2>3, <2>4 DEF TtyInv
    <3>2. \A f \in 0..2 \ {fd} : files'["parent"][f] = "tty"
      BY <1>0, <2>1, <2>3 DEF TtyInv
    <3> QED BY <2>1, <3>1, <3>2 DEF SetUp
  <2> QED BY <1>0, <2>1, <2>2, <2>5 DEF TtyInv, TtyType
<1>5. CASE Fork
  <2>0. /\ pc["parent"] = "fork" /\ pc["child"] = "none" /\ SetUp("parent")
        /\ fd \in MayBeClosed \/ fd = 3
        /\ UNCHANGED <<fd, ctty>>
    BY <1>5 DEF Fork, TtyInv
  <2>1. CASE Goto("parent", "setsid") /\ UNCHANGED <<files, leader>>
    BY <1>0, <2>0, <2>1 DEF TtyInv, TtyType, SetUp
  <2>2. CASE /\ pc' = [pc EXCEPT !["parent"] = "wait", !["child"] = "setsid"]
             /\ files' = [files EXCEPT !["child"] = files["parent"]]
             /\ leader' = [leader EXCEPT !["child"] = "none"]
    <3>1. pc'["parent"] = "wait" /\ pc'["child"] = "setsid"
      BY <1>0, <2>2
    <3>2. TtyType'
      BY <2>0, <2>2 DEF TtyInv, TtyType
    <3>3. SetUp("child")'
      BY <2>0, <2>2 DEF SetUp, TtyInv, TtyType
    <3> QED BY <2>0, <3>1, <3>2, <3>3 DEF TtyInv
  <2> QED BY <1>5, <2>1, <2>2 DEF Fork
<1>6. CASE WaitChild
  BY <1>0, <1>6 DEF WaitChild, TtyInv, TtyType, SetUp
<1>7. ASSUME NEW p \in Procs, SetSid(p) PROVE TtyInv'
  BY <1>0, <1>7 DEF SetSid, TtyInv, TtyType, SetUp
<1>8. ASSUME NEW p \in Procs, SetCtty(p) PROVE TtyInv'
  <2>0. pc[p] = "ctty" /\ UNCHANGED <<files, fd, leader>>
    BY <1>8 DEF SetCtty
  <2>1. CASE Ends(p, Exited(1)) /\ UNCHANGED ctty
    BY <1>0, <2>0, <2>1 DEF TtyInv, TtyType, SetUp
  <2>2. CASE /\ leader[p] = "session" /\ files[p][0] = "tty"
             /\ ctty' = [ctty EXCEPT ![p] = TRUE] /\ Goto(p, "execv")
    <3>1. /\ pc' = [pc EXCEPT ![p] = "execv"] /\ TtyType' /\ SetUp(p)
      BY <2>0, <2>2 DEF TtyInv, TtyType
    <3>2. \A x \in Procs : pc'[x] \in Started => SetUp(x)'
      BY <1>0, <2>0, <3>1 DEF TtyInv, SetUp
    <3>3. \A x \in Procs : pc'[x] \in {"execv", "program"} =>
             files'[x][0] = "tty" /\ leader'[x] = "session" /\ ctty'[x]
      <4> TAKE x \in Procs
      <4>1. ctty'[p] = TRUE /\ (x # p => ctty'[x] = ctty[x])
        BY <2>2 DEF TtyInv, TtyType
      <4>2. pc'[p] = "execv" /\ (x # p => pc'[x] = pc[x])
        BY <1>0, <3>1
      <4>3. CASE x = p
        BY <2>0, <2>2, <4>1, <4>3
      <4>4. CASE x # p
        BY <2>0, <4>1, <4>2, <4>4 DEF TtyInv
      <4> QED BY <4>3, <4>4
    <3>4. /\ pc'["child"] # "none" => pc'["parent"] \in {"wait", "gone"}
          /\ pc'["parent"] \in {"wait", "gone", "execv"} \/ pc'["parent"] = pc["parent"]
          /\ pc'["child"] # "none" => pc["child"] # "none"
      BY <1>0, <2>0, <3>1 DEF TtyInv
    <3>5. pc'["parent"] = "execv" => pc["parent"] = "ctty" \/ pc["parent"] = "execv"
      BY <1>0, <2>0, <3>1
    <3>6. pc'["parent"] = "wait" => pc["parent"] = "wait"
      BY <1>0, <2>0, <3>1
    <3> HIDE DEF Procs
    <3> QED BY <2>0, <3>1, <3>2, <3>3, <3>4, <3>5, <3>6 DEF TtyInv, SetUp
  <2> QED BY <1>8, <2>1, <2>2 DEF SetCtty
<1>9. ASSUME NEW p \in Procs, Execv(p) PROVE TtyInv'
  BY <1>0, <1>9 DEF Execv, TtyInv, TtyType, SetUp
<1>10. ASSUME NEW p \in Procs, ProgramEnds(p) PROVE TtyInv'
  BY <1>0, <1>10 DEF ProgramEnds, TtyInv, TtyType, SetUp
<1>11. CASE UNCHANGED ttyVars
  BY <1>11 DEF ttyVars, TtyInv, TtyType, SetUp
<1> QED BY <1>1, <1>2, <1>3, <1>4, <1>5, <1>6, <1>7, <1>8, <1>9, <1>10, <1>11 DEF TtyNext

\* Whatever fails on the way, the program is run with the terminal as its files
\* and as its controlling terminal, or not at all.
THEOREM ProgramOwnsTtyCorrect == TtySpec => []ProgramOwnsTty
<1>1. TtyInv => ProgramOwnsTty
  BY DEF TtyInv, ProgramOwnsTty, SetUp, Procs, Started
<1> QED BY <1>1, TtyInvInit, TtyInvStep, PTL DEF TtySpec

-----------------------------------------------------------------------------
(* bench-net *)

\* The inductive invariant.
NetInv ==
    /\ stream \in Nat /\ queued \in Nat /\ received \in Nat
    /\ received + queued <= stream
    /\ received < IntLimit => transmitted = received
    /\ at \in {"log", "done"} /\ r # -1 => received = stream
    /\ at = "done" => logged = IntDiv(transmitted, Unit)

\* A sum that an int can hold is what adding ints gives.
LEMMA AsIntValue == ASSUME NEW x \in Nat, x < IntLimit PROVE AsInt(x) = x
<1>1. IntLimit \in Nat
  BY SizesAssumption
<1>2. x + IntLimit \in 0..(2 * IntLimit - 1)
  BY <1>1
<1>3. (x + IntLimit) % (2 * IntLimit) = x + IntLimit
  BY <1>1, <1>2
<1> QED BY <1>1, <1>3 DEF AsInt

LEMMA DivBounds ==
    ASSUME NEW x \in Nat, NEW d \in Nat \ {0}
    PROVE  (x \div d) * d <= x /\ x < ((x \div d) + 1) * d
  OBVIOUS

LEMMA NetInvStep == NetInv /\ [NetNext]_netVars => NetInv'
<1> SUFFICES ASSUME NetInv, [NetNext]_netVars PROVE NetInv'
  OBVIOUS
<1>0. BufSize \in Nat /\ BufSize > 0 /\ IntLimit \in Nat
  BY SizesAssumption
<1>1. CASE Setup
  <2>1. at' \notin {"log", "done"} /\ UNCHANGED <<stream, queued, received, transmitted, r, logged>>
    BY <1>1 DEF Setup
  <2> QED BY <2>1 DEF NetInv
<1>2. CASE Arrive
  BY <1>2 DEF Arrive, NetInv
<1>3. CASE ReadSome
  <2>0. PICK n : n = r'
    OBVIOUS
  <2>1. n \in Nat /\ n <= queued /\ at = "read"
    BY <1>0, <1>3, <2>0 DEF ReadSome, Min2, NetInv
  <2>2. queued' = queued - n /\ received' = received + n /\ at' = "read" /\ UNCHANGED stream
    BY <1>3, <2>0 DEF ReadSome
  <2>3. stream \in Nat /\ queued \in Nat /\ received \in Nat /\ received + queued <= stream
    BY DEF NetInv
  <2>4. transmitted' = AsInt(transmitted + n)
    BY <1>3, <2>0 DEF ReadSome
  <2>5. received' < IntLimit => transmitted' = received'
    <3> SUFFICES ASSUME received' < IntLimit PROVE transmitted' = received'
      OBVIOUS
    <3>1. received < IntLimit /\ received + n \in Nat /\ received + n < IntLimit
      BY <1>0, <2>1, <2>2, <2>3
    <3>2. transmitted = received
      BY <3>1 DEF NetInv
    <3>3. AsInt(received + n) = received + n
      BY <3>1, AsIntValue
    <3> QED BY <2>2, <2>4, <3>2, <3>3
  <2>6. stream' \in Nat /\ queued' \in Nat /\ received' \in Nat /\ received' + queued' <= stream'
    BY ONLY <2>1, <2>2, <2>3
  <2> QED BY <2>2, <2>5, <2>6 DEF NetInv
<1>4. CASE ReadEnds
  BY <1>4 DEF ReadEnds, NetInv
<1>5. CASE LogReceived
  BY <1>5 DEF LogReceived, NetInv
<1>6. CASE UNCHANGED netVars
  BY <1>6 DEF netVars, NetInv
<1> QED BY <1>1, <1>2, <1>3, <1>4, <1>5, <1>6 DEF NetNext

\* However the stream was split, the log names what was received, and that is
\* all of it unless a read failed.
THEOREM LogIsReceivedCorrect == NetSpec => []LogIsReceived
<1>1. NetInit => NetInv
  BY SizesAssumption DEF NetInit, NetInv
<1>2. ASSUME NetInv PROVE LogIsReceived
  <2> SUFFICES ASSUME at = "done" PROVE LogIsReceived
    BY DEF LogIsReceived
  <2>1. r # -1 => received = stream
    BY <1>2 DEF NetInv
  <2>2. ASSUME received < IntLimit
        PROVE  logged * Unit <= received /\ received < (logged + 1) * Unit
    <3>1. received \in Nat /\ transmitted = received /\ logged = IntDiv(received, Unit)
      BY <1>2, <2>2 DEF NetInv
    <3>2. logged = received \div Unit
      BY <3>1 DEF IntDiv
    <3> QED BY <3>1, <3>2, DivBounds, SizesAssumption
  <2> QED BY <2>1, <2>2 DEF LogIsReceived
<1> QED BY <1>1, <1>2, NetInvStep, PTL DEF NetSpec

-----------------------------------------------------------------------------
(* bench-sqlite *)

\* The table holds the keys 0 .. n - 1, in this order.
Keys(n) == table \in Seq(Nat) /\ Len(table) = n /\ \A k \in 1..n : table[k] = k - 1

\* The inductive invariant: a row is in the table from its step on, and the loop
\* is left between two statements.
SqliteInv ==
    /\ row \in Nat /\ row <= ROWS
    /\ dbpc = "begin" => Keys(0)
    /\ dbpc = "insert" =>
          /\ call # "prepare" => row < ROWS
          /\ Keys(IF call = "reset" THEN row + 1 ELSE row)
    /\ dbpc \in {"commit", "close", "log"} => Keys(ROWS)
    /\ dbpc \in {"close", "log"} => tx = "committed" \/ printed

LEMMA KeysAppend ==
    ASSUME NEW n \in Nat, Keys(n), table' = Append(table, n)
    PROVE  Keys(n + 1)'
<1>1. table' \in Seq(Nat) /\ Len(table') = n + 1 /\ table'[n + 1] = n
  BY DEF Keys
<1>2. \A k \in 1..n : table'[k] = k - 1
  BY DEF Keys
<1>3. \A k \in 1..(n + 1) : k \in 1..n \/ k = n + 1
  OBVIOUS
<1>4. \A k \in 1..(n + 1) : table'[k] = k - 1
  BY <1>1, <1>2, <1>3
<1> QED BY <1>1, <1>4 DEF Keys

LEMMA KeysSame == ASSUME NEW n, UNCHANGED table PROVE Keys(n)' <=> Keys(n)
  BY DEF Keys

LEMMA SqliteInvStep == SqliteInv /\ [SqliteNext]_sqliteVars => SqliteInv'
<1> SUFFICES ASSUME SqliteInv, [SqliteNext]_sqliteVars PROVE SqliteInv'
  OBVIOUS
<1>0. ROWS \in Nat
  BY RowsAssumption
<1>1. CASE prepare_db
  BY <1>1 DEF prepare_db, SqliteInv
<1>2. CASE CreateTable
  <2>1. UNCHANGED row /\ (dbpc' = "aborted" \/ (dbpc' = "begin" /\ table' = <<>>))
    BY <1>2 DEF CreateTable, Checked, Abort
  <2>2. table' = <<>> => Keys(0)'
    BY DEF Keys
  <2> QED BY <2>1, <2>2 DEF SqliteInv
<1>3. CASE Begin
  <2>1. Keys(0) /\ dbpc = "begin" /\ row \in Nat /\ row <= ROWS
    BY <1>3 DEF Begin, SqliteInv
  <2>2. \/ dbpc' = "aborted" /\ UNCHANGED row
        \/ dbpc' = "begin" /\ UNCHANGED <<row, table>>
        \/ dbpc' = "insert" /\ row' = 0 /\ call' = "prepare" /\ UNCHANGED table
    BY <1>3, <2>1 DEF Begin, Statement, Checked, Abort
  <2>3. UNCHANGED table => Keys(0)'
    BY <2>1, KeysSame
  <2> QED BY <1>0, <2>1, <2>2, <2>3 DEF SqliteInv
<1>4. CASE Insert
  <2>1. PICK n \in Nat : n = row /\ row < ROWS /\ dbpc = "insert"
    BY <1>4 DEF Insert, SqliteInv
  <2>2. CASE dbpc' = "aborted" /\ UNCHANGED row
    BY <2>2 DEF SqliteInv
  <2>3. CASE call = "prepare" /\ call' = "step" /\ UNCHANGED <<dbpc, row, table>>
    BY <2>1, <2>3, KeysSame DEF SqliteInv
  <2>4. CASE call = "step" /\ call' = "reset" /\ table' = Append(table, row) /\ UNCHANGED <<dbpc, row>>
    <3>1. Keys(n)
      BY <2>1, <2>4 DEF SqliteInv
    <3>2. Keys(n + 1)'
      BY <2>1, <2>4, <3>1, KeysAppend
    <3> QED BY <2>1, <2>4, <3>2 DEF SqliteInv
  <2>5. CASE call = "reset" /\ call' = "prepare" /\ row' = row + 1 /\ UNCHANGED <<dbpc, table>>
    <3>1. Keys(n + 1)
      BY <2>1, <2>5 DEF SqliteInv
    <3>2. Keys(n + 1)'
      BY <2>5, <3>1, KeysSame
    <3>3. row' = n + 1 /\ n + 1 <= ROWS
      BY <1>0, <2>1, <2>5
    <3> QED BY <2>1, <2>5, <3>2, <3>3 DEF SqliteInv
  <2> QED BY <1>4, <2>2, <2>3, <2>4, <2>5 DEF Insert, Statement, Checked, Abort
<1>5. CASE InsertDone
  <2>1. Keys(ROWS)
    BY <1>0, <1>5 DEF InsertDone, SqliteInv
  <2>2. Keys(ROWS)'
    BY <1>5, <2>1, KeysSame DEF InsertDone
  <2> QED BY <1>5, <2>2 DEF InsertDone, SqliteInv
<1>6. CASE Commit \/ Close \/ LogTime
  <2>1. UNCHANGED <<table, row>> /\ dbpc \in {"commit", "close", "log"}
    BY <1>6 DEF Commit, Close, LogTime
  <2>2. Keys(ROWS)'
    BY <2>1, KeysSame DEF SqliteInv
  <2> QED BY <1>6, <2>1, <2>2 DEF Commit, Close, LogTime, SqliteInv
<1>7. CASE UNCHANGED sqliteVars
  BY <1>7 DEF sqliteVars, SqliteInv, Keys
<1> QED BY <1>1, <1>2, <1>3, <1>4, <1>5, <1>6, <1>7 DEF SqliteNext

\* The time that is logged is the time of all rows, in one transaction.
THEOREM TimeMeansRowsCorrect == SqliteSpec => []TimeMeansRows
<1>1. SqliteInit => SqliteInv
  BY RowsAssumption DEF SqliteInit, SqliteInv
<1>2. ASSUME SqliteInv PROVE TimeMeansRows
  <2> SUFFICES ASSUME dbpc \in {"close", "log"} PROVE TimeMeansRows
    BY DEF TimeMeansRows
  <2>1. Keys(ROWS) /\ (tx = "committed" \/ printed)
    BY <1>2 DEF SqliteInv
  <2>2. table = [k \in 1..ROWS |-> k - 1]
    BY <2>1 DEF Keys
  <2> QED BY <2>1, <2>2 DEF TimeMeansRows
<1> QED BY <1>1, <1>2, SqliteInvStep, PTL DEF SqliteSpec

-----------------------------------------------------------------------------
(* num_to_str.  What the digits denote is a recursive function of their    *)
(* number, so the argument needs induction.  It is taken in first-order    *)
(* form, over a set in place of a predicate, from the fact that a set of   *)
(* naturals has a least element.                                           *)

\* A set that holds 0, and with a number the next one, holds all up to N.
LEMMA SetInduction ==
    ASSUME NEW N \in Nat, NEW S, 0 \in S,
           \A n \in 0..(N - 1) : n \in S => n + 1 \in S
    PROVE  \A n \in 0..N : n \in S
<1> SUFFICES ASSUME NEW m \in 0..N, m \notin S PROVE FALSE
  OBVIOUS
<1>1. PICK R : R = {n \in 0..N : n \notin S}
  OBVIOUS
<1>2. R \in SUBSET Nat /\ R # {}
  BY <1>1
<1>3. \E n \in R : \A j \in R : ~ (<<j, n>> \in OpToRel(<, Nat))
  BY <1>2, NatLessThanWellFounded, WFMin
<1>4. \A j, n \in Nat : j < n => <<j, n>> \in OpToRel(<, Nat)
  BY Zenon DEF OpToRel
<1>5. PICK n \in R : \A j \in R : ~(j < n)
  BY <1>2, <1>3, <1>4, Zenon
<1>6. n \in 0..N /\ n \notin S /\ n # 0
  BY <1>1
<1>7. n - 1 \in 0..(N - 1) /\ n - 1 < n /\ (n - 1) + 1 = n /\ n - 1 \in 0..N
  BY <1>6
<1>8. n - 1 \in S
  BY <1>1, <1>5, <1>7
<1> QED BY <1>6, <1>7, <1>8

\* Two functions that start alike and go on alike are alike.
Alike(f, g, N) ==
    f[0] = g[0] /\ \A n \in 1..N : f[n - 1] = g[n - 1] => f[n] = g[n]

LEMMA SameRecursion ==
    ASSUME NEW N \in Nat, NEW f, NEW g, Alike(f, g, N)
    PROVE  \A n \in 0..N : f[n] = g[n]
<1> USE DEF Alike
<1>1. PICK S : S = {n \in 0..N : f[n] = g[n]}
  OBVIOUS
<1>2. 0 \in S
  BY <1>1
<1>3. \A n \in 0..(N - 1) : n \in S => n + 1 \in S
  <2> SUFFICES ASSUME NEW n \in 0..(N - 1), n \in S PROVE n + 1 \in S
    OBVIOUS
  <2>1. n + 1 \in 1..N /\ n + 1 \in 0..N /\ (n + 1) - 1 = n
    OBVIOUS
  <2> QED BY <1>1, <2>1
<1>4. \A n \in 0..N : n \in S
  BY ONLY <1>2, <1>3, N \in Nat, SetInduction, Zenon
<1> QED BY <1>1, <1>4

\* f starts at a, and G[n] takes its value at n - 1 to the one at n.
Steps(f, X, a, G, N) ==
    /\ f \in [0..N -> X]
    /\ f[0] = a
    /\ \A n \in 1..N : f[n] = G[n][f[n - 1]]

\* There is such a function.
LEMMA Iterate ==
    ASSUME NEW N \in Nat, NEW X, NEW a \in X, NEW G \in [1..N -> [X -> X]]
    PROVE  \E f : Steps(f, X, a, G, N)
<1>1. PICK S : S = {n \in 0..N : \E f : Steps(f, X, a, G, n)}
  OBVIOUS
<1>2. 0 \in S
  <2>1. Steps([n \in 0..0 |-> a], X, a, G, 0)
    BY DEF Steps
  <2> QED BY <1>1, <2>1
<1>3. \A n \in 0..(N - 1) : n \in S => n + 1 \in S
  <2> SUFFICES ASSUME NEW n \in 0..(N - 1), n \in S PROVE n + 1 \in S
    OBVIOUS
  <2>1. PICK f : Steps(f, X, a, G, n)
    BY <1>1
  <2>2. n + 1 \in 1..N /\ n + 1 \in 0..N /\ n \in 0..n
    OBVIOUS
  <2>3. G[n + 1][f[n]] \in X
    BY <2>1, <2>2 DEF Steps
  <2>4. PICK g : g = [m \in 0..(n + 1) |-> IF m = n + 1 THEN G[n + 1][f[n]] ELSE f[m]]
    OBVIOUS
  <2>5. \A m \in 0..n : g[m] = f[m] /\ g[m] \in X
    BY <2>1, <2>4 DEF Steps
  <2>6. g[n + 1] = G[n + 1][f[n]]
    BY <2>4
  <2>7. g \in [0..(n + 1) -> X]
    BY <2>1, <2>3, <2>4 DEF Steps
  <2>8. ASSUME NEW m \in 1..(n + 1) PROVE g[m] = G[m][g[m - 1]]
    <3>1. CASE m = n + 1
      BY <2>2, <2>5, <2>6, <3>1
    <3>2. CASE m # n + 1
      <4>1. m \in 1..n /\ m \in 0..n /\ m - 1 \in 0..n
        BY <3>2
      <4> QED BY <2>1, <2>5, <4>1 DEF Steps
    <3> QED BY <3>1, <3>2
  <2>9. g[0] = a
    BY <2>1, <2>5 DEF Steps
  <2>10. Steps(g, X, a, G, n + 1)
    BY <2>7, <2>8, <2>9 DEF Steps
  <2> QED BY <1>1, <2>2, <2>10
<1>4. \A n \in 0..N : n \in S
  BY ONLY <1>2, <1>3, N \in Nat, SetInduction, Zenon
<1> QED BY <1>1, <1>4

-----------------------------------------------------------------------------
\* v[n] is what the first n digits denote.
Horner(v, ds) ==
    /\ v \in [0..Len(ds) -> Nat]
    /\ v[0] = 0
    /\ \A n \in 1..Len(ds) : v[n] = 10 * v[n - 1] + ds[n]

\* The recursive definition of Value has the function it asks for.
LEMMA ValueSteps ==
    ASSUME NEW ds \in Seq(Nat)
    PROVE  \E v : Horner(v, ds) /\ Value(ds) = v[Len(ds)]
<1> DEFINE Rec(f) == [n \in 0..Len(ds) |-> IF n = 0 THEN 0 ELSE 10 * f[n - 1] + ds[n]]
<1>0. Len(ds) \in Nat /\ \A n \in 1..Len(ds) : ds[n] \in Nat
  OBVIOUS
<1>1. PICK G : G = [n \in 1..Len(ds) |-> [x \in Nat |-> 10 * x + ds[n]]]
  OBVIOUS
<1>2. G \in [1..Len(ds) -> [Nat -> Nat]]
  <2>1. ASSUME NEW n \in 1..Len(ds) PROVE [x \in Nat |-> 10 * x + ds[n]] \in [Nat -> Nat]
    BY <1>0
  <2> QED BY <1>1, <2>1
<1>3. PICK f : Steps(f, Nat, 0, G, Len(ds))
  BY ONLY <1>0, <1>2, 0 \in Nat, Iterate, Zenon
<1>4. f = Rec(f)
  <2>1. ASSUME NEW n \in 0..Len(ds) PROVE f[n] = Rec(f)[n]
    <3>1. CASE n = 0
      BY <3>1, <1>3 DEF Steps
    <3>2. CASE n # 0
      <4>1. n \in 1..Len(ds) /\ n - 1 \in 0..Len(ds)
        BY <1>0, <3>2
      <4>2. f[n - 1] \in Nat /\ f[n] = G[n][f[n - 1]]
        BY <1>3, <4>1 DEF Steps
      <4> QED BY <1>1, <3>2, <4>1, <4>2
    <3> QED BY <3>1, <3>2
  <2> QED BY <2>1, <1>3 DEF Steps
<1>5. PICK v : v = CHOOSE h : h = Rec(h)
  OBVIOUS
<1>6. v = Rec(v)
  BY <1>4, <1>5
<1>7. Value(ds) = v[Len(ds)]
  BY <1>5 DEF Value
<1>8. \A n \in 0..Len(ds) : v[n] = f[n]
  <2>1. v[0] = f[0]
    BY <1>0, <1>6, <1>4
  <2>2. \A n \in 1..Len(ds) : v[n - 1] = f[n - 1] => v[n] = f[n]
    <3> SUFFICES ASSUME NEW n \in 1..Len(ds), v[n - 1] = f[n - 1] PROVE v[n] = f[n]
      OBVIOUS
    <3>1. Rec(v)[n] = 10 * v[n - 1] + ds[n] /\ Rec(f)[n] = 10 * f[n - 1] + ds[n]
      BY <1>0
    <3> QED BY <1>4, <1>6, <3>1
  <2>3. Alike(v, f, Len(ds))
    BY ONLY <2>1, <2>2, Zenon DEF Alike
  <2> QED BY ONLY <2>3, <1>0, SameRecursion, Zenon
<1>9. Horner(v, ds)
  <2>1. v \in [0..Len(ds) -> Nat]
    <3>1. v = [n \in 0..Len(ds) |-> v[n]]
      BY <1>6
    <3> QED BY <3>1, <1>3, <1>8 DEF Steps
  <2>2. v[0] = 0
    BY <1>6, <1>0
  <2>3. ASSUME NEW n \in 1..Len(ds) PROVE v[n] = 10 * v[n - 1] + ds[n]
    <3>1. n \in 0..Len(ds) /\ n # 0
      BY <1>0
    <3>2. Rec(v)[n] = 10 * v[n - 1] + ds[n]
      BY <3>1, Zenon
    <3> QED BY <1>6, <3>2, Zenon
  <2> QED BY <2>1, <2>2, <2>3 DEF Horner
<1> QED BY <1>7, <1>9

\* The value of no digit, and of one digit more.
LEMMA ValueEmpty == Value(<<>>) = 0
<1>1. <<>> \in Seq(Nat) /\ Len(<<>>) = 0
  OBVIOUS
<1>2. PICK v : Horner(v, <<>>) /\ Value(<<>>) = v[Len(<<>>)]
  BY <1>1, ValueSteps
<1> QED BY <1>1, <1>2 DEF Horner

LEMMA ValueAppend ==
    ASSUME NEW ds \in Seq(Nat), NEW d \in Nat
    PROVE  Value(Append(ds, d)) = 10 * Value(ds) + d
<1>1. PICK es : es = Append(ds, d)
  OBVIOUS
<1>2. /\ es \in Seq(Nat) /\ Len(ds) \in Nat /\ Len(es) = Len(ds) + 1 /\ es[Len(ds) + 1] = d
      /\ \A n \in 1..Len(ds) : es[n] = ds[n]
  BY <1>1, AppendProperties
<1>3. PICK v : Horner(v, ds) /\ Value(ds) = v[Len(ds)]
  BY ValueSteps
<1>4. PICK w : Horner(w, es) /\ Value(es) = w[Len(es)]
  BY <1>2, ValueSteps
<1>5. \A n \in 0..Len(ds) : w[n] = v[n]
  <2>1. w[0] = v[0]
    BY <1>3, <1>4 DEF Horner
  <2>2. \A n \in 1..Len(ds) : w[n - 1] = v[n - 1] => w[n] = v[n]
    <3> SUFFICES ASSUME NEW n \in 1..Len(ds), w[n - 1] = v[n - 1] PROVE w[n] = v[n]
      OBVIOUS
    <3>1. n \in 1..Len(es) /\ es[n] = ds[n]
      BY <1>2
    <3> QED BY <1>3, <1>4, <3>1 DEF Horner
  <2>3. Len(ds) \in Nat
    BY <1>2
  <2>4. Alike(w, v, Len(ds))
    BY ONLY <2>1, <2>2, Zenon DEF Alike
  <2> QED BY ONLY <2>4, <2>3, SameRecursion, Zenon
<1>6. w[Len(es)] = 10 * w[Len(ds)] + d
  <2>1. Len(es) \in 1..Len(es) /\ Len(es) - 1 = Len(ds)
    BY <1>2
  <2> QED BY <1>2, <1>4, <2>1 DEF Horner
<1>7. Len(ds) \in 0..Len(ds)
  BY <1>2
<1> QED BY <1>1, <1>3, <1>4, <1>5, <1>6, <1>7

\* The powers of ten.
LEMMA TenToSteps ==
    /\ TenTo[0] = 1
    /\ \A n \in 1..(DIGITS - 1) : TenTo[n] = 10 * TenTo[n - 1]
    /\ \A n \in 0..(DIGITS - 1) : TenTo[n] \in Nat
<1> DEFINE Rec(f) == [n \in 0..(DIGITS - 1) |-> IF n = 0 THEN 1 ELSE 10 * f[n - 1]]
<1>0. DIGITS - 1 \in Nat
  BY NumAssumption
<1>1. PICK G : G = [n \in 1..(DIGITS - 1) |-> [x \in Nat |-> 10 * x]]
  OBVIOUS
<1>2. G \in [1..(DIGITS - 1) -> [Nat -> Nat]]
  BY <1>1
<1>3. PICK f : Steps(f, Nat, 1, G, DIGITS - 1)
  BY ONLY <1>0, <1>2, 1 \in Nat, Iterate, Zenon
<1>4. f = Rec(f)
  <2>1. ASSUME NEW n \in 0..(DIGITS - 1) PROVE f[n] = Rec(f)[n]
    <3>1. CASE n = 0
      BY <3>1, <1>3 DEF Steps
    <3>2. CASE n # 0
      <4>1. n \in 1..(DIGITS - 1) /\ n - 1 \in 0..(DIGITS - 1)
        BY <1>0, <3>2
      <4>2. f[n - 1] \in Nat /\ f[n] = G[n][f[n - 1]]
        BY <1>3, <4>1 DEF Steps
      <4> QED BY <1>1, <3>2, <4>1, <4>2
    <3> QED BY <3>1, <3>2
  <2> QED BY <2>1, <1>3 DEF Steps
<1>5. TenTo = CHOOSE h : h = Rec(h)
  BY DEF TenTo
<1>6. TenTo = Rec(TenTo)
  BY <1>4, <1>5
<1>7. TenTo[0] = 1 /\ \A n \in 1..(DIGITS - 1) : TenTo[n] = 10 * TenTo[n - 1]
  BY <1>0, <1>6
<1>8. \A n \in 0..(DIGITS - 1) : TenTo[n] = f[n]
  <2>1. TenTo[0] = f[0]
    BY <1>3, <1>7 DEF Steps
  <2>2. \A n \in 1..(DIGITS - 1) : TenTo[n - 1] = f[n - 1] => TenTo[n] = f[n]
    <3> SUFFICES ASSUME NEW n \in 1..(DIGITS - 1), TenTo[n - 1] = f[n - 1]
                 PROVE  TenTo[n] = f[n]
      OBVIOUS
    <3>1. Rec(f)[n] = 10 * f[n - 1]
      BY <1>0
    <3> QED BY <1>4, <1>7, <3>1
  <2>3. Alike(TenTo, f, DIGITS - 1)
    BY ONLY <2>1, <2>2, Zenon DEF Alike
  <2> QED BY ONLY <2>3, <1>0, SameRecursion, Zenon
<1> QED BY <1>3, <1>7, <1>8 DEF Steps

\* f is the number and what is left of it after each division by ten.
Quotients(f) ==
    /\ f \in [0..Len(digits) -> Nat]
    /\ f[0] = arg /\ f[Len(digits)] = num
    /\ \A n \in 1..Len(digits) :
          digits[n] = f[n - 1] % 10 /\ f[n] = f[n - 1] \div 10

\* The first loop: what is left of the number fits what is left of digits[].
Splitting ==
    /\ i = Len(digits) /\ Len(digits) < DIGITS
    /\ Len(digits) > 0 => num > 0
    /\ num \div 10 < TenTo[(DIGITS - 1) - Len(digits)]
    /\ out = <<>> /\ cursor = 0 /\ nul = 0

\* The second loop: the words printed so far denote what the first loop had left
\* when it came to digit i.
Printing(f) ==
    /\ Len(digits) \in 1..DIGITS /\ i \in -1..(Len(digits) - 1)
    /\ Len(out) = (Len(digits) - 1) - i
    /\ Value(out) = f[i + 1]
    /\ Len(digits) > 1 => digits[Len(digits)] # 0
    /\ Len(out) > 0 => out[1] = digits[Len(digits)]
    /\ i >= 0 => cursor = nul /\ nul <= 6 * Len(out)
    /\ i < 0 => nul < 6 * Len(out)
    /\ loop = "done" => i < 0

NumType ==
    /\ arg \in Nat /\ num \in Nat /\ i \in Int
    /\ digits \in Seq(0..9) /\ out \in Seq(0..9)
    /\ cursor \in Nat /\ nul \in Nat
    /\ loop \in {"split", "print", "done"}

\* The inductive invariant, for one sequence of quotients.
NumHolds(f) ==
    /\ Quotients(f)
    /\ loop = "split" => Splitting
    /\ loop # "split" => Printing(f)

NumInv == NumType /\ \E f : NumHolds(f)

LEMMA WordLenRange == \A d \in 0..9 : WordLen(d) \in 3..5
BY DEF WordLen, num_char

LEMMA NumInvInit == NumInit => NumInv
<1> SUFFICES ASSUME NumInit PROVE NumInv
  OBVIOUS
<1>1. arg \in Nat /\ arg \div 10 < TenTo[DIGITS - 1]
  <2>1. ASSUME NEW x \in Inputs PROVE x \in Nat
    <3>1. CASE x \in Others
      BY <3>1, NumAssumption
    <3>2. CASE x \in {y + period \div 2 : y \in 0..(period - 1)}
      <4>1. PICK y \in 0..(period - 1) : x = y + period \div 2
        BY <3>2
      <4>2. period \div 2 \in Nat
        BY NumAssumption
      <4> QED BY <4>1, <4>2
    <3> QED BY <3>1, <3>2 DEF Inputs
  <2> QED BY <2>1, RoomAssumption DEF NumInit
<1>2. digits = <<>> /\ Len(digits) = 0 /\ <<>> \in Seq(0..9)
  BY DEF NumInit
<1>3. NumType
  BY <1>1, <1>2 DEF NumInit, NumType
<1>4. Quotients([n \in 0..0 |-> arg])
  BY <1>1, <1>2 DEF NumInit, Quotients
<1>5. Splitting
  BY <1>1, <1>2, NumAssumption DEF NumInit, Splitting
<1>6. NumHolds([n \in 0..0 |-> arg])
  BY <1>4, <1>5 DEF NumInit, NumHolds
<1> QED BY <1>3, <1>6 DEF NumInv

\* Division by ten, as the two loops use it.
LEMMA DivideByTen ==
    ASSUME NEW x \in Nat
    PROVE  /\ x \div 10 \in Nat /\ x % 10 \in 0..9
           /\ x = 10 * (x \div 10) + (x % 10)
           /\ x \div 10 = 0 => x % 10 = x
OBVIOUS

LEMMA SplitKeeps == NumInv /\ Split => NumInv'
<1> SUFFICES ASSUME NumInv, Split PROVE NumInv'
  OBVIOUS
<1>0. NumType
  BY DEF NumInv
<1>1. PICK f : NumHolds(f)
  BY DEF NumInv
<1>2. /\ digits' = Append(digits, num % 10) /\ num' = num \div 10
      /\ arg' = arg /\ out' = out /\ cursor' = cursor /\ nul' = nul
      /\ loop = "split"
      /\ IF num' > 0 THEN i' = i + 1 /\ loop' = loop ELSE i' = i /\ loop' = "print"
  BY DEF Split
<1>3. Quotients(f) /\ Splitting
  BY <1>1, <1>2 DEF NumHolds
<1>4. num \in Nat /\ num % 10 \in 0..9 /\ num \div 10 \in Nat /\ (num \div 10 = 0 => num % 10 = num)
  BY <1>0, DivideByTen DEF NumType
<1>5. PICK N \in Nat : N = Len(digits)
  BY <1>0 DEF NumType
<1>6. /\ digits' \in Seq(0..9) /\ Len(digits') = N + 1 /\ digits'[N + 1] = num % 10
      /\ \A n \in 1..N : digits'[n] = digits[n]
  BY <1>0, <1>2, <1>4, <1>5, AppendProperties DEF NumType
<1>7. NumType'
  BY <1>0, <1>2, <1>4, <1>6 DEF NumType
<1>8. PICK g : g = [n \in 0..(N + 1) |-> IF n = N + 1 THEN num \div 10 ELSE f[n]]
  OBVIOUS
<1>9. /\ g \in [0..(N + 1) -> Nat]
      /\ \A n \in 0..N : g[n] = f[n]
      /\ g[N + 1] = num \div 10 /\ g[N] = num /\ g[0] = arg
  <2>1. f \in [0..N -> Nat] /\ f[0] = arg /\ f[N] = num
    BY <1>3, <1>5 DEF Quotients
  <2>2. PICK q \in Nat : q = num \div 10
    BY <1>4
  <2> QED BY <1>8, <2>1, <2>2
<1>10. Quotients(g)'
  <2>1. ASSUME NEW n \in 1..(N + 1)
        PROVE  digits'[n] = g[n - 1] % 10 /\ g[n] = g[n - 1] \div 10
    <3>1. CASE n = N + 1
      BY <3>1, <1>6, <1>9
    <3>2. CASE n # N + 1
      <4>1. n \in 1..N /\ n \in 0..N /\ n - 1 \in 0..N
        BY <3>2
      <4> QED BY <4>1, <1>3, <1>5, <1>6, <1>9 DEF Quotients
    <3> QED BY <3>1, <3>2
  <2> QED BY <1>2, <1>6, <1>9, <2>1 DEF Quotients
<1>11. CASE num' > 0
  <2>1. loop' = "split" /\ i' = N + 1
    BY <1>2, <1>3, <1>5, <1>11 DEF Splitting
  <2>2. N + 1 < DIGITS /\ num' \div 10 < TenTo[(DIGITS - 1) - (N + 1)]
    <3>1. PICK m \in 0..(DIGITS - 1) : m = (DIGITS - 1) - N
      BY <1>3, <1>5, NumAssumption DEF Splitting
    <3>2. num' \in Nat /\ num' < TenTo[m] /\ num' > 0
      BY <1>2, <1>3, <1>4, <1>5, <1>11, <3>1 DEF Splitting
    <3>3. m # 0
      BY <3>2, TenToSteps
    <3>4. m \in 1..(DIGITS - 1) /\ m - 1 \in 0..(DIGITS - 1)
      BY <3>3, NumAssumption
    <3>5. TenTo[m] = 10 * TenTo[m - 1] /\ TenTo[m - 1] \in Nat
      BY <3>4, TenToSteps
    <3>6. num' \div 10 < TenTo[m - 1]
      <4>1. PICK t \in Nat : t = TenTo[m - 1]
        BY <3>5
      <4>2. num' < 10 * t
        BY <3>2, <3>5, <4>1
      <4>3. PICK x \in Nat : x = num'
        BY <3>2
      <4>4. x = 10 * (x \div 10) + (x % 10) /\ x % 10 \in 0..9 /\ x \div 10 \in Nat
        BY DivideByTen
      <4>5. PICK q \in Nat, y \in 0..9 : q = x \div 10 /\ x = 10 * q + y
        BY <4>4
      <4>6. q < t
        BY ONLY <4>2, <4>3, <4>5, q \in Nat, t \in Nat, y \in 0..9, x \in Nat
      <4> QED BY <4>1, <4>3, <4>5, <4>6
    <3>7. m - 1 = (DIGITS - 1) - (N + 1) /\ N + 1 < DIGITS
      BY <3>1, <3>4, NumAssumption
    <3> QED BY <3>6, <3>7
  <2>3. Splitting'
    BY <1>2, <1>3, <1>6, <1>11, <2>1, <2>2 DEF Splitting
  <2>4. NumHolds(g)'
    BY <1>10, <2>1, <2>3 DEF NumHolds
  <2> QED BY <1>7, <2>4 DEF NumInv
<1>12. CASE ~(num' > 0)
  <2>1. num' = 0 /\ num % 10 = num /\ loop' = "print" /\ i' = N
    BY <1>2, <1>3, <1>4, <1>5, <1>12 DEF Splitting
  <2>2. out' = <<>> /\ Len(out') = 0 /\ Value(out') = 0
    BY <1>2, <1>3, ValueEmpty DEF Splitting
  <2>3. N + 1 \in 1..DIGITS /\ N \in -1..((N + 1) - 1)
    BY <1>3, <1>5, NumAssumption DEF Splitting
  <2>4. N + 1 > 1 => num % 10 # 0
    BY <1>3, <1>5, <2>1 DEF Splitting
  <2>5. g[N + 1] = 0
    BY <1>2, <1>9, <2>1
  <2>6. cursor' = 0 /\ nul' = 0
    BY <1>2, <1>3 DEF Splitting
  <2>7. Printing(g)'
    BY <1>6, <2>1, <2>2, <2>3, <2>4, <2>5, <2>6 DEF Printing
  <2>8. NumHolds(g)'
    BY <1>10, <2>1, <2>7 DEF NumHolds
  <2> QED BY <1>7, <2>8 DEF NumInv
<1> QED BY <1>11, <1>12

LEMMA PrintKeeps == NumInv /\ PrintWord => NumInv'
<1> SUFFICES ASSUME NumInv, PrintWord PROVE NumInv'
  OBVIOUS
<1>0. NumType
  BY DEF NumInv
<1>1. PICK f : NumHolds(f)
  BY DEF NumInv
<1>2. arg' = arg /\ num' = num /\ digits' = digits /\ loop = "print"
  BY DEF PrintWord
<1>3. Quotients(f) /\ Printing(f)
  BY <1>1, <1>2 DEF NumHolds
<1>4. Quotients(f)'
  BY <1>2, <1>3 DEF Quotients
<1>5. PICK N \in Nat : N = Len(digits)
  BY <1>0 DEF NumType
<1>6. CASE i >= 0
  <2>1. i \in Nat /\ i < N /\ i + 1 \in 1..N /\ i \in 0..N /\ i + 1 \in 0..N
    BY <1>3, <1>5, <1>6 DEF Printing
  <2>2. PICK d \in 0..9 : d = digits[i + 1]
    BY <1>0, <1>5, <2>1 DEF NumType
  <2>3. /\ out' = Append(out, d) /\ i' = i - 1 /\ loop' = "print"
        /\ nul' = cursor + WordLen(d) + (IF i = 0 THEN 0 ELSE 1)
        /\ cursor' = cursor + WordLen(d) + 1
    BY <1>2, <1>6, <2>2 DEF PrintWord
  <2>4. PICK L \in Nat : L = Len(out)
    BY <1>0 DEF NumType
  <2>5. /\ out' \in Seq(0..9) /\ Len(out') = L + 1 /\ out'[L + 1] = d
        /\ \A n \in 1..L : out'[n] = out[n]
    BY <1>0, <2>2, <2>3, <2>4, AppendProperties DEF NumType
  <2>6. WordLen(d) \in 3..5 /\ cursor \in Nat /\ nul \in Nat
    BY <1>0, WordLenRange DEF NumType
  <2>7. NumType'
    BY <1>0, <1>2, <2>1, <2>3, <2>5, <2>6 DEF NumType
  <2>8. Value(out') = f[i]
    <3>1. out \in Seq(Nat) /\ d \in Nat
      BY <1>0 DEF NumType
    <3>2. Value(out') = 10 * Value(out) + d
      BY <2>3, <3>1, ValueAppend
    <3>3. f[i] \in Nat /\ d = f[i] % 10 /\ f[i + 1] = f[i] \div 10
      BY <1>3, <1>5, <2>1, <2>2 DEF Quotients
    <3>4. f[i] = 10 * (f[i] \div 10) + (f[i] % 10)
      BY <3>3, DivideByTen
    <3> QED BY <1>3, <3>2, <3>3, <3>4 DEF Printing
  <2>9. L = (N - 1) - i /\ cursor = nul /\ nul <= 6 * L
    BY <1>3, <1>5, <1>6, <2>4 DEF Printing
  <2>10. out'[1] = digits[N]
    <3>1. CASE L = 0
      <4>1. i + 1 = N
        BY <2>1, <2>9, <3>1
      <4> QED BY <2>2, <2>5, <3>1, <4>1
    <3>2. CASE L # 0
      BY <1>3, <1>5, <2>4, <2>5, <3>2 DEF Printing
    <3> QED BY <3>1, <3>2
  <2>11. /\ N \in 1..DIGITS /\ i - 1 \in -1..(N - 1)
         /\ L + 1 = (N - 1) - (i - 1)
         /\ (i - 1) + 1 = i
    BY <1>3, <1>5, <2>1, <2>9 DEF Printing
  <2>12. (i' >= 0 => cursor' = nul' /\ nul' <= 6 * Len(out')) /\ (i' < 0 => nul' < 6 * Len(out'))
    BY <2>1, <2>3, <2>5, <2>6, <2>9
  <2>13. N > 1 => digits[N] # 0
    BY <1>3, <1>5 DEF Printing
  <2>14. Printing(f)'
    BY <1>2, <1>5, <2>3, <2>5, <2>8, <2>10, <2>11, <2>12, <2>13 DEF Printing
  <2>15. NumHolds(f)'
    BY <1>4, <2>3, <2>14 DEF NumHolds
  <2> QED BY <2>7, <2>15 DEF NumInv
<1>7. CASE ~(i >= 0)
  <2>1. loop' = "done" /\ out' = out /\ nul' = nul /\ cursor' = cursor /\ i' = i
    BY <1>7 DEF PrintWord
  <2>2. NumType'
    BY <1>0, <1>2, <2>1 DEF NumType
  <2>3. i < 0
    BY <1>0, <1>7 DEF NumType
  <2>4. Printing(f)'
    BY <1>2, <1>3, <2>1, <2>3 DEF Printing
  <2>5. NumHolds(f)'
    BY <1>4, <2>1, <2>4 DEF NumHolds
  <2> QED BY <2>2, <2>5 DEF NumInv
<1> QED BY <1>6, <1>7

\* num_to_str spells every number that has at most DIGITS digits, for any size of
\* the arrays that has room for them: the words denote the number, without a
\* leading zero or a gap, and neither array is left.
THEOREM SpellsTheNumberCorrect == NumSpec => []SpellsTheNumber
<1>1. NumInv /\ [NumNext]_numVars => NumInv'
  <2>1. NumInv /\ UNCHANGED numVars => NumInv'
    BY DEF numVars, NumInv, NumType, NumHolds, Quotients, Splitting, Printing
  <2> QED BY <2>1, SplitKeeps, PrintKeeps DEF NumNext
<1>2. NumInv => SpellsTheNumber
  <2> SUFFICES ASSUME NumInv PROVE SpellsTheNumber
    OBVIOUS
  <2>0. NumType
    BY DEF NumInv
  <2>1. PICK f : NumHolds(f)
    BY DEF NumInv
  <2>2. CASE loop = "split"
    BY <2>0, <2>1, <2>2, NumAssumption, RoomAssumption DEF NumType, NumHolds, Splitting, SpellsTheNumber
  <2>3. CASE loop # "split"
    <3>1. Printing(f) /\ f[0] = arg
      BY <2>1, <2>3 DEF NumHolds, Quotients
    <3>2. PICK N \in Nat : N = Len(digits)
      BY <2>0 DEF NumType
    <3>3. PICK L \in Nat : L = Len(out)
      BY <2>0 DEF NumType
    <3>4. i \in Int /\ L = (N - 1) - i /\ N <= DIGITS /\ i >= -1 /\ N >= 1
      BY <3>1, <3>2, <3>3 DEF Printing
    <3>5. nul < BUF
      <4>1. nul < 6 * DIGITS
        BY <2>0, <3>1, <3>2, <3>3, <3>4, NumAssumption DEF Printing, NumType
      <4> QED BY <2>0, <4>1, NumAssumption, RoomAssumption DEF NumType
    <3>6. ASSUME loop = "done"
          PROVE  out # <<>> /\ Value(out) = arg /\ (Len(out) > 1 => out[1] # 0)
      <4>1. i = -1 /\ i + 1 = 0 /\ L = N
        BY <3>1, <3>4, <3>6 DEF Printing
      <4> QED BY <3>1, <3>2, <3>3, <3>4, <4>1 DEF Printing
    <3> QED BY <3>1, <3>2, <3>4, <3>5, <3>6, <2>3 DEF Printing, SpellsTheNumber
  <2> QED BY <2>2, <2>3
<1> QED BY <1>1, <1>2, NumInvInit, PTL DEF NumSpec

-----------------------------------------------------------------------------
\* What is proved of one program holds of it in the composition that the run
\* checks: there it takes its own steps or none.
THEOREM SequentialApart == Spec => TtySpec /\ NetSpec /\ SqliteSpec /\ NumSpec
<1>1. Init => TtyInit /\ NetInit /\ SqliteInit /\ NumInit
  BY DEF Init
<1>2. [Next]_allVars => /\ [TtyNext]_ttyVars /\ [NetNext]_netVars
                        /\ [SqliteNext]_sqliteVars /\ [NumNext]_numVars
  <2> SUFFICES ASSUME [Next]_allVars
               PROVE  /\ [TtyNext]_ttyVars /\ [NetNext]_netVars
                      /\ [SqliteNext]_sqliteVars /\ [NumNext]_numVars
    OBVIOUS
  <2>1. CASE Runs("own-tty", TtyNext)
    BY <2>1 DEF Runs
  <2>2. CASE Runs("bench-net", NetNext)
    BY <2>2 DEF Runs
  <2>3. CASE Runs("bench-sqlite", SqliteNext)
    BY <2>3 DEF Runs
  <2>4. CASE Runs("num_to_str", NumNext)
    BY <2>4 DEF Runs
  <2>5. CASE UNCHANGED allVars
    BY <2>5 DEF allVars
  <2> QED BY <2>1, <2>2, <2>3, <2>4, <2>5 DEF Next
<1> QED BY <1>1, <1>2, PTL DEF Spec, TtySpec, NetSpec, SqliteSpec, NumSpec
=============================================================================
