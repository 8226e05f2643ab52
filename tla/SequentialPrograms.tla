------------------------- MODULE SequentialPrograms -------------------------
(***************************************************************************)
(* The small programs that do one thing after the other: own-tty,          *)
(* bench-net, and bench-sqlite with num_to_str, which spells the numbers   *)
(* it inserts.  They share nothing, so a behaviour is one of one program;  *)
(* the others stay as they were started.                                   *)
(***************************************************************************)
EXTENDS OwnTty, BenchNet, BenchSqlite, NumToStr

VARIABLE program   \* the one that runs

Programs == {"own-tty", "bench-net", "bench-sqlite", "num_to_str"}

allVars == <<program, ttyVars, netVars, sqliteVars, numVars>>

\* What is not read by the program that runs has one value.
Init ==
    /\ program \in Programs
    /\ TtyInit /\ NetInit /\ SqliteInit
    /\ program # "own-tty" => /\ leader["parent"] = "none"
                              /\ \A f \in 0..2 : files["parent"][f] = "caller"
    /\ program # "bench-net" => stream = 0
    /\ NumInit
    /\ program # "num_to_str" => arg = period \div 2

\* A step of program p; the others do not move.
Runs(p, Step) ==
    /\ program = p /\ Step
    /\ UNCHANGED program
    /\ p # "own-tty" => UNCHANGED ttyVars
    /\ p # "bench-net" => UNCHANGED netVars
    /\ p # "bench-sqlite" => UNCHANGED sqliteVars
    /\ p # "num_to_str" => UNCHANGED numVars

Next ==
    \/ Runs("own-tty", TtyNext)
    \/ Runs("bench-net", NetNext)
    \/ Runs("bench-sqlite", SqliteNext)
    \/ Runs("num_to_str", NumNext)

Spec == Init /\ [][Next]_allVars
=============================================================================
