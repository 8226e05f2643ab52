---------------------------- MODULE BenchSqlite ----------------------------
(***************************************************************************)
(* The SQLite benchmark (android/bench-sqlite/bench.c): open the database, *)
(* create the table, insert ROWS rows in one transaction, commit, close,   *)
(* and log the time.  SQLite is external, as it is used here: a statement  *)
(* is outstanding from sqlite3_prepare_v2 to sqlite3_finalize, and a       *)
(* connection with outstanding statements cannot be closed.                *)
(***************************************************************************)
EXTENDS Naturals, Sequences

CONSTANTS
    ROWS,     \* 25000 in test_insert
    SqliteFaults    \* the calls of SQLite that may fail

ASSUME RowsAssumption == ROWS \in Nat
ASSUME SqliteFaultsAssumption ==
    SqliteFaults \subseteq {"open", "exec", "prepare", "step", "reset", "commit"}

VARIABLES
    dbpc,       \* "open", "exec", "begin", "insert", "commit", "close", "log",
              \* "returned" or "aborted"
    call,     \* of a statement: "prepare", "step" or "reset"
    row,        \* the row to insert next
    table,    \* the rows of t1, in the order of their insertion
    tx,       \* "none", "open" or "committed"
    stmts,    \* the statements that are outstanding
    db,       \* the connection: "none", "open" or "closed"
    printed   \* "Finalize failed" has been printed

sqliteVars == <<dbpc, call, row, table, tx, stmts, db, printed>>

\* check_return: anything but SQLITE_OK and SQLITE_DONE aborts.
Abort == dbpc' = "aborted"

\* A call of SQLite whose result check_return looks at.
Checked(what, effect, next) ==
    \/ effect /\ next
    \/ /\ what \in SqliteFaults
       /\ Abort
       /\ UNCHANGED <<call, row, table, tx, stmts, db>>

-----------------------------------------------------------------------------
(* prepare_db *)

\* When the open fails the connection is forgotten and main returns.
prepare_db ==
    /\ dbpc = "open"
    /\ db' = "open"
    /\ \/ dbpc' = "exec"
       \/ "open" \in SqliteFaults /\ dbpc' = "returned"
    /\ UNCHANGED <<call, row, table, tx, stmts, printed>>

CreateTable ==
    /\ dbpc = "exec"
    /\ Checked("exec", table' = <<>> /\ UNCHANGED <<tx, stmts, db>>,
                       dbpc' = "begin" /\ UNCHANGED <<call, row>>)
    /\ UNCHANGED printed

-----------------------------------------------------------------------------
(* test_insert *)

\* One of the three calls on a statement; done is what sqlite3_step does, next
\* where to go after sqlite3_reset.  No statement is ever finalized.
Statement(done, next) ==
    /\ \/ /\ call = "prepare"
          /\ Checked("prepare", stmts' = stmts + 1 /\ UNCHANGED <<table, tx, db>>,
                                call' = "step" /\ UNCHANGED <<dbpc, row>>)
       \/ /\ call = "step"
          /\ Checked("step", done /\ UNCHANGED <<stmts, db>>,
                             call' = "reset" /\ UNCHANGED <<dbpc, row>>)
       \/ /\ call = "reset"
          /\ Checked("reset", UNCHANGED <<table, tx, stmts, db>>,
                              call' = "prepare" /\ next)
    /\ UNCHANGED printed

Begin ==
    /\ dbpc = "begin"
    /\ Statement(tx' = "open" /\ UNCHANGED table, dbpc' = "insert" /\ row' = 0)

\* The loop: a row is its key.
Insert ==
    /\ dbpc = "insert"
    /\ row < ROWS
    /\ Statement(table' = Append(table, row) /\ UNCHANGED tx,
                 row' = row + 1 /\ UNCHANGED dbpc)

\* Mutant: the loop ends one row early.
InsertDone_OneLess ==
    /\ dbpc = "insert" /\ row + 1 >= ROWS /\ call = "prepare"
    /\ dbpc' = "commit"
    /\ UNCHANGED <<call, row, table, tx, stmts, db, printed>>

InsertDone ==
    /\ dbpc = "insert" /\ row = ROWS
    /\ dbpc' = "commit"
    /\ UNCHANGED <<call, row, table, tx, stmts, db, printed>>

\* A COMMIT that fails is printed, and main goes on as if it had not.
Commit ==
    /\ dbpc = "commit"
    /\ dbpc' = "close"
    /\ \/ tx' = "committed" /\ UNCHANGED printed
       \/ "commit" \in SqliteFaults /\ printed' = TRUE /\ UNCHANGED tx
    /\ UNCHANGED <<call, row, table, stmts, db>>

-----------------------------------------------------------------------------
(* main *)

\* sqlite3_close, whose result nobody looks at.
Close ==
    /\ dbpc = "close"
    /\ dbpc' = "log"
    /\ db' = IF stmts = 0 THEN "closed" ELSE db
    /\ UNCHANGED <<call, row, table, tx, stmts, printed>>

LogTime ==
    /\ dbpc = "log"
    /\ dbpc' = "returned"
    /\ UNCHANGED <<call, row, table, tx, stmts, db, printed>>

SqliteInit ==
    /\ dbpc = "open" /\ call = "prepare" /\ row = 0
    /\ table = <<>> /\ tx = "none" /\ stmts = 0 /\ db = "none"
    /\ printed = FALSE

SqliteNext == prepare_db \/ CreateTable \/ Begin \/ Insert \/ InsertDone \/ Commit \/ Close \/ LogTime
SqliteSpec == SqliteInit /\ [][SqliteNext]_sqliteVars

-----------------------------------------------------------------------------
\* A time that is logged without a complaint is the time of all rows, each
\* inserted once and committed together: every failure before that point has
\* aborted the program, and a failed COMMIT has been printed.
TimeMeansRows ==
    dbpc \in {"close", "log"} =>
        /\ table = [k \in 1..ROWS |-> k - 1]
        /\ tx = "committed" \/ printed
=============================================================================
