------------------------------ MODULE BenchNet ------------------------------
(***************************************************************************)
(* The network benchmark (android/bench-net): connect to a server, read    *)
(* until the stream ends, log how much arrived.  The socket is external:   *)
(* the server sends what it has to send and closes, the network splits it  *)
(* as it likes, and a read may fail.  transmitted is a C int; the build    *)
(* wraps it around at IntLimit.                                            *)
(***************************************************************************)
EXTENDS Integers

CONSTANTS
    BufSize,    \* sizeof(buf)
    IntLimit,   \* 2^31: one more than the largest int
    Unit,       \* 1024, the unit of the log
    MaxStream   \* bound on what a server sends

ASSUME SizesAssumption ==
    {BufSize, IntLimit, Unit, MaxStream} \subseteq Nat \ {0}

VARIABLES
    at,            \* "aton", "socket", "connect", "read", "log", "panic" or "done"
    stream,        \* what the server sends in this run
    queued,        \* what has arrived and was not read
    received,      \* what read has returned altogether
    transmitted,   \* the program's sum of it
    r,             \* the result of the last read
    logged         \* the amount in the log, in units; -1 before

netVars == <<at, stream, queued, received, transmitted, r, logged>>

Min2(a, b) == IF a < b THEN a ELSE b

\* int addition, and division, which rounds toward zero.
AsInt(x) == ((x + IntLimit) % (2 * IntLimit)) - IntLimit
IntDiv(x, y) == IF x >= 0 THEN x \div y ELSE -((-x) \div y)

-----------------------------------------------------------------------------
\* The calls before the loop, each of which may fail and panic.
Setup ==
    /\ at \in {"aton", "socket", "connect"}
    /\ at' \in {"panic", CASE at = "aton" -> "socket" [] at = "socket" -> "connect"
                           [] at = "connect" -> "read"}
    /\ UNCHANGED <<stream, queued, received, transmitted, r, logged>>

\* External: more of the stream arrives.
Arrive ==
    /\ at = "read" /\ received + queued < stream
    /\ \E n \in 1..(stream - received - queued) : queued' = queued + n
    /\ UNCHANGED <<at, stream, received, transmitted, r, logged>>

\* Mutant: a read that does not fill the buffer is taken for the last one.
ReadSome_ShortEnds ==
    /\ at = "read" /\ queued > 0
    /\ r' = Min2(queued, BufSize)
    /\ queued' = queued - r' /\ received' = received + r'
    /\ transmitted' = AsInt(transmitted + r')
    /\ at' = IF r' < BufSize THEN "log" ELSE "read"
    /\ UNCHANGED <<stream, logged>>

\* A read returns what is there, as far as the buffer goes.
ReadSome ==
    /\ at = "read" /\ queued > 0
    /\ r' = Min2(queued, BufSize)
    /\ queued' = queued - r' /\ received' = received + r'
    /\ transmitted' = AsInt(transmitted + r')
    /\ UNCHANGED <<at, stream, logged>>

\* A read returns 0 at the end of the stream, or fails at any time; the loop
\* ends alike.
ReadEnds ==
    /\ at = "read"
    /\ \/ received = stream /\ r' = 0
       \/ r' = -1
    /\ at' = "log"
    /\ UNCHANGED <<stream, queued, received, transmitted, logged>>

LogReceived ==
    /\ at = "log"
    /\ logged' = IntDiv(transmitted, Unit)
    /\ at' = "done"
    /\ UNCHANGED <<stream, queued, received, transmitted, r>>

NetInit ==
    /\ at = "aton" /\ stream \in 0..MaxStream
    /\ queued = 0 /\ received = 0 /\ transmitted = 0 /\ r = 1 /\ logged = -1

NetNext == Setup \/ Arrive \/ ReadSome \/ ReadEnds \/ LogReceived
NetSpec == NetInit /\ [][NetNext]_netVars

-----------------------------------------------------------------------------
\* The log names what was received, rounded down to a unit, however the
\* stream was split, as long as the sum is one an int can hold; and that is the
\* whole stream unless a read failed.
LogIsReceived ==
    at = "done" =>
        /\ received < IntLimit =>
              logged * Unit <= received /\ received < (logged + 1) * Unit
        /\ r # -1 => received = stream
=============================================================================
