------------------------------ MODULE NumToStr ------------------------------
(***************************************************************************)
(* num_to_str of the SQLite benchmark (android/bench-sqlite/bench.c): an   *)
(* int is spelled out digit by digit, "one two eight".  The digits come    *)
(* out of the first loop least significant first and are printed in the    *)
(* second one from the other end; a word is its digit here, and of the     *)
(* text only its length is kept.                                           *)
(***************************************************************************)
EXTENDS Integers, Sequences

CONSTANTS
    period,      \* test_insert passes random() % period + period / 2
    Others,      \* further numbers to spell
    DIGITS,      \* the size of digits[]
    BUF          \* the size of buf1, the caller's buffer

ASSUME NumAssumption ==
    /\ period \in Nat \ {0} /\ Others \subseteq Nat
    /\ DIGITS \in Nat \ {0} /\ BUF \in Nat

\* The lengths of "zero", "one", ..., "nine".
num_char == <<4, 3, 3, 5, 4, 4, 3, 5, 5, 4>>
WordLen(d) == num_char[d + 1]

Inputs == {r + period \div 2 : r \in 0..(period - 1)} \cup Others

\* 10 to the n.
TenTo[n \in 0..(DIGITS - 1)] == IF n = 0 THEN 1 ELSE 10 * TenTo[n - 1]

\* What the author of the two arrays relies on: an int has at most DIGITS digits,
\* and BUF holds as many words of five letters with a blank or the zero behind
\* each.  In the source, 2^31 - 1 < 10^10 and 6 * 10 <= 512.
ASSUME RoomAssumption ==
    /\ \A n \in Inputs : n \div 10 < TenTo[DIGITS - 1]
    /\ 6 * DIGITS <= BUF

VARIABLES
    arg,      \* the argument
    num, i,   \* the locals of the same name
    digits,   \* digits[], as far as it is written
    out,      \* the words printed so far
    cursor,   \* cursor - buf
    nul,      \* where the last sprintf put its terminating zero
    loop      \* "split", "print" or "done"

numVars == <<arg, num, i, digits, out, cursor, nul, loop>>

\* One turn of do ... while (num > 0); leaving it does the i-- of the for.
Split ==
    /\ loop = "split"
    /\ digits' = Append(digits, num % 10)
    /\ num' = num \div 10
    /\ IF num' > 0 THEN i' = i + 1 /\ UNCHANGED loop
                   ELSE i' = i /\ loop' = "print"
    /\ UNCHANGED <<arg, out, cursor, nul>>

\* Mutant: the cursor passes the word but not the blank behind it.
PrintWord_NoBlank ==
    /\ loop = "print"
    /\ IF i >= 0
       THEN LET d == digits[i + 1]
            IN  /\ out' = Append(out, d)
                /\ nul' = cursor + WordLen(d) + (IF i = 0 THEN 0 ELSE 1)
                /\ cursor' = cursor + WordLen(d)
                /\ i' = i - 1
                /\ UNCHANGED loop
       ELSE loop' = "done" /\ UNCHANGED <<out, nul, cursor, i>>
    /\ UNCHANGED <<arg, num, digits>>

\* One turn of the for loop: a word, and a blank unless it is the last one.
PrintWord ==
    /\ loop = "print"
    /\ IF i >= 0
       THEN LET d == digits[i + 1]
            IN  /\ out' = Append(out, d)
                /\ nul' = cursor + WordLen(d) + (IF i = 0 THEN 0 ELSE 1)
                /\ cursor' = cursor + WordLen(d) + 1
                /\ i' = i - 1
                /\ UNCHANGED loop
       ELSE loop' = "done" /\ UNCHANGED <<out, nul, cursor, i>>
    /\ UNCHANGED <<arg, num, digits>>

NumInit ==
    /\ arg \in Inputs
    /\ num = arg /\ i = 0
    /\ digits = <<>> /\ out = <<>>
    /\ cursor = 0 /\ nul = 0
    /\ loop = "split"

NumNext == Split \/ PrintWord
NumSpec == NumInit /\ [][NumNext]_numVars

-----------------------------------------------------------------------------
\* The number that a sequence of digits denotes, most significant first.
Value(ds) ==
    LET v[n \in 0..Len(ds)] == IF n = 0 THEN 0 ELSE 10 * v[n - 1] + ds[n]
    IN  v[Len(ds)]

\* The words spell the number that was passed, without a leading zero unless it
\* is all there is; they follow each other without a gap, and neither digits[]
\* nor the caller's buffer is left.
SpellsTheNumber ==
    /\ Len(digits) <= DIGITS /\ nul < BUF
    /\ loop = "print" /\ i >= 0 => cursor = nul
    /\ loop = "done" => /\ out # <<>>
                        /\ Value(out) = arg
                        /\ Len(out) > 1 => out[1] # 0
=============================================================================
