---------------------------- MODULE PatchPayload ----------------------------
(***************************************************************************)
(* patch_payload_ptr of Venus (android/venus/binder.c): before the write   *)
(* buffer goes to the Binder driver, the words that the patch table names  *)
(* are turned from offsets into addresses.  The table is part of the same  *)
(* payload, so patching may change it under way.  The payload is modelled  *)
(* word by word: offsets count words.                                      *)
(***************************************************************************)
EXTENDS Naturals

CONSTANTS
    PAYLOAD_WORDS,      \* words in the payload
    PAYLOAD_ADDR,       \* the address of the payload
    Modulus    \* 2^32, the values of a word

ASSUME PatchAssumption ==
    PAYLOAD_WORDS \in Nat /\ PAYLOAD_ADDR \in Nat /\ Modulus \in Nat \ {0}

VARIABLES
    entries, offset,   \* the arguments: length and place of the table
    original,           \* the upcall as it was read, for the properties
    words,               \* the payload as it is patched
    turn,                 \* the loop counter
    patchAt                 \* "loop", "ioctl" or "wild": outside of the payload

patchVars == <<entries, offset, original, words, turn, patchAt>>

Words == 0..(PAYLOAD_WORDS - 1)
Values == 0..(Modulus - 1)

TableWords == offset..(offset + entries - 1)

-----------------------------------------------------------------------------
\* Mutant: the addresses are taken relative to the table.
PatchEntry_FromTable ==
    /\ patchAt = "loop" /\ turn < entries /\ words[offset + turn] \in Words
    /\ words' = [words EXCEPT ![words[offset + turn]] = (@ + PAYLOAD_ADDR + offset) % Modulus]
    /\ turn' = turn + 1
    /\ UNCHANGED <<entries, offset, original, patchAt>>

\* One turn of the loop.
PatchEntry ==
    /\ patchAt = "loop" /\ turn < entries /\ words[offset + turn] \in Words
    /\ words' = [words EXCEPT ![words[offset + turn]] = (@ + PAYLOAD_ADDR) % Modulus]
    /\ turn' = turn + 1
    /\ UNCHANGED <<entries, offset, original, patchAt>>

\* No entry is checked against the size of the payload.
PatchWild ==
    /\ patchAt = "loop" /\ turn < entries /\ words[offset + turn] \notin Words
    /\ patchAt' = "wild"
    /\ UNCHANGED <<entries, offset, original, words, turn>>

\* handle_binder_write_read goes on to the ioctl.
PatchDone ==
    /\ patchAt = "loop" /\ turn >= entries
    /\ patchAt' = "ioctl"
    /\ UNCHANGED <<entries, offset, original, words, turn>>

PatchInit ==
    /\ original \in [Words -> Values]
    /\ offset \in 0..PAYLOAD_WORDS /\ entries \in 0..(PAYLOAD_WORDS - offset)
    /\ words = original /\ turn = 0 /\ patchAt = "loop"

PatchNext == PatchEntry \/ PatchWild \/ PatchDone
PatchSpec == PatchInit /\ [][PatchNext]_patchVars

-----------------------------------------------------------------------------
\* The entry j of the table as the upcall carried it.
Entry(j) == original[offset + j]

\* What the sender has to keep to: every entry names a word of the payload
\* that is not part of the table, and no two name the same.
GoodTable ==
    /\ \A j \in 0..(entries - 1) : Entry(j) \in Words \ TableWords
    /\ \A j, k \in 0..(entries - 1) : Entry(j) = Entry(k) => j = k

Named(w, n) == \E j \in 0..(n - 1) : Entry(j) = w

\* With a good table nothing outside of the payload is written, every word the
\* table names is relocated exactly once, and every other word, the table
\* included, reaches the driver as it was sent.
PatchedOnce ==
    GoodTable =>
        /\ patchAt # "wild"
        /\ patchAt = "ioctl" =>
              \A w \in Words :
                  words[w] = IF Named(w, entries)
                             THEN (original[w] + PAYLOAD_ADDR) % Modulus
                             ELSE original[w]
=============================================================================
