--------------------------- MODULE UpcallService ---------------------------
(***************************************************************************)
(* What Venus promises the threads of ExpressOS, without dispatcher,       *)
(* workers and mailboxes: a request is performed once, then answered once, *)
(* and a thread may ask again only after its answer.  Which requests       *)
(* overtake which is left open.                                            *)
(***************************************************************************)
CONSTANTS
    Threads,   \* the requesting threads
    Opcodes,   \* what they may ask for
    Quick,     \* the operations that do not wait for an event
    Lossy      \* TRUE if requests may be lost and the service may stop

VARIABLES
    req,    \* req[t]: the operation thread t waits for, or "none"
    stage,  \* stage[t]: how far the request of t has come
    up      \* FALSE once the service has stopped

vars == <<req, stage, up>>

Init ==
    /\ req = [t \in Threads |-> "none"]
    /\ stage = [t \in Threads |-> "idle"]
    /\ up = TRUE

\* Thread t asks for op.
Ask(t, op) ==
    /\ up
    /\ stage[t] = "idle"
    /\ req' = [req EXCEPT ![t] = op]
    /\ stage' = [stage EXCEPT ![t] = "pending"]
    /\ UNCHANGED up

\* The operation of t takes effect.
Perform(t) ==
    /\ up
    /\ stage[t] = "pending"
    /\ stage' = [stage EXCEPT ![t] = "done"]
    /\ UNCHANGED <<req, up>>

\* A FUTEX_WAKE of t takes effect and ends the FUTEX_WAIT of s.
PerformWake(t, s) ==
    /\ up
    /\ req[t] = "FUTEX_WAKE" /\ stage[t] = "pending"
    /\ req[s] = "FUTEX_WAIT" /\ stage[s] = "pending"
    /\ stage' = [stage EXCEPT ![t] = "done", ![s] = "done"]
    /\ UNCHANGED <<req, up>>

\* Thread t gets its answer and goes on.
Answer(t) ==
    /\ up
    /\ stage[t] = "done"
    /\ req' = [req EXCEPT ![t] = "none"]
    /\ stage' = [stage EXCEPT ![t] = "idle"]
    /\ UNCHANGED up

\* The request of t is never answered.
Lose(t) ==
    /\ Lossy /\ up
    /\ stage[t] \in {"pending", "done"}
    /\ stage' = [stage EXCEPT ![t] = "lost"]
    /\ UNCHANGED <<req, up>>

Stop == Lossy /\ up /\ up' = FALSE /\ UNCHANGED <<req, stage>>

Next ==
    \/ \E t \in Threads :
          \/ \E op \in Opcodes : Ask(t, op)
          \/ Perform(t)
          \/ \E s \in Threads : PerformWake(t, s)
          \/ Answer(t)
          \/ Lose(t)
    \/ Stop

Spec == Init /\ [][Next]_vars

\* A quick operation is performed, and what is performed is answered.
Fairness ==
    \A t \in Threads :
        /\ WF_vars(req[t] \in Quick /\ Perform(t))
        /\ WF_vars(Answer(t))

FairSpec == Spec /\ Fairness
=============================================================================
