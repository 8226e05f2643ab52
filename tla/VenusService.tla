---------------------------- MODULE VenusService ----------------------------
(***************************************************************************)
(* Venus implements UpcallService.  With handles that fall on distinct     *)
(* workers and nothing failing it implements the service that loses        *)
(* nothing; otherwise the lossy one.                                       *)
(***************************************************************************)
EXTENDS Venus

\* How far the upcall of t has come, from where Venus holds it.
StageOf(t) ==
    LET p == Places(t)
    IN  CASE kreq[t] = "none" -> "idle"
          [] \E w \in p.handled : pc[w] = "reply" -> "done"
          [] p.queued \cup p.mailbox \cup p.handled # {}
               /\ \A w \in p.handled : pc[w] # "reply" -> "pending"
          [] OTHER -> "lost"

MayLose == Faults # {} \/ Opcodes \cap BadOps # {}

Service == INSTANCE UpcallService WITH
    Quick <- NonBlocking,
    Lossy <- MayLose,
    req   <- kreq,
    stage <- [t \in Threads |-> StageOf(t)],
    up    <- proc # "exited"

\* Every step of Venus is a step of the service or invisible to the threads:
\* requests are performed once and answered once, to the thread that asked.
ImplementsService == Service!Spec

\* Under the scheduling of the threads of Venus the service is also prompt:
\* quick operations are performed and performed operations are answered.
ImplementsFairService == Service!FairSpec
=============================================================================
