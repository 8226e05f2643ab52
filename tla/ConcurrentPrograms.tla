------------------------- MODULE ConcurrentPrograms -------------------------
(***************************************************************************)
(* The small programs with several threads or with callbacks: the          *)
(* interposer of tests/libr2, bench-vbinder, bench-bootanim and            *)
(* BrowserBench.  They share nothing, so a behaviour is one of one         *)
(* program; the others stay as they were started.                          *)
(***************************************************************************)
EXTENDS LibR2, BenchVBinder, BootAnimation, EvalRecorder

VARIABLE program   \* the one that runs

Programs == {"libr2", "vbinder", "bootanim", "browser"}

allVars == <<program, r2Vars, vbinderVars, bootVars, evalVars>>

\* The payload sizes of main in bench-vbinder.
MainSizes == <<4, 1024, 2048, 4096, 8192, 16384>>

\* What is not read by the program that runs has one value.
Init ==
    /\ program \in Programs
    /\ R2Init /\ VInit /\ BootInit
    /\ EvalInit /\ (program # "browser" => lines = 0)

\* A step of program p; the others do not move.
Runs(p, Step) ==
    /\ program = p /\ Step
    /\ UNCHANGED program
    /\ p # "libr2" => UNCHANGED r2Vars
    /\ p # "vbinder" => UNCHANGED vbinderVars
    /\ p # "bootanim" => UNCHANGED bootVars
    /\ p # "browser" => UNCHANGED evalVars

Next ==
    \/ Runs("libr2", R2Next)
    \/ Runs("vbinder", VNext)
    \/ Runs("bootanim", BootNext)
    \/ Runs("browser", EvalNext)

\* Each thread runs on, in bench-vbinder also out of its sleep, and the WebView
\* works off what it has been asked to load.  Faults, calls that fail,
\* redirections, repeated callbacks and further calls need not happen.
Fairness ==
    /\ \A t \in Threads : WF_allVars(Runs("libr2", ioctl(t)))
    /\ WF_allVars(Runs("vbinder", Main /\ Succeeds))
    /\ WF_allVars(Runs("vbinder", Pong /\ Succeeds))
    /\ WF_allVars(Runs("bootanim", LeavePool))
    /\ WF_allVars(Runs("bootanim", Animation))
    /\ WF_allVars(Runs("browser", onPageStarted))
    /\ WF_allVars(Runs("browser", onPageFinished))

Spec == Init /\ [][Next]_allVars /\ Fairness
=============================================================================
