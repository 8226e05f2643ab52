------------------------------- MODULE OwnTty -------------------------------
(***************************************************************************)
(* own-tty (own-tty/own-tty.c): run a program on a terminal of its own.    *)
(* The process opens the terminal as its standard files and forks; the     *)
(* parent waits, the child becomes a session leader, takes the terminal as *)
(* its controlling one and runs the program.  When the fork fails, the     *)
(* process itself goes on as the child.  The kernel's part is external:    *)
(* setsid is refused to a group leader, TIOCSCTTY to all but session       *)
(* leaders.                                                                *)
(***************************************************************************)
EXTENDS Integers

CONSTANTS
    MayBeClosed, \* the standard files the caller may have closed
    ExitCodes,   \* the exit codes of the program that is run
    Signals,     \* the signals that may end it
    TtyFaults       \* the calls that may fail

ASSUME ClosedAssumption == MayBeClosed \subseteq 0..2
ASSUME CodesAssumption == ExitCodes \subseteq 0..255 /\ Signals \subseteq 1..127
ASSUME TtyFaultsAssumption ==
    TtyFaults \subseteq {"usage", "open", "dup2", "fork", "setsid", "ctty", "execv"}

Procs == {"parent", "child"}
Fds == 0..3
\* How a process has ended, as wait() stores it: Exited(code) or a signal.
Exited(code) == (code % 256) * 256
Running == -1

VARIABLES
    pc,        \* for each process the call it is at, "none" without a process
    files,     \* for each process what a descriptor is: "closed", "caller" or "tty"
    fd,        \* the variable of main: what open() has returned
    leader,    \* for each process: "none", "group" or "session"
    ctty,      \* for each process: the terminal is its controlling one
    status     \* for each process how it has ended, or Running

ttyVars == <<pc, files, fd, leader, ctty, status>>

Goto(p, l) == pc' = [pc EXCEPT ![p] = l]
Ends(p, st) ==
    /\ Goto(p, "gone")
    /\ status' = [status EXCEPT ![p] = st]

\* argc < 4: usage() ends the process with 2.
Usage ==
    /\ pc["parent"] = "usage"
    /\ \/ Goto("parent", "open") /\ UNCHANGED status
       \/ "usage" \in TtyFaults /\ Ends("parent", Exited(2))
    /\ UNCHANGED <<files, fd, leader, ctty>>

\* open returns the lowest descriptor that is free.
Open ==
    /\ pc["parent"] = "open"
    /\ \/ /\ fd' = CHOOSE f \in Fds : /\ files["parent"][f] = "closed"
                                     /\ \A g \in 0..(f - 1) : files["parent"][g] # "closed"
          /\ files' = [files EXCEPT !["parent"][fd'] = "tty"]
          /\ Goto("parent", "dup2")
          /\ UNCHANGED status
       \/ /\ "open" \in TtyFaults
          /\ Ends("parent", Exited(1))
          /\ UNCHANGED <<files, fd>>
    /\ UNCHANGED <<leader, ctty>>

\* Mutant: stderr is left as it is.
dup2_wrap_TwoOnly ==
    /\ pc["parent"] = "dup2"
    /\ files' = [files EXCEPT !["parent"][0] = "tty", !["parent"][1] = "tty"]
    /\ Goto("parent", "close")
    /\ UNCHANGED <<fd, leader, ctty, status>>

\* The three calls of dup2_wrap; the first that fails ends the process.
dup2_wrap ==
    /\ pc["parent"] = "dup2"
    /\ \/ /\ files' = [files EXCEPT !["parent"] =
                           [f \in Fds |-> IF f \in 0..2 THEN @[fd] ELSE @[f]]]
          /\ Goto("parent", "close")
          /\ UNCHANGED status
       \/ /\ "dup2" \in TtyFaults
          /\ Ends("parent", Exited(1))
          /\ UNCHANGED files
    /\ UNCHANGED <<fd, leader, ctty>>

\* close(fd), whichever descriptor that is.
CloseFd ==
    /\ pc["parent"] = "close"
    /\ files' = [files EXCEPT !["parent"][fd] = "closed"]
    /\ Goto("parent", "fork")
    /\ UNCHANGED <<fd, leader, ctty, status>>

\* The child is no group leader.  A fork that fails is only printed.
Fork ==
    /\ pc["parent"] = "fork"
    /\ \/ /\ pc' = [pc EXCEPT !["parent"] = "wait", !["child"] = "setsid"]
          /\ files' = [files EXCEPT !["child"] = files["parent"]]
          /\ leader' = [leader EXCEPT !["child"] = "none"]
       \/ /\ "fork" \in TtyFaults
          /\ Goto("parent", "setsid")
          /\ UNCHANGED <<files, leader>>
    /\ UNCHANGED <<fd, ctty, status>>

\* wait(&rv) and exit(rv): the status of the child is the code of the parent.
WaitChild ==
    /\ pc["parent"] = "wait" /\ status["child"] # Running
    /\ Ends("parent", Exited(status["child"]))
    /\ UNCHANGED <<files, fd, leader, ctty>>

-----------------------------------------------------------------------------
(* The child, or the process itself when there is none *)

\* A setsid that fails is only printed.
SetSid(p) ==
    /\ pc[p] = "setsid"
    /\ \/ leader[p] = "none" /\ leader' = [leader EXCEPT ![p] = "session"]
       \/ (leader[p] # "none" \/ "setsid" \in TtyFaults) /\ UNCHANGED leader
    /\ Goto(p, "ctty")
    /\ UNCHANGED <<files, fd, ctty, status>>

\* Mutant: the result of TIOCSCTTY is only printed.
SetCtty_Unchecked(p) ==
    /\ pc[p] = "ctty"
    /\ ctty' = [ctty EXCEPT ![p] = leader[p] = "session"]
    /\ Goto(p, "execv")
    /\ UNCHANGED <<files, fd, leader, status>>

\* ioctl(0, TIOCSCTTY, 1)
SetCtty(p) ==
    /\ pc[p] = "ctty"
    /\ \/ /\ leader[p] = "session" /\ files[p][0] = "tty"
          /\ ctty' = [ctty EXCEPT ![p] = TRUE]
          /\ Goto(p, "execv")
          /\ UNCHANGED status
       \/ /\ leader[p] # "session" \/ files[p][0] # "tty" \/ "ctty" \in TtyFaults
          /\ Ends(p, Exited(1))
          /\ UNCHANGED ctty
    /\ UNCHANGED <<files, fd, leader>>

\* An execv that fails is printed, and main returns 0.
Execv(p) ==
    /\ pc[p] = "execv"
    /\ \/ Goto(p, "program") /\ UNCHANGED status
       \/ "execv" \in TtyFaults /\ Ends(p, Exited(0))
    /\ UNCHANGED <<files, fd, leader, ctty>>

\* The program ends, by itself or by a signal.
ProgramEnds(p) ==
    /\ pc[p] = "program"
    /\ \E st \in {Exited(c) : c \in ExitCodes} \cup Signals : Ends(p, st)
    /\ UNCHANGED <<files, fd, leader, ctty>>

TtyInit ==
    /\ pc = [p \in Procs |-> IF p = "parent" THEN "usage" ELSE "none"]
    /\ \E closed \in SUBSET MayBeClosed :
          files = [p \in Procs |-> [f \in Fds |->
                      IF f = 3 \/ f \in closed THEN "closed" ELSE "caller"]]
    /\ fd = 0
    /\ \E l \in {"none", "group", "session"} : leader = [p \in Procs |-> l]
    /\ ctty = [p \in Procs |-> FALSE]
    /\ status = [p \in Procs |-> Running]

TtyNext ==
    \/ Usage \/ Open \/ dup2_wrap \/ CloseFd \/ Fork \/ WaitChild
    \/ \E p \in Procs : SetSid(p) \/ SetCtty(p) \/ Execv(p) \/ ProgramEnds(p)

TtySpec == TtyInit /\ [][TtyNext]_ttyVars

-----------------------------------------------------------------------------
\* The program is run with the terminal, and nothing else of own-tty's, as its
\* standard files and as its controlling terminal; whatever fails on the way,
\* the fork included, it is not run at all otherwise.  The one exception: a
\* standard file that the caller had closed is where open put the terminal, and
\* close(fd) takes it away again.
ProgramOwnsTty ==
    \A p \in Procs : pc[p] = "program" =>
        /\ \A f \in 0..2 \ {fd} : files[p][f] = "tty"
        /\ fd \in MayBeClosed \/ fd = 3
        /\ files[p][0] = "tty" /\ files[p][3] = "closed"
        /\ leader[p] = "session" /\ ctty[p]

\* A caller that sees 0 knows that the program was run and ended with 0.
CallerLearnsFailure ==
    status["parent"] = Exited(0) /\ pc["child"] # "none" => status["child"] = Exited(0)
=============================================================================
