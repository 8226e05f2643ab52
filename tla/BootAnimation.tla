--------------------------- MODULE BootAnimation ---------------------------
(***************************************************************************)
(* The boot animation benchmark (android/bench-bootanim).  main waits in   *)
(* the Binder thread pool; the animation thread sets up OpenGL, draws      *)
(* TEST_TIMES frames, cleans up and stops the process.  The framework is   *)
(* external: a thread whose readyToRun fails never runs, a swap needs      *)
(* SurfaceFlinger, which may die, and the pool returns once stopProcess    *)
(* has closed the driver.                                                  *)
(***************************************************************************)
EXTENDS Naturals

CONSTANTS
    BOOT_TEST_TIMES,   \* the frames to draw
    BootFaults        \* what may fail

ASSUME BootTimesAssumption == BOOT_TEST_TIMES \in Nat \ {0}
ASSUME BootFaultsAssumption ==
    BootFaults \subseteq {"thread", "display", "current", "asset", "swap", "flinger"}

VARIABLES
    mainThread,      \* "construct", "pool" or "returned"
    anim,      \* "off", "setup", "texture", "clear", "frame", "report",
               \* "teardown", "stop" or "gone"
    gl,        \* the context: "none", "created", "current", "released", "destroyed"
    surface,   \* the EGL surface and the one of SurfaceFlinger are held
    tex,       \* for the mask and the shine: "none", "loaded" or "deleted"
    next,      \* the texture that initTexture loads next
    frames,         \* the frames that were swapped
    res,       \* the result of the last swap
    printed,   \* the time has been logged
    flinger,   \* SurfaceFlinger is alive
    driver     \* the Binder driver is open

bootVars == <<mainThread, anim, gl, surface, tex, next, frames, res, printed, flinger, driver>>
drawVars == <<gl, surface, tex, next, frames, res, printed>>

Up == mainThread # "returned"

-----------------------------------------------------------------------------
(* main *)

\* The first reference starts the thread (onFirstRef); main joins the pool.
Construct ==
    /\ mainThread = "construct"
    /\ mainThread' = "pool"
    /\ anim' = "setup" \/ ("thread" \in BootFaults /\ anim' = "gone")
    /\ UNCHANGED <<drawVars, flinger, driver>>

\* joinThreadPool returns when the driver is gone, and main with it.
LeavePool ==
    /\ mainThread = "pool" /\ ~driver
    /\ mainThread' = "returned"
    /\ UNCHANGED <<anim, drawVars, flinger, driver>>

\* External: SurfaceFlinger dies.  onFirstRef does not ask to be told, so
\* binderDied is not called.
FlingerDies ==
    /\ "flinger" \in BootFaults /\ flinger
    /\ flinger' = FALSE
    /\ UNCHANGED <<mainThread, anim, drawVars, driver>>

-----------------------------------------------------------------------------
(* The animation thread *)

\* readyToRun: without a display nothing is created; a context that cannot be
\* made current is left behind.  Either ends the thread.
readyToRun ==
    /\ Up /\ anim = "setup"
    /\ \/ anim' = "texture" /\ gl' = "current" /\ surface' = TRUE
       \/ "display" \in BootFaults /\ anim' = "gone" /\ UNCHANGED <<gl, surface>>
       \/ "current" \in BootFaults /\ anim' = "gone" /\ gl' = "created" /\ surface' = TRUE
    /\ UNCHANGED <<mainThread, tex, next, frames, res, printed, flinger, driver>>

\* The two calls of initTexture; nobody looks at their results.
initTexture ==
    /\ Up /\ anim = "texture"
    /\ tex' = [tex EXCEPT ![next] = "loaded"] \/ ("asset" \in BootFaults /\ UNCHANGED tex)
    /\ next' = next + 1
    /\ anim' = IF next = 2 THEN "clear" ELSE "texture"
    /\ UNCHANGED <<mainThread, gl, surface, frames, res, printed, flinger, driver>>

\* The screen is cleared once before the frames.
Clear ==
    /\ Up /\ anim = "clear" /\ flinger
    /\ anim' = "frame"
    /\ UNCHANGED <<mainThread, drawVars, flinger, driver>>

\* A turn of the loop: draw and swap.  A swap that fails ends the loop; one
\* that has lost SurfaceFlinger sleeps.
Frame ==
    /\ Up /\ anim = "frame" /\ flinger
    /\ \/ /\ frames < BOOT_TEST_TIMES /\ frames' = frames + 1 /\ UNCHANGED <<anim, res>>
       \/ /\ frames < BOOT_TEST_TIMES /\ "swap" \in BootFaults
          /\ res' = FALSE /\ anim' = "report" /\ UNCHANGED frames
    /\ UNCHANGED <<mainThread, gl, surface, tex, next, printed, flinger, driver>>

FramesDone ==
    /\ Up /\ anim = "frame" /\ frames >= BOOT_TEST_TIMES
    /\ anim' = "report"
    /\ UNCHANGED <<mainThread, drawVars, flinger, driver>>

\* Mutant: only the texture of the mask is deleted.
Report_MaskOnly ==
    /\ Up /\ anim = "report"
    /\ printed' = TRUE
    /\ tex' = [tex EXCEPT ![1] = "deleted"]
    /\ anim' = "teardown"
    /\ UNCHANGED <<mainThread, gl, surface, next, frames, res, flinger, driver>>

\* The time is logged as the one of TEST_TIMES frames, and the textures deleted.
Report ==
    /\ Up /\ anim = "report"
    /\ printed' = TRUE
    /\ tex' = [k \in 1..2 |-> "deleted"]
    /\ anim' = "teardown"
    /\ UNCHANGED <<mainThread, gl, surface, next, frames, res, flinger, driver>>

\* threadLoop after android(): release, destroy, let go of the surfaces.
Teardown ==
    /\ Up /\ anim = "teardown"
    /\ \/ /\ gl = "current" /\ gl' = "released" /\ UNCHANGED <<surface, anim>>
       \/ /\ gl = "released" /\ gl' = "destroyed" /\ UNCHANGED <<surface, anim>>
       \/ /\ gl = "destroyed" /\ surface' = FALSE /\ anim' = "stop" /\ UNCHANGED gl
    /\ UNCHANGED <<mainThread, tex, next, frames, res, printed, flinger, driver>>

\* Mutant: the process is not stopped.
StopProcess_Missing ==
    /\ Up /\ anim = "stop"
    /\ anim' = "gone"
    /\ UNCHANGED <<mainThread, drawVars, flinger, driver>>

\* stopProcess; threadLoop returns false and is not called again.
StopProcess ==
    /\ Up /\ anim = "stop"
    /\ driver' = FALSE
    /\ anim' = "gone"
    /\ UNCHANGED <<mainThread, drawVars, flinger>>

BootInit ==
    /\ mainThread = "construct" /\ anim = "off"
    /\ gl = "none" /\ surface = FALSE
    /\ tex = [k \in 1..2 |-> "none"] /\ next = 1
    /\ frames = 0 /\ res = TRUE /\ printed = FALSE /\ flinger = TRUE /\ driver = TRUE

Animation == \/ readyToRun \/ initTexture \/ Clear \/ Frame \/ FramesDone
             \/ Report \/ Teardown \/ StopProcess
BootNext == Construct \/ LeavePool \/ FlingerDies \/ Animation

BootSpec == BootInit /\ [][BootNext]_bootVars

-----------------------------------------------------------------------------
\* When the process is stopped everything that was set up is released: the
\* context was made non-current before it was destroyed, both surfaces are let
\* go of and both textures deleted, however the loop ended.
NothingLeftBehind ==
    ~driver => /\ gl = "destroyed" /\ ~surface
               /\ \A k \in 1..2 : tex[k] = "deleted"

\* Once it has started its thread the benchmark returns from main, unless the
\* thread never came to draw or SurfaceFlinger has died: those leave main in
\* the thread pool.
Returns ==
    mainThread = "pool" ~> \/ mainThread = "returned" \/ ~flinger
                           \/ anim = "gone" /\ gl \in {"none", "created"}
=============================================================================
