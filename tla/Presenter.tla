----------------------------- MODULE Presenter -----------------------------
(***************************************************************************)
(* The slide presenter (android/presenter).  Three threads: main opens the *)
(* archive of slides, the presenter thread draws, and the key handler,     *)
(* which main starts once the archive is open, turns datagrams into        *)
(* actions.  Key handler and presenter meet at mAction, under mCondMutex   *)
(* and the one condition variable mCond.  The presenter thread starts with *)
(* the first reference to the object, before main has opened the archive.  *)
(***************************************************************************)
EXTENDS Naturals

CONSTANTS
    NumberOfSlides,  \* the number in desc.txt
    Broken,          \* slides the archive does not deliver
    Undecodable,     \* slides it delivers that are no pictures
    UnknownFormat,   \* pictures with pixels in a format loadSlide does not upload
    Faults           \* the kinds of failure that may happen

ASSUME SlidesAssumption ==
    /\ NumberOfSlides \in Nat
    /\ Broken \subseteq Nat /\ Undecodable \subseteq Nat /\ UnknownFormat \subseteq Nat
ASSUME FaultsAssumption ==
    Faults \subseteq {"open", "thread", "screen", "socket", "poll"}

Actions == {"PREV_SLIDE", "NEXT_SLIDE", "TOGGLE_BLANK"}

VARIABLES
    main,             \* "construct", "opening", "desc", "joined" or "exited"
    presenter,        \* "off", "start", "first", "display", "loop", "wait", "gone"
    keys,             \* "off", "socket", "poll", "signal", "wait", "gone"
    key,              \* the action the key handler is to signal
    mAction,
    mCurrentSlide,
    mNumberOfSlides,
    mSlideWidth,      \* 0 until desc.txt has been read; the height goes with it
    mBlankScreen,
    texture,          \* the slide whose pixels the texture has, 0 for none
    crop,             \* the slide whose size its crop rectangle has, 0 for 0 x 0
    screen            \* the slide display() drew last, 0 when it drew none

vars == <<main, presenter, keys, key, mAction, mCurrentSlide, mNumberOfSlides,
          mSlideWidth, mBlankScreen, texture, crop, screen>>
descVars == <<mNumberOfSlides, mSlideWidth>>
slideVars == <<mCurrentSlide, mBlankScreen, texture, crop, screen>>

Up == main # "exited"
Exit == main' = "exited"

-----------------------------------------------------------------------------
(* main *)

\* s_presenter = new Presenter(): the first reference runs onFirstRef, which
\* starts the presenter thread; main goes on to open().
Construct ==
    /\ main = "construct"
    /\ main' = "opening"
    /\ presenter' = "start" \/ ("thread" \in Faults /\ presenter' = "gone")
    /\ UNCHANGED <<keys, key, mAction, descVars, slideVars>>

\* open(), first part: mSlides.open(zipArchive).
OpenArchive ==
    /\ main = "opening"
    /\ main' = "desc" \/ ("open" \in Faults /\ Exit)
    /\ UNCHANGED <<presenter, keys, key, mAction, descVars, slideVars>>

\* open(), the rest: desc.txt is read and the key handler started (whether that
\* succeeds is not checked).  An error makes main return, which ends the process.
ReadDesc ==
    /\ main = "desc"
    /\ \/ /\ mNumberOfSlides' = NumberOfSlides
          /\ mSlideWidth' = 1
          /\ keys' = "socket" \/ ("thread" \in Faults /\ UNCHANGED keys)
          /\ main' = "joined"
       \/ /\ "open" \in Faults
          /\ Exit
          /\ UNCHANGED <<descVars, keys>>
    /\ UNCHANGED <<presenter, key, mAction, slideVars>>

-----------------------------------------------------------------------------
(* The key handler *)

\* key_handler up to its loop; a failure exits the process.
OpenSocket ==
    /\ Up /\ keys = "socket"
    /\ \/ keys' = "poll" /\ UNCHANGED main
       \/ "socket" \in Faults /\ Exit /\ UNCHANGED keys
    /\ UNCHANGED <<presenter, key, mAction, descVars, slideVars>>

\* A datagram arrives; characters without a meaning are ignored.
ReceiveKey(a) ==
    /\ Up /\ keys = "poll"
    /\ keys' = "signal"
    /\ key' = a
    /\ UNCHANGED <<main, presenter, mAction, descVars, slideVars>>

PollFails ==
    /\ Up /\ keys = "poll" /\ "poll" \in Faults
    /\ keys' = "gone"
    /\ UNCHANGED <<main, presenter, key, mAction, descVars, slideVars>>

\* Mutant: signalAction does not signal.
signalAction_NoSignal ==
    /\ Up /\ keys = "signal"
    /\ IF mAction = "NO_OP" THEN mAction' = key /\ keys' = "poll"
       ELSE keys' = "wait" /\ UNCHANGED mAction
    /\ UNCHANGED <<main, presenter, key, descVars, slideVars>>

\* signalAction, under the mutex: wait while an action is pending, else store the
\* new one and signal mCond.  The key handler is not waiting then, so the signal
\* can only reach the presenter.
signalAction ==
    /\ Up /\ keys = "signal"
    /\ \/ /\ mAction # "NO_OP"
          /\ keys' = "wait"
          /\ UNCHANGED <<mAction, presenter>>
       \/ /\ mAction = "NO_OP"
          /\ mAction' = key
          /\ keys' = "poll"
          /\ presenter' = IF presenter = "wait" THEN "loop" ELSE presenter
    /\ UNCHANGED <<main, key, descVars, slideVars>>

-----------------------------------------------------------------------------
(* The presenter thread *)

\* What display() shows of texture t cropped to c when the screen is blanked or
\* not: no slide, too, while the size of the slides is still 0, or when the crop
\* rectangle is 0 x 0, which stretches one point of the texture over the screen.
Drawn(t, c, blank) == IF blank \/ mSlideWidth = 0 \/ c = 0 THEN 0 ELSE t

\* readyToRun: without a screen the thread never runs.
readyToRun ==
    /\ Up /\ presenter = "start"
    /\ presenter' = "first" \/ ("screen" \in Faults /\ presenter' = "gone")
    /\ UNCHANGED <<main, keys, key, mAction, descVars, slideVars>>

\* The slides whose pixels do not reach the texture.
NotUploaded == Broken \cup Undecodable \cup UnknownFormat

\* Mutant: an undecodable slide is refused, after the counter has moved.
loadSlide_KeepCrop(n, cur) ==
    /\ mCurrentSlide' = IF n \in Broken THEN cur ELSE n
    /\ texture' = IF n \in NotUploaded THEN texture ELSE n
    /\ crop' = IF n \in Broken \cup Undecodable THEN crop ELSE n

\* loadSlide(n) called with mCurrentSlide = cur: when the archive does not deliver
\* the slide nothing changes.  Else n becomes the current slide and the crop
\* rectangle gets its size, that of an empty bitmap if the data did not decode,
\* but the pixels are uploaded for the two known formats only.
loadSlide(n, cur) ==
    /\ mCurrentSlide' = IF n \in Broken THEN cur ELSE n
    /\ texture' = IF n \in NotUploaded THEN texture ELSE n
    /\ crop' = IF n \in Broken THEN crop ELSE IF n \in Undecodable THEN 0 ELSE n

\* runPresentation begins with loadSlide(1), whose result it ignores.  Before
\* main has opened the archive the slide is not found; while main opens it the
\* two threads race on mSlides and either may happen.
LoadFirst ==
    /\ Up /\ presenter = "first"
    /\ \/ loadSlide(1, mCurrentSlide)
       \/ main = "opening" /\ UNCHANGED <<mCurrentSlide, texture, crop>>
    /\ presenter' = "display"
    /\ UNCHANGED <<main, keys, key, mAction, descVars, mBlankScreen, screen>>

DisplayFirst ==
    /\ Up /\ presenter = "display"
    /\ screen' = Drawn(texture, crop, mBlankScreen)
    /\ presenter' = "loop"
    /\ UNCHANGED <<main, keys, key, mAction, descVars, mCurrentSlide,
                   mBlankScreen, texture, crop>>

\* The loop of runPresentation finds no action and sleeps on mCond.
WaitForAction ==
    /\ Up /\ presenter = "loop" /\ mAction = "NO_OP"
    /\ presenter' = "wait"
    /\ UNCHANGED <<main, keys, key, mAction, descVars, slideVars>>

\* The cases of the switch.  mCurrentSlide changes before loadSlide is called,
\* and stays changed when that fails.
PrevSlide ==
    IF mCurrentSlide > 1
    THEN /\ loadSlide(mCurrentSlide - 1, mCurrentSlide - 1)
         /\ screen' = Drawn(texture', crop', mBlankScreen)
         /\ UNCHANGED mBlankScreen
    ELSE UNCHANGED slideVars

\* Mutant: the last slide is not checked for.
NextSlide_NoBound ==
    /\ loadSlide(mCurrentSlide + 1, mCurrentSlide + 1)
    /\ screen' = Drawn(texture', crop', mBlankScreen)
    /\ UNCHANGED mBlankScreen

NextSlide ==
    IF mCurrentSlide < mNumberOfSlides
    THEN /\ loadSlide(mCurrentSlide + 1, mCurrentSlide + 1)
         /\ screen' = Drawn(texture', crop', mBlankScreen)
         /\ UNCHANGED mBlankScreen
    ELSE UNCHANGED slideVars

ToggleBlank ==
    /\ mBlankScreen' = ~mBlankScreen
    /\ screen' = Drawn(texture, crop, mBlankScreen')
    /\ UNCHANGED <<mCurrentSlide, texture, crop>>

\* One iteration of the loop of runPresentation with an action, all of it under
\* the mutex.  mAction becomes NO_OP, and nobody is told.
PerformAction ==
    /\ Up /\ presenter = "loop" /\ mAction # "NO_OP"
    /\ \/ mAction = "PREV_SLIDE" /\ PrevSlide
       \/ mAction = "NEXT_SLIDE" /\ NextSlide
       \/ mAction = "TOGGLE_BLANK" /\ ToggleBlank
    /\ mAction' = "NO_OP"
    /\ UNCHANGED <<main, presenter, keys, key, descVars>>

\* pthread_cond_wait may return without a signal, in either thread.
SpuriousWakeup ==
    /\ Up
    /\ \/ presenter = "wait" /\ presenter' = "loop" /\ UNCHANGED keys
       \/ keys = "wait" /\ keys' = "signal" /\ UNCHANGED presenter
    /\ UNCHANGED <<main, key, mAction, descVars, slideVars>>

-----------------------------------------------------------------------------
Init ==
    /\ main = "construct" /\ presenter = "off" /\ keys = "off"
    /\ key = "NO_OP" /\ mAction = "NO_OP"
    /\ mCurrentSlide = 0 /\ mNumberOfSlides = 0 /\ mSlideWidth = 0
    /\ mBlankScreen = FALSE
    /\ texture = 0 /\ crop = 0 /\ screen = 0

Main == Construct \/ OpenArchive \/ ReadDesc
threadLoop == readyToRun \/ LoadFirst \/ DisplayFirst \/ WaitForAction \/ PerformAction

Next ==
    \/ Main
    \/ OpenSocket \/ (\E a \in Actions : ReceiveKey(a)) \/ PollFails \/ signalAction
    \/ threadLoop
    \/ SpuriousWakeup

Spec == Init /\ [][Next]_vars

\* The three threads are scheduled; keys and spurious wakeups need not come.
FairSpec ==
    Spec /\ WF_vars(Main) /\ WF_vars(OpenSocket \/ signalAction) /\ WF_vars(threadLoop)

-----------------------------------------------------------------------------
(* Properties *)

\* Type correctness.
TypeOK ==
    /\ main \in {"construct", "opening", "desc", "joined", "exited"}
    /\ presenter \in {"off", "start", "first", "display", "loop", "wait", "gone"}
    /\ keys \in {"off", "socket", "poll", "signal", "wait", "gone"}
    /\ key \in Actions \cup {"NO_OP"} /\ mAction \in Actions \cup {"NO_OP"}
    /\ mCurrentSlide \in Nat /\ mNumberOfSlides \in {0, NumberOfSlides}
    /\ mSlideWidth \in {0, 1}
    /\ mBlankScreen \in BOOLEAN
    /\ texture \in Nat /\ crop \in Nat /\ screen \in Nat

\* No sequence of keys leads past the last slide, or below 0, where the unsigned
\* counter would wrap; the first slide alone may be shown without having been
\* counted.
SlideInRange ==
    /\ mCurrentSlide >= 0
    /\ mCurrentSlide <= (IF NumberOfSlides = 0 THEN 1 ELSE NumberOfSlides)

\* When the presenter sleeps, the screen shows what a new display() would: no
\* slide while it is blanked or the crop rectangle is empty.  What it would show is
\* the current slide: its pixels, cropped to its size.  Three kinds of slides are
\* excepted: one the archive does not deliver leaves everything as it was, one
\* that does not decode shows nothing, and one in an unknown format shows the
\* pixels of an earlier slide.  The race of the first load and display with
\* open() leaves one more exception: the first slide, loaded but drawn before
\* its size was known, which stays invisible until something else is drawn.
ScreenIsCurrent ==
    presenter = "wait" /\ main = "joined" =>
        /\ \/ screen = Drawn(texture, crop, mBlankScreen)
           \/ screen = 0 /\ mCurrentSlide = 1 /\ ~mBlankScreen
        /\ mCurrentSlide \notin Broken =>
              crop = IF mCurrentSlide \in Undecodable THEN 0 ELSE mCurrentSlide
        /\ mCurrentSlide \notin NotUploaded => texture = mCurrentSlide

\* A pending action is never replaced by a later key; it only ever becomes NO_OP
\* again, by being performed.
ActionNotOverwritten ==
    [][mAction # "NO_OP" => mAction' \in {mAction, "NO_OP"}]_vars

\* An action the key handler has stored is performed, unless there is no
\* presenter thread or the process has ended: the signal of signalAction is not
\* lost.  (A key handler that waits for its turn is another matter: see README.)
ActionPerformed ==
    mAction # "NO_OP" ~> mAction = "NO_OP" \/ presenter = "gone" \/ main = "exited"
=============================================================================
