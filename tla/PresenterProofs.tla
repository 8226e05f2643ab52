-------------------------- MODULE PresenterProofs --------------------------
(***************************************************************************)
(* Proofs about Presenter, for any number of slides, any set of broken     *)
(* ones and every failure.  What makes the properties inductive is what    *)
(* holds until main has read desc.txt: no key can have come, so the        *)
(* presenter has at most loaded the first slide and has drawn nothing.     *)
(***************************************************************************)
EXTENDS Presenter, TLAPS

\* The texture and its crop rectangle follow the slide counter wherever the
\* slide can be loaded.
Follows(cur, t, c) ==
    /\ cur \notin Broken => c = IF cur \in Undecodable THEN 0 ELSE cur
    /\ cur \notin NotUploaded => t = cur
TextureInv == Follows(mCurrentSlide, texture, crop)

\* Before desc.txt has been read.
BeforeDesc ==
    mSlideWidth = 0 =>
        /\ screen = 0 /\ ~mBlankScreen /\ keys = "off" /\ mAction = "NO_OP"
        /\ mCurrentSlide \in {0, 1} /\ texture \in {0, mCurrentSlide}

\* What the screen shows once the presenter is in its loop.
ScreenInv ==
    presenter \in {"loop", "wait"} =>
        \/ screen = Drawn(texture, crop, mBlankScreen)
        \/ screen = 0 /\ mCurrentSlide = 1 /\ ~mBlankScreen

PresInv ==
    /\ TypeOK /\ SlideInRange /\ TextureInv /\ BeforeDesc /\ ScreenInv
    /\ keys \in {"signal", "wait"} => key \in Actions

-----------------------------------------------------------------------------
\* loadSlide of a slide in range, as the switch calls it or with the counter
\* of a presenter that has loaded nothing.
LEMMA LoadKeeps ==
    ASSUME NEW n \in Nat, NEW cur \in Nat, texture \in Nat, loadSlide(n, cur),
           crop \in Nat,
           n = cur \/ Follows(cur, texture, crop)
    PROVE  /\ mCurrentSlide' \in {n, cur} /\ texture' \in {texture, n}
           /\ crop' \in Nat /\ TextureInv'
  BY DEF loadSlide, TextureInv, Follows, NotUploaded

\* A step that leaves the slides, desc.txt's values and mBlankScreen alone
\* keeps the invariant if it keeps its types and what is said of the keys.
LEMMA QuietStep ==
    ASSUME PresInv, TypeOK', UNCHANGED <<descVars, slideVars>>,
           mSlideWidth = 0 => keys' = "off" /\ mAction' = "NO_OP",
           presenter' \in {"loop", "wait"} => presenter \in {"loop", "wait"},
           keys' \in {"signal", "wait"} => key' \in Actions
    PROVE  PresInv'
  BY DEF PresInv, SlideInRange, TextureInv, BeforeDesc, ScreenInv, Drawn,
     descVars, slideVars, Follows, NotUploaded

LEMMA PresInit == Init => PresInv
<1> SUFFICES ASSUME Init PROVE PresInv
  OBVIOUS
<1>1. TypeOK
  BY SlidesAssumption DEF Init, TypeOK
<1>2. SlideInRange
  BY SlidesAssumption DEF Init, SlideInRange
<1>3. TextureInv /\ BeforeDesc /\ ScreenInv
  BY DEF Init, TextureInv, BeforeDesc, ScreenInv, Drawn, Follows, NotUploaded
<1> QED BY <1>1, <1>2, <1>3 DEF PresInv, Init

LEMMA PresMain == ASSUME PresInv, Main PROVE PresInv'
<1>0. TypeOK /\ BeforeDesc /\ ScreenInv /\ (keys \in {"signal", "wait"} => key \in Actions)
  BY DEF PresInv
<1>1. CASE Construct
  <2>1. TypeOK'
    BY <1>0, <1>1 DEF Construct, TypeOK, descVars, slideVars
  <2> QED BY <1>0, <1>1, <2>1, QuietStep DEF Construct, BeforeDesc
<1>2. CASE OpenArchive
  <2>1. TypeOK'
    BY <1>0, <1>2 DEF OpenArchive, TypeOK, descVars, slideVars, Exit
  <2> QED BY <1>0, <1>2, <2>1, QuietStep DEF OpenArchive, BeforeDesc
<1>3. CASE ReadDesc
  <2>0. /\ presenter' = presenter /\ key' = key /\ mAction' = mAction
        /\ mCurrentSlide' = mCurrentSlide /\ mBlankScreen' = mBlankScreen
        /\ texture' = texture /\ crop' = crop /\ screen' = screen
    BY <1>3 DEF ReadDesc, slideVars
  <2>1. CASE /\ mNumberOfSlides' = NumberOfSlides
             /\ mSlideWidth' = 1
             /\ keys' = "socket" \/ ("thread" \in Faults /\ UNCHANGED keys)
             /\ main' = "joined"
    <3>1. TypeOK'
      BY <1>0, <2>0, <2>1 DEF TypeOK
    <3>2. ScreenInv'
      <4>1. CASE mSlideWidth = 0
        BY <1>0, <2>0, <2>1, <4>1 DEF BeforeDesc, ScreenInv, Drawn
      <4>2. CASE mSlideWidth = 1
        BY <1>0, <2>0, <2>1, <4>2 DEF ScreenInv, Drawn
      <4> QED BY <1>0, <4>1, <4>2 DEF TypeOK
    <3>3. BeforeDesc'
      BY <2>1 DEF BeforeDesc
    <3> QED BY <1>0, <2>0, <2>1, <3>1, <3>2, <3>3
            DEF PresInv, SlideInRange, TextureInv
  <2>2. CASE Exit /\ UNCHANGED <<descVars, keys>>
    <3>1. TypeOK'
      BY <1>0, <2>0, <2>2 DEF TypeOK, descVars, Exit
    <3> QED BY <1>0, <2>0, <2>2, <3>1, QuietStep DEF BeforeDesc, slideVars
  <2> QED BY <1>3, <2>1, <2>2 DEF ReadDesc
<1> QED BY <1>1, <1>2, <1>3 DEF Main

LEMMA PresKeys ==
    ASSUME PresInv,
           OpenSocket \/ (\E a \in Actions : ReceiveKey(a)) \/ PollFails \/ signalAction
    PROVE  PresInv'
<1>0. TypeOK /\ BeforeDesc /\ (keys \in {"signal", "wait"} => key \in Actions)
  BY DEF PresInv
<1>1. keys # "off"
  BY DEF OpenSocket, ReceiveKey, PollFails, signalAction
<1>2. mSlideWidth # 0
  BY <1>0, <1>1 DEF BeforeDesc
<1>3. UNCHANGED <<descVars, slideVars>>
  BY DEF OpenSocket, ReceiveKey, PollFails, signalAction
<1>4. TypeOK'
  <2>1. CASE OpenSocket
    BY <1>0, <2>1 DEF OpenSocket, TypeOK, Exit, descVars, slideVars
  <2>2. CASE \E a \in Actions : ReceiveKey(a)
    BY <1>0, <2>2 DEF ReceiveKey, TypeOK, descVars, slideVars
  <2>3. CASE PollFails
    BY <1>0, <2>3 DEF PollFails, TypeOK, descVars, slideVars
  <2>4. CASE signalAction
    BY <1>0, <2>4 DEF signalAction, TypeOK, descVars, slideVars
  <2> QED BY <2>1, <2>2, <2>3, <2>4
<1>5. presenter' \in {"loop", "wait"} => presenter \in {"loop", "wait"}
  BY DEF OpenSocket, ReceiveKey, PollFails, signalAction
<1>6. keys' \in {"signal", "wait"} => key' \in Actions
  BY <1>0 DEF OpenSocket, ReceiveKey, PollFails, signalAction
<1> QED BY <1>2, <1>3, <1>4, <1>5, <1>6, QuietStep

LEMMA PresSpurious == ASSUME PresInv, SpuriousWakeup PROVE PresInv'
<1>0. TypeOK /\ BeforeDesc /\ (keys \in {"signal", "wait"} => key \in Actions)
  BY DEF PresInv
<1>1. TypeOK'
  BY <1>0 DEF SpuriousWakeup, TypeOK, descVars, slideVars
<1> QED BY <1>0, <1>1, QuietStep DEF SpuriousWakeup, BeforeDesc

\* A case of the switch, taken when a key has come and so desc.txt was read.
LEMMA PresSwitch ==
    ASSUME PresInv, presenter = "loop", PrevSlide \/ NextSlide \/ ToggleBlank
    PROVE  /\ mCurrentSlide' \in Nat /\ texture' \in Nat /\ crop' \in Nat /\ screen' \in Nat
           /\ mBlankScreen' \in BOOLEAN
           /\ mCurrentSlide' <= (IF NumberOfSlides = 0 THEN 1 ELSE NumberOfSlides)
           /\ TextureInv'
           /\ \/ screen' = Drawn(texture', crop', mBlankScreen')
              \/ screen' = 0 /\ mCurrentSlide' = 1 /\ ~mBlankScreen'
<1>0. /\ mCurrentSlide \in Nat /\ texture \in Nat /\ crop \in Nat /\ screen \in Nat
      /\ mBlankScreen \in BOOLEAN /\ mNumberOfSlides \in {0, NumberOfSlides}
      /\ NumberOfSlides \in Nat
  BY SlidesAssumption DEF PresInv, TypeOK
<1>1. /\ mCurrentSlide <= (IF NumberOfSlides = 0 THEN 1 ELSE NumberOfSlides)
      /\ TextureInv
      /\ \/ screen = Drawn(texture, crop, mBlankScreen)
         \/ screen = 0 /\ mCurrentSlide = 1 /\ ~mBlankScreen
  BY DEF PresInv, SlideInRange, ScreenInv
<1>2. CASE UNCHANGED slideVars
  BY <1>0, <1>1, <1>2 DEF slideVars, TextureInv, Drawn, Follows, NotUploaded
<1>3. ASSUME NEW n \in Nat, n <= (IF NumberOfSlides = 0 THEN 1 ELSE NumberOfSlides),
             loadSlide(n, n), screen' = Drawn(texture', crop', mBlankScreen),
             UNCHANGED mBlankScreen
      PROVE  /\ mCurrentSlide' \in Nat /\ texture' \in Nat /\ crop' \in Nat /\ screen' \in Nat
             /\ mBlankScreen' \in BOOLEAN
             /\ mCurrentSlide' <= (IF NumberOfSlides = 0 THEN 1 ELSE NumberOfSlides)
             /\ TextureInv'
             /\ screen' = Drawn(texture', crop', mBlankScreen')
  <2>1. mCurrentSlide' = n /\ texture' \in {texture, n} /\ crop' \in Nat /\ TextureInv'
    BY <1>0, <1>3, LoadKeeps
  <2>2. screen' \in Nat
    BY <1>0, <1>3, <2>1 DEF Drawn
  <2> QED BY <1>0, <1>3, <2>1, <2>2
<1>4. CASE PrevSlide
  <2>1. CASE mCurrentSlide > 1
    <3>1. /\ mCurrentSlide - 1 \in Nat
          /\ mCurrentSlide - 1 <= (IF NumberOfSlides = 0 THEN 1 ELSE NumberOfSlides)
      BY <1>0, <1>1, <2>1
    <3> QED BY <1>3, <1>4, <2>1, <3>1 DEF PrevSlide
  <2> QED BY <1>2, <1>4, <2>1 DEF PrevSlide
<1>5. CASE NextSlide
  <2>1. CASE mCurrentSlide < mNumberOfSlides
    <3>1. /\ mCurrentSlide + 1 \in Nat
          /\ mCurrentSlide + 1 <= (IF NumberOfSlides = 0 THEN 1 ELSE NumberOfSlides)
      BY <1>0, <1>1, <2>1
    <3> QED BY <1>3, <1>5, <2>1, <3>1 DEF NextSlide
  <2> QED BY <1>2, <1>5, <2>1 DEF NextSlide
<1>6. CASE ToggleBlank
  BY <1>0, <1>1, <1>6 DEF ToggleBlank, TextureInv, Drawn, Follows, NotUploaded
<1> QED BY <1>4, <1>5, <1>6

LEMMA PresThread == ASSUME PresInv, threadLoop PROVE PresInv'
<1>0. /\ TypeOK /\ BeforeDesc /\ SlideInRange /\ TextureInv /\ ScreenInv
      /\ (keys \in {"signal", "wait"} => key \in Actions)
  BY DEF PresInv
<1>1. CASE readyToRun
  <2>1. TypeOK'
    BY <1>0, <1>1 DEF readyToRun, TypeOK, descVars, slideVars
  <2> QED BY <1>0, <1>1, <2>1, QuietStep DEF readyToRun, BeforeDesc
<1>2. CASE LoadFirst
  <2>0. /\ main' = main /\ keys' = keys /\ key' = key /\ mAction' = mAction
        /\ mNumberOfSlides' = mNumberOfSlides /\ mSlideWidth' = mSlideWidth
        /\ mBlankScreen' = mBlankScreen /\ screen' = screen /\ presenter' = "display"
    BY <1>2 DEF LoadFirst, descVars
  <2>1. /\ mCurrentSlide' \in {1, mCurrentSlide} /\ texture' \in {texture, 1}
        /\ crop' \in Nat /\ TextureInv'
    <3>1. CASE loadSlide(1, mCurrentSlide)
      BY <1>0, <3>1, LoadKeeps DEF TypeOK, TextureInv
    <3>2. CASE UNCHANGED <<mCurrentSlide, texture, crop>>
      BY <1>0, <3>2 DEF TypeOK, TextureInv, Follows, NotUploaded
    <3> QED BY <1>2, <3>1, <3>2 DEF LoadFirst
  <2>2. TypeOK'
    BY <1>0, <2>0, <2>1 DEF TypeOK
  <2>3. SlideInRange'
    BY <1>0, <2>1, SlidesAssumption DEF SlideInRange, TypeOK
  <2>4. BeforeDesc'
    <3>1. texture' \in {0, mCurrentSlide'} \/ mSlideWidth # 0
      BY <1>0, <1>2 DEF LoadFirst, loadSlide, BeforeDesc, NotUploaded
    <3> QED BY <1>0, <2>0, <2>1, <3>1 DEF BeforeDesc
  <2>5. ScreenInv'
    BY <2>0 DEF ScreenInv
  <2> QED BY <1>0, <2>0, <2>1, <2>2, <2>3, <2>4, <2>5 DEF PresInv
<1>3. CASE DisplayFirst
  <2>0. /\ main' = main /\ keys' = keys /\ key' = key /\ mAction' = mAction
        /\ mNumberOfSlides' = mNumberOfSlides /\ mSlideWidth' = mSlideWidth
        /\ mBlankScreen' = mBlankScreen /\ texture' = texture /\ crop' = crop
        /\ mCurrentSlide' = mCurrentSlide /\ presenter' = "loop"
        /\ screen' = Drawn(texture, crop, mBlankScreen)
    BY <1>3 DEF DisplayFirst, descVars
  <2>1. TypeOK'
    BY <1>0, <2>0 DEF TypeOK, Drawn
  <2>2. BeforeDesc'
    BY <1>0, <2>0 DEF BeforeDesc, Drawn
  <2>3. ScreenInv'
    BY <2>0 DEF ScreenInv, Drawn
  <2> QED BY <1>0, <2>0, <2>1, <2>2, <2>3 DEF PresInv, SlideInRange, TextureInv, Follows, NotUploaded
<1>4. CASE WaitForAction
  <2>1. TypeOK'
    BY <1>0, <1>4 DEF WaitForAction, TypeOK, descVars, slideVars
  <2> QED BY <1>0, <1>4, <2>1, QuietStep DEF WaitForAction, BeforeDesc
<1>5. CASE PerformAction
  <2>0. /\ main' = main /\ keys' = keys /\ key' = key /\ mAction' = "NO_OP"
        /\ mNumberOfSlides' = mNumberOfSlides /\ mSlideWidth' = mSlideWidth
        /\ presenter' = presenter /\ presenter = "loop" /\ mAction # "NO_OP"
    BY <1>5 DEF PerformAction, descVars
  <2>1. PrevSlide \/ NextSlide \/ ToggleBlank
    BY <1>5 DEF PerformAction
  <2>2. mSlideWidth # 0
    BY <1>0, <2>0 DEF BeforeDesc
  <2>3. /\ mCurrentSlide' \in Nat /\ texture' \in Nat /\ crop' \in Nat /\ screen' \in Nat
        /\ mBlankScreen' \in BOOLEAN
        /\ mCurrentSlide' <= (IF NumberOfSlides = 0 THEN 1 ELSE NumberOfSlides)
        /\ TextureInv'
        /\ \/ screen' = Drawn(texture', crop', mBlankScreen')
           \/ screen' = 0 /\ mCurrentSlide' = 1 /\ ~mBlankScreen'
    BY <2>0, <2>1, PresSwitch
  <2>4. TypeOK'
    BY <1>0, <2>0, <2>3 DEF TypeOK
  <2>5. ScreenInv'
    BY <2>0, <2>3 DEF ScreenInv, Drawn
  <2>6. BeforeDesc'
    BY <2>0, <2>2 DEF BeforeDesc
  <2> QED BY <1>0, <2>0, <2>3, <2>4, <2>5, <2>6 DEF PresInv, SlideInRange
<1> QED BY <1>1, <1>2, <1>3, <1>4, <1>5 DEF threadLoop

LEMMA PresInvariant == Spec => []PresInv
<1>1. Init => PresInv
  BY PresInit
<1>2. PresInv /\ [Next]_vars => PresInv'
  <2> SUFFICES ASSUME PresInv, [Next]_vars PROVE PresInv'
    OBVIOUS
  <2>1. CASE UNCHANGED vars
    BY <2>1 DEF vars, PresInv, TypeOK, SlideInRange, TextureInv, BeforeDesc,
       ScreenInv, Drawn, Follows, NotUploaded
  <2> QED BY <2>1, PresMain, PresKeys, PresSpurious, PresThread DEF Next
<1> QED BY <1>1, <1>2, PTL DEF Spec

\* Type correctness: the slide counter never goes below zero.
THEOREM PresenterTypeCorrect == Spec => []TypeOK
<1>1. PresInv => TypeOK
  BY DEF PresInv
<1> QED BY <1>1, PresInvariant, PTL

\* No sequence of keys leads past the last slide.
THEOREM SlideInRangeCorrect == Spec => []SlideInRange
<1>1. PresInv => SlideInRange
  BY DEF PresInv
<1> QED BY <1>1, PresInvariant, PTL

\* A presenter that sleeps shows the current slide, but for the one race of
\* the first display with the reading of desc.txt.
THEOREM ScreenIsCurrentCorrect == Spec => []ScreenIsCurrent
<1>1. PresInv => ScreenIsCurrent
  BY DEF PresInv, ScreenInv, TextureInv, Follows, NotUploaded, ScreenIsCurrent
<1> QED BY <1>1, PresInvariant, PTL

\* A pending action is performed before another one is stored.
THEOREM ActionNotOverwrittenCorrect == Spec => ActionNotOverwritten
<1>1. [Next]_vars => [mAction # "NO_OP" => mAction' \in {mAction, "NO_OP"}]_vars
  <2> SUFFICES ASSUME Next, mAction # "NO_OP" PROVE mAction' \in {mAction, "NO_OP"}
    OBVIOUS
  <2>1. CASE Main
    BY <2>1 DEF Main, Construct, OpenArchive, ReadDesc
  <2>2. CASE OpenSocket \/ (\E a \in Actions : ReceiveKey(a)) \/ PollFails \/ signalAction
    BY <2>2 DEF OpenSocket, ReceiveKey, PollFails, signalAction
  <2>3. CASE threadLoop
    BY <2>3 DEF threadLoop, readyToRun, LoadFirst, DisplayFirst, WaitForAction, PerformAction
  <2>4. CASE SpuriousWakeup
    BY <2>4 DEF SpuriousWakeup
  <2> QED BY <2>1, <2>2, <2>3, <2>4 DEF Next
<1> QED BY <1>1, PTL DEF Spec, ActionNotOverwritten
=============================================================================
