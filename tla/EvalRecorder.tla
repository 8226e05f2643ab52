---------------------------- MODULE EvalRecorder ----------------------------
(***************************************************************************)
(* The browser benchmark (android/BrowserBench).  EvalRecorder walks a     *)
(* list of pages: every load is timed from onPageStarted to                *)
(* onPageFinished, with a load of about:blank in between.  The recorder    *)
(* only learns of a load through these callbacks, which carry a url and    *)
(* nothing else.  The WebView is external: it works off its loads one      *)
(* after the other, may let a later loadUrl supersede one that has not     *)
(* started, may redirect a page, and may call onPageFinished once more for *)
(* a page that has finished.                                               *)
(***************************************************************************)
EXTENDS Integers, Sequences

CONSTANTS
    MaxLines,       \* bound on the lines of /data/bench.url
    sRepeatTimes,   \* how often each site is measured
    MaxRedirects,   \* bound on the redirections
    MaxRepeats      \* bound on the repeated onPageFinished

ASSUME ListAssumption == MaxLines \in Nat /\ sRepeatTimes \in Nat \ {0}
ASSUME QuirkBounds == MaxRedirects \in Nat /\ MaxRepeats \in Nat

\* A url is about:blank, the site of a line (the default site is the one of
\* line 1), or where a site redirects to.
Blank == 0
Sites == 1..(MaxLines + 1)
RedirectOf(site) == -site
Urls == -(MaxLines + 1)..(MaxLines + 1)

VARIABLES
    lines,                \* the lines that could be read from the site list
    mCurrentEvaluation,
    mFinished,
    mResult,              \* for each entry its url and its time
    loads,                \* WebView: the urls of loadUrl that have not started
    page,                 \* WebView: the page that is loading, or "none"
    last,                 \* WebView: the page that finished last, or "none"
    now,                  \* SystemClock.uptimeMillis
    redirects, repeats

evalVars == <<lines, mCurrentEvaluation, mFinished, mResult, loads, page, last, now,
          redirects, repeats>>
recorderVars == <<lines, mCurrentEvaluation, mFinished, mResult>>

\* loadSiteLists: each site is repeated; without a line there is the default.
Size == (IF lines = 0 THEN 1 ELSE lines) * sRepeatTimes
SiteOf(k) == (k \div sRepeatTimes) + 1
loadSiteLists == [k \in 0..(Size - 1) |-> [first |-> SiteOf(k), second |-> 0]]

None == [url |-> Blank, for |-> -1, started |-> 0]

-----------------------------------------------------------------------------
(* EvalRecorder *)

\* loadNextPage, with the list res as the caller has left it: what is loaded
\* next, about:blank first.
loadNextPage(res) ==
    /\ mCurrentEvaluation' = mCurrentEvaluation + 1
    /\ mFinished' = (mCurrentEvaluation + 1 >= Size)
    /\ loads' = loads \o
         (IF mCurrentEvaluation + 1 >= Size
          THEN <<[url |-> Blank, for |-> -1]>>
          ELSE <<[url |-> Blank, for |-> -1],
                 [url |-> res[mCurrentEvaluation + 1].first,
                  for |-> mCurrentEvaluation + 1]>>)

\* Mutant: about:blank counts as a page.
PageFinished_CountBlank(url) ==
    IF mCurrentEvaluation >= Size \/ mFinished
    THEN UNCHANGED <<recorderVars, loads>>
    ELSE /\ mResult' = [mResult EXCEPT ![mCurrentEvaluation] =
                            [first |-> url, second |-> now - @.second]]
         /\ loadNextPage(mResult')
         /\ UNCHANGED lines

\* Mutant: a page is only counted under the url it was asked for.
PageFinished_OwnUrlOnly(url) ==
    IF mCurrentEvaluation >= Size \/ mFinished \/ url # SiteOf(mCurrentEvaluation)
    THEN UNCHANGED <<recorderVars, loads>>
    ELSE /\ mResult' = [mResult EXCEPT ![mCurrentEvaluation] =
                            [first |-> url, second |-> now - @.second]]
         /\ loadNextPage(mResult')
         /\ UNCHANGED lines

\* The page is booked on the current entry, whatever its url is.
PageFinished(url) ==
    IF mCurrentEvaluation >= Size \/ mFinished \/ url = Blank
    THEN UNCHANGED <<recorderVars, loads>>
    ELSE /\ mResult' = [mResult EXCEPT ![mCurrentEvaluation] =
                            [first |-> url, second |-> now - @.second]]
         /\ loadNextPage(mResult')
         /\ UNCHANGED lines

\* Mutant: only the first start of an entry is recorded.
PageStarted_FirstOnly(url) ==
    IF mCurrentEvaluation >= Size \/ mFinished
    THEN UNCHANGED recorderVars
    ELSE /\ mResult' = [mResult EXCEPT ![mCurrentEvaluation] =
                [first |-> url, second |-> IF @.second = 0 THEN now ELSE @.second]]
         /\ UNCHANGED <<lines, mCurrentEvaluation, mFinished>>

\* about:blank is recorded here; the start of the page itself replaces it.
PageStarted(url) ==
    IF mCurrentEvaluation >= Size \/ mFinished
    THEN UNCHANGED recorderVars
    ELSE /\ mResult' = [mResult EXCEPT ![mCurrentEvaluation] =
                            [first |-> url, second |-> now]]
         /\ UNCHANGED <<lines, mCurrentEvaluation, mFinished>>

-----------------------------------------------------------------------------
(* The WebView and the callbacks of EvalWebViewClient *)

Tick == now' = now + 1

onPageStarted ==
    /\ page = None /\ loads # <<>>
    /\ page' = [url |-> Head(loads).url, for |-> Head(loads).for, started |-> now]
    /\ loads' = Tail(loads)
    /\ PageStarted(Head(loads).url)
    /\ Tick
    /\ UNCHANGED <<last, redirects, repeats>>

\* The page goes elsewhere: it starts again under another url.
Redirect ==
    /\ page.url > 0 /\ redirects < MaxRedirects
    /\ redirects' = redirects + 1
    /\ page' = [page EXCEPT !.url = RedirectOf(@), !.started = now]
    /\ PageStarted(RedirectOf(page.url))
    /\ Tick
    /\ UNCHANGED <<loads, last, repeats>>

\* onReceivedError only logs: a page that cannot be loaded finishes as well.
onPageFinished ==
    /\ page # None
    /\ page' = None /\ last' = page
    /\ PageFinished(page.url)
    /\ Tick
    /\ UNCHANGED <<redirects, repeats>>

\* onPageFinished once more for the page that finished last.
FinishedAgain ==
    /\ page = None /\ last # None /\ repeats < MaxRepeats
    /\ repeats' = repeats + 1
    /\ PageFinished(last.url)
    /\ Tick
    /\ UNCHANGED <<page, last, redirects>>

\* A loadUrl that is followed by another one need not start at all.
Supersede ==
    /\ Len(loads) > 1
    /\ loads' = Tail(loads)
    /\ UNCHANGED <<recorderVars, page, last, now, redirects, repeats>>

\* onCreate reads the list and loads the first page.
EvalInit ==
    /\ lines \in 0..MaxLines
    /\ mCurrentEvaluation = 0
    /\ mFinished = FALSE
    /\ mResult = loadSiteLists
    /\ loads = <<[url |-> Blank, for |-> -1], [url |-> SiteOf(0), for |-> 0]>>
    /\ page = None /\ last = None
    /\ now = 1 /\ redirects = 0 /\ repeats = 0

EvalNext == onPageStarted \/ Redirect \/ onPageFinished \/ FinishedAgain \/ Supersede

EvalSpec == EvalInit /\ [][EvalNext]_evalVars

-----------------------------------------------------------------------------
\* An entry is closed by the page that was loaded for it, and its time runs
\* from the last start of that page, redirections included: neither the blank
\* page in between nor its start, which PageStarted does record, gets in.  It
\* needs a WebView that never repeats onPageFinished.
MeasuresOwnPage ==
    [][mCurrentEvaluation' # mCurrentEvaluation /\ repeats' = 0 =>
          /\ page.for = mCurrentEvaluation
          /\ mResult'[mCurrentEvaluation] =
                [first |-> page.url, second |-> now - page.started]]_evalVars

\* Every repeated onPageFinished closes an entry that has not been loaded, and
\* all later pages are booked one entry too late; it never gets worse than that.
ShiftIsBounded ==
    page.for >= 0 =>
        /\ page.for <= mCurrentEvaluation
        /\ mCurrentEvaluation - page.for <= repeats

\* Once a page has started the benchmark comes to its end, also when loads are
\* superseded, redirected or reported twice.
Finishes == page # None ~> mFinished
=============================================================================
