---------------------------- MODULE MainPageProofs ----------------------------
(***************************************************************************)
(* The main page comes to rest with its indicator under the page on the    *)
(* screen, moves its page as TabSelection promises, and shows on the watch *)
(* page only an alarm that was opened: for any number of tabs, alarms and  *)
(* overlapping calls.                                                      *)
(*                                                                         *)
(* Each handler of the page is one step of the indicator, whose inductive  *)
(* invariant therefore holds of the main page.  For the pages, half a page *)
(* counts: rounding the position to a page keeps the order of positions,   *)
(* so that a frame that brings the position closer to the target never     *)
(* takes the page on the screen away from it or past it.                   *)
(***************************************************************************)
EXTENDS MainPage, TLAPS

\* The invariants of the indicator, which hold for any use of it.
Indicator == INSTANCE TabIndicatorProofs

PagesInv == PagesTypeOK /\ WatchShowsOpenedAlarm

LEMMA Numbered ==
    /\ Tabs \in Nat /\ Tabs >= 2
    /\ {WatchTab, ProfileTab, AlarmTab, MenuTab} \subseteq Tab
    /\ 0 \in Tab /\ 0 \in Position
    /\ NoData \notin Alarms
BY PagesAssumption DEF Tab, Position

LEMMA PagesStart ==
    ASSUME Init
    PROVE  PagesInv
BY Numbered DEF Init, PagesInit, PagesInv, PagesTypeOK, WatchShowsOpenedAlarm

\* Every handler does one thing to the pages.
LEMMA PagesSteps ==
    ASSUME Next
    PROVE  \/ \E goal \in Tab : TurnTo(goal)
           \/ \E a \in Alarms : OpenAlarm(a)
           \/ \E p \in Position : PageScroll(p)
           \/ PagesDispose \/ PagesMount
           \/ UNCHANGED pageVars
BY Numbered
   DEF Next, NavigationPressed, AlarmOpened, BackPressed, BackToAlarms,
       ShortcutPressed, ProfileShortcut, Scroll, Timer, SignedOut, SignedIn

LEMMA PagesStep ==
    ASSUME PagesInv, [Next]_vars
    PROVE  PagesInv'
<1>1. ASSUME NEW goal \in Tab, TurnTo(goal)
      PROVE  PagesInv'
  BY <1>1 DEF TurnTo, PagesInv, PagesTypeOK, WatchShowsOpenedAlarm
<1>2. ASSUME NEW a \in Alarms, OpenAlarm(a)
      PROVE  PagesInv'
  BY <1>2, Numbered DEF OpenAlarm, PagesInv, PagesTypeOK, WatchShowsOpenedAlarm
<1>3. ASSUME NEW p \in Position, PageScroll(p)
      PROVE  PagesInv'
  BY <1>3 DEF PageScroll, PagesInv, PagesTypeOK, WatchShowsOpenedAlarm
<1>4. CASE PagesDispose
  BY <1>4 DEF PagesDispose, PagesInv, PagesTypeOK, WatchShowsOpenedAlarm
<1>5. CASE PagesMount
  BY <1>5, Numbered DEF PagesMount, PagesInv, PagesTypeOK, WatchShowsOpenedAlarm
<1>6. CASE UNCHANGED pageVars
  BY <1>6 DEF pageVars, PagesInv, PagesTypeOK, WatchShowsOpenedAlarm
<1> QED
  BY <1>1, <1>2, <1>3, <1>4, <1>5, <1>6, PagesSteps DEF vars

LEMMA Invariance == Spec => []PagesInv
  BY PagesStart, PagesStep, PTL DEF Spec

-----------------------------------------------------------------------------

\* The watch page (watch_page.dart) shows an alarm only after its tile was
\* pressed and until the next call of _pageTransition, so that `data` has a
\* value whenever it is read.
THEOREM WatchAlwaysShowsOpenedAlarm == Spec => []WatchShowsOpenedAlarm
<1>1. PagesInv => WatchShowsOpenedAlarm
  BY DEF PagesInv
<1> QED
  BY <1>1, Invariance, PTL

\* The handlers of the page do nothing to the indicator that TabIndicator
\* does not know of.
LEMMA IndicatorStart ==
    ASSUME Init
    PROVE  Indicator!Init
BY DEF Init, Bar!Init, Indicator!Init, Bar!Idle, Indicator!Idle

LEMMA IndicatorSteps ==
    ASSUME [Next]_vars
    PROVE  Indicator!Next \/ UNCHANGED Indicator!vars
<1>1. ASSUME NEW goal \in Tab, Bar!PageTransition(goal)
      PROVE  Indicator!Next
  <2>1. Indicator!PageTransition(goal)
    BY <1>1 DEF Bar!PageTransition, Indicator!PageTransition, Bar!CalDelay,
       Indicator!CalDelay, Bar!Rounded, Indicator!Rounded, Bar!Distance,
       Indicator!Distance, Bar!AnimateIndicator, Indicator!AnimateIndicator,
       Bar!Toward, Indicator!Toward, Bar!Idle, Indicator!Idle, Bar!AtRest,
       Indicator!AtRest, Bar!Waiting, Indicator!Waiting
  <2> QED
    BY <2>1 DEF Tab, Indicator!Tab, Indicator!Next
<1>2. ASSUME NEW l \in Loops, Bar!Resume(l) \/ Bar!ResumeOrphan(l)
      PROVE  Indicator!Next
  <2>1. Indicator!Resume(l) \/ Indicator!ResumeOrphan(l)
    BY <1>2 DEF Bar!Resume, Indicator!Resume, Bar!ResumeOrphan,
       Indicator!ResumeOrphan, Bar!Finished, Indicator!Finished, Bar!NextTab,
       Indicator!NextTab, Bar!Toward, Indicator!Toward, Bar!Idle,
       Indicator!Idle, Bar!Waiting, Indicator!Waiting, Bar!Orphan,
       Indicator!Orphan
  <2> QED
    BY <2>1 DEF Indicator!Next
<1>3. CASE Bar!Dispose
  BY <1>3 DEF Bar!Dispose, Indicator!Dispose, Bar!Detached,
     Indicator!Detached, Bar!Waiting, Indicator!Waiting, Indicator!Next
<1>4. CASE Bar!Mount
  BY <1>4 DEF Bar!Mount, Indicator!Mount, Indicator!Next
<1>5. CASE UNCHANGED <<barVars, target, mounted>>
  BY <1>5 DEF barVars, Indicator!vars
<1>6. CASE \E p \in Position : Scroll(p)
  BY <1>5, <1>6 DEF Scroll, PageScroll
<1>7. CASE UNCHANGED vars
  BY <1>5, <1>7 DEF vars, pageVars
<1> QED
  BY <1>1, <1>2, <1>3, <1>4, <1>6, <1>7, Numbered
     DEF Next, NavigationPressed, AlarmOpened, BackPressed, ShortcutPressed,
         Timer, SignedOut, SignedIn

\* Page and indicator start together in the handler of _pageTransition and end
\* apart: when the last frame is drawn and the last timer has fired, the
\* indicator is under the page on the screen, or under another tab of the
\* burst if animateIndicator was called over an older call.
THEOREM PageAndBarAgree == Spec => []AgreeAtRest
<1>1. Indicator!TabsAssumption /\ Indicator!DurationAssumption
  BY PagesAssumption, BarAssumption
     DEF Indicator!TabsAssumption, Indicator!DurationAssumption
<1>2. Spec => Indicator!Spec
  BY IndicatorStart, IndicatorSteps, PTL DEF Spec, Indicator!Spec
<1>3. Spec => []Indicator!RestsOnRequestedTab /\ []Indicator!SettlesOnTarget
  BY <1>1, <1>2, Indicator!RestsCorrect, Indicator!SettlesCorrect, PTL
<1>4. /\ PagesInv
      /\ Indicator!RestsOnRequestedTab
      /\ Indicator!SettlesOnTarget
      => AgreeAtRest
  <2> SUFFICES ASSUME PagesInv, Indicator!RestsOnRequestedTab,
                      Indicator!SettlesOnTarget,
                      mounted, pos = 2 * target, Bar!AtRest
               PROVE  index \in requested /\ (~overlapped => index = Shown)
    BY DEF AgreeAtRest
  <2>1. Indicator!AtRest
    BY DEF Bar!AtRest, Indicator!AtRest, Bar!Waiting, Indicator!Waiting
  <2>2. Shown = target
    <3>1. pos \in Position /\ target \in Tab
      BY DEF PagesInv, PagesTypeOK
    <3>2. target \in Int /\ (2 * target + 1) \div 2 = target
      BY <3>1, Numbered DEF Tab
    <3> QED
      BY <3>2 DEF Shown
  <2> QED
    BY <2>1, <2>2 DEF Indicator!RestsOnRequestedTab, Indicator!SettlesOnTarget
<1> QED
  BY <1>3, <1>4, Invariance, PTL

-----------------------------------------------------------------------------

\* Rounding a position to a page.
LEMMA PageOf ==
    ASSUME NEW p \in Position
    PROVE  /\ (p + 1) \div 2 \in Tab
           /\ p = 2 * ((p + 1) \div 2) \/ p = 2 * ((p + 1) \div 2) - 1
<1>1. Tabs \in Nat /\ p \in 0 .. 2 * (Tabs - 1)
  BY Numbered DEF Position
<1> QED
  BY <1>1 DEF Tab

\* A frame moves the page on the screen toward the target or not at all.
LEMMA PageTravels ==
    ASSUME PagesInv, NEW p \in Position, PageScroll(p)
    PROVE  Selection!Travel \/ UNCHANGED <<target, Shown>>
<1> DEFINE k == (pos + 1) \div 2
           n == (p + 1) \div 2
<1>1. /\ pos \in Position /\ target \in Tab
      /\ pos' = p /\ target' = target /\ Between(pos, p, 2 * target)
  BY DEF PageScroll, PagesInv, PagesTypeOK
<1>2. /\ k \in Tab /\ (pos = 2 * k \/ pos = 2 * k - 1)
      /\ n \in Tab /\ (p = 2 * n \/ p = 2 * n - 1)
  BY <1>1, PageOf
<1>3. Shown = k /\ Shown' = n
  BY <1>1 DEF Shown
<1> HIDE DEF k, n
<1>4. k \in Int /\ n \in Int /\ target \in Int /\ pos \in Int /\ p \in Int
  BY <1>1, <1>2 DEF Tab, Position
<1>5. (k <= n /\ n <= target) \/ (target <= n /\ n <= k)
  <2>1. CASE pos <= p /\ p <= 2 * target
    BY <1>2, <1>4, <2>1
  <2>2. CASE 2 * target <= p /\ p <= pos
    BY <1>2, <1>4, <2>2
  <2> QED
    BY <1>1, <2>1, <2>2 DEF Between
<1>6. CASE n = k
  BY <1>1, <1>3, <1>6
<1>7. CASE n # k
  <2>1. Shown' \in Selection!Tab \ {Shown}
    BY <1>2, <1>3, <1>7 DEF Tab, Selection!Tab
  <2>2. Selection!Between(Shown, Shown', target)
    BY <1>3, <1>5 DEF Selection!Between
  <2> QED
    BY <1>1, <2>1, <2>2 DEF Selection!Travel
<1> QED
  BY <1>6, <1>7

\* The page on the screen travels toward the highlighted tab and never away from
\* it or past it, from any moment of an earlier transition: animateToPage
\* starts from the position the last frame left.
THEOREM SelectionImplemented == Spec => ImplementsSelection
<1>1. Init => Selection!Init
  BY DEF Init, PagesInit, Shown, Selection!Init
<1>2. PagesInv /\ [Next]_vars => [Selection!Next]_Selection!vars
  <2> SUFFICES ASSUME PagesInv, [Next]_vars
               PROVE  Selection!Next \/ UNCHANGED <<target, Shown>>
    BY DEF Selection!vars
  <2>1. ASSUME NEW goal \in Tab, target' = goal, UNCHANGED pos
        PROVE  Selection!Next
    BY <2>1 DEF Tab, Shown, Selection!Next, Selection!Select, Selection!Tab
  <2>2. ASSUME NEW goal \in Tab, TurnTo(goal)
        PROVE  Selection!Next
    BY <2>1, <2>2 DEF TurnTo
  <2>3. ASSUME NEW a \in Alarms, OpenAlarm(a)
        PROVE  Selection!Next
    BY <2>1, <2>3, Numbered DEF OpenAlarm
  <2>4. ASSUME NEW p \in Position, PageScroll(p)
        PROVE  Selection!Next \/ UNCHANGED <<target, Shown>>
    BY <2>4, PageTravels DEF Selection!Next
  <2>5. CASE PagesDispose \/ UNCHANGED pageVars
    BY <2>5 DEF PagesDispose, pageVars, Shown
  <2>6. CASE PagesMount
    BY <2>6 DEF PagesMount, Shown, Selection!Next, Selection!Restart
  <2> QED
    BY <2>2, <2>3, <2>4, <2>5, <2>6, PagesSteps DEF vars
<1> QED
  BY <1>1, <1>2, Invariance, PTL DEF Spec, ImplementsSelection, Selection!Spec
=============================================================================
