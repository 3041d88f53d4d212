------------------------------- MODULE TabPages -------------------------------
(***************************************************************************)
(* The pages of the main page: the PageView of lib/ui/main_page.dart, the  *)
(* part of _pageTransition that moves it, and what the watch page shows.   *)
(*                                                                         *)
(* The position of the PageView is kept in half pages: an even position    *)
(* shows one page, an odd one shows parts of two.  animateToPage replaces  *)
(* the animation that is under way, so every frame brings the position     *)
(* closer to the last target.                                              *)
(***************************************************************************)
EXTENDS Integers

CONSTANTS Tabs,        \* navigationData.length: 6 in the application
          WatchTab,    \* 1: the page an opened alarm is shown on
          ProfileTab,  \* 2: where the shortcut of the menu leads
          AlarmTab,    \* 4: where the way back from the watch page leads
          MenuTab,     \* 5
          Alarms,      \* the alarms a tile may open
          NoData       \* the subject `data` before its first value

ASSUME PagesAssumption ==
    /\ Tabs \in Nat /\ Tabs >= 2
    /\ {WatchTab, ProfileTab, AlarmTab, MenuTab} \subseteq 0 .. Tabs - 1
    /\ NoData \notin Alarms

VARIABLES target,        \* _target: the tab last asked for
          pos,           \* position of the PageView, in half pages
          alarmToWatch,  \* _alarmToWatch: the watch page shows `data`
          data,          \* _data: the alarm opened last
          mounted        \* whether a MainPage is alive

pageVars == <<target, pos, alarmToWatch, data, mounted>>

Tab == 0 .. Tabs - 1

\* The pages of which a part is on the screen at position p.
Visible(p) == {p \div 2, (p + 1) \div 2}

\* The page that fills the screen, or the one nearer to the end at a tie.
Shown == (pos + 1) \div 2

Between(i, k, j) == (i <= k /\ k <= j) \/ (j <= k /\ k <= i)

-----------------------------------------------------------------------------

PagesInit ==
    /\ target = 0
    /\ pos = 0
    /\ alarmToWatch = FALSE
    /\ data = NoData
    /\ mounted = TRUE

\* Mutant of TurnTo: the watch page is not told that nothing is opened.
TurnToKeepingAlarm(goal) ==
    /\ mounted
    /\ target' = goal
    /\ UNCHANGED <<pos, alarmToWatch, data, mounted>>

\* _pageTransition(goal), up to the indicator.
TurnTo(goal) ==
    /\ mounted
    /\ alarmToWatch' = FALSE
    /\ target' = goal
    /\ UNCHANGED <<pos, data, mounted>>

\* The tile of alarm a: _pageTransition(1, alarmToWatch: true, data: a).
OpenAlarm(a) ==
    /\ mounted
    /\ AlarmTab \in Visible(pos)
    /\ data' = a
    /\ alarmToWatch' = TRUE
    /\ target' = WatchTab
    /\ UNCHANGED <<pos, mounted>>

\* The button of the watch page, which is there while it shows an alarm.
BackToAlarms ==
    /\ WatchTab \in Visible(pos)
    /\ alarmToWatch
    /\ TurnTo(AlarmTab)

\* The profile row at the top of the menu.
ProfileShortcut ==
    /\ MenuTab \in Visible(pos)
    /\ TurnTo(ProfileTab)

\* Mutant of PageScroll: a curve that overshoots.
PageScrollOvershooting(p) ==
    /\ mounted
    /\ p # pos
    /\ UNCHANGED <<target, alarmToWatch, data, mounted>>
    /\ pos' = p

\* Mutant of PageScroll: the animation stops before the last half page.
PageScrollShort(p) ==
    /\ mounted
    /\ p \notin {pos, 2 * target}
    /\ Between(pos, p, 2 * target)
    /\ pos' = p
    /\ UNCHANGED <<target, alarmToWatch, data, mounted>>

\* A frame of the animation: the position gets closer to the target, by half
\* a page or by more when frames are late.
PageScroll(p) ==
    /\ mounted
    /\ p # pos
    /\ Between(pos, p, 2 * target)
    /\ pos' = p
    /\ UNCHANGED <<target, alarmToWatch, data, mounted>>

\* The user is signed out: MainPage is unmounted, its subjects are closed.
PagesDispose ==
    /\ mounted
    /\ mounted' = FALSE
    /\ UNCHANGED <<target, pos, alarmToWatch, data>>

\* A user is signed in: a new MainPage, with a bloc and a PageView of its own.
PagesMount ==
    /\ ~mounted
    /\ target' = 0
    /\ pos' = 0
    /\ alarmToWatch' = FALSE
    /\ data' = NoData
    /\ mounted' = TRUE

Position == 0 .. 2 * (Tabs - 1)

PagesNext ==
    \/ \E goal \in Tab : TurnTo(goal)
    \/ \E a \in Alarms : OpenAlarm(a)
    \/ BackToAlarms
    \/ ProfileShortcut
    \/ \E p \in Position : PageScroll(p)
    \/ PagesDispose
    \/ PagesMount

PagesSpec == PagesInit /\ [][PagesNext]_pageVars

-----------------------------------------------------------------------------

PagesTypeOK ==
    /\ target \in Tab
    /\ pos \in Position
    /\ alarmToWatch \in BOOLEAN
    /\ data \in Alarms \cup {NoData}
    /\ mounted \in BOOLEAN

\* The watch page shows an alarm only after a tile was pressed and until the
\* next transition, so `data` has a value whenever it is read.
WatchShowsOpenedAlarm == alarmToWatch => data \in Alarms /\ target = WatchTab
=============================================================================
