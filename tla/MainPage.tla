------------------------------- MODULE MainPage -------------------------------
(***************************************************************************)
(* lib/ui/main_page.dart with its MainBloc: every transition sets the      *)
(* target, starts the animation of the PageView and starts a call of       *)
(* animateIndicator.  The PageView and the indicator then move on their    *)
(* own, the one in frames, the other on timers.                            *)
(***************************************************************************)
EXTENDS TabPages

CONSTANTS Duration,  \* _duration of the bloc, in milliseconds
          Loops      \* bound: suspended calls of animateIndicator

\* What TabIndicator assumes of its duration.
ASSUME BarAssumption == Duration \in Nat /\ Duration >= Tabs

VARIABLES index, delay, loops, requested, overlapped

\* The indicator, which shares `target` and `mounted` with the pages.
Bar == INSTANCE TabIndicator

\* What the two together promise.
Selection == INSTANCE TabSelection WITH selected <- target, shown <- Shown

barVars == <<index, delay, loops, requested, overlapped>>
vars == <<pageVars, barVars>>

-----------------------------------------------------------------------------

Init == PagesInit /\ Bar!Init

\* A press on a tab of the navigation bar.
NavigationPressed(goal) == TurnTo(goal) /\ Bar!PageTransition(goal)

\* A press on a tile of the alarm page.
AlarmOpened(a) == OpenAlarm(a) /\ Bar!PageTransition(WatchTab)

\* Mutant of BackPressed: the indicator is not told.
BackPressedSilently == BackToAlarms /\ UNCHANGED barVars

\* A press on the button of the watch page.
BackPressed == BackToAlarms /\ Bar!PageTransition(AlarmTab)

\* A press on the profile row of the menu.
ShortcutPressed == ProfileShortcut /\ Bar!PageTransition(ProfileTab)

Scroll(p) == PageScroll(p) /\ UNCHANGED barVars

Timer(l) ==
    /\ Bar!Resume(l) \/ Bar!ResumeOrphan(l)
    /\ UNCHANGED pageVars

SignedOut == PagesDispose /\ Bar!Dispose

SignedIn == PagesMount /\ Bar!Mount

Next ==
    \/ \E goal \in Tab : NavigationPressed(goal)
    \/ \E a \in Alarms : AlarmOpened(a)
    \/ BackPressed
    \/ ShortcutPressed
    \/ \E p \in Position : Scroll(p)
    \/ \E l \in Loops : Timer(l)
    \/ SignedOut
    \/ SignedIn

Spec == Init /\ [][Next]_vars

\* Frames are drawn and timers fire; presses are the user's.
FairSpec ==
    /\ Spec
    /\ WF_vars(\E p \in Position : Scroll(p))
    /\ \A l \in Loops : WF_vars(Timer(l))

-----------------------------------------------------------------------------

\* Page and indicator are driven by one handler and then move on their own, in
\* frames and on timers.  When both have stopped, the indicator is under the
\* page on the screen, unless a transition of the last burst overlapped
\* another: then it is under a tab asked for in that burst.  Loops that were
\* suspended by earlier bursts, and those of closed sessions, change nothing
\* about it.
AgreeAtRest ==
    mounted /\ pos = 2 * target /\ Bar!AtRest
        => index \in requested /\ (~overlapped => index = Shown)

\* The page on the screen travels toward the highlighted tab and never away
\* from it or past it, although a transition may start at any moment of
\* another one and each press, tile and shortcut has its own handler.
ImplementsSelection == Selection!Spec

\* Once the user stops, the PageView comes to rest on the highlighted tab, and
\* the indicator under a tab that was asked for in the last burst.
ComesToRest ==
    \A t \in Tab :
        <>[](mounted /\ target = t)
            => <>[](pos = 2 * t /\ Bar!AtRest /\ index \in requested)
=============================================================================
