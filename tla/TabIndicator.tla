---------------------------- MODULE TabIndicator ----------------------------
(***************************************************************************)
(* The sliding indicator of the bottom navigation bar: the MainBloc object *)
(* of lib/bloc/main_bloc.dart, as _pageTransition of lib/ui/main_page.dart *)
(* drives it.                                                              *)
(*                                                                         *)
(* animateIndicator is an async function: each call writes its first tab,  *)
(* then suspends on Future.delayed before each further tab.  Nothing       *)
(* cancels a call that is suspended, so several of them ("loops" below)    *)
(* may be writing the same subject.  The delays are abstracted: a          *)
(* suspended loop may be resumed at any moment, which covers every         *)
(* duration and every late timer.                                          *)
(*                                                                         *)
(* A MainBloc lives as long as its MainPage: Dispose closes the subjects   *)
(* when the user is signed out, Mount is the MainPage of the next session. *)
(* A loop that is suspended across Dispose keeps the closed bloc: it is an *)
(* "orphan", and its next write throws a StateError that nobody catches.   *)
(***************************************************************************)
EXTENDS Integers

CONSTANTS Tabs,      \* navigationData.length: 6 in the application
          Duration,  \* _duration, in milliseconds: 100 in the application
          Loops      \* bound: how many calls may be suspended at once

ASSUME TabsAssumption == Tabs \in Nat /\ Tabs >= 2
ASSUME DurationAssumption == Duration \in Nat /\ Duration >= Tabs

VARIABLES index,      \* _index: the tab under the indicator
          delay,      \* _delay: what a loop awaits before its next tab
          target,     \* _target: the tab last asked for
          loops,      \* the calls of animateIndicator that are suspended
          mounted,    \* whether the bloc is open
          requested,  \* history: the tabs asked for since the last rest
          overlapped  \* history: was one of them asked for before the rest

vars == <<index, delay, target, loops, mounted, requested, overlapped>>

Tab == 0 .. Tabs - 1

\* No call uses the slot.
Idle == [pc |-> "idle", at |-> 0, goal |-> 0]

\* A call of animateIndicator(goal) suspended after updateIndex(at).
Loop == [pc : {"waiting", "orphan"}, at : Tab, goal : Tab] \cup {Idle}

Waiting(l) == loops[l].pc = "waiting"
Orphan(l) == loops[l].pc = "orphan"

\* No call is left that can still write the indicator of this session.
AtRest == \A l \in Loops : ~Waiting(l)

\* The loop variable after i: i + 1 in the ascending branch, i - 1 in the other.
Toward(i, goal) == IF goal > i THEN i + 1 ELSE i - 1

Distance(i, j) == IF i >= j THEN i - j ELSE j - i

\* Duration / n rounded half up, as double.round does for a positive quotient.
Rounded(n) == (2 * Duration + n) \div (2 * n)

\* Mutant of CalDelay: the difference of the tabs without its absolute value.
CalDelaySigned(i) == IF i = index THEN Duration ELSE Rounded(i - index)

\* calDelay: the quotient is infinite when the tab is already under the
\* indicator, and the whole duration is returned.
CalDelay(i) ==
    IF i = index THEN Duration ELSE Rounded(Distance(i, index))

\* Mutant of Finished: the loop ends one tab early (i < index).
FinishedEarly(l) ==
    loops[l].goal \in {loops[l].at, Toward(loops[l].at, loops[l].goal)}

\* The loop of call l has written its last tab.
Finished(l) == loops[l].at = loops[l].goal

\* Mutant of NextTab: the loop jumps to its goal.
NextTabJumps(l) == loops[l].goal

\* Mutant of NextTab: the loop goes on from the subject, not from its own
\* variable.
NextTabShared(l) == Toward(index, loops[l].goal)

\* What the loop of call l writes next.
NextTab(l) == Toward(loops[l].at, loops[l].goal)

\* Mutant of Detached: the bloc is shared by the sessions.
DetachedNever(l) == loops[l]

\* Call l once its bloc is closed.
Detached(l) ==
    IF Waiting(l) THEN [loops[l] EXCEPT !.pc = "orphan"] ELSE loops[l]

-----------------------------------------------------------------------------

Init ==
    /\ index = 0
    /\ delay = Duration \div 2
    /\ target = 0
    /\ loops = [l \in Loops |-> Idle]
    /\ mounted = TRUE
    /\ requested = {0}
    /\ overlapped = FALSE

\* animateIndicator(goal) up to its first await: the first tab is written
\* at once; a call for the tab under the indicator has no iteration.
AnimateIndicator(goal) ==
    \/ /\ goal = index
       /\ UNCHANGED <<index, loops>>
    \/ /\ goal # index
       /\ \E l \in Loops :
            /\ loops[l] = Idle
            /\ loops' = [loops EXCEPT ![l] =
                 [pc |-> "waiting", at |-> Toward(index, goal), goal |-> goal]]
       /\ index' = Toward(index, goal)

\* _pageTransition(goal), the part of it that concerns the indicator.
PageTransition(goal) ==
    /\ mounted
    /\ target' = goal
    /\ delay' = CalDelay(goal)
    /\ AnimateIndicator(goal)
    /\ requested' = IF AtRest THEN {goal} ELSE requested \cup {goal}
    /\ overlapped' = ~AtRest
    /\ UNCHANGED mounted

\* A timer of this session fires: the loop writes its next tab, or ends.
Resume(l) ==
    /\ Waiting(l)
    /\ \/ /\ Finished(l)
          /\ loops' = [loops EXCEPT ![l] = Idle]
          /\ UNCHANGED index
       \/ /\ ~Finished(l)
          /\ index' = NextTab(l)
          /\ loops' = [loops EXCEPT ![l].at = index']
    /\ UNCHANGED <<delay, target, mounted, requested, overlapped>>

\* A timer of an earlier session fires: the loop ends, either because its
\* last tab is written or because updateIndex throws on the closed subject.
ResumeOrphan(l) ==
    /\ Orphan(l)
    /\ loops' = [loops EXCEPT ![l] = Idle]
    /\ UNCHANGED <<index, delay, target, mounted, requested, overlapped>>

\* The user is signed out: MainPage is unmounted and closes its bloc.
Dispose ==
    /\ mounted
    /\ mounted' = FALSE
    /\ loops' = [l \in Loops |-> Detached(l)]
    /\ UNCHANGED <<index, delay, target, requested, overlapped>>

\* A user is signed in: a new MainPage with a bloc of its own.
Mount ==
    /\ ~mounted
    /\ index' = 0
    /\ delay' = Duration \div 2
    /\ target' = 0
    /\ mounted' = TRUE
    /\ requested' = {0}
    /\ overlapped' = FALSE
    /\ UNCHANGED loops

Next ==
    \/ \E goal \in Tab : PageTransition(goal)
    \/ \E l \in Loops : Resume(l) \/ ResumeOrphan(l)
    \/ Dispose
    \/ Mount

Spec == Init /\ [][Next]_vars

\* Every timer fires; users press, sign out and sign in only if they wish.
FairSpec == Spec /\ \A l \in Loops : WF_vars(Resume(l) \/ ResumeOrphan(l))

-----------------------------------------------------------------------------

\* The subjects hold tabs of the bar, and no loop is told to wait for a
\* time that is not positive or exceeds the whole duration.
TypeOK ==
    /\ index \in Tab
    /\ delay \in 1 .. Duration
    /\ target \in Tab
    /\ loops \in [Loops -> Loop]
    /\ mounted \in BOOLEAN
    /\ requested \in SUBSET Tab
    /\ overlapped \in BOOLEAN

\* However many calls of animateIndicator write over each other, the
\* indicator comes to rest under a tab the user asked for during the burst,
\* never under one that a loop only passes.
RestsOnRequestedTab == mounted /\ AtRest => index \in requested

\* A transition that is not overlapped by another leaves the indicator under
\* its target, whatever an earlier burst or an earlier session left behind.
\* An overlapped one need not: animateIndicator does not cancel the older call.
SettlesOnTarget == mounted /\ AtRest /\ ~overlapped => index = target

\* While no transition overlaps, every write of updateIndex moves the
\* indicator to the next tab on the way to the target: the bar neither skips
\* a tab nor runs backwards.
SweepsTowardTarget ==
    [][mounted /\ mounted' /\ index' # index /\ ~overlapped'
         => index' = Toward(index, target')]_vars

\* Every call of animateIndicator ends.  The loop variable is local to the
\* call, so two loops that run in opposite directions over the same subject
\* do not keep each other going.
EveryLoopEnds == \A l \in Loops : loops[l] # Idle ~> loops[l] = Idle
=============================================================================
