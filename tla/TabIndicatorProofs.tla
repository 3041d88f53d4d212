------------------------- MODULE TabIndicatorProofs -------------------------
(***************************************************************************)
(* What TabIndicator satisfies for every number of tabs, every duration    *)
(* and any number of overlapping calls of animateIndicator.                *)
(***************************************************************************)
EXTENDS TabIndicator, TLAPS

\* Some loop of this session still has a tab to write.
Moving == \E l \in Loops : Waiting(l) /\ loops[l].at # loops[l].goal

\* The transition that is under way, if any, is the only one and the last
\* write of the indicator is its own.
Alone ==
    /\ \A l, m \in Loops : Waiting(l) /\ Waiting(m) => l = m
    /\ \A l \in Loops : Waiting(l) => /\ loops[l].at = index
                                      /\ loops[l].goal = target
    /\ AtRest => index = target

\* The inductive invariant.
IndicatorInv ==
    /\ TypeOK
    /\ mounted => target \in requested
    /\ \A l \in Loops : Waiting(l) => mounted /\ loops[l].goal \in requested
    /\ mounted => index \in requested \/ Moving
    /\ mounted /\ ~overlapped => Alone

\* Toward stays on the bar.
LEMMA TowardIsATab ==
    ASSUME NEW i \in Tab, NEW goal \in Tab, i # goal
    PROVE  Toward(i, goal) \in Tab
BY TabsAssumption DEF Tab, Toward

\* The rounded share of the duration is a positive number of milliseconds
\* that does not exceed the duration: calDelay divides it by at most Tabs - 1.
LEMMA RoundedBounds ==
    ASSUME NEW n \in 1 .. Tabs - 1
    PROVE  Rounded(n) \in 1 .. Duration
<1>1. n \in Nat /\ 2 * n \in Nat \ {0} /\ n <= Duration
  BY TabsAssumption, DurationAssumption
<1>2. 2 * n <= 2 * Duration + n
  BY <1>1, DurationAssumption
<1>3. Duration <= n * Duration
  BY <1>1, DurationAssumption
<1>4. QED
  BY <1>1, <1>2, <1>3, DurationAssumption DEF Rounded

LEMMA CalDelayBounds ==
    ASSUME TypeOK, NEW goal \in Tab
    PROVE  CalDelay(goal) \in 1 .. Duration
<1>1. CASE goal = index
  BY <1>1, TabsAssumption, DurationAssumption DEF CalDelay
<1>2. CASE goal # index
  <2>1. Distance(goal, index) \in 1 .. Tabs - 1
    BY <1>2, TabsAssumption DEF TypeOK, Tab, Distance
  <2>2. QED
    BY <1>2, <2>1, RoundedBounds DEF CalDelay
<1>3. QED
  BY <1>1, <1>2

-----------------------------------------------------------------------------

LEMMA IndicatorInit == Init => IndicatorInv
<1>1. SUFFICES ASSUME Init PROVE IndicatorInv
  OBVIOUS
<1>2. 0 \in Tab /\ Duration \div 2 \in 1 .. Duration /\ Idle \in Loop
  BY TabsAssumption, DurationAssumption DEF Tab, Loop
<1>3. TypeOK
  BY <1>1, <1>2 DEF Init, TypeOK
<1>4. \A l \in Loops : ~Waiting(l)
  BY <1>1 DEF Init, Waiting, Idle
<1>5. QED
  BY <1>1, <1>3, <1>4 DEF Init, IndicatorInv, Alone, AtRest

\* A press, a tile or a shortcut, whatever is under way.
LEMMA PageTransitionKeepsInv ==
    ASSUME IndicatorInv, NEW goal \in Tab, PageTransition(goal)
    PROVE  IndicatorInv'
<1>1. /\ TypeOK /\ mounted /\ mounted'
      /\ target' = goal /\ goal \in requested'
      /\ ~AtRest => requested \subseteq requested'
      /\ ~overlapped' => AtRest
  BY DEF IndicatorInv, PageTransition, TypeOK
<1>2. CASE goal = index /\ UNCHANGED <<index, loops>>
  <2>1. TypeOK'
    BY <1>1, <1>2, CalDelayBounds DEF PageTransition, TypeOK
  <2>2. \A l \in Loops : Waiting(l)' => loops[l]'.goal \in requested'
    BY <1>1, <1>2 DEF IndicatorInv, Waiting, AtRest
  <2>3. AtRest => Alone'
    BY <1>1, <1>2 DEF Alone, AtRest, Waiting
  <2>4. QED
    BY <1>1, <1>2, <2>1, <2>2, <2>3 DEF IndicatorInv
<1>3. ASSUME goal # index, NEW k \in Loops, loops[k] = Idle,
             loops' = [loops EXCEPT ![k] =
               [pc |-> "waiting", at |-> Toward(index, goal), goal |-> goal]],
             index' = Toward(index, goal)
      PROVE  IndicatorInv'
  <2>1. index' \in Tab
    BY <1>1, <1>3, TowardIsATab DEF TypeOK
  <2>2. [pc |-> "waiting", at |-> index', goal |-> goal] \in Loop
    BY <2>1 DEF Loop
  <2>3. TypeOK'
    BY <1>1, <1>3, <2>1, <2>2, CalDelayBounds DEF PageTransition, TypeOK
  <2>4. /\ loops'[k] = [pc |-> "waiting", at |-> index', goal |-> goal]
        /\ \A m \in Loops : m # k => loops'[m] = loops[m]
    BY <1>1, <1>3 DEF TypeOK
  <2>5. Waiting(k)' /\ \A m \in Loops : m # k => Waiting(m)' = Waiting(m)
    BY <2>4 DEF Waiting
  <2>6. \A l \in Loops : Waiting(l)' => loops'[l].goal \in requested'
    BY <1>1, <2>4, <2>5 DEF IndicatorInv, AtRest
  <2>7. index' \in requested' \/ Moving'
    BY <1>1, <2>4, <2>5 DEF Moving
  <2>8. AtRest => Alone'
    BY <1>1, <2>4, <2>5 DEF Alone, AtRest
  <2>9. QED
    BY <1>1, <2>3, <2>6, <2>7, <2>8 DEF IndicatorInv
<1>4. QED
  BY <1>2, <1>3 DEF PageTransition, AnimateIndicator

\* A timer of this session, which ends its loop or writes its next tab.
LEMMA ResumeKeepsInv ==
    ASSUME IndicatorInv, NEW k \in Loops, Resume(k)
    PROVE  IndicatorInv'
<1>1. /\ TypeOK /\ Waiting(k) /\ mounted
      /\ loops[k].goal \in requested
      /\ UNCHANGED <<delay, target, mounted, requested, overlapped>>
  BY DEF IndicatorInv, Resume
<1>2. /\ loops[k] \in Loop
      /\ loops[k] # Idle
      /\ loops[k].at \in Tab
      /\ loops[k].goal \in Tab
  <2>1. loops[k] \in Loop /\ loops[k].pc = "waiting"
    BY <1>1 DEF TypeOK, Waiting
  <2>2. QED
    BY <2>1, TabsAssumption DEF Loop, Idle, Tab
<1>3. CASE /\ loops[k].at = loops[k].goal
           /\ loops' = [loops EXCEPT ![k] = Idle]
           /\ UNCHANGED index
  <2>1. TypeOK'
    BY <1>1, <1>3 DEF TypeOK, Loop
  <2>2. /\ ~Waiting(k)'
        /\ \A m \in Loops : m # k => loops'[m] = loops[m]
        /\ \A m \in Loops : m # k => Waiting(m)' = Waiting(m)
    BY <1>1, <1>3 DEF TypeOK, Waiting, Idle
  <2>3. \A l \in Loops : Waiting(l)' => loops'[l].goal \in requested'
    BY <1>1, <2>2 DEF IndicatorInv
  <2>4. index' \in requested' \/ Moving'
    BY <1>1, <1>3, <2>2 DEF IndicatorInv, Moving
  <2>5. Alone => Alone'
    BY <1>1, <1>3, <2>2 DEF Alone, AtRest
  <2>6. QED
    BY <1>1, <2>1, <2>3, <2>4, <2>5 DEF IndicatorInv
<1>4. CASE /\ loops[k].at # loops[k].goal
           /\ index' = Toward(loops[k].at, loops[k].goal)
           /\ loops' = [loops EXCEPT ![k].at = index']
  <2>1. index' \in Tab
    BY <1>2, <1>4, TowardIsATab
  <2>2. /\ loops'[k] = [loops[k] EXCEPT !.at = index']
        /\ \A m \in Loops : m # k => loops'[m] = loops[m]
    BY <1>1, <1>4 DEF TypeOK
  <2>3. /\ loops'[k] \in Loop
        /\ loops'[k].at = index'
        /\ loops'[k].goal = loops[k].goal
        /\ Waiting(k)'
    BY <1>1, <1>2, <2>1, <2>2 DEF Loop, Idle, Waiting
  <2>4. TypeOK'
    BY <1>1, <1>4, <2>1, <2>3 DEF TypeOK
  <2>5. \A m \in Loops : m # k => Waiting(m)' = Waiting(m)
    BY <2>2 DEF Waiting
  <2>6. \A l \in Loops : Waiting(l)' => loops'[l].goal \in requested'
    BY <1>1, <2>2, <2>3, <2>5 DEF IndicatorInv
  <2>7. index' \in requested' \/ Moving'
    BY <1>1, <2>3 DEF Moving
  <2>8. Alone => Alone'
    BY <1>1, <2>2, <2>3, <2>5 DEF Alone, AtRest
  <2>9. QED
    BY <1>1, <2>4, <2>6, <2>7, <2>8 DEF IndicatorInv
<1>5. QED
  BY <1>3, <1>4 DEF Resume, Finished, NextTab

\* A timer of an earlier session touches nothing of this one.
LEMMA ResumeOrphanKeepsInv ==
    ASSUME IndicatorInv, NEW k \in Loops, ResumeOrphan(k)
    PROVE  IndicatorInv'
<1>1. /\ TypeOK
      /\ loops' = [loops EXCEPT ![k] = Idle]
      /\ UNCHANGED <<index, delay, target, mounted, requested, overlapped>>
  BY DEF IndicatorInv, ResumeOrphan
<1>2. TypeOK'
  BY <1>1 DEF TypeOK, Loop
<1>3. /\ ~Waiting(k) /\ ~Waiting(k)'
      /\ \A m \in Loops : m # k => loops'[m] = loops[m]
  BY <1>1 DEF ResumeOrphan, TypeOK, Orphan, Waiting, Idle
<1>4. \A m \in Loops : Waiting(m)' = Waiting(m)
  BY <1>3 DEF Waiting
<1>5. \A l \in Loops : Waiting(l)' => loops'[l].goal \in requested'
  BY <1>1, <1>3, <1>4 DEF IndicatorInv
<1>6. Moving => Moving'
  BY <1>3, <1>4 DEF Moving
<1>7. Alone => Alone'
  BY <1>1, <1>3, <1>4 DEF Alone, AtRest
<1>8. QED
  BY <1>1, <1>2, <1>4, <1>5, <1>6, <1>7 DEF IndicatorInv

\* Signing out turns every suspended loop into an orphan, so that the bloc of
\* the next session starts alone.
LEMMA DisposeKeepsInv == IndicatorInv /\ Dispose => IndicatorInv'
<1>1. SUFFICES ASSUME IndicatorInv, Dispose PROVE IndicatorInv'
  OBVIOUS
<1>2. \A l \in Loops : loops'[l] = IF Waiting(l)
                                     THEN [loops[l] EXCEPT !.pc = "orphan"]
                                     ELSE loops[l]
  BY <1>1 DEF Dispose, Detached
<1>3. \A l \in Loops : loops[l] \in Loop
  BY <1>1 DEF IndicatorInv, TypeOK
<1>4. ASSUME NEW l \in Loops PROVE loops'[l] \in Loop /\ ~Waiting(l)'
  <2>1. CASE Waiting(l)
    <3>1. loops[l] \in [pc : {"waiting", "orphan"}, at : Tab, goal : Tab]
      BY <1>3, <2>1 DEF Waiting, Loop, Idle
    <3>2. loops'[l] = [loops[l] EXCEPT !.pc = "orphan"]
      BY <1>2, <2>1
    <3>3. QED
      BY <3>1, <3>2 DEF Loop, Waiting
  <2>2. CASE ~Waiting(l)
    BY <1>2, <1>3, <2>2 DEF Waiting
  <2>3. QED
    BY <2>1, <2>2
<1>5. TypeOK'
  BY <1>1, <1>4 DEF IndicatorInv, TypeOK, Dispose
<1>6. QED
  BY <1>1, <1>4, <1>5 DEF IndicatorInv, Dispose

LEMMA MountKeepsInv == IndicatorInv /\ Mount => IndicatorInv'
<1>1. SUFFICES ASSUME IndicatorInv, Mount PROVE IndicatorInv'
  OBVIOUS
<1>2. \A l \in Loops : ~Waiting(l)'
  BY <1>1 DEF IndicatorInv, Mount, Waiting
<1>3. TypeOK'
  <2>1. 0 \in Tab /\ Duration \div 2 \in 1 .. Duration
    BY TabsAssumption, DurationAssumption DEF Tab
  <2>2. QED
    BY <1>1, <2>1 DEF IndicatorInv, TypeOK, Mount
<1>4. Alone'
  BY <1>1, <1>2 DEF Alone, AtRest, Mount
<1>5. QED
  BY <1>1, <1>2, <1>3, <1>4 DEF IndicatorInv, Mount

LEMMA IndicatorStep == IndicatorInv /\ [Next]_vars => IndicatorInv'
<1>1. SUFFICES ASSUME IndicatorInv, [Next]_vars PROVE IndicatorInv'
  OBVIOUS
<1>2. CASE UNCHANGED vars
  BY <1>1, <1>2
  DEF vars, IndicatorInv, TypeOK, Moving, Alone, AtRest, Waiting
<1>3. CASE Next
  BY <1>1, <1>3, PageTransitionKeepsInv, ResumeKeepsInv,
     ResumeOrphanKeepsInv, DisposeKeepsInv, MountKeepsInv DEF Next
<1>4. QED
  BY <1>1, <1>2, <1>3

\* The invariant on which the theorems rest: every suspended call is bound
\* for a tab that was asked for, and while the indicator is under no such tab
\* some call still has to move it (animateIndicator, main_bloc.dart).
THEOREM IndicatorInvariant == Spec => []IndicatorInv
BY IndicatorInit, IndicatorStep, PTL DEF Spec

-----------------------------------------------------------------------------

\* The subjects of MainBloc hold tabs of the bar, and calDelay never makes a
\* loop wait for nothing or for more than the whole duration.
THEOREM TypeCorrect == Spec => []TypeOK
<1>1. IndicatorInv => TypeOK
  BY DEF IndicatorInv
<1>2. QED
  BY <1>1, IndicatorInvariant, PTL

\* Any number of calls of animateIndicator may overlap: once the last of them
\* has ended, the indicator is under a tab that the user asked for.
THEOREM RestsCorrect == Spec => []RestsOnRequestedTab
<1>1. IndicatorInv => RestsOnRequestedTab
  BY DEF IndicatorInv, RestsOnRequestedTab, AtRest, Moving
<1>2. QED
  BY <1>1, IndicatorInvariant, PTL

\* A call of animateIndicator that nothing overlaps brings the indicator to
\* its target, whatever earlier bursts and sessions left suspended.
THEOREM SettlesCorrect == Spec => []SettlesOnTarget
<1>1. IndicatorInv => SettlesOnTarget
  BY DEF IndicatorInv, SettlesOnTarget, Alone
<1>2. QED
  BY <1>1, IndicatorInvariant, PTL

\* A call of animateIndicator that nothing overlaps passes every tab between
\* the indicator and its target, in order.
THEOREM SweepsCorrect == Spec => SweepsTowardTarget
<1> DEFINE Sweep ==
      mounted /\ mounted' /\ index' # index /\ ~overlapped'
        => index' = Toward(index, target')
<1>1. ASSUME IndicatorInv, Next PROVE Sweep
  <2>1. ASSUME NEW goal \in Tab, PageTransition(goal) PROVE Sweep
    BY <2>1 DEF PageTransition, AnimateIndicator
  <2>2. ASSUME NEW l \in Loops, Resume(l) PROVE Sweep
    BY <1>1, <2>2 DEF IndicatorInv, Alone, Resume, NextTab
  <2>3. ASSUME NEW l \in Loops, ResumeOrphan(l) PROVE Sweep
    BY <2>3 DEF ResumeOrphan
  <2>4. ASSUME Dispose \/ Mount PROVE Sweep
    BY <2>4 DEF Dispose, Mount
  <2>5. QED
    BY <1>1, <2>1, <2>2, <2>3, <2>4 DEF Next
<1>2. IndicatorInv /\ [Next]_vars => [Sweep]_vars
  BY <1>1
<1>3. QED
  BY <1>2, IndicatorInvariant, PTL DEF Spec, SweepsTowardTarget
=============================================================================
