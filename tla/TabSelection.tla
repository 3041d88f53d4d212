---------------------------- MODULE TabSelection ----------------------------
(***************************************************************************)
(* What the main page promises to its user, without subjects, controllers  *)
(* and timers: one tab is selected, and the page on the screen travels     *)
(* toward it.  A user who is signed in again starts from the first tab.    *)
(***************************************************************************)
EXTENDS Integers

CONSTANT Tabs  \* number of tabs

VARIABLES selected,  \* the highlighted tab
          shown      \* the page that fills most of the screen

vars == <<selected, shown>>

Tab == 0 .. Tabs - 1

\* k lies between i and j, either of which may be the smaller.
Between(i, k, j) == (i <= k /\ k <= j) \/ (j <= k /\ k <= i)

Init == selected = 0 /\ shown = 0

Select(t) ==
    /\ selected' = t
    /\ UNCHANGED shown

Travel ==
    /\ shown' \in Tab \ {shown}
    /\ Between(shown, shown', selected)
    /\ UNCHANGED selected

Restart == selected' = 0 /\ shown' = 0

Next == (\E t \in Tab : Select(t)) \/ Travel \/ Restart

Spec == Init /\ [][Next]_vars
=============================================================================
