------------------------------ MODULE MenuPanels ------------------------------
(***************************************************************************)
(* The menu page: lib/ui/menu_page.dart with its MenuBloc and the buttons  *)
(* of lib/components/menu_page/hidden_menu_button.dart.                    *)
(*                                                                         *)
(* Three panels open and close in one list.  `더 보기` (more) shows further *)
(* shortcuts; the buttons of the resources and of the help each open a     *)
(* panel below them and, 300 ms later, scroll the list to it.  Where it is *)
(* then depends on the panels that are open when the delay has passed.     *)
(*                                                                         *)
(* Whether a panel is open is kept three times: _isShowing in the state of *)
(* the button, _turnsSubject for its arrow, and a subject of the bloc.     *)
(***************************************************************************)
EXTENDS Integers, Sequences

CONSTANT MaxDue  \* bound: delayed scrolls that wait at the same time

ASSUME MaxDueAssumption == MaxDue \in Nat \ {0}

VARIABLES mounted,   \* whether a MenuPage is alive
          onScreen,  \* isOnScreen: the tab of the menu is the target
          more,      \* _isShowingShortCut of the bloc
          built,     \* snapshot of `more` in the last frame: <<>> or <<value>>
          shown,     \* _isShowingCommunityResource and _isShowingHelp
          showing,   \* _isShowing of each HiddenMenuButton
          turned,    \* _turnsSubject of each HiddenMenuButton is 1/2
          due,       \* delayed scrolls, the oldest first
          scroll,    \* where the list was last sent, by code or by hand
          newest     \* history: the panel opened last

vars == <<mounted, onScreen, more, built, shown, showing, turned, due, scroll,
          newest>>

Panel == {"resources", "help"}

\* The last two buttons hide nothing and are given no callbacks.
Button == Panel \cup {"settings", "products"}

Other(p) == IF p = "resources" THEN "help" ELSE "resources"

\* Mutant of CalOffset: the single panels are looked at before the pair.
CalOffsetSinglesFirst(p, moreOpen, otherOpen) ==
    IF p = "resources"
    THEN IF moreOpen THEN 562 ELSE IF otherOpen THEN 500 ELSE 397
    ELSE IF moreOpen THEN 677 ELSE IF otherOpen THEN 750 ELSE 512

\* calCRScrollOffset and calHelpScrollOffset, each of which asks for the
\* further shortcuts and for the panel of the other.
CalOffset(p, moreOpen, otherOpen) ==
    IF p = "resources"
    THEN IF moreOpen /\ otherOpen THEN 667
         ELSE IF moreOpen THEN 562 ELSE IF otherOpen THEN 500 ELSE 397
    ELSE IF moreOpen /\ otherOpen THEN 915
         ELSE IF moreOpen THEN 677 ELSE IF otherOpen THEN 750 ELSE 512

OffsetsOf(p) == {CalOffset(p, m, o) : m \in BOOLEAN, o \in BOOLEAN}

OffsetNow(p) == CalOffset(p, more, shown[Other(p)])

Top == 0

\* Any place the user drags the list to.
ByHand == -1

Place == {Top, ByHand} \cup OffsetsOf("resources") \cup OffsetsOf("help")

-----------------------------------------------------------------------------

AllClosed(set) == [b \in set |-> FALSE]

\* A new MenuPage: the seeds of the bloc, the buttons closed, no frame yet.
Init ==
    /\ mounted = TRUE
    /\ onScreen = TRUE
    /\ more = FALSE
    /\ built = <<>>
    /\ shown = AllClosed(Panel)
    /\ showing = AllClosed(Button)
    /\ turned = AllClosed(Button)
    /\ due = <<>>
    /\ scroll = Top
    /\ newest = "help"

\* The panels and the text of `more` are built again from the bloc.
Frame ==
    /\ mounted
    /\ built # <<more>>
    /\ built' = <<more>>
    /\ UNCHANGED <<mounted, onScreen, more, shown, showing, turned, due,
                   scroll, newest>>

\* The button asks for the opposite of what the last frame showed.  Before
\* the first event of the stream `snapshot.data!` throws: the press is lost.
MorePressed ==
    /\ mounted /\ onScreen
    /\ built # <<>>
    /\ more' = ~built[1]
    /\ UNCHANGED <<mounted, onScreen, built, shown, showing, turned, due,
                   scroll, newest>>

\* A press on a closed button: the arrow turns, and onShowingEnd of a panel
\* opens it at once and scrolls to it 300 ms later.
OpenPressed(b) ==
    /\ mounted /\ onScreen
    /\ ~showing[b]
    /\ showing' = [showing EXCEPT ![b] = TRUE]
    /\ turned' = [turned EXCEPT ![b] = TRUE]
    /\ IF b \in Panel
       THEN /\ Len(due) < MaxDue
            /\ shown' = [shown EXCEPT ![b] = TRUE]
            /\ due' = Append(due, b)
            /\ newest' = b
       ELSE UNCHANGED <<shown, due, newest>>
    /\ UNCHANGED <<mounted, onScreen, more, built, scroll>>

\* A press on an open button.  A scroll that is due stays due.
ClosePressed(b) ==
    /\ mounted /\ onScreen
    /\ showing[b]
    /\ showing' = [showing EXCEPT ![b] = FALSE]
    /\ turned' = [turned EXCEPT ![b] = FALSE]
    /\ shown' = [p \in Panel |-> shown[p] /\ p # b]
    /\ UNCHANGED <<mounted, onScreen, more, built, due, scroll, newest>>

\* Mutant of DelayedScroll: the scroll asked for last is served first.
DelayedScrollLastFirst ==
    /\ mounted
    /\ due # <<>>
    /\ scroll' = OffsetNow(due[Len(due)])
    /\ due' = SubSeq(due, 1, Len(due) - 1)
    /\ UNCHANGED <<mounted, onScreen, more, built, shown, showing, turned,
                   newest>>

\* Mutant of DelayedScroll: only the last of the scrolls that wait is done.
DelayedScrollDebounced ==
    /\ mounted
    /\ due # <<>>
    /\ scroll' = OffsetNow(due[Len(due)])
    /\ due' = <<>>
    /\ UNCHANGED <<mounted, onScreen, more, built, shown, showing, turned,
                   newest>>

\* The oldest delay is over: animateTo replaces the scroll under way.  The
\* delays are of equal length, so they end in the order they were started,
\* and none looks at whether its panel is still open or the page on screen.
DelayedScroll ==
    /\ mounted
    /\ due # <<>>
    /\ scroll' = OffsetNow(Head(due))
    /\ due' = Tail(due)
    /\ UNCHANGED <<mounted, onScreen, more, built, shown, showing, turned,
                   newest>>

\* onScrollsToTop, which every page that is alive receives.
StatusBarPressed ==
    /\ mounted
    /\ onScreen
    /\ scroll' = Top
    /\ UNCHANGED <<mounted, onScreen, more, built, shown, showing, turned, due,
                   newest>>

Drag ==
    /\ mounted /\ onScreen
    /\ scroll' = ByHand
    /\ UNCHANGED <<mounted, onScreen, more, built, shown, showing, turned, due,
                   newest>>

\* The main page is told of another target.  The page is kept alive.
TabChosen(isMenu) ==
    /\ mounted
    /\ onScreen' = isMenu
    /\ UNCHANGED <<mounted, more, built, shown, showing, turned, due, scroll,
                   newest>>

\* The user is signed out.  Delays that end later find a controller without
\* a list, which moves nothing.
Dispose ==
    /\ mounted
    /\ mounted' = FALSE
    /\ due' = <<>>
    /\ UNCHANGED <<onScreen, more, built, shown, showing, turned, scroll,
                   newest>>

Mount ==
    /\ ~mounted
    /\ mounted' = TRUE
    /\ onScreen' = TRUE
    /\ more' = FALSE
    /\ built' = <<>>
    /\ shown' = AllClosed(Panel)
    /\ showing' = AllClosed(Button)
    /\ turned' = AllClosed(Button)
    /\ due' = <<>>
    /\ scroll' = Top
    /\ UNCHANGED newest

Next ==
    \/ Frame
    \/ MorePressed
    \/ \E b \in Button : OpenPressed(b) \/ ClosePressed(b)
    \/ DelayedScroll
    \/ StatusBarPressed
    \/ Drag
    \/ \E isMenu \in BOOLEAN : TabChosen(isMenu)
    \/ Dispose
    \/ Mount

Spec == Init /\ [][Next]_vars

\* Delays end; everything else is the user's.
FairSpec == Spec /\ WF_vars(DelayedScroll)

-----------------------------------------------------------------------------

\* The types of the variables: only the panels are ever scrolled to, and the
\* list is at an offset of the tables, at the top or where the user left it.
TypeOK ==
    /\ mounted \in BOOLEAN
    /\ onScreen \in BOOLEAN
    /\ more \in BOOLEAN
    /\ built \in {<<>>} \cup {<<v>> : v \in BOOLEAN}
    /\ shown \in [Panel -> BOOLEAN]
    /\ showing \in [Button -> BOOLEAN]
    /\ turned \in [Button -> BOOLEAN]
    /\ due \in Seq(Panel)
    /\ Len(due) <= MaxDue
    /\ scroll \in Place
    /\ newest \in Panel

\* The three copies of "this panel is open" agree, although the button keeps
\* two of them and reaches the third through optional callbacks: otherwise an
\* arrow points at a panel whose content stays transparent.
CopiesAgree ==
    /\ turned = showing
    /\ \A p \in Panel : shown[p] = showing[p]

\* A press flips the further shortcuts only against what the user saw: two
\* presses within a frame do not undo each other.
NoBlindToggle ==
    [][(mounted /\ mounted' /\ more' # more) => built = <<more>>]_vars

\* After a burst of presses the list ends at the panel opened last, although
\* every panel opened in the burst has a scroll of its own under way.
LastOpenedWins ==
    [][(mounted /\ mounted' /\ due # <<>> /\ due' = <<>>)
        => scroll' \in OffsetsOf(newest)]_vars

\* A step that serves the scroll to p would take the list less far with one
\* of the panels that are open closed.
MakesRoom(p) ==
    (mounted /\ mounted' /\ due # <<>> /\ Head(due) = p /\ due' = Tail(due))
    => \A m \in BOOLEAN, o \in BOOLEAN :
        ((m => more) /\ (o => shown[Other(p)])
            /\ <<m, o>> # <<more, shown[Other(p)]>>)
        => CalOffset(p, m, o) < scroll'

\* A scroll makes room for every panel that is open when it starts, also for
\* those opened or closed during its delay.
ScrollMakesRoom == [][\A p \in Panel : MakesRoom(p)]_vars

\* Every panel that is opened is scrolled to, unless the user is signed out.
OpeningScrolls ==
    \A p \in Panel :
        (\E i \in DOMAIN due : due[i] = p)
            ~> (scroll \in OffsetsOf(p) \/ ~mounted)
=============================================================================
