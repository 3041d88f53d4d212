--------------------------- MODULE NotificationFlow ---------------------------
(***************************************************************************)
(* The alarm page inside the main page: a tile marks its alarm as read and *)
(* turns to the watch page in one handler, the PageView builds the alarm   *)
(* page when a frame first shows it and keeps it alive until the user is   *)
(* signed out, and the list of alarms outlives the session.                *)
(*                                                                         *)
(* The indicator is left to MainPage: nothing here reads it.               *)
(***************************************************************************)
EXTENDS TabPages, Sequences

CONSTANTS InitialAlarms, Threshold, Batch, ReadMoreCount, Retries, MaxSessions

\* What AlarmFeed assumes of the list; and the page that a new PageView shows
\* is not the alarm page.
ASSUME FlowAssumption ==
    /\ InitialAlarms \in Nat
    /\ Threshold \in Nat
    /\ Batch \in Nat \ {0}
    /\ ReadMoreCount \in Nat \ {0}
    /\ Retries \in Nat
    /\ MaxSessions \in Nat \ {0}
    /\ AlarmTab # 0

VARIABLES alarms, alive, filter, tiles, loads, isLoading, readMoreCount, temp,
          alarmLength, isReads, isEnd, late, batches, sessions

\* The notification list; it is alive from the first frame that shows it.
Feed == INSTANCE AlarmFeed WITH mounted <- alive

feedVars == <<alarms, alive, filter, tiles, loads, isLoading, readMoreCount,
              temp, alarmLength, isReads, isEnd, late, batches, sessions>>

vars == <<pageVars, feedVars>>

-----------------------------------------------------------------------------

Init == PagesInit /\ Feed!Init

\* A press on the i-th tile.  The tiles of a short list have a handler that
\* does not turn the page.
TilePressed(i) ==
    /\ AlarmTab \in Visible(pos)
    /\ Feed!Press(i)
    /\ IF tiles >= Threshold THEN OpenAlarm(i) ELSE UNCHANGED pageVars

\* A frame; the first one that shows the alarm page builds it.
Frame(p) ==
    /\ PageScroll(p)
    /\ IF AlarmTab \in Visible(p) /\ ~alive
         THEN Feed!Mount
         ELSE UNCHANGED feedVars

\* What the user does on the alarm page without turning the page.
ListUsed ==
    /\ AlarmTab \in Visible(pos)
    /\ Feed!ScrollNearEnd \/ \E f \in {"all", "priority"} : Feed!Select(f)
    /\ UNCHANGED pageVars

\* The builders and the timers of the list run on any page.
ListUpdated ==
    /\ \/ Feed!Build
       \/ Feed!LoadDone
       \/ \E left \in Feed!Left : Feed!LateLoadDone(left)
    /\ UNCHANGED pageVars

\* Presses that concern the pages alone.
PageTurned ==
    /\ (\E goal \in Tab : TurnTo(goal)) \/ BackToAlarms \/ ProfileShortcut
    /\ UNCHANGED feedVars

SignedOut ==
    /\ PagesDispose
    /\ IF alive THEN Feed!Dispose ELSE UNCHANGED feedVars

SignedIn == PagesMount /\ UNCHANGED feedVars

Next ==
    \/ \E i \in 1 .. tiles : TilePressed(i)
    \/ \E p \in Position : Frame(p)
    \/ ListUsed
    \/ ListUpdated
    \/ PageTurned
    \/ SignedOut
    \/ SignedIn

Spec == Init /\ [][Next]_vars

\* Frames are drawn; presses are the user's, and no load need complete.
FairSpec == Spec /\ WF_vars(\E p \in Position : Frame(p))

-----------------------------------------------------------------------------

\* The alarm on the watch page is on the list and marked as read there, also
\* after loads that completed late and for an alarm of an earlier session.
OpenedAlarmIsRead ==
    alarmToWatch => data \in 1 .. Len(alarms) /\ alarms[data]

\* A press on a tile brings its alarm on the screen, unless the user turns to
\* another page first or is signed out: the frames of the page that is built,
\* kept alive and rebuilt while its loads complete lead to the watch page, from
\* any position at which a tile can still be pressed.
OpenedAlarmIsShown ==
    alarmToWatch ~> ~mounted \/ ~alarmToWatch \/ pos = 2 * WatchTab
=============================================================================
