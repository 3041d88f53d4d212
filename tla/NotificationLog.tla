--------------------------- MODULE NotificationLog ---------------------------
(***************************************************************************)
(* What the notification page promises, without the bloc and its lists: a  *)
(* log of notifications that only grows and in which none becomes unread   *)
(* again, and a page that lists a beginning of that log, flags included.   *)
(***************************************************************************)
EXTENDS Integers, Sequences

CONSTANTS InitialAlarms,  \* length of the log at the start
          Batch           \* the most notifications that arrive together

VARIABLES log,    \* for each notification, whether it was read
          listed  \* the notifications the page lists; none while it is closed

vars == <<log, listed>>

Unread(n) == [i \in 1 .. n |-> FALSE]

Init ==
    /\ log = Unread(InitialAlarms)
    /\ listed = <<>>

\* Notifications arrive; the page may list them at once or later.
Arrive ==
    /\ \E n \in 1 .. Batch : log' = log \o Unread(n)
    /\ listed' \in {listed, log'}

\* A listed notification is opened.
Read(i) ==
    /\ log' = [log EXCEPT ![i] = TRUE]
    /\ listed' = [listed EXCEPT ![i] = TRUE]

\* The page is opened, or catches up with the log.
Show ==
    /\ listed' = log
    /\ UNCHANGED log

\* The page is closed.
Hide ==
    /\ listed' = <<>>
    /\ UNCHANGED log

Next ==
    \/ Arrive \/ Show \/ Hide
    \/ \E i \in 1 .. Len(listed) : Read(i)

Spec == Init /\ [][Next]_vars
=============================================================================
