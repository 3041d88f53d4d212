------------------------------- MODULE UserName -------------------------------
(***************************************************************************)
(* The name of the user, on the profile page (lib/ui/profile_page.dart     *)
(* with its ProfileBloc) and at the top of the menu (lib/ui/menu_page.dart).*)
(*                                                                         *)
(* Both pages get the document of the user inside `build`, so every press  *)
(* on a tab asks again on each page that is alive, and the FutureBuilder   *)
(* listens to the last request only; meanwhile it keeps what it showed.    *)
(* The builder of the profile page also publishes the name, for the        *)
(* heading below the pictures.                                             *)
(*                                                                         *)
(* A get behaves as DocumentReads has it, which FirestoreReads implements; *)
(* its future tells the page some time after it has ended.                 *)
(***************************************************************************)
EXTENDS Integers

CONSTANTS LastVersion,  \* bound: how often the document is written
          MaxRequests   \* bound: requests of a page

ASSUME UserNameAssumption ==
    /\ LastVersion \in Nat
    /\ MaxRequests \in Nat \ {0}

VARIABLES doc,         \* version of the document; 0: there is none yet
          known,       \* the version the device knows
          outcome,     \* per request: how it ended, see DocumentReads
          told,        \* the requests whose futures have completed
          alive,       \* the pages that were built; they are kept alive
          request,     \* per page: number of the request it listens to
          connection,  \* per page: ConnectionState of the snapshot
          title,       \* per page: version in the snapshot, NoData or Failed
          heading      \* _userName of the ProfileBloc

reads == <<doc, known, outcome>>
nameVars == <<reads, told, alive, request, connection, title, heading>>

Page == {"profile", "menu"}

Version == 0 .. LastVersion

Request == Page \X (1 .. MaxRequests)

Reads == INSTANCE DocumentReads WITH Get <- Request

\* Of the snapshot or the subject: nothing came so far.
NoData == -1

\* Of the snapshot: it has an error, and no data.
Failed == Reads!Failed

\* The request has ended and its future has yet to complete.
Ended(r) == outcome[r] \in Version \cup {Failed} /\ r \notin told

\* The page still listens to the request.
Awaited(r) == request[r[1]] = r[2]

-----------------------------------------------------------------------------

NameInit ==
    /\ Reads!Init
    /\ told = {}
    /\ alive = {}
    /\ request = [p \in Page |-> 0]
    /\ connection = [p \in Page |-> "none"]
    /\ title = [p \in Page |-> NoData]
    /\ heading = NoData

\* `build` of the pages in set: each gets the document and listens to that.
Ask(pages) ==
    /\ \A p \in pages : request[p] < MaxRequests
    /\ request' = [p \in Page |-> IF p \in pages THEN request[p] + 1
                                                  ELSE request[p]]
    /\ connection' = [p \in Page |-> IF p \in pages THEN "waiting"
                                                     ELSE connection[p]]
    /\ Reads!Ask({<<p, request[p] + 1>> : p \in pages})
    /\ UNCHANGED <<told, title, heading>>

\* A page comes into view for the first time and is built.
PageBuilt(p) ==
    /\ p \notin alive
    /\ alive' = alive \cup {p}
    /\ Ask({p})

\* A press on any tab: the main page builds its PageView again, and with it
\* every page that is alive.
TabPressed ==
    /\ alive # {}
    /\ Ask(alive)
    /\ UNCHANGED alive

\* The snapshot has the document.  If it exists, the builder of the profile
\* page publishes the name.
Show(p, v) ==
    /\ title' = [title EXCEPT ![p] = v]
    /\ connection' = [connection EXCEPT ![p] = "done"]
    /\ heading' = IF p = "profile" /\ v >= 1 THEN v ELSE heading

\* Mutant of Arrives: every answer reaches the page, whichever it awaits.
ArrivesAnyway(r) ==
    /\ Ended(r)
    /\ told' = told \cup {r}
    /\ Show(r[1], outcome[r])
    /\ UNCHANGED <<reads, alive, request>>

\* The future of a request completes, with the document or with an error.  The
\* page drops it if it has asked again since.
Arrives(r) ==
    /\ Ended(r)
    /\ told' = told \cup {r}
    /\ \/ Awaited(r) /\ Show(r[1], outcome[r])
       \/ ~Awaited(r) /\ UNCHANGED <<connection, title, heading>>
    /\ UNCHANGED <<reads, alive, request>>

\* Requests end.
GetsEnd ==
    /\ \E ending \in SUBSET Request : Reads!Learn(ending)
    /\ UNCHANGED <<told, alive, request, connection, title, heading>>

\* The document is written: by NewAccountPage, later by whoever keeps it.
DocWritten ==
    /\ Reads!Write
    /\ UNCHANGED <<told, alive, request, connection, title, heading>>

NameNext ==
    \/ \E p \in Page : PageBuilt(p)
    \/ TabPressed
    \/ \E r \in Request : Arrives(r)
    \/ GetsEnd
    \/ DocWritten

NameSpec == NameInit /\ [][NameNext]_nameVars

-----------------------------------------------------------------------------

\* The types of the variables.
NameTypeOK ==
    /\ doc \in Version
    /\ known \in Version \cup {NoData}
    /\ outcome \in [Request -> Version \cup {Reads!Asleep, Reads!Waiting, Failed}]
    /\ told \subseteq Request
    /\ alive \subseteq Page
    /\ request \in [Page -> 0 .. MaxRequests]
    /\ connection \in [Page -> {"none", "waiting", "done"}]
    /\ title \in [Page -> Version \cup {NoData, Failed}]
    /\ heading \in (Version \ {0}) \cup {NoData}

\* A step leaves no page with an older version than it had, nor the heading.
NoOlderName ==
    /\ \A p \in Page : title[p] >= 0 => title'[p] \notin -1 .. title[p] - 1
    /\ heading' >= heading

\* The name on a page and the heading never go back to an older document,
\* although futures overtake each other, some answers come from the cache and
\* the page goes through errors in between.
NamesDoNotGoBack == [][NoOlderName]_nameVars
=============================================================================
