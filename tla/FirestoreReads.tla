---------------------------- MODULE FirestoreReads ----------------------------
(***************************************************************************)
(* How the Firestore client of the application answers the `get`s of one   *)
(* document (ios/Pods/FirebaseFirestore/Firestore/core/src).               *)
(*                                                                         *)
(* A get is a listener that removes itself at its first event              *)
(* (api/document_reference.cc).  The listeners of the document share a     *)
(* view (core/event_manager.cc, core/view.cc) that waits for the server,   *)
(* unless OnlineStateTracker holds that the client is offline: then the    *)
(* cache answers.  The document is watched over a stream that RemoteStore  *)
(* starts, restarts and lets go idle (remote/remote_store.cc, stream.cc).  *)
(*                                                                         *)
(* The application adds gets to the worker queue; the worker raises events *)
(* to the user executor; the executor answers the get and adds its removal *)
(* to the worker queue.  Every action below is a task of one of the two.   *)
(***************************************************************************)
EXTENDS Integers, Sequences, FiniteSets, SequencesExt

CONSTANTS Get,                      \* the calls of get
          LastVersion,              \* bound: how often the document is written
          MaxFaults,                \* bound: streams that break
          MaxRestarts,              \* bound: restarts of the network
          kMaxWatchStreamFailures   \* 1 in online_state_tracker.cc

ASSUME FirestoreReadsAssumption ==
    /\ LastVersion \in Nat
    /\ MaxFaults \in Nat
    /\ MaxRestarts \in Nat
    /\ kMaxWatchStreamFailures \in Nat \ {0}

VARIABLES doc,         \* the version of the document; 0: there is none yet
          cache,       \* the version in the local store, or NoData
          tasks,       \* gets to be added and removed on the worker queue
          events,      \* events under way on the user executor
          answer,      \* per get: Asleep, Waiting, Failed or a version
          listeners,   \* the listeners of the query, oldest first
          raised,      \* the listeners that had their initial event
          synced,      \* the view of the query is in sync with the server
          stream,      \* state_ of the watch stream
          idle,        \* its idleness timer runs
          target,      \* the TargetState of the document in the aggregator
          requests,    \* watches and unwatches under way to the server
          responses,   \* messages under way to the client
          watched,     \* what the server has told of the document: see below
          online,      \* state_ of the OnlineStateTracker
          failures,    \* its watch_stream_failures_
          timer,       \* its online_state_timer_ runs
          faults,      \* history: streams that broke
          restarts,    \* history: restarts of the network
          since        \* history: doc when the view was made

app == <<tasks, events, answer>>
views == <<listeners, raised, synced>>
wire == <<stream, idle, target, requests, responses, watched>>
tracker == <<online, failures, timer>>
bounds == <<faults, restarts>>

vars == <<doc, cache, app, views, wire, tracker, bounds, since>>

Version == 0 .. LastVersion

\* Nothing is known of the document.
NoData == -1

\* Of an answer: not asked yet, asked, ended with an error.
Asleep == -4
Waiting == -3
Failed == -2

\* What the server does with the document on the stream: nothing, it has
\* accepted the watch, or it has told the document's version.
Unwatched == -2
Accepted == -1

NoTarget == [outstanding |-> 0, current |-> FALSE]

IsOpen == stream = "Open"

IsStarted == stream \in {"Starting", "Open", "Backoff"}

\* The document is one of listen_targets_.
Listened == listeners # <<>>

\* Mutant of IsActiveTarget: what is outstanding is not asked.
IsActiveTargetAnyway == Listened

\* The target can take messages: it is listened to and nothing that was sent
\* about it is unanswered.
IsActiveTarget == Listened /\ target.outstanding = 0

Init ==
    /\ doc \in {0, 1} \cap Version
    /\ cache \in NoData .. doc
    /\ tasks = <<>> /\ events = <<>> /\ answer = [g \in Get |-> Asleep]
    /\ listeners = <<>> /\ raised = {} /\ synced = FALSE
    /\ stream = "Initial" /\ idle = FALSE /\ target = NoTarget
    /\ requests = <<>> /\ responses = <<>> /\ watched = Unwatched
    /\ online = "Unknown" /\ failures = 0 /\ timer = FALSE
    /\ faults = 0 /\ restarts = 0 /\ since = NoData

-----------------------------------------------------------------------------
(* The events of the listeners. *)

\* The n-th of a set of positions.
Nth(places, n) ==
    CHOOSE i \in places : Cardinality({j \in places : j <= i}) = n

\* The listeners in set, in the order of the query's list.
Among(set) ==
    LET places == {i \in DOMAIN listeners : listeners[i] \in set}
    IN  [n \in 1 .. Cardinality(places) |-> listeners[Nth(places, n)]]

\* Events for the listeners in set.
Event(set, version, fromCache) ==
    [i \in DOMAIN Among(set) |->
        [get |-> Among(set)[i], version |-> version, fromCache |-> fromCache]]

\* SetAndBroadcast: on the way to Offline the view loses its sync, and the
\* listeners that still wait have the cached document raised.  Those that do
\* not wait any more are told of the lost sync.
SetAndBroadcast(state) ==
    /\ online' = state
    /\ IF state = "Offline" /\ online # "Offline"
       THEN /\ events' = events \o
                Event({g \in Get : synced \/ g \notin raised}, cache, TRUE)
            /\ raised' = raised \cup ToSet(listeners)
            /\ synced' = FALSE
       ELSE UNCHANGED <<events, raised, synced>>

\* UpdateState(state) for a state that is not Offline.
UpdateState(state) ==
    /\ online' = state
    /\ failures' = 0
    /\ timer' = FALSE

\* HandleWatchStreamStart.
HandleWatchStreamStart ==
    IF failures = 0
    THEN online' = "Unknown" /\ timer' = TRUE /\ UNCHANGED failures
    ELSE UNCHANGED tracker

-----------------------------------------------------------------------------
(* The application and the user executor. *)

\* The application calls get.
GetDocument(g) ==
    /\ answer[g] = Asleep
    /\ answer' = [answer EXCEPT ![g] = Waiting]
    /\ tasks' = Append(tasks, [op |-> "add", get |-> g])
    /\ UNCHANGED <<doc, cache, events, views, wire, tracker, bounds, since>>

\* Mutant of Dispatch: an event reaches a listener that was muted.
DispatchToMuted ==
    /\ events # <<>>
    /\ events' = Tail(events)
    /\ LET e == Head(events) IN
        /\ answer' = [answer EXCEPT ![e.get] =
                        IF e.version < 1 /\ e.fromCache THEN Failed
                                                        ELSE e.version]
        /\ tasks' = Append(tasks, [op |-> "remove", get |-> e.get])
    /\ UNCHANGED <<doc, cache, views, wire, tracker, bounds, since>>

\* ListenOnce::OnEvent, behind the AsyncEventListener: the first event mutes
\* and removes the listener and answers the get, with an error if all that is
\* known comes from the cache and is no document; later events are dropped.
Dispatch ==
    /\ events # <<>>
    /\ events' = Tail(events)
    /\ LET e == Head(events) IN
        IF answer[e.get] = Waiting
        THEN /\ answer' = [answer EXCEPT ![e.get] =
                    IF e.version < 1 /\ e.fromCache THEN Failed
                                                    ELSE e.version]
             /\ tasks' = Append(tasks, [op |-> "remove", get |-> e.get])
        ELSE UNCHANGED <<answer, tasks>>
    /\ UNCHANGED <<doc, cache, views, wire, tracker, bounds, since>>

-----------------------------------------------------------------------------
(* Listening and no longer listening. *)

\* Send a request about the document, whose answer is then outstanding.
Send(request) ==
    /\ requests' = Append(requests, request)
    /\ target' = [target EXCEPT !.outstanding = @ + 1]

\* AddQueryListener for the first listener: RemoteStore listens, and the new
\* view is made from the cache.
FirstListener(g) ==
    /\ since' = doc
    /\ CASE stream = "Initial" ->
                /\ stream' = "Starting" /\ target' = NoTarget
                /\ HandleWatchStreamStart
                /\ UNCHANGED <<idle, requests>>
         [] stream = "Error" ->
                /\ stream' = "Backoff" /\ target' = NoTarget
                /\ HandleWatchStreamStart
                /\ UNCHANGED <<idle, requests>>
         [] stream = "Open" ->
                /\ Send("watch")
                /\ idle' = FALSE
                /\ UNCHANGED <<stream, tracker>>
         [] OTHER -> UNCHANGED <<stream, idle, target, requests, tracker>>

\* AddQueryListener: a further listener shares the view of the first.  Its
\* initial event is raised now if the view is in sync or the client offline.
AddQueryListener(g) ==
    /\ listeners' = Append(listeners, g)
    /\ IF Listened
       THEN UNCHANGED <<stream, idle, target, requests, tracker, since>>
       ELSE FirstListener(g)
    /\ IF synced \/ online' = "Offline"
       THEN /\ events' = Append(events, [get |-> g, version |-> cache,
                                         fromCache |-> ~synced])
            /\ raised' = raised \cup {g}
       ELSE UNCHANGED <<events, raised>>
    /\ UNCHANGED <<doc, cache, answer, synced, responses, watched, bounds>>

\* StopListening: an open stream is told and goes idle.  One that is not open
\* is left alone, and the online state goes back to Unknown.
StopListening ==
    IF IsOpen
    THEN /\ Send("unwatch")
         /\ idle' = TRUE
         /\ UNCHANGED <<stream, tracker>>
    ELSE /\ UpdateState("Unknown")
         /\ UNCHANGED <<stream, idle, target, requests>>

\* RemoveQueryListener: the view goes with its last listener.
RemoveQueryListener(g) ==
    /\ listeners' = Among(Get \ {g})
    /\ raised' = raised \ {g}
    /\ IF listeners' = <<>>
       THEN StopListening /\ synced' = FALSE /\ since' = NoData
       ELSE UNCHANGED <<stream, idle, target, requests, tracker, synced, since>>
    /\ UNCHANGED <<doc, cache, answer, events, responses, watched, bounds>>

\* The worker queue runs the oldest call of the client.
RunTask ==
    /\ tasks # <<>>
    /\ tasks' = Tail(tasks)
    /\ LET t == Head(tasks) IN
        \/ t.op = "add" /\ AddQueryListener(t.get)
        \/ t.op = "remove" /\ RemoveQueryListener(t.get)

-----------------------------------------------------------------------------
(* The watch stream. *)

\* Mutant of Disconnected: the aggregator outlives its stream.
DisconnectedKeepingTarget ==
    /\ idle' = FALSE
    /\ UNCHANGED target
    /\ requests' = <<>>
    /\ responses' = <<>>
    /\ watched' = Unwatched

\* What was under way on a stream that has closed is lost, and the aggregator
\* goes with it.
Disconnected ==
    /\ idle' = FALSE
    /\ target' = NoTarget
    /\ requests' = <<>>
    /\ responses' = <<>>
    /\ watched' = Unwatched

\* The tokens have come: the stream opens, and sends the watch.
OnWatchStreamOpen ==
    /\ stream = "Starting"
    /\ stream' = "Open"
    /\ IF Listened THEN Send("watch") ELSE UNCHANGED <<requests, target>>
    /\ UNCHANGED <<doc, cache, app, views, idle, responses, watched, tracker,
                   bounds, since>>

\* Mutant of HandleWatchStreamFailure: the timer runs on.
HandleWatchStreamFailureKeepingTimer ==
    IF online = "Online"
    THEN /\ online' = "Unknown"
         /\ timer' = TRUE
         /\ UNCHANGED <<failures, events, raised, synced>>
    ELSE /\ failures' = IF failures < kMaxWatchStreamFailures
                        THEN failures + 1 ELSE failures
         /\ UNCHANGED timer
         /\ IF failures' = kMaxWatchStreamFailures
            THEN SetAndBroadcast("Offline")
            ELSE UNCHANGED <<online, events, raised, synced>>

\* HandleWatchStreamFailure, and HandleWatchStreamStart of the next attempt:
\* a client that was online has another ten seconds, any other is offline
\* after kMaxWatchStreamFailures attempts.
HandleWatchStreamFailure ==
    IF online = "Online"
    THEN /\ online' = "Unknown"
         /\ timer' = TRUE
         /\ UNCHANGED <<failures, events, raised, synced>>
    ELSE /\ failures' = IF failures < kMaxWatchStreamFailures
                        THEN failures + 1 ELSE failures
         /\ IF failures' = kMaxWatchStreamFailures
            THEN timer' = FALSE /\ SetAndBroadcast("Offline")
            ELSE UNCHANGED <<online, timer, events, raised, synced>>

\* Mutant of OnWatchStreamClose: nobody tries again.
OnWatchStreamCloseForGood ==
    /\ stream \in {"Starting", "Open"}
    /\ faults < MaxFaults
    /\ faults' = faults + 1
    /\ Disconnected
    /\ stream' = "Error"
    /\ UpdateState("Unknown")
    /\ UNCHANGED <<events, raised, synced>>
    /\ UNCHANGED <<doc, cache, tasks, answer, listeners, restarts, since>>

\* The stream breaks, or no token could be had for it.  It is tried again,
\* after a while, if a target is listened to.
OnWatchStreamClose ==
    /\ stream \in {"Starting", "Open"}
    /\ faults < MaxFaults
    /\ faults' = faults + 1
    /\ Disconnected
    /\ IF Listened
       THEN /\ stream' = "Backoff"
            /\ HandleWatchStreamFailure
       ELSE /\ stream' = "Error"
            /\ UpdateState("Unknown")
            /\ UNCHANGED <<events, raised, synced>>
    /\ UNCHANGED <<doc, cache, tasks, answer, listeners, restarts, since>>

\* The backoff has elapsed.
TryRestarting ==
    /\ stream = "Backoff"
    /\ stream' = "Starting"
    /\ UNCHANGED <<doc, cache, app, views, idle, target, requests, responses,
                   watched, tracker, bounds, since>>

\* The idleness timer: the stream stops itself.
IdleTimeout ==
    /\ idle
    /\ Disconnected
    /\ stream' = "Initial"
    /\ UpdateState("Unknown")
    /\ UNCHANGED <<doc, cache, app, views, bounds, since>>

\* RestartNetwork: the connectivity or the user's token has changed.
RestartNetwork ==
    /\ restarts < MaxRestarts
    /\ restarts' = restarts + 1
    /\ Disconnected
    /\ stream' = IF Listened THEN "Starting" ELSE "Initial"
    /\ online' = "Unknown"
    /\ failures' = 0
    /\ timer' = Listened
    /\ UNCHANGED <<doc, cache, app, views, faults, since>>

\* The online state timer: the backend did not respond within ten seconds.
OnlineStateTimeout ==
    /\ timer
    /\ timer' = FALSE
    /\ SetAndBroadcast("Offline")
    /\ UNCHANGED <<doc, cache, tasks, answer, listeners, wire, failures,
                   bounds, since>>

-----------------------------------------------------------------------------
(* Messages of the server: any of them makes the client Online. *)

\* The messages that answer a request lower what is outstanding; with the
\* removal of a target its state is forgotten.
HandleTargetAck(m) ==
    LET left == target.outstanding - 1 IN
    /\ target' = IF m.type = "removed" /\ left = 0
                 THEN NoTarget
                 ELSE [target EXCEPT !.outstanding = left]
    /\ UNCHANGED <<cache, events, raised, synced>>

\* The target is current: its next snapshot is in sync.
HandleTargetCurrent ==
    /\ target' = [target EXCEPT !.current = @ \/ IsActiveTarget]
    /\ UNCHANGED <<cache, events, raised, synced>>

\* RaiseWatchSnapshot: the document goes into the cache and the view, and the
\* view is in sync if the target is current.  A document that does not exist
\* is known to be missing from now on.
RaiseWatchSnapshot(v) ==
    /\ UNCHANGED target
    /\ IF IsActiveTarget
       THEN /\ cache' = IF v > cache THEN v ELSE cache
            /\ synced' = target.current
            /\ IF synced' # synced \/ cache' # cache
               THEN /\ events' = events \o
                        Event({g \in Get : synced' \/ g \in raised},
                              cache', ~synced')
                    /\ raised' = IF synced' THEN ToSet(listeners) ELSE raised
               ELSE UNCHANGED <<events, raised>>
       ELSE UNCHANGED <<cache, events, raised, synced>>

OnWatchStreamChange ==
    /\ responses # <<>>
    /\ responses' = Tail(responses)
    /\ UpdateState("Online")
    /\ LET m == Head(responses) IN
        \/ m.type \in {"added", "removed"} /\ HandleTargetAck(m)
        \/ m.type = "current" /\ HandleTargetCurrent
        \/ m.type = "snapshot" /\ RaiseWatchSnapshot(m.version)
    /\ UNCHANGED <<doc, tasks, answer, listeners, stream, idle, requests,
                   watched, bounds, since>>

-----------------------------------------------------------------------------
(* The server. *)

Message(type, v) == [type |-> type, version |-> v]

\* The server takes a request and confirms it.
ServerConfirms ==
    /\ requests # <<>>
    /\ requests' = Tail(requests)
    /\ \/ /\ Head(requests) = "watch"
          /\ responses' = Append(responses, Message("added", NoData))
          /\ watched' = Accepted
       \/ /\ Head(requests) = "unwatch"
          /\ responses' = Append(responses, Message("removed", NoData))
          /\ watched' = Unwatched
    /\ UNCHANGED <<doc, cache, app, views, stream, idle, target, tracker,
                   bounds, since>>

\* The server tells the document, at first and whenever it has changed.
ServerTells ==
    /\ watched \in Accepted .. doc - 1
    /\ watched' = doc
    /\ responses' = responses
            \o (IF watched = Accepted THEN <<Message("current", NoData)>>
                                      ELSE <<>>)
            \o <<Message("snapshot", doc)>>
    /\ UNCHANGED <<doc, cache, app, views, stream, idle, target, requests,
                   tracker, bounds, since>>

\* The document is written, by this device or another.
DocWritten ==
    /\ doc < LastVersion
    /\ doc' = doc + 1
    /\ UNCHANGED <<cache, app, views, wire, tracker, bounds, since>>

Next ==
    \/ \E g \in Get : GetDocument(g)
    \/ Dispatch
    \/ RunTask
    \/ OnWatchStreamOpen \/ OnWatchStreamClose \/ TryRestarting
    \/ IdleTimeout \/ RestartNetwork \/ OnlineStateTimeout
    \/ OnWatchStreamChange
    \/ ServerConfirms \/ ServerTells \/ DocWritten

Spec == Init /\ [][Next]_vars

\* The two queues run their tasks, the tokens come, the timers fire, and an
\* open stream brings messages or breaks.
FairSpec ==
    /\ Spec
    /\ WF_vars(Dispatch)
    /\ WF_vars(RunTask)
    /\ WF_vars(OnWatchStreamOpen \/ OnWatchStreamClose)
    /\ WF_vars(TryRestarting)
    /\ WF_vars(OnlineStateTimeout)
    /\ WF_vars(\/ ServerConfirms \/ ServerTells \/ OnWatchStreamChange
               \/ OnWatchStreamClose)

-----------------------------------------------------------------------------

\* The timers mean what their handlers assert when they fire: the online state
\* timer runs only for an attempt that is still undecided, the idleness
\* timer only on an open stream nobody needs.
TimersJustified ==
    /\ timer =>
        online = "Unknown" /\ failures < kMaxWatchStreamFailures /\ IsStarted
    /\ idle => IsOpen /\ ~Listened

Acks == {i \in DOMAIN responses : responses[i].type \in {"added", "removed"}}

\* The aggregator waits for as many acks as are under way, over every break
\* and restart of the stream: it neither drops messages of a watch the server
\* has confirmed nor takes those of an earlier one.
AcksMatch == target.outstanding = Len(requests) + Cardinality(Acks)

\* A view in sync shows no version older than the one the server had when the
\* view was made, although messages of an earlier watch are still under way.
SyncedIsFresh == synced => cache >= since

\* The outcome of a get is decided when its first event is raised.
Decided(g) == \E i \in DOMAIN events : events[i].get = g

FirstEvent(g) == events[CHOOSE i \in DOMAIN events :
    events[i].get = g /\ \A j \in 1 .. i - 1 : events[j].get # g]

Outcome == [g \in Get |->
    IF answer[g] = Waiting /\ Decided(g)
    THEN IF FirstEvent(g).version < 1 /\ FirstEvent(g).fromCache
         THEN Failed ELSE FirstEvent(g).version
    ELSE answer[g]]

Reads == INSTANCE DocumentReads WITH known <- cache, outcome <- Outcome

\* Every get ends once, with what the device knew when its event was raised,
\* whatever else was asked, raised again, lost or restarted meanwhile.
ImplementsReads == Reads!Spec

\* Every get ends, as long as streams do not break for ever.
GetsEnd == \A g \in Get : answer[g] = Waiting ~> answer[g] # Waiting

\* "To deal with stream attempts that don't succeed or fail in a timely
\* manner, we have a timeout for OnlineState to reach Online or Offline"
\* (online_state_tracker.cc:49): while a listener waits for an attempt and the
\* state is neither, the timer runs.
AttemptsAreTimed ==
    (online = "Unknown" /\ IsStarted /\ ToSet(listeners) \ raised # {})
        => timer
=============================================================================
