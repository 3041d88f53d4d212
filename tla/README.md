# A TLA+ model of the Facebook clone

The repository is a Flutter application (`lib/`, 39 Dart files) that imitates
the mobile Facebook client: a login page, a form for new accounts, and a main
page with six tabs, of which the notification list is the richest. There is no
server of its own: Firebase Auth keeps users, Firestore keeps a name for each.
State lives in *blocs*, objects whose fields are rxdart subjects, and in a few
plain fields; widgets rebuild from streams. Everything runs on one Dart thread,
but every `await`, timer and platform answer is a point at which other handlers
run, and no handler is ever cancelled.

The application rests on the Firestore client for iOS, whose C++ sources are
part of the repository (`ios/Pods/FirebaseFirestore/Firestore/core/src`). It
makes two calls of it: `get` of the user's document, on every build of two
pages, and `set` of the same document, when an account is created. What these
calls promise is decided in the client by queues, streams, timers and a
persistent queue of writes. Those two paths, together with the change of the
user that crosses both, are modelled as well.

## 1. Inventory

| component | state | operations | what makes it correct |
|---|---|---|---|
| **Bottom bar indicator**: `MainBloc` (`bloc/main_bloc.dart`) | `index`, `delay`, `target`; suspended calls of `animateIndicator` | `calDelay`, `animateIndicator`, `dispose` | rests under a tab asked for; under the last one when no transition overlaps; one tab at a time; every call ends; no division by zero |
| **Main page** (`ui/main_page.dart`, `ui/watch_page*.dart`) | `PageView` position, `target`, `alarmToWatch`, `data` | `_pageTransition` from bar, tile, watch page and menu; frames of the animation | bar, page and indicator agree on a target; pages travel toward it; the watch page shows the alarm opened |
| **Notification list**: `AlarmBloc` (`bloc/alarm_bloc.dart`), `AlarmPage`, global `alarms` | the global list; per bloc `_temp`, `_alarmLength`, `_isReads`, `_isEnd`, `_isLoading`, `_readMoreCount`; the tiles | `init`, `readMore`, the builders, tile press, filter buttons, `dispose` | lists indexed together stay backed; one load at a time; loads end; three copies of each flag behave as one |
| **Login form**: `LoginBloc`, `LoginPage`, `InputForm` | two controllers, their subjects, clear buttons, login button, indicator, sign-ins | tap, edit, submit, clear, tap outside, log in, answer | the login button follows the fields; the indicator follows the sign-ins |
| **Session**: `LoadingPage`, `NewAccountPage`, log-out in `MenuPage` | current user, announcements, stack of routes, calls of Firebase under way | sign-in, new account, name document, log-out, restart | page follows user; pops meet the right route; documents belong to their owner |
| **Menu page**: `MenuBloc`, `HiddenMenuButton` | three panels, each with copies of `showing`; scrolls due in 300 ms | toggle, delayed scroll, scroll-to-top | copies agree; no blind toggle; the list ends at the panel opened last, with room for what is open; every opening scrolls |
| **Profile page**: `ProfileBloc`; the name at the top of the menu | the name, from a `FutureBuilder` | build, ask, answer, publish | names never go back to an older document; every request ends |
| **Pure parts**: `AlarmTile._calculateDuration`, `CustomSliverAppBar` | none | age of an alarm; row of buttons | age near the truth, never shrinking where the unit changes |
| **Firestore client, reads**: `DocumentReference`, `EventManager`, `QueryListener`, `View`, `RemoteStore`, `Stream`, `OnlineStateTracker`, `WatchChangeAggregator` | worker queue and user executor; listeners and their view; watch stream, its backoff and idleness timer; acknowledgements outstanding; online state, its failures and timer; the cached document | get, listen, unlisten, events, open, close, backoff, idleness, ten-second timer, restart of the network, messages of the server | every get ends once, with what the device knew at its event; no stale message makes a view current; timers run only when their handlers may |
| **Firestore client, writes**: `SyncEngine`, `LocalStore`, `LevelDbMutationQueue`, `RemoteStore`, `WriteStream`, `FirebaseAuthCredentialsProvider` | queue of FIRAuth, main queue, worker queue; a mutation queue per user, kept on disk; pipeline of ten; write stream with its handshake and token; callbacks | set, change of the user, token, results, rejections, break, backoff, idleness, kill and restart | a write travels under its own user's token, in its order; a future tells what became of its own write; what is queued is delivered or refused |
| **Static pages, entry point, configuration** | none | | |

Interaction: `LoadingPage` swaps `LoginPage` and `MainPage` on announcements of
`authStateChanges`; `MainPage` owns `MainBloc` and hands `_pageTransition` to
its pages; a notification tile calls it with its alarm; `AlarmPage` is built
lazily by the `PageView`, kept alive, and shares the global `alarms` with every
later `AlarmPage`; log-out in the menu ends it all from the inside. The pages
that show the name call `get`, `NewAccountPage` calls `set`; a sign-in or
sign-out reaches the Firestore client over the main queue and makes it swap the
queue of writes and restart its streams.

Outside `lib/` and these parts of the client: `android`, `web`, `build`,
`firebase_bin`, the other pods and `packages/bottom_bar_page_transition-master`
are runners, build outputs and vendored packages; `test/widget_test.dart` is the
counter template and tests nothing of this application. The repository's README
describes pages by pictures.

*Finding.* `RemoteStore::StopListening` sets the online state to Unknown while
the watch stream is still starting or backing off, which clears the timer of ten
seconds (`remote_store.cc:187`). A listener added before that attempt is over
finds the stream started, so that nobody sets the timer again: its get waits as
long as the attempt takes, although `online_state_tracker.cc:47` to `49` says
that the state goes to Offline "rather than waiting indefinitely". The run
`firestore_get_timed` shows it with two gets; in the application, two builds of
the profile page during a failing connection do it. Every get still ends
(`GetsEnd`), since the attempt itself ends. What else the code does badly is
recorded in the hazards, in section 6 and in the comments of the properties.

## 2. Modules

| module | models | uses |
|---|---|---|
| `TabIndicator` | `MainBloc` as `_pageTransition` drives it | |
| `TabIndicatorProofs` | theorems about `TabIndicator` | TLAPS |
| `TabPages` | the pages' part of `_pageTransition`, the `PageView`, the watch page | |
| `TabSelection` | abstract: a selected tab, and a page that travels toward it | |
| `MainPage` | `TabPages` and `TabIndicator` under the real handlers | EXTENDS `TabPages`; INSTANCE `TabIndicator`, `TabSelection` |
| `MainPageProofs` | theorems about `MainPage`, the refinement of `TabSelection` included | INSTANCE `TabIndicatorProofs`; TLAPS |
| `AlarmFeed` | `AlarmBloc`, `AlarmPage`, the global `alarms` | |
| `NotificationLog` | abstract: an append-only log of read flags, and the part that is listed | |
| `AlarmFeedProofs` | theorems about `AlarmFeed`, the refinement of `NotificationLog` included | TLAPS |
| `NotificationFlow` | `TabPages` and `AlarmFeed` together: lazy building, opening an alarm, sign-out | EXTENDS `TabPages`; INSTANCE `AlarmFeed` |
| `NotificationFlowProofs` | theorems about `NotificationFlow`, that it implements `NotificationLog` included, and about `AlarmAge`, the age its tiles show | INSTANCE `AlarmFeedProofs`; TLAPS |
| `LoginForm` | `LoginBloc`, `LoginPage`, `InputForm` | |
| `Session` | `LoadingPage`, `NewAccountPage`, the calls of Firebase, log-out, restart | |
| `SessionProofs` | theorems about `Session` and its first page, `LoginForm` | TLAPS |
| `MenuPanels` | `MenuBloc`, the panels of `MenuPage`, `HiddenMenuButton` | |
| `DocumentReads` | abstract: gets that end once, with what the device knows | |
| `FirestoreReads` | the client's way of a get, down to the messages of the watch stream | INSTANCE `DocumentReads` |
| `FirestoreReadsProofs` | theorems about `FirestoreReads`, the refinement of `DocumentReads` included | TLAPS |
| `DocumentWrites` | abstract: writes that are kept until the server has decided, in order, and futures that end with the truth | |
| `FirestoreWrites` | the client's way of a set, over changes of the user and restarts | INSTANCE `DocumentWrites` |
| `FirestoreWritesProofs` | theorems about `FirestoreWrites`, the refinement of `DocumentWrites` included | TLAPS |
| `UserName` | the user's document on the profile page and the menu, `ProfileBloc` | INSTANCE `DocumentReads` |
| `MenuPageProofs` | theorems about `MenuPanels` and `UserName`, which share no variable | TLAPS |
| `AlarmAge` | `AlarmTile._calculateDuration`, and the tile that is built now and then | |
| `MC...` | instances for TLC | |

Operators whose comment begins with "Mutant of" are not part of the model: each
is a plausible bug in the definition that follows it, kept to show that the
properties notice it.

The modules meet in three places. `MainPage` joins pages and indicator under the
handlers of the code. `FirestoreReads` implements `DocumentReads`, and
`UserName` does not assume more of Firestore than `DocumentReads`, in whose steps
it is written. `Session` lets the write of a document wait on
the device over a restart, in the order of its user's writes and until that user
is signed in; `FirestoreWrites` is where this comes from (`WritesAreDurable`,
`InIssueOrder`, `OwnersToken`), and `DocumentWrites`, which it implements, says
it without queues, streams and tokens.

### Correspondence

*TabIndicator.* The variables `index`, `delay` and `target` are the subjects.
A suspended call of `animateIndicator` is a slot of `loops` with the tab it
wrote last (`at`, the loop variable) and its `goal`. `PageTransition(goal)` is
everything `_pageTransition` does to the bloc up to the first `await`, in order:
target, delay (`CalDelay` reads the index before it is written), first tab.
`Resume` is one turn of the loop. `Dispose`/`Mount` replace the bloc; a loop of
the old one becomes an *orphan*, whose next write throws on a closed subject.
Durations are abstracted: a loop may be resumed at any time.

*TabPages, MainPage.* `pos` is the position in half pages, since what the user
can press depends on which pages are partly visible. `PageScroll` moves it any
distance toward the last target (linear curve, late frames skip). `OpenAlarm`,
`BackToAlarms`, `ProfileShortcut`, `TurnTo` are the four callers of
`_pageTransition`; `MainPage` conjoins each with `Bar!PageTransition`.

*AlarmFeed.* An alarm is its `isRead` flag. `LoadDone` is the completion of
`readMore` on an open bloc, `LateLoadDone` on a closed one: there the first
`alarms.add` happens before `updateIsReads` throws, so one alarm of the batch
remains. Calls complete in the order in which they were made, because all of
them await the same two seconds; `EarlierCallsDone` is that fact. `Build` is a
frame: the builders copy `_isReads` to `_temp` and make a tile per alarm.

*NotificationFlow.* The first frame that shows the alarm page mounts it; a tile
of a long list marks its alarm and turns the page in one handler, a tile of a
list shorter than six only marks it; signing out disposes the page with
`MainPage`.

*LoginForm.* A text is empty or filled. `published` is what `_id` and `_pw` hold,
`"none"` before the listener first ran. The listener runs before `onTap` and
`onChanged`. `cleared` is history: a clear button was pressed since
`toggleLoginButton` last ran. Whether submitting one field moves the caret of
the other depends on focus traversal; both outcomes are allowed.

*Session.* `routes` is the navigator's stack, `"home"` being `LoadingPage`, whose
content is `home`. Every call of Firebase is an action that starts it and
actions that answer it. `creation` is the press on the button of
`NewAccountPage`: awaiting the account, then awaiting the document. A refused
account is logged and dropped, and the handler goes on (`AccountRefused`).
`DocumentWritten` pops the top of the stack, whatever it is. `Restart` keeps
what Firebase keeps; a sign-in, a sign-out, the creation of an account or the
write of a document that was cut off may have taken effect (`UserCutOff`,
`AccountCutOff`, `WriteCutOff`). A sign-out may also fail (`SignOutRefused`). It
follows the iOS build: there is no system back button.

*MenuPanels.* Whether a panel is open is kept in the button (`showing`), in its
arrow (`turned`) and in the bloc (`shown`); the handlers of a press write all
three, through callbacks the last two buttons are not given. `built` is the
snapshot of the `StreamBuilder` around "more": empty before its first event. All
delays last 300 ms, so `due` is served from its head. `scroll` is where the list
was last sent; `animateTo` replaces the scroll under way. Delays that end after
the page is gone find a controller without a list and move nothing, so `Dispose`
drops them.

*UserName.* A document is its version. `build` of either page asks for it, and
every press on a tab builds all pages that are alive. A `FutureBuilder` listens
to the newest request (`Awaited`) and keeps showing what it had meanwhile.
`Show` is the builder: the profile page publishes the name to `_userName` if the
document exists. A get ends as `DocumentReads` has it; its future completes some
time after (`Arrives`), and futures overtake each other on their way to Dart.

*FirestoreReads.* A document is its version, `0` for "does not exist", `NoData`
for "nothing known". An action is one task of the worker queue or of the user
executor. A get is a task that adds a listener and, once its event has come, a
task that removes it. `FirstListener` and `StopListening` are
`RemoteStore::Listen` and `StopListening` with what they do to stream and online
state; the four states of `Stream` are `stream`, a backoff included, and a stream
that closes loses what is under way (`Disconnected`). `target` is the
`TargetState` of `WatchChangeAggregator`: how many requests are unanswered, and
whether the server said "current". `RaiseWatchSnapshot` is the snapshot of the
aggregator, its way through the local store and the view, and the events it
raises. `SetAndBroadcast` is `OnlineStateTracker` with
`View::ApplyOnlineStateChange`: listeners that still wait get the cached
document. The server is external: it confirms requests in order and tells the
document at first and whenever it has changed.

*FirestoreWrites.* Three queues: FIRAuth (`authUser`, `asked`), the main queue
(`main`) with the credentials provider (`knownUser`, and `changed` for "the token
counter has moved on"), and the worker queue (`tasks`). `SetDocument` issues a
write as the user the main queue knows; `WriteMutations` queues it under the user
of the `SyncEngine`, whichever that is by then. A batch is an id with the write
it holds. `Filled` is `FillWritePipeline`. The close count of `Stream`, which
makes late callbacks void, is `Void`: whatever closes the stream makes the tokens
under way void (`Restarted`). `OnMutationResult` and `OnWriteRejected` end the
front of the pipeline, whatever the server meant. `Finish` is `NotifyUser` with
the removal of the batch, where the callback is found by the batch's id; ids
start anew after the last queued one (`LoadNextBatchId`), so that they come back.
`Crash` keeps queues and user. `log` keeps the first time the server applies a
write under a token, since sending it again is normal. `Held`, the writes in the
queues on disk, is what `DocumentWrites` calls the writes the device holds: the
client takes one in when the worker queue comes to it (`WriteMutations`), and a
write still on its way there is lost by a kill.

*AlarmAge.* `diff` is the whole hours since the alarm was posted, negative on a
device that lags. `CalculateDuration` follows the source with its roundings, and
gives the unit with the number. `shown` is what the last build wrote.

## 3. Runs

| run | instance | checks |
|---|---|---|
| `indicator` | 6 tabs, 100 ms, 2 overlapping calls, sessions unbounded; 339 k states | `TypeOK`, `RestsOnRequestedTab`, `SettlesOnTarget`, `SweepsTowardTarget`, `EveryLoopEnds` |
| `main_page` | 4 tabs, 2 alarms, 2 calls; 272 k states | `WatchShowsOpenedAlarm`, `AgreeAtRest`, `ImplementsSelection`, `ComesToRest` |
| `alarm_feed` | 2 alarms, batches of 2, 2 batches, 1 further load, 3 sessions; 799 k states | `ListBacked`, `EndIsHonest`, `GrowthBounded`, `ImplementsLog`, `LoadEnds` |
| `notification_flow` | 4 tabs, 2 sessions, 1 batch of 2; 305 k states | `OpenedAlarmIsRead`, `OpenedAlarmIsShown` |
| `login_form` | 2 sign-ins, 2 notices; 2397 states | `LoginButtonTellsForm`, `SpinnerMeansPending`, `SpinnerEnds` |
| `session` | 2 accounts, 1 name, 2 sign-ins, 1 sign-out, 2 announcements, 1 restart; 2.0 M states | `HomeStays`, `SuccessFreesScreen`, `OwnerWrites`, `HomeFollowsUser` |
| `menu_panels` | 3 scrolls due at once, presses unbounded; 24 k states | `LastOpenedWins`, `ScrollMakesRoom`, `OpeningScrolls` |
| `user_name` | 2 writes, 2 requests of each page; 24 k states | `NamesDoNotGoBack` |
| `alarm_age` | 420 hours, a device up to 2 hours behind; 14 k states | `AgeIsNear`, `AgeNeverShrinks` |
| `firestore_get` | 2 gets, 1 write, 2 broken streams, 1 restart of the network; 711 k states | `TimersJustified`, `AcksMatch`, `SyncedIsFresh`, `ImplementsReads`, `GetsEnd` |
| `firestore_get_timed` | 2 gets, 2 broken streams | `AttemptsAreTimed`, which TLC violates: see the finding |
| `firestore_set` | 2 users, 3 writes, 1 change of the user, 1 broken stream, 1 kill, a pipeline of 2; 669 k states | `OwnersToken`, `InIssueOrder`, `ImplementsWrites`, `NoWriteLeftBehind`, `WritesAreDurable`, `WritesEnd` |

All of them pass but `firestore_get_timed`, which is there to fail. What they
show, in words:

* Presses during an animation never leave the indicator under a tab nobody
  asked for, and a press that overlaps none puts it under its target. After an
  overlapped burst the indicator may rest under an *earlier* choice of the burst:
  the code cancels nothing, and `RestsOnRequestedTab` is the strongest statement
  that is true.
* The page always travels toward the highlighted tab, and arrives. When frames
  and timers are over, the indicator is under the page (`AgreeAtRest`), with the
  same exception.
* A pressed notification is read in the global list and comes on the screen,
  unless the user turns elsewhere or is signed out before the page is there.
* The notification list stays consistent although closed pages go on loading
  into the global list. It depends on the order of completions: without
  `EarlierCallsDone` TLC finds `alarmLength` beyond the published flags, which
  in the code is a `RangeError` in the builder.
* The login button is wrong only between a clear button and the next edit; the
  indicator never spins for nothing, but the first refusal stops it for all
  overlapping sign-ins.
* A creation of an account that succeeds gives the screen back unless a sign-in
  of the page below was under way: its notice may be popped instead of the
  progress dialog.
* The offsets of the menu are read when a delay ends and not when it starts,
  which is why the list has room for panels opened or closed in between; a panel
  that was closed within its 300 ms is still scrolled to.
* A name on the screen never becomes older, because a page drops the answers it
  no longer awaits: with `ArrivesAnyway` in the place of `Arrives` TLC finds the
  heading go back.
* The age of a tile is off by at most half a unit when it is written, and at the
  switches of unit (24 hours, 7 rounded days) it does not shrink.
* A get ends once, with the document the device knew when its first event was
  raised. The counting of acknowledgements is what makes it fresh: with
  `IsActiveTargetAnyway` a "current" of an earlier watch of the same document
  makes a new view claim to be in sync with a version from before it was made.
* A write never reaches the server under another user's token. Two guards do
  it, each necessary: the token counter of the credentials provider catches a
  token that was read before the change of the user, the close count of the
  stream one that was on its way to the worker queue. A future ends with the
  truth although messages carry no names, because the pipeline is emptied
  whenever the stream restarts. A write survives a kill, is applied in order and
  leaves the queue only with the server's word; its future does not survive.
  `ImplementsWrites` is all of this in one specification, `DocumentWrites`.

### Bounds

* `Loops`, `Calls`, `MaxOuts`: two actors that overlap show every pairwise
  interleaving; further ones only repeat the pattern (the theorems on the
  indicator hold for any set of loops, those on the main page for any number of
  tabs).
* Lists: batch, threshold and initial length are constants; two instead of five
  and six keep "first of a batch" apart from "all of it", and the threshold
  equal to the initial length as in the application. In `notification_flow`
  `Alarms` is as large as the list can become.
* `Retries` bounds loads after the last batch (the code allows any number; each
  only decrements the counter further). `MaxSessions` bounds mounted pages.
* `MaxNotices`, `MaxEvents`, `MaxStarts`, `MaxDue` bound a stack, two queues and a
  counter. Three scrolls let one panel be opened, closed and opened again while
  the scroll to the other waits.
  A step that would exceed a bound is disabled, never altered.
* `LastVersion`, `MaxRequests`: with two requests one can be overtaken, and with
  two writes an older and a newer document exist next to none.
* `Horizon`, `Behind`: 420 hours pass both switches of unit and the first
  rounding in weeks; two hours behind make the first age negative.
* `Get`, `LastVersion`, `MaxFaults`, `MaxRestarts` of `FirestoreReads`: two gets
  share a view, follow each other or meet the other's unlisten; with one write a
  version can be stale; the second broken stream makes the client offline after
  the first made it unsure; the restart of the network covers a change of the
  user. `kMaxWatchStreamFailures` is the code's.
* `FirestoreWrites`: with a pipeline of two (ten in the code), the third write
  waits in the queue; two writes of one user have an order that a third, of
  another user or after a restart, can break. One change of the user, one break
  and one kill can come in any order, before, between and after each step of a
  token and of a message, and each can make the other's answer late. `log` leaves out
  repetitions, so that the server's answers need no bound.
* No run uses symmetry: liveness is checked in most of them.
* `alarm_feed`, `user_name`, `firestore_get`, `firestore_set`: no deadlock check,
  since after the last bounded session, request or write nothing can happen.
  `session`: none either,
  because the code can really stop: without a user, a refused account leaves a
  progress dialog without a button on the screen (`new_account_page.dart:102`),
  and only a restart, which is bounded, helps.

### Fairness

Weak fairness is assumed of what runs without the user: timers (`Resume`,
`Timer`, `LoadDone`, `LateLoadDone`, `DelayedScroll`), frames (`Scroll`, and
`Frame` in `NotificationFlow`),
announcements (`AuthEvent`) and answers to sign-ins, which the SDK completes at
the latest with an error. The user is never forced. Nothing is assumed of the
answers to the creation of an account or of its document, which may stay out for
ever while the device is offline.

In the Firestore client the queues run their tasks (`Dispatch`, `RunTask`,
`MainQueue`), tokens come, backoffs and the online state timer end, and an open
or starting stream does something: it brings a message, opens or breaks. The last
is an assumption about gRPC, whose keepalive breaks a connection that is dead.
Restarts, changes of the user, kills and the idleness timer are never forced.
`GetsEnd` and `WritesEnd` hold because faults are bounded; a client without a
connection ends its gets from the cache but keeps its
writes in the queue on disk.

## 4. Proofs

The eight modules of proofs are checked by TLAPS for every value of the constants
that satisfies the named assumptions: `TabsAssumption` and `DurationAssumption`,
`PagesAssumption`, `BarAssumption`, `FeedAssumption`, `FlowAssumption`, `LoginAssumption`,
`SessionAssumption`, `MaxDueAssumption`, `UserNameAssumption`,
`AlarmAgeAssumption`, `FirestoreReadsAssumption`, `FirestoreWritesAssumption`.
They say that bounds are numbers, that the application's sizes are not zero and
that "nobody" is not a user; `FlowAssumption` adds that the alarm tab is not the
first one, which a new `PageView` shows (it is the fifth). TLC evaluates them in
every run. Type invariants that say nothing more are not checked by runs, but
proved where a proof needs them.

Every invariant and every action property a passing run checks is also proved,
and so are the four refinements: of the selection, of the log of notifications
(by the list alone and by the whole main page), of gets and of sets. Only
liveness is left to TLC.

*Indicator.* `RestsOnRequestedTab` is not inductive: a loop that is suspended
must be known to lie between tabs that were asked for. The invariant adds that
every waiting loop's goal was requested, that while loops wait the index was
written by one of them, and that without overlap there is at most one waiting
loop, its goal the target and its tab the index. `SettlesOnTarget`,
`SweepsTowardTarget` and the type invariant follow; the bound on delays uses
`Duration >= Tabs`, which keeps the rounded quotient positive.

*Main page.* `AgreeAtRest` joins the two halves of a transition. The invariant of
the indicator is taken over through an instance of its module of proofs, since
every handler is one of its steps (`IndicatorSteps`); it says where the indicator
rests relative to the target, and the range of the target, where the page does.
`ImplementsSelection` needs the ranges of position and target,
and that rounding half pages to pages is monotonic (`PageOf`, `PageTravels`): a
frame that brings the position closer to `2 * target` moves the page on the
screen toward the target or not at all.

*Session.* The argument is about the stack. `Stack` says that "home" is at the
bottom and nowhere else, and that only notices are above a progress dialog;
`Pending`, that a creation under way has its dialog in the stack. From there, the
form stays as it was at the press (it is edited only on top), so that the name
that is written is not empty; and if no sign-in of the page below was under way,
no notice can come, so that the dialog is on top when the handler pops. If
nothing at all was under way, nobody but the creation changes the user, which is
`OwnerWrites`. `HomeStays` alone is not inductive, nor is the type invariant:
both need `Pending`.

*Login form.* `FormInv` adds two facts to the types. What the bloc has published
of a field is its text, or nothing if the field was never touched
(`TextsPublished`); the clear button keeps this, since it empties the controller
and the published copy together. And the login button is off while a field is
untouched (`Undecided`). `LoginButtonTellsForm` follows at each
`toggleLoginButton`, which reads what was published before it. It excepts the
time after a clear (`cleared`): the clear button does not call
`toggleLoginButton`, so the login button is that of the old text until the next
call. `SpinnerMeansPending` needs only the order within the handlers: a sign-in
is under way before the indicator is shown, and once one was accepted the page
is on its way out.

*Firestore's reads.* `ReadsInv` holds the four properties together with what
they rest on. `Closed`: a stream that is not open has nothing under way.
`AcksMatch`: the aggregator's count is the requests unanswered, on their way out
or back. `SnapshotsAreFresh` is the heart of it: a snapshot under way with no
acknowledgement behind it and no request on its way out is the one that would be
taken, and its version is not older than what the device knew when the view was
made. A listen adds a request, so that every older snapshot becomes unanswered; an
answer on its way leaves the server with the newest version; a stream that breaks
takes all of it along, and the count with it. `SyncedIsFresh` follows.
`ClientImplementsReads` takes each action to a step of `DocumentReads`; a get that
ends needs `Asked`, that whatever is under way for a get belongs to one that was
asked for and has not been asked for again. Positions in sequences that change
length are followed with the least-number principle (`LeastNumber`), which is
drawn from the library's well-founded orders, so that no induction is needed.

`GetsAreMonotonic` says what the refinement means to a page that gets the
document twice: of two gets, the one that ends later brings no older version, and
neither ends twice. It is proved of the client but argued in `DocumentReads`
alone: no get has ended with a version the device does not know (`OutcomesKnown`),
and the device forgets nothing.

*Firestore's writes.* `OwnersToken` is proved along the three queues. `InOrder`
says that the changes of the user in the worker queue lead from `user` to
`knownUser`, and that a write or token in it belongs to the user the queue has
led to by its position (`At`); so it belongs to the current user when its turn
comes. `Announced` says the same of the main queue and `authUser`, except that a
token may be of another user if a change comes before it, since then the token
counter will have moved on when its turn comes. `TokenOnce` says that one token
at most is under way, and only for a stream that is starting. From this
(`QueueInv`) the second half follows (`WireInv`): queues and pipeline hold writes
of their users, an open stream carries the current user's token, and what is
under way are the handshake, then writes of that user, never more messages than
the pipeline has batches. A change of the user restarts the stream, so that none
of it is left for the next one.

The other four properties of writes rest on `StreamFits` and `DeliveryInv`, which
say how the places a write passes continue one another. Worker queue
(`TasksFollow`), user's queue (`QueuesAscend`), and log (`LogAscends`) ascend in
the order of issue; every write that waits comes after those that went ahead,
except that a queued write may already be in the log, when its result was lost.
The pipeline is the front of the user's queue (`Window`), after every change of
either: `FilledIsWindow` shows it of `FillWritePipeline`, whose search for the
last batch by its id is right because ids ascend, and `LoadNextBatchIdIs` that
ids still ascend after a restart. `AnswersFit` says that the answers under way
are about the front of the pipeline, one after the other, and the requests about
the rest of it. So the first answer is about the first batch of the queue: the
server did apply or refuse that write (`HonestOutcomes`), and it is the only one
that leaves its queue (`WritesAreDurable`). A future is still there to be told as
long as nothing was killed (`CallbacksWait`); the batch's id finds it, since ids
in one queue differ. When the server applies a write for the first time, what it
applied before for this user comes before it, because of `LogAscends`
(`InIssueOrder`). `NoWriteLeftBehind` counts the tokens: `TokenOnce` says at most
one, `StreamFits` at least one for a stream that is starting.

`ClientImplementsWrites` puts these results together. The writes the device holds
are those of the queues on disk, so that each action must be seen to move at most
one of them: `QueuedMore` for the action that queues a write, `QueuedLess` for
those that take the front off. A write is held after all that is held or
applied already, of any user, because the worker queue is in the order of issue; the
first that leaves is the earliest of its user, by `Window` and `QueuesAscend`.
`Decisions` adds what the abstract specification says of outcomes and the
delivery invariant does not: a write whose future has ended is in no queue and
will not be queued again. Without it a batch id given out a second time could
end a future twice. `OutcomesAreFinal` follows from the refinement.
`HonestOutcomes` is a conjunct of `DeliveryInv`, proved as `OutcomesAreHonest`;
TLC checks it as a part of `ImplementsWrites`.

*Notification list.* The invariant `FeedInv` says that what is published is a
copy of a beginning of the global list, that tiles do not exceed it, and that
from the first completed load of a session on it is a copy of all of it,
because no call of an earlier session is left (`CaughtUp`). `ListBacked`,
`OneLoadAtATime`, `EndIsHonest` follow from it; `GrowthBounded` needs one more
conjunct that counts what suspended loads may still add; `ImplementsLog` is
proved step by step from it: each action is a step of `NotificationLog` or a
stutter.

*Notification flow.* The alarm page is a part of the main page. The lemmas about
`AlarmFeed` are taken over as they are, through an instance of its module of
proofs in which the page is mounted when it is alive; `FlowInv` is their invariant
with the property. `OpenedAlarmIsRead` needs the list, since a tile that is
pressed must be a tile of an alarm that exists, and that no load, of this page or
of a closed one, takes a mark back (`StayRead`).

A tile, the first frame that shows the page, and a sign-out each take a step of
`AlarmFeed`, and nothing else touches the list (`StepsOfList`). So what is proved
of the list by itself is true of it in its place: `FlowImplementsLog` says that
the notifications of the whole main page are one log over all its sessions.

*Menu.* The invariant adds `NewestIsLast` to `CopiesAgree`: while scrolls are
due, the last of them is to the panel opened last. `LastOpenedWins` is that fact
at the step that serves the last one. `ScrollMakesRoom` rests on a lemma about
the two tables of offsets: each grows with every panel that is open.

*Name.* `NamesDoNotGoBack` needs the whole way of a document: the heading is not
newer than what the device knows, the device knows no more than was written, and
no answer that is still awaited is older than what its page shows (`Behind`). The
last holds because a page drops the answers it no longer awaits: a get that has
not ended yet will end with what the device knows by then, and all that is shown
was known before.

*Age.* `Hours(CalculateDuration(d))` is monotonic in `d` and within half a unit
of it, both by cases on the units; the invariant `WrittenBefore` says that the
tile shows the age of some earlier hour.

Only model-checked are the liveness properties (`EveryLoopEnds`, `ComesToRest`,
`LoadEnds`, `SpinnerEnds`, `HomeFollowsUser`, `OpeningScrolls`, `GetsEnd`,
`WritesEnd`, `OpenedAlarmIsShown`): they follow from fairness, which the prover can state but not use,
as `ENABLED` is out of its reach. `AttemptsAreTimed`, the property of the failing
run, is not a theorem of the model, as the run shows. Sizes of sets and sequences
appear in the properties only where the library's facts about intervals,
singletons and images suffice; nothing is proved by induction over data.

## 5. Plan

Done, in this order: indicator, pages, main page, notification list with its
abstract log, notification flow, login form, session, menu panels, user's name,
age of an alarm; the Firestore client's reads with `DocumentReads`, on which the
user's name now stands, and its writes with `DocumentWrites`; theorems on all of
them, for every property of safety and every refinement. What would come next:

1. Application: `Session` with `MainPage` and `LoginForm` as its pages, showing
   that mounting and disposal in these modules are what `Session` does, that the
   target of `MainPage` is what `MenuPanels` is told as `isOnScreen`, and that
   its presses are the `TabPressed` of `UserName`.
2. The overlay: a get of a document whose own write is still queued, which joins
   `FirestoreReads` and `FirestoreWrites`.
3. `Session` on top of `DocumentWrites`, as `UserName` is on top of
   `DocumentReads`: the document of a new account would be a write that is
   issued, held and finished.

## 6. Not modelled, and why

* The app bar: stateless, a row of at most two buttons.
* The buttons of menu and profile that have an empty handler.
* Layout: heights, colours, images, wording, and the scroll offsets published
  for the shadow of the app bar.
* `refresh()` of the blocs: waits two seconds and logs.
* Scroll-to-top of the notification list and of the profile page: nothing there
  depends on the offset (in `MenuPanels` it is `StatusBarPressed`).
* Android's back button, and focus traversal beyond its effect on the subjects.
* Firebase Auth and the servers: they answer with success or an error, at any
  time. How a token is fetched is left out; that it is read from the user of the
  moment and arrives later is not.
* Of the client's reads: targets the server rejects (`ProcessTargetError`),
  limbo resolution and existence filters, which one document without a query
  hardly meets; queries of collections; the overlay of the device's own pending
  writes; a server that ends a stream somebody needs without an error.
* Of the client's writes: App Check tokens, stream tokens and a handshake the
  server refuses, errors of the disk, transactions, other devices that write the
  same document. `OnStreamStart` is merged into `ResumeStartWithCredentials`: no
  task runs in between. Ending a future and removing its batch are one step with
  respect to a kill: after a kill in between nobody is left who awaited the future,
  and the batch is sent again, like one whose result was lost. Requests sent on a stream that has closed do not reach
  the server in the model; in reality they may, which a retry shows all the same.
* Dart's `currentUser`: writes use the user the main queue of the device knows.
  Dart may lag behind that by one message of the plugin.
* The rest of `ios/Pods`: gRPC, BoringSSL, abseil, LevelDB, nanopb and generated
  tables are libraries under the client, in which nothing is the application's.
  They are most of the repository's lines, and the reason why the models stand for
  a small share of it.
* Behaviours the code has and no property can praise: the stuck progress dialog,
  the document of a signed-in user that a refused creation overwrites, a late
  sign-in that replaces the user (`OwnerWrites` permits the first and exempts
  calls that were under way at the press), an account without a document after a
  crash, and a `MainPage` that is not rebuilt when one user directly replaces
  another. Each is listed as a hazard.
