---------------------------- MODULE FirestoreWrites ----------------------------
(***************************************************************************)
(* How the Firestore client of the application delivers what it `set`s     *)
(* (ios/Pods/FirebaseFirestore/Firestore/core/src), while users sign in    *)
(* and out, the connection breaks and the application is killed.           *)
(*                                                                         *)
(* A write is put into the persistent queue of the user (local/), and      *)
(* RemoteStore sends the first ones in a pipeline, over a stream that      *)
(* authenticates with a token of FirebaseAuth and starts with a handshake. *)
(* A result carries no name: it belongs to the front of the pipeline.      *)
(*                                                                         *)
(* FirebaseAuth changes its user on a queue of its own and tells the main  *)
(* queue, which tells the worker queue; a token takes the same way.  The   *)
(* document is written with the user the main queue knows.                 *)
(***************************************************************************)
EXTENDS Integers, Sequences, FiniteSets, SequencesExt

CONSTANTS User,               \* the users that sign in
          NoUser,             \* nobody is signed in
          MaxWrites,          \* bound: calls of set
          MaxSwitches,        \* bound: changes of the user or of the token
          MaxFaults,          \* bound: streams that break
          MaxCrashes,         \* bound: how often the application is killed
          kMaxPendingWrites   \* 10 in remote_store.cc

ASSUME FirestoreWritesAssumption ==
    /\ NoUser \notin User
    /\ kMaxPendingWrites \in Nat \ {0}
    /\ {MaxWrites, MaxSwitches, MaxFaults, MaxCrashes} \subseteq Nat

VARIABLES author,      \* the users of the writes issued so far, in their order
          outcome,     \* per write: what its future ended with, or "none"
          refused,     \* the writes the server does not permit
          log,         \* what the server applied: writes with their tokens
          authUser,    \* _currentUser of FIRAuth; survives the application
          asked,       \* requests for a token at FIRAuth: whether the user was
                       \* read, who it was, and whether the token counter has
                       \* moved on since
          main,        \* the main queue: changes of the user, and tokens
          knownUser,   \* current_user of the credentials provider
          tasks,       \* the worker queue
          user,        \* current_user_ of the SyncEngine
          queue,       \* per user: its mutation queue; survives as well
          nextId,      \* next_batch_id_ of the user's mutation queue
          callbacks,   \* mutation_callbacks_, per user
          pipeline,    \* write_pipeline_
          stream,      \* state_ of the write stream
          handshake,   \* handshake_complete_
          token,       \* the user whose token the stream carries
          idle,        \* its idleness timer runs
          requests,    \* under way to the server
          responses,   \* under way to the client
          bounds       \* history: how often the bounded actions happened

auth == <<authUser, asked, main, knownUser>>
local == <<user, queue, nextId, callbacks>>
wire == <<pipeline, stream, handshake, token, idle, requests, responses>>
server == <<refused, log>>

vars == <<author, outcome, server, auth, tasks, local, wire, bounds>>

Write == 1 .. MaxWrites

Owner == User \cup {NoUser}

ToSend(sequence) == [i \in DOMAIN sequence |-> sequence[i].write]

Handshake == 0

Smaller(a, b) == IF a < b THEN a ELSE b

Init ==
    /\ author = <<>> /\ outcome = [w \in Write |-> "none"]
    /\ refused \in SUBSET Write /\ log = <<>>
    /\ authUser \in Owner /\ asked = {} /\ main = <<>> /\ knownUser = authUser
    /\ tasks = <<>>
    /\ user = authUser /\ queue = [u \in Owner |-> <<>>]
    /\ nextId = 1 /\ callbacks = [u \in Owner |-> {}]
    /\ pipeline = <<>> /\ stream = "Initial" /\ handshake = FALSE
    /\ token = NoUser /\ idle = FALSE /\ requests = <<>> /\ responses = <<>>
    /\ bounds = [switches |-> 0, faults |-> 0, crashes |-> 0]

-----------------------------------------------------------------------------
(* Users and tokens. *)

\* Somebody signs in or out, or the token is refreshed: the main queue is told.
UserChanges(u) ==
    /\ bounds.switches < MaxSwitches
    /\ bounds' = [bounds EXCEPT !.switches = @ + 1]
    /\ authUser' = u
    /\ main' = Append(main, [op |-> "user", user |-> u])
    /\ UNCHANGED <<author, outcome, server, asked, knownUser, tasks, local,
                   wire>>

\* A request for a token on the queue of FIRAuth, before the user was read.
Request == [read |-> FALSE, user |-> NoUser, changed |-> FALSE]

\* FIRAuth reads its user for a token.
TokenRead(r) ==
    /\ r \in asked /\ ~r.read
    /\ asked' = (asked \ {r}) \cup
            {[r EXCEPT !.read = TRUE, !.user = authUser]}
    /\ UNCHANGED <<author, outcome, server, authUser, main, knownUser, tasks,
                   local, wire, bounds>>

\* The token of that user is there, refreshed if need be: the main queue is
\* told.
TokenComes(r) ==
    /\ r \in asked /\ r.read
    /\ asked' = asked \ {r}
    /\ main' = Append(main, [op |-> "token", user |-> r.user,
                             changed |-> r.changed])
    /\ UNCHANGED <<author, outcome, server, authUser, knownUser, tasks, local,
                   wire, bounds>>

\* The token counter has moved on since the request for t.
Changed(t) == IF t.op = "token" THEN [t EXCEPT !.changed = TRUE] ELSE t

\* The provider is told of the user: its token counter moves on, and the worker
\* queue is told.
UserToldOn(u) ==
    /\ knownUser' = u
    /\ main' = [i \in DOMAIN Tail(main) |-> Changed(Tail(main)[i])]
    /\ asked' = {[r EXCEPT !.changed = TRUE] : r \in asked}
    /\ tasks' = Append(tasks, [op |-> "user", user |-> u])

\* GetToken's callback: a token from before the change is asked for again.
TokenToldOn(t) ==
    /\ main' = Tail(main)
    /\ \/ /\ t.changed
          /\ asked' = asked \cup {Request}
          /\ UNCHANGED tasks
       \/ /\ ~t.changed
          /\ tasks' = Append(tasks, [op |-> "token", user |-> t.user])
          /\ UNCHANGED asked
    /\ UNCHANGED knownUser

MainQueue ==
    /\ main # <<>>
    /\ LET m == Head(main) IN
        \/ m.op = "user" /\ UserToldOn(m.user)
        \/ m.op = "token" /\ TokenToldOn(m)
        \/ m.op = "void" /\ main' = Tail(main) /\ UNCHANGED <<asked, knownUser, tasks>>
    /\ UNCHANGED <<author, outcome, server, authUser, local, wire, bounds>>

\* The application sets a document of the user the main queue knows.
SetDocument ==
    /\ Len(author) < MaxWrites
    /\ knownUser # NoUser
    /\ author' = Append(author, knownUser)
    /\ tasks' = Append(tasks, [op |-> "write", write |-> Len(author')])
    /\ UNCHANGED <<outcome, server, auth, local, wire, bounds>>

-----------------------------------------------------------------------------
(* The pipeline and its stream. *)

\* Mutant of Filled: the newest batches come first.
FilledFromBack(p, q) ==
    p \o SubSeq(Reverse(q), 1, Smaller(kMaxPendingWrites - Len(p), Len(q)))

\* How many batches of the queue q, in which ids ascend, come before the id.
Before(q, id) == Cardinality({i \in DOMAIN q : q[i].id < id})

\* FillWritePipeline: the pipeline p with the batches of the queue q that follow
\* its last one, as many as it takes.
Filled(p, q) ==
    LET n == IF p = <<>> THEN 0 ELSE Before(q, Last(p).id + 1)
    IN  p \o SubSeq(q, n + 1, n + Smaller(kMaxPendingWrites - Len(p), Len(q) - n))

\* Mutant of AfterStart: a broken stream is not started again.
AfterStartOnce(s, p) == IF p # <<>> /\ s = "Initial" THEN "Starting" ELSE s

\* Start, called with the pipeline p in the state s unless the stream is
\* started or p is empty: at once, or after a backoff if there was an error.
AfterStart(s, p) ==
    CASE p # <<>> /\ s = "Initial" -> "Starting"
      [] p # <<>> /\ s = "Error" -> "Backoff"
      [] OTHER -> s

\* A stream that comes to Starting asks for a token.
Requested(s, p) == IF p # <<>> /\ s = "Initial" THEN {Request} ELSE {}

\* Mutant of Void: the close count is not looked at.
VoidNever(t) == t

\* The close count has moved on since t was asked for: it is of no use any more.
Void(t) == IF t.op = "token" THEN [op |-> "void"] ELSE t

\* Close, which loses what is under way, into the state s, and the start of the
\* stream for the pipeline p; the worker queue holds the tasks queued.
Restarted(s, p, queued) ==
    /\ pipeline' = p
    /\ stream' = AfterStart(s, p)
    /\ asked' = Requested(s, p)
    /\ main' = [i \in DOMAIN main |-> Void(main[i])]
    /\ tasks' = [i \in DOMAIN queued |-> Void(queued[i])]
    /\ requests' = <<>> /\ responses' = <<>>
    /\ handshake' = FALSE /\ token' = NoUser /\ idle' = FALSE

\* WriteMutations: the write is queued under the current user, whichever that
\* is, and the pipeline filled.  An open stream sends what came in.
WriteMutations(w) ==
    LET b == [id |-> nextId, write |-> w]
        q == Append(queue[user], b)
        p == Filled(pipeline, q)
    IN
    /\ queue' = [queue EXCEPT ![user] = q]
    /\ nextId' = nextId + 1
    /\ callbacks' = [callbacks EXCEPT ![user] =
                        IF \E c \in @ : c.id = b.id THEN @ ELSE @ \cup {b}]
    /\ pipeline' = p
    /\ \/ /\ handshake /\ p # pipeline
          /\ requests' = Append(requests, w)
          /\ idle' = FALSE
       \/ /\ ~handshake \/ p = pipeline
          /\ UNCHANGED <<requests, idle>>
    /\ stream' = AfterStart(stream, p)
    /\ asked' = asked \cup Requested(stream, p)
    /\ tasks' = Tail(tasks)
    /\ UNCHANGED <<main, user, handshake, token, responses>>

\* Mutant of LoadNextBatchId: the ids start anew.
LoadNextBatchIdAnew == 1

\* LoadNextBatchIdFromDb: past every batch that is still queued.
LoadNextBatchId ==
    LET ids == UNION {{b.id : b \in ToSet(queue[u])} : u \in Owner}
    IN  1 + (IF ids = {} THEN 0 ELSE Max(ids))

\* Mutant of HandleCredentialChange: the streams are not restarted.
HandleCredentialChangeQuietly(u) ==
    /\ user' = u
    /\ nextId' = IF u = user THEN nextId ELSE LoadNextBatchId
    /\ tasks' = Tail(tasks)
    /\ UNCHANGED <<wire, asked, main, queue, callbacks>>

\* HandleCredentialChange: the queue of the new user comes in, and RemoteStore
\* restarts its streams without a backoff and fills the pipeline anew.
HandleCredentialChange(u) ==
    /\ user' = u
    /\ nextId' = IF u = user THEN nextId ELSE LoadNextBatchId
    /\ Restarted("Initial", Filled(<<>>, queue[u]), Tail(tasks))
    /\ UNCHANGED <<queue, callbacks>>

\* ResumeStartWithCredentials: the stream opens with the token and sends the
\* handshake.
ResumeStartWithCredentials(u) ==
    /\ stream' = "Open"
    /\ token' = u
    /\ requests' = Append(requests, Handshake)
    /\ tasks' = Tail(tasks)
    /\ UNCHANGED <<asked, main, local, pipeline, handshake, idle, responses>>

\* The callback with a token for a stream that has closed.
Dropped ==
    /\ tasks' = Tail(tasks)
    /\ UNCHANGED <<asked, main, local, wire>>

\* The worker queue runs its oldest task.
RunTask ==
    /\ tasks # <<>>
    /\ LET t == Head(tasks) IN
        \/ t.op = "write" /\ WriteMutations(t.write)
        \/ t.op = "user" /\ HandleCredentialChange(t.user)
        \/ t.op = "token" /\ ResumeStartWithCredentials(t.user)
        \/ t.op = "void" /\ Dropped
    /\ UNCHANGED <<author, outcome, server, authUser, knownUser, bounds>>

\* The backoff has elapsed: the stream starts, and asks for a token.
TryRestarting ==
    /\ stream = "Backoff"
    /\ stream' = "Starting"
    /\ asked' = asked \cup {Request}
    /\ UNCHANGED <<author, outcome, server, authUser, main, knownUser, tasks,
                   local, pipeline, handshake, token, idle, requests,
                   responses, bounds>>

\* The stream breaks, in no way that is about a write, or no token could be
\* had.  It is tried again after a while; the pipeline stays.
OnWriteStreamClose ==
    /\ stream \in {"Starting", "Open"}
    /\ bounds.faults < MaxFaults
    /\ bounds' = [bounds EXCEPT !.faults = @ + 1]
    /\ Restarted("Error", pipeline, tasks)
    /\ UNCHANGED <<author, outcome, server, authUser, knownUser, local>>

\* The idleness timer: the stream stops itself.
IdleTimeout ==
    /\ idle
    /\ Restarted("Initial", pipeline, tasks)
    /\ UNCHANGED <<author, outcome, server, authUser, knownUser, local, bounds>>

-----------------------------------------------------------------------------
(* Messages of the server. *)

\* The handshake is complete: the pipeline is sent.
OnHandshakeComplete ==
    /\ handshake' = TRUE
    /\ requests' = requests \o ToSend(pipeline)
    /\ responses' = Tail(responses)
    /\ idle' = FALSE
    /\ UNCHANGED <<outcome, asked, main, tasks, local, pipeline, stream, token>>

\* NotifyUser and the removal of the batch from the queue: the callback with
\* the batch's id is told.
Finish(b, result) ==
    /\ outcome' = [w \in Write |->
            IF [id |-> b.id, write |-> w] \in callbacks[user]
            THEN result ELSE outcome[w]]
    /\ callbacks' = [callbacks EXCEPT ![user] = {c \in @ : c.id # b.id}]
    /\ queue' = [queue EXCEPT ![user] = RemoveAt(@, 1 + Before(@, b.id))]
    /\ UNCHANGED <<user, nextId>>

\* The write at the front was applied.  The pipeline is filled and what came
\* in is sent; without any more the stream goes idle.
OnMutationResult ==
    /\ Finish(Head(pipeline), "applied")
    /\ pipeline' = Filled(Tail(pipeline), queue'[user])
    /\ requests' = requests \o ToSend(SubSeq(pipeline', Len(pipeline),
                                             Len(pipeline')))
    /\ idle' = (pipeline' = <<>>)
    /\ responses' = Tail(responses)
    /\ UNCHANGED <<asked, main, tasks, stream, handshake, token>>

\* Mutant of OnWriteRejected: the last write of the pipeline is held to be it.
OnWriteRejectedAtBack ==
    /\ Finish(Last(pipeline), "rejected")
    /\ Restarted("Initial", Filled(Front(pipeline), queue'[user]), tasks)

\* The stream was closed over a write: HandleWriteError rejects the front of
\* the pipeline, and the stream starts anew without a backoff.
OnWriteRejected ==
    /\ Finish(Head(pipeline), "rejected")
    /\ Restarted("Initial", Filled(Tail(pipeline), queue'[user]), tasks)

OnStreamRead ==
    /\ responses # <<>>
    /\ \/ Head(responses) = "handshake" /\ OnHandshakeComplete
       \/ Head(responses) = "result" /\ OnMutationResult
       \/ Head(responses) = "error" /\ OnWriteRejected
    /\ UNCHANGED <<author, server, authUser, knownUser, bounds>>

-----------------------------------------------------------------------------
(* The server, and the end of the process. *)

\* The server takes the next request: it confirms the handshake, applies a
\* write, or closes the stream over one it does not permit.  A write may reach
\* it twice; log keeps the first time.
ServerHandles ==
    /\ requests # <<>>
    /\ ~Contains(responses, "error")
    /\ LET r == Head(requests) IN
        \/ /\ r = Handshake
           /\ responses' = Append(responses, "handshake")
           /\ requests' = Tail(requests)
           /\ UNCHANGED log
        \/ /\ r \in Write \ refused
           /\ log' = IF \E i \in DOMAIN log : log[i] = [write |-> r, token |-> token]
                     THEN log
                     ELSE Append(log, [write |-> r, token |-> token])
           /\ responses' = Append(responses, "result")
           /\ requests' = Tail(requests)
        \/ /\ r \in refused
           /\ responses' = Append(responses, "error")
           /\ requests' = <<>>
           /\ UNCHANGED log
    /\ UNCHANGED <<author, outcome, refused, auth, tasks, local, pipeline,
                   stream, handshake, token, idle, bounds>>

\* The application is killed and started: queues of writes and the user are
\* kept, all else is lost.
Crash ==
    /\ bounds.crashes < MaxCrashes
    /\ bounds' = [bounds EXCEPT !.crashes = @ + 1]
    /\ main' = <<>> /\ tasks' = <<>>
    /\ knownUser' = authUser /\ user' = authUser
    /\ nextId' = LoadNextBatchId
    /\ callbacks' = [u \in Owner |-> {}]
    /\ LET p == Filled(<<>>, queue[authUser]) IN
        /\ pipeline' = p
        /\ stream' = AfterStart("Initial", p)
        /\ asked' = Requested("Initial", p)
    /\ requests' = <<>> /\ responses' = <<>>
    /\ handshake' = FALSE /\ token' = NoUser /\ idle' = FALSE
    /\ UNCHANGED <<author, outcome, server, authUser, queue>>

Next ==
    \/ \E u \in Owner : UserChanges(u)
    \/ \E r \in asked : TokenRead(r) \/ TokenComes(r)
    \/ MainQueue \/ SetDocument \/ RunTask
    \/ TryRestarting \/ OnWriteStreamClose \/ IdleTimeout \/ OnStreamRead
    \/ ServerHandles \/ Crash

Spec == Init /\ [][Next]_vars

\* The queues run their tasks, tokens and backoffs end, and an open stream
\* brings messages or breaks.
FairSpec ==
    /\ Spec
    /\ WF_vars(\E r \in asked : TokenRead(r) \/ TokenComes(r))
    /\ WF_vars(MainQueue)
    /\ WF_vars(RunTask)
    /\ WF_vars(TryRestarting)
    /\ WF_vars(OnStreamRead \/ ServerHandles \/ OnWriteStreamClose)

-----------------------------------------------------------------------------

\* A write reaches the server under the token of the user who issued it,
\* although the user changes on one queue, the token is read on another and the
\* pipeline is swapped on a third.
OwnersToken == \A i \in DOMAIN log : log[i].token = author[log[i].write]

\* The writes of a user are first applied in the order they were issued, over
\* every retry, change of user and restart.
InIssueOrder ==
    \A i, j \in DOMAIN log :
        i < j /\ author[log[i].write] = author[log[j].write]
            => log[i].write < log[j].write

\* A future ends with what became of its own write, although results and
\* errors carry no name and the ids of batches are used again.
HonestOutcomes ==
    \A w \in Write :
        /\ outcome[w] = "applied" =>
                \E i \in DOMAIN log : log[i].write = w
        /\ outcome[w] = "rejected" => w \in refused

Queued(w) ==
    \E u \in Owner : \E i \in DOMAIN queue[u] : queue[u][i].write = w

\* How many tokens are in a queue.
Tokens(queued) ==
    Cardinality({i \in DOMAIN queued : queued[i].op = "token"})

\* The pipeline is the front of the user's queue, as much of it as fits, and a
\* stream is started for it, with one token asked for; only a stream without a
\* pipeline goes idle.
NoWriteLeftBehind ==
    /\ pipeline = SubSeq(queue[user], 1,
                         Smaller(kMaxPendingWrites, Len(queue[user])))
    /\ pipeline # <<>> => stream \in {"Starting", "Open", "Backoff"}
    /\ idle => pipeline = <<>>
    /\ Cardinality(asked) + Tokens(main) + Tokens(tasks)
            = (IF stream = "Starting" THEN 1 ELSE 0)

\* A write that was queued stays queued until the server has applied it or has
\* refused it, whoever signs in and however often the application is killed;
\* its future ends at the latest then, unless the application was killed.
Durable ==
    \A w \in Write :
        Queued(w) /\ ~Queued(w)' =>
            /\ w \in refused \/ \E i \in DOMAIN log : log[i].write = w
            /\ bounds.crashes = 0 => outcome'[w] # "none"

WritesAreDurable == [][Durable]_vars

\* The writes in the queues of the device.
Held == {w \in Write : Queued(w)}

Writes == INSTANCE DocumentWrites WITH held <- Held

\* A queued write is applied after the earlier ones of its user and leaves its
\* queue before the later ones, with the server's word; its future ends once,
\* with that word, and a write that is lost never comes back.
ImplementsWrites == Writes!Spec

\* What is queued for the user is delivered or refused in the end: users, faults
\* and writes are bounded, so the queue empties.
WritesEnd == queue[user] # <<>> ~> queue[user] = <<>>
=============================================================================
