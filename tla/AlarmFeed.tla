------------------------------ MODULE AlarmFeed ------------------------------
(***************************************************************************)
(* The notification list: AlarmBloc of lib/bloc/alarm_bloc.dart, the page  *)
(* that shows it (lib/ui/alarm_page.dart) and the global list `alarms` of  *)
(* lib/models/alarm_data.dart.                                             *)
(*                                                                         *)
(* An AlarmPage makes a bloc when it is first built and closes it when its *)
(* user is signed out; the global list outlives both.  Of an alarm the     *)
(* model keeps the isRead flag.  The bloc publishes how many alarms the    *)
(* page lists and a copy of their flags; the page copies the flags back    *)
(* into _temp whenever it rebuilds, and a press writes all three copies.   *)
(*                                                                         *)
(* readMore awaits two seconds.  A call that is suspended when the bloc is *)
(* closed still runs its completion: with a batch left it adds the first   *)
(* alarm of the batch to the global list and then throws, because          *)
(* updateIsReads adds to a closed subject; without, it throws at once.     *)
(*                                                                         *)
(* Every call awaits the same two seconds, so calls complete in the order  *)
(* in which they were made: those of closed blocs before those of the open *)
(* one.                                                                    *)
(***************************************************************************)
EXTENDS Integers, Sequences

CONSTANTS InitialAlarms,  \* length of the global list: 6 in the application
          Threshold,      \* length from which the page reads more: 6
          Batch,          \* alarms added by a completed readMore: 5
          ReadMoreCount,  \* batches a bloc may add: 3
          Retries,        \* bound: loads of a bloc after its last batch
          MaxSessions     \* bound: number of AlarmPages built

ASSUME FeedAssumption ==
    /\ InitialAlarms \in Nat
    /\ Threshold \in Nat
    /\ Batch \in Nat \ {0}
    /\ ReadMoreCount \in Nat \ {0}
    /\ Retries \in Nat
    /\ MaxSessions \in Nat \ {0}

VARIABLES
    alarms,         \* the global list: the isRead flag of each alarm
    mounted,        \* whether an AlarmPage, and its bloc, is alive
    filter,         \* _index of the page: "all" or "priority"
    tiles,          \* number of tiles on the screen
    loads,          \* suspended calls of readMore of this bloc
    isLoading,      \* _isLoading
    readMoreCount,  \* _readMoreCount
    temp,           \* _temp
    alarmLength,    \* _alarmLength
    isReads,        \* _isReads
    isEnd,          \* _isEnd: the loading tiles are collapsed
    late,           \* suspended calls of closed blocs, by what they have left
    batches,        \* history: batches this bloc has added
    sessions        \* history: AlarmPages built so far

view == <<mounted, filter, tiles>>
load == <<loads, isLoading, readMoreCount, batches>>
lists == <<temp, alarmLength, isReads>>
vars == <<alarms, view, load, lists, isEnd, late, sessions>>

\* What is left for a suspended load to do: add a batch, or nothing.
Left == {"batch", "nothing"}

\* n alarms that nobody has read.
Unread(n) == [i \in 1 .. n |-> FALSE]

\* Mutant of HasBatch: the counter is decremented before it is compared.
HasBatchButOne == readMoreCount > 1

\* Mutant of HasBatch: one comparison too generous.
HasBatchAndOne == readMoreCount >= 0

\* The next load of this bloc to complete adds a batch.
HasBatch == readMoreCount > 0

Counted == readMoreCount - 1

\* Mutant of EarlierCallsDone: calls await different times.
EarlierCallsAnywhere == TRUE

\* Calls made by blocs that are closed by now have completed.
EarlierCallsDone == \A left \in Left : late[left] = 0

\* readMore does something.
Unlocked == ~isLoading

\* Mutant of Unlock: only a load that adds a batch unlocks.
UnlockAfterBatch == isLoading' = ~HasBatch

Unlock == isLoading' = FALSE

-----------------------------------------------------------------------------

\* The first AlarmPage is not built yet; its bloc's fields are those of a
\* bloc that was never used.
Init ==
    /\ alarms = Unread(InitialAlarms)
    /\ mounted = FALSE /\ filter = "all" /\ tiles = 0
    /\ loads = 0 /\ isLoading = FALSE
    /\ readMoreCount = ReadMoreCount /\ batches = 0
    /\ temp = <<>> /\ alarmLength = 0 /\ isReads = <<>>
    /\ isEnd = FALSE
    /\ late = [left \in Left |-> 0]
    /\ sessions = 0

\* initState: a new bloc, whose init() copies the global list.
Mount ==
    /\ ~mounted
    /\ sessions < MaxSessions
    /\ sessions' = sessions + 1
    /\ mounted' = TRUE /\ filter' = "all" /\ tiles' = 0
    /\ loads' = 0 /\ isLoading' = FALSE
    /\ readMoreCount' = ReadMoreCount /\ batches' = 0
    /\ temp' = alarms /\ alarmLength' = Len(alarms) /\ isReads' = alarms
    /\ isEnd' = FALSE
    /\ UNCHANGED <<alarms, late>>

\* A frame: the builders run on the latest values of alarmLength and isReads
\* and make a tile for each alarm listed.
Build ==
    /\ mounted
    /\ filter = "all"
    /\ temp' = isReads
    /\ tiles' = alarmLength
    /\ UNCHANGED <<alarms, mounted, filter, load, alarmLength, isReads,
                   isEnd, late, sessions>>

\* The two buttons above the list; the priority view has no tiles.
Select(f) ==
    /\ mounted
    /\ filter' = f
    /\ tiles' = IF f = "all" THEN tiles ELSE 0
    /\ UNCHANGED <<alarms, mounted, load, lists, isEnd, late, sessions>>

\* The page is scrolled to within two loading tiles of its end: listener()
\* calls readMore(), up to its await.
ScrollNearEnd ==
    /\ mounted
    /\ Len(alarms) >= Threshold
    /\ Unlocked
    /\ readMoreCount > -Retries
    /\ isLoading' = TRUE
    /\ loads' = loads + 1
    /\ isEnd' = FALSE
    /\ UNCHANGED <<alarms, view, readMoreCount, batches, lists, late, sessions>>

\* The rest of readMore(), on an open bloc; the calls of earlier blocs were
\* made before and have completed before.
LoadDone ==
    /\ mounted
    /\ loads > 0
    /\ EarlierCallsDone
    /\ loads' = loads - 1
    /\ Unlock
    /\ readMoreCount' = Counted
    /\ \/ /\ HasBatch
          /\ alarms' = alarms \o Unread(Batch)
          /\ temp' = alarms' /\ isReads' = alarms'
          /\ batches' = batches + 1
          /\ UNCHANGED isEnd
       \/ /\ ~HasBatch
          /\ isEnd' = TRUE
          /\ UNCHANGED <<alarms, temp, isReads, batches>>
    /\ alarmLength' = Len(alarms')
    /\ UNCHANGED <<view, late, sessions>>

\* The rest of readMore(), on a bloc that was closed meanwhile.
LateLoadDone(left) ==
    /\ late[left] > 0
    /\ late' = [late EXCEPT ![left] = @ - 1]
    /\ alarms' = IF left = "batch" THEN alarms \o Unread(1) ELSE alarms
    /\ UNCHANGED <<view, load, lists, isEnd, sessions>>

\* Mutant of Press: the global list is not told.
PressOnPageOnly(i) ==
    /\ mounted
    /\ i <= tiles
    /\ temp' = [temp EXCEPT ![i] = TRUE]
    /\ isReads' = temp'
    /\ UNCHANGED <<alarms, view, load, alarmLength, isEnd, late, sessions>>

\* onPressed of the i-th tile.
Press(i) ==
    /\ mounted
    /\ i <= tiles
    /\ temp' = [temp EXCEPT ![i] = TRUE]
    /\ isReads' = temp'
    /\ alarms' = [alarms EXCEPT ![i] = TRUE]
    /\ UNCHANGED <<view, load, alarmLength, isEnd, late, sessions>>

\* dispose() of the page and of its bloc.
Dispose ==
    /\ mounted
    /\ mounted' = FALSE /\ tiles' = 0
    /\ temp' = <<>>
    /\ loads' = 0
    /\ late' = [late EXCEPT ![IF HasBatch THEN "batch" ELSE "nothing"]
                             = @ + loads]
    /\ UNCHANGED <<alarms, filter, isLoading, readMoreCount, batches,
                   alarmLength, isReads, isEnd, sessions>>

Next ==
    \/ Mount \/ Build \/ ScrollNearEnd \/ LoadDone \/ Dispose
    \/ \E f \in {"all", "priority"} : Select(f)
    \/ \E left \in Left : LateLoadDone(left)
    \/ \E i \in 1 .. tiles : Press(i)

Spec == Init /\ [][Next]_vars

\* Timers fire; the user's own steps are not forced.
FairSpec ==
    Spec /\ WF_vars(LoadDone)
         /\ \A left \in Left : WF_vars(LateLoadDone(left))

-----------------------------------------------------------------------------

TypeOK ==
    /\ alarms \in Seq(BOOLEAN)
    /\ mounted \in BOOLEAN
    /\ filter \in {"all", "priority"}
    /\ tiles \in Nat
    /\ loads \in Nat
    /\ isLoading \in BOOLEAN
    /\ readMoreCount \in Int /\ readMoreCount <= ReadMoreCount
    /\ temp \in Seq(BOOLEAN)
    /\ alarmLength \in Nat
    /\ isReads \in Seq(BOOLEAN)
    /\ isEnd \in BOOLEAN
    /\ late \in [Left -> Nat]
    /\ batches \in Nat
    /\ sessions \in Nat

\* No builder and no tile indexes past the end of a list: the page lists only
\* alarms whose flags the bloc has published, and of these only alarms that
\* exist.  The global list is also extended by closed blocs, and a load with
\* no batch left publishes its length without the flags: the lists stay in
\* step only because every such late alarm comes before the first load of
\* this bloc completes.
ListBacked ==
    mounted => /\ alarmLength <= Len(isReads)
               /\ Len(isReads) <= Len(alarms)
               /\ tiles <= Len(temp)

\* _isLoading is a lock: a bloc has one suspended readMore while it is set
\* and none otherwise, however often the listener fires near the end.
OneLoadAtATime == mounted => loads = IF isLoading THEN 1 ELSE 0

\* The loading tiles are collapsed only while nothing is loading and after
\* the bloc has added every batch it may add.
EndIsHonest == mounted /\ isEnd => ~isLoading /\ batches = ReadMoreCount

\* Each session adds at most its own batches to the global list, counting
\* what its suspended load adds after the session is over.
GrowthBounded ==
    Len(alarms) <= InitialAlarms + Batch * ReadMoreCount * sessions

\* What the page promises of its notifications, whichever list it reads.
Log == INSTANCE NotificationLog WITH
    log <- alarms,
    listed <- IF mounted THEN SubSeq(isReads, 1, alarmLength) ELSE <<>>

\* The three copies of the flags, the loads that complete and those that
\* complete too late together behave as one log: entries are never lost or
\* reordered, and none becomes unread again.
ImplementsLog == Log!Spec

\* A load that starts ends, or the page is closed: the list never stays
\* locked behind _isLoading.
LoadEnds == mounted /\ isLoading ~> ~mounted \/ ~isLoading
=============================================================================
