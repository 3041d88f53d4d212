------------------------ MODULE NotificationFlowProofs ------------------------
(***************************************************************************)
(* Theorems about the alarm page as a part of the main page, for any bar   *)
(* of tabs and any list of alarms, and about the age its tiles show, for   *)
(* an alarm of any age.                                                    *)
(***************************************************************************)
EXTENDS NotificationFlow, AlarmAge, TLAPS

\* The invariant of the list and what each of its steps does to it.
List == INSTANCE AlarmFeedProofs WITH mounted <- alive

\* The inductive invariant: a tile that is pressed is the tile of an alarm on
\* the list, which is what the invariant of the list is needed for.
FlowInv ==
    /\ List!FeedInv
    /\ OpenedAlarmIsRead

\* No alarm is lost and none becomes unread.
StayRead ==
    /\ Len(alarms) <= Len(alarms')
    /\ \A i \in 1 .. Len(alarms) : alarms[i] => alarms'[i]

-----------------------------------------------------------------------------

\* What the lemmas about the list assume of its constants.
LEMMA ListAssumption == List!FeedAssumption
BY FlowAssumption DEF List!FeedAssumption

LEMMA ListFacts ==
    ASSUME List!FeedInv
    PROVE  /\ alarms \in Seq(BOOLEAN) /\ Len(alarms) \in Nat
           /\ alive \in BOOLEAN
           /\ alive => \A i \in 1 .. tiles : i \in 1 .. Len(alarms)
<1>1. /\ alarms \in Seq(BOOLEAN) /\ alive \in BOOLEAN /\ tiles \in Nat
      /\ alarmLength \in Nat /\ isReads \in Seq(BOOLEAN)
  BY DEF List!FeedInv, List!TypeOK
<1>2. alive => /\ tiles <= alarmLength
               /\ alarmLength = Len(isReads) /\ Len(isReads) <= Len(alarms)
  BY DEF List!FeedInv, List!Copied
<1>3. Len(alarms) \in Nat /\ Len(isReads) \in Nat
  BY <1>1
<1>4. QED
  BY <1>1, <1>2, <1>3

LEMMA SameList == UNCHANGED alarms /\ List!FeedInv => StayRead
BY ListFacts DEF StayRead

\* A completed load, of an open or of a closed bloc, adds unread alarms at
\* the end.
LEMMA GrownList ==
    ASSUME List!FeedInv, NEW n \in Nat, alarms' = alarms \o List!Unread(n)
    PROVE  StayRead
<1>1. alarms \in Seq(BOOLEAN)
  BY ListFacts
<1>2. /\ Len(alarms') = Len(alarms) + n
      /\ \A i \in 1 .. Len(alarms) : alarms'[i] = alarms[i]
  BY <1>1, ListAssumption, List!UnreadAppended
<1>3. Len(alarms) \in Nat
  BY <1>1
<1>4. QED
  BY <1>2, <1>3 DEF StayRead

LEMMA PressStep ==
    ASSUME FlowInv, NEW i \in 1 .. tiles, Feed!Press(i)
    PROVE  /\ List!FeedInv'
           /\ StayRead
           /\ i \in 1 .. Len(alarms') /\ alarms'[i]
<1>1. List!FeedInv /\ alive /\ alarms' = [alarms EXCEPT ![i] = TRUE]
  BY DEF FlowInv, Feed!Press
<1>2. alarms \in Seq(BOOLEAN) /\ i \in 1 .. Len(alarms)
  BY <1>1, ListFacts
<1>3. /\ Len(alarms') = Len(alarms)
      /\ \A j \in 1 .. Len(alarms) :
           alarms'[j] = IF j = i THEN TRUE ELSE alarms[j]
  <2>1. /\ Len([alarms EXCEPT ![i] = TRUE]) = Len(alarms)
        /\ \A j \in 1 .. Len(alarms) :
             [alarms EXCEPT ![i] = TRUE][j] = IF j = i THEN TRUE ELSE alarms[j]
    BY <1>2, ListAssumption, List!Marked
  <2> QED
    BY <1>1, <2>1, Zenon
<1>4. StayRead
  <2>1. Len(alarms) \in Nat
    BY <1>2
  <2>2. \A j \in 1 .. Len(alarms) : alarms[j] => alarms'[j]
    BY <1>3, Zenon
  <2>3. Len(alarms) <= Len(alarms')
    BY <1>3, <2>1
  <2>4. QED
    BY <2>2, <2>3 DEF StayRead
<1>5. List!Press(i)
  BY DEF Feed!Press, List!Press, Feed!view, List!view, Feed!load, List!load
<1>6. List!FeedInv'
  BY <1>1, <1>5, ListAssumption, List!PressKeepsInv
<1>7. QED
  BY <1>2, <1>3, <1>4, <1>6

LEMMA MountStep ==
    ASSUME FlowInv, Feed!Mount
    PROVE  List!FeedInv' /\ StayRead
<1>1. List!Mount /\ UNCHANGED alarms
  BY DEF Feed!Mount, List!Mount
<1>2. QED
  BY <1>1, ListAssumption, List!MountKeepsInv, SameList DEF FlowInv

LEMMA UsedStep ==
    ASSUME FlowInv, ListUsed
    PROVE  List!FeedInv' /\ StayRead
<1>1. CASE Feed!ScrollNearEnd
  <2>1. List!ScrollNearEnd /\ UNCHANGED alarms
    BY <1>1 DEF Feed!ScrollNearEnd, List!ScrollNearEnd, Feed!Unlocked,
       List!Unlocked, Feed!view, List!view, Feed!lists, List!lists
  <2>2. QED
    BY <2>1, ListAssumption, List!ScrollKeepsInv, SameList DEF FlowInv
<1>2. ASSUME NEW f \in {"all", "priority"}, Feed!Select(f)
      PROVE  List!FeedInv' /\ StayRead
  <2>1. List!Select(f) /\ UNCHANGED alarms
    BY <1>2 DEF Feed!Select, List!Select, Feed!load, List!load, Feed!lists,
       List!lists
  <2>2. QED
    BY <2>1, ListAssumption, List!SelectKeepsInv, SameList DEF FlowInv
<1>3. QED
  BY <1>1, <1>2 DEF ListUsed

LEMMA UpdatedStep ==
    ASSUME FlowInv, ListUpdated
    PROVE  List!FeedInv' /\ StayRead
<1>1. CASE Feed!Build
  <2>1. List!Build /\ UNCHANGED alarms
    BY <1>1 DEF Feed!Build, List!Build, Feed!load, List!load
  <2>2. QED
    BY <2>1, ListAssumption, List!BuildKeepsInv, SameList DEF FlowInv
<1>2. CASE Feed!LoadDone
  <2>1. List!LoadDone
    BY <1>2 DEF Feed!LoadDone, List!LoadDone, Feed!EarlierCallsDone,
       List!EarlierCallsDone, Feed!Left, List!Left, Feed!Unlock, List!Unlock,
       Feed!Counted, List!Counted, Feed!HasBatch, List!HasBatch, Feed!Unread,
       List!Unread, Feed!view, List!view
  <2>2. alarms' = alarms \o List!Unread(Batch) \/ UNCHANGED alarms
    BY <2>1 DEF List!LoadDone, List!view
  <2>3. Batch \in Nat
    BY FlowAssumption
  <2>4. QED
    BY <2>1, <2>2, <2>3, ListAssumption, List!LoadDoneKeepsInv, SameList,
       GrownList
    DEF FlowInv
<1>3. ASSUME NEW left \in Feed!Left, Feed!LateLoadDone(left)
      PROVE  List!FeedInv' /\ StayRead
  <2>1. left \in List!Left /\ List!LateLoadDone(left)
    BY <1>3 DEF Feed!LateLoadDone, List!LateLoadDone, Feed!Left, List!Left,
       Feed!Unread, List!Unread, Feed!view, List!view, Feed!load, List!load,
       Feed!lists, List!lists
  <2>2. alarms' = alarms \o List!Unread(1) \/ UNCHANGED alarms
    BY <2>1 DEF List!LateLoadDone, List!view
  <2>3. 1 \in Nat
    OBVIOUS
  <2>4. QED
    BY <2>1, <2>2, <2>3, ListAssumption, List!LateKeepsInv, SameList,
       GrownList DEF FlowInv
<1>4. QED
  BY <1>1, <1>2, <1>3 DEF ListUpdated

LEMMA DisposeStep ==
    ASSUME FlowInv, Feed!Dispose
    PROVE  List!FeedInv' /\ StayRead
<1>1. List!Dispose /\ UNCHANGED alarms
  BY DEF Feed!Dispose, List!Dispose, Feed!HasBatch, List!HasBatch
<1>2. QED
  BY <1>1, ListAssumption, List!DisposeKeepsInv, SameList DEF FlowInv

LEMMA UnchangedStep ==
    ASSUME FlowInv, UNCHANGED feedVars
    PROVE  List!FeedInv' /\ StayRead
<1>1. UNCHANGED List!vars /\ UNCHANGED alarms
  BY DEF feedVars, List!vars, List!view, List!load, List!lists
<1>2. QED
  BY <1>1, ListAssumption, List!FeedStep, SameList DEF FlowInv

\* The alarm on the watch page stays where it is and stays read.
LEMMA WatchedStaysRead ==
    ASSUME FlowInv, StayRead, List!FeedInv',
           alarmToWatch' => alarmToWatch /\ data' = data
    PROVE  OpenedAlarmIsRead'
<1>1. Len(alarms) \in Nat /\ Len(alarms') \in Nat
  <2>1. Len(alarms) \in Nat
    BY ListFacts DEF FlowInv
  <2>2. alarms' \in Seq(BOOLEAN)
    BY DEF List!FeedInv, List!TypeOK
  <2>3. QED
    BY <2>1, <2>2
<1>2. alarmToWatch => data \in 1 .. Len(alarms) /\ alarms[data]
  BY DEF FlowInv, OpenedAlarmIsRead
<1>3. QED
  BY <1>1, <1>2 DEF StayRead, OpenedAlarmIsRead

-----------------------------------------------------------------------------

LEMMA FlowStart == Init => FlowInv
<1>1. SUFFICES ASSUME Init PROVE FlowInv
  OBVIOUS
<1>2. List!FeedInv
  <2>1. List!Init
    BY <1>1 DEF Init, Feed!Init, List!Init, Feed!Unread, List!Unread,
       Feed!Left, List!Left
  <2>2. QED
    BY <2>1, ListAssumption, List!FeedInit
<1>3. OpenedAlarmIsRead
  BY <1>1 DEF Init, PagesInit, OpenedAlarmIsRead
<1>4. QED
  BY <1>2, <1>3 DEF FlowInv

LEMMA TilePressedStep ==
    ASSUME FlowInv, NEW i \in 1 .. tiles, TilePressed(i)
    PROVE  FlowInv'
<1>1. /\ List!FeedInv' /\ StayRead /\ i \in 1 .. Len(alarms') /\ alarms'[i]
  BY PressStep DEF TilePressed
<1>2. OpenedAlarmIsRead'
  <2>1. CASE OpenAlarm(i)
    BY <1>1, <2>1 DEF OpenAlarm, OpenedAlarmIsRead
  <2>2. CASE UNCHANGED pageVars
    BY <1>1, <2>2, WatchedStaysRead DEF pageVars
  <2>3. QED
    BY <2>1, <2>2 DEF TilePressed
<1>3. QED
  BY <1>1, <1>2 DEF FlowInv

LEMMA FrameStep ==
    ASSUME FlowInv, NEW p \in Position, Frame(p)
    PROVE  FlowInv'
<1>1. UNCHANGED <<alarmToWatch, data>>
  BY DEF Frame, PageScroll
<1>2. List!FeedInv' /\ StayRead
  BY MountStep, UnchangedStep DEF Frame
<1>3. OpenedAlarmIsRead'
  BY <1>1, <1>2, WatchedStaysRead
<1>4. QED
  BY <1>2, <1>3 DEF FlowInv

\* A transition closes what is on the watch page and leaves the list alone.
LEMMA PageTurnedStep == FlowInv /\ PageTurned => FlowInv'
<1>1. SUFFICES ASSUME FlowInv, PageTurned PROVE FlowInv'
  OBVIOUS
<1>2. alarmToWatch' = FALSE /\ UNCHANGED feedVars
  BY <1>1 DEF PageTurned, TurnTo, BackToAlarms, ProfileShortcut
<1>3. List!FeedInv'
  BY <1>1, <1>2, UnchangedStep
<1>4. OpenedAlarmIsRead'
  BY <1>2 DEF OpenedAlarmIsRead
<1>5. QED
  BY <1>3, <1>4 DEF FlowInv

LEMMA SignedOutStep == FlowInv /\ SignedOut => FlowInv'
<1>1. SUFFICES ASSUME FlowInv, SignedOut PROVE FlowInv'
  OBVIOUS
<1>2. UNCHANGED <<alarmToWatch, data>>
  BY <1>1 DEF SignedOut, PagesDispose
<1>3. List!FeedInv' /\ StayRead
  BY <1>1, DisposeStep, UnchangedStep DEF SignedOut
<1>4. OpenedAlarmIsRead'
  BY <1>1, <1>2, <1>3, WatchedStaysRead
<1>5. QED
  BY <1>3, <1>4 DEF FlowInv

\* A new main page shows no alarm.
LEMMA SignedInStep == FlowInv /\ SignedIn => FlowInv'
<1>1. SUFFICES ASSUME FlowInv, SignedIn PROVE FlowInv'
  OBVIOUS
<1>2. alarmToWatch' = FALSE
  BY <1>1 DEF SignedIn, PagesMount
<1>3. List!FeedInv'
  BY <1>1, UnchangedStep DEF SignedIn
<1>4. OpenedAlarmIsRead'
  BY <1>2 DEF OpenedAlarmIsRead
<1>5. QED
  BY <1>3, <1>4 DEF FlowInv

LEMMA FlowSteps == FlowInv /\ [Next]_vars => FlowInv'
<1>1. SUFFICES ASSUME FlowInv, [Next]_vars PROVE FlowInv'
  OBVIOUS
<1>2. ASSUME List!FeedInv', StayRead, UNCHANGED pageVars
      PROVE  FlowInv'
  <2>1. UNCHANGED <<alarmToWatch, data>>
    BY <1>2 DEF pageVars
  <2>2. OpenedAlarmIsRead'
    BY <1>1, <1>2, <2>1, WatchedStaysRead
  <2>3. QED
    BY <1>2, <2>2 DEF FlowInv
<1>3. CASE ListUsed
  BY <1>1, <1>2, <1>3, UsedStep DEF ListUsed
<1>4. CASE ListUpdated
  BY <1>1, <1>2, <1>4, UpdatedStep DEF ListUpdated
<1>5. CASE UNCHANGED vars
  BY <1>1, <1>2, <1>5, UnchangedStep DEF vars
<1>6. QED
  BY <1>1, <1>3, <1>4, <1>5, TilePressedStep, FrameStep, PageTurnedStep,
     SignedOutStep, SignedInStep DEF Next

LEMMA FlowInvariance == Spec => []FlowInv
BY FlowStart, FlowSteps, PTL DEF Spec

-----------------------------------------------------------------------------

\* onPressed of a tile marks the alarm in the global list and turns to the
\* watch page: the alarm shown there is on the list and read, whatever loads
\* complete meanwhile, and also when the list outlives the session.
THEOREM OpenedAlarmIsAlwaysRead == Spec => []OpenedAlarmIsRead
<1>1. FlowInv => OpenedAlarmIsRead
  BY DEF FlowInv
<1>2. QED
  BY <1>1, FlowInvariance, PTL

-----------------------------------------------------------------------------
(* The list in its place.  What AlarmFeed lets happen to a notification    *)
(* list at any time happens here at the hands of frames, tiles, buttons    *)
(* and sign-outs; everything else leaves the list alone.                   *)

\* The two instances of the list have the same steps.
LEMMA SameSteps == [Feed!Next]_Feed!vars => [List!Next]_List!vars
<1>1. Feed!Mount => List!Mount
  BY DEF Feed!Mount, List!Mount
<1>2. Feed!Build => List!Build
  BY DEF Feed!Build, List!Build, Feed!load, List!load
<1>3. Feed!ScrollNearEnd => List!ScrollNearEnd
  BY DEF Feed!ScrollNearEnd, List!ScrollNearEnd, Feed!Unlocked, List!Unlocked,
     Feed!view, List!view, Feed!lists, List!lists
<1>4. Feed!LoadDone => List!LoadDone
  BY DEF Feed!LoadDone, List!LoadDone, Feed!EarlierCallsDone,
     List!EarlierCallsDone, Feed!Left, List!Left, Feed!Unlock, List!Unlock,
     Feed!Counted, List!Counted, Feed!HasBatch, List!HasBatch, Feed!Unread,
     List!Unread, Feed!view, List!view
<1>5. Feed!Dispose => List!Dispose
  BY DEF Feed!Dispose, List!Dispose, Feed!HasBatch, List!HasBatch
<1>6. \A f : Feed!Select(f) => List!Select(f)
  BY DEF Feed!Select, List!Select, Feed!load, List!load, Feed!lists, List!lists
<1>7. \A left : Feed!LateLoadDone(left) => List!LateLoadDone(left)
  BY DEF Feed!LateLoadDone, List!LateLoadDone, Feed!Unread, List!Unread,
     Feed!view, List!view, Feed!load, List!load, Feed!lists, List!lists
<1>8. \A i : Feed!Press(i) => List!Press(i)
  BY DEF Feed!Press, List!Press, Feed!view, List!view, Feed!load, List!load
<1>9. UNCHANGED Feed!vars => UNCHANGED List!vars
  BY DEF Feed!vars, List!vars, Feed!view, List!view, Feed!load, List!load,
     Feed!lists, List!lists
<1>10. Feed!Left = List!Left
  BY DEF Feed!Left, List!Left
<1>11. Feed!Next => List!Next
  BY <1>1, <1>2, <1>3, <1>4, <1>5, <1>6, <1>7, <1>8, <1>10
  DEF Feed!Next, List!Next
<1>12. QED
  BY <1>9, <1>11

LEMMA StepsOfList == [Next]_vars => [Feed!Next]_Feed!vars
<1>1. SUFFICES ASSUME [Next]_vars PROVE [Feed!Next]_Feed!vars
  OBVIOUS
<1>2. UNCHANGED feedVars => UNCHANGED Feed!vars
  BY DEF feedVars, Feed!vars, Feed!view, Feed!load, Feed!lists
<1>3. ASSUME NEW i \in 1 .. tiles, TilePressed(i) PROVE Feed!Next
  <2>1. Feed!Press(i)
    BY <1>3 DEF TilePressed
  <2>2. QED
    BY <2>1 DEF Feed!Next
<1>4. ASSUME NEW p \in Position, Frame(p) PROVE [Feed!Next]_Feed!vars
  <2>1. Feed!Mount \/ UNCHANGED feedVars
    BY <1>4 DEF Frame
  <2>2. QED
    BY <1>2, <2>1 DEF Feed!Next
<1>5. CASE ListUsed
  <2>1. Feed!ScrollNearEnd \/ \E f \in {"all", "priority"} : Feed!Select(f)
    BY <1>5 DEF ListUsed
  <2>2. QED
    BY <2>1 DEF Feed!Next
<1>6. CASE ListUpdated
  <2>1. \/ Feed!Build
        \/ Feed!LoadDone
        \/ \E left \in Feed!Left : Feed!LateLoadDone(left)
    BY <1>6 DEF ListUpdated
  <2>2. QED
    BY <2>1 DEF Feed!Next
<1>7. CASE SignedOut
  <2>1. Feed!Dispose \/ UNCHANGED feedVars
    BY <1>7 DEF SignedOut
  <2>2. QED
    BY <1>2, <2>1 DEF Feed!Next
<1>8. CASE PageTurned \/ SignedIn \/ UNCHANGED vars
  <2>1. UNCHANGED feedVars
    BY <1>8 DEF PageTurned, SignedIn, vars
  <2>2. QED
    BY <1>2, <2>1
<1>9. QED
  BY <1>1, <1>3, <1>4, <1>5, <1>6, <1>7, <1>8 DEF Next

\* The notifications of the whole main page, over all sessions of a run of
\* the application, are one log: none is lost or reordered or becomes unread
\* again, whatever pages are turned and users signed out meanwhile.
THEOREM FlowImplementsLog == Spec => List!ImplementsLog
<1>1. Init => List!Init
  BY DEF Init, Feed!Init, List!Init, Feed!Unread, List!Unread, Feed!Left,
     List!Left
<1>2. [Next]_vars => [List!Next]_List!vars
  BY StepsOfList, SameSteps
<1>3. Spec => List!Spec
  BY <1>1, <1>2, PTL DEF Spec, List!Spec
<1>4. List!Spec => List!ImplementsLog
  BY ListAssumption, List!LogCorrect
<1>5. QED
  BY <1>3, <1>4, PTL

-----------------------------------------------------------------------------
(* The age on a tile.  It is what was right at some earlier hour; the rest *)
(* is arithmetic on the units.                                             *)

\* The age on the tile was written at an hour that is not in the future.
WrittenBefore ==
    /\ diff \in Int
    /\ \E e \in Int : e <= diff /\ shown = CalculateDuration(e)

\* Rounding to n hours moves an age by at most half a unit, and keeps order.
LEMMA RoundedNear ==
    ASSUME NEW d \in Int
    PROVE  /\ Rounded(d, 24) \in Int /\ Rounded(d, 168) \in Int
           /\ 24 * Rounded(d, 24) <= d + 12 /\ d < 24 * Rounded(d, 24) + 12
           /\ 168 * Rounded(d, 168) <= d + 84
           /\ d < 168 * Rounded(d, 168) + 84
  BY DEF Rounded

\* The three branches: what each writes, and how it reads in hours.
LEMMA InHours ==
    ASSUME NEW d \in Int, d <= 24
    PROVE  /\ CalculateDuration(d) = [unit |-> 1, count |-> d]
           /\ CalculateDuration(d).unit = 1
           /\ Hours(CalculateDuration(d)) = d
<1>1. CalculateDuration(d) = [unit |-> 1, count |-> d]
  BY DEF CalculateDuration
<1> QED BY <1>1 DEF Hours

LEMMA InDays ==
    ASSUME NEW d \in Int, 24 < d, d < 180
    PROVE  /\ Rounded(d, 24) \in 1 .. 7
           /\ CalculateDuration(d) = [unit |-> 24, count |-> Rounded(d, 24)]
           /\ CalculateDuration(d).unit = 24
           /\ Hours(CalculateDuration(d)) = 24 * Rounded(d, 24)
<1>1. Rounded(d, 24) \in 1 .. 7
  BY DEF Rounded
<1>2. ~(d <= 24) /\ Rounded(d, 24) <= 7
  BY <1>1
<1>3. CalculateDuration(d) = [unit |-> 24, count |-> Rounded(d, 24)]
  BY <1>2 DEF CalculateDuration
<1> QED BY <1>1, <1>3 DEF Hours

LEMMA InWeeks ==
    ASSUME NEW d \in Int, 180 <= d
    PROVE  /\ Rounded(d, 168) \in Nat \ {0}
           /\ CalculateDuration(d) = [unit |-> 168, count |-> Rounded(d, 168)]
           /\ CalculateDuration(d).unit = 168
           /\ Hours(CalculateDuration(d)) = 168 * Rounded(d, 168)
<1>1. Rounded(d, 168) \in Nat \ {0}
  BY RoundedNear
<1>2. ~(d <= 24) /\ ~(Rounded(d, 24) <= 7)
  BY RoundedNear
<1>3. CalculateDuration(d) = [unit |-> 168, count |-> Rounded(d, 168)]
  BY <1>2 DEF CalculateDuration
<1> QED BY <1>1, <1>3 DEF Hours

LEMMA Branches ==
    ASSUME NEW d \in Int
    PROVE  d <= 24 \/ (24 < d /\ d < 180) \/ 180 <= d
  OBVIOUS

\* An older alarm never reads younger.
LEMMA HoursMonotone ==
    ASSUME NEW d \in Int, NEW e \in Int, d <= e
    PROVE  Hours(CalculateDuration(d)) <= Hours(CalculateDuration(e))
<1>1. CASE d <= 24 /\ e <= 24
  BY <1>1, InHours
<1>2. CASE d <= 24 /\ 24 < e /\ e < 180
  BY <1>2, InHours, InDays
<1>3. CASE d <= 24 /\ 180 <= e
  BY <1>3, InHours, InWeeks
<1>4. CASE 24 < d /\ e < 180
  <2>1. Rounded(d, 24) <= Rounded(e, 24)
    BY RoundedNear
  <2> QED BY <1>4, <2>1, InDays
<1>5. CASE 24 < d /\ d < 180 /\ 180 <= e
  <2>1. Hours(CalculateDuration(d)) <= 168
    BY <1>5, InDays
  <2>2. Hours(CalculateDuration(e)) >= 168
    BY <1>5, InWeeks
  <2>3. Rounded(d, 24) \in Int /\ Rounded(e, 168) \in Int
    BY RoundedNear
  <2> QED BY <1>5, <2>1, <2>2, <2>3, InDays, InWeeks
<1>6. CASE 180 <= d
  <2>1. Rounded(d, 168) <= Rounded(e, 168)
    BY RoundedNear
  <2> QED BY <1>6, <2>1, InWeeks
<1> QED BY <1>1, <1>2, <1>3, <1>4, <1>5, <1>6

LEMMA Near ==
    ASSUME NEW d \in Int
    PROVE  /\ Hours(CalculateDuration(d)) \in Int
           /\ CalculateDuration(d).unit \in {1, 24, 168}
           /\ 2 * (Hours(CalculateDuration(d)) - d) <= CalculateDuration(d).unit
           /\ 2 * Distance(Hours(CalculateDuration(d)), d)
                    <= CalculateDuration(d).unit
<1>1. CASE d <= 24
  BY <1>1, InHours DEF Distance
<1>2. CASE 24 < d /\ d < 180
  <2>1. /\ Hours(CalculateDuration(d)) = 24 * Rounded(d, 24)
        /\ CalculateDuration(d).unit = 24
    BY <1>2, InDays
  <2>2. /\ Rounded(d, 24) \in Int
        /\ 24 * Rounded(d, 24) <= d + 12 /\ d < 24 * Rounded(d, 24) + 12
    BY RoundedNear
  <2>3. /\ 24 * Rounded(d, 24) \in Int
        /\ 2 * (24 * Rounded(d, 24) - d) <= 24
        /\ 2 * (d - 24 * Rounded(d, 24)) <= 24
    BY <2>2
  <2> QED BY <2>1, <2>3 DEF Distance
<1>3. CASE 180 <= d
  <2>1. /\ Hours(CalculateDuration(d)) = 168 * Rounded(d, 168)
        /\ CalculateDuration(d).unit = 168
    BY <1>3, InWeeks
  <2>2. /\ Rounded(d, 168) \in Int
        /\ 168 * Rounded(d, 168) <= d + 84 /\ d < 168 * Rounded(d, 168) + 84
    BY RoundedNear
  <2>3. /\ 168 * Rounded(d, 168) \in Int
        /\ 2 * (168 * Rounded(d, 168) - d) <= 168
        /\ 2 * (d - 168 * Rounded(d, 168)) <= 168
    BY <2>2
  <2> QED BY <2>1, <2>3 DEF Distance
<1> QED BY <1>1, <1>2, <1>3

LEMMA AgeInvariance == AgeSpec => []WrittenBefore
<1>1. AgeInit => WrittenBefore
  BY AlarmAgeAssumption DEF AgeInit, WrittenBefore
<1>2. WrittenBefore /\ [AgeNext]_ageVars => WrittenBefore'
  <2> SUFFICES ASSUME WrittenBefore, [AgeNext]_ageVars PROVE WrittenBefore'
    OBVIOUS
  <2>1. PICK e \in Int : e <= diff /\ shown = CalculateDuration(e)
    BY DEF WrittenBefore
  <2>2. CASE HourPasses
    <3>1. e <= diff' /\ diff' \in Int /\ shown' = CalculateDuration(e)
      BY <2>1, <2>2 DEF HourPasses, WrittenBefore
    <3> QED BY <3>1 DEF WrittenBefore
  <2>3. CASE TileBuilt
    <3>1. diff' \in Int /\ diff <= diff' /\ shown' = CalculateDuration(diff)
      BY <2>3 DEF TileBuilt, WrittenBefore
    <3> QED BY <3>1 DEF WrittenBefore
  <2>4. CASE UNCHANGED ageVars
    BY <2>1, <2>4 DEF ageVars, WrittenBefore
  <2> QED BY <2>2, <2>3, <2>4 DEF AgeNext
<1> QED BY <1>1, <1>2, PTL DEF AgeSpec

-----------------------------------------------------------------------------

\* Whatever the age of an alarm, its tile writes whole hours, or at least one
\* day or week.
THEOREM AgeTypeCorrect == AgeSpec => []AgeTypeOK
<1>1. WrittenBefore => AgeTypeOK
  <2> SUFFICES ASSUME WrittenBefore PROVE AgeTypeOK
    OBVIOUS
  <2>1. PICK e \in Int : shown = CalculateDuration(e)
    BY DEF WrittenBefore
  <2>2. \/ shown \in [unit : {1}, count : Int]
        \/ shown \in [unit : {24, 168}, count : Nat \ {0}]
    BY <2>1, Branches, InHours, InDays, InWeeks
  <2> QED BY <2>2 DEF AgeTypeOK, WrittenBefore
<1> QED BY <1>1, AgeInvariance, PTL

\* No build of a tile makes its alarm look younger, at any age.
THEOREM AgeNeverShrinksAtAnyAge == AgeSpec => AgeNeverShrinks
<1>1. WrittenBefore /\ [AgeNext]_ageVars =>
        [Hours(shown') >= Hours(shown)]_ageVars
  <2> SUFFICES ASSUME WrittenBefore, AgeNext PROVE Hours(shown') >= Hours(shown)
    OBVIOUS
  <2>1. PICK e \in Int : e <= diff /\ shown = CalculateDuration(e)
    BY DEF WrittenBefore
  <2>2. diff \in Int /\ Hours(CalculateDuration(e)) \in Int
        /\ Hours(CalculateDuration(diff)) \in Int
    BY Near DEF WrittenBefore
  <2>3. CASE HourPasses
    BY <2>1, <2>2, <2>3 DEF HourPasses
  <2>4. CASE TileBuilt
    <3>1. Hours(CalculateDuration(e)) <= Hours(CalculateDuration(diff))
      BY <2>1, <2>2, HoursMonotone
    <3>2. shown' = CalculateDuration(diff)
      BY <2>4 DEF TileBuilt
    <3> QED BY <2>1, <2>2, <3>1, <3>2
  <2> QED BY <2>3, <2>4 DEF AgeNext
<1> QED BY <1>1, AgeInvariance, PTL DEF AgeSpec, AgeNeverShrinks

\* What is written is within half a unit of the age, whatever the age.
THEOREM AgeIsNearAtAnyAge == AgeSpec => []AgeIsNear
<1>1. WrittenBefore => AgeIsNear
  <2> SUFFICES ASSUME WrittenBefore PROVE AgeIsNear
    OBVIOUS
  <2>1. PICK e \in Int : e <= diff /\ shown = CalculateDuration(e)
    BY DEF WrittenBefore
  <2>2. diff \in Int
    BY DEF WrittenBefore
  <2>3. /\ Hours(shown) \in Int /\ shown.unit \in Int
        /\ 2 * (Hours(shown) - e) <= shown.unit
    BY <2>1, Near
  <2> QED BY <2>1, <2>2, <2>3, Near DEF AgeIsNear
<1> QED BY <1>1, AgeInvariance, PTL
=============================================================================
