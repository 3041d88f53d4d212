--------------------------- MODULE AlarmFeedProofs ---------------------------
(***************************************************************************)
(* What AlarmFeed satisfies for every length of the list, size and number  *)
(* of batches, and number of sessions.                                     *)
(***************************************************************************)
EXTENDS AlarmFeed, SequenceTheorems, TLAPS

\* The page's lists are one list, a copy of the beginning of the global one.
Copied ==
    /\ temp = isReads
    /\ alarmLength = Len(isReads)
    /\ tiles <= alarmLength
    /\ Len(isReads) <= Len(alarms)
    /\ \A i \in 1 .. Len(isReads) : isReads[i] = alarms[i]

\* Once a load of the bloc has completed, every call of a closed bloc has,
\* and the copy is the whole list.
CaughtUp ==
    readMoreCount < ReadMoreCount =>
        /\ late["batch"] = 0
        /\ late["nothing"] = 0
        /\ Len(isReads) = Len(alarms)

\* The inductive invariant.
FeedInv ==
    /\ TypeOK
    /\ mounted => /\ Copied
                  /\ CaughtUp
                  /\ OneLoadAtATime
                  /\ isEnd => ~isLoading /\ readMoreCount < 0
                  /\ batches = IF readMoreCount > 0
                                 THEN ReadMoreCount - readMoreCount
                                 ELSE ReadMoreCount

-----------------------------------------------------------------------------

LEMMA UnreadType ==
    ASSUME NEW n \in Nat
    PROVE  /\ Unread(n) \in Seq(BOOLEAN)
           /\ Len(Unread(n)) = n
<1>1. Unread(n) \in [1 .. n -> BOOLEAN]
  BY DEF Unread
<1>2. QED
  BY <1>1

\* Appending unread alarms keeps the list's beginning.
LEMMA UnreadAppended ==
    ASSUME NEW s \in Seq(BOOLEAN), NEW n \in Nat
    PROVE  /\ s \o Unread(n) \in Seq(BOOLEAN)
           /\ Len(s \o Unread(n)) = Len(s) + n
           /\ \A i \in 1 .. Len(s) : (s \o Unread(n))[i] = s[i]
<1>1. Unread(n) \in Seq(BOOLEAN) /\ Len(Unread(n)) = n
  BY UnreadType
<1>2. s \o Unread(n) \in Seq(BOOLEAN) /\ Len(s \o Unread(n)) = Len(s) + n
  BY <1>1
<1>3. \A i \in 1 .. Len(s) : (s \o Unread(n))[i] = s[i]
  BY <1>1
<1>4. QED
  BY <1>2, <1>3, Zenon

\* Marking an alarm keeps the list's length.
LEMMA Marked ==
    ASSUME NEW s \in Seq(BOOLEAN), NEW i \in 1 .. Len(s)
    PROVE  /\ [s EXCEPT ![i] = TRUE] \in Seq(BOOLEAN)
           /\ Len([s EXCEPT ![i] = TRUE]) = Len(s)
           /\ \A j \in 1 .. Len(s) :
                [s EXCEPT ![i] = TRUE][j] = IF j = i THEN TRUE ELSE s[j]
<1>1. /\ [s EXCEPT ![i] = TRUE] \in Seq(BOOLEAN)
      /\ Len([s EXCEPT ![i] = TRUE]) = Len(s)
  OBVIOUS
<1>2. \A j \in 1 .. Len(s) :
        [s EXCEPT ![i] = TRUE][j] = IF j = i THEN TRUE ELSE s[j]
  BY LenProperties, Zenon
<1>3. QED
  BY <1>1, <1>2, Zenon

-----------------------------------------------------------------------------

LEMMA FeedInit == Init => FeedInv
<1>1. SUFFICES ASSUME Init PROVE FeedInv
  OBVIOUS
<1>2. alarms \in Seq(BOOLEAN)
  BY <1>1, UnreadType, FeedAssumption DEF Init
<1>3. /\ <<>> \in Seq(BOOLEAN)
      /\ [left \in Left |-> 0] \in [Left -> Nat]
  OBVIOUS
<1>4. ReadMoreCount \in Int /\ ReadMoreCount <= ReadMoreCount
  BY FeedAssumption
<1>5. TypeOK
  BY <1>1, <1>2, <1>3, <1>4 DEF Init, TypeOK
<1>6. QED
  BY <1>1, <1>5 DEF Init, FeedInv

LEMMA MountKeepsInv == FeedInv /\ Mount => FeedInv'
<1>1. SUFFICES ASSUME FeedInv, Mount PROVE FeedInv'
  OBVIOUS
<1>2. TypeOK
  BY <1>1 DEF FeedInv
<1>3. TypeOK'
  <2>1. ReadMoreCount \in Int /\ ReadMoreCount <= ReadMoreCount
    BY FeedAssumption
  <2>2. Len(alarms) \in Nat /\ sessions + 1 \in Nat
    BY <1>2 DEF TypeOK
  <2>3. QED
    BY <1>1, <1>2, <2>1, <2>2 DEF Mount, TypeOK
<1>4. Copied'
  BY <1>1, <1>2 DEF Mount, TypeOK, Copied
<1>5. QED
  BY <1>1, <1>3, <1>4, FeedAssumption
  DEF Mount, FeedInv, CaughtUp, OneLoadAtATime

LEMMA BuildKeepsInv == FeedInv /\ Build => FeedInv'
<1>1. SUFFICES ASSUME FeedInv, Build PROVE FeedInv'
  OBVIOUS
<1>2. TypeOK'
  BY <1>1 DEF FeedInv, TypeOK, Build, load
<1>3. Copied'
  BY <1>1 DEF FeedInv, TypeOK, Build, Copied
<1>4. QED
  BY <1>1, <1>2, <1>3
  DEF FeedInv, Build, CaughtUp, OneLoadAtATime, load

LEMMA SelectKeepsInv ==
    ASSUME FeedInv, NEW f \in {"all", "priority"}, Select(f)
    PROVE  FeedInv'
<1>1. TypeOK'
  BY DEF FeedInv, TypeOK, Select, load, lists
<1>2. Copied'
  BY DEF FeedInv, TypeOK, Select, Copied, lists
<1>3. QED
  BY <1>1, <1>2
  DEF FeedInv, Select, CaughtUp, OneLoadAtATime, load, lists

LEMMA ScrollKeepsInv == FeedInv /\ ScrollNearEnd => FeedInv'
<1>1. SUFFICES ASSUME FeedInv, ScrollNearEnd PROVE FeedInv'
  OBVIOUS
<1>2. TypeOK'
  <2>1. loads' \in Nat
    BY <1>1 DEF FeedInv, TypeOK, ScrollNearEnd
  <2>2. /\ TypeOK /\ isLoading' \in BOOLEAN /\ isEnd' \in BOOLEAN
        /\ UNCHANGED <<alarms, mounted, filter, tiles, readMoreCount, batches,
                       temp, alarmLength, isReads, late, sessions>>
    BY <1>1 DEF FeedInv, ScrollNearEnd, view, lists
  <2>3. QED
    BY <2>1, <2>2 DEF TypeOK
<1>3. Copied'
  BY <1>1 DEF FeedInv, ScrollNearEnd, Copied, view, lists
<1>4. OneLoadAtATime'
  BY <1>1 DEF FeedInv, TypeOK, ScrollNearEnd, Unlocked, OneLoadAtATime, view
<1>5. QED
  BY <1>1, <1>2, <1>3, <1>4
  DEF FeedInv, ScrollNearEnd, CaughtUp, view, lists

LEMMA LoadDoneKeepsInv == FeedInv /\ LoadDone => FeedInv'
<1>1. SUFFICES ASSUME FeedInv, LoadDone PROVE FeedInv'
  OBVIOUS
<1>2. /\ TypeOK /\ mounted /\ mounted' /\ Copied /\ CaughtUp
      /\ late["batch"] = 0 /\ late["nothing"] = 0 /\ late' = late
      /\ loads = 1 /\ isLoading /\ ~isEnd
  <2>1. /\ TypeOK /\ mounted /\ mounted' /\ Copied /\ CaughtUp
        /\ OneLoadAtATime /\ (isEnd => ~isLoading)
    BY <1>1 DEF FeedInv, LoadDone, view
  <2>2. late["batch"] = 0 /\ late["nothing"] = 0 /\ late' = late
    BY <1>1 DEF LoadDone, EarlierCallsDone, Left
  <2>3. loads = 1 /\ isLoading
    <3>1. loads # 0
      BY <1>1 DEF LoadDone
    <3>2. loads = IF isLoading THEN 1 ELSE 0
      BY <2>1 DEF OneLoadAtATime
    <3>3. QED
      BY <3>1, <3>2
  <2>4. QED
    BY <2>1, <2>2, <2>3
<1>3. loads' = 0 /\ isLoading' = FALSE /\ readMoreCount' = readMoreCount - 1
  BY <1>1, <1>2 DEF LoadDone, Unlock, Counted
<1>4. CASE /\ readMoreCount > 0
           /\ alarms' = alarms \o Unread(Batch)
           /\ temp' = alarms' /\ isReads' = alarms'
           /\ batches' = batches + 1
           /\ UNCHANGED isEnd
  <2>1. alarms' \in Seq(BOOLEAN) /\ Len(alarms) <= Len(alarms')
    BY <1>2, <1>4, UnreadAppended, FeedAssumption DEF TypeOK
  <2>2. TypeOK'
    <3>1. /\ loads' \in Nat /\ batches' \in Nat /\ alarmLength' \in Nat
          /\ readMoreCount' \in Int /\ readMoreCount' <= ReadMoreCount
      BY <1>1, <1>2, <1>3, <1>4, <2>1, FeedAssumption DEF TypeOK, LoadDone
    <3>2. /\ isLoading' \in BOOLEAN
          /\ UNCHANGED <<mounted, filter, tiles, isEnd, late, sessions>>
      BY <1>1, <1>3, <1>4 DEF LoadDone, view
    <3>3. QED
      BY <1>2, <1>4, <2>1, <3>1, <3>2 DEF TypeOK
  <2>3. Copied'
    BY <1>1, <1>2, <1>4, <2>1 DEF Copied, LoadDone, view, TypeOK
  <2>4. CaughtUp'
    BY <1>2, <1>4 DEF CaughtUp
  <2>5. batches' = IF readMoreCount' > 0
                     THEN ReadMoreCount - readMoreCount' ELSE ReadMoreCount
    BY <1>1, <1>2, <1>3, <1>4, FeedAssumption DEF FeedInv, TypeOK
  <2>6. QED
    BY <1>2, <1>3, <1>4, <2>2, <2>3, <2>4, <2>5
    DEF FeedInv, OneLoadAtATime
<1>5. CASE /\ readMoreCount <= 0
           /\ isEnd' = TRUE
           /\ UNCHANGED <<alarms, temp, isReads, batches>>
  <2>1. alarmLength' = alarmLength /\ Len(isReads) = Len(alarms)
    BY <1>1, <1>2, <1>5, FeedAssumption
    DEF LoadDone, Copied, CaughtUp, TypeOK
  <2>2. TypeOK'
    <3>1. /\ loads' \in Nat /\ alarmLength' \in Nat
          /\ readMoreCount' \in Int /\ readMoreCount' <= ReadMoreCount
      BY <1>2, <1>3, <2>1, FeedAssumption DEF TypeOK
    <3>2. /\ isLoading' \in BOOLEAN /\ isEnd' \in BOOLEAN
          /\ UNCHANGED <<mounted, filter, tiles, late, sessions>>
      BY <1>1, <1>3, <1>5 DEF LoadDone, view
    <3>3. QED
      BY <1>2, <1>5, <3>1, <3>2 DEF TypeOK
  <2>3. Copied'
    BY <1>1, <1>2, <1>5, <2>1 DEF Copied, LoadDone, view
  <2>4. CaughtUp'
    BY <1>2, <1>5, <2>1 DEF CaughtUp
  <2>5. /\ readMoreCount' < 0
        /\ batches' = IF readMoreCount' > 0
                        THEN ReadMoreCount - readMoreCount' ELSE ReadMoreCount
    BY <1>1, <1>2, <1>3, <1>5, FeedAssumption DEF FeedInv, TypeOK
  <2>6. QED
    BY <1>2, <1>3, <1>5, <2>2, <2>3, <2>4, <2>5
    DEF FeedInv, OneLoadAtATime
<1>6. readMoreCount > 0 \/ readMoreCount <= 0
  BY <1>2 DEF TypeOK
<1>7. QED
  <2>1. CASE HasBatch
    BY <1>1, <1>4, <2>1 DEF LoadDone, HasBatch
  <2>2. CASE ~HasBatch
    BY <1>1, <1>5, <1>6, <2>2 DEF LoadDone, HasBatch
  <2>3. QED
    BY <2>1, <2>2

\* A late alarm comes before the first load of the open bloc completes: the
\* copy stays a beginning of the list.
LEMMA LateKeepsInv ==
    ASSUME FeedInv, NEW left \in Left, LateLoadDone(left)
    PROVE  FeedInv'
<1>1. TypeOK /\ late \in [Left -> Nat] /\ late[left] > 0
  BY DEF FeedInv, TypeOK, LateLoadDone
<1>2. /\ alarms' \in Seq(BOOLEAN)
      /\ Len(alarms) <= Len(alarms')
      /\ \A i \in 1 .. Len(alarms) : alarms'[i] = alarms[i]
  <2>1. alarms \in Seq(BOOLEAN)
    BY <1>1 DEF TypeOK
  <2>2. CASE left = "batch"
    <3>1. alarms' = alarms \o Unread(1)
      BY <2>2 DEF LateLoadDone
    <3>2. QED
      BY <2>1, <3>1, UnreadAppended
  <2>3. CASE left # "batch"
    BY <2>1, <2>3 DEF LateLoadDone
  <2>4. QED
    BY <2>2, <2>3
<1>3. late' \in [Left -> Nat]
  BY <1>1 DEF LateLoadDone
<1>4. TypeOK'
  BY <1>1, <1>2, <1>3 DEF TypeOK, LateLoadDone, view, load, lists
<1>5. mounted => Copied'
  BY <1>1, <1>2 DEF FeedInv, Copied, LateLoadDone, view, lists, TypeOK
<1>6. mounted => ~(readMoreCount < ReadMoreCount)
  <2>1. late["batch"] # 0 \/ late["nothing"] # 0
    BY <1>1 DEF Left
  <2>2. QED
    BY <2>1 DEF FeedInv, CaughtUp
<1>7. QED
  BY <1>4, <1>5, <1>6
  DEF FeedInv, CaughtUp, OneLoadAtATime, LateLoadDone, view, load, lists

LEMMA PressKeepsInv ==
    ASSUME FeedInv, NEW i \in 1 .. tiles, Press(i)
    PROVE  FeedInv'
<1>1. TypeOK /\ mounted /\ Copied
  BY DEF FeedInv, Press
<1>2. i \in 1 .. Len(isReads) /\ i \in 1 .. Len(alarms)
  BY <1>1 DEF Copied, TypeOK
<1>3. /\ isReads' = [isReads EXCEPT ![i] = TRUE]
      /\ temp' = isReads'
      /\ alarms' = [alarms EXCEPT ![i] = TRUE]
  BY <1>1 DEF Press, Copied
<1>4. /\ isReads' \in Seq(BOOLEAN) /\ alarms' \in Seq(BOOLEAN)
      /\ Len(isReads') = Len(isReads) /\ Len(alarms') = Len(alarms)
  BY <1>1, <1>2, <1>3, Marked DEF TypeOK
<1>5. \A j \in 1 .. Len(isReads) : isReads'[j] = alarms'[j]
  <2>1. isReads \in Seq(BOOLEAN) /\ alarms \in Seq(BOOLEAN)
    BY <1>1 DEF TypeOK
  <2>2. \A j \in 1 .. Len(isReads) :
          isReads'[j] = IF j = i THEN TRUE ELSE isReads[j]
    <3>1. \A j \in 1 .. Len(isReads) :
            [isReads EXCEPT ![i] = TRUE][j] = IF j = i THEN TRUE ELSE isReads[j]
      BY <1>2, <2>1, Marked
    <3> QED
      BY <1>3, <3>1, Zenon
  <2>3. \A j \in 1 .. Len(alarms) :
          alarms'[j] = IF j = i THEN TRUE ELSE alarms[j]
    <3>1. \A j \in 1 .. Len(alarms) :
            [alarms EXCEPT ![i] = TRUE][j] = IF j = i THEN TRUE ELSE alarms[j]
      BY <1>2, <2>1, Marked
    <3> QED
      BY <1>3, <3>1, Zenon
  <2>4. \A j \in 1 .. Len(isReads) :
          j \in 1 .. Len(alarms) /\ isReads[j] = alarms[j]
    BY <1>1 DEF Copied, TypeOK
  <2>5. QED
    BY <2>2, <2>3, <2>4, Zenon
<1>6. TypeOK'
  BY <1>1, <1>3, <1>4 DEF TypeOK, Press, view, load
<1>7. Copied'
  BY <1>1, <1>3, <1>4, <1>5 DEF Copied, Press, view
<1>8. CaughtUp'
  BY <1>1, <1>4 DEF FeedInv, CaughtUp, Press, load
<1>9. QED
  BY <1>1, <1>6, <1>7, <1>8 DEF FeedInv, OneLoadAtATime, Press, view, load

LEMMA DisposeKeepsInv == FeedInv /\ Dispose => FeedInv'
<1>1. SUFFICES ASSUME FeedInv, Dispose PROVE FeedInv'
  OBVIOUS
<1>2. late' \in [Left -> Nat]
  <2> DEFINE k == IF readMoreCount > 0 THEN "batch" ELSE "nothing"
  <2>1. k \in Left
    BY DEF Left
  <2>2. late' = [late EXCEPT ![k] = @ + loads]
    BY <1>1 DEF Dispose, HasBatch
  <2>3. late \in [Left -> Nat] /\ loads \in Nat
    BY <1>1 DEF FeedInv, TypeOK
  <2> HIDE DEF k
  <2>4. QED
    BY <2>1, <2>2, <2>3
<1>3. <<>> \in Seq(BOOLEAN)
  OBVIOUS
<1>4. TypeOK'
  BY <1>1, <1>2, <1>3 DEF FeedInv, TypeOK, Dispose
<1>5. QED
  BY <1>1, <1>4 DEF FeedInv, Dispose

LEMMA FeedStep == FeedInv /\ [Next]_vars => FeedInv'
<1>1. SUFFICES ASSUME FeedInv, [Next]_vars PROVE FeedInv'
  OBVIOUS
<1>2. CASE UNCHANGED vars
  BY <1>1, <1>2 DEF vars, view, load, lists, FeedInv, TypeOK, Copied,
     CaughtUp, OneLoadAtATime
<1>3. CASE Next
  BY <1>1, <1>3, MountKeepsInv, BuildKeepsInv, SelectKeepsInv, ScrollKeepsInv,
     LoadDoneKeepsInv, LateKeepsInv, PressKeepsInv, DisposeKeepsInv DEF Next
<1>4. QED
  BY <1>1, <1>2, <1>3

\* The invariant on which the theorems rest: the flags the page shows are a
\* copy of the beginning of the global list, and of all of it from the first
\* load that completes (init and readMore, alarm_bloc.dart).
THEOREM FeedInvariant == Spec => []FeedInv
BY FeedInit, FeedStep, PTL DEF Spec

-----------------------------------------------------------------------------

\* The lists of the bloc, the page and the global list keep their types.
THEOREM TypeCorrect == Spec => []TypeOK
<1>1. FeedInv => TypeOK
  BY DEF FeedInv
<1>2. QED
  BY <1>1, FeedInvariant, PTL

\* The builder of the alarm page and its tiles never index past the end of
\* _temp or of `alarms`, although readMore publishes the length of the global
\* list without its flags once no batch is left.
THEOREM ListBackedCorrect == Spec => []ListBacked
<1>1. FeedInv => ListBacked
  BY DEF FeedInv, TypeOK, Copied, ListBacked
<1>2. QED
  BY <1>1, FeedInvariant, PTL

\* _isLoading locks readMore: no bloc has two suspended calls.
THEOREM OneLoadCorrect == Spec => []OneLoadAtATime
<1>1. FeedInv => OneLoadAtATime
  BY DEF FeedInv, OneLoadAtATime
<1>2. QED
  BY <1>1, FeedInvariant, PTL

\* isEnd collapses the loading tiles only after the last batch and never
\* while a readMore is suspended.
THEOREM EndIsHonestCorrect == Spec => []EndIsHonest
<1>1. FeedInv => EndIsHonest
  BY DEF FeedInv, TypeOK, EndIsHonest
<1>2. QED
  BY <1>1, FeedInvariant, PTL

-----------------------------------------------------------------------------

\* What the open bloc may still add.
Remaining(b) == Batch * (ReadMoreCount - b)

\* What the open bloc, if any, may still add.
ToCome == IF mounted THEN Remaining(batches) ELSE 0

\* How long the list may be in the n-th session.
Bound(n) == InitialAlarms + Batch * ReadMoreCount * n

\* The list, what suspended loads of closed blocs will add to it and what the
\* open bloc may still add are within the bound.
GrowthInv ==
    Len(alarms) + late["batch"] + ToCome <= Bound(sessions)

LEMMA RemainingFacts ==
    /\ Remaining(0) \in Nat
    /\ \A b \in Nat : /\ Remaining(b) \in Int
                      /\ Remaining(b + 1) = Remaining(b) - Batch
                      /\ b < ReadMoreCount => Remaining(b) >= 1
                      /\ b <= ReadMoreCount => Remaining(b) >= 0
BY FeedAssumption, SMTT(30) DEF Remaining

\* The bound grows by what a session may add.
LEMMA BoundFacts ==
    /\ Bound(0) = InitialAlarms
    /\ \A n \in Nat : /\ Bound(n) \in Nat
                      /\ Bound(n + 1) = Bound(n) + Remaining(0)
BY FeedAssumption, SMTT(30) DEF Bound, Remaining

LEMMA GrowthInit == Init => GrowthInv
<1>1. SUFFICES ASSUME Init PROVE GrowthInv
  OBVIOUS
<1>2. /\ Len(alarms) = InitialAlarms /\ late["batch"] = 0
      /\ ~mounted /\ sessions = 0
  BY <1>1, UnreadType, FeedAssumption DEF Init, Left
<1>3. QED
  BY <1>2, BoundFacts, FeedAssumption DEF GrowthInv, ToCome

LEMMA GrowthStep == FeedInv /\ GrowthInv /\ [Next]_vars => GrowthInv'
<1>1. SUFFICES ASSUME FeedInv, GrowthInv, [Next]_vars PROVE GrowthInv'
  OBVIOUS
<1>2. /\ alarms \in Seq(BOOLEAN) /\ Len(alarms) \in Nat
      /\ late \in [Left -> Nat] /\ late["batch"] \in Nat
      /\ batches \in Nat /\ sessions \in Nat /\ loads \in Nat
      /\ InitialAlarms \in Nat /\ Batch \in Nat \ {0}
      /\ Bound(sessions) \in Nat /\ ToCome \in Int
  <2>1. /\ alarms \in Seq(BOOLEAN) /\ Len(alarms) \in Nat
        /\ late \in [Left -> Nat] /\ late["batch"] \in Nat
        /\ batches \in Nat /\ sessions \in Nat /\ loads \in Nat
    BY <1>1 DEF FeedInv, TypeOK, Left
  <2>2. Bound(sessions) \in Nat /\ Remaining(batches) \in Int
    BY <2>1, BoundFacts, RemainingFacts
  <2>3. ToCome \in Int
    BY <2>2 DEF ToCome
  <2>4. QED
    BY <2>1, <2>2, <2>3, FeedAssumption
<1>3. CASE UNCHANGED <<alarms, late, mounted, batches, sessions>>
  BY <1>1, <1>3 DEF GrowthInv, ToCome
<1>4. ASSUME Mount PROVE GrowthInv'
  <2>1. /\ ~mounted /\ mounted' /\ batches' = 0 /\ sessions' = sessions + 1
        /\ alarms' = alarms /\ late' = late
    BY <1>4 DEF Mount
  <2>2. ToCome = 0 /\ ToCome' = Remaining(0)
    BY <2>1 DEF ToCome
  <2>3. Bound(sessions') = Bound(sessions) + Remaining(0)
    BY <1>2, <2>1, BoundFacts
  <2>4. QED
    <3>1. Len(alarms) + late["batch"] <= Bound(sessions)
      BY <1>1, <1>2, <2>2 DEF GrowthInv
    <3>2. Remaining(0) \in Nat
      BY RemainingFacts
    <3>3. Len(alarms) + late["batch"] + Remaining(0)
            <= Bound(sessions) + Remaining(0)
      BY <1>2, <3>1, <3>2
    <3>4. QED
      BY <2>1, <2>2, <2>3, <3>3 DEF GrowthInv
<1>5. ASSUME LoadDone, readMoreCount > 0, batches' = batches + 1,
             alarms' = alarms \o Unread(Batch)
      PROVE  GrowthInv'
  <2>1. Len(alarms') = Len(alarms) + Batch
    BY <1>2, <1>5, UnreadAppended
  <2>2. mounted /\ mounted' /\ late' = late /\ sessions' = sessions
    BY <1>5 DEF LoadDone, view
  <2>3. ToCome' = ToCome - Batch
    BY <1>2, <1>5, <2>2, RemainingFacts DEF ToCome
  <2>4. QED
    BY <1>1, <1>2, <2>1, <2>2, <2>3 DEF GrowthInv
<1>6. ASSUME NEW left \in Left, LateLoadDone(left) PROVE GrowthInv'
  <2>1. UNCHANGED <<mounted, batches, sessions>> /\ ToCome' = ToCome
    BY <1>6 DEF LateLoadDone, view, load, ToCome
  <2>2. CASE left = "batch"
    <3>1. Len(alarms') = Len(alarms) + 1
      BY <1>2, <1>6, <2>2, UnreadAppended DEF LateLoadDone
    <3>2. late'["batch"] = late["batch"] - 1
      BY <1>2, <1>6, <2>2 DEF LateLoadDone
    <3>3. QED
      BY <1>1, <1>2, <2>1, <3>1, <3>2 DEF GrowthInv
  <2>3. CASE left # "batch"
    <3>1. alarms' = alarms /\ late'["batch"] = late["batch"]
      BY <1>2, <1>6, <2>3 DEF LateLoadDone, Left
    <3>2. QED
      BY <1>1, <2>1, <3>1 DEF GrowthInv
  <2>4. QED
    BY <2>2, <2>3
<1>7. ASSUME NEW i \in 1 .. tiles, Press(i) PROVE GrowthInv'
  <2>1. Len(alarms') = Len(alarms)
    <3>1. i \in 1 .. Len(alarms)
      BY <1>1, <1>7 DEF FeedInv, Press, Copied, TypeOK
    <3>2. QED
      BY <1>2, <1>7, <3>1, Marked DEF Press
  <2>2. UNCHANGED <<late, mounted, batches, sessions>> /\ ToCome' = ToCome
    BY <1>7 DEF Press, view, load, ToCome
  <2>3. QED
    BY <1>1, <2>1, <2>2 DEF GrowthInv
<1>8. ASSUME Dispose PROVE GrowthInv'
  <2>1. /\ mounted /\ ~mounted' /\ alarms' = alarms /\ sessions' = sessions
        /\ loads <= 1 /\ ToCome = Remaining(batches) /\ ToCome' = 0
    BY <1>1, <1>8 DEF Dispose, FeedInv, OneLoadAtATime, ToCome
  <2>2. CASE readMoreCount > 0
    <3>1. late'["batch"] = late["batch"] + loads
      BY <1>2, <1>8, <2>2 DEF Dispose, HasBatch, Left
    <3>2. batches < ReadMoreCount
      BY <1>1, <2>1, <2>2, FeedAssumption DEF FeedInv, TypeOK
    <3>3. ToCome >= 1
      BY <1>2, <2>1, <3>2, RemainingFacts
    <3>4. QED
      BY <1>1, <1>2, <2>1, <3>1, <3>3 DEF GrowthInv
  <2>3. CASE ~(readMoreCount > 0)
    <3>1. late'["batch"] = late["batch"]
      BY <1>2, <1>8, <2>3 DEF Dispose, HasBatch, Left
    <3>2. batches <= ReadMoreCount
      BY <1>1, <2>1, <2>3, FeedAssumption DEF FeedInv, TypeOK
    <3>3. ToCome >= 0
      BY <1>2, <2>1, <3>2, RemainingFacts
    <3>4. QED
      BY <1>1, <1>2, <2>1, <3>1, <3>3 DEF GrowthInv
  <2>4. QED
    BY <2>2, <2>3
<1>9. ASSUME Build \/ ScrollNearEnd \/ \E f \in {"all", "priority"} : Select(f)
      PROVE  GrowthInv'
  BY <1>3, <1>9 DEF Build, ScrollNearEnd, Select, view, load
<1>10. ASSUME LoadDone, UNCHANGED <<alarms, temp, isReads, batches>>
       PROVE  GrowthInv'
  BY <1>3, <1>10 DEF LoadDone, view
<1>11. CASE UNCHANGED vars
  BY <1>3, <1>11 DEF vars, view, load
<1>12. ASSUME LoadDone PROVE GrowthInv'
  BY <1>5, <1>10, <1>12 DEF LoadDone, HasBatch
<1>13. QED
  BY <1>1, <1>4, <1>6, <1>7, <1>8, <1>9, <1>11, <1>12 DEF Next

\* However often users are signed out during a readMore, the global list grows
\* by at most one bloc's batches per session.
THEOREM GrowthCorrect == Spec => []GrowthBounded
<1>1. FeedInv /\ GrowthInv => GrowthBounded
  <2>1. SUFFICES ASSUME FeedInv, GrowthInv PROVE GrowthBounded
    OBVIOUS
  <2>2. /\ Len(alarms) \in Nat /\ late["batch"] \in Nat
        /\ batches \in Nat /\ sessions \in Nat
    BY <2>1 DEF FeedInv, TypeOK, Left
  <2>3. mounted => batches <= ReadMoreCount
    BY <2>1, FeedAssumption DEF FeedInv, TypeOK
  <2>4. ToCome \in Nat /\ Bound(sessions) \in Nat
    <3>1. Bound(sessions) \in Nat /\ Remaining(batches) \in Int
      BY <2>2, BoundFacts, RemainingFacts
    <3>2. mounted => Remaining(batches) >= 0
      BY <2>2, <2>3, RemainingFacts
    <3>3. QED
      BY <3>1, <3>2 DEF ToCome
  <2>5. Len(alarms) <= Bound(sessions)
    BY <2>1, <2>2, <2>4 DEF GrowthInv
  <2>6. QED
    BY <2>5 DEF Bound, GrowthBounded
<1>2. QED
  BY <1>1, GrowthInit, GrowthStep, FeedInvariant, PTL DEF Spec

-----------------------------------------------------------------------------

\* What the page lists, as NotificationLog sees it.
Listed == IF mounted THEN SubSeq(isReads, 1, alarmLength) ELSE <<>>

\* The page lists the bloc's whole copy of the flags.
CopyListed == Listed = IF mounted THEN isReads ELSE <<>>

LEMMA ListedIsCopy == FeedInv => CopyListed
<1>1. SUFFICES ASSUME FeedInv PROVE CopyListed
  OBVIOUS
<1>2. CASE mounted
  <2>1. isReads \in Seq(BOOLEAN) /\ alarmLength = Len(isReads)
    BY <1>1, <1>2 DEF FeedInv, TypeOK, Copied
  <2>2. SubSeq(isReads, 1, Len(isReads)) = isReads
    BY <2>1, SubSeqFull, Zenon
  <2>3. QED
    BY <1>2, <2>1, <2>2 DEF Listed, CopyListed
<1>3. CASE ~mounted
  BY <1>3 DEF Listed, CopyListed
<1>4. QED
  BY <1>2, <1>3

LEMMA ListedIsCopyNext == FeedInv' => CopyListed'
BY ListedIsCopy, PTL

LEMMA LogInit == Init => Log!Init
BY DEF Init, Log!Init, Unread, Log!Unread

LEMMA LogStep ==
    FeedInv /\ FeedInv' /\ [Next]_vars => [Log!Next]_<<alarms, Listed>>
<1>1. SUFFICES ASSUME FeedInv, FeedInv', [Next]_vars
               PROVE  [Log!Next]_<<alarms, Listed>>
  OBVIOUS
<1>2. /\ Listed = IF mounted THEN isReads ELSE <<>>
      /\ Listed' = IF mounted' THEN isReads' ELSE <<>>
  BY <1>1, ListedIsCopy, ListedIsCopyNext DEF CopyListed
<1>3. \A n \in Nat : Log!Unread(n) = Unread(n)
  BY DEF Unread, Log!Unread
<1>4. CASE UNCHANGED <<alarms, mounted, isReads>>
  BY <1>2, <1>4
<1>5. ASSUME Mount PROVE Log!Next
  BY <1>2, <1>5 DEF Mount, Log!Next, Log!Show, Listed
<1>6. ASSUME LoadDone, alarms' = alarms \o Unread(Batch), isReads' = alarms'
      PROVE  Log!Next
  <2>1. Batch \in 1 .. Batch /\ Batch \in Nat
    BY FeedAssumption
  <2>2. mounted'
    BY <1>6 DEF LoadDone, view
  <2>3. Listed' = alarms'
    BY <1>2, <1>6, <2>2
  <2>4. Log!Arrive
    BY <1>3, <1>6, <2>1, <2>3 DEF Log!Arrive, Listed
  <2>5. QED
    BY <2>4 DEF Log!Next
<1>7. ASSUME LateLoadDone("batch") PROVE Log!Next
  <2>1. 1 \in 1 .. Batch /\ 1 \in Nat
    BY FeedAssumption
  <2>2. alarms' = alarms \o Log!Unread(1)
    BY <1>3, <1>7, <2>1 DEF LateLoadDone
  <2>3. Listed' = Listed
    BY <1>2, <1>7 DEF LateLoadDone, view, lists
  <2>4. Log!Arrive
    BY <2>1, <2>2, <2>3 DEF Log!Arrive, Listed
  <2>5. QED
    BY <2>4 DEF Log!Next
<1>8. ASSUME NEW i \in 1 .. tiles, Press(i) PROVE Log!Next
  <2>1. /\ mounted /\ mounted' /\ Listed = isReads /\ Listed' = isReads'
        /\ temp = isReads /\ isReads' = [temp EXCEPT ![i] = TRUE]
        /\ alarms' = [alarms EXCEPT ![i] = TRUE]
    BY <1>1, <1>2, <1>8 DEF Press, view, FeedInv, Copied
  <2>2. i \in 1 .. Len(Listed)
    BY <1>1, <2>1 DEF FeedInv, TypeOK, Copied
  <2>3. Listed' = [Listed EXCEPT ![i] = TRUE]
    BY <2>1
  <2>4. Log!Read(i)
    BY <2>1, <2>3 DEF Log!Read, Listed
  <2>5. QED
    BY <2>2, <2>4 DEF Log!Next, Listed
<1>9. ASSUME Dispose PROVE Log!Next
  BY <1>2, <1>9 DEF Dispose, Log!Next, Log!Hide, Listed
<1>10. ASSUME Build \/ ScrollNearEnd
                    \/ \E f \in {"all", "priority"} : Select(f)
       PROVE  UNCHANGED <<alarms, mounted, isReads>>
  BY <1>10 DEF Build, ScrollNearEnd, Select, view, lists
<1>11. ASSUME NEW left \in Left, LateLoadDone(left), left # "batch"
       PROVE  UNCHANGED <<alarms, mounted, isReads>>
  BY <1>11 DEF LateLoadDone, view, lists
<1>12. ASSUME LoadDone
       PROVE  \/ alarms' = alarms \o Unread(Batch) /\ isReads' = alarms'
              \/ UNCHANGED <<alarms, mounted, isReads>>
  BY <1>12 DEF LoadDone, view
<1>13. CASE UNCHANGED vars
  BY <1>4, <1>13 DEF vars, view, lists
<1>14. QED
  BY <1>1, <1>4, <1>5, <1>6, <1>7, <1>8, <1>9, <1>10, <1>11, <1>12, <1>13
  DEF Next

\* The bloc, the page, the global list and the loads that complete too late
\* implement one append-only log whose entries never become unread again.
THEOREM LogCorrect == Spec => ImplementsLog
<1>1. Spec => Log!Init
  BY LogInit DEF Spec
<1>2. FeedInv /\ FeedInv' /\ [Next]_vars => [Log!Next]_<<alarms, Listed>>
  BY LogStep
<1>3. [][Log!Next]_<<alarms, Listed>> => [][Log!Next]_Log!vars
  BY DEF Log!vars, Listed
<1>4. QED
  BY <1>1, <1>2, <1>3, FeedInvariant, PTL DEF Spec, ImplementsLog, Log!Spec
=============================================================================
