------------------------- MODULE FirestoreReadsProofs --------------------------
(***************************************************************************)
(* Theorems about FirestoreReads, for any number of gets, versions, broken *)
(* streams and restarts, and any limit on the failures of the watch        *)
(* stream.                                                                 *)
(*                                                                         *)
(* The aggregator counts what is unanswered, and a stream that closes      *)
(* takes all of it along.  So a message is taken only when every request   *)
(* about the document was answered before it, the last one of them by a    *)
(* watch that is not older than the view: what it tells is fresh.          *)
(***************************************************************************)
EXTENDS FirestoreReads, FiniteSetTheorems, SequenceTheorems,
        WellFoundedInduction, TLAPS

-----------------------------------------------------------------------------
(* The inductive invariant. *)

Task == [op : {"add", "remove"}, get : Get]
Known == NoData .. LastVersion
EventRecord == [get : Get, version : Known, fromCache : BOOLEAN]
AckType == {"added", "removed"}
Response == [type : AckType \cup {"current", "snapshot"}, version : Known]

ReadsTypeOK ==
    /\ doc \in Version
    /\ cache \in NoData .. doc
    /\ tasks \in Seq(Task)
    /\ events \in Seq(EventRecord)
    /\ answer \in [Get -> Int]
    /\ listeners \in Seq(Get)
    /\ raised \in SUBSET Get
    /\ synced \in BOOLEAN
    /\ stream \in {"Initial", "Starting", "Open", "Backoff", "Error"}
    /\ idle \in BOOLEAN
    /\ target \in [outstanding : Nat, current : BOOLEAN]
    /\ requests \in Seq({"watch", "unwatch"})
    /\ responses \in Seq(Response)
    /\ watched \in Unwatched .. LastVersion
    /\ online \in {"Unknown", "Online", "Offline"}
    /\ failures \in Nat
    /\ timer \in BOOLEAN
    /\ since \in NoData .. doc

\* A stream that is not open has nothing under way.
Closed == ~IsOpen => requests = <<>> /\ responses = <<>> /\ watched = Unwatched

\* A client that is online has no failed attempt behind it.
OnlineIsFresh == online = "Online" => failures = 0

\* The last message about a request comes after position i.
Unanswered(i) ==
    requests # <<>> \/ \E j \in Acks : i < j

\* A snapshot that the aggregator would take is as new as the view.
SnapshotsAreFresh ==
    \A i \in DOMAIN responses : responses[i].type = "snapshot" =>
        /\ responses[i].version \in 0 .. doc
        /\ Unanswered(i) \/ since <= responses[i].version

\* A view in sync has listeners and a document, if only one that is missing.
SyncedHasDocument == synced => Listened /\ 0 <= cache

\* What is under way for a get, or listens, was asked for.
Asked ==
    /\ \A i \in DOMAIN tasks : answer[tasks[i].get] # Asleep
    /\ \A i \in DOMAIN listeners : answer[listeners[i]] # Asleep
    /\ \A i \in DOMAIN events :
        /\ answer[events[i].get] # Asleep
        /\ ~events[i].fromCache => 0 <= events[i].version

ReadsInv ==
    /\ ReadsTypeOK
    /\ Closed /\ OnlineIsFresh /\ TimersJustified
    /\ AcksMatch
    /\ SnapshotsAreFresh /\ SyncedHasDocument /\ SyncedIsFresh
    /\ Asked

-----------------------------------------------------------------------------
(* Positions in sequences. *)

\* The least-number principle, for a set of numbers.
LEMMA LeastNumber ==
    ASSUME NEW T \in SUBSET Nat, T # {}
    PROVE  \E x \in T : \A y \in T : x <= y
<1>1. \E R : /\ IsWellFoundedOn(R, Nat)
             /\ \A x, y \in Nat : <<y, x>> \in R <=> y < x
  <2> DEFINE R == OpToRel(<, Nat)
  <2>1. IsWellFoundedOn(R, Nat)
    BY NatLessThanWellFounded
  <2>2. \A x, y \in Nat : <<y, x>> \in R <=> y < x
    BY DEF OpToRel
  <2> HIDE DEF R
  <2> QED
    BY <2>1, <2>2
<1>2. PICK R : /\ IsWellFoundedOn(R, Nat)
               /\ \A x, y \in Nat : <<y, x>> \in R <=> y < x
  BY <1>1
<1>3. PICK x \in T : \A y \in T : ~(<<y, x>> \in R)
  BY <1>2, WFMin
<1>4. \A y \in T : ~(y < x)
  BY <1>2, <1>3
<1> QED
  BY <1>3, <1>4

\* As many positions as there are have an n-th one each.
LEMMA NthIsPlace ==
    ASSUME NEW k \in Nat, NEW places \in SUBSET (1 .. k)
    PROVE  /\ IsFiniteSet(places) /\ Cardinality(places) \in Nat
           /\ \A n \in 1 .. Cardinality(places) : Nth(places, n) \in places
<1> DEFINE UpTo(i) == {j \in places : j <= i}
           Rank == [i \in places |-> Cardinality(UpTo(i))]
           N == 1 .. Cardinality(places)
<1>1. IsFiniteSet(1 .. k)
  BY FS_Interval
<1>2. IsFiniteSet(places) /\ Cardinality(places) \in Nat
  BY <1>1, FS_Subset, FS_CardinalityType
<1>3. ASSUME NEW i \in places
      PROVE  IsFiniteSet(UpTo(i)) /\ Cardinality(UpTo(i)) \in N
  <2>1. UpTo(i) \in SUBSET places
    OBVIOUS
  <2>2. IsFiniteSet(UpTo(i)) /\ Cardinality(UpTo(i)) <= Cardinality(places)
    BY <1>2, <2>1, FS_Subset
  <2>3. i \in UpTo(i)
    OBVIOUS
  <2>4. Cardinality(UpTo(i)) \in Nat /\ Cardinality(UpTo(i)) # 0
    BY <2>2, <2>3, FS_CardinalityType, FS_EmptySet
  <2> HIDE DEF UpTo
  <2> QED
    BY <1>2, <2>2, <2>4
<1>4. ASSUME NEW i \in places, NEW j \in places, i < j
      PROVE  Rank[i] # Rank[j]
  <2>1. UpTo(i) \in SUBSET UpTo(j)
    <3>1. i \in Int /\ j \in Int /\ \A l \in places : l \in Int
      OBVIOUS
    <3>2. \A l \in places : l <= i => l <= j
      BY <1>4, <3>1
    <3> QED
      BY <3>2
  <2>2. UpTo(i) # UpTo(j)
    <3>1. j \in UpTo(j) /\ j \notin UpTo(i)
      BY <1>4
    <3> QED
      BY <3>1
  <2>3. IsFiniteSet(UpTo(j))
    BY <1>3
  <2> HIDE DEF UpTo
  <2> QED
    BY <2>1, <2>2, <2>3, FS_Subset
<1>5. Rank \in Injection(places, N)
  <2>1. Rank \in [places -> N]
    BY <1>3
  <2>2. \A i, j \in places : Rank[i] = Rank[j] => i = j
    <3>1. \A i, j \in places : i < j \/ j < i \/ i = j
      OBVIOUS
    <3> HIDE DEF Rank
    <3> QED
      BY <1>4, <3>1
  <2> HIDE DEF Rank, N
  <2> QED
    BY <2>1, <2>2 DEF Injection, IsInjective
<1>6. IsFiniteSet(N) /\ Cardinality(N) = Cardinality(places)
  BY <1>2, FS_Interval
<1>7. Rank \in Surjection(places, N)
  <2> HIDE DEF Rank, N
  <2> QED
    BY <1>5, <1>6, FS_Injection
<1>8. ASSUME NEW n \in N
      PROVE  \E i \in places : Cardinality(UpTo(i)) = n
  BY <1>7 DEF Surjection
<1> QED
  BY <1>2, <1>8 DEF Nth

\* The positions of the messages that answer a request.
AcksOf(s) == {i \in DOMAIN s : s[i].type \in AckType}

LEMMA AcksFinite ==
    ASSUME NEW s \in Seq(Response)
    PROVE  /\ IsFiniteSet(AcksOf(s)) /\ Cardinality(AcksOf(s)) \in Nat
           /\ AcksOf(s) \in SUBSET (1 .. Len(s))
           /\ Cardinality(AcksOf(<<>>)) = 0
<1>1. Len(s) \in Nat /\ AcksOf(s) \in SUBSET (1 .. Len(s))
  BY DEF AcksOf
<1>2. AcksOf(<<>>) = {}
  BY DEF AcksOf
<1>3. IsFiniteSet(1 .. Len(s))
  BY <1>1, FS_Interval
<1>4. IsFiniteSet(AcksOf(s))
  BY <1>1, <1>3, FS_Subset
<1> QED
  BY <1>1, <1>2, <1>4, FS_EmptySet, FS_CardinalityType

\* What comes in at the end of the messages.
LEMMA AcksAppend ==
    ASSUME NEW s \in Seq(Response), NEW m \in Response
    PROVE  Cardinality(AcksOf(Append(s, m)))
            = Cardinality(AcksOf(s)) + (IF m.type \in AckType THEN 1 ELSE 0)
<1>1. /\ Len(s) \in Nat /\ Append(s, m) \in Seq(Response)
      /\ Len(Append(s, m)) = Len(s) + 1
      /\ \A i \in 1 .. Len(s) : Append(s, m)[i] = s[i]
      /\ Append(s, m)[Len(s) + 1] = m
  BY AppendProperties, LenProperties
<1>2. AcksOf(Append(s, m))
        = AcksOf(s) \cup (IF m.type \in AckType THEN {Len(s) + 1} ELSE {})
  BY <1>1 DEF AcksOf
<1>3. Len(s) + 1 \notin AcksOf(s)
  BY <1>1 DEF AcksOf
<1>4. IsFiniteSet(AcksOf(s)) /\ Cardinality(AcksOf(s)) \in Nat
  BY AcksFinite
<1>5. Cardinality(AcksOf(s) \cup {Len(s) + 1}) = Cardinality(AcksOf(s)) + 1
  BY <1>3, <1>4, FS_AddElement
<1>6. CASE m.type \in AckType
  BY <1>2, <1>5, <1>6
<1>7. CASE m.type \notin AckType
  <2>1. AcksOf(Append(s, m)) = AcksOf(s)
    BY <1>2, <1>7
  <2> QED
    BY <1>4, <1>7, <2>1
<1> QED
  BY <1>6, <1>7

\* What is taken from their front.
LEMMA AcksTail ==
    ASSUME NEW s \in Seq(Response), s # <<>>
    PROVE  /\ \A i \in 1 .. Len(s) - 1 :
                i \in AcksOf(Tail(s)) <=> i + 1 \in AcksOf(s)
           /\ Cardinality(AcksOf(Tail(s))) = Cardinality(AcksOf(s))
                - (IF Head(s).type \in AckType THEN 1 ELSE 0)
<1>1. /\ Len(s) \in Nat /\ Tail(s) \in Seq(Response)
      /\ Head(s) = s[1]
      /\ Len(Tail(s)) = Len(s) - 1
      /\ \A i \in 1 .. Len(s) - 1 : Tail(s)[i] = s[i + 1]
  BY HeadTailProperties, LenProperties
<1>2. \A i \in 1 .. Len(s) - 1 : i \in AcksOf(Tail(s)) <=> i + 1 \in AcksOf(s)
  BY <1>1 DEF AcksOf
<1> DEFINE f == [i \in AcksOf(Tail(s)) |-> i + 1]
<1>3. f \in Bijection(AcksOf(Tail(s)), AcksOf(s) \ {1})
  <2>1. AcksOf(Tail(s)) \in SUBSET (1 .. Len(s) - 1)
    BY <1>1, AcksFinite
  <2>2. AcksOf(s) \in SUBSET (1 .. Len(s))
    BY AcksFinite
  <2>3. f \in [AcksOf(Tail(s)) -> AcksOf(s) \ {1}]
    BY <1>1, <1>2, <2>1
  <2>4. \A i, j \in AcksOf(Tail(s)) : f[i] = f[j] => i = j
    BY <1>1, <2>1
  <2>5. ASSUME NEW k \in AcksOf(s) \ {1}
        PROVE  \E i \in AcksOf(Tail(s)) : f[i] = k
    <3>1. k - 1 \in 1 .. Len(s) - 1 /\ (k - 1) + 1 = k
      BY <1>1, <2>2
    <3>2. k - 1 \in AcksOf(Tail(s))
      BY <1>2, <3>1
    <3> QED
      BY <3>1, <3>2
  <2> HIDE DEF f
  <2> QED
    BY <2>3, <2>4, <2>5
       DEF Bijection, Injection, IsInjective, Surjection
<1>4. /\ IsFiniteSet(AcksOf(Tail(s)))
      /\ Cardinality(AcksOf(Tail(s))) = Cardinality(AcksOf(s) \ {1})
  BY <1>1, <1>3, AcksFinite, FS_Bijection DEF ExistsBijection
<1>5. 1 \in AcksOf(s) <=> Head(s).type \in AckType
  BY <1>1 DEF AcksOf
<1>6. IsFiniteSet(AcksOf(s)) /\ Cardinality(AcksOf(s)) \in Nat
  BY AcksFinite
<1>7. Cardinality(AcksOf(s) \ {1})
        = IF 1 \in AcksOf(s) THEN Cardinality(AcksOf(s)) - 1
                             ELSE Cardinality(AcksOf(s))
  BY <1>6, FS_RemoveElement
<1> QED
  BY <1>2, <1>4, <1>5, <1>6, <1>7

LEMMA Elements ==
    ASSUME NEW S, NEW s \in Seq(S)
    PROVE  /\ Len(s) \in Nat /\ DOMAIN s = 1 .. Len(s)
           /\ \A i \in DOMAIN s : s[i] \in S
           /\ s # <<>> => 1 \in DOMAIN s
BY LenProperties, ElementOfSeq, EmptySeq

LEMMA Types ==
    ASSUME ReadsTypeOK
    PROVE  /\ \A i \in DOMAIN tasks : tasks[i] \in Task /\ tasks[i].get \in Get
           /\ \A i \in DOMAIN listeners : listeners[i] \in Get
           /\ \A i \in DOMAIN events :
                events[i] \in EventRecord /\ events[i].get \in Get
           /\ \A i \in DOMAIN responses :
                responses[i] \in Response /\ responses[i].version \in Int
           /\ doc \in Int /\ cache \in Int /\ cache \in Known /\ since \in Int
<1>1. /\ \A i \in DOMAIN tasks : tasks[i] \in Task
      /\ \A i \in DOMAIN listeners : listeners[i] \in Get
      /\ \A i \in DOMAIN events : events[i] \in EventRecord
      /\ \A i \in DOMAIN responses : responses[i] \in Response
  BY Elements DEF ReadsTypeOK
<1>2. /\ \A x \in Task : x.get \in Get
      /\ \A x \in EventRecord : x.get \in Get
  BY DEF Task, EventRecord
<1>3. \A x \in Response : x.version \in Int
  BY FirestoreReadsAssumption DEF Response, Known, NoData
<1>4. doc \in Int /\ cache \in Int /\ cache \in Known /\ since \in Int
  BY FirestoreReadsAssumption DEF ReadsTypeOK, Version, Known, NoData
<1> QED
  BY <1>1, <1>2, <1>3, <1>4

-----------------------------------------------------------------------------
(* Events. *)

LEMMA AmongListeners ==
    ASSUME ReadsTypeOK, NEW set
    PROVE  /\ Among(set) \in Seq(Get)
           /\ \A i \in DOMAIN Among(set) :
                /\ Among(set)[i] \in set
                /\ \E j \in DOMAIN listeners : listeners[j] = Among(set)[i]
           /\ listeners = <<>> => Among(set) = <<>>
<1> DEFINE places == {i \in DOMAIN listeners : listeners[i] \in set}
<1>1. Len(listeners) \in Nat /\ places \in SUBSET (1 .. Len(listeners))
  BY DEF ReadsTypeOK
<1>2. /\ Cardinality(places) \in Nat
      /\ \A n \in 1 .. Cardinality(places) : Nth(places, n) \in places
      /\ places = {} => Cardinality(places) = 0
  BY <1>1, NthIsPlace, FS_EmptySet
<1>3. Among(set) = [n \in 1 .. Cardinality(places) |-> listeners[Nth(places, n)]]
  BY DEF Among
<1>4. \A i \in places : listeners[i] \in Get \cap set
  BY DEF ReadsTypeOK
<1>5. listeners = <<>> => places = {}
  OBVIOUS
<1>6. \A i \in places : i \in DOMAIN listeners
  OBVIOUS
<1> HIDE DEF places
<1>7. \A n \in 1 .. Cardinality(places) :
        /\ Among(set)[n] \in Get \cap set
        /\ \E j \in DOMAIN listeners : listeners[j] = Among(set)[n]
  BY <1>2, <1>3, <1>4, <1>6
<1>8. Among(set) \in Seq(Get)
  BY <1>2, <1>3, <1>7, IsASeq
<1> QED
  BY <1>2, <1>3, <1>5, <1>7, <1>8

\* Events that can be raised when the answers are a: they are for gets that were
\* asked for, and say that there is no document only after the server did.
Raisable(s, a) ==
    /\ s \in Seq(EventRecord)
    /\ \A i \in DOMAIN s :
        /\ a[s[i].get] # Asleep
        /\ ~s[i].fromCache => 0 <= s[i].version

LEMMA EventRecords ==
    ASSUME ReadsTypeOK, NEW set, NEW v \in Known, NEW fromCache \in BOOLEAN
    PROVE  /\ Event(set, v, fromCache) \in Seq(EventRecord)
           /\ \A i \in DOMAIN Event(set, v, fromCache) :
                /\ Event(set, v, fromCache)[i].version = v
                /\ Event(set, v, fromCache)[i].fromCache = fromCache
                /\ \E j \in DOMAIN listeners :
                        listeners[j] = Event(set, v, fromCache)[i].get
<1> DEFINE s == Event(set, v, fromCache)
<1>1. /\ s = [i \in DOMAIN Among(set) |-> [get |-> Among(set)[i],
                            version |-> v, fromCache |-> fromCache]]
      /\ Len(Among(set)) \in Nat
      /\ DOMAIN Among(set) = 1 .. Len(Among(set))
      /\ \A i \in DOMAIN Among(set) :
            /\ Among(set)[i] \in Get
            /\ \E j \in DOMAIN listeners : listeners[j] = Among(set)[i]
  BY AmongListeners, LenProperties, ElementOfSeq DEF Event
<1>2. \A i \in 1 .. Len(Among(set)) :
        /\ s[i] \in EventRecord /\ s[i].get = Among(set)[i]
        /\ s[i].version = v /\ s[i].fromCache = fromCache
  BY <1>1 DEF EventRecord
<1>3. s \in Seq(EventRecord) /\ DOMAIN s = 1 .. Len(Among(set))
  BY <1>1, <1>2, IsASeq
<1> HIDE DEF s
<1> QED
  BY <1>1, <1>2, <1>3 DEF s

LEMMA EventsRaisable ==
    ASSUME ReadsTypeOK, Asked, NEW set,
           NEW v \in Known, NEW fromCache \in BOOLEAN, ~fromCache => 0 <= v
    PROVE  Raisable(Event(set, v, fromCache), answer)
<1> DEFINE s == Event(set, v, fromCache)
<1>1. /\ s \in Seq(EventRecord)
      /\ \A i \in DOMAIN s :
            /\ s[i].version = v /\ s[i].fromCache = fromCache
            /\ \E j \in DOMAIN listeners : listeners[j] = s[i].get
  BY EventRecords
<1> HIDE DEF s
<1>2. \A i \in DOMAIN s : answer[s[i].get] # Asleep
  BY <1>1 DEF Asked
<1> QED
  BY <1>1, <1>2 DEF s, Raisable

LEMMA RaisableConcat ==
    ASSUME NEW a, NEW s, NEW t, Raisable(s, a), Raisable(t, a)
    PROVE  Raisable(s \o t, a)
<1>1. /\ s \in Seq(EventRecord) /\ t \in Seq(EventRecord)
      /\ Len(s) \in Nat /\ Len(t) \in Nat
      /\ DOMAIN s = 1 .. Len(s) /\ DOMAIN t = 1 .. Len(t)
  BY LenProperties DEF Raisable
<1>2. /\ s \o t \in Seq(EventRecord)
      /\ DOMAIN (s \o t) = 1 .. Len(s) + Len(t)
      /\ \A i \in 1 .. Len(s) + Len(t) :
            (s \o t)[i] = IF i <= Len(s) THEN s[i] ELSE t[i - Len(s)]
  BY <1>1, ConcatProperties, LenProperties
<1>3. ASSUME NEW i \in 1 .. Len(s) + Len(t)
      PROVE  \/ i \in DOMAIN s /\ (s \o t)[i] = s[i]
             \/ i - Len(s) \in DOMAIN t /\ (s \o t)[i] = t[i - Len(s)]
  BY <1>1, <1>2
<1> QED
  BY <1>2, <1>3 DEF Raisable

LEMMA RaisableAppend ==
    ASSUME NEW a, NEW s, Raisable(s, a), NEW e \in EventRecord,
           a[e.get] # Asleep, ~e.fromCache => 0 <= e.version
    PROVE  Raisable(Append(s, e), a)
<1>1. Append(s, e) = s \o <<e>>
  BY AppendIsConcat DEF Raisable
<1>2. Raisable(<<e>>, a)
  BY DEF Raisable
<1> QED
  BY <1>1, <1>2, RaisableConcat

\* The way to Offline, or a state on the way to it.
LEMMA SetAndBroadcastRaises ==
    ASSUME ReadsInv, SetAndBroadcast("Offline")
    PROVE  /\ online' = "Offline"
           /\ Raisable(events', answer)
           /\ raised' \in SUBSET Get
           /\ synced' \in BOOLEAN /\ (synced' => synced)
<1> DEFINE s == Event({g \in Get : synced \/ g \notin raised}, cache, TRUE)
<1>1. ReadsTypeOK /\ Asked /\ Raisable(events, answer) /\ cache \in Known
  BY FirestoreReadsAssumption
     DEF ReadsInv, Asked, Raisable, ReadsTypeOK, Version, Known, NoData
<1>2. Raisable(events \o s, answer)
  BY <1>1, EventsRaisable, RaisableConcat
<1>3. ToSet(listeners) \in SUBSET Get
  BY <1>1, ElementOfSeq, LenProperties DEF ToSet, ReadsTypeOK
<1> QED
  BY <1>1, <1>2, <1>3 DEF SetAndBroadcast, ReadsTypeOK

-----------------------------------------------------------------------------
(* The steps. *)

LEMMA ReadsStart == Init => ReadsInv
<1> SUFFICES ASSUME Init
             PROVE  ReadsInv
  OBVIOUS
<1>1. ReadsTypeOK
  <2>1. /\ doc \in Version /\ cache \in NoData .. doc /\ since \in NoData .. doc
        /\ watched \in Unwatched .. LastVersion
    BY FirestoreReadsAssumption DEF Init, Version, NoData, Unwatched
  <2>2. answer \in [Get -> Int]
    BY DEF Init, Asleep
  <2>3. target \in [outstanding : Nat, current : BOOLEAN]
    BY DEF Init, NoTarget
  <2> QED
    BY <2>1, <2>2, <2>3, EmptySeq DEF Init, ReadsTypeOK
<1>2. Acks = {} /\ Cardinality(Acks) = 0
  BY FS_EmptySet DEF Init, Acks
<1>3. AcksMatch
  BY <1>2 DEF Init, AcksMatch, NoTarget
<1> QED
  BY <1>1, <1>3
     DEF Init, ReadsInv, Closed, OnlineIsFresh, TimersJustified,
         SnapshotsAreFresh, SyncedHasDocument, SyncedIsFresh, Asked

\* What is said of the messages depends on nothing but these variables.
LEMMA SameWire ==
    ASSUME ReadsInv, UNCHANGED <<target, requests, responses>>
    PROVE  AcksMatch' /\ Acks' = Acks
BY DEF ReadsInv, AcksMatch, Acks

LEMMA SameSnapshots ==
    ASSUME ReadsInv, UNCHANGED <<requests, responses>>,
           doc' >= doc, doc' \in Int, since' <= since, since' \in Int
    PROVE  SnapshotsAreFresh'
<1>1. \A i : Unanswered(i)' <=> Unanswered(i)
  BY DEF Unanswered, Acks
<1>2. /\ \A i \in DOMAIN responses : responses[i].version \in Int
      /\ doc \in Int /\ since \in Int
  BY Types DEF ReadsInv
<1> QED
  BY <1>1, <1>2 DEF ReadsInv, SnapshotsAreFresh

LEMMA GetDocumentStep ==
    ASSUME ReadsInv, NEW g \in Get, GetDocument(g)
    PROVE  ReadsInv'
<1> DEFINE t == [op |-> "add", get |-> g]
<1>1. t \in Task
  BY DEF Task
<1>2. /\ tasks' \in Seq(Task)
      /\ DOMAIN tasks' = 1 .. Len(tasks) + 1
      /\ \A i \in 1 .. Len(tasks) : tasks'[i] = tasks[i]
      /\ tasks'[Len(tasks) + 1] = t
      /\ Len(tasks) \in Nat /\ DOMAIN tasks = 1 .. Len(tasks)
  BY <1>1, AppendProperties, LenProperties
     DEF GetDocument, ReadsInv, ReadsTypeOK
<1>3. /\ answer' \in [Get -> Int]
      /\ answer'[g] # Asleep
      /\ \A h \in Get : answer[h] # Asleep => answer'[h] # Asleep
  BY DEF GetDocument, ReadsInv, ReadsTypeOK, Asleep, Waiting
<1>4. ReadsTypeOK'
  BY <1>2, <1>3
     DEF GetDocument, ReadsInv, ReadsTypeOK, views, wire, tracker, bounds
<1>5. AcksMatch' /\ SnapshotsAreFresh'
  BY SameWire, SameSnapshots
     DEF GetDocument, wire, ReadsInv, ReadsTypeOK, Version, NoData
<1>6. Asked'
  <2>1. \A i \in DOMAIN tasks : tasks[i].get \in Get
    BY Types DEF ReadsInv
  <2>2. \A i \in DOMAIN tasks' : answer'[tasks'[i].get] # Asleep
    BY <1>2, <1>3, <2>1 DEF ReadsInv, Asked
  <2>3. \A i \in DOMAIN listeners : listeners[i] \in Get
    BY Types DEF ReadsInv
  <2>4. \A i \in DOMAIN events : events[i].get \in Get
    BY Types DEF ReadsInv
  <2> QED
    BY <1>3, <2>2, <2>3, <2>4 DEF GetDocument, views, ReadsInv, Asked
<1> QED
  BY <1>4, <1>5, <1>6
     DEF GetDocument, views, wire, tracker, ReadsInv, Closed, IsOpen,
         OnlineIsFresh, TimersJustified, IsStarted, Listened,
         SyncedHasDocument, SyncedIsFresh

\* What an event tells its get.
Told(e) == IF e.version < 1 /\ e.fromCache THEN Failed ELSE e.version

LEMMA DispatchStep ==
    ASSUME ReadsInv, Dispatch
    PROVE  ReadsInv'
<1> DEFINE e == Head(events)
           t == [op |-> "remove", get |-> e.get]
<1>1. /\ e \in EventRecord /\ e = events[1]
      /\ events' \in Seq(EventRecord)
      /\ \A i \in DOMAIN events' :
            i + 1 \in DOMAIN events /\ events'[i] = events[i + 1]
      /\ 1 \in DOMAIN events
  <2>1. /\ Len(events) \in Nat /\ DOMAIN events = 1 .. Len(events)
        /\ events # <<>> => Len(events) # 0
    BY LenProperties, EmptySeq DEF ReadsInv, ReadsTypeOK
  <2>2. /\ events \in Seq(EventRecord) /\ events # <<>>
        /\ events' = Tail(events)
    BY DEF Dispatch, ReadsInv, ReadsTypeOK
  <2>3. /\ events[1] \in EventRecord /\ 1 \in DOMAIN events
        /\ Head(events) = events[1]
    BY <2>1, <2>2, HeadTailProperties
  <2>4. /\ Tail(events) \in Seq(EventRecord)
        /\ Len(Tail(events)) = Len(events) - 1
        /\ \A i \in 1 .. Len(Tail(events)) : Tail(events)[i] = events[i + 1]
    BY <2>2, HeadTailProperties
  <2>5. DOMAIN Tail(events) = 1 .. Len(Tail(events))
    BY <2>4, LenProperties
  <2> QED
    BY <2>1, <2>2, <2>3, <2>4, <2>5
<1>2. /\ e.get \in Get /\ answer[e.get] # Asleep
      /\ Told(e) \in Int /\ Told(e) # Asleep
  BY <1>1, FirestoreReadsAssumption
     DEF ReadsInv, Asked, EventRecord, Known, Told, NoData, Failed, Asleep
<1>3. /\ answer' \in [Get -> Int]
      /\ \A h \in Get : answer[h] # Asleep => answer'[h] # Asleep
      /\ answer'[e.get] # Asleep
  BY <1>2 DEF Dispatch, Told, ReadsInv, ReadsTypeOK
<1>4. \/ tasks' = tasks
      \/ /\ tasks' \in Seq(Task)
         /\ DOMAIN tasks' = 1 .. Len(tasks) + 1
         /\ \A i \in 1 .. Len(tasks) : tasks'[i] = tasks[i]
         /\ tasks'[Len(tasks) + 1] = t
  <2>1. t \in Task
    BY <1>2 DEF Task
  <2>2. tasks' = tasks \/ tasks' = Append(tasks, t)
    BY DEF Dispatch
  <2>3. tasks \in Seq(Task)
    BY DEF ReadsInv, ReadsTypeOK
  <2> HIDE DEF t
  <2> QED
    BY <2>1, <2>2, <2>3, AppendProperties, LenProperties
<1>5. /\ Len(tasks) \in Nat /\ DOMAIN tasks = 1 .. Len(tasks)
      /\ \A i \in DOMAIN tasks : tasks[i].get \in Get
  BY Types, Elements DEF ReadsInv, ReadsTypeOK
<1>6. ReadsTypeOK'
  BY <1>1, <1>3, <1>4
     DEF Dispatch, ReadsInv, ReadsTypeOK, views, wire, tracker, bounds
<1>7. AcksMatch' /\ SnapshotsAreFresh'
  BY SameWire, SameSnapshots
     DEF Dispatch, wire, ReadsInv, ReadsTypeOK, Version, NoData
<1>8. Asked'
  <2>1. \A i \in DOMAIN tasks' : answer'[tasks'[i].get] # Asleep
    <3>1. \A i \in DOMAIN tasks : answer'[tasks[i].get] # Asleep
      BY <1>3, <1>5 DEF ReadsInv, Asked
    <3>2. t.get = e.get
      OBVIOUS
    <3> HIDE DEF t, e
    <3>3. CASE tasks' = tasks
      BY <3>1, <3>3
    <3>4. CASE tasks' # tasks
      BY <1>3, <1>4, <1>5, <3>1, <3>2, <3>4
    <3> QED
      BY <3>3, <3>4
  <2>2. \A i \in DOMAIN listeners : listeners[i] \in Get
    BY Types DEF ReadsInv
  <2>3. \A i \in DOMAIN events : events[i].get \in Get
    BY Types DEF ReadsInv
  <2>4. \A i \in DOMAIN events' :
            /\ answer'[events'[i].get] # Asleep
            /\ ~events'[i].fromCache => 0 <= events'[i].version
    BY <1>1, <1>3, <2>3 DEF ReadsInv, Asked
  <2> QED
    BY <1>3, <2>1, <2>2, <2>4 DEF Dispatch, views, ReadsInv, Asked
<1> QED
  BY <1>6, <1>7, <1>8
     DEF Dispatch, views, wire, tracker, ReadsInv, Closed, IsOpen,
         OnlineIsFresh, TimersJustified, IsStarted, Listened,
         SyncedHasDocument, SyncedIsFresh

-----------------------------------------------------------------------------
(* Listening and no longer listening. *)

\* A request is sent.
LEMMA SendStep ==
    ASSUME ReadsInv, NEW r \in {"watch", "unwatch"}, Send(r),
           UNCHANGED <<doc, responses>>
    PROVE  /\ requests' \in Seq({"watch", "unwatch"})
           /\ target' \in [outstanding : Nat, current : BOOLEAN]
           /\ AcksMatch' /\ SnapshotsAreFresh'
<1>1. /\ requests \in Seq({"watch", "unwatch"})
      /\ target \in [outstanding : Nat, current : BOOLEAN]
      /\ responses \in Seq(Response)
  BY DEF ReadsInv, ReadsTypeOK
<1>2. /\ requests' \in Seq({"watch", "unwatch"}) /\ requests' # <<>>
      /\ Len(requests') = Len(requests) + 1 /\ Len(requests) \in Nat
  BY <1>1, AppendProperties, LenProperties DEF Send
<1>3. /\ target' \in [outstanding : Nat, current : BOOLEAN]
      /\ target'.outstanding = target.outstanding + 1
  BY <1>1 DEF Send
<1>4. Acks' = Acks /\ Cardinality(Acks) \in Nat
  BY <1>1, AcksFinite DEF Acks, AcksOf, AckType
<1>5. AcksMatch'
  BY <1>2, <1>3, <1>4 DEF ReadsInv, AcksMatch
<1> QED
  BY <1>2, <1>3, <1>5 DEF ReadsInv, SnapshotsAreFresh, Unanswered

\* Nothing is under way.
LEMMA QuietStep ==
    ASSUME requests' = <<>>, responses' = <<>>, target'.outstanding = 0
    PROVE  AcksMatch' /\ SnapshotsAreFresh'
<1>1. Acks' = {}
  BY DEF Acks
<1>2. Cardinality(Acks') = 0
  BY <1>1, FS_EmptySet
<1> QED
  BY <1>2 DEF AcksMatch, SnapshotsAreFresh

\* The part of the invariant that is about the stream and the tracker.
StreamInv ==
    /\ stream \in {"Initial", "Starting", "Open", "Backoff", "Error"}
    /\ idle \in BOOLEAN
    /\ target \in [outstanding : Nat, current : BOOLEAN]
    /\ requests \in Seq({"watch", "unwatch"})
    /\ online \in {"Unknown", "Online", "Offline"}
    /\ failures \in Nat
    /\ timer \in BOOLEAN
    /\ Closed /\ OnlineIsFresh /\ TimersJustified
    /\ AcksMatch /\ SnapshotsAreFresh

\* The part that is about the application, the listeners and the view.
ClientInv ==
    /\ doc \in Version /\ cache \in NoData .. doc /\ since \in NoData .. doc
    /\ tasks \in Seq(Task) /\ events \in Seq(EventRecord)
    /\ answer \in [Get -> Int]
    /\ listeners \in Seq(Get) /\ raised \in SUBSET Get /\ synced \in BOOLEAN
    /\ responses \in Seq(Response) /\ watched \in Unwatched .. LastVersion
    /\ SyncedHasDocument /\ SyncedIsFresh /\ Asked

LEMMA HasStreamInv == ReadsInv => StreamInv
BY DEF ReadsInv, ReadsTypeOK, StreamInv

LEMMA HasClientInv == ReadsInv => ClientInv
BY DEF ReadsInv, ReadsTypeOK, ClientInv

LEMMA BothParts == StreamInv' /\ ClientInv' => ReadsInv'
BY DEF ReadsInv, ReadsTypeOK, StreamInv, ClientInv

LEMMA StartStep ==
    ASSUME ReadsInv, HandleWatchStreamStart, ~timer
    PROVE  /\ online' \in {"Unknown", "Online", "Offline"}
           /\ failures' \in Nat /\ timer' \in BOOLEAN
           /\ OnlineIsFresh'
           /\ timer' => online' = "Unknown" /\ failures' < kMaxWatchStreamFailures
<1>1. CASE failures = 0
  <2>1. online' = "Unknown" /\ timer' = TRUE /\ failures' = 0
    BY <1>1 DEF HandleWatchStreamStart
  <2>2. 0 < kMaxWatchStreamFailures
    BY FirestoreReadsAssumption
  <2> QED
    BY <2>1, <2>2 DEF OnlineIsFresh
<1>2. CASE failures # 0
  <2>1. online' = online /\ timer' = timer /\ failures' = failures
    BY <1>2 DEF HandleWatchStreamStart, tracker
  <2> QED
    BY <2>1 DEF ReadsInv, ReadsTypeOK, OnlineIsFresh
<1> QED
  BY <1>1, <1>2

LEMMA FirstListenerStep ==
    ASSUME ReadsInv, ~Listened, NEW g, FirstListener(g), Listened',
           UNCHANGED <<doc, responses, watched>>
    PROVE  StreamInv'
<1>1. StreamInv
  BY HasStreamInv
<1>2. stream \in {"Initial", "Starting", "Open", "Backoff", "Error"}
  BY <1>1 DEF StreamInv
<1>3. CASE stream \in {"Initial", "Error"}
  <2>1. /\ stream' \in {"Starting", "Backoff"} /\ target' = NoTarget
        /\ HandleWatchStreamStart
        /\ UNCHANGED <<idle, requests>>
    BY <1>3 DEF FirstListener
  <2>2. requests = <<>> /\ responses = <<>> /\ watched = Unwatched
    BY <1>1, <1>3 DEF StreamInv, Closed, IsOpen
  <2>3. ~timer /\ ~idle
    BY <1>1, <1>3 DEF StreamInv, TimersJustified, IsStarted, IsOpen
  <2>4. /\ target' \in [outstanding : Nat, current : BOOLEAN]
        /\ target'.outstanding = 0
    BY <2>1 DEF NoTarget
  <2>5. AcksMatch' /\ SnapshotsAreFresh'
    BY <2>1, <2>2, <2>4, QuietStep
  <2>6. Closed' /\ IsStarted'
    BY <2>1, <2>2 DEF Closed, IsStarted
  <2>7. /\ online' \in {"Unknown", "Online", "Offline"}
        /\ failures' \in Nat /\ timer' \in BOOLEAN
        /\ OnlineIsFresh'
        /\ timer' => online' = "Unknown" /\ failures' < kMaxWatchStreamFailures
    BY <2>1, <2>3, StartStep
  <2> QED
    BY <1>1, <2>1, <2>3, <2>4, <2>5, <2>6, <2>7 DEF StreamInv, TimersJustified
<1>4. CASE stream = "Open"
  <2>1. Send("watch") /\ idle' = FALSE /\ UNCHANGED <<stream, tracker>>
    BY <1>4 DEF FirstListener
  <2>2. /\ requests' \in Seq({"watch", "unwatch"})
        /\ target' \in [outstanding : Nat, current : BOOLEAN]
        /\ AcksMatch' /\ SnapshotsAreFresh'
    BY <2>1, SendStep
  <2> QED
    BY <1>1, <1>4, <2>1, <2>2
       DEF StreamInv, tracker, Closed, IsOpen, OnlineIsFresh, TimersJustified,
           IsStarted
<1>5. CASE stream \in {"Starting", "Backoff"}
  <2>1. UNCHANGED <<stream, idle, target, requests, tracker>>
    BY <1>5 DEF FirstListener
  <2>2. requests = <<>> /\ responses = <<>>
    BY <1>1, <1>5 DEF StreamInv, Closed, IsOpen
  <2>3. ~idle
    BY <1>1, <1>5 DEF StreamInv, TimersJustified, IsOpen
  <2>4. target.outstanding = 0
    <3>1. AcksOf(<<>>) = {}
      BY DEF AcksOf
    <3>2. Len(requests) = 0 /\ Cardinality(Acks) = 0
      BY <2>2, <3>1, FS_EmptySet DEF Acks, AcksOf
    <3> QED
      BY <1>1, <3>2 DEF StreamInv, AcksMatch
  <2>5. AcksMatch' /\ SnapshotsAreFresh'
    BY <2>1, <2>2, <2>4, QuietStep
  <2> QED
    BY <1>1, <1>5, <2>1, <2>3, <2>5
       DEF StreamInv, tracker, Closed, IsOpen, OnlineIsFresh, TimersJustified,
           IsStarted
<1> QED
  BY <1>2, <1>3, <1>4, <1>5

\* The task that is run, and those that stay.
LEMMA TaskTaken ==
    ASSUME ReadsInv, tasks # <<>>
    PROVE  /\ Head(tasks).get \in Get /\ answer[Head(tasks).get] # Asleep
           /\ Tail(tasks) \in Seq(Task)
           /\ \A i \in DOMAIN Tail(tasks) : answer[Tail(tasks)[i].get] # Asleep
<1>1. /\ Len(tasks) \in Nat /\ DOMAIN tasks = 1 .. Len(tasks)
      /\ 1 \in DOMAIN tasks /\ tasks \in Seq(Task)
  BY Elements DEF ReadsInv, ReadsTypeOK
<1>2. /\ Head(tasks) = tasks[1] /\ Tail(tasks) \in Seq(Task)
      /\ \A i \in DOMAIN Tail(tasks) :
            i + 1 \in DOMAIN tasks /\ Tail(tasks)[i] = tasks[i + 1]
  BY <1>1, HeadTailProperties, LenProperties
<1>3. \A i \in DOMAIN tasks :
        tasks[i].get \in Get /\ answer[tasks[i].get] # Asleep
  BY Types DEF ReadsInv, Asked
<1> QED
  BY <1>1, <1>2, <1>3

LEMMA AddStep ==
    ASSUME ReadsInv, tasks # <<>>, tasks' = Tail(tasks),
           AddQueryListener(Head(tasks).get)
    PROVE  ReadsInv'
<1> DEFINE g == Head(tasks).get
<1>1. ClientInv /\ StreamInv
  BY HasClientInv, HasStreamInv
<1>2. /\ g \in Get /\ answer[g] # Asleep /\ tasks' \in Seq(Task)
      /\ \A i \in DOMAIN tasks' : answer[tasks'[i].get] # Asleep
  BY TaskTaken
<1>3. AddQueryListener(g)
  OBVIOUS
<1> HIDE DEF g
<1>4. /\ listeners' \in Seq(Get) /\ Listened'
      /\ \A i \in DOMAIN listeners' : answer[listeners'[i]] # Asleep
  <2>1. listeners' = Append(listeners, g) /\ listeners \in Seq(Get)
    BY <1>1, <1>3 DEF AddQueryListener, ClientInv
  <2>2. /\ Len(listeners) \in Nat /\ DOMAIN listeners = 1 .. Len(listeners)
        /\ listeners' \in Seq(Get)
        /\ DOMAIN listeners' = 1 .. Len(listeners) + 1
        /\ \A i \in 1 .. Len(listeners) : listeners'[i] = listeners[i]
        /\ listeners'[Len(listeners) + 1] = g
        /\ listeners' # <<>>
    BY <1>2, <2>1, AppendProperties, LenProperties
  <2>3. \A i \in 1 .. Len(listeners) : answer[listeners[i]] # Asleep
    BY <1>1, <2>2 DEF ClientInv, Asked
  <2>4. \A i \in 1 .. Len(listeners) + 1 :
            i \in 1 .. Len(listeners) \/ i = Len(listeners) + 1
    BY <2>2
  <2>5. \A i \in DOMAIN listeners' : answer[listeners'[i]] # Asleep
    BY <1>2, <2>2, <2>3, <2>4
  <2> QED
    BY <2>2, <2>5 DEF Listened
<1>5. UNCHANGED <<doc, cache, answer, synced, responses, watched>>
  BY <1>3 DEF AddQueryListener
<1>6. StreamInv' /\ since' \in NoData .. doc /\ (Listened => since' = since)
  <2>1. CASE Listened
    <3>1. /\ UNCHANGED <<stream, idle, target, requests, since>>
          /\ UNCHANGED <<online, failures, timer>>
      BY <1>3, <2>1 DEF AddQueryListener, tracker
    <3>2. AcksMatch' /\ SnapshotsAreFresh'
      BY <1>1, <1>5, <3>1, Types, SameWire, SameSnapshots DEF ReadsInv
    <3>3. ~idle
      BY <1>1, <2>1 DEF StreamInv, TimersJustified
    <3> QED
      BY <1>1, <1>5, <3>1, <3>2, <3>3
         DEF StreamInv, ClientInv, Closed, IsOpen, OnlineIsFresh,
             TimersJustified, IsStarted
  <2>2. CASE ~Listened
    <3>1. FirstListener(g)
      BY <1>3, <2>2 DEF AddQueryListener
    <3>2. StreamInv'
      BY <1>4, <1>5, <2>2, <3>1, FirstListenerStep
    <3>3. since' = doc /\ doc \in Version
      BY <1>1, <3>1 DEF FirstListener, ClientInv
    <3> QED
      BY <2>2, <3>2, <3>3, FirestoreReadsAssumption DEF Version, NoData
  <2> QED
    BY <2>1, <2>2
<1>7. Raisable(events', answer) /\ raised' \in SUBSET Get
  <2> DEFINE e == [get |-> g, version |-> cache, fromCache |-> ~synced]
  <2>1. Raisable(events, answer)
    BY <1>1 DEF ClientInv, Asked, Raisable
  <2>2. e \in EventRecord /\ (~e.fromCache => 0 <= e.version) /\ e.get = g
    <3>1. cache \in Known /\ synced \in BOOLEAN /\ (synced => 0 <= cache)
      BY <1>1, Types DEF ReadsInv, ClientInv, SyncedHasDocument
    <3> QED
      BY <1>2, <3>1 DEF EventRecord
  <2>3. \/ events' = Append(events, e) /\ raised' = raised \cup {g}
        \/ UNCHANGED <<events, raised>>
    BY <1>3 DEF AddQueryListener
  <2>4. raised \in SUBSET Get
    BY <1>1 DEF ClientInv
  <2> HIDE DEF e
  <2> QED
    BY <1>2, <2>1, <2>2, <2>3, <2>4, RaisableAppend
<1>8. SyncedHasDocument' /\ SyncedIsFresh'
  BY <1>1, <1>4, <1>5, <1>6 DEF ClientInv, SyncedHasDocument, SyncedIsFresh
<1>9. Asked'
  BY <1>2, <1>4, <1>5, <1>7 DEF Asked, Raisable
<1>10. ClientInv'
  BY <1>1, <1>2, <1>4, <1>5, <1>6, <1>7, <1>8, <1>9
     DEF ClientInv, Raisable
<1> QED
  BY <1>6, <1>10, BothParts

LEMMA StopListeningStep ==
    ASSUME ReadsInv, StopListening, ~Listened', since' = NoData,
           UNCHANGED <<doc, responses, watched>>
    PROVE  StreamInv'
<1>1. StreamInv
  BY HasStreamInv
<1>2. CASE IsOpen
  <2>1. Send("unwatch") /\ idle' = TRUE /\ UNCHANGED <<stream, tracker>>
    BY <1>2 DEF StopListening
  <2>2. /\ requests' \in Seq({"watch", "unwatch"})
        /\ target' \in [outstanding : Nat, current : BOOLEAN]
        /\ AcksMatch' /\ SnapshotsAreFresh'
    BY <2>1, SendStep
  <2> QED
    BY <1>1, <1>2, <2>1, <2>2
       DEF StreamInv, tracker, Closed, IsOpen, OnlineIsFresh, TimersJustified,
           IsStarted
<1>3. CASE ~IsOpen
  <2>1. /\ online' = "Unknown" /\ failures' = 0 /\ timer' = FALSE
        /\ UNCHANGED <<stream, idle, target, requests>>
    BY <1>3 DEF StopListening, UpdateState
  <2>2. AcksMatch'
    BY <2>1, SameWire
  <2>3. NoData <= since /\ doc \in Int /\ NoData \in Int
    BY Types DEF ReadsInv, ReadsTypeOK, NoData
  <2>4. SnapshotsAreFresh'
    BY <2>1, <2>3, SameSnapshots
  <2> QED
    BY <1>1, <1>3, <2>1, <2>2, <2>4
       DEF StreamInv, Closed, IsOpen, OnlineIsFresh, TimersJustified
<1> QED
  BY <1>2, <1>3

LEMMA RemoveStep ==
    ASSUME ReadsInv, tasks # <<>>, tasks' = Tail(tasks),
           NEW g, RemoveQueryListener(g)
    PROVE  ReadsInv'
<1>1. ClientInv /\ StreamInv
  BY HasClientInv, HasStreamInv
<1>2. /\ tasks' \in Seq(Task)
      /\ \A i \in DOMAIN tasks' : answer[tasks'[i].get] # Asleep
  BY TaskTaken
<1>3. UNCHANGED <<doc, cache, answer, events, responses, watched>>
  BY DEF RemoveQueryListener
<1>4. /\ listeners' \in Seq(Get) /\ raised' \in SUBSET Get
      /\ \A i \in DOMAIN listeners' : answer[listeners'[i]] # Asleep
      /\ Listened' => Listened
  BY <1>1, AmongListeners
     DEF RemoveQueryListener, ReadsInv, ClientInv, Asked, Listened
<1>5. CASE ~Listened'
  <2>1. StopListening /\ synced' = FALSE /\ since' = NoData
    BY <1>5 DEF RemoveQueryListener, Listened
  <2>2. StreamInv'
    BY <1>3, <1>5, <2>1, StopListeningStep
  <2>3. NoData \in NoData .. doc
    BY <1>1, FirestoreReadsAssumption DEF ClientInv, Version, NoData
  <2>4. ClientInv'
    BY <1>1, <1>2, <1>3, <1>4, <2>1, <2>3
       DEF ClientInv, SyncedHasDocument, SyncedIsFresh, Asked
  <2> QED
    BY <2>2, <2>4, BothParts
<1>6. CASE Listened'
  <2>1. /\ UNCHANGED <<stream, idle, target, requests, synced, since>>
        /\ UNCHANGED <<online, failures, timer>>
    BY <1>6 DEF RemoveQueryListener, Listened, tracker
  <2>2. AcksMatch' /\ SnapshotsAreFresh'
    BY <1>1, <1>3, <2>1, Types, SameWire, SameSnapshots DEF ReadsInv
  <2>3. ~idle
    BY <1>1, <1>4, <1>6 DEF StreamInv, TimersJustified
  <2>4. StreamInv'
    BY <1>1, <1>3, <2>1, <2>2, <2>3
       DEF StreamInv, Closed, IsOpen, OnlineIsFresh, TimersJustified, IsStarted
  <2>5. ClientInv'
    BY <1>1, <1>2, <1>3, <1>4, <1>6, <2>1
       DEF ClientInv, SyncedHasDocument, SyncedIsFresh, Asked
  <2> QED
    BY <2>4, <2>5, BothParts
<1> QED
  BY <1>5, <1>6

LEMMA RunTaskStep ==
    ASSUME ReadsInv, RunTask
    PROVE  ReadsInv'
<1>1. /\ tasks # <<>> /\ tasks' = Tail(tasks)
      /\ \/ AddQueryListener(Head(tasks).get)
         \/ RemoveQueryListener(Head(tasks).get)
  BY DEF RunTask
<1> QED
  BY <1>1, AddStep, RemoveStep

-----------------------------------------------------------------------------
(* The watch stream. *)

\* A step that leaves the application, the listeners and the view alone.
LEMMA ClientUntouched ==
    ASSUME ReadsInv, UNCHANGED <<doc, cache, app, views, since>>,
           responses' \in Seq(Response), watched' \in Unwatched .. LastVersion
    PROVE  ClientInv'
<1>1. ClientInv
  BY HasClientInv
<1>2. UNCHANGED <<doc, cache, tasks, events, answer, listeners, raised, synced,
                  since>>
  BY DEF app, views
<1> QED
  BY <1>1, <1>2
     DEF ClientInv, SyncedHasDocument, Listened, SyncedIsFresh, Asked

\* The stream has closed.
LEMMA DisconnectedStep ==
    ASSUME Disconnected
    PROVE  /\ target' \in [outstanding : Nat, current : BOOLEAN]
           /\ requests' \in Seq({"watch", "unwatch"}) /\ idle' = FALSE
           /\ responses' \in Seq(Response) /\ watched' \in Unwatched .. LastVersion
           /\ Closed' /\ AcksMatch' /\ SnapshotsAreFresh'
<1>1. target'.outstanding = 0
  BY DEF Disconnected, NoTarget
<1>2. AcksMatch' /\ SnapshotsAreFresh'
  BY <1>1, QuietStep DEF Disconnected
<1>3. target' \in [outstanding : Nat, current : BOOLEAN]
  BY DEF Disconnected, NoTarget
<1>4. Unwatched \in Unwatched .. LastVersion
  BY FirestoreReadsAssumption DEF Unwatched
<1> QED
  BY <1>2, <1>3, <1>4, EmptySeq DEF Disconnected, Closed

LEMMA OpenStep ==
    ASSUME ReadsInv, OnWatchStreamOpen
    PROVE  ReadsInv'
<1>1. StreamInv /\ ClientInv
  BY HasStreamInv, HasClientInv
<1>2. /\ stream = "Starting" /\ stream' = "Open"
      /\ UNCHANGED <<doc, cache, app, views, since, responses, watched>>
      /\ UNCHANGED <<idle, online, failures, timer>>
  BY DEF OnWatchStreamOpen, tracker
<1>3. ClientInv'
  BY <1>1, <1>2, ClientUntouched DEF ClientInv
<1>4. /\ requests' \in Seq({"watch", "unwatch"})
      /\ target' \in [outstanding : Nat, current : BOOLEAN]
      /\ AcksMatch' /\ SnapshotsAreFresh'
  <2>1. CASE Listened
    BY <1>2, <2>1, SendStep DEF OnWatchStreamOpen
  <2>2. CASE ~Listened
    <3>1. UNCHANGED <<target, requests>>
      BY <2>2 DEF OnWatchStreamOpen
    <3>2. AcksMatch' /\ SnapshotsAreFresh'
      BY <1>2, <3>1, Types, SameWire, SameSnapshots DEF ReadsInv
    <3> QED
      BY <1>1, <3>1, <3>2 DEF StreamInv
  <2> QED
    BY <2>1, <2>2
<1>5. StreamInv'
  BY <1>1, <1>2, <1>4
     DEF StreamInv, Closed, IsOpen, OnlineIsFresh, TimersJustified, IsStarted
<1> QED
  BY <1>3, <1>5, BothParts

\* An attempt has failed: the client is offline, or the timer is justified.
LEMMA FailureStep ==
    ASSUME ReadsInv, HandleWatchStreamFailure
    PROVE  /\ online' \in {"Unknown", "Offline"}
           /\ failures' \in Nat /\ timer' \in BOOLEAN
           /\ timer' => online' = "Unknown" /\ failures' < kMaxWatchStreamFailures
           /\ Raisable(events', answer)
           /\ raised' \in SUBSET Get
           /\ synced' \in BOOLEAN /\ (synced' => synced)
<1>1. StreamInv /\ ClientInv /\ Raisable(events, answer)
  BY HasStreamInv, HasClientInv DEF ClientInv, Asked, Raisable
<1>2. /\ failures \in Nat /\ kMaxWatchStreamFailures \in Nat \ {0}
      /\ online \in {"Unknown", "Online", "Offline"} /\ timer \in BOOLEAN
      /\ raised \in SUBSET Get /\ synced \in BOOLEAN
      /\ online = "Online" => failures = 0
      /\ timer => online = "Unknown" /\ failures < kMaxWatchStreamFailures
  BY <1>1, FirestoreReadsAssumption
     DEF StreamInv, ClientInv, OnlineIsFresh, TimersJustified
<1>3. CASE online = "Online"
  <2>1. /\ online' = "Unknown" /\ timer' = TRUE
        /\ UNCHANGED <<failures, events, raised, synced>>
    BY <1>3 DEF HandleWatchStreamFailure
  <2> QED
    BY <1>1, <1>2, <1>3, <2>1
<1>4. CASE online # "Online"
  <2>1. failures' = IF failures < kMaxWatchStreamFailures
                    THEN failures + 1 ELSE failures
    BY <1>4 DEF HandleWatchStreamFailure
  <2>2. CASE failures' = kMaxWatchStreamFailures
    <3>1. timer' = FALSE /\ SetAndBroadcast("Offline")
      BY <1>4, <2>2 DEF HandleWatchStreamFailure
    <3>2. /\ online' = "Offline"
          /\ Raisable(events', answer)
          /\ raised' \in SUBSET Get
          /\ synced' \in BOOLEAN /\ (synced' => synced)
      BY <3>1, SetAndBroadcastRaises
    <3>3. failures' \in Nat
      BY <1>2, <2>1
    <3> QED
      BY <3>1, <3>2, <3>3
  <2>3. CASE failures' # kMaxWatchStreamFailures
    <3>1. UNCHANGED <<online, timer, events, raised, synced>>
      BY <1>4, <2>3 DEF HandleWatchStreamFailure
    <3>2. failures < kMaxWatchStreamFailures =>
            failures' < kMaxWatchStreamFailures
      BY <1>2, <2>1, <2>3
    <3>3. failures' \in Nat
      BY <1>2, <2>1
    <3> QED
      BY <1>1, <1>2, <1>4, <3>1, <3>2, <3>3
  <2> QED
    BY <2>2, <2>3
<1> QED
  BY <1>3, <1>4

LEMMA CloseStep ==
    ASSUME ReadsInv, OnWatchStreamClose
    PROVE  ReadsInv'
<1>1. StreamInv /\ ClientInv
  BY HasStreamInv, HasClientInv
<1>2. /\ UNCHANGED <<doc, cache, tasks, answer, listeners, since>>
      /\ Disconnected
  BY DEF OnWatchStreamClose
<1>3. /\ target' \in [outstanding : Nat, current : BOOLEAN]
      /\ requests' \in Seq({"watch", "unwatch"}) /\ idle' = FALSE
      /\ responses' \in Seq(Response) /\ watched' \in Unwatched .. LastVersion
      /\ Closed' /\ AcksMatch' /\ SnapshotsAreFresh'
  BY <1>2, DisconnectedStep
<1>4. /\ stream' \in {"Backoff", "Error"}
      /\ online' \in {"Unknown", "Offline"}
      /\ failures' \in Nat /\ timer' \in BOOLEAN
      /\ timer' => /\ online' = "Unknown" /\ failures' < kMaxWatchStreamFailures
                   /\ IsStarted'
      /\ Raisable(events', answer)
      /\ raised' \in SUBSET Get
      /\ synced' \in BOOLEAN /\ (synced' => synced)
  <2>1. CASE Listened
    <3>1. stream' = "Backoff" /\ HandleWatchStreamFailure
      BY <2>1 DEF OnWatchStreamClose
    <3>2. IsStarted'
      BY <3>1 DEF IsStarted
    <3> QED
      BY <3>1, <3>2, FailureStep
  <2>2. CASE ~Listened
    <3>1. /\ stream' = "Error"
          /\ online' = "Unknown" /\ failures' = 0 /\ timer' = FALSE
          /\ UNCHANGED <<events, raised, synced>>
      BY <2>2 DEF OnWatchStreamClose, UpdateState
    <3>2. Raisable(events, answer)
      BY <1>1 DEF ClientInv, Asked, Raisable
    <3> QED
      BY <1>1, <3>1, <3>2 DEF ClientInv
  <2> QED
    BY <2>1, <2>2
<1>5. StreamInv'
  BY <1>3, <1>4 DEF StreamInv, OnlineIsFresh, TimersJustified
<1>6. ClientInv'
  BY <1>1, <1>2, <1>3, <1>4
     DEF ClientInv, SyncedHasDocument, Listened, SyncedIsFresh, Asked, Raisable
<1> QED
  BY <1>5, <1>6, BothParts

LEMMA TryRestartingStep ==
    ASSUME ReadsInv, TryRestarting
    PROVE  ReadsInv'
<1>1. StreamInv /\ ClientInv
  BY HasStreamInv, HasClientInv
<1>2. /\ stream = "Backoff" /\ stream' = "Starting"
      /\ UNCHANGED <<doc, cache, app, views, since, responses, watched>>
      /\ UNCHANGED <<idle, target, requests, online, failures, timer>>
  BY DEF TryRestarting, tracker
<1>3. AcksMatch' /\ SnapshotsAreFresh'
  BY <1>2, Types, SameWire, SameSnapshots DEF ReadsInv
<1>4. StreamInv'
  BY <1>1, <1>2, <1>3
     DEF StreamInv, Closed, IsOpen, OnlineIsFresh, TimersJustified, IsStarted
<1>5. ClientInv'
  BY <1>1, <1>2, ClientUntouched DEF ClientInv
<1> QED
  BY <1>4, <1>5, BothParts

LEMMA IdleTimeoutStep ==
    ASSUME ReadsInv, IdleTimeout
    PROVE  ReadsInv'
<1>1. /\ Disconnected /\ stream' = "Initial"
      /\ online' = "Unknown" /\ failures' = 0 /\ timer' = FALSE
      /\ UNCHANGED <<doc, cache, app, views, since>>
  BY DEF IdleTimeout, UpdateState
<1>2. StreamInv'
  BY <1>1, DisconnectedStep DEF StreamInv, OnlineIsFresh, TimersJustified
<1>3. ClientInv'
  BY <1>1, DisconnectedStep, ClientUntouched
<1> QED
  BY <1>2, <1>3, BothParts

LEMMA RestartNetworkStep ==
    ASSUME ReadsInv, RestartNetwork
    PROVE  ReadsInv'
<1>1. /\ Disconnected
      /\ stream' = IF Listened THEN "Starting" ELSE "Initial"
      /\ online' = "Unknown" /\ failures' = 0 /\ timer' = Listened
      /\ UNCHANGED <<doc, cache, app, views, since>>
  BY DEF RestartNetwork
<1>2. 0 < kMaxWatchStreamFailures
  BY FirestoreReadsAssumption
<1>3. timer' \in BOOLEAN /\ (timer' => IsStarted')
  BY <1>1 DEF IsStarted, Listened
<1>4. StreamInv'
  BY <1>1, <1>2, <1>3, DisconnectedStep
     DEF StreamInv, OnlineIsFresh, TimersJustified
<1>5. ClientInv'
  BY <1>1, DisconnectedStep, ClientUntouched
<1> QED
  BY <1>4, <1>5, BothParts

LEMMA OnlineStateTimeoutStep ==
    ASSUME ReadsInv, OnlineStateTimeout
    PROVE  ReadsInv'
<1>1. StreamInv /\ ClientInv
  BY HasStreamInv, HasClientInv
<1>2. /\ timer' = FALSE /\ SetAndBroadcast("Offline")
      /\ UNCHANGED <<doc, cache, tasks, answer, listeners, since, failures>>
      /\ UNCHANGED <<stream, idle, target, requests, responses, watched>>
  BY DEF OnlineStateTimeout, wire
<1>3. /\ online' = "Offline"
      /\ Raisable(events', answer)
      /\ raised' \in SUBSET Get
      /\ synced' \in BOOLEAN /\ (synced' => synced)
  BY <1>2, SetAndBroadcastRaises
<1>4. AcksMatch' /\ SnapshotsAreFresh'
  BY <1>2, Types, SameWire, SameSnapshots DEF ReadsInv
<1>5. StreamInv'
  BY <1>1, <1>2, <1>3, <1>4
     DEF StreamInv, Closed, IsOpen, OnlineIsFresh, TimersJustified, Listened
<1>6. ClientInv'
  BY <1>1, <1>2, <1>3
     DEF ClientInv, SyncedHasDocument, Listened, SyncedIsFresh, Asked, Raisable
<1> QED
  BY <1>5, <1>6, BothParts

-----------------------------------------------------------------------------
(* Messages of the server, and the server. *)

LEMMA HeadAck ==
    ASSUME ReadsInv, responses # <<>>
    PROVE  Head(responses).type \in AckType => target.outstanding >= 1
<1>1. responses \in Seq(Response) /\ 1 \in DOMAIN responses
  BY Elements DEF ReadsInv, ReadsTypeOK
<1>2. /\ Head(responses) = responses[1] /\ Acks = AcksOf(responses)
      /\ IsFiniteSet(Acks) /\ Cardinality(Acks) \in Nat /\ Len(requests) \in Nat
  <2>1. Acks = AcksOf(responses)
    BY DEF Acks, AcksOf, AckType
  <2>2. requests \in Seq({"watch", "unwatch"})
    BY DEF ReadsInv, ReadsTypeOK
  <2>3. Len(requests) \in Nat
    BY <2>2, LenProperties
  <2> QED
    BY <1>1, <2>1, <2>3, HeadTailProperties, AcksFinite
<1>3. ASSUME Head(responses).type \in AckType
      PROVE  Cardinality(Acks) # 0
  <2>1. 1 \in Acks
    BY <1>1, <1>2, <1>3 DEF AcksOf
  <2> QED
    BY <1>2, <2>1, FS_EmptySet
<1> QED
  BY <1>2, <1>3 DEF ReadsInv, AcksMatch

\* A message is taken.
LEMMA MessageTaken ==
    ASSUME ReadsInv, responses # <<>>, responses' = Tail(responses),
           UNCHANGED <<doc, requests, since>>,
           target'.outstanding = target.outstanding
                - (IF Head(responses).type \in AckType THEN 1 ELSE 0)
    PROVE  /\ responses' \in Seq(Response)
           /\ AcksMatch' /\ SnapshotsAreFresh'
<1>1. /\ responses \in Seq(Response) /\ requests \in Seq({"watch", "unwatch"})
      /\ target.outstanding \in Nat
  BY DEF ReadsInv, ReadsTypeOK
<1>2. /\ responses' \in Seq(Response)
      /\ Len(responses) \in Nat
      /\ DOMAIN responses = 1 .. Len(responses)
      /\ DOMAIN responses' = 1 .. Len(responses) - 1
      /\ \A i \in 1 .. Len(responses) - 1 : responses'[i] = responses[i + 1]
  BY <1>1, HeadTailProperties, LenProperties
<1>3. Acks = AcksOf(responses) /\ Acks' = AcksOf(Tail(responses))
  BY DEF Acks, AcksOf, AckType
<1>4. /\ Cardinality(Acks) \in Nat /\ Len(requests) \in Nat
      /\ Acks \in SUBSET (1 .. Len(responses))
  BY <1>1, <1>3, AcksFinite, LenProperties
<1>5. /\ \A i \in 1 .. Len(responses) - 1 : i \in Acks' <=> i + 1 \in Acks
      /\ Cardinality(Acks') = Cardinality(Acks)
            - (IF Head(responses).type \in AckType THEN 1 ELSE 0)
  BY <1>1, <1>3, AcksTail
<1>6. AcksMatch'
  BY <1>1, <1>4, <1>5 DEF ReadsInv, AcksMatch
<1>7. ASSUME NEW i \in 1 .. Len(responses) - 1, Unanswered(i + 1)
      PROVE  Unanswered(i)'
  <2>1. CASE requests # <<>>
    BY <2>1 DEF Unanswered
  <2>2. CASE \E j \in Acks : i + 1 < j
    <3>1. PICK j \in Acks : i + 1 < j
      BY <2>2
    <3>2. j - 1 \in 1 .. Len(responses) - 1 /\ (j - 1) + 1 = j /\ i < j - 1
      BY <1>2, <1>4, <3>1
    <3>3. j - 1 \in Acks'
      BY <1>5, <3>2
    <3> QED
      BY <3>2, <3>3 DEF Unanswered
  <2> QED
    BY <1>7, <2>1, <2>2 DEF Unanswered
<1>8. \A i \in 1 .. Len(responses) - 1 : i + 1 \in DOMAIN responses
  BY <1>2
<1>9. SnapshotsAreFresh'
  BY <1>2, <1>7, <1>8 DEF ReadsInv, SnapshotsAreFresh
<1> QED
  BY <1>2, <1>6, <1>9

\* What the aggregator takes: all that was asked is answered.
LEMMA ActiveIsFresh ==
    ASSUME ReadsInv, responses # <<>>, IsActiveTarget,
           Head(responses).type = "snapshot"
    PROVE  Head(responses).version \in 0 .. doc
           /\ since <= Head(responses).version
<1>1. /\ responses \in Seq(Response) /\ 1 \in DOMAIN responses
      /\ Head(responses) = responses[1]
  BY Elements, HeadTailProperties DEF ReadsInv, ReadsTypeOK
<1>2. /\ requests \in Seq({"watch", "unwatch"}) /\ Len(requests) \in Nat
      /\ Acks = AcksOf(responses)
      /\ IsFiniteSet(Acks) /\ Cardinality(Acks) \in Nat
  BY <1>1, AcksFinite, LenProperties
     DEF Acks, AcksOf, AckType, ReadsInv, ReadsTypeOK
<1>3. Len(requests) = 0 /\ Cardinality(Acks) = 0
  BY <1>2 DEF IsActiveTarget, ReadsInv, AcksMatch
<1>4. requests = <<>> /\ Acks = {}
  BY <1>2, <1>3, FS_EmptySet, EmptySeq
<1>5. ~Unanswered(1)
  BY <1>4 DEF Unanswered
<1> QED
  BY <1>1, <1>5 DEF ReadsInv, SnapshotsAreFresh

LEMMA MessageStep ==
    ASSUME ReadsInv, OnWatchStreamChange
    PROVE  ReadsInv'
<1> DEFINE m == Head(responses)
<1>1. StreamInv /\ ClientInv
  BY HasStreamInv, HasClientInv
<1>2. /\ responses # <<>> /\ responses' = Tail(responses)
      /\ online' = "Online" /\ failures' = 0 /\ timer' = FALSE
      /\ UNCHANGED <<doc, tasks, answer, listeners, since>>
      /\ UNCHANGED <<stream, idle, requests, watched>>
  BY DEF OnWatchStreamChange, UpdateState
<1>3. \/ m.type \in AckType /\ HandleTargetAck(m)
      \/ m.type = "current" /\ HandleTargetCurrent
      \/ m.type = "snapshot" /\ RaiseWatchSnapshot(m.version)
  BY DEF OnWatchStreamChange, AckType
<1>4. IsOpen
  BY <1>1, <1>2 DEF StreamInv, Closed
<1>5. target \in [outstanding : Nat, current : BOOLEAN]
  BY <1>1 DEF StreamInv
<1>6. /\ target' \in [outstanding : Nat, current : BOOLEAN]
      /\ target'.outstanding = target.outstanding
            - (IF m.type \in AckType THEN 1 ELSE 0)
  <2>1. CASE m.type \in AckType /\ HandleTargetAck(m)
    <3>1. target.outstanding - 1 \in Nat
      BY <1>2, <1>5, <2>1, HeadAck
    <3> QED
      BY <1>5, <2>1, <3>1 DEF HandleTargetAck, NoTarget
  <2>2. CASE m.type = "current" /\ HandleTargetCurrent
    <3>1. m.type \notin AckType /\ IsActiveTarget \in BOOLEAN
      BY <2>2 DEF AckType, IsActiveTarget, Listened
    <3> QED
      BY <1>5, <2>2, <3>1 DEF HandleTargetCurrent
  <2>3. CASE m.type = "snapshot" /\ RaiseWatchSnapshot(m.version)
    BY <1>5, <2>3 DEF RaiseWatchSnapshot, AckType
  <2> QED
    BY <1>3, <2>1, <2>2, <2>3
<1>7. responses' \in Seq(Response) /\ AcksMatch' /\ SnapshotsAreFresh'
  BY <1>2, <1>6, MessageTaken
<1>8. StreamInv'
  BY <1>1, <1>2, <1>4, <1>6, <1>7
     DEF StreamInv, Closed, IsOpen, OnlineIsFresh, TimersJustified, Listened
<1>9. Raisable(events, answer)
  BY <1>1 DEF ClientInv, Asked, Raisable
<1>10. /\ cache' \in NoData .. doc /\ Raisable(events', answer)
       /\ raised' \in SUBSET Get /\ synced' \in BOOLEAN
       /\ SyncedHasDocument' /\ SyncedIsFresh'
  <2>1. CASE UNCHANGED <<cache, events, raised, synced>>
    BY <1>1, <1>2, <1>9, <2>1
       DEF ClientInv, SyncedHasDocument, SyncedIsFresh, Listened
  <2>2. CASE /\ m.type = "snapshot" /\ RaiseWatchSnapshot(m.version)
             /\ IsActiveTarget
    <3> DEFINE s == Event({g \in Get : synced' \/ g \in raised}, cache', ~synced')
    <3>1. m.version \in 0 .. doc /\ since <= m.version
      BY <1>2, <2>2, ActiveIsFresh
    <3>2. /\ cache' = IF m.version > cache THEN m.version ELSE cache
          /\ synced' = target.current
          /\ \/ /\ events' = events \o s
                /\ raised' = IF synced' THEN ToSet(listeners) ELSE raised
             \/ UNCHANGED <<events, raised>>
      BY <2>2 DEF RaiseWatchSnapshot
    <3>3. doc \in Int /\ cache \in Int /\ since \in Int /\ cache \in NoData .. doc
      BY <1>1, Types DEF ReadsInv, ClientInv
    <3>4. /\ cache' \in NoData .. doc /\ 0 <= cache' /\ since <= cache'
      <4> HIDE DEF m
      <4> QED
        BY <3>1, <3>2, <3>3 DEF NoData
    <3>5. cache' \in Known
      BY <1>1, <3>3, <3>4, FirestoreReadsAssumption
         DEF ClientInv, Version, Known, NoData
    <3>6. synced' \in BOOLEAN
      BY <1>5, <3>2
    <3>7. Raisable(s, answer)
      BY <3>4, <3>5, <3>6, EventsRaisable DEF ReadsInv
    <3>8. ToSet(listeners) \in SUBSET Get
      BY <1>1, Types DEF ToSet, ReadsInv
    <3> HIDE DEF s
    <3>9. Raisable(events', answer) /\ raised' \in SUBSET Get
      BY <1>1, <1>9, <3>2, <3>7, <3>8, RaisableConcat DEF ClientInv
    <3>10. Listened' /\ since' = since
      BY <1>2, <2>2 DEF IsActiveTarget, Listened
    <3> QED
      BY <3>4, <3>6, <3>9, <3>10 DEF SyncedHasDocument, SyncedIsFresh
  <2> QED
    BY <1>3, <2>1, <2>2
       DEF HandleTargetAck, HandleTargetCurrent, RaiseWatchSnapshot
<1>11. ClientInv'
  BY <1>1, <1>2, <1>7, <1>10 DEF ClientInv, Asked, Raisable
<1> QED
  BY <1>8, <1>11, BothParts

LEMMA ConfirmStep ==
    ASSUME ReadsInv, ServerConfirms
    PROVE  ReadsInv'
<1>1. StreamInv /\ ClientInv
  BY HasStreamInv, HasClientInv
<1>2. /\ requests # <<>> /\ requests' = Tail(requests)
      /\ UNCHANGED <<doc, cache, app, views, since>>
      /\ UNCHANGED <<stream, idle, target, online, failures, timer>>
  BY DEF ServerConfirms, tracker
<1>3. PICK m : /\ m \in {Message("added", NoData), Message("removed", NoData)}
               /\ responses' = Append(responses, m)
               /\ watched' \in {Accepted, Unwatched}
  BY DEF ServerConfirms
<1>4. m \in Response /\ m.type \in AckType
  BY <1>3, FirestoreReadsAssumption DEF Message, Response, AckType, Known, NoData
<1>5. /\ requests \in Seq({"watch", "unwatch"}) /\ responses \in Seq(Response)
      /\ target.outstanding \in Nat
  BY <1>1 DEF StreamInv, ClientInv
<1>6. /\ requests' \in Seq({"watch", "unwatch"})
      /\ Len(requests') = Len(requests) - 1 /\ Len(requests) \in Nat
  BY <1>2, <1>5, HeadTailProperties, LenProperties
<1>7. /\ responses' \in Seq(Response)
      /\ Len(responses) \in Nat
      /\ DOMAIN responses = 1 .. Len(responses)
      /\ DOMAIN responses' = 1 .. Len(responses) + 1
      /\ \A i \in 1 .. Len(responses) : responses'[i] = responses[i]
      /\ responses'[Len(responses) + 1] = m
  BY <1>3, <1>4, <1>5, AppendProperties, LenProperties
<1>8. Acks = AcksOf(responses) /\ Acks' = AcksOf(Append(responses, m))
  BY <1>3 DEF Acks, AcksOf, AckType
<1>9. Cardinality(Acks') = Cardinality(Acks) + 1 /\ Cardinality(Acks) \in Nat
  BY <1>4, <1>5, <1>8, AcksAppend, AcksFinite
<1>10. AcksMatch'
  BY <1>2, <1>6, <1>9 DEF ReadsInv, AcksMatch
<1>11. SnapshotsAreFresh'
  <2>1. Len(responses) + 1 \in Acks'
    BY <1>4, <1>7 DEF Acks, AckType
  <2>2. \A i \in 1 .. Len(responses) : Unanswered(i)'
    BY <1>7, <2>1 DEF Unanswered
  <2>3. m.type # "snapshot"
    BY <1>4 DEF AckType
  <2>4. \A i \in 1 .. Len(responses) + 1 :
            i \in 1 .. Len(responses) \/ i = Len(responses) + 1
    BY <1>7
  <2> QED
    BY <1>2, <1>7, <2>2, <2>3, <2>4 DEF ReadsInv, SnapshotsAreFresh
<1>12. StreamInv'
  BY <1>1, <1>2, <1>6, <1>10, <1>11
     DEF StreamInv, Closed, IsOpen, OnlineIsFresh, TimersJustified, IsStarted,
         Listened, views
<1>13. watched' \in Unwatched .. LastVersion
  BY <1>3, FirestoreReadsAssumption DEF Accepted, Unwatched
<1>14. ClientInv'
  BY <1>2, <1>7, <1>13, ClientUntouched
<1> QED
  BY <1>12, <1>14, BothParts

\* What SnapshotsAreFresh says of a sequence of messages.
FreshIn(s) ==
    \A i \in DOMAIN s : s[i].type = "snapshot" =>
        /\ s[i].version \in 0 .. doc
        /\ requests # <<>> \/ (\E j \in AcksOf(s) : i < j) \/ since <= s[i].version

\* A message that answers no request, and is fresh itself, comes in.
LEMMA FreshAppend ==
    ASSUME NEW s \in Seq(Response), NEW m \in Response, FreshIn(s),
           m.type \notin AckType,
           m.type = "snapshot" => m.version \in 0 .. doc /\ since <= m.version
    PROVE  /\ Append(s, m) \in Seq(Response) /\ FreshIn(Append(s, m))
           /\ Cardinality(AcksOf(Append(s, m))) = Cardinality(AcksOf(s))
<1>1. /\ Len(s) \in Nat /\ DOMAIN s = 1 .. Len(s)
      /\ Append(s, m) \in Seq(Response)
      /\ DOMAIN Append(s, m) = 1 .. Len(s) + 1
      /\ \A i \in 1 .. Len(s) : Append(s, m)[i] = s[i]
      /\ Append(s, m)[Len(s) + 1] = m
  BY AppendProperties, LenProperties
<1>2. AcksOf(s) \in SUBSET AcksOf(Append(s, m))
  BY <1>1 DEF AcksOf
<1>3. Cardinality(AcksOf(Append(s, m))) = Cardinality(AcksOf(s))
  BY AcksAppend, AcksFinite
<1>4. ASSUME NEW i \in 1 .. Len(s) + 1, Append(s, m)[i].type = "snapshot"
      PROVE  /\ Append(s, m)[i].version \in 0 .. doc
             /\ \/ requests # <<>> \/ \E j \in AcksOf(Append(s, m)) : i < j
                \/ since <= Append(s, m)[i].version
  <2>1. CASE i \in 1 .. Len(s)
    BY <1>1, <1>2, <1>4, <2>1 DEF FreshIn
  <2>2. CASE i = Len(s) + 1
    BY <1>1, <1>4, <2>2
  <2> QED
    BY <1>1, <2>1, <2>2
<1> QED
  BY <1>1, <1>3, <1>4 DEF FreshIn

LEMMA TellStep ==
    ASSUME ReadsInv, ServerTells
    PROVE  ReadsInv'
<1> DEFINE c == Message("current", NoData)
           m == Message("snapshot", doc)
<1>1. StreamInv /\ ClientInv
  BY HasStreamInv, HasClientInv
<1>2. /\ watched \in Accepted .. doc - 1 /\ watched' = doc
      /\ UNCHANGED <<doc, cache, app, views, since>>
      /\ UNCHANGED <<stream, idle, target, requests, online, failures, timer>>
  BY DEF ServerTells, tracker
<1>3. doc \in Version /\ doc \in Int /\ since \in Int /\ since <= doc
  BY <1>1, Types DEF ReadsInv, ClientInv
<1>4. IsOpen
  BY <1>1, <1>2, <1>3 DEF StreamInv, Closed, Unwatched, Accepted
<1>5. /\ c \in Response /\ c.type \notin AckType /\ c.type # "snapshot"
      /\ m \in Response /\ m.type \notin AckType
      /\ m.version \in 0 .. doc /\ since <= m.version
  BY <1>3, FirestoreReadsAssumption
     DEF Message, Response, AckType, Known, NoData, Version
<1>6. responses \in Seq(Response) /\ FreshIn(responses)
      /\ Acks = AcksOf(responses) /\ Acks' = AcksOf(responses')
  BY <1>1 DEF ClientInv, StreamInv, SnapshotsAreFresh, Unanswered, FreshIn,
              Acks, AcksOf, AckType
<1> HIDE DEF c, m
<1>7. \/ responses' = Append(responses, m)
      \/ responses' = Append(Append(responses, c), m)
  <2>1. \/ responses' = (responses \o <<c>>) \o <<m>>
        \/ responses' = (responses \o <<>>) \o <<m>>
    BY DEF ServerTells, c, m
  <2>2. responses \o <<>> = responses
    BY <1>6, ConcatEmptySeq
  <2>3. /\ Append(responses, c) = responses \o <<c>>
        /\ Append(responses, c) \in Seq(Response)
        /\ Append(responses, m) = responses \o <<m>>
    BY <1>5, <1>6, AppendIsConcat, AppendProperties
  <2>4. Append(Append(responses, c), m) = Append(responses, c) \o <<m>>
    BY <1>5, <2>3, AppendIsConcat
  <2> QED
    BY <2>1, <2>2, <2>3, <2>4
<1>8. /\ responses' \in Seq(Response) /\ FreshIn(responses')
      /\ Cardinality(Acks') = Cardinality(Acks)
  BY <1>5, <1>6, <1>7, FreshAppend
<1>9. AcksMatch' /\ SnapshotsAreFresh'
  BY <1>2, <1>6, <1>8
     DEF ReadsInv, AcksMatch, SnapshotsAreFresh, Unanswered, FreshIn
<1>10. StreamInv'
  BY <1>1, <1>2, <1>4, <1>9
     DEF StreamInv, Closed, IsOpen, OnlineIsFresh, TimersJustified, IsStarted,
         Listened, views
<1>11. watched' \in Unwatched .. LastVersion
  BY <1>2, <1>3 DEF Version, Unwatched
<1>12. ClientInv'
  BY <1>2, <1>8, <1>11, ClientUntouched
<1> QED
  BY <1>10, <1>12, BothParts

LEMMA DocWrittenStep ==
    ASSUME ReadsInv, DocWritten
    PROVE  ReadsInv'
<1>1. StreamInv /\ ClientInv
  BY HasStreamInv, HasClientInv
<1>2. /\ doc < LastVersion /\ doc' = doc + 1
      /\ UNCHANGED <<cache, tasks, events, answer, listeners, raised, synced>>
      /\ UNCHANGED <<stream, idle, target, requests, responses, watched>>
      /\ UNCHANGED <<online, failures, timer, since>>
  BY DEF DocWritten, app, views, wire, tracker
<1>3. doc \in Version /\ doc \in Int /\ since \in Int
  BY <1>1, Types DEF ReadsInv, ClientInv
<1>4. /\ doc' \in Version /\ doc' \in Int /\ doc' >= doc
      /\ cache' \in NoData .. doc' /\ since' \in NoData .. doc'
  BY <1>1, <1>2, <1>3, FirestoreReadsAssumption DEF ClientInv, Version, NoData
<1>5. AcksMatch' /\ SnapshotsAreFresh'
  BY <1>2, <1>3, <1>4, SameWire, SameSnapshots
<1>6. StreamInv'
  BY <1>1, <1>2, <1>5
     DEF StreamInv, Closed, IsOpen, OnlineIsFresh, TimersJustified, IsStarted,
         Listened
<1>7. ClientInv'
  BY <1>1, <1>2, <1>4
     DEF ClientInv, SyncedHasDocument, Listened, SyncedIsFresh, Asked
<1> QED
  BY <1>6, <1>7, BothParts

LEMMA IdleStep ==
    ASSUME ReadsInv, UNCHANGED vars
    PROVE  ReadsInv'
<1>1. StreamInv /\ ClientInv
  BY HasStreamInv, HasClientInv
<1>2. /\ UNCHANGED <<doc, cache, tasks, events, answer, listeners, raised, synced>>
      /\ UNCHANGED <<stream, idle, target, requests, responses, watched>>
      /\ UNCHANGED <<online, failures, timer, since>>
  BY DEF vars, app, views, wire, tracker
<1>3. AcksMatch' /\ SnapshotsAreFresh'
  BY <1>2, Types, SameWire, SameSnapshots DEF ReadsInv
<1>4. StreamInv'
  BY <1>1, <1>2, <1>3
     DEF StreamInv, Closed, IsOpen, OnlineIsFresh, TimersJustified, IsStarted,
         Listened
<1>5. ClientInv'
  BY <1>1, <1>2
     DEF ClientInv, SyncedHasDocument, Listened, SyncedIsFresh, Asked
<1> QED
  BY <1>4, <1>5, BothParts

\* Every step of the client, the server and the application.
LEMMA ReadsStep == ReadsInv /\ [Next]_vars => ReadsInv'
<1> SUFFICES ASSUME ReadsInv, [Next]_vars
             PROVE  ReadsInv'
  OBVIOUS
<1>1. ASSUME NEW g \in Get, GetDocument(g)
      PROVE  ReadsInv'
  BY <1>1, GetDocumentStep
<1>2. CASE Dispatch
  BY <1>2, DispatchStep
<1>3. CASE RunTask
  BY <1>3, RunTaskStep
<1>4. CASE OnWatchStreamOpen
  BY <1>4, OpenStep
<1>5. CASE OnWatchStreamClose
  BY <1>5, CloseStep
<1>6. CASE TryRestarting
  BY <1>6, TryRestartingStep
<1>7. CASE IdleTimeout
  BY <1>7, IdleTimeoutStep
<1>8. CASE RestartNetwork
  BY <1>8, RestartNetworkStep
<1>9. CASE OnlineStateTimeout
  BY <1>9, OnlineStateTimeoutStep
<1>10. CASE OnWatchStreamChange
  BY <1>10, MessageStep
<1>11. CASE ServerConfirms
  BY <1>11, ConfirmStep
<1>12. CASE ServerTells
  BY <1>12, TellStep
<1>13. CASE DocWritten
  BY <1>13, DocWrittenStep
<1>14. CASE UNCHANGED vars
  BY <1>14, IdleStep
<1> QED
  BY <1>1, <1>2, <1>3, <1>4, <1>5, <1>6, <1>7, <1>8, <1>9, <1>10, <1>11,
     <1>12, <1>13, <1>14 DEF Next

\* The inductive invariant holds in every reachable state: above all, what the
\* aggregator waits for is what is under way.
THEOREM ReadsInvariant == Spec => []ReadsInv
BY ReadsStart, ReadsStep, PTL DEF Spec

\* The online state timer and the idleness timer (online_state_tracker.cc,
\* stream.cc) run only where the assertions of their handlers hold.
THEOREM TimersAreJustified == Spec => []TimersJustified
<1>1. ReadsInv => TimersJustified
  BY DEF ReadsInv
<1> QED
  BY <1>1, ReadsInvariant, PTL

\* The count of outstanding answers (watch_change.cc, TargetState) is that of
\* the requests and answers under way, over every break of the stream.
THEOREM AcksAreCounted == Spec => []AcksMatch
<1>1. ReadsInv => AcksMatch
  BY DEF ReadsInv
<1> QED
  BY <1>1, ReadsInvariant, PTL

\* A view in sync (view.cc) is not older than the document was when the view
\* was made, whatever messages of an earlier watch come after.
THEOREM SyncedViewIsFresh == Spec => []SyncedIsFresh
<1>1. ReadsInv => SyncedIsFresh
  BY DEF ReadsInv
<1> QED
  BY <1>1, ReadsInvariant, PTL

-----------------------------------------------------------------------------
(* The first event of a get. *)

In(s, g) == \E i \in DOMAIN s : s[i].get = g

IsFirst(s, g, i) ==
    i \in DOMAIN s /\ s[i].get = g /\ \A j \in 1 .. i - 1 : s[j].get # g

First(s, g) ==
    s[CHOOSE i \in DOMAIN s : s[i].get = g /\ \A j \in 1 .. i - 1 : s[j].get # g]

\* The outcome of g for the events s under way and the answers a.
Result(s, a, g) ==
    IF a[g] = Waiting /\ In(s, g) THEN Told(First(s, g)) ELSE a[g]

LEMMA OutcomeIsResult ==
    /\ Outcome = [g \in Get |-> Result(events, answer, g)]
    /\ Outcome' = [g \in Get |-> Result(events', answer', g)]
BY DEF Outcome, Result, Decided, In, FirstEvent, First, Told

LEMMA FirstIsUnique ==
    ASSUME NEW s \in Seq(EventRecord), NEW g, NEW i, IsFirst(s, g, i)
    PROVE  In(s, g) /\ First(s, g) = s[i]
<1>1. Len(s) \in Nat /\ DOMAIN s = 1 .. Len(s)
  BY LenProperties
<1>2. ASSUME NEW k \in DOMAIN s,
             s[k].get = g /\ \A j \in 1 .. k - 1 : s[j].get # g
      PROVE  k = i
  <2>1. i \in 1 .. Len(s) /\ k \in 1 .. Len(s) /\ Len(s) \in Nat
    BY <1>1 DEF IsFirst
  <2>2. ~(i < k) /\ ~(k < i)
    BY <1>2, <2>1 DEF IsFirst
  <2> QED
    BY <2>1, <2>2
<1> QED
  BY <1>2 DEF IsFirst, In, First

LEMMA HasFirst ==
    ASSUME NEW s \in Seq(EventRecord), NEW g, In(s, g)
    PROVE  \E i : IsFirst(s, g, i)
<1> DEFINE T == {i \in DOMAIN s : s[i].get = g}
<1>1. Len(s) \in Nat /\ DOMAIN s = 1 .. Len(s)
  BY LenProperties
<1>2. T \in SUBSET Nat /\ T # {}
  BY <1>1 DEF In
<1>3. PICK i \in T : \A y \in T : i <= y
  <2> HIDE DEF T
  <2> QED
    BY <1>2, LeastNumber
<1>4. ASSUME NEW j \in 1 .. i - 1
      PROVE  s[j].get # g
  <2>1. i \in 1 .. Len(s)
    BY <1>1
  <2>2. j \in DOMAIN s /\ ~(i <= j)
    BY <1>1, <2>1
  <2> QED
    BY <1>3, <2>2
<1> QED
  BY <1>3, <1>4 DEF IsFirst

\* Events that come in later change nothing for a get that has its first one.
LEMMA FirstOfConcat ==
    ASSUME NEW s \in Seq(EventRecord), NEW t \in Seq(EventRecord), NEW g
    PROVE  /\ In(s \o t, g) <=> In(s, g) \/ In(t, g)
           /\ In(s, g) => First(s \o t, g) = First(s, g)
           /\ ~In(s, g) /\ In(t, g) => First(s \o t, g) = First(t, g)
<1>1. /\ Len(s) \in Nat /\ DOMAIN s = 1 .. Len(s)
      /\ Len(t) \in Nat /\ DOMAIN t = 1 .. Len(t)
      /\ s \o t \in Seq(EventRecord)
      /\ DOMAIN (s \o t) = 1 .. Len(s) + Len(t)
      /\ \A i \in 1 .. Len(s) + Len(t) :
            (s \o t)[i] = IF i <= Len(s) THEN s[i] ELSE t[i - Len(s)]
  BY ConcatProperties, LenProperties
<1>2. ASSUME NEW i, IsFirst(s, g, i)
      PROVE  IsFirst(s \o t, g, i) /\ (s \o t)[i] = s[i]
  <2>1. i \in 1 .. Len(s)
    BY <1>1, <1>2 DEF IsFirst
  <2>2. \A j \in 1 .. i : j \in 1 .. Len(s) + Len(t) /\ (s \o t)[j] = s[j]
    BY <1>1, <2>1
  <2>3. \A j \in 1 .. i - 1 : j \in 1 .. i
    BY <2>1
  <2>4. i \in 1 .. i
    BY <2>1
  <2> QED
    BY <1>1, <1>2, <2>2, <2>3, <2>4 DEF IsFirst
<1>3. ASSUME ~In(s, g), NEW i, IsFirst(t, g, i)
      PROVE  /\ IsFirst(s \o t, g, i + Len(s))
             /\ (s \o t)[i + Len(s)] = t[i]
  <2>1. i \in 1 .. Len(t)
    BY <1>1, <1>3 DEF IsFirst
  <2>2. /\ i + Len(s) \in 1 .. Len(s) + Len(t)
        /\ (s \o t)[i + Len(s)] = t[i]
    BY <1>1, <2>1
  <2>3. ASSUME NEW j \in 1 .. (i + Len(s)) - 1
        PROVE  (s \o t)[j].get # g
    <3>1. CASE j <= Len(s)
      <4>1. (s \o t)[j] = s[j] /\ j \in DOMAIN s
        BY <1>1, <2>1, <3>1
      <4> QED
        BY <1>3, <4>1 DEF In
    <3>2. CASE ~(j <= Len(s))
      <4>1. (s \o t)[j] = t[j - Len(s)] /\ j - Len(s) \in 1 .. i - 1
        BY <1>1, <2>1, <3>2
      <4> QED
        BY <1>3, <4>1 DEF IsFirst
    <3> QED
      BY <3>1, <3>2
  <2> QED
    BY <1>1, <1>3, <2>2, <2>3 DEF IsFirst
<1>4. ASSUME In(s \o t, g)
      PROVE  In(s, g) \/ In(t, g)
  <2>1. PICK i \in 1 .. Len(s) + Len(t) : (s \o t)[i].get = g
    BY <1>1, <1>4 DEF In
  <2>2. \/ i \in 1 .. Len(s) /\ (s \o t)[i] = s[i]
        \/ i - Len(s) \in 1 .. Len(t) /\ (s \o t)[i] = t[i - Len(s)]
    BY <1>1
  <2> QED
    BY <1>1, <2>1, <2>2 DEF In
<1>5. CASE In(s, g)
  <2>1. PICK i : IsFirst(s, g, i)
    BY <1>5, HasFirst
  <2>2. First(s, g) = s[i]
    BY <2>1, FirstIsUnique
  <2>3. IsFirst(s \o t, g, i) /\ (s \o t)[i] = s[i]
    BY <1>2, <2>1
  <2>4. In(s \o t, g) /\ First(s \o t, g) = s[i]
    BY <1>1, <2>3, FirstIsUnique
  <2> QED
    BY <1>5, <2>2, <2>4
<1>6. CASE ~In(s, g) /\ In(t, g)
  <2>1. PICK i : IsFirst(t, g, i)
    BY <1>6, HasFirst
  <2>2. First(t, g) = t[i]
    BY <2>1, FirstIsUnique
  <2>3. /\ IsFirst(s \o t, g, i + Len(s))
        /\ (s \o t)[i + Len(s)] = t[i]
    BY <1>3, <1>6, <2>1
  <2>4. In(s \o t, g) /\ First(s \o t, g) = t[i]
    BY <1>1, <2>3, FirstIsUnique
  <2> QED
    BY <1>6, <2>2, <2>4
<1> QED
  BY <1>4, <1>5, <1>6

\* The oldest event is the first of its get, and of no other.
LEMMA FirstOfHead ==
    ASSUME NEW s \in Seq(EventRecord), s # <<>>, NEW g
    PROVE  /\ Head(s).get = g => In(s, g) /\ First(s, g) = Head(s)
           /\ Head(s).get # g => /\ In(s, g) <=> In(Tail(s), g)
                                 /\ In(s, g) => First(s, g) = First(Tail(s), g)
<1> DEFINE e == Head(s)
<1>1. /\ e \in EventRecord /\ Tail(s) \in Seq(EventRecord) /\ e = s[1]
      /\ Len(s) \in Nat /\ Len(s) >= 1 /\ DOMAIN s = 1 .. Len(s)
      /\ Len(Tail(s)) = Len(s) - 1
      /\ \A i \in 1 .. Len(s) - 1 : Tail(s)[i] = s[i + 1]
  BY HeadTailProperties, LenProperties, EmptySeq
<1> HIDE DEF e
<1>2. <<e>> \in Seq(EventRecord) /\ Len(<<e>>) = 1 /\ <<e>>[1] = e
  BY <1>1
<1>3. s = <<e>> \o Tail(s)
  <2>1. /\ <<e>> \o Tail(s) \in Seq(EventRecord)
        /\ Len(<<e>> \o Tail(s)) = Len(s)
        /\ \A i \in 1 .. Len(s) :
            (<<e>> \o Tail(s))[i] = IF i <= 1 THEN <<e>>[i] ELSE Tail(s)[i - 1]
    BY <1>1, <1>2, ConcatProperties
  <2>2. \A i \in 1 .. Len(s) : (<<e>> \o Tail(s))[i] = s[i]
    BY <1>1, <1>2, <2>1
  <2> QED
    BY <1>1, <2>1, <2>2, SeqEqual
<1>4. In(<<e>>, g) <=> e.get = g
  BY <1>2 DEF In
<1>5. e.get = g => First(<<e>>, g) = e
  <2>1. e.get = g => IsFirst(<<e>>, g, 1)
    BY <1>2 DEF IsFirst
  <2> QED
    BY <1>2, <2>1, FirstIsUnique
<1>6. /\ In(s, g) <=> In(<<e>>, g) \/ In(Tail(s), g)
      /\ In(<<e>>, g) => First(s, g) = First(<<e>>, g)
      /\ ~In(<<e>>, g) /\ In(Tail(s), g) => First(s, g) = First(Tail(s), g)
  <2> DEFINE t == Tail(s)
  <2>1. t \in Seq(EventRecord) /\ s = <<e>> \o t
    BY <1>1, <1>3
  <2> HIDE DEF t
  <2>2. /\ In(<<e>> \o t, g) <=> In(<<e>>, g) \/ In(t, g)
        /\ In(<<e>>, g) => First(<<e>> \o t, g) = First(<<e>>, g)
        /\ ~In(<<e>>, g) /\ In(t, g) => First(<<e>> \o t, g) = First(t, g)
    BY <1>2, <2>1, FirstOfConcat
  <2>3. /\ In(s, g) <=> In(<<e>>, g) \/ In(t, g)
        /\ In(<<e>>, g) => First(s, g) = First(<<e>>, g)
        /\ ~In(<<e>>, g) /\ In(t, g) => First(s, g) = First(t, g)
    BY <2>1, <2>2
  <2> QED
    BY <2>3 DEF t
<1> QED
  BY <1>4, <1>5, <1>6 DEF e

-----------------------------------------------------------------------------
(* The client implements DocumentReads. *)

\* A get is asked.
LEMMA GetDocumentAsks ==
    ASSUME ReadsInv, NEW g \in Get, GetDocument(g)
    PROVE  Reads!Next
<1>1. /\ answer[g] = Asleep /\ answer' = [answer EXCEPT ![g] = Waiting]
      /\ UNCHANGED <<doc, cache, events>> /\ answer \in [Get -> Int]
  BY DEF GetDocument, ReadsInv, ReadsTypeOK
<1>2. ~In(events, g)
  BY <1>1 DEF ReadsInv, Asked, In
<1>3. ASSUME NEW h \in Get
      PROVE  /\ Outcome[h] = Result(events, answer, h)
             /\ Outcome'[h] = IF h = g THEN Waiting ELSE Outcome[h]
  <2>1. /\ Outcome[h] = Result(events, answer, h)
        /\ Outcome'[h] = Result(events', answer', h)
    BY OutcomeIsResult
  <2>2. CASE h = g
    BY <1>1, <1>2, <2>1, <2>2 DEF Result
  <2>3. CASE h # g
    BY <1>1, <2>1, <2>3 DEF Result
  <2> QED
    BY <2>2, <2>3
<1>4. Outcome' = [h \in Get |-> Outcome'[h]]
  BY OutcomeIsResult
<1>5. Outcome[g] = Asleep
  BY <1>1, <1>3 DEF Result, Waiting, Asleep
<1>6. Reads!Ask({g})
  BY <1>1, <1>3, <1>4, <1>5
     DEF Reads!Ask, Reads!Asleep, Reads!Waiting, Asleep, Waiting
<1> QED
  BY <1>6 DEF Reads!Next

\* What is told is never that a get still waits.
LEMMA ToldEnds ==
    ASSUME NEW v \in Known, NEW c \in BOOLEAN, ~c => 0 <= v,
           NEW e, e.version = v, e.fromCache = c
    PROVE  Told(e) # Waiting /\ Told(e) \in Reads!Outcome(v)
<1>1. v \in Int /\ -1 <= v
  BY FirestoreReadsAssumption DEF Known, NoData
<1>2. CASE v = -1
  BY <1>2 DEF Told, Waiting, Failed, Reads!Outcome, Reads!NoData, Reads!Failed
<1>3. CASE v = 0
  BY <1>3 DEF Told, Waiting, Failed, Reads!Outcome, Reads!NoData, Reads!Failed
<1>4. CASE v >= 1
  BY <1>1, <1>4 DEF Told, Waiting, Reads!Outcome, Reads!NoData
<1> QED
  BY <1>1, <1>2, <1>3, <1>4

\* An event that reaches its listener, or a muted one, changes no outcome.
LEMMA DispatchKeepsOutcomes ==
    ASSUME ReadsInv, Dispatch
    PROVE  Outcome' = Outcome
<1> DEFINE e == Head(events)
<1>1. /\ events # <<>> /\ events' = Tail(events)
      /\ \/ /\ answer[e.get] = Waiting
            /\ answer' = [answer EXCEPT ![e.get] = Told(e)]
         \/ answer[e.get] # Waiting /\ answer' = answer
  BY DEF Dispatch, Told
<1>2. /\ events \in Seq(EventRecord) /\ answer \in [Get -> Int]
      /\ e \in EventRecord /\ (~e.fromCache => 0 <= e.version)
  <2>1. events \in Seq(EventRecord) /\ answer \in [Get -> Int]
    BY DEF ReadsInv, ReadsTypeOK
  <2>2. 1 \in DOMAIN events /\ e = events[1]
    BY <1>1, <2>1, Elements, HeadTailProperties
  <2> QED
    BY <2>1, <2>2, Types DEF ReadsInv, Asked
<1>3. Told(e) # Waiting
  BY <1>2, ToldEnds DEF EventRecord
<1> HIDE DEF e
<1>4. ASSUME NEW g \in Get
      PROVE  Result(events', answer', g) = Result(events, answer, g)
  <2>1. CASE answer[g] # Waiting
    <3>1. answer'[g] = answer[g]
      BY <1>1, <1>2, <2>1
    <3> QED
      BY <2>1, <3>1 DEF Result
  <2>2. CASE answer[g] = Waiting /\ e.get = g
    <3>1. In(events, g) /\ First(events, g) = e
      BY <1>1, <1>2, <2>2, FirstOfHead DEF e
    <3>2. answer'[g] = Told(e)
      BY <1>1, <1>2, <2>2
    <3> QED
      BY <1>3, <2>2, <3>1, <3>2 DEF Result
  <2>3. CASE answer[g] = Waiting /\ e.get # g
    <3>1. /\ In(events, g) <=> In(events', g)
          /\ In(events, g) => First(events, g) = First(events', g)
      BY <1>1, <1>2, <2>3, FirstOfHead DEF e
    <3>2. answer'[g] = answer[g]
      BY <1>1, <1>2, <2>3
    <3> QED
      BY <3>1, <3>2 DEF Result
  <2> QED
    BY <2>1, <2>2, <2>3
<1> QED
  BY <1>4, OutcomeIsResult

\* Every other step raises events that all say the same, and what they say is
\* what the client knows by then.
Raises ==
    /\ UNCHANGED <<doc, answer>>
    /\ cache' \in cache .. doc
    /\ \E t \in Seq(EventRecord), c \in BOOLEAN :
        /\ events' = events \o t
        /\ ~c => 0 <= cache'
        /\ \A i \in DOMAIN t : t[i].version = cache' /\ t[i].fromCache = c

LEMMA RaisesLearns ==
    ASSUME ReadsInv, Raises
    PROVE  Reads!Next
<1>1. PICK t \in Seq(EventRecord), c \in BOOLEAN :
        /\ events' = events \o t
        /\ ~c => 0 <= cache'
        /\ \A i \in DOMAIN t : t[i].version = cache' /\ t[i].fromCache = c
  BY DEF Raises
<1>2. /\ UNCHANGED <<doc, answer>> /\ cache' \in cache .. doc
      /\ events \in Seq(EventRecord) /\ doc \in Version /\ cache \in Known
  BY Types DEF Raises, ReadsInv, ReadsTypeOK
<1>3. cache' \in Known
  BY <1>2, FirestoreReadsAssumption DEF Known, Version, NoData
<1> DEFINE ending == {g \in Get : answer[g] = Waiting /\ ~In(events, g) /\ In(t, g)}
           o == Told([version |-> cache', fromCache |-> c])
<1>4. o \in Reads!Outcome(cache')
  BY <1>1, <1>3, ToldEnds
<1>5. ASSUME NEW g \in Get
      PROVE  /\ g \in ending => Result(events, answer, g) = Waiting
             /\ Result(events', answer', g)
                    = IF g \in ending THEN o ELSE Result(events, answer, g)
  <2>1. /\ In(events', g) <=> In(events, g) \/ In(t, g)
        /\ In(events, g) => First(events', g) = First(events, g)
        /\ ~In(events, g) /\ In(t, g) => First(events', g) = First(t, g)
    BY <1>1, <1>2, FirstOfConcat
  <2>2. ASSUME In(t, g)
        PROVE  Told(First(t, g)) = o
    <3>1. PICK i : IsFirst(t, g, i)
      BY <2>2, HasFirst
    <3>2. First(t, g) = t[i] /\ i \in DOMAIN t
      BY <3>1, FirstIsUnique DEF IsFirst
    <3> QED
      BY <1>1, <3>2 DEF Told
  <2> HIDE DEF o
  <2> QED
    BY <1>2, <2>1, <2>2 DEF Result
<1> HIDE DEF o, ending
<1>6. /\ \A g \in ending : g \in Get /\ Outcome[g] = Waiting
      /\ Outcome' = [g \in Get |-> IF g \in ending THEN o ELSE Outcome[g]]
  <2>1. ending \in SUBSET Get
    BY DEF ending
  <2> QED
    BY <1>5, <2>1, OutcomeIsResult
<1>7. Reads!Learn(ending)
  BY <1>2, <1>4, <1>6 DEF Reads!Learn, Reads!Waiting, Waiting
<1>8. ending \in SUBSET Get
  BY DEF ending
<1> QED
  BY <1>7, <1>8 DEF Reads!Next

\* A step that neither raises events nor answers gets.
LEMMA NothingRaised ==
    ASSUME UNCHANGED <<doc, cache, events, answer>>
    PROVE  UNCHANGED Reads!vars
<1>1. Outcome' = Outcome
  BY OutcomeIsResult
<1> QED
  BY <1>1 DEF Reads!vars

LEMMA EventRaises ==
    ASSUME ReadsInv, NEW set, NEW c \in BOOLEAN, UNCHANGED <<doc, answer>>,
           cache' \in cache .. doc, ~c => 0 <= cache',
           events' = events \o Event(set, cache', c)
    PROVE  Raises
<1>1. cache' \in Known
  <2>1. doc \in Version /\ cache \in Known
    BY Types DEF ReadsInv, ReadsTypeOK
  <2> QED
    BY <2>1, FirestoreReadsAssumption DEF Known, Version, NoData
<1>2. /\ Event(set, cache', c) \in Seq(EventRecord)
      /\ \A i \in DOMAIN Event(set, cache', c) :
            /\ Event(set, cache', c)[i].version = cache'
            /\ Event(set, cache', c)[i].fromCache = c
  BY <1>1, EventRecords DEF ReadsInv
<1> QED
  BY <1>2 DEF Raises

LEMMA BroadcastRaises ==
    ASSUME ReadsInv, SetAndBroadcast("Offline"), UNCHANGED <<doc, cache, answer>>
    PROVE  Raises \/ UNCHANGED Reads!vars
<1>1. CASE online # "Offline"
  <2>1. events' = events
            \o Event({g \in Get : synced \/ g \notin raised}, cache', TRUE)
    BY <1>1 DEF SetAndBroadcast
  <2>2. cache' \in cache .. doc
    BY Types DEF ReadsInv, ReadsTypeOK
  <2> QED
    BY <2>1, <2>2, EventRaises
<1>2. CASE online = "Offline"
  <2>1. UNCHANGED events
    BY <1>2 DEF SetAndBroadcast
  <2> QED
    BY <2>1, NothingRaised
<1> QED
  BY <1>1, <1>2

LEMMA AddRaises ==
    ASSUME ReadsInv, NEW g \in Get, AddQueryListener(g)
    PROVE  Raises \/ UNCHANGED Reads!vars
<1> DEFINE e == [get |-> g, version |-> cache, fromCache |-> ~synced]
<1>1. UNCHANGED <<doc, cache, answer>>
  BY DEF AddQueryListener
<1>2. events' = Append(events, e) \/ events' = events
  BY DEF AddQueryListener
<1>3. /\ e \in EventRecord /\ e.version = cache /\ e.fromCache = ~synced
      /\ synced \in BOOLEAN /\ (synced => 0 <= cache)
      /\ events \in Seq(EventRecord)
      /\ cache \in cache .. doc
  <2>1. cache \in Known /\ synced \in BOOLEAN
    BY Types DEF ReadsInv, ReadsTypeOK
  <2>2. e \in EventRecord
    BY <2>1 DEF EventRecord
  <2>3. cache \in cache .. doc
    BY Types DEF ReadsInv, ReadsTypeOK
  <2> QED
    BY <2>1, <2>2, <2>3 DEF ReadsInv, ReadsTypeOK, SyncedHasDocument
<1> HIDE DEF e
<1>4. CASE events' = Append(events, e)
  <2>1. events' = events \o <<e>>
    BY <1>3, <1>4, AppendIsConcat
  <2>2. <<e>> \in Seq(EventRecord) /\ DOMAIN <<e>> = {1} /\ <<e>>[1] = e
    BY <1>3
  <2>3. Raises
    BY <1>1, <1>3, <2>1, <2>2 DEF Raises
  <2> QED
    BY <2>3
<1>5. CASE events' = events
  BY <1>1, <1>5, NothingRaised
<1> QED
  BY <1>2, <1>4, <1>5

LEMMA RunTaskRaises ==
    ASSUME ReadsInv, RunTask
    PROVE  Raises \/ UNCHANGED Reads!vars
<1>1. /\ tasks # <<>>
      /\ \/ AddQueryListener(Head(tasks).get)
         \/ RemoveQueryListener(Head(tasks).get)
  BY DEF RunTask
<1>2. Head(tasks).get \in Get
  BY <1>1, TaskTaken
<1>3. ASSUME RemoveQueryListener(Head(tasks).get)
      PROVE  UNCHANGED Reads!vars
  <2>1. UNCHANGED <<doc, cache, events, answer>>
    BY <1>3 DEF RemoveQueryListener
  <2> QED
    BY <2>1, NothingRaised
<1> QED
  BY <1>1, <1>2, <1>3, AddRaises

LEMMA CloseRaises ==
    ASSUME ReadsInv, OnWatchStreamClose
    PROVE  Raises \/ UNCHANGED Reads!vars
<1>1. UNCHANGED <<doc, cache, answer>>
  BY DEF OnWatchStreamClose
<1>2. SetAndBroadcast("Offline") \/ UNCHANGED events
  BY DEF OnWatchStreamClose, HandleWatchStreamFailure
<1> QED
  BY <1>1, <1>2, BroadcastRaises, NothingRaised

LEMMA MessageRaises ==
    ASSUME ReadsInv, OnWatchStreamChange
    PROVE  Raises \/ UNCHANGED Reads!vars
<1> DEFINE m == Head(responses)
<1>1. responses # <<>> /\ UNCHANGED <<doc, answer>>
  BY DEF OnWatchStreamChange
<1>2. CASE UNCHANGED <<cache, events>>
  BY <1>1, <1>2, NothingRaised
<1>3. CASE m.type = "snapshot" /\ RaiseWatchSnapshot(m.version) /\ IsActiveTarget
  <2> DEFINE set == {g \in Get : synced' \/ g \in raised}
  <2>1. m.version \in 0 .. doc
    BY <1>1, <1>3, ActiveIsFresh
  <2>2. /\ cache' = IF m.version > cache THEN m.version ELSE cache
        /\ synced' = target.current
        /\ \/ events' = events \o Event(set, cache', ~synced')
           \/ UNCHANGED <<cache, events>>
    BY <1>3 DEF RaiseWatchSnapshot
  <2>3. synced' \in BOOLEAN
    BY <2>2 DEF ReadsInv, ReadsTypeOK
  <2>4. /\ doc \in Int /\ cache \in Int /\ cache <= doc
    BY Types DEF ReadsInv, ReadsTypeOK
  <2> HIDE DEF m, set
  <2>5. cache' \in cache .. doc /\ 0 <= cache'
    BY <2>1, <2>2, <2>4
  <2>6. CASE events' = events \o Event(set, cache', ~synced')
    BY <1>1, <2>3, <2>5, <2>6, EventRaises
  <2> QED
    BY <1>2, <2>2, <2>6
<1> QED
  BY <1>2, <1>3
     DEF OnWatchStreamChange, HandleTargetAck, HandleTargetCurrent,
         RaiseWatchSnapshot

LEMMA ReadsRefines == ReadsInv /\ [Next]_vars => [Reads!Next]_(Reads!vars)
<1> SUFFICES ASSUME ReadsInv, [Next]_vars
             PROVE  Reads!Next \/ UNCHANGED Reads!vars
  OBVIOUS
<1>1. ASSUME NEW g \in Get, GetDocument(g)
      PROVE  Reads!Next
  BY <1>1, GetDocumentAsks
<1>2. ASSUME Dispatch
      PROVE  UNCHANGED Reads!vars
  <2>1. UNCHANGED <<doc, cache>>
    BY <1>2 DEF Dispatch
  <2> QED
    BY <1>2, <2>1, DispatchKeepsOutcomes DEF Reads!vars
<1>3. CASE RunTask
  BY <1>3, RunTaskRaises, RaisesLearns
<1>4. CASE OnWatchStreamClose
  BY <1>4, CloseRaises, RaisesLearns
<1>5. CASE OnlineStateTimeout
  <2>1. SetAndBroadcast("Offline") /\ UNCHANGED <<doc, cache, answer>>
    BY <1>5 DEF OnlineStateTimeout
  <2> QED
    BY <2>1, BroadcastRaises, RaisesLearns
<1>6. CASE OnWatchStreamChange
  BY <1>6, MessageRaises, RaisesLearns
<1>7. ASSUME DocWritten
      PROVE  Reads!Next
  <2>1. doc < LastVersion /\ doc' = doc + 1 /\ UNCHANGED <<cache, events, answer>>
    BY <1>7 DEF DocWritten, app
  <2>2. Outcome' = Outcome
    BY <2>1, OutcomeIsResult
  <2> QED
    BY <2>1, <2>2 DEF Reads!Next, Reads!Write
<1>8. CASE \/ OnWatchStreamOpen \/ TryRestarting \/ IdleTimeout \/ RestartNetwork
           \/ ServerConfirms \/ ServerTells \/ UNCHANGED vars
  <2>1. UNCHANGED <<doc, cache, events, answer>>
    BY <1>8
       DEF OnWatchStreamOpen, TryRestarting, IdleTimeout, RestartNetwork,
           ServerConfirms, ServerTells, vars, app
  <2> QED
    BY <2>1, NothingRaised
<1> QED
  BY <1>1, <1>2, <1>3, <1>4, <1>5, <1>6, <1>7, <1>8 DEF Next

\* Every get ends once, with what the device knew when its event was raised
\* (document_reference.cc, ListenOnce): the client implements DocumentReads.
THEOREM ClientImplementsReads == Spec => ImplementsReads
<1>1. Init => Reads!Init
  <2> SUFFICES ASSUME Init
               PROVE  Reads!Init
    OBVIOUS
  <2>1. doc \in 0 .. LastVersion /\ cache \in NoData .. doc
    BY DEF Init, Version
  <2>2. Outcome = [g \in Get |-> Asleep]
    BY OutcomeIsResult DEF Init, Result, Waiting, Asleep
  <2> QED
    BY <2>1, <2>2 DEF Reads!Init, Reads!NoData, Reads!Asleep, NoData, Asleep
<1>2. ReadsInv /\ [Next]_vars => [Reads!Next]_(Reads!vars)
  BY ReadsRefines
<1> QED
  BY <1>1, <1>2, ReadsInvariant, PTL DEF Spec, ImplementsReads, Reads!Spec

-----------------------------------------------------------------------------
(* What the promise means to whoever gets the document twice. *)

\* No get has ended with a version the device does not know.
OutcomesKnown ==
    /\ doc \in Version /\ cache \in NoData .. doc
    /\ Outcome \in [Get -> Version \cup {Asleep, Waiting, Failed}]
    /\ \A g \in Get : Outcome[g] \in Version => Outcome[g] <= cache

\* A get that has ended stays so, and one that ends after it brings no older
\* version.
NoOlderGet ==
    \A g, h \in Get : Outcome[g] \in Version \cup {Failed} =>
        /\ Outcome'[g] = Outcome[g]
        /\ Outcome[h] = Waiting /\ Outcome[g] \in Version
                /\ Outcome'[h] \in Version
            => Outcome'[h] >= Outcome[g]

\* The gets of a set end with o: what the device knows by then.
LEMMA LearnStep ==
    ASSUME OutcomesKnown, NEW ending \in SUBSET Get, Reads!Learn(ending)
    PROVE  /\ cache' \in cache .. doc /\ doc' = doc
           /\ \E o \in {Failed} \cup (Version \cap {cache'}) :
                /\ \A g \in ending : Outcome[g] = Waiting /\ Outcome'[g] = o
                /\ \A g \in Get \ ending : Outcome'[g] = Outcome[g]
                /\ Outcome' \in [Get -> Version \cup {Asleep, Waiting, Failed}]
<1>1. /\ cache' \in cache .. doc /\ doc' = doc
      /\ \A g \in ending : Outcome[g] = Waiting
  BY DEF Reads!Learn, Reads!Waiting, Waiting
<1>2. PICK o \in Reads!Outcome(cache') :
        Outcome' = [g \in Get |-> IF g \in ending THEN o ELSE Outcome[g]]
  BY DEF Reads!Learn
<1>3. /\ doc \in Nat /\ doc <= LastVersion /\ cache \in Int /\ -1 <= cache
  BY FirestoreReadsAssumption DEF OutcomesKnown, Version, NoData
<1>4. o \in {Failed} \cup (Version \cap {cache'})
  <2>1. CASE cache' = -1
    BY <1>2, <2>1 DEF Reads!Outcome, Reads!NoData, Reads!Failed, Failed
  <2>2. CASE cache' = 0
    <3>1. o \in {Failed, 0}
      BY <1>2, <2>2 DEF Reads!Outcome, Reads!NoData, Reads!Failed, Failed
    <3> QED
      BY <1>3, <2>2, <3>1, FirestoreReadsAssumption DEF Version
  <2>3. CASE cache' \notin {-1, 0}
    <3>1. o = cache'
      BY <1>2, <2>3 DEF Reads!Outcome, Reads!NoData
    <3> QED
      BY <1>1, <1>3, <2>3, <3>1, FirestoreReadsAssumption DEF Version
  <2> QED
    BY <2>1, <2>2, <2>3
<1>5. Outcome' \in [Get -> Version \cup {Asleep, Waiting, Failed}]
  BY <1>2, <1>4 DEF OutcomesKnown
<1>6. /\ \A g \in ending : Outcome'[g] = o
      /\ \A g \in Get \ ending : Outcome'[g] = Outcome[g]
  BY <1>2
<1> QED
  BY <1>1, <1>4, <1>5, <1>6

LEMMA OutcomesStep ==
    ASSUME OutcomesKnown, [Reads!Next]_(Reads!vars)
    PROVE  OutcomesKnown' /\ NoOlderGet
<1>1. /\ doc \in Nat /\ doc <= LastVersion /\ cache \in Int /\ -1 <= cache
      /\ cache <= doc /\ LastVersion \in Nat
  BY FirestoreReadsAssumption DEF OutcomesKnown, Version, NoData
<1>2. ASSUME NEW ending \in SUBSET Get, Reads!Learn(ending)
      PROVE  OutcomesKnown' /\ NoOlderGet
  <2>1. PICK o \in {Failed} \cup (Version \cap {cache'}) :
          /\ \A g \in ending : Outcome[g] = Waiting /\ Outcome'[g] = o
          /\ \A g \in Get \ ending : Outcome'[g] = Outcome[g]
          /\ Outcome' \in [Get -> Version \cup {Asleep, Waiting, Failed}]
    BY <1>2, LearnStep
  <2>2. cache' \in Int /\ cache <= cache' /\ cache' <= doc /\ doc' = doc
    BY <1>1, <1>2, LearnStep
  <2>3. o \in Version => o = cache'
    BY <2>1 DEF Failed, Version
  <2>4. \A g \in Get : Outcome[g] \in Version => Outcome[g] <= cache'
    BY <1>1, <2>2 DEF OutcomesKnown, Version
  <2>5. Waiting \notin Version \cup {Failed}
    BY DEF Waiting, Failed, Version
  <2>6. OutcomesKnown'
    <3>1. doc' \in Version /\ cache' \in NoData .. doc'
      BY <1>1, <2>2 DEF OutcomesKnown, NoData
    <3>2. ASSUME NEW g \in Get, Outcome'[g] \in Version
          PROVE  Outcome'[g] <= cache'
      <4>1. CASE g \in ending
        BY <2>1, <2>2, <2>3, <3>2, <4>1
      <4>2. CASE g \notin ending
        BY <2>1, <2>4, <3>2, <4>2
      <4> QED
        BY <4>1, <4>2
    <3> QED
      BY <2>1, <3>1, <3>2 DEF OutcomesKnown
  <2>7. ASSUME NEW g \in Get, Outcome[g] \in Version \cup {Failed}
        PROVE  Outcome'[g] = Outcome[g]
    BY <2>1, <2>5, <2>7
  <2>8. ASSUME NEW g \in Get, NEW h \in Get, Outcome[h] = Waiting,
               Outcome[g] \in Version, Outcome'[h] \in Version
        PROVE  Outcome'[h] >= Outcome[g]
    <3>1. h \in ending
      BY <2>1, <2>5, <2>8
    <3>2. Outcome'[h] = cache' /\ Outcome[g] <= cache'
      BY <2>1, <2>3, <2>4, <2>8, <3>1
    <3>3. Outcome[g] \in Int
      BY <2>8 DEF Version
    <3> QED
      BY <2>2, <3>2, <3>3
  <2> QED
    BY <2>6, <2>7, <2>8 DEF NoOlderGet
<1>3. ASSUME NEW asking \in SUBSET Get, Reads!Ask(asking)
      PROVE  OutcomesKnown' /\ NoOlderGet
  <2>1. /\ \A g \in asking : Outcome[g] = Asleep
        /\ Outcome' = [g \in Get |-> IF g \in asking THEN Waiting ELSE Outcome[g]]
        /\ UNCHANGED <<doc, cache>>
    BY <1>3 DEF Reads!Ask, Reads!Asleep, Reads!Waiting, Asleep, Waiting
  <2>2. {Asleep, Waiting} \cap (Version \cup {Failed}) = {}
    BY DEF Asleep, Waiting, Failed, Version
  <2>3. Outcome' \in [Get -> Version \cup {Asleep, Waiting, Failed}]
    BY <2>1 DEF OutcomesKnown
  <2>4. \A g \in Get :
          \/ Outcome[g] = Asleep /\ Outcome'[g] = Waiting
          \/ Outcome'[g] = Outcome[g]
    BY <2>1
  <2> HIDE DEF Outcome
  <2>5. OutcomesKnown'
    BY <2>1, <2>2, <2>3, <2>4 DEF OutcomesKnown
  <2>6. NoOlderGet
    BY <2>2, <2>4 DEF NoOlderGet
  <2> QED
    BY <2>5, <2>6
<1>4. CASE Reads!Write
  <2>1. /\ doc' = doc + 1 /\ doc < LastVersion /\ cache' = cache
        /\ Outcome' = Outcome
    BY <1>4 DEF Reads!Write
  <2>2. doc' \in Version /\ cache' \in NoData .. doc'
    BY <1>1, <2>1 DEF Version, NoData
  <2>3. Waiting \notin Version
    BY DEF Waiting, Version
  <2> QED
    BY <2>1, <2>2, <2>3 DEF OutcomesKnown, NoOlderGet
<1>5. CASE UNCHANGED Reads!vars
  <2>1. doc' = doc /\ cache' = cache /\ Outcome' = Outcome
    BY <1>5 DEF Reads!vars
  <2>2. Waiting \notin Version
    BY DEF Waiting, Version
  <2> QED
    BY <2>1, <2>2 DEF OutcomesKnown, NoOlderGet
<1> QED
  BY <1>2, <1>3, <1>4, <1>5 DEF Reads!Next

\* Of two gets, the one whose first event is raised later brings no older
\* version of the document, and neither is decided twice (document_reference.cc,
\* ListenOnce): it follows from what DocumentReads promises.
THEOREM GetsAreMonotonic == Spec => [][NoOlderGet]_vars
<1>1. Reads!Init => OutcomesKnown
  <2> SUFFICES ASSUME Reads!Init
               PROVE  OutcomesKnown
    OBVIOUS
  <2>1. doc \in Version /\ cache \in NoData .. doc
    BY DEF Reads!Init, Reads!NoData, NoData, Version
  <2>2. Outcome = [g \in Get |-> Asleep] /\ Asleep \notin Version
    BY DEF Reads!Init, Reads!Asleep, Asleep, Version
  <2> QED
    BY <2>1, <2>2 DEF OutcomesKnown
<1>2. OutcomesKnown /\ [Reads!Next]_(Reads!vars) => OutcomesKnown' /\ [NoOlderGet]_vars
  BY OutcomesStep
<1> QED
  BY <1>1, <1>2, ClientImplementsReads, PTL DEF ImplementsReads, Reads!Spec
=============================================================================
