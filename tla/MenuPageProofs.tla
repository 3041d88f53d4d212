---------------------------- MODULE MenuPageProofs ----------------------------
(***************************************************************************)
(* Theorems about the menu page: MenuPanels, for every bound on the        *)
(* delayed scrolls, and UserName, for any number of writes and requests.   *)
(* The two share no variable.                                              *)
(*                                                                         *)
(* NewestIsLast strengthens the types: the panel opened last is the one    *)
(* whose scroll is served last.  LastOpenedWins follows, because a queue   *)
(* that a scroll leaves empty held nothing but that scroll.                *)
(*                                                                         *)
(* That no name goes back to an older one rests on an order of versions:   *)
(* what is shown was known to the device, which knows no more than was     *)
(* written, and a request that a page awaits ends, if with a version, with *)
(* one that was known after everything the page has shown (Behind).        *)
(***************************************************************************)
EXTENDS MenuPanels, UserName, TLAPS

NewestIsLast == due # <<>> => due[Len(due)] = newest

IInv == TypeOK /\ CopiesAgree /\ NewestIsLast

LEMMA PanelsAreButtons == Panel \subseteq Button
  BY DEF Panel, Button

\* The offset computed now is one of the offsets of the panel.
LEMMA OffsetNowInOffsets ==
    ASSUME NEW p \in Panel, TypeOK
    PROVE  OffsetNow(p) \in OffsetsOf(p) /\ OffsetNow(p) \in Place
<1>1. Other(p) \in Panel
  BY DEF Other, Panel
<1>2. more \in BOOLEAN /\ shown[Other(p)] \in BOOLEAN
  BY <1>1 DEF TypeOK
<1>3. OffsetNow(p) \in OffsetsOf(p)
  BY <1>2 DEF OffsetNow, OffsetsOf
<1> QED BY <1>3 DEF Place, Panel

LEMMA InitEstablishes == Init => IInv
<1> SUFFICES ASSUME Init PROVE IInv
  OBVIOUS
<1>1. /\ shown \in [Panel -> BOOLEAN]
      /\ showing \in [Button -> BOOLEAN]
      /\ turned \in [Button -> BOOLEAN]
  BY DEF Init, AllClosed
<1>2. due \in Seq(Panel) /\ Len(due) <= MaxDue
  BY MaxDueAssumption DEF Init
<1>3. newest \in Panel /\ scroll \in Place
  BY DEF Init, Panel, Place
<1>4. TypeOK
  BY <1>1, <1>2, <1>3 DEF Init, TypeOK
<1>5. CopiesAgree
  BY PanelsAreButtons DEF Init, CopiesAgree, AllClosed
<1> QED BY <1>4, <1>5 DEF IInv, NewestIsLast, Init

\* What pressing a button does to the three copies, and to the queue.
LEMMA OpenPreserves ==
    ASSUME IInv, NEW b \in Button, OpenPressed(b)
    PROVE  IInv'
<1> USE PanelsAreButtons
<1>1. CASE b \in Panel
  <2>1. /\ due' = Append(due, b) /\ newest' = b
        /\ Len(due) < MaxDue
        /\ shown' = [shown EXCEPT ![b] = TRUE]
    BY <1>1 DEF OpenPressed
  <2>2. due' \in Seq(Panel) /\ Len(due') = Len(due) + 1 /\ due'[Len(due')] = b
    BY <1>1, <2>1 DEF IInv, TypeOK
  <2>3. Len(due') <= MaxDue
    BY <2>1, <2>2, MaxDueAssumption DEF IInv, TypeOK
  <2>4. TypeOK'
    BY <1>1, <2>1, <2>2, <2>3 DEF IInv, TypeOK, OpenPressed
  <2>5. CopiesAgree'
    BY <1>1, <2>1 DEF IInv, TypeOK, CopiesAgree, OpenPressed
  <2> QED BY <2>1, <2>2, <2>4, <2>5 DEF IInv, NewestIsLast
<1>2. CASE b \notin Panel
  <2>1. UNCHANGED <<shown, due, newest>>
    BY <1>2 DEF OpenPressed
  <2>2. TypeOK'
    BY <2>1 DEF IInv, TypeOK, OpenPressed
  <2>3. CopiesAgree'
    BY <1>2, <2>1 DEF IInv, TypeOK, CopiesAgree, OpenPressed
  <2> QED BY <2>1, <2>2, <2>3 DEF IInv, NewestIsLast
<1> QED BY <1>1, <1>2

LEMMA ClosePreserves ==
    ASSUME IInv, NEW b \in Button, ClosePressed(b)
    PROVE  IInv'
<1> USE PanelsAreButtons
<1>1. TypeOK'
  <2>1. shown' \in [Panel -> BOOLEAN]
    BY DEF IInv, TypeOK, ClosePressed
  <2> QED BY <2>1 DEF IInv, TypeOK, ClosePressed
<1>2. CopiesAgree'
  BY DEF IInv, TypeOK, CopiesAgree, ClosePressed
<1> QED BY <1>1, <1>2 DEF IInv, NewestIsLast, ClosePressed

\* The scroll takes the head, so the last element stays where it is.
LEMMA ScrollPreserves ==
    ASSUME IInv, DelayedScroll
    PROVE  IInv'
<1>1. Head(due) \in Panel /\ due' \in Seq(Panel) /\ Len(due') = Len(due) - 1
  BY DEF IInv, TypeOK, DelayedScroll
<1>2. scroll' \in Place
  BY <1>1, OffsetNowInOffsets DEF IInv, DelayedScroll
<1>3. TypeOK'
  BY <1>1, <1>2, MaxDueAssumption DEF IInv, TypeOK, DelayedScroll
<1>4. CopiesAgree'
  BY DEF IInv, CopiesAgree, DelayedScroll
<1>5. NewestIsLast'
  <2> SUFFICES ASSUME due' # <<>> PROVE due'[Len(due')] = newest'
    BY DEF NewestIsLast
  <2>1. due'[Len(due')] = due[Len(due)]
    BY <1>1 DEF IInv, TypeOK, DelayedScroll
  <2> QED BY <2>1 DEF IInv, NewestIsLast, DelayedScroll
<1> QED BY <1>3, <1>4, <1>5 DEF IInv

LEMMA NextPreserves == IInv /\ [Next]_vars => IInv'
<1> SUFFICES ASSUME IInv, [Next]_vars PROVE IInv'
  OBVIOUS
<1>1. CASE Frame
  <2>1. built' \in {<<v>> : v \in BOOLEAN}
    BY <1>1 DEF Frame, IInv, TypeOK
  <2>2. TypeOK'
    BY <1>1, <2>1 DEF Frame, IInv, TypeOK
  <2> QED BY <1>1, <2>2 DEF Frame, IInv, CopiesAgree, NewestIsLast
<1>2. CASE MorePressed
  <2>1. more' \in BOOLEAN
    BY <1>2 DEF MorePressed
  <2>2. TypeOK'
    BY <1>2, <2>1 DEF MorePressed, IInv, TypeOK
  <2> QED BY <1>2, <2>2 DEF MorePressed, IInv, CopiesAgree, NewestIsLast
<1>3. ASSUME NEW b \in Button, OpenPressed(b) PROVE IInv'
  BY <1>3, OpenPreserves
<1>4. ASSUME NEW b \in Button, ClosePressed(b) PROVE IInv'
  BY <1>4, ClosePreserves
<1>5. CASE DelayedScroll
  BY <1>5, ScrollPreserves
<1>6. CASE StatusBarPressed
  <2>1. scroll' \in Place
    BY <1>6 DEF StatusBarPressed, Place
  <2> QED BY <1>6, <2>1
          DEF StatusBarPressed, IInv, TypeOK, CopiesAgree, NewestIsLast
<1>7. CASE Drag
  <2>1. scroll' \in Place
    BY <1>7 DEF Drag, Place
  <2> QED BY <1>7, <2>1 DEF Drag, IInv, TypeOK, CopiesAgree, NewestIsLast
<1>8. ASSUME NEW isMenu \in BOOLEAN, TabChosen(isMenu) PROVE IInv'
  BY <1>8 DEF TabChosen, IInv, TypeOK, CopiesAgree, NewestIsLast
<1>9. CASE Dispose
  <2>1. due' \in Seq(Panel) /\ Len(due') <= MaxDue
    BY <1>9, MaxDueAssumption DEF Dispose
  <2> QED BY <1>9, <2>1 DEF Dispose, IInv, TypeOK, CopiesAgree, NewestIsLast
<1>10. CASE Mount
  <2>1. /\ shown' \in [Panel -> BOOLEAN]
        /\ showing' \in [Button -> BOOLEAN]
        /\ turned' \in [Button -> BOOLEAN]
    BY <1>10 DEF Mount, AllClosed
  <2>2. due' \in Seq(Panel) /\ Len(due') <= MaxDue
    BY <1>10, MaxDueAssumption DEF Mount
  <2>3. scroll' \in Place
    BY <1>10 DEF Mount, Place
  <2>4. TypeOK'
    BY <1>10, <2>1, <2>2, <2>3 DEF Mount, IInv, TypeOK
  <2>5. CopiesAgree'
    BY <1>10, PanelsAreButtons DEF Mount, CopiesAgree, AllClosed
  <2> QED BY <1>10, <2>4, <2>5 DEF Mount, IInv, NewestIsLast
<1>11. CASE UNCHANGED vars
  BY <1>11 DEF vars, IInv, TypeOK, CopiesAgree, NewestIsLast
<1> QED
  BY <1>1, <1>2, <1>3, <1>4, <1>5, <1>6, <1>7, <1>8, <1>9, <1>10, <1>11
  DEF Next

LEMMA Invariance == Spec => []IInv
  BY InitEstablishes, NextPreserves, PTL DEF Spec

-----------------------------------------------------------------------------

\* The variables of the menu page keep their types; in particular nothing but
\* a panel is ever scrolled to, whatever the number of scrolls under way.
THEOREM TypeCorrect == Spec => []TypeOK
  BY Invariance, PTL DEF IInv

\* The flag of the button, its arrow and the flag of the bloc always agree.
THEOREM CopiesAlwaysAgree == Spec => []CopiesAgree
  BY Invariance, PTL DEF IInv

\* A press never flips the further shortcuts against what the user saw.
THEOREM NeverBlindToggle == Spec => NoBlindToggle
<1> DEFINE A == (mounted /\ mounted' /\ more' # more) => built = <<more>>
<1>1. IInv /\ [Next]_vars => [A]_vars
  <2> SUFFICES ASSUME IInv, Next PROVE A
    OBVIOUS
  <2>1. CASE MorePressed
    <3>1. PICK v \in BOOLEAN : built = <<v>>
      BY <2>1 DEF MorePressed, IInv, TypeOK
    <3>2. more' = ~v
      BY <2>1, <3>1 DEF MorePressed
    <3> QED BY <3>1, <3>2 DEF IInv, TypeOK
  <2>2. CASE ~MorePressed
    BY <2>2 DEF Next, Frame, OpenPressed, ClosePressed, DelayedScroll,
                StatusBarPressed, Drag, TabChosen, Dispose, Mount
  <2> QED BY <2>1, <2>2
<1> QED BY <1>1, Invariance, PTL DEF Spec, NoBlindToggle

\* However many panels are opened in a burst, the list ends at the last.
THEOREM LastOpenedAlwaysWins == Spec => LastOpenedWins
<1> DEFINE A == (mounted /\ mounted' /\ due # <<>> /\ due' = <<>>)
                    => scroll' \in OffsetsOf(newest)
<1>1. IInv /\ [Next]_vars => [A]_vars
  <2> SUFFICES ASSUME IInv, Next, mounted, due # <<>>, due' = <<>>,
                      mounted'
               PROVE  scroll' \in OffsetsOf(newest)
    OBVIOUS
  <2>1. CASE DelayedScroll
    <3>1. Len(due) = 1
      <4>1. due \in Seq(Panel)
        BY DEF IInv, TypeOK
      <4>2. Len(Tail(due)) = Len(<<>>)
        BY <2>1 DEF DelayedScroll
      <4>3. Len(Tail(due)) = Len(due) - 1
        BY <4>1
      <4> QED BY <4>1, <4>2, <4>3
    <3>2. due[1] = newest
      BY <3>1 DEF IInv, NewestIsLast
    <3>3. OffsetNow(Head(due)) = OffsetNow(due[1])
      BY DEF IInv, TypeOK
    <3>4. newest \in Panel
      BY DEF IInv, TypeOK
    <3>5. scroll' = OffsetNow(newest)
      BY <2>1, <3>2, <3>3 DEF DelayedScroll
    <3> QED BY <3>4, <3>5, OffsetNowInOffsets DEF IInv
  <2>2. ASSUME NEW b \in Button, OpenPressed(b) PROVE FALSE
    BY <2>2 DEF OpenPressed, IInv, TypeOK
  <2>3. CASE Mount
    BY <2>3 DEF Mount
  <2> QED
    BY <2>1, <2>2, <2>3 DEF Next, Frame, MorePressed, ClosePressed,
            StatusBarPressed, Drag, TabChosen, Dispose
<1> QED BY <1>1, Invariance, PTL DEF Spec, LastOpenedWins

\* The tables of the bloc grow with every panel that is open.
LEMMA OffsetsGrow ==
    ASSUME NEW p \in Panel, NEW m \in BOOLEAN, NEW o \in BOOLEAN,
           NEW M \in BOOLEAN, NEW O \in BOOLEAN,
           m => M, o => O, <<m, o>> # <<M, O>>
    PROVE  CalOffset(p, m, o) < CalOffset(p, M, O)
<1>1. CASE p = "resources"
  BY <1>1 DEF CalOffset
<1>2. CASE p # "resources"
  BY <1>2 DEF CalOffset
<1> QED BY <1>1, <1>2

\* A scroll always goes farther than it would with a panel fewer open.
THEOREM ScrollAlwaysMakesRoom == Spec => ScrollMakesRoom
<1>1. IInv /\ [Next]_vars => [\A p \in Panel : MakesRoom(p)]_vars
  <2> SUFFICES ASSUME IInv, Next, NEW p \in Panel,
                      mounted, mounted', due # <<>>,
                      Head(due) = p, due' = Tail(due),
                      NEW m \in BOOLEAN, NEW o \in BOOLEAN,
                      m => more, o => shown[Other(p)],
                      <<m, o>> # <<more, shown[Other(p)]>>
               PROVE  CalOffset(p, m, o) < scroll'
    BY DEF MakesRoom
  <2>1. due \in Seq(Panel) /\ Len(due) \in Nat
    BY DEF IInv, TypeOK
  <2>2. DelayedScroll
    <3>0. Len(due') = Len(due) - 1
      BY <2>1
    <3>1. due' # due
      <4> SUFFICES ASSUME due' = due PROVE FALSE
        OBVIOUS
      <4>1. Len(due) = Len(due) - 1
        BY <3>0
      <4> QED BY <2>1, <4>1
    <3>2. ASSUME NEW b \in Button, OpenPressed(b) PROVE FALSE
      <4>1. CASE b \in Panel
        <5>1. Len(due') = Len(due) + 1
          BY <2>1, <3>2, <4>1 DEF OpenPressed
        <5> QED BY <5>1, <2>1, <3>0
      <4>2. CASE b \notin Panel
        BY <3>1, <3>2, <4>2 DEF OpenPressed
      <4> QED BY <4>1, <4>2
    <3> QED
      BY <3>1, <3>2 DEF Next, Frame, MorePressed, ClosePressed,
              StatusBarPressed, Drag, TabChosen, Dispose, Mount
  <2>3. more \in BOOLEAN /\ shown[Other(p)] \in BOOLEAN
    BY DEF IInv, TypeOK, Other, Panel
  <2>4. scroll' = CalOffset(p, more, shown[Other(p)])
    BY <2>2 DEF DelayedScroll, OffsetNow
  <2> QED BY <2>3, <2>4, OffsetsGrow
<1> QED BY <1>1, Invariance, PTL DEF Spec, ScrollMakesRoom

-----------------------------------------------------------------------------
(* The name of the user. *)

\* From the oldest to the newest: shown, known, written; and what is shown is
\* no newer than the answer that is awaited.
Behind ==
    /\ heading <= known
    /\ known <= doc
    /\ \A p \in Page : title[p] <= known
    /\ \A r \in Request : Awaited(r) /\ outcome[r] >= 0 /\ r \notin told =>
            /\ title[r[1]] <= outcome[r]
            /\ r[1] = "profile" => heading <= outcome[r]
    /\ \A r \in Request : outcome[r] <= known

NameIInv == NameTypeOK /\ Behind

\* The numbers that stand for versions and for the lack of one are integers.
LEMMA Numbers ==
    /\ Version \subseteq Int /\ NoData = -1 /\ Failed = -2
    /\ Reads!NoData = -1 /\ Reads!Failed = -2 /\ Reads!Waiting = -3
    /\ Reads!Asleep = -4
  BY UserNameAssumption
  DEF Version, NoData, Failed, Reads!NoData, Reads!Failed, Reads!Waiting,
      Reads!Asleep

\* A request names its page and its number.
LEMMA RequestParts ==
    ASSUME NEW r \in Request
    PROVE  r[1] \in Page /\ r[2] \in 1 .. MaxRequests /\ r = <<r[1], r[2]>>
  BY DEF Request

LEMMA NamesStart == NameInit => NameIInv
<1> SUFFICES ASSUME NameInit PROVE NameIInv
  OBVIOUS
<1> USE UserNameAssumption, Numbers
<1>1. NameTypeOK
  BY DEF NameInit, NameTypeOK, Reads!Init, Version
<1>2. Behind
  BY DEF NameInit, Behind, Reads!Init, Version
<1> QED BY <1>1, <1>2 DEF NameIInv

\* What both ways of building pages do.
LEMMA AskPreserves ==
    ASSUME NameIInv, NEW pages \in SUBSET Page, Ask(pages),
           alive' \in SUBSET Page
    PROVE  NameIInv'
<1> DEFINE asking == {<<p, request[p] + 1>> : p \in pages}
<1>1. /\ UNCHANGED <<doc, known, told, title, heading>>
      /\ \A r \in asking : outcome[r] = Reads!Asleep
      /\ outcome' = [r \in Request |-> IF r \in asking THEN Reads!Waiting
                                                        ELSE outcome[r]]
  BY DEF Ask, Reads!Ask
<1>2. request' \in [Page -> 0 .. MaxRequests]
  BY UserNameAssumption DEF Ask, NameIInv, NameTypeOK
<1>3. connection' \in [Page -> {"none", "waiting", "done"}]
  BY DEF Ask, NameIInv, NameTypeOK
<1>4. NameTypeOK'
  BY <1>1, <1>2, <1>3 DEF NameIInv, NameTypeOK
<1>5. ASSUME NEW r \in Request, Awaited(r)', r \notin asking
      PROVE  Awaited(r)
  <2>1. r[1] \in Page /\ r = <<r[1], r[2]>>
    BY RequestParts
  <2>2. r[1] \notin pages
    BY <1>5, <2>1 DEF Ask, Awaited
  <2> QED BY <1>5, <2>1, <2>2 DEF Ask, Awaited
<1>6. \A r \in asking \cap Request : outcome'[r] = -3
  BY <1>1, Numbers
<1>7. \A r \in Request \ asking : outcome'[r] = outcome[r]
  BY <1>1
<1>8. \A r \in Request : outcome'[r] <= known'
  <2>1. known \in Int /\ -1 <= known
    BY Numbers DEF NameIInv, NameTypeOK, Version
  <2> QED BY <1>1, <1>6, <1>7, <2>1 DEF NameIInv, Behind
<1>9. Behind'
  BY <1>1, <1>5, <1>6, <1>7, <1>8 DEF NameIInv, Behind
<1> QED BY <1>4, <1>9 DEF NameIInv

LEMMA ArrivesPreserves ==
    ASSUME NameIInv, NEW r \in Request, Arrives(r)
    PROVE  NameIInv' /\ NoOlderName
<1> DEFINE p == r[1]
           v == outcome[r]
<1>1. /\ told' = told \cup {r}
      /\ UNCHANGED <<doc, known, outcome, alive, request>>
      /\ r \notin told /\ v \in Version \cup {Failed}
  BY DEF Arrives, reads, Ended
<1>2. p \in Page /\ v \in Int /\ v <= known
  BY <1>1, RequestParts, Numbers DEF NameIInv, Behind
<1>3. /\ heading \in Int /\ known \in Int /\ \A q \in Page : title[q] \in Int
      /\ heading >= -1
  BY Numbers DEF NameIInv, NameTypeOK, Version
<1>4. \A s \in Request : Awaited(s)' <=> Awaited(s)
  BY <1>1 DEF Awaited
<1>5. CASE Awaited(r) /\ Show(p, v)
  <2>1. /\ title' = [title EXCEPT ![p] = v]
        /\ connection' = [connection EXCEPT ![p] = "done"]
        /\ heading' = IF p = "profile" /\ v >= 1 THEN v ELSE heading
    BY <1>5 DEF Show
  <2>2. v >= 0 => title[p] <= v /\ (p = "profile" => heading <= v)
    BY <1>1, <1>5 DEF NameIInv, Behind
  <2>3. heading' \in (Version \ {0}) \cup {NoData} /\ heading' <= known
        /\ heading' >= heading
    BY <1>1, <1>2, <1>3, <2>1, <2>2, Numbers DEF NameIInv, NameTypeOK, Behind
  <2>4. \A q \in Page : title'[q] = IF q = p THEN v ELSE title[q]
    BY <1>2, <2>1 DEF NameIInv, NameTypeOK
  <2>5. NameTypeOK'
    BY <1>1, <1>2, <2>1, <2>3 DEF NameIInv, NameTypeOK
  <2>6. ASSUME NEW s \in Request, Awaited(s)', outcome'[s] >= 0, s \notin told'
        PROVE  /\ title'[s[1]] <= outcome'[s]
               /\ s[1] = "profile" => heading' <= outcome'[s]
    <3>1. s[1] \in Page /\ s[1] # p
      BY <1>1, <1>4, <1>5, <2>6, RequestParts DEF Awaited
    <3>2. s[1] = "profile" => heading' = heading
      BY <2>1, <3>1
    <3> QED BY <1>1, <1>4, <2>4, <2>6, <3>1, <3>2 DEF NameIInv, Behind
  <2>7. Behind'
    BY <1>1, <1>2, <2>3, <2>4, <2>6 DEF NameIInv, Behind
  <2>8. NoOlderName
    BY <1>1, <1>2, <1>3, <2>2, <2>3, <2>4, Numbers DEF NoOlderName, Version
  <2> QED BY <2>5, <2>7, <2>8 DEF NameIInv
<1>6. CASE ~Awaited(r) /\ UNCHANGED <<connection, title, heading>>
  <2>1. NameTypeOK'
    BY <1>1, <1>6 DEF NameIInv, NameTypeOK
  <2>2. Behind'
    BY <1>1, <1>4, <1>6 DEF NameIInv, Behind
  <2>3. NoOlderName
    BY <1>3, <1>6 DEF NoOlderName
  <2> QED BY <2>1, <2>2, <2>3 DEF NameIInv
<1> QED BY <1>5, <1>6 DEF Arrives

LEMMA GetsEndPreserves ==
    ASSUME NameIInv, GetsEnd
    PROVE  NameIInv'
<1>1. PICK ending \in SUBSET Request : Reads!Learn(ending)
  BY DEF GetsEnd
<1>2. PICK o \in Reads!Outcome(known') :
        outcome' = [r \in Request |-> IF r \in ending THEN o ELSE outcome[r]]
  BY <1>1 DEF Reads!Learn
<1>3. /\ UNCHANGED <<doc, told, alive, request, connection, title, heading>>
      /\ known' \in known .. doc
  BY <1>1 DEF GetsEnd, Reads!Learn
<1>4. /\ known \in Int /\ doc \in Int /\ doc <= LastVersion /\ known >= -1
      /\ heading \in Int /\ \A p \in Page : title[p] \in Int
  BY Numbers DEF NameIInv, NameTypeOK, Version
<1>5. known' \in Version \cup {NoData} /\ known' >= known /\ known' <= doc
  BY <1>3, <1>4, Numbers, UserNameAssumption DEF Version
<1>6. /\ o \in Version \cup {Failed} /\ o <= known'
      /\ o >= 0 => o = known'
  BY <1>2, <1>5, Numbers DEF Reads!Outcome, Version
<1>7. \A r \in Request : outcome'[r] = IF r \in ending THEN o ELSE outcome[r]
  BY <1>2
<1>8. \A r \in Request : outcome[r] \in Int /\ outcome[r] <= known
  <2>1. outcome \in [Request -> Version \cup {-4, -3, -2}]
    BY Numbers DEF NameIInv, NameTypeOK
  <2>2. \A r \in Request : outcome[r] \in Int
    BY <2>1, Numbers DEF Version
  <2> QED BY <2>2 DEF NameIInv, Behind
<1>9. NameTypeOK'
  BY <1>2, <1>3, <1>5, <1>6 DEF NameIInv, NameTypeOK
<1>10. \A r \in Request : outcome'[r] <= known'
  <2>1. known' \in Int
    BY <1>3, <1>4
  <2> QED BY <1>4, <1>5, <1>6, <1>7, <1>8, <2>1
<1>11. ASSUME NEW r \in Request, Awaited(r)', outcome'[r] >= 0, r \notin told'
       PROVE  /\ title'[r[1]] <= outcome'[r]
              /\ r[1] = "profile" => heading' <= outcome'[r]
  <2>1. Awaited(r) /\ r[1] \in Page /\ r \notin told
    BY <1>3, <1>11, RequestParts DEF Awaited
  <2>2. CASE r \in ending
    BY <1>3, <1>4, <1>5, <1>6, <1>7, <1>11, <2>1, <2>2, Numbers
    DEF NameIInv, Behind
  <2>3. CASE r \notin ending
    BY <1>3, <1>7, <1>11, <2>1, <2>3 DEF NameIInv, Behind
  <2> QED BY <2>2, <2>3
<1>12. heading' <= known' /\ \A p \in Page : title'[p] <= known'
  BY <1>3, <1>4, <1>5, Numbers DEF NameIInv, Behind
<1>13. Behind'
  BY <1>3, <1>5, <1>10, <1>11, <1>12 DEF Behind
<1> QED BY <1>9, <1>13 DEF NameIInv

LEMMA DocWrittenPreserves ==
    ASSUME NameIInv, DocWritten
    PROVE  NameIInv'
<1>1. doc \in Int /\ known \in Int /\ doc' = doc + 1 /\ doc' \in Version
  BY UserNameAssumption, Numbers
  DEF DocWritten, Reads!Write, NameIInv, NameTypeOK, Version
<1>2. UNCHANGED <<known, outcome, told, alive, request, connection, title,
                  heading>>
  BY DEF DocWritten, Reads!Write
<1>3. NameTypeOK'
  BY <1>1, <1>2 DEF NameIInv, NameTypeOK
<1>4. Behind'
  BY <1>1, <1>2 DEF NameIInv, Behind, Awaited
<1> QED BY <1>3, <1>4 DEF NameIInv

LEMMA NamesStep == NameIInv /\ [NameNext]_nameVars => NameIInv'
<1> SUFFICES ASSUME NameIInv, [NameNext]_nameVars PROVE NameIInv'
  OBVIOUS
<1>1. ASSUME NEW p \in Page, PageBuilt(p) PROVE NameIInv'
  <2>1. {p} \in SUBSET Page /\ alive' \in SUBSET Page
    BY <1>1 DEF PageBuilt, NameIInv, NameTypeOK
  <2> QED BY <1>1, <2>1, AskPreserves DEF PageBuilt
<1>2. CASE TabPressed
  <2>1. alive \in SUBSET Page /\ alive' \in SUBSET Page
    BY <1>2 DEF TabPressed, NameIInv, NameTypeOK
  <2> QED BY <1>2, <2>1, AskPreserves DEF TabPressed
<1>3. ASSUME NEW r \in Request, Arrives(r) PROVE NameIInv'
  BY <1>3, ArrivesPreserves
<1>4. CASE GetsEnd
  BY <1>4, GetsEndPreserves
<1>5. CASE DocWritten
  BY <1>5, DocWrittenPreserves
<1>6. CASE UNCHANGED nameVars
  BY <1>6 DEF nameVars, reads, NameIInv, NameTypeOK, Behind, Awaited
<1> QED BY <1>1, <1>2, <1>3, <1>4, <1>5, <1>6 DEF NameNext

LEMMA NamesInvariance == NameSpec => []NameIInv
  BY NamesStart, NamesStep, PTL DEF NameSpec

-----------------------------------------------------------------------------

\* No page and no heading goes back to an older name, for any number of writes
\* and requests, however the futures overtake each other and whichever of them
\* the cache answers.
THEOREM NamesNeverGoBack == NameSpec => NamesDoNotGoBack
<1>1. NameIInv /\ [NameNext]_nameVars => [NoOlderName]_nameVars
  <2> SUFFICES ASSUME NameIInv, NameNext PROVE NoOlderName
    OBVIOUS
  <2>1. heading \in Int /\ \A p \in Page : title[p] \in Int
    BY Numbers DEF NameIInv, NameTypeOK, Version
  <2>2. CASE UNCHANGED <<title, heading>>
    BY <2>1, <2>2 DEF NoOlderName
  <2>3. ASSUME NEW r \in Request, Arrives(r) PROVE NoOlderName
    BY <2>3, ArrivesPreserves
  <2> QED
    BY <2>2, <2>3 DEF NameNext, PageBuilt, TabPressed, Ask, GetsEnd, DocWritten
<1> QED BY <1>1, NamesInvariance, PTL DEF NameSpec, NamesDoNotGoBack
=============================================================================
