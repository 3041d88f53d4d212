----------------------------- MODULE SessionProofs -----------------------------
(***************************************************************************)
(* For any number of accounts, names, sign-ins, sign-outs, announcements   *)
(* and restarts: pop never removes LoadingPage, a creation that succeeds   *)
(* gives the screen back, and documents are written under their owners.    *)
(*                                                                         *)
(* The argument is about the stack of routes: a progress dialog has only   *)
(* notices above it.  While it is there, nobody edits the form, presses    *)
(* the button again, signs in or out; and without a sign-in of the page    *)
(* below no notice comes either, so that the dialog is on top when the     *)
(* handler pops it.                                                        *)
(*                                                                         *)
(* The second part is about LoginForm, the page where the sign-ins start;  *)
(* the two share no variable.  Whatever the order of touches, edits and    *)
(* submissions, the bloc knows the text of every field that was touched    *)
(* (TextsPublished), and the button stays off until both were (Undecided). *)
(***************************************************************************)
EXTENDS Session, LoginForm, SequenceTheorems, TLAPS

-----------------------------------------------------------------------------
(* The stack. *)

\* LoadingPage at the bottom and nowhere else, and only notices above a
\* progress dialog.
Stack(s) ==
    /\ s \in Seq(Route) /\ s # <<>>
    /\ \A i \in 1 .. Len(s) : (s[i] = "home") = (i = 1)
    /\ \A i, j \in 1 .. Len(s) : i < j /\ s[i] = "progress" => s[j] = "notice"

LEMMA StackTop ==
    ASSUME NEW s, Stack(s)
    PROVE  /\ Last(s) \notin {"progress", "notice"} => ~Contains(s, "progress")
           /\ Last(s) = "progress" => Contains(s, "progress")
           /\ Contains(s, "progress") => Last(s) # "home"
<1>1. Len(s) \in Nat /\ Len(s) >= 1
  BY LenProperties, EmptySeq DEF Stack
<1> QED
  BY <1>1 DEF Stack, Last, Contains

LEMMA StackPush ==
    ASSUME NEW s, Stack(s), NEW r \in Route \ {"home"},
           r = "notice" \/ ~Contains(s, "progress")
    PROVE  /\ Stack(Append(s, r))
           /\ Last(Append(s, r)) = r
           /\ Contains(Append(s, r), "progress")
                <=> Contains(s, "progress") \/ r = "progress"
<1> DEFINE t == Append(s, r)
<1>1. /\ Len(s) \in Nat /\ Len(s) >= 1
      /\ t \in Seq(Route) /\ t # <<>> /\ Len(t) = Len(s) + 1
      /\ \A i \in 1 .. Len(s) : t[i] = s[i]
      /\ t[Len(s) + 1] = r
  BY AppendProperties, LenProperties, EmptySeq DEF Stack
<1> HIDE DEF t
<1>2. \A i \in 1 .. Len(t) : (t[i] = "home") = (i = 1)
  BY <1>1 DEF Stack
<1>3. \A i, j \in 1 .. Len(t) : i < j /\ t[i] = "progress" => t[j] = "notice"
  BY <1>1 DEF Stack, Contains
<1>4. Contains(t, "progress") <=> Contains(s, "progress") \/ r = "progress"
  BY <1>1 DEF Contains
<1> QED
  BY <1>1, <1>2, <1>3, <1>4 DEF Stack, Last, t

LEMMA StackPop ==
    ASSUME NEW s, Stack(s), Last(s) # "home"
    PROVE  /\ Stack(Front(s))
           /\ Last(s) # "progress" =>
                (Contains(Front(s), "progress") <=> Contains(s, "progress"))
           /\ Last(s) = "progress" => ~Contains(Front(s), "progress")
<1> DEFINE t == Front(s)
<1>1. Len(s) \in Nat /\ Len(s) >= 2
  <2>1. Len(s) \in Nat /\ Len(s) >= 1
    BY LenProperties, EmptySeq DEF Stack
  <2> QED
    BY <2>1 DEF Stack, Last
<1>2. \A i \in 1 .. Len(s) : s[i] \in Route
  BY ElementOfSeq DEF Stack
<1>3. /\ t \in Seq(Route) /\ Len(t) = Len(s) - 1
      /\ \A i \in 1 .. Len(t) : t[i] = s[i]
  <2>1. /\ 1 \in Int /\ Len(s) - 1 \in Int
        /\ \A i \in 1 .. Len(s) - 1 : s[i] \in Route
    BY <1>1, <1>2
  <2>2. /\ SubSeq(s, 1, Len(s) - 1) \in Seq(Route)
        /\ Len(SubSeq(s, 1, Len(s) - 1)) = Len(s) - 1
        /\ \A i \in 1 .. Len(s) - 1 : SubSeq(s, 1, Len(s) - 1)[i] = s[i]
    BY <1>1, <2>1, SubSeqProperties
  <2> QED
    BY <2>2 DEF Front
<1> HIDE DEF t
<1>4. t # <<>>
  BY <1>1, <1>3
<1>5. Stack(t)
  BY <1>1, <1>3, <1>4 DEF Stack
<1>6. Last(s) # "progress" =>
        (Contains(t, "progress") <=> Contains(s, "progress"))
  BY <1>1, <1>3 DEF Contains, Last
<1>7. Last(s) = "progress" => ~Contains(t, "progress")
  BY <1>1, <1>3 DEF Contains, Last, Stack
<1> QED
  BY <1>5, <1>6, <1>7 DEF t

LEMMA StackHome ==
    /\ Stack(<<"home">>) /\ Last(<<"home">>) = "home"
    /\ ~Contains(<<"home">>, "progress")
<1>1. <<"home">> \in Seq(Route)
  BY DEF Route
<1> QED
  BY <1>1 DEF Stack, Last, Contains

-----------------------------------------------------------------------------
(* The invariant. *)

\* A creation under way has its dialog on the screen, so that the form stays as
\* it was at the press; if no sign-in of the page below was under way at the
\* press, the dialog is on top; if nothing was, the user is its own.
Pending ==
    creation # NoCreation =>
        /\ Contains(routes, "progress")
        /\ form.name # None
        /\ outcome = "none"
        /\ "open" \notin underway =>
            Last(routes) = "progress" /\ \A c \in Calls : signIns[c].pc # "open"
        /\ underway = {} =>
            /\ signOuts = 0 /\ \A c \in Calls : signIns[c] = NoSignIn
            /\ creation.pc = "document" => user = creation.uid

SessionInv == TypeOK /\ Stack(routes) /\ Pending /\ SuccessFreesScreen

\* Only the route on top takes input, and no creation is under way below it.
LEMMA NothingPending ==
    ASSUME SessionInv, Top \notin {"progress", "notice"}
    PROVE  creation = NoCreation /\ ~Contains(routes, "progress")
BY StackTop DEF SessionInv, Pending, Top

LEMMA Counters ==
    ASSUME TypeOK
    PROVE  /\ signOuts \in Nat /\ starts \in Nat
           /\ signOuts > 0 => signOuts - 1 \in 0 .. MaxOuts
           /\ signOuts < MaxOuts => signOuts + 1 \in 0 .. MaxOuts
           /\ starts < MaxStarts => starts + 1 \in 0 .. MaxStarts
<1>1. signOuts \in 0 .. MaxOuts /\ starts \in 0 .. MaxStarts
  BY DEF TypeOK
<1>2. MaxOuts \in Nat /\ MaxStarts \in Nat
  BY SessionAssumption
<1> QED
  BY <1>1, <1>2

LEMMA UnderwayTells ==
    ASSUME TypeOK
    PROVE  /\ Underway \in SUBSET {"open", "closed", "out"}
           /\ "open" \notin Underway => \A c \in Calls : signIns[c].pc # "open"
           /\ Underway = {} => signOuts = 0 /\ \A c \in Calls : signIns[c] = NoSignIn
<1>1. \A c \in Calls : signIns[c] # NoSignIn => signIns[c].pc \in {"open", "closed"}
  BY DEF TypeOK, SignIn
<1>2. \A c \in Calls : signIns[c] # NoSignIn => signIns[c].pc \in Underway
  BY DEF Underway
<1>3. signOuts > 0 => "out" \in Underway
  BY DEF Underway
<1>4. Underway \in SUBSET {"open", "closed", "out"}
  BY <1>1 DEF Underway
<1>5. "open" \notin Underway => \A c \in Calls : signIns[c].pc # "open"
  BY <1>2 DEF NoSignIn
<1>6. signOuts \in Nat
  BY Counters
<1>7. Underway = {} => signOuts = 0 /\ \A c \in Calls : signIns[c] = NoSignIn
  BY <1>2, <1>3, <1>6
<1> QED
  BY <1>4, <1>5, <1>7

LEMMA InitSession ==
    ASSUME Init
    PROVE  SessionInv
<1>1. /\ accounts \in SUBSET Emails /\ docs \in [Emails -> Names \cup {None}]
      /\ unsent = <<>> /\ user \in accounts \cup {None} /\ events = <<user>>
      /\ home = "login" /\ routes = <<"home">>
      /\ signIns = [c \in Calls |-> NoSignIn] /\ signOuts = 0
      /\ form = [email |-> None, name |-> None]
      /\ creation = NoCreation /\ outcome = "none" /\ underway = {} /\ starts = 0
  BY DEF Init
<1>2. events \in Seq(Emails \cup {None})
  BY <1>1
<1>3. routes \in Seq(Route)
  BY <1>1 DEF Route
<1>4. unsent \in Seq([uid : Emails, name : Names])
  BY <1>1, EmptySeq
<1>5. signIns \in [Calls -> SignIn] /\ creation \in Creation
  BY <1>1 DEF SignIn, Creation
<1>6. TypeOK
  BY <1>1, <1>2, <1>3, <1>4, <1>5, SessionAssumption DEF TypeOK
<1> QED
  BY <1>1, <1>6, StackHome DEF SessionInv, Pending, SuccessFreesScreen

-----------------------------------------------------------------------------
(* Steps of the routes. *)

\* A route other than the dialog comes or goes while no creation is under way.
LEMMA RoutesChange ==
    ASSUME SessionInv, creation = NoCreation, Stack(routes'),
           Contains(routes', "progress") => Contains(routes, "progress"),
           form' \in [email : Emails \cup {None}, name : Names \cup {None}],
           signOuts' \in 0 .. MaxOuts,
           UNCHANGED <<firebase, home, signIns, creation, outcome, underway, starts>>
    PROVE  SessionInv'
<1>1. TypeOK'
  BY DEF SessionInv, TypeOK, firebase, Stack
<1>2. Pending'
  BY DEF Pending
<1>3. SuccessFreesScreen'
  BY DEF SessionInv, SuccessFreesScreen
<1> QED
  BY <1>1, <1>2, <1>3 DEF SessionInv

LEMMA NoticeConfirmedSession ==
    ASSUME SessionInv, NoticeConfirmed
    PROVE  SessionInv'
<1>1. /\ Last(routes) = "notice" /\ routes' = Front(routes)
      /\ UNCHANGED <<firebase, home, calls, creating, starts>>
  BY DEF NoticeConfirmed, Top, Pop
<1>2. /\ Stack(routes')
      /\ Contains(routes', "progress") <=> Contains(routes, "progress")
  BY <1>1, StackPop DEF SessionInv
<1>3. TypeOK'
  BY <1>1, <1>2 DEF SessionInv, TypeOK, firebase, calls, creating, Stack
<1>4. Pending'
  BY <1>1, <1>2 DEF SessionInv, Pending, firebase, calls, creating
<1>5. SuccessFreesScreen'
  BY <1>1, <1>2 DEF SessionInv, SuccessFreesScreen, creating
<1> QED
  BY <1>2, <1>3, <1>4, <1>5 DEF SessionInv

LEMMA RoutePopped ==
    ASSUME SessionInv, Top \in {"new account", "sheet"}, Pop,
           signOuts' \in 0 .. MaxOuts,
           UNCHANGED <<firebase, home, signIns, creating, starts>>
    PROVE  SessionInv'
<1>1. Last(routes) \in {"new account", "sheet"} /\ routes' = Front(routes)
  BY DEF Top, Pop
<1>2. /\ Stack(routes')
      /\ Contains(routes', "progress") => Contains(routes, "progress")
  BY <1>1, StackPop DEF SessionInv
<1>3. creation = NoCreation
  BY NothingPending
<1> QED
  BY <1>2, <1>3, RoutesChange DEF SessionInv, TypeOK, creating

LEMMA RoutePushed ==
    ASSUME SessionInv, Top = "home", NEW r \in {"new account", "sheet"}, Push(r),
           form' \in [email : Emails \cup {None}, name : Names \cup {None}],
           UNCHANGED <<firebase, home, calls, creation, outcome, underway, starts>>
    PROVE  SessionInv'
<1>1. creation = NoCreation /\ ~Contains(routes, "progress")
  BY NothingPending
<1>2. r \in Route \ {"home"} /\ routes' = Append(routes, r)
  BY DEF Route, Push
<1>3. /\ Stack(routes')
      /\ Contains(routes', "progress") => Contains(routes, "progress")
  BY <1>1, <1>2, StackPush DEF SessionInv
<1>4. signOuts' \in 0 .. MaxOuts /\ signIns' = signIns
  BY DEF SessionInv, TypeOK, calls
<1> QED
  BY <1>1, <1>3, <1>4, RoutesChange

LEMMA FormEditedSession ==
    ASSUME SessionInv, NEW e \in Emails \cup {None}, NEW n \in Names \cup {None},
           FormEdited(e, n)
    PROVE  SessionInv'
<1>1. creation = NoCreation
  BY NothingPending DEF FormEdited
<1>2. /\ form' \in [email : Emails \cup {None}, name : Names \cup {None}]
      /\ UNCHANGED <<firebase, screen, calls, creation, outcome, underway, starts>>
  BY DEF FormEdited
<1>3. signOuts' \in 0 .. MaxOuts /\ Stack(routes')
      /\ UNCHANGED <<firebase, home, routes, signIns>>
  BY <1>2 DEF SessionInv, TypeOK, screen, calls
<1> QED
  BY <1>1, <1>2, <1>3, RoutesChange

LEMMA CreatePressedSession ==
    ASSUME SessionInv, CreatePressed
    PROVE  SessionInv'
<1>1. /\ creation = NoCreation /\ ~Contains(routes, "progress")
      /\ UNCHANGED <<firebase, home, calls, form, starts>>
  BY NothingPending DEF CreatePressed
<1>2. CASE Push("notice") /\ UNCHANGED <<creation, outcome, underway>>
  <2>1. "notice" \in Route \ {"home"} /\ routes' = Append(routes, "notice")
    BY <1>2 DEF Route, Push
  <2>2. /\ Stack(routes')
        /\ Contains(routes', "progress") => Contains(routes, "progress")
    BY <2>1, StackPush DEF SessionInv
  <2>3. /\ signOuts' \in 0 .. MaxOuts /\ signIns' = signIns
        /\ form' \in [email : Emails \cup {None}, name : Names \cup {None}]
    BY <1>1 DEF SessionInv, TypeOK, calls
  <2> QED
    BY <1>1, <1>2, <2>2, <2>3, RoutesChange
<1>3. CASE /\ None \notin {form.email, form.name}
           /\ Push("progress")
           /\ creation' = [pc |-> "account", email |-> form.email]
           /\ outcome' = "none" /\ underway' = Underway
  <2>1. "progress" \in Route \ {"home"} /\ routes' = Append(routes, "progress")
    BY <1>3 DEF Route, Push
  <2>2. /\ Stack(routes') /\ Last(routes') = "progress"
        /\ Contains(routes', "progress")
    BY <1>1, <2>1, StackPush DEF SessionInv
  <2>3. form.email \in Emails /\ form.name # None
    BY <1>3 DEF SessionInv, TypeOK
  <2>4. creation' \in Creation /\ creation'.pc = "account"
    BY <1>3, <2>3 DEF Creation
  <2>5. TypeOK'
    BY <1>1, <1>3, <2>2, <2>4, UnderwayTells
       DEF SessionInv, TypeOK, firebase, calls, Stack
  <2>6. Pending'
    BY <1>1, <1>3, <2>2, <2>3, <2>4, UnderwayTells
       DEF SessionInv, Pending, firebase, calls
  <2>7. SuccessFreesScreen'
    BY <1>3 DEF SuccessFreesScreen
  <2> QED
    BY <2>2, <2>5, <2>6, <2>7 DEF SessionInv
<1> QED
  BY <1>2, <1>3 DEF CreatePressed

-----------------------------------------------------------------------------
(* Steps of the user and of the sign-ins. *)

LEMMA BecomeUserTypes ==
    ASSUME TypeOK, NEW u \in Emails \cup {None}, BecomeUser(u)
    PROVE  user' = u /\ events' \in Seq(Emails \cup {None})
BY AppendProperties DEF BecomeUser, TypeOK

LEMMA AuthEventSession ==
    ASSUME SessionInv, AuthEvent
    PROVE  SessionInv'
<1>1. /\ events' = Tail(events) /\ events # <<>>
      /\ home' = Shown(Head(events))
      /\ signIns' = Abandoned \/ signIns' = signIns
      /\ UNCHANGED <<accounts, docs, unsent, user, routes, signOuts, creating,
                     starts>>
  BY DEF AuthEvent
<1>2. events' \in Seq(Emails \cup {None})
  BY <1>1, HeadTailProperties DEF SessionInv, TypeOK
<1>3. Abandoned \in [Calls -> SignIn]
  <2> SUFFICES ASSUME NEW c \in Calls
               PROVE  (IF signIns[c].pc = "open"
                       THEN [signIns[c] EXCEPT !.pc = "closed"]
                       ELSE signIns[c]) \in SignIn
    BY DEF Abandoned
  <2>1. signIns[c] \in SignIn
    BY DEF SessionInv, TypeOK
  <2>2. signIns[c].pc = "open" =>
            signIns[c] \in [pc : {"open", "closed"}, email : Emails]
    BY <2>1 DEF SignIn, NoSignIn
  <2> QED
    BY <2>1, <2>2 DEF SignIn
<1>4. \A c \in Calls : signIns[c].pc # "open" => Abandoned[c] = signIns[c]
  BY DEF Abandoned
<1>5. TypeOK'
  BY <1>1, <1>2, <1>3 DEF SessionInv, TypeOK, Shown, creating
<1>6. Pending'
  <2>1. /\ (\A c \in Calls : signIns[c].pc # "open") =>
              \A c \in Calls : signIns'[c].pc # "open"
        /\ (\A c \in Calls : signIns[c] = NoSignIn) =>
              \A c \in Calls : signIns'[c] = NoSignIn
    BY <1>1, <1>4 DEF NoSignIn
  <2> QED
    BY <1>1, <2>1 DEF SessionInv, Pending, creating
<1>7. SuccessFreesScreen'
  BY <1>1 DEF SessionInv, SuccessFreesScreen, creating
<1> QED
  BY <1>1, <1>5, <1>6, <1>7 DEF SessionInv

LEMMA SignInPressedSession ==
    ASSUME SessionInv, NEW c \in Calls, NEW e \in Emails, SignInPressed(c, e)
    PROVE  SessionInv'
<1>1. /\ Top = "home"
      /\ signIns' = [signIns EXCEPT ![c] = [pc |-> "open", email |-> e]]
      /\ UNCHANGED <<firebase, screen, signOuts, creating, starts>>
  BY DEF SignInPressed, OnHome
<1>2. creation = NoCreation
  BY <1>1, NothingPending
<1>3. TypeOK'
  BY <1>1 DEF SessionInv, TypeOK, SignIn, firebase, screen, creating
<1>4. Pending'
  BY <1>1, <1>2 DEF Pending, creating
<1>5. Stack(routes') /\ SuccessFreesScreen'
  BY <1>1 DEF SessionInv, SuccessFreesScreen, screen, creating
<1> QED
  BY <1>3, <1>4, <1>5 DEF SessionInv

\* A sign-in ends.  If it was of an open page, a notice may come.
LEMMA SignInEnds ==
    ASSUME SessionInv, NEW c \in Calls, signIns[c] # NoSignIn,
           signIns' = [signIns EXCEPT ![c] = NoSignIn],
           \/ UNCHANGED routes
           \/ signIns[c].pc = "open" /\ Push("notice"),
           user' \in accounts \cup {None}, events' \in Seq(Emails \cup {None}),
           UNCHANGED <<accounts, docs, unsent, home, signOuts, creating, starts>>
    PROVE  SessionInv'
<1>1. /\ Stack(routes')
      /\ Contains(routes', "progress") <=> Contains(routes, "progress")
  <2>1. CASE UNCHANGED routes
    BY <2>1 DEF SessionInv
  <2>2. CASE Push("notice")
    <3>1. "notice" \in Route \ {"home"} /\ routes' = Append(routes, "notice")
      BY <2>2 DEF Route, Push
    <3> QED
      BY <3>1, StackPush DEF SessionInv
  <2> QED
    BY <2>1, <2>2
<1>2. TypeOK'
  BY <1>1 DEF SessionInv, TypeOK, SignIn, creating, Stack
<1>3. \A d \in Calls : signIns'[d] = NoSignIn \/ signIns'[d] = signIns[d]
  BY DEF SessionInv, TypeOK
<1>4. Pending'
  <2>1. UNCHANGED <<form, creation, outcome, underway>>
    BY DEF creating
  <2>2. ASSUME creation # NoCreation, "open" \notin underway
        PROVE  /\ Last(routes') = "progress"
               /\ \A d \in Calls : signIns'[d].pc # "open"
    <3>1. \A d \in Calls : signIns[d].pc # "open"
      BY <2>2 DEF SessionInv, Pending
    <3> QED
      BY <1>3, <2>2, <3>1 DEF SessionInv, Pending, NoSignIn
  <2>3. ASSUME creation # NoCreation, underway = {}
        PROVE  FALSE
    BY <2>3 DEF SessionInv, Pending
  <2> QED
    BY <1>1, <2>1, <2>2, <2>3 DEF SessionInv, Pending
<1>5. SuccessFreesScreen'
  BY <1>1 DEF SessionInv, SuccessFreesScreen, creating
<1> QED
  BY <1>1, <1>2, <1>4, <1>5 DEF SessionInv

LEMMA SignInAnswered ==
    ASSUME SessionInv, NEW c \in Calls,
           \/ SignInAccepted(c)
           \/ \E why \in {"wrong-password", "other"} : SignInRefused(c, why)
    PROVE  SessionInv'
<1>1. CASE SignInAccepted(c)
  <2>1. signIns[c].email \in accounts /\ accounts \in SUBSET Emails
    BY <1>1 DEF SignInAccepted, SessionInv, TypeOK
  <2>2. user' = signIns[c].email /\ events' \in Seq(Emails \cup {None})
    BY <1>1, <2>1, BecomeUserTypes DEF SignInAccepted, SessionInv
  <2> QED
    BY <1>1, <2>1, <2>2, SignInEnds DEF SignInAccepted, screen
<1>2. ASSUME NEW why \in {"wrong-password", "other"}, SignInRefused(c, why)
      PROVE  SessionInv'
  BY <1>2, SignInEnds DEF SignInRefused, firebase, SessionInv, TypeOK
<1> QED
  BY <1>1, <1>2

LEMMA SignedOutSession ==
    ASSUME SessionInv, SignedOut \/ SignOutRefused
    PROVE  SessionInv'
<1>1. /\ signOuts > 0 /\ signOuts' = signOuts - 1
      /\ user' \in {user, None} /\ events' \in Seq(Emails \cup {None})
      /\ UNCHANGED <<accounts, docs, unsent, screen, signIns, creating, starts>>
  BY BecomeUserTypes
     DEF SignedOut, SignOutRefused, firebase, SessionInv, TypeOK
<1>2. TypeOK'
  BY <1>1, Counters DEF SessionInv, TypeOK, screen, creating
<1>3. Pending'
  BY <1>1 DEF SessionInv, Pending, screen, creating
<1>4. Stack(routes') /\ SuccessFreesScreen'
  BY <1>1 DEF SessionInv, SuccessFreesScreen, screen, creating
<1> QED
  BY <1>2, <1>3, <1>4 DEF SessionInv

-----------------------------------------------------------------------------
(* Steps of the creation, and the restart. *)

\* What is written, and when, in the order of Write.
LEMMA WriteTypes ==
    ASSUME SessionInv, creation # NoCreation, NEW u \in Emails, Write(u)
    PROVE  /\ creation' \in Creation /\ creation' # NoCreation
           /\ creation'.pc = "document" /\ creation'.uid = u
<1>1. form.name \in Names
  BY DEF SessionInv, TypeOK, Pending
<1>2. creation' = [pc |-> "document", uid |-> u, name |-> form.name]
  BY DEF Write
<1>3. creation'.pc = "document" /\ creation'.uid = u
  BY <1>2
<1>4. creation' \in Creation
  BY <1>1, <1>2 DEF Creation
<1> QED
  BY <1>3, <1>4 DEF NoCreation

LEMMA AccountCreatedSession ==
    ASSUME SessionInv, AccountCreated
    PROVE  SessionInv'
<1>1. /\ creation.pc = "account" /\ creation # NoCreation
      /\ accounts' = accounts \cup {creation.email}
      /\ BecomeUser(creation.email) /\ Write(user')
      /\ UNCHANGED <<docs, unsent, screen, calls, form, outcome, underway, starts>>
  BY DEF AccountCreated, NoCreation
<1>2. creation.email \in Emails
  BY <1>1 DEF SessionInv, TypeOK, Creation, NoCreation
<1>3. user' = creation.email /\ events' \in Seq(Emails \cup {None})
  BY <1>1, <1>2, BecomeUserTypes DEF SessionInv
<1>4. /\ creation' \in Creation /\ creation' # NoCreation
      /\ creation'.pc = "document" /\ creation'.uid = user'
  BY <1>1, <1>2, <1>3, WriteTypes
<1>5. TypeOK'
  BY <1>1, <1>2, <1>3, <1>4 DEF SessionInv, TypeOK, screen, calls
<1>6. Pending'
  BY <1>1, <1>4 DEF SessionInv, Pending, screen, calls
<1>7. Stack(routes') /\ SuccessFreesScreen'
  BY <1>1 DEF SessionInv, SuccessFreesScreen, screen
<1> QED
  BY <1>5, <1>6, <1>7 DEF SessionInv

LEMMA AccountRefusedSession ==
    ASSUME SessionInv, AccountRefused
    PROVE  SessionInv'
<1>1. /\ creation # NoCreation
      /\ UNCHANGED <<firebase, screen, calls, form, underway, starts>>
  <2>1. creation.pc = "account"
    BY DEF AccountRefused
  <2>2. creation # NoCreation
    BY <2>1 DEF NoCreation
  <2> QED
    BY <2>2 DEF AccountRefused
<1>2. CASE creation' = NoCreation /\ outcome' = "no user"
  <2>1. TypeOK'
    BY <1>1, <1>2 DEF SessionInv, TypeOK, firebase, screen, calls, Creation
  <2>2. Pending' /\ SuccessFreesScreen' /\ Stack(routes')
    BY <1>1, <1>2 DEF Pending, SuccessFreesScreen, SessionInv, screen
  <2> QED
    BY <2>1, <2>2 DEF SessionInv
<1>3. CASE user # None /\ Write(user) /\ UNCHANGED outcome
  <2>1. user \in Emails
    BY <1>3 DEF SessionInv, TypeOK
  <2>2. /\ creation' \in Creation /\ creation' # NoCreation
        /\ creation'.pc = "document" /\ creation'.uid = user
    BY <1>1, <1>3, <2>1, WriteTypes
  <2>3. TypeOK'
    BY <1>1, <1>3, <2>2 DEF SessionInv, TypeOK, firebase, screen, calls
  <2>4. Pending'
    BY <1>1, <1>3, <2>2 DEF SessionInv, Pending, firebase, screen, calls
  <2>5. Stack(routes') /\ SuccessFreesScreen'
    BY <1>1, <1>3 DEF SessionInv, SuccessFreesScreen, screen
  <2> QED
    BY <2>3, <2>4, <2>5 DEF SessionInv
<1> QED
  BY <1>2, <1>3 DEF AccountRefused

\* The dialog is in the stack, so that whatever is popped is not LoadingPage;
\* without a sign-in of the page below, what is popped is the dialog.
LEMMA DocumentWrittenSession ==
    ASSUME SessionInv, DocumentWritten
    PROVE  SessionInv'
<1>1. /\ creation.pc = "document" /\ creation # NoCreation
      /\ docs' = [docs EXCEPT ![creation.uid] = creation.name]
      /\ creation' = NoCreation /\ outcome' = "written"
      /\ routes' = Front(routes)
      /\ UNCHANGED <<accounts, unsent, user, events, home, calls, form,
                     underway, starts>>
  BY DEF DocumentWritten, Pop, NoCreation
<1>2. Last(routes) # "home"
  BY <1>1, StackTop DEF SessionInv, Pending
<1>3. Stack(routes')
  BY <1>1, <1>2, StackPop DEF SessionInv
<1>4. creation.uid \in Emails /\ creation.name \in Names
  BY <1>1 DEF SessionInv, TypeOK, Creation, NoCreation
<1>5. docs' \in [Emails -> Names \cup {None}]
  BY <1>1, <1>4 DEF SessionInv, TypeOK
<1>6. TypeOK'
  BY <1>1, <1>3, <1>5 DEF SessionInv, TypeOK, calls, Creation, Stack
<1>7. Pending'
  BY <1>1 DEF Pending
<1>8. SuccessFreesScreen'
  <2>1. "open" \notin underway => Last(routes) = "progress"
    BY <1>1 DEF SessionInv, Pending
  <2> QED
    BY <1>1, <1>2, <2>1, StackPop DEF SessionInv, SuccessFreesScreen
<1> QED
  BY <1>3, <1>6, <1>7, <1>8 DEF SessionInv

LEMMA DocumentRefusedSession ==
    ASSUME SessionInv, DocumentRefused
    PROVE  SessionInv'
<1>1. /\ creation' = NoCreation /\ outcome' = "unwritten"
      /\ UNCHANGED <<firebase, screen, calls, form, underway, starts>>
  BY DEF DocumentRefused
<1>2. TypeOK'
  BY <1>1 DEF SessionInv, TypeOK, firebase, screen, calls, Creation
<1>3. Pending' /\ SuccessFreesScreen' /\ Stack(routes')
  BY <1>1 DEF Pending, SuccessFreesScreen, SessionInv, screen
<1> QED
  BY <1>2, <1>3 DEF SessionInv

LEMMA UnsentTypes ==
    ASSUME TypeOK, NEW i \in 1 .. Len(unsent)
    PROVE  /\ unsent[i].uid \in Emails /\ unsent[i].name \in Names
           /\ RemoveAt(unsent, i) \in Seq([uid : Emails, name : Names])
<1> DEFINE S == [uid : Emails, name : Names]
<1>1. unsent \in Seq(S) /\ Len(unsent) \in Nat /\ i \in 1 .. Len(unsent)
  BY LenProperties DEF TypeOK
<1>2. \A j \in 1 .. Len(unsent) : unsent[j] \in S
  BY <1>1, ElementOfSeq
<1>3. unsent[i].uid \in Emails /\ unsent[i].name \in Names
  BY <1>2
<1> HIDE DEF S
<1>4. SubSeq(unsent, 1, i - 1) \in Seq(S) /\ SubSeq(unsent, i + 1, Len(unsent)) \in Seq(S)
  <2>1. /\ 1 \in Int /\ i - 1 \in Int /\ i + 1 \in Int /\ Len(unsent) \in Int
        /\ \A j \in 1 .. i - 1 : unsent[j] \in S
        /\ \A j \in i + 1 .. Len(unsent) : unsent[j] \in S
    BY <1>1, <1>2
  <2> QED
    BY <1>1, <2>1, SubSeqProperties
<1>5. RemoveAt(unsent, i) \in Seq(S)
  BY <1>4, ConcatProperties DEF RemoveAt
<1> QED
  BY <1>3, <1>5 DEF S

LEMMA UnsentWrittenSession ==
    ASSUME SessionInv, NEW i \in 1 .. Len(unsent), UnsentWritten(i)
    PROVE  SessionInv'
<1>1. /\ \/ docs' = [docs EXCEPT ![unsent[i].uid] = unsent[i].name]
         \/ docs' = docs
      /\ unsent' = RemoveAt(unsent, i)
      /\ UNCHANGED <<accounts, user, events, screen, calls, creating, starts>>
  BY DEF UnsentWritten
<1>2. /\ unsent[i].uid \in Emails /\ unsent[i].name \in Names
      /\ unsent' \in Seq([uid : Emails, name : Names])
  BY <1>1, UnsentTypes DEF SessionInv
<1>3. docs' \in [Emails -> Names \cup {None}]
  BY <1>1, <1>2 DEF SessionInv, TypeOK
<1>4. TypeOK'
  BY <1>1, <1>2, <1>3 DEF SessionInv, TypeOK, screen, calls, creating
<1>5. Pending' /\ SuccessFreesScreen' /\ Stack(routes')
  BY <1>1 DEF SessionInv, Pending, SuccessFreesScreen, screen, calls, creating
<1> QED
  BY <1>4, <1>5 DEF SessionInv

LEMMA RestartSession ==
    ASSUME SessionInv, Restart
    PROVE  SessionInv'
<1>1. /\ starts < MaxStarts /\ starts' = starts + 1
      /\ \/ accounts' = accounts
         \/ creation.pc = "account" /\ accounts' = accounts \cup {creation.email}
      /\ WriteCutOff /\ UserCutOff
      /\ events' = <<user'>>
      /\ home' = "login" /\ routes' = <<"home">>
      /\ signIns' = [c \in Calls |-> NoSignIn] /\ signOuts' = 0
      /\ form' = [email |-> None, name |-> None]
      /\ creation' = NoCreation /\ outcome' = "none" /\ underway' = {}
  BY DEF Restart, AccountCutOff
<1>2. /\ creation.pc = "account" => creation.email \in Emails
      /\ creation.pc = "document" => creation.uid \in Emails /\ creation.name \in Names
  <2>1. creation \in Creation
    BY DEF SessionInv, TypeOK
  <2> QED
    BY <2>1 DEF Creation, NoCreation
<1>3. accounts' \in SUBSET Emails /\ accounts \subseteq accounts'
  BY <1>1, <1>2 DEF SessionInv, TypeOK
<1>4. docs' \in [Emails -> Names \cup {None}]
  BY <1>1, <1>2 DEF WriteCutOff, SessionInv, TypeOK
<1>5. unsent' \in Seq([uid : Emails, name : Names])
  <2>1. CASE UNCHANGED unsent
    BY <2>1 DEF SessionInv, TypeOK
  <2>2. CASE /\ creation.pc = "document"
             /\ unsent' = Append(unsent, [uid |-> creation.uid, name |-> creation.name])
    BY <1>2, <2>2, AppendProperties DEF SessionInv, TypeOK
  <2> QED
    BY <1>1, <2>1, <2>2 DEF WriteCutOff
<1>6. user' \in accounts' \cup {None} /\ events' \in Seq(Emails \cup {None})
  <2>1. user' \in accounts' \cup {None}
    BY <1>1, <1>3 DEF UserCutOff, SessionInv, TypeOK
  <2>2. user' \in Emails \cup {None}
    BY <1>3, <2>1
  <2> QED
    BY <1>1, <1>3, <2>1, <2>2
<1>7. /\ signIns' \in [Calls -> SignIn] /\ creation' \in Creation
      /\ routes' \in Seq(Route)
      /\ form' \in [email : Emails \cup {None}, name : Names \cup {None}]
  BY <1>1, StackHome DEF SignIn, Creation, Stack
<1>8. signOuts' \in 0 .. MaxOuts /\ starts' \in 0 .. MaxStarts
  BY <1>1, Counters, SessionAssumption DEF SessionInv
<1>9. TypeOK'
  BY <1>1, <1>3, <1>4, <1>5, <1>6, <1>7, <1>8 DEF TypeOK
<1>10. Pending' /\ SuccessFreesScreen' /\ Stack(routes')
  BY <1>1, StackHome DEF Pending, SuccessFreesScreen
<1> QED
  BY <1>9, <1>10 DEF SessionInv

LEMMA LogOutConfirmedSession ==
    ASSUME SessionInv, LogOutConfirmed
    PROVE  SessionInv'
<1>1. signOuts' \in 0 .. MaxOuts
  BY Counters DEF LogOutConfirmed, SessionInv
<1> QED
  BY <1>1, RoutePopped DEF LogOutConfirmed

LEMMA SessionStep ==
    ASSUME SessionInv, [Next]_vars
    PROVE  SessionInv'
<1>1. CASE AuthEvent
  BY <1>1, AuthEventSession
<1>2. ASSUME NEW c \in Calls, NEW e \in Emails, SignInPressed(c, e)
      PROVE  SessionInv'
  BY <1>2, SignInPressedSession
<1>3. ASSUME NEW c \in Calls,
             \/ SignInAccepted(c)
             \/ \E why \in {"wrong-password", "other"} : SignInRefused(c, why)
      PROVE  SessionInv'
  BY <1>3, SignInAnswered
<1>4. CASE NoticeConfirmed
  BY <1>4, NoticeConfirmedSession
<1>5. CASE NewAccountPressed
  BY <1>5, RoutePushed DEF NewAccountPressed, OnHome
<1>6. ASSUME NEW e \in Emails \cup {None}, NEW n \in Names \cup {None},
             FormEdited(e, n)
      PROVE  SessionInv'
  BY <1>6, FormEditedSession
<1>7. CASE NewAccountLeft \/ LogOutCancelled
  <2>1. /\ Top \in {"new account", "sheet"} /\ Pop
        /\ UNCHANGED <<firebase, home, calls, creating, starts>>
    BY <1>7 DEF NewAccountLeft, LogOutCancelled
  <2>2. signOuts' \in 0 .. MaxOuts /\ signIns' = signIns
    BY <2>1 DEF SessionInv, TypeOK, calls
  <2> QED
    BY <2>1, <2>2, RoutePopped
<1>8. CASE CreatePressed
  BY <1>8, CreatePressedSession
<1>9. CASE AccountCreated
  BY <1>9, AccountCreatedSession
<1>10. CASE AccountRefused
  BY <1>10, AccountRefusedSession
<1>11. CASE DocumentWritten
  BY <1>11, DocumentWrittenSession
<1>12. CASE DocumentRefused
  BY <1>12, DocumentRefusedSession
<1>13. CASE LogOutPressed
  BY <1>13, RoutePushed DEF LogOutPressed, OnHome, creating, SessionInv, TypeOK
<1>14. CASE LogOutConfirmed
  BY <1>14, LogOutConfirmedSession
<1>15. CASE SignedOut \/ SignOutRefused
  BY <1>15, SignedOutSession
<1>16. ASSUME NEW i \in 1 .. Len(unsent), UnsentWritten(i)
       PROVE  SessionInv'
  BY <1>16, UnsentWrittenSession
<1>17. CASE Restart
  BY <1>17, RestartSession
<1>18. CASE UNCHANGED vars
  BY <1>18 DEF vars, firebase, screen, calls, creating,
               SessionInv, TypeOK, Pending, SuccessFreesScreen
<1> QED
  BY <1>1, <1>2, <1>3, <1>4, <1>5, <1>6, <1>7, <1>8, <1>9, <1>10, <1>11, <1>12,
     <1>13, <1>14, <1>15, <1>16, <1>17, <1>18 DEF Next

LEMMA Invariance == Spec => []SessionInv
  BY InitSession, SessionStep, PTL DEF Spec

-----------------------------------------------------------------------------

\* No pop, be it of a button or of the handler in new_account_page.dart:110 that
\* comes back from an await, removes LoadingPage from the navigator.
THEOREM HomeAlwaysStays == Spec => []HomeStays
<1>1. SessionInv => HomeStays
  BY DEF SessionInv, Stack, Pending, HomeStays
<1> QED
  BY <1>1, Invariance, PTL

\* The pop after the document was written meets the handler's own dialog, unless
\* a sign-in of the LoginPage below was under way at the press.
THEOREM SuccessAlwaysFreesScreen == Spec => []SuccessFreesScreen
<1>1. SessionInv => SuccessFreesScreen
  BY DEF SessionInv
<1> QED
  BY <1>1, Invariance, PTL

\* The document that NewAccountPage writes with `currentUser!.uid` belongs to
\* the user of the moment it reaches Firestore, unless a sign-in or -out was
\* under way at the press; so does what had waited on the device.
THEOREM OwnersWrite == Spec => OwnerWrites
<1>1. SessionInv /\ [Next]_vars =>
        [\A e \in Emails : docs'[e] # docs[e] /\ underway = {} => user = e]_vars
  <2> SUFFICES ASSUME SessionInv, Next, NEW e \in Emails,
                      docs'[e] # docs[e], underway = {}
               PROVE  user = e
    OBVIOUS
  <2>1. docs \in [Emails -> Names \cup {None}]
    BY DEF SessionInv, TypeOK
  <2>2. CASE DocumentWritten \/ (Restart /\ docs' # docs)
    <3>1. /\ creation.pc = "document"
          /\ docs' = [docs EXCEPT ![creation.uid] = creation.name]
      BY <2>2 DEF DocumentWritten, Restart, WriteCutOff
    <3>2. e = creation.uid
      BY <2>1, <3>1
    <3>3. user = creation.uid
      BY <3>1 DEF SessionInv, Pending, NoCreation
    <3> QED
      BY <3>2, <3>3
  <2>3. ASSUME NEW i \in 1 .. Len(unsent), UnsentWritten(i)
        PROVE  user = e
    BY <2>1, <2>3 DEF UnsentWritten
  <2>4. CASE UNCHANGED docs
    BY <2>4
  <2> QED
    BY <2>2, <2>3, <2>4
       DEF Next, firebase, AuthEvent, SignInPressed, SignInAccepted,
           SignInRefused, NoticeConfirmed, NewAccountPressed, FormEdited,
           NewAccountLeft, CreatePressed, AccountCreated, AccountRefused,
           DocumentRefused, LogOutPressed, LogOutCancelled, LogOutConfirmed,
           SignedOut, SignOutRefused
<1> QED
  BY <1>1, Invariance, PTL DEF Spec, OwnerWrites

-----------------------------------------------------------------------------
(* The login form. *)

\* The bloc has been told the text of every field that was touched, and nobody
\* has touched a field of which it was told nothing.
TextsPublished ==
    mounted => \A f \in Field : IF published[f] = "none" THEN text[f] = "empty"
                                                         ELSE published[f] = text[f]

\* Until both fields were touched nothing is decided.
Undecided ==
    mounted /\ (\E f \in Field : published[f] = "none") => ~loginButton

FormInv ==
    /\ FormTypeOK
    /\ TextsPublished /\ Undecided
    /\ LoginButtonTellsForm /\ SpinnerMeansPending

\* A field is emptied only in the copies of the bloc that hold its text, and
\* toggleLoginButton decides after it was told.
LEMMA TogglePreserves ==
    ASSUME FormTypeOK, FormInv, mounted, ToggleLoginButton,
           TextsPublished', mounted',
           text' \in [Field -> Text],
           published' \in [Field -> Text \cup {"none"}],
           \A f \in Field : published'[f] = "none" => published[f] = "none"
    PROVE  /\ loginButton' \in BOOLEAN
           /\ Undecided' /\ LoginButtonTellsForm'
<1>1. CASE \A f \in Field : published'[f] # "none"
  <2>1. loginButton' = Filled(published')
    BY <1>1 DEF ToggleLoginButton
  <2>2. \A f \in Field : published'[f] = text'[f]
    BY <1>1 DEF TextsPublished
  <2>3. Filled(published') <=> Filled(text')
    BY <2>2 DEF Filled
  <2> QED
    BY <1>1, <2>1, <2>3 DEF Undecided, LoginButtonTellsForm, Filled
<1>2. CASE \E f \in Field : published'[f] = "none"
  <2>1. PICK f \in Field : published'[f] = "none"
    BY <1>2
  <2>2. loginButton' = loginButton /\ ~loginButton
    BY <2>1 DEF ToggleLoginButton, FormInv, Undecided
  <2>3. ~Filled(text')
    BY <2>1 DEF TextsPublished, Filled
  <2> QED
    BY <2>2, <2>3 DEF FormTypeOK, Undecided, LoginButtonTellsForm, Filled
<1> QED
  BY <1>1, <1>2

LEMMA FormStart == FormInit => FormInv
<1> SUFFICES ASSUME FormInit
             PROVE  FormInv
  OBVIOUS
<1>1. FormTypeOK
  <2>1. /\ text \in [Field -> Text]
        /\ published \in [Field -> Text \cup {"none"}]
        /\ clearButton \in [Field -> BOOLEAN]
    BY DEF FormInit, Text
  <2>2. attempts \in [Attempts -> {"idle", "pending", "orphan"}]
    BY DEF FormInit
  <2>3. notices \in 0 .. MaxNotices
    BY LoginAssumption DEF FormInit
  <2> QED
    BY <2>1, <2>2, <2>3 DEF FormInit, FormTypeOK
<1>2. ~Filled(text)
  BY DEF FormInit, Filled, Field
<1> QED
  BY <1>1, <1>2
     DEF FormInit, FormInv, TextsPublished, Undecided, LoginButtonTellsForm,
         SpinnerMeansPending

\* What the user does to the fields leaves the sign-ins alone.
LEMMA FieldStep ==
    ASSUME FormInv, mounted,
           UNCHANGED <<indicator, attempts, notices, mounted, accepted>>,
           text' \in [Field -> Text],
           published' \in [Field -> Text \cup {"none"}],
           clearButton' \in [Field -> BOOLEAN],
           loginButton' \in BOOLEAN, cleared' \in BOOLEAN,
           TextsPublished', Undecided', LoginButtonTellsForm'
    PROVE  FormInv'
BY DEF FormInv, FormTypeOK, SpinnerMeansPending

LEMMA FormStep == FormInv /\ [FormNext]_formVars => FormInv'
<1> SUFFICES ASSUME FormInv, [FormNext]_formVars
             PROVE  FormInv'
  OBVIOUS
<1>1. /\ FormTypeOK /\ TextsPublished /\ Undecided /\ LoginButtonTellsForm
      /\ SpinnerMeansPending
  BY DEF FormInv
<1>2. ASSUME NEW f \in Field, Tap(f)
      PROVE  FormInv'
  <2>1. /\ mounted /\ published' = [published EXCEPT ![f] = text[f]]
        /\ clearButton' = [clearButton EXCEPT ![f] = text[f] = "filled"]
        /\ UNCHANGED <<text, loginButton, cleared>>
        /\ UNCHANGED <<indicator, attempts, notices, mounted, accepted>>
    BY <1>2 DEF Tap, InFront
  <2>2. /\ published' \in [Field -> Text \cup {"none"}]
        /\ clearButton' \in [Field -> BOOLEAN]
        /\ text' \in [Field -> Text] /\ loginButton' \in BOOLEAN /\ cleared' \in BOOLEAN
    BY <1>1, <2>1 DEF FormTypeOK
  <2>3. TextsPublished'
    BY <1>1, <2>1 DEF FormTypeOK, TextsPublished, Text
  <2>4. Undecided'
    BY <1>1, <2>1 DEF FormTypeOK, Undecided, Text
  <2>5. LoginButtonTellsForm'
    BY <1>1, <2>1 DEF LoginButtonTellsForm
  <2> QED
    BY <2>1, <2>2, <2>3, <2>4, <2>5, FieldStep
<1>3. ASSUME NEW f \in Field, Submit(f)
      PROVE  FormInv'
  <2>1. /\ mounted
        /\ published' \in {published, [published EXCEPT !["pw"] = text["pw"]]}
        /\ clearButton' = [clearButton EXCEPT ![f] = FALSE]
        /\ UNCHANGED <<text, loginButton, cleared>>
        /\ UNCHANGED <<indicator, attempts, notices, mounted, accepted>>
    BY <1>3 DEF Submit, InFront
  <2>2. /\ published' \in [Field -> Text \cup {"none"}]
        /\ clearButton' \in [Field -> BOOLEAN]
        /\ text' \in [Field -> Text] /\ loginButton' \in BOOLEAN /\ cleared' \in BOOLEAN
    BY <1>1, <2>1 DEF FormTypeOK, Field
  <2>3. TextsPublished'
    BY <1>1, <2>1 DEF FormTypeOK, TextsPublished, Text, Field
  <2>4. Undecided'
    BY <1>1, <2>1 DEF FormTypeOK, Undecided, Text, Field
  <2>5. LoginButtonTellsForm'
    BY <1>1, <2>1 DEF LoginButtonTellsForm
  <2> QED
    BY <2>1, <2>2, <2>3, <2>4, <2>5, FieldStep
<1>4. ASSUME NEW f \in Field, ClearPressed(f)
      PROVE  FormInv'
  <2>1. /\ mounted /\ cleared' = TRUE
        /\ text' = [text EXCEPT ![f] = "empty"]
        /\ published' = [published EXCEPT ![f] = "empty"]
        /\ UNCHANGED <<clearButton, loginButton>>
        /\ UNCHANGED <<indicator, attempts, notices, mounted, accepted>>
    BY <1>4 DEF ClearPressed, InFront
  <2>2. /\ published' \in [Field -> Text \cup {"none"}]
        /\ clearButton' \in [Field -> BOOLEAN]
        /\ text' \in [Field -> Text] /\ loginButton' \in BOOLEAN /\ cleared' \in BOOLEAN
    BY <1>1, <2>1 DEF FormTypeOK, Text
  <2>3. TextsPublished'
    BY <1>1, <2>1 DEF FormTypeOK, TextsPublished
  <2>4. Undecided'
    BY <1>1, <2>1 DEF FormTypeOK, Undecided
  <2>5. LoginButtonTellsForm'
    BY <2>1 DEF LoginButtonTellsForm
  <2> QED
    BY <2>1, <2>2, <2>3, <2>4, <2>5, FieldStep
<1>5. ASSUME NEW f \in Field, NEW t \in Text, Type(f, t)
      PROVE  FormInv'
  <2>1. /\ mounted /\ cleared' = FALSE /\ ToggleLoginButton
        /\ text' = [text EXCEPT ![f] = t]
        /\ published' = [published EXCEPT ![f] = t]
        /\ clearButton' = [clearButton EXCEPT ![f] = t = "filled"]
        /\ UNCHANGED <<indicator, attempts, notices, mounted, accepted>>
    BY <1>5 DEF Type, InFront
  <2>2. /\ published' \in [Field -> Text \cup {"none"}]
        /\ clearButton' \in [Field -> BOOLEAN]
        /\ text' \in [Field -> Text] /\ cleared' \in BOOLEAN
        /\ \A g \in Field : published'[g] = "none" => published[g] = "none"
    BY <1>1, <2>1 DEF FormTypeOK, Text
  <2>3. TextsPublished'
    BY <1>1, <2>1 DEF FormTypeOK, TextsPublished, Text
  <2>4. loginButton' \in BOOLEAN /\ Undecided' /\ LoginButtonTellsForm'
    BY <1>1, <2>1, <2>2, <2>3, TogglePreserves
  <2> QED
    BY <2>1, <2>2, <2>3, <2>4, FieldStep
<1>6. CASE TapOutside
  <2>1. /\ mounted /\ cleared' = FALSE /\ ToggleLoginButton
        /\ clearButton' = [f \in Field |-> FALSE]
        /\ UNCHANGED <<text, published>>
        /\ UNCHANGED <<indicator, attempts, notices, mounted, accepted>>
    BY <1>6 DEF TapOutside, InFront
  <2>2. /\ published' \in [Field -> Text \cup {"none"}]
        /\ clearButton' \in [Field -> BOOLEAN]
        /\ text' \in [Field -> Text] /\ cleared' \in BOOLEAN
    BY <1>1, <2>1 DEF FormTypeOK
  <2>3. TextsPublished'
    BY <1>1, <2>1 DEF TextsPublished
  <2>4. loginButton' \in BOOLEAN /\ Undecided' /\ LoginButtonTellsForm'
    BY <1>1, <2>1, <2>2, <2>3, TogglePreserves
  <2> QED
    BY <2>1, <2>2, <2>3, <2>4, FieldStep
<1>7. ASSUME NEW c \in Attempts, LoginPressed(c)
      PROVE  FormInv'
  <2>1. attempts' \in [Attempts -> {"idle", "pending", "orphan"}]
        /\ attempts'[c] = "pending"
    BY <1>1, <1>7 DEF LoginPressed, FormTypeOK
  <2> QED
    BY <1>1, <1>7, <2>1
       DEF LoginPressed, fields, FormInv, FormTypeOK, TextsPublished, Undecided,
           LoginButtonTellsForm, SpinnerMeansPending
<1>8. ASSUME NEW c \in Attempts, Answered(c)
      PROVE  FormInv'
  <2>1. /\ attempts[c] # "idle" /\ attempts' = [attempts EXCEPT ![c] = "idle"]
        /\ UNCHANGED <<text, published, clearButton, loginButton, mounted, cleared>>
    BY <1>8 DEF Answered, Accept, Refuse, AnswerOrphan, fields
  <2>2. attempts' \in [Attempts -> {"idle", "pending", "orphan"}]
    BY <1>1, <2>1 DEF FormTypeOK
  <2>3. /\ indicator' \in BOOLEAN /\ accepted' \in BOOLEAN
        /\ notices' \in 0 .. MaxNotices
    <3>1. notices \in 0 .. MaxNotices /\ indicator \in BOOLEAN /\ accepted \in BOOLEAN
      BY <1>1 DEF FormTypeOK
    <3>2. CASE Accept(c) \/ AnswerOrphan(c)
      BY <3>1, <3>2 DEF Accept, AnswerOrphan
    <3>3. ASSUME NEW why, Refuse(c, why)
          PROVE  /\ indicator' = FALSE /\ accepted' = accepted
                 /\ notices' \in 0 .. MaxNotices
      BY <3>1, <3>3, LoginAssumption DEF Refuse, Refused
    <3> QED
      BY <1>8, <3>1, <3>2, <3>3 DEF Answered
  <2>4. SpinnerMeansPending'
    <3>1. CASE Accept(c) \/ \E why \in {"wrong-password", "other"} : Refuse(c, why)
      BY <3>1 DEF Accept, Refuse, Refused, SpinnerMeansPending
    <3>2. CASE AnswerOrphan(c)
      <4>1. \A d \in Attempts : attempts[d] = "pending" => attempts'[d] = "pending"
        BY <1>1, <3>2 DEF AnswerOrphan, FormTypeOK
      <4> QED
        BY <1>1, <3>2, <4>1 DEF AnswerOrphan, SpinnerMeansPending
    <3> QED
      BY <1>8, <3>1, <3>2 DEF Answered
  <2> QED
    BY <1>1, <2>1, <2>2, <2>3, <2>4
       DEF FormInv, FormTypeOK, TextsPublished, Undecided, LoginButtonTellsForm
<1>9. CASE NoticeClosed
  <2>1. notices' \in 0 .. MaxNotices
    BY <1>1, <1>9, LoginAssumption DEF NoticeClosed, FormTypeOK
  <2> QED
    BY <1>1, <1>9, <2>1
       DEF NoticeClosed, fields, FormInv, FormTypeOK, TextsPublished, Undecided,
           LoginButtonTellsForm, SpinnerMeansPending
<1>10. CASE Dispose
  <2>1. attempts' \in [Attempts -> {"idle", "pending", "orphan"}]
    BY <1>1, <1>10 DEF Dispose, FormTypeOK
  <2> QED
    BY <1>1, <1>10, <2>1
       DEF Dispose, fields, FormInv, FormTypeOK, TextsPublished, Undecided,
           LoginButtonTellsForm, SpinnerMeansPending
<1>11. CASE Mount
  <2>1. /\ text' = [f \in Field |-> "empty"]
        /\ published' = [f \in Field |-> "none"]
        /\ clearButton' = [f \in Field |-> FALSE]
        /\ loginButton' = FALSE /\ indicator' = FALSE /\ accepted' = FALSE
        /\ cleared' = FALSE /\ mounted' = TRUE /\ UNCHANGED <<attempts, notices>>
    BY <1>11 DEF Mount, Fresh
  <2>2. FormTypeOK'
    BY <1>1, <2>1 DEF FormTypeOK, Text
  <2>3. ~Filled(text')
    BY <2>1 DEF Filled, Field
  <2> QED
    BY <2>1, <2>2, <2>3
       DEF FormInv, TextsPublished, Undecided, LoginButtonTellsForm, Filled,
           SpinnerMeansPending
<1>12. CASE UNCHANGED formVars
  BY <1>1, <1>12
     DEF formVars, fields, FormInv, FormTypeOK, TextsPublished, Undecided,
         LoginButtonTellsForm, SpinnerMeansPending
<1> QED
  BY <1>2, <1>3, <1>4, <1>5, <1>6, <1>7, <1>8, <1>9, <1>10, <1>11, <1>12
     DEF FormNext

LEMMA FormInvariance == FormSpec => []FormInv
BY FormStart, FormStep, PTL DEF FormSpec

\* The login button tells whether both fields are filled in (login_bloc.dart,
\* toggleLoginButton), whatever was touched before, unless one was cleared by
\* its button since.
THEOREM LoginButtonAlwaysTells == FormSpec => []LoginButtonTellsForm
<1>1. FormInv => LoginButtonTellsForm
  BY DEF FormInv
<1> QED
  BY <1>1, FormInvariance, PTL

\* The indicator of the login page spins only for a sign-in of this page, for
\* any number that overlap.
THEOREM SpinnerAlwaysMeansPending == FormSpec => []SpinnerMeansPending
<1>1. FormInv => SpinnerMeansPending
  BY DEF FormInv
<1> QED
  BY <1>1, FormInvariance, PTL
=============================================================================
