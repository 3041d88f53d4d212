------------------------------- MODULE Session -------------------------------
(***************************************************************************)
(* Who is signed in and what is on the screen: the pages that LoadingPage  *)
(* (lib/ui/loading_page.dart) shows at the bottom of the navigator, the    *)
(* sign-ins of LoginPage, the creation of an account by NewAccountPage and *)
(* the way out in MenuPage.                                                *)
(*                                                                         *)
(* Firebase is external.  Its calls are answered at any time, with success *)
(* or an error; every change of the user is announced to LoadingPage by an *)
(* event that arrives later.  The handlers await these calls while other   *)
(* handlers run, and none of them is cancelled when its page goes away.    *)
(*                                                                         *)
(* A route is popped by Navigator.pop, which removes whatever is on top.   *)
(* Only the route on top takes input; the system back button of Android is *)
(* not modelled.                                                           *)
(*                                                                         *)
(* The application may be killed and started again: Firebase keeps the     *)
(* accounts, the documents and the user; a call on its way may or may not  *)
(* have taken effect.  The write of a document may also wait on the device *)
(* until its user is signed in, as FirestoreWrites has it.                 *)
(***************************************************************************)
EXTENDS Integers, Sequences, SequencesExt

CONSTANTS Emails,     \* the accounts there may be
          Names,      \* the names a user may enter
          None,       \* no user, no document, or an empty field
          Calls,      \* bound: sign-ins under way at once
          MaxEvents,  \* bound: announcements under way
          MaxOuts,    \* bound: sign-outs under way
          MaxStarts   \* bound: times the application is started again

ASSUME SessionAssumption ==
    /\ None \notin Emails \cup Names
    /\ MaxEvents \in Nat \ {0}
    /\ MaxOuts \in Nat \ {0}
    /\ MaxStarts \in Nat

VARIABLES
    accounts,   \* the accounts of Firebase Auth
    docs,       \* the collection `user` of Firestore: the name of each account
    unsent,     \* writes that wait on the device since it was started again
    user,       \* FirebaseAuth.instance.currentUser
    events,     \* announcements of authStateChanges under way
    home,       \* what LoadingPage shows: LoginPage or MainPage
    routes,     \* the stack of the navigator, "home" first
    signIns,    \* for each slot, the sign-in under way
    signOuts,   \* number of sign-outs under way
    form,       \* the e-mail address and the name in NewAccountPage
    creation,   \* the press on the button of NewAccountPage under way
    outcome,    \* history: how the last creation ended
    underway,   \* history: the kinds of calls under way when it began
    starts      \* history: times the application was started again

firebase == <<accounts, docs, unsent, user, events>>
screen == <<home, routes>>
calls == <<signIns, signOuts>>
creating == <<form, creation, outcome, underway>>
vars == <<firebase, screen, calls, creating, starts>>

Top == Last(routes)
Push(route) == routes' = Append(routes, route)
Pop == routes' = Front(routes)

NoSignIn == [pc |-> "idle"]

\* A sign-in under way, and whether the LoginPage that made it is alive.
SignIn == {NoSignIn} \cup [pc : {"open", "closed"}, email : Emails]

NoCreation == [pc |-> "idle"]

Creation ==
    {NoCreation}
        \cup [pc : {"account"}, email : Emails]
        \cup [pc : {"document"}, uid : Emails, name : Names]

\* The kinds of calls under way: sign-ins whose page is open, or closed, and
\* sign-outs.
Underway ==
    {signIns[c].pc : c \in {d \in Calls : signIns[d] # NoSignIn}}
        \cup IF signOuts > 0 THEN {"out"} ELSE {}

\* The user becomes u and LoadingPage will be told.
BecomeUser(u) ==
    /\ Len(events) < MaxEvents
    /\ user' = u
    /\ events' = Append(events, u)

\* A press on LoginPage or MainPage.
OnHome(page) == home = page /\ Top = "home"

-----------------------------------------------------------------------------

\* The user of the last run of the application, if any, is still signed in;
\* of the accounts some may have no document.
Init ==
    /\ accounts \in SUBSET Emails
    /\ docs \in [Emails -> Names \cup {None}]
    /\ \A e \in Emails \ accounts : docs[e] = None
    /\ unsent = <<>>
    /\ user \in accounts \cup {None}
    /\ events = <<user>>
    /\ home = "login"
    /\ routes = <<"home">>
    /\ signIns = [c \in Calls |-> NoSignIn]
    /\ signOuts = 0
    /\ form = [email |-> None, name |-> None]
    /\ creation = NoCreation
    /\ outcome = "none"
    /\ underway = {}
    /\ starts = 0

\* Mutant of Shown: the page is replaced only while it is on top.
ShownOnTop(u) ==
    IF Top # "home" THEN home ELSE IF u = None THEN "login" ELSE "main"

\* What LoadingPage shows once u is announced.
Shown(u) == IF u = None THEN "login" ELSE "main"

\* The sign-ins once LoginPage is closed.
Abandoned ==
    [c \in Calls |-> IF signIns[c].pc = "open"
                       THEN [signIns[c] EXCEPT !.pc = "closed"]
                       ELSE signIns[c]]

\* LoadingPage is told of a user.  It shows LoginPage for none and MainPage
\* for any, below whatever routes there are.
AuthEvent ==
    /\ events # <<>>
    /\ events' = Tail(events)
    /\ home' = Shown(Head(events))
    /\ signIns' = IF home = "login" /\ home' = "main" THEN Abandoned
                                                      ELSE signIns
    /\ UNCHANGED <<accounts, docs, unsent, user, routes, signOuts, creating, starts>>

\* The login button of LoginPage, up to its await.
SignInPressed(c, e) ==
    /\ OnHome("login")
    /\ signIns[c] = NoSignIn
    /\ signIns' = [signIns EXCEPT ![c] = [pc |-> "open", email |-> e]]
    /\ UNCHANGED <<firebase, screen, signOuts, creating, starts>>

SignInAccepted(c) ==
    /\ signIns[c] # NoSignIn
    /\ signIns[c].email \in accounts
    /\ BecomeUser(signIns[c].email)
    /\ signIns' = [signIns EXCEPT ![c] = NoSignIn]
    /\ UNCHANGED <<accounts, docs, unsent, screen, signOuts, creating, starts>>

\* Mutant of SignInRefused: the notice is shown whether the page is open or not.
SignInRefusedAnywhere(c, why) ==
    /\ signIns[c] # NoSignIn
    /\ signIns' = [signIns EXCEPT ![c] = NoSignIn]
    /\ IF why = "wrong-password" THEN Push("notice") ELSE UNCHANGED routes
    /\ UNCHANGED <<firebase, home, signOuts, creating, starts>>

\* On a closed page the handler throws before it shows the notice.
SignInRefused(c, why) ==
    /\ signIns[c] # NoSignIn
    /\ signIns' = [signIns EXCEPT ![c] = NoSignIn]
    /\ IF signIns[c].pc = "open" /\ why = "wrong-password"
         THEN Push("notice") ELSE UNCHANGED routes
    /\ UNCHANGED <<firebase, home, signOuts, creating, starts>>

\* The button of a notice: a wrong password, or an empty field.
NoticeConfirmed ==
    /\ Top = "notice"
    /\ Pop
    /\ UNCHANGED <<firebase, home, calls, creating, starts>>

\* The button of LoginPage that leads to NewAccountPage.
NewAccountPressed ==
    /\ OnHome("login")
    /\ Push("new account")
    /\ form' = [email |-> None, name |-> None]
    /\ UNCHANGED <<firebase, home, calls, creation, outcome, underway, starts>>

FormEdited(e, n) ==
    /\ Top = "new account"
    /\ form' = [email |-> e, name |-> n]
    /\ UNCHANGED <<firebase, screen, calls, creation, outcome, underway, starts>>

NewAccountLeft ==
    /\ Top = "new account"
    /\ Pop
    /\ UNCHANGED <<firebase, home, calls, creating, starts>>

\* The button of NewAccountPage, with a field empty or up to its await.
CreatePressed ==
    /\ Top = "new account"
    /\ \/ /\ None \in {form.email, form.name}
          /\ Push("notice")
          /\ UNCHANGED <<creation, outcome, underway>>
       \/ /\ None \notin {form.email, form.name}
          /\ Push("progress")
          /\ creation' = [pc |-> "account", email |-> form.email]
          /\ outcome' = "none"
          /\ underway' = Underway
    /\ UNCHANGED <<firebase, home, calls, form, starts>>

\* Mutant of Write: the document is that of the address entered.
WriteByEmail(u) ==
    creation' = [pc |-> "document", uid |-> creation.email, name |-> form.name]

\* What follows the creation, whether it succeeded or not: the document of
\* the user u of the moment is written.
Write(u) == creation' = [pc |-> "document", uid |-> u, name |-> form.name]

\* The account is created: Firebase signs the new user in.
AccountCreated ==
    /\ creation.pc = "account"
    /\ creation.email \notin accounts
    /\ accounts' = accounts \cup {creation.email}
    /\ BecomeUser(creation.email)
    /\ Write(user')
    /\ UNCHANGED <<docs, unsent, screen, calls, form, outcome, underway, starts>>

\* The account is not created.  The error is logged and dropped; without a
\* user the handler then throws at `currentUser!`.
AccountRefused ==
    /\ creation.pc = "account"
    /\ \/ /\ user = None
          /\ creation' = NoCreation
          /\ outcome' = "no user"
       \/ /\ user # None
          /\ Write(user)
          /\ UNCHANGED outcome
    /\ UNCHANGED <<firebase, screen, calls, form, underway, starts>>

\* A write of the user u waits, and every later one behind it.
Waits(u) == \E i \in 1 .. Len(unsent) : unsent[i].uid = u

\* The document is written; pop() is meant for the progress dialog.
DocumentWritten ==
    /\ creation.pc = "document"
    /\ ~Waits(creation.uid)
    /\ docs' = [docs EXCEPT ![creation.uid] = creation.name]
    /\ creation' = NoCreation
    /\ outcome' = "written"
    /\ Pop
    /\ UNCHANGED <<accounts, unsent, user, events, home, calls, form, underway, starts>>

\* The write fails: the handler throws.
DocumentRefused ==
    /\ creation.pc = "document"
    /\ ~Waits(creation.uid)
    /\ creation' = NoCreation
    /\ outcome' = "unwritten"
    /\ UNCHANGED <<firebase, screen, calls, form, underway, starts>>

\* The last button of MenuPage.
LogOutPressed ==
    /\ OnHome("main")
    /\ Push("sheet")
    /\ UNCHANGED <<firebase, home, calls, creating, starts>>

\* The way back from the sheet.
LogOutCancelled ==
    /\ Top = "sheet"
    /\ Pop
    /\ UNCHANGED <<firebase, home, calls, creating, starts>>

\* Mutant of LogOutConfirmed: the page is popped along with the sheet.
LogOutConfirmedTwice ==
    /\ Top = "sheet"
    /\ signOuts < MaxOuts
    /\ routes' = Front(Front(routes))
    /\ signOuts' = signOuts + 1
    /\ UNCHANGED <<firebase, home, signIns, creating, starts>>

\* The way out: the sheet is closed, then the sign-out is awaited.
LogOutConfirmed ==
    /\ Top = "sheet"
    /\ signOuts < MaxOuts
    /\ Pop
    /\ signOuts' = signOuts + 1
    /\ UNCHANGED <<firebase, home, signIns, creating, starts>>

SignedOut ==
    /\ signOuts > 0
    /\ signOuts' = signOuts - 1
    /\ IF user = None THEN UNCHANGED <<user, events>> ELSE BecomeUser(None)
    /\ UNCHANGED <<accounts, docs, unsent, screen, signIns, creating, starts>>

\* The sign-out fails: the handler, which awaits it last, throws.
SignOutRefused ==
    /\ signOuts > 0
    /\ signOuts' = signOuts - 1
    /\ UNCHANGED <<firebase, screen, signIns, creating, starts>>

\* The oldest write of a user that waits is sent once the user is signed in, and
\* permitted or not.
UnsentWritten(i) ==
    /\ user = unsent[i].uid
    /\ \A j \in 1 .. i - 1 : unsent[j].uid # unsent[i].uid
    /\ \/ docs' = [docs EXCEPT ![unsent[i].uid] = unsent[i].name]
       \/ UNCHANGED docs
    /\ unsent' = RemoveAt(unsent, i)
    /\ UNCHANGED <<accounts, user, events, screen, calls, creating, starts>>

\* What became of the write of a document when the application was killed: it
\* had not been queued, it is queued, or it had been sent.
WriteCutOff ==
    \/ UNCHANGED <<docs, unsent>>
    \/ /\ creation.pc = "document"
       /\ unsent' = Append(unsent, [uid |-> creation.uid, name |-> creation.name])
       /\ UNCHANGED docs
    \/ /\ creation.pc = "document"
       /\ ~Waits(creation.uid)
       /\ docs' = [docs EXCEPT ![creation.uid] = creation.name]
       /\ UNCHANGED unsent

\* What became of an account that was being created.
AccountCutOff ==
    \/ UNCHANGED accounts
    \/ /\ creation.pc = "account"
       /\ accounts' = accounts \cup {creation.email}

\* Whom a call that was cut off may have made the user.
UserCutOff ==
    \/ UNCHANGED user
    \/ signOuts > 0 /\ user' = None
    \/ \E c \in Calls :
         /\ signIns[c] # NoSignIn
         /\ signIns[c].email \in accounts
         /\ user' = signIns[c].email
    \/ /\ accounts' # accounts
       /\ user' = creation.email

\* The application is killed and started again.
Restart ==
    /\ starts < MaxStarts
    /\ starts' = starts + 1
    /\ AccountCutOff
    /\ WriteCutOff
    /\ UserCutOff
    /\ events' = <<user'>>
    /\ home' = "login"
    /\ routes' = <<"home">>
    /\ signIns' = [c \in Calls |-> NoSignIn]
    /\ signOuts' = 0
    /\ form' = [email |-> None, name |-> None]
    /\ creation' = NoCreation
    /\ outcome' = "none"
    /\ underway' = {}

Next ==
    \/ AuthEvent
    \/ \E c \in Calls, e \in Emails : SignInPressed(c, e)
    \/ \E c \in Calls : SignInAccepted(c)
    \/ \E c \in Calls, why \in {"wrong-password", "other"} :
         SignInRefused(c, why)
    \/ NoticeConfirmed
    \/ NewAccountPressed
    \/ \E e \in Emails \cup {None}, n \in Names \cup {None} : FormEdited(e, n)
    \/ NewAccountLeft
    \/ CreatePressed
    \/ AccountCreated \/ AccountRefused
    \/ DocumentWritten \/ DocumentRefused
    \/ LogOutPressed \/ LogOutCancelled \/ LogOutConfirmed
    \/ SignedOut \/ SignOutRefused
    \/ \E i \in 1 .. Len(unsent) : UnsentWritten(i)
    \/ Restart

Spec == Init /\ [][Next]_vars

\* Announcements arrive.
FairSpec == Spec /\ WF_vars(AuthEvent)

-----------------------------------------------------------------------------

Route == {"home", "notice", "new account", "progress", "sheet"}

TypeOK ==
    /\ accounts \in SUBSET Emails
    /\ docs \in [Emails -> Names \cup {None}]
    /\ unsent \in Seq([uid : Emails, name : Names])
    /\ user \in accounts \cup {None}
    /\ events \in Seq(Emails \cup {None})
    /\ home \in {"login", "main"}
    /\ routes \in Seq(Route)
    /\ signIns \in [Calls -> SignIn]
    /\ signOuts \in 0 .. MaxOuts
    /\ form \in [email : Emails \cup {None}, name : Names \cup {None}]
    /\ creation \in Creation
    /\ outcome \in {"none", "no user", "unwritten", "written"}
    /\ underway \in SUBSET {"open", "closed", "out"}
    /\ starts \in 0 .. MaxStarts

\* pop() is called blindly, by buttons and by a handler that comes back from
\* an await, and yet never empties the navigator: LoadingPage stays at its
\* bottom and nowhere else, because the progress dialog cannot go away before
\* the handler that pops it.
HomeStays ==
    /\ \A i \in 1 .. Len(routes) : (routes[i] = "home") = (i = 1)
    /\ routes # <<>>
    /\ creation # NoCreation => Contains(routes, "progress")

\* A creation that ends with its document written gives the screen back: the
\* route it pops is its own dialog.  When a sign-in of the LoginPage below
\* was under way at the press, its notice may be on top and is popped instead.
SuccessFreesScreen ==
    outcome = "written" /\ "open" \notin underway
        => ~Contains(routes, "progress")

\* Unless a sign-in or -out was under way at the press, a document changes
\* only while its owner is signed in, although the handler goes on after a
\* failure and the user may change while it awaits.
OwnerWrites ==
    [][\A e \in Emails :
         docs'[e] # docs[e] /\ underway = {} => user = e]_vars

\* Once the user stays the same, LoadingPage shows the page for this user,
\* whatever routes are above it.
HomeFollowsUser ==
    \A u \in Emails \cup {None} : 
        <>[](user = u) => <>[](home = IF u = None THEN "login" ELSE "main")
=============================================================================
