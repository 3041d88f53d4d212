------------------------------ MODULE LoginForm ------------------------------
(***************************************************************************)
(* The login page: LoginBloc of lib/bloc/login_bloc.dart, the two fields   *)
(* of lib/ui/login_page.dart and their lib/components/login_page/          *)
(* input_form.dart.                                                        *)
(*                                                                         *)
(* A field has its text in a controller; a listener publishes the text in  *)
(* a subject of the bloc at every change, also at a change of the caret,   *)
(* and before the field's own onTap and onChanged run.  Of a text the      *)
(* model keeps whether it is empty.  The button of the page is not         *)
(* disabled while a sign-in is under way, so that sign-ins overlap; those  *)
(* that are answered after the page was closed throw at the closed subject *)
(* before they can show anything.                                          *)
(***************************************************************************)
EXTENDS Integers

CONSTANTS Attempts,   \* bound: sign-ins under way at once
          MaxNotices  \* bound: notices of a wrong password on the screen

ASSUME LoginAssumption == MaxNotices \in Nat

VARIABLES text,         \* the controllers
          published,    \* _id and _pw: the text as the bloc knows it
          clearButton,  \* _idButton and _pwButton
          loginButton,  \* _loginButton
          indicator,    \* _indicator
          attempts,     \* the sign-ins under way
          notices,      \* alerts of a wrong password above the page
          mounted,      \* whether the page, and its bloc, is alive
          accepted,     \* history: a sign-in of this page was accepted
          cleared       \* history: a field was cleared by its button since the
                        \* login button was last decided

fields == <<text, published, clearButton>>
formVars == <<fields, loginButton, indicator, attempts, notices, mounted, accepted,
          cleared>>

Field == {"id", "pw"}
Text == {"empty", "filled"}

\* The page takes input: nothing is in front of it.
InFront == mounted /\ notices = 0

Filled(texts) == \A f \in Field : texts[f] = "filled"

\* Mutant of ToggleLoginButton: it reads the subjects before they are told.
ToggleLoginButtonEarly ==
    loginButton' = IF \A f \in Field : published[f] # "none"
                     THEN Filled(published) ELSE loginButton

\* toggleLoginButton: nothing is decided until both fields have been touched.
ToggleLoginButton ==
    loginButton' = IF \A f \in Field : published'[f] # "none"
                     THEN Filled(published') ELSE loginButton

\* Mutant of Refused: only a wrong password stops the indicator.
RefusedSilently(why) ==
    indicator' = IF why = "wrong-password" THEN FALSE ELSE indicator

\* The handler of FirebaseAuthException.
Refused(why) == indicator' = FALSE

-----------------------------------------------------------------------------

Fresh ==
    /\ text' = [f \in Field |-> "empty"]
    /\ published' = [f \in Field |-> "none"]
    /\ clearButton' = [f \in Field |-> FALSE]
    /\ loginButton' = FALSE
    /\ indicator' = FALSE
    /\ accepted' = FALSE
    /\ cleared' = FALSE

FormInit ==
    /\ text = [f \in Field |-> "empty"]
    /\ published = [f \in Field |-> "none"]
    /\ clearButton = [f \in Field |-> FALSE]
    /\ loginButton = FALSE
    /\ indicator = FALSE
    /\ attempts = [c \in Attempts |-> "idle"]
    /\ notices = 0
    /\ mounted = TRUE
    /\ accepted = FALSE
    /\ cleared = FALSE

\* onTap of a field.  The tap moves the caret, which publishes the text.
Tap(f) ==
    /\ InFront
    /\ published' = [published EXCEPT ![f] = text[f]]
    /\ clearButton' = [clearButton EXCEPT ![f] = text[f] = "filled"]
    /\ UNCHANGED <<text, loginButton, indicator, attempts, notices, mounted,
                   accepted, cleared>>

\* onChanged of a field.
Type(f, t) ==
    /\ InFront
    /\ text' = [text EXCEPT ![f] = t]
    /\ published' = [published EXCEPT ![f] = t]
    /\ clearButton' = [clearButton EXCEPT ![f] = t = "filled"]
    /\ ToggleLoginButton
    /\ cleared' = FALSE
    /\ UNCHANGED <<indicator, attempts, notices, mounted, accepted>>

\* onSubmitted of a field.  When the other field gets the focus its caret
\* moves, which publishes its text.
Submit(f) ==
    /\ InFront
    /\ clearButton' = [clearButton EXCEPT ![f] = FALSE]
    /\ published' \in {published, [published EXCEPT !["pw"] = text["pw"]]}
    /\ UNCHANGED <<text, loginButton, indicator, attempts, notices, mounted,
                   accepted, cleared>>

\* The button at the end of a field.  No onButtonPressed is given, and
\* clear() does not call onChanged: both buttons are left as they were.
ClearPressed(f) ==
    /\ InFront
    /\ clearButton[f]
    /\ text' = [text EXCEPT ![f] = "empty"]
    /\ published' = [published EXCEPT ![f] = "empty"]
    /\ cleared' = TRUE
    /\ UNCHANGED <<clearButton, loginButton, indicator, attempts, notices,
                   mounted, accepted>>

\* A tap outside of the fields: onUnfocus.
TapOutside ==
    /\ InFront
    /\ clearButton' = [f \in Field |-> FALSE]
    /\ UNCHANGED <<text, published, indicator, attempts, notices, mounted,
                   accepted>>
    /\ ToggleLoginButton
    /\ cleared' = FALSE

\* The login button, up to the await of the sign-in.
LoginPressed(c) ==
    /\ InFront
    /\ loginButton
    /\ attempts[c] = "idle"
    /\ attempts' = [attempts EXCEPT ![c] = "pending"]
    /\ indicator' = TRUE
    /\ UNCHANGED <<fields, loginButton, notices, mounted, accepted, cleared>>

\* The sign-in is answered while the page is there.
Accept(c) ==
    /\ attempts[c] = "pending"
    /\ attempts' = [attempts EXCEPT ![c] = "idle"]
    /\ accepted' = TRUE
    /\ UNCHANGED <<fields, loginButton, indicator, notices, mounted, cleared>>

Refuse(c, why) ==
    /\ attempts[c] = "pending"
    /\ attempts' = [attempts EXCEPT ![c] = "idle"]
    /\ Refused(why)
    /\ IF why = "wrong-password"
         THEN notices < MaxNotices /\ notices' = notices + 1
         ELSE UNCHANGED notices
    /\ UNCHANGED <<fields, loginButton, mounted, accepted, cleared>>

\* The sign-in is answered after its page was closed: nothing happens, or a
\* StateError that nobody catches.
AnswerOrphan(c) ==
    /\ attempts[c] = "orphan"
    /\ attempts' = [attempts EXCEPT ![c] = "idle"]
    /\ UNCHANGED <<fields, loginButton, indicator, notices, mounted, accepted,
                   cleared>>

\* The button of the notice, which outlives the page.
NoticeClosed ==
    /\ notices > 0
    /\ notices' = notices - 1
    /\ UNCHANGED <<fields, loginButton, indicator, attempts, mounted, accepted,
                   cleared>>

\* A user is signed in, by this page or by a new account: the page is
\* replaced, its controllers and its bloc are closed.
Dispose ==
    /\ mounted
    /\ mounted' = FALSE
    /\ attempts' = [c \in Attempts |->
                    IF attempts[c] = "pending" THEN "orphan" ELSE attempts[c]]
    /\ UNCHANGED <<fields, loginButton, indicator, notices, accepted, cleared>>

\* The user is signed out: a new page with a bloc of its own.
Mount ==
    /\ ~mounted
    /\ mounted' = TRUE
    /\ Fresh
    /\ UNCHANGED <<attempts, notices>>

Answered(c) ==
    \/ Accept(c)
    \/ \E why \in {"wrong-password", "other"} : Refuse(c, why)
    \/ AnswerOrphan(c)

FormNext ==
    \/ \E f \in Field : Tap(f) \/ Submit(f) \/ ClearPressed(f)
    \/ \E f \in Field, t \in Text : Type(f, t)
    \/ TapOutside
    \/ \E c \in Attempts : LoginPressed(c) \/ Answered(c)
    \/ NoticeClosed
    \/ Dispose
    \/ Mount

FormSpec == FormInit /\ [][FormNext]_formVars

\* Firebase answers every call, if only with an error.
FormFairSpec == FormSpec /\ \A c \in Attempts : WF_formVars(Answered(c))

-----------------------------------------------------------------------------

FormTypeOK ==
    /\ text \in [Field -> Text]
    /\ published \in [Field -> Text \cup {"none"}]
    /\ clearButton \in [Field -> BOOLEAN]
    /\ loginButton \in BOOLEAN
    /\ indicator \in BOOLEAN
    /\ attempts \in [Attempts -> {"idle", "pending", "orphan"}]
    /\ notices \in 0 .. MaxNotices
    /\ mounted \in BOOLEAN
    /\ accepted \in BOOLEAN
    /\ cleared \in BOOLEAN

\* The login button may be pressed exactly when both fields are filled in,
\* whatever the order in which they were touched, submitted and left.  After
\* a clear button it may not be so until the next edit: InputForm clears the
\* controller and neither page nor bloc decides again.
LoginButtonTellsForm == mounted /\ ~cleared => (loginButton <=> Filled(text))

\* The indicator does not spin for nothing: a sign-in of this very page is
\* under way, or one was accepted and the page is about to be replaced.  The
\* converse fails when sign-ins overlap: the first refusal stops the
\* indicator for all of them.
SpinnerMeansPending ==
    mounted /\ indicator =>
        accepted \/ \E c \in Attempts : attempts[c] = "pending"

\* An indicator that spins stops, or the page is on its way to being replaced.
SpinnerEnds == mounted /\ indicator ~> ~mounted \/ ~indicator \/ accepted
=============================================================================
