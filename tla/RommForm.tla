------------------------------- MODULE RommForm -------------------------------
(***************************************************************************)
(* The launcher's RomM settings form: reading, linking by a code approved  *)
(* elsewhere, signing in through a dialog, and removing the connection.    *)
(* One busy flag stands for all of its requests, while the poll chain of a *)
(* pending code runs beside them and may answer in the middle of one.      *)
(***************************************************************************)
EXTENDS Integers

CONSTANTS MaxJobs,      \* bound: requests of one kind outstanding
          MaxChains     \* bound: poll chains

Kinds == {"load", "connect", "signin", "remove"}
Credentials == {"Username", "Password"}

VARIABLES connection,   \* Form::connection is set
          url,          \* Form::base_url has text in it
          pending,      \* Form::pending: a code is on screen
          polling,      \* Form::polling
          busy,         \* Form::busy
          dialog,       \* Form::sign_in: none, or how far it is filled in
          caret,        \* TextEntry::active, as far as this form's fields go
          jobs,         \* requests outstanding, by kind
          polls         \* poll chains running

formVars == <<connection, url, pending, polling, busy, dialog, caret>>
vars == <<formVars, jobs, polls>>

TypeOK ==
    /\ connection \in BOOLEAN /\ url \in BOOLEAN
    /\ pending \in BOOLEAN /\ polling \in BOOLEAN /\ busy \in BOOLEAN
    /\ dialog \in {"none", "empty", "filled"}
    /\ caret \in {"none", "Url"} \cup Credentials
    /\ jobs \in [Kinds -> Nat] /\ polls \in Nat

Init ==
    /\ connection = FALSE /\ url = FALSE
    /\ pending = FALSE /\ polling = FALSE /\ busy = FALSE
    /\ dialog = "none" /\ caret = "none"
    /\ jobs = [k \in Kinds |-> 0] /\ polls = 0

Ask(kind) ==
    /\ jobs[kind] < MaxJobs
    /\ jobs' = [jobs EXCEPT ![kind] = @ + 1]
    /\ busy' = TRUE

Answered(kind) ==
    /\ jobs[kind] > 0
    /\ jobs' = [jobs EXCEPT ![kind] = @ - 1]

\* loaded: what is connected, and its address in the box.
Loaded(connected) == connection' = connected /\ url' = connected /\ busy' = FALSE

\* failed: the error is told, and nothing else of the form changes.
Failed == busy' = FALSE /\ UNCHANGED <<connection, url>>

------------------------------------------------------------------------------
(* What the user presses *)

\* RefreshPressed, which opening the settings screen sends too.
RefreshPressed ==
    /\ ~busy /\ Ask("load")
    /\ UNCHANGED <<connection, url, pending, polling, dialog, caret, polls>>

UrlChanged ==
    /\ ~busy /\ ~polling /\ dialog = "none" /\ url' \in BOOLEAN
    /\ UNCHANGED <<connection, pending, polling, busy, dialog, caret, jobs, polls>>

ConnectPressed ==
    /\ ~busy /\ ~polling /\ url /\ dialog = "none" /\ Ask("connect")
    /\ UNCHANGED <<connection, url, pending, polling, dialog, caret, polls>>

SignInOpened ==
    /\ ~busy /\ url /\ dialog = "none"
    /\ dialog' = "empty" /\ caret' = "Username"
    /\ UNCHANGED <<connection, url, pending, polling, busy, jobs, polls>>

\* A busy dialog stays, to be told the outcome, but gives the caret up.
SignInClosed ==
    /\ dialog # "none"
    /\ dialog' = IF busy THEN dialog ELSE "none"
    /\ caret' = "none"
    /\ UNCHANGED <<connection, url, pending, polling, busy, jobs, polls>>

CredentialsTyped ==
    /\ dialog # "none" /\ ~busy /\ dialog' \in {"empty", "filled"}
    /\ UNCHANGED <<connection, url, pending, polling, busy, caret, jobs, polls>>

\* take_credentials: the password leaves the form with the request.
SignInPressed ==
    /\ ~busy /\ url /\ dialog = "filled" /\ Ask("signin")
    /\ dialog' = "empty" /\ caret' = "none"
    /\ UNCHANGED <<connection, url, pending, polling, polls>>

\* Accepting the username moves to the password.
UsernameSubmitted ==
    /\ dialog # "none" /\ ~busy /\ caret' = "Password"
    /\ UNCHANGED <<connection, url, pending, polling, busy, dialog, jobs, polls>>

RemovePressed ==
    /\ ~busy /\ ~polling /\ connection /\ dialog = "none" /\ Ask("remove")
    /\ UNCHANGED <<connection, url, pending, polling, dialog, caret, polls>>

\* TextFieldFocused, for a field that is on screen.
FieldFocused(field) ==
    /\ IF dialog = "none" THEN field = "Url" ELSE field \in Credentials
    /\ caret' = field
    /\ UNCHANGED <<connection, url, pending, polling, busy, dialog, jobs, polls>>

\* The caret is given up: by a blur of the field that has it, by accepting a
\* field that ends the typing, or with the page.
CaretGivenUp ==
    /\ caret' = "none"
    /\ UNCHANGED <<connection, url, pending, polling, busy, dialog, jobs, polls>>

------------------------------------------------------------------------------
(* What the daemon answers *)

LoadAnswered ==
    /\ Answered("load")
    /\ (\E connected \in BOOLEAN : Loaded(connected)) \/ Failed
    /\ UNCHANGED <<pending, polling, dialog, caret, polls>>

\* link_started: the code is shown, and its poll chain starts.
LinkStarted ==
    /\ Answered("connect") /\ busy' = FALSE
    /\ \/ polls < MaxChains /\ polls' = polls + 1 /\ pending' = TRUE /\ polling' = TRUE
       \/ UNCHANGED <<pending, polling, polls>>
    /\ UNCHANGED <<connection, url, dialog, caret>>

\* Mutant: an approved code stays on screen.
LinkPolledShown ==
    /\ polls > 0 /\ polls' = polls - 1
    /\ polling' = FALSE
    /\ Loaded(TRUE) \/ UNCHANGED <<connection, url, busy>>
    /\ UNCHANGED <<pending, dialog, caret, jobs>>

\* link_polled, when the chain ends: approved, expired, denied, failed, or found
\* without its code.  A code still waiting is polled again, which changes nothing.
LinkPolled ==
    /\ polls > 0 /\ polls' = polls - 1
    /\ pending' = FALSE /\ polling' = FALSE
    /\ Loaded(TRUE) \/ UNCHANGED <<connection, url, busy>>
    /\ UNCHANGED <<dialog, caret, jobs>>

\* signed_in: the dialog goes with success, and asks again after a refusal.
SignedIn ==
    /\ Answered("signin")
    /\ \/ Loaded(TRUE) /\ dialog' = "none" /\ pending' = FALSE /\ caret' = "none"
       \/ /\ Failed
          /\ caret' = IF dialog # "none" THEN "Password" ELSE "none"
          /\ UNCHANGED <<dialog, pending>>
    /\ UNCHANGED <<polling, polls>>

\* Mutant: a failed removal leaves the form working.
RemovedStuck ==
    /\ Answered("remove")
    /\ \/ Loaded(FALSE) /\ pending' = FALSE
       \/ UNCHANGED <<connection, url, busy, pending>>
    /\ UNCHANGED <<polling, dialog, caret, polls>>

Removed ==
    /\ Answered("remove")
    /\ \/ Loaded(FALSE) /\ pending' = FALSE
       \/ Failed /\ UNCHANGED pending
    /\ UNCHANGED <<polling, dialog, caret, polls>>

Next ==
    \/ RefreshPressed \/ UrlChanged \/ ConnectPressed \/ RemovePressed
    \/ SignInOpened \/ SignInClosed \/ CredentialsTyped \/ SignInPressed \/ UsernameSubmitted
    \/ \E f \in {"Url"} \cup Credentials : FieldFocused(f)
    \/ CaretGivenUp
    \/ LoadAnswered \/ LinkStarted \/ LinkPolled \/ SignedIn \/ Removed

Spec == Init /\ [][Next]_vars

\* Every request is answered or given up on, and a code does not wait for ever.
Fairness ==
    /\ WF_vars(LoadAnswered) /\ WF_vars(LinkStarted) /\ WF_vars(LinkPolled)
    /\ WF_vars(SignedIn) /\ WF_vars(Removed)

FairSpec == Spec /\ Fairness

------------------------------------------------------------------------------
(* Properties *)

\* A form that says it is working has a request out that will end it, whichever
\* answers came meanwhile (Form::busy locks every button of the form).
BusyIsAnswered == busy => \E k \in Kinds : jobs[k] > 0

\* A code on screen is being polled for, and a form locked by its poll chain has
\* one: otherwise Connect, Remove and the address would be locked for good.
CodeIsWatched == (pending => polling) /\ (polling => polls > 0)

\* The caret is never left in a dialog that is gone, which would hand the pad to
\* a keyboard nothing is typing into (Form::update, Effect::ReleaseTextEntry).
CaretIsDrawn == caret \in Credentials => dialog # "none"

\* "A poll chain is alive; a second Connect must not start another."
OnePollChain == polls <= 1

\* The form is unlocked again after every request.
BusyEnds == busy ~> ~busy

\* The form is never stuck: what it waits for is under way, the code it shows is
\* watched, and the caret is in a field it draws.
FormIsLive == BusyIsAnswered /\ CodeIsWatched /\ CaretIsDrawn
===============================================================================
