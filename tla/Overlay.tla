------------------------------- MODULE Overlay -------------------------------
(***************************************************************************)
(* The quick-menu overlay: its menu, the stream of controller events it    *)
(* keeps open to the input broker, and the requests it has outstanding.    *)
(* Asking for the menu only asks the broker for the pads; the menu is      *)
(* shown when the broker answers, or, with an error, when it does not.     *)
(* Closing the application and logging out answer later, possibly to a     *)
(* menu that was dismissed and opened again in between.                    *)
(***************************************************************************)
EXTENDS Integers, Sequences

CONSTANTS MaxEvents,    \* bound: broker events sent and not yet handled
          MaxCloses,    \* bound: stop requests and hide timers outstanding
          MaxLogOuts    \* bound: log-outs outstanding

VARIABLES visible,      \* OverlayState::visible
          status,       \* OverlayState::status
          selected,     \* OverlayState::selected
          requested,    \* broker_requested, and so what the stream captures
          error,        \* broker_error is set
          link,         \* the stream: connecting, open, or waiting to retry
          delivery,     \* what its next or current Hello asks for
          events,       \* events the stream has sent
          closes,       \* stop_active_session calls running
          hides,        \* HideAfterClose timers running
          logouts       \* log_out calls running

menuVars == <<visible, status, selected>>
streamVars == <<link, delivery>>
jobVars == <<closes, hides, logouts>>
vars == <<menuVars, requested, error, streamVars, events, jobVars>>

Statuses == {"Menu", "Closing", "CloseFailed", "LoggingOut", "LogOutFailed"}
Actions == {"MoveUp", "MoveDown", "Confirm", "Back"}
BrokerEvents == {"Ready", "Failed", "ToggleOverlay"} \cup Actions

TypeOK ==
    /\ visible \in BOOLEAN /\ requested \in BOOLEAN /\ error \in BOOLEAN
    /\ status \in Statuses /\ selected \in 0 .. 2
    /\ link \in {"connecting", "open", "waiting"}
    /\ delivery \in {"Overlay", "Observe"}
    /\ events \in Seq(BrokerEvents)
    /\ closes \in Nat /\ hides \in Nat /\ logouts \in Nat

Init ==
    /\ visible = FALSE /\ status = "Menu" /\ selected = 0
    /\ requested = FALSE /\ error = FALSE
    /\ link = "connecting" /\ delivery = "Observe" /\ events = <<>>
    /\ closes = 0 /\ hides = 0 /\ logouts = 0

Busy == status \in {"Closing", "LoggingOut"}

ItemCount == IF status = "Menu" THEN 3 ELSE 2

\* The subscription is keyed by broker_requested: a change of it drops the
\* stream and starts one that asks for the other delivery.  What the old one
\* had sent stays sent.
Subscribed ==
    IF requested' = requested
    THEN UNCHANGED streamVars
    ELSE link' = "connecting" /\ delivery' = IF requested' THEN "Overlay" ELSE "Observe"

------------------------------------------------------------------------------
(* OverlayState::update with the effect it returns applied *)

Show ==
    /\ visible' = TRUE /\ status' = "Menu" /\ selected' = 0
    /\ UNCHANGED jobVars

\* Effect::Hide also gives the pads back.
Hide ==
    /\ visible' = FALSE
    /\ requested' = FALSE /\ error' = FALSE

\* Allowed while busy: what was committed keeps running.
Resume ==
    /\ Hide /\ status' = "Menu"
    /\ UNCHANGED <<selected, jobVars>>

Close ==
    /\ ~Busy /\ closes + hides < MaxCloses
    /\ status' = "Closing" /\ closes' = closes + 1
    /\ UNCHANGED <<visible, selected, requested, error, hides, logouts>>

LogOut ==
    /\ ~Busy /\ logouts < MaxLogOuts
    /\ status' = "LoggingOut" /\ logouts' = logouts + 1
    /\ UNCHANGED <<visible, selected, requested, error, closes, hides>>

\* Mutant: moving up from the first entry does not wrap around.
NavigateUnwrapped(event) ==
    /\ visible /\ ~Busy
    /\ selected' = IF event = "MoveUp" THEN selected - 1 ELSE (selected + 1) % ItemCount
    /\ UNCHANGED <<visible, status, requested, error, jobVars>>

Navigate(event) ==
    /\ visible /\ ~Busy
    /\ selected' = IF event = "MoveUp"
                   THEN (selected + ItemCount - 1) % ItemCount
                   ELSE (selected + 1) % ItemCount
    /\ UNCHANGED <<visible, status, requested, error, jobVars>>

Activate ==
    /\ visible /\ ~Busy
    /\ \/ <<status, selected>> \in {<<"Menu", 0>>, <<"CloseFailed", 1>>, <<"LogOutFailed", 1>>}
          /\ Resume
       \/ <<status, selected>> \in {<<"Menu", 1>>, <<"CloseFailed", 0>>} /\ Close
       \/ <<status, selected>> \in {<<"Menu", 2>>, <<"LogOutFailed", 0>>} /\ LogOut

Ignored == UNCHANGED <<menuVars, requested, error, jobVars>>

\* Message::ToggleOverlay: a hidden menu only asks for the pads, or stops asking.
ToggleOverlay ==
    \/ ~visible /\ requested' = ~requested /\ UNCHANGED <<menuVars, error, jobVars>>
    \/ visible /\ ~Busy /\ Hide /\ UNCHANGED <<status, selected, jobVars>>
    \/ visible /\ Busy /\ Ignored

------------------------------------------------------------------------------
(* Broker::broker_input, one event of the stream *)

Ready ==
    IF requested /\ ~visible THEN error' = FALSE /\ Show /\ UNCHANGED requested ELSE Ignored

\* Mutant: a failed broker never shows the menu that waits for it.
FailedSilently ==
    /\ requested' = requested /\ error' = TRUE
    /\ UNCHANGED <<menuVars, jobVars>>

\* The menu that was asked for is shown all the same, with the error.
Failed ==
    /\ requested' = FALSE /\ error' = TRUE
    /\ IF requested /\ ~visible THEN Show ELSE UNCHANGED <<menuVars, jobVars>>

\* Actions are the menu's only while it has the pads.
Pressed(action) ==
    IF ~requested \/ error THEN Ignored
    ELSE \/ action \in {"MoveUp", "MoveDown"}
            /\ IF visible /\ ~Busy THEN Navigate(action) ELSE Ignored
         \/ action = "Confirm" /\ IF visible /\ ~Busy THEN Activate ELSE Ignored
         \/ action = "Back" /\ Resume

BrokerInput ==
    /\ events # <<>> /\ events' = Tail(events)
    /\ \/ Head(events) = "Ready" /\ Ready
       \/ Head(events) = "Failed" /\ Failed
       \/ Head(events) = "ToggleOverlay" /\ ToggleOverlay
       \/ Head(events) \in Actions /\ Pressed(Head(events))
    /\ Subscribed

------------------------------------------------------------------------------
(* The rest of Overlay::update *)

\* The control socket's toggle.
Toggled == ToggleOverlay /\ Subscribed /\ UNCHANGED events

\* The buttons drawn send their message whatever is selected: the only one of
\* an error dismisses it, and a busy menu without an error has none.
ButtonPressed ==
    /\ visible
    /\ \/ (error \/ ~Busy) /\ Resume
       \/ ~error /\ status \in {"Menu", "CloseFailed"} /\ Close
       \/ ~error /\ status \in {"Menu", "LogOutFailed"} /\ LogOut
    /\ Subscribed /\ UNCHANGED events

\* Message::CloseFinished: stopped, and the timer that hides the menu starts.
CloseSucceeded ==
    /\ closes > 0 /\ closes' = closes - 1 /\ hides' = hides + 1
    /\ UNCHANGED <<menuVars, requested, error, streamVars, events, logouts>>

\* Mutant: the retry menu opens on whatever was selected.
CloseFailedInPlace ==
    /\ closes > 0 /\ closes' = closes - 1
    /\ status' = "CloseFailed"
    /\ UNCHANGED <<visible, selected, requested, error, streamVars, events, hides, logouts>>

CloseFailed ==
    /\ closes > 0 /\ closes' = closes - 1
    /\ status' = "CloseFailed" /\ selected' = 0
    /\ UNCHANGED <<visible, requested, error, streamVars, events, hides, logouts>>

HideAfterClose ==
    /\ hides > 0 /\ hides' = hides - 1
    /\ Hide /\ status' = "Menu"
    /\ Subscribed /\ UNCHANGED <<selected, events, closes, logouts>>

LogOutFinished ==
    /\ logouts > 0 /\ logouts' = logouts - 1
    /\ \/ Hide /\ status' = "Menu" /\ UNCHANGED selected
       \/ status' = "LogOutFailed" /\ selected' = 0 /\ UNCHANGED <<visible, requested, error>>
    /\ Subscribed /\ UNCHANGED <<events, closes, hides>>

------------------------------------------------------------------------------
(* The stream: connect, forward, fall back to observing after a failure *)

Send(event) == Len(events) < MaxEvents /\ events' = Append(events, event)

\* A capture the broker refuses is answered over a connection that stays open.
StreamConnects ==
    /\ link = "connecting" /\ link' = "open"
    /\ Send("Ready") \/ (delivery = "Overlay" /\ Send("Failed"))
    /\ UNCHANGED <<menuVars, requested, error, delivery, jobVars>>

\* The connection is refused or lost.
StreamFails ==
    /\ link \in {"connecting", "open"} /\ link' = "waiting" /\ delivery' = "Observe"
    /\ Send("Failed")
    /\ UNCHANGED <<menuVars, requested, error, jobVars>>

StreamRetries ==
    /\ link = "waiting" /\ link' = "connecting"
    /\ UNCHANGED <<menuVars, requested, error, delivery, events, jobVars>>

\* The broker sends the actions of captured pads; the toggle, and the news that a
\* capture was revoked or a keyboard did not start, to anyone.
StreamForwards ==
    /\ link = "open"
    /\ \E event \in {"ToggleOverlay", "Failed"} \cup IF delivery = "Overlay" THEN Actions ELSE {} :
          Send(event)
    /\ UNCHANGED <<menuVars, requested, error, streamVars, jobVars>>

Next ==
    \/ BrokerInput \/ Toggled \/ ButtonPressed
    \/ CloseSucceeded \/ CloseFailed \/ HideAfterClose \/ LogOutFinished
    \/ StreamConnects \/ StreamFails \/ StreamRetries \/ StreamForwards

Spec == Init /\ [][Next]_vars

(* Calls and timers end, and the stream's task runs. *)
Fairness ==
    /\ WF_vars(BrokerInput) /\ WF_vars(StreamConnects \/ StreamFails) /\ WF_vars(StreamRetries)
    /\ WF_vars(CloseSucceeded \/ CloseFailed) /\ WF_vars(HideAfterClose) /\ WF_vars(LogOutFinished)

FairSpec == Spec /\ Fairness

------------------------------------------------------------------------------
(* Properties *)

FailureQueued == \E i \in 1 .. Len(events) : events[i] = "Failed"

\* A menu on screen says that it has no pads, or it has a stream that asks for
\* them, or that asked and failed with the news still queued: none is left up
\* with nobody asking (Overlay::broker_input and Effect::Hide).  It may be up before
\* the pads are captured: a Ready that the observing stream had sent before the
\* menu was asked for shows it as well as the one that answers the capture.
ShownWithReason == visible => error \/ (requested /\ (delivery = "Overlay" \/ FailureQueued))

\* A menu that says it is closing or logging out is on screen and its answer is
\* still to come, whatever was dismissed and reopened meanwhile (Status::busy:
\* nothing else than the answer leaves it).
WorkIsAnswered ==
    /\ Busy => visible
    /\ status = "Closing" => closes + hides > 0
    /\ status = "LoggingOut" => logouts > 0

\* The highlighted entry is one of the entries drawn, also after an answer
\* replaced the menu under it (OverlayState::selected, Status::item_count).
SelectionFits == ~Busy => selected < ItemCount

\* A capture is only asked for while the menu wants the pads: a stream that
\* failed retries as an observer (broker_input.rs, "delivery = Delivery::Observe").
CaptureIsWanted == delivery = "Overlay" => requested

\* Asking for the menu is answered: it is shown and gets the pads, if not both at
\* once, or the wish ends, with an error on screen when the broker is away.
RequestIsAnswered ==
    requested ~> ~requested \/ (visible /\ delivery = "Overlay" /\ link = "open" /\ ~FailureQueued)

\* A close or a log-out never holds the menu for good.
WorkEnds == Busy ~> ~Busy

\* The menu shows nothing it cannot back: without an error the pads are asked for,
\* though not yet captured perhaps, what it waits for is under way, its highlight is
\* on an entry that is drawn, and no capture outlives the wish for it.
MenuIsHonest == ShownWithReason /\ WorkIsAnswered /\ SelectionFits /\ CaptureIsWanted

\* Whatever the user asked the menu for is answered in the end, the pads included.
MenuResponds == RequestIsAnswered /\ WorkEnds
==============================================================================
