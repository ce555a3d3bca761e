----------------------------- MODULE InputBroker -----------------------------
(***************************************************************************)
(* The input broker: it opens controllers, decides who owns them, grabs    *)
(* them for an overlay that captures them, and sends what they emit to the *)
(* connected clients.  One task owns all of it and runs one event to its   *)
(* end; connection tasks, the focus monitor, the bridge's datagrams, the   *)
(* keyboard process and the devices themselves change under its feet.      *)
(***************************************************************************)
EXTENDS InputSignals, Naturals, Sequences, FiniteSets

CONSTANTS Conns,        \* connections, each made once
          Pads,         \* controllers that may be plugged in
          None,
          Slots,        \* connection tasks allowed at a time (8 in the code)
          Burst         \* bound on the signals of one poll

\* The deliveries each role may ask for (Hello::valid).
Hellos == ({"Frontend"} \X {"Observe", "Handoff", "Frontend", "TextEntry"})
              \cup ({"Overlay"} \X {"Observe", "Overlay"})
Role(h) == h[1]
Delivery(h) == h[2]

ASSUME BrokerAssumption ==
    /\ None \notin Conns \cup Hellos
    /\ Slots \in Nat /\ Burst \in Nat

VARIABLES conn,         \* each connection task: unused, greeting, opening, open, gone
          hello,        \* what it asked for
          ended,        \* tasks that have ended; their Closed is on its way
          clients,      \* Broker::clients
          plugged,      \* devices that exist
          pads,         \* devices the broker has open
          grabbed,      \* of these, the ones it has grabbed
          armed,        \* Ownership: pads that have been neutral
          owner,        \* Ownership::owner
          mapper,       \* Mapper::active
          capture,      \* the capturing client, or None
          keyboard,     \* the keyboard process: closed, open, exited
          desktop,      \* the session's mode: desktop profile
          osk,          \*                     game keyboard allowed
          focus,        \* the session has focus and its context is fresh
          signals       \* signals of the present poll still to be delivered

vars == <<conn, hello, ended, clients, plugged, pads, grabbed, armed, owner, mapper, capture,
          keyboard, desktop, osk, focus, signals>>

connVars == <<conn, hello, ended>>
sessionVars == <<desktop, osk, focus>>

TypeOK ==
    /\ conn \in [Conns -> {"unused", "greeting", "opening", "open", "gone"}]
    /\ hello \in [Conns -> Hellos \cup {None}]
    /\ ended \subseteq Conns /\ clients \subseteq Conns
    /\ plugged \subseteq Pads /\ pads \subseteq Pads
    /\ grabbed \subseteq Pads /\ armed \subseteq Pads
    /\ owner \in Owners
    /\ mapper \in BOOLEAN
    /\ capture \in Conns \cup {None}
    /\ keyboard \in {"closed", "open", "exited"}
    /\ {desktop, osk, focus} \subseteq BOOLEAN
    /\ signals \in Seq({"ToggleOverlay", "GameKeyboard", "action"})

Init ==
    /\ conn = [c \in Conns |-> "unused"]
    /\ hello = [c \in Conns |-> None]
    /\ ended = {} /\ clients = {}
    /\ plugged = {} /\ pads = {} /\ grabbed = {} /\ armed = {}
    /\ owner = "Observe"
    /\ mapper = FALSE
    /\ capture = None
    /\ keyboard = "closed"
    /\ desktop = FALSE /\ osk = FALSE /\ focus = FALSE
    /\ signals = <<>>

------------------------------------------------------------------------------
(* Who owns the controllers *)

Asking(c, role, deliveries) == Role(hello[c]) = role /\ Delivery(hello[c]) \in deliveries

\* Mutant: a launch handoff does not keep the mapping away.
OwnerWithoutHandoff(present, capturing) ==
    IF keyboard # "closed" THEN "Keyboard"
    ELSE IF capturing # None THEN "Overlay"
    ELSE IF \E c \in present : Asking(c, "Frontend", {"Frontend"}) THEN "Frontend"
    ELSE IF \E c \in present : Asking(c, "Frontend", {"TextEntry"}) THEN "TextEntry"
    ELSE IF desktop /\ focus THEN "Desktop"
    ELSE "Observe"

\* The owner that reconcile would choose for these clients and this capture.
OwnerWith(present, capturing) ==
    IF keyboard # "closed" THEN "Keyboard"
    ELSE IF capturing # None THEN "Overlay"
    ELSE IF \E c \in present : Asking(c, "Frontend", {"Frontend"}) THEN "Frontend"
    ELSE IF \E c \in present : Asking(c, "Frontend", {"TextEntry"}) THEN "TextEntry"
    ELSE IF \E c \in present : Asking(c, "Frontend", {"Handoff"}) THEN "Observe"
    ELSE IF desktop /\ focus THEN "Desktop"
    ELSE "Observe"

RightfulOwner == OwnerWith(clients, capture)

\* reconcile, at the end of a handler that leaves kept armed: a new owner
\* starts with every pad disarmed and no synthetic key down.
Reconcile(kept) ==
    /\ owner' = RightfulOwner'
    /\ armed' = IF owner' = owner THEN kept ELSE {}
    /\ mapper' = (owner' = "Desktop")

------------------------------------------------------------------------------
(* Connections *)

Tasks == {c \in Conns : conn[c] \in {"greeting", "opening", "open"}}

Accept(c) ==
    /\ conn[c] = "unused"
    /\ Cardinality(Tasks) < Slots
    /\ conn' = [conn EXCEPT ![c] = "greeting"]
    /\ UNCHANGED <<hello, ended, clients, plugged, pads, grabbed, armed, owner, mapper, capture,
                   keyboard, sessionVars, signals>>

\* The client has said hello; Open is in the broker's channel.
Greet(c, h) ==
    /\ conn[c] = "greeting" /\ c \notin ended
    /\ conn' = [conn EXCEPT ![c] = "opening"]
    /\ hello' = [hello EXCEPT ![c] = h]
    /\ UNCHANGED <<ended, clients, plugged, pads, grabbed, armed, owner, mapper, capture,
                   keyboard, sessionVars, signals>>

\* The peer hangs up, never greets, greets wrongly, or the broker dropped it.
End(c) ==
    /\ c \in Tasks \ ended
    /\ ended' = ended \cup {c}
    /\ UNCHANGED <<conn, hello, clients, plugged, pads, grabbed, armed, owner, mapper, capture,
                   keyboard, sessionVars, signals>>

\* disconnect, for a set of clients.
Dropped(gone) ==
    /\ clients' = clients \ gone
    /\ capture' = IF capture \in gone THEN None ELSE capture
    /\ grabbed' = IF capture \in gone THEN {} ELSE grabbed

SameRole(c) == {d \in clients : Role(hello[d]) = Role(hello[c])}

\* A client that asks for no capture.  Its predecessor is disconnected first,
\* which reconciles; sending Ready to a dead peer disconnects it again.
ConnectClient(c) ==
    LET left == clients \ SameRole(c)
        captured == IF capture \in SameRole(c) THEN None ELSE capture
        between == {OwnerWith(left \cup {c}, captured)}
                       \cup (IF SameRole(c) = {} THEN {} ELSE {OwnerWith(left, captured)})
    IN  /\ Delivery(hello[c]) # "Overlay"
        /\ capture' = captured
        /\ grabbed' = IF captured = None THEN {} ELSE grabbed
        /\ clients' \in {left \cup {c}, left}
        /\ Reconcile(IF between = {owner} THEN armed ELSE {})

\* Mutant: a pad that could not be grabbed does not stop the capture.
ConnectOverlayPartly(c) ==
    /\ Delivery(hello[c]) = "Overlay"
    /\ clients' = (clients \ SameRole(c)) \cup {c}
    /\ capture' = c
    /\ grabbed' \in SUBSET pads
    /\ Reconcile({})

\* An overlay that asks for capture suspends all pads.  It gets every pad or,
\* when a keyboard is up or a grab fails, none; it stays a client either way,
\* unless its answer cannot be sent.
ConnectOverlay(c) ==
    LET present == (clients \ SameRole(c)) \cup {c}
    IN  /\ Delivery(hello[c]) = "Overlay"
        /\ \/ /\ keyboard = "closed"
              /\ ~\E d \in present : Delivery(hello[d]) = "TextEntry"
              /\ clients' = present
              /\ capture' = c /\ grabbed' = pads
           \/ /\ clients' \in {present, present \ {c}}
              /\ capture' = None /\ grabbed' = {}
        /\ Reconcile({})

Connect(c) ==
    /\ conn[c] = "opening" /\ signals = <<>>
    /\ conn' = [conn EXCEPT ![c] = "open"]
    /\ UNCHANGED <<hello, ended, plugged, pads, keyboard, sessionVars, signals>>
    /\ ConnectClient(c) \/ ConnectOverlay(c)

\* Mutant: the end of a connection leaves its capture in place.
CloseCaptured(c) ==
    /\ c \in ended /\ conn[c] \in {"greeting", "open"} /\ signals = <<>>
    /\ conn' = [conn EXCEPT ![c] = "gone"]
    /\ clients' = IF capture = c THEN clients ELSE clients \ {c}
    /\ UNCHANGED <<capture, grabbed>>
    /\ UNCHANGED <<hello, ended, plugged, pads, keyboard, sessionVars, signals>>
    /\ Reconcile(armed)

\* Closed arrives, perhaps long after the client was replaced.
Close(c) ==
    /\ c \in ended /\ conn[c] \in {"greeting", "open"} /\ signals = <<>>
    /\ conn' = [conn EXCEPT ![c] = "gone"]
    /\ Dropped({c})
    /\ UNCHANGED <<hello, ended, plugged, pads, keyboard, sessionVars, signals>>
    /\ Reconcile(armed)

------------------------------------------------------------------------------
(* Devices *)

Plug(p) ==
    /\ plugged' = IF p \in plugged THEN plugged \ {p} ELSE plugged \cup {p}
    /\ UNCHANGED <<connVars, clients, pads, grabbed, armed, owner, mapper, capture, keyboard,
                   sessionVars, signals>>

\* New pads join a capture, or end it when one of them cannot be grabbed; the
\* capturer is told, and disconnected if that cannot be sent.
Scan ==
    /\ keyboard = "closed" /\ signals = <<>>
    /\ pads' = pads \cup plugged
    /\ UNCHANGED <<connVars, plugged, keyboard, sessionVars, signals>>
    /\ \/ /\ grabbed' = IF capture = None THEN grabbed ELSE grabbed \cup plugged
          /\ UNCHANGED <<clients, armed, owner, mapper, capture>>
       \/ /\ capture # None /\ ~(plugged \subseteq pads)
          /\ capture' = None /\ grabbed' = {}
          /\ clients' \in {clients, clients \ {capture}}
          /\ Reconcile(armed)

\* poll while the keyboard process is up, or has just ended: the descriptors
\* stay closed until then, and every pad found afterwards is disarmed.
PollKeyboard ==
    /\ keyboard # "closed" /\ signals = <<>>
    /\ keyboard' = IF keyboard = "exited" THEN "closed" ELSE keyboard
    /\ pads' = IF keyboard = "exited" THEN pads \cup plugged ELSE pads
    /\ UNCHANGED <<clients, capture, grabbed>>
    /\ UNCHANGED <<connVars, plugged, sessionVars, signals>>
    /\ Reconcile(armed)

\* What armed pads may emit in one poll, in any order.
Emitted(by) ==
    LET kinds == Producible(by) \ (IF osk /\ focus THEN {} ELSE {"GameKeyboard"})
    IN  UNION {[1..n -> kinds] : n \in 0..Burst}

\* poll: reconcile, read every pad, forget the ones that fail, arm the neutral.
Poll ==
    /\ keyboard = "closed" /\ signals = <<>>
    /\ owner' = RightfulOwner
    /\ mapper' = (owner' = "Desktop")
    /\ \E failed \in SUBSET pads :
        /\ pads \ plugged \subseteq failed
        /\ pads' = pads \ failed
        /\ grabbed' = grabbed \ failed
        /\ LET ready == IF owner' = owner THEN armed \ failed ELSE {}
           IN  /\ armed' \in {ready \cup neutral : neutral \in SUBSET pads'}
               /\ signals' \in IF ready = {} THEN {<<>>} ELSE Emitted(owner')
    /\ UNCHANGED <<connVars, clients, plugged, capture, keyboard, sessionVars>>

------------------------------------------------------------------------------
(* Delivering the signals of a poll *)

Recipients(kind) ==
    LET role == IF kind = "ToggleOverlay" \/ capture # None THEN "Overlay" ELSE "Frontend"
    IN  {c \in clients : Role(hello[c]) = role}

\* Mutant: what is left of the poll is delivered whoever owns the pads now.
RestAlways == signals' = Tail(signals)

\* A change of owner discards what is left of the poll.
Rest == signals' = IF owner' = owner THEN Tail(signals) ELSE <<>>

\* A recipient whose queue is full, or whose task is gone, is disconnected.
DeliverAction ==
    /\ signals # <<>> /\ Head(signals) # "GameKeyboard"
    /\ \E slow \in SUBSET Recipients(Head(signals)) : Dropped(slow)
    /\ UNCHANGED <<connVars, plugged, pads, keyboard, sessionVars>>
    /\ Reconcile(armed)
    /\ Rest

\* open_keyboard.  Without an adapter nothing has changed yet; one that does not
\* start leaves the pads closed until the next scan.  Every client is told, and
\* disconnected if that cannot be sent.
OpenKeyboard ==
    /\ signals # <<>> /\ Head(signals) = "GameKeyboard"
    /\ UNCHANGED <<connVars, plugged, sessionVars>>
    /\ \/ /\ keyboard' = "open"
          /\ pads' = {} /\ grabbed' = {} /\ capture' = None
          /\ UNCHANGED clients
          /\ Reconcile({})
       \/ /\ UNCHANGED <<keyboard, pads>>
          /\ \E slow \in SUBSET clients : Dropped(slow)
          /\ Reconcile(armed)
       \/ /\ UNCHANGED keyboard
          /\ pads' = {} /\ grabbed' = {} /\ capture' = None
          /\ clients' \in SUBSET clients
          /\ Reconcile({})
    /\ Rest

------------------------------------------------------------------------------
(* What the session, the compositor and the keyboard do *)

Session(d, o, f) ==
    /\ signals = <<>>
    /\ desktop' = d /\ osk' = o /\ focus' = f
    /\ UNCHANGED <<clients, capture, keyboard, hello>>
    /\ UNCHANGED <<conn, ended, plugged, pads, grabbed, signals>>
    /\ Reconcile(armed)

FocusChanges ==
    /\ signals = <<>>
    /\ focus' = ~focus
    /\ UNCHANGED <<clients, capture, keyboard, hello, desktop, osk>>
    /\ UNCHANGED <<conn, ended, plugged, pads, grabbed, signals>>
    /\ Reconcile(armed)

\* The context is five seconds old: nobody is told, the next poll finds out.
ContextExpires ==
    /\ focus /\ focus' = FALSE
    /\ UNCHANGED <<connVars, clients, plugged, pads, grabbed, armed, owner, mapper, capture,
                   keyboard, desktop, osk, signals>>

KeyboardExits ==
    /\ keyboard = "open" /\ keyboard' = "exited"
    /\ UNCHANGED <<connVars, clients, plugged, pads, grabbed, armed, owner, mapper, capture,
                   sessionVars, signals>>

\* A grab that cannot be undone ends the process: the kernel closes its
\* descriptors, the keyboard dies with it, and it starts over.
Restart ==
    /\ conn' = [c \in Conns |-> IF c \in Tasks THEN "gone" ELSE conn[c]]
    /\ ended' = ended \cup Tasks
    /\ clients' = {} /\ pads' = {} /\ grabbed' = {} /\ armed' = {}
    /\ owner' = "Observe" /\ mapper' = FALSE /\ capture' = None /\ keyboard' = "closed"
    /\ desktop' = FALSE /\ osk' = FALSE /\ focus' = FALSE
    /\ signals' = <<>>
    /\ UNCHANGED <<hello, plugged>>

Deliver == DeliverAction \/ OpenKeyboard

Next ==
    \/ \E c \in Conns : Accept(c) \/ End(c) \/ Connect(c) \/ Close(c) \/ \E h \in Hellos : Greet(c, h)
    \/ \E p \in Pads : Plug(p)
    \/ Scan \/ PollKeyboard \/ Poll \/ Deliver
    \/ \E d, o, f \in BOOLEAN : Session(d, o, f)
    \/ FocusChanges \/ ContextExpires \/ KeyboardExits
    \/ Restart

Spec == Init /\ [][Next]_vars

\* The select loop picks fairly among what is ready, and a poll runs to its end.
FairSpec == Spec /\ WF_vars(Deliver) /\ \A c \in Conns : SF_vars(Close(c))

------------------------------------------------------------------------------
(* What must hold *)

\* "Capture belongs to a connection": a captured controller means a registered
\* overlay that asked for it, and every open pad grabbed; without a capture no
\* pad stays grabbed, whoever was replaced, revoked or disconnected meanwhile.
CaptureIsWhole ==
    IF capture = None THEN grabbed = {}
    ELSE /\ capture \in clients
         /\ hello[capture] = <<"Overlay", "Overlay">>
         /\ grabbed = pads

\* "Keyboard and overlay capture are mutually exclusive", and the broker holds
\* no device open beside the keyboard that reads them.
KeyboardAlone ==
    keyboard # "closed" => capture = None /\ pads = {} /\ owner = "Keyboard"

\* "There is one live connection per role."
OneClientPerRole ==
    \A c, d \in clients : Role(hello[c]) = Role(hello[d]) => c = d

\* Synthetic keys are typed only into a desktop-profile session that owns the
\* controllers: never beside a launcher that navigates or hands off, an overlay
\* or a keyboard.
MappingYields ==
    mapper => /\ owner = "Desktop" /\ desktop
              /\ capture = None /\ keyboard = "closed"
              /\ \A c \in clients : Role(hello[c]) = "Frontend" => Delivery(hello[c]) = "Observe"

\* A signal is delivered to the owner it was produced for, or to nobody: the
\* capturing overlay, or the launcher in the mode it asked for.
ActionsReachOwner ==
    signals # <<>> =>
        /\ Head(signals) \in Producible(owner)
        /\ Head(signals) = "action" =>
             \A c \in Recipients("action") :
                 IF owner = "Overlay" THEN c = capture ELSE Delivery(hello[c]) = owner

\* An overlay that is gone does not keep the controllers.
CaptureIsReleased ==
    \A c \in Conns : (capture = c /\ c \in ended) ~> (capture # c)

\* Whoever captures has every controller, alone.
CaptureIsExclusive == CaptureIsWhole /\ KeyboardAlone /\ OneClientPerRole
==============================================================================
