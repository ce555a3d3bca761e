-------------------------- MODULE InputBrokerProofs --------------------------
(***************************************************************************)
(* Proofs about InputBroker for any connections, pads and bursts.  The     *)
(* inductive invariant says which clients are registered (Registered),     *)
(* what the owner follows from (OwnerFits), and that the signals of a poll *)
(* are the owner's (SignalsFit).                                           *)
(***************************************************************************)
EXTENDS InputBroker, SequenceTheorems, TLAPS

\* Zenon is the default; the leaves that need arithmetic or records name SMT.
USE Zenon

Launcher(c) == Role(hello[c]) = "Frontend"

\* A client, or a connection about to become one, has said hello.
Registered ==
    /\ \A c \in Conns : conn[c] \in {"opening", "open"} => hello[c] \in Hellos
    /\ \A c \in clients : conn[c] = "open"

\* The owner follows from keyboard, capture and launcher; only the focus of a
\* desktop session may have been lost since.
OwnerFits ==
    /\ keyboard # "closed" <=> owner = "Keyboard"
    /\ keyboard = "closed" => (capture # None <=> owner = "Overlay")
    /\ owner = "Desktop" =>
         desktop /\ \A c \in clients : Launcher(c) => Delivery(hello[c]) = "Observe"
    /\ owner \in {"Frontend", "TextEntry"} =>
         \E c \in clients : Asking(c, "Frontend", {owner})
    /\ mapper = (owner = "Desktop")

SignalsFit == signals \in Seq(Producible(owner))

CaptureInv == CaptureIsWhole /\ OneClientPerRole /\ (keyboard # "closed" => capture = None /\ pads = {})

BrokerInv == TypeOK /\ Registered /\ CaptureInv /\ OwnerFits /\ SignalsFit

\* What each kind of hello says of its role and delivery.
LEMMA HelloFacts ==
    /\ \A h \in Hellos : Role(h) \in {"Frontend", "Overlay"}
    /\ \A h \in Hellos : Delivery(h) = "Overlay" => h = <<"Overlay", "Overlay">>
    /\ \A h \in Hellos : Role(h) = "Frontend" =>
          Delivery(h) \in {"Observe", "Handoff", "Frontend", "TextEntry"}
BY SMT DEF Hellos, Role, Delivery

\* reconcile restores OwnerFits.
LEMMA ReconcileFits ==
    ASSUME Registered', clients' \subseteq Conns,
           owner' = RightfulOwner', mapper' = (owner' = "Desktop")
    PROVE  OwnerFits' /\ owner' \in Owners /\ mapper' \in BOOLEAN
<1>1. owner' \in Owners /\ mapper' \in BOOLEAN
  BY DEF RightfulOwner, OwnerWith, Owners
<1>2. \A c \in clients' : Launcher(c)' =>
          (Delivery(hello[c]) \in {"Observe", "Handoff", "Frontend", "TextEntry"})'
  BY HelloFacts DEF Registered, Launcher
<1>3. OwnerFits'
  BY <1>2 DEF RightfulOwner, OwnerWith, OwnerFits, Launcher, Asking
<1> QED
  BY <1>1, <1>3

\* What a poll emits is a sequence of what its owner may be given.
LEMMA EmittedFits ==
    ASSUME NEW by \in Owners, NEW s \in Emitted(by)
    PROVE  s \in Seq(Producible(by))
<1> DEFINE kinds == Producible(by) \ (IF osk /\ focus THEN {} ELSE {"GameKeyboard"})
<1>1. PICK n \in 0..Burst : s \in [1..n -> kinds]
  BY DEF Emitted
<1>2. n \in Nat /\ s = [i \in 1..n |-> s[i]] /\ \A i \in 1..n : s[i] \in Producible(by)
  BY SMT, <1>1, BrokerAssumption
<1> QED
  BY SMT, <1>2

\* Disconnecting any clients keeps the capture whole.
LEMMA DroppedKeeps ==
    ASSUME BrokerInv, NEW gone \in SUBSET Conns, Dropped(gone),
           hello' = hello, pads' = pads, keyboard' = keyboard
    PROVE  CaptureInv' /\ clients' \subseteq clients /\ capture' \in Conns \cup {None}
BY BrokerAssumption DEF BrokerInv, TypeOK, CaptureInv, CaptureIsWhole, OneClientPerRole, Dropped

\* Every signal an owner may be given is a signal.
LEMMA SignalsType ==
    ASSUME NEW by \in Owners, NEW s \in Seq(Producible(by))
    PROVE  s \in Seq({"ToggleOverlay", "GameKeyboard", "action"})
<1>1. Producible(by) \subseteq {"ToggleOverlay", "GameKeyboard", "action"}
  BY DEF Producible, Owners
<1> QED
  BY SMT, <1>1

\* After a delivery the rest still belongs to the owner, or is given up.
LEMMA RestFits ==
    ASSUME SignalsFit, signals # <<>>, Rest
    PROVE  SignalsFit'
<1>1. Tail(signals) \in Seq(Producible(owner)) /\ <<>> \in Seq(Producible(owner'))
  BY SMT, HeadTailProperties DEF SignalsFit
<1> QED
  BY <1>1 DEF Rest, SignalsFit

\* However opening the keyboard ends, a whole capture gives a sound broker.
LEMMA KeyboardTail ==
    ASSUME BrokerInv, signals # <<>>, Rest,
           UNCHANGED <<conn, hello, ended, plugged, desktop, osk, focus>>,
           NEW kept \in {armed, {}}, Reconcile(kept),
           CaptureInv', clients' \subseteq clients, capture' \in Conns \cup {None},
           grabbed' \subseteq Pads, pads' \subseteq Pads, keyboard' \in {"closed", "open"}
    PROVE  BrokerInv'
<1>1. Registered' /\ clients' \subseteq Conns
  BY DEF BrokerInv, Registered, TypeOK
<1>2. OwnerFits' /\ owner' \in Owners /\ mapper' \in BOOLEAN
  BY <1>1, ReconcileFits DEF Reconcile
<1>3. SignalsFit'
  BY RestFits DEF BrokerInv
<1>4. armed' \subseteq Pads
  BY DEF Reconcile, BrokerInv, TypeOK
<1>5. TypeOK'
  BY <1>1, <1>2, <1>3, <1>4, SignalsType DEF BrokerInv, TypeOK, SignalsFit
<1> QED
  BY <1>1, <1>2, <1>3, <1>5 DEF BrokerInv

\* Every step of the broker or of its surroundings preserves the invariant.
LEMMA BrokerStep ==
    ASSUME BrokerInv, [Next]_vars
    PROVE  BrokerInv'
<1> USE DEF BrokerInv
<1>e. <<>> \in Seq(Producible(owner'))
  BY SMT
<1>1. ASSUME NEW c \in Conns, NEW h \in Hellos, Accept(c) \/ End(c) \/ Greet(c, h)
      PROVE  BrokerInv'
  <2>1. TypeOK'
    BY <1>1 DEF Accept, End, Greet, TypeOK, sessionVars, Tasks
  <2>2. Registered'
    BY <1>1 DEF Accept, End, Greet, Registered, TypeOK
  <2>3. \A d \in clients : hello'[d] = hello[d]
    BY <1>1 DEF Accept, End, Greet, Registered, TypeOK
  <2>4. CaptureInv'
    BY <1>1, <2>3 DEF Accept, End, Greet, CaptureInv, CaptureIsWhole, OneClientPerRole
  <2>5. OwnerFits' /\ SignalsFit'
    BY <1>1, <2>3 DEF Accept, End, Greet, OwnerFits, SignalsFit, Launcher, Asking, sessionVars
  <2> QED
    BY <2>1, <2>2, <2>4, <2>5
<1>2. ASSUME NEW c \in Conns, Connect(c)
      PROVE  BrokerInv'
  <2> DEFINE present == (clients \ SameRole(c)) \cup {c}
  <2>1. /\ conn[c] = "opening" /\ signals = <<>> /\ signals' = <<>>
        /\ conn' = [conn EXCEPT ![c] = "open"]
        /\ UNCHANGED <<hello, ended, plugged, pads, keyboard, desktop, osk, focus>>
    BY <1>2 DEF Connect, sessionVars
  <2>2. c \notin clients /\ hello[c] \in Hellos
    BY <2>1 DEF Registered
  <2>3. \A d, e \in present : Role(hello[d]) = Role(hello[e]) => d = e
    BY <2>2 DEF SameRole, CaptureInv, OneClientPerRole
  <2>4. CASE ConnectClient(c)
    <3> DEFINE captured == IF capture \in SameRole(c) THEN None ELSE capture
    <3>1. /\ clients' \subseteq present
          /\ capture' = captured
          /\ grabbed' = IF captured = None THEN {} ELSE grabbed
          /\ captured # None => capture \in clients'
      BY <2>4 DEF ConnectClient, CaptureInv, CaptureIsWhole
    <3>2. CaptureInv'
      BY <2>1, <2>3, <3>1 DEF CaptureInv, CaptureIsWhole, OneClientPerRole
    <3>3. PICK kept \in {armed, {}} : Reconcile(kept)
      BY <2>4 DEF ConnectClient
    <3>4. clients' \subseteq Conns /\ Registered'
      BY <2>1, <2>2, <3>1 DEF Registered, TypeOK
    <3>5. OwnerFits' /\ owner' \in Owners /\ mapper' \in BOOLEAN
      BY <3>3, <3>4, ReconcileFits DEF Reconcile
    <3>6. armed' \subseteq Pads /\ grabbed' \subseteq Pads /\ capture' \in Conns \cup {None}
      BY <3>1, <3>3 DEF Reconcile, TypeOK
    <3>7. TypeOK'
      BY <2>1, <3>4, <3>5, <3>6 DEF TypeOK
    <3> QED
      BY <2>1, <3>2, <3>4, <3>5, <3>7, <1>e DEF SignalsFit
  <2>5. CASE ConnectOverlay(c)
    <3>1. hello[c] = <<"Overlay", "Overlay">>
      BY <2>2, <2>5, HelloFacts DEF ConnectOverlay
    <3>2. /\ clients' \subseteq present
          /\ \/ capture' = c /\ grabbed' = pads /\ keyboard = "closed" /\ c \in clients'
             \/ capture' = None /\ grabbed' = {}
          /\ Reconcile({})
      BY <2>5 DEF ConnectOverlay
    <3>3. CaptureInv'
      BY <2>1, <2>3, <3>1, <3>2, BrokerAssumption
      DEF CaptureInv, CaptureIsWhole, OneClientPerRole
    <3>4. clients' \subseteq Conns /\ Registered'
      BY <2>1, <2>2, <3>2 DEF Registered, TypeOK
    <3>5. OwnerFits' /\ owner' \in Owners /\ mapper' \in BOOLEAN
      BY <3>2, <3>4, ReconcileFits DEF Reconcile
    <3>6. armed' \subseteq Pads /\ grabbed' \subseteq Pads /\ capture' \in Conns \cup {None}
      BY <3>2 DEF Reconcile, TypeOK
    <3>7. TypeOK'
      BY <2>1, <3>4, <3>5, <3>6 DEF TypeOK
    <3> QED
      BY <2>1, <3>3, <3>4, <3>5, <3>7, <1>e DEF SignalsFit
  <2> QED
    BY <1>2, <2>4, <2>5 DEF Connect
<1>3. ASSUME NEW c \in Conns, Close(c)
      PROVE  BrokerInv'
  <2>1. /\ signals = <<>> /\ signals' = <<>>
        /\ conn' = [conn EXCEPT ![c] = "gone"]
        /\ Dropped({c}) /\ Reconcile(armed)
        /\ UNCHANGED <<hello, ended, plugged, pads, keyboard, desktop, osk, focus>>
    BY <1>3 DEF Close, sessionVars
  <2>2. CaptureInv' /\ clients' \subseteq clients /\ capture' \in Conns \cup {None}
    BY <2>1, DroppedKeeps
  <2>3. Registered' /\ clients' \subseteq Conns
    BY <2>1, <2>2 DEF Registered, Dropped, TypeOK
  <2>4. OwnerFits' /\ owner' \in Owners /\ mapper' \in BOOLEAN
    BY <2>1, <2>3, ReconcileFits DEF Reconcile
  <2>5. armed' \subseteq Pads /\ grabbed' \subseteq Pads
    BY <2>1 DEF Reconcile, Dropped, TypeOK
  <2>6. TypeOK'
    BY <2>1, <2>2, <2>3, <2>4, <2>5 DEF TypeOK
  <2> QED
    BY <2>1, <2>2, <2>3, <2>4, <2>6, <1>e DEF SignalsFit
<1>4. ASSUME NEW p \in Pads, Plug(p)
      PROVE  BrokerInv'
  BY <1>4
     DEF Plug, TypeOK, Registered, CaptureInv, CaptureIsWhole, OneClientPerRole, OwnerFits,
         SignalsFit, Launcher, Asking, connVars, sessionVars
<1>5. CASE Scan
  <2>1. /\ signals = <<>> /\ signals' = <<>> /\ keyboard = "closed"
        /\ pads' = pads \cup plugged
        /\ UNCHANGED <<conn, hello, ended, plugged, keyboard, desktop, osk, focus>>
    BY <1>5 DEF Scan, connVars, sessionVars
  <2>2. CASE /\ grabbed' = IF capture = None THEN grabbed ELSE grabbed \cup plugged
             /\ UNCHANGED <<clients, armed, owner, mapper, capture>>
    <3>1. TypeOK'
      BY <2>1, <2>2 DEF TypeOK
    <3>2. Registered' /\ OwnerFits'
      BY <2>1, <2>2 DEF Registered, OwnerFits, Launcher, Asking
    <3>3. CaptureInv'
      BY <2>1, <2>2 DEF CaptureInv, CaptureIsWhole, OneClientPerRole
    <3> QED
      BY <2>1, <3>1, <3>2, <3>3, <1>e DEF SignalsFit
  <2>3. CASE /\ capture' = None /\ grabbed' = {}
             /\ clients' \in {clients, clients \ {capture}}
             /\ Reconcile(armed)
    <3>1. CaptureInv'
      BY <2>1, <2>3 DEF CaptureInv, CaptureIsWhole, OneClientPerRole
    <3>2. Registered' /\ clients' \subseteq Conns
      BY <2>1, <2>3 DEF Registered, TypeOK
    <3>3. OwnerFits' /\ owner' \in Owners /\ mapper' \in BOOLEAN
      BY <2>3, <3>2, ReconcileFits DEF Reconcile
    <3>4. TypeOK'
      BY <2>1, <2>3, <3>2, <3>3 DEF TypeOK, Reconcile
    <3> QED
      BY <2>1, <3>1, <3>2, <3>3, <3>4, <1>e DEF SignalsFit
  <2> QED
    BY <1>5, <2>2, <2>3 DEF Scan
<1>6. CASE PollKeyboard
  <2>1. /\ signals = <<>> /\ signals' = <<>>
        /\ keyboard' \in {"closed", "open"}
        /\ keyboard' # "closed" => pads' = pads /\ keyboard # "closed"
        /\ pads' \subseteq Pads /\ keyboard # "closed"
        /\ Reconcile(armed)
        /\ UNCHANGED <<conn, hello, ended, plugged, clients, capture, grabbed, desktop, osk, focus>>
    BY <1>6 DEF PollKeyboard, connVars, sessionVars, TypeOK
  <2>2. CaptureInv' /\ Registered' /\ clients' \subseteq Conns
    BY <2>1 DEF CaptureInv, CaptureIsWhole, OneClientPerRole, Registered, TypeOK
  <2>3. OwnerFits' /\ owner' \in Owners /\ mapper' \in BOOLEAN
    BY <2>1, <2>2, ReconcileFits DEF Reconcile
  <2>4. TypeOK'
    BY <2>1, <2>2, <2>3 DEF TypeOK, Reconcile
  <2> QED
    BY <2>1, <2>2, <2>3, <2>4, <1>e DEF SignalsFit
<1>7. CASE Poll
  <2>1. PICK failed \in SUBSET pads :
        /\ pads' = pads \ failed
        /\ grabbed' = grabbed \ failed
        /\ LET ready == IF owner' = owner THEN armed \ failed ELSE {}
           IN  /\ armed' \in {ready \cup neutral : neutral \in SUBSET pads'}
               /\ signals' \in IF ready = {} THEN {<<>>} ELSE Emitted(owner')
    BY <1>7 DEF Poll
  <2>2. /\ keyboard = "closed"
        /\ owner' = RightfulOwner
        /\ mapper' = (owner' = "Desktop")
        /\ UNCHANGED <<conn, hello, ended, clients, plugged, capture, keyboard, desktop, osk, focus>>
    BY <1>7 DEF Poll, connVars, sessionVars
  <2>3. CaptureInv' /\ Registered' /\ clients' \subseteq Conns
    BY <2>1, <2>2 DEF CaptureInv, CaptureIsWhole, OneClientPerRole, Registered, TypeOK
  <2>4. owner' = RightfulOwner'
    BY <2>2 DEF RightfulOwner, OwnerWith, Asking
  <2>5. OwnerFits' /\ owner' \in Owners /\ mapper' \in BOOLEAN
    BY <2>2, <2>3, <2>4, ReconcileFits
  <2>6. SignalsFit'
    <3>1. signals' = <<>> \/ signals' \in Emitted(owner')
      BY <2>1
    <3> QED
      BY <3>1, <2>5, <1>e, EmittedFits DEF SignalsFit
  <2>7. TypeOK'
    <3>1. pads' \subseteq Pads /\ grabbed' \subseteq Pads /\ armed' \subseteq Pads
      BY <2>1 DEF TypeOK
    <3> QED
      BY <2>2, <2>3, <2>5, <2>6, <3>1, SignalsType DEF TypeOK, SignalsFit
  <2> QED
    BY <2>3, <2>5, <2>6, <2>7
<1>8. CASE DeliverAction
  <2>1. PICK slow \in SUBSET Recipients(Head(signals)) : Dropped(slow)
    BY <1>8 DEF DeliverAction
  <2>2. /\ signals # <<>> /\ Reconcile(armed) /\ Rest
        /\ UNCHANGED <<conn, hello, ended, plugged, pads, keyboard, desktop, osk, focus>>
    BY <1>8 DEF DeliverAction, connVars, sessionVars
  <2>3. slow \in SUBSET Conns
    BY <2>1 DEF Recipients, TypeOK
  <2>4. CaptureInv' /\ clients' \subseteq clients /\ capture' \in Conns \cup {None}
    BY <2>1, <2>2, <2>3, DroppedKeeps
  <2>5. Registered' /\ clients' \subseteq Conns
    BY <2>2, <2>4 DEF Registered, TypeOK
  <2>6. OwnerFits' /\ owner' \in Owners /\ mapper' \in BOOLEAN
    BY <2>2, <2>5, ReconcileFits DEF Reconcile
  <2>7. SignalsFit'
    BY <2>2, RestFits
  <2>8. TypeOK'
    <3>1. grabbed' \subseteq Pads /\ armed' \subseteq Pads
      BY <2>1, <2>2 DEF Dropped, Reconcile, TypeOK
    <3> QED
      BY <2>2, <2>4, <2>5, <2>6, <2>7, <3>1, SignalsType DEF TypeOK, SignalsFit
  <2> QED
    BY <2>4, <2>5, <2>6, <2>7, <2>8
<1>9. CASE OpenKeyboard
  <2>1. /\ signals # <<>> /\ Head(signals) = "GameKeyboard" /\ Rest
        /\ UNCHANGED <<conn, hello, ended, plugged, desktop, osk, focus>>
    BY <1>9 DEF OpenKeyboard, connVars, sessionVars
  <2>2. PICK kept \in {armed, {}} : Reconcile(kept)
    BY <1>9 DEF OpenKeyboard
  <2>3. keyboard = "closed"
    BY SMT, <2>1, HeadTailProperties DEF SignalsFit, Producible, OwnerFits
  <2>4. CASE UNCHANGED <<keyboard, pads>> /\ \E slow \in SUBSET clients : Dropped(slow)
    <3>1. PICK slow \in SUBSET clients : Dropped(slow)
      BY <2>4
    <3>2. slow \in SUBSET Conns
      BY DEF TypeOK
    <3>3. CaptureInv' /\ clients' \subseteq clients /\ capture' \in Conns \cup {None}
      BY <2>1, <2>4, <3>1, <3>2, DroppedKeeps
    <3>4. grabbed' \subseteq Pads /\ pads' \subseteq Pads /\ keyboard' \in {"closed", "open"}
      BY <2>3, <2>4, <3>1 DEF Dropped, TypeOK
    <3> QED
      BY <2>1, <2>2, <3>3, <3>4, KeyboardTail
  <2>5. CASE /\ pads' = {} /\ grabbed' = {} /\ capture' = None
             /\ keyboard' \in {"open", "closed"} /\ clients' \in SUBSET clients
    <3>1. CaptureInv' /\ clients' \subseteq clients /\ capture' \in Conns \cup {None}
      BY <2>1, <2>5 DEF CaptureInv, CaptureIsWhole, OneClientPerRole
    <3>2. grabbed' \subseteq Pads /\ pads' \subseteq Pads /\ keyboard' \in {"closed", "open"}
      BY <2>5
    <3> QED
      BY <2>1, <2>2, <3>1, <3>2, KeyboardTail
  <2> QED
    BY <1>9, <2>3, <2>4, <2>5 DEF OpenKeyboard
<1>10. CASE (\E d, o, f \in BOOLEAN : Session(d, o, f)) \/ FocusChanges
  <2>1. /\ signals = <<>> /\ signals' = <<>> /\ Reconcile(armed)
        /\ desktop' \in BOOLEAN /\ osk' \in BOOLEAN /\ focus' \in BOOLEAN
        /\ UNCHANGED <<clients, capture, keyboard, hello, conn, ended, plugged, pads, grabbed>>
    BY <1>10 DEF Session, FocusChanges, TypeOK
  <2>2. CaptureInv' /\ Registered' /\ clients' \subseteq Conns
    BY <2>1 DEF CaptureInv, CaptureIsWhole, OneClientPerRole, Registered, TypeOK
  <2>3. OwnerFits' /\ owner' \in Owners /\ mapper' \in BOOLEAN
    BY <2>1, <2>2, ReconcileFits DEF Reconcile
  <2>4. TypeOK'
    BY <2>1, <2>2, <2>3 DEF TypeOK, Reconcile
  <2> QED
    BY <2>1, <2>2, <2>3, <2>4, <1>e DEF SignalsFit
<1>11. CASE ContextExpires
  BY <1>11
     DEF ContextExpires, TypeOK, Registered, CaptureInv, CaptureIsWhole, OneClientPerRole,
         OwnerFits, SignalsFit, Launcher, Asking, connVars
<1>12. CASE KeyboardExits
  BY <1>12
     DEF KeyboardExits, TypeOK, Registered, CaptureInv, CaptureIsWhole, OneClientPerRole,
         OwnerFits, SignalsFit, Launcher, Asking, connVars, sessionVars
<1>13. CASE Restart
  <2>1. TypeOK'
    <3>1. conn' \in [Conns -> {"unused", "greeting", "opening", "open", "gone"}]
      BY <1>13 DEF Restart, TypeOK
    <3>2. signals' \in Seq({"ToggleOverlay", "GameKeyboard", "action"})
      BY SMT, <1>13 DEF Restart
    <3> QED
      BY <1>13, <3>1, <3>2 DEF Restart, TypeOK, Tasks, Owners
  <2>3. Registered'
    BY <1>13 DEF Restart, Registered, TypeOK, Tasks
  <2>2. CaptureInv' /\ OwnerFits'
    BY <1>13 DEF Restart, CaptureInv, CaptureIsWhole, OneClientPerRole, OwnerFits
  <2> QED
    BY <1>13, <2>1, <2>2, <2>3, <1>e DEF Restart, SignalsFit
<1>14. CASE UNCHANGED vars
  BY <1>14
     DEF vars, TypeOK, Registered, CaptureInv, CaptureIsWhole, OneClientPerRole, OwnerFits,
         SignalsFit, Launcher, Asking
<1>15. CASE \E c \in Conns : Accept(c) \/ End(c) \/ \E h \in Hellos : Greet(c, h)
  <2>1. <<"Frontend", "Observe">> \in Hellos
    BY DEF Hellos
  <2> QED
    BY <1>1, <1>15, <2>1, Zenon
<1> HIDE DEF BrokerInv
<1>16. CASE Next
  <2> USE <1>16
  <2>1. CASE \E c \in Conns : Connect(c) \/ Close(c)
    BY <1>2, <1>3, <2>1
  <2>2. CASE \E p \in Pads : Plug(p)
    BY <1>4, <2>2
  <2> QED
    BY <1>5, <1>6, <1>7, <1>8, <1>9, <1>10, <1>11, <1>12, <1>13, <1>15, <2>1, <2>2, Zenon
    DEF Next, Deliver
<1> QED
  BY <1>14, <1>16

\* The invariant behind the theorems.
LEMMA BrokerInvariance == Spec => []BrokerInv
<1>1. Init => BrokerInv
  <2> SUFFICES ASSUME Init PROVE BrokerInv
    OBVIOUS
  <2>1. TypeOK
    <3>1. signals \in Seq({"ToggleOverlay", "GameKeyboard", "action"})
      BY SMT DEF Init
    <3> QED
      BY <3>1 DEF Init, TypeOK, Owners
  <2>4. Registered
    BY DEF Init, Registered
  <2>2. CaptureInv /\ OwnerFits
    BY DEF Init, CaptureInv, CaptureIsWhole, OneClientPerRole, OwnerFits
  <2>3. SignalsFit
    BY SMT DEF Init, SignalsFit
  <2> QED
    BY <2>1, <2>2, <2>3, <2>4 DEF BrokerInv
<1> QED
  BY <1>1, BrokerStep, PTL DEF Spec

\* Every variable of the broker keeps its type: in particular reconcile never
\* makes an owner of a delivery that is none (Handoff becomes Observe).
THEOREM TypeCorrect == Spec => []TypeOK
BY BrokerInvariance, PTL DEF BrokerInv

\* A capturing overlay is a live client and holds every open controller, and
\* without one nothing is grabbed; keyboard and capture exclude each other;
\* replacement leaves one client per role.  For any number of connections and
\* controllers.
THEOREM CaptureHolds == Spec => []CaptureIsExclusive
<1>1. BrokerInv => CaptureIsExclusive
  BY DEF CaptureIsExclusive, BrokerInv, CaptureInv, OwnerFits, KeyboardAlone
<1> QED
  BY <1>1, BrokerInvariance, PTL

\* The mapper types for a desktop session only while no keyboard, overlay or
\* launcher has the controllers.
THEOREM MappingIsLast == Spec => []MappingYields
<1>1. BrokerInv => MappingYields
  BY DEF BrokerInv, OwnerFits, MappingYields, Launcher
<1> QED
  BY <1>1, BrokerInvariance, PTL

\* Whatever a poll still has to deliver belongs to the present owner, and only
\* the client that asked for the controllers is among its recipients.
THEOREM OnlyOwnerActs == Spec => []ActionsReachOwner
<1>1. ASSUME BrokerInv, signals # <<>> PROVE ActionsReachOwner
  <2>1. Head(signals) \in Producible(owner)
    BY <1>1, HeadTailProperties DEF BrokerInv, SignalsFit
  <2>2. ASSUME Head(signals) = "action", NEW c \in Recipients("action")
        PROVE  IF owner = "Overlay" THEN c = capture ELSE Delivery(hello[c]) = owner
    <3>1. owner \in {"Frontend", "TextEntry", "Overlay"}
      BY <2>1, <2>2, <1>1 DEF Producible
    <3>2. CASE owner = "Overlay"
      BY SMT, <1>1, <3>2, <2>2
      DEF BrokerInv, OwnerFits, CaptureInv, CaptureIsWhole, OneClientPerRole, Recipients, Role
    <3>3. CASE owner \in {"Frontend", "TextEntry"}
      BY <1>1, <3>3, <2>2
      DEF BrokerInv, OwnerFits, CaptureInv, OneClientPerRole, Recipients, Asking
    <3> QED
      BY <3>1, <3>2, <3>3
  <2> QED
    BY <2>1, <2>2 DEF ActionsReachOwner
<1>2. BrokerInv => ActionsReachOwner
  BY <1>1 DEF ActionsReachOwner
<1> QED
  BY <1>2, BrokerInvariance, PTL
==============================================================================
