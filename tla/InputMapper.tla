----------------------------- MODULE InputMapper -----------------------------
(***************************************************************************)
(* Desktop compatibility: while a desktop-profile application owns the     *)
(* controllers, their controls press keys on a virtual keyboard.  Several  *)
(* controls share a key, so keys are counted; edges are forwarded only for *)
(* armed controllers whose Guide is up, so presses and releases can be     *)
(* missed and must not leave a key stuck.                                  *)
(***************************************************************************)
EXTENDS Integers, FiniteSets

CONSTANTS Pads,         \* controllers
          Controls,     \* their mapped controls
          Keys,         \* the virtual keyboard's keys
          OutputFor     \* output_for: the key of each control

VARIABLES active,       \* Mapper::active, which is owner = Desktop
          held,         \* controls physically down, per pad
          guide,        \* pads with Guide down
          armed,        \* pads that have been neutral since the owner changed
          sources,      \* Mapper::sources: the controls that press a key
          counts,       \* Mapper::output_counts
          stick,        \* Mapper::right_sticks: pads that move the pointer
          down          \* the virtual keyboard: keys it reports as pressed

vars == <<active, held, guide, armed, sources, counts, stick, down>>

Sources == Pads \X Controls

TypeOK ==
    /\ active \in BOOLEAN
    /\ held \in [Pads -> SUBSET Controls]
    /\ guide \subseteq Pads /\ armed \subseteq Pads /\ stick \subseteq Pads
    /\ sources \subseteq Sources
    /\ counts \in [Keys -> Nat]
    /\ down \subseteq Keys

Init ==
    /\ active = FALSE
    /\ held = [p \in Pads |-> {}]
    /\ guide = {} /\ armed = {} /\ stick = {}
    /\ sources = {} /\ down = {}
    /\ counts = [k \in Keys |-> 0]

KeyOf(source) == OutputFor[source[2]]

\* Sources of key k among those in set.
Pressing(set, k) == {s \in set : KeyOf(s) = k}

\* Mutant: releasing what presses no key is counted.
ReleaseUnchecked(gone) ==
    LET left == [k \in Keys |-> counts[k] - Cardinality(Pressing(gone, k))]
    IN  /\ sources' = sources \ gone
        /\ counts' = left
        /\ down' = down \ {k \in Keys : left[k] = 0}

\* release_source for every source in gone: the last one releases the key.
Release(gone) ==
    LET left == [k \in Keys |-> counts[k] - Cardinality(Pressing(sources \cap gone, k))]
    IN  /\ sources' = sources \ gone
        /\ counts' = left
        /\ down' = down \ {k \in Keys : left[k] = 0}

\* set_source: the first one presses the key.
Press(source) ==
    IF source \in sources THEN UNCHANGED <<sources, counts, down>>
    ELSE /\ sources' = sources \cup {source}
         /\ counts' = [counts EXCEPT ![KeyOf(source)] = @ + 1]
         /\ down' = IF counts[KeyOf(source)] = 0 THEN down \cup {KeyOf(source)} ELSE down

\* set_active: switching off releases everything and stops the pointer.
SetActive(on) ==
    /\ active' = on
    /\ sources' = IF on THEN sources ELSE {}
    /\ counts' = IF on THEN counts ELSE [k \in Keys |-> 0]
    /\ stick' = IF on THEN stick ELSE {}
    /\ down' = IF on THEN down ELSE {}

\* The owner changes to or from Desktop; every pad must become neutral again.
ChangeOwner ==
    /\ SetActive(~active)
    /\ armed' = {}
    /\ UNCHANGED <<held, guide>>

\* A refused overlay: the mapping goes off, the pads are suspended, and the
\* next reconcile switches the mapping on again for the same owner.
Refused ==
    /\ active
    /\ sources' = {} /\ stick' = {} /\ down' = {}
    /\ counts' = [k \in Keys |-> 0]
    /\ armed' = {}
    /\ UNCHANGED <<active, held, guide>>

\* poll: the pad must have been armed before the edge, and Guide be up.
Forward(p, control, pressed) ==
    IF active /\ p \in armed /\ p \notin guide
    THEN IF pressed THEN Press(<<p, control>>) ELSE Release({<<p, control>>})
    ELSE UNCHANGED <<sources, counts, down>>

Edge(p, control) ==
    LET pressed == control \notin held[p]
    IN  /\ held' = [held EXCEPT ![p] = IF pressed THEN @ \cup {control} ELSE @ \ {control}]
        /\ Forward(p, control, pressed)
        /\ UNCHANGED <<active, guide, armed, stick>>

\* Mutant: pressing Guide leaves the pad's keys and pointer alone.
GuidePressIgnored(p) ==
    /\ p \notin guide
    /\ guide' = guide \cup {p}
    /\ UNCHANGED <<active, held, armed, sources, counts, stick, down>>

\* Pressing Guide releases what the pad contributes (remove_device).
GuidePress(p) ==
    /\ p \notin guide
    /\ guide' = guide \cup {p}
    /\ Release({p} \X Controls)
    /\ stick' = stick \ {p}
    /\ UNCHANGED <<active, held, armed>>

GuideRelease(p) ==
    /\ p \in guide
    /\ guide' = guide \ {p}
    /\ UNCHANGED <<active, held, armed, sources, counts, stick, down>>

\* The right stick leaves or returns to its centre.
StickEdge(p) ==
    /\ active /\ p \in armed /\ p \notin guide
    /\ stick' \in {stick \cup {p}, stick \ {p}}
    /\ UNCHANGED <<active, held, guide, armed, sources, counts, down>>

\* A pad is unplugged, and one that replaces it starts disarmed.
Unplug(p) ==
    /\ Release({p} \X Controls)
    /\ stick' = stick \ {p}
    /\ armed' = armed \ {p}
    /\ guide' \in {guide \cup {p}, guide \ {p}}
    /\ \E on \in SUBSET Controls : held' = [held EXCEPT ![p] = on]
    /\ UNCHANGED active

Tick ==
    /\ armed' = armed \cup {p \in Pads \ guide : held[p] = {}}
    /\ UNCHANGED <<active, held, guide, sources, counts, stick, down>>

Next ==
    \/ ChangeOwner \/ Refused \/ Tick
    \/ \E p \in Pads : GuidePress(p) \/ GuideRelease(p) \/ StickEdge(p) \/ Unplug(p)
    \/ \E p \in Pads, c \in Controls : Edge(p, c)

Spec == Init /\ [][Next]_vars

------------------------------------------------------------------------------
(* What must hold *)

\* "Applications do not retain stuck input": a key the virtual keyboard reports
\* as pressed is pressed by a control that is physically down on an armed pad
\* with Guide up, and only while the mapping is active.
NoStuckKeys ==
    \A k \in down :
        active /\ \E p \in armed \ guide : \E c \in held[p] : OutputFor[c] = k

\* A shared key stays down exactly until its last control is released.
CountsAreExact ==
    \A k \in Keys :
        /\ counts[k] = Cardinality(Pressing(sources, k))
        /\ k \in down <=> counts[k] > 0

\* The pointer moves only for an armed pad with Guide up, while active.
NoDrift == stick # {} => active /\ stick \subseteq armed \ guide

\* The virtual devices never act on their own: no key is left down, none is let go
\* early, and the pointer does not drift.
NothingStuck == NoStuckKeys /\ CountsAreExact /\ NoDrift
==============================================================================
