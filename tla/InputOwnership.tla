---------------------------- MODULE InputOwnership ----------------------------
(***************************************************************************)
(* The input broker's per-controller state: which controls are held, what  *)
(* chords they are part of, and what each edge means to the present owner. *)
(* A change of owner disarms every controller until it has been neutral,   *)
(* so that nothing pressed for one owner acts on the next.                 *)
(***************************************************************************)
EXTENDS InputSignals, Naturals

CONSTANTS Pads,         \* controllers
          Controls,     \* the controls they have, a subset of AllControls
          None

ActionControls == {"South", "East", "West", "North", "LeftBumper", "RightBumper", "LeftTrigger",
                   "RightTrigger", "DpadUp", "StickUp", "DpadDown", "StickDown", "DpadLeft",
                   "StickLeft", "DpadRight", "StickRight"}
AllControls == ActionControls \cup {"Guide", "Start", "Select", "Other"}

VARIABLES owner,        \* who the controllers act for
          held,         \* controls physically down, per pad
          armed,        \* pads that have been neutral since the owner changed
          guideUsed,    \* pads whose Guide hold has triggered its chord
          selectUsed, startUsed,   \* the same for Select and Start
          repeat,       \* the move a pad repeats, or None
          signals,      \* what the last step emitted: pad and kind
          taken,        \* history: controls pressed while armed for this owner
          alone,        \* history: pads whose Select was pressed with Guide up
          fired         \* history: overlay and keyboard signals of this Guide hold

vars == <<owner, held, armed, guideUsed, selectUsed, startUsed, repeat, signals, taken, alone,
          fired>>

TypeOK ==
    /\ owner \in Owners
    /\ held \in [Pads -> SUBSET Controls]
    /\ armed \subseteq Pads
    /\ guideUsed \subseteq Pads /\ selectUsed \subseteq Pads /\ startUsed \subseteq Pads
    /\ repeat \in [Pads -> Moves \cup {None}]
    /\ signals \subseteq [pad : Pads, kind : Actions \cup {"ToggleOverlay", "GameKeyboard"}]
    /\ taken \in [Pads -> SUBSET Controls]
    /\ alone \subseteq Pads
    /\ fired \in [Pads -> Nat]

Init ==
    /\ owner = "Observe"
    /\ held = [p \in Pads |-> {}]
    /\ armed = {} /\ guideUsed = {} /\ selectUsed = {} /\ startUsed = {}
    /\ repeat = [p \in Pads |-> None]
    /\ signals = {}
    /\ taken = [p \in Pads |-> {}]
    /\ alone = {}
    /\ fired = [p \in Pads |-> 0]

ActionOf(control) ==
    CASE control = "South" -> "Confirm"
      [] control = "East" -> "Back"
      [] control = "West" -> "ContextMenu"
      [] control = "North" -> "Search"
      [] control = "LeftBumper" -> "PrevGroup"
      [] control = "RightBumper" -> "NextGroup"
      [] control = "LeftTrigger" -> "PrevTab"
      [] control = "RightTrigger" -> "NextTab"
      [] control \in {"DpadUp", "StickUp"} -> "MoveUp"
      [] control \in {"DpadDown", "StickDown"} -> "MoveDown"
      [] control \in {"DpadLeft", "StickLeft"} -> "MoveLeft"
      [] control \in {"DpadRight", "StickRight"} -> "MoveRight"
      [] OTHER -> None

Add(set, p, in) == IF in THEN set \cup {p} ELSE set \ {p}

------------------------------------------------------------------------------
(* Changing hands *)

Suspended ==
    /\ armed' = {}
    /\ guideUsed' = Pads /\ selectUsed' = Pads /\ startUsed' = Pads
    /\ repeat' = [p \in Pads |-> None]
    /\ taken' = [p \in Pads |-> {}]

\* Mutant: the controllers stay armed when they change hands.
SetOwnerArmed(o) ==
    /\ o # owner
    /\ owner' = o
    /\ signals' = {}
    /\ taken' = [p \in Pads |-> {}]
    /\ UNCHANGED <<held, armed, guideUsed, selectUsed, startUsed, repeat, alone, fired>>

SetOwner(o) ==
    /\ o # owner
    /\ owner' = o
    /\ Suspended
    /\ signals' = {}
    /\ UNCHANGED <<held, alone, fired>>

\* An overlay asking for capture suspends the controllers before it is refused.
Suspend ==
    /\ Suspended
    /\ signals' = {}
    /\ UNCHANGED <<owner, held, alone, fired>>

\* A controller disappears and is opened again, with whatever is held on it.
Reopen(p) ==
    /\ \E down \in SUBSET Controls :
        held' = [held EXCEPT ![p] = down]
    /\ armed' = armed \ {p}
    /\ guideUsed' = guideUsed \ {p}
    /\ selectUsed' = selectUsed \ {p}
    /\ startUsed' = startUsed \ {p}
    /\ repeat' = [repeat EXCEPT ![p] = None]
    /\ signals' = {}
    /\ taken' = [taken EXCEPT ![p] = {}]
    /\ alone' = alone \ {p}
    /\ fired' = [fired EXCEPT ![p] = 0]
    /\ UNCHANGED owner

------------------------------------------------------------------------------
(* One edge of one control.  The cases are tried in the order of the code. *)

Unchanged == <<guideUsed, selectUsed, startUsed, repeat>>

\* Mutant: Guide leaves a repeat running.
GuideEdgeRepeating(p, pressed) ==
    /\ guideUsed' = IF pressed THEN guideUsed \ {p} ELSE guideUsed
    /\ signals' = IF pressed \/ p \in guideUsed THEN {} ELSE {[pad |-> p, kind |-> "ToggleOverlay"]}
    /\ UNCHANGED <<selectUsed, startUsed, repeat>>

GuideEdge(p, pressed) ==
    IF pressed
    THEN /\ guideUsed' = guideUsed \ {p}
         /\ repeat' = [repeat EXCEPT ![p] = None]
         /\ signals' = {}
         /\ UNCHANGED <<selectUsed, startUsed>>
    ELSE /\ signals' = IF p \in guideUsed THEN {} ELSE {[pad |-> p, kind |-> "ToggleOverlay"]}
         /\ UNCHANGED Unchanged

\* With Guide down only West means anything, once, and only to a game.
ChordEdge(p, control, pressed, keyboardEnabled) ==
    IF /\ pressed /\ control = "West" /\ p \notin guideUsed
       /\ keyboardEnabled /\ owner \in {"Observe", "Desktop"}
    THEN /\ guideUsed' = guideUsed \cup {p}
         /\ signals' = {[pad |-> p, kind |-> "GameKeyboard"]}
         /\ UNCHANGED <<selectUsed, startUsed, repeat>>
    ELSE signals' = {} /\ UNCHANGED Unchanged

TextEntryEdge(p, control, pressed) ==
    /\ signals' = IF control = "East" /\ pressed THEN {[pad |-> p, kind |-> "Back"]} ELSE {}
    /\ UNCHANGED Unchanged

\* A plain action: emitted on press, and a move repeats until its release.
ActionEdge(p, control, pressed) ==
    LET action == ActionOf(control)
    IN  /\ signals' = IF pressed /\ action # None THEN {[pad |-> p, kind |-> action]} ELSE {}
        /\ repeat' = [repeat EXCEPT ![p] =
                        IF action \notin Moves THEN @
                        ELSE IF pressed THEN action
                        ELSE IF @ = action THEN None ELSE @]

FrontendEdge(p, control, pressed) ==
    LET start == IF pressed /\ control = "Start" THEN startUsed \ {p} ELSE startUsed
        select == IF pressed /\ control = "Select" THEN selectUsed \ {p} ELSE selectUsed
        chord == /\ pressed /\ control \in {"Start", "Select"}
                 /\ {"Start", "Select"} \subseteq held'[p]
                 /\ p \notin start \cup select
    IN  /\ startUsed' = IF chord THEN start \cup {p} ELSE start
        /\ selectUsed' = IF chord THEN select \cup {p} ELSE select
        /\ UNCHANGED guideUsed
        /\ IF chord
           THEN signals' = {[pad |-> p, kind |-> "TextKeyboard"]} /\ UNCHANGED repeat
           ELSE IF control = "Select" /\ ~pressed /\ p \notin select
           THEN signals' = {[pad |-> p, kind |-> "FilterPanel"]} /\ UNCHANGED repeat
           ELSE ActionEdge(p, control, pressed)

Meaning(p, control, pressed, keyboardEnabled) ==
    IF p \notin armed THEN signals' = {} /\ UNCHANGED Unchanged
    ELSE IF control = "Guide" THEN GuideEdge(p, pressed)
    ELSE IF "Guide" \in held'[p] THEN ChordEdge(p, control, pressed, keyboardEnabled)
    ELSE IF owner = "TextEntry" THEN TextEntryEdge(p, control, pressed)
    ELSE IF owner = "Frontend" THEN FrontendEdge(p, control, pressed)
    ELSE IF owner = "Overlay" THEN ActionEdge(p, control, pressed)
                                   /\ UNCHANGED <<guideUsed, selectUsed, startUsed>>
    ELSE signals' = {} /\ UNCHANGED Unchanged

Button(p, control, keyboardEnabled) ==
    LET pressed == control \notin held[p]
    IN  /\ held' = [held EXCEPT ![p] = Add(@, control, pressed)]
        /\ Meaning(p, control, pressed, keyboardEnabled)
        /\ taken' = [taken EXCEPT ![p] = Add(@, control, pressed /\ p \in armed)]
        /\ alone' = IF control = "Select" /\ pressed THEN Add(alone, p, "Guide" \notin held[p])
                    ELSE alone
        /\ fired' = [fired EXCEPT ![p] =
                       IF control = "Guide" /\ pressed THEN 0
                       ELSE IF \E s \in signals' : s.kind \in {"ToggleOverlay", "GameKeyboard"}
                       THEN @ + 1 ELSE @]
        /\ UNCHANGED <<owner, armed>>

\* Neutral pads are armed; of the repeats, those that are due are emitted.
Tick ==
    /\ armed' = armed \cup {p \in Pads : held[p] = {}}
    /\ \E due \in SUBSET {p \in armed' : repeat[p] # None} :
        signals' = {[pad |-> p, kind |-> repeat[p]] : p \in due}
    /\ UNCHANGED <<owner, held, guideUsed, selectUsed, startUsed, repeat, taken, alone, fired>>

Next ==
    \/ \E o \in Owners : SetOwner(o)
    \/ Suspend \/ Tick
    \/ \E p \in Pads : Reopen(p)
    \/ \E p \in Pads, c \in Controls, enabled \in BOOLEAN : Button(p, c, enabled)

Spec == Init /\ [][Next]_vars

------------------------------------------------------------------------------
(* What must hold *)

\* The controls a signal stands for; a plain action stands for any of its own.
Basis(kind) ==
    CASE kind = "ToggleOverlay" -> {{"Guide"}}
      [] kind = "GameKeyboard" -> {{"Guide", "West"}}
      [] kind = "FilterPanel" -> {{"Select"}}
      [] kind = "TextKeyboard" -> {{"Start", "Select"}}
      [] OTHER -> {{c} : c \in {d \in Controls : ActionOf(d) = kind}}

\* "Never replay buffered presses into a newly active surface": whatever a press,
\* a release or a repeat emits stands for controls pressed for this very owner,
\* after the pad had been neutral.
NothingReplayed ==
    [][\A s \in signals' :
        \E controls \in Basis(s.kind) : controls \subseteq taken[s.pad] \cup taken'[s.pad]]_vars

\* "One trigger per hold; no overlay flash": a Guide hold opens the keyboard or
\* toggles the overlay, never both and never twice.
OneTriggerPerHold == \A p \in Pads : fired[p] <= 1

\* A move repeats only while a control for it is down on that pad: no release
\* gets lost behind a Guide chord, a text field or a change of owner.
RepeatHeld ==
    \A p \in Pads : repeat[p] # None => \E c \in held[p] : ActionOf(c) = repeat[p]

\* An owner is given only what it may act on: a game's controller never
\* navigates, and the launcher's never opens the game keyboard.
EmitsForOwner == \A s \in signals : ClassOf(s.kind) \in Producible(owner)

\* "Select alone still opens the filter drawer on release": a Select pressed
\* while Guide is down, which the press ignores, opens nothing.
FilterPanelAlone ==
    [][\A s \in signals' : s.kind = "FilterPanel" => s.pad \in alone]_vars

\* A hold means one thing for as long as it lasts: it triggers once, repeats while
\* it is down, and says only what its owner may be told.
HoldsAreExact == OneTriggerPerHold /\ RepeatHeld /\ EmitsForOwner
==============================================================================
