----------------------------- MODULE InputSignals -----------------------------
(***************************************************************************)
(* What controllers can be turned into, shared by the ownership machine    *)
(* that interprets buttons and the broker that delivers the result.        *)
(***************************************************************************)

Owners == {"Observe", "Frontend", "TextEntry", "Desktop", "Overlay", "Keyboard"}

Moves == {"MoveUp", "MoveDown", "MoveLeft", "MoveRight"}

Actions == Moves \cup {"Confirm", "Back", "Search", "ContextMenu", "PrevGroup", "NextGroup",
                       "PrevTab", "NextTab", "FilterPanel", "TextKeyboard"}

\* Action::ToggleOverlay belongs to nobody in particular and Signal::Keyboard
\* asks the broker itself for the game keyboard; the rest navigates.
ClassOf(kind) == IF kind \in Actions THEN "action" ELSE kind

\* What may be produced while an owner holds the controllers.
Producible(owner) ==
    CASE owner \in {"Frontend", "TextEntry", "Overlay"} -> {"ToggleOverlay", "action"}
      [] owner \in {"Observe", "Desktop"} -> {"ToggleOverlay", "GameKeyboard"}
      [] OTHER -> {"ToggleOverlay"}
==============================================================================
