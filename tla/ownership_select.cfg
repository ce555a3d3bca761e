SPECIFICATION Spec
CONSTANTS
    Pads = {p1}
    Controls = {"Guide", "West", "Start", "Select"}
    None = none
PROPERTIES
    FilterPanelAlone
