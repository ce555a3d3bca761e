SPECIFICATION Spec
INVARIANTS
    FrontendHasFocus
