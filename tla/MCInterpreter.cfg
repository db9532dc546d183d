SPECIFICATION Spec
CONSTANTS
    None = None
    Programs <- MCPrograms
    CompiledOf <- Generated
INVARIANTS FramesMatch DoesWhatItSays
PROPERTY Ends
