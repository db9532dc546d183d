SPECIFICATION Spec
CONSTANTS
    None = None
    Programs <- NestedPrograms
    CompiledOf <- Generated
PROPERTIES ContinueSetsExitValue
