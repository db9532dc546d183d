SPECIFICATION Spec
CONSTANTS
    None = None
    Programs <- NestedPrograms
    CompiledOf <- Generated
INVARIANTS EveryJumpPatched
