SPECIFICATION Spec
CONSTANTS
    Undefined = Undefined
    NaN = NaN
    Throws = Throws
INVARIANT UtcSettersKeepUtcFields
CHECK_DEADLOCK FALSE
