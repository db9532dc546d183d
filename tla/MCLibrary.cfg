SPECIFICATION Spec
CONSTANTS
    Undefined = Undefined
    NaN = NaN
    Throws = Throws
INVARIANTS StringsAsStandard JsonTextAsStandard JsonWalksComplete DatesAsStandard ParserAsGrammar
CHECK_DEADLOCK FALSE
