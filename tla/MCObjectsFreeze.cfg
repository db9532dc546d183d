SPECIFICATION Spec
CONSTANTS
    a1 = a1
    a2 = a2
    base = base
    v1 = v1
    f1 = f1
    Objects <- TwoObjects
    Names = {n1}
    Data = {v1}
    Functions = {f1}
    Shared <- SharedOfTwo
    Prototype <- PrototypeOfTwo
    Descriptors <- FewDescriptors
    Operations = {"get", "set", "delete", "define", "freeze"}
    Null = Null
    None = None
    Absent = Absent
    Undefined = Undefined
PROPERTIES FreezeMakesFrozen
