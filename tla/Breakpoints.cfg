SPECIFICATION Spec
CONSTANTS
    Locations = {here, nowhere}
    Uninsertable = {nowhere}
    Expressions = {expr}
    Events = {fork}
    Conditions = {cond}
    MaxNumber = 2
    MaxQueue = 1
    None = None
INVARIANTS
    SuccessIsFinal
    MostlyNamesItsOwn
