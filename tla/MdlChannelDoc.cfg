SPECIFICATION Spec
CONSTANTS
    Messages = {m1}
    MaxCounter = 1
INVARIANTS
    AnyFailureTerminates
