SPECIFICATION Spec
CONSTANTS
    Plain = {a}
    Periodic = {b}
    MaxDue = 2
CHECK_DEADLOCK FALSE
PROPERTIES
    NoRunAfterCancel
