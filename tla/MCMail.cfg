SPECIFICATION MailSpec
CONSTANTS
    None = None
    a = a
    b = b
    p1 = p1
    p2 = p2
    weak = weak
    Commands <- MailboxCommands
    Locals = {a, b}
    WeakPasswords = {weak}
    MaxCommands = 2
    MaxFaults = 2
INVARIANTS
    AnsweredIsInForce
PROPERTIES
    RetriesConverge
CHECK_DEADLOCK FALSE
