SPECIFICATION Spec
CONSTANTS
    Letters <- MCLetters
    Replies <- MCReplies
    Null = Null
    Absent = Absent
    Garbage = Garbage
INVARIANTS
    MeasuresAreTheClients
    CorrectableIsAsked
CHECK_DEADLOCK FALSE
