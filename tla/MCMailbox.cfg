SPECIFICATION Spec
CONSTANTS
    MaxMail = 3
    Scripts <- MCScripts
    Drifts = {0, 1}
    Overlap = 1
    FetchCap = 2
    ListCap = 4
    MaxFaults = 1
INVARIANTS
    TypeOK
    UnsettledMailIsReadAgain
    EnquiryOnRecord
CHECK_DEADLOCK FALSE
PROPERTIES
    AnsweredOnce
    MailIsSettled
