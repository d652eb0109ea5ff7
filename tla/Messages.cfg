\* The messages about one booking, sent by handlers, services and the pending job.
CONSTANTS
    handler1 = handler1
    handler2 = handler2
    Handlers = {handler1, handler2}
    PhoneBooks <- MCPhoneBooks
    ListBound = 1
    Nothing = Nothing
SPECIFICATION OrchestrationSpec
SYMMETRY Symmetry
INVARIANTS
    OrchestrationTypeOK
    ToldTruly
