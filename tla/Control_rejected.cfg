SPECIFICATION Spec
CONSTANTS
    Clients = {c1}
    Calls <- MCCalls
    OtherCalls <- MCOtherCalls
    Booted <- File1
    Documents <- MCDocuments
    Unreadable <- MCUnreadable
    QueueDepth = 2
    MaxEvents = 3
INVARIANT RejectedIsForgotten
CHECK_DEADLOCK FALSE
