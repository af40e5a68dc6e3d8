SPECIFICATION Spec
CHECK_DEADLOCK FALSE
CONSTANTS
    Tabs <- EntryTabs
    Accounts <- TwoAccounts
    Mutations <- OneCreation
    Notes <- TwoNotes
    Events <- None
    Pages <- BothPages
    Setups <- None
    Calls <- NoCalls
    ChatTab <- NoCalls
    MaxTries = 1
    MaxFaults = 1
    MaxSwitches = 1
    NoOne = NoOne
    Kind <- MCKind
    Entry <- MCEntry
    t1 = t1
    t2 = t2
    a1 = a1
    a2 = a2
    n1 = n1
    n2 = n2
    e1 = e1
    d1 = d1
    create1 = create1
    change1 = change1
    delete1 = delete1
    setup1 = setup1
    message1 = message1
INVARIANTS
    QueuedCreationIsShown
