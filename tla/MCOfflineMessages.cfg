SPECIFICATION FairSpec
CHECK_DEADLOCK FALSE
CONSTANTS
    Tabs <- MessageTabs
    Accounts <- TwoAccounts
    Mutations <- MessageMutations
    Notes <- None
    Events <- None
    Pages <- None
    Setups <- OneSetup
    Calls <- OneCall
    ChatTab <- OneChatTab
    MaxTries = 1
    MaxFaults = 2
    MaxSwitches = 2
    NoOne = NoOne
    Kind <- MCKind
    Entry <- MCEntry
    t1 = t1
    t2 = t2
    a1 = a1
    a2 = a2
    n1 = n1
    n2 = n2
    e1 = e1
    d1 = d1
    create1 = create1
    change1 = change1
    delete1 = delete1
    setup1 = setup1
    message1 = message1
INVARIANTS
    MessageStoredOnce
    SetupBeforeItsMessage
PROPERTIES
    QueuePromise
    QueueDrains
