SPECIFICATION Spec
CONSTANTS
    a = a
    b = b
    pm = pm
    s1 = s1
    s2 = s2
    Submitters = {s1, s2}
    Txs <- MCTxs
    Senders <- MCSenders
    Paymasters = {pm}
    Balance <- MCBalance
    Funds <- MCFunds
    MaxPool = 2
    MaxBlobs = 1
    QueuedMax = 1
    GapThreshold = 90
    MaxHeads = 0
    MaxSubmissions = 3
INVARIANT BlobsWithinCap
CHECK_DEADLOCK FALSE
