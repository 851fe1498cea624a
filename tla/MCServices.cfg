\* The node, its deposit and its services.
CONSTANTS
    n = n
    s1 = s1
    s2 = s2
    t1 = t1
    t2 = t2
    t3 = t3
    q1 = q1
    q2 = q2
    p1 = p1
    p2 = p2
    Node = n
    Services = {s1, s2}
    Address <- MCAddress
    WholeBalanceLimit = 4
    WithdrawTimeout = 1
    DecayConstant = 2
    MinPrice = 1
    PriceBump = 2
    RegistrationDuration = 3
    SettleTimeout = 2
    Partners = {p1, p2}
    Target = p2
    Amount = 1
    Capacity = 1
    IOUTimeout = 1
    MaximumFee = 2
    FeeLimit = 0
    Threads = {t1, t2, t3}
    Payments = {q1, q2}
    PFS = s1
    InitialPrice = 1
    Reward = 1
    InitialDeposit = 2
    Wallet = 3
    Scenarios <- MCScenarios
    MaxTime = 5
    MaxNonce = 2
SYMMETRY Symmetry
SPECIFICATION Spec
INVARIANTS
    UDCSolvent
    DepositOutcome
    FeesAreEarned
    ProofRewardedOnce
PROPERTIES
    EffectiveBalanceKept
CHECK_DEADLOCK FALSE
