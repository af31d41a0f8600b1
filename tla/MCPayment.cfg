SPECIFICATION MCSpec
CONSTANTS
    TopUps = {t}
    Withdrawals = {x, u}
    Registered = {t, x}
    BatchSize = 1
    Workers = {w1, w2}
    NoWorker = NoWorker
    Dead = Dead
    MaxVersion = 5
    MaxFacts = 4
    MaxPayouts = 2
    MaxAmount = 3
    MaxFee = 2
    Basis = 4
    Width = 6
INVARIANTS PaymentsAreSound FinalEventsOnce OneOutcome SecondPayoutNeedsFault
PROPERTIES PaidTopUpsSettle WithdrawalsSettle
