\* Rewards, supplies and percentages divide without a remainder.
SPECIFICATION QuotesSpec
CONSTANTS
    Lives <- MCLives
    MaxLife = 2
    Supplies = {2, 4}
    Rates = {2}
    Safety = 4
    Apr = 2
    MaxPercent = 4
    Boosted = 2
    Liquidity = 1
    Capacities = {2, 6}
    MaxNonce = 4
    LastUse = 1
    MaxEvents = 1
INVARIANTS
    QuietQuotesAreExact
PROPERTIES
    WaitingNeverCosts

\* The chain stops after MaxNonce.
CHECK_DEADLOCK FALSE
