CONSTANTS
    Carry = 2
    MaxSeconds = 1
    RealTimes = {1, 4}
    MaxReal = 2
    MaxPosts = 2
    PageSize = 1
    Charged = 3
    FixtureAmount = 2
    Amounts = {1, 2}
    Calls = {1, 2}
    MaxRefunds = 2
    MaxStripe = 2
    Limits = {1, 2}
SPECIFICATION Spec
INVARIANTS
    PostsSortAfterWhatWasRead
    ReadsAddUp
    RefundsAddUp
