SPECIFICATION Spec
CONSTANTS
    r1 = r1
    r2 = r2
    w1 = w1
    w2 = w2
    p1 = p1
    p2 = p2
    x = x
    y = y
    z = z
    Merchant = {1, 2}
    Word <- MCWord
    Keys <- MCKeys
    Req = {r1, r2}
    Process = {w1, w2}
    On <- MCOn
    UseAi <- MCUseAi
    Suggests = {r1}
    Prefixed = {1, 2}
    SuggestLimit = 2
    Query = {"niek"}
    Typed <- MCTyped
    Answers <- MCAnswers
    Provider = {p1, p2}
    Chains <- MCChains
    FirstChain <- MCFirstChain
    FirstMerchants = {{1}}
    Desk = {w1}
    Coupon = {x, y, z}
    Doc <- MCDoc
    Setting = {0, 1, 2}
    WeightsOf <- MCWeightsOf
    Unusable = {2}
    Limit = 1
    OverFetch = 2
    AliasTtl = 1
    SettingTtl = 1
    AiTtl = 2
    ResultTtl = 1
    Soon = 1
    MaxTime = 3
    MaxRequest = 1
    MaxEdits = 1
    MaxFaults = 1
CHECK_DEADLOCK FALSE
INVARIANTS
    TypeOK
    ResultsAreCurrent
    BestOfTheRelevant
    NothingDominatedIsShown
    AliasIndexIsRecent
    TypingErrorsAreForgiven
    EachProviderIsAskedOnce
    BadDataWearsOff
PROPERTIES
    WeightsAreFresh
