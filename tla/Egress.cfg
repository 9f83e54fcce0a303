CONSTANTS
    Request = {r1, r2}
    Lists <- TwoLists
    Direct = "direct"
    Socks5 = {"e2"}
    Hosts <- MCHosts
    Answers <- MCAnswers
    Policies <- MCPolicies
    Lower <- MCLower
    Starred = {"*"}
    Literal <- MCLiteral
    Unsafe = {"private"}
    FailureLimit = 3
    CounterMax = 3
SPECIFICATION FairSpec
INVARIANTS ChainTypeOK OwnListUsed TargetAuthorised PrefixExhausted
PROPERTIES MovesForward FailsOver
