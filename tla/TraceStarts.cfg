SPECIFICATION FairSpec
CONSTANTS
    runner = runner
    api = api
    first = first
    second = second
    third = third
    j1 = j1
    j2 = j2
    Processes = {runner, api}
    Jobs = {j1, j2}
    Calls = {first, second, third}
    ProcessOf <- Home
    CacheLimit = 1
    MaxTime = 4
INVARIANTS
    StartsAgree
    CacheIsBounded
PROPERTY AppendsGoOn
