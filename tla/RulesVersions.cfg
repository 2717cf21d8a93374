SPECIFICATION Spec
CONSTANTS
    runner = runner
    Versions = {v1, v2}
    Archives = {a1, a2}
    Publishes = {p1, p2}
    Rollbacks = {b1}
    Clients = {c1}
    Runs = {r1, r2}
    Processes = {runner}
    ProcessOf <- OneRunner
    None = None
    Torn = Torn
SYMMETRY RulesSymmetry
INVARIANTS
    ResolveHolds
    DescribedIsWhole
    DownloadMatches
    RunsUseTheirVersion
    QuietVersionAgrees
