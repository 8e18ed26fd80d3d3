SPECIFICATION Spec
CONSTANTS
    Requests = {r1, r2, r3}
    Streams = {r3}
    NoRequest = NoRequest
    Projects = {j1, j2}
    Routes = {rt1, rt2}
    Conversations = {c1, c2}
    Prompts = {p1, p2}
    c1 = c1
    c2 = c2
    p1 = p1
    p2 = p2
    LastUser <- TwoPrompts
    NoPrompt = NoPrompt
    NoKey = NoKey
    Similar <- Alike
    TTL = 1
    SemanticTTL = 1
    Promotion = 2
    FaultSets <- OneAtATime
    MaxTime = 2
SYMMETRY Symmetry
INVARIANTS
    HitBelongsToAsker
    LifetimeBounded
    RepeatsServed
    TypeOK
CHECK_DEADLOCK FALSE
