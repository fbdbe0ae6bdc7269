SPECIFICATION Spec

CONSTANTS
    Devices = {d1, d2}
    MaxDevices = 2
    Requests = {r1, r2}
    Tokens = {t1, t2, t3}
    Challenges = {c1, c2, c3}
    Terminal = Terminal
    None = None
    MaxSessions = 2
    MaxChallenges = 1
    SessionLifetime = 1
    ChallengeLifetime = 1

SYMMETRY Symmetry

INVARIANTS
    SessionsAuthorized
    ChallengesAuthorized
    ChallengesSingleUse
    RevokedStayRemoved
    NoMutualRevocation
