SPECIFICATION Spec
CONSTANTS
    Conns = {c1, c2}
    Sessions = {s1, s2}
    Streams = {audio}
    LowPower = {c1}
    None = None
    MaxReports = 1
INVARIANTS
    OneAnnounced
    RefsBalanced
    PlayingHasSession
    Monitored
PROPERTIES
    DeathEnds
