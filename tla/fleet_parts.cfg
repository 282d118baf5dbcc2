SPECIFICATION Spec
CONSTANTS
    NoLease = NoLease
    Owner = {d1, d2, d3}
    Scid = {1, 2, 3}
    Firsts = {1, 2}
    Counts = {2, 3}
    Hosts = {h1, h2, h3}
    Concurrency = 2
    Devices = {1, 2}
    Groups = {g1, g2}
    NoGroup = none
    MaxNumber = 2
CONSTRAINT EveryWriteTaken
INVARIANTS LeasesTypeOK LeasesUnique RegistryIsSaved MembersHaveTheirGroup
PROPERTIES PortsTakeTurns ScansAreSweeps
