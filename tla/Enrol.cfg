SPECIFICATION FairSpec
CONSTANTS
    a1 = a1
    a2 = a2
    home = home
    moved = moved
    img = img
    Off = Off
    NoPod = NoPod
    Images = {img}
    Namespaces = {home, moved}
    Pods = {a1, a2}
    Hazards = {"identityLost", "tokenExpires", "certExpires", "reverted"}
    MaxTokens = 3
    MaxEdits = 2
    MaxFaults = 1
INVARIANTS
    OneCertificate
    NeverStranded
CHECK_DEADLOCK FALSE
PROPERTIES StaysConnected
