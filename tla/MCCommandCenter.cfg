\* Two threads upload and attach three images, one entry is allowed, one request
\* a minute; the analyzer starts in mock mode and can be switched to cache.
SPECIFICATION Spec
CONSTANTS
    c1 = c1
    c2 = c2
    h1 = h1
    Hosts = {h1}
    PerMinute = 1
    Second = 2
    Apps = {"center"}
    Clients <- MCClients
    AppOf <- MCOneApp
    HostOf <- MCHostOf
    Images = {i1, i2, i3}
    Empty = Empty
    Modes = {"cache"}
    MaxEntries = 1
    Center = "center"
INVARIANTS StoreIsCapped RetryAfterIsHonest
SYMMETRY MCSymmetry
CHECK_DEADLOCK FALSE
