CONSTANTS
    Muxes = {m1, m2}
    None = none
    Pids = {p1, p2}
    Kinds = {"minisatip", "enigma", "other"}
    Codes = {"408", "503", "403", "461"}
    MaxOps = 2
    MaxFaults = 1
SPECIFICATION FairSpec
INVARIANTS Synced RightMux
PROPERTY Recovers
