CONSTANTS
    r1 = r1
    h1 = h1
    m1 = m1
    m2 = m2
    Main = Main
    NoMux = NoMux
    RtspConns = {r1}
    HttpConns = {h1}
    Transports = {"udp"}
    NumStreams = 2
    NumAdapters = 1
    Muxes = {m1, m2}
    SlaveAdapters = {0}
    IdleClose = TRUE
    AdapterLoss = TRUE
    PidTableFull = TRUE
    NeverTimesOut = FALSE
SPECIFICATION Spec
SYMMETRY Symmetry
CONSTRAINT BeforeFault
INVARIANTS CountExact PidOwnersAttached OwnMux RtspOwnsStream
