SPECIFICATION Spec
CONSTANTS
    p1 = p1  p2 = p2  k1 = k1  k2 = k2  m1 = m1  m2 = m2
    Publishers = {p1, p2}
    Versions = {1, 2, 3, 4}
    Commits = {"c0", "c1", "c2", "c3"}
    Ancestry <- MCAncestry
    Metas = {m1, m2}
    Taggers = {k1, k2}
    Tagger <- DistinctTaggers
    Requests <- RaceRequests
    InitialTags <- LegacyTag
    Legacy = Legacy  Lightweight = Lightweight
    NoTag = NoTag
    None = None
INVARIANTS TypeOK RemoteInv NotesRangeStable TruthfulReports
PROPERTIES LandsOnPlannedGraph NoSpuriousRefusal ServiceImplemented
