SPECIFICATION Spec
CONSTANTS
    Writers = {w1, w2}
    NoEncoder = NoEncoder
    MaxWrites = 4
    Units = 3
    Singles = {2}
    Callers = {c1, c2}
    Tracks = {t1, t2}
    MaxTracks = 1
    Idle = Idle
    MaxCalls = 6
    Adders = {a1, a2}
    Width = 16
    Limits = {0, 5}
    Alignments = {0, 4, 6}
    MaxSinkIds = 3
    Producers = {p1, p2}
    Readers = {r1, r2}
    Kept = 2
    MaxStreams = 2
    MaxPackets = 4
    NalUnits <- TestUnits
    MaxNalUnits = 3
    MaxSamples = 2
    Sizes <- MCSizes
    Images <- MCImages
    Fallback <- MCFallback
    Window <- MCWindow
    ThumbSizes <- MCThumbSizes
    FrameSize <- MCFrameSize
    SquareSizes = {2, 3}
    Speed = 2
    MaxSquares = 2
    Lines <- MCLines
    Anchors <- MCAnchors
    Scales = {1}
    MaxEdits = 2
    Bars = 3
    GlyphW = 2
    GlyphH = 2
    Lit <- MCLit
    Margin = 2
CHECK_DEADLOCK FALSE
INVARIANTS OnlyOddOrSmallPicturesFail ColourStaysInPlace TransformsUndoEachOther WantsHonourEverySink StreamsKeepOrder FramesReachTheTrack UnitsAreShown FramesAreDescribed ReportHidesOneState
PROPERTY SquaresMoveSteadily
