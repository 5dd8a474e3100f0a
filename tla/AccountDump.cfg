CONSTANTS
    Name = {1, 2, 3}
    Supply = 2
    First = 2
    None = none
SPECIFICATION Spec
INVARIANTS TypeOK OneInOneOut LastFallOut LinesAreRecent QuietDumpIsExact
PROPERTIES DumpEnds
