SPECIFICATION Spec
CONSTANTS
    Writers = {w1, w2}
    Reader = TelemSrv
    Nobody = Nobody
    Empty = Empty
    Capacity = 3
    Wrap = 6
    MaxRecords = 8
SYMMETRY WriterSymmetry
INVARIANTS TypeOK OneInside DumpIsNewest
