SPECIFICATION Spec
CONSTANTS
  Bits = {b1, b2}
  LowSize = 2
  SectorSize = 2
  Sectors = 2
  IsrReads = {3}
INVARIANTS TypeOK OkMeansStored OnlyTarget ReadsBack
