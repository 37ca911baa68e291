SPECIFICATION FairSpec
CONSTANTS
  Batches <- MCBatches
  Jobs = 2
  Values = {0, 1, 2}
  Changes = 2
  Troubles = 1
  MaxSamples = 14
  FftExponents = {1, 2, 3}
  MaxTimeBins = 4
  MaxFreqBins = 4
  Own <- MCOwn
  Others <- MCOthers
  Bandwidths = {4}
  Rate = 4

INVARIANTS
  ImagesAreRight
  SpectrumIsWhole
  MarksAreRight

PROPERTIES
  ConverterGoesOn

CHECK_DEADLOCK FALSE
