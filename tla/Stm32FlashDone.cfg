SPECIFICATION Spec
CONSTANTS
  task1 = task1
  update1 = update1
  update2 = update2
  block1 = block1
  Readers = {}
  Apps = {}
  Updaters = {update1}
  NULL = NULL
  QueueLen = 1
  RxLen = 1
  PageBlocks = 2
  ByteSize = 2
  ChipPages = 1
  Images <- MCImages
  DiskBlocks = 3
INVARIANT DoneMeansUpdated
