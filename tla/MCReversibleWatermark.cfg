SPECIFICATION FairSpec
CONSTANTS
  Depth = 4
  width = 5
  height = 5
  channel = 3
  blk_width = 3
  blk_height = 2
  proc_num = 5
  cpu_count = 2
  Watermark <- SmallWatermark
  Pictures <- SmallPictures
INVARIANTS TypeOK BlocksApart MarkingIsSequential PictureRestored LastRowAndColumnKept
PROPERTY CallsReturn
CHECK_DEADLOCK FALSE
