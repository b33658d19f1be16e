SPECIFICATION Spec
CONSTANTS
  Depth = 4
  width = 3
  height = 2
  channel = 3
  blk_width = 2
  blk_height = 0
  proc_num = 2
  cpu_count = 2
  Watermark <- SmallWatermark
  Pictures <- SmallPictures
INVARIANT EveryBlockIsMarked
CHECK_DEADLOCK FALSE
