SPECIFICATION Spec
CONSTANTS
  BlockSize = 2
  ChunkSize = 4
  HeaderSize = 2
  MaxSize = 6
  MaxSavings = 1
INVARIANTS TypeOK DecryptsToPictureTaken
