--------------------- MODULE ReversibleWatermark_proofs ---------------------
(***************************************************************************)
(* Theorems about ReversibleWatermark, for any size of picture and blocks, *)
(* any number of processes and levels, any picture and any watermark.      *)
(***************************************************************************)
EXTENDS ReversibleWatermark, Monotonic_proofs, SequenceTheorems

-----------------------------------------------------------------------------
(* Numbers                                                                 *)

LEMMA Times ==
  ASSUME NEW d \in Nat, NEW a \in Nat, NEW b \in Nat, a <= b
  PROVE  a * d \in Nat /\ b * d \in Nat /\ a * d <= b * d
<1>1. PICK c \in Nat : b = a + c
  <2>1. b - a \in Nat /\ b = a + (b - a)
    OBVIOUS
  <2> QED
    BY <2>1
<1>2. a * d \in Nat /\ c * d \in Nat
  OBVIOUS
<1>3. b * d = a * d + c * d
  BY <1>1
<1> QED
  BY <1>2, <1>3

\* Quotient and remainder of a number put together from them.
LEMMA Together ==
  ASSUME NEW d \in Nat \ {0}, NEW a \in Nat, NEW q \in 0 .. a - 1, NEW r \in 0 .. d - 1
  PROVE  /\ q * d + r \in 0 .. a * d - 1
         /\ (q * d + r) \div d = q /\ (q * d + r) % d = r
<1>1. q \in Nat /\ r \in Nat /\ q + 1 \in Nat /\ q + 1 <= a /\ d \in Nat
  OBVIOUS
<1>2. (q + 1) * d <= a * d /\ a * d \in Nat
  BY <1>1, Times
<1>3. (q + 1) * d = q * d + d /\ q * d \in Nat
  BY <1>1
<1>4. q * d + r \in 0 .. a * d - 1
  BY <1>1, <1>2, <1>3
<1>5. (q * d + r) \div d = q /\ (q * d + r) % d = r
  BY <1>1, <1>3
<1> QED
  BY <1>4, <1>5

\* A number below a multiple, taken apart.
LEMMA Apart ==
  ASSUME NEW d \in Nat \ {0}, NEW a \in Nat, NEW i \in 0 .. a * d - 1
  PROVE  /\ i \div d \in 0 .. a - 1 /\ i % d \in 0 .. d - 1
         /\ i = (i \div d) * d + (i % d)
<1>1. a * d \in Nat /\ i \in Nat /\ i < a * d
  <2>1. a * d \in Nat
    OBVIOUS
  <2> QED
    BY <2>1
<1>2. i % d \in 0 .. d - 1 /\ i \div d \in Nat
  BY <1>1
<1>3. i = d * (i \div d) + (i % d)
  BY <1>1
<1>4. i = (i \div d) * d + (i % d) /\ (i \div d) * d \in Nat
  BY <1>1, <1>2, <1>3
<1>5. ASSUME a <= i \div d PROVE FALSE
  <2>1. a * d <= (i \div d) * d
    BY <1>2, <1>5, Times
  <2> QED
    BY <1>1, <1>2, <1>4, <2>1
<1> QED
  BY <1>2, <1>4, <1>5

LEMMA Sizes ==
  /\ width \in Nat \ {0} /\ height \in Nat \ {0} /\ channel \in Nat \ {0}
  /\ BlkWidth \in Nat \ {0} /\ BlkHeight \in Nat \ {0}
  /\ number_of_processes \in Nat \ {0}
  BY SizeAssumption DEF BlkWidth, BlkHeight, number_of_processes

-----------------------------------------------------------------------------
(* Bytes of the array and pixels of the picture                            *)

Row(i)  == (i \div channel) \div width
Col(i)  == (i \div channel) % width
Chan(i) == i % channel

InPicture(h, w) == h \in 0 .. height - 1 /\ w \in 0 .. width - 1

LEMMA TotalIs ==
  /\ height * width \in Nat /\ total = (height * width) * channel /\ total \in Nat
<1>1. \A w, h \in Nat : h * w \in Nat /\ w * h = h * w
  OBVIOUS
<1>2. height * width \in Nat /\ width * height = height * width /\ channel \in Nat
  BY <1>1, Sizes
<1> QED
  BY <1>1, <1>2 DEF total

\* A byte belongs to one channel of one pixel.
LEMMA ByteIs ==
  ASSUME NEW i \in Bytes
  PROVE  /\ i \in Nat
         /\ InPicture(Row(i), Col(i)) /\ Chan(i) \in Channels
         /\ i \div channel = Row(i) * width + Col(i)
         /\ i = Index(Row(i), Col(i), Chan(i))
<1>1. i \in 0 .. (height * width) * channel - 1
  BY TotalIs DEF Bytes
<1>2. /\ i \div channel \in 0 .. height * width - 1 /\ Chan(i) \in 0 .. channel - 1
      /\ i = (i \div channel) * channel + Chan(i)
  BY <1>1, Apart, Sizes, TotalIs DEF Chan
<1>3. /\ Row(i) \in 0 .. height - 1 /\ Col(i) \in 0 .. width - 1
      /\ i \div channel = Row(i) * width + Col(i)
  BY <1>2, Apart, Sizes DEF Row, Col
<1>4. i \in Nat
  BY TotalIs DEF Bytes
<1> QED
  BY <1>2, <1>3, <1>4 DEF InPicture, Channels, Index

\* Every channel of a pixel has its byte.
LEMMA IndexIs ==
  ASSUME NEW h, NEW w, InPicture(h, w), NEW c \in Channels
  PROVE  /\ Index(h, w, c) \in Bytes
         /\ Row(Index(h, w, c)) = h /\ Col(Index(h, w, c)) = w /\ Chan(Index(h, w, c)) = c
<1> DEFINE n == h * width + w
<1>1. h \in 0 .. height - 1 /\ w \in 0 .. width - 1 /\ c \in 0 .. channel - 1
  BY DEF InPicture, Channels
<1>2. n \in 0 .. height * width - 1 /\ n \div width = h /\ n % width = w
  BY <1>1, Sizes, Together
<1> HIDE DEF n
<1>3. /\ n * channel + c \in 0 .. (height * width) * channel - 1
      /\ (n * channel + c) \div channel = n /\ (n * channel + c) % channel = c
  BY <1>1, <1>2, Sizes, TotalIs, Together
<1>4. Index(h, w, c) = n * channel + c
  BY DEF Index, n
<1> QED
  BY <1>2, <1>3, <1>4, TotalIs DEF Bytes, Row, Col, Chan

\* The test Put makes of a byte is whether it belongs to the pixel.
LEMMA PixelOfByte ==
  ASSUME NEW h, NEW w, InPicture(h, w), NEW i \in Bytes
  PROVE  i \div channel = h * width + w <=> Row(i) = h /\ Col(i) = w
<1>1. h \in 0 .. height - 1 /\ w \in 0 .. width - 1
  BY DEF InPicture
<1>2. (h * width + w) \div width = h /\ (h * width + w) % width = w
  BY <1>1, Sizes, Together
<1>3. i \div channel = Row(i) * width + Col(i)
  BY ByteIs
<1> QED
  BY <1>2, <1>3 DEF Row, Col

\* The byte of the same channel of the pixel to the right.
LEMMA RightOf ==
  ASSUME NEW i \in Bytes, Col(i) < width - 1
  PROVE  /\ Index(Row(i), Col(i) + 1, Chan(i)) = i + channel
         /\ i + channel \in Bytes
         /\ Row(i + channel) = Row(i) /\ Col(i + channel) = Col(i) + 1
         /\ Chan(i + channel) = Chan(i)
<1>1. /\ InPicture(Row(i), Col(i)) /\ Chan(i) \in Channels
      /\ i = Index(Row(i), Col(i), Chan(i))
  BY ByteIs
<1>2. InPicture(Row(i), Col(i) + 1)
  BY <1>1, Sizes DEF InPicture
<1>3. Index(Row(i), Col(i) + 1, Chan(i)) = i + channel
  <2> DEFINE n == Row(i) * width + Col(i)
  <2>1. n \in Nat /\ Row(i) * width \in Nat /\ Col(i) \in Nat
    <3>1. Row(i) \in Nat /\ Col(i) \in Nat /\ width \in Nat
      BY <1>1, Sizes DEF InPicture
    <3> QED
      BY <3>1
  <2>2. Row(i) * width + (Col(i) + 1) = n + 1
    BY <2>1
  <2>3. (n + 1) * channel = n * channel + channel /\ n * channel \in Nat
    BY <2>1, Sizes
  <2>4. i = n * channel + Chan(i)
    BY <1>1 DEF Index
  <2>5. Index(Row(i), Col(i) + 1, Chan(i)) = (n + 1) * channel + Chan(i)
    BY <2>2 DEF Index
  <2>6. Chan(i) \in Nat /\ channel \in Nat
    BY <1>1, Sizes DEF Channels
  <2> HIDE DEF n
  <2> QED
    BY <2>3, <2>4, <2>5, <2>6
<1> QED
  BY <1>1, <1>2, <1>3, IndexIs

-----------------------------------------------------------------------------
(* Blocks                                                                  *)

LEMMA BlocksAlongIs ==
  ASSUME NEW side \in Nat \ {0}, NEW blk \in Nat \ {0}
  PROVE  /\ BlocksAlong(side, blk) \in Nat \ {0}
         /\ side <= BlocksAlong(side, blk) * blk
         /\ (BlocksAlong(side, blk) - 1) * blk < side
         /\ BlocksAlong(side, blk) * blk = (BlocksAlong(side, blk) - 1) * blk + blk
         /\ (BlocksAlong(side, blk) - 1) * blk \in Nat
<1> DEFINE q == side \div blk
           r == side % blk
<1>1. q \in Nat /\ r \in 0 .. blk - 1 /\ side = blk * q + r
  OBVIOUS
<1>2. q * blk \in Nat /\ side = q * blk + r
  BY <1>1
<1>3. q = 0 => q * blk = 0
  OBVIOUS
<1> HIDE DEF q, r
<1>4. BlocksAlong(side, blk) = q + (IF r > 0 THEN 1 ELSE 0)
  BY DEF BlocksAlong, q, r
<1>5. CASE r > 0
  <2>1. BlocksAlong(side, blk) = q + 1 /\ (q + 1) * blk = q * blk + blk /\ (q + 1) - 1 = q
    BY <1>1, <1>4, <1>5
  <2> QED
    BY <1>1, <1>2, <1>5, <2>1
<1>6. CASE r = 0
  <2>1. BlocksAlong(side, blk) = q /\ q # 0
    BY <1>1, <1>2, <1>3, <1>4, <1>6
  <2>2. q - 1 \in Nat /\ (q - 1) * blk \in Nat /\ q * blk = (q - 1) * blk + blk
    BY <1>1, <2>1
  <2> QED
    BY <1>1, <1>2, <1>6, <2>1, <2>2
<1> QED
  BY <1>1, <1>5, <1>6

\* A block begins at a multiple of its size, and ends before the next block
\* begins and before the side ends.
LEMMA SpanIs ==
  ASSUME NEW side \in Nat \ {0}, NEW blk \in Nat \ {0},
         NEW x \in 0 .. BlocksAlong(side, blk) - 1
  PROVE  /\ x * blk \in Nat
         /\ BlockEnd(x, blk, side, BlocksAlong(side, blk)) \in x * blk .. side - 1
         /\ BlockEnd(x, blk, side, BlocksAlong(side, blk)) < (x + 1) * blk
<1> DEFINE n == BlocksAlong(side, blk)
<1>1. /\ n \in Nat \ {0} /\ side <= n * blk /\ (n - 1) * blk < side
      /\ n * blk = (n - 1) * blk + blk /\ (n - 1) * blk \in Nat
  BY BlocksAlongIs
<1> HIDE DEF n
<1>2. x \in Nat /\ x <= n - 1
  BY <1>1 DEF n
<1>3. x * blk \in Nat /\ (x + 1) * blk = x * blk + blk
  BY <1>2
<1>4. CASE x = n - 1
  BY <1>1, <1>3, <1>4 DEF BlockEnd, n
<1>5. CASE x # n - 1
  <2>1. x + 1 \in Nat /\ n - 1 \in Nat /\ x + 1 <= n - 1
    BY <1>1, <1>2, <1>5
  <2>2. (x + 1) * blk <= (n - 1) * blk
    BY <2>1, Times
  <2>3. BlockEnd(x, blk, side, n) = (x + 1) * blk - 1
    BY <1>5 DEF BlockEnd
  <2> QED
    BY <1>1, <1>3, <2>2, <2>3 DEF n
<1> QED
  BY <1>4, <1>5

LEMMA SpansApart ==
  ASSUME NEW side \in Nat \ {0}, NEW blk \in Nat \ {0},
         NEW x \in 0 .. BlocksAlong(side, blk) - 1,
         NEW y \in 0 .. BlocksAlong(side, blk) - 1, x < y
  PROVE  BlockEnd(x, blk, side, BlocksAlong(side, blk)) < y * blk
<1>1. BlocksAlong(side, blk) \in Nat
  BY BlocksAlongIs
<1>2. x + 1 \in Nat /\ y \in Nat /\ x + 1 <= y
  BY <1>1
<1>3. (x + 1) * blk <= y * blk /\ (x + 1) * blk \in Nat /\ y * blk \in Nat
  BY <1>2, Times
<1>4. /\ BlockEnd(x, blk, side, BlocksAlong(side, blk)) < (x + 1) * blk
      /\ BlockEnd(x, blk, side, BlocksAlong(side, blk)) \in Int
  BY SpanIs
<1> QED
  BY <1>3, <1>4

\* The tasks of the second pool, and of the first.
Blocks   == {BlockTasks[n] : n \in 1 .. Columns * Rows}
CopySet  == {CopyTasks[n] : n \in 1 .. number_of_processes}

IsSpan(a, b, side) == a \in Nat /\ b \in a .. side - 1

LEMMA Grid == Columns \in Nat \ {0} /\ Rows \in Nat \ {0} /\ Columns * Rows \in Nat
<1>1. Columns \in Nat \ {0} /\ Rows \in Nat \ {0}
  BY Sizes, BlocksAlongIs DEF Columns, Rows
<1> QED
  BY <1>1

LEMMA BlockIs ==
  ASSUME NEW x \in 0 .. Columns - 1, NEW y \in 0 .. Rows - 1
  PROVE  /\ Block(x, y).kind = "block"
         /\ Block(x, y).start_x = x * BlkWidth /\ Block(x, y).start_y = y * BlkHeight
         /\ Block(x, y).end_x = BlockEnd(x, BlkWidth, width, Columns)
         /\ Block(x, y).end_y = BlockEnd(y, BlkHeight, height, Rows)
         /\ IsSpan(Block(x, y).start_x, Block(x, y).end_x, width)
         /\ IsSpan(Block(x, y).start_y, Block(x, y).end_y, height)
<1>1. /\ x * BlkWidth \in Nat
      /\ BlockEnd(x, BlkWidth, width, Columns) \in x * BlkWidth .. width - 1
  BY Sizes, SpanIs DEF Columns
<1>2. /\ y * BlkHeight \in Nat
      /\ BlockEnd(y, BlkHeight, height, Rows) \in y * BlkHeight .. height - 1
  BY Sizes, SpanIs DEF Rows
<1> QED
  BY <1>1, <1>2 DEF Block, IsSpan

\* The n-th task put is the block of its column and row.
LEMMA BlockAt ==
  ASSUME NEW n \in 1 .. Columns * Rows
  PROVE  /\ (n - 1) \div Rows \in 0 .. Columns - 1 /\ (n - 1) % Rows \in 0 .. Rows - 1
         /\ n - 1 = ((n - 1) \div Rows) * Rows + ((n - 1) % Rows)
         /\ BlockTasks[n] = Block((n - 1) \div Rows, (n - 1) % Rows)
         /\ BlockTasks[n] \in Blocks
<1>1. n - 1 \in 0 .. Columns * Rows - 1
  BY Grid
<1>2. BlockTasks[n] = Block((n - 1) \div Rows, (n - 1) % Rows) /\ BlockTasks[n] \in Blocks
  BY DEF BlockTasks, Blocks
<1> QED
  BY <1>1, <1>2, Apart, Grid

LEMMA BlockOfSet ==
  ASSUME NEW t \in Blocks
  PROVE  /\ \E x \in 0 .. Columns - 1, y \in 0 .. Rows - 1 : t = Block(x, y)
         /\ t.kind = "block"
         /\ IsSpan(t.start_x, t.end_x, width) /\ IsSpan(t.start_y, t.end_y, height)
<1>1. PICK n \in 1 .. Columns * Rows : t = BlockTasks[n]
  BY DEF Blocks
<1>2. PICK x \in 0 .. Columns - 1, y \in 0 .. Rows - 1 : t = Block(x, y)
  BY <1>1, BlockAt
<1> QED
  BY <1>2, BlockIs

\* Different blocks have no pixel in common, not even an edge.
Separate(t, u) ==
  t.end_x < u.start_x \/ u.end_x < t.start_x \/ t.end_y < u.start_y \/ u.end_y < t.start_y

LEMMA PlacesApart ==
  ASSUME NEW x \in 0 .. Columns - 1, NEW y \in 0 .. Rows - 1,
         NEW x2 \in 0 .. Columns - 1, NEW y2 \in 0 .. Rows - 1, x # x2 \/ y # y2
  PROVE  Separate(Block(x, y), Block(x2, y2))
<1>1. x < x2 => BlockEnd(x, BlkWidth, width, Columns) < x2 * BlkWidth
  BY Sizes, SpansApart DEF Columns
<1>2. x2 < x => BlockEnd(x2, BlkWidth, width, Columns) < x * BlkWidth
  BY Sizes, SpansApart DEF Columns
<1>3. y < y2 => BlockEnd(y, BlkHeight, height, Rows) < y2 * BlkHeight
  BY Sizes, SpansApart DEF Rows
<1>4. y2 < y => BlockEnd(y2, BlkHeight, height, Rows) < y * BlkHeight
  BY Sizes, SpansApart DEF Rows
<1>5. x < x2 \/ x2 < x \/ y < y2 \/ y2 < y
  BY Grid
<1> QED
  BY <1>1, <1>2, <1>3, <1>4, <1>5, BlockIs DEF Separate

LEMMA BlocksSeparate ==
  ASSUME NEW t \in Blocks, NEW u \in Blocks, t # u
  PROVE  Separate(t, u)
<1>1. PICK x \in 0 .. Columns - 1, y \in 0 .. Rows - 1 : t = Block(x, y)
  BY BlockOfSet
<1>2. PICK x2 \in 0 .. Columns - 1, y2 \in 0 .. Rows - 1 : u = Block(x2, y2)
  BY BlockOfSet
<1>3. x # x2 \/ y # y2
  BY <1>1, <1>2
<1> QED
  BY <1>1, <1>2, <1>3, PlacesApart

LEMMA FootprintsApart ==
  ASSUME NEW t \in Blocks, NEW u \in Blocks, t # u
  PROVE  Footprint(t) \cap Footprint(u) = {}
<1>1. Separate(t, u)
  BY BlocksSeparate
<1>2. /\ IsSpan(t.start_x, t.end_x, width) /\ IsSpan(t.start_y, t.end_y, height)
      /\ IsSpan(u.start_x, u.end_x, width) /\ IsSpan(u.start_y, u.end_y, height)
  BY BlockOfSet
<1>3. \/ (t.start_x .. t.end_x) \cap (u.start_x .. u.end_x) = {}
      \/ (t.start_y .. t.end_y) \cap (u.start_y .. u.end_y) = {}
  BY <1>1, <1>2, Sizes DEF Separate, IsSpan
<1> QED
  BY <1>3 DEF Footprint

\* The place in the list tells a block from the others.
LEMMA OneBlockIndex ==
  ASSUME NEW n \in 1 .. Columns * Rows, NEW m \in 1 .. Columns * Rows, n # m
  PROVE  BlockTasks[n] # BlockTasks[m]
<1>1. /\ (n - 1) \div Rows \in 0 .. Columns - 1 /\ (n - 1) % Rows \in 0 .. Rows - 1
      /\ n - 1 = ((n - 1) \div Rows) * Rows + ((n - 1) % Rows)
      /\ BlockTasks[n] = Block((n - 1) \div Rows, (n - 1) % Rows)
  BY BlockAt
<1>2. /\ (m - 1) \div Rows \in 0 .. Columns - 1 /\ (m - 1) % Rows \in 0 .. Rows - 1
      /\ m - 1 = ((m - 1) \div Rows) * Rows + ((m - 1) % Rows)
      /\ BlockTasks[m] = Block((m - 1) \div Rows, (m - 1) % Rows)
  BY BlockAt
<1>3. n - 1 # m - 1
  BY Grid
<1>4. (n - 1) \div Rows # (m - 1) \div Rows \/ (n - 1) % Rows # (m - 1) % Rows
  BY <1>1, <1>2, <1>3
<1>5. Separate(BlockTasks[n], BlockTasks[m])
  BY <1>1, <1>2, <1>4, PlacesApart
<1>6. BlockTasks[n] \in Blocks
  BY BlockAt
<1>7. ~ Separate(BlockTasks[n], BlockTasks[n])
  <2>1. /\ IsSpan(BlockTasks[n].start_x, BlockTasks[n].end_x, width)
        /\ IsSpan(BlockTasks[n].start_y, BlockTasks[n].end_y, height)
    BY <1>6, BlockOfSet
  <2> QED
    BY <2>1, Sizes DEF IsSpan, Separate
<1> QED
  BY <1>5, <1>7

-----------------------------------------------------------------------------
(* Pixels of a block                                                       *)

\* The turn of the loops that visits a pixel.
TurnOf(t, h, w) == (h - t.start_y) * (t.end_x - t.start_x) + (w - t.start_x)

LEMMA InnerIsNat ==
  ASSUME NEW t \in Blocks
  PROVE  Inner(t) \in Nat /\ t.end_x - t.start_x \in Nat /\ t.end_y - t.start_y \in Nat
<1>1. t.end_x - t.start_x \in Nat /\ t.end_y - t.start_y \in Nat
  BY BlockOfSet, Sizes DEF IsSpan
<1>2. \A a, b \in Nat : a * b \in Nat
  OBVIOUS
<1> QED
  BY <1>1, <1>2 DEF Inner

\* An inner pixel is neither in the last row nor in the last column of the
\* picture.
LEMMA InBlockIs ==
  ASSUME NEW t \in Blocks, NEW h, NEW w, InBlock(t, h, w)
  PROVE  /\ InPicture(h, w) /\ w < width - 1 /\ h < height - 1
         /\ h - t.start_y \in 0 .. (t.end_y - t.start_y) - 1
         /\ w - t.start_x \in 0 .. (t.end_x - t.start_x) - 1
         /\ t.end_x - t.start_x \in Nat \ {0}
         /\ h = t.start_y + (h - t.start_y) /\ w = t.start_x + (w - t.start_x)
<1>1. IsSpan(t.start_x, t.end_x, width) /\ IsSpan(t.start_y, t.end_y, height)
  BY BlockOfSet
<1>2. h \in t.start_y .. t.end_y - 1 /\ w \in t.start_x .. t.end_x - 1
  BY DEF InBlock
<1> QED
  BY <1>1, <1>2, Sizes DEF IsSpan, InPicture

LEMMA TurnIs ==
  ASSUME NEW t \in Blocks, NEW h, NEW w, InBlock(t, h, w)
  PROVE  /\ TurnOf(t, h, w) \in 0 .. Inner(t) - 1
         /\ InnerRow(t, TurnOf(t, h, w)) = h /\ InnerCol(t, TurnOf(t, h, w)) = w
<1> DEFINE d == t.end_x - t.start_x
           a == t.end_y - t.start_y
           q == h - t.start_y
           r == w - t.start_x
<1>1. /\ q \in 0 .. a - 1 /\ r \in 0 .. d - 1 /\ d \in Nat \ {0} /\ a \in Nat
      /\ h = t.start_y + q /\ w = t.start_x + r
  BY InBlockIs, InnerIsNat
<1>2. TurnOf(t, h, w) = q * d + r /\ Inner(t) = d * a
  BY DEF TurnOf, Inner
<1> HIDE DEF q, r, a
<1>3. d * a = a * d
  BY <1>1
<1>4. q * d + r \in 0 .. a * d - 1 /\ (q * d + r) \div d = q /\ (q * d + r) % d = r
  BY <1>1, Together
<1>5. InnerRow(t, q * d + r) = h /\ InnerCol(t, q * d + r) = w
  BY <1>1, <1>4 DEF InnerRow, InnerCol
<1> QED
  BY <1>2, <1>3, <1>4, <1>5

LEMMA TurnBack ==
  ASSUME NEW t \in Blocks, NEW k \in 0 .. Inner(t) - 1
  PROVE  /\ InBlock(t, InnerRow(t, k), InnerCol(t, k))
         /\ TurnOf(t, InnerRow(t, k), InnerCol(t, k)) = k
<1> DEFINE d == t.end_x - t.start_x
           a == t.end_y - t.start_y
<1>1. /\ IsSpan(t.start_x, t.end_x, width) /\ IsSpan(t.start_y, t.end_y, height)
      /\ d \in Nat /\ a \in Nat
  BY BlockOfSet, InnerIsNat
<1>2. /\ t.start_x \in Nat /\ t.start_y \in Nat /\ t.end_x \in Nat /\ t.end_y \in Nat
      /\ t.end_x = t.start_x + d /\ t.end_y = t.start_y + a
  BY <1>1, Sizes DEF IsSpan
<1> HIDE DEF d, a
<1>3. Inner(t) = a * d /\ d # 0
  <2>1. Inner(t) = d * a
    BY DEF Inner, d, a
  <2>2. d * a = a * d /\ (d = 0 => d * a = 0)
    BY <1>1
  <2> QED
    BY <2>1, <2>2
<1>4. k \div d \in 0 .. a - 1 /\ k % d \in 0 .. d - 1 /\ k = (k \div d) * d + (k % d)
  BY <1>1, <1>3, Apart
<1>5. InnerRow(t, k) = t.start_y + (k \div d) /\ InnerCol(t, k) = t.start_x + (k % d)
  BY DEF InnerRow, InnerCol, d
<1>6. /\ InnerRow(t, k) - t.start_y = k \div d /\ InnerCol(t, k) - t.start_x = k % d
      /\ InnerRow(t, k) \in t.start_y .. t.end_y - 1
      /\ InnerCol(t, k) \in t.start_x .. t.end_x - 1
  BY <1>1, <1>2, <1>4, <1>5
<1>7. TurnOf(t, InnerRow(t, k), InnerCol(t, k)) = k
  BY <1>4, <1>6 DEF TurnOf, d
<1> QED
  BY <1>6, <1>7 DEF InBlock

\* The mark of an inner pixel is a level of each channel.
LEMMA MarkOfIs ==
  ASSUME NEW t \in Blocks, NEW h, NEW w, InBlock(t, h, w), NEW c \in Channels
  PROVE  MarkOf(t, h, w)[c] \in Level
<1> DEFINE sw == t.end_x - t.start_x + 1
           sh == t.end_y - t.start_y + 1
<1>1. sw \in 1 .. width /\ sh \in 1 .. height
  BY BlockOfSet, Sizes DEF IsSpan
<1>2. w - t.start_x \in 0 .. sw - 1 /\ h - t.start_y \in 0 .. sh - 1
  BY InBlockIs, BlockOfSet, Sizes DEF IsSpan
<1>3. MarkOf(t, h, w) = Watermark[<<sw, sh>>][<<w - t.start_x, h - t.start_y>>]
  BY DEF MarkOf
<1> HIDE DEF sw, sh
<1> QED
  BY <1>1, <1>2, <1>3, WatermarkAssumption

-----------------------------------------------------------------------------
(* Marking and unmarking, byte by byte                                     *)

InnerByte(t, i) == InBlock(t, Row(i), Col(i))
MarkAt(t, i)    == MarkOf(t, Row(i), Col(i))

AddByte(A, t, i) ==
  IF MarkAt(t, i) = White THEN A[i]
  ELSE MarkLevel(A[i + channel], MarkAt(t, i)[Chan(i)], A[i])

RemoveByte(A, t, i) ==
  IF MarkAt(t, i) = White THEN A[i]
  ELSE UnmarkLevel(A[i + channel], MarkAt(t, i)[Chan(i)], A[i])

LEMMA InnerByteIs ==
  ASSUME NEW i \in Bytes, NEW t \in Blocks, InnerByte(t, i)
  PROVE  /\ i + channel \in Bytes /\ MarkAt(t, i)[Chan(i)] \in Level
         /\ Index(Row(i), Col(i) + 1, Chan(i)) = i + channel
         /\ Row(i + channel) = Row(i) /\ Col(i + channel) = Col(i) + 1
         /\ Col(i) < width - 1 /\ Row(i) < height - 1
<1>1. InBlock(t, Row(i), Col(i))
  BY DEF InnerByte
<1>2. Col(i) < width - 1 /\ Row(i) < height - 1
  BY <1>1, InBlockIs
<1>3. Chan(i) \in Channels
  BY ByteIs
<1>4. MarkOf(t, Row(i), Col(i))[Chan(i)] \in Level
  BY <1>1, <1>3, MarkOfIs
<1> QED
  BY <1>2, <1>4, RightOf DEF MarkAt

LEMMA BytesAreLevels ==
  ASSUME NEW A \in [Bytes -> Level], NEW i \in Bytes, NEW t \in Blocks, InnerByte(t, i)
  PROVE  AddByte(A, t, i) \in Level /\ RemoveByte(A, t, i) \in Level
<1>1. i + channel \in Bytes /\ MarkAt(t, i)[Chan(i)] \in Level
  BY InnerByteIs
<1>2. A[i] \in Level /\ A[i + channel] \in Level
  BY <1>1
<1> QED
  BY <1>1, <1>2, MarkIsLevel DEF AddByte, RemoveByte

\* Put changes the bytes of one pixel.
LEMMA PutIs ==
  ASSUME NEW A \in [Bytes -> Level], NEW h, NEW w, InPicture(h, w), NEW v
  PROVE  Put(A, h, w, v)
           = [i \in Bytes |-> IF Row(i) = h /\ Col(i) = w THEN v[Chan(i)] ELSE A[i]]
  BY PixelOfByte DEF Put, Chan

\* What one turn of the loops does to the array.
OneTurn(A, h, w, B) == [i \in Bytes |-> IF Row(i) = h /\ Col(i) = w THEN B[i] ELSE A[i]]

LEMMA AddPixelIs ==
  ASSUME NEW A \in [Bytes -> Level], NEW t \in Blocks, NEW h, NEW w, InBlock(t, h, w)
  PROVE  AddPixel(A, t, h, w) = OneTurn(A, h, w, [i \in Bytes |-> AddByte(A, t, i)])
<1> DEFINE v == [c \in Channels |->
                   MarkLevel(estimate_a(A, h, w)[c], MarkOf(t, h, w)[c], Pixel(A, h, w)[c])]
<1>1. InPicture(h, w)
  BY InBlockIs
<1>2. CASE MarkOf(t, h, w) = White
  <2>1. AddPixel(A, t, h, w) = A
    BY <1>2 DEF AddPixel
  <2>2. \A i \in Bytes : Row(i) = h /\ Col(i) = w => AddByte(A, t, i) = A[i]
    BY <1>2 DEF AddByte, MarkAt
  <2>3. A = [i \in Bytes |-> A[i]]
    OBVIOUS
  <2> QED
    BY <2>1, <2>2, <2>3 DEF OneTurn
<1>3. CASE MarkOf(t, h, w) # White
  <2>1. AddPixel(A, t, h, w) = Put(A, h, w, v)
    BY <1>3 DEF AddPixel
  <2>2. ASSUME NEW i \in Bytes, Row(i) = h, Col(i) = w
        PROVE  v[Chan(i)] = AddByte(A, t, i)
    <3>1. Chan(i) \in Channels /\ i = Index(h, w, Chan(i))
      BY <2>2, ByteIs
    <3>2. Index(h, w + 1, Chan(i)) = i + channel
      BY <2>2, InnerByteIs DEF InnerByte
    <3>3. estimate_a(A, h, w)[Chan(i)] = A[i + channel] /\ Pixel(A, h, w)[Chan(i)] = A[i]
      BY <3>1, <3>2 DEF estimate_a, Pixel
    <3> QED
      BY <1>3, <2>2, <3>1, <3>3 DEF AddByte, MarkAt
  <2> HIDE DEF v
  <2> QED
    BY <1>1, <2>1, <2>2, PutIs DEF OneTurn
<1> QED
  BY <1>2, <1>3

LEMMA RemovePixelIs ==
  ASSUME NEW A \in [Bytes -> Level], NEW t \in Blocks, NEW h, NEW w, InBlock(t, h, w)
  PROVE  RemovePixel(A, t, h, w) = OneTurn(A, h, w, [i \in Bytes |-> RemoveByte(A, t, i)])
<1> DEFINE v == [c \in Channels |->
                   UnmarkLevel(estimate_a(A, h, w)[c], MarkOf(t, h, w)[c], Pixel(A, h, w)[c])]
<1>1. InPicture(h, w)
  BY InBlockIs
<1>2. CASE MarkOf(t, h, w) = White
  <2>1. RemovePixel(A, t, h, w) = A
    BY <1>2 DEF RemovePixel
  <2>2. \A i \in Bytes : Row(i) = h /\ Col(i) = w => RemoveByte(A, t, i) = A[i]
    BY <1>2 DEF RemoveByte, MarkAt
  <2>3. A = [i \in Bytes |-> A[i]]
    OBVIOUS
  <2> QED
    BY <2>1, <2>2, <2>3 DEF OneTurn
<1>3. CASE MarkOf(t, h, w) # White
  <2>1. RemovePixel(A, t, h, w) = Put(A, h, w, v)
    BY <1>3 DEF RemovePixel
  <2>2. ASSUME NEW i \in Bytes, Row(i) = h, Col(i) = w
        PROVE  v[Chan(i)] = RemoveByte(A, t, i)
    <3>1. Chan(i) \in Channels /\ i = Index(h, w, Chan(i))
      BY <2>2, ByteIs
    <3>2. Index(h, w + 1, Chan(i)) = i + channel
      BY <2>2, InnerByteIs DEF InnerByte
    <3>3. estimate_a(A, h, w)[Chan(i)] = A[i + channel] /\ Pixel(A, h, w)[Chan(i)] = A[i]
      BY <3>1, <3>2 DEF estimate_a, Pixel
    <3> QED
      BY <1>3, <2>2, <3>1, <3>3 DEF RemoveByte, MarkAt
  <2> HIDE DEF v
  <2> QED
    BY <1>1, <2>1, <2>2, PutIs DEF OneTurn
<1> QED
  BY <1>2, <1>3

\* Blocks have no inner pixel in common.
LEMMA OneBlock ==
  ASSUME NEW t \in Blocks, NEW u \in Blocks, NEW h, NEW w, InBlock(t, h, w), InBlock(u, h, w)
  PROVE  t = u
<1>1. ASSUME t # u PROVE FALSE
  <2>1. Footprint(t) \cap Footprint(u) = {}
    BY <1>1, FootprintsApart
  <2>2. /\ IsSpan(t.start_x, t.end_x, width) /\ IsSpan(t.start_y, t.end_y, height)
        /\ IsSpan(u.start_x, u.end_x, width) /\ IsSpan(u.start_y, u.end_y, height)
    BY BlockOfSet
  <2>3. /\ w \in t.start_x .. t.end_x /\ h \in t.start_y .. t.end_y
        /\ w \in u.start_x .. u.end_x /\ h \in u.start_y .. u.end_y
    BY <2>2, Sizes DEF InBlock, IsSpan
  <2>4. <<w, h>> \in Footprint(t) /\ <<w, h>> \in Footprint(u)
    BY <2>3 DEF Footprint
  <2> QED
    BY <2>1, <2>4
<1> QED
  BY <1>1

\* What Marked says, with the block named.
LEMMA MarkedIs ==
  ASSUME NEW A \in [Bytes -> Level], NEW i \in Bytes
  PROVE  /\ \A t \in Blocks : InnerByte(t, i) => Marked(A)[i] = AddByte(A, t, i)
         /\ (\A t \in Blocks : ~ InnerByte(t, i)) => Marked(A)[i] = A[i]
<1> DEFINE Here(n) == InBlock(BlockTasks[n], Row(i), Col(i))
           D == DOMAIN BlockTasks
<1>1. D = 1 .. Columns * Rows
  BY DEF BlockTasks
<1>2. \A n \in D : BlockTasks[n] \in Blocks
  BY <1>1, BlockAt
<1>3. Marked(A)[i] = IF \E n \in D : Here(n)
                     THEN AddPixel(A, BlockTasks[CHOOSE n \in D : Here(n)], Row(i), Col(i))[i]
                     ELSE A[i]
  BY DEF Marked, Row, Col
<1>4. ASSUME NEW t \in Blocks, InnerByte(t, i)
      PROVE  Marked(A)[i] = AddByte(A, t, i)
  <2>1. PICK m \in D : BlockTasks[m] = t
    BY <1>1 DEF Blocks
  <2>2. Here(m)
    BY <1>4, <2>1 DEF InnerByte
  <2>3. PICK n \in D : n = CHOOSE k \in D : Here(k)
    BY <2>2
  <2>4. Here(n)
    BY <2>2, <2>3
  <2>5. BlockTasks[n] = t
    BY <1>2, <1>4, <2>4, OneBlock DEF InnerByte
  <2>6. Marked(A)[i] = AddPixel(A, t, Row(i), Col(i))[i]
    BY <1>3, <2>2, <2>3, <2>5
  <2>7. AddPixel(A, t, Row(i), Col(i))
          = OneTurn(A, Row(i), Col(i), [j \in Bytes |-> AddByte(A, t, j)])
    BY <1>4, AddPixelIs DEF InnerByte
  <2> QED
    BY <2>6, <2>7 DEF OneTurn
<1>5. ASSUME \A t \in Blocks : ~ InnerByte(t, i)
      PROVE  Marked(A)[i] = A[i]
  <2>1. \A n \in D : ~ Here(n)
    BY <1>2, <1>5 DEF InnerByte
  <2> QED
    BY <1>3, <2>1
<1> QED
  BY <1>4, <1>5

InnerBytes == {i \in Bytes : \E t \in Blocks : InnerByte(t, i)}

LEMMA MarkedIsPicture ==
  ASSUME NEW A \in [Bytes -> Level]
  PROVE  Marked(A) \in [Bytes -> Level]
<1>1. \A i \in Bytes : Marked(A)[i] \in Level
  <2> SUFFICES ASSUME NEW i \in Bytes PROVE Marked(A)[i] \in Level
    OBVIOUS
  <2>1. CASE \E t \in Blocks : InnerByte(t, i)
    BY <2>1, MarkedIs, BytesAreLevels
  <2>2. CASE \A t \in Blocks : ~ InnerByte(t, i)
    BY <2>2, MarkedIs
  <2> QED
    BY <2>1, <2>2
<1>2. Marked(A) = [i \in Bytes |-> Marked(A)[i]]
  BY DEF Marked
<1> QED
  BY <1>1, <1>2

\* Marking, then unmarking with the estimate of before, gives the byte back.
LEMMA RemoveUndoesAdd ==
  ASSUME NEW T \in [Bytes -> Level], NEW A \in [Bytes -> Level],
         NEW i \in Bytes, NEW t \in Blocks, InnerByte(t, i),
         A[i] = AddByte(T, t, i), A[i + channel] = T[i + channel]
  PROVE  RemoveByte(A, t, i) = T[i]
<1>1. i + channel \in Bytes /\ MarkAt(t, i)[Chan(i)] \in Level
  BY InnerByteIs
<1>2. T[i] \in Level /\ T[i + channel] \in Level
  BY <1>1
<1>3. UnmarkLevel(T[i + channel], MarkAt(t, i)[Chan(i)],
                  MarkLevel(T[i + channel], MarkAt(t, i)[Chan(i)], T[i])) = T[i]
  BY <1>1, <1>2, UnmarkUndoesMark
<1> QED
  BY <1>3 DEF AddByte, RemoveByte

\* The pixel to the right is visited on the next turn, or never: what the loops
\* read beside the pixel they write.
LEMMA Neighbour ==
  ASSUME NEW i \in Bytes, NEW t \in Blocks, InnerByte(t, i)
  PROVE  /\ i + channel \in Bytes
         /\ \/ /\ InnerByte(t, i + channel)
               /\ TurnOf(t, Row(i + channel), Col(i + channel)) = TurnOf(t, Row(i), Col(i)) + 1
            \/ i + channel \notin InnerBytes
<1> DEFINE j == i + channel
           h == Row(i)
           w == Col(i)
<1>1. j \in Bytes /\ Row(j) = h /\ Col(j) = w + 1
  BY InnerByteIs
<1>2. IsSpan(t.start_x, t.end_x, width) /\ IsSpan(t.start_y, t.end_y, height)
  BY BlockOfSet
<1>3. h \in t.start_y .. t.end_y - 1 /\ w \in t.start_x .. t.end_x - 1
  BY DEF InnerByte, InBlock
<1> HIDE DEF j, h, w
<1>4. CASE w + 1 < t.end_x
  <2>1. InBlock(t, h, w + 1)
    BY <1>2, <1>3, <1>4, Sizes DEF InBlock, IsSpan
  <2>2. TurnOf(t, h, w + 1) = TurnOf(t, h, w) + 1
    <3>1. /\ h - t.start_y \in Nat /\ t.end_x - t.start_x \in Nat
          /\ (w + 1) - t.start_x = (w - t.start_x) + 1 /\ w - t.start_x \in Nat
      BY <1>2, <1>3, Sizes DEF IsSpan
    <3>2. (h - t.start_y) * (t.end_x - t.start_x) \in Nat
      BY <3>1
    <3> QED
      BY <3>1, <3>2 DEF TurnOf
  <2> QED
    BY <1>1, <2>1, <2>2 DEF InnerByte, j, h, w
<1>5. CASE ~ (w + 1 < t.end_x)
  <2>1. w + 1 = t.end_x
    BY <1>2, <1>3, <1>5, Sizes DEF IsSpan
  <2>2. ASSUME NEW u \in Blocks, InnerByte(u, j) PROVE FALSE
    <3>1. InBlock(u, h, t.end_x)
      BY <1>1, <2>1, <2>2 DEF InnerByte
    <3>2. t # u
      BY <1>2, <3>1, Sizes DEF InBlock, IsSpan
    <3>3. Footprint(t) \cap Footprint(u) = {}
      BY <3>2, FootprintsApart
    <3>4. IsSpan(u.start_x, u.end_x, width) /\ IsSpan(u.start_y, u.end_y, height)
      BY BlockOfSet
    <3>5. /\ t.end_x \in t.start_x .. t.end_x /\ h \in t.start_y .. t.end_y
          /\ t.end_x \in u.start_x .. u.end_x /\ h \in u.start_y .. u.end_y
      BY <1>2, <1>3, <3>1, <3>4, Sizes DEF InBlock, IsSpan
    <3>6. <<t.end_x, h>> \in Footprint(t) /\ <<t.end_x, h>> \in Footprint(u)
      BY <3>5 DEF Footprint
    <3> QED
      BY <3>3, <3>6
  <2> QED
    BY <1>1, <2>2 DEF InnerBytes, j
<1> QED
  BY <1>4, <1>5

-----------------------------------------------------------------------------
(* The copying tasks                                                       *)

BytesOf(t) == t.start .. t.end - 1

CopyBytes == {i \in Bytes : i < number_of_processes * Share}

LEMMA ShareIs ==
  /\ Share \in Nat /\ number_of_processes * Share \in Nat
  /\ number_of_processes * Share <= total
<1>1. number_of_processes \in Nat \ {0} /\ total \in Nat
  BY Sizes, TotalIs
<1>2. /\ total = number_of_processes * (total \div number_of_processes)
                   + (total % number_of_processes)
      /\ total \div number_of_processes \in Nat /\ total % number_of_processes \in Nat
  BY <1>1
<1>3. number_of_processes * Share \in Nat
  BY <1>1, <1>2 DEF Share
<1> QED
  BY <1>1, <1>2, <1>3 DEF Share

LEMMA CopyAt ==
  ASSUME NEW n \in 1 .. number_of_processes
  PROVE  /\ CopyTasks[n] \in CopySet /\ CopyTasks[n].kind = "copy"
         /\ CopyTasks[n].start = (n - 1) * Share
         /\ BytesOf(CopyTasks[n]) = (n - 1) * Share .. (n - 1) * Share + Share - 1
         /\ (n - 1) * Share \in Nat
<1>1. /\ CopyTasks[n] = [kind |-> "copy", start |-> (n - 1) * Share, end |-> n * Share]
      /\ CopyTasks[n] \in CopySet
  BY DEF CopyTasks, CopySet
<1>2. n - 1 \in Nat /\ Share \in Nat /\ n = (n - 1) + 1
  BY ShareIs
<1>3. (n - 1) * Share \in Nat /\ n * Share = (n - 1) * Share + Share
  BY <1>2
<1>4. /\ CopyTasks[n].kind = "copy" /\ CopyTasks[n].start = (n - 1) * Share
      /\ CopyTasks[n].end = (n - 1) * Share + Share
  BY <1>1, <1>3
<1> QED
  BY <1>1, <1>2, <1>3, <1>4 DEF BytesOf

\* The bytes of a task tell which task it is.
LEMMA CopyBytesAt ==
  ASSUME NEW n \in 1 .. number_of_processes, NEW i \in BytesOf(CopyTasks[n])
  PROVE  Share # 0 /\ i \in CopyBytes /\ i \div Share = n - 1
<1>1. /\ i \in (n - 1) * Share .. (n - 1) * Share + Share - 1
      /\ (n - 1) * Share \in Nat /\ Share \in Nat
  BY CopyAt, ShareIs
<1>2. PICK r \in 0 .. Share - 1 : i = (n - 1) * Share + r
  <2>1. i - (n - 1) * Share \in 0 .. Share - 1 /\ i = (n - 1) * Share + (i - (n - 1) * Share)
    BY <1>1
  <2> QED
    BY <2>1
<1>3. Share \in Nat \ {0} /\ n - 1 \in 0 .. number_of_processes - 1
  BY <1>1, <1>2, Sizes
<1>4. i \in 0 .. number_of_processes * Share - 1 /\ i \div Share = n - 1
  <2>1. PICK q \in 0 .. number_of_processes - 1 : q = n - 1
    BY <1>3
  <2>2. i = q * Share + r /\ number_of_processes \in Nat
    BY <1>2, <2>1, Sizes
  <2>3. /\ q * Share + r \in 0 .. number_of_processes * Share - 1
        /\ (q * Share + r) \div Share = q
    BY <1>3, <2>2, Together
  <2> QED
    BY <2>1, <2>2, <2>3
<1> QED
  BY <1>3, <1>4, ShareIs, TotalIs DEF CopyBytes, Bytes

LEMMA CopyOfByte ==
  ASSUME NEW i \in CopyBytes
  PROVE  \E t \in CopySet : i \in BytesOf(t)
<1>1. i \in 0 .. number_of_processes * Share - 1 /\ number_of_processes \in Nat
  BY ShareIs, Sizes, TotalIs DEF CopyBytes, Bytes
<1>2. Share \in Nat \ {0}
  <2>1. Share = 0 => number_of_processes * Share = 0
    BY <1>1
  <2> QED
    BY <1>1, <2>1, ShareIs
<1>3. /\ i \div Share \in 0 .. number_of_processes - 1 /\ i % Share \in 0 .. Share - 1
      /\ i = (i \div Share) * Share + (i % Share)
  BY <1>1, <1>2, Apart
<1> DEFINE n == (i \div Share) + 1
<1>4. n \in 1 .. number_of_processes /\ n - 1 = i \div Share
  BY <1>1, <1>3
<1>5. (n - 1) * Share \in Nat /\ i \in (n - 1) * Share .. (n - 1) * Share + Share - 1
  <2>1. (n - 1) * Share = (i \div Share) * Share
    BY <1>4
  <2>2. (n - 1) * Share \in Nat
    BY <1>4, CopyAt
  <2>3. PICK a \in Nat : a = (i \div Share) * Share
    BY <2>1, <2>2
  <2>4. PICK r \in 0 .. Share - 1 : i = a + r
    BY <1>3, <2>3
  <2>5. i \in a .. a + Share - 1
    BY <1>2, <2>4
  <2> QED
    BY <2>1, <2>3, <2>5
<1> QED
  BY <1>4, <1>5, CopyAt

LEMMA CopySetIs ==
  ASSUME NEW t \in CopySet
  PROVE  /\ t.kind = "copy" /\ BytesOf(t) \subseteq CopyBytes
         /\ \A u \in CopySet : \A i \in BytesOf(t) : i \in BytesOf(u) => u = t
<1>1. PICK n \in 1 .. number_of_processes : t = CopyTasks[n]
  BY DEF CopySet
<1>2. t.kind = "copy" /\ BytesOf(t) \subseteq CopyBytes
  BY <1>1, CopyAt, CopyBytesAt
<1>3. ASSUME NEW u \in CopySet, NEW i \in BytesOf(t), i \in BytesOf(u) PROVE u = t
  <2>1. PICK m \in 1 .. number_of_processes : u = CopyTasks[m]
    BY DEF CopySet
  <2>2. i \div Share = n - 1 /\ i \div Share = m - 1
    BY <1>1, <1>3, <2>1, CopyBytesAt
  <2>3. n = m
    BY <2>2
  <2> QED
    BY <1>1, <2>1, <2>3
<1> QED
  BY <1>2, <1>3

-----------------------------------------------------------------------------
(* All tasks of a call, in the order in which they are put                 *)

LastTask == number_of_processes + Columns * Rows

TaskAt(n) ==
  IF n <= number_of_processes THEN CopyTasks[n] ELSE BlockTasks[n - number_of_processes]

\* A task that changes a byte, or may.
Solid(t) == t \in Blocks \/ (t \in CopySet /\ BytesOf(t) # {})

LEMMA Lasts ==
  /\ number_of_processes \in Nat /\ LastTask \in Nat /\ number_of_processes <= LastTask
  BY Sizes, Grid DEF LastTask

LEMMA TasksAre == Tasks = CopySet \union Blocks
<1>1. DOMAIN CopyTasks = 1 .. number_of_processes /\ DOMAIN BlockTasks = 1 .. Columns * Rows
  BY DEF CopyTasks, BlockTasks
<1> QED
  BY <1>1 DEF Tasks, CopySet, Blocks

LEMMA TaskAtIs ==
  ASSUME NEW n \in 1 .. LastTask
  PROVE  /\ TaskAt(n) \in Tasks
         /\ n <= number_of_processes => TaskAt(n) \in CopySet /\ TaskAt(n) = CopyTasks[n]
         /\ ~ (n <= number_of_processes) =>
              /\ TaskAt(n) \in Blocks
              /\ n - number_of_processes \in 1 .. Columns * Rows
              /\ TaskAt(n) = BlockTasks[n - number_of_processes]
<1>1. n <= number_of_processes => n \in 1 .. number_of_processes
  BY Lasts
<1>2. ~ (n <= number_of_processes) => n - number_of_processes \in 1 .. Columns * Rows
  BY Sizes, Grid DEF LastTask
<1>3. n <= number_of_processes => TaskAt(n) \in CopySet /\ TaskAt(n) = CopyTasks[n]
  BY <1>1, CopyAt DEF TaskAt
<1>4. ~ (n <= number_of_processes) =>
        TaskAt(n) \in Blocks /\ TaskAt(n) = BlockTasks[n - number_of_processes]
  BY <1>2, BlockAt DEF TaskAt
<1> QED
  BY <1>2, <1>3, <1>4, TasksAre

\* A task that may change something is put once.
LEMMA OneIndex ==
  ASSUME NEW n \in 1 .. LastTask, NEW m \in 1 .. LastTask,
         TaskAt(n) = TaskAt(m), Solid(TaskAt(n))
  PROVE  n = m
<1>0. \A t \in CopySet : t \notin Blocks
  <2>1. \A t \in CopySet : t.kind = "copy"
    BY CopySetIs
  <2>2. \A t \in Blocks : t.kind = "block"
    BY BlockOfSet
  <2> QED
    BY <2>1, <2>2
<1>1. CASE n <= number_of_processes
  <2>1. TaskAt(n) \in CopySet /\ TaskAt(n) = CopyTasks[n] /\ n \in 1 .. number_of_processes
    BY <1>1, TaskAtIs, Lasts
  <2>2. m <= number_of_processes
    BY <1>0, <2>1, TaskAtIs
  <2>3. TaskAt(m) = CopyTasks[m] /\ m \in 1 .. number_of_processes
    BY <2>2, TaskAtIs, Lasts
  <2>4. PICK i \in BytesOf(TaskAt(n)) : TRUE
    BY <1>0, <2>1 DEF Solid
  <2>5. i \div Share = n - 1 /\ i \div Share = m - 1
    BY <2>1, <2>3, CopyBytesAt
  <2> QED
    BY <2>1, <2>3, <2>5
<1>2. CASE ~ (n <= number_of_processes)
  <2>1. /\ TaskAt(n) \in Blocks /\ n - number_of_processes \in 1 .. Columns * Rows
        /\ TaskAt(n) = BlockTasks[n - number_of_processes]
    BY <1>2, TaskAtIs
  <2>2. ~ (m <= number_of_processes)
    BY <1>0, <2>1, TaskAtIs
  <2>3. /\ m - number_of_processes \in 1 .. Columns * Rows
        /\ TaskAt(m) = BlockTasks[m - number_of_processes]
    BY <2>2, TaskAtIs
  <2>4. n - number_of_processes = m - number_of_processes
    BY <2>1, <2>3, OneBlockIndex
  <2> QED
    BY <2>4, Lasts
<1> QED
  BY <1>1, <1>2

-----------------------------------------------------------------------------
(* The queue                                                               *)

\* Tasks a+1 to b in the order in which they are put, and the set of them.
Run(a, b)    == [n \in 1 .. (b - a) |-> TaskAt(a + n)]
Listed(a, b) == {TaskAt(n) : n \in a + 1 .. b}

\* The last task put so far.
End == IF stage = "copy" THEN number_of_processes ELSE LastTask

\* The queue after k tasks have been taken, m have been sent into the pipe and
\* e have been put.
QueueAt(p, b, k, m, e) == k <= m /\ m <= e /\ p = Run(k, m) /\ b = Run(m, e)

\* The pipe holds the oldest tasks that nobody has taken, the buffer the others.
QueueInv == \E k, m \in 0 .. LastTask : QueueAt(pipe, buffer, k, m, End)

Elements(s)  == {s[n] : n \in DOMAIN s}

\* The tasks in the queue.
Queue == Elements(buffer) \union Elements(pipe)

LEMMA EndIs == End \in 0 .. LastTask
  BY Lasts DEF End

LEMMA RunIs ==
  ASSUME NEW a \in 0 .. LastTask, NEW b \in 0 .. LastTask, a <= b
  PROVE  /\ Run(a, b) \in Seq(Tasks) /\ Len(Run(a, b)) = b - a
         /\ Elements(Run(a, b)) = Listed(a, b)
<1>1. LastTask \in Nat
  BY Lasts
<1>2. \A n \in 1 .. (b - a) : a + n \in 1 .. LastTask
  BY <1>1
<1>3. \A n \in 1 .. (b - a) : TaskAt(a + n) \in Tasks
  BY <1>2, TaskAtIs
<1>4. Run(a, b) \in Seq(Tasks) /\ Len(Run(a, b)) = b - a
  BY <1>1, <1>3 DEF Run
<1>5. Elements(Run(a, b)) = {TaskAt(a + n) : n \in 1 .. (b - a)}
  BY DEF Elements, Run
<1>6. \A n \in a + 1 .. b : n - a \in 1 .. (b - a) /\ a + (n - a) = n
  BY <1>1
<1>7. \A n \in 1 .. (b - a) : a + n \in a + 1 .. b
  BY <1>1
<1>8. {TaskAt(a + n) : n \in 1 .. (b - a)} = Listed(a, b)
  BY <1>6, <1>7 DEF Listed
<1> QED
  BY <1>4, <1>5, <1>8

LEMMA ListedIs ==
  ASSUME NEW a \in 0 .. LastTask, NEW m \in 0 .. LastTask, NEW b \in 0 .. LastTask,
         a <= m, m <= b
  PROVE  /\ Listed(a, m) \union Listed(m, b) = Listed(a, b)
         /\ Listed(a, b) \subseteq Tasks
<1>1. LastTask \in Nat
  BY Lasts
<1>2. \A n : n \in a + 1 .. b <=> n \in a + 1 .. m \/ n \in m + 1 .. b
  BY <1>1
<1>3. \A n \in a + 1 .. b : TaskAt(n) \in Tasks
  <2>1. \A n \in a + 1 .. b : n \in 1 .. LastTask
    BY <1>1
  <2> QED
    BY <2>1, TaskAtIs
<1>4. Listed(a, m) \union Listed(m, b) = Listed(a, b)
  BY <1>2, Zenon DEF Listed
<1> QED
  BY <1>3, <1>4 DEF Listed

LEMMA RunTake ==
  ASSUME NEW a \in 0 .. LastTask, NEW b \in 0 .. LastTask, a <= b, Run(a, b) # <<>>
  PROVE  /\ a + 1 <= b /\ a + 1 \in 0 .. LastTask
         /\ Head(Run(a, b)) = TaskAt(a + 1) /\ Tail(Run(a, b)) = Run(a + 1, b)
<1>0. LastTask \in Nat /\ a \in Nat /\ b \in Nat
  BY Lasts
<1>1. Run(a, b) \in Seq(Tasks) /\ Len(Run(a, b)) = b - a
  BY RunIs
<1>2. a + 1 <= b /\ a + 1 \in 0 .. LastTask
  BY <1>0, <1>1
<1>3. Head(Run(a, b)) = TaskAt(a + 1)
  BY <1>0, <1>1, <1>2 DEF Run
<1> DEFINE s == Tail(Run(a, b))
<1>4. /\ s \in Seq(Tasks) /\ Len(s) = Len(Run(a, b)) - 1
      /\ \A n \in 1 .. Len(s) : s[n] = Run(a, b)[n + 1]
  BY <1>1, HeadTailProperties
<1> HIDE DEF s
<1>5. Len(s) = b - (a + 1)
  BY <1>0, <1>1, <1>4
<1>6. \A n \in 1 .. b - (a + 1) : Run(a, b)[n + 1] = TaskAt((a + 1) + n)
  BY <1>0, <1>2 DEF Run
<1>7. s = [n \in 1 .. b - (a + 1) |-> s[n]]
  BY <1>4, <1>5
<1>8. s = Run(a + 1, b)
  BY <1>4, <1>5, <1>6, <1>7 DEF Run
<1> QED
  BY <1>2, <1>3, <1>8 DEF s

LEMMA RunPut ==
  ASSUME NEW a \in 0 .. LastTask, NEW b \in 0 .. LastTask, a <= b, b + 1 <= LastTask
  PROVE  Append(Run(a, b), TaskAt(b + 1)) = Run(a, b + 1)
<1>0. LastTask \in Nat /\ a \in Nat /\ b \in Nat
  BY Lasts
<1>1. Run(a, b) \in Seq(Tasks) /\ Len(Run(a, b)) = b - a
  BY RunIs
<1>2. (b - a) + 1 = (b + 1) - a /\ a + ((b + 1) - a) = b + 1 /\ b - a \in Nat
  BY <1>0
<1>3. Append(Run(a, b), TaskAt(b + 1))
        = [n \in 1 .. (b + 1) - a |-> IF n = (b + 1) - a THEN TaskAt(b + 1) ELSE Run(a, b)[n]]
  BY <1>1, <1>2
<1>4. ASSUME NEW n \in 1 .. (b + 1) - a
      PROVE  TaskAt(a + n) = IF n = (b + 1) - a THEN TaskAt(b + 1) ELSE Run(a, b)[n]
  <2>1. n # (b + 1) - a => n \in 1 .. (b - a)
    BY <1>0
  <2> QED
    BY <1>2, <2>1 DEF Run
<1> QED
  BY <1>3, <1>4 DEF Run

\* The blocks are put behind the copying tasks that are left.
LEMMA RunJoin ==
  ASSUME NEW a \in 0 .. number_of_processes
  PROVE  /\ Run(a, number_of_processes) \o BlockTasks = Run(a, LastTask)
         /\ CopyTasks = Run(0, number_of_processes)
<1> DEFINE N  == number_of_processes
           NB == Columns * Rows
           s  == Run(a, N)
<1>0. N \in Nat /\ NB \in Nat /\ a \in 0 .. N /\ LastTask = N + NB
  BY Sizes, Grid DEF LastTask
<1>1. s \in Seq(Tasks) /\ Len(s) = N - a
  <2>1. a \in 0 .. LastTask /\ N \in 0 .. LastTask /\ a <= N
    BY <1>0
  <2> QED
    BY <2>1, RunIs
<1>2. BlockTasks = [n \in 1 .. NB |-> BlockTasks[n]] /\ \A n \in 1 .. NB : BlockTasks[n] \in Tasks
  BY TasksAre, BlockAt DEF BlockTasks
<1>3. BlockTasks \in Seq(Tasks) /\ Len(BlockTasks) = NB
  BY <1>0, <1>2
<1>4. \A n \in 1 .. N - a : s[n] = TaskAt(a + n)
  BY DEF Run
<1>5. CopyTasks = Run(0, N)
  <2>1. CopyTasks = [n \in 1 .. N |-> CopyTasks[n]]
    BY DEF CopyTasks
  <2>2. \A n \in 1 .. N : TaskAt(0 + n) = CopyTasks[n] /\ N - 0 = N
    BY <1>0 DEF TaskAt
  <2>3. Run(0, N) = [n \in 1 .. N |-> TaskAt(0 + n)]
    BY <1>0 DEF Run
  <2> QED
    BY <2>1, <2>2, <2>3
<1> HIDE DEF s, NB
<1>6. s \o BlockTasks = [n \in 1 .. (N - a) + NB |->
                           IF n <= N - a THEN s[n] ELSE BlockTasks[n - (N - a)]]
  <2> DEFINE u == s \o BlockTasks
  <2>1. /\ u \in Seq(Tasks) /\ Len(u) = (N - a) + NB
        /\ \A n \in 1 .. (N - a) + NB : u[n] = IF n <= N - a THEN s[n] ELSE BlockTasks[n - (N - a)]
    BY <1>1, <1>3, ConcatProperties
  <2> HIDE DEF u
  <2>2. u = [n \in 1 .. (N - a) + NB |-> u[n]]
    BY <2>1
  <2>3. u = [n \in 1 .. (N - a) + NB |->
               IF n <= N - a THEN s[n] ELSE BlockTasks[n - (N - a)]]
    BY <2>1, <2>2
  <2> QED
    BY <2>3 DEF u
<1>7. ASSUME NEW n \in 1 .. (N - a) + NB
      PROVE  TaskAt(a + n) = IF n <= N - a THEN s[n] ELSE BlockTasks[n - (N - a)]
  <2>1. CASE n <= N - a
    BY <1>0, <1>4, <2>1
  <2>2. CASE ~ (n <= N - a)
    <3>1. ~ (a + n <= N) /\ (a + n) - N = n - (N - a)
      BY <1>0, <2>2
    <3> QED
      BY <2>2, <3>1 DEF TaskAt
  <2> QED
    BY <2>1, <2>2
<1>8. LastTask - a = (N - a) + NB
  BY <1>0
<1> QED
  BY <1>5, <1>6, <1>7, <1>8 DEF Run, s

LEMMA QueueIs ==
  ASSUME NEW k \in 0 .. LastTask, NEW m \in 0 .. LastTask, NEW e \in 0 .. LastTask,
         NEW p, NEW b, QueueAt(p, b, k, m, e)
  PROVE  /\ Elements(b) \union Elements(p) = Listed(k, e)
         /\ Elements(b) \union Elements(p) \subseteq Tasks
         /\ p \in Seq(Tasks) /\ b \in Seq(Tasks)
<1>0. k <= m /\ m <= e /\ p = Run(k, m) /\ b = Run(m, e)
  BY DEF QueueAt
<1>2. p \in Seq(Tasks) /\ Elements(p) = Listed(k, m)
  BY <1>0, RunIs
<1>3. b \in Seq(Tasks) /\ Elements(b) = Listed(m, e)
  BY <1>0, RunIs
<1>4. Listed(k, m) \union Listed(m, e) = Listed(k, e) /\ Listed(k, e) \subseteq Tasks
  BY <1>0, ListedIs, Lasts
<1> QED
  BY <1>2, <1>3, <1>4

\* The feeder thread keeps the order and loses nothing.
LEMMA FeedKeeps ==
  ASSUME QueueInv, Feed, stage' = stage
  PROVE  QueueInv' /\ Queue' = Queue
<1>0. End' = End /\ End \in 0 .. LastTask
  BY EndIs DEF End
<1>1. PICK k, m \in 0 .. LastTask : QueueAt(pipe, buffer, k, m, End)
  BY DEF QueueInv
<1>2. k <= m /\ m <= End /\ pipe = Run(k, m) /\ buffer = Run(m, End)
  BY <1>1 DEF QueueAt
<1>3. /\ m + 1 <= End /\ m + 1 \in 0 .. LastTask
      /\ Head(buffer) = TaskAt(m + 1) /\ Tail(buffer) = Run(m + 1, End)
  BY <1>0, <1>2, RunTake DEF Feed
<1>4. Append(pipe, Head(buffer)) = Run(k, m + 1)
  <2>1. m + 1 <= LastTask
    BY <1>3, Lasts
  <2> QED
    BY <1>2, <1>3, <2>1, RunPut
<1>5. k <= m + 1 /\ pipe' = Run(k, m + 1) /\ buffer' = Run(m + 1, End)
  BY <1>2, <1>3, <1>4, Lasts DEF Feed
<1>6. QueueAt(pipe', buffer', k, m + 1, End)
  BY <1>3, <1>5 DEF QueueAt
<1>7. QueueInv'
  BY <1>0, <1>3, <1>6 DEF QueueInv
<1>8. Queue = Listed(k, End)
  BY <1>0, <1>1, QueueIs DEF Queue
<1>9. Elements(buffer') \union Elements(pipe') = Listed(k, End)
  BY <1>0, <1>3, <1>6, QueueIs
<1> QED
  BY <1>7, <1>8, <1>9 DEF Queue

\* get_nowait takes the oldest task, and one that may change something is not
\* queued a second time.
LEMMA TakeKeeps ==
  ASSUME QueueInv, pipe # <<>>, pipe' = Tail(pipe), buffer' = buffer, stage' = stage
  PROVE  /\ QueueInv' /\ Head(pipe) \in Queue /\ Head(pipe) \in Tasks
         /\ Queue = Queue' \union {Head(pipe)}
         /\ Solid(Head(pipe)) => Head(pipe) \notin Queue'
         /\ stage = "copy" => Head(pipe) \in CopySet
<1>0. End' = End /\ End \in 0 .. LastTask
  BY EndIs DEF End
<1>1. PICK k, m \in 0 .. LastTask : QueueAt(pipe, buffer, k, m, End)
  BY DEF QueueInv
<1>2. k <= m /\ m <= End /\ pipe = Run(k, m) /\ buffer = Run(m, End)
  BY <1>1 DEF QueueAt
<1>3. /\ k + 1 <= m /\ k + 1 \in 0 .. LastTask
      /\ Head(pipe) = TaskAt(k + 1) /\ pipe' = Run(k + 1, m)
  BY <1>2, RunTake
<1>4. QueueAt(pipe', buffer', k + 1, m, End)
  BY <1>2, <1>3 DEF QueueAt
<1>5. QueueInv'
  BY <1>0, <1>3, <1>4 DEF QueueInv
<1>6. Queue = Listed(k, End)
  BY <1>0, <1>1, QueueIs DEF Queue
<1>7. Queue' = Listed(k + 1, End)
  <2>1. Elements(buffer') \union Elements(pipe') = Listed(k + 1, End)
    BY <1>0, <1>3, <1>4, QueueIs
  <2> QED
    BY <2>1 DEF Queue
<1>8. /\ k + 1 \in 1 .. LastTask /\ k + 1 <= End
      /\ k + 1 .. End = (k + 2 .. End) \union {k + 1} /\ (k + 1) + 1 = k + 2
      /\ \A n \in k + 2 .. End : n \in 1 .. LastTask /\ n # k + 1
  BY <1>0, <1>2, <1>3, Lasts
<1>9. Listed(k, End) = Listed(k + 1, End) \union {TaskAt(k + 1)}
  BY <1>8 DEF Listed
<1>10. ASSUME Solid(Head(pipe)), Head(pipe) \in Queue' PROVE FALSE
  <2>1. PICK n \in k + 2 .. End : TaskAt(n) = TaskAt(k + 1)
    BY <1>3, <1>7, <1>8, <1>10 DEF Listed
  <2>2. n = k + 1
    BY <1>3, <1>8, <1>10, <2>1, OneIndex
  <2> QED
    BY <1>8, <2>1, <2>2
<1>11. Head(pipe) \in Tasks
  BY <1>3, <1>8, TaskAtIs
<1>12. ASSUME stage = "copy" PROVE Head(pipe) \in CopySet
  <2>1. k + 1 <= number_of_processes
    BY <1>8, <1>12 DEF End
  <2> QED
    BY <1>3, <1>8, <2>1, TaskAtIs
<1> QED
  BY <1>3, <1>5, <1>6, <1>7, <1>9, <1>10, <1>11, <1>12

-----------------------------------------------------------------------------
(* The inductive invariant                                                 *)

\* A process that copies holds a copying task, and one that marks holds a block
\* and a turn of its loops.  A task that may change a byte is held once, and no
\* longer queued.
CopierInv(v) ==
  pc[v] = "copy" =>
    /\ stage = "copy" /\ task[v] \in CopySet
    /\ BytesOf(task[v]) # {} =>
         /\ task[v] \notin Queue
         /\ \A u \in Workers \ {v} : pc[u] = "copy" => task[u] # task[v]

MarkerInv(v) ==
  pc[v] = "block" =>
    /\ stage = "block" /\ task[v] \in Blocks /\ at[v] \in 0 .. Inner(task[v]) - 1
    /\ task[v] \notin Queue
    /\ \A u \in Workers \ {v} : pc[u] = "block" => task[u] # task[v]

HeldInv == \A v \in Workers : CopierInv(v) /\ MarkerInv(v)

\* The bytes of the copying tasks that are neither queued nor held.
Waits(t)    == t \in Queue \/ \E v \in Workers : pc[v] = "copy" /\ task[v] = t
CopiedBytes == {i \in Bytes : \E t \in CopySet : i \in BytesOf(t) /\ ~ Waits(t)}

\* The turn that visits an inner byte of a block, in the order of the call.
Turn(t, i) ==
  IF op = "add" THEN TurnOf(t, Row(i), Col(i))
  ELSE Inner(t) - 1 - TurnOf(t, Row(i), Col(i))

\* The inner bytes whose turn has passed.
Visited(t, i) ==
  /\ t \notin Queue
  /\ \A v \in Workers : pc[v] = "block" /\ task[v] = t => Turn(t, i) < at[v]
DoneBytes == {i \in Bytes : \E t \in Blocks : InnerByte(t, i) /\ Visited(t, i)}

\* Array B with the bytes D of C.
Mix(B, C, D) == [i \in Bytes |-> IF i \in D THEN C[i] ELSE B[i]]

CopyInv == stage = "copy" => arr = Mix(Blank, source, CopiedBytes)

MarkInv ==
  stage = "block" /\ op = "add" /\ ~ lost =>
    arr = Mix(Copied(source), Marked(Copied(source)), DoneBytes)

UnmarkInv ==
  stage = "block" /\ op # "add" /\ ~ lost /\ RestInLastRow =>
    arr = Mix(Copied(source), Copied(original), DoneBytes)

SourceInv ==
  /\ op = "add" => source = original
  /\ op # "add" /\ ~ lost => source = Marked(Copied(original))

EdgeInv == \A i \in Bytes \ InnerBytes : arr[i] \in {0, source[i]}

DoneInv == op = "done" => stage = "block" /\ Joined /\ (~ lost => Queue = {})

IInv ==
  /\ TypeOK /\ QueueInv /\ HeldInv /\ DoneInv
  /\ CopyInv /\ MarkInv /\ UnmarkInv /\ SourceInv /\ EdgeInv

LEMMA LevelZero == 0 \in Level
  BY DepthAssumption DEF Level

LEMMA BlankIs == Blank \in [Bytes -> Level]
  BY LevelZero DEF Blank

LEMMA CopiedIsPicture ==
  ASSUME NEW A \in [Bytes -> Level]
  PROVE  Copied(A) \in [Bytes -> Level]
  BY LevelZero DEF Copied

LEMMA KindsDiffer ==
  /\ \A t \in CopySet : t.kind = "copy" /\ t \notin Blocks
  /\ \A t \in Blocks : t.kind = "block" /\ t \notin CopySet
<1>1. \A t \in CopySet : t.kind = "copy"
  BY CopySetIs
<1>2. \A t \in Blocks : t.kind = "block"
  BY BlockOfSet
<1> QED
  BY <1>1, <1>2

-----------------------------------------------------------------------------
(* The pools start                                                         *)

LEMMA ListedCopies == Listed(0, number_of_processes) = CopySet
<1>1. \A n \in 1 .. number_of_processes : TaskAt(n) = CopyTasks[n]
  BY Lasts DEF TaskAt
<1>2. 0 + 1 = 1
  OBVIOUS
<1> QED
  BY <1>1, <1>2 DEF Listed, CopySet

LEMMA ListedBlocks ==
  ASSUME NEW k \in 0 .. number_of_processes
  PROVE  Blocks \subseteq Listed(k, LastTask)
<1> SUFFICES ASSUME NEW n \in 1 .. Columns * Rows PROVE BlockTasks[n] \in Listed(k, LastTask)
  BY DEF Blocks
<1>1. number_of_processes + n \in k + 1 .. LastTask /\ ~ (number_of_processes + n <= number_of_processes)
      /\ (number_of_processes + n) - number_of_processes = n
  BY Lasts, Grid DEF LastTask
<1>2. TaskAt(number_of_processes + n) = BlockTasks[n]
  BY <1>1 DEF TaskAt
<1> QED
  BY <1>1, <1>2, Zenon DEF Listed

\* The copying tasks are put into an empty queue.
LEMMA CopiesPut ==
  ASSUME buffer' = CopyTasks, pipe' = <<>>, stage' = "copy"
  PROVE  QueueInv' /\ Queue' = CopySet
<1>1. 0 \in 0 .. number_of_processes /\ 0 \in 0 .. LastTask /\ number_of_processes \in 0 .. LastTask
  BY Lasts
<1>2. CopyTasks = Run(0, number_of_processes)
  BY <1>1, RunJoin
<1>3. <<>> = Run(0, 0)
  BY DEF Run
<1>4. QueueAt(pipe', buffer', 0, 0, number_of_processes)
  BY <1>1, <1>2, <1>3, Lasts DEF QueueAt
<1>5. End' = number_of_processes
  BY DEF End
<1>6. QueueInv'
  BY <1>1, <1>4, <1>5 DEF QueueInv
<1>7. Elements(buffer') \union Elements(pipe') = Listed(0, number_of_processes)
  BY <1>1, <1>4, QueueIs
<1> QED
  BY <1>6, <1>7, ListedCopies DEF Queue

\* The blocks are put behind what the first pool left.
LEMMA BlocksPut ==
  ASSUME QueueInv, stage = "copy", buffer' = buffer \o BlockTasks, pipe' = pipe,
         stage' = "block"
  PROVE  QueueInv' /\ Blocks \subseteq Queue'
<1>0. End = number_of_processes /\ End' = LastTask
  BY DEF End
<1>1. PICK k, m \in 0 .. LastTask : QueueAt(pipe, buffer, k, m, number_of_processes)
  BY <1>0 DEF QueueInv
<1>2. /\ k <= m /\ m <= number_of_processes
      /\ pipe = Run(k, m) /\ buffer = Run(m, number_of_processes)
  BY <1>1 DEF QueueAt
<1>3. m \in 0 .. number_of_processes /\ k \in 0 .. number_of_processes /\ m <= LastTask
  BY <1>2, Lasts
<1>4. buffer' = Run(m, LastTask)
  BY <1>2, <1>3, RunJoin
<1>5. QueueAt(pipe', buffer', k, m, LastTask)
  BY <1>2, <1>3, <1>4 DEF QueueAt
<1>6. QueueInv'
  BY <1>0, <1>5 DEF QueueInv
<1>7. Elements(buffer') \union Elements(pipe') = Listed(k, LastTask)
  BY <1>5, QueueIs, Lasts
<1> QED
  BY <1>3, <1>6, <1>7, ListedBlocks DEF Queue

\* With no task left, every byte of a task has been copied or visited.
LEMMA AllCopied ==
  ASSUME Queue = {}, \A v \in Workers : pc[v] # "copy"
  PROVE  CopiedBytes = CopyBytes
<1>1. \A t \in CopySet : ~ Waits(t)
  BY DEF Waits
<1>2. \A i \in CopyBytes : i \in Bytes
  BY DEF CopyBytes
<1>3. \A i \in Bytes : i \in CopyBytes <=> \E t \in CopySet : i \in BytesOf(t)
  BY CopyOfByte, CopySetIs
<1> QED
  BY <1>1, <1>2, <1>3 DEF CopiedBytes

LEMMA AllVisited ==
  ASSUME Queue = {}, \A v \in Workers : pc[v] # "block"
  PROVE  DoneBytes = InnerBytes
<1>1. \A t \in Blocks : \A i \in Bytes : Visited(t, i)
  BY DEF Visited
<1> QED
  BY <1>1 DEF DoneBytes, InnerBytes

LEMMA CopiedIs == \A A : Mix(Blank, A, CopyBytes) = Copied(A)
  BY DEF Mix, Blank, Copied, CopyBytes

LEMMA JoinedIs ==
  ASSUME Joined
  PROVE  \A v \in Workers : pc[v] \notin {"get", "poll", "copy", "block"}
  BY DEF Joined

-----------------------------------------------------------------------------
(* Steps that leave the work as it is                                      *)

ImageInv == CopyInv /\ MarkInv /\ UnmarkInv /\ SourceInv /\ EdgeInv

SameImages ==
  /\ arr' = arr /\ source' = source /\ original' = original
  /\ op' = op /\ stage' = stage /\ lost' = lost

\* The bytes copied and the bytes visited are all that the invariants of the
\* array read of the pool.
LEMMA SameImagesKeep ==
  ASSUME ImageInv, SameImages, CopiedBytes' = CopiedBytes, DoneBytes' = DoneBytes
  PROVE  ImageInv'
<1>1. CopyInv'
  BY DEF ImageInv, CopyInv, SameImages
<1>2. MarkInv'
  BY DEF ImageInv, MarkInv, SameImages
<1>3. UnmarkInv'
  BY DEF ImageInv, UnmarkInv, SameImages
<1>4. SourceInv' /\ EdgeInv'
  BY DEF ImageInv, SourceInv, EdgeInv, SameImages
<1> QED
  BY <1>1, <1>2, <1>3, <1>4 DEF ImageInv

SameWork ==
  /\ Queue' = Queue /\ task' = task /\ at' = at /\ op' = op /\ stage' = stage
  /\ \A v \in Workers : pc'[v] = "copy" <=> pc[v] = "copy"
  /\ \A v \in Workers : pc'[v] = "block" <=> pc[v] = "block"

LEMMA SameWorkKeeps ==
  ASSUME HeldInv, SameWork
  PROVE  HeldInv' /\ CopiedBytes' = CopiedBytes /\ DoneBytes' = DoneBytes
<1>1. HeldInv'
  <2> SUFFICES ASSUME NEW v \in Workers PROVE CopierInv(v)' /\ MarkerInv(v)'
    BY DEF HeldInv
  <2>1. CopierInv(v) /\ MarkerInv(v)
    BY DEF HeldInv
  <2>2. CopierInv(v)'
    BY <2>1 DEF CopierInv, SameWork
  <2>3. MarkerInv(v)'
    BY <2>1 DEF MarkerInv, SameWork
  <2> QED
    BY <2>2, <2>3
<1>2. \A t : Waits(t)' <=> Waits(t)
  BY DEF Waits, SameWork
<1>3. CopiedBytes' = CopiedBytes
  BY <1>2 DEF CopiedBytes
<1>4. \A t, i : Visited(t, i)' <=> Visited(t, i)
  BY DEF Visited, Turn, SameWork
<1>5. DoneBytes' = DoneBytes
  BY <1>4 DEF DoneBytes
<1> QED
  BY <1>1, <1>3, <1>5

LEMMA FeederKeeps ==
  ASSUME IInv, Feeder
  PROVE  IInv'
<1>0. TypeOK /\ QueueInv /\ HeldInv /\ DoneInv /\ ImageInv
  BY DEF IInv, ImageInv
<1>1. Feed /\ pc' = pc /\ task' = task /\ at' = at /\ SameImages
  BY DEF Feeder, Feed, SameImages, imageVars
<1>2. QueueInv' /\ Queue' = Queue
  BY <1>0, <1>1, FeedKeeps DEF SameImages
<1>3. SameWork
  BY <1>1, <1>2 DEF SameWork, SameImages
<1>4. HeldInv' /\ ImageInv'
  BY <1>0, <1>1, <1>3, SameWorkKeeps, SameImagesKeep
<1>5. buffer' \in Seq(Tasks) /\ pipe' \in Seq(Tasks)
  BY <1>0, <1>1 DEF Feed, TypeOK
<1>6. TypeOK'
  BY <1>0, <1>1, <1>5 DEF TypeOK, SameImages
<1>7. DoneInv'
  BY <1>0, <1>1, <1>2 DEF DoneInv, Joined, SameImages
<1> QED
  BY <1>2, <1>4, <1>6, <1>7 DEF IInv, ImageInv

\* No worker asks for a task once the last call has returned.
LEMMA AsksBeforeReturn ==
  ASSUME IInv, NEW v \in Workers, pc[v] \in {"get", "poll", "copy", "block"}
  PROVE  op # "done"
<1>1. ~ Joined
  BY JoinedIs
<1> QED
  BY <1>1 DEF IInv, DoneInv

LEMMA OpIs ==
  ASSUME IInv, NEW v \in Workers, pc[v] \in {"get", "poll", "copy", "block"}, op' = op
  PROVE  op' # "done" /\ DoneInv'
<1>1. op # "done"
  BY AsksBeforeReturn
<1> QED
  BY <1>1 DEF DoneInv

LEMMA EmptyKeeps ==
  ASSUME IInv, NEW v \in Workers, GetTask(v),
         Acquire(v, OnEmpty) \/ PollEmpty(v, OnEmpty), at' = at
  PROVE  IInv'
<1>0. TypeOK /\ QueueInv /\ HeldInv /\ ImageInv
  BY DEF IInv, ImageInv
<1>1. /\ pc[v] \in {"get", "poll"} /\ buffer' = buffer /\ pipe' = pipe /\ task' = task
      /\ pc' = [pc EXCEPT ![v] = pc'[v]] /\ pc'[v] \in {"poll", "exited"}
  BY <1>0 DEF Acquire, PollEmpty, OnEmpty, TypeOK
<1>2. SameImages
  BY DEF GetTask, SameImages, imageVars
<1>3. Queue' = Queue /\ QueueInv'
  BY <1>0, <1>1, <1>2 DEF Queue, QueueInv, End, SameImages
<1>4. \A u \in Workers \ {v} : pc'[u] = pc[u]
  BY <1>0, <1>1 DEF TypeOK
<1>5. SameWork
  BY <1>1, <1>2, <1>3, <1>4 DEF SameWork, SameImages
<1>6. HeldInv' /\ ImageInv'
  BY <1>0, <1>2, <1>5, SameWorkKeeps, SameImagesKeep
<1>7. DoneInv'
  BY <1>1, <1>2, OpIs DEF SameImages
<1>8. TypeOK'
  BY <1>0, <1>1, <1>2 DEF TypeOK, SameImages
<1> QED
  BY <1>3, <1>6, <1>7, <1>8 DEF IInv, ImageInv

-----------------------------------------------------------------------------
(* A worker takes a task                                                   *)

\* An empty block, one pixel high or wide, has no inner byte.
LEMMA EmptyBlock ==
  ASSUME NEW t \in Blocks, Inner(t) = 0
  PROVE  \A i \in Bytes : ~ InnerByte(t, i)
<1>1. ASSUME NEW i \in Bytes, InnerByte(t, i) PROVE FALSE
  <2>1. TurnOf(t, Row(i), Col(i)) \in 0 .. Inner(t) - 1
    BY <1>1, TurnIs DEF InnerByte
  <2> QED
    BY <1>1, <2>1
<1> QED
  BY <1>1

\* No turn comes before the first.
LEMMA TurnIsTurn ==
  ASSUME NEW t \in Blocks, NEW i \in Bytes, InnerByte(t, i)
  PROVE  Turn(t, i) \in 0 .. Inner(t) - 1
<1>1. TurnOf(t, Row(i), Col(i)) \in 0 .. Inner(t) - 1 /\ Inner(t) \in Nat
  BY TurnIs, InnerIsNat DEF InnerByte
<1> QED
  BY <1>1 DEF Turn

Takes(v, t) ==
  /\ pc[v] = "poll" /\ op' = op /\ stage' = stage
  /\ task' = [task EXCEPT ![v] = t] /\ at' = [at EXCEPT ![v] = 0]
  /\ pc' = [pc EXCEPT ![v] = OnTask(t)]
  /\ t \in Tasks /\ Queue = Queue' \union {t}
  /\ Solid(t) => t \notin Queue'
  /\ stage = "copy" => t \in CopySet

LEMMA OnTaskIs ==
  ASSUME NEW v \in Workers, NEW t, Takes(v, t), TypeOK
  PROVE  /\ pc'[v] \in {"copy", "get", "block", "crashed"}
         /\ pc'[v] = "copy" <=> stage = "copy"
         /\ pc'[v] = "block" <=> stage = "block" /\ t \in Blocks /\ Inner(t) # 0
         /\ task'[v] = t /\ at'[v] = 0
         /\ \A u \in Workers \ {v} : pc'[u] = pc[u] /\ task'[u] = task[u] /\ at'[u] = at[u]
<1>1. pc'[v] = OnTask(t) /\ task'[v] = t /\ at'[v] = 0
  BY DEF Takes, TypeOK
<1>2. \A u \in Workers \ {v} : pc'[u] = pc[u] /\ task'[u] = task[u] /\ at'[u] = at[u]
  BY DEF Takes, TypeOK
<1>3. stage \in {"copy", "block"} /\ t \in CopySet \union Blocks
  BY TasksAre DEF TypeOK, Takes
<1>4. CASE stage = "copy"
  <2>1. t.kind = "copy"
    BY <1>4, KindsDiffer DEF Takes
  <2> QED
    BY <1>1, <1>2, <1>4, <2>1 DEF OnTask
<1>5. CASE stage = "block"
  <2>1. t.kind = "block" <=> t \in Blocks
    BY <1>3, KindsDiffer
  <2>2. t.kind \in {"copy", "block"}
    BY <1>3, KindsDiffer
  <2> QED
    BY <1>1, <1>2, <1>5, <2>1, <2>2 DEF OnTask
<1> QED
  BY <1>3, <1>4, <1>5

\* The task taken is held by nobody else.
LEMMA TakesHeld ==
  ASSUME TypeOK, HeldInv, NEW v \in Workers, NEW t, Takes(v, t)
  PROVE  HeldInv'
<1>0. /\ pc[v] = "poll" /\ Queue' \subseteq Queue /\ t \in Queue /\ stage' = stage
      /\ Solid(t) => t \notin Queue'
      /\ stage = "copy" => t \in CopySet
  BY DEF Takes
<1>1. /\ pc'[v] = "copy" <=> stage = "copy"
      /\ pc'[v] = "block" <=> stage = "block" /\ t \in Blocks /\ Inner(t) # 0
      /\ task'[v] = t /\ at'[v] = 0
      /\ \A u \in Workers \ {v} : pc'[u] = pc[u] /\ task'[u] = task[u] /\ at'[u] = at[u]
  BY OnTaskIs
<1>2. \A u \in Workers : CopierInv(u) /\ MarkerInv(u)
  BY DEF HeldInv
<1>3. ASSUME NEW u \in Workers \ {v} PROVE CopierInv(u)' /\ MarkerInv(u)'
  <2>1. pc'[u] = pc[u] /\ task'[u] = task[u] /\ at'[u] = at[u]
    BY <1>1
  <2>2. CopierInv(u)'
    <3> SUFFICES ASSUME pc[u] = "copy"
                 PROVE  /\ stage' = "copy" /\ task[u] \in CopySet
                        /\ BytesOf(task[u]) # {} =>
                             /\ task[u] \notin Queue'
                             /\ \A x \in Workers \ {u} : pc'[x] = "copy" => task'[x] # task[u]
      BY <2>1 DEF CopierInv
    <3>1. stage = "copy" /\ task[u] \in CopySet
      BY <1>2 DEF CopierInv
    <3>2. ASSUME BytesOf(task[u]) # {}
          PROVE  /\ task[u] \notin Queue
                 /\ \A x \in Workers \ {u} : pc[x] = "copy" => task[x] # task[u]
      BY <1>2, <3>2 DEF CopierInv
    <3> QED
      BY <1>0, <1>1, <3>1, <3>2
  <2>3. MarkerInv(u)'
    <3> SUFFICES ASSUME pc[u] = "block"
                 PROVE  /\ stage' = "block" /\ task[u] \in Blocks
                        /\ at[u] \in 0 .. Inner(task[u]) - 1
                        /\ task[u] \notin Queue'
                        /\ \A x \in Workers \ {u} : pc'[x] = "block" => task'[x] # task[u]
      BY <2>1 DEF MarkerInv
    <3>1. /\ stage = "block" /\ task[u] \in Blocks /\ at[u] \in 0 .. Inner(task[u]) - 1
          /\ task[u] \notin Queue
          /\ \A x \in Workers \ {u} : pc[x] = "block" => task[x] # task[u]
      BY <1>2 DEF MarkerInv
    <3> QED
      BY <1>0, <1>1, <3>1
  <2> QED
    BY <2>2, <2>3
<1>4. CopierInv(v)'
  <2> SUFFICES ASSUME stage = "copy"
               PROVE  /\ t \in CopySet
                      /\ BytesOf(t) # {} =>
                           /\ t \notin Queue'
                           /\ \A x \in Workers \ {v} : pc'[x] = "copy" => task'[x] # t
    BY <1>0, <1>1 DEF CopierInv
  <2>1. t \in CopySet
    BY <1>0
  <2>2. ASSUME BytesOf(t) # {} PROVE t \notin Queue'
    BY <1>0, <2>1, <2>2 DEF Solid
  <2>3. ASSUME BytesOf(t) # {}, NEW x \in Workers \ {v}, pc[x] = "copy" PROVE task[x] # t
    BY <1>0, <1>2, <2>3 DEF CopierInv
  <2> QED
    BY <1>1, <2>1, <2>2, <2>3
<1>5. MarkerInv(v)'
  <2> SUFFICES ASSUME stage = "block", t \in Blocks, Inner(t) # 0
               PROVE  /\ 0 \in 0 .. Inner(t) - 1 /\ t \notin Queue'
                      /\ \A x \in Workers \ {v} : pc'[x] = "block" => task'[x] # t
    BY <1>0, <1>1 DEF MarkerInv
  <2>1. 0 \in 0 .. Inner(t) - 1
    BY InnerIsNat
  <2>2. t \notin Queue'
    BY <1>0 DEF Solid
  <2>3. ASSUME NEW x \in Workers \ {v}, pc[x] = "block" PROVE task[x] # t
    BY <1>0, <1>2, <2>3 DEF MarkerInv
  <2> QED
    BY <1>1, <2>1, <2>2, <2>3
<1> QED
  BY <1>3, <1>4, <1>5 DEF HeldInv

\* Taking a task neither copies nor visits a byte.
LEMMA TakesNothing ==
  ASSUME TypeOK, HeldInv, NEW v \in Workers, NEW t, Takes(v, t)
  PROVE  (stage = "copy" => CopiedBytes' = CopiedBytes)
         /\ (stage = "block" => DoneBytes' = DoneBytes)
<1>0. /\ pc[v] = "poll" /\ Queue = Queue' \union {t} /\ op' = op
  BY DEF Takes
<1>1. /\ pc'[v] = "copy" <=> stage = "copy"
      /\ pc'[v] = "block" <=> stage = "block" /\ t \in Blocks /\ Inner(t) # 0
      /\ task'[v] = t /\ at'[v] = 0
      /\ \A u \in Workers \ {v} : pc'[u] = pc[u] /\ task'[u] = task[u] /\ at'[u] = at[u]
  BY OnTaskIs
<1>2. ASSUME stage = "copy" PROVE CopiedBytes' = CopiedBytes
  <2>1. ASSUME NEW u \in CopySet PROVE Waits(u)' <=> Waits(u)
    <3>1. Waits(u)' <=> \/ u \in Queue' \/ u = t
                        \/ \E x \in Workers \ {v} : pc[x] = "copy" /\ task[x] = u
      BY <1>1, <1>2 DEF Waits
    <3>2. Waits(u) <=> \/ u \in Queue' \/ u = t
                       \/ \E x \in Workers \ {v} : pc[x] = "copy" /\ task[x] = u
      BY <1>0 DEF Waits
    <3> QED
      BY <3>1, <3>2
  <2> QED
    BY <2>1 DEF CopiedBytes
<1>3. ASSUME stage = "block" PROVE DoneBytes' = DoneBytes
  <2>1. ASSUME NEW u \in Blocks, NEW i \in Bytes, InnerByte(u, i)
        PROVE  Visited(u, i)' <=> Visited(u, i)
    <3>1. CASE u = t
      <4>1. ~ Visited(u, i)
        BY <1>0, <3>1 DEF Visited
      <4>2. Inner(t) # 0
        BY <2>1, <3>1, EmptyBlock
      <4>3. pc'[v] = "block" /\ task'[v] = u /\ at'[v] = 0
        BY <1>1, <1>3, <3>1, <4>2
      <4>4. Turn(u, i)' = Turn(u, i)
        BY <1>0 DEF Turn
      <4>5. ~ (Turn(u, i) < 0)
        BY <2>1, TurnIsTurn, InnerIsNat
      <4>6. ~ Visited(u, i)'
        BY <4>3, <4>4, <4>5 DEF Visited
      <4> QED
        BY <4>1, <4>6
    <3>2. CASE u # t
      <4>1. u \in Queue' <=> u \in Queue
        BY <1>0, <3>2
      <4>2. Turn(u, i)' = Turn(u, i)
        BY <1>0 DEF Turn
      <4>3. \A x \in Workers : (pc'[x] = "block" /\ task'[x] = u)
                                 <=> (pc[x] = "block" /\ task[x] = u)
        BY <1>0, <1>1, <3>2
      <4>4. \A x \in Workers : pc[x] = "block" => at'[x] = at[x]
        BY <1>0, <1>1
      <4> QED
        BY <4>1, <4>2, <4>3, <4>4 DEF Visited
    <3> QED
      BY <3>1, <3>2
  <2> QED
    BY <2>1 DEF DoneBytes
<1> QED
  BY <1>2, <1>3

LEMMA ReceiveKeeps ==
  ASSUME IInv, NEW v \in Workers, GetTask(v), Receive(v, OnTask(Head(pipe))),
         at' = [at EXCEPT ![v] = 0]
  PROVE  IInv'
<1> DEFINE t == Head(pipe)
<1>0. TypeOK /\ QueueInv /\ HeldInv /\ ImageInv
  BY DEF IInv, ImageInv
<1>1. /\ pc[v] = "poll" /\ pipe # <<>> /\ pipe' = Tail(pipe) /\ buffer' = buffer
      /\ task' = [task EXCEPT ![v] = t] /\ pc' = [pc EXCEPT ![v] = OnTask(t)]
  BY DEF Receive
<1>2. SameImages
  BY DEF GetTask, SameImages, imageVars
<1>3. /\ QueueInv' /\ t \in Tasks
      /\ Queue = Queue' \union {t}
      /\ Solid(t) => t \notin Queue'
      /\ stage = "copy" => t \in CopySet
  BY <1>0, <1>1, <1>2, TakeKeeps DEF SameImages
<1>4. pipe' \in Seq(Tasks) /\ buffer' \in Seq(Tasks)
  BY <1>0, <1>1 DEF TypeOK
<1> HIDE DEF t
<1>5. Takes(v, t)
  BY <1>1, <1>2, <1>3 DEF Takes, SameImages
<1>6. HeldInv'
  BY <1>0, <1>5, TakesHeld
<1>7. /\ stage = "copy" => CopiedBytes' = CopiedBytes
      /\ stage = "block" => DoneBytes' = DoneBytes
  BY <1>0, <1>5, TakesNothing
<1>8. ImageInv'
  BY <1>0, <1>2, <1>7 DEF ImageInv, SameImages, CopyInv, MarkInv, UnmarkInv, SourceInv, EdgeInv
<1>9. DoneInv'
  BY <1>1, <1>2, OpIs DEF SameImages
<1>10. OnTask(t) \in {"copy", "get", "block", "crashed"}
  BY DEF OnTask
<1>11. TypeOK'
  BY <1>0, <1>1, <1>2, <1>3, <1>4, <1>10 DEF TypeOK, SameImages
<1> QED
  BY <1>3, <1>6, <1>8, <1>9, <1>11 DEF IInv, ImageInv

-----------------------------------------------------------------------------
(* A worker copies                                                         *)

LEMMA LeavesHeld ==
  ASSUME TypeOK, HeldInv, NEW v \in Workers, pc' = [pc EXCEPT ![v] = "get"],
         task' = task, at' = at, Queue' = Queue, stage' = stage
  PROVE  HeldInv'
<1>1. pc'[v] = "get" /\ \A u \in Workers \ {v} : pc'[u] = pc[u]
  BY DEF TypeOK
<1>2. CopierInv(v)' /\ MarkerInv(v)'
  BY <1>1 DEF CopierInv, MarkerInv
<1>3. ASSUME NEW u \in Workers \ {v} PROVE CopierInv(u)' /\ MarkerInv(u)'
  <2>1. CopierInv(u) /\ MarkerInv(u)
    BY DEF HeldInv
  <2>2. \A x \in Workers : pc'[x] \in {"copy", "block"} => pc'[x] = pc[x]
    BY <1>1
  <2>3. CopierInv(u)'
    BY <1>1, <2>1, <2>2 DEF CopierInv
  <2>4. MarkerInv(u)'
    BY <1>1, <2>1, <2>2 DEF MarkerInv
  <2> QED
    BY <2>3, <2>4
<1> QED
  BY <1>2, <1>3 DEF HeldInv

LEMMA CopiesMore ==
  ASSUME TypeOK, HeldInv, NEW v \in Workers, pc[v] = "copy", pc' = [pc EXCEPT ![v] = "get"],
         task' = task, Queue' = Queue
  PROVE  CopiedBytes' = CopiedBytes \union BytesOf(task[v]) /\ BytesOf(task[v]) \subseteq Bytes
<1>4. PICK t : t = task[v]
  OBVIOUS
<1>1. pc'[v] = "get" /\ \A u \in Workers \ {v} : pc'[u] = pc[u]
  BY DEF TypeOK
<1>2. /\ t \in CopySet
      /\ BytesOf(t) # {} =>
           t \notin Queue /\ \A u \in Workers \ {v} : pc[u] = "copy" => task[u] # t
  BY <1>4 DEF HeldInv, CopierInv
<1>3. BytesOf(t) \subseteq Bytes
  BY <1>2, CopySetIs DEF CopyBytes
<1>5. ASSUME NEW u \in CopySet, u # t PROVE Waits(u)' <=> Waits(u)
  BY <1>1, <1>4, <1>5 DEF Waits
<1>6. BytesOf(t) # {} => ~ Waits(t)'
  BY <1>1, <1>2, <1>4 DEF Waits
<1>7. Waits(t)
  BY <1>4 DEF Waits
<1>8. CopiedBytes' = CopiedBytes \union BytesOf(t)
  <2>1. ASSUME NEW i \in Bytes
        PROVE  i \in CopiedBytes' <=> i \in CopiedBytes \/ i \in BytesOf(t)
    <3>1. i \in CopiedBytes' <=> \E u \in CopySet : i \in BytesOf(u) /\ ~ Waits(u)'
      BY DEF CopiedBytes
    <3>2. i \in CopiedBytes <=> \E u \in CopySet : i \in BytesOf(u) /\ ~ Waits(u)
      BY DEF CopiedBytes
    <3> QED
      BY <1>2, <1>5, <1>6, <1>7, <3>1, <3>2
  <2>2. CopiedBytes \subseteq Bytes /\ CopiedBytes' \subseteq Bytes
    BY DEF CopiedBytes
  <2> QED
    BY <1>3, <2>1, <2>2
<1> QED
  BY <1>3, <1>4, <1>8

LEMMA CopyKeeps ==
  ASSUME IInv, NEW v \in Workers, Copy(v)
  PROVE  IInv'
<1>0. TypeOK /\ QueueInv /\ HeldInv /\ ImageInv
  BY DEF IInv, ImageInv
<1>1. /\ pc[v] = "copy" /\ pc' = [pc EXCEPT ![v] = "get"]
      /\ original' = original /\ source' = source /\ op' = op /\ stage' = stage
      /\ buffer' = buffer /\ pipe' = pipe /\ task' = task /\ at' = at /\ lost' = lost
      /\ arr' = [i \in Bytes |-> IF i \in BytesOf(task[v]) THEN source[i] ELSE arr[i]]
  BY DEF Copy, BytesOf
<1>2. Queue' = Queue /\ QueueInv'
  BY <1>0, <1>1 DEF Queue, QueueInv, End
<1>3. HeldInv'
  BY <1>0, <1>1, <1>2, LeavesHeld
<1>4. stage = "copy"
  BY <1>0, <1>1 DEF HeldInv, CopierInv
<1>5. CopiedBytes' = CopiedBytes \union BytesOf(task[v])
  BY <1>0, <1>1, <1>2, CopiesMore
<1>6. arr = Mix(Blank, source, CopiedBytes)
  BY <1>0, <1>4 DEF ImageInv, CopyInv
<1>7. arr' = Mix(Blank, source, CopiedBytes')
  BY <1>1, <1>5, <1>6 DEF Mix
<1>8. arr' \in [Bytes -> Level]
  BY <1>0, <1>1 DEF TypeOK
<1>9. EdgeInv'
  BY <1>0, <1>1 DEF ImageInv, EdgeInv
<1>10. ImageInv'
  <2>1. CopyInv'
    BY <1>1, <1>7 DEF CopyInv
  <2>2. MarkInv' /\ UnmarkInv'
    BY <1>1, <1>4 DEF MarkInv, UnmarkInv
  <2>3. SourceInv'
    BY <1>0, <1>1 DEF ImageInv, SourceInv
  <2> QED
    BY <1>9, <2>1, <2>2, <2>3 DEF ImageInv
<1>11. DoneInv'
  BY <1>1, OpIs
<1>12. TypeOK'
  BY <1>0, <1>1, <1>8 DEF TypeOK
<1> QED
  BY <1>2, <1>3, <1>10, <1>11, <1>12 DEF IInv, ImageInv

-----------------------------------------------------------------------------
(* A worker marks or unmarks a pixel                                       *)

LEMMA NextPixelHeld ==
  ASSUME TypeOK, HeldInv, NEW v \in Workers, pc[v] = "block", NextPixel(v)
  PROVE  HeldInv'
<1>0. /\ at' = [at EXCEPT ![v] = at[v] + 1] /\ task' = task /\ stage' = stage /\ Queue' = Queue
      /\ pc' = [pc EXCEPT ![v] = IF at[v] + 1 = Inner(task[v]) THEN "get" ELSE "block"]
  BY DEF NextPixel, Queue
<1>1. /\ pc'[v] = IF at[v] + 1 = Inner(task[v]) THEN "get" ELSE "block"
      /\ at'[v] = at[v] + 1
      /\ \A u \in Workers \ {v} : pc'[u] = pc[u] /\ at'[u] = at[u]
  BY <1>0 DEF TypeOK
<1>2. \A x \in Workers : pc'[x] \in {"copy", "block"} => pc'[x] = pc[x]
  BY <1>1
<1>3. ASSUME NEW u \in Workers PROVE CopierInv(u)'
  <2>1. CopierInv(u)
    BY DEF HeldInv
  <2> QED
    BY <1>0, <1>2, <2>1 DEF CopierInv
<1>4. ASSUME NEW u \in Workers PROVE MarkerInv(u)'
  <2>1. MarkerInv(u)
    BY DEF HeldInv
  <2>2. CASE u = v
    <3>1. /\ stage = "block" /\ task[v] \in Blocks /\ at[v] \in 0 .. Inner(task[v]) - 1
          /\ task[v] \notin Queue
          /\ \A x \in Workers \ {v} : pc[x] = "block" => task[x] # task[v]
      BY <2>1, <2>2 DEF MarkerInv
    <3>2. Inner(task[v]) \in Nat
      BY <3>1, InnerIsNat
    <3>3. at[v] + 1 # Inner(task[v]) => at[v] + 1 \in 0 .. Inner(task[v]) - 1
      BY <3>1, <3>2
    <3> QED
      BY <1>0, <1>1, <1>2, <2>2, <3>1, <3>3 DEF MarkerInv
  <2>3. CASE u # v
    BY <1>0, <1>1, <1>2, <2>1, <2>3 DEF MarkerInv
  <2> QED
    BY <2>2, <2>3
<1> QED
  BY <1>3, <1>4 DEF HeldInv

\* The bytes of the pixel whose turn it is.
TurnBytes(v) == {i \in Bytes : InnerByte(task[v], i) /\ Turn(task[v], i) = at[v]}

\* What has been visited of the block a worker holds.
LEMMA VisitedHere ==
  ASSUME HeldInv, NEW v \in Workers, pc[v] = "block", NEW i \in Bytes, InnerByte(task[v], i)
  PROVE  i \in DoneBytes <=> Turn(task[v], i) < at[v]
<1>1. /\ task[v] \in Blocks /\ task[v] \notin Queue
      /\ \A x \in Workers \ {v} : pc[x] = "block" => task[x] # task[v]
  BY DEF HeldInv, MarkerInv
<1>2. Visited(task[v], i) <=> Turn(task[v], i) < at[v]
  BY <1>1 DEF Visited
<1>3. \A u \in Blocks : InnerByte(u, i) => u = task[v]
  BY <1>1, OneBlock DEF InnerByte
<1> QED
  BY <1>1, <1>2, <1>3 DEF DoneBytes

LEMMA VisitedElsewhere ==
  ASSUME TypeOK, NEW v \in Workers, pc[v] = "block", NextPixel(v),
         NEW u, NEW i, u # task[v]
  PROVE  Visited(u, i)' <=> Visited(u, i)
<1>0. /\ at' = [at EXCEPT ![v] = at[v] + 1] /\ task' = task /\ op' = op /\ Queue' = Queue
      /\ pc' = [pc EXCEPT ![v] = IF at[v] + 1 = Inner(task[v]) THEN "get" ELSE "block"]
  BY DEF NextPixel, Queue
<1>1. \A x \in Workers \ {v} : pc'[x] = pc[x] /\ at'[x] = at[x]
  BY <1>0 DEF TypeOK
<1>2. Turn(u, i)' = Turn(u, i)
  BY <1>0 DEF Turn
<1>3. \A x \in Workers : task[x] = u => x \in Workers \ {v}
  OBVIOUS
<1> QED
  BY <1>0, <1>1, <1>2, <1>3 DEF Visited

LEMMA VisitsOne ==
  ASSUME TypeOK, HeldInv, NEW v \in Workers, pc[v] = "block", NextPixel(v)
  PROVE  DoneBytes' = DoneBytes \union TurnBytes(v)
<1>3. PICK t : t = task[v]
  OBVIOUS
<1>0. /\ at' = [at EXCEPT ![v] = at[v] + 1] /\ task' = task /\ op' = op /\ Queue' = Queue
      /\ pc' = [pc EXCEPT ![v] = IF at[v] + 1 = Inner(t) THEN "get" ELSE "block"]
  BY <1>3 DEF NextPixel, Queue
<1>1. /\ pc'[v] = IF at[v] + 1 = Inner(t) THEN "get" ELSE "block"
      /\ at'[v] = at[v] + 1
      /\ \A u \in Workers \ {v} : pc'[u] = pc[u] /\ at'[u] = at[u]
  BY <1>0 DEF TypeOK
<1>2. /\ t \in Blocks /\ t \notin Queue /\ at[v] \in 0 .. Inner(t) - 1
      /\ \A x \in Workers \ {v} : pc[x] = "block" => task[x] # t
  BY <1>3 DEF HeldInv, MarkerInv
<1>4. ASSUME NEW i \in Bytes, InnerByte(t, i)
      PROVE  Visited(t, i)' <=> Turn(t, i) <= at[v]
  <2>1. Turn(t, i) \in 0 .. Inner(t) - 1 /\ Inner(t) \in Nat
    BY <1>2, <1>4, TurnIsTurn, InnerIsNat
  <2>2. Turn(t, i)' = Turn(t, i)
    BY <1>0 DEF Turn
  <2>3. \A x \in Workers \ {v} : pc'[x] = "block" => task'[x] # t
    BY <1>0, <1>1, <1>2
  <2>4. Visited(t, i)' <=> (pc'[v] = "block" => Turn(t, i) < at[v] + 1)
    BY <1>0, <1>1, <1>2, <1>3, <2>2, <2>3 DEF Visited
  <2> QED
    BY <1>1, <1>2, <2>1, <2>4
<1>5. ASSUME NEW i \in Bytes
      PROVE  i \in DoneBytes' <=> i \in DoneBytes \/ i \in TurnBytes(v)
  <2>1. i \in DoneBytes' <=> \E u \in Blocks : InnerByte(u, i) /\ Visited(u, i)'
    BY DEF DoneBytes
  <2>2. i \in DoneBytes <=> \E u \in Blocks : InnerByte(u, i) /\ Visited(u, i)
    BY DEF DoneBytes
  <2>3. CASE InnerByte(t, i)
    <3>1. \A u \in Blocks : InnerByte(u, i) => u = t
      BY <1>2, <2>3, OneBlock DEF InnerByte
    <3>2. i \in DoneBytes' <=> Turn(t, i) <= at[v]
      BY <1>2, <1>4, <2>1, <2>3, <3>1
    <3>3. i \in DoneBytes <=> Turn(t, i) < at[v]
      BY <1>3, <2>3, VisitedHere
    <3>4. i \in TurnBytes(v) <=> Turn(t, i) = at[v]
      BY <1>3, <2>3 DEF TurnBytes
    <3>5. Turn(t, i) \in Int /\ at[v] \in Int
      BY <1>2, <2>3, TurnIsTurn, InnerIsNat
    <3> QED
      BY <3>2, <3>3, <3>4, <3>5
  <2>4. CASE ~ InnerByte(t, i)
    <3>1. \A u \in Blocks : InnerByte(u, i) => u # task[v]
      BY <1>3, <2>4
    <3>2. \A u \in Blocks : InnerByte(u, i) => (Visited(u, i)' <=> Visited(u, i))
      BY <3>1, VisitedElsewhere
    <3>3. i \notin TurnBytes(v)
      BY <1>3, <2>4 DEF TurnBytes
    <3> QED
      BY <2>1, <2>2, <3>2, <3>3
  <2> QED
    BY <2>3, <2>4
<1>6. DoneBytes \subseteq Bytes /\ DoneBytes' \subseteq Bytes /\ TurnBytes(v) \subseteq Bytes
  BY DEF DoneBytes, TurnBytes
<1> QED
  BY <1>5, <1>6

\* The turn's pixel, as the jobs compute it, in either order.
LEMMA TurnPixel ==
  ASSUME NEW t \in Blocks, NEW k \in 0 .. Inner(t) - 1
  PROVE  /\ InBlock(t, InnerRow(t, k), InnerCol(t, k))
         /\ \A i \in Bytes : Row(i) = InnerRow(t, k) /\ Col(i) = InnerCol(t, k)
                               <=> InnerByte(t, i) /\ TurnOf(t, Row(i), Col(i)) = k
<1>1. /\ InBlock(t, InnerRow(t, k), InnerCol(t, k))
      /\ TurnOf(t, InnerRow(t, k), InnerCol(t, k)) = k
  BY TurnBack
<1>2. ASSUME NEW i \in Bytes, InnerByte(t, i)
      PROVE  /\ InnerRow(t, TurnOf(t, Row(i), Col(i))) = Row(i)
             /\ InnerCol(t, TurnOf(t, Row(i), Col(i))) = Col(i)
  BY <1>2, TurnIs DEF InnerByte
<1> QED
  BY <1>1, <1>2 DEF InnerByte

\* What a turn does to the bytes, whichever job takes it.
TurnWrites(v, B) == arr' = [i \in Bytes |-> IF i \in TurnBytes(v) THEN B[i] ELSE arr[i]]

LEMMA TurnIsLevels ==
  ASSUME TypeOK, NEW v \in Workers, NEW B,
         \A i \in TurnBytes(v) : B[i] \in Level, TurnWrites(v, B)
  PROVE  arr' \in [Bytes -> Level]
<1>1. \A i \in Bytes : arr[i] \in Level
  BY DEF TypeOK
<1> QED
  BY <1>1 DEF TurnWrites

LEMMA HeldBlock ==
  ASSUME HeldInv, NEW v \in Workers, pc[v] = "block"
  PROVE  /\ stage = "block" /\ task[v] \in Blocks /\ at[v] \in 0 .. Inner(task[v]) - 1
         /\ Inner(task[v]) \in Nat
         /\ Inner(task[v]) - 1 - at[v] \in 0 .. Inner(task[v]) - 1
<1>1. stage = "block" /\ task[v] \in Blocks /\ at[v] \in 0 .. Inner(task[v]) - 1
  BY DEF HeldInv, MarkerInv
<1>2. Inner(task[v]) \in Nat
  BY <1>1, InnerIsNat
<1> QED
  BY <1>1, <1>2

LEMMA AddTurnBytes ==
  ASSUME TypeOK, HeldInv, NEW v \in Workers, AddWatermarkJob(v)
  PROVE  TurnWrites(v, [i \in Bytes |-> AddByte(arr, task[v], i)])
<1> DEFINE t == task[v]
           k == at[v]
           h == InnerRow(t, k)
           w == InnerCol(t, k)
<1>1. pc[v] = "block" /\ op = "add" /\ arr' = AddPixel(arr, t, h, w)
  BY DEF AddWatermarkJob, AddOrder
<1>2. t \in Blocks /\ k \in 0 .. Inner(t) - 1
  BY <1>1, HeldBlock
<1>3. /\ InBlock(t, h, w)
      /\ \A i \in Bytes : Row(i) = h /\ Col(i) = w
                            <=> InnerByte(t, i) /\ TurnOf(t, Row(i), Col(i)) = k
  BY <1>2, TurnPixel
<1>4. \A i \in Bytes : i \in TurnBytes(v) <=> InnerByte(t, i) /\ TurnOf(t, Row(i), Col(i)) = k
  BY <1>1 DEF TurnBytes, Turn
<1>5. arr \in [Bytes -> Level]
  BY DEF TypeOK
<1> HIDE DEF t, k, h, w
<1>6. AddPixel(arr, t, h, w) = OneTurn(arr, h, w, [i \in Bytes |-> AddByte(arr, t, i)])
  BY <1>2, <1>3, <1>5, AddPixelIs
<1>7. arr' = [i \in Bytes |-> IF i \in TurnBytes(v) THEN AddByte(arr, t, i) ELSE arr[i]]
  BY <1>1, <1>3, <1>4, <1>6 DEF OneTurn
<1> QED
  BY <1>7 DEF TurnWrites, t

LEMMA RemoveTurnBytes ==
  ASSUME TypeOK, HeldInv, NEW v \in Workers, RemoveWatermarkJob(v)
  PROVE  TurnWrites(v, [i \in Bytes |-> RemoveByte(arr, task[v], i)])
<1> DEFINE t == task[v]
           k == Inner(t) - 1 - at[v]
           h == InnerRow(t, k)
           w == InnerCol(t, k)
<1>1. pc[v] = "block" /\ op = "remove" /\ arr' = RemovePixel(arr, t, h, w)
  BY DEF RemoveWatermarkJob, RemoveOrder
<1>2. /\ t \in Blocks /\ k \in 0 .. Inner(t) - 1
      /\ at[v] \in 0 .. Inner(t) - 1 /\ Inner(t) \in Nat
  BY <1>1, HeldBlock
<1>3. /\ InBlock(t, h, w)
      /\ \A i \in Bytes : Row(i) = h /\ Col(i) = w
                            <=> InnerByte(t, i) /\ TurnOf(t, Row(i), Col(i)) = k
  BY <1>2, TurnPixel
<1>4. ASSUME NEW i \in Bytes
      PROVE  i \in TurnBytes(v) <=> InnerByte(t, i) /\ TurnOf(t, Row(i), Col(i)) = k
  <2>1. i \in TurnBytes(v)
          <=> InnerByte(t, i) /\ Inner(t) - 1 - TurnOf(t, Row(i), Col(i)) = at[v]
    BY <1>1 DEF TurnBytes, Turn
  <2>2. InnerByte(t, i) => TurnOf(t, Row(i), Col(i)) \in 0 .. Inner(t) - 1
    BY <1>2, TurnIs DEF InnerByte
  <2> QED
    BY <1>2, <2>1, <2>2
<1>5. arr \in [Bytes -> Level]
  BY DEF TypeOK
<1> HIDE DEF t, k, h, w
<1>6. RemovePixel(arr, t, h, w) = OneTurn(arr, h, w, [i \in Bytes |-> RemoveByte(arr, t, i)])
  BY <1>2, <1>3, <1>5, RemovePixelIs
<1>7. arr' = [i \in Bytes |-> IF i \in TurnBytes(v) THEN RemoveByte(arr, t, i) ELSE arr[i]]
  BY <1>1, <1>3, <1>4, <1>6 DEF OneTurn
<1> QED
  BY <1>7 DEF TurnWrites, t

\* What holds of a turn whatever it writes.
LEMMA TurnKeeps ==
  ASSUME IInv, NEW v \in Workers, pc[v] = "block", NextPixel(v), NEW B, TurnWrites(v, B),
         \A i \in TurnBytes(v) : B[i] \in Level
  PROVE  /\ TypeOK' /\ QueueInv' /\ HeldInv' /\ DoneInv'
         /\ CopyInv' /\ SourceInv' /\ EdgeInv'
         /\ DoneBytes' = DoneBytes \union TurnBytes(v)
<1>0. TypeOK /\ QueueInv /\ HeldInv
  BY DEF IInv
<1>1. /\ original' = original /\ source' = source /\ op' = op /\ stage' = stage
      /\ buffer' = buffer /\ pipe' = pipe /\ task' = task /\ lost' = lost
      /\ at' = [at EXCEPT ![v] = at[v] + 1]
      /\ pc' = [pc EXCEPT ![v] = IF at[v] + 1 = Inner(task[v]) THEN "get" ELSE "block"]
  BY DEF NextPixel
<1>2. QueueInv'
  BY <1>0, <1>1 DEF QueueInv, End
<1>3. HeldInv' /\ DoneBytes' = DoneBytes \union TurnBytes(v)
  BY <1>0, NextPixelHeld, VisitsOne
<1>4. stage = "block" /\ task[v] \in Blocks /\ at[v] \in Nat
  BY <1>0, HeldBlock DEF TypeOK
<1>5. CopyInv'
  BY <1>1, <1>4 DEF CopyInv
<1>6. SourceInv'
  BY <1>1 DEF IInv, SourceInv
<1>7. EdgeInv'
  <2>1. \A i \in Bytes \ InnerBytes : i \notin TurnBytes(v)
    BY <1>4 DEF TurnBytes, InnerBytes
  <2>2. \A i \in Bytes \ InnerBytes : arr'[i] = arr[i]
    BY <2>1 DEF TurnWrites
  <2> QED
    BY <1>1, <2>2 DEF IInv, EdgeInv
<1>8. DoneInv'
  BY <1>1, OpIs
<1>9. arr' \in [Bytes -> Level]
  BY <1>0, TurnIsLevels
<1>10. TypeOK'
  BY <1>0, <1>1, <1>4, <1>9 DEF TypeOK
<1> QED
  BY <1>2, <1>3, <1>5, <1>6, <1>7, <1>8, <1>10

\* Marking reads what has not been visited yet, beside a byte of its own.
LEMMA AddReads ==
  ASSUME TypeOK, HeldInv, NEW v \in Workers, pc[v] = "block", op = "add",
         NEW C, NEW M, arr = Mix(C, M, DoneBytes), NEW i \in TurnBytes(v)
  PROVE  AddByte(arr, task[v], i) = AddByte(C, task[v], i)
<1>1. i \in Bytes /\ InnerByte(task[v], i) /\ Turn(task[v], i) = at[v] /\ task[v] \in Blocks
  BY HeldBlock DEF TurnBytes
<1>2. at[v] \in Nat
  BY DEF TypeOK
<1>3. i \notin DoneBytes
  BY <1>1, <1>2, VisitedHere
<1>4. /\ i + channel \in Bytes
      /\ \/ /\ InnerByte(task[v], i + channel)
            /\ Turn(task[v], i + channel) = Turn(task[v], i) + 1
         \/ i + channel \notin InnerBytes
  BY <1>1, Neighbour DEF Turn
<1>5. i + channel \notin DoneBytes
  <2>1. CASE InnerByte(task[v], i + channel) /\ Turn(task[v], i + channel) = at[v] + 1
    <3>1. ~ (at[v] + 1 < at[v])
      BY <1>2
    <3> QED
      BY <1>4, <2>1, <3>1, VisitedHere
  <2>2. CASE i + channel \notin InnerBytes
    BY <2>2 DEF DoneBytes, InnerBytes
  <2> QED
    BY <1>1, <1>4, <2>1, <2>2
<1>6. arr[i] = C[i] /\ arr[i + channel] = C[i + channel]
  BY <1>1, <1>3, <1>4, <1>5 DEF Mix
<1> QED
  BY <1>6 DEF AddByte

LEMMA AddKeeps ==
  ASSUME IInv, NEW v \in Workers, AddWatermarkJob(v)
  PROVE  IInv'
<1> DEFINE B == [i \in Bytes |-> AddByte(arr, task[v], i)]
           C == Copied(source)
<1>0. TypeOK /\ HeldInv /\ MarkInv /\ pc[v] = "block" /\ op = "add" /\ NextPixel(v)
  BY DEF IInv, AddWatermarkJob
<1>1. TurnWrites(v, B)
  BY <1>0, AddTurnBytes
<1>2. task[v] \in Blocks /\ stage = "block" /\ \A i \in TurnBytes(v) : i \in Bytes /\ InnerByte(task[v], i)
  BY <1>0, HeldBlock DEF TurnBytes
<1>3. \A i \in TurnBytes(v) : B[i] = AddByte(arr, task[v], i) /\ B[i] \in Level
  BY <1>0, <1>2, BytesAreLevels DEF TypeOK
<1> HIDE DEF B
<1>4. /\ TypeOK' /\ QueueInv' /\ HeldInv' /\ DoneInv' /\ CopyInv' /\ SourceInv' /\ EdgeInv'
      /\ DoneBytes' = DoneBytes \union TurnBytes(v)
  BY <1>0, <1>1, <1>3, TurnKeeps
<1>5. op' = "add" /\ source' = source /\ lost' = lost /\ stage' = stage
  BY <1>0 DEF NextPixel
<1>6. UnmarkInv'
  BY <1>5 DEF UnmarkInv
<1>7. ASSUME ~ lost PROVE arr' = Mix(C, Marked(C), DoneBytes')
  <2>1. arr = Mix(C, Marked(C), DoneBytes)
    BY <1>0, <1>2, <1>7 DEF MarkInv
  <2>2. C \in [Bytes -> Level]
    BY <1>0, CopiedIsPicture DEF TypeOK
  <2> HIDE DEF C
  <2>3. ASSUME NEW i \in TurnBytes(v) PROVE B[i] = Marked(C)[i]
    <3>1. AddByte(arr, task[v], i) = AddByte(C, task[v], i)
      BY <1>0, <2>1, AddReads
    <3>2. Marked(C)[i] = AddByte(C, task[v], i)
      BY <1>2, <2>2, MarkedIs
    <3> QED
      BY <1>3, <3>1, <3>2
  <2> QED
    BY <1>1, <1>4, <2>1, <2>3 DEF Mix, TurnWrites
<1>8. MarkInv'
  BY <1>5, <1>7 DEF MarkInv
<1> QED
  BY <1>4, <1>6, <1>8 DEF IInv

\* A byte above the last row is copied, if what the division leaves is in it.
LEMMA InnerIsCopied ==
  ASSUME RestInLastRow, NEW i \in Bytes, Row(i) < height - 1
  PROVE  i < number_of_processes * Share
<1>1. /\ InPicture(Row(i), Col(i)) /\ Chan(i) \in Channels
      /\ i = Index(Row(i), Col(i), Chan(i)) /\ i \in Nat
  BY ByteIs
<1>2. PICK h, w, c \in Nat : h = Row(i) /\ w = Col(i) /\ c = Chan(i)
  BY <1>1, Sizes DEF InPicture, Channels
<1>3. h + 1 <= height - 1 /\ w + 1 <= width /\ c < channel /\ i = (h * width + w) * channel + c
  BY <1>1, <1>2, Sizes DEF InPicture, Channels, Index
<1>4. PICK g \in Nat : g = height - 1
  BY Sizes
<1>5. (h + 1) * width <= g * width /\ (h + 1) * width = h * width + width
      /\ h * width \in Nat /\ g * width \in Nat
  BY <1>2, <1>3, <1>4, Times, Sizes
<1>6. PICK n \in Nat : n = h * width + w
  BY <1>2, <1>5
<1>7. n + 1 <= g * width
  BY <1>3, <1>5, <1>6, Sizes
<1>8. PICK m \in Nat : m = g * width
  BY <1>5
<1>9. (n + 1) * channel <= m * channel /\ (n + 1) * channel = n * channel + channel
      /\ n * channel \in Nat /\ m * channel \in Nat
  BY <1>6, <1>7, <1>8, Times, Sizes
<1>10. i < m * channel
  BY <1>3, <1>6, <1>9, Sizes
<1>11. total = m * channel + width * channel /\ width * channel \in Nat
  <2>1. height = g + 1 /\ height * width = g * width + width
    BY <1>4, Sizes
  <2>2. height * width = m + width /\ (m + width) * channel = m * channel + width * channel
        /\ width * channel \in Nat
    BY <1>8, <2>1, Sizes
  <2> QED
    BY <2>2, TotalIs
<1>12. m * channel <= number_of_processes * Share
  BY <1>9, <1>11, ShareIs, TotalIs DEF RestInLastRow
<1> QED
  BY <1>1, <1>9, <1>10, <1>12, ShareIs

\* Unmarking reads what has been restored already, beside a byte of its own.
LEMMA RemoveReads ==
  ASSUME TypeOK, HeldInv, NEW v \in Workers, pc[v] = "block", op = "remove", RestInLastRow,
         NEW T \in [Bytes -> Level], arr = Mix(Copied(Marked(T)), T, DoneBytes),
         \A i \in Bytes : ~ (i < number_of_processes * Share) => T[i] = 0,
         NEW i \in TurnBytes(v)
  PROVE  RemoveByte(arr, task[v], i) = T[i]
<1>1. i \in Bytes /\ InnerByte(task[v], i) /\ Turn(task[v], i) = at[v] /\ task[v] \in Blocks
  BY HeldBlock DEF TurnBytes
<1>2. at[v] \in Nat
  BY DEF TypeOK
<1>3. i \notin DoneBytes
  BY <1>1, <1>2, VisitedHere
<1>4. i < number_of_processes * Share
  BY <1>1, InnerByteIs, InnerIsCopied
<1>5. arr[i] = AddByte(T, task[v], i)
  <2>1. arr[i] = Copied(Marked(T))[i]
    BY <1>1, <1>3 DEF Mix
  <2>2. Copied(Marked(T))[i] = Marked(T)[i]
    BY <1>1, <1>4 DEF Copied
  <2> QED
    BY <1>1, <2>1, <2>2, MarkedIs
<1>6. i + channel \in Bytes
      /\ \/ /\ InnerByte(task[v], i + channel)
            /\ TurnOf(task[v], Row(i + channel), Col(i + channel))
                 = TurnOf(task[v], Row(i), Col(i)) + 1
         \/ i + channel \notin InnerBytes
  BY <1>1, Neighbour
<1>7. PICK j \in Bytes : j = i + channel
  BY <1>6
<1>8. arr[j] = T[j]
  <2>1. CASE InnerByte(task[v], j)
             /\ TurnOf(task[v], Row(j), Col(j)) = TurnOf(task[v], Row(i), Col(i)) + 1
    <3>1. Inner(task[v]) \in Nat /\ TurnOf(task[v], Row(i), Col(i)) \in 0 .. Inner(task[v]) - 1
      BY <1>1, InnerIsNat, TurnIs DEF InnerByte
    <3>2. Turn(task[v], j) < at[v]
      BY <1>1, <2>1, <3>1 DEF Turn
    <3>3. j \in DoneBytes
      BY <2>1, <3>2, VisitedHere
    <3> QED
      BY <3>3 DEF Mix
  <2>2. CASE j \notin InnerBytes
    <3>1. j \notin DoneBytes
      BY <2>2 DEF DoneBytes, InnerBytes
    <3>2. Marked(T)[j] = T[j]
      BY <2>2, MarkedIs DEF InnerBytes
    <3>3. arr[j] = Copied(Marked(T))[j]
      BY <3>1 DEF Mix
    <3> QED
      BY <3>2, <3>3 DEF Copied
  <2> QED
    BY <1>6, <1>7, <2>1, <2>2
<1>9. arr \in [Bytes -> Level] /\ arr[i + channel] = T[i + channel]
  BY <1>7, <1>8 DEF TypeOK
<1> QED
  BY <1>1, <1>5, <1>9, RemoveUndoesAdd

LEMMA RemoveKeeps ==
  ASSUME IInv, NEW v \in Workers, RemoveWatermarkJob(v)
  PROVE  IInv'
<1> DEFINE B == [i \in Bytes |-> RemoveByte(arr, task[v], i)]
           T == Copied(original)
<1>0. TypeOK /\ HeldInv /\ UnmarkInv /\ SourceInv
      /\ pc[v] = "block" /\ op = "remove" /\ NextPixel(v)
  BY DEF IInv, RemoveWatermarkJob
<1>1. TurnWrites(v, B)
  BY <1>0, RemoveTurnBytes
<1>2. task[v] \in Blocks /\ stage = "block" /\ \A i \in TurnBytes(v) : i \in Bytes /\ InnerByte(task[v], i)
  BY <1>0, HeldBlock DEF TurnBytes
<1>3. \A i \in TurnBytes(v) : B[i] = RemoveByte(arr, task[v], i) /\ B[i] \in Level
  BY <1>0, <1>2, BytesAreLevels DEF TypeOK
<1> HIDE DEF B
<1>4. /\ TypeOK' /\ QueueInv' /\ HeldInv' /\ DoneInv' /\ CopyInv' /\ SourceInv' /\ EdgeInv'
      /\ DoneBytes' = DoneBytes \union TurnBytes(v)
  BY <1>0, <1>1, <1>3, TurnKeeps
<1>5. op' = "remove" /\ source' = source /\ original' = original /\ lost' = lost /\ stage' = stage
  BY <1>0 DEF NextPixel
<1>6. MarkInv'
  BY <1>5 DEF MarkInv
<1>7. ASSUME ~ lost, RestInLastRow PROVE arr' = Mix(Copied(source), T, DoneBytes')
  <2>1. arr = Mix(Copied(source), T, DoneBytes) /\ source = Marked(T)
    BY <1>0, <1>2, <1>7 DEF UnmarkInv, SourceInv
  <2>2. T \in [Bytes -> Level] /\ \A i \in Bytes : ~ (i < number_of_processes * Share) => T[i] = 0
    BY <1>0, CopiedIsPicture DEF TypeOK, Copied
  <2> HIDE DEF T
  <2>3. ASSUME NEW i \in TurnBytes(v) PROVE B[i] = T[i]
    <3>1. RemoveByte(arr, task[v], i) = T[i]
      BY <1>0, <1>7, <2>1, <2>2, RemoveReads
    <3> QED
      BY <1>3, <3>1
  <2> QED
    BY <1>1, <1>4, <2>1, <2>3 DEF Mix, TurnWrites
<1>8. UnmarkInv'
  BY <1>5, <1>7 DEF UnmarkInv
<1> QED
  BY <1>4, <1>6, <1>8 DEF IInv

-----------------------------------------------------------------------------
(* The parent                                                              *)

LEMMA PoolStarts ==
  ASSUME NEW tasks, StartPool(tasks), at' = [v \in Workers |-> 0]
  PROVE  /\ buffer' = tasks /\ HeldInv'
         /\ pc' \in [Workers -> {"get", "poll", "copy", "block", "exited", "crashed"}]
         /\ task' \in [Workers -> Tasks \union {NoTask}] /\ at' \in [Workers -> Nat]
         /\ \A v \in Workers : pc'[v] = "get"
<1>1. /\ buffer' = tasks /\ pc' = [v \in Workers |-> "get"]
      /\ task' = [v \in Workers |-> NoTask]
  BY DEF StartPool
<1>2. HeldInv'
  BY <1>1 DEF HeldInv, CopierInv, MarkerInv
<1> QED
  BY <1>1, <1>2

LEMMA NotMissed ==
  ASSUME ~ Missed
  PROVE  Queue = {}
<1>1. buffer = <<>> /\ pipe = <<>>
  BY DEF Missed
<1>2. Elements(<<>>) = {}
  BY DEF Elements
<1> QED
  BY <1>1, <1>2 DEF Queue

LEMMA MissedIsBoolean == Missed \in BOOLEAN
  BY Zenon DEF Missed

LEMMA NothingVisited ==
  ASSUME Blocks \subseteq Queue'
  PROVE  DoneBytes' = {}
  BY DEF DoneBytes, Visited

LEMMA NothingCopied ==
  ASSUME CopySet \subseteq Queue'
  PROVE  CopiedBytes' = {}
  BY DEF CopiedBytes, Waits

LEMMA MixNothing == \A A \in [Bytes -> Level] : \A B : Mix(A, B, {}) = A
  BY DEF Mix

\* A picture all of whose inner bytes have been marked is the marked picture.
LEMMA MixAllMarked ==
  ASSUME NEW A \in [Bytes -> Level]
  PROVE  Mix(A, Marked(A), InnerBytes) = Marked(A)
<1>1. \A i \in Bytes : i \notin InnerBytes => Marked(A)[i] = A[i]
  BY MarkedIs DEF InnerBytes
<1>2. Marked(A) = [i \in Bytes |-> Marked(A)[i]]
  BY MarkedIsPicture
<1> QED
  BY <1>1, <1>2 DEF Mix

LEMMA MixAllUnmarked ==
  ASSUME NEW A \in [Bytes -> Level]
  PROVE  Mix(Copied(Marked(Copied(A))), Copied(A), InnerBytes) = Copied(A)
<1> DEFINE C == Copied(A)
<1>1. C \in [Bytes -> Level]
  BY CopiedIsPicture
<1>2. \A i \in Bytes : ~ (i < number_of_processes * Share) => C[i] = 0
  BY DEF Copied
<1> HIDE DEF C
<1>3. \A i \in Bytes : i \notin InnerBytes => Copied(Marked(C))[i] = C[i]
  <2> SUFFICES ASSUME NEW i \in Bytes, i \notin InnerBytes PROVE Copied(Marked(C))[i] = C[i]
    OBVIOUS
  <2>1. Marked(C)[i] = C[i]
    BY <1>1, MarkedIs DEF InnerBytes
  <2> QED
    BY <1>2, <2>1 DEF Copied
<1>4. C = [i \in Bytes |-> C[i]]
  BY <1>1
<1>5. Mix(Copied(Marked(C)), C, InnerBytes) = C
  BY <1>3, <1>4 DEF Mix
<1> QED
  BY <1>5 DEF C

LEMMA StartBlocksKeeps ==
  ASSUME IInv, StartBlocks
  PROVE  IInv'
<1>0. TypeOK /\ QueueInv /\ HeldInv /\ ImageInv
  BY DEF IInv, ImageInv
<1>1. /\ op # "done" /\ Joined /\ stage = "copy" /\ stage' = "block"
      /\ StartPool(buffer \o BlockTasks) /\ at' = [v \in Workers |-> 0]
      /\ lost' = (lost \/ Missed) /\ op' = op /\ pipe' = pipe
      /\ arr' = arr /\ source' = source /\ original' = original
  BY DEF StartBlocks, imageVars
<1>2. /\ buffer' = buffer \o BlockTasks /\ HeldInv'
      /\ pc' \in [Workers -> {"get", "poll", "copy", "block", "exited", "crashed"}]
      /\ task' \in [Workers -> Tasks \union {NoTask}] /\ at' \in [Workers -> Nat]
  BY <1>1, PoolStarts
<1>3. QueueInv' /\ Blocks \subseteq Queue'
  BY <1>0, <1>1, <1>2, BlocksPut
<1>4. buffer' \in Seq(Tasks)
  <2>1. PICK k, m \in 0 .. LastTask : QueueAt(pipe', buffer', k, m, LastTask)
    BY <1>1, <1>3 DEF QueueInv, End
  <2> QED
    BY <2>1, QueueIs, Lasts
<1>5. lost' \in BOOLEAN
  BY <1>0, <1>1, MissedIsBoolean DEF TypeOK
<1>6. TypeOK'
  BY <1>0, <1>1, <1>2, <1>4, <1>5 DEF TypeOK
<1>7. DoneBytes' = {}
  BY <1>3, NothingVisited
<1>8. ASSUME ~ lost' PROVE ~ lost /\ arr' = Copied(source)
  <2>1. ~ lost /\ ~ Missed
    BY <1>1, <1>8
  <2>2. Queue = {}
    BY <2>1, NotMissed
  <2>3. \A v \in Workers : pc[v] # "copy"
    BY <1>1, JoinedIs
  <2>4. CopiedBytes = CopyBytes
    BY <2>2, <2>3, AllCopied
  <2>5. arr = Mix(Blank, source, CopyBytes)
    BY <1>0, <1>1, <2>4 DEF ImageInv, CopyInv
  <2> QED
    BY <1>1, <2>1, <2>5, CopiedIs
<1>9. ASSUME NEW B, ~ lost' PROVE arr' = Mix(Copied(source'), B, DoneBytes')
  <2>1. Copied(source) \in [Bytes -> Level]
    BY <1>0, CopiedIsPicture DEF TypeOK
  <2>2. arr' = Mix(Copied(source), B, {})
    BY <1>8, <1>9, <2>1, MixNothing
  <2> QED
    BY <1>1, <1>7, <2>2
<1>10. MarkInv' /\ UnmarkInv'
  BY <1>9 DEF MarkInv, UnmarkInv
<1>11. CopyInv' /\ DoneInv'
  BY <1>1 DEF CopyInv, DoneInv
<1>12. SourceInv'
  BY <1>0, <1>1, <1>8 DEF ImageInv, SourceInv
<1>13. EdgeInv'
  BY <1>0, <1>1 DEF ImageInv, EdgeInv
<1> QED
  BY <1>2, <1>3, <1>6, <1>10, <1>11, <1>12, <1>13 DEF IInv

LEMMA StartRemoveKeeps ==
  ASSUME IInv, StartRemove
  PROVE  IInv'
<1>0. TypeOK /\ QueueInv /\ HeldInv /\ ImageInv
  BY DEF IInv, ImageInv
<1>1. /\ Joined /\ stage = "block" /\ op = "add" /\ op' = "remove" /\ stage' = "copy"
      /\ source' = arr /\ arr' = Blank /\ pipe' = <<>> /\ StartPool(CopyTasks)
      /\ at' = [v \in Workers |-> 0] /\ lost' = (lost \/ Missed) /\ original' = original
  BY DEF StartRemove
<1>2. /\ buffer' = CopyTasks /\ HeldInv'
      /\ pc' \in [Workers -> {"get", "poll", "copy", "block", "exited", "crashed"}]
      /\ task' \in [Workers -> Tasks \union {NoTask}] /\ at' \in [Workers -> Nat]
  BY <1>1, PoolStarts
<1>3. QueueInv' /\ Queue' = CopySet
  BY <1>1, <1>2, CopiesPut
<1>4. buffer' \in Seq(Tasks) /\ pipe' \in Seq(Tasks)
  <2>1. PICK k, m \in 0 .. LastTask : QueueAt(pipe', buffer', k, m, End')
    BY <1>3 DEF QueueInv
  <2>2. End' \in 0 .. LastTask
    BY <1>1, Lasts DEF End
  <2> QED
    BY <2>1, <2>2, QueueIs
<1>5. lost' \in BOOLEAN
  BY <1>0, <1>1, MissedIsBoolean DEF TypeOK
<1>6. TypeOK'
  BY <1>0, <1>1, <1>2, <1>4, <1>5, BlankIs DEF TypeOK
<1>7. CopyInv'
  <2>1. CopiedBytes' = {}
    BY <1>3, NothingCopied
  <2>2. Blank = Mix(Blank, source', {})
    BY BlankIs, MixNothing
  <2>3. arr' = Mix(Blank, source', CopiedBytes')
    BY <1>1, <2>1, <2>2
  <2> QED
    BY <2>3 DEF CopyInv
<1>8. MarkInv' /\ UnmarkInv' /\ DoneInv'
  BY <1>1 DEF MarkInv, UnmarkInv, DoneInv
<1>9. SourceInv'
  <2> SUFFICES ASSUME ~ lost' PROVE arr = Marked(Copied(original))
    BY <1>1 DEF SourceInv
  <2>1. ~ lost /\ ~ Missed
    BY <1>1
  <2>2. Queue = {} /\ \A v \in Workers : pc[v] # "block"
    BY <1>1, <2>1, NotMissed, JoinedIs
  <2>3. DoneBytes = InnerBytes
    BY <2>2, AllVisited
  <2>4. source = original /\ arr = Mix(Copied(source), Marked(Copied(source)), DoneBytes)
    BY <1>0, <1>1, <2>1 DEF ImageInv, SourceInv, MarkInv
  <2>5. Copied(original) \in [Bytes -> Level]
    BY <1>0, CopiedIsPicture DEF TypeOK
  <2> QED
    BY <2>3, <2>4, <2>5, MixAllMarked
<1>10. EdgeInv'
  BY <1>1 DEF EdgeInv, Blank
<1> QED
  BY <1>2, <1>3, <1>6, <1>7, <1>8, <1>9, <1>10 DEF IInv

LEMMA ReturnKeeps ==
  ASSUME IInv, Return
  PROVE  IInv'
<1>0. TypeOK /\ QueueInv /\ HeldInv /\ ImageInv
  BY DEF IInv, ImageInv
<1>1. /\ Joined /\ stage = "block" /\ op = "remove" /\ op' = "done" /\ stage' = stage
      /\ arr' = arr /\ source' = source /\ original' = original
      /\ buffer' = buffer /\ pipe' = pipe /\ pc' = pc /\ task' = task /\ at' = at
      /\ lost' = (lost \/ Missed)
  BY DEF Return, imageVars, poolVars
<1>2. QueueInv' /\ Queue' = Queue
  BY <1>0, <1>1 DEF QueueInv, Queue, End
<1>3. HeldInv'
  BY <1>0, <1>1, <1>2 DEF HeldInv, CopierInv, MarkerInv
<1>4. lost' \in BOOLEAN
  BY <1>0, <1>1, MissedIsBoolean DEF TypeOK
<1>5. TypeOK'
  BY <1>0, <1>1, <1>4 DEF TypeOK
<1>6. DoneBytes' = DoneBytes
  <2>1. \A t, i : Turn(t, i)' = Turn(t, i)
    BY <1>1 DEF Turn
  <2>2. \A t, i : Visited(t, i)' <=> Visited(t, i)
    BY <1>1, <1>2, <2>1 DEF Visited
  <2> QED
    BY <2>2 DEF DoneBytes
<1>7. UnmarkInv'
  BY <1>0, <1>1, <1>6 DEF ImageInv, UnmarkInv
<1>8. CopyInv' /\ MarkInv'
  BY <1>1 DEF CopyInv, MarkInv
<1>9. SourceInv' /\ EdgeInv'
  BY <1>0, <1>1 DEF ImageInv, SourceInv, EdgeInv
<1>10. DoneInv'
  <2>1. Joined'
    BY <1>1 DEF Joined
  <2>2. ~ lost' => Queue' = {}
    BY <1>1, <1>2, NotMissed
  <2> QED
    BY <1>1, <2>1, <2>2 DEF DoneInv
<1> QED
  BY <1>2, <1>3, <1>5, <1>7, <1>8, <1>9, <1>10 DEF IInv

-----------------------------------------------------------------------------
(* The theorems                                                            *)

LEMMA InitHolds == Init => IInv
<1> SUFFICES ASSUME Init PROVE IInv
  OBVIOUS
<1>1. /\ original \in [Bytes -> Level] /\ source = original /\ arr = Blank
      /\ op = "add" /\ stage = "copy" /\ buffer = CopyTasks /\ pipe = <<>>
      /\ pc = [v \in Workers |-> "get"] /\ task = [v \in Workers |-> NoTask]
      /\ at = [v \in Workers |-> 0] /\ lost = FALSE
  BY PictureAssumption DEF Init
<1>2. /\ 0 \in 0 .. number_of_processes /\ 0 \in 0 .. LastTask
      /\ number_of_processes \in 0 .. LastTask
  BY Lasts
<1>3. QueueAt(pipe, buffer, 0, 0, number_of_processes)
  <2>1. CopyTasks = Run(0, number_of_processes)
    BY <1>2, RunJoin
  <2>2. <<>> = Run(0, 0)
    BY DEF Run
  <2> QED
    BY <1>1, <1>2, <2>1, <2>2, Lasts DEF QueueAt
<1>4. End = number_of_processes
  BY <1>1 DEF End
<1>5. QueueInv
  BY <1>2, <1>3, <1>4 DEF QueueInv
<1>6. Queue = CopySet /\ buffer \in Seq(Tasks) /\ pipe \in Seq(Tasks)
  BY <1>2, <1>3, QueueIs, ListedCopies DEF Queue
<1>7. TypeOK
  BY <1>1, <1>6, BlankIs DEF TypeOK
<1>8. HeldInv
  BY <1>1 DEF HeldInv, CopierInv, MarkerInv
<1>9. CopyInv
  <2>1. CopiedBytes = {}
    BY <1>6 DEF CopiedBytes, Waits
  <2>2. Blank = Mix(Blank, source, {})
    BY BlankIs, MixNothing
  <2> QED
    BY <1>1, <2>1, <2>2 DEF CopyInv
<1>10. MarkInv /\ UnmarkInv /\ SourceInv /\ DoneInv
  BY <1>1 DEF MarkInv, UnmarkInv, SourceInv, DoneInv
<1>11. EdgeInv
  BY <1>1 DEF EdgeInv, Blank
<1> QED
  BY <1>5, <1>7, <1>8, <1>9, <1>10, <1>11 DEF IInv

LEMMA NextKeeps == IInv /\ [Next]_vars => IInv'
<1> SUFFICES ASSUME IInv, [Next]_vars PROVE IInv'
  OBVIOUS
<1>1. CASE Feeder
  BY <1>1, FeederKeeps
<1>2. CASE Parent
  BY <1>2, StartBlocksKeeps, StartRemoveKeeps, ReturnKeeps DEF Parent
<1>3. ASSUME NEW v \in Workers, Worker(v) PROVE IInv'
  <2>1. CASE GetTask(v)
    <3>1. CASE Acquire(v, OnEmpty) /\ at' = at
      BY <2>1, <3>1, EmptyKeeps
    <3>2. CASE PollEmpty(v, OnEmpty) /\ at' = at
      BY <2>1, <3>2, EmptyKeeps
    <3>3. CASE Receive(v, OnTask(Head(pipe))) /\ at' = [at EXCEPT ![v] = 0]
      BY <2>1, <3>3, ReceiveKeeps
    <3> QED
      BY <2>1, <3>1, <3>2, <3>3 DEF GetTask
  <2>2. CASE Copy(v)
    BY <2>2, CopyKeeps
  <2>3. CASE AddWatermarkJob(v)
    BY <2>3, AddKeeps
  <2>4. CASE RemoveWatermarkJob(v)
    BY <2>4, RemoveKeeps
  <2> QED
    BY <1>3, <2>1, <2>2, <2>3, <2>4 DEF Worker
<1>4. CASE UNCHANGED vars
  <2>1. /\ SameImages /\ buffer' = buffer /\ pipe' = pipe /\ pc' = pc /\ task' = task /\ at' = at
    BY <1>4 DEF vars, imageVars, poolVars, SameImages
  <2>2. QueueInv' /\ Queue' = Queue
    BY <2>1 DEF IInv, QueueInv, Queue, End, SameImages
  <2>3. SameWork
    BY <2>1, <2>2 DEF SameWork, SameImages
  <2>4. HeldInv' /\ ImageInv'
    BY <2>1, <2>3, SameWorkKeeps, SameImagesKeep DEF IInv, ImageInv
  <2>5. TypeOK'
    BY <2>1 DEF IInv, TypeOK, SameImages
  <2>6. DoneInv'
    BY <2>1, <2>2 DEF IInv, DoneInv, Joined, SameImages
  <2> QED
    BY <2>2, <2>4, <2>5, <2>6 DEF IInv, ImageInv
<1> QED
  BY <1>1, <1>2, <1>3, <1>4 DEF Next

\* What every reachable state of the two calls satisfies: who holds which task,
\* and, byte by byte, how far copying, marking and unmarking have come
\* (reversible.py 43-102).
THEOREM InvariantHolds == Spec => []IInv
<1>1. Init => IInv
  BY InitHolds
<1>2. IInv /\ [Next]_vars => IInv'
  BY NextKeeps
<1> QED
  BY <1>1, <1>2, PTL DEF Spec

\* Type correctness of the two calls: every byte of the shared array is a level.
THEOREM TypeCorrect == Spec => []TypeOK
<1>1. IInv => TypeOK
  BY DEF IInv
<1> QED
  BY InvariantHolds, <1>1, PTL

\* Two workers of reversible.py never touch the same pixel, not even to read a
\* neighbour: the array needs no lock.
THEOREM BlocksNeverMeet == Spec => []BlocksApart
<1>1. IInv => BlocksApart
  <2> SUFFICES ASSUME IInv, NEW v \in Workers, NEW u \in Workers,
                      v # u, pc[v] = "block", pc[u] = "block"
               PROVE  Footprint(task[v]) \cap Footprint(task[u]) = {}
    BY DEF BlocksApart
  <2>1. task[v] \in Blocks /\ task[u] \in Blocks /\ task[u] # task[v]
    BY DEF IInv, HeldInv, MarkerInv
  <2> QED
    BY <2>1, FootprintsApart
<1> QED
  BY InvariantHolds, <1>1, PTL

\* When no task was lost, the picture addWatermark returns is the one marking all
\* pixels at once would give, in whatever order the workers took the blocks.
THEOREM MarkingAlwaysSequential == Spec => []MarkingIsSequential
<1>1. IInv => MarkingIsSequential
  BY DEF IInv, SourceInv, MarkingIsSequential
<1> QED
  BY InvariantHolds, <1>1, PTL

\* When no task was lost and the copying left only bytes of the last row,
\* removeWatermark gives the picture back that addWatermark was given.
THEOREM PictureAlwaysRestored == Spec => []PictureRestored
<1>1. IInv => PictureRestored
  <2> SUFFICES ASSUME IInv, op = "done", ~ lost, RestInLastRow
               PROVE  arr = Copied(original)
    BY DEF PictureRestored
  <2>1. stage = "block" /\ Joined /\ Queue = {}
    BY DEF IInv, DoneInv
  <2>2. \A v \in Workers : pc[v] # "block"
    BY <2>1, JoinedIs
  <2>3. DoneBytes = InnerBytes
    BY <2>1, <2>2, AllVisited
  <2>4. /\ arr = Mix(Copied(source), Copied(original), DoneBytes)
        /\ source = Marked(Copied(original)) /\ original \in [Bytes -> Level]
    BY <2>1 DEF IInv, UnmarkInv, SourceInv, TypeOK
  <2> QED
    BY <2>3, <2>4, MixAllUnmarked
<1> QED
  BY InvariantHolds, <1>1, PTL

\* The last row and column of the picture are never marked, whatever is lost.
THEOREM EdgesAlwaysKept == Spec => []LastRowAndColumnKept
<1>1. IInv => LastRowAndColumnKept
  <2> SUFFICES ASSUME IInv, NEW i \in Bytes, Row(i) = height - 1 \/ Col(i) = width - 1
               PROVE  arr[i] \in {0, source[i]}
    BY DEF LastRowAndColumnKept, Row, Col
  <2>1. Row(i) \in Int /\ Col(i) \in Int
    BY ByteIs, Sizes DEF InPicture
  <2>2. i \notin InnerBytes
    BY <2>1, InnerByteIs, Sizes DEF InnerBytes
  <2> QED
    BY <2>2 DEF IInv, EdgeInv
<1> QED
  BY InvariantHolds, <1>1, PTL
=============================================================================
