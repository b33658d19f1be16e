----------------------- MODULE MCReversibleWatermark -----------------------
(* Small pictures and watermarks for ReversibleWatermark.                  *)
EXTENDS ReversibleWatermark

\* Two pictures with every level, in different places.
SmallPictures ==
  {[i \in Bytes |-> ((i * i) + (i \div 3)) % Depth], [i \in Bytes |-> ((5 * i) + 2) % Depth]}

\* A watermark whose levels vary with the place and with the size it is resized
\* to; resized to a width of 2, its first pixel is white.
SmallWatermark ==
  [size \in (1 .. width) \X (1 .. height) |->
     [spot \in (0 .. size[1] - 1) \X (0 .. size[2] - 1) |->
        [c \in Channels |->
           IF size[1] = 2 /\ spot = <<0, 0>> THEN Depth - 1
           ELSE (spot[1] + spot[2] + size[1] + c) % Depth]]]
=============================================================================
