--------------------------- MODULE MCFrameCapture ---------------------------
(* FrameCapture on a small instance: sides of a few pixels, every pair of   *)
(* formats, and one device that offers more than the attempts allow.        *)
EXTENDS FrameCapture, TLC

CONSTANTS c1, c2, n1, n2

SmallSizes  == {<<3, 2>>, <<4, 2>>, <<6, 8>>}
SmallFormats ==
  [size : {<<2, 2>>, <<4, 2>>, <<6, 8>>}, fps : {15, 30, 60}, pixels : {"nv12", "compressed"}]
Same(n, pixels) == [i \in 1 .. n |-> [size |-> <<4, 2>>, fps |-> 30, pixels |-> pixels]]
SmallOffers ==
  {<<>>, Same(7, "yuy2"), Same(5, "compressed") \o Same(2, "i420"),
   Same(7, "compressed") \o <<[size |-> <<2, 2>>, fps |-> 30, pixels |-> "uyvy"]>>}
  \cup {<<f, g>> : f, g \in SmallFormats}
SmallCeiling == <<4, 4>>
SmallWidths  == {4, 12}
Alike == Permutations(Cameras) \cup Permutations(Names)
=============================================================================
