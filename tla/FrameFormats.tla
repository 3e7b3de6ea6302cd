---------------------------- MODULE FrameFormats ----------------------------
(***************************************************************************)
(* Sizes, formats and pixel layouts: the pure half of the capture of a      *)
(* screen and of a camera (capture.rs, camera/mod.rs, camera/mf.rs,         *)
(* camera/dshow.rs, camera/convert.rs, preview.rs).  A size is              *)
(* <<width, height>>.  Divisions of floating point numbers are exact here.  *)
(***************************************************************************)
EXTENDS Integers, Sequences, FiniteSets, FiniteSetsExt

-----------------------------------------------------------------------------
(* fit: the size a frame is scaled to.                                      *)

Even(n) == n - (n % 2)

\* a / b, rounded to the nearest integer.
Rounded(a, b) == (2 * a + b) \div (2 * b)

Side(n) == Even(IF n < 2 THEN 2 ELSE n)

\* The largest even-sided box that fits source inside max in its own shape.
Fit(source, max) ==
  LET byWidth == max[1] * source[2] <= max[2] * source[1]
      to      == IF byWidth THEN max[1] ELSE max[2]
      from    == IF byWidth THEN source[1] ELSE source[2]
  IN IF source[1] = 0 \/ source[2] = 0 THEN <<0, 0>>
     ELSE IF to >= from THEN <<Side(source[1]), Side(source[2])>>
     ELSE <<Side(Rounded(source[1] * to, from)), Side(Rounded(source[2] * to, from))>>

\* Control::ceiling of the preview: 16:9 below a width, which fit then cuts.
PreviewCeiling(width) == <<width, (width * 9) \div 16>>

-----------------------------------------------------------------------------
(* Formats a camera offers: a sequence of [size, fps, pixels], where pixels  *)
(* is "compressed" for what needs a decoder.  A pool is a set of indices.   *)

Preference == <<"nv12", "i420", "yuy2", "uyvy", "rgb32", "rgb24">>
Pixels     == {Preference[i] : i \in 1 .. 6}

Area(f) == f.size[1] * f.size[2]
Fits(f, ceiling) == f.size[1] <= ceiling[1] /\ f.size[2] <= ceiling[2]

\* Mutant: the rate nearest to the one asked for, on either side.
NoWorseRateNearest(f, g, fps) ==
  LET Off(rate) == IF rate >= fps THEN rate - fps ELSE fps - rate
  IN Off(f.fps) <= Off(g.fps)

\* Too few frames a second are worse than too many, by any amount.
NoWorseRate(f, g, fps) ==
  IF f.fps >= fps THEN g.fps >= fps => f.fps <= g.fps
  ELSE g.fps < fps /\ g.fps <= f.fps

\* choose_format, from a pool: the largest that fits, then the rate; else the
\* smallest; the first of those that tie.
ChooseFormat(offered, pool, ceiling, fps) ==
  LET fitting  == {i \in pool : Fits(offered[i], ceiling)}
      smallest == {i \in pool : \A j \in pool : Area(offered[i]) <= Area(offered[j])}
      largest  == {i \in fitting : \A j \in fitting : Area(offered[j]) <= Area(offered[i])}
      nearest  == {i \in largest : \A j \in largest : NoWorseRate(offered[i], offered[j], fps)}
  IN Min(IF fitting = {} THEN smallest ELSE nearest)

\* What a layout costs to convert; a compressed one needs a decoder.
Cost(pixels) ==
  IF pixels = "compressed" THEN 8 ELSE CHOOSE i \in 1 .. 6 : Preference[i] = pixels

MaxAttempts == 6

\* best_of in mf.rs: the formats of the pool that tie with the chosen one.
BestOf(offered, pool, ceiling, fps) ==
  LET best == offered[ChooseFormat(offered, pool, ceiling, fps)]
  IN {i \in pool : offered[i].size = best.size /\ offered[i].fps = best.fps}

Cheaper(offered, i, j) ==
  \/ Cost(offered[i].pixels) < Cost(offered[j].pixels)
  \/ Cost(offered[i].pixels) = Cost(offered[j].pixels) /\ i < j

\* sort_by_key(cost), which is stable: each place has the index that so many
\* others go before.
SortByCost(offered, pool) ==
  [n \in 1 .. Cardinality(pool) |->
     CHOOSE i \in pool : Cardinality({j \in pool : Cheaper(offered, j, i)}) = n - 1]

\* ranked: the best formats, then the best uncompressed ones, as indices.
Ranked(natives, ceiling, fps) ==
  LET best == BestOf(natives, DOMAIN natives, ceiling, fps)
      raw  == {i \in DOMAIN natives : natives[i].pixels # "compressed"}
      more == BestOf(natives, raw, ceiling, fps) \ best
      all  == SortByCost(natives, best) \o SortByCost(natives, more)
  IN SubSeq(all, 1, IF Len(all) < MaxAttempts THEN Len(all) ELSE MaxAttempts)

\* negotiate in dshow.rs: among those of the pool that tie the cheapest wins.
DirectShowChoice(offered, pool, ceiling, fps) ==
  offered[Head(SortByCost(offered, BestOf(offered, pool, ceiling, fps)))]

\* achievable_fps, for a pin that says its slowest and its fastest rate; 0 is
\* an interval that is not positive.
AchievableFps(slowest, fastest, wanted) ==
  IF fastest = 0 \/ slowest = 0 \/ slowest > fastest THEN wanted
  ELSE IF wanted < slowest THEN slowest ELSE IF wanted > fastest THEN fastest ELSE wanted

-----------------------------------------------------------------------------
(* Pixel layouts (convert.rs).  raw is a frame in memory: its length in     *)
(* bytes, the bytes from one row to the next, and which way up it is.       *)

DivUp(a, b) == (a + b - 1) \div b

Stride(kind, width) ==
  CASE kind \in {"nv12", "i420"} -> width
    [] kind \in {"yuy2", "uyvy"} -> width * 2
    [] kind = "rgb32"            -> width * 4
    [] kind = "rgb24"            -> DivUp(width * 3, 4) * 4

MinimumPitch(kind, width) == IF kind = "rgb24" THEN width * 3 ELSE Stride(kind, width)

Needed(kind, pitch, height) ==
  CASE kind = "nv12" -> pitch * height + pitch * DivUp(height, 2)
    [] kind = "i420" -> pitch * height + 2 * (pitch \div 2) * DivUp(height, 2)
    [] OTHER         -> pitch * height

CanBeBottomUp(kind) == kind \notin {"nv12", "i420"}

\* The frames Converter::write takes.
Accepts(kind, raw, size) ==
  /\ size[1] >= 2 /\ size[2] >= 2 /\ size[1] % 2 = 0 /\ size[2] % 2 = 0
  /\ raw.bottomUp => CanBeBottomUp(kind)
  /\ raw.pitch >= MinimumPitch(kind, size[1])
  /\ raw.length >= Needed(kind, raw.pitch, size[2])

\* The row of memory that holds row y of the picture.
Stored(raw, size, y) == IF raw.bottomUp THEN size[2] - 1 - y ELSE y

\* The bytes of memory that the luma of pixel <<x, y>> is made of.
LumaFrom(kind, raw, size, x, y) ==
  LET row == Stored(raw, size, y) * raw.pitch
  IN CASE kind \in {"nv12", "i420"} -> {row + x}
       [] kind = "yuy2"  -> {row + 2 * x}
       [] kind = "uyvy"  -> {row + 2 * x + 1}
       [] kind = "rgb32" -> row + 4 * x .. row + 4 * x + 2
       [] kind = "rgb24" -> row + 3 * x .. row + 3 * x + 2

\* The bytes that U and V of the 2 x 2 block <<x, y>> are made of.  RGB takes
\* them from the pixels of the block.
ChromaFrom(kind, raw, size, x, y) ==
  LET luma == raw.pitch * size[2]
      half == raw.pitch \div 2
      row  == Stored(raw, size, 2 * y) * raw.pitch
  IN CASE kind = "nv12" -> <<luma + y * raw.pitch + 2 * x, luma + y * raw.pitch + 2 * x + 1>>
       [] kind = "i420" -> <<luma + y * half + x,
                             luma + half * DivUp(size[2], 2) + y * half + x>>
       [] kind = "yuy2" -> <<row + 4 * x + 1, row + 4 * x + 3>>
       [] kind = "uyvy" -> <<row + 4 * x, row + 4 * x + 2>>
       [] OTHER         -> <<row, row>>

\* A frame as read_frame of mf.rs presents it: a 2-D buffer says its pitch, and
\* starts at the last row when that is negative; a plain one has its length and
\* the media type's stride, or the layout's own.
Read2D(kind, pitch, size) ==
  [length   |-> IF pitch > 0 THEN Needed(kind, pitch, size[2]) ELSE -pitch * size[2],
   pitch    |-> IF pitch > 0 THEN pitch ELSE -pitch,
   bottomUp |-> pitch < 0]

ReadPlain(length, stride) ==
  [length |-> length, pitch |-> IF stride < 0 THEN -stride ELSE stride,
   bottomUp |-> stride < 0]

\* A frame as take of dshow.rs presents it; a shorter sample is skipped.
ReadSample(kind, size, bottomUp) ==
  [length |-> Needed(kind, Stride(kind, size[1]), size[2]),
   pitch |-> Stride(kind, size[1]), bottomUp |-> bottomUp]

-----------------------------------------------------------------------------
(* What is expected of a choice and of a frame.                             *)

\* f is a better format than g for a ceiling and a rate.
Better(f, g, ceiling, fps) ==
  \/ Fits(f, ceiling) /\ ~Fits(g, ceiling)
  \/ ~Fits(f, ceiling) /\ ~Fits(g, ceiling) /\ Area(f) < Area(g)
  \/ /\ Fits(f, ceiling) /\ Fits(g, ceiling)
     /\ \/ Area(f) > Area(g)
        \/ /\ Area(f) = Area(g)
           /\ \/ f.fps >= fps /\ (g.fps < fps \/ f.fps < g.fps)
              \/ f.fps < fps /\ g.fps < f.fps

\* No format is tried twice, none is better than the first, a cheaper layout of
\* the same size and rate goes before a dearer one, and unless the best ones use
\* up the attempts, a device with an uncompressed format has one among them.
RankingIsSound(natives, ceiling, fps) ==
  LET r    == Ranked(natives, ceiling, fps)
      Raw(i) == natives[i].pixels # "compressed"
  IN /\ r \in Seq(DOMAIN natives) /\ Len(r) <= MaxAttempts
     /\ \A m, n \in DOMAIN r : r[m] = r[n] => m = n
     /\ natives # <<>> =>
          r # <<>> /\ \A i \in DOMAIN natives : ~Better(natives[i], natives[r[1]], ceiling, fps)
     /\ \A m, n \in DOMAIN r :
          m < n /\ natives[r[m]].size = natives[r[n]].size /\ natives[r[m]].fps = natives[r[n]].fps
            => Cost(natives[r[m]].pixels) <= Cost(natives[r[n]].pixels)
     /\ (\E i \in DOMAIN natives : Raw(i))
          /\ Cardinality(BestOf(natives, DOMAIN natives, ceiling, fps)) < MaxAttempts
          => \E n \in DOMAIN r : Raw(r[n])

\* A frame is read inside its memory, no byte is the luma of two pixels, and
\* no byte of a YUV frame is both luma and chroma.
ReadsInside(kind, raw, size) ==
  LET pixels == (0 .. size[1] - 1) \X (0 .. size[2] - 1)
      blocks == (0 .. size[1] \div 2 - 1) \X (0 .. size[2] \div 2 - 1)
      Luma(p)   == LumaFrom(kind, raw, size, p[1], p[2])
      Chroma(b) == {ChromaFrom(kind, raw, size, b[1], b[2])[i] : i \in 1 .. 2}
  IN /\ \A p \in pixels : Luma(p) \subseteq 0 .. raw.length - 1
     /\ \A b \in blocks : Chroma(b) \subseteq 0 .. raw.length - 1
     /\ \A p, q \in pixels : p # q => Luma(p) \cap Luma(q) = {}
     /\ kind \notin {"rgb32", "rgb24"} =>
          \A b \in blocks, p \in pixels : Chroma(b) \cap Luma(p) = {}

\* A box scaled into a ceiling is even on both sides, inside it, never larger
\* than its source, fills one side of the ceiling if the source does not fit,
\* and has the source's shape, up to two pixels of each side.
ScaledInto(source, max, out) ==
  /\ \A i \in 1 .. 2 : out[i] % 2 = 0 /\ out[i] >= 2 /\ out[i] <= max[i] /\ out[i] <= source[i]
  /\ (\E i \in 1 .. 2 : source[i] > max[i]) => (\E i \in 1 .. 2 : out[i] >= max[i] - 1)
  /\ (out[1] - 2) * source[2] <= (out[2] + 2) * source[1]
  /\ (out[2] - 2) * source[1] <= (out[1] + 2) * source[2]
=============================================================================
