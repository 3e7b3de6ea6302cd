------------------------ MODULE FrameCapture_proofs ------------------------
(***************************************************************************)
(* Proofs about FrameFormats and FrameCapture.                              *)
(***************************************************************************)
EXTENDS FrameCapture, FiniteSetTheorems, WellFoundedInduction, TLAPS

-----------------------------------------------------------------------------
(* Sizes: fit scales every frame into its ceiling.                          *)

LEMMA ProductGrows ==
  ASSUME NEW a \in Nat, NEW b \in Nat, NEW c \in Nat, a <= b
  PROVE  a * c <= b * c /\ c * a <= c * b
<1>1. (b - a) \in Nat BY SMT
<1>2. (b - a) * c >= 0 BY <1>1, SMT
<1>3. (b - a) * c = b * c - a * c BY SMT
<1> QED BY <1>2, <1>3, SMT

LEMMA ProductCancels ==
  ASSUME NEW a \in Nat, NEW b \in Nat, NEW c \in Nat, a * c < b * c
  PROVE  a < b
<1>1. ~(b <= a) BY ProductGrows, SMT
<1> QED BY <1>1, SMT

LEMMA ProductIsNat == ASSUME NEW a \in Nat, NEW b \in Nat PROVE a * b \in Nat /\ a * b = b * a
  BY SMT

LEMMA EvenFacts ==
  ASSUME NEW n \in Nat
  PROVE  /\ Even(n) \in Nat /\ Even(n) % 2 = 0
         /\ Even(n) <= n /\ n - 1 <= Even(n)
         /\ n % 2 = 0 => Even(n) = n
  BY SMT DEF Even

LEMMA SideFacts ==
  ASSUME NEW n \in Nat
  PROVE  /\ Side(n) \in Nat /\ Side(n) % 2 = 0 /\ Side(n) >= 2
         /\ n >= 2 => Side(n) <= n
         /\ n < 2 => Side(n) = 2
         /\ n - 1 <= Side(n)
         /\ n >= 2 /\ n % 2 = 0 => Side(n) = n
<1>1. CASE n < 2 BY <1>1, EvenFacts, SMT DEF Side, Even
<1>2. CASE n >= 2 BY <1>2, EvenFacts, SMT DEF Side, Even
<1> QED BY <1>1, <1>2, SMT

LEMMA DivFacts ==
  ASSUME NEW n \in Nat, NEW d \in Nat, d > 0
  PROVE  n \div d \in Nat /\ d * (n \div d) <= n /\ n < d * (n \div d) + d
<1>1. n \div d \in Nat BY SMT
<1>2. n = d * (n \div d) + (n % d) BY SMT
<1>3. n % d \in 0 .. d - 1 BY SMT
<1> QED BY <1>1, <1>2, <1>3, SMT

LEMMA RoundedFacts ==
  ASSUME NEW a \in Nat, NEW b \in Nat, b > 0
  PROVE  /\ Rounded(a, b) \in Nat
         /\ 2 * (b * Rounded(a, b)) <= 2 * a + b
         /\ 2 * a + b < 2 * (b * Rounded(a, b)) + 2 * b
<1> DEFINE n == 2 * a + b
           d == 2 * b
           q == n \div d
<1>1. n \in Nat /\ d \in Nat /\ d > 0 BY SMT
<1> HIDE DEF n, d
<1>2. q \in Nat BY <1>1, DivFacts
<1>3. d * q <= n /\ n < d * q + d BY <1>1, DivFacts
<1>4. q = Rounded(a, b) BY DEF q, n, d, Rounded
<1> HIDE DEF q
<1>5. d * q = 2 * (b * q) BY <1>2, SMT DEF d
<1> QED BY <1>2, <1>3, <1>4, <1>5, SMT DEF n, d

LEMMA RoundedExact ==
  ASSUME NEW a \in Nat, NEW b \in Nat, b > 0
  PROVE  Rounded(a * b, b) = a /\ Rounded(b * a, b) = a
<1> DEFINE q == Rounded(a * b, b)
<1>1. a * b \in Nat /\ a * b = b * a BY ProductIsNat
<1>2. /\ q \in Nat
      /\ 2 * (b * q) <= 2 * (a * b) + b
      /\ 2 * (a * b) + b < 2 * (b * q) + 2 * b
  BY <1>1, RoundedFacts
<1> HIDE DEF q
<1>3. q * b = b * q /\ q * b \in Nat BY <1>2, ProductIsNat
<1>4. (a + 1) * b = a * b + b /\ (q + 1) * b = q * b + b BY <1>2, SMT
<1>5. q * b < (a + 1) * b /\ a * b < (q + 1) * b BY <1>1, <1>2, <1>3, <1>4, SMT
<1>6. q < a + 1 /\ a < q + 1 BY <1>2, <1>5, ProductCancels, SMT
<1>7. q = a BY <1>2, <1>6, SMT
<1> QED BY <1>1, <1>7 DEF q

\* One side of the ceiling decides: s is the side that is brought down to m, and
\* t the other, which n allows at least as much.
LEMMA ScaleDown ==
  ASSUME NEW s \in Nat, NEW t \in Nat, NEW m \in Nat, NEW n \in Nat,
         s >= 2, t >= 2, m >= 2, n >= 2, m < s, m * t <= n * s,
         NEW o, o = Side(m), NEW p, p = Side(Rounded(t * m, s))
  PROVE  /\ o \in Nat /\ o % 2 = 0 /\ o >= 2 /\ o <= m /\ o <= s /\ o >= m - 1
         /\ p \in Nat /\ p % 2 = 0 /\ p >= 2 /\ p <= n /\ p <= t
         /\ (o - 2) * t <= (p + 2) * s
         /\ (p - 2) * s <= (o + 2) * t
<1> DEFINE q == Rounded(t * m, s)
<1>1. t * m \in Nat /\ t * m = m * t BY ProductIsNat
<1>2. /\ q \in Nat
      /\ 2 * (s * q) <= 2 * (t * m) + s
      /\ 2 * (t * m) + s < 2 * (s * q) + 2 * s
  BY <1>1, RoundedFacts
<1>3. p = Side(q) OBVIOUS
<1> HIDE DEF q
<1>4. q * s = s * q /\ q * s \in Nat BY <1>2, ProductIsNat
<1>5. q <= n
  <2>1. (n + 1) * s = n * s + s /\ n * s \in Nat BY ProductIsNat, SMT
  <2>2. q * s < (n + 1) * s BY <1>1, <1>2, <1>4, <2>1, SMT
  <2> QED BY <1>2, <2>2, ProductCancels, SMT
<1>6. q <= t
  <2>1. m * t <= s * t BY ProductGrows
  <2>2. (t + 1) * s = t * s + s /\ t * s \in Nat /\ t * s = s * t BY ProductIsNat, SMT
  <2>3. q * s < (t + 1) * s BY <1>1, <1>2, <1>4, <2>1, <2>2, SMT
  <2> QED BY <1>2, <2>3, ProductCancels, SMT
<1>7. /\ o \in Nat /\ o % 2 = 0 /\ o >= 2 /\ o <= m /\ m - 1 <= o
      /\ p \in Nat /\ p % 2 = 0 /\ p >= 2 /\ q - 1 <= p
      /\ q >= 2 => p <= q
      /\ q < 2 => p = 2
  BY <1>2, <1>3, SideFacts
<1>8. p <= n /\ p <= t BY <1>2, <1>5, <1>6, <1>7, SMT
<1>9. (o - 2) * t <= (p + 2) * s
  <2>1. (o - 2) \in Nat /\ o - 2 <= m /\ q + 1 \in Nat /\ p + 2 \in Nat /\ q + 1 <= p + 2 BY <1>2, <1>7, SMT
  <2>2. (o - 2) * t <= m * t /\ (q + 1) * s <= (p + 2) * s BY <2>1, ProductGrows
  <2>3. (q + 1) * s = q * s + s BY <1>2, SMT
  <2>4. m * t <= (q + 1) * s BY <1>1, <1>2, <1>4, <2>3, SMT
  <2>5. (o - 2) * t \in Nat /\ m * t \in Nat /\ (q + 1) * s \in Nat /\ (p + 2) * s \in Nat
    BY <2>1, ProductIsNat
  <2> QED BY <2>2, <2>4, <2>5, SMT
<1>10. (p - 2) * s <= (o + 2) * t
  <2>1. CASE q < 2
    <3>1. p - 2 = 0 BY <1>7, <2>1, SMT
    <3>2. (o + 2) * t \in Nat BY <1>7, ProductIsNat, SMT
    <3> QED BY <3>1, <3>2, SMT
  <2>2. CASE q >= 2
    <3>1. p - 2 \in Nat /\ q - 2 \in Nat /\ p - 2 <= q - 2 /\ o + 2 \in Nat /\ m <= o + 2
      BY <1>2, <1>7, <2>2, SMT
    <3>2. (p - 2) * s <= (q - 2) * s /\ m * t <= (o + 2) * t BY <3>1, ProductGrows
    <3>3. (q - 2) * s = q * s - 2 * s BY <1>2, SMT
    <3>4. (q - 2) * s <= m * t BY <1>1, <1>2, <1>4, <3>3, SMT
    <3>5. (p - 2) * s \in Nat /\ (q - 2) * s \in Nat /\ m * t \in Nat /\ (o + 2) * t \in Nat
      BY <3>1, ProductIsNat
    <3> QED BY <3>2, <3>4, <3>5, SMT
  <2> QED BY <1>2, <2>1, <2>2, SMT
<1> QED BY <1>7, <1>8, <1>9, <1>10, SMT

\* What fit answers for a frame that the converter takes and a ceiling of at
\* least two pixels a side (capture.rs, fit), whatever their sizes.
THEOREM FitScales ==
  ASSUME NEW source \in Nat \X Nat, NEW max \in Nat \X Nat,
         source[1] >= 2, source[2] >= 2, source[1] % 2 = 0, source[2] % 2 = 0,
         max[1] >= 2, max[2] >= 2
  PROVE  ScaledInto(source, max, Fit(source, max))
<1> DEFINE s == source[1]
           t == source[2]
           m == max[1]
           n == max[2]
           out == Fit(source, max)
<1> SUFFICES ScaledInto(source, max, out) OBVIOUS
<1>1. /\ s \in Nat /\ t \in Nat /\ m \in Nat /\ n \in Nat
      /\ s >= 2 /\ t >= 2 /\ m >= 2 /\ n >= 2 /\ s % 2 = 0 /\ t % 2 = 0
  OBVIOUS
<1>2. out = IF m * t <= n * s
            THEN IF m >= s THEN <<Side(s), Side(t)>>
                 ELSE <<Side(Rounded(s * m, s)), Side(Rounded(t * m, s))>>
            ELSE IF n >= t THEN <<Side(s), Side(t)>>
                 ELSE <<Side(Rounded(s * n, t)), Side(Rounded(t * n, t))>>
  BY <1>1 DEF Fit
<1>3. ASSUME NEW o \in Nat, NEW p \in Nat, out = <<o, p>>,
             /\ o % 2 = 0 /\ o >= 2 /\ o <= m /\ o <= s
             /\ p % 2 = 0 /\ p >= 2 /\ p <= n /\ p <= t
             /\ s > m \/ t > n => o >= m - 1 \/ p >= n - 1
             /\ (o - 2) * t <= (p + 2) * s
             /\ (p - 2) * s <= (o + 2) * t
      PROVE  ScaledInto(source, max, out)
  <2>1. out[1] = o /\ out[2] = p BY <1>3
  <2>2. 1 .. 2 = {1, 2} BY SMT
  <2>3. source[1] = s /\ source[2] = t /\ max[1] = m /\ max[2] = n OBVIOUS
  <2> HIDE DEF out, s, t, m, n
  <2>4. \A i \in 1 .. 2 : out[i] % 2 = 0 /\ out[i] >= 2 /\ out[i] <= max[i] /\ out[i] <= source[i]
    BY <1>3, <2>1, <2>2, <2>3
  <2>5. (\E i \in 1 .. 2 : source[i] > max[i]) => (\E i \in 1 .. 2 : out[i] >= max[i] - 1)
    BY <1>3, <2>1, <2>2, <2>3
  <2>6. /\ (out[1] - 2) * source[2] <= (out[2] + 2) * source[1]
        /\ (out[2] - 2) * source[1] <= (out[1] + 2) * source[2]
    BY <1>3, <2>1, <2>3
  <2> QED BY <2>4, <2>5, <2>6 DEF ScaledInto
<1>4. Side(s) = s /\ Side(t) = t BY <1>1, SideFacts
<1> HIDE DEF s, t, m, n, out
<1>5. (s - 2) * t <= (t + 2) * s /\ (t - 2) * s <= (s + 2) * t
  <2>1. (s - 2) * t = s * t - 2 * t /\ (t + 2) * s = s * t + 2 * s BY <1>1, SMT
  <2>2. (t - 2) * s = s * t - 2 * s /\ (s + 2) * t = s * t + 2 * t BY <1>1, SMT
  <2> QED BY <1>1, <2>1, <2>2, ProductIsNat, SMT
<1>6. CASE m * t <= n * s /\ m >= s
  <2>1. t <= n
    <3>1. SUFFICES ASSUME n < t PROVE FALSE BY <1>1, SMT
    <3>2. n * s < t * s
      <4>1. (n + 1) * s <= t * s BY <1>1, <3>1, ProductGrows, SMT
      <4>2. (n + 1) * s = n * s + s BY <1>1, SMT
      <4> QED BY <1>1, <4>1, <4>2, ProductIsNat, SMT
    <3>3. s * t <= m * t BY <1>1, <1>6, ProductGrows
    <3> QED BY <1>1, <1>6, <3>2, <3>3, ProductIsNat, SMT
  <2>2. out = <<s, t>> BY <1>2, <1>4, <1>6
  <2>3. s <= m /\ ~(s > m \/ t > n) BY <1>1, <1>6, <2>1, SMT
  <2>4. s <= s /\ t <= t BY <1>1, SMT
  <2> QED BY <1>1, <1>3, <1>5, <2>1, <2>2, <2>3, <2>4
<1>7. CASE m * t <= n * s /\ ~(m >= s)
  <2>1. out = <<Side(m), Side(Rounded(t * m, s))>>
    <3>1. s > 0 BY <1>1, SMT
    <3>2. Rounded(s * m, s) = m BY <1>1, <3>1, RoundedExact
    <3> QED BY <1>2, <1>7, <3>2
  <2> DEFINE o == Side(m)
             p == Side(Rounded(t * m, s))
  <2>2. /\ o \in Nat /\ o % 2 = 0 /\ o >= 2 /\ o <= m /\ o <= s /\ o >= m - 1
        /\ p \in Nat /\ p % 2 = 0 /\ p >= 2 /\ p <= n /\ p <= t
        /\ (o - 2) * t <= (p + 2) * s
        /\ (p - 2) * s <= (o + 2) * t
    <3>1. m < s BY <1>1, <1>7, SMT
    <3> QED BY <1>1, <1>7, <3>1, ScaleDown
  <2>3. out = <<o, p>> BY <2>1
  <2> HIDE DEF o, p
  <2> QED BY <1>3, <2>2, <2>3
<1>8. CASE ~(m * t <= n * s) /\ n >= t
  <2>1. s <= m
    <3>1. SUFFICES ASSUME m < s PROVE FALSE BY <1>1, SMT
    <3>2. m * t <= s * t /\ t * s <= n * s BY <1>1, <1>8, <3>1, ProductGrows, SMT
    <3> QED BY <1>1, <1>8, <3>2, ProductIsNat, SMT
  <2>2. out = <<s, t>> BY <1>2, <1>4, <1>8
  <2>3. t <= n /\ ~(s > m \/ t > n) BY <1>1, <1>8, <2>1, SMT
  <2>4. s <= s /\ t <= t BY <1>1, SMT
  <2> QED BY <1>1, <1>3, <1>5, <2>1, <2>2, <2>3, <2>4
<1>9. CASE ~(m * t <= n * s) /\ ~(n >= t)
  <2>1. out = <<Side(Rounded(s * n, t)), Side(n)>>
    <3>1. t > 0 BY <1>1, SMT
    <3>2. Rounded(t * n, t) = n BY <1>1, <3>1, RoundedExact
    <3> QED BY <1>2, <1>9, <3>2
  <2> DEFINE p == Side(n)
             o == Side(Rounded(s * n, t))
  <2>2. n * s <= m * t /\ n < t BY <1>1, <1>9, ProductIsNat, SMT
  <2>3. /\ p \in Nat /\ p % 2 = 0 /\ p >= 2 /\ p <= n /\ p <= t /\ p >= n - 1
        /\ o \in Nat /\ o % 2 = 0 /\ o >= 2 /\ o <= m /\ o <= s
        /\ (p - 2) * s <= (o + 2) * t
        /\ (o - 2) * t <= (p + 2) * s
    BY <1>1, <2>2, ScaleDown
  <2>4. out = <<o, p>> BY <2>1
  <2> HIDE DEF o, p
  <2> QED BY <1>3, <2>3, <2>4
<1> QED BY <1>6, <1>7, <1>8, <1>9

-----------------------------------------------------------------------------
(* Pixel layouts: what the converter accepts it reads inside its memory.    *)

\* Byte c of row r, of rows of p bytes.
LEMMA RowInside ==
  ASSUME NEW p \in Nat, NEW h \in Nat, NEW r \in 0 .. h - 1, NEW c \in 0 .. p - 1
  PROVE  r * p + c \in Nat /\ r * p + c < h * p
<1>1. r \in Nat /\ r + 1 \in Nat /\ r + 1 <= h /\ c \in Nat /\ c < p BY SMT
<1>2. (r + 1) * p <= h * p BY <1>1, ProductGrows
<1>3. (r + 1) * p = r * p + p BY <1>1, SMT
<1>4. r * p \in Nat /\ h * p \in Nat BY <1>1, ProductIsNat
<1> QED BY <1>1, <1>2, <1>3, <1>4, SMT

LEMMA RowsApart ==
  ASSUME NEW p \in Nat, NEW r \in Nat, NEW s \in Nat, NEW c \in 0 .. p - 1, NEW d \in 0 .. p - 1,
         r * p + c = s * p + d
  PROVE  r = s /\ c = d
<1>1. ASSUME NEW a \in Nat, NEW b \in Nat, NEW x \in 0 .. p - 1, NEW y \in 0 .. p - 1, a < b
      PROVE  a * p + x < b * p + y
  <2>1. a + 1 \in Nat /\ a + 1 <= b /\ x \in Nat /\ x < p /\ y \in Nat BY <1>1, SMT
  <2>2. (a + 1) * p <= b * p BY <2>1, ProductGrows
  <2>3. (a + 1) * p = a * p + p BY SMT
  <2>4. a * p \in Nat /\ b * p \in Nat BY ProductIsNat
  <2> QED BY <2>1, <2>2, <2>3, <2>4, SMT
<1>2. r * p \in Nat /\ s * p \in Nat /\ c \in Nat /\ d \in Nat BY ProductIsNat, SMT
<1>3. ~(r < s) BY <1>1, <1>2, SMT
<1>4. ~(s < r) BY <1>1, <1>2, SMT
<1>5. r = s BY <1>3, <1>4, SMT
<1> QED BY <1>2, <1>5, SMT

\* The bytes of its row that the luma of column x is made of.
Columns(kind, x) ==
  CASE kind \in {"nv12", "i420"} -> {x}
    [] kind = "yuy2"  -> {2 * x}
    [] kind = "uyvy"  -> {2 * x + 1}
    [] kind = "rgb32" -> 4 * x .. 4 * x + 2
    [] kind = "rgb24" -> 3 * x .. 3 * x + 2

\* The bytes of its row that the chroma of block column x is made of.
ChromaColumns(kind, x) ==
  CASE kind = "yuy2" -> {4 * x + 1, 4 * x + 3}
    [] kind = "uyvy" -> {4 * x, 4 * x + 2}
    [] OTHER         -> {0}

LEMMA PixelKinds ==
  Pixels = {"nv12", "i420", "yuy2", "uyvy", "rgb32", "rgb24"}
<1>1. /\ Preference[1] = "nv12" /\ Preference[2] = "i420" /\ Preference[3] = "yuy2"
      /\ Preference[4] = "uyvy" /\ Preference[5] = "rgb32" /\ Preference[6] = "rgb24"
  BY DEF Preference
<1>2. 1 .. 6 = {1, 2, 3, 4, 5, 6} BY SMT
<1> QED BY <1>1, <1>2 DEF Pixels

\* What Accepts says, with the sides of the frame as numbers.
Frame(kind, raw, size, w, h, p) ==
  /\ kind \in Pixels
  /\ size = <<w, h>> /\ w \in Nat /\ h \in Nat /\ w >= 2 /\ h >= 2 /\ w % 2 = 0 /\ h % 2 = 0
  /\ raw.pitch = p /\ p \in Nat /\ p >= MinimumPitch(kind, w)
  /\ raw.length \in Int /\ raw.length >= Needed(kind, p, h)
  /\ raw.bottomUp \in BOOLEAN

LEMMA LumaColumns ==
  ASSUME NEW kind, NEW raw, NEW size, NEW w, NEW h, NEW p, Frame(kind, raw, size, w, h, p),
         NEW x \in 0 .. w - 1, NEW y \in 0 .. h - 1
  PROVE  /\ Stored(raw, size, y) \in 0 .. h - 1
         /\ Columns(kind, x) \subseteq 0 .. p - 1
         /\ LumaFrom(kind, raw, size, x, y) = {Stored(raw, size, y) * p + c : c \in Columns(kind, x)}
<1>1. /\ w \in Nat /\ h \in Nat /\ p \in Nat /\ x \in Nat /\ y \in Nat /\ x < w /\ y < h
      /\ size[2] = h /\ raw.pitch = p /\ p >= MinimumPitch(kind, w) /\ kind \in Pixels
  BY SMT DEF Frame
<1>2. Stored(raw, size, y) \in 0 .. h - 1 BY <1>1, SMT DEF Stored
<1> DEFINE row == Stored(raw, size, y) * p
<1>3. row \in Nat BY <1>1, <1>2, ProductIsNat, SMT
<1>4. Stored(raw, size, y) * raw.pitch = row BY <1>1
<1> HIDE DEF row
<1>5. CASE kind \in {"nv12", "i420"}
  <2>1. p >= w BY <1>1, <1>5 DEF MinimumPitch, Stride
  <2>2. Columns(kind, x) = {x} BY <1>5 DEF Columns
  <2>3. LumaFrom(kind, raw, size, x, y) = {row + x} BY <1>4, <1>5 DEF LumaFrom
  <2> QED BY <1>1, <1>2, <2>1, <2>2, <2>3, SMT DEF row
<1>6. CASE kind = "yuy2"
  <2>1. p >= w * 2 BY <1>1, <1>6 DEF MinimumPitch, Stride
  <2>2. Columns(kind, x) = {2 * x} BY <1>6 DEF Columns
  <2>3. LumaFrom(kind, raw, size, x, y) = {row + 2 * x} BY <1>4, <1>6 DEF LumaFrom
  <2> QED BY <1>1, <1>2, <2>1, <2>2, <2>3, SMT DEF row
<1>7. CASE kind = "uyvy"
  <2>1. p >= w * 2 BY <1>1, <1>7 DEF MinimumPitch, Stride
  <2>2. Columns(kind, x) = {2 * x + 1} BY <1>7 DEF Columns
  <2>3. LumaFrom(kind, raw, size, x, y) = {row + 2 * x + 1} BY <1>4, <1>7 DEF LumaFrom
  <2>4. row + 2 * x + 1 = row + (2 * x + 1) BY <1>1, <1>3, SMT
  <2> QED BY <1>1, <1>2, <2>1, <2>2, <2>3, <2>4, SMT DEF row
<1>8. CASE kind = "rgb32"
  <2>1. p >= w * 4 BY <1>1, <1>8 DEF MinimumPitch, Stride
  <2>2. Columns(kind, x) = 4 * x .. 4 * x + 2 BY <1>8 DEF Columns
  <2>3. LumaFrom(kind, raw, size, x, y) = row + 4 * x .. row + 4 * x + 2 BY <1>4, <1>8 DEF LumaFrom
  <2>4. row + 4 * x .. row + 4 * x + 2 = {row + c : c \in 4 * x .. 4 * x + 2}
    <3>1. ASSUME NEW b \in row + 4 * x .. row + 4 * x + 2 PROVE b - row \in 4 * x .. 4 * x + 2 /\ b = row + (b - row)
      BY <1>1, <1>3, SMT
    <3>2. ASSUME NEW c \in 4 * x .. 4 * x + 2 PROVE row + c \in row + 4 * x .. row + 4 * x + 2
      BY <1>1, <1>3, SMT
    <3> QED BY <3>1, <3>2
  <2>5. 4 * x .. 4 * x + 2 \subseteq 0 .. p - 1 BY <1>1, <2>1, SMT
  <2> QED BY <1>2, <2>2, <2>3, <2>4, <2>5 DEF row
<1>9. CASE kind = "rgb24"
  <2>1. p >= w * 3 BY <1>1, <1>9 DEF MinimumPitch
  <2>2. Columns(kind, x) = 3 * x .. 3 * x + 2 BY <1>9 DEF Columns
  <2>3. LumaFrom(kind, raw, size, x, y) = row + 3 * x .. row + 3 * x + 2 BY <1>4, <1>9 DEF LumaFrom
  <2>4. row + 3 * x .. row + 3 * x + 2 = {row + c : c \in 3 * x .. 3 * x + 2}
    <3>1. ASSUME NEW b \in row + 3 * x .. row + 3 * x + 2 PROVE b - row \in 3 * x .. 3 * x + 2 /\ b = row + (b - row)
      BY <1>1, <1>3, SMT
    <3>2. ASSUME NEW c \in 3 * x .. 3 * x + 2 PROVE row + c \in row + 3 * x .. row + 3 * x + 2
      BY <1>1, <1>3, SMT
    <3> QED BY <3>1, <3>2
  <2>5. 3 * x .. 3 * x + 2 \subseteq 0 .. p - 1 BY <1>1, <2>1, SMT
  <2> QED BY <1>2, <2>2, <2>3, <2>4, <2>5 DEF row
<1> QED BY <1>1, <1>5, <1>6, <1>7, <1>8, <1>9, PixelKinds

LEMMA ColumnsApart ==
  ASSUME NEW kind \in Pixels, NEW x \in Nat, NEW z \in Nat, x # z
  PROVE  Columns(kind, x) \cap Columns(kind, z) = {}
<1>1. CASE kind \in {"nv12", "i420"} BY <1>1 DEF Columns
<1>2. CASE kind \in {"yuy2", "uyvy"} BY <1>2, SMT DEF Columns
<1>3. CASE kind = "rgb32" BY <1>3, SMT DEF Columns
<1>4. CASE kind = "rgb24" BY <1>4, SMT DEF Columns
<1> QED BY <1>1, <1>2, <1>3, <1>4, PixelKinds

\* A picture has room for its luma, and a planar one for its chroma behind it.
LEMMA Room ==
  ASSUME NEW kind, NEW raw, NEW size, NEW w, NEW h, NEW p, Frame(kind, raw, size, w, h, p)
  PROVE  /\ DivUp(h, 2) = h \div 2 /\ h \div 2 \in Nat /\ w \div 2 \in Nat /\ p \div 2 \in Nat
         /\ 2 * (w \div 2) = w /\ 2 * (h \div 2) = h
         /\ h * p \in Nat /\ p * h = h * p /\ h * p <= raw.length
         /\ kind = "nv12" => /\ h * p + (h \div 2) * p <= raw.length
                             /\ w <= p
         /\ kind = "i420" => /\ h * p + 2 * ((h \div 2) * (p \div 2)) <= raw.length
                             /\ w \div 2 <= p \div 2
<1> DEFINE k == h \div 2
           f == p \div 2
<1>1. /\ w \in Nat /\ h \in Nat /\ p \in Nat /\ h % 2 = 0 /\ w % 2 = 0
      /\ raw.length \in Int /\ raw.length >= Needed(kind, p, h) /\ p >= MinimumPitch(kind, w)
  BY DEF Frame
<1>2. DivUp(h, 2) = k /\ k \in Nat /\ w \div 2 \in Nat /\ f \in Nat /\ 2 * (w \div 2) = w /\ 2 * k = h
  BY <1>1, SMT DEF DivUp
<1> HIDE DEF k, f
<1>3. /\ h * p \in Nat /\ p * h = h * p /\ k * p \in Nat /\ p * k = k * p
      /\ k * f \in Nat /\ f * k = k * f /\ 2 * f * k = 2 * (k * f)
  BY <1>1, <1>2, ProductIsNat, SMT
<1>4. CASE kind = "nv12"
  <2>1. Needed(kind, p, h) = p * h + p * DivUp(h, 2) /\ MinimumPitch(kind, w) = w
    BY <1>4 DEF Needed, MinimumPitch, Stride
  <2>2. raw.length >= h * p + k * p /\ w <= p BY <1>1, <1>2, <1>3, <2>1
  <2> QED BY <1>1, <1>2, <1>3, <1>4, <2>2, SMT DEF k, f
<1>5. CASE kind = "i420"
  <2>1. Needed(kind, p, h) = p * h + 2 * (p \div 2) * DivUp(h, 2) /\ MinimumPitch(kind, w) = w
    BY <1>5 DEF Needed, MinimumPitch, Stride
  <2>2. raw.length >= h * p + 2 * (k * f) /\ w <= p BY <1>1, <1>2, <1>3, <2>1 DEF f
  <2>3. w \div 2 <= p \div 2 BY <1>1, <2>2, SMT
  <2>4. raw.length >= h * p BY <1>1, <1>3, <2>2, SMT
  <2> QED BY <1>2, <1>3, <1>5, <2>2, <2>3, <2>4 DEF k, f
<1>6. CASE kind # "nv12" /\ kind # "i420"
  <2>1. Needed(kind, p, h) = p * h BY <1>6 DEF Needed
  <2> QED BY <1>1, <1>2, <1>3, <1>6, <2>1 DEF k, f
<1> QED BY <1>4, <1>5, <1>6

\* Chroma lies behind the luma of a planar picture, and in a row of a packed one.
LEMMA ChromaPlaces ==
  ASSUME NEW kind, NEW raw, NEW size, NEW w, NEW h, NEW p, Frame(kind, raw, size, w, h, p),
         NEW x \in 0 .. w \div 2 - 1, NEW y \in 0 .. h \div 2 - 1,
         NEW i \in 1 .. 2, NEW byte, byte = ChromaFrom(kind, raw, size, x, y)[i]
  PROVE  \/ /\ kind \in {"nv12", "i420"}
            /\ byte \in Int /\ h * p <= byte /\ byte < raw.length
         \/ /\ kind \notin {"nv12", "i420"}
            /\ ChromaColumns(kind, x) \subseteq 0 .. p - 1
            /\ \E r \in 0 .. h - 1, c \in ChromaColumns(kind, x) : byte = r * p + c
<1> DEFINE k == h \div 2
           v == w \div 2
           f == p \div 2
<1>1. /\ w \in Nat /\ h \in Nat /\ p \in Nat /\ kind \in Pixels
      /\ size[2] = h /\ raw.pitch = p /\ p >= MinimumPitch(kind, w) /\ raw.length \in Int
      /\ w >= 2 /\ h >= 2
  BY SMT DEF Frame
<1>2. k \in Nat /\ v \in Nat /\ f \in Nat /\ DivUp(h, 2) = k /\ 2 * v = w /\ 2 * k = h
      /\ h * p \in Nat /\ p * h = h * p
  BY Room
<1>3. x \in Nat /\ x < v /\ y \in Nat /\ y < k /\ y \in 0 .. k - 1 BY <1>2, SMT
<1>4. i = 1 \/ i = 2 BY SMT
<1>5. kind = "nv12" => h * p + k * p <= raw.length /\ w <= p BY Room
<1>6. kind = "i420" => h * p + 2 * (k * f) <= raw.length /\ v <= f BY Room
<1>7. p \div 2 = f /\ raw.pitch * size[2] = h * p BY <1>1, <1>2
<1> HIDE DEF k, v, f
<1>8. CASE kind = "nv12"
  <2> DEFINE c == IF i = 1 THEN 2 * x ELSE 2 * x + 1
  <2>1. byte = IF i = 1 THEN h * p + y * p + 2 * x ELSE h * p + y * p + 2 * x + 1
    BY <1>1, <1>4, <1>7, <1>8 DEF ChromaFrom
  <2>2. c \in 0 .. p - 1 BY <1>1, <1>2, <1>3, <1>5, <1>8, SMT
  <2>3. y * p + c \in Nat /\ y * p + c < k * p BY <1>1, <1>2, <1>3, <2>2, RowInside
  <2>4. y * p \in Nat /\ k * p \in Nat BY <1>1, <1>2, <1>3, ProductIsNat
  <2>5. byte = h * p + (y * p + c) BY <1>2, <1>3, <2>1, <2>4, SMT
  <2> HIDE DEF c
  <2> QED BY <1>1, <1>2, <1>5, <1>8, <2>3, <2>4, <2>5, SMT
<1>9. CASE kind = "i420"
  <2>1. byte = IF i = 1 THEN h * p + y * f + x ELSE h * p + f * k + y * f + x
    BY <1>1, <1>2, <1>4, <1>7, <1>9 DEF ChromaFrom
  <2>2. x \in 0 .. f - 1 BY <1>2, <1>3, <1>6, <1>9, SMT
  <2>3. y * f + x \in Nat /\ y * f + x < k * f BY <1>2, <1>3, <2>2, RowInside
  <2>4. y * f \in Nat /\ k * f \in Nat /\ f * k = k * f BY <1>2, <1>3, ProductIsNat
  <2> QED BY <1>1, <1>2, <1>3, <1>6, <1>9, <2>1, <2>3, <2>4, SMT
<1>10. CASE kind \notin {"nv12", "i420"}
  <2> DEFINE r == Stored(raw, size, 2 * y)
  <2>1. r \in 0 .. h - 1 BY <1>1, <1>2, <1>3, SMT DEF Stored
  <2>2. r * raw.pitch = r * p /\ r * p \in Nat BY <1>1, <2>1, ProductIsNat, SMT
  <2>3. CASE kind = "yuy2"
    <3>1. p >= w * 2 BY <1>1, <2>3 DEF MinimumPitch, Stride
    <3>2. ChromaColumns(kind, x) = {4 * x + 1, 4 * x + 3} BY <2>3 DEF ChromaColumns
    <3>3. byte = IF i = 1 THEN r * p + 4 * x + 1 ELSE r * p + 4 * x + 3
      BY <1>4, <2>2, <2>3 DEF ChromaFrom
    <3>4. byte = r * p + (4 * x + 1) \/ byte = r * p + (4 * x + 3) BY <1>3, <2>2, <3>3, SMT
    <3>5. ChromaColumns(kind, x) \subseteq 0 .. p - 1 BY <1>1, <1>2, <1>3, <3>1, <3>2, SMT
    <3> HIDE DEF r
    <3> QED BY <1>10, <2>1, <3>2, <3>4, <3>5
  <2>4. CASE kind = "uyvy"
    <3>1. p >= w * 2 BY <1>1, <2>4 DEF MinimumPitch, Stride
    <3>2. ChromaColumns(kind, x) = {4 * x, 4 * x + 2} BY <2>4 DEF ChromaColumns
    <3>3. byte = IF i = 1 THEN r * p + 4 * x ELSE r * p + 4 * x + 2
      BY <1>4, <2>2, <2>4 DEF ChromaFrom
    <3>4. byte = r * p + (4 * x) \/ byte = r * p + (4 * x + 2) BY <1>3, <2>2, <3>3, SMT
    <3>5. ChromaColumns(kind, x) \subseteq 0 .. p - 1 BY <1>1, <1>2, <1>3, <3>1, <3>2, SMT
    <3> HIDE DEF r
    <3> QED BY <1>10, <2>1, <3>2, <3>4, <3>5
  <2>5. CASE kind \in {"rgb32", "rgb24"}
    <3>1. p >= w BY <1>1, <2>5, SMT DEF MinimumPitch, Stride
    <3>2. ChromaColumns(kind, x) = {0} BY <2>5 DEF ChromaColumns
    <3>3. byte = r * p BY <1>4, <2>2, <2>5 DEF ChromaFrom
    <3>4. byte = r * p + 0 BY <2>2, <3>3, SMT
    <3>5. {0} \subseteq 0 .. p - 1 BY <1>1, <3>1, SMT
    <3> HIDE DEF r
    <3> QED BY <1>10, <2>1, <3>2, <3>4, <3>5
  <2> QED BY <1>1, <1>10, <2>3, <2>4, <2>5, PixelKinds
<1> QED BY <1>8, <1>9, <1>10

\* What Converter::write takes it reads inside the memory of the frame, without
\* mixing pixels or planes, whatever the layout, the size, the padding and the
\* direction of the rows (convert.rs, write and the loops below it).
THEOREM AcceptedIsReadInside ==
  ASSUME NEW kind \in Pixels, NEW size \in Nat \X Nat,
         NEW raw \in [length : Int, pitch : Int, bottomUp : BOOLEAN], Accepts(kind, raw, size)
  PROVE  ReadsInside(kind, raw, size)
<1> DEFINE w == size[1]
           h == size[2]
           p == raw.pitch
           pixels == (0 .. w - 1) \X (0 .. h - 1)
           blocks == (0 .. w \div 2 - 1) \X (0 .. h \div 2 - 1)
           Luma(q) == LumaFrom(kind, raw, size, q[1], q[2])
           Chroma(b) == {ChromaFrom(kind, raw, size, b[1], b[2])[i] : i \in 1 .. 2}
<1>1. Frame(kind, raw, size, w, h, p)
  <2>1. /\ w \in Nat /\ h \in Nat /\ w >= 2 /\ h >= 2 /\ w % 2 = 0 /\ h % 2 = 0 /\ size = <<w, h>>
        /\ p \in Int /\ raw.length \in Int /\ raw.bottomUp \in BOOLEAN
        /\ p >= MinimumPitch(kind, w) /\ raw.length >= Needed(kind, p, h)
    BY DEF Accepts
  <2>2. MinimumPitch(kind, w) \in Nat
    <3> HIDE DEF w
    <3> QED BY <2>1, PixelKinds, SMT DEF MinimumPitch, Stride
  <2>3. p \in Nat BY <2>1, <2>2, SMT
  <2> QED BY <2>1, <2>3 DEF Frame
<1>2. /\ w \in Nat /\ h \in Nat /\ p \in Nat /\ raw.length \in Int
      /\ h * p \in Nat /\ h * p <= raw.length
  BY <1>1, Room DEF Frame
<1> HIDE DEF w, h, p
<1>3. ASSUME NEW q \in pixels, NEW a \in Luma(q)
      PROVE  \E c \in Columns(kind, q[1]) :
               /\ c \in 0 .. p - 1
               /\ Stored(raw, size, q[2]) \in 0 .. h - 1
               /\ a = Stored(raw, size, q[2]) * p + c
  <2>1. q[1] \in 0 .. w - 1 /\ q[2] \in 0 .. h - 1 BY <1>3
  <2> QED BY <1>1, <1>3, <2>1, LumaColumns
<1>4. ASSUME NEW r \in 0 .. h - 1, NEW c \in 0 .. p - 1 PROVE r * p + c \in 0 .. raw.length - 1
  BY <1>2, RowInside, SMT
<1>5. \A q \in pixels : Luma(q) \subseteq 0 .. raw.length - 1 BY <1>3, <1>4
<1>6. \A b \in blocks : Chroma(b) \subseteq 0 .. raw.length - 1
  <2> SUFFICES ASSUME NEW b \in blocks, NEW i \in 1 .. 2, NEW a, a = ChromaFrom(kind, raw, size, b[1], b[2])[i]
               PROVE  a \in 0 .. raw.length - 1
    OBVIOUS
  <2>1. b[1] \in 0 .. w \div 2 - 1 /\ b[2] \in 0 .. h \div 2 - 1 OBVIOUS
  <2>2. CASE a \in Int /\ h * p <= a /\ a < raw.length BY <1>2, <2>2, SMT
  <2>3. CASE /\ ChromaColumns(kind, b[1]) \subseteq 0 .. p - 1
             /\ \E r \in 0 .. h - 1, c \in ChromaColumns(kind, b[1]) : a = r * p + c
    BY <1>4, <2>3
  <2> QED BY <1>1, <2>1, <2>2, <2>3, ChromaPlaces
<1>7. \A q, z \in pixels : q # z => Luma(q) \cap Luma(z) = {}
  <2> SUFFICES ASSUME NEW q \in pixels, NEW z \in pixels, NEW a \in Luma(q), a \in Luma(z) PROVE q = z
    OBVIOUS
  <2> DEFINE r == Stored(raw, size, q[2])
             s == Stored(raw, size, z[2])
  <2>1. PICK c \in Columns(kind, q[1]) : c \in 0 .. p - 1 /\ r \in 0 .. h - 1 /\ a = r * p + c BY <1>3
  <2>2. PICK d \in Columns(kind, z[1]) : d \in 0 .. p - 1 /\ s \in 0 .. h - 1 /\ a = s * p + d BY <1>3
  <2>3. r \in Nat /\ s \in Nat BY <1>2, <2>1, <2>2, SMT
  <2>4. r = s /\ c = d
    <3> HIDE DEF r, s
    <3> QED BY <1>2, <2>1, <2>2, <2>3, RowsApart
  <2>5. q[2] = z[2]
    <3>1. size[2] = h /\ h \in Nat /\ q[2] \in 0 .. h - 1 /\ z[2] \in 0 .. h - 1 BY <1>2 DEF h
    <3> QED BY <2>4, <3>1, SMT DEF Stored
  <2>6. q[1] = z[1]
    <3>1. q[1] \in Nat /\ z[1] \in Nat BY <1>2, SMT
    <3> QED BY <2>1, <2>2, <2>4, <3>1, ColumnsApart
  <2> QED BY <2>5, <2>6
<1>8. kind \notin {"rgb32", "rgb24"} =>
        \A b \in blocks, q \in pixels : Chroma(b) \cap Luma(q) = {}
  <2> SUFFICES ASSUME kind \notin {"rgb32", "rgb24"}, NEW b \in blocks, NEW q \in pixels, NEW a \in Luma(q),
                      NEW i \in 1 .. 2, a = ChromaFrom(kind, raw, size, b[1], b[2])[i]
               PROVE  FALSE
    OBVIOUS
  <2> DEFINE s == Stored(raw, size, q[2])
  <2>1. b[1] \in 0 .. w \div 2 - 1 /\ b[2] \in 0 .. h \div 2 - 1 OBVIOUS
  <2>2. PICK d \in Columns(kind, q[1]) : d \in 0 .. p - 1 /\ s \in 0 .. h - 1 /\ a = s * p + d BY <1>3
  <2> HIDE DEF s
  <2>3. CASE kind \in {"nv12", "i420"}
    <3>1. h * p <= a BY <1>1, <2>1, <2>3, ChromaPlaces
    <3>2. a \in Nat /\ a < h * p BY <1>2, <2>2, RowInside
    <3> QED BY <1>2, <3>1, <3>2, SMT
  <2>4. CASE kind \in {"yuy2", "uyvy"}
    <3>1. /\ ChromaColumns(kind, b[1]) \subseteq 0 .. p - 1
          /\ \E r \in 0 .. h - 1, c \in ChromaColumns(kind, b[1]) : a = r * p + c
      BY <1>1, <2>1, <2>4, ChromaPlaces
    <3>2. PICK r \in 0 .. h - 1, c \in ChromaColumns(kind, b[1]) : a = r * p + c BY <3>1
    <3>3. r \in Nat /\ s \in Nat /\ c \in 0 .. p - 1 BY <1>2, <2>2, <3>1, <3>2, SMT
    <3>4. c = d
      <4>1. r * p + c = s * p + d /\ d \in 0 .. p - 1 BY <2>2, <3>2
      <4> HIDE DEF pixels, blocks, Luma, Chroma
      <4> QED BY <1>2, <3>3, <4>1, RowsApart
    <3>5. b[1] \in Int /\ q[1] \in Int BY <1>2, <2>1, SMT
    <3>6. CASE kind = "yuy2"
      <4>1. d = 2 * q[1] /\ (c = 4 * b[1] + 1 \/ c = 4 * b[1] + 3) BY <2>2, <3>2, <3>6 DEF Columns, ChromaColumns
      <4> QED BY <3>4, <3>5, <4>1, SMT
    <3>7. CASE kind = "uyvy"
      <4>1. d = 2 * q[1] + 1 /\ (c = 4 * b[1] \/ c = 4 * b[1] + 2) BY <2>2, <3>2, <3>7 DEF Columns, ChromaColumns
      <4> QED BY <3>4, <3>5, <4>1, SMT
    <3> QED BY <2>4, <3>6, <3>7
  <2> QED BY <2>3, <2>4, PixelKinds
<1> QED BY <1>5, <1>6, <1>7, <1>8 DEF ReadsInside, w, h

-----------------------------------------------------------------------------
(* Formats: one that is best exists, and the ranking has it first.          *)

\* A strict order on a finite set has a least element.
LEMMA LeastExists ==
  ASSUME NEW S, IsFiniteSet(S), S # {}, NEW R,
         \A i \in S : <<i, i>> \notin R,
         \A i, j, k \in S : <<i, j>> \in R /\ <<j, k>> \in R => <<i, k>> \in R
  PROVE  \E i \in S : \A j \in S : <<j, i>> \notin R
<1> DEFINE Under(i) == {j \in S : <<j, i>> \in R}
           T == {Under(i) : i \in S}
<1>1. T \subseteq FiniteSubsetsOf(S) /\ T # {}
  <2>1. \A i \in S : Under(i) \in SUBSET S OBVIOUS
  <2>2. \A x \in SUBSET S : IsFiniteSet(x) BY FS_Subset
  <2> HIDE DEF Under
  <2>3. \A i \in S : Under(i) \in FiniteSubsetsOf(S) BY <2>1, <2>2 DEF FiniteSubsetsOf
  <2> QED BY <2>3
<1>2. IsWellFoundedOn(StrictSubsetOrdering(S), FiniteSubsetsOf(S)) BY FS_StrictSubsetOrderingWellFounded
<1> HIDE DEF T
<1>3. PICK n \in T : \A k \in T : ~(<<k, n>> \in StrictSubsetOrdering(S)) BY <1>1, <1>2, WFMin
<1>4. PICK i \in S : n = Under(i) BY <1>3 DEF T
<1>5. ASSUME NEW j \in S, <<j, i>> \in R PROVE FALSE
  <2>1. Under(j) \in T BY DEF T
  <2>2. Under(j) \subseteq Under(i) /\ j \in Under(i) /\ j \notin Under(j) BY <1>5
  <2>3. <<Under(j), Under(i)>> \in StrictSubsetOrdering(S) BY <1>1, <1>4, <2>1, <2>2 DEF StrictSubsetOrdering, FiniteSubsetsOf
  <2> QED BY <1>3, <1>4, <2>1, <2>3
<1> QED BY <1>5

\* The first of some indices.
LEMMA MinFacts ==
  ASSUME NEW S, S \subseteq Nat, IsFiniteSet(S), S # {}
  PROVE  Min(S) \in S /\ \A j \in S : Min(S) <= j
<1> DEFINE R == {e \in S \X S : e[1] < e[2]}
<1>1. \A i \in S : <<i, i>> \notin R BY SMT
<1>2. \A i, j, k \in S : <<i, j>> \in R /\ <<j, k>> \in R => <<i, k>> \in R BY SMT
<1>3. \A i, j \in S : <<i, j>> \in R <=> i < j OBVIOUS
<1> HIDE DEF R
<1>4. PICK i \in S : \A j \in S : <<j, i>> \notin R BY <1>1, <1>2, LeastExists
<1>5. \A j \in S : i <= j
  <2>1. \A j \in S : ~(j < i) BY <1>3, <1>4
  <2> QED BY <2>1, SMT
<1>6. \E x \in S : \A y \in S : x =< y BY <1>5
<1> QED BY <1>6 DEF Min

\* A sequence of formats and what choose_format may be asked about it.
Asked(offered, pool, ceiling, fps) ==
  /\ offered \in Seq(Formats) /\ pool \subseteq DOMAIN offered /\ pool # {}
  /\ ceiling \in Nat \X Nat /\ fps \in Nat

LEMMA PoolIsFinite ==
  ASSUME NEW offered \in Seq(Formats), NEW pool, pool \subseteq DOMAIN offered
  PROVE  IsFiniteSet(pool) /\ pool \subseteq Nat /\ \A i \in pool : offered[i] \in Formats
<1>1. DOMAIN offered = 1 .. Len(offered) /\ Len(offered) \in Nat OBVIOUS
<1>2. IsFiniteSet(1 .. Len(offered)) BY <1>1, FS_Interval
<1>3. IsFiniteSet(pool) BY <1>1, <1>2, FS_Subset
<1>4. pool \subseteq Nat BY <1>1, SMT
<1>5. \A i \in DOMAIN offered : offered[i] \in Formats OBVIOUS
<1> QED BY <1>3, <1>4, <1>5

LEMMA FormatFacts ==
  ASSUME NEW f \in Formats, NEW ceiling
  PROVE  Area(f) \in Nat /\ f.fps \in Nat /\ Fits(f, ceiling) \in BOOLEAN
<1>1. f.size[1] \in Nat /\ f.size[2] \in Nat /\ f.fps \in Nat BY DEF Formats
<1> QED BY <1>1, ProductIsNat DEF Area, Fits

\* What choose_format answers is of the pool, and nothing in the pool is better.
LEMMA ChosenIsBest ==
  ASSUME NEW offered, NEW pool, NEW ceiling, NEW fps, Asked(offered, pool, ceiling, fps)
  PROVE  /\ ChooseFormat(offered, pool, ceiling, fps) \in pool
         /\ \A j \in pool : ~Better(offered[j], offered[ChooseFormat(offered, pool, ceiling, fps)], ceiling, fps)
<1> DEFINE fit(i)   == Fits(offered[i], ceiling)
           area(i)  == Area(offered[i])
           rate(i)  == offered[i].fps
           fitting  == {i \in pool : Fits(offered[i], ceiling)}
           smallest == {i \in pool : \A j \in pool : Area(offered[i]) <= Area(offered[j])}
           largest  == {i \in fitting : \A j \in fitting : Area(offered[j]) <= Area(offered[i])}
           nearest  == {i \in largest : \A j \in largest : NoWorseRate(offered[i], offered[j], fps)}
           c == ChooseFormat(offered, pool, ceiling, fps)
<1>1. /\ IsFiniteSet(pool) /\ pool \subseteq Nat /\ pool # {} /\ fps \in Nat
      /\ \A i \in pool : area(i) \in Nat /\ rate(i) \in Nat /\ fit(i) \in BOOLEAN
  BY PoolIsFinite, FormatFacts DEF Asked
<1>2. c = Min(IF fitting = {} THEN smallest ELSE nearest) BY DEF ChooseFormat
<1>3. \A i, j \in pool : Better(offered[i], offered[j], ceiling, fps) <=>
        \/ fit(i) /\ ~fit(j)
        \/ ~fit(i) /\ ~fit(j) /\ area(i) < area(j)
        \/ /\ fit(i) /\ fit(j)
           /\ \/ area(i) > area(j)
              \/ /\ area(i) = area(j)
                 /\ \/ rate(i) >= fps /\ (rate(j) < fps \/ rate(i) < rate(j))
                    \/ rate(i) < fps /\ rate(j) < rate(i)
  BY DEF Better
<1>4. \A i, j \in pool : NoWorseRate(offered[i], offered[j], fps) <=>
        IF rate(i) >= fps THEN rate(j) >= fps => rate(i) <= rate(j)
        ELSE rate(j) < fps /\ rate(j) <= rate(i)
  BY DEF NoWorseRate
<1>5. /\ \A i : i \in fitting <=> i \in pool /\ fit(i)
      /\ \A i : i \in smallest <=> i \in pool /\ \A j \in pool : area(i) <= area(j)
      /\ \A i : i \in largest <=> i \in fitting /\ \A j \in fitting : area(j) <= area(i)
      /\ \A i : i \in nearest <=> i \in largest /\ \A j \in largest : NoWorseRate(offered[i], offered[j], fps)
  OBVIOUS
<1> HIDE DEF fit, area, rate, fitting, smallest, largest, nearest, c
<1>6. CASE fitting = {}
  <2> DEFINE R == {e \in pool \X pool : area(e[1]) < area(e[2])}
  <2>1. \A i, j \in pool : <<i, j>> \in R <=> area(i) < area(j) OBVIOUS
  <2> HIDE DEF R
  <2>2. \A i \in pool : <<i, i>> \notin R BY <1>1, <2>1, SMT
  <2>3. \A i, j, k \in pool : <<i, j>> \in R /\ <<j, k>> \in R => <<i, k>> \in R BY <1>1, <2>1, SMT
  <2>4. PICK i \in pool : \A j \in pool : <<j, i>> \notin R BY <1>1, <2>2, <2>3, LeastExists
  <2>5. i \in smallest
    <3>1. \A j \in pool : ~(area(j) < area(i)) BY <2>1, <2>4
    <3>2. \A j \in pool : area(i) <= area(j) BY <1>1, <3>1, SMT
    <3> QED BY <1>5, <3>2
  <2>6. smallest \subseteq pool /\ IsFiniteSet(smallest) /\ smallest \subseteq Nat BY <1>1, <1>5, FS_Subset
  <2>7. c \in smallest BY <1>2, <1>6, <2>5, <2>6, MinFacts
  <2>8. c \in pool /\ \A j \in pool : area(c) <= area(j) /\ ~fit(j) BY <1>5, <1>6, <2>7
  <2>9. \A j \in pool : ~Better(offered[j], offered[c], ceiling, fps) BY <1>1, <1>3, <2>8, SMT
  <2> QED BY <2>8, <2>9 DEF c
<1>7. CASE fitting # {}
  <2> DEFINE R == {e \in pool \X pool : area(e[2]) < area(e[1])}
  <2>1. \A i, j \in pool : <<i, j>> \in R <=> area(j) < area(i) OBVIOUS
  <2> HIDE DEF R
  <2>2. fitting \subseteq pool /\ IsFiniteSet(fitting) BY <1>1, <1>5, FS_Subset
  <2>3. \A i \in fitting : <<i, i>> \notin R BY <1>1, <2>1, <2>2, SMT
  <2>4. \A i, j, k \in fitting : <<i, j>> \in R /\ <<j, k>> \in R => <<i, k>> \in R BY <1>1, <2>1, <2>2, SMT
  <2>5. PICK i \in fitting : \A j \in fitting : <<j, i>> \notin R BY <1>7, <2>2, <2>3, <2>4, LeastExists
  <2>6. i \in largest
    <3>1. \A j \in fitting : ~(area(i) < area(j)) BY <2>1, <2>2, <2>5
    <3>2. \A j \in fitting : area(j) <= area(i) BY <1>1, <2>2, <3>1, SMT
    <3> QED BY <1>5, <3>2
  <2>7. largest \subseteq fitting /\ IsFiniteSet(largest) BY <1>5, <2>2, FS_Subset
  <2> DEFINE Q == {e \in pool \X pool : ~NoWorseRate(offered[e[2]], offered[e[1]], fps)}
  <2>8. \A j, k \in pool : <<j, k>> \in Q <=> ~NoWorseRate(offered[k], offered[j], fps) OBVIOUS
  <2> HIDE DEF Q
  <2>9. \A j \in largest : <<j, j>> \notin Q BY <1>1, <1>4, <2>2, <2>7, <2>8, SMT
  <2>10. \A j, k, l \in largest : <<j, k>> \in Q /\ <<k, l>> \in Q => <<j, l>> \in Q
    BY <1>1, <1>4, <2>2, <2>7, <2>8, SMT
  <2>11. PICK k \in largest : \A j \in largest : <<j, k>> \notin Q BY <2>6, <2>7, <2>9, <2>10, LeastExists
  <2>12. k \in nearest BY <1>5, <2>2, <2>7, <2>8, <2>11
  <2>13. nearest \subseteq largest /\ IsFiniteSet(nearest) /\ nearest \subseteq Nat BY <1>1, <1>5, <2>2, <2>7, FS_Subset
  <2>14. c \in nearest BY <1>2, <1>7, <2>12, <2>13, MinFacts
  <2>15. /\ c \in pool /\ fit(c)
         /\ \A j \in pool : fit(j) => area(j) <= area(c)
         /\ \A j \in pool : fit(j) /\ area(j) = area(c) => NoWorseRate(offered[c], offered[j], fps)
    <3>1. c \in pool /\ fit(c) /\ c \in largest BY <1>5, <2>2, <2>7, <2>13, <2>14
    <3>2. \A j \in pool : fit(j) => area(j) <= area(c) BY <1>5, <3>1
    <3>3. \A j \in pool : fit(j) /\ area(j) = area(c) => j \in largest BY <1>5, <3>1
    <3> QED BY <1>5, <2>14, <3>1, <3>2, <3>3
  <2>16. \A j \in pool : ~Better(offered[j], offered[c], ceiling, fps)
    <3> SUFFICES ASSUME NEW j \in pool, Better(offered[j], offered[c], ceiling, fps) PROVE FALSE OBVIOUS
    <3>1. fit(j) /\ (area(j) > area(c)
            \/ /\ area(j) = area(c)
               /\ \/ rate(j) >= fps /\ (rate(c) < fps \/ rate(j) < rate(c))
                  \/ rate(j) < fps /\ rate(c) < rate(j))
      BY <1>3, <2>15
    <3>2. area(j) = area(c) BY <1>1, <2>15, <3>1, SMT
    <3>3. IF rate(c) >= fps THEN rate(j) >= fps => rate(c) <= rate(j)
          ELSE rate(j) < fps /\ rate(j) <= rate(c)
      BY <1>4, <2>15, <3>1, <3>2
    <3>4. area(j) \in Nat /\ area(c) \in Nat /\ rate(j) \in Nat /\ rate(c) \in Nat /\ fps \in Nat BY <1>1, <2>15
    <3>5. \/ rate(j) >= fps /\ (rate(c) < fps \/ rate(j) < rate(c))
          \/ rate(j) < fps /\ rate(c) < rate(j)
      BY <3>1, <3>2, <3>4, SMT
    <3> QED BY <3>3, <3>4, <3>5, SMT
  <2> QED BY <2>15, <2>16 DEF c
<1> QED BY <1>6, <1>7

LEMMA CostIsNat ==
  ASSUME NEW pixels \in Pixels \cup {"compressed"}
  PROVE  Cost(pixels) \in Nat
<1>1. CASE pixels = "compressed" BY <1>1 DEF Cost
<1>2. CASE pixels # "compressed"
  <2>1. \E i \in 1 .. 6 : Preference[i] = pixels BY <1>2 DEF Pixels
  <2>2. Cost(pixels) = CHOOSE i \in 1 .. 6 : Preference[i] = pixels BY <1>2 DEF Cost
  <2>3. Cost(pixels) \in 1 .. 6 BY <2>1, <2>2
  <2> QED BY <2>3, SMT
<1> QED BY <1>1, <1>2

\* sort_by_key answers every index of the pool once, none dearer before a
\* cheaper one.
LEMMA SortFacts ==
  ASSUME NEW offered \in Seq(Formats), NEW pool, pool \subseteq DOMAIN offered,
         NEW s, s = SortByCost(offered, pool)
  PROVE  /\ Cardinality(pool) \in Nat
         /\ s \in [1 .. Cardinality(pool) -> pool]
         /\ \A m, n \in 1 .. Cardinality(pool) : s[m] = s[n] => m = n
         /\ \A i \in pool : \E n \in 1 .. Cardinality(pool) : s[n] = i
         /\ \A m, n \in 1 .. Cardinality(pool) :
              m < n => Cost(offered[s[m]].pixels) <= Cost(offered[s[n]].pixels)
<1> DEFINE N == Cardinality(pool)
           cost(i) == Cost(offered[i].pixels)
           Under(i) == {j \in pool : Cheaper(offered, j, i)}
           rank == [i \in pool |-> Cardinality(Under(i))]
<1>1. /\ IsFiniteSet(pool) /\ pool \subseteq Nat
      /\ \A i \in pool : offered[i] \in Formats
  BY PoolIsFinite
<1>2. \A i \in pool : cost(i) \in Nat BY <1>1, CostIsNat DEF Formats
<1>3. \A i, j \in pool : Cheaper(offered, i, j) <=> cost(i) < cost(j) \/ (cost(i) = cost(j) /\ i < j)
  BY DEF Cheaper
<1>4. N \in Nat BY <1>1, FS_CardinalityType
<1> HIDE DEF cost
<1>5. ASSUME NEW i \in pool
      PROVE  /\ IsFiniteSet(Under(i)) /\ rank[i] \in Nat /\ rank[i] < N
  <2>1. i \notin Under(i) /\ Under(i) \in SUBSET pool BY <1>1, <1>2, <1>3, SMT
  <2>2. IsFiniteSet(Under(i)) /\ Cardinality(Under(i)) <= N /\ (N = Cardinality(Under(i)) => pool = Under(i))
    BY <1>1, <2>1, FS_Subset
  <2>3. Cardinality(Under(i)) \in Nat BY <2>2, FS_CardinalityType
  <2>4. rank[i] = Cardinality(Under(i)) OBVIOUS
  <2>5. N # Cardinality(Under(i)) BY <2>1, <2>2
  <2> HIDE DEF rank, Under, N
  <2> QED BY <1>4, <2>2, <2>3, <2>4, <2>5, SMT
<1>50. \A i \in pool : rank[i] \in Nat /\ rank[i] < N BY <1>5
<1>6. ASSUME NEW i \in pool, NEW j \in pool, Cheaper(offered, i, j) PROVE rank[i] < rank[j]
  <2>1. Under(i) \subseteq Under(j)
    <3> SUFFICES ASSUME NEW k \in pool, Cheaper(offered, k, i) PROVE Cheaper(offered, k, j) OBVIOUS
    <3>1. /\ cost(k) < cost(i) \/ (cost(k) = cost(i) /\ k < i)
          /\ cost(i) < cost(j) \/ (cost(i) = cost(j) /\ i < j)
      BY <1>3, <1>6
    <3>2. /\ k \in Nat /\ i \in Nat /\ j \in Nat
          /\ cost(k) \in Nat /\ cost(i) \in Nat /\ cost(j) \in Nat
      BY <1>1, <1>2
    <3>3. cost(k) < cost(j) \/ (cost(k) = cost(j) /\ k < j) BY <3>1, <3>2, SMT
    <3> QED BY <1>3, <3>3
  <2>2. i \in Under(j) /\ i \notin Under(i) BY <1>1, <1>2, <1>3, <1>6, SMT
  <2>3. Under(i) # Under(j) /\ Under(i) \in SUBSET Under(j) /\ IsFiniteSet(Under(j)) BY <1>5, <2>1, <2>2
  <2>4. rank[i] = Cardinality(Under(i)) /\ rank[j] = Cardinality(Under(j)) OBVIOUS
  <2>5. rank[i] \in Nat /\ rank[j] \in Nat BY <1>5
  <2> HIDE DEF rank, Under
  <2>6. /\ Cardinality(Under(i)) <= Cardinality(Under(j))
        /\ Cardinality(Under(j)) = Cardinality(Under(i)) => Under(j) = Under(i)
    BY <2>3, FS_Subset
  <2>7. Cardinality(Under(j)) # Cardinality(Under(i)) BY <2>3, <2>6
  <2> QED BY <2>4, <2>5, <2>6, <2>7, SMT
<1>7. ASSUME NEW i \in pool, NEW j \in pool, i # j PROVE Cheaper(offered, i, j) \/ Cheaper(offered, j, i)
  <2>1. i \in Nat /\ j \in Nat /\ cost(i) \in Nat /\ cost(j) \in Nat BY <1>1, <1>2
  <2>2. \/ cost(i) < cost(j) \/ (cost(i) = cost(j) /\ i < j)
        \/ cost(j) < cost(i) \/ (cost(j) = cost(i) /\ j < i)
    BY <1>7, <2>1, SMT
  <2> QED BY <1>3, <2>2
<1>8. \A i, j \in pool : rank[i] = rank[j] => i = j
  <2> SUFFICES ASSUME NEW i \in pool, NEW j \in pool, rank[i] = rank[j], i # j PROVE FALSE OBVIOUS
  <2>1. rank[i] < rank[j] \/ rank[j] < rank[i] BY <1>6, <1>7
  <2>2. rank[i] \in Nat /\ rank[j] \in Nat BY <1>5
  <2> HIDE DEF rank
  <2> QED BY <2>1, <2>2, SMT
<1>9. rank \in [pool -> 0 .. N - 1]
  <2>1. \A i \in pool : rank[i] \in 0 .. N - 1
    <3> HIDE DEF rank, N
    <3> QED BY <1>4, <1>50, SMT
  <2>2. rank = [i \in pool |-> rank[i]] OBVIOUS
  <2> HIDE DEF rank
  <2> QED BY <2>1, <2>2
<1>10. rank \in Injection(pool, 0 .. N - 1)
  <2> HIDE DEF rank
  <2> QED BY <1>8, <1>9 DEF Injection, IsInjective
<1>11. IsFiniteSet(0 .. N - 1) /\ Cardinality(0 .. N - 1) = N
  <2> HIDE DEF N
  <2>1. 0 \in Int /\ N - 1 \in Int BY <1>4, SMT
  <2>2. IsFiniteSet(0 .. N - 1) /\ Cardinality(0 .. N - 1) = IF 0 > N - 1 THEN 0 ELSE N - 1 - 0 + 1
    BY <2>1, FS_Interval
  <2> QED BY <1>4, <2>2, SMT
<1>12. rank \in Surjection(pool, 0 .. N - 1)
  <2> HIDE DEF rank
  <2> QED BY <1>10, <1>11, FS_Injection
<1>13. \A n \in 1 .. N : \E i \in pool : rank[i] = n - 1
  <2>1. \A t \in 0 .. N - 1 : \E i \in pool : rank[i] = t BY <1>12 DEF Surjection
  <2>2. \A n \in 1 .. N : n - 1 \in 0 .. N - 1
    <3> HIDE DEF N
    <3> QED BY <1>4, SMT
  <2> QED BY <2>1, <2>2
<1>14. \A n \in 1 .. N : s[n] \in pool /\ rank[s[n]] = n - 1
  <2> SUFFICES ASSUME NEW n \in 1 .. N PROVE s[n] \in pool /\ rank[s[n]] = n - 1 OBVIOUS
  <2>1. \E i \in pool : Cardinality(Under(i)) = n - 1 BY <1>13
  <2>2. s[n] = CHOOSE i \in pool : Cardinality(Under(i)) = n - 1 BY DEF SortByCost
  <2> HIDE DEF Under
  <2>3. s[n] \in pool /\ Cardinality(Under(s[n])) = n - 1 BY <2>1, <2>2
  <2> QED BY <2>3
<1>15. s = [n \in 1 .. N |-> s[n]]
  <2> DEFINE F(n) == CHOOSE i \in pool : Cardinality(Under(i)) = n - 1
  <2>1. s = [n \in 1 .. N |-> F(n)] BY DEF SortByCost
  <2> HIDE DEF F
  <2> QED BY <2>1
<1> HIDE DEF N, rank
<1>16. s \in [1 .. N -> pool] BY <1>14, <1>15
<1>17. \A m, n \in 1 .. N : s[m] = s[n] => m = n
  <2> SUFFICES ASSUME NEW m \in 1 .. N, NEW n \in 1 .. N, s[m] = s[n] PROVE m = n OBVIOUS
  <2>1. m - 1 = n - 1 BY <1>14
  <2> QED BY <1>4, <2>1, SMT
<1>18. \A i \in pool : \E n \in 1 .. N : s[n] = i
  <2> SUFFICES ASSUME NEW i \in pool PROVE \E n \in 1 .. N : s[n] = i OBVIOUS
  <2> DEFINE n == rank[i] + 1
  <2>1. n \in 1 .. N /\ n - 1 = rank[i] BY <1>4, <1>50, SMT
  <2> HIDE DEF n
  <2>2. rank[s[n]] = n - 1 /\ s[n] \in pool BY <1>14, <2>1
  <2>4. s[n] = i BY <1>8, <2>1, <2>2
  <2> QED BY <2>1, <2>4
<1>19. \A m, n \in 1 .. N : m < n => cost(s[m]) <= cost(s[n])
  <2> SUFFICES ASSUME NEW m \in 1 .. N, NEW n \in 1 .. N, m < n PROVE cost(s[m]) <= cost(s[n]) OBVIOUS
  <2>1. s[m] \in pool /\ s[n] \in pool /\ s[m] # s[n] BY <1>4, <1>14, <1>17, SMT
  <2>2. ~Cheaper(offered, s[n], s[m])
    <3>1. rank[s[m]] = m - 1 /\ rank[s[n]] = n - 1 BY <1>14
    <3>2. ~(rank[s[n]] < rank[s[m]]) BY <1>4, <3>1, SMT
    <3> QED BY <1>6, <2>1, <3>2
  <2>3. Cheaper(offered, s[m], s[n]) BY <1>7, <2>1, <2>2
  <2>4. cost(s[m]) < cost(s[n]) \/ cost(s[m]) = cost(s[n]) BY <1>3, <2>1, <2>3
  <2>5. cost(s[m]) \in Nat /\ cost(s[n]) \in Nat BY <1>2, <2>1
  <2> QED BY <2>4, <2>5, SMT
<1> QED BY <1>4, <1>16, <1>17, <1>18, <1>19 DEF N, cost

LEMMA NotEmpty ==
  ASSUME NEW S, NEW s \in Seq(S), s # <<>>
  PROVE  DOMAIN s # {} /\ Len(s) > 0
<1>1. Len(s) \in Nat /\ DOMAIN s = 1 .. Len(s) OBVIOUS
<1>2. Len(s) # 0 OBVIOUS
<1> QED BY <1>1, <1>2, SMT

LEMMA FunctionIsSequence ==
  ASSUME NEW n \in Nat, NEW S, NEW f \in [1 .. n -> S]
  PROVE  f \in Seq(S) /\ Len(f) = n
  BY SMT

LEMMA LengthOfBoth ==
  ASSUME NEW S, NEW f \in Seq(S), NEW g \in Seq(S)
  PROVE  Len(f \o g) = Len(f) + Len(g)
  BY SMT

\* The first k of two sequences, one behind the other.
Element(f, g, n) == IF n <= Len(f) THEN f[n] ELSE g[n - Len(f)]

LEMMA PrefixOfBoth ==
  ASSUME NEW S, NEW f \in Seq(S), NEW g \in Seq(S), NEW k \in Nat, k <= Len(f) + Len(g)
  PROVE  /\ Len(f \o g) = Len(f) + Len(g)
         /\ SubSeq(f \o g, 1, k) \in Seq(S)
         /\ Len(SubSeq(f \o g, 1, k)) = k
         /\ \A n \in 1 .. k : SubSeq(f \o g, 1, k)[n] = Element(f, g, n)
<1> DEFINE all == f \o g
<1>1. all \in Seq(S) /\ Len(all) = Len(f) + Len(g) OBVIOUS
<1>2. \A n \in 1 .. Len(all) : all[n] = IF n <= Len(f) THEN f[n] ELSE g[n - Len(f)] BY SMT
<1> HIDE DEF all
<1>3. SubSeq(all, 1, k) \in Seq(S) /\ Len(SubSeq(all, 1, k)) = k BY <1>1, SMT
<1>4. \A n \in 1 .. k : SubSeq(all, 1, k)[n] = all[n] BY <1>1, SMT
<1>5. \A n \in 1 .. k : n \in 1 .. Len(all) BY <1>1, SMT
<1>6. \A n \in 1 .. k : SubSeq(all, 1, k)[n] = IF n <= Len(f) THEN f[n] ELSE g[n - Len(f)]
  BY <1>2, <1>4, <1>5
<1> QED BY <1>1, <1>3, <1>6 DEF all, Element

\* What truncate leaves of two sorted runs, of a and b formats.
Limit(A, B) == IF Len(A \o B) < MaxAttempts THEN Len(A \o B) ELSE MaxAttempts
Kept(A, B)  == SubSeq(A \o B, 1, Limit(A, B))
KeptIs(D, a, b, A, B, k, r) ==
  /\ k \in Nat /\ k <= a + b /\ k <= MaxAttempts
  /\ k = a + b \/ k = MaxAttempts
  /\ r \in Seq(D) /\ Len(r) = k
  /\ \A n \in 1 .. k : r[n] = IF n <= a THEN A[n] ELSE B[n - a]

LEMMA Truncated ==
  ASSUME NEW D, NEW a \in Nat, NEW b \in Nat, NEW A \in [1 .. a -> D], NEW B \in [1 .. b -> D]
  PROVE  KeptIs(D, a, b, A, B, Limit(A, B), Kept(A, B))
<1> DEFINE k == Limit(A, B)
<1>1. A \in Seq(D) /\ Len(A) = a /\ B \in Seq(D) /\ Len(B) = b BY FunctionIsSequence
<1>2. Len(A \o B) = a + b BY <1>1, LengthOfBoth, Zenon
<1>3. k = IF a + b < 6 THEN a + b ELSE 6 BY <1>2 DEF MaxAttempts, Limit
<1> HIDE DEF k
<1>4. /\ k \in Nat /\ k <= a + b /\ k <= MaxAttempts
      /\ k = a + b \/ k = MaxAttempts
  BY <1>3, SMT DEF MaxAttempts
<1>5. k <= Len(A) + Len(B) BY <1>1, <1>4
<1>6. SubSeq(A \o B, 1, k) \in Seq(D) BY <1>1, <1>4, <1>5, PrefixOfBoth, Zenon
<1>7. Len(SubSeq(A \o B, 1, k)) = k BY <1>1, <1>4, <1>5, PrefixOfBoth
<1>8. \A n \in 1 .. k : SubSeq(A \o B, 1, k)[n] = Element(A, B, n) BY <1>1, <1>4, <1>5, PrefixOfBoth, Zenon
<1>9. Kept(A, B) = SubSeq(A \o B, 1, k) BY DEF Kept, k
<1>10. KeptIs(D, a, b, A, B, k, SubSeq(A \o B, 1, k)) BY <1>1, <1>4, <1>6, <1>7, <1>8 DEF Element, KeptIs
<1> QED BY <1>9, <1>10 DEF k

\* ranked orders every offer of every device as RankingIsSound says (mf.rs,
\* ranked): nothing twice, the best first, the cheap before the dear, and an
\* uncompressed one within reach.
THEOREM RankedIsSound ==
  ASSUME NEW offer \in Seq(Formats), NEW ceiling \in Nat \X Nat, NEW fps \in Nat
  PROVE  RankingIsSound(offer, ceiling, fps)
<1> DEFINE D    == DOMAIN offer
           best == BestOf(offer, D, ceiling, fps)
           raw  == {i \in D : offer[i].pixels # "compressed"}
           more == BestOf(offer, raw, ceiling, fps) \ best
           A    == SortByCost(offer, best)
           B    == SortByCost(offer, more)
           a    == Cardinality(best)
           b    == Cardinality(more)
           k    == IF Len(A \o B) < MaxAttempts THEN Len(A \o B) ELSE MaxAttempts
           r    == SubSeq(A \o B, 1, k)
           cost(i) == Cost(offer[i].pixels)
<1>1. r = Ranked(offer, ceiling, fps) BY DEF Ranked
<1>2. best \subseteq D /\ more \subseteq D /\ more \subseteq raw /\ more \cap best = {} BY DEF BestOf
<1>3. /\ a \in Nat /\ A \in [1 .. a -> best]
      /\ \A m, n \in 1 .. a : A[m] = A[n] => m = n
      /\ \A i \in best : \E n \in 1 .. a : A[n] = i
      /\ \A m, n \in 1 .. a : m < n => cost(A[m]) <= cost(A[n])
  <2> HIDE DEF best
  <2> QED BY <1>2, SortFacts
<1>4. /\ b \in Nat /\ B \in [1 .. b -> more]
      /\ \A m, n \in 1 .. b : B[m] = B[n] => m = n
      /\ \A i \in more : \E n \in 1 .. b : B[n] = i
      /\ \A m, n \in 1 .. b : m < n => cost(B[m]) <= cost(B[n])
  <2> HIDE DEF more
  <2> QED BY <1>2, SortFacts
<1>5. \A i \in D : ~(i \in best) =>
        ~(\E j \in best : offer[i].size = offer[j].size /\ offer[i].fps = offer[j].fps)
  BY DEF BestOf
<1> HIDE DEF best, more, A, B, a, b, cost
<1>6. A \in [1 .. a -> D] /\ B \in [1 .. b -> D] BY <1>2, <1>3, <1>4
<1>7. /\ k \in Nat /\ k <= a + b /\ k <= MaxAttempts
      /\ k = a + b \/ k = MaxAttempts
      /\ r \in Seq(D) /\ Len(r) = k
      /\ \A n \in 1 .. k : r[n] = IF n <= a THEN A[n] ELSE B[n - a]
  <2>1. a \in Nat /\ b \in Nat BY <1>3, <1>4
  <2> HIDE DEF D, raw, k, r
  <2>2. KeptIs(D, a, b, A, B, Limit(A, B), Kept(A, B)) BY <1>6, <2>1, Truncated
  <2>3. k = Limit(A, B) /\ r = Kept(A, B) BY DEF Limit, Kept, k, r
  <2> QED BY <2>2, <2>3 DEF KeptIs
<1> HIDE DEF k
<1>8. /\ r \in Seq(D) /\ Len(r) = k
      /\ \A n \in 1 .. k : r[n] = IF n <= a THEN A[n] ELSE B[n - a]
  BY <1>7
<1> HIDE DEF r
<1>9. DOMAIN r = 1 .. k BY <1>8
<1>10. ASSUME NEW n \in 1 .. k
       PROVE  \/ n \in 1 .. a /\ r[n] = A[n] /\ r[n] \in best
              \/ ~(n <= a) /\ n - a \in 1 .. b /\ r[n] = B[n - a] /\ r[n] \in more
  <2>1. CASE n <= a
    <3>1. n \in 1 .. a BY <1>3, <1>7, <2>1, SMT
    <3> QED BY <1>3, <1>8, <2>1, <3>1
  <2>2. CASE ~(n <= a)
    <3>1. n - a \in 1 .. b BY <1>3, <1>4, <1>7, <2>2, SMT
    <3> QED BY <1>4, <1>8, <2>2, <3>1
  <2> QED BY <2>1, <2>2
<1>11. \A m, n \in 1 .. k : r[m] = r[n] => m = n
  <2> SUFFICES ASSUME NEW m \in 1 .. k, NEW n \in 1 .. k, r[m] = r[n] PROVE m = n OBVIOUS
  <2>1. CASE r[m] \in best
    <3>1. m \in 1 .. a /\ n \in 1 .. a /\ A[m] = A[n] BY <1>2, <1>10, <2>1
    <3> QED BY <1>3, <3>1
  <2>2. CASE r[m] \in more
    <3>1. m - a \in 1 .. b /\ n - a \in 1 .. b /\ B[m - a] = B[n - a] BY <1>2, <1>10, <2>2
    <3>2. m - a = n - a BY <1>4, <3>1
    <3> QED BY <1>3, <1>7, <3>2, SMT
  <2> QED BY <1>10, <2>1, <2>2
<1>12. \A m, n \in 1 .. k :
         m < n /\ offer[r[m]].size = offer[r[n]].size /\ offer[r[m]].fps = offer[r[n]].fps
           => cost(r[m]) <= cost(r[n])
  <2> SUFFICES ASSUME NEW m \in 1 .. k, NEW n \in 1 .. k, m < n,
                      offer[r[m]].size = offer[r[n]].size, offer[r[m]].fps = offer[r[n]].fps
               PROVE  cost(r[m]) <= cost(r[n])
    OBVIOUS
  <2>1. CASE r[n] \in best
    <3>1. n \in 1 .. a /\ r[n] = A[n] BY <1>2, <1>10, <2>1
    <3>2. m <= a BY <1>3, <1>7, <3>1, SMT
    <3>3. m \in 1 .. a /\ r[m] = A[m] BY <1>10, <3>2
    <3> QED BY <1>3, <3>1, <3>3
  <2>2. CASE r[n] \in more
    <3>1. ~(n <= a) /\ n - a \in 1 .. b /\ r[n] = B[n - a] /\ r[n] \notin best /\ r[n] \in D BY <1>2, <1>10, <2>2
    <3>2. r[m] \notin best BY <1>5, <3>1
    <3>3. m - a \in 1 .. b /\ r[m] = B[m - a] BY <1>10, <3>2
    <3>4. m - a < n - a BY <1>3, <1>7, SMT
    <3> QED BY <1>4, <3>1, <3>3, <3>4
  <2> QED BY <1>10, <2>1, <2>2
<1>13. offer # <<>> =>
         r # <<>> /\ \A i \in D : ~Better(offer[i], offer[r[1]], ceiling, fps)
  <2> SUFFICES ASSUME offer # <<>> PROVE r # <<>> /\ \A i \in D : ~Better(offer[i], offer[r[1]], ceiling, fps)
    OBVIOUS
  <2> DEFINE c == ChooseFormat(offer, D, ceiling, fps)
  <2>1. D # {} BY NotEmpty
  <2>2. Asked(offer, D, ceiling, fps) BY <2>1 DEF Asked
  <2>3. c \in D /\ \A i \in D : ~Better(offer[i], offer[c], ceiling, fps) BY <2>2, ChosenIsBest
  <2>4. c \in best BY <2>3 DEF best, BestOf
  <2>5. PICK n \in 1 .. a : A[n] = c BY <1>3, <2>4
  <2>6. 1 \in 1 .. k /\ 1 <= a /\ k # 0 BY <1>3, <1>4, <1>7, <2>5, SMT DEF MaxAttempts
  <2>7. r[1] \in best BY <1>10, <2>6
  <2>8. offer[r[1]].size = offer[c].size /\ offer[r[1]].fps = offer[c].fps BY <2>7 DEF best, BestOf
  <2> HIDE DEF c
  <2>9. \A i \in D : Better(offer[i], offer[r[1]], ceiling, fps) <=> Better(offer[i], offer[c], ceiling, fps)
    BY <2>8 DEF Better, Fits, Area
  <2>10. r # <<>> BY <1>8, <2>6
  <2> QED BY <2>3, <2>9, <2>10
<1>14. (\E i \in D : offer[i].pixels # "compressed") /\ a < MaxAttempts
         => \E n \in 1 .. k : offer[r[n]].pixels # "compressed"
  <2> SUFFICES ASSUME NEW i \in D, offer[i].pixels # "compressed", a < MaxAttempts
               PROVE  \E n \in 1 .. k : offer[r[n]].pixels # "compressed"
    OBVIOUS
  <2> DEFINE c == ChooseFormat(offer, raw, ceiling, fps)
  <2>1. Asked(offer, raw, ceiling, fps) BY DEF Asked
  <2>2. c \in raw BY <2>1, ChosenIsBest
  <2>3. c \in BestOf(offer, raw, ceiling, fps) BY <2>2 DEF BestOf
  <2> HIDE DEF c
  <2>4. CASE c \in best
    <3>1. PICK n \in 1 .. a : A[n] = c BY <1>3, <2>4
    <3>2. n \in 1 .. k /\ n <= a BY <1>3, <1>4, <1>7, <3>1, SMT
    <3>3. r[n] = c BY <1>8, <3>1, <3>2
    <3> QED BY <2>2, <3>2, <3>3
  <2>5. CASE c \notin best
    <3>1. c \in more BY <2>3, <2>5 DEF more
    <3>2. PICK n \in 1 .. b : B[n] = c BY <1>4, <3>1
    <3>3. a + 1 \in 1 .. k /\ ~(a + 1 <= a) BY <1>3, <1>4, <1>7, <3>2, SMT DEF MaxAttempts
    <3>4. r[a + 1] \in more BY <1>2, <1>3, <1>10, <3>3
    <3> QED BY <1>2, <3>3, <3>4
  <2> QED BY <2>4, <2>5
<1>15. Len(r) <= MaxAttempts BY <1>7, <1>8
<1> QED
  BY <1>1, <1>8, <1>9, <1>11, <1>12, <1>13, <1>14, <1>15 DEF RankingIsSound, best, a, cost

-----------------------------------------------------------------------------
(* The state machine.                                                       *)

\* What holds between two steps: which device is open where, whose it is, and
\* that frames are read as what the device delivers unless a change is flagged.
OpenInv ==
  /\ at \in {"idle", "mf_open", "refused", "ds_build", "ended"} => open = {}
  /\ at = "mf_try" => open = {<<"mf", chosen.camera>>}
  /\ at = "running" =>
       open = CASE Path = "screen" -> {}
                [] Path = "mf"     -> {<<"mf", chosen.camera>>}
                [] Path = "ds"     -> {<<"ds", target>>}

ChosenInv ==
  /\ at \in {"mf_open", "mf_try", "refused"} => chosen \in [path : {"mf"}, camera : Cameras] /\ target = None
  /\ at = "ds_build" => chosen \in [path : {"mf", "ds"}, camera : Cameras] /\ target \in Cameras
  /\ at = "running" => \/ chosen.path = "screen"
                       \/ chosen \in [path : {"mf", "ds"}, camera : Cameras]
  /\ at = "idle" => target = None
  /\ target # None => target = chosen.camera \/ chosen.camera \notin InDs

LayoutInv ==
  at = "running" =>
    /\ Path = "screen" => emits \in [pixels : {"rgb32"}, size : Sizes]
    /\ Path = "mf" /\ ~changed => emits \in Layouts /\ layout = emits
    /\ Path = "ds" => emits \in Layouts /\ ShapeOf(emits) /\ (~changed => layout = emits)

CaptureInv == CaptureTypeOK /\ OpenInv /\ ChosenInv /\ LayoutInv

Raws == [length : Int, pitch : Int, bottomUp : BOOLEAN]

LEMMA LayoutFacts ==
  /\ Layouts \subseteq [pixels : Pixels, size : Nat \X Nat]
  /\ \A s \in Sizes : Evened(s) \in Nat \X Nat
  /\ \A f : Delivered(f) \subseteq Layouts
  /\ Layouts \subseteq Emitted
<1>1. Layouts \subseteq [pixels : Pixels, size : Nat \X Nat] BY CaptureAssumption DEF Layouts
<1>2. \A s \in Sizes : Evened(s) \in Nat \X Nat BY CaptureAssumption, EvenFacts DEF Evened
<1>3. \A f : Delivered(f) \subseteq Layouts BY DEF Delivered
<1>4. Layouts \subseteq Emitted BY DEF Layouts, Emitted
<1> QED BY <1>1, <1>2, <1>3, <1>4

LEMMA StrideFacts ==
  ASSUME NEW kind \in Pixels, NEW w \in Nat, NEW h \in Nat
  PROVE  Stride(kind, w) \in Nat /\ \A p \in Int : Needed(kind, p, h) \in Int
<1>1. Stride(kind, w) \in Nat BY PixelKinds, SMT DEF Stride, DivUp
<1>2. ASSUME NEW p \in Int PROVE Needed(kind, p, h) \in Int
  <2>1. DivUp(h, 2) \in Int /\ p \div 2 \in Int /\ p * h \in Int BY SMT DEF DivUp
  <2>2. p * DivUp(h, 2) \in Int /\ 2 * (p \div 2) * DivUp(h, 2) \in Int BY <2>1, SMT
  <2> QED BY <2>1, <2>2 DEF Needed
<1> QED BY <1>1, <1>2

\* Whatever the sample is in memory, it has a length, a pitch and a direction.
LEMMA BuffersAreRaws ==
  ASSUME NEW l \in [pixels : Pixels, size : Nat \X Nat], Path \in Paths
  PROVE  Buffers(l) \subseteq Raws
<1> DEFINE s == Stride(l.pixels, l.size[1])
           n == Needed(l.pixels, s, l.size[2])
<1>1. l.pixels \in Pixels /\ l.size[1] \in Nat /\ l.size[2] \in Nat OBVIOUS
<1>2. s \in Nat /\ \A p \in Int : Needed(l.pixels, p, l.size[2]) \in Int BY <1>1, StrideFacts
<1>3. n \in Int BY <1>2
<1>4. \A p \in Int : Read2D(l.pixels, p, l.size) \in Raws
  <2> SUFFICES ASSUME NEW p \in Int PROVE Read2D(l.pixels, p, l.size) \in Raws OBVIOUS
  <2>1. Needed(l.pixels, p, l.size[2]) \in Int /\ -p * l.size[2] \in Int /\ -p \in Int BY <1>1, <1>2, SMT
  <2>2. (p < 0) \in BOOLEAN OBVIOUS
  <2> QED BY <2>1, <2>2 DEF Read2D, Raws
<1>5. \A length, stride \in Int : ReadPlain(length, stride) \in Raws BY SMT DEF ReadPlain, Raws
<1>6. \A b \in BOOLEAN : ReadSample(l.pixels, l.size, b) \in Raws BY <1>2 DEF ReadSample, Raws
<1>7. \A x \in {s, s + 4, s - 2, -s, s + 2} : x \in Int BY <1>2, SMT
<1>8. \A x \in {n, n - 1} : x \in Int BY <1>3, SMT
<1>9. Buffers(l) = CASE Path = "mf"     -> {Read2D(l.pixels, p, l.size) : p \in {s, s + 4, s - 2, -s}} \cup
                             {ReadPlain(length, stride) : length \in {n, n - 1}, stride \in {s, -s, s + 2}}
       [] Path = "ds"     -> {ReadSample(l.pixels, l.size, b) :
                                b \in (IF l.pixels \in {"rgb32", "rgb24"} THEN BOOLEAN ELSE {FALSE})}
       [] Path = "screen" -> {ReadPlain(length, stride) : length \in {n, n - 1}, stride \in {s, s + 4}}
  BY DEF Buffers
<1> HIDE DEF s, n
<1>10. CASE Path = "mf"
  <2>1. Buffers(l) = {Read2D(l.pixels, p, l.size) : p \in {s, s + 4, s - 2, -s}} \cup
                     {ReadPlain(length, stride) : length \in {n, n - 1}, stride \in {s, -s, s + 2}}
    BY <1>9, <1>10
  <2>2. {Read2D(l.pixels, p, l.size) : p \in {s, s + 4, s - 2, -s}} \subseteq Raws BY <1>4, <1>7
  <2>3. {ReadPlain(length, stride) : length \in {n, n - 1}, stride \in {s, -s, s + 2}} \subseteq Raws
    BY <1>5, <1>7, <1>8
  <2> QED BY <2>1, <2>2, <2>3
<1>11. CASE Path = "ds"
  <2>1. Buffers(l) = {ReadSample(l.pixels, l.size, b) :
                        b \in (IF l.pixels \in {"rgb32", "rgb24"} THEN BOOLEAN ELSE {FALSE})}
    BY <1>9, <1>11
  <2> QED BY <1>6, <2>1
<1>12. CASE Path = "screen"
  <2>1. Buffers(l) = {ReadPlain(length, stride) : length \in {n, n - 1}, stride \in {s, s + 4}}
    BY <1>9, <1>12
  <2> QED BY <1>5, <1>7, <1>8, <2>1
<1> QED BY <1>10, <1>11, <1>12 DEF Paths

LEMMA PathFacts == Path \in Paths
  BY DEF Path, Paths

\* A delivered frame is sound if it is read as what it is.
LEMMA DeliveredIsSound ==
  ASSUME NEW l \in [pixels : Pixels, size : Nat \X Nat], NEW raw \in Raws, Deliver(l, l, raw)
  PROVE  FrameIsSound'
<1> SUFFICES ASSUME frame' # None PROVE
      /\ frame'.as = frame'.sample
      /\ frame'.into = frame'.as.size
      /\ ReadsInside(frame'.as.pixels, frame'.raw, frame'.as.size)
      /\ ScaledInto(frame'.as.size, Ceiling, frame'.out)
      /\ \A box \in frame'.shown : \E w \in Widths : ScaledInto(frame'.as.size, PreviewCeiling(w), box)
  BY DEF FrameIsSound
<1>1. Accepts(l.pixels, raw, l.size) BY DEF Deliver
<1>2. frame' = [sample |-> l, as |-> l, raw |-> raw, out |-> Fit(l.size, Ceiling),
                into |-> l.size, shown |-> Offer(l.size)]
  BY <1>1 DEF Deliver
<1>3. /\ frame'.as = l /\ frame'.sample = l /\ frame'.raw = raw /\ frame'.out = Fit(l.size, Ceiling)
      /\ frame'.into = l.size /\ frame'.shown = Offer(l.size)
  BY <1>2
<1>4. l.pixels \in Pixels /\ l.size \in Nat \X Nat OBVIOUS
<1>5. ReadsInside(l.pixels, raw, l.size) BY <1>1, <1>4, AcceptedIsReadInside DEF Raws
<1>6. l.size[1] >= 2 /\ l.size[2] >= 2 /\ l.size[1] % 2 = 0 /\ l.size[2] % 2 = 0 BY <1>1 DEF Accepts
<1>7. ScaledInto(l.size, Ceiling, Fit(l.size, Ceiling)) BY <1>4, <1>6, CaptureAssumption, FitScales
<1>8. ASSUME NEW w \in Widths PROVE ScaledInto(l.size, PreviewCeiling(w), Fit(l.size, PreviewCeiling(w)))
  <2>1. w \in Nat /\ PreviewCeiling(w)[2] >= 2 BY CaptureAssumption
  <2>2. PreviewCeiling(w) = <<w, (w * 9) \div 16>> BY DEF PreviewCeiling
  <2>3. (w * 9) \div 16 \in Nat BY <2>1, SMT
  <2>4. (w * 9) \div 16 >= 2 BY <2>1, <2>2
  <2>5. w >= 2 BY <2>1, <2>4, SMT
  <2>6. /\ PreviewCeiling(w) \in Nat \X Nat /\ PreviewCeiling(w)[1] >= 2 /\ PreviewCeiling(w)[2] >= 2
    BY <2>1, <2>2, <2>3, <2>5
  <2> QED BY <1>4, <1>6, <2>6, FitScales
<1>9. \A box \in Offer(l.size) : \E w \in Widths : ScaledInto(l.size, PreviewCeiling(w), box)
  BY <1>8 DEF Offer
<1> QED BY <1>3, <1>5, <1>7, <1>9

LEMMA PathIs ==
  /\ chosen.path = "screen" => Path = "screen"
  /\ chosen.path # "screen" /\ target = None => Path = "mf"
  /\ chosen.path # "screen" /\ target # None => Path = "ds"
  BY DEF Path

LEMMA PathIsNext ==
  /\ chosen'.path = "screen" => Path' = "screen"
  /\ chosen'.path # "screen" /\ target' = None => Path' = "mf"
  /\ chosen'.path # "screen" /\ target' # None => Path' = "ds"
  BY DEF Path

LEMMA EmptyOffer == <<>> \in Seq(DOMAIN <<>>) /\ Len(<<>>) <= MaxAttempts
  BY DEF MaxAttempts

LEMMA OfferFacts == \A o \in Offers \cup {<<>>} : o \in Seq(Formats)
<1>1. \A o \in Offers : o \in Seq(Formats) BY CaptureAssumption
<1>2. <<>> \in Seq(Formats) OBVIOUS
<1> QED BY <1>1, <1>2

LEMMA InitInv == Init => CaptureInv /\ FrameIsSound
<1> SUFFICES ASSUME Init PROVE CaptureInv /\ FrameIsSound OBVIOUS
<1> USE DEF Init
<1>1. /\ machine \in [Cameras -> [kind : Registrations, name : Names]]
      /\ present \subseteq Cameras /\ at \in Steps /\ chosen \in Handles \cup {None}
      /\ target \in Cameras \cup {None} /\ natives \in Offers \cup {<<>>}
      /\ error \in Errors \cup Final \cup {None} /\ open \subseteq {"mf", "ds"} \X Cameras
      /\ emits \in Emitted \cup {None} /\ layout \in Layouts \cup {None} /\ changed \in BOOLEAN
  BY DEF Steps
<1>2. tries \in Seq(DOMAIN natives) /\ Len(tries) <= MaxAttempts BY EmptyOffer
<1>3. CaptureTypeOK BY <1>1, <1>2 DEF CaptureTypeOK
<1>4. OpenInv /\ ChosenInv /\ LayoutInv BY DEF OpenInv, ChosenInv, LayoutInv
<1> QED BY <1>3, <1>4 DEF CaptureInv, FrameIsSound

\* After Reset nothing is chosen, asked for, read or held.
LEMMA ResetStep ==
  ASSUME CaptureTypeOK, Reset, at' = "idle", open' = {}, UNCHANGED machine, present' \subseteq Cameras
  PROVE  CaptureInv' /\ FrameIsSound'
<1>1. /\ machine' \in [Cameras -> [kind : Registrations, name : Names]]
      /\ at' \in Steps /\ chosen' \in Handles \cup {None}
      /\ target' \in Cameras \cup {None} /\ natives' \in Offers \cup {<<>>}
      /\ error' \in Errors \cup Final \cup {None} /\ open' \subseteq {"mf", "ds"} \X Cameras
      /\ emits' \in Emitted \cup {None} /\ layout' \in Layouts \cup {None} /\ changed' \in BOOLEAN
  BY DEF CaptureTypeOK, Reset, Steps
<1>2. tries' \in Seq(DOMAIN natives') /\ Len(tries') <= MaxAttempts BY EmptyOffer DEF Reset
<1>3. CaptureTypeOK' BY <1>1, <1>2 DEF CaptureTypeOK
<1>4. OpenInv' /\ ChosenInv' /\ LayoutInv' BY DEF OpenInv, ChosenInv, LayoutInv, Reset
<1> QED BY <1>3, <1>4 DEF CaptureInv, FrameIsSound, Reset

LEMMA StartStep ==
  ASSUME CaptureInv, FrameIsSound, NEW h \in Handles, Start(h)
  PROVE  CaptureInv' /\ FrameIsSound'
<1> USE DEF Start, device
<1>1. h \in [path : {"mf", "ds"}, camera : Cameras] /\ h.path \in {"mf", "ds"} /\ h.camera \in Cameras
  BY DEF ListCameras, InMf, InDs
<1>2. CaptureTypeOK' BY <1>1 DEF CaptureInv, CaptureTypeOK, Steps, Handles
<1>3. CASE h.path = "ds"
  <2>1. at' = "ds_build" /\ target' = h.camera /\ chosen' = h /\ open' = {} BY <1>3 DEF CaptureInv, OpenInv
  <2> QED BY <1>1, <1>2, <2>1 DEF CaptureInv, OpenInv, ChosenInv, LayoutInv, FrameIsSound
<1>4. CASE h.path = "mf"
  <2>1. at' = "mf_open" /\ target' = None /\ chosen' = h /\ open' = {} BY <1>4 DEF CaptureInv, OpenInv
  <2>2. h \in [path : {"mf"}, camera : Cameras] BY <1>1, <1>4
  <2> QED BY <1>1, <1>2, <2>1, <2>2 DEF CaptureInv, OpenInv, ChosenInv, LayoutInv, FrameIsSound
<1> QED BY <1>1, <1>3, <1>4

LEMMA StartScreenStep ==
  ASSUME CaptureInv, FrameIsSound, NEW s \in Sizes, StartScreen(s)
  PROVE  CaptureInv' /\ FrameIsSound'
<1> USE DEF StartScreen, device
<1>1. /\ chosen' = [path |-> "screen", camera |-> None] /\ at' = "running" /\ target' = None
      /\ emits' = [pixels |-> "rgb32", size |-> s] /\ open' = {} /\ changed' = FALSE
  BY DEF CaptureInv, OpenInv, ChosenInv
<1>2. chosen'.path = "screen" /\ chosen' \in Handles BY <1>1 DEF Handles
<1>3. emits' \in Emitted /\ emits' \in [pixels : {"rgb32"}, size : Sizes] BY <1>1, PixelKinds DEF Emitted
<1>4. CaptureTypeOK' BY <1>1, <1>2, <1>3 DEF CaptureInv, CaptureTypeOK, Steps
<1>5. Path' = "screen" BY <1>2, PathIsNext
<1>6. OpenInv' BY <1>1, <1>5 DEF OpenInv
<1>7. ChosenInv' BY <1>1, <1>2 DEF ChosenInv
<1>8. LayoutInv' BY <1>3, <1>5 DEF LayoutInv
<1> QED BY <1>4, <1>6, <1>7, <1>8 DEF CaptureInv, FrameIsSound

LEMMA RefuseStep ==
  ASSUME CaptureInv, FrameIsSound, at \in {"mf_open", "mf_try"}, NEW e \in Errors \cup Final, Refuse(e),
         UNCHANGED <<machine, present, chosen, target, emits, changed, layout, frame>>
  PROVE  CaptureInv' /\ FrameIsSound'
<1>1. open' = {} BY DEF Refuse, CaptureInv, OpenInv
<1>2. tries' \in Seq(DOMAIN natives') /\ Len(tries') <= MaxAttempts BY EmptyOffer DEF Refuse
<1>3. CaptureTypeOK' BY <1>1, <1>2 DEF CaptureInv, CaptureTypeOK, Steps, Refuse
<1>4. at' = "refused" BY DEF Refuse
<1> QED BY <1>1, <1>3, <1>4 DEF CaptureInv, OpenInv, ChosenInv, LayoutInv, FrameIsSound, InDs

LEMMA MfOpenStep ==
  ASSUME CaptureInv, FrameIsSound, MfOpen
  PROVE  CaptureInv' /\ FrameIsSound'
<1> USE DEF MfOpen, device
<1>1. CASE \E e \in Errors \cup Final : Refuse(e) BY <1>1, RefuseStep
<1>2. CASE /\ chosen.camera \in present
           /\ open' = open \cup {<<"mf", chosen.camera>>}
           /\ natives' \in NativeFormats
           /\ tries' = Ranked(natives', Ceiling, Fps)
           /\ at' = "mf_try"
           /\ UNCHANGED error
  <2>1. open' = {<<"mf", chosen.camera>>} /\ chosen.camera \in Cameras /\ chosen' = chosen /\ target' = None
        /\ target = None /\ chosen \in [path : {"mf"}, camera : Cameras]
    BY <1>2 DEF CaptureInv, OpenInv, ChosenInv
  <2>2. natives' \in Offers /\ natives' \in Seq(Formats) BY <1>2, CaptureAssumption DEF NativeFormats
  <2>3. RankingIsSound(natives', Ceiling, Fps) BY <2>2, CaptureAssumption, RankedIsSound
  <2>4. tries' \in Seq(DOMAIN natives') /\ Len(tries') <= MaxAttempts BY <1>2, <2>3 DEF RankingIsSound
  <2>5. CaptureTypeOK' BY <1>2, <2>1, <2>2, <2>4 DEF CaptureInv, CaptureTypeOK, Steps
  <2> QED BY <1>2, <2>1, <2>5 DEF CaptureInv, OpenInv, ChosenInv, LayoutInv, FrameIsSound, InDs
<1> QED BY <1>1, <1>2

LEMMA MfTryStep ==
  ASSUME CaptureInv, FrameIsSound, MfTry
  PROVE  CaptureInv' /\ FrameIsSound'
<1> USE DEF MfTry, device
<1>0. /\ chosen \in [path : {"mf"}, camera : Cameras] /\ target = None /\ chosen' = chosen /\ target' = None
      /\ open = {<<"mf", chosen.camera>>}
  BY DEF CaptureInv, OpenInv, ChosenInv
<1>1. CASE /\ tries # <<>> /\ chosen.camera \in present
           /\ Accept
           /\ at' = "running" /\ natives' = <<>> /\ tries' = <<>>
           /\ UNCHANGED <<open, error>>
  <2>1. emits' \in Layouts /\ layout' = emits' /\ emits' \in Emitted BY <1>1, LayoutFacts DEF Accept
  <2>2. tries' \in Seq(DOMAIN natives') /\ Len(tries') <= MaxAttempts BY <1>1, EmptyOffer
  <2>3. CaptureTypeOK' BY <1>1, <2>1, <2>2 DEF CaptureInv, CaptureTypeOK, Steps
  <2>4. chosen'.path # "screen" BY <1>0
  <2>5. Path' = "mf" BY <1>0, <2>4, PathIsNext
  <2>6. OpenInv' BY <1>0, <1>1, <2>5 DEF OpenInv
  <2>7. ChosenInv' BY <1>0, <1>1 DEF ChosenInv
  <2>8. LayoutInv' BY <2>1, <2>5 DEF LayoutInv
  <2> QED BY <2>3, <2>6, <2>7, <2>8 DEF CaptureInv, FrameIsSound
<1>2. CASE /\ tries # <<>>
           /\ tries' = Tail(tries) /\ error' = "platform"
           /\ UNCHANGED <<at, natives, open, emits, layout>>
  <2>1. tries \in Seq(DOMAIN natives) /\ Len(tries) <= MaxAttempts BY DEF CaptureInv, CaptureTypeOK
  <2>2. Tail(tries) \in Seq(DOMAIN natives) /\ Len(Tail(tries)) <= MaxAttempts
    BY <1>2, <2>1, SMT DEF MaxAttempts
  <2>3. CaptureTypeOK' BY <1>2, <2>2 DEF CaptureInv, CaptureTypeOK, Errors
  <2> QED BY <1>0, <1>2, <2>3 DEF CaptureInv, OpenInv, ChosenInv, LayoutInv, FrameIsSound
<1>3. CASE /\ \E e \in (IF tries = <<>> THEN {IF error = None THEN "no_format" ELSE error} ELSE Final) :
                Refuse(e)
           /\ UNCHANGED <<emits, layout>>
  <2>1. error \in Errors \cup Final \cup {None} BY DEF CaptureInv, CaptureTypeOK
  <2>2. PICK e \in Errors \cup Final : Refuse(e) BY <1>3, <2>1 DEF Errors
  <2> QED BY <1>3, <2>2, RefuseStep
<1> QED BY <1>1, <1>2, <1>3

\* DirectShow is asked for the camera that was picked, if it knows that one.
LEMMA CounterpartIsChosen ==
  ASSUME CaptureTypeOK, NEW c \in Cameras, NEW d \in Counterpart(c)
  PROVE  d \in Cameras /\ (d = c \/ c \notin InDs)
<1>1. CASE c \in InDs \cap present /\ Keyed(c) BY <1>1 DEF Counterpart
<1>2. CASE ~(c \in InDs \cap present /\ Keyed(c))
  <2>1. /\ c \in InMf \cap present /\ Cardinality(Namesakes(c)) = 1 /\ d \in Namesakes(c)
    BY <1>2 DEF Counterpart
  <2>2. Namesakes(c) \in SUBSET Cameras BY DEF Namesakes, InDs
  <2>3. IsFiniteSet(Namesakes(c)) BY <2>2, CaptureAssumption, FS_Subset
  <2>4. PICK x : Namesakes(c) = {x} BY <2>1, <2>3, FS_Singleton
  <2>5. c \in InDs => c \in Namesakes(c) BY <2>1 DEF Namesakes
  <2> QED BY <2>1, <2>2, <2>4, <2>5
<1> QED BY <1>1, <1>2

LEMMA FallbackStep ==
  ASSUME CaptureInv, FrameIsSound, Fallback
  PROVE  CaptureInv' /\ FrameIsSound'
<1> USE DEF Fallback, device
<1>0. /\ chosen \in [path : {"mf"}, camera : Cameras] /\ chosen.camera \in Cameras /\ open = {} /\ open' = {}
      /\ CaptureTypeOK /\ present' \subseteq Cameras /\ machine' = machine
  BY DEF CaptureInv, OpenInv, ChosenInv, CaptureTypeOK
<1>1. CASE GiveUp BY <1>0, <1>1, ResetStep DEF GiveUp
<1>2. CASE /\ target' \in Counterpart(chosen.camera)
           /\ at' = "ds_build"
           /\ UNCHANGED <<chosen, natives, tries, error, emits, changed, layout, frame>>
  <2>1. target' \in Cameras /\ (target' = chosen.camera \/ chosen.camera \notin InDs)
    BY <1>0, <1>2, CounterpartIsChosen
  <2>2. CaptureTypeOK' BY <1>0, <1>2, <2>1 DEF CaptureTypeOK, Steps
  <2>3. InDs' = InDs BY <1>0 DEF InDs
  <2>4. ChosenInv' BY <1>0, <1>2, <2>1, <2>3 DEF ChosenInv
  <2> QED BY <1>0, <1>2, <2>2, <2>4 DEF CaptureInv, OpenInv, LayoutInv, FrameIsSound
<1> QED BY <1>1, <1>2

LEMMA DsBuildStep ==
  ASSUME CaptureInv, FrameIsSound, DsBuild
  PROVE  CaptureInv' /\ FrameIsSound'
<1> USE DEF DsBuild, device
<1>0. /\ chosen \in [path : {"mf", "ds"}, camera : Cameras] /\ target \in Cameras /\ open = {}
      /\ CaptureTypeOK /\ present' \subseteq Cameras /\ machine' = machine
      /\ target = chosen.camera \/ chosen.camera \notin InDs
  BY CaptureAssumption DEF CaptureInv, OpenInv, ChosenInv, CaptureTypeOK
<1>1. CASE GiveUp /\ UNCHANGED open BY <1>0, <1>1, ResetStep DEF GiveUp
<1>2. CASE /\ \E offer \in Offers :
                LET offered == Achievable(offer)
                    shapes  == {i \in DOMAIN offered : ShapeOf(offered[i])}
                IN /\ shapes # {}
                   /\ emits' \in {l \in Delivered(DirectShowChoice(offered, shapes, Ceiling, Fps)) : ShapeOf(l)}
           /\ layout' = emits'
           /\ open' = open \cup {<<"ds", target>>} /\ at' = "running"
           /\ UNCHANGED <<chosen, target, natives, tries, error, changed, frame>>
  <2>1. emits' \in Layouts /\ ShapeOf(emits') /\ emits' \in Emitted BY <1>2, LayoutFacts
  <2>2. open' = {<<"ds", target>>} BY <1>0, <1>2
  <2>3. CaptureTypeOK' BY <1>0, <1>2, <2>1, <2>2 DEF CaptureTypeOK, Steps
  <2>4. chosen'.path # "screen" /\ target' # None BY <1>0, <1>2, CaptureAssumption
  <2>5. Path' = "ds" BY <2>4, PathIsNext
  <2>6. OpenInv' BY <1>2, <2>2, <2>5 DEF OpenInv
  <2>7. InDs' = InDs BY <1>0 DEF InDs
  <2>8. ChosenInv' BY <1>0, <1>2, <2>7 DEF ChosenInv
  <2>9. LayoutInv' BY <1>2, <2>1, <2>5 DEF LayoutInv, ShapeOf
  <2> QED BY <1>2, <2>3, <2>6, <2>8, <2>9 DEF CaptureInv, FrameIsSound
<1> QED BY <1>1, <1>2

\* A running capture keeps its device and its path.
LEMMA SameDevice ==
  ASSUME CaptureInv, UNCHANGED <<machine, at, chosen, target, open>>
  PROVE  OpenInv' /\ ChosenInv' /\ Path' = Path
<1>1. Path' = Path BY DEF Path
<1>2. InDs' = InDs BY DEF InDs
<1> QED BY <1>1, <1>2 DEF CaptureInv, OpenInv, ChosenInv

LEMMA ChangeFormatStep ==
  ASSUME CaptureInv, FrameIsSound, ChangeFormat
  PROVE  CaptureInv' /\ FrameIsSound'
<1> USE DEF ChangeFormat, device
<1>1. OpenInv' /\ ChosenInv' /\ Path' = Path BY SameDevice
<1>2. CASE Path = "mf"
  <2>1. emits' \in Emitted BY <1>2
  <2>2. CaptureTypeOK' BY <2>1 DEF CaptureInv, CaptureTypeOK
  <2>3. LayoutInv' BY <1>1, <1>2 DEF LayoutInv
  <2> QED BY <1>1, <2>2, <2>3 DEF CaptureInv, FrameIsSound
<1>3. CASE Path = "ds"
  <2>1. emits' \in Emitted /\ ShapeOf(emits') BY <1>3
  <2>2. emits' \in Layouts BY <2>1 DEF Emitted, Layouts, ShapeOf
  <2>3. CaptureTypeOK' BY <2>1 DEF CaptureInv, CaptureTypeOK
  <2>4. LayoutInv' BY <1>1, <1>3, <2>1, <2>2 DEF LayoutInv, ShapeOf
  <2> QED BY <1>1, <2>3, <2>4 DEF CaptureInv, FrameIsSound
<1>4. CASE Path = "screen"
  <2>1. emits' \in [pixels : {"rgb32"}, size : Sizes] BY <1>4
  <2>2. emits' \in Emitted BY <2>1, PixelKinds DEF Emitted
  <2>3. CaptureTypeOK' BY <2>2 DEF CaptureInv, CaptureTypeOK
  <2>4. LayoutInv' BY <1>1, <1>4, <2>1 DEF LayoutInv
  <2> QED BY <1>1, <2>3, <2>4 DEF CaptureInv, FrameIsSound
<1> QED BY <1>2, <1>3, <1>4, PathFacts DEF Paths

LEMMA MfReadStep ==
  ASSUME CaptureInv, FrameIsSound, MfRead
  PROVE  CaptureInv' /\ FrameIsSound'
<1> USE DEF MfRead, Quiet, device
<1>1. OpenInv' /\ ChosenInv' /\ Path' = Path BY SameDevice
<1>2. layout' = emits /\ emits \in Layouts /\ emits' = emits BY DEF CaptureInv, LayoutInv
<1>3. emits \in [pixels : Pixels, size : Nat \X Nat] BY <1>2, LayoutFacts
<1>4. PICK raw \in Buffers(emits) : Deliver(emits, emits, raw) BY <1>2
<1>5. FrameIsSound' BY <1>3, <1>4, BuffersAreRaws, PathFacts, DeliveredIsSound
<1>6. CaptureTypeOK' BY <1>2 DEF CaptureInv, CaptureTypeOK
<1>7. LayoutInv' BY <1>1, <1>2 DEF LayoutInv
<1> QED BY <1>1, <1>5, <1>6, <1>7 DEF CaptureInv

LEMMA DsTakeStep ==
  ASSUME CaptureInv, FrameIsSound, DsTake
  PROVE  CaptureInv' /\ FrameIsSound'
<1> USE DEF DsTake, Quiet, device
<1>1. OpenInv' /\ ChosenInv' /\ Path' = Path BY SameDevice
<1>2. layout' = emits /\ emits \in Layouts /\ emits' = emits /\ ShapeOf(emits) BY DEF CaptureInv, LayoutInv
<1>3. emits \in [pixels : Pixels, size : Nat \X Nat] BY <1>2, LayoutFacts
<1>4. PICK raw \in Buffers(emits) : Deliver(emits, emits, raw) BY <1>2
<1>5. FrameIsSound' BY <1>3, <1>4, BuffersAreRaws, PathFacts, DeliveredIsSound
<1>6. CaptureTypeOK' BY <1>2 DEF CaptureInv, CaptureTypeOK
<1>7. LayoutInv' BY <1>1, <1>2 DEF LayoutInv, ShapeOf
<1> QED BY <1>1, <1>5, <1>6, <1>7 DEF CaptureInv

LEMMA ScreenPushStep ==
  ASSUME CaptureInv, FrameIsSound, ScreenPush
  PROVE  CaptureInv' /\ FrameIsSound'
<1> USE DEF ScreenPush, Quiet, device
<1>1. OpenInv' /\ ChosenInv' /\ Path' = Path BY SameDevice
<1>2. emits \in [pixels : {"rgb32"}, size : Sizes] /\ emits' = emits BY DEF CaptureInv, LayoutInv
<1>3. layout' = [pixels |-> "rgb32", size |-> Evened(emits.size)] BY <1>2
<1>4. layout' \in [pixels : Pixels, size : Nat \X Nat] BY <1>2, <1>3, LayoutFacts, PixelKinds
<1>5. layout' \in [pixels : {"rgb32"}, size : {Evened(s) : s \in Sizes}] BY <1>2, <1>3
<1>6. emits \in [pixels : Pixels, size : Nat \X Nat] BY <1>2, CaptureAssumption, PixelKinds
<1>7. PICK raw \in Buffers(emits) : Deliver(layout', layout', raw) OBVIOUS
<1>8. raw \in Raws BY <1>6, <1>7, BuffersAreRaws, PathFacts
<1>9. FrameIsSound' BY <1>4, <1>7, <1>8, DeliveredIsSound
<1>10. CaptureTypeOK' BY <1>5 DEF CaptureInv, CaptureTypeOK
<1>11. LayoutInv' BY <1>1, <1>2 DEF LayoutInv
<1> QED BY <1>1, <1>9, <1>10, <1>11 DEF CaptureInv

LEMMA LoseStep ==
  ASSUME CaptureInv, FrameIsSound, Lose
  PROVE  CaptureInv' /\ FrameIsSound'
<1> USE DEF Lose
<1>1. present' \subseteq Cameras BY DEF CaptureInv, CaptureTypeOK
<1>2. CaptureTypeOK' BY <1>1 DEF CaptureInv, CaptureTypeOK, Steps
<1>3. InDs' = InDs BY DEF InDs
<1>4. ChosenInv' BY <1>3 DEF CaptureInv, ChosenInv
<1> QED BY <1>2, <1>4 DEF CaptureInv, OpenInv, LayoutInv, FrameIsSound

LEMMA StopStep ==
  ASSUME CaptureInv, FrameIsSound, Stop
  PROVE  CaptureInv' /\ FrameIsSound'
<1>1. CaptureTypeOK /\ present' \subseteq Cameras BY DEF CaptureInv, CaptureTypeOK, Stop, device
<1> QED BY <1>1, ResetStep DEF Stop, device

LEMMA UnplugStep ==
  ASSUME CaptureInv, FrameIsSound, NEW c \in Cameras, Unplug(c)
  PROVE  CaptureInv' /\ FrameIsSound'
<1> USE DEF Unplug
<1>1. CaptureTypeOK' BY DEF CaptureInv, CaptureTypeOK
<1>2. OpenInv' /\ ChosenInv' BY SameDevice
<1> QED BY <1>1, <1>2 DEF CaptureInv, LayoutInv, FrameIsSound

LEMMA StutterStep ==
  ASSUME CaptureInv, FrameIsSound, UNCHANGED vars
  PROVE  CaptureInv' /\ FrameIsSound'
<1> USE DEF vars
<1>1. CaptureTypeOK' BY DEF CaptureInv, CaptureTypeOK
<1>2. OpenInv' /\ ChosenInv' /\ Path' = Path BY SameDevice
<1>3. LayoutInv' BY <1>2 DEF CaptureInv, LayoutInv, ShapeOf
<1> QED BY <1>1, <1>2, <1>3 DEF CaptureInv, FrameIsSound

LEMMA NextInv ==
  CaptureInv /\ FrameIsSound /\ [Next]_vars => CaptureInv' /\ FrameIsSound'
  BY StartStep, StartScreenStep, MfOpenStep, MfTryStep, FallbackStep, DsBuildStep, ChangeFormatStep,
     MfReadStep, DsTakeStep, ScreenPushStep, LoseStep, StopStep, UnplugStep, StutterStep DEF Next

LEMMA CaptureIsSound == CaptureSpec => [](CaptureInv /\ FrameIsSound)
  BY InitInv, NextInv, PTL DEF CaptureSpec

\* Every frame of every size, layout and padding is read as what it is, inside
\* its memory, and scaled into the encoder's and the preview's ceiling, also
\* right after the device changed its format (mf.rs, run; dshow.rs, take).
THEOREM FramesAreSound == CaptureSpec => []FrameIsSound
  BY CaptureIsSound, PTL

\* The two paths never hold a camera at once, and nothing stays open after a
\* refusal, a loss or a stop (mf.rs, Opened and its Drop; mod.rs, start).
THEOREM OneDeviceIsOpen == CaptureSpec => []OneOpenDevice
<1>1. CaptureInv => OneOpenDevice
  <2> SUFFICES ASSUME CaptureInv PROVE OneOpenDevice OBVIOUS
  <2>1. open = {} \/ \E x : open = {x}
    <3>1. at \in Steps BY DEF CaptureInv, CaptureTypeOK
    <3>2. CASE at = "running" BY <3>2, PathFacts DEF CaptureInv, OpenInv, Paths
    <3>3. CASE at # "running" BY <3>1, <3>3 DEF CaptureInv, OpenInv, Steps
    <3> QED BY <3>2, <3>3
  <2>2. Cardinality(open) = 0 \/ Cardinality(open) = 1 BY <2>1, FS_EmptySet, FS_Singleton
  <2> QED BY <2>2 DEF OneOpenDevice, CaptureInv, OpenInv
<1> QED BY <1>1, CaptureIsSound, PTL

\* The camera that is opened is the one that was picked, unless DirectShow does
\* not know that one (dshow.rs, counterpart).
THEOREM ChosenIsOpened == CaptureSpec => []OpenedIsChosen
<1>1. CaptureInv => OpenedIsChosen
  <2> SUFFICES ASSUME CaptureInv, NEW p \in {"mf", "ds"}, NEW c \in Cameras, <<p, c>> \in open
               PROVE  c = chosen.camera \/ chosen.camera \notin InDs
    BY DEF OpenedIsChosen
  <2>1. at \in {"mf_try", "running"} BY DEF CaptureInv, CaptureTypeOK, OpenInv, Steps
  <2>2. CASE at = "mf_try" BY <2>2 DEF CaptureInv, OpenInv
  <2>3. CASE at = "running"
    <3>1. CASE Path = "mf" BY <2>3, <3>1 DEF CaptureInv, OpenInv
    <3>2. CASE Path = "ds"
      <4>1. c = target BY <2>3, <3>2 DEF CaptureInv, OpenInv
      <4>2. c # None BY CaptureAssumption
      <4> QED BY <4>1, <4>2 DEF CaptureInv, ChosenInv
    <3>3. CASE Path = "screen" BY <2>3, <3>3 DEF CaptureInv, OpenInv
    <3> QED BY <3>1, <3>2, <3>3, PathFacts DEF Paths
  <2> QED BY <2>1, <2>2, <2>3
<1> QED BY <1>1, CaptureIsSound, PTL

\* No camera is listed twice and none is left out without a namesake, however
\* the cameras are registered and named (mod.rs, list_cameras).
THEOREM CamerasAreListedOnce == CaptureSpec => []ListedOnce
<1>1. CaptureInv => ListedOnce
  <2> SUFFICES ASSUME CaptureInv PROVE ListedOnce OBVIOUS
  <2>1. \A c \in Cameras : machine[c].kind \in Registrations BY DEF CaptureInv, CaptureTypeOK
  <2>2. ASSUME NEW g \in ListCameras, NEW h \in ListCameras, g.camera = h.camera PROVE g = h
    <3>1. g \in [path : {"mf"}, camera : InMf] \/ g \in [path : {"ds"}, camera : InDs] BY DEF ListCameras
    <3>2. h \in [path : {"mf"}, camera : InMf] \/ h \in [path : {"ds"}, camera : InDs] BY DEF ListCameras
    <3>3. g.path = h.path BY <2>2, <3>1, <3>2 DEF ListCameras
    <3> QED BY <2>2, <3>1, <3>2, <3>3
  <2>3. ASSUME NEW c \in Cameras PROVE \E h \in ListCameras : machine[h.camera].name = machine[c].name
    <3> DEFINE H(p, d) == [path |-> p, camera |-> d]
    <3>1. CASE \E d \in InMf : machine[d].name = machine[c].name
      <4>1. PICK d \in InMf : machine[d].name = machine[c].name BY <3>1
      <4>2. H("mf", d) \in ListCameras /\ H("mf", d).camera = d BY DEF ListCameras
      <4> QED BY <4>1, <4>2
    <3>2. CASE ~ \E d \in InMf : machine[d].name = machine[c].name
      <4>1. c \notin InMf /\ c \in InDs BY <3>2 DEF InMf, InDs
      <4>2. H("ds", c) \in ListCameras /\ H("ds", c).camera = c BY <3>2, <4>1 DEF ListCameras
      <4> QED BY <4>2
    <3> QED BY <3>1, <3>2
  <2> QED BY <2>2, <2>3 DEF ListedOnce
<1> QED BY <1>1, CaptureIsSound, PTL

\* Whatever a device offers, its formats are tried best first and a readable one
\* is among them (mf.rs, ranked).
THEOREM AttemptsAreRanked == CaptureSpec => []AttemptsAreSound
<1>1. CaptureInv => AttemptsAreSound
  <2> SUFFICES ASSUME CaptureInv PROVE AttemptsAreSound OBVIOUS
  <2>1. natives \in Seq(Formats) BY OfferFacts DEF CaptureInv, CaptureTypeOK
  <2> QED BY <2>1, CaptureAssumption, RankedIsSound DEF AttemptsAreSound
<1> QED BY <1>1, CaptureIsSound, PTL
=============================================================================
