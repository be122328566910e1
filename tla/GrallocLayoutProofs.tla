------------------------- MODULE GrallocLayoutProofs -------------------------
(***************************************************************************)
(* Theorems about GrallocLayout, for any builds, published capabilities,   *)
(* descriptors and requests of any size.                                   *)
(*                                                                         *)
(* First what the stride and size functions promise, then what a handle    *)
(* has that was measured by them, then the format that is chosen and whom  *)
(* it suits.  The invariant says that whatever was laid out was laid out   *)
(* by these functions: for the kind of allocation that an earlier          *)
(* descriptor of the call left behind, or for a new descriptor's.          *)
(***************************************************************************)
EXTENDS GrallocLayout, TLAPS

(***************************************************************************)
(* Arithmetic: products and alignments.                                    *)
(***************************************************************************)

\* Products grow with their factors.
LEMMA MulMono ==
  ASSUME NEW a \in Nat, NEW b \in Nat, NEW c \in Nat, a >= b
  PROVE  a * c >= b * c /\ c * a >= c * b /\ a * c \in Nat
OBVIOUS

\* Products of naturals are naturals.
LEMMA MulNat == ASSUME NEW m \in Nat, NEW n \in Nat PROVE m * n \in Nat
OBVIOUS

\* Products grow with both their factors.
LEMMA MulMono2 ==
  ASSUME NEW a \in Nat, NEW b \in Nat, NEW c \in Nat, NEW d \in Nat, a >= b, c >= d
  PROVE  a * c >= b * d /\ a * c \in Nat /\ b * d \in Nat
<1>1. a * c >= b * c BY MulMono
<1>2. b * c >= b * d BY MulMono
<1> QED BY <1>1, <1>2

\* Aligning never loses anything, for the powers of two the code aligns to.
LEMMA AlignFacts ==
  ASSUME NEW x \in Nat, NEW b \in Nat, b \in {2, 16, 32, 64, 128, 256, 1024, 4096}
  PROVE  Align(x, b) \in Nat /\ Align(x, b) >= x
<1>1. CASE b = 2 BY <1>1 DEF Align
<1>2. CASE b = 16 BY <1>2 DEF Align
<1>3. CASE b = 32 BY <1>3 DEF Align
<1>4. CASE b = 64 BY <1>4 DEF Align
<1>5. CASE b = 128 BY <1>5 DEF Align
<1>6. CASE b = 256 BY <1>6 DEF Align
<1>7. CASE b = 1024 BY <1>7 DEF Align
<1>8. CASE b = 4096 BY <1>8 DEF Align
<1> QED BY <1>1, <1>2, <1>3, <1>4, <1>5, <1>6, <1>7, <1>8

\* What is aligned to b is the number of groups of b, b each.
LEMMA AlignUp ==
  ASSUME NEW x \in Nat, NEW b \in Nat, b \in {2, 16, 32, 64, 128, 256, 1024, 4096}
  PROVE  Up(x, b) \in Nat /\ Align(x, b) = Up(x, b) * b
<1>1. CASE b = 2 BY <1>1 DEF Align, Up
<1>2. CASE b = 16 BY <1>2 DEF Align, Up
<1>3. CASE b = 32 BY <1>3 DEF Align, Up
<1>4. CASE b = 64 BY <1>4 DEF Align, Up
<1>5. CASE b = 128 BY <1>5 DEF Align, Up
<1>6. CASE b = 256 BY <1>6 DEF Align, Up
<1>7. CASE b = 1024 BY <1>7 DEF Align, Up
<1>8. CASE b = 4096 BY <1>8 DEF Align, Up
<1> QED BY <1>1, <1>2, <1>3, <1>4, <1>5, <1>6, <1>7, <1>8

\* What is aligned to 16 or more is a number of blocks of 16.
LEMMA AlignBlocks ==
  ASSUME NEW x \in Nat, NEW b \in Nat, b \in {16, 32, 64, 128, 256}
  PROVE  Align(x, b) = 16 * (Align(x, b) \div 16)
<1>1. CASE b = 16 BY <1>1 DEF Align
<1>2. CASE b = 32 BY <1>2 DEF Align
<1>3. CASE b = 64 BY <1>3 DEF Align
<1>4. CASE b = 128 BY <1>4 DEF Align
<1>5. CASE b = 256 BY <1>5 DEF Align
<1> QED BY <1>1, <1>2, <1>3, <1>4, <1>5

\* The alignments of any kind of allocation.
LEMMA TypeAligns ==
  ASSUME NEW type
  PROVE  width_align(type) \in {16, 32, 64, 128, 256} /\ height_align(type) \in {16, 64, 128}
BY DEF width_align, height_align

\* Whatever the kind, width and height become multiples of 16.
LEMMA InBlocks ==
  ASSUME NEW w \in Nat, NEW h \in Nat, NEW type
  PROVE  LET W == Align(w, width_align(type))
             H == Align(h, height_align(type))
         IN /\ W \in Nat /\ W >= w /\ W \div 16 \in Nat /\ W = 16 * (W \div 16)
            /\ H \in Nat /\ H >= h /\ H \div 16 \in Nat /\ H = 16 * (H \div 16)
<1> DEFINE i == width_align(type)
           j == height_align(type)
           W == Align(w, i)
           H == Align(h, j)
<1>1. i \in Nat /\ j \in Nat /\ i \in {16, 32, 64, 128, 256} /\ j \in {16, 32, 64, 128, 256}
  BY TypeAligns
<1> HIDE DEF i, j
<1>2. W \in Nat /\ W >= w /\ W = 16 * (W \div 16) BY <1>1, AlignFacts, AlignBlocks
<1>3. H \in Nat /\ H >= h /\ H = 16 * (H \div 16) BY <1>1, AlignFacts, AlignBlocks
<1> HIDE DEF W, H
<1>4. W \div 16 \in Nat /\ H \div 16 \in Nat BY <1>2, <1>3
<1> QED BY <1>2, <1>3, <1>4 DEF W, H, i, j

\* The headers of a by b blocks have 16 bytes for each of them.
LEMMA HeaderHolds ==
  ASSUME NEW a \in Nat, NEW b \in Nat, NEW type
  PROVE header_size(16 * a, 16 * b, type) \in Nat /\ header_size(16 * a, 16 * b, type) >= 16 * (a * b)
<1> DEFINE n == (((16 * a) \div 16) * (16 * b)) \div 16
<1>1. (16 * a) \div 16 = a OBVIOUS
<1>2. a * (16 * b) = 16 * (a * b) /\ a * b \in Nat OBVIOUS
<1>3. (16 * (a * b)) \div 16 = a * b
  <2>1. \A p \in Nat : (16 * p) \div 16 = p OBVIOUS
  <2> QED BY <1>2, <2>1
<1>4. n = a * b BY <1>1, <1>2, <1>3
<1>5. \A p \in Nat, k \in {1024, 4096} : Align(p * 16, k) >= p * 16 /\ Align(p * 16, k) \in Nat
  <2> SUFFICES ASSUME NEW p \in Nat, NEW k \in {1024, 4096}
               PROVE Align(p * 16, k) >= p * 16 /\ Align(p * 16, k) \in Nat
    OBVIOUS
  <2>1. p * 16 \in Nat OBVIOUS
  <2> QED BY <2>1, AlignFacts
<1> HIDE DEF n
<1>6. header_size(16 * a, 16 * b, type) = Align(n * 16, IF Tiled(type) THEN 4096 ELSE 1024)
  BY DEF header_size, n, AFBC_PIXELS_PER_BLOCK
<1> QED BY <1>4, <1>5, <1>6, <1>2

\* Any header is a number of bytes.
LEMMA HeaderNat ==
  ASSUME NEW w \in Nat, NEW h \in Nat, NEW type
  PROVE header_size(w, h, type) \in Nat
<1> DEFINE n == ((w \div 16) * h) \div 16
<1>1. w \div 16 \in Nat OBVIOUS
<1>2. (w \div 16) * h \in Nat BY <1>1, MulMono
<1>3. n * 16 \in Nat BY <1>2
<1> HIDE DEF n
<1>4. \A m \in Nat : Align(m, 1024) \in Nat /\ Align(m, 4096) \in Nat
  <2> TAKE m \in Nat
  <2> QED BY AlignFacts
<1>5. Align(n * 16, 1024) \in Nat /\ Align(n * 16, 4096) \in Nat BY <1>3, <1>4
<1> QED BY <1>5 DEF header_size, n, AFBC_PIXELS_PER_BLOCK

(***************************************************************************)
(* The stride and size functions.                                          *)
(***************************************************************************)
\* What a stride and size function that does not refuse stores.
Sized == [ok : {TRUE}, pixel_stride : Nat, byte_stride : Nat, size : Nat, extra : Nat]
\* Room for the superblocks of the image, each with its header.
HoldsBlocks(s, w, h, type, bits) ==
  s.size >= ((Align(w, width_align(type)) \div 16) * (Align(h, height_align(type)) \div 16)) * (16 + 32 * bits)

\* rgb_stride_and_size has room for the pixels, plain or in superblocks.
LEMMA RgbHolds ==
  ASSUME NEW w \in Nat, NEW h \in Nat, NEW ps \in {2, 3, 4}, NEW type
  PROVE LET s == rgb_stride_and_size(w, h, ps, type)
        IN /\ s \in Sized /\ s.ok /\ s.extra = 0 /\ s.size >= ps * w * h
           /\ type # "UNCOMPRESSED" => HoldsBlocks(s, w, h, type, 8 * ps)
<1> DEFINE s == rgb_stride_and_size(w, h, ps, type)
<1>1. CASE type = "UNCOMPRESSED"
  <2> DEFINE stride == Align(w * ps, 64)
  <2>1. w * ps \in Nat OBVIOUS
  <2>2. stride \in Nat /\ stride >= w * ps BY <2>1, AlignFacts
  <2> HIDE DEF stride
  <2>3. stride * h >= (w * ps) * h /\ stride * h \in Nat BY <2>1, <2>2, MulMono
  <2>4. (w * ps) * h = ps * w * h OBVIOUS
  <2>5. stride \div ps \in Nat BY <2>2
  <2>6. s = Layout(stride \div ps, stride, stride * h) BY <1>1 DEF rgb_stride_and_size, stride
  <2> QED BY <2>2, <2>3, <2>4, <2>5, <2>6, <1>1 DEF Sized, Layout, Cropped
<1>2. CASE type # "UNCOMPRESSED"
  <2> DEFINE W == Align(w, width_align(type))
             H == Align(h, height_align(type))
             stride == Align(W * ps, 64)
             a == W \div 16
             b == H \div 16
  <2>1. a \in Nat /\ b \in Nat /\ W = 16 * a /\ H = 16 * b BY InBlocks
  <2>2. W \in Nat /\ W >= w /\ H \in Nat /\ H >= h BY InBlocks
  <2> HIDE DEF W, H, a, b
  <2>3. W * ps \in Nat BY <2>2
  <2>4. stride \in Nat /\ stride >= W * ps BY <2>3, AlignFacts
  <2> HIDE DEF stride
  <2>5. stride * H >= (W * ps) * H /\ stride * H \in Nat BY <2>2, <2>3, <2>4, MulMono
  <2>6. (W * ps) * H = 256 * ps * (a * b) BY <2>1
  <2>7. W * H >= w * h BY <2>2, MulMono2
  <2>8. (W * ps) * H >= ps * w * h
    <3>1. (W * ps) * H = ps * (W * H) /\ ps * w * h = ps * (w * h) BY <2>2
    <3>2. W * H \in Nat /\ w * h \in Nat BY <2>2
    <3> QED BY <3>1, <3>2, <2>7
  <2>9. header_size(W, H, type) \in Nat /\ header_size(W, H, type) >= 16 * (a * b) BY <2>1, HeaderHolds
  <2>10. s = Layout(stride \div ps, stride, stride * H + header_size(W, H, type))
    BY <1>2 DEF rgb_stride_and_size, stride, W, H
  <2>11. stride \div ps \in Nat BY <2>4
  <2>12. s.size >= (a * b) * (16 + 32 * (8 * ps))
    <3>1. s.size = stride * H + header_size(W, H, type) BY <2>10 DEF Layout, Cropped
    <3>2. (a * b) * (16 + 32 * (8 * ps)) = 16 * (a * b) + 256 * ps * (a * b) BY <2>1
    <3>3. a * b \in Nat /\ 256 * ps * (a * b) \in Nat BY <2>1
    <3> HIDE DEF s
    <3> QED BY <3>1, <3>2, <3>3, <2>5, <2>6, <2>9
  <2>13. HoldsBlocks(s, w, h, type, 8 * ps) BY <2>12 DEF HoldsBlocks, W, H, a, b
  <2>14. s \in Sized /\ s.ok /\ s.extra = 0 BY <2>4, <2>5, <2>9, <2>10, <2>11 DEF Sized, Layout, Cropped
  <2>15. s.size >= ps * w * h
    <3>1. ps * w * h \in Nat OBVIOUS
    <3>2. s.size = stride * H + header_size(W, H, type) BY <2>10 DEF Layout, Cropped
    <3>3. (W * ps) * H \in Nat BY <2>2
    <3> HIDE DEF s
    <3> QED BY <3>1, <3>2, <3>3, <2>5, <2>8, <2>9
  <2> QED BY <2>13, <2>14, <2>15
<1> QED BY <1>1, <1>2

\* A body of bits for the blocks after headers of 16 bytes.
LEMMA BlocksFit ==
  ASSUME NEW a \in Nat, NEW b \in Nat, NEW body \in Nat, NEW header \in Nat, NEW bits \in Nat,
         header >= 16 * (a * b), body >= 32 * bits * (a * b)
  PROVE  body + header >= (a * b) * (16 + 32 * bits)
<1>1. a * b \in Nat /\ bits * (a * b) \in Nat OBVIOUS
<1>2. (a * b) * (16 + 32 * bits) = 16 * (a * b) + 32 * bits * (a * b) OBVIOUS
<1> QED BY <1>1, <1>2

\* The shape of the images in three planes: rows of whole blocks, chroma as the locks compute it.
HoldsPlanes(s, w, h) ==
  /\ s.byte_stride >= w /\ s.byte_stride \div 16 \in Nat /\ s.byte_stride = 16 * (s.byte_stride \div 16)
  /\ s.size >= (s.byte_stride + Align(s.byte_stride \div 2, 16)) * Align(h, 2)

\* afbc_yuv420_8bit_stride_and_size: 12 bits for every pixel in its superblocks, and three planes.
LEMMA Yuv420Afbc ==
  ASSUME NEW w \in Nat, NEW h \in Nat, NEW type, NEW video
  PROVE  LET s == afbc_yuv420_8bit_stride_and_size(w, h, type, video)
         IN \/ s = Refused
            \/ /\ s \in Sized /\ s.ok /\ s.extra = extra_rows(video)
               /\ HoldsPlanes(s, w, h) /\ HoldsBlocks(s, w, h + s.extra, type, 12)
<1> DEFINE s == afbc_yuv420_8bit_stride_and_size(w, h, type, video)
           e == extra_rows(video)
           W == Align(w, width_align(type))
           H == Align(h + e, height_align(type))
           a == W \div 16
           b == H \div 16
           c == Align(W \div 2, 16)
           hdr == header_size(W, H, type)
<1>1. CASE ~YuvAfbc(type) BY <1>1 DEF afbc_yuv420_8bit_stride_and_size
<1>2. CASE YuvAfbc(type)
  <2>1. e \in {0, 16} /\ h + e \in Nat BY DEF extra_rows, AFBC_PIXELS_PER_BLOCK
  <2> HIDE DEF e
  <2>2. /\ W \in Nat /\ W >= w /\ a \in Nat /\ W = 16 * a
        /\ H \in Nat /\ H >= h + e /\ b \in Nat /\ H = 16 * b
    BY <2>1, InBlocks
  <2> HIDE DEF W, H, a, b
  <2>3. W \div 2 = 8 * a BY <2>2
  <2>4. c \in Nat /\ c >= 8 * a BY <2>2, <2>3, AlignFacts
  <2> HIDE DEF c
  <2>5. hdr \in Nat /\ hdr >= 16 * (a * b) BY <2>2, HeaderHolds
  <2> HIDE DEF hdr
  <2>6. s = Cropped(W, W, (W + c) * H + hdr, e)
    BY <1>2 DEF afbc_yuv420_8bit_stride_and_size, W, H, c, hdr, e
  <2>7. (W + c) * H \in Nat /\ (W + c) * H >= 32 * 12 * (a * b)
    <3>1. (W + c) * H >= (24 * a) * H /\ (W + c) * H \in Nat
      <4>1. W + c \in Nat /\ 24 * a \in Nat /\ W + c >= 24 * a BY <2>2, <2>4
      <4> QED BY <4>1, <2>2, MulMono
    <3>2. (24 * a) * H = 32 * 12 * (a * b) BY <2>2
    <3> QED BY <3>1, <3>2
  <2>8. (W + c) * H + hdr >= (a * b) * (16 + 32 * 12) BY <2>2, <2>5, <2>7, BlocksFit
  <2>9. (W + c) * H >= (W + c) * Align(h, 2)
    <3>1. Align(h, 2) \in Nat /\ Align(h, 2) <= H
      <4>1. Align(h, 2) \in Nat BY AlignFacts
      <4>2. Align(h, 2) <= H BY <2>1, <2>2 DEF Align
      <4> QED BY <4>1, <4>2
    <3>2. W + c \in Nat BY <2>2, <2>4
    <3> QED BY <3>1, <3>2, <2>2, MulMono
  <2>10. (W + c) * Align(h, 2) \in Nat
    <3>1. Align(h, 2) \in Nat BY AlignFacts
    <3> QED BY <3>1, <2>2, <2>4
  <2>11. HoldsPlanes(s, w, h) BY <2>2, <2>5, <2>6, <2>7, <2>9, <2>10 DEF HoldsPlanes, Cropped, c, a
  <2>12. HoldsBlocks(s, w, h + s.extra, type, 12) BY <2>6, <2>8 DEF HoldsBlocks, Cropped, a, b, W, H
  <2>13. s \in Sized /\ s.ok /\ s.extra = e BY <2>1, <2>2, <2>5, <2>6, <2>7 DEF Sized, Cropped
  <2> QED BY <2>11, <2>12, <2>13 DEF e
<1> QED BY <1>1, <1>2

\* yv12_stride_and_size: three planes whatever the stride alignment, the odd row included.
LEMMA Yv12 ==
  ASSUME NEW w \in Nat, NEW h \in Nat, NEW type, NEW video, NEW sa \in {16, 128}
  PROVE  LET s == yv12_stride_and_size(w, h, type, sa, video)
         IN \/ s = Refused
            \/ /\ s \in Sized /\ s.ok /\ HoldsPlanes(s, w, h)
               /\ s.extra = (IF type = "UNCOMPRESSED" THEN 0 ELSE extra_rows(video))
               /\ type # "UNCOMPRESSED" => HoldsBlocks(s, w, h + s.extra, type, 12)
<1> DEFINE s == yv12_stride_and_size(w, h, type, sa, video)
           luma == Align(w, sa)
           chroma == Align(luma \div 2, sa)
           rows == Align(h, 2)
<1>1. CASE type # "UNCOMPRESSED" BY <1>1, Yuv420Afbc DEF yv12_stride_and_size
<1>2. CASE type = "UNCOMPRESSED"
  <2>1. luma \in Nat /\ luma >= w /\ luma \div 16 \in Nat /\ luma = 16 * (luma \div 16)
    <3>1. luma \in Nat /\ luma >= w BY AlignFacts
    <3>2. luma = 16 * (luma \div 16) BY AlignBlocks
    <3> HIDE DEF luma
    <3> QED BY <3>1, <3>2
  <2> HIDE DEF luma
  <2>2. luma \div 2 \in Nat BY <2>1
  <2>3. chroma \in Nat /\ Align(luma \div 2, 16) \in Nat BY <2>2, AlignFacts
  <2>4. chroma >= Align(luma \div 2, 16)
    <3>1. CASE sa = 16 BY <3>1, <2>3
    <3>2. CASE sa = 128 BY <3>2, <2>2 DEF Align
    <3> QED BY <3>1, <3>2
  <2> HIDE DEF chroma
  <2>5. rows \in Nat BY AlignFacts
  <2> HIDE DEF rows
  <2>6. s = Layout(luma, luma, rows * (luma + chroma)) BY <1>2 DEF yv12_stride_and_size, luma, chroma, rows
  <2>7. rows * (luma + chroma) >= (luma + Align(luma \div 2, 16)) * rows /\ rows * (luma + chroma) \in Nat
    <3>1. luma + chroma \in Nat /\ luma + Align(luma \div 2, 16) \in Nat
          /\ luma + chroma >= luma + Align(luma \div 2, 16)
      BY <2>1, <2>3, <2>4
    <3>2. (luma + chroma) * rows >= (luma + Align(luma \div 2, 16)) * rows /\ (luma + chroma) * rows \in Nat
      BY <3>1, <2>5, MulMono
    <3>3. (luma + chroma) * rows = rows * (luma + chroma) BY <3>1, <2>5
    <3> QED BY <3>2, <3>3
  <2>8. HoldsPlanes(s, w, h) BY <2>1, <2>6, <2>7 DEF HoldsPlanes, Layout, Cropped, rows
  <2>9. s \in Sized /\ s.ok /\ s.extra = 0 BY <2>1, <2>6, <2>7 DEF Sized, Layout, Cropped
  <2> QED BY <1>2, <2>8, <2>9
<1> QED BY <1>1, <1>2

\* The strides of uncompressed YUV hold whole groups of pixels.
LEMMA YuvStrides ==
  ASSUME NEW w \in Nat
  PROVE  /\ Up(w, 2) \in Nat /\ Align(w, 128) \in Nat
         /\ Align(w * 2, 128) \in Nat /\ Align(w * 2, 128) >= 4 * Up(w, 2) /\ Align(w * 2, 128) >= 2 * w
         /\ Align(w * 4, 128) \in Nat /\ Align(w * 4, 128) >= 8 * Up(w, 2) /\ Align(w * 4, 128) >= 4 * w
BY DEF Align, Up

\* Formats with a stride of n bytes in every row.
LEMMA RowsHold ==
  ASSUME NEW stride \in Nat, NEW n \in Nat, NEW k \in Nat, NEW h \in Nat, stride >= k * n
  PROVE  stride * h \in Nat /\ stride * h >= k * n * h
<1>1. k * n \in Nat OBVIOUS
<1>2. stride * h >= (k * n) * h /\ stride * h \in Nat BY <1>1, MulMono
<1> QED BY <1>2

\* yuv422_8bit_stride_and_size: 4 bytes for two pixels.
LEMMA Yuv422Plain ==
  ASSUME NEW w \in Nat, NEW h \in Nat
  PROVE  LET s == yuv422_8bit_stride_and_size(w, h)
         IN s \in Sized /\ s.ok /\ s.extra = 0 /\ s.size >= 4 * Up(w, 2) * h
<1>1. Align(w * 2, 128) * h \in Nat /\ Align(w * 2, 128) * h >= 4 * Up(w, 2) * h BY YuvStrides, RowsHold
<1> QED BY <1>1, YuvStrides DEF yuv422_8bit_stride_and_size, Layout, Cropped, Sized

\* yuv_y210_stride_and_size: 8 bytes for two pixels.
LEMMA Y210Plain ==
  ASSUME NEW w \in Nat, NEW h \in Nat
  PROVE  LET s == yuv_y210_stride_and_size(w, h)
         IN s \in Sized /\ s.ok /\ s.extra = 0 /\ s.size >= 8 * Up(w, 2) * h
<1>1. Align(w * 4, 128) * h \in Nat /\ Align(w * 4, 128) * h >= 8 * Up(w, 2) * h BY YuvStrides, RowsHold
<1> QED BY <1>1, YuvStrides DEF yuv_y210_stride_and_size, Layout, Cropped, Sized

\* yuv_y410_stride_and_size: 4 bytes for each pixel.
LEMMA Y410Plain ==
  ASSUME NEW w \in Nat, NEW h \in Nat
  PROVE  LET s == yuv_y410_stride_and_size(w, h)
         IN s \in Sized /\ s.ok /\ s.extra = 0 /\ s.size >= 4 * w * h
<1>1. Align(w * 4, 128) * h \in Nat /\ Align(w * 4, 128) * h >= 4 * w * h BY YuvStrides, RowsHold
<1> QED BY <1>1, YuvStrides DEF yuv_y410_stride_and_size, Layout, Cropped, Sized

\* yuv_y0l2_stride_and_size: 8 bytes for two by two pixels.
LEMMA Y0L2Plain ==
  ASSUME NEW w \in Nat, NEW h \in Nat
  PROVE  LET s == yuv_y0l2_stride_and_size(w, h)
         IN /\ s \in Sized /\ s.ok /\ s.extra = 0 /\ s.byte_stride = Align(w * 4, 128)
            /\ s.size >= 8 * Up(w, 2) * Up(h, 2)
<1> DEFINE stride == Align(w * 4, 128)
           u == Up(h, 2)
<1>1. u \in Nat /\ Align(h, 2) = 2 * u BY DEF Align, Up
<1>2. stride \in Nat /\ stride >= 8 * Up(w, 2) /\ Up(w, 2) \in Nat BY YuvStrides
<1> HIDE DEF stride, u
<1>3. (stride * Align(h, 2)) \div 2 = stride * u
  <2>1. stride * Align(h, 2) = 2 * (stride * u) /\ stride * u \in Nat BY <1>1, <1>2
  <2>2. \A p \in Nat : (2 * p) \div 2 = p OBVIOUS
  <2> QED BY <2>1, <2>2
<1>4. stride * u \in Nat /\ stride * u >= 8 * Up(w, 2) * u BY <1>1, <1>2, RowsHold
<1>5. yuv_y0l2_stride_and_size(w, h) = Layout(Align(w, 128), stride, stride * u)
  BY <1>3 DEF yuv_y0l2_stride_and_size, stride
<1> QED BY <1>2, <1>4, <1>5, YuvStrides DEF Layout, Cropped, Sized, u, stride

\* yuv_pX10_stride_and_size for P010: chroma has half the rows, the odd one included.
LEMMA P010Plain ==
  ASSUME NEW w \in Nat, NEW h \in Nat
  PROVE  LET s == yuv_pX10_stride_and_size(w, h, 2)
         IN s \in Sized /\ s.ok /\ s.extra = 0 /\ s.size >= 2 * w * h + 4 * Up(w, 2) * Up(h, 2)
<1> DEFINE stride == Align(w * 2, 128)
           u == Up(h, 2)
           H == Align(h, 2)
<1>1. u \in Nat /\ H = 2 * u /\ H >= h /\ H \in Nat /\ H \div 2 = u BY DEF Align, Up
<1>2. stride \in Nat /\ stride >= 4 * Up(w, 2) /\ stride >= 2 * w /\ Up(w, 2) \in Nat BY YuvStrides
<1> HIDE DEF stride, u, H
<1>3. stride * H \in Nat /\ stride * H >= 2 * w * h
  <2>1. stride * H \in Nat /\ stride * H >= (2 * w) * h BY <1>1, <1>2, MulMono2
  <2> QED BY <2>1
<1>4. stride * u \in Nat /\ stride * u >= 4 * Up(w, 2) * u BY <1>1, <1>2, RowsHold
<1>5. yuv_pX10_stride_and_size(w, h, 2) = Layout(Align(w, 128), stride, stride * H + stride * u)
  BY <1>1 DEF yuv_pX10_stride_and_size, stride, H
<1>6. stride * H + stride * u >= 2 * w * h + 4 * Up(w, 2) * u
  <2>1. 2 * w * h \in Nat /\ 4 * Up(w, 2) * u \in Nat BY <1>1, <1>2
  <2> QED BY <2>1, <1>3, <1>4
<1> DEFINE s == yuv_pX10_stride_and_size(w, h, 2)
<1>7. s \in Sized /\ s.ok /\ s.extra = 0 /\ s.size = stride * H + stride * u
  <2>1. stride \in Nat BY <1>1, <1>2
  <2> DEFINE total == stride * H + stride * u
  <2>2. total \in Nat BY <1>3, <1>4
  <2>3. Align(w, 128) \in Nat BY YuvStrides
  <2>4. s = Layout(Align(w, 128), stride, total) BY <1>5
  <2> HIDE DEF total, s
  <2>5. s \in Sized /\ s.ok /\ s.extra = 0 /\ s.size = total
    BY <2>1, <2>2, <2>3, <2>4 DEF Layout, Cropped, Sized
  <2> QED BY <2>5 DEF total
<1> HIDE DEF s
<1> QED BY <1>6, <1>7 DEF u, s

\* yuv_pX10_stride_and_size for P210: chroma has all the rows.
LEMMA P210Plain ==
  ASSUME NEW w \in Nat, NEW h \in Nat
  PROVE  LET s == yuv_pX10_stride_and_size(w, h, 1)
         IN s \in Sized /\ s.ok /\ s.extra = 0 /\ s.size >= 2 * w * h + 4 * Up(w, 2) * h
<1> DEFINE stride == Align(w * 2, 128)
<1>1. stride \in Nat /\ stride >= 4 * Up(w, 2) /\ stride >= 2 * w /\ Up(w, 2) \in Nat BY YuvStrides
<1> HIDE DEF stride
<1>2. stride * h \in Nat /\ stride * h >= 2 * w * h /\ stride * h >= 4 * Up(w, 2) * h BY <1>1, RowsHold
<1>3. h \div 1 = h OBVIOUS
<1>4. yuv_pX10_stride_and_size(w, h, 1) = Layout(Align(w, 128), stride, stride * h + stride * h)
  BY <1>3 DEF yuv_pX10_stride_and_size, stride
<1>5. stride * h + stride * h >= 2 * w * h + 4 * Up(w, 2) * h
  <2>1. 2 * w * h \in Nat /\ 4 * Up(w, 2) * h \in Nat BY <1>1
  <2> QED BY <2>1, <1>2
<1> DEFINE s == yuv_pX10_stride_and_size(w, h, 1)
<1>6. s \in Sized /\ s.ok /\ s.extra = 0 /\ s.size = stride * h + stride * h
  <2>1. stride \in Nat BY <1>1, <1>2
  <2> DEFINE total == stride * h + stride * h
  <2>2. total \in Nat BY <1>2
  <2>3. Align(w, 128) \in Nat BY YuvStrides
  <2>4. s = Layout(Align(w, 128), stride, total) BY <1>4
  <2> HIDE DEF total, s
  <2>5. s \in Sized /\ s.ok /\ s.extra = 0 /\ s.size = total
    BY <2>1, <2>2, <2>3, <2>4 DEF Layout, Cropped, Sized
  <2> QED BY <2>5 DEF total
<1> HIDE DEF s
<1> QED BY <1>5, <1>6 DEF s

\* Camera formats: those that can be laid out.
LEMMA Camera ==
  ASSUME NEW w \in Nat, NEW h \in Nat, NEW b \in CameraFormats
  PROVE  LET s == camera_formats_stride_and_size(w, h, b)
         IN s = Refused \/ (s \in Sized /\ s.ok /\ s.extra = 0 /\ s.size >= PlainBytes(b, w, h))
<1> DEFINE s == camera_formats_stride_and_size(w, h, b)
<1>1. CASE b = "RAW16"
  <2> DEFINE stride == Align(w, 16)
  <2>1. stride \in Nat /\ stride >= w BY AlignFacts
  <2> HIDE DEF stride
  <2>2. stride * h >= w * h /\ stride * h \in Nat BY <2>1, MulMono
  <2>3. s = Layout(stride, stride, stride * h * 2) BY <1>1 DEF camera_formats_stride_and_size, stride
  <2>4. stride * h * 2 >= 2 * w * h /\ stride * h * 2 \in Nat
    <3>1. w * h \in Nat /\ 2 * w * h = 2 * (w * h) OBVIOUS
    <3>2. stride * h * 2 = 2 * (stride * h) BY <2>1
    <3> QED BY <2>2, <3>1, <3>2
  <2>5. PlainBytes(b, w, h) = 2 * w * h BY <1>1 DEF PlainBytes
  <2> QED BY <2>1, <2>3, <2>4, <2>5 DEF Layout, Cropped, Sized
<1>2. CASE b = "RAW12" /\ w % 4 = 0
  <2> DEFINE u == w \div 2
  <2>1. u \in Nat /\ Up(w, 2) = u BY <1>2 DEF Up
  <2> HIDE DEF u
  <2>2. s = Layout(u * 3, u * 3, u * 3 * h) BY <1>2 DEF camera_formats_stride_and_size, u
  <2>3. u * 3 \in Nat /\ u * 3 * h \in Nat /\ u * 3 * h = 3 * u * h BY <2>1
  <2>4. PlainBytes(b, w, h) = 3 * u * h BY <1>2, <2>1 DEF PlainBytes
  <2> QED BY <2>2, <2>3, <2>4 DEF Layout, Cropped, Sized
<1>3. CASE b = "RAW10" /\ w % 4 = 0
  <2> DEFINE u == w \div 4
  <2>1. u \in Nat /\ Up(w, 4) = u BY <1>3 DEF Up
  <2> HIDE DEF u
  <2>2. s = Layout(u * 5, u * 5, u * 5 * h) BY <1>3 DEF camera_formats_stride_and_size, u
  <2>3. u * 5 \in Nat /\ u * 5 * h \in Nat /\ u * 5 * h = 5 * u * h BY <2>1
  <2>4. PlainBytes(b, w, h) = 5 * u * h BY <1>3, <2>1 DEF PlainBytes
  <2> QED BY <2>2, <2>3, <2>4 DEF Layout, Cropped, Sized
<1>4. CASE b = "BLOB" /\ h = 1
  <2>1. s = Layout(0, 0, w) BY <1>4 DEF camera_formats_stride_and_size
  <2>2. PlainBytes(b, w, h) = w BY <1>4 DEF PlainBytes
  <2> QED BY <2>1, <2>2 DEF Layout, Cropped, Sized
<1>5. CASE b # "RAW16" /\ ~(b = "RAW12" /\ w % 4 = 0) /\ ~(b = "RAW10" /\ w % 4 = 0) /\ ~(b = "BLOB" /\ h = 1)
  BY <1>5 DEF camera_formats_stride_and_size
<1> QED BY <1>1, <1>2, <1>3, <1>4, <1>5

\* afbc_yuv422_8bit_stride_and_size: 16 bits for every pixel in its superblocks.
LEMMA Yuv422Afbc ==
  ASSUME NEW w \in Nat, NEW h \in Nat, NEW type
  PROVE  LET s == afbc_yuv422_8bit_stride_and_size(w, h, type)
         IN \/ s = Refused
            \/ /\ s \in Sized /\ s.ok /\ s.extra = 0 /\ type # "UNCOMPRESSED"
               /\ s.size >= w * h /\ HoldsBlocks(s, w, h, type, 16)
<1> DEFINE s == afbc_yuv422_8bit_stride_and_size(w, h, type)
           W == Align(w, width_align(type))
           H == Align(h, height_align(type))
           a == W \div 16
           b == H \div 16
           hdr == header_size(W, H, type)
<1>1. CASE ~YuvAfbc(type) BY <1>1 DEF afbc_yuv422_8bit_stride_and_size
<1>2. CASE YuvAfbc(type)
  <2>1. /\ W \in Nat /\ W >= w /\ a \in Nat /\ W = 16 * a
        /\ H \in Nat /\ H >= h /\ b \in Nat /\ H = 16 * b
    BY InBlocks
  <2> HIDE DEF W, H, a, b
  <2>2. hdr \in Nat /\ hdr >= 16 * (a * b) BY <2>1, HeaderHolds
  <2> HIDE DEF hdr
  <2>3. s = Layout(W, W, W * H * 2 + hdr) BY <1>2 DEF afbc_yuv422_8bit_stride_and_size, W, H, hdr
  <2>4. W * H * 2 \in Nat /\ W * H * 2 = 32 * 16 * (a * b) BY <2>1
  <2>5. W * H * 2 + hdr >= (a * b) * (16 + 32 * 16) BY <2>1, <2>2, <2>4, BlocksFit
  <2>6. W * H * 2 + hdr >= w * h
    <3>1. W * H >= w * h /\ W * H \in Nat /\ w * h \in Nat BY <2>1, MulMono2
    <3>2. W * H * 2 >= W * H BY <3>1
    <3> QED BY <3>1, <3>2, <2>2
  <2>7. HoldsBlocks(s, w, h, type, 16) BY <2>3, <2>5 DEF HoldsBlocks, Layout, Cropped, a, b, W, H
  <2>8. s \in Sized /\ s.ok /\ s.extra = 0 /\ s.size = W * H * 2 + hdr
    BY <2>1, <2>2, <2>3, <2>4 DEF Sized, Layout, Cropped
  <2>9. type # "UNCOMPRESSED" BY <1>2 DEF YuvAfbc
  <2> HIDE DEF s
  <2> QED BY <2>6, <2>7, <2>8, <2>9 DEF s
<1> QED BY <1>1, <1>2

\* yuv422_10bit_afbc_stride_and_size: 20 bits for every pixel in its superblocks.
LEMMA Y210Afbc ==
  ASSUME NEW w \in Nat, NEW h \in Nat, NEW type
  PROVE  LET s == yuv422_10bit_afbc_stride_and_size(w, h, type)
         IN \/ s = Refused
            \/ /\ s \in Sized /\ s.ok /\ s.extra = 0
               /\ s.size >= 8 * Up(w, 2) * h /\ HoldsBlocks(s, w, h, type, 20)
<1> DEFINE s == yuv422_10bit_afbc_stride_and_size(w, h, type)
           W == Align(w, width_align(type))
           H == Align(h, height_align(type))
           a == W \div 16
           b == H \div 16
           hdr == header_size(W, H, type)
           stride == Align(W * 2, 16)
<1>1. CASE w % 4 # 0 \/ ~YuvAfbc(type) BY <1>1 DEF yuv422_10bit_afbc_stride_and_size
<1>2. CASE ~(w % 4 # 0 \/ ~YuvAfbc(type))
  <2>1. /\ W \in Nat /\ W >= w /\ a \in Nat /\ W = 16 * a
        /\ H \in Nat /\ H >= h /\ b \in Nat /\ H = 16 * b
    BY InBlocks
  <2> HIDE DEF W, H, a, b
  <2>2. hdr \in Nat /\ hdr >= 16 * (a * b) BY <2>1, HeaderHolds
  <2> HIDE DEF hdr
  <2>3. stride = 32 * a BY <2>1 DEF Align
  <2>4. s = Layout(W, stride, stride * H * 2 + hdr)
    BY <1>2 DEF yuv422_10bit_afbc_stride_and_size, W, H, hdr, stride
  <2> HIDE DEF stride
  <2>5. stride * H * 2 \in Nat /\ stride * H * 2 = 1024 * (a * b) /\ a * b \in Nat BY <2>1, <2>3
  <2>6. stride * H * 2 + hdr >= (a * b) * (16 + 32 * 20)
    <3>1. stride * H * 2 >= 32 * 20 * (a * b) BY <2>5
    <3> QED BY <2>1, <2>2, <2>5, <3>1, BlocksFit
  <2>7. stride * H * 2 + hdr >= 8 * Up(w, 2) * h
    <3>1. 2 * stride \in Nat /\ 2 * stride >= 8 * Up(w, 2) /\ 8 * Up(w, 2) \in Nat
      <4>1. w % 4 = 0 BY <1>2
      <4>2. Up(w, 2) \in Nat /\ 2 * Up(w, 2) = w BY <4>1 DEF Up
      <4> QED BY <4>2, <2>1, <2>3
    <3>2. (2 * stride) * H >= (8 * Up(w, 2)) * h /\ (8 * Up(w, 2)) * h \in Nat BY <3>1, <2>1, MulMono2
    <3>3. (2 * stride) * H = stride * H * 2 BY <2>1, <2>3
    <3> QED BY <3>2, <3>3, <2>2, <2>5
  <2>8. HoldsBlocks(s, w, h, type, 20) BY <2>4, <2>6 DEF HoldsBlocks, Layout, Cropped, a, b, W, H
  <2>9. stride \in Nat BY <2>1, <2>3
  <2>10. s \in Sized /\ s.ok /\ s.extra = 0 /\ s.size = stride * H * 2 + hdr
    BY <2>1, <2>2, <2>4, <2>5, <2>9 DEF Sized, Layout, Cropped
  <2> HIDE DEF s
  <2> QED BY <2>7, <2>8, <2>10 DEF s
<1> QED BY <1>1, <1>2

\* The one whose height is halved before it is aligned: for an even height there is room, counting
\* rows in pairs, for every superblock at 496 bytes.
LEMMA Y0L2Afbc ==
  ASSUME NEW w \in Nat, NEW h \in Nat, NEW type, NEW video
  PROVE  LET s == yuv420_10bit_afbc_stride_and_size(w, h, type, video)
             W == Align(w, width_align(type))
             half == Align((h + s.extra) \div 2, height_align(type))
         IN \/ s = Refused
            \/ /\ s \in Sized /\ s.ok /\ s.extra = extra_rows(video) /\ s.byte_stride = W
               /\ YuvAfbc(type) /\ W * half \in Nat /\ s.size >= 4 * (W * half)
               /\ s.size = 4 * (W * half) + header_size(W, h + s.extra, type)
<1> DEFINE s == yuv420_10bit_afbc_stride_and_size(w, h, type, video)
           e == extra_rows(video)
           W == Align(w, width_align(type))
           half == Align((h + e) \div 2, height_align(type))
           hdr == header_size(W, h + e, type)
           stride == Align(W * 4, 16)
<1>1. CASE w % 4 # 0 \/ ~YuvAfbc(type) BY <1>1 DEF yuv420_10bit_afbc_stride_and_size
<1>2. CASE ~(w % 4 # 0 \/ ~YuvAfbc(type))
  <2>1. e \in {0, 16} /\ h + e \in Nat BY DEF extra_rows, AFBC_PIXELS_PER_BLOCK
  <2> HIDE DEF e
  <2>2. (h + e) \div 2 \in Nat BY <2>1
  <2>3. W \in Nat /\ W \div 16 \in Nat /\ W = 16 * (W \div 16) /\ half \in Nat BY <2>2, InBlocks
  <2> HIDE DEF W, half
  <2>4. hdr \in Nat BY <2>1, <2>3, HeaderNat
  <2> HIDE DEF hdr
  <2>5. stride = 4 * W BY <2>3 DEF Align
  <2>6. s = Cropped(W, W, stride * half + hdr, e)
    BY <1>2 DEF yuv420_10bit_afbc_stride_and_size, W, half, hdr, e, stride
  <2> HIDE DEF stride
  <2>7. stride * half = 4 * (W * half) /\ W * half \in Nat BY <2>3, <2>5
  <2>8. s \in Sized /\ s.ok /\ s.extra = e /\ s.byte_stride = W /\ s.size = 4 * (W * half) + hdr
    BY <2>1, <2>3, <2>4, <2>6, <2>7 DEF Sized, Cropped
  <2> HIDE DEF s
  <2>9. s.size >= 4 * (W * half) BY <2>4, <2>7, <2>8
  <2> QED BY <1>2, <2>7, <2>8, <2>9 DEF s, W, half, e, hdr
<1> QED BY <1>1, <1>2

(***************************************************************************)
(* Superblocks, and the room for them.                                     *)
(***************************************************************************)
\* Alignments k of a kind of allocation that hold whole groups of g pixels.
Fits(g, k) ==
  \/ g = 8 /\ k = 16
  \/ g = 16 /\ k \in {16, 64}
  \/ g = 32 /\ k \in {32, 64}
  \/ g \in {64, 128, 256} /\ k = g
\* Groups of g superblocks are within the alignment to k of the kind a format makes.
LEMMA GroupsWithin ==
  ASSUME NEW x \in Nat, NEW g \in Nat, NEW k \in Nat, Fits(g, k)
  PROVE  Up(x, g) * g \in Nat /\ Up(x, g) * g <= Align(x, k)
<1>1. CASE g = 8 /\ k = 16 BY <1>1 DEF Up, Align
<1>2. CASE g = 16 /\ k = 16 BY <1>2 DEF Up, Align
<1>3. CASE g = 16 /\ k = 64 BY <1>3 DEF Up, Align
<1>4. CASE g = 32 /\ k = 32 BY <1>4 DEF Up, Align
<1>5. CASE g = 32 /\ k = 64 BY <1>5 DEF Up, Align
<1>6. CASE g = 64 /\ k = 64 BY <1>6 DEF Up, Align
<1>7. CASE g = 128 /\ k = 128 BY <1>7 DEF Up, Align
<1>8. CASE g = 256 /\ k = 256 BY <1>8 DEF Up, Align
<1> QED BY <1>1, <1>2, <1>3, <1>4, <1>5, <1>6, <1>7, <1>8 DEF Fits

\* The pixels of a group of superblocks, across and down, as AfbcBytes has them.
AcrossOf(f) == (IF "AFBC_TILED_HEADERS" \in f.mods THEN 8 ELSE 1) * (IF "AFBC_WIDEBLK" \in f.mods THEN 32 ELSE 16)
DownOf(f) == (IF "AFBC_TILED_HEADERS" \in f.mods THEN 8 ELSE 1) * (IF "AFBC_WIDEBLK" \in f.mods THEN 8 ELSE 16)

\* The kind a compressed format makes has room for the groups of its superblocks.
LEMMA KindFits ==
  ASSUME NEW f, NEW usage, NEW last, NEW type, f.mods \cap Blocks # {},
         type = type_of(f, usage, last), type # "none"
  PROVE  /\ type \in AllocTypes \ {"UNCOMPRESSED"}
         /\ AcrossOf(f) \in Nat /\ width_align(type) \in Nat /\ Fits(AcrossOf(f), width_align(type))
         /\ DownOf(f) \in Nat /\ height_align(type) \in Nat /\ Fits(DownOf(f), height_align(type))
<1> DEFINE tiled == "AFBC_TILED_HEADERS" \in f.mods
           wide == "AFBC_WIDEBLK" \in f.mods
           g == AcrossOf(f)
           k == width_align(type)
           d == DownOf(f)
           e == height_align(type)
<1>1. CASE tiled /\ wide
  <2>1. type = "AFBC_TILED_HEADERS_WIDEBLK" BY <1>1 DEF type_of
  <2>2. g = 256 /\ d = 64 BY <1>1 DEF AcrossOf, DownOf
  <2>3. k = 256 /\ e = 64 BY <2>1 DEF width_align, height_align
  <2> QED BY <2>1, <2>2, <2>3 DEF AllocTypes, Fits
<1>2. CASE tiled /\ ~wide
  <2>1. type = "AFBC_TILED_HEADERS_BASIC" BY <1>2 DEF type_of
  <2>2. g = 128 /\ d = 128 BY <1>2 DEF AcrossOf, DownOf
  <2>3. k = 128 /\ e = 128 BY <2>1 DEF width_align, height_align
  <2> QED BY <2>1, <2>2, <2>3 DEF AllocTypes, Fits
<1>3. CASE ~tiled /\ wide
  <2>1. type \in {"AFBC_PADDED", "AFBC_WIDEBLK"} BY <1>3 DEF type_of
  <2>2. g = 32 /\ d = 8 BY <1>3 DEF AcrossOf, DownOf
  <2>3. k \in {32, 64} /\ e = 16 BY <2>1 DEF width_align, height_align
  <2> QED BY <2>1, <2>2, <2>3 DEF AllocTypes, Fits
<1>4. CASE ~tiled /\ ~wide
  <2>1. type \in {"AFBC_PADDED", "AFBC"} BY <1>4 DEF type_of
  <2>2. g = 16 /\ d = 16 BY <1>4 DEF AcrossOf, DownOf
  <2>3. k \in {16, 64} /\ e = 16 BY <2>1 DEF width_align, height_align
  <2> QED BY <2>1, <2>2, <2>3 DEF AllocTypes, Fits
<1> QED BY <1>1, <1>2, <1>3, <1>4

\* Every format has a number of bits.
LEMMA BitsNat == ASSUME NEW b PROVE BitsPerPixel(b) \in Nat
BY DEF BitsPerPixel

\* The groups of an image can be counted.
LEMMA UpInt ==
  ASSUME NEW x \in Nat, NEW f
  PROVE  Up(x, AcrossOf(f)) \in Int /\ Up(x, DownOf(f)) \in Int
<1> DEFINE g == AcrossOf(f)
           d == DownOf(f)
<1>1. g \in Nat /\ g # 0 /\ d \in Nat /\ d # 0 BY DEF AcrossOf, DownOf
<1> HIDE DEF g, d
<1>2. Up(x, g) \in Int BY <1>1 DEF Up
<1>3. Up(x, d) \in Int BY <1>1 DEF Up
<1> QED BY <1>2, <1>3 DEF g, d

\* AfbcBytes in terms of AcrossOf and DownOf.
LEMMA AfbcProduct ==
  ASSUME NEW f, NEW w \in Nat, NEW h \in Nat, Up(w, AcrossOf(f)) \in Int, Up(h, DownOf(f)) \in Int
  PROVE  AfbcBytes(f, w, h) =
           (((Up(w, AcrossOf(f)) * AcrossOf(f)) * (Up(h, DownOf(f)) * DownOf(f))) \div 256)
             * (16 + 32 * BitsPerPixel(f.base))
<1> DEFINE across == AcrossOf(f)
           down == DownOf(f)
           u == Up(w, across)
           v == Up(h, down)
<1>1. across \in Nat /\ down \in Nat BY DEF AcrossOf, DownOf
<1>2. AfbcBytes(f, w, h) = ((u * across * v * down) \div 256) * (16 + 32 * BitsPerPixel(f.base))
  BY DEF AfbcBytes, AcrossOf, DownOf
<1> HIDE DEF across, down
<1>3. u * across * v * down = (u * across) * (v * down) BY <1>1 DEF across, down
<1> QED BY <1>2, <1>3 DEF across, down

\* The superblocks of an image are at most the blocks it is aligned to.
LEMMA SuperblocksFit ==
  ASSUME NEW f, NEW usage, NEW last, NEW type, f.mods \cap Blocks # {},
         type = type_of(f, usage, last), type # "none", NEW w \in Nat, NEW h \in Nat
  PROVE  /\ AfbcBytes(f, w, h) \in Nat
         /\ AfbcBytes(f, w, h) <=
              ((Align(w, width_align(type)) \div 16) * (Align(h, height_align(type)) \div 16))
                * (16 + 32 * BitsPerPixel(f.base))
<1> DEFINE A == Up(w, AcrossOf(f)) * AcrossOf(f)
           D == Up(h, DownOf(f)) * DownOf(f)
           W == Align(w, width_align(type))
           H == Align(h, height_align(type))
           a == W \div 16
           b == H \div 16
           bytes == 16 + 32 * BitsPerPixel(f.base)
<1>1. A \in Nat /\ A <= W /\ D \in Nat /\ D <= H
  <2>1. /\ AcrossOf(f) \in Nat /\ width_align(type) \in Nat /\ Fits(AcrossOf(f), width_align(type))
        /\ DownOf(f) \in Nat /\ height_align(type) \in Nat /\ Fits(DownOf(f), height_align(type))
    BY KindFits
  <2> QED BY <2>1, GroupsWithin
<1>2. W \in Nat /\ a \in Nat /\ W = 16 * a /\ H \in Nat /\ b \in Nat /\ H = 16 * b BY InBlocks
<1>3. bytes \in Nat BY BitsNat
<1>4. AfbcBytes(f, w, h) = ((A * D) \div 256) * bytes BY UpInt, AfbcProduct
<1> HIDE DEF W, H, a, b, bytes, A, D
<1>5. A * D <= W * H /\ A * D \in Nat BY <1>1, <1>2, MulMono2
<1>6. W * H = 256 * (a * b) /\ a * b \in Nat BY <1>2
<1>7. (A * D) \div 256 \in Nat /\ (A * D) \div 256 <= a * b
  <2>1. \A p, q \in Nat : p <= 256 * q => p \div 256 \in Nat /\ p \div 256 <= q OBVIOUS
  <2> QED BY <1>5, <1>6, <2>1
<1>8. ((A * D) \div 256) * bytes <= (a * b) * bytes /\ ((A * D) \div 256) * bytes \in Nat
  BY <1>3, <1>6, <1>7, MulMono
<1> QED BY <1>4, <1>8 DEF W, H, a, b, bytes

\* Three planes hold an image of 12 bits per pixel.
LEMMA PlanesBytes ==
  ASSUME NEW s \in Sized, NEW w \in Nat, NEW h \in Nat, HoldsPlanes(s, w, h)
  PROVE  s.size >= w * h + 2 * Up(w, 2) * Up(h, 2)
<1> DEFINE bs == s.byte_stride
           half == bs \div 2
           c == Align(half, 16)
           u == Up(w, 2)
           v == Up(h, 2)
<1>1. bs \in Nat /\ s.size \in Nat BY DEF Sized
<1>2. bs >= w /\ bs = 16 * (bs \div 16) /\ bs \div 16 \in Nat /\ s.size >= (bs + c) * Align(h, 2)
  BY DEF HoldsPlanes
<1> HIDE DEF bs
<1>3. half \in Nat /\ bs = 2 * half BY <1>1, <1>2
<1>4. u \in Nat /\ u <= half BY <1>1, <1>2, <1>3 DEF Up
<1>5. v \in Nat /\ Align(h, 2) = 2 * v /\ 2 * v >= h BY DEF Up, Align
<1>6. c \in Nat /\ c >= half BY <1>3, AlignFacts
<1> HIDE DEF half, c, u, v
<1>7. (bs + c) * (2 * v) >= (bs + half) * (2 * v) /\ (bs + c) * (2 * v) \in Nat
  <2>1. bs + c \in Nat /\ bs + half \in Nat /\ bs + c >= bs + half /\ 2 * v \in Nat BY <1>1, <1>3, <1>5, <1>6
  <2> QED BY <2>1, MulMono
<1>8. bs * (2 * v) >= w * h /\ bs * (2 * v) \in Nat /\ w * h \in Nat BY <1>1, <1>2, <1>5, MulMono2
<1>9. half * (2 * v) >= u * (2 * v) /\ half * (2 * v) \in Nat /\ u * (2 * v) \in Nat
  BY <1>3, <1>4, <1>5, MulMono
<1>10. (bs + half) * (2 * v) = bs * (2 * v) + half * (2 * v) BY <1>1, <1>3, <1>5
<1>11. u * (2 * v) = 2 * u * v BY <1>4, <1>5
<1>12. s.size >= w * h + 2 * u * v BY <1>1, <1>2, <1>5, <1>7, <1>8, <1>9, <1>10, <1>11
<1> QED BY <1>12 DEF u, v

(***************************************************************************)
(* The switch over the base format.                                        *)
(***************************************************************************)
\* The formats of yv12_stride_and_size.
ThreePlanes == {"YCrCb_420_SP", "YV12", "NV12", "NV21"}
\* What stride_and_size promises where it does not refuse.
Fitting(s, b, w, h, type) ==
  /\ s \in Sized
  /\ b # "Y0L2" \/ type = "UNCOMPRESSED" => s.size >= PlainBytes(b, w, h)
  /\ b # "Y0L2" /\ type # "UNCOMPRESSED" => HoldsBlocks(s, w, h + s.extra, type, BitsPerPixel(b))
  /\ b \in ThreePlanes => HoldsPlanes(s, w, h)
  /\ type = "UNCOMPRESSED" => s.extra = 0

\* The RGB cases of the switch.
LEMMA RgbSize ==
  ASSUME NEW w \in Nat, NEW h \in Nat, NEW type, NEW usage, NEW video,
         NEW b \in {"RGBA_1010102", "RGBA_8888", "RGBX_8888", "BGRA_8888", "RGB_888", "RGB_565"}
  PROVE  Fitting(stride_and_size(b, w, h, usage, type, video), b, w, h, type)
<1> DEFINE ps == IF b = "RGB_888" THEN 3 ELSE IF b = "RGB_565" THEN 2 ELSE 4
           s == rgb_stride_and_size(w, h, ps, type)
<1>1. stride_and_size(b, w, h, usage, type, video) = s
  <2>1. CASE b = "RGB_888"
    <3>1. ps = 3 BY <2>1
    <3> QED BY <2>1, <3>1 DEF stride_and_size, CameraFormats
  <2>2. CASE b = "RGB_565"
    <3>1. ps = 2 BY <2>2
    <3> QED BY <2>2, <3>1 DEF stride_and_size, CameraFormats
  <2>3. CASE b \in {"RGBA_1010102", "RGBA_8888", "RGBX_8888", "BGRA_8888"}
    <3>1. ps = 4 BY <2>3
    <3> QED BY <2>3, <3>1 DEF stride_and_size, CameraFormats
  <2> QED BY <2>1, <2>2, <2>3
<1>2. BitsPerPixel(b) = 8 * ps /\ PlainBytes(b, w, h) = ps * w * h BY DEF BitsPerPixel, PlainBytes
<1>3. b # "Y0L2" /\ b \notin ThreePlanes BY DEF ThreePlanes
<1>4. ps \in {2, 3, 4} OBVIOUS
<1> HIDE DEF ps
<1>5. /\ s \in Sized /\ s.extra = 0 /\ s.size >= ps * w * h
      /\ type # "UNCOMPRESSED" => HoldsBlocks(s, w, h, type, 8 * ps)
  BY <1>4, RgbHolds
<1> HIDE DEF s
<1>6. h + s.extra = h BY <1>5
<1> QED BY <1>1, <1>2, <1>3, <1>5, <1>6 DEF Fitting

\* The three-plane cases of the switch.
LEMMA PlanesSize ==
  ASSUME NEW w \in Nat, NEW h \in Nat, NEW type, NEW usage, NEW video, NEW b \in ThreePlanes
  PROVE  LET s == stride_and_size(b, w, h, usage, type, video)
         IN s = Refused \/ Fitting(s, b, w, h, type)
<1> DEFINE sa == IF IsSoftware(usage) THEN 16 ELSE 128
           s == yv12_stride_and_size(w, h, type, sa, video)
<1>1. stride_and_size(b, w, h, usage, type, video) = s
  <2>1. CASE b = "YCrCb_420_SP" BY <2>1 DEF stride_and_size, CameraFormats
  <2>2. CASE b = "YV12" BY <2>2 DEF stride_and_size, CameraFormats
  <2>3. CASE b = "NV12" BY <2>3 DEF stride_and_size, CameraFormats
  <2>4. CASE b = "NV21" BY <2>4 DEF stride_and_size, CameraFormats
  <2> HIDE DEF s
  <2> QED BY <2>1, <2>2, <2>3, <2>4 DEF ThreePlanes
<1>2. BitsPerPixel(b) = 12 /\ PlainBytes(b, w, h) = w * h + 2 * Up(w, 2) * Up(h, 2)
  BY DEF BitsPerPixel, PlainBytes, ThreePlanes
<1>3. b # "Y0L2" BY DEF ThreePlanes
<1>4. sa \in {16, 128} OBVIOUS
<1> HIDE DEF sa
<1>5. \/ s = Refused
      \/ /\ s \in Sized /\ HoldsPlanes(s, w, h)
         /\ type = "UNCOMPRESSED" => s.extra = 0
         /\ type # "UNCOMPRESSED" => HoldsBlocks(s, w, h + s.extra, type, 12)
  BY <1>4, Yv12
<1> HIDE DEF s
<1>6. s \in Sized /\ HoldsPlanes(s, w, h) => s.size >= w * h + 2 * Up(w, 2) * Up(h, 2) BY PlanesBytes
<1> QED BY <1>1, <1>2, <1>3, <1>5, <1>6 DEF Fitting

\* The camera cases of the switch: what is compressed is refused.
LEMMA CameraSize ==
  ASSUME NEW w \in Nat, NEW h \in Nat, NEW type, NEW usage, NEW video, NEW b \in CameraFormats
  PROVE  LET s == stride_and_size(b, w, h, usage, type, video)
         IN s = Refused \/ Fitting(s, b, w, h, type)
<1>1. b # "Y0L2" /\ b \notin ThreePlanes BY DEF CameraFormats, ThreePlanes
<1>2. CASE type = "UNCOMPRESSED"
  <2> DEFINE s == camera_formats_stride_and_size(w, h, b)
  <2>1. stride_and_size(b, w, h, usage, type, video) = s
    <3>1. b \in {"RAW16", "RAW12", "RAW10", "BLOB"} BY DEF CameraFormats
    <3>2. CASE b = "RAW16" BY <1>2, <3>2 DEF stride_and_size, CameraFormats
    <3>3. CASE b = "RAW12" BY <1>2, <3>3 DEF stride_and_size, CameraFormats
    <3>4. CASE b = "RAW10" BY <1>2, <3>4 DEF stride_and_size, CameraFormats
    <3>5. CASE b = "BLOB" BY <1>2, <3>5 DEF stride_and_size, CameraFormats
    <3> QED BY <3>1, <3>2, <3>3, <3>4, <3>5
  <2>2. s = Refused \/ (s \in Sized /\ s.extra = 0 /\ s.size >= PlainBytes(b, w, h)) BY Camera
  <2> HIDE DEF s
  <2> QED BY <1>1, <1>2, <2>1, <2>2 DEF Fitting
<1>3. CASE type # "UNCOMPRESSED"
  BY <1>3 DEF stride_and_size, CameraFormats
<1> QED BY <1>2, <1>3

\* The other YUV cases of the switch.
LEMMA YuvSize ==
  ASSUME NEW w \in Nat, NEW h \in Nat, NEW type, NEW usage, NEW video,
         NEW b \in {"YCbCr_422_I", "P010", "P210", "Y210", "Y410", "YUV422_8BIT"}
  PROVE  LET s == stride_and_size(b, w, h, usage, type, video)
         IN s = Refused \/ Fitting(s, b, w, h, type)
<1> DEFINE s == stride_and_size(b, w, h, usage, type, video)
<1>1. b # "Y0L2" /\ b \notin ThreePlanes BY DEF ThreePlanes
<1>2. CASE b = "YUV422_8BIT"
  <2>1. s = afbc_yuv422_8bit_stride_and_size(w, h, type) BY <1>2 DEF stride_and_size, CameraFormats
  <2>2. BitsPerPixel(b) = 16 /\ PlainBytes(b, w, h) = w * h BY <1>2 DEF BitsPerPixel, PlainBytes
  <2>3. \/ s = Refused
        \/ /\ s \in Sized /\ s.extra = 0 /\ type # "UNCOMPRESSED"
           /\ s.size >= w * h /\ HoldsBlocks(s, w, h, type, 16)
    BY <2>1, Yuv422Afbc
  <2> HIDE DEF s
  <2>4. s.extra = 0 => h + s.extra = h OBVIOUS
  <2> QED BY <1>1, <2>2, <2>3, <2>4 DEF Fitting, s
<1>3. CASE b = "Y210" /\ type # "UNCOMPRESSED"
  <2>1. s = yuv422_10bit_afbc_stride_and_size(w, h, type) BY <1>3 DEF stride_and_size, CameraFormats
  <2>2. BitsPerPixel(b) = 20 /\ PlainBytes(b, w, h) = 8 * Up(w, 2) * h BY <1>3 DEF BitsPerPixel, PlainBytes
  <2>3. \/ s = Refused
        \/ s \in Sized /\ s.extra = 0 /\ s.size >= 8 * Up(w, 2) * h /\ HoldsBlocks(s, w, h, type, 20)
    BY <2>1, Y210Afbc
  <2> HIDE DEF s
  <2>4. s.extra = 0 => h + s.extra = h OBVIOUS
  <2> QED BY <1>1, <1>3, <2>2, <2>3, <2>4 DEF Fitting, s
<1>4. CASE b \in {"YCbCr_422_I", "P010", "P210", "Y410"} /\ type # "UNCOMPRESSED"
  BY <1>4 DEF stride_and_size, CameraFormats
<1>5. CASE b # "YUV422_8BIT" /\ type = "UNCOMPRESSED"
  <2>1. s \in Sized /\ s.extra = 0 /\ s.size >= PlainBytes(b, w, h)
    <3>1. CASE b = "YCbCr_422_I"
      BY <1>5, <3>1, Yuv422Plain DEF stride_and_size, CameraFormats, PlainBytes
    <3>2. CASE b = "P010"
      BY <1>5, <3>2, P010Plain DEF stride_and_size, CameraFormats, PlainBytes
    <3>3. CASE b = "P210"
      BY <1>5, <3>3, P210Plain DEF stride_and_size, CameraFormats, PlainBytes
    <3>4. CASE b = "Y210"
      BY <1>5, <3>4, Y210Plain DEF stride_and_size, CameraFormats, PlainBytes
    <3>5. CASE b = "Y410"
      BY <1>5, <3>5, Y410Plain DEF stride_and_size, CameraFormats, PlainBytes
    <3> QED BY <1>5, <3>1, <3>2, <3>3, <3>4, <3>5
  <2> HIDE DEF s
  <2> QED BY <1>1, <1>5, <2>1 DEF Fitting, s
<1> QED BY <1>2, <1>3, <1>4, <1>5

\* The Y0L2 case of the switch; its compressed size is dealt with below.
LEMMA Y0L2Size ==
  ASSUME NEW w \in Nat, NEW h \in Nat, NEW type, NEW usage, NEW video
  PROVE  LET s == stride_and_size("Y0L2", w, h, usage, type, video)
         IN s = Refused \/ Fitting(s, "Y0L2", w, h, type)
<1> DEFINE s == stride_and_size("Y0L2", w, h, usage, type, video)
<1>1. "Y0L2" \notin ThreePlanes BY DEF ThreePlanes
<1>2. CASE type = "UNCOMPRESSED"
  <2>1. s = yuv_y0l2_stride_and_size(w, h) BY <1>2 DEF stride_and_size, CameraFormats
  <2>2. s \in Sized /\ s.extra = 0 /\ s.size >= 8 * Up(w, 2) * Up(h, 2) BY <2>1, Y0L2Plain
  <2>3. PlainBytes("Y0L2", w, h) = 8 * Up(w, 2) * Up(h, 2) BY DEF PlainBytes
  <2> HIDE DEF s
  <2> QED BY <1>1, <1>2, <2>2, <2>3 DEF Fitting, s
<1>3. CASE type # "UNCOMPRESSED"
  <2>1. s = yuv420_10bit_afbc_stride_and_size(w, h, type, video)
    BY <1>3 DEF stride_and_size, CameraFormats
  <2>2. s = Refused \/ s \in Sized BY <2>1, Y0L2Afbc
  <2> HIDE DEF s
  <2> QED BY <1>1, <1>3, <2>2 DEF Fitting, s
<1> QED BY <1>2, <1>3

\* The whole switch: it refuses, or there is room for an image.
LEMMA StrideAndSize ==
  ASSUME NEW b, NEW w \in Nat, NEW h \in Nat, NEW type, NEW usage, NEW video
  PROVE  LET s == stride_and_size(b, w, h, usage, type, video)
         IN s = Refused \/ Fitting(s, b, w, h, type)
<1>1. CASE b \in {"RGBA_1010102", "RGBA_8888", "RGBX_8888", "BGRA_8888", "RGB_888", "RGB_565"}
  BY <1>1, RgbSize
<1>2. CASE b \in ThreePlanes BY <1>2, PlanesSize
<1>3. CASE b \in CameraFormats BY <1>3, CameraSize
<1>4. CASE b \in {"YCbCr_422_I", "P010", "P210", "Y210", "Y410", "YUV422_8BIT"} BY <1>4, YuvSize
<1>5. CASE b = "Y0L2" BY <1>5, Y0L2Size
<1>6. CASE /\ b \notin {"RGBA_1010102", "RGBA_8888", "RGBX_8888", "BGRA_8888", "RGB_888", "RGB_565"}
           /\ b \notin ThreePlanes /\ b \notin CameraFormats
           /\ b \notin {"YCbCr_422_I", "P010", "P210", "Y210", "Y410", "YUV422_8BIT", "Y0L2"}
  BY <1>6 DEF stride_and_size, ThreePlanes
<1> QED BY <1>1, <1>2, <1>3, <1>4, <1>5, <1>6

\* Twice the alignment of half an even number of rows covers the groups of all rows.
LEMMA HalvesWithin ==
  ASSUME NEW x \in Nat, x % 2 = 0, NEW g \in Nat, NEW k \in Nat, Fits(g, k)
  PROVE  Up(x, g) * g \in Nat /\ Up(x, g) * g <= 2 * Align(x \div 2, k)
<1>1. CASE g = 8 /\ k = 16 BY <1>1 DEF Up, Align
<1>2. CASE g = 16 /\ k = 16 BY <1>2 DEF Up, Align
<1>3. CASE g = 16 /\ k = 64 BY <1>3 DEF Up, Align
<1>4. CASE g = 32 /\ k = 32 BY <1>4 DEF Up, Align
<1>5. CASE g = 32 /\ k = 64 BY <1>5 DEF Up, Align
<1>6. CASE g = 64 /\ k = 64 BY <1>6 DEF Up, Align
<1>7. CASE g = 128 /\ k = 128 BY <1>7 DEF Up, Align
<1>8. CASE g = 256 /\ k = 256 BY <1>8 DEF Up, Align
<1> QED BY <1>1, <1>2, <1>3, <1>4, <1>5, <1>6, <1>7, <1>8 DEF Fits

\* Compressed Y0L2 with an even number of rows: 496 bytes for each of at most a 256th of the
\* pixels against 4 bytes for every two of them.
LEMMA Y0L2Superblocks ==
  ASSUME NEW f, NEW usage, NEW last, NEW type, f.mods \cap Blocks # {}, f.base = "Y0L2",
         type = type_of(f, usage, last), type # "none", NEW w \in Nat, NEW h \in Nat, h % 2 = 0
  PROVE  /\ AfbcBytes(f, w, h) \in Nat
         /\ AfbcBytes(f, w, h) <= 4 * (Align(w, width_align(type)) * Align(h \div 2, height_align(type)))
<1> DEFINE A == Up(w, AcrossOf(f)) * AcrossOf(f)
           D == Up(h, DownOf(f)) * DownOf(f)
           W == Align(w, width_align(type))
           half == Align(h \div 2, height_align(type))
           n == (A * D) \div 256
<1>1. /\ AcrossOf(f) \in Nat /\ width_align(type) \in Nat /\ Fits(AcrossOf(f), width_align(type))
      /\ DownOf(f) \in Nat /\ height_align(type) \in Nat /\ Fits(DownOf(f), height_align(type))
  BY KindFits
<1>2. A \in Nat /\ A <= W BY <1>1, GroupsWithin
<1>3. D \in Nat /\ D <= 2 * half BY <1>1, HalvesWithin
<1>4. h \div 2 \in Nat OBVIOUS
<1>5. W \in Nat /\ half \in Nat BY <1>4, InBlocks
<1>6. AfbcBytes(f, w, h) = n * 496
  <2>1. BitsPerPixel(f.base) = 15 BY DEF BitsPerPixel
  <2> QED BY <2>1, UpInt, AfbcProduct
<1> HIDE DEF A, D, W, half
<1>7. A * D <= W * (2 * half) /\ A * D \in Nat BY <1>2, <1>3, <1>5, MulMono2
<1>8. W * (2 * half) = 2 * (W * half) /\ W * half \in Nat BY <1>5
<1>9. n \in Nat /\ n * 496 <= 4 * (W * half)
  <2>1. \A p, q \in Nat : p <= 2 * q => p \div 256 \in Nat /\ (p \div 256) * 496 <= 4 * q OBVIOUS
  <2> QED BY <1>7, <1>8, <2>1
<1> QED BY <1>6, <1>9 DEF W, half

\* Y0L2 laid out as compressed holds the uncompressed image too, if the rows are even ...
LEMMA Y0L2Even ==
  ASSUME NEW w \in Nat, NEW h \in Nat, NEW e \in {0, 16}, NEW type, (h + e) % 2 = 0
  PROVE  4 * (Align(w, width_align(type)) * Align((h + e) \div 2, height_align(type)))
           >= PlainBytes("Y0L2", w, h)
<1> DEFINE W == Align(w, width_align(type))
           half == Align((h + e) \div 2, height_align(type))
           u == Up(w, 2)
           v == Up(h, 2)
<1>1. (h + e) \div 2 \in Nat /\ v \in Nat /\ (h + e) \div 2 >= v BY DEF Up
<1>2. W \in Nat /\ W >= w /\ W = 16 * (W \div 16) /\ half \in Nat /\ half >= (h + e) \div 2
  BY <1>1, InBlocks
<1>3. half \in Nat /\ half >= v BY <1>1, <1>2
<1>4. u \in Nat /\ W >= 2 * u
  <2> HIDE DEF W
  <2> QED BY <1>2 DEF Up
<1>5. PlainBytes("Y0L2", w, h) = 8 * u * v BY DEF PlainBytes
<1> HIDE DEF W, half, u, v
<1>6. W * half >= (2 * u) * v /\ W * half \in Nat /\ (2 * u) * v \in Nat BY <1>1, <1>2, <1>3, <1>4, MulMono2
<1>7. 8 * u * v = 4 * ((2 * u) * v) BY <1>1, <1>4
<1>8. 4 * (W * half) >= 4 * ((2 * u) * v) BY <1>6
<1> QED BY <1>5, <1>7, <1>8 DEF W, half

\* ... and where its stride happens to be that of the uncompressed layout, which takes a narrow image
\* and tiled headers.
LEMMA Y0L2Narrow ==
  ASSUME NEW w \in Nat, NEW h \in Nat, NEW e \in {0, 16}, NEW type, YuvAfbc(type), type \in AllocTypes,
         (h + e) % 2 = 1, Align(w, width_align(type)) = Align(w * 4, 128),
         NEW size \in Nat, size # 0,
         size = 4 * (Align(w, width_align(type)) * Align((h + e) \div 2, height_align(type)))
                  + header_size(Align(w, width_align(type)), h + e, type)
  PROVE  size >= PlainBytes("Y0L2", w, h)
<1> DEFINE W == Align(w, width_align(type))
           half == Align((h + e) \div 2, height_align(type))
           u == Up(w, 2)
           v == Up(h, 2)
           hdr == header_size(W, h + e, type)
<1>1. size \in Nat OBVIOUS
<1>2. PlainBytes("Y0L2", w, h) = 8 * u * v BY DEF PlainBytes
<1>3. u \in Nat /\ W \in Nat /\ W >= 8 * u /\ W >= 4 * w BY YuvStrides
<1>4. v \in Nat /\ (h + e) \div 2 \in Nat /\ v <= (h + e) \div 2 + 1 BY DEF Up
<1>5. half \in Nat /\ half >= (h + e) \div 2 BY <1>4, InBlocks
<1>6. hdr \in Nat BY <1>3, HeaderNat
<1>7. 8 * u * v \in Nat BY <1>3, <1>4
<1>8. PlainBytes("Y0L2", w, h) \in Nat BY <1>2, <1>7
<1>9. CASE ~Tiled(type)
  <2>1. width_align(type) \in {16, 32} BY <1>9 DEF Tiled, YuvAfbc, AllocTypes, width_align
  <2>2. w = 0
    <3>1. CASE width_align(type) = 16 BY <3>1 DEF Align
    <3>2. CASE width_align(type) = 32 BY <3>2 DEF Align
    <3> QED BY <2>1, <3>1, <3>2
  <2>3. u = 0 BY <2>2 DEF Up
  <2>4. 8 * u * v = 0 BY <2>3, <1>4
  <2>5. PlainBytes("Y0L2", w, h) = 0 BY <1>2, <2>4
  <2> QED BY ONLY <2>5, <1>1
<1>10. CASE Tiled(type)
  <2>1. width_align(type) \in {128, 256} /\ height_align(type) \in {64, 128}
    BY <1>10 DEF Tiled, width_align, height_align
  <2>2. W <= 512
    <3>1. CASE width_align(type) = 128 BY <3>1 DEF Align
    <3>2. CASE width_align(type) = 256 BY <3>2 DEF Align
    <3> QED BY <2>1, <3>1, <3>2
  <2>3. CASE half = 0
    <3>1. v <= 1 BY <2>3, <1>4, <1>5
    <3>2. 8 * u * v <= 512
      <4>1. v = 0 \/ v = 1 BY <3>1, <1>4
      <4>2. CASE v = 0 BY <4>2, <1>3
      <4>3. CASE v = 1 BY <4>3, <1>3, <2>2
      <4> QED BY <4>1, <4>2, <4>3
    <3>3. size = hdr
      <4>1. W * half = 0 BY <2>3, <1>3
      <4> QED BY <4>1, <1>6
    <3>4. hdr >= 4096
      <4> DEFINE m == (((W \div 16) * (h + e)) \div 16) * 16
      <4>1. hdr = Align(m, 4096) BY <1>10 DEF header_size, AFBC_PIXELS_PER_BLOCK
      <4>2. m \in Nat
        <5>1. W \div 16 \in Nat BY <1>3
        <5>2. (W \div 16) * (h + e) \in Nat BY <5>1
        <5> QED BY <5>2
      <4> HIDE DEF m
      <4>3. Align(m, 4096) = 0 \/ Align(m, 4096) >= 4096 BY <4>2 DEF Align
      <4> QED BY <4>1, <4>3, <3>3
    <3>5. PlainBytes("Y0L2", w, h) <= 512 BY <1>2, <3>2
    <3> QED BY ONLY <1>8, <1>6, <3>3, <3>4, <3>5
  <2>4. CASE half # 0
    <3>1. half >= 64
      <4>1. \A y \in Nat : Align(y, 64) = 0 \/ Align(y, 64) >= 64 BY DEF Align
      <4>2. \A y \in Nat : Align(y, 128) = 0 \/ Align(y, 128) >= 64 BY DEF Align
      <4> QED BY <2>1, <2>4, <1>4, <4>1, <4>2
    <3>2. 2 * half >= v /\ 2 * half \in Nat BY <3>1, <1>4, <1>5
    <3> HIDE DEF W, half, u, v, hdr
    <3>3. W * (2 * half) >= (8 * u) * v /\ W * (2 * half) \in Nat BY <3>2, <1>3, <1>4, MulMono2
    <3>4. W * (2 * half) = 2 * (W * half) /\ W * half \in Nat /\ (8 * u) * v = 8 * u * v
      BY <1>3, <1>4, <1>5
    <3>5. size = 4 * (W * half) + hdr BY DEF W, half, hdr
    <3>6. size >= 8 * u * v BY ONLY <1>6, <1>7, <3>3, <3>4, <3>5
    <3> QED BY ONLY <1>2, <3>6
  <2> QED BY <2>3, <2>4
<1> QED BY <1>9, <1>10

\* Room for n layers is n times the room for one at least; of nothing there is no layer.
LEMMA LayersHold ==
  ASSUME NEW f, NEW n \in Nat, n # 0, NEW size \in Nat
  PROVE  /\ with_layers(size, f, n) \in Nat /\ with_layers(size, f, n) >= n * size
         /\ with_layers(size, f, n) # 0 => size # 0
<1> DEFINE k == IF "AFBC_TILED_HEADERS" \in f.mods THEN 4096 ELSE 128
           one == IF f.mods \cap Blocks = {} THEN size ELSE Align(size, k)
<1>1. one \in Nat /\ one >= size
  <2>1. Align(size, 4096) \in Nat /\ Align(size, 4096) >= size BY AlignFacts
  <2>2. Align(size, 128) \in Nat /\ Align(size, 128) >= size BY AlignFacts
  <2> QED BY <2>1, <2>2
<1>2. size = 0 => one = 0
  <2>1. Align(0, 4096) = 0 /\ Align(0, 128) = 0 BY DEF Align
  <2> QED BY <2>1
<1>3. with_layers(size, f, n) = IF n <= 1 THEN size ELSE n * one BY DEF with_layers
<1> HIDE DEF one
<1>4. CASE n <= 1
  <2>1. n = 1 BY <1>4
  <2>2. with_layers(size, f, n) = size BY <1>3, <1>4
  <2> QED BY <2>1, <2>2
<1>5. CASE ~(n <= 1)
  <2>1. with_layers(size, f, n) = n * one BY <1>3, <1>5
  <2>2. n * one >= n * size /\ n * one \in Nat BY <1>1, MulMono
  <2>3. size = 0 => n * one = 0 BY <1>2
  <2> QED BY <2>1, <2>2, <2>3
<1> QED BY <1>4, <1>5

(***************************************************************************)
(* A handle that was measured.                                             *)
(***************************************************************************)
\* The outputs of hnd are those of a descriptor whose size was computed, last being the kind of
\* allocation before.
Measured(bld, hnd, last) ==
  LET f == hnd.out.internal_format
      type == type_of(f, hnd.req.usage, last)
      s == stride_and_size(f.base, hnd.req.width, hnd.req.height, hnd.req.usage, type, bld.video)
  IN /\ f # Unsupported /\ type # "none" /\ s.ok
     /\ hnd.out = [size |-> with_layers(s.size, f, hnd.req.layer_count), byte_stride |-> s.byte_stride,
                   pixel_stride |-> s.pixel_stride, internalHeight |-> hnd.req.height + s.extra,
                   internal_format |-> f]

\* The bytes of one layer, as HoldsImage has them.
ImageBytes(hnd) ==
  LET f == hnd.out.internal_format
  IN IF f.mods \cap Blocks = {} THEN PlainBytes(f.base, hnd.req.width, hnd.req.height)
     ELSE AfbcBytes(f, hnd.req.width, hnd.out.internalHeight)

\* The bytes of an uncompressed image are a number.
LEMMA PlainNat ==
  ASSUME NEW b, NEW w \in Nat, NEW h \in Nat
  PROVE  PlainBytes(b, w, h) \in Nat
<1>1. Up(w, 2) \in Nat /\ Up(h, 2) \in Nat /\ Up(w, 4) \in Nat BY DEF Up
<1>2. w * h \in Nat /\ 4 * w * h \in Nat /\ 3 * w * h \in Nat /\ 2 * w * h \in Nat OBVIOUS
<1>3. /\ Up(w, 2) * Up(h, 2) \in Nat /\ 2 * Up(w, 2) * Up(h, 2) \in Nat /\ 4 * Up(w, 2) * Up(h, 2) \in Nat
      /\ 8 * Up(w, 2) * Up(h, 2) \in Nat
  BY <1>1
<1>4. 3 * Up(w, 2) * h \in Nat /\ 4 * Up(w, 2) * h \in Nat /\ 8 * Up(w, 2) * h \in Nat /\ 5 * Up(w, 4) * h \in Nat
  BY <1>1
<1>5. w * h + 2 * Up(w, 2) * Up(h, 2) \in Nat /\ 2 * w * h + 4 * Up(w, 2) * Up(h, 2) \in Nat
      /\ 2 * w * h + 4 * Up(w, 2) * h \in Nat
  BY <1>2, <1>3, <1>4
<1> QED BY <1>2, <1>3, <1>4, <1>5 DEF PlainBytes

\* A measured handle is as large as its layers and has what the switch promises.
LEMMA MeasuredSize ==
  ASSUME NEW hnd \in Descriptor, NEW last \in AllocTypes, Measured(build, hnd, last),
         hnd.req.layer_count # 0, hnd.out.size # 0
  PROVE  LET f == hnd.out.internal_format
             type == type_of(f, hnd.req.usage, last)
             s == stride_and_size(f.base, hnd.req.width, hnd.req.height, hnd.req.usage, type, build.video)
         IN /\ hnd.req.width \in Nat /\ hnd.req.height \in Nat /\ hnd.req.layer_count \in Nat
            /\ type \in AllocTypes
            /\ Fitting(s, f.base, hnd.req.width, hnd.req.height, type)
            /\ s.size # 0 /\ hnd.out.size \in Nat /\ hnd.out.size >= hnd.req.layer_count * s.size
            /\ hnd.out.byte_stride = s.byte_stride /\ hnd.out.internalHeight = hnd.req.height + s.extra
<1> DEFINE f == hnd.out.internal_format
           type == type_of(f, hnd.req.usage, last)
           s == stride_and_size(f.base, hnd.req.width, hnd.req.height, hnd.req.usage, type, build.video)
<1>1. /\ hnd.req.width \in Nat /\ hnd.req.height \in Nat /\ hnd.req.layer_count \in Nat
  BY DEF Descriptor, Request
<1>2. s.ok /\ type # "none" /\ hnd.out.size = with_layers(s.size, f, hnd.req.layer_count)
      /\ hnd.out.byte_stride = s.byte_stride /\ hnd.out.internalHeight = hnd.req.height + s.extra
  BY DEF Measured
<1>3. type \in AllocTypes
  <2>1. CASE f.mods \cap Blocks = {} BY <2>1 DEF type_of
  <2>2. CASE f.mods \cap Blocks # {} BY <2>2, <1>2, KindFits
  <2> QED BY <2>1, <2>2
<1> HIDE DEF f, type
<1>4. s = Refused \/ Fitting(s, f.base, hnd.req.width, hnd.req.height, type) BY <1>1, StrideAndSize
<1> HIDE DEF s
<1>5. Fitting(s, f.base, hnd.req.width, hnd.req.height, type) BY <1>2, <1>4 DEF Refused
<1>6. s.size \in Nat BY <1>5 DEF Fitting, Sized
<1>7. hnd.out.size \in Nat /\ hnd.out.size >= hnd.req.layer_count * s.size /\ s.size # 0
  BY <1>1, <1>2, <1>6, LayersHold
<1> QED BY <1>1, <1>2, <1>3, <1>5, <1>7 DEF s, type, f

\* A measured handle has room for its layers, except for odd rows of Y0L2.
LEMMA ImageHeld ==
  ASSUME NEW hnd \in Descriptor, NEW last \in AllocTypes, Measured(build, hnd, last), build \in Build,
         hnd.req.layer_count # 0, hnd.out.size # 0, ~OddRows(hnd)
  PROVE  hnd.out.size >= hnd.req.layer_count * ImageBytes(hnd)
<1> DEFINE f == hnd.out.internal_format
           w == hnd.req.width
           h == hnd.req.height
           type == type_of(f, hnd.req.usage, last)
           s == stride_and_size(f.base, w, h, hnd.req.usage, type, build.video)
           compressed == f.mods \cap Blocks # {}
<1>1. /\ w \in Nat /\ h \in Nat /\ hnd.req.layer_count \in Nat /\ type \in AllocTypes
      /\ Fitting(s, f.base, w, h, type) /\ s.size # 0
      /\ hnd.out.size \in Nat /\ hnd.out.size >= hnd.req.layer_count * s.size
      /\ hnd.out.byte_stride = s.byte_stride /\ hnd.out.internalHeight = h + s.extra
  BY MeasuredSize
<1>2. type # "none" BY DEF Measured
<1>3. s \in Sized BY <1>1 DEF Fitting
<1>4. s.size \in Nat /\ s.extra \in Nat /\ h + s.extra \in Nat BY <1>1, <1>3 DEF Sized
<1>5. ImageBytes(hnd) \in Nat /\ s.size >= ImageBytes(hnd)
  <2>1. CASE compressed /\ f.base # "Y0L2"
    <3>1. ImageBytes(hnd) = AfbcBytes(f, w, h + s.extra) BY <2>1, <1>1 DEF ImageBytes
    <3>2. type \in AllocTypes \ {"UNCOMPRESSED"} BY <2>1, <1>2, KindFits
    <3>3. HoldsBlocks(s, w, h + s.extra, type, BitsPerPixel(f.base)) BY <2>1, <3>2, <1>1 DEF Fitting
    <3> DEFINE room == ((Align(w, width_align(type)) \div 16) * (Align(h + s.extra, height_align(type)) \div 16))
                         * (16 + 32 * BitsPerPixel(f.base))
    <3>4. AfbcBytes(f, w, h + s.extra) \in Nat /\ AfbcBytes(f, w, h + s.extra) <= room
      BY <2>1, <1>1, <1>2, <1>4, SuperblocksFit
    <3>5. s.size >= room BY <3>3 DEF HoldsBlocks
    <3>6. room \in Nat
      <4>1. /\ Align(w, width_align(type)) \div 16 \in Nat
            /\ Align(h + s.extra, height_align(type)) \div 16 \in Nat
        <5> DEFINE he == h + s.extra
        <5>1. w \in Nat /\ he \in Nat BY <1>1, <1>4
        <5> HIDE DEF w, he
        <5>2. /\ Align(w, width_align(type)) \div 16 \in Nat
              /\ Align(he, height_align(type)) \div 16 \in Nat
          BY <5>1, InBlocks
        <5> QED BY <5>2 DEF he
      <4>2. BitsPerPixel(f.base) \in Nat BY BitsNat
      <4> HIDE DEF s, type, f, w, h
      <4> QED BY <4>1, <4>2
    <3> HIDE DEF room, s, f, w, h
    <3> QED BY <3>1, <3>4, <3>5, <3>6, <1>4
  <2>2. CASE ~compressed /\ (f.base # "Y0L2" \/ type = "UNCOMPRESSED")
    <3>1. ImageBytes(hnd) = PlainBytes(f.base, w, h) BY <2>2 DEF ImageBytes
    <3>2. s.size >= PlainBytes(f.base, w, h) BY <2>2, <1>1 DEF Fitting
    <3> QED BY <3>1, <3>2, <1>1, PlainNat
  <2>3. CASE f.base = "Y0L2" /\ (compressed \/ type # "UNCOMPRESSED")
    <3> DEFINE W == Align(w, width_align(type))
               half == Align((h + s.extra) \div 2, height_align(type))
    <3>1. type # "UNCOMPRESSED"
      <4>1. compressed => type \in AllocTypes \ {"UNCOMPRESSED"} BY <1>2, KindFits
      <4> QED BY <2>3, <4>1
    <3>2. s = yuv420_10bit_afbc_stride_and_size(w, h, type, build.video)
      BY <2>3, <3>1 DEF stride_and_size, CameraFormats
    <3>3. s # Refused BY <1>3 DEF Sized, Refused
    <3>4. /\ s.extra = extra_rows(build.video) /\ s.byte_stride = W /\ YuvAfbc(type)
          /\ W * half \in Nat /\ s.size >= 4 * (W * half)
          /\ s.size = 4 * (W * half) + header_size(W, h + s.extra, type)
      BY <1>1, <3>2, <3>3, Y0L2Afbc
    <3>5. s.extra \in {0, 16} BY <3>4 DEF extra_rows, AFBC_PIXELS_PER_BLOCK
    <3>6. CASE (h + s.extra) % 2 = 0
      <4>1. CASE compressed
        <5>1. ImageBytes(hnd) = AfbcBytes(f, w, h + s.extra) BY <4>1, <1>1 DEF ImageBytes
        <5>2. AfbcBytes(f, w, h + s.extra) \in Nat /\ AfbcBytes(f, w, h + s.extra) <= 4 * (W * half)
          BY <4>1, <2>3, <3>6, <1>1, <1>2, <1>4, Y0L2Superblocks
        <5> HIDE DEF s, f, w, h, W, half
        <5> QED BY <5>1, <5>2, <3>4, <1>4
      <4>2. CASE ~compressed
        <5>1. ImageBytes(hnd) = PlainBytes("Y0L2", w, h) BY <4>2, <2>3 DEF ImageBytes
        <5>2. 4 * (W * half) >= PlainBytes("Y0L2", w, h) BY <3>5, <3>6, <1>1, Y0L2Even
        <5>3. PlainBytes("Y0L2", w, h) \in Nat BY <1>1, PlainNat
        <5> HIDE DEF s, f, w, h, W, half
        <5> QED BY <5>1, <5>2, <5>3, <3>4, <1>4
      <4> QED BY <4>1, <4>2
    <3>7. CASE (h + s.extra) % 2 # 0
      <4>1. (h + s.extra) % 2 = 1 BY <3>7, <1>4
      <4>2. ~compressed /\ s.byte_stride = yuv_y0l2_stride_and_size(w, h).byte_stride
        BY <4>1, <2>3, <1>1 DEF OddRows
      <4>3. W = Align(w * 4, 128)
        <5>1. w \in Nat /\ h \in Nat BY <1>1
        <5> HIDE DEF s, w, h, W
        <5>2. yuv_y0l2_stride_and_size(w, h).byte_stride = Align(w * 4, 128) BY <5>1, Y0L2Plain
        <5> QED BY <5>2, <4>2, <3>4
      <4>4. s.size >= PlainBytes("Y0L2", w, h) BY <4>1, <4>3, <3>4, <3>5, <1>1, <1>4, Y0L2Narrow
      <4>5. ImageBytes(hnd) = PlainBytes("Y0L2", w, h) BY <4>2, <2>3 DEF ImageBytes
      <4> QED BY <4>4, <4>5, <1>1, PlainNat
    <3> QED BY <3>6, <3>7
  <2> QED BY <2>1, <2>2, <2>3
<1> HIDE DEF s
<1>6. hnd.req.layer_count * s.size >= hnd.req.layer_count * ImageBytes(hnd)
      /\ hnd.req.layer_count * s.size \in Nat
  BY <1>1, <1>4, <1>5, MulMono
<1> QED BY <1>1, <1>5, <1>6

(***************************************************************************)
(* The planes of a handle.  u columns and v rows of chroma, strides bs and *)
(* c: what the locks compute in terms of bs * v, c * v and bs * h.         *)
(***************************************************************************)
\* What the planes need to know of the products.
Products(bs, c, v, h, size) ==
  /\ bs * v \in Nat /\ c * v \in Nat /\ h * bs \in Nat
  /\ bs * (2 * v) = 2 * (bs * v) /\ size >= 2 * (bs * v) + 2 * (c * v)
  /\ h * bs <= 2 * (bs * v) /\ bs * v <= 2 * (c * v)
  /\ (h - 1) * bs = h * bs - bs /\ (v - 1) * bs = bs * v - bs /\ (v - 1) * c = c * v - c

\* It follows from a size of v rows of luma and chroma, twice.
LEMMA PlaneProducts ==
  ASSUME NEW bs \in Nat, NEW c \in Nat, NEW v \in Nat, NEW h \in Nat, NEW size \in Nat,
         2 * v >= h, 2 * c >= bs, size >= (bs + c) * (2 * v)
  PROVE  Products(bs, c, v, h, size)
<1>1. bs * v \in Nat /\ c * v \in Nat /\ h * bs \in Nat OBVIOUS
<1>2. bs * (2 * v) = 2 * (bs * v) /\ (bs + c) * (2 * v) = 2 * (bs * v) + 2 * (c * v) OBVIOUS
<1>3. (h - 1) * bs = h * bs - bs /\ (v - 1) * bs = bs * v - bs /\ (v - 1) * c = c * v - c OBVIOUS
<1>4. (2 * v) * bs >= h * bs BY MulMono
<1>5. (2 * v) * bs = 2 * (bs * v) OBVIOUS
<1>6. (2 * c) * v >= bs * v BY MulMono
<1>7. (2 * c) * v = 2 * (c * v) OBVIOUS
<1> QED BY <1>1, <1>2, <1>3, <1>4, <1>5, <1>6, <1>7 DEF Products

\* Half of a stride of whole blocks holds half of the columns, rounded up.
LEMMA HalfOfBlocks ==
  ASSUME NEW w \in Nat, NEW b \in Nat, b >= w, b \div 16 \in Nat, b = 16 * (b \div 16)
  PROVE  /\ Up(w, 2) \in Nat /\ 2 * Up(w, 2) <= b
         /\ Align(b \div 2, 16) \in Nat /\ 2 * Align(b \div 2, 16) >= b /\ Up(w, 2) <= Align(b \div 2, 16)
<1>1. b \div 2 \in Nat /\ 2 * (b \div 2) = b OBVIOUS
<1>2. Up(w, 2) \in Nat /\ Up(w, 2) <= b \div 2 BY <1>1 DEF Up
<1>3. Align(b \div 2, 16) \in Nat /\ Align(b \div 2, 16) >= b \div 2 BY <1>1, AlignFacts
<1> QED BY <1>1, <1>2, <1>3

\* The planes of a measured handle are inside it and apart from each other.
LEMMA PlanesHeld ==
  ASSUME NEW hnd \in Descriptor, NEW last \in AllocTypes, Measured(build, hnd, last),
         hnd.req.layer_count # 0, hnd.out.size # 0, lock_flex_async(hnd) # <<>>
  PROVE  PlanesAreDisjoint(hnd, lock_flex_async(hnd))
<1> DEFINE f == hnd.out.internal_format
           w == hnd.req.width
           h == hnd.req.height
           s == stride_and_size(f.base, w, h, hnd.req.usage, type_of(f, hnd.req.usage, last), build.video)
           bs == hnd.out.byte_stride
           size == hnd.out.size
           u == Up(w, 2)
           v == Up(h, 2)
           c == Align(bs \div 2, 16)
           cs == chroma_stride(hnd)
           p == lock_flex_async(hnd)
           L == luma_size(hnd)
           step == IF f.base = "YV12" THEN 1 ELSE 2
<1>1. Lockable(f) BY DEF lock_flex_async
<1>2. f.mods = {} /\ f.base \in {"NV12", "NV21", "YV12"} BY <1>1 DEF Lockable
<1>3. /\ w \in Nat /\ h \in Nat /\ hnd.req.layer_count \in Nat /\ size \in Nat
      /\ s \in Sized /\ HoldsPlanes(s, w, h)
      /\ size >= hnd.req.layer_count * s.size /\ bs = s.byte_stride
  <2>1. f.base \in ThreePlanes BY <1>2 DEF ThreePlanes
  <2> QED BY <2>1, MeasuredSize DEF Fitting
<1>4. s.size \in Nat /\ bs \in Nat BY <1>3 DEF Sized
<1>5. bs >= w /\ bs = 16 * (bs \div 16) /\ bs \div 16 \in Nat /\ s.size >= (bs + c) * Align(h, 2)
  BY <1>3 DEF HoldsPlanes
<1>6. size >= s.size
  <2> DEFINE n == hnd.req.layer_count
             z == s.size
  <2>1. n \in Nat /\ n >= 1 /\ z \in Nat BY <1>3, <1>4
  <2>2. size \in Nat /\ size >= n * z BY <1>3
  <2> HIDE DEF n, z, size
  <2>3. n * z >= 1 * z BY <2>1, MulMono
  <2>4. n * z \in Nat /\ 1 * z = z BY <2>1
  <2>5. size >= z BY ONLY <2>1, <2>2, <2>3, <2>4
  <2> QED BY <2>5 DEF z
<1>7. v \in Nat /\ Align(h, 2) = 2 * v /\ 2 * v >= h /\ Align(h, 2) \div 2 = v BY <1>3 DEF Up, Align
<1>8. u \in Nat /\ 2 * u <= bs /\ c \in Nat /\ 2 * c >= bs /\ u <= c
  <2> HIDE DEF bs, w
  <2> QED BY <1>3, <1>4, <1>5, HalfOfBlocks
<1>9. (bs + c) * (2 * v) \in Nat
  <2> HIDE DEF bs, c, v
  <2>1. bs + c \in Nat /\ 2 * v \in Nat BY ONLY <1>4, <1>7, <1>8
  <2> QED BY ONLY <2>1, MulNat
<1>10. size >= (bs + c) * (2 * v)
  <2> HIDE DEF s, bs, c, v, size
  <2> QED BY <1>3, <1>4, <1>5, <1>6, <1>7, <1>9
<1>11. Products(bs, c, v, h, size)
  <2> HIDE DEF bs, c, v, size, h
  <2> QED BY <1>3, <1>4, <1>7, <1>8, <1>10, PlaneProducts
<1>12. L = 2 * (bs * v)
  <2>1. L = bs * (2 * v) BY <1>7 DEF luma_size
  <2> HIDE DEF bs, v, L
  <2> QED BY <2>1, <1>11 DEF Products
<1>13. cs = (IF f.base = "YV12" THEN c ELSE bs) BY DEF chroma_stride
<1>14. second(hnd) = (IF f.base = "YV12" THEN c * v ELSE 1) BY <1>7, <1>13 DEF second
<1>15. /\ p[1].top_left = 0 /\ p[1].h_increment = 1 /\ p[1].v_increment = bs /\ p[1].subsampling = 1
       /\ p[2].top_left = L /\ p[2].h_increment = step /\ p[2].v_increment = cs /\ p[2].subsampling = 2
       /\ p[3].top_left = L + second(hnd) /\ p[3].h_increment = step /\ p[3].v_increment = cs
       /\ p[3].subsampling = 2
  BY <1>1 DEF lock_flex_async, plane
<1>16. Up(w, 1) = w /\ Up(h, 1) = h BY <1>3 DEF Up
<1> HIDE DEF f, w, h, s, bs, size, u, v, c, cs, p, L, step
<1>17. RowBytes(hnd, p[1]) = w /\ LastByte(hnd, p[1]) = h * bs - bs + w - 1
  <2>1. RowBytes(hnd, p[1]) = w BY <1>3, <1>15, <1>16 DEF RowBytes, Columns, w
  <2>2. LastByte(hnd, p[1]) = 0 + (h - 1) * bs + RowBytes(hnd, p[1]) - 1
    BY <1>15, <1>16 DEF LastByte, Rows, h
  <2> QED BY <2>1, <2>2, <1>3, <1>4, <1>11 DEF Products
<1>18. /\ RowBytes(hnd, p[2]) = (u - 1) * step + 1 /\ RowBytes(hnd, p[3]) = (u - 1) * step + 1
  BY <1>15 DEF RowBytes, Columns, u, w
<1>19. /\ LastByte(hnd, p[2]) = L + (v - 1) * cs + RowBytes(hnd, p[2]) - 1
       /\ LastByte(hnd, p[3]) = L + second(hnd) + (v - 1) * cs + RowBytes(hnd, p[3]) - 1
  BY <1>15 DEF LastByte, Rows, v, h
<1> DEFINE P == bs * v
           Q == c * v
           R == h * bs
<1>20. /\ P \in Nat /\ Q \in Nat /\ R \in Nat /\ L = 2 * P
       /\ size >= 2 * P + 2 * Q /\ R <= 2 * P /\ P <= 2 * Q
  BY <1>11, <1>12 DEF Products
<1>21. (v - 1) * bs = P - bs /\ (v - 1) * c = Q - c BY <1>11 DEF Products
<1>22. LastByte(hnd, p[1]) = R - bs + w - 1 BY <1>17
<1>23. /\ w \in Nat /\ bs \in Nat /\ bs >= w /\ size \in Nat
       /\ u \in Nat /\ 2 * u <= bs /\ c \in Nat /\ u <= c
  BY <1>3, <1>4, <1>5, <1>8
<1>24. second(hnd) = IF f.base = "YV12" THEN Q ELSE 1 BY <1>14
<1> HIDE DEF P, Q, R
<1>25. /\ LastByte(hnd, p[1]) < L /\ LastByte(hnd, p[1]) < size /\ L \in Nat
  BY ONLY <1>20, <1>22, <1>23
<1>26. CASE f.base = "YV12"
  <2>1. step = 1 /\ cs = c /\ second(hnd) = Q BY <1>26, <1>13, <1>24 DEF step
  <2>2. (u - 1) * step + 1 = u BY <2>1, <1>23
  <2>3. RowBytes(hnd, p[2]) = u /\ RowBytes(hnd, p[3]) = u BY <1>18, <2>2
  <2>4. LastByte(hnd, p[2]) = L + (Q - c) + u - 1 /\ LastByte(hnd, p[3]) = L + Q + (Q - c) + u - 1
    BY <2>1, <2>3, <1>19, <1>21
  <2>5. /\ LastByte(hnd, p[2]) < L + Q /\ LastByte(hnd, p[2]) < size /\ LastByte(hnd, p[3]) < size
    BY ONLY <2>4, <1>20, <1>23, <1>25
  <2>6. /\ RowBytes(hnd, p[1]) <= p[1].v_increment /\ RowBytes(hnd, p[2]) <= p[2].v_increment
        /\ RowBytes(hnd, p[3]) <= p[3].v_increment
    BY <2>1, <2>3, <1>15, <1>17, <1>23
  <2>7. LastByte(hnd, p[1]) < p[2].top_left /\ LastByte(hnd, p[2]) < p[3].top_left
    BY <2>1, <2>5, <1>15, <1>25
  <2> QED BY <2>5, <2>6, <2>7, <1>25 DEF PlanesAreDisjoint, p, size
<1>27. CASE f.base # "YV12"
  <2>1. step = 2 /\ cs = bs /\ second(hnd) = 1 BY <1>27, <1>13, <1>24 DEF step
  <2>2. (u - 1) * step + 1 = 2 * u - 1 BY <2>1, <1>23
  <2>3. RowBytes(hnd, p[2]) = 2 * u - 1 /\ RowBytes(hnd, p[3]) = 2 * u - 1 BY <1>18, <2>2
  <2>4. LastByte(hnd, p[2]) = L + (P - bs) + (2 * u - 1) - 1
        /\ LastByte(hnd, p[3]) = L + 1 + (P - bs) + (2 * u - 1) - 1
    BY <2>1, <2>3, <1>19, <1>21
  <2>5. LastByte(hnd, p[2]) < size /\ LastByte(hnd, p[3]) < size
    BY ONLY <2>4, <1>20, <1>23, <1>25
  <2>6. /\ RowBytes(hnd, p[1]) <= p[1].v_increment /\ RowBytes(hnd, p[2]) <= p[2].v_increment
        /\ RowBytes(hnd, p[3]) < p[3].v_increment /\ RowBytes(hnd, p[3]) <= p[3].v_increment
    BY <2>1, <2>3, <1>15, <1>17, <1>23
  <2>7. /\ LastByte(hnd, p[1]) < p[2].top_left /\ p[3].top_left = p[2].top_left + 1
        /\ p[2].h_increment = 2 /\ p[3].h_increment = 2 /\ p[2].v_increment = p[3].v_increment
    BY <2>1, <1>15, <1>25
  <2> QED BY <2>5, <2>6, <2>7, <1>25 DEF PlanesAreDisjoint, p, size
<1> QED BY <1>26, <1>27

\* Both locks describe the same planes, as many as get_num_flex_planes says.
LEMMA PlanesAgree ==
  ASSUME NEW hnd \in Descriptor, lock_flex_async(hnd) # <<>>
  PROVE  /\ Len(lock_flex_async(hnd)) = get_num_flex_planes(hnd)
         /\ SamePlanes(lock_ycbcr(hnd), lock_flex_async(hnd))
<1> DEFINE b == hnd.out.internal_format.base
           p == lock_flex_async(hnd)
           y == lock_ycbcr(hnd)
<1>1. Lockable(hnd.out.internal_format) BY DEF lock_flex_async
<1>2. b \in {"NV12", "NV21", "YV12"} BY <1>1 DEF Lockable
<1>3. Len(p) = 3 BY <1>1 DEF lock_flex_async
<1>4. get_num_flex_planes(hnd) = 3 BY <1>2 DEF get_num_flex_planes
<1>5. /\ y.y = 0 /\ y.ystride = hnd.out.byte_stride /\ y.cstride = chroma_stride(hnd)
      /\ y.cb = (IF b = "NV12" THEN luma_size(hnd) ELSE luma_size(hnd) + second(hnd))
      /\ y.cr = (IF b = "NV12" THEN luma_size(hnd) + second(hnd) ELSE luma_size(hnd))
      /\ y.chroma_step = (IF b = "YV12" THEN 1 ELSE 2)
  BY <1>1 DEF lock_ycbcr
<1>6. /\ p[1] = plane("Y", 0, 1, hnd.out.byte_stride, 1)
      /\ p[2] = plane(IF b = "NV12" THEN "Cb" ELSE "Cr", luma_size(hnd), IF b = "YV12" THEN 1 ELSE 2, chroma_stride(hnd), 2)
      /\ p[3] = plane(IF b = "NV12" THEN "Cr" ELSE "Cb", luma_size(hnd) + second(hnd), IF b = "YV12" THEN 1 ELSE 2,
                      chroma_stride(hnd), 2)
  BY <1>1 DEF lock_flex_async
<1> HIDE DEF b, p, y
<1>7. SamePlanes(y, p)
  <2> SUFFICES ASSUME NEW i \in {1, 2, 3}
               PROVE  /\ p[i].top_left = (CASE p[i].component = "Y" -> y.y [] p[i].component = "Cb" -> y.cb [] OTHER -> y.cr)
                      /\ p[i].v_increment = (IF p[i].component = "Y" THEN y.ystride ELSE y.cstride)
                      /\ p[i].h_increment = (IF p[i].component = "Y" THEN 1 ELSE y.chroma_step)
    <3>1. 1 .. 3 = {1, 2, 3} OBVIOUS
    <3> QED BY <3>1 DEF SamePlanes
  <2>1. CASE i = 1 BY <2>1, <1>5, <1>6 DEF plane
  <2>2. CASE i = 2 BY <2>2, <1>5, <1>6 DEF plane
  <2>3. CASE i = 3 BY <2>3, <1>5, <1>6 DEF plane
  <2> QED BY <2>1, <2>2, <2>3
<1> QED BY <1>3, <1>4, <1>7 DEF p, y

(***************************************************************************)
(* The format that is chosen.                                              *)
(***************************************************************************)
\* Unsupported is a format.
LEMMA UnsupportedTyped == Unsupported \in Formats
BY DEF Unsupported, Formats, Bases

\* A format that is decoded is one of the known ones or unsupported.
LEMMA DecodedTyped ==
  ASSUME NEW r \in Formats, NEW type
  PROVE  decode_internal_format(r, type) \in Formats
<1> DEFINE g == IF type = "USAGE" THEN Unwrap(r) ELSE r
           b == map_flex_formats(g.base)
<1>1. g.mods \in SUBSET Modifiers BY DEF Unwrap, Formats
<1>2. CASE \/ Cardinality(g.mods \cap Blocks) > 1
           \/ b \notin RgbFormats \cup CameraFormats \cup InternalYuv \cup Wide
  <2>1. decode_internal_format(r, type) = Unsupported BY <1>2 DEF decode_internal_format
  <2> QED BY <2>1, UnsupportedTyped
<1>3. CASE ~(\/ Cardinality(g.mods \cap Blocks) > 1
             \/ b \notin RgbFormats \cup CameraFormats \cup InternalYuv \cup Wide)
  <2>1. decode_internal_format(r, type) = [base |-> b, mods |-> g.mods] BY <1>3 DEF decode_internal_format
  <2>2. b \in Bases BY <1>3 DEF Bases
  <2> QED BY <2>1, <2>2, <1>1 DEF Formats
<1> QED BY <1>2, <1>3

\* What a flexible format is mapped to has a name.
LEMMA MappedTyped ==
  ASSUME NEW r \in Formats
  PROVE  map_flex_formats(PlainBase(r)) \in Bases
BY DEF Formats, Bases, PlainBase, map_flex_formats, InternalYuv, HalOnly

\* What determine_best_format may choose: a block that the producer's mask and the capabilities of
\* both sides have, and tiled headers only with the basic block.
LEMMA BestFormat ==
  ASSUME NEW cps \in [dpu : SUBSET Caps, gpu : SUBSET Caps, vpu : SUBSET Caps],
         NEW b, NEW prod, NEW cons, NEW pm, NEW cm,
         \A c \in {cps.gpu, cps.vpu} : "AFBC_TILED_HEADERS" \in c => "AFBC_BASIC" \in c,
         "AFBC_TILED_HEADERS" \in pm => "AFBC_BASIC" \in pm,
         "AFBC_TILED_HEADERS" \in cm => "AFBC_BASIC" \in cm,
         "AFBC_TILED_HEADERS" \in cps.dpu => "AFBC_BASIC" \in cps.dpu
  PROVE  LET best == determine_best_format(cps, b, prod, cons, pm, cm)
         IN /\ best.base = b /\ best = [base |-> best.base, mods |-> best.mods]
            /\ best.mods \subseteq Modifiers \cap pm \cap cm
            /\ best.mods # {} => best.mods \cap Blocks # {}
            /\ best.mods \subseteq cps.gpu \/ best.mods \subseteq cps.vpu
            /\ cons = "GPU_OR_DISPLAY" => best.mods \subseteq cps.dpu
            /\ cons = "VIDEO_ENCODER" => best.mods \subseteq cps.vpu
<1> DEFINE best == determine_best_format(cps, b, prod, cons, pm, cm)
           both == Both(Modifiers, cps.gpu \cap pm \cap cm, cps.dpu \cap cm)
           bt == {"AFBC_BASIC", "AFBC_TILED_HEADERS"}
           dec == Both(bt, cps.vpu \cap pm, cps.gpu \cap cps.dpu \cap cm)
           excl == Both(bt, cps.gpu \cap pm, cm)
           video == Both(bt, cps.gpu \cap pm, cps.vpu \cap cm)
           decx == Both(bt, cps.vpu \cap pm, cps.gpu \cap cm)
<1>1. best.base = b /\ best = [base |-> best.base, mods |-> best.mods] BY DEF determine_best_format
<1>2. \/ best.mods = {}
      \/ cons = "GPU_OR_DISPLAY" /\ (\/ best.mods = {"AFBC_SPLITBLK"} /\ "AFBC_SPLITBLK" \in both
                                     \/ best.mods = Both(bt, both, both) /\ "AFBC_BASIC" \in both
                                     \/ best.mods = dec)
      \/ cons = "GPU_EXCL" /\ (best.mods = excl \/ best.mods = decx)
      \/ cons # "GPU_OR_DISPLAY" /\ cons # "GPU_EXCL" /\ best.mods = video
  <2> USE DEF determine_best_format
  <2>1. CASE prod = "GPU" /\ "OPTIONS_PRESENT" \in cps.gpu
    <3>1. CASE cons = "GPU_OR_DISPLAY" BY <2>1, <3>1
    <3>2. CASE cons = "GPU_EXCL" BY <2>1, <3>2
    <3>3. CASE cons # "GPU_OR_DISPLAY" /\ cons # "GPU_EXCL" BY <2>1, <3>3
    <3> QED BY <3>1, <3>2, <3>3
  <2>2. CASE prod = "VIDEO_DECODER" /\ "OPTIONS_PRESENT" \in cps.vpu
    <3>1. CASE cons = "GPU_OR_DISPLAY" BY <2>2, <3>1
    <3>2. CASE cons = "GPU_EXCL" BY <2>2, <3>2
    <3>3. CASE cons # "GPU_OR_DISPLAY" /\ cons # "GPU_EXCL" BY <2>2, <3>3
    <3> QED BY <3>1, <3>2, <3>3
  <2>3. CASE ~(prod = "GPU" /\ "OPTIONS_PRESENT" \in cps.gpu)
             /\ ~(prod = "VIDEO_DECODER" /\ "OPTIONS_PRESENT" \in cps.vpu)
    BY <2>3
  <2> QED BY <2>1, <2>2, <2>3
<1> HIDE DEF best
<1> USE DEF Both, Modifiers, Blocks
<1>3. CASE best.mods = {} BY <1>1, <1>3 DEF best
<1>4. CASE cons = "GPU_OR_DISPLAY" /\ best.mods = {"AFBC_SPLITBLK"} /\ "AFBC_SPLITBLK" \in both
  BY <1>1, <1>4 DEF best
<1>5. CASE cons = "GPU_OR_DISPLAY" /\ best.mods = Both(bt, both, both) /\ "AFBC_BASIC" \in both
  BY <1>1, <1>5 DEF best
<1>6. CASE cons = "GPU_OR_DISPLAY" /\ best.mods = dec
  BY <1>1, <1>6 DEF best
<1>7. CASE cons = "GPU_EXCL" /\ best.mods = excl
  BY <1>1, <1>7 DEF best
<1>8. CASE cons = "GPU_EXCL" /\ best.mods = decx
  BY <1>1, <1>8 DEF best
<1>9. CASE cons # "GPU_OR_DISPLAY" /\ cons # "GPU_EXCL" /\ best.mods = video
  BY <1>1, <1>9 DEF best
<1> QED BY <1>2, <1>3, <1>4, <1>5, <1>6, <1>7, <1>8, <1>9

(***************************************************************************)
(* What the blocks can do: whoever has tiled headers has the basic block.  *)
(***************************************************************************)
\* Nobody in a build whose buffers leave the SoC has a capability of AFBC.
CapsOK(bld, cps) ==
  /\ cps \in [dpu : SUBSET Caps, gpu : SUBSET Caps, vpu : SUBSET Caps]
  /\ \A c \in {cps.dpu, cps.gpu, cps.vpu} :
       /\ WellFormed(c)
       /\ bld.no_external_afbc => c \cap AfbcCaps = {}

\* A set of capabilities is not None.
LEMMA WellFormedCaps ==
  ASSUME NEW c \in SUBSET Caps
  PROVE  WellFormed(c) <=> (c \cap AfbcCaps # {} => {"OPTIONS_PRESENT", "AFBC_BASIC"} \subseteq c)
<1>1. "not published" \notin Caps BY DEF Caps, AfbcCaps, Modifiers, Blocks
<1>2. c # None BY <1>1 DEF None
<1> QED BY <1>2 DEF WellFormed

\* Taking every capability of AFBC away, or none, leaves capabilities well formed.
LEMMA Masked ==
  ASSUME NEW c \in SUBSET Caps, NEW out \in BOOLEAN,
         c \cap AfbcCaps # {} => {"OPTIONS_PRESENT", "AFBC_BASIC"} \subseteq c
  PROVE  LET m == c \cap (IF out THEN Caps \ AfbcCaps ELSE Caps)
         IN m \in SUBSET Caps /\ WellFormed(m) /\ (out => m \cap AfbcCaps = {})
<1> DEFINE m == c \cap (IF out THEN Caps \ AfbcCaps ELSE Caps)
<1>1. m \in SUBSET Caps OBVIOUS
<1>2. out => m \cap AfbcCaps = {} OBVIOUS
<1>3. ~out => m = c OBVIOUS
<1> HIDE DEF m
<1>4. m \cap AfbcCaps # {} => {"OPTIONS_PRESENT", "AFBC_BASIC"} \subseteq m BY <1>2, <1>3
<1> QED BY <1>1, <1>2, <1>4, WellFormedCaps DEF m

\* determine_format_capabilities makes capabilities that are well formed of what is published.
LEMMA DeterminedCaps ==
  ASSUME NEW bld \in Build, NEW hwc \in (SUBSET Caps) \cup {None}, NEW gles \in (SUBSET Caps) \cup {None},
         WellFormed(hwc), WellFormed(gles)
  PROVE  CapsOK(bld, determine_format_capabilities(bld, hwc, gles))
<1> DEFINE WF(c) == c \in SUBSET Caps /\ (c \cap AfbcCaps # {} => {"OPTIONS_PRESENT", "AFBC_BASIC"} \subseteq c)
           cps == determine_format_capabilities(bld, hwc, gles)
           mask == IF bld.no_external_afbc THEN Caps \ AfbcCaps ELSE Caps
<1>1. hwc # None => WF(hwc) BY WellFormedCaps
<1>2. gles # None => WF(gles) BY WellFormedCaps
<1> USE DEF Caps, AfbcCaps, Modifiers, Blocks
<1>3. WF(dpu_caps(bld, hwc))
  <2>1. CASE hwc # None BY <2>1, <1>1 DEF dpu_caps
  <2>2. CASE hwc = None
    <3>1. bld.display \in Nat BY DEF Build
    <3>2. bld.display >= 550 => bld.display >= 500 BY <3>1
    <3> QED BY <2>2, <3>2 DEF dpu_caps
  <2> QED BY <2>1, <2>2
<1>4. WF(gpu_caps(bld, gles))
  <2>1. CASE gles # None /\ "OPTIONS_PRESENT" \in gles BY <2>1, <1>2 DEF gpu_caps
  <2>2. CASE gles # None /\ "OPTIONS_PRESENT" \notin gles BY <2>2, <1>2 DEF gpu_caps
  <2>3. CASE gles = None BY <2>3 DEF gpu_caps
  <2> QED BY <2>1, <2>2, <2>3
<1>5. WF(vpu_caps(bld)) BY DEF vpu_caps
<1>6. bld.no_external_afbc \in BOOLEAN BY DEF Build
<1>7. cps = [dpu |-> dpu_caps(bld, hwc) \cap mask, gpu |-> gpu_caps(bld, gles) \cap mask,
             vpu |-> vpu_caps(bld) \cap mask]
  BY DEF determine_format_capabilities
<1>8. \A c : WF(c) => /\ c \cap mask \in SUBSET Caps /\ WellFormed(c \cap mask)
                      /\ bld.no_external_afbc => (c \cap mask) \cap AfbcCaps = {}
  BY <1>6, Masked
<1> HIDE DEF mask, WF, Caps, AfbcCaps
<1> QED BY <1>3, <1>4, <1>5, <1>7, <1>8 DEF CapsOK

(***************************************************************************)
(* Who reads and writes a format that gralloc chose.                       *)
(***************************************************************************)
\* A format with modifiers that gralloc chose, unless it has no base, suits all who use the buffer.
LEMMA Selected ==
  ASSUME NEW bld \in Build, NEW cps, CapsOK(bld, cps), NEW r \in Formats, NEW ftype, NEW usage,
         NEW size
  PROVE  LET f == mali_gralloc_select_format(bld, cps, r, ftype, usage, size)
             yuv == is_android_yuv_format(r.base)
         IN /\ f \in Formats
            /\ IsAutomatic(ftype, usage) /\ f.mods # {} /\ f.base # "none" =>
                 /\ f.base \notin CameraFormats
                 /\ ~bld.no_external_afbc /\ ~IsSoftware(usage)
                 /\ f.mods \cap Blocks # {}
                 /\ "HW_FB" \in usage => f.mods \subseteq cps.dpu
                 /\ "HW_VIDEO_ENCODER" \in usage /\ "HW_FB" \notin usage =>
                      f.mods \subseteq cps.vpu /\ (yuv => "YUV_NOREAD" \notin cps.vpu)
                 /\ "HW_RENDER" \in usage /\ yuv => "YUV_NOWRITE" \notin cps.gpu
<1> DEFINE f == mali_gralloc_select_format(bld, cps, r, ftype, usage, size)
           req == PlainBase(r)
           mapped == map_flex_formats(req)
           restricted == NoAfbc(usage) \/ ~is_afbc_allowed(bld, size) \/ ~is_afbc_supported(mapped)
           rm == producer_runtime_mask(cps, req, usage)
           pm == rm \ (IF restricted THEN AfbcCaps ELSE {})
           cm == consumer_runtime_mask(cps, req, usage)
           cons == consumer(cps, usage)
           best == determine_best_format(cps, mapped, producer(usage), cons, pm, cm)
<1>1. \/ ~IsAutomatic(ftype, usage) /\ f = decode_internal_format(r, ftype)
      \/ f = [base |-> mapped, mods |-> {}]
      \/ f = Unsupported
      \/ ~IsSoftware(usage) /\ f = best
  BY DEF mali_gralloc_select_format
<1>2. CASE ~IsAutomatic(ftype, usage) /\ f = decode_internal_format(r, ftype)
  <2> HIDE DEF f
  <2> QED BY <1>2, DecodedTyped DEF f
<1>3. CASE f = [base |-> mapped, mods |-> {}]
  <2>1. mapped \in Bases BY MappedTyped
  <2> HIDE DEF mapped, f
  <2>2. f \in Formats /\ f.mods = {} BY <2>1, <1>3 DEF Formats
  <2> QED BY <2>2 DEF f
<1>4. CASE f = Unsupported
  <2> HIDE DEF f
  <2>1. f \in Formats /\ f.mods = {} BY <1>4, UnsupportedTyped DEF Unsupported
  <2> QED BY <2>1 DEF f
<1>5. CASE ~IsSoftware(usage) /\ f = best
  <2> USE DEF Caps, AfbcCaps, Modifiers, Blocks
  <2>1. /\ cps \in [dpu : SUBSET Caps, gpu : SUBSET Caps, vpu : SUBSET Caps]
        /\ \A c \in {cps.dpu, cps.gpu, cps.vpu} :
             /\ c \cap AfbcCaps # {} => "AFBC_BASIC" \in c
             /\ bld.no_external_afbc => c \cap AfbcCaps = {}
    <3> HIDE DEF Caps, AfbcCaps, Modifiers, Blocks
    <3>1. cps \in [dpu : SUBSET Caps, gpu : SUBSET Caps, vpu : SUBSET Caps] BY DEF CapsOK
    <3>2. \A c \in {cps.dpu, cps.gpu, cps.vpu} : c \in SUBSET Caps BY <3>1
    <3>3. \A c \in {cps.dpu, cps.gpu, cps.vpu} :
            WellFormed(c) /\ (bld.no_external_afbc => c \cap AfbcCaps = {})
      BY DEF CapsOK
    <3> QED BY <3>1, <3>2, <3>3, WellFormedCaps
  <2>2. rm \in SUBSET Caps /\ ("AFBC_TILED_HEADERS" \in rm => "AFBC_BASIC" \in rm)
        /\ ("HW_RENDER" \in usage /\ is_android_yuv_format(req) /\ "YUV_NOWRITE" \in cps.gpu => rm \cap AfbcCaps = {})
    BY DEF producer_runtime_mask
  <2>3. cm \in SUBSET Caps /\ ("AFBC_TILED_HEADERS" \in cm => "AFBC_BASIC" \in cm)
        /\ (cons = "VIDEO_ENCODER" /\ (is_android_yuv_format(req) => "YUV_NOREAD" \in cps.vpu) => cm \cap AfbcCaps = {})
    BY DEF consumer_runtime_mask
  <2>4. mapped \in Bases BY MappedTyped
  <2>5. /\ "HW_FB" \in usage => cons = "GPU_OR_DISPLAY"
        /\ "HW_VIDEO_ENCODER" \in usage /\ "HW_FB" \notin usage => cons = "VIDEO_ENCODER"
    BY DEF consumer
  <2>6. mapped \in CameraFormats => restricted BY DEF is_afbc_supported
  <2>7. mapped # "none" => req = r.base BY DEF PlainBase, map_flex_formats
  <2> HIDE DEF restricted, rm, cm, cons, mapped, req
  <2>8. "AFBC_TILED_HEADERS" \in pm => "AFBC_BASIC" \in pm BY <2>2
  <2>9. pm \subseteq rm /\ (restricted => pm \cap AfbcCaps = {}) BY <2>2
  <2> HIDE DEF pm
  <2>10. /\ best.base = mapped /\ best = [base |-> best.base, mods |-> best.mods]
         /\ best.mods \subseteq Modifiers \cap pm \cap cm
         /\ best.mods # {} => best.mods \cap Blocks # {}
         /\ best.mods \subseteq cps.gpu \/ best.mods \subseteq cps.vpu
         /\ cons = "GPU_OR_DISPLAY" => best.mods \subseteq cps.dpu
         /\ cons = "VIDEO_ENCODER" => best.mods \subseteq cps.vpu
    BY <2>1, <2>3, <2>8, BestFormat
  <2>11. f = best BY <1>5
  <2> HIDE DEF best, f
  <2>12. f \in Formats
    <3> HIDE DEF Modifiers
    <3>1. f.mods \in SUBSET Modifiers /\ f.base \in Bases /\ f = [base |-> f.base, mods |-> f.mods]
      BY <2>4, <2>10, <2>11
    <3> QED BY <3>1 DEF Formats
  <2>13. ASSUME f.mods # {}, f.base # "none"
         PROVE  /\ f.base \notin CameraFormats
                /\ ~bld.no_external_afbc
                /\ f.mods \cap Blocks # {}
                /\ "HW_FB" \in usage => f.mods \subseteq cps.dpu
                /\ "HW_VIDEO_ENCODER" \in usage /\ "HW_FB" \notin usage =>
                     f.mods \subseteq cps.vpu /\ (is_android_yuv_format(r.base) => "YUV_NOREAD" \notin cps.vpu)
                /\ "HW_RENDER" \in usage /\ is_android_yuv_format(r.base) => "YUV_NOWRITE" \notin cps.gpu
    <3>1. f.mods \cap Blocks # {} BY <2>13, <2>10, <2>11
    <3>2. f.mods \cap AfbcCaps # {} BY <3>1
    <3>3. ~restricted BY <3>2, <2>9, <2>10, <2>11
    <3>4. f.base \notin CameraFormats BY <3>3, <2>6, <2>10, <2>11
    <3>5. ~bld.no_external_afbc BY <3>2, <2>1, <2>10, <2>11
    <3>6. "HW_FB" \in usage => f.mods \subseteq cps.dpu BY <2>5, <2>10, <2>11
    <3>7. req = r.base BY <2>13, <2>7, <2>10, <2>11
    <3>8. "HW_VIDEO_ENCODER" \in usage /\ "HW_FB" \notin usage =>
            f.mods \subseteq cps.vpu /\ (is_android_yuv_format(r.base) => "YUV_NOREAD" \notin cps.vpu)
      BY <3>2, <3>7, <2>3, <2>5, <2>10, <2>11
    <3>9. "HW_RENDER" \in usage /\ is_android_yuv_format(r.base) => "YUV_NOWRITE" \notin cps.gpu
      BY <3>2, <3>7, <2>2, <2>9, <2>10, <2>11
    <3> QED BY <3>1, <3>4, <3>5, <3>6, <3>8, <3>9
  <2> QED BY <2>12, <2>13, <1>5 DEF f
<1> QED BY <1>1, <1>2, <1>3, <1>4, <1>5

(***************************************************************************)
(* What one iteration of the loop leaves.                                  *)
(***************************************************************************)
\* The format is the one the request makes, and the size is of it (or the refusal was ignored).
Chosen(bld, cps, hnd) ==
  hnd.out.internal_format =
    mali_gralloc_select_format(bld, cps, hnd.req.hal_format, hnd.req.format_type, hnd.req.usage,
                               hnd.req.width * hnd.req.height)
\* What the loop leaves behind when it goes on.
LaidOut(bld, cps, hnd, last) == Chosen(bld, cps, hnd) /\ (CameraRefused(hnd) \/ Measured(bld, hnd, last))

\* The size of all layers is a number.
LEMMA LayersNat ==
  ASSUME NEW size \in Nat, NEW f, NEW layers \in Nat
  PROVE  with_layers(size, f, layers) \in Nat
<1> DEFINE a == IF f.mods \cap Blocks = {} THEN size
                ELSE Align(size, IF "AFBC_TILED_HEADERS" \in f.mods THEN 4096 ELSE 128)
<1>1. a \in Nat
  <2>1. Align(size, 4096) \in Nat /\ Align(size, 128) \in Nat BY DEF Align
  <2> QED BY <2>1
<1> HIDE DEF a
<1>2. layers * a \in Nat BY <1>1
<1> QED BY <1>2 DEF with_layers, a

\* An iteration that goes on leaves a descriptor laid out; only a compressed format changes the kind.
LEMMA LayOutResult ==
  ASSUME build \in Build, CapsOK(build, caps), NEW dsc \in Descriptor, NEW last \in AllocTypes
  PROVE  LET l == lay_out(build, caps, dsc, last)
             hnd == [dsc EXCEPT !.out = l.out]
         IN /\ hnd \in Descriptor /\ hnd.req = dsc.req /\ hnd.out = l.out
            /\ l.goes_on => /\ l.type \in AllocTypes
                            /\ LaidOut(build, caps, hnd, last)
                            /\ l.out.internal_format.mods \cap Blocks = {} => l.type = last
<1> DEFINE r == dsc.req
           l == lay_out(build, caps, dsc, last)
           f == mali_gralloc_select_format(build, caps, r.hal_format, r.format_type, r.usage, r.width * r.height)
           type == type_of(f, r.usage, last)
           m == stride_and_size(f.base, r.width, r.height, r.usage, type, build.video)
           s == IF f = Unsupported \/ type = "none" THEN Refused ELSE m
           stale == ~s.ok /\ type # "none" /\ IgnoresRefusal(f.base, type)
           pixel_stride == IF s.ok THEN s.pixel_stride ELSE dsc.out.pixel_stride
           size == IF s.ok THEN s.size ELSE dsc.out.size
           hnd == [dsc EXCEPT !.out = l.out]
<1>1. /\ r \in Request /\ dsc.out \in Output /\ dsc = [req |-> r, out |-> dsc.out] BY DEF Descriptor
<1>2. /\ r.width \in Nat /\ r.height \in Nat /\ r.layer_count \in Nat /\ r.hal_format \in Formats
      /\ dsc.out.size \in Nat /\ dsc.out.byte_stride \in Nat /\ dsc.out.pixel_stride \in Nat
  BY <1>1 DEF Request, Output
<1>3. build.video \in Nat BY DEF Build
<1>4. f \in Formats BY <1>2, Selected
<1>5. hnd = [req |-> r, out |-> l.out] BY <1>1
<1>6. /\ l.type = type /\ l.goes_on = (s.ok \/ stale)
      /\ l.out = [size |-> IF s.ok \/ stale THEN with_layers(size, f, r.layer_count) ELSE size,
                  byte_stride |-> CASE s.ok -> s.byte_stride [] stale -> pixel_stride
                                    [] OTHER -> dsc.out.byte_stride,
                  pixel_stride |-> pixel_stride,
                  internalHeight |-> r.height + (IF s.ok THEN s.extra ELSE 0),
                  internal_format |-> f]
  BY DEF lay_out
<1> HIDE DEF r, f, l, hnd
<1>7. type \in AllocTypes \cup {"none"} /\ (f.mods \cap Blocks = {} => type = last)
  <2>1. CASE f.mods \cap Blocks = {} BY <2>1 DEF type_of
  <2>2. CASE f.mods \cap Blocks # {} BY <2>2, KindFits
  <2> QED BY <2>1, <2>2
<1> HIDE DEF type
<1>8. type # "none" => m = Refused \/ m \in Sized
  <2>1. type \in AllocTypes => m = Refused \/ Fitting(m, f.base, r.width, r.height, type)
    BY <1>2, <1>3, <1>4, StrideAndSize
  <2> QED BY <2>1, <1>7 DEF Fitting
<1> HIDE DEF m
<1>9. s = Refused \/ (s \in Sized /\ s = m /\ f # Unsupported /\ type # "none") BY <1>8
<1> HIDE DEF s
<1>10. ~Refused.ok /\ (s \in Sized => s.ok) BY DEF Refused, Sized
<1>11. s.ok => s \in Sized /\ s = m /\ f # Unsupported /\ type # "none" BY <1>9, <1>10
<1> HIDE DEF stale
<1>12. s.ok => s.byte_stride \in Nat /\ s.extra \in Nat /\ s.size \in Nat /\ s.pixel_stride \in Nat
  BY <1>11 DEF Sized
<1>13. size \in Nat /\ pixel_stride \in Nat /\ with_layers(size, f, r.layer_count) \in Nat
  <2>1. size \in Nat /\ pixel_stride \in Nat BY <1>2, <1>12
  <2> QED BY <2>1, <1>2, LayersNat
<1>14. r.height + (IF s.ok THEN s.extra ELSE 0) \in Nat BY <1>2, <1>12
<1>15. l.out \in Output
  <2> HIDE DEF size, pixel_stride
  <2>1. (CASE s.ok -> s.byte_stride [] stale -> pixel_stride [] OTHER -> dsc.out.byte_stride) \in Nat
    <3>1. CASE s.ok
      <4>1. ~stale BY <3>1 DEF stale
      <4> QED BY <3>1, <4>1, <1>12
    <3>2. CASE ~s.ok /\ stale BY <3>2, <1>13
    <3>3. CASE ~s.ok /\ ~stale BY <3>3, <1>2
    <3> QED BY <3>1, <3>2, <3>3
  <2> QED BY <2>1, <1>4, <1>6, <1>13, <1>14 DEF Output
<1>16. hnd \in Descriptor /\ hnd.req = r /\ hnd.out = l.out BY <1>1, <1>5, <1>15 DEF Descriptor
<1>17. ASSUME l.goes_on
       PROVE  type \in AllocTypes /\ LaidOut(build, caps, hnd, last)
  <2>1. type \in AllocTypes BY <1>17, <1>6, <1>7, <1>11 DEF stale
  <2>2. Chosen(build, caps, hnd) BY <1>6, <1>16 DEF Chosen, f
  <2>3. CASE s.ok
    <3>1. ~stale BY <2>3 DEF stale
    <3>2. l.out = [size |-> with_layers(m.size, f, r.layer_count), byte_stride |-> m.byte_stride,
                   pixel_stride |-> m.pixel_stride, internalHeight |-> r.height + m.extra,
                   internal_format |-> f]
      BY <2>3, <3>1, <1>6, <1>11
    <3>3. hnd.out.internal_format = f BY <1>6, <1>16
    <3>4. f # Unsupported /\ type # "none" /\ m.ok BY <2>3, <1>11
    <3>5. Measured(build, hnd, last) BY <3>2, <3>3, <3>4, <1>16 DEF Measured, m, type
    <3> QED BY <2>1, <2>2, <3>5 DEF LaidOut
  <2>4. CASE ~s.ok
    <3>1. stale BY <2>4, <1>6, <1>17
    <3>2. f.base \in CameraFormats /\ type = "UNCOMPRESSED" /\ ~s.ok BY <3>1 DEF stale, IgnoresRefusal
    <3>3. f # Unsupported BY <3>2 DEF Unsupported, CameraFormats
    <3>4. s = m BY <3>2, <3>3 DEF s
    <3>5. m = camera_formats_stride_and_size(r.width, r.height, f.base)
      BY <3>2 DEF m, stride_and_size, CameraFormats
    <3>6. CameraRefused(hnd) BY <3>2, <3>4, <3>5, <1>6, <1>16 DEF CameraRefused
    <3> QED BY <2>1, <2>2, <3>6 DEF LaidOut
  <2> QED BY <2>3, <2>4
<1>18. l.out.internal_format = f BY <1>6
<1> QED BY <1>6, <1>7, <1>16, <1>17, <1>18 DEF l, hnd, r

\* A measured descriptor of the plain kind has the outputs a new descriptor would get.
LEMMA OwnLayout ==
  ASSUME NEW hnd \in Descriptor, Measured(build, hnd, "UNCOMPRESSED"), Chosen(build, caps, hnd)
  PROVE  hnd.out = lay_out(build, caps, [hnd EXCEPT !.out = Zero.out], "UNCOMPRESSED").out
<1> DEFINE r == hnd.req
           dsc == [hnd EXCEPT !.out = Zero.out]
           f == hnd.out.internal_format
           type == type_of(f, r.usage, "UNCOMPRESSED")
           m == stride_and_size(f.base, r.width, r.height, r.usage, type, build.video)
           s == IF f = Unsupported \/ type = "none" THEN Refused ELSE m
           stale == ~s.ok /\ type # "none" /\ IgnoresRefusal(f.base, type)
           pixel_stride == IF s.ok THEN s.pixel_stride ELSE dsc.out.pixel_stride
           size == IF s.ok THEN s.size ELSE dsc.out.size
<1>1. dsc.req = r BY DEF Descriptor
<1>2. f = mali_gralloc_select_format(build, caps, r.hal_format, r.format_type, r.usage, r.width * r.height)
  BY DEF Chosen
<1>3. lay_out(build, caps, dsc, "UNCOMPRESSED").out =
        [size |-> IF s.ok \/ stale THEN with_layers(size, f, r.layer_count) ELSE size,
         byte_stride |-> CASE s.ok -> s.byte_stride [] stale -> pixel_stride [] OTHER -> dsc.out.byte_stride,
         pixel_stride |-> pixel_stride,
         internalHeight |-> r.height + (IF s.ok THEN s.extra ELSE 0),
         internal_format |-> f]
  <2> HIDE DEF dsc, f
  <2> QED BY <1>1, <1>2 DEF lay_out
<1>4. /\ f # Unsupported /\ type # "none" /\ m.ok
      /\ hnd.out = [size |-> with_layers(m.size, f, r.layer_count), byte_stride |-> m.byte_stride,
                    pixel_stride |-> m.pixel_stride, internalHeight |-> r.height + m.extra,
                    internal_format |-> f]
  BY DEF Measured
<1> HIDE DEF m, f, type
<1>5. s = m BY <1>4
<1> HIDE DEF s
<1>6. s.ok /\ ~stale BY <1>4, <1>5
<1> HIDE DEF stale, dsc
<1>7. lay_out(build, caps, dsc, "UNCOMPRESSED").out = hnd.out BY <1>3, <1>4, <1>5, <1>6
<1> QED BY <1>7 DEF dsc

(***************************************************************************)
(* The inductive invariant.                                                *)
(***************************************************************************)
\* The first n descriptors that are done have no compressed format.
PlainDone(n) == \A j \in 1 .. n : desc[call.done[j]].out.internal_format.mods \cap Blocks = {}

\* A descriptor is in the call once, and is not destroyed during it.
CallInv ==
  /\ \A i \in 1 .. Len(call.todo) : call.todo[i] \in DOMAIN desc /\ call.todo[i] \notin Done
  /\ \A i, j \in 1 .. Len(call.todo) : i # j => call.todo[i] # call.todo[j]
  /\ Done \subseteq DOMAIN desc

\* What is done was laid out, for the kind that an earlier descriptor left behind if there was
\* a compressed one.
DoneInv ==
  /\ \A i \in 1 .. Len(call.done) :
       \E last \in AllocTypes :
         LaidOut(build, caps, desc[call.done[i]], last) /\ (PlainDone(i - 1) => last = "UNCOMPRESSED")
  /\ PlainDone(Len(call.done)) => call.alloc_type = "UNCOMPRESSED"

\* The setters refuse 0 layers.
LayersInv == \A d \in DOMAIN desc : desc[d].req.layer_count # 0

\* A handle that could be allocated was laid out.
BufferInv ==
  \A d \in DOMAIN buffer :
    /\ buffer[d].req.layer_count # 0 /\ buffer[d].out.size # 0
    /\ \E last \in AllocTypes : LaidOut(build, caps, buffer[d], last)

\* The inductive invariant.
LayoutInv == LayoutTypeOK /\ CapsOK(build, caps) /\ CallInv /\ DoneInv /\ LayersInv /\ BufferInv

\* No call is typed as a call.
LEMMA IdleTyped == Idle \in [todo : Seq(Descriptors), done : Seq(Descriptors), alloc_type : AllocTypes]
BY DEF Idle, AllocTypes

\* A new descriptor is typed and has one layer.
LEMMA ZeroTyped == Zero \in Descriptor /\ Zero.req.layer_count # 0
BY UnsupportedTyped DEF Zero, Descriptor, Request, Output

\* It holds in the initial states.
LEMMA LayoutInvInit == LayoutInit => LayoutInv
<1> SUFFICES ASSUME LayoutInit PROVE LayoutInv OBVIOUS
<1>1. PICK s \in Settings : /\ build = s.build /\ menu = s.menu
                            /\ caps = determine_format_capabilities(s.build, s.hwcomposer, s.gles)
  BY DEF LayoutInit
<1>2. s \in Setting /\ WellFormed(s.hwcomposer) /\ WellFormed(s.gles) BY GrallocLayoutAssumption
<1>3. /\ s.build \in Build /\ s.menu \in [Descriptors -> SUBSET Request]
      /\ s.hwcomposer \in (SUBSET Caps) \cup {None} /\ s.gles \in (SUBSET Caps) \cup {None}
  BY <1>2 DEF Setting
<1>4. CapsOK(build, caps) BY <1>1, <1>2, <1>3, DeterminedCaps
<1>5. desc = Empty /\ call = Idle /\ buffer = Empty BY DEF LayoutInit
<1>6. DOMAIN desc = {} /\ DOMAIN buffer = {} BY <1>5 DEF Empty
<1>7. LayoutTypeOK BY <1>1, <1>3, <1>4, <1>5, <1>6, IdleTyped DEF LayoutTypeOK, CapsOK
<1>8. CallInv /\ DoneInv BY <1>5 DEF Idle, CallInv, DoneInv, Done, PlainDone
<1>9. LayersInv /\ BufferInv BY <1>6 DEF LayersInv, BufferInv
<1> QED BY <1>4, <1>7, <1>8, <1>9 DEF LayoutInv

\* Descriptors come, change and go between the calls.
LEMMA DescribeStep ==
  ASSUME LayoutInv, NEW d \in Descriptors, create_descriptor(d) \/ set_all(d) \/ destroy_descriptor(d)
  PROVE  LayoutInv'
<1>1. call = Idle /\ call' = Idle /\ UNCHANGED <<build, caps, menu, buffer>>
  BY DEF create_descriptor, set_all, destroy_descriptor
<1>2. /\ DOMAIN desc' \subseteq Descriptors
      /\ \A x \in DOMAIN desc' : desc'[x] \in Descriptor /\ desc'[x].req.layer_count # 0
  <2>1. /\ DOMAIN desc \subseteq Descriptors
        /\ \A x \in DOMAIN desc : desc[x] \in Descriptor /\ desc[x].req.layer_count # 0
    BY DEF LayoutInv, LayoutTypeOK, LayersInv
  <2>2. CASE create_descriptor(d)
    <3>1. desc' = With(desc, d, Zero) BY <2>2 DEF create_descriptor
    <3>2. DOMAIN desc' = DOMAIN desc \cup {d}
          /\ \A x \in DOMAIN desc' : desc'[x] = IF x = d THEN Zero ELSE desc[x]
      BY <3>1 DEF With
    <3> QED BY <2>1, <3>2, ZeroTyped
  <2>3. CASE set_all(d)
    <3>1. PICK r \in menu[d] : r.layer_count # 0 /\ desc' = [desc EXCEPT ![d].req = r] BY <2>3 DEF set_all
    <3>2. r \in Request BY DEF LayoutInv, LayoutTypeOK
    <3>3. d \in DOMAIN desc BY <2>3 DEF set_all
    <3>4. DOMAIN desc' = DOMAIN desc
          /\ \A x \in DOMAIN desc' : desc'[x] = IF x = d THEN [desc[d] EXCEPT !.req = r] ELSE desc[x]
      BY <3>1
    <3>5. [desc[d] EXCEPT !.req = r] \in Descriptor /\ [desc[d] EXCEPT !.req = r].req = r
      BY <2>1, <3>2, <3>3 DEF Descriptor
    <3> QED BY <2>1, <3>1, <3>4, <3>5
  <2>4. CASE destroy_descriptor(d)
    <3>1. DOMAIN desc' \subseteq DOMAIN desc /\ \A x \in DOMAIN desc' : desc'[x] = desc[x]
      BY <2>4 DEF destroy_descriptor, Without
    <3> QED BY <2>1, <3>1
  <2> QED BY <2>2, <2>3, <2>4
<1>3. LayoutTypeOK' BY <1>1, <1>2 DEF LayoutInv, LayoutTypeOK
<1>4. CapsOK(build, caps)' BY <1>1 DEF LayoutInv
<1>5. CallInv' /\ DoneInv' BY <1>1 DEF Idle, CallInv, DoneInv, Done, PlainDone
<1>6. LayersInv' BY <1>2 DEF LayersInv
<1>7. BufferInv' BY <1>1 DEF LayoutInv, BufferInv
<1> QED BY <1>3, <1>4, <1>5, <1>6, <1>7 DEF LayoutInv

\* A call starts with the kind UNCOMPRESSED and descriptors that exist.
LEMMA AllocateStep ==
  ASSUME LayoutInv, NEW s \in Seq(Descriptors), allocate(s),
         \A i, j \in 1 .. Len(s) : i # j => s[i] # s[j]
  PROVE  LayoutInv'
<1>1. /\ call' = [todo |-> s, done |-> <<>>, alloc_type |-> "UNCOMPRESSED"] /\ DOMAIN buffer' = {}
      /\ \A i \in 1 .. Len(s) : s[i] \in DOMAIN desc
      /\ UNCHANGED <<build, caps, menu, desc>>
  BY DEF allocate, Idle, Empty
<1>2. LayoutTypeOK' BY <1>1 DEF LayoutInv, LayoutTypeOK, AllocTypes
<1>3. CallInv' /\ DoneInv' BY <1>1 DEF CallInv, DoneInv, Done, PlainDone
<1>4. LayersInv' /\ BufferInv' /\ CapsOK(build, caps)' BY <1>1 DEF LayoutInv, LayersInv, BufferInv
<1> QED BY <1>2, <1>3, <1>4 DEF LayoutInv

\* The handles of a call are the descriptors that were done.
LEMMA IonStep ==
  ASSUME LayoutInv, ion_allocate \/ ion_allocate_fails
  PROVE  LayoutInv'
<1>1. call' = Idle /\ UNCHANGED <<build, caps, menu, desc>> BY DEF ion_allocate, ion_allocate_fails
<1>2. CallInv' /\ DoneInv' BY <1>1 DEF Idle, CallInv, DoneInv, Done, PlainDone
<1>3. LayersInv' /\ CapsOK(build, caps)' BY <1>1 DEF LayoutInv, LayersInv
<1>4. call' \in [todo : Seq(Descriptors), done : Seq(Descriptors), alloc_type : AllocTypes]
  BY <1>1, IdleTyped
<1>5. CASE ion_allocate_fails
  <2>1. UNCHANGED buffer BY <1>5 DEF ion_allocate_fails
  <2>2. LayoutTypeOK' /\ BufferInv' BY <1>1, <1>4, <2>1 DEF LayoutInv, LayoutTypeOK, BufferInv
  <2> QED BY <1>2, <1>3, <2>2 DEF LayoutInv
<1>6. CASE ion_allocate
  <2>1. DOMAIN buffer' = Done /\ \A d \in Done : buffer'[d] = desc[d] /\ desc[d].out.size # 0
    BY <1>6 DEF ion_allocate
  <2>2. /\ Done \subseteq DOMAIN desc /\ DOMAIN desc \subseteq Descriptors
        /\ \A d \in DOMAIN desc : desc[d] \in Descriptor /\ desc[d].req.layer_count # 0
    BY DEF LayoutInv, CallInv, LayoutTypeOK, LayersInv
  <2>3. ASSUME NEW d \in Done PROVE \E last \in AllocTypes : LaidOut(build, caps, desc[d], last)
    <3>1. PICK i \in 1 .. Len(call.done) : d = call.done[i] BY DEF Done
    <3>2. PICK last \in AllocTypes : LaidOut(build, caps, desc[call.done[i]], last) BY DEF LayoutInv, DoneInv
    <3> QED BY <3>1, <3>2
  <2>4. LayoutTypeOK' BY <1>1, <1>4, <2>1, <2>2 DEF LayoutInv, LayoutTypeOK
  <2>5. BufferInv' BY <1>1, <2>1, <2>2, <2>3 DEF BufferInv
  <2> QED BY <1>2, <1>3, <2>4, <2>5 DEF LayoutInv
<1> QED BY <1>5, <1>6

\* One iteration: the descriptor it lays out is not one that was done before.
LEMMA LayOutStep ==
  ASSUME LayoutInv, LayOut
  PROVE  LayoutInv'
<1> DEFINE d == Head(call.todo)
           l == lay_out(build, caps, desc[d], call.alloc_type)
           hnd == [desc[d] EXCEPT !.out = l.out]
           last == call.alloc_type
           n == Len(call.done)
<1>1. /\ call.todo # <<>> /\ desc' = [desc EXCEPT ![d].out = l.out]
      /\ call' = IF l.goes_on
                 THEN [todo |-> Tail(call.todo), done |-> Append(call.done, d), alloc_type |-> l.type]
                 ELSE Idle
      /\ UNCHANGED <<build, caps, menu, buffer>>
  BY DEF LayOut
<1>2. /\ call.todo \in Seq(Descriptors) /\ call.done \in Seq(Descriptors) /\ last \in AllocTypes
      /\ call = [todo |-> call.todo, done |-> call.done, alloc_type |-> call.alloc_type]
      /\ build \in Build /\ DOMAIN desc \subseteq Descriptors
      /\ \A x \in DOMAIN desc : desc[x] \in Descriptor /\ desc[x].req.layer_count # 0
  BY DEF LayoutInv, LayoutTypeOK, LayersInv
<1>3. /\ Len(call.todo) \in Nat /\ 1 <= Len(call.todo) /\ d = call.todo[1]
      /\ Tail(call.todo) \in Seq(Descriptors) /\ Len(Tail(call.todo)) = Len(call.todo) - 1
      /\ \A i \in 1 .. Len(Tail(call.todo)) : Tail(call.todo)[i] = call.todo[i + 1]
  BY <1>1, <1>2
<1>4. d \in DOMAIN desc /\ d \in Descriptors /\ d \notin Done /\ Done \subseteq DOMAIN desc
  BY <1>2, <1>3 DEF LayoutInv, CallInv
<1>5. CapsOK(build, caps) /\ desc[d] \in Descriptor BY <1>2, <1>4 DEF LayoutInv
<1>6. /\ hnd \in Descriptor /\ hnd.req = desc[d].req /\ hnd.out = l.out
      /\ l.goes_on => /\ l.type \in AllocTypes
                      /\ LaidOut(build, caps, hnd, last)
                      /\ l.out.internal_format.mods \cap Blocks = {} => l.type = last
  BY <1>2, <1>5, LayOutResult
<1>7. DOMAIN desc' = DOMAIN desc /\ \A x \in DOMAIN desc : desc'[x] = IF x = d THEN hnd ELSE desc[x]
  BY <1>1, <1>4
<1> HIDE DEF l, hnd, d
<1>8. \A x \in DOMAIN desc' : desc'[x] \in Descriptor /\ desc'[x].req.layer_count # 0
  BY <1>2, <1>4, <1>6, <1>7
<1>9. call' \in [todo : Seq(Descriptors), done : Seq(Descriptors), alloc_type : AllocTypes]
  <2>1. CASE l.goes_on
    <3>1. Append(call.done, d) \in Seq(Descriptors) BY <1>2, <1>4
    <3> QED BY <2>1, <3>1, <1>1, <1>3, <1>6
  <2>2. CASE ~l.goes_on BY <2>2, <1>1, IdleTyped
  <2> QED BY <2>1, <2>2
<1>10. LayoutTypeOK' BY <1>1, <1>2, <1>7, <1>8, <1>9 DEF LayoutInv, LayoutTypeOK
<1>11. LayersInv' BY <1>8 DEF LayersInv
<1>12. BufferInv' /\ CapsOK(build, caps)' BY <1>1 DEF LayoutInv, BufferInv
<1>13. CASE ~l.goes_on
  <2>1. call' = Idle BY <1>13, <1>1
  <2>2. CallInv' /\ DoneInv' BY <2>1 DEF Idle, CallInv, DoneInv, Done, PlainDone
  <2> QED BY <2>2, <1>10, <1>11, <1>12 DEF LayoutInv
<1>14. CASE l.goes_on
  <2>1. /\ call'.todo = Tail(call.todo) /\ call'.done = Append(call.done, d) /\ call'.alloc_type = l.type
    BY <1>14, <1>1
  <2>2. /\ n \in Nat /\ Len(call'.done) = n + 1 /\ call'.done[n + 1] = d
        /\ \A i \in 1 .. n : call'.done[i] = call.done[i] /\ call.done[i] \in Done
    BY <2>1, <1>2, <1>4 DEF Done
  <2>3. Done' = Done \cup {d}
    <3>1. \A x \in Done' : x \in Done \cup {d}
      <4> SUFFICES ASSUME NEW i \in 1 .. n + 1 PROVE call'.done[i] \in Done \cup {d} BY <2>2 DEF Done
      <4>1. i \in 1 .. n \/ i = n + 1 BY <2>2
      <4> QED BY <4>1, <2>2
    <3>2. d \in Done'
      <4>1. n + 1 \in 1 .. Len(call'.done) BY <2>2
      <4> QED BY <4>1, <2>2 DEF Done
    <3>3. ASSUME NEW x \in Done PROVE x \in Done'
      <4>1. PICK i \in 1 .. n : x = call.done[i] BY DEF Done
      <4>2. i \in 1 .. Len(call'.done) /\ x = call'.done[i] BY <4>1, <2>2
      <4> QED BY <4>2 DEF Done
    <3> QED BY <3>1, <3>2, <3>3
  <2>4. CallInv'
    <3>1. \A i \in 1 .. Len(call'.todo) : i + 1 \in 1 .. Len(call.todo) /\ call'.todo[i] = call.todo[i + 1] /\ i + 1 # 1
      BY <2>1, <1>3
    <3>2. 1 \in 1 .. Len(call.todo) BY <1>3
    <3>3. \A i \in 1 .. Len(call.todo) : call.todo[i] \in DOMAIN desc /\ call.todo[i] \notin Done
      BY DEF LayoutInv, CallInv
    <3>4. \A i, j \in 1 .. Len(call.todo) : i # j => call.todo[i] # call.todo[j] BY DEF LayoutInv, CallInv
    <3>5. \A i \in 1 .. Len(call'.todo) : call'.todo[i] \in DOMAIN desc' /\ call'.todo[i] \notin Done'
      BY <3>1, <3>2, <3>3, <3>4, <2>3, <1>3, <1>7
    <3>6. ASSUME NEW i \in 1 .. Len(call'.todo), NEW j \in 1 .. Len(call'.todo), i # j
          PROVE  call'.todo[i] # call'.todo[j]
      <4>1. i + 1 # j + 1 BY <3>6, <2>1, <1>3
      <4> QED BY <4>1, <3>1, <3>4
    <3>7. Done' \subseteq DOMAIN desc' BY <2>3, <1>4, <1>7
    <3> QED BY <3>5, <3>6, <3>7 DEF CallInv
  <2>5. \A i \in 1 .. n : desc'[call'.done[i]] = desc[call.done[i]]
    BY <2>2, <1>4, <1>7
  <2>6. desc'[call'.done[n + 1]] = hnd BY <2>2, <1>4, <1>7
  <2>7. \A m \in 0 .. n : PlainDone(m)' <=> PlainDone(m)
    <3> SUFFICES ASSUME NEW m \in 0 .. n PROVE PlainDone(m)' <=> PlainDone(m) OBVIOUS
    <3>1. \A j \in 1 .. m : j \in 1 .. n BY <2>2
    <3> QED BY <3>1, <2>5 DEF PlainDone
  <2>8. PlainDone(n) => last = "UNCOMPRESSED" BY DEF LayoutInv, DoneInv
  <2>9. ASSUME NEW i \in 1 .. n + 1
        PROVE  \E t \in AllocTypes :
                 LaidOut(build', caps', desc'[call'.done[i]], t) /\ (PlainDone(i - 1)' => t = "UNCOMPRESSED")
    <3>1. CASE i = n + 1
      <4>1. i - 1 = n /\ n \in 0 .. n BY <3>1, <2>2
      <4>2. PlainDone(i - 1)' => last = "UNCOMPRESSED" BY <4>1, <2>7, <2>8
      <4>3. LaidOut(build', caps', desc'[call'.done[i]], last) BY <3>1, <2>6, <1>1, <1>6, <1>14
      <4> QED BY <4>2, <4>3, <1>2
    <3>2. CASE i # n + 1
      <4>1. i \in 1 .. n /\ i - 1 \in 0 .. n BY <3>2, <2>2
      <4>2. PICK t \in AllocTypes :
              LaidOut(build, caps, desc[call.done[i]], t) /\ (PlainDone(i - 1) => t = "UNCOMPRESSED")
        BY <4>1 DEF LayoutInv, DoneInv
      <4>3. PlainDone(i - 1)' => t = "UNCOMPRESSED" BY <4>1, <4>2, <2>7
      <4>4. LaidOut(build', caps', desc'[call'.done[i]], t) BY <4>1, <4>2, <2>5, <1>1
      <4> QED BY <4>3, <4>4
    <3> QED BY <3>1, <3>2
  <2>10. ASSUME \A j \in 1 .. n + 1 : desc'[call'.done[j]].out.internal_format.mods \cap Blocks = {}
         PROVE  call'.alloc_type = "UNCOMPRESSED"
    <3>1. n + 1 \in 1 .. n + 1 /\ \A j \in 1 .. n : j \in 1 .. n + 1 BY <2>2
    <3>2. PlainDone(n) BY <3>1, <2>5, <2>10 DEF PlainDone
    <3>3. hnd.out.internal_format.mods \cap Blocks = {} BY <3>1, <2>6, <2>10
    <3>4. l.type = last BY <3>3, <1>6, <1>14
    <3> QED BY <3>2, <3>4, <2>1, <2>8
  <2>11. DoneInv'
    <3>1. PlainDone(Len(call.done))' => call'.alloc_type = "UNCOMPRESSED" BY <2>2, <2>10 DEF PlainDone
    <3> QED BY <3>1, <2>2, <2>9 DEF DoneInv
  <2> QED BY <2>4, <2>11, <1>10, <1>11, <1>12 DEF LayoutInv
<1> QED BY <1>13, <1>14

\* Every step keeps the invariant.
LEMMA LayoutInvStep == LayoutInv /\ [LayoutNext]_layoutVars => LayoutInv'
<1> SUFFICES ASSUME LayoutInv, [LayoutNext]_layoutVars PROVE LayoutInv' OBVIOUS
<1>1. CASE \E d \in Descriptors : create_descriptor(d) \/ set_all(d) \/ destroy_descriptor(d)
  BY <1>1, DescribeStep
<1>2. ASSUME NEW d \in Descriptors, allocate(<<d>>) PROVE LayoutInv'
  <2>1. <<d>> \in Seq(Descriptors) /\ \A i, j \in 1 .. Len(<<d>>) : i # j => <<d>>[i] # <<d>>[j] OBVIOUS
  <2> QED BY <1>2, <2>1, AllocateStep
<1>3. ASSUME NEW d \in Descriptors, NEW e \in Descriptors \ {d}, allocate(<<d, e>>) PROVE LayoutInv'
  <2>1. <<d, e>> \in Seq(Descriptors) /\ \A i, j \in 1 .. Len(<<d, e>>) : i # j => <<d, e>>[i] # <<d, e>>[j]
    OBVIOUS
  <2> QED BY <1>3, <2>1, AllocateStep
<1>4. CASE LayOut BY <1>4, LayOutStep
<1>5. CASE ion_allocate \/ ion_allocate_fails BY <1>5, IonStep
<1>6. CASE UNCHANGED layoutVars
  <2>1. UNCHANGED <<build, caps, menu, desc, call, buffer>> BY <1>6 DEF layoutVars
  <2>2. LayoutTypeOK' /\ CallInv' BY <2>1 DEF LayoutInv, LayoutTypeOK, CallInv, Done
  <2>3. DoneInv' /\ LayersInv' /\ BufferInv' /\ CapsOK(build, caps)'
    BY <2>1 DEF LayoutInv, DoneInv, PlainDone, LayersInv, BufferInv
  <2> QED BY <2>2, <2>3 DEF LayoutInv
<1> QED BY <1>1, <1>2, <1>3, <1>4, <1>5, <1>6 DEF LayoutNext

\* It holds always.
LEMMA LayoutInvariant == LayoutSpec => []LayoutInv
BY LayoutInvInit, LayoutInvStep, PTL DEF LayoutSpec

\* The types of the variables; the outputs of a descriptor are numbers and a format whatever was
\* laid out, and the kind of allocation is never "none".
THEOREM TypeCorrect == LayoutSpec => []LayoutTypeOK
<1>1. LayoutInv => LayoutTypeOK BY DEF LayoutInv
<1> QED BY <1>1, LayoutInvariant, PTL

\* A handle has room for all its layers, for every request, build and order of calls.
THEOREM ImagesAreHeld == LayoutSpec => []HoldsImage
<1>1. LayoutInv => HoldsImage
  <2> SUFFICES ASSUME LayoutInv, NEW d \in DOMAIN buffer, ~CameraRefused(buffer[d]), ~OddRows(buffer[d])
               PROVE  buffer[d].out.size >= buffer[d].req.layer_count * ImageBytes(buffer[d])
    BY DEF HoldsImage, ImageBytes
  <2>1. buffer[d] \in Descriptor /\ build \in Build BY DEF LayoutInv, LayoutTypeOK
  <2>2. PICK last \in AllocTypes : LaidOut(build, caps, buffer[d], last) BY DEF LayoutInv, BufferInv
  <2>3. Measured(build, buffer[d], last) BY <2>2 DEF LaidOut
  <2>4. buffer[d].req.layer_count # 0 /\ buffer[d].out.size # 0 BY DEF LayoutInv, BufferInv
  <2> QED BY <2>1, <2>3, <2>4, ImageHeld
<1> QED BY <1>1, LayoutInvariant, PTL

\* What software is given by the locks lies in the buffer, in planes that do not overlap, and both
\* locks agree on them.
THEOREM PlanesAreInside == LayoutSpec => []PlanesInside
<1>1. LayoutInv => PlanesInside
  <2> SUFFICES ASSUME LayoutInv, NEW d \in DOMAIN buffer, lock_flex_async(buffer[d]) # <<>>
               PROVE  /\ Len(lock_flex_async(buffer[d])) = get_num_flex_planes(buffer[d])
                      /\ PlanesAreDisjoint(buffer[d], lock_flex_async(buffer[d]))
                      /\ SamePlanes(lock_ycbcr(buffer[d]), lock_flex_async(buffer[d]))
    BY DEF PlanesInside
  <2>1. buffer[d] \in Descriptor BY DEF LayoutInv, LayoutTypeOK
  <2>2. PICK last \in AllocTypes : LaidOut(build, caps, buffer[d], last) BY DEF LayoutInv, BufferInv
  <2>3. ~CameraRefused(buffer[d])
    <3>1. Lockable(buffer[d].out.internal_format) BY DEF lock_flex_async
    <3> QED BY <3>1 DEF Lockable, CameraRefused, CameraFormats
  <2>4. Measured(build, buffer[d], last) BY <2>2, <2>3 DEF LaidOut
  <2>5. buffer[d].req.layer_count # 0 /\ buffer[d].out.size # 0 BY DEF LayoutInv, BufferInv
  <2> QED BY <2>1, <2>4, <2>5, PlanesHeld, PlanesAgree
<1> QED BY <1>1, LayoutInvariant, PTL

\* The users of a buffer can do what its format needs, whatever the libraries publish and the build.
THEOREM ReadersAreAble == LayoutSpec => []ReadersCanRead
<1>1. LayoutInv => ReadersCanRead
  <2> SUFFICES ASSUME LayoutInv, NEW d \in DOMAIN buffer,
                      IsAutomatic(buffer[d].req.format_type, buffer[d].req.usage),
                      buffer[d].out.internal_format.mods # {}
               PROVE  LET r == buffer[d].req
                          mods == buffer[d].out.internal_format.mods
                          yuv == is_android_yuv_format(r.hal_format.base)
                      IN /\ ~build.no_external_afbc /\ ~IsSoftware(r.usage)
                         /\ mods \cap Blocks # {}
                         /\ "HW_FB" \in r.usage => mods \subseteq caps.dpu
                         /\ "HW_VIDEO_ENCODER" \in r.usage /\ "HW_FB" \notin r.usage =>
                              mods \subseteq caps.vpu /\ (yuv => "YUV_NOREAD" \notin caps.vpu)
                         /\ "HW_RENDER" \in r.usage /\ yuv => "YUV_NOWRITE" \notin caps.gpu
    BY DEF ReadersCanRead
  <2> DEFINE f == buffer[d].out.internal_format
  <2>1. buffer[d] \in Descriptor /\ build \in Build /\ CapsOK(build, caps) BY DEF LayoutInv, LayoutTypeOK
  <2>2. buffer[d].req.hal_format \in Formats BY <2>1 DEF Descriptor, Request
  <2>3. PICK last \in AllocTypes : LaidOut(build, caps, buffer[d], last) BY DEF LayoutInv, BufferInv
  <2>4. f = mali_gralloc_select_format(build, caps, buffer[d].req.hal_format, buffer[d].req.format_type,
                                       buffer[d].req.usage, buffer[d].req.width * buffer[d].req.height)
    BY <2>3 DEF LaidOut, Chosen
  <2>5. f.base # "none"
    <3>1. CASE CameraRefused(buffer[d]) BY <3>1 DEF CameraRefused, CameraFormats
    <3>2. CASE Measured(build, buffer[d], last)
      <4> DEFINE type == type_of(f, buffer[d].req.usage, last)
                 s == stride_and_size(f.base, buffer[d].req.width, buffer[d].req.height, buffer[d].req.usage,
                                      type, build.video)
      <4>1. s.ok BY <3>2 DEF Measured
      <4> HIDE DEF type
      <4>2. f.base = "none" => s = Refused BY DEF stride_and_size, CameraFormats
      <4> QED BY <4>1, <4>2 DEF Refused
    <3> QED BY <2>3, <3>1, <3>2 DEF LaidOut
  <2> HIDE DEF f
  <2> QED BY <2>1, <2>2, <2>4, <2>5, Selected DEF f
<1> QED BY <1>1, LayoutInvariant, PTL

\* No output of a descriptor is left over from its earlier allocations, nor made by the descriptors
\* before it in the call unless one of them is compressed.
THEOREM LayoutsAreOwn == LayoutSpec => []LayoutIsOwn
<1>1. LayoutInv => LayoutIsOwn
  <2> SUFFICES ASSUME LayoutInv, NEW i \in 1 .. Len(call.done), PlainDone(i - 1),
                      ~CameraRefused(desc[call.done[i]])
               PROVE  desc[call.done[i]].out =
                        lay_out(build, caps, [desc[call.done[i]] EXCEPT !.out = Zero.out], "UNCOMPRESSED").out
    BY DEF LayoutIsOwn, PlainDone
  <2>1. LaidOut(build, caps, desc[call.done[i]], "UNCOMPRESSED") BY DEF LayoutInv, DoneInv
  <2>2. desc[call.done[i]] \in Descriptor BY DEF LayoutInv, LayoutTypeOK, CallInv, Done
  <2> QED BY <2>1, <2>2, OwnLayout DEF LaidOut
<1> QED BY <1>1, LayoutInvariant, PTL
==============================================================================
