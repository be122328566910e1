----------------------------- MODULE GrallocSizes -----------------------------
(***************************************************************************)
(* How large a buffer is: the stride and size functions at the start of    *)
(* mali_gralloc_bufferallocation.cpp, one operator each.                   *)
(*                                                                         *)
(* The code computes in 32-bit ints; so widths and heights are presumed to *)
(* be small enough for that (see GrallocLayout).  What a function stores   *)
(* through its pointers is a record, what it leaves alone is not in it; a  *)
(* function that returns false stores nothing that is used.                *)
(***************************************************************************)
EXTENDS Integers

\* GRALLOC_ALIGN(value, base): base is a power of two everywhere.
Align(value, base) == ((value + (base - 1)) \div base) * base

AFBC_PIXELS_PER_BLOCK == 16
AllocTypes == {"UNCOMPRESSED", "AFBC", "AFBC_WIDEBLK", "AFBC_PADDED",
               "AFBC_TILED_HEADERS_BASIC", "AFBC_TILED_HEADERS_WIDEBLK"}
Tiled(type) == type \in {"AFBC_TILED_HEADERS_BASIC", "AFBC_TILED_HEADERS_WIDEBLK"}

width_align(type) ==
  CASE type = "AFBC_TILED_HEADERS_BASIC" -> 128 [] type = "AFBC_TILED_HEADERS_WIDEBLK" -> 256
    [] type = "AFBC_PADDED" -> 64 [] type = "AFBC_WIDEBLK" -> 32 [] OTHER -> 16
height_align(type) ==
  CASE type = "AFBC_TILED_HEADERS_BASIC" -> 128 [] type = "AFBC_TILED_HEADERS_WIDEBLK" -> 64
    [] OTHER -> 16

\* Bytes of the headers of w x h pixels: one of 16 bytes per block of 16 x 16.
header_size(w, h, type) ==
  LET nblocks == ((w \div AFBC_PIXELS_PER_BLOCK) * h) \div AFBC_PIXELS_PER_BLOCK
  IN Align(nblocks * 16, IF Tiled(type) THEN 4 * 1024 ELSE 1024)

\* What the functions for YUV refuse.
YuvAfbc(type) == type \notin {"UNCOMPRESSED", "AFBC_PADDED"}

Refused == [ok |-> FALSE]
\* extra: how much internalHeight exceeds the height.
Cropped(pixel_stride, byte_stride, size, extra) ==
  [ok |-> TRUE, pixel_stride |-> pixel_stride, byte_stride |-> byte_stride, size |-> size,
   extra |-> extra]
Layout(pixel_stride, byte_stride, size) == Cropped(pixel_stride, byte_stride, size, 0)

rgb_stride_and_size(width, height, pixel_size, type) ==
  IF type = "UNCOMPRESSED"
  THEN LET stride == Align(width * pixel_size, 64)
       IN Layout(stride \div pixel_size, stride, stride * height)
  ELSE LET w == Align(width, width_align(type))
           h == Align(height, height_align(type))
           stride == Align(w * pixel_size, 64)
       IN Layout(stride \div pixel_size, stride, stride * h + header_size(w, h, type))

\* A video processor may decode into a row of blocks more than it shows.
extra_rows(video) == IF video # 0 THEN AFBC_PIXELS_PER_BLOCK ELSE 0

afbc_yuv420_8bit_stride_and_size(width, height, type, video) ==
  LET internalHeight == height + extra_rows(video)
      w == Align(width, width_align(type))
      h == Align(internalHeight, height_align(type))
  IN IF ~YuvAfbc(type) THEN Refused
     ELSE Cropped(w, w, (w + Align(w \div 2, 16)) * h + header_size(w, h, type), extra_rows(video))

\* A bug: an odd height is not rounded up for the chroma rows.
yv12_stride_and_size_odd(width, height, type, stride_alignment, video) ==
  LET luma == Align(width, stride_alignment)
      chroma == Align(luma \div 2, stride_alignment)
  IN IF type # "UNCOMPRESSED" THEN afbc_yuv420_8bit_stride_and_size(width, height, type, video)
     ELSE Layout(luma, luma, height * (luma + chroma))

yv12_stride_and_size(width, height, type, stride_alignment, video) ==
  LET luma == Align(width, stride_alignment)
      chroma == Align(luma \div 2, stride_alignment)
  IN IF type # "UNCOMPRESSED" THEN afbc_yuv420_8bit_stride_and_size(width, height, type, video)
     ELSE Layout(luma, luma, Align(height, 2) * (luma + chroma))

yuv422_8bit_stride_and_size(width, height) ==
  Layout(Align(width, 128), Align(width * 2, 128), Align(width * 2, 128) * height)

afbc_yuv422_8bit_stride_and_size(width, height, type) ==
  LET w == Align(width, width_align(type))
      h == Align(height, height_align(type))
  IN IF ~YuvAfbc(type) THEN Refused ELSE Layout(w, w, w * h * 2 + header_size(w, h, type))

\* vss is 2 for P010, whose chroma has half the rows, and 1 for P210.
yuv_pX10_stride_and_size(width, height, vss) ==
  LET h == IF vss = 2 THEN Align(height, 2) ELSE height
      stride == Align(width * 2, 128)
  IN Layout(Align(width, 128), stride, stride * h + stride * (h \div vss))

yuv_y210_stride_and_size(width, height) ==
  Layout(Align(width, 128), Align(width * 4, 128), Align(width * 4, 128) * height)

\* A stride covers two rows.
yuv_y0l2_stride_and_size(width, height) ==
  Layout(Align(width, 128), Align(width * 4, 128), (Align(width * 4, 128) * Align(height, 2)) \div 2)

yuv_y410_stride_and_size(width, height) ==
  Layout(Align(width, 128), Align(width * 4, 128), Align(width * 4, 128) * height)

\* The byte stride handed out is the pixel stride; the height is halved before it is aligned.
yuv420_10bit_afbc_stride_and_size(width, height, type, video) ==
  LET internalHeight == height + extra_rows(video)
      w == Align(width, width_align(type))
      h == Align(internalHeight \div 2, height_align(type))
  IN IF width % 4 # 0 \/ ~YuvAfbc(type) THEN Refused
     ELSE Cropped(w, w, Align(w * 4, 16) * h + header_size(w, internalHeight, type), extra_rows(video))

yuv422_10bit_afbc_stride_and_size(width, height, type) ==
  LET w == Align(width, width_align(type))
      h == Align(height, height_align(type))
  IN IF width % 4 # 0 \/ ~YuvAfbc(type) THEN Refused
     ELSE Layout(w, Align(w * 2, 16), Align(w * 2, 16) * h * 2 + header_size(w, h, type))

\* The one stride is in pixels for RAW16 and in bytes for the others.
camera_formats_stride_and_size(w, h, format) ==
  CASE format = "RAW16" -> Layout(Align(w, 16), Align(w, 16), Align(w, 16) * h * 2)
    [] format = "RAW12" /\ w % 4 = 0 -> Layout((w \div 2) * 3, (w \div 2) * 3, (w \div 2) * 3 * h)
    [] format = "RAW10" /\ w % 4 = 0 -> Layout((w \div 4) * 5, (w \div 4) * 5, (w \div 4) * 5 * h)
    [] format = "BLOB" /\ h = 1 -> Layout(0, 0, w)
    [] OTHER -> Refused
===============================================================================
