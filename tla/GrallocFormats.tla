---------------------------- MODULE GrallocFormats ----------------------------
(***************************************************************************)
(* Which format gralloc gives a buffer (mali_gralloc_formats.cpp and .h):  *)
(* what the hardware blocks can do, who produces and who consumes a buffer *)
(* according to its usage, and the modifiers that follow.                  *)
(*                                                                         *)
(* A format is a base and a set of modifiers, a mask of capabilities or of *)
(* usage flags a set of names.  Bits shared by several usages are named    *)
(* once: NO_AFBC is PRIVATE_1 with PRIVATE_2, and PRIVATE_2 alone asks for *)
(* AFBC padding (mali_gralloc_usages.h).                                   *)
(***************************************************************************)
EXTENDS Integers, FiniteSets

\* The mutually exclusive modifiers, also MALI_GRALLOC_INTFMT_AFBCENABLE_MASK.
Blocks == {"AFBC_BASIC", "AFBC_SPLITBLK", "AFBC_WIDEBLK"}
Modifiers == Blocks \cup {"AFBC_TILED_HEADERS"}
\* MALI_GRALLOC_FORMAT_CAPABILITY_AFBCENABLE_MASK has a bit for each modifier.
AfbcCaps == Modifiers
Caps == AfbcCaps \cup {"OPTIONS_PRESENT", "WIDEBLK_YUV_DISABLE", "YUV_NOREAD", "YUV_NOWRITE"}

RgbFormats == {"RGBA_8888", "RGBX_8888", "BGRA_8888", "RGB_888", "RGB_565"}
CameraFormats == {"RAW16", "RAW12", "RAW10", "BLOB"}
InternalYuv == {"NV12", "NV21", "YUV422_8BIT", "Y0L2", "P010", "P210", "Y210", "Y410"}
\* HAL formats without an internal name of their own, RGBA_1010102 is the 43 of the code.
HalOnly == {"RGBA_1010102", "YCbCr_420_888", "YCbCr_422_888", "YCbCr_444_888",
            "IMPLEMENTATION_DEFINED", "YCrCb_420_SP", "YCbCr_422_I"}
Wide == {"YV12", "Y8", "Y16"}                  \* 32-bit values, no room for modifiers
Wraps == {"YV12_WRAP", "Y8_WRAP", "Y16_WRAP"}  \* what they are wrapped as
Bases == RgbFormats \cup CameraFormats \cup InternalYuv \cup HalOnly \cup Wide \cup Wraps \cup {"none"}
Formats == [base : Bases, mods : SUBSET Modifiers]

\* Format 0: unrecognized or not supported.
Unsupported == [base |-> "none", mods |-> {}]

\* mali_gralloc_format_wrapper puts base and modifiers into 32 bits ...
Wrap(b, mods) ==
  [base |-> CASE b = "YV12" -> "YV12_WRAP" [] b = "Y8" -> "Y8_WRAP" [] b = "Y16" -> "Y16_WRAP"
              [] OTHER -> b,
   mods |-> mods]

\* ... and this takes them out.  The bits of an unwrapped YV12, Y8 or Y16 make no format.
Unwrap(r) ==
  [base |-> CASE r.base = "YV12_WRAP" -> "YV12" [] r.base = "Y8_WRAP" -> "Y8"
              [] r.base = "Y16_WRAP" -> "Y16" [] r.base \in Wide -> "none" [] OTHER -> r.base,
   mods |-> r.mods]

map_flex_formats(b) == IF b \in {"IMPLEMENTATION_DEFINED", "YCbCr_420_888"} THEN "NV12" ELSE b

is_afbc_supported(b) == b \notin CameraFormats \cup {"P010", "P210", "Y410", "YCbCr_422_I"}

is_android_yuv_format(b) ==
  b \in Wide \cup {"YCbCr_420_888", "YCbCr_422_888", "YCbCr_444_888", "NV12", "IMPLEMENTATION_DEFINED"}

\* GRALLOC_AFBC_MIN_SIZE percent of the display, where its size is known.
is_afbc_allowed(build, buffer_size) ==
  build.display \in {550, 650} /\ build.display_size # 0 => (buffer_size * 100) \div build.display_size >= 75

decode_internal_format(r, type) ==
  LET f == IF type = "USAGE" THEN Unwrap(r) ELSE r
      b == map_flex_formats(f.base)
  IN IF \/ Cardinality(f.mods \cap Blocks) > 1
        \/ b \notin RgbFormats \cup CameraFormats \cup InternalYuv \cup Wide
     THEN Unsupported
     ELSE [base |-> b, mods |-> f.mods]

(***************************************************************************)
(* The blocks.  A library may publish what its block can do (None where it *)
(* does not); the rest is a matter of the build.                           *)
(***************************************************************************)
None == {"not published"}

dpu_caps(build, published) ==
  IF published # None THEN published
  ELSE (IF build.display >= 500 THEN {"OPTIONS_PRESENT", "AFBC_BASIC"} ELSE {})
       \cup (IF build.display >= 550 THEN {"AFBC_SPLITBLK"} ELSE {})

\* Of the macros of the build only MALI_GPU_SUPPORT_AFBC_BASIC is one that Android.mk defines.
gpu_caps(build, published) ==
  IF published # None /\ "OPTIONS_PRESENT" \in published THEN published
  ELSE (IF published # None THEN published ELSE {})
       \cup (IF build.gpu_afbc
             THEN {"OPTIONS_PRESENT", "AFBC_BASIC", "YUV_NOWRITE", "WIDEBLK_YUV_DISABLE"} ELSE {})

vpu_caps(build) ==
  CASE build.video \in {500, 550} -> {"OPTIONS_PRESENT", "AFBC_BASIC", "YUV_NOREAD"}
    [] build.video = 61 -> {"OPTIONS_PRESENT", "AFBC_BASIC", "AFBC_TILED_HEADERS"}
    [] OTHER -> {}

determine_format_capabilities(build, hwcomposer, gles) ==
  LET mask == IF build.no_external_afbc THEN Caps \ AfbcCaps ELSE Caps
  IN [dpu |-> dpu_caps(build, hwcomposer) \cap mask,
      gpu |-> gpu_caps(build, gles) \cap mask,
      vpu |-> vpu_caps(build) \cap mask]

(***************************************************************************)
(* Who fills the buffer and who uses it, and which capabilities the usage  *)
(* leaves them.  Software is neither.                                      *)
(***************************************************************************)
IsSoftware(usage) == usage \cap {"SW_READ", "SW_WRITE"} # {}
NoAfbc(usage) == {"PRIVATE_1", "PRIVATE_2"} \subseteq usage

producer(usage) ==
  IF "HW_RENDER" \in usage THEN "GPU"
  ELSE IF "HW_CAMERA" \in usage THEN "CAMERA"
  ELSE IF {"HW_TEXTURE", "HW_COMPOSER", "EXTERNAL_DISP"} \subseteq usage THEN "VIDEO_DECODER"
  ELSE "GPU"

producer_runtime_mask(caps, req_format, usage) ==
  IF ~("HW_RENDER" \in usage /\ is_android_yuv_format(req_format)) THEN Caps
  ELSE IF "YUV_NOWRITE" \in caps.gpu THEN Caps \ AfbcCaps
  ELSE Caps \ {"AFBC_SPLITBLK", "AFBC_WIDEBLK"}

consumer(caps, usage) ==
  IF "HW_FB" \in usage THEN "GPU_OR_DISPLAY"
  ELSE IF "HW_VIDEO_ENCODER" \in usage THEN "VIDEO_ENCODER"
  ELSE IF {"HW_TEXTURE", "HW_COMPOSER"} \subseteq usage /\ "OPTIONS_PRESENT" \in caps.dpu THEN "GPU_OR_DISPLAY"
  ELSE "GPU_EXCL"

\* A bug: YUV is not kept back from an encoder that cannot read it compressed.
consumer_runtime_mask_lax(caps, req_format, usage) ==
  IF consumer(caps, usage) = "VIDEO_ENCODER" /\ ~is_android_yuv_format(req_format)
  THEN Caps \ AfbcCaps ELSE Caps

consumer_runtime_mask(caps, req_format, usage) ==
  IF /\ consumer(caps, usage) = "VIDEO_ENCODER"
     /\ is_android_yuv_format(req_format) => "YUV_NOREAD" \in caps.vpu
  THEN Caps \ AfbcCaps ELSE Caps

\* The modifiers both of two masks allow, of those asked for.
Both(wanted, m1, m2) == wanted \cap m1 \cap m2

(***************************************************************************)
(* determine_best_format: pm and cm are the masks of producer and consumer.*)
(***************************************************************************)
determine_best_format(caps, b, prod, cons, pm, cm) ==
  LET basic_or_tiled == {"AFBC_BASIC", "AFBC_TILED_HEADERS"}
      gpu_producer ==
        CASE cons = "GPU_OR_DISPLAY" ->
               LET both == Both(Modifiers, caps.gpu \cap pm \cap cm, caps.dpu \cap cm)
               IN IF "AFBC_SPLITBLK" \in both THEN {"AFBC_SPLITBLK"}
                  ELSE IF "AFBC_BASIC" \in both THEN Both(basic_or_tiled, both, both)
                  ELSE {}
          [] cons = "GPU_EXCL" -> Both(basic_or_tiled, caps.gpu \cap pm, cm)
          [] OTHER -> IF b \in {"YV12", "NV12"}
                      THEN Both(basic_or_tiled, caps.gpu \cap pm, caps.vpu \cap cm) ELSE {}
      decoder ==
        IF b # "YV12" THEN {}
        ELSE CASE cons = "GPU_OR_DISPLAY" -> Both(basic_or_tiled, caps.vpu \cap pm, caps.gpu \cap caps.dpu \cap cm)
               [] cons = "GPU_EXCL" -> Both(basic_or_tiled, caps.vpu \cap pm, caps.gpu \cap cm)
               [] OTHER -> {}
  IN [base |-> b,
      mods |-> CASE prod = "GPU" /\ "OPTIONS_PRESENT" \in caps.gpu -> gpu_producer
                 [] prod = "VIDEO_DECODER" /\ "OPTIONS_PRESENT" \in caps.vpu -> decoder
                 [] OTHER -> {}]

\* Is the format left to gralloc?
IsAutomatic(type, usage) == "PRIVATE_3" \notin usage /\ type # "INTERNAL"

\* A format outside the known ones: modifiers in a format that is not declared private.
PlainBase(r) == IF r.mods = {} THEN r.base ELSE "none"

mali_gralloc_select_format(build, caps, r, type, usage, buffer_size) ==
  LET req == PlainBase(r)
      mapped == map_flex_formats(req)
      restricted == NoAfbc(usage) \/ ~is_afbc_allowed(build, buffer_size) \/ ~is_afbc_supported(mapped)
      pm == producer_runtime_mask(caps, req, usage) \ (IF restricted THEN AfbcCaps ELSE {})
  IN IF ~IsAutomatic(type, usage) THEN decode_internal_format(r, type)
     ELSE IF IsSoftware(usage) THEN [base |-> mapped, mods |-> {}]
     ELSE IF NoAfbc(usage) /\ is_android_yuv_format(mapped) THEN Unsupported
     ELSE determine_best_format(caps, mapped, producer(usage), consumer(caps, usage), pm,
                                consumer_runtime_mask(caps, req, usage))
===============================================================================
