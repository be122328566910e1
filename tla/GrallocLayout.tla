----------------------------- MODULE GrallocLayout -----------------------------
(***************************************************************************)
(* From a buffer descriptor to the layout of a buffer: the descriptors of  *)
(* mali_gralloc_bufferdescriptor.cpp, the loop of                          *)
(* mali_gralloc_buffer_allocate that chooses the format, the kind of       *)
(* allocation and the size of each, and the planes that lock_ycbcr and     *)
(* lock_flex hand out for what came of it (mali_gralloc_bufferaccess.cpp). *)
(*                                                                         *)
(* A descriptor belongs to one client thread and is filled by setters; it  *)
(* keeps the outputs of earlier allocations.  One call allocates several   *)
(* descriptors, one step each; ion_allocate and the handles' life are in   *)
(* GrallocAllocation and GrallocReference.  A handle copies the descriptor *)
(* and never changes, so only those of the last call are kept.             *)
(*                                                                         *)
(* Widths, heights and layers are presumed so small that no int overflows. *)
(***************************************************************************)
EXTENDS GrallocFormats, GrallocSizes, Sequences

CONSTANTS
  Descriptors, \* the descriptors a client has
  Settings     \* builds, with what the libraries publish and what the clients ask for

Build == [display : Nat, video : Nat, display_size : Nat, gpu_afbc : BOOLEAN, no_external_afbc : BOOLEAN]
Usages == {"SW_READ", "SW_WRITE", "HW_RENDER", "HW_TEXTURE", "HW_COMPOSER", "HW_FB", "HW_CAMERA",
           "HW_VIDEO_ENCODER", "EXTERNAL_DISP", "PRIVATE_1", "PRIVATE_2", "PRIVATE_3"}
\* usage is producer_usage | consumer_usage.
Request == [width : Nat, height : Nat, usage : SUBSET Usages, hal_format : Formats,
            format_type : {"USAGE", "INTERNAL"}, layer_count : Nat]
Output == [size : Nat, byte_stride : Nat, pixel_stride : Nat, internalHeight : Nat,
           internal_format : Formats]
Descriptor == [req : Request, out : Output]

\* build: versions of the display and video blocks, macros; hwcomposer and gles: the
\* capabilities these libraries publish; menu: what each descriptor's client may ask for.
Setting == [build : Build, hwcomposer : (SUBSET Caps) \cup {None}, gles : (SUBSET Caps) \cup {None},
            menu : [Descriptors -> SUBSET Request]]

\* Who reads compressed buffers of another kind reads the basic one.
WellFormed(c) == c = None \/ (c \cap AfbcCaps # {} => {"OPTIONS_PRESENT", "AFBC_BASIC"} \subseteq c)

ASSUME GrallocLayoutAssumption ==
  /\ Settings \subseteq Setting
  /\ \A s \in Settings : WellFormed(s.hwcomposer) /\ WellFormed(s.gles)

VARIABLES
  build,  \* the build that runs
  caps,   \* dpu, gpu and vpu _runtime_caps, once they are determined
  menu,   \* what the clients ask for
  desc,   \* the descriptors that exist
  call,   \* the allocation in progress: descriptors to do and done, alloc_type
  buffer  \* the handles of the last call, by descriptor

layoutVars == <<build, caps, menu, desc, call, buffer>>

Idle == [todo |-> <<>>, done |-> <<>>, alloc_type |-> "UNCOMPRESSED"]
Empty == [d \in {} |-> d]
\* f without d in its domain, and with it.
Without(f, d) == [x \in DOMAIN f \ {d} |-> f[x]]
With(f, d, v) == [x \in DOMAIN f \cup {d} |-> IF x = d THEN v ELSE f[x]]

LayoutInit ==
  /\ \E s \in Settings :
       /\ build = s.build /\ menu = s.menu
       /\ caps = determine_format_capabilities(s.build, s.hwcomposer, s.gles)
  /\ desc = Empty /\ call = Idle /\ buffer = Empty

(***************************************************************************)
(* Descriptors.                                                            *)
(***************************************************************************)
Zero == [req |-> [width |-> 0, height |-> 0, usage |-> {}, hal_format |-> Unsupported,
                  format_type |-> "USAGE", layer_count |-> 1],
         out |-> [size |-> 0, byte_stride |-> 0, pixel_stride |-> 0, internalHeight |-> 0,
                  internal_format |-> Unsupported]]

create_descriptor(d) ==
  /\ call = Idle /\ d \notin DOMAIN desc /\ menu[d] # {}
  /\ desc' = With(desc, d, Zero)
  /\ UNCHANGED <<build, caps, menu, call, buffer>>

\* The setters, one after the other; the outputs stay.
set_all(d) ==
  /\ call = Idle /\ d \in DOMAIN desc
  /\ \E r \in menu[d] :
       /\ r.layer_count # 0
       /\ desc' = [desc EXCEPT ![d].req = r]
  /\ UNCHANGED <<build, caps, menu, call, buffer>>

destroy_descriptor(d) ==
  /\ call = Idle /\ d \in DOMAIN desc
  /\ desc' = Without(desc, d)
  /\ UNCHANGED <<build, caps, menu, call, buffer>>

(***************************************************************************)
(* The kind of allocation a format makes, "none" if there is no such kind; *)
(* a format without modifiers makes none and the last one stays.           *)
(***************************************************************************)
type_of(f, usage, last) ==
  LET tiled == IF "AFBC_WIDEBLK" \in f.mods THEN "AFBC_TILED_HEADERS_WIDEBLK"
               ELSE IF "AFBC_BASIC" \in f.mods THEN "AFBC_TILED_HEADERS_BASIC"
               ELSE "none"
  IN IF f.mods \cap Blocks = {} THEN last
     ELSE IF "AFBC_TILED_HEADERS" \in f.mods THEN tiled
     ELSE IF "PRIVATE_2" \in usage THEN "AFBC_PADDED"
     ELSE IF "AFBC_WIDEBLK" \in f.mods THEN "AFBC_WIDEBLK"
     ELSE "AFBC"

\* The switch over the base format.
stride_and_size(b, w, h, usage, type, video) ==
  LET plain == type = "UNCOMPRESSED"
  IN CASE b \in {"RGBA_1010102", "RGBA_8888", "RGBX_8888", "BGRA_8888"} -> rgb_stride_and_size(w, h, 4, type)
       [] b = "RGB_888" -> rgb_stride_and_size(w, h, 3, type)
       [] b = "RGB_565" -> rgb_stride_and_size(w, h, 2, type)
       [] b \in {"YCrCb_420_SP", "YV12", "NV12", "NV21"} ->
            yv12_stride_and_size(w, h, type, IF IsSoftware(usage) THEN 16 ELSE 128, video)
       [] b = "YCbCr_422_I" /\ plain -> yuv422_8bit_stride_and_size(w, h)
       [] b \in CameraFormats /\ plain -> camera_formats_stride_and_size(w, h, b)
       [] b = "Y0L2" -> IF plain THEN yuv_y0l2_stride_and_size(w, h)
                        ELSE yuv420_10bit_afbc_stride_and_size(w, h, type, video)
       [] b = "P010" /\ plain -> yuv_pX10_stride_and_size(w, h, 2)
       [] b = "P210" /\ plain -> yuv_pX10_stride_and_size(w, h, 1)
       [] b = "Y210" -> IF plain THEN yuv_y210_stride_and_size(w, h)
                        ELSE yuv422_10bit_afbc_stride_and_size(w, h, type)
       [] b = "Y410" /\ plain -> yuv_y410_stride_and_size(w, h)
       [] b = "YUV422_8BIT" -> afbc_yuv422_8bit_stride_and_size(w, h, type)
       [] OTHER -> Refused

\* A refusal for a camera format is ignored: what the descriptor had is taken.
IgnoresRefusal(b, type) == b \in CameraFormats /\ type = "UNCOMPRESSED"

\* A bug: the size is left that of one layer.
with_one_layer(size, f, layers) == size

with_layers(size, f, layers) ==
  IF layers <= 1 THEN size
  ELSE layers * (IF f.mods \cap Blocks = {} THEN size
                 ELSE Align(size, IF "AFBC_TILED_HEADERS" \in f.mods THEN 4096 ELSE 128))

\* What an iteration of the loop does to a descriptor: the kind it leaves behind, whether it
\* went on, and the outputs.
lay_out(bld, cps, dsc, last) ==
  LET r == dsc.req
      f == mali_gralloc_select_format(bld, cps, r.hal_format, r.format_type, r.usage, r.width * r.height)
      type == type_of(f, r.usage, last)
      s == IF f = Unsupported \/ type = "none" THEN Refused
           ELSE stride_and_size(f.base, r.width, r.height, r.usage, type, bld.video)
      stale == ~s.ok /\ type # "none" /\ IgnoresRefusal(f.base, type)
      pixel_stride == IF s.ok THEN s.pixel_stride ELSE dsc.out.pixel_stride
      size == IF s.ok THEN s.size ELSE dsc.out.size
  IN [type |-> type, goes_on |-> s.ok \/ stale,
      out |-> [size |-> IF s.ok \/ stale THEN with_layers(size, f, r.layer_count) ELSE size,
               byte_stride |-> CASE s.ok -> s.byte_stride [] stale -> pixel_stride
                                 [] OTHER -> dsc.out.byte_stride,
               pixel_stride |-> pixel_stride,
               internalHeight |-> r.height + (IF s.ok THEN s.extra ELSE 0),
               internal_format |-> f]]

(***************************************************************************)
(* mali_gralloc_buffer_allocate over the descriptors s.                    *)
(***************************************************************************)
allocate(s) ==
  /\ call = Idle
  /\ \A i \in 1 .. Len(s) : s[i] \in DOMAIN desc /\ desc[s[i]].req # Zero.req
  /\ call' = [Idle EXCEPT !.todo = s]
  /\ buffer' = Empty
  /\ UNCHANGED <<build, caps, menu, desc>>

\* A bug: a descriptor that is refused is left out and the call goes on.
LayOutOrSkip ==
  /\ call.todo # <<>>
  /\ LET d == Head(call.todo)
         l == lay_out(build, caps, desc[d], call.alloc_type)
     IN /\ desc' = [desc EXCEPT ![d].out = l.out]
        /\ call' = [todo |-> Tail(call.todo), alloc_type |-> l.type,
                    done |-> IF l.goes_on THEN Append(call.done, d) ELSE call.done]
  /\ UNCHANGED <<build, caps, menu, buffer>>

\* A bug: a descriptor that has a size is not measured again.
LayOutOnce ==
  /\ call.todo # <<>>
  /\ LET d == Head(call.todo)
         l == lay_out(build, caps, desc[d], call.alloc_type)
     IN /\ desc' = IF desc[d].out.size # 0 THEN desc ELSE [desc EXCEPT ![d].out = l.out]
        /\ call' = IF l.goes_on
                   THEN [todo |-> Tail(call.todo), done |-> Append(call.done, d), alloc_type |-> l.type]
                   ELSE Idle
  /\ UNCHANGED <<build, caps, menu, buffer>>

\* One iteration; what is not supported ends the call.
LayOut ==
  /\ call.todo # <<>>
  /\ LET d == Head(call.todo)
         l == lay_out(build, caps, desc[d], call.alloc_type)
     IN /\ desc' = [desc EXCEPT ![d].out = l.out]
        /\ call' = IF l.goes_on
                   THEN [todo |-> Tail(call.todo), done |-> Append(call.done, d), alloc_type |-> l.type]
                   ELSE Idle
  /\ UNCHANGED <<build, caps, menu, buffer>>

Ended == call.todo = <<>> /\ call.done # <<>>
Done == {call.done[i] : i \in 1 .. Len(call.done)}

\* mali_gralloc_ion_allocate: nothing can be allocated or mapped with a size of 0.
ion_allocate ==
  /\ Ended
  /\ \A d \in Done : desc[d].out.size # 0
  /\ buffer' = [d \in Done |-> desc[d]]
  /\ call' = Idle
  /\ UNCHANGED <<build, caps, menu, desc>>

ion_allocate_fails ==
  /\ Ended
  /\ call' = Idle
  /\ UNCHANGED <<build, caps, menu, desc, buffer>>

(***************************************************************************)
(* The planes that software is given: offsets from base.  A handle is the  *)
(* descriptor it copies.                                                   *)
(***************************************************************************)
Lockable(f) == f.mods = {} /\ f.base \in {"NV12", "NV21", "YV12"}

luma_size(hnd) == hnd.out.byte_stride * Align(hnd.req.height, 2)
chroma_stride(hnd) ==
  IF hnd.out.internal_format.base = "YV12" THEN Align(hnd.out.byte_stride \div 2, 16)
  ELSE hnd.out.byte_stride

\* Where the second of the chroma planes begins, after the first.
second(hnd) ==
  IF hnd.out.internal_format.base = "YV12" THEN chroma_stride(hnd) * (Align(hnd.req.height, 2) \div 2)
  ELSE 1

lock_ycbcr(hnd) ==
  LET cb_first == hnd.out.internal_format.base = "NV12"
      first == luma_size(hnd)
  IN IF ~Lockable(hnd.out.internal_format) THEN Refused
     ELSE [ok |-> TRUE, y |-> 0, ystride |-> hnd.out.byte_stride, cstride |-> chroma_stride(hnd),
           cb |-> IF cb_first THEN first ELSE first + second(hnd),
           cr |-> IF cb_first THEN first + second(hnd) ELSE first,
           chroma_step |-> IF hnd.out.internal_format.base = "YV12" THEN 1 ELSE 2]

\* Each plane: the component, where it starts, the steps right and down, the subsampling.
plane(component, top_left, h_increment, v_increment, subsampling) ==
  [component |-> component, top_left |-> top_left, h_increment |-> h_increment,
   v_increment |-> v_increment, subsampling |-> subsampling]

lock_flex_async(hnd) ==
  LET b == hnd.out.internal_format.base
      step == IF b = "YV12" THEN 1 ELSE 2
      chroma(component, at) == plane(component, at, step, chroma_stride(hnd), 2)
  IN IF ~Lockable(hnd.out.internal_format) THEN <<>>
     ELSE <<plane("Y", 0, 1, hnd.out.byte_stride, 1),
            chroma(IF b = "NV12" THEN "Cb" ELSE "Cr", luma_size(hnd)),
            chroma(IF b = "NV12" THEN "Cr" ELSE "Cb", luma_size(hnd) + second(hnd))>>

\* A modifier does not change the number of planes, it only makes the locks refuse.
get_num_flex_planes(hnd) ==
  IF hnd.out.internal_format.base \in {"NV12", "NV21", "YV12"} THEN 3 ELSE 0

LayoutNext ==
  \/ \E d \in Descriptors : create_descriptor(d) \/ set_all(d) \/ destroy_descriptor(d)
  \/ \E d \in Descriptors : allocate(<<d>>) \/ \E e \in Descriptors \ {d} : allocate(<<d, e>>)
  \/ LayOut \/ ion_allocate \/ ion_allocate_fails

LayoutSpec == LayoutInit /\ [][LayoutNext]_layoutVars

(***************************************************************************)
(* Properties.                                                             *)
(***************************************************************************)
\* The types: a kind of allocation is always one of the enum, what is refused leaves none.
LayoutTypeOK ==
  /\ build \in Build /\ caps \in [dpu : SUBSET Caps, gpu : SUBSET Caps, vpu : SUBSET Caps]
  /\ menu \in [Descriptors -> SUBSET Request]
  /\ DOMAIN desc \subseteq Descriptors /\ \A d \in DOMAIN desc : desc[d] \in Descriptor
  /\ DOMAIN buffer \subseteq Descriptors /\ \A d \in DOMAIN buffer : buffer[d] \in Descriptor
  /\ call \in [todo : Seq(Descriptors), done : Seq(Descriptors), alloc_type : AllocTypes]

\* The least an image takes.  Uncompressed: pixels in their smallest groups, without padding.
Up(x, n) == (x + n - 1) \div n
PlainBytes(b, w, h) ==
  CASE b \in {"RGBA_1010102", "RGBA_8888", "RGBX_8888", "BGRA_8888", "Y410"} -> 4 * w * h
    [] b = "RGB_888" -> 3 * w * h
    [] b \in {"RGB_565", "RAW16"} -> 2 * w * h
    [] b \in {"YCrCb_420_SP", "YV12", "NV12", "NV21"} -> w * h + 2 * Up(w, 2) * Up(h, 2)
    [] b = "YCbCr_422_I" -> 4 * Up(w, 2) * h
    [] b = "RAW12" -> 3 * Up(w, 2) * h
    [] b = "RAW10" -> 5 * Up(w, 4) * h
    [] b = "Y0L2" -> 8 * Up(w, 2) * Up(h, 2)
    [] b = "P010" -> 2 * w * h + 4 * Up(w, 2) * Up(h, 2)
    [] b = "P210" -> 2 * w * h + 4 * Up(w, 2) * h
    [] b = "Y210" -> 8 * Up(w, 2) * h
    [] OTHER -> w * h

\* Compressed: every superblock of 256 pixels has a header of 16 bytes and room for all its
\* bits; tiled headers make groups of 8 by 8 superblocks.
BitsPerPixel(b) ==
  CASE b \in {"RGBA_1010102", "RGBA_8888", "RGBX_8888", "BGRA_8888"} -> 32 [] b = "RGB_888" -> 24
    [] b \in {"YCrCb_420_SP", "YV12", "NV12", "NV21"} -> 12 [] b = "Y0L2" -> 15 [] b = "Y210" -> 20
    [] OTHER -> 16
AfbcBytes(f, w, h) ==
  LET tile == IF "AFBC_TILED_HEADERS" \in f.mods THEN 8 ELSE 1
      across == tile * (IF "AFBC_WIDEBLK" \in f.mods THEN 32 ELSE 16)
      down == tile * (IF "AFBC_WIDEBLK" \in f.mods THEN 8 ELSE 16)
      superblocks == (Up(w, across) * across * Up(h, down) * down) \div 256
  IN superblocks * (16 + 32 * BitsPerPixel(f.base))

\* The code ignores that it cannot lay these out.
CameraRefused(dsc) ==
  dsc.out.internal_format.base \in CameraFormats
    /\ ~camera_formats_stride_and_size(dsc.req.width, dsc.req.height, dsc.out.internal_format.base).ok

\* Half of an odd height is rounded down before it is aligned.  A format without modifiers may be
\* laid out like that too, by the kind of an earlier descriptor: its byte stride is then not that
\* of the uncompressed layout.
OddRows(dsc) ==
  /\ dsc.out.internal_format.base = "Y0L2" /\ dsc.out.internalHeight % 2 = 1
  /\ \/ dsc.out.internal_format.mods \cap Blocks # {}
     \/ dsc.out.byte_stride # yuv_y0l2_stride_and_size(dsc.req.width, dsc.req.height).byte_stride

\* A handle has room for all its layers, whatever the kind of allocation that an earlier
\* descriptor of the call left behind, how the descriptor was used before and what the usage
\* made of its format.  Two exceptions the code makes are named: camera formats that cannot be
\* laid out, and Y0L2 laid out as compressed with an odd height.
HoldsImage ==
  \A d \in DOMAIN buffer :
    LET hnd == buffer[d]
        f == hnd.out.internal_format
    IN ~CameraRefused(hnd) /\ ~OddRows(hnd) =>
         hnd.out.size >= hnd.req.layer_count *
           (IF f.mods \cap Blocks = {} THEN PlainBytes(f.base, hnd.req.width, hnd.req.height)
            ELSE AfbcBytes(f, hnd.req.width, hnd.out.internalHeight))

\* What software writes through the planes that lock_ycbcr and lock_flex give it stays inside
\* the buffer and inside its plane: the last sample of a plane is before the end, rows do not run
\* into each other, luma ends before chroma, and the chroma planes either follow one another or
\* alternate.  Both locks describe the same planes.
Rows(hnd, p) == Up(hnd.req.height, p.subsampling)
Columns(hnd, p) == Up(hnd.req.width, p.subsampling)
RowBytes(hnd, p) == (Columns(hnd, p) - 1) * p.h_increment + 1
LastByte(hnd, p) == p.top_left + (Rows(hnd, p) - 1) * p.v_increment + RowBytes(hnd, p) - 1
PlanesAreDisjoint(hnd, p) ==
  /\ \A i \in 1 .. 3 : RowBytes(hnd, p[i]) <= p[i].v_increment /\ LastByte(hnd, p[i]) < hnd.out.size
  /\ LastByte(hnd, p[1]) < p[2].top_left
  /\ \/ LastByte(hnd, p[2]) < p[3].top_left
     \/ p[3].top_left = p[2].top_left + 1 /\ p[2].h_increment = 2 /\ p[3].h_increment = 2
        /\ p[2].v_increment = p[3].v_increment /\ RowBytes(hnd, p[3]) < p[3].v_increment
SamePlanes(y, p) ==
  \A i \in 1 .. 3 :
    /\ p[i].top_left = (CASE p[i].component = "Y" -> y.y [] p[i].component = "Cb" -> y.cb [] OTHER -> y.cr)
    /\ p[i].v_increment = (IF p[i].component = "Y" THEN y.ystride ELSE y.cstride)
    /\ p[i].h_increment = (IF p[i].component = "Y" THEN 1 ELSE y.chroma_step)
PlanesInside ==
  \A d \in DOMAIN buffer :
    lock_flex_async(buffer[d]) # <<>> =>
      /\ Len(lock_flex_async(buffer[d])) = get_num_flex_planes(buffer[d])
      /\ PlanesAreDisjoint(buffer[d], lock_flex_async(buffer[d]))
      /\ SamePlanes(lock_ycbcr(buffer[d]), lock_flex_async(buffer[d]))

\* A format that gralloc chose itself uses only what those can do who will use the buffer: the
\* display if it is a framebuffer, the video encoder if it is the one consumer (and YUV only if it
\* can read compressed YUV), the GPU if that renders YUV into it; nobody, in a build whose buffers
\* leave the SoC.
ReadersCanRead ==
  \A d \in DOMAIN buffer :
    LET r == buffer[d].req
        mods == buffer[d].out.internal_format.mods
        yuv == is_android_yuv_format(r.hal_format.base)
    IN IsAutomatic(r.format_type, r.usage) /\ mods # {} =>
         /\ ~build.no_external_afbc /\ ~IsSoftware(r.usage)
         /\ mods \cap Blocks # {}
         /\ "HW_FB" \in r.usage => mods \subseteq caps.dpu
         /\ "HW_VIDEO_ENCODER" \in r.usage /\ "HW_FB" \notin r.usage =>
              mods \subseteq caps.vpu /\ (yuv => "YUV_NOREAD" \notin caps.vpu)
         /\ "HW_RENDER" \in r.usage /\ yuv => "YUV_NOWRITE" \notin caps.gpu

\* What a descriptor is given depends on what it asks for and not on what was allocated with it
\* before: with no compressed descriptor earlier in the call (the kind of allocation is not reset
\* in the loop) and a size the code can tell, the outputs are those of a new descriptor.
LayoutIsOwn ==
  \A i \in 1 .. Len(call.done) :
    LET dsc == desc[call.done[i]]
    IN (\A j \in 1 .. i - 1 : desc[call.done[j]].out.internal_format.mods \cap Blocks = {}) /\ ~CameraRefused(dsc)
         => dsc.out = lay_out(build, caps, [dsc EXCEPT !.out = Zero.out], "UNCOMPRESSED").out
===============================================================================
