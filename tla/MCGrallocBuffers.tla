--------------------------- MODULE MCGrallocBuffers ---------------------------
\* Instances of GrallocLayout and GrallocAllocation for TLC, side by side: a behaviour is one of the
\* one or one of the other.
EXTENDS GrallocLayout, GrallocAllocation, TLC

CONSTANT Third  \* one of the threads

VARIABLE side

Yukawa == [display |-> 0, video |-> 0, display_size |-> 0, gpu_afbc |-> FALSE, no_external_afbc |-> TRUE]
Juno == [display |-> 650, video |-> 550, display_size |-> 1000, gpu_afbc |-> TRUE, no_external_afbc |-> FALSE]
Video61 == [Juno EXCEPT !.video = 61, !.display = 550, !.display_size = 0]

Basic == {"OPTIONS_PRESENT", "AFBC_BASIC"}
Rich == Basic \cup {"AFBC_SPLITBLK", "AFBC_WIDEBLK", "AFBC_TILED_HEADERS"}
\* Builds with what the libraries publish there.
Platforms ==
  {<<Yukawa, None, None>>, <<Yukawa, Basic, Rich>>, <<Juno, None, None>>, <<Juno, Basic, Rich>>,
   <<Juno, Rich, Basic \cup {"YUV_NOWRITE"}>>, <<Video61, None, Rich>>, <<Video61, Rich, Rich>>}

Ask(w, h, usage, f, type, layers) ==
  [width |-> w, height |-> h, usage |-> usage, hal_format |-> f, format_type |-> type, layer_count |-> layers]
Plain(b) == [base |-> b, mods |-> {}]

AutomaticUsages ==
  {{"SW_READ", "SW_WRITE"}, {"HW_RENDER", "HW_TEXTURE", "HW_COMPOSER"}, {"HW_RENDER", "HW_FB", "HW_COMPOSER"},
   {"HW_CAMERA", "HW_VIDEO_ENCODER"}, {"HW_RENDER", "HW_VIDEO_ENCODER"},
   {"HW_TEXTURE", "HW_COMPOSER", "EXTERNAL_DISP"}, {"HW_TEXTURE"}, {"HW_TEXTURE", "PRIVATE_2"},
   {"HW_RENDER", "HW_TEXTURE", "PRIVATE_1", "PRIVATE_2"}, {"HW_RENDER", "HW_FB", "HW_VIDEO_ENCODER"}}
AutomaticBases ==
  RgbFormats \cup CameraFormats \cup {"RGBA_1010102", "YV12", "NV12", "NV21", "IMPLEMENTATION_DEFINED",
  "YCbCr_420_888", "YCrCb_420_SP", "YCbCr_422_I", "Y8", "Y0L2", "P010", "Y210"}
Automatic ==
  {Ask(s[1], s[2], u, Plain(b), "USAGE", 1) :
     s \in {<<5, 3>>, <<36, 24>>}, u \in AutomaticUsages, b \in AutomaticBases}

PrivateBases == {"RGBA_8888", "RGB_888", "RGB_565", "NV12", "NV21", "YV12", "Y0L2", "Y210", "Y410", "P010", "P210",
                 "YUV422_8BIT", "RAW10", "BLOB"}
PrivateMods == {{}, {"AFBC_BASIC"}, {"AFBC_WIDEBLK"}, {"AFBC_SPLITBLK"}, {"AFBC_BASIC", "AFBC_TILED_HEADERS"},
                {"AFBC_WIDEBLK", "AFBC_TILED_HEADERS"}, {"AFBC_SPLITBLK", "AFBC_TILED_HEADERS"},
                {"AFBC_TILED_HEADERS"}, {"AFBC_BASIC", "AFBC_WIDEBLK"}}
Sizes == {<<1, 1>>, <<5, 3>>, <<36, 17>>, <<132, 65>>, <<256, 128>>, <<1028, 34>>}
Private ==
  {Ask(s[1], s[2], {"PRIVATE_3"} \cup u, Wrap(b, m), "USAGE", n) :
     s \in Sizes, u \in {{}, {"PRIVATE_2"}}, b \in PrivateBases, m \in PrivateMods, n \in {1, 3}}
Internal ==
  {Ask(s[1], s[2], {"HW_RENDER"}, [base |-> b, mods |-> m], "INTERNAL", 1) :
     s \in {<<5, 3>>, <<36, 17>>}, b \in {"RGBA_8888", "YV12", "NV12", "Y0L2", "RAW12"}, m \in {{}, {"AFBC_BASIC"}}}

\* One descriptor that asks once, and two whose clients ask for this and that.
Alone(r) == [d \in Descriptors |-> IF d = "d1" THEN {r} ELSE {}]
NothingAsked == [d \in Descriptors |-> {}]
Mixed ==
  {[d \in Descriptors |-> IF d = "d1" THEN {Ask(36, 24, {"PRIVATE_3"}, Wrap(b, m), "USAGE", 2),
                                            Ask(5, 3, {"SW_READ"}, Plain("RAW10"), "USAGE", 1)}
                          ELSE {Ask(IF c = "Y0L2" THEN 1024 ELSE 33, IF c = "Y0L2" THEN 33 ELSE 17,
                                    {"SW_WRITE"}, Plain(c), "USAGE", 1),
                                Ask(100, 50, {"SW_WRITE"}, Plain("RGB_565"), "USAGE", 1)}] :
     b \in {"RGBA_8888", "NV12", "Y0L2"}, m \in {{}, {"AFBC_BASIC"}, {"AFBC_WIDEBLK"}, {"AFBC_SPLITBLK", "AFBC_TILED_HEADERS"}},
     c \in {"NV12", "YV12", "RGB_888", "RAW12", "BLOB", "Y0L2"}}

MCDescriptors == {"d1", "d2"}
SettingOf(p, m) == [build |-> p[1], hwcomposer |-> p[2], gles |-> p[3], menu |-> m]
MCSettings ==
  {SettingOf(p, Alone(r)) : p \in Platforms, r \in Automatic}
  \cup {SettingOf(p, Alone(r)) : p \in {<<Yukawa, None, None>>, <<Juno, None, None>>}, r \in Private \cup Internal}
  \cup {SettingOf(p, m) : p \in {<<Yukawa, None, None>>, <<Video61, Rich, Rich>>}, m \in Mixed}
  \cup {SettingOf(<<Yukawa, None, None>>, NothingAsked)}

\* A framebuffer, two buffers that may share memory (the second is the larger), two that may not,
\* and one with a buffer for which there is no heap.
IonAsk(usage, size) == [usage |-> usage, size |-> size]
Framebuffer == <<IonAsk({"HW_FB"}, 1)>>
MCCalls ==
  {Framebuffer,
   <<IonAsk({"SW_READ_OFTEN"}, 1), IonAsk({"SW_READ_OFTEN"}, 2)>>,
   <<IonAsk({"HW_COMPOSER"}, 2), IonAsk({"HW_COMPOSER", "HW_VIDEO_ENCODER"}, 1)>>,
   <<IonAsk({"SW_READ_OFTEN"}, 1), IonAsk({"PROTECTED"}, 1)>>}

Interchangeable == Permutations(Threads \ {Third})

\* Bounds: two threads begin any two calls, or three race to the first framebuffer and keep it, where two
\* of them may fail to find the heaps of ION and close the device.
OnlyTwo == calls' <= 2 /\ thr'[Third] = IdleThread
OnlyFramebuffers == \A t \in Threads : thr'[t].ds \in {<<>>, Framebuffer} /\ thr'[t].pc # "free"

Init ==
  \/ side = "layout" /\ LayoutInit /\ menu # NothingAsked /\ AllocInit /\ kernel = "dmabuf"
  \/ side = "allocation" /\ AllocInit /\ LayoutInit /\ menu = NothingAsked
  \/ side = "race" /\ AllocInit /\ kernel = "modern" /\ LayoutInit /\ menu = NothingAsked
Next ==
  \/ side = "layout" /\ LayoutNext /\ UNCHANGED <<side, allocVars>>
  \/ side = "allocation" /\ AllocNext /\ OnlyTwo /\ UNCHANGED <<side, layoutVars>>
  \/ side = "race" /\ AllocNext /\ OnlyFramebuffers /\ UNCHANGED <<side, layoutVars>>
Spec == Init /\ [][Next]_<<side, layoutVars, allocVars>>
===============================================================================
