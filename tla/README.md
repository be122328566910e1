# Formal models of the yukawa device tree

TLA+ models of the hardware abstraction layers that `device/amlogic/yukawa` implements itself:
the A/B boot control HAL, the HDMI-CEC HAL, the primary audio HAL and gralloc.  TLC checks each
model on small instances; TLAPS proves the most important results for every value of the
constants.  Paths below are relative to `src/`.

## 1. The system

Most of the tree is product configuration, firmware and prebuilt binaries.  The program logic is
in four native libraries loaded by Android services, and two small apps.  The libraries do not
call each other; each interacts with its callers' threads, with other processes that load the
same library, and with the kernel.

| Part | State it keeps | Operations | What is hard about it |
|---|---|---|---|
| Boot control (`hal/bootctrl/boot_control.cc`, `bootloader_message.*`) | the 32-byte `bootloader_control` in /misc; per process `initialized`, `current_slot`, `num_slots` | init, markBootSuccessful, setActiveBootSlot, setSlotAsUnbootable, queries | each operation is an unlocked load - modify - save, with a write and then an fsync; processes die, power is cut, the bootloader changes the same block between boots |
| HDMI-CEC (`hal/hdmicec/hdmi_cec.c`) | one context: option flags, callback, port info, the event thread | open, close, set_option, register callback, send, port queries, logical addresses | the event thread reads each flag in a critical section of its own and calls back outside; close must stop it; open can fail halfway |
| Audio (`hal/audio/audio_hw.c`) | a device and its streams, each with a mutex; the PCMs | open/close, standby, set_parameters, write, read, mic mute | two opposite lock orders; the device's mutex is released before the PCM blocks; standby comes from other threads |
| Echo reference (`hal/audio/audio_aec.c`, `fifo_wrapper.cpp`) | playback flag, two FIFOs of samples and timestamps, a tracker of how far the one is ahead of the other | created and destroyed with an output, written by playback, polled by an echo reference stream | the FIFOs have no mutex and overwrite their oldest entries; the reader polls for 80 ms on an old check; samples and their timestamp are written and read in two steps |
| Gralloc references (`hal/gralloc/mali_gralloc_reference.cpp`) | `private_handle_t` structs: pids, ref_count, base, writeOwner | allocate, import, retain, release, lock, unlock | a handle is copied field by field by binder and by clones, so its fields may describe another struct, in another process |
| Gralloc layout (`mali_gralloc_formats.cpp`, `mali_gralloc_bufferdescriptor.cpp`, `mali_gralloc_bufferallocation.cpp`, planes in `mali_gralloc_bufferaccess.cpp`) | descriptors; capabilities of display, GPU and video blocks | choose a format, compute strides and sizes, name the planes | twelve functions whose arithmetic must agree with the planes and the image; state kept from one descriptor to the next |
| Gralloc allocation (`mali_gralloc_bufferallocation.cpp`, `mali_gralloc_ion.cpp`, `gralloc_buffer_priv.cpp`, `mali_gralloc_debug.cpp`) | globals for the interface and the heaps, file descriptors, handles, the list for dumps, backing store ids | allocate several buffers, free them, dump | first calls of several threads without a lock, roll-back after partial failure |
| Lights, hotword mute toggle, remote sync receiver, sensor lists | LED files; the last mute state; nothing; nothing | set light; poll the mute switch; forward an intent; tables | polling against lifecycle callbacks, in the mute toggle only |

What makes each part correct:

- Boot control: a slot marked successful can be booted; exactly one slot is the one to try next;
  a slot that never succeeds is given up after a bounded number of boots; an operation changes the
  slot it names and nothing else, entirely or not at all; the verity bit of a running slot stays.
- HDMI-CEC: nothing runs on a freed context; close terminates; an option that is switched off
  takes effect at once, but for one message or callback already decided; `is_connected` tells the truth.
- Audio: no deadlock; nobody is in a closed PCM; the playback flag agrees with what plays; the
  FIFOs exist while they are used; mute takes effect at once but for audio already under way.
- Echo reference: a read is whole, ends, and carries the time of its first sample, as far as the
  code keeps count; time does not go back.
- Gralloc: a handle's mapping lives exactly as long as its references; nothing is freed twice; a
  buffer has room for its image and its planes lie in it; everyone who uses it can read its format;
  a failure at any point loses nothing and touches nothing of others.

The hazards, each at its line with the properties that cover it, are in `PROJECT.json`.

## 2. The modules

| Module | What it is |
|---|---|
| `BootControl` | the HAL, /misc, the bootloader and the faults, as load - save - fsync steps |
| `SlotTable` | what the boot control HAL promises: a table with atomic operations |
| `BootControlProofs` | proofs about `BootControl`, the refinement of `SlotTable` among them |
| `HdmiCec` | the context, the event thread, the client threads and the driver's queues |
| `HdmiCecProofs` | proofs about `HdmiCec` |
| `AudioDevice` | streams, device and locks of the audio HAL, and the life of the echo reference |
| `AudioDeviceProofs` | proofs about `AudioDevice` |
| `GrallocReference` | handles, their copies, counts and mappings in several processes |
| `BufferLifetimes` | what gralloc promises of mappings: each there as long as it has users of its own |
| `GrallocReferenceProofs` | proofs about `GrallocReference`, the refinement of `BufferLifetimes` among them |
| `AecReference` | samples and timestamps in the FIFOs of the echo reference, and what a read makes of them |
| `AecReferenceProofs` | proofs about `AecReference` |
| `GrallocFormats` | which format a buffer gets: pure operators |
| `GrallocSizes` | stride and size of every kind of buffer: pure operators |
| `GrallocLayout` | descriptors, the loop that lays out the buffers of a call, and the planes of a locked buffer; uses the two before |
| `GrallocLayoutProofs` | proofs about `GrallocLayout` and the operators it uses |
| `GrallocAllocation` | capabilities, heaps, file descriptors and handles under several allocating threads |
| `GrallocAllocationProofs` | proofs about `GrallocAllocation`: types, capabilities, the list |
| `GrallocDescriptorProofs` | proofs about its file descriptors, its globals, and the memory and backing store ids of buffers |
| `MC...` | instances for TLC: symmetry sets; for the buffers, menus of requests and the two machines side by side |

Each module keeps the control of its code - guards, early returns, error paths, the order of
stores - and abstracts data to what the properties tell apart.  Operators that change an action
the way a bug would (their comments say what is wrong) stand beside the action; no specification
uses them, `PROJECT.json` lists them as mutants, one per checked property, to show that the
property depends on that code.

### BootControl

`misc` is the block as any reader sees it (the page cache), `disk` the block a power cut leaves;
`Fsync` and the kernel's `Writeback` copy one to the other.  A process is at `start` until
`BootControlInit` succeeded; an operation loads the block (`Load` fails on a bad CRC), puts its
modified copy into `copy` (`saving`), writes it (`written`) and fsyncs; a failed save leaves
either the old or the new block visible.  The three modifications are pure operators (`Marked`,
`Demoted` / `Activated`, `Unbootable`), so that the proofs can speak of them without states.  The
bootloader (`BootSlot`, `Reflash`, ...) is external: it is what the checks of `boot_control.cc`
presume.  `nb_slot` is presumed to be at most 4, as the block has 4 entries.

### HdmiCec

`life` is where open or close is, `thread` where `event_thread` is.  A step of the thread ends
where another thread can come in between: `poll`, after `CEC_DQEVENT`, between the flag and the
callback, and so on; each `options_lock` section is one step.  A message is one that passes in
standby (`vital`), one that does not (`ordinary`) or one with a bad status (`broken`).  The
driver's queues are bounded by `QueueLen`.  An event is taken to show up as `POLLERR`, as the code
presumes.  The caller closes the device with no other call in progress.

### AudioDevice

`pc[t]` is where each thread is, `obj[t]` the stream it was called for, `owner` who holds each
mutex.  A step runs from one point of interference to the next: taking a mutex, blocking in a
PCM, touching the FIFOs.  It is the build without `AEC_HAL`, whose library is not in the tree, so
the reference is read by echo reference streams only.  The caller is AudioFlinger: one reader or
writer per stream, standby and set_parameters from any thread, standby before close.

### GrallocReference

A `Struct` is a `private_handle_t` in one process.  `Send` is binder or `native_handle_clone`: the
copy keeps pids, count and address.  `import_buffer` either takes the copy for already mapped
because a pid in it is its own (`ImportKnown`), or maps it (`ImportMaps`), or fails and loses the
clone (`ImportFails`).  `held` counts the callers' references, apart from `ref_count`; `own` is
history and tells whether this very struct made its mapping.  Addresses are few, so that a stale
address may hold another buffer.  A dead process is followed by one with its pid.  `unsynced` counts
unlocks that did not call `mali_gralloc_ion_sync`; that function itself returns at once unless the
interface is legacy ION.

`BufferLifetimes` has mappings and their users only, no structs, pids or counts in them.
`GrallocReference` implements it with `mapping <- maps` and `users <- Users`, the references held to
the struct that made the mapping (`Owner`).  Callers of a copy are no users: that the code does not let
them keep a mapping is the finding of `gralloc_local_clone`.
A mapping that no release will unmap (`MappingHasOwner`) is one whose users are 0, which the abstract
specification rules out, so the run checks the refinement and no invariant of its own for it.

### AecReference

A sample is its position among all that were written, a timestamp the position of the first sample
of its packet, so `StampLags` can say which time a read should be given.  A step is one call into a
FIFO with the arithmetic after it.  The FIFO of audio_utils is external: it overwrites (`Overrun`),
and the reader's next call reports that once and goes on with what is left or with what comes
(`CatchUp`).  The writer's look at the queues for the log is such a call, and so takes the report
from the reader.  `skipped` is history: samples that went by without being counted in
`read_write_diff_bytes`, because a read found no timestamp, a FIFO was overwritten or the tracker
was reset; `dropped` are samples between two timestamps that follow each other in the FIFO.  What
the reader is due is the position of its first sample corrected by both.  `misread` is set when a
FIFO gives nothing after it said that it had something; the code does not look at that, nothing is
claimed until the next flush.  `available_bytes` is signed and `req_bytes` is not, so the error
branch of the poll, which `audio_aec.h` documents as `-ENOMEM`, is never taken, and the model has
none.

### GrallocFormats, GrallocSizes, GrallocLayout

A format is a base and a set of modifiers, a usage and a capability mask are sets of names, so that
masking is intersection.  There is one operator per function of the code.  `GrallocLayout` puts them
into the loop of `mali_gralloc_buffer_allocate`, one iteration a step: what a descriptor was given
before, and the `alloc_type` that an earlier descriptor left, are part of the state.  The planes are
computed from the handle as `mali_gralloc_bufferaccess.cpp` does it.  A setting is a build (versions
of the display and video blocks, macros), what the composer and GLES libraries publish, and what the
clients ask for.  Sizes are presumed small enough for an int.  `HoldsImage` names the two cases where
the code does not leave enough room: a camera format it cannot lay out keeps what the descriptor had, and
compressed Y0L2 with an odd height halves it before aligning.  The second also strikes a Y0L2 request
without modifiers that an earlier descriptor of the call left a compressed kind for, unless the width is
so small that alignment makes up for it.

### GrallocAllocation

Each access to the unlocked globals is a step, so is each system call, and each may fail.  `fds` is
the table of file descriptors, where the lowest free number is given; this is what makes a stale
number dangerous.  `handles` are the structs, `dumped` the list of the dump, `thr` where each thread
is with its local variables, `given` the two counters of `getUniqueId`.  Accesses to globals are presumed
to be sequentially consistent.  `lost` ends the behaviour where the code runs into something the model
cannot go on from: `alloc_from_ion_heap` goes on with a variable it never set (unless its value is a
negative number), or two first calls fail, close the same global descriptor one after the other, and
the second close hits what a third thread was given in between.  `dropped` has the descriptors the code loses by itself: when a dup fails
before the largest buffer's turn, and when two first calls store into the same global.

## 3. The runs

| Run | Instance | Shows |
|---|---|---|
| `boot_serial` | 1 process, 3 slots of which 2 are managed, real tries | types, initialization, refinement of `SlotTable` through crashes and failed saves |
| `boot_concurrent` | 2 processes, 2 slots, 1 try | what unlocked sequences still keep: successful slots boot, one is active, attempts are bounded, verity stays |
| `boot_unset_property` | 1 process | violation: see findings |
| `cec_safety` | 2 clients, queues of 1, fairness | no use after free, late deliveries at most one, connection state is fresh, close returns |
| `cec_open_result` | 1 client | violation: see findings |
| `audio_one_output` | 4 threads on one output, one microphone, one echo reference | no deadlock, PCMs open, playback flag, FIFOs of the writer, prompt mute |
| `audio_two_outputs` | 2 threads, 2 outputs | violation: see findings |
| `audio_reference` | 2 threads, output and echo reference | violation: see findings |
| `audio_echo` | packets of 1 and 3, reads of 2, FIFOs of 4 samples and 2 timestamps, 3 packets per opening, 2 openings, fairness | which time a read is given, that it is whole and that it returns |
| `gralloc_reference` | 2 processes, 2 structs and a copy under way, 2 buffers, 2 addresses, counts to 3 | mappings and counts agree, nothing freed twice, writes synced; refinement of `BufferLifetimes` |
| `gralloc_local_clone` | the same | violation: see findings |
| `gralloc_buffers` | layout: 7 builds, some 3500 requests alone and pairs of descriptors; allocation: 2 threads, 3 kernels, 2 calls of up to 2 buffers, 7 file descriptors, 4 handles; and 3 threads racing through their first call, for a framebuffer, on the modern kernel | rooms, planes, formats; file descriptors, handles, ids and the dump list through every failure |

Why these bounds are enough to meet the hazards: two processes suffice for a lost update in
boot control, as a save depends on one load; a third slot that is not managed shows that it is
left alone, and one try lets tries run out at once.  In CEC one message and one event wait
while the thread is busy with others, and two clients race for `port_info`.  In audio, four threads are a writer, a
reader, an echo reader and a controller, every lock is contended, and a cycle would need no more
than two of the three kinds of lock order.  In gralloc two structs and a parcel are an original, a
copy and a copy of a copy; two addresses and two buffers let a stale address point to nothing or
to the wrong buffer.  In the echo reference one packet is smaller than a read and one larger, three of
them overflow either FIFO alone and both, and the second opening starts with what the tracker kept.
In the layout of buffers the menus have every kind of base format with every sort of modifiers, odd sizes,
sizes at and beyond one block and one tile, and layers; every usage that `determine_producer` and
`determine_consumer` tell apart, on builds where the display, the GPU or the encoder lack what the
others can do; and pairs of which the first leaves a kind of allocation, or an output, to the second.
In allocation two calls make two threads race through the first initialization, or one allocate
while the other frees; two buffers share memory, have their own, or fail one after the other; four
handles and seven descriptors are what two calls can use.  The third thread is there for what two
failing first calls can do to a bystander; its calls need no more than the initialization and one
descriptor, so the race asks for framebuffers only.  Symmetry is used for threads, processes, handles, buffers and addresses only
with safety properties.

Deadlock checking is on in every run.  In `gralloc_buffers` it says little, as a dump is always possible.

### Fairness

Two runs use it.  `cec_safety`: weak fairness of the event thread's step (the scheduler runs a thread
that is runnable; `poll` returns when the exit descriptor is readable) and of the join that follows
its exit.  Nothing is assumed of the clients or of the driver, which may deliver without end.
`audio_echo`: weak fairness of `get_reference_samples`, that is, the capture thread runs and `usleep`
returns.  Nothing is assumed of playback, which may stop in the middle of a write.

### Findings

1. `boot_unset_property`: the comment at `boot_control.cc:113` says that without
   `ro.boot.slot_suffix` the slot is taken from the block later; the code compares the block with
   the missing property and gives up.
2. `cec_open_result`: `open_hdmi_cec` returns `-errno` on every failure, but two failures leave
   errno alone, so open may return 0 without a device.
3. `audio_two_outputs`: the playback flag is one for the device, and any output that goes into
   standby or is opened clears it while the other still plays.
4. `audio_reference`: the FIFOs can be released while `get_reference_samples` polls them.
5. `gralloc_local_clone`: importing a local clone only increments the copied count; when the
   original is released the clone's address is stale.

## 4. The proofs

The theorems hold for every number of processes, slots, clients, callbacks, queue lengths, FIFO
capacities and packet sizes that the modules' named ASSUMEs allow; TLC evaluates these ASSUMEs in every run.

*BootControl.*  `TypeInvariant` rests on lemmas that the pure operators map blocks to blocks.
`DeviceInv /\ ProcessInv` is inductive and says that a process that is in an operation was
initialized in this boot and writes a block of this boot; `Initialized` follows.  The block
properties are not inductive, since a stale copy may overwrite the block: `GoodInv`, `ActiveInv`
and `AttemptInv` state them of every copy about to be saved as well.  `BlockFlow` says where a
step's new block can come from (the old one, a copy, the bootloader), and one lemma per property says that
`Apply` keeps it.  `VerityInv` needs that a copy agrees with the block on the running slot, which
holds as no operation changes that bit of a running slot.  `Refinement` assumes one process:
`AtomicInv` says that its copy is the operation applied to the current block, so that the save is
a step of `SlotTable` and everything else a stutter or a loss of what was not stable.

*HdmiCec.*  `LifeInv` relates the context to its thread and clients (`NothingOutlivesTheContext`).
`LateInv` says that once CEC is off, a late call uses up the one check the thread has already made
(`DisablingIsPrompt`); `HeldInv` and `StandbyInv` do the same for standby (`StandbyIsPrompt`).
`SeenInv` says that both the port's state and the shared `port_info` are among the states seen by
every caller that is about to read it (`ConnectedIsFresh`).

*AudioDevice.*  `TypeOK` is inductive only together with `ObjInv`, that a thread's stream fits what it is
doing (`TypedCalls`).  `LockInv` reads off a thread's place which mutexes it holds;
`StreamInv` and `OpenInv` then say who may open or close a PCM (`NobodyInAClosedPcm`), and `ToldInv`,
for one output, that the playback flag, the active output and the FIFOs agree with the stream
(`OneOutputIsTold`, `OneWriterHasReference`; with two outputs the flag is wrong, see the findings).
`LocksAreOrdered` needs no induction over threads: rank the mutexes input streams < device < output
streams < canceller; by `LockInv` everyone waits for a mutex of a higher rank than all it holds, so
in a set of threads that wait for one another the one that waits for the highest has no partner.

*GrallocReference.*  `TypeInvariant` includes `CountInv`, without which freeing a struct would leave
references to it: a struct that made its mapping counts exactly its callers' references, a copy
more, and a handle under way is a copy with a positive count.  So only the maker's count reaches zero
(`CopiesNeverFree`).  `OwnerInv` puts the structs that made a mapping and are still referred to in one
to one correspondence with the mappings, which gives both `OwnMappingStaysMapped` and
`NoMappingLeaks`: no other struct's release can unmap the address.  It also makes `Users` well defined
(`UsersCounted`), and a step for one struct changes the users of the mapping it owns and of no other
(`UsersStep`); so each action is a step of `BufferLifetimes` or changes neither mappings nor users
(`LifetimesImplemented`), an import that takes a copy for mapped being one of the latter.  `WriterInv` says that whoever has
locked for writing has `writeOwner` set and keeps a reference (`WritersSync`).

*AecReference.*  `TrackInv` says that `read_write_diff_bytes` is how far the samples are ahead of the
timestamps, but for what was lost count of (`skipped` and `dropped`); `OrderInv` that the packets follow
one another and the unread ones come after the current one.  `TrackInv` has to
speak of a read that is under way, which takes samples and timestamp in two steps with the writer in
between; `TimestampsLag` follows.  `AscendInv` bounds the timestamps handed out by those to come
(`TimestampsAscend`).  `WholeInv` says that samples leave the FIFO unread only when they are overwritten, so
a read that saw enough samples gets them (`ReadsAreWhole`).

*GrallocAllocation.*  The types are inductive only with `PlaceInv`, which says for each place in the call
which of its handles a thread has made, so that the roll-back and the loops after it find a struct where
they look for one (`AllocTypeInvariant`).  `CapsInv`: only the holder of the mutex clears and fills the
capabilities, and only while `read` is off (`CapsAreFinal`).  `BusyInv` says that what a thread has in hand
exists and is nobody else's, `DumpInv` that every handle is in somebody's hands or on the list, and that the
list names no other; a roll-back may leave a cleared struct there, but no deleted one (`DumpsReadLive`).
For the descriptors, `OwnInv` says that no two handles have one in common and of which kind each is; that
while a call shares memory, the descriptor it was allocated with belongs to nobody before the largest buffer's
turn, and then to that one; and that a thread in `initialize_interface` holds an open system heap.  So
closing what a handle has never closes anything else, and `GlobalInv` follows, which adds that dma-buf
heaps are only chosen where the kernel has them (`GlobalsAreOpen`).  `RegionInv`: an attribute region is
allocated for a handle that has none.  With `CmaInv`, for the window in which the system heap is held by
a thread and the global may be another's, each open descriptor is accounted for (`DescriptorsAreKept`).
`MemoryInv` says how far each handle of a call is (`FilledOK`), so that one nobody is busy with any more is
mapped, numbered and has its region; that a buffer without a number shares its memory with handles of its
own call only (`LooseOK`, and `GroupOK` while they are duplicated); and that numbers tell memories apart,
which the next number keeps up as it is either new or that of the call's first buffer (`BuffersAreOwn`).

*GrallocLayout.*  Sizes first, for every width and height: aligning loses nothing (`AlignFacts`) and an image
aligned for a kind of allocation is a whole number of blocks (`InBlocks`), so each stride and size function
has room for the pixels, and, compressed, for every superblock with its header; `StrideAndSize` puts the
cases of the switch together and `SuperblocksFit` compares the groups of superblocks a format needs with the
alignment of the kind it makes.  Y0L2 is apart: `Y0L2Superblocks`, `Y0L2Even` and `Y0L2Narrow` are the cases
that fit.  Products of unknowns are beyond the arithmetic of the provers: they are named, compared by
`MulMono`, and what is left is linear.  The invariant, `LayoutInv`, follows the loop: whatever was laid out
was chosen for its own request and measured for some kind of allocation, namely UNCOMPRESSED if no
compressed descriptor came before it in the call (`DoneInv`); a descriptor is not in a call twice, so
a later iteration does not replace it (`CallInv`); and a handle is one of those (`BufferInv`).  A handle that
was measured has room (`ImagesAreHeld`), its planes are within `bs * rows` and `c * rows` (`PlanesHeld`, hence
`PlanesAreInside`), and its outputs are those of a new descriptor (`LayoutsAreOwn`).  `Selected` is about
the choice: modifiers come out of the masks of producer and consumer, and tiled headers never come alone as
whoever has them has the basic block (`WellFormed`, which the ASSUME has of what the libraries publish and
`DeterminedCaps` carries over to what becomes of it) (`ReadersAreAble`).

*MuteIsPrompt.*  `ReaderInv`: a stream has one reader at a time.  So the microphone streams whose reader saw the
microphone unmuted and has yet to return are a set (`Late`), from which each late return takes one away and
to which nothing comes while muted: `MuteInv` adds them to the count (`MutesPromptly`).

Each inductive invariant was checked with TLC before it was proved.  Two attempts at a proof changed the model:
`HoldsImage` was false for plain Y0L2 after a compressed descriptor, which the menus did not have; and a CASE
with overlapping guards, which does not say what an if-chain says, became IF - ELSE in `type_of`,
`with_layers` and `producer`.

Only model-checked: `CloseReturns` and `ReadReturns`, as liveness is outside the prover's reach.  Properties
that a violation run refutes have no theorem, of course.

## 5. Not modelled

- Audio: getters, buffer sizes, the FIR equalizer (arithmetic on one stream's samples), channel maps
  and resampling, `process_aec` (built only with a library outside the tree).
- Gralloc: `mali_gralloc1_validate_buffer_size`, heap flags that are only passed on, the initialization of
  AFBC headers, `ion_sync`, device close, getters and setters over one handle or its attribute page, the
  packed `req_width` and `req_height`; overflow of an int; the framebuffer device and vsync, which this
  product does not use; legacy entry points, the text of the dump, module tables.
- The `bootloader_message` at offset 0 of /misc: its readers, recovery and the bootloader, are outside
  the tree, so nothing in it says what a lost message breaks.  The lights HAL (writes under one lock).
- The mute toggle: one thread polls a value the audio service owns; its states are those of
  Android's service lifecycle.
- Remote sync receiver, sensor tables (no state), the CEC test program, build files, overlays, sepolicy,
  firmware and other binaries.

## 6. Plan

Boot control, CEC, audio streams and gralloc references came first, then the contents of the echo
reference and the layout and allocation of buffers.  Every safety property that a passing run checks is
proved.  What is left: gralloc's allocation composed with its references, so that what is released
while another call fails goes through `ref_count`.
