----------------------------- MODULE AecReference -----------------------------
(***************************************************************************)
(* What the FIFOs of the echo reference carry (hal/audio/audio_aec.c and   *)
(* fifo_wrapper.cpp): the playback thread puts samples into one and then   *)
(* their timestamp into the other, the capture thread takes samples and    *)
(* then looks for the timestamp of the first, and no mutex covers either   *)
(* pair.  AudioDevice has the streams, the mutexes and the FIFOs' lives.   *)
(*                                                                         *)
(* A sample is its position among all that were written, a timestamp the   *)
(* position of the packet's first sample.  A step is one call into a FIFO  *)
(* with the arithmetic that follows it.  One output and one echo reference *)
(* stream; the output is reopened only while neither is in the HAL, since  *)
(* the FIFOs are freed under whoever uses them (see AudioDevice).          *)
(***************************************************************************)
EXTENDS Integers, Sequences

CONSTANTS
  SpkCapacity, TsCapacity, \* of the FIFOs: bytes, timestamps
  WriteSizes,              \* bytes per out_write
  ReadSize,                \* bytes per get_reference_samples: req_bytes
  Waits,                   \* MAX_READ_WAIT_TIME_MSEC
  EOVERFLOW,
  None,                    \* a timestamp_usec of 0: no timestamp
  MaxPackets, MaxOpens     \* bounds: writes per opening, openings

ASSUME AecReferenceAssumption ==
  /\ SpkCapacity \in Nat \ {0} /\ TsCapacity \in Nat \ {0}
  /\ WriteSizes \subseteq Nat \ {0}
  /\ ReadSize \in Nat \ {0} /\ EOVERFLOW \in Nat \ {0}
  /\ Waits \in Nat /\ MaxPackets \in Nat /\ MaxOpens \in Nat
  /\ None \notin Int

VARIABLES
  spk_fifo, ts_fifo,       \* [front, rear]: how much was taken out and put in
  infos,                   \* every aec_info put into ts_fifo
  spk_running,
  read_write_diff_bytes, last_spk_info,
  writer, reader,          \* where the threads are, with their locals
  opens,
  result,                  \* what the last get_reference_samples did
  skipped,                 \* history: samples that left spk_fifo and were not counted
  dropped,                 \* history: samples between one timestamp the reader got and the next
  handed,                  \* history: the last timestamp that was found
  overflowed,              \* history: samples were overwritten during this read
  misread                  \* history: a FIFO gave nothing after it had been asked, since the last flush

fifos == <<spk_fifo, ts_fifo, infos>>
tracker == <<read_write_diff_bytes, last_spk_info>>
history == <<skipped, dropped, handed, overflowed, misread>>
aecVars == <<fifos, spk_running, tracker, writer, reader, opens, result, history>>

Info == [start : Nat, bytes : Nat]
Fifo == [front : Nat, rear : Nat]
ZeroInfo == [start |-> 0, bytes |-> 0]
EmptyFifo == [front |-> 0, rear |-> 0]
IdleWriter == [at |-> "idle", start |-> 0, bytes |-> 0]
IdleReader == [at |-> "idle", waits |-> 0, first |-> 0, count |-> 0, skipped |-> 0, due |-> 0, stamp |-> None, info |-> ZeroInfo]
NoResult == [code |-> "none", whole |-> TRUE, sound |-> TRUE, due |-> 0, stamp |-> None, previous |-> None]

\* The first sample after a packet.
End(info) == info.start + info.bytes

-----------------------------------------------------------------------------
\* The FIFOs.  The writer never waits: it overwrites the oldest entries, and the reader's next call
\* says -EOVERFLOW, once, and goes on with either all that is there or what comes from now on.

Overrun(fifo, capacity) == fifo.rear - fifo.front > capacity
IsEmpty(fifo) == fifo.rear = fifo.front
CatchUp(fifo, capacity) == {[fifo EXCEPT !.front = fifo.rear - capacity], [fifo EXCEPT !.front = fifo.rear]}

\* fifo_available_to_read, for what it does to the FIFO.
fifo_available(fifo, capacity) == IF Overrun(fifo, capacity) THEN CatchUp(fifo, capacity) ELSE {fifo}
fifo_flush(fifo, capacity) ==
  IF Overrun(fifo, capacity) THEN CatchUp(fifo, capacity) ELSE {[fifo EXCEPT !.front = fifo.rear]}
\* More than fits is cut off.
fifo_write(fifo, n, capacity) == [fifo EXCEPT !.rear = @ + (IF n <= capacity THEN n ELSE capacity)]

\* A FIFO's front moves; the samples in between are lost.
DropSamples(after) == spk_fifo' = after /\ skipped' = skipped + (after.front - spk_fifo.front)

-----------------------------------------------------------------------------
AecInit ==
  /\ spk_fifo = EmptyFifo /\ ts_fifo = EmptyFifo /\ infos = <<>>
  /\ spk_running = FALSE
  /\ read_write_diff_bytes = 0 /\ last_spk_info = ZeroInfo
  /\ writer = IdleWriter /\ reader = IdleReader
  /\ opens = 1
  /\ result = NoResult
  /\ skipped = 0 /\ dropped = 0 /\ handed = None /\ overflowed = FALSE /\ misread = FALSE

\* out_write: the first one after standby says that the speaker runs.
aec_set_spk_running(state) ==
  /\ writer.at = "idle"
  /\ spk_running # state
  /\ spk_running' = state
  /\ UNCHANGED <<fifos, tracker, writer, reader, opens, result, history>>

\* write_to_reference_fifo: samples, timestamp, and the look at both FIFOs for the log, which is a
\* call on the reader's side of them.
write_samples(n) ==
  /\ writer.at = "idle" /\ spk_running
  /\ Len(infos) < MaxPackets
  /\ spk_fifo' = fifo_write(spk_fifo, n, SpkCapacity)
  /\ writer' = [at |-> "stamp", start |-> spk_fifo.rear, bytes |-> spk_fifo'.rear - spk_fifo.rear]
  /\ UNCHANGED <<ts_fifo, infos, spk_running, tracker, reader, opens, result, history>>

write_timestamp ==
  /\ writer.at = "stamp"
  /\ infos' = Append(infos, [start |-> writer.start, bytes |-> writer.bytes])
  /\ ts_fifo' = fifo_write(ts_fifo, 1, TsCapacity)
  /\ writer' = [IdleWriter EXCEPT !.at = "log_spk"]
  /\ UNCHANGED <<spk_fifo, spk_running, tracker, reader, opens, result, history>>

\* print_queue_status_to_log
log_spk_queue ==
  /\ writer.at = "log_spk"
  /\ \E after \in fifo_available(spk_fifo, SpkCapacity) : DropSamples(after)
  /\ overflowed' = (overflowed \/ Overrun(spk_fifo, SpkCapacity))
  /\ writer' = [IdleWriter EXCEPT !.at = "log_ts"]
  /\ UNCHANGED <<ts_fifo, infos, spk_running, tracker, reader, opens, result, dropped, handed, misread>>

log_ts_queue ==
  /\ writer.at = "log_ts"
  /\ \E after \in fifo_available(ts_fifo, TsCapacity) : ts_fifo' = after
  /\ writer' = IdleWriter
  /\ UNCHANGED <<spk_fifo, infos, spk_running, tracker, reader, opens, result, skipped, dropped, handed, overflowed, misread>>

-----------------------------------------------------------------------------
\* in_read of the echo reference.
Return(outcome) ==
  /\ reader' = IdleReader
  /\ result' = outcome

in_read ==
  /\ reader.at = "idle" /\ spk_running
  /\ reader' = [IdleReader EXCEPT !.at = "poll", !.waits = Waits]
  /\ overflowed' = FALSE
  /\ UNCHANGED <<fifos, spk_running, tracker, writer, opens, result, skipped, dropped, handed, misread>>

\* A variant the run must refute: any sample will do.
any_samples ==
  /\ reader.at = "poll"
  /\ ~IsEmpty(spk_fifo)
  /\ \E after \in fifo_available(spk_fifo, SpkCapacity) : DropSamples(after)
  /\ overflowed' = (overflowed \/ Overrun(spk_fifo, SpkCapacity))
  /\ reader' = [reader EXCEPT !.at = "read"]
  /\ UNCHANGED <<ts_fifo, infos, spk_running, tracker, writer, opens, result, dropped, handed, misread>>

\* get_reference_samples polls.  available_bytes is compared as an unsigned number: a negative error
\* is as good as any number of bytes, and the branch for it is never reached.
enough_samples ==
  /\ reader.at = "poll"
  /\ spk_fifo.rear - spk_fifo.front >= ReadSize \/ Overrun(spk_fifo, SpkCapacity)
  /\ \E after \in fifo_available(spk_fifo, SpkCapacity) : DropSamples(after)
  /\ overflowed' = (overflowed \/ Overrun(spk_fifo, SpkCapacity))
  /\ reader' = [reader EXCEPT !.at = "read"]
  /\ UNCHANGED <<ts_fifo, infos, spk_running, tracker, writer, opens, result, dropped, handed, misread>>

Lacking ==
  /\ reader.at = "poll"
  /\ spk_fifo.rear - spk_fifo.front < ReadSize /\ ~Overrun(spk_fifo, SpkCapacity)

\* A variant the run must refute: the wait is not counted.
wait_uncounted ==
  /\ Lacking
  /\ reader' = [reader EXCEPT !.waits = Waits]
  /\ UNCHANGED <<fifos, spk_running, tracker, writer, opens, result, history>>

wait_for_samples ==
  /\ Lacking
  /\ reader.waits > 0
  /\ reader' = [reader EXCEPT !.waits = @ - 1]
  /\ UNCHANGED <<fifos, spk_running, tracker, writer, opens, result, history>>

time_out ==
  /\ Lacking
  /\ reader.waits = 0
  /\ Return([NoResult EXCEPT !.code = "ETIMEDOUT"])
  /\ UNCHANGED <<fifos, spk_running, tracker, writer, opens, history>>

\* A variant the run must refute: all that was asked for is taken to be there.
read_all_samples ==
  /\ reader.at = "read"
  /\ ~Overrun(spk_fifo, SpkCapacity)
  /\ spk_fifo' = [spk_fifo EXCEPT !.front = @ + ReadSize]
  /\ reader' = [reader EXCEPT !.at = "stamp", !.first = spk_fifo.front, !.count = ReadSize, !.skipped = skipped]
  /\ UNCHANGED <<ts_fifo, infos, spk_running, tracker, writer, opens, result, history>>

\* An error of fifo_read is taken for a number of bytes.
read_samples ==
  /\ reader.at = "read"
  /\ ~Overrun(spk_fifo, SpkCapacity)
  /\ LET filled == spk_fifo.rear - spk_fifo.front
         count == IF filled <= ReadSize THEN filled ELSE ReadSize IN
       /\ spk_fifo' = [spk_fifo EXCEPT !.front = @ + count]
       /\ reader' = [reader EXCEPT !.at = "stamp", !.first = spk_fifo.front, !.count = count, !.skipped = skipped]
  /\ UNCHANGED <<ts_fifo, infos, spk_running, tracker, writer, opens, result, history>>

read_overrun ==
  /\ reader.at = "read"
  /\ Overrun(spk_fifo, SpkCapacity)
  /\ \E after \in CatchUp(spk_fifo, SpkCapacity) :
       /\ DropSamples(after)
       /\ reader' = [reader EXCEPT !.at = "stamp", !.first = after.front, !.count = -EOVERFLOW, !.skipped = skipped']
  /\ overflowed' = TRUE /\ misread' = TRUE
  /\ UNCHANGED <<ts_fifo, infos, spk_running, tracker, writer, opens, result, dropped, handed>>

\* How many samples were really read.
Taken == IF reader.count < 0 THEN 0 ELSE reader.count
Outcome(stamp) ==
  [code |-> "ok", whole |-> reader.count = ReadSize \/ overflowed, sound |-> ~misread,
   due |-> reader.due, stamp |-> stamp, previous |-> handed]

-----------------------------------------------------------------------------
\* get_spk_timestamp.

\* A variant the run must refute: the previous timestamp without the offset.
reuse_timestamp_as_is ==
  /\ reader.at = "stamp"
  /\ read_write_diff_bytes < 0
  /\ reader' = [reader EXCEPT !.at = "forward", !.info = last_spk_info, !.due = reader.first - reader.skipped + dropped,
                              !.stamp = last_spk_info.start]
  /\ read_write_diff_bytes' = read_write_diff_bytes + reader.count
  /\ skipped' = skipped + (Taken - reader.count)
  /\ UNCHANGED <<fifos, spk_running, last_spk_info, writer, opens, result, dropped, handed, overflowed, misread>>

\* "We're still reading a previous write packet"
reuse_timestamp ==
  /\ reader.at = "stamp"
  /\ read_write_diff_bytes < 0
  /\ reader' = [reader EXCEPT !.at = "forward", !.info = last_spk_info, !.due = reader.first - reader.skipped + dropped,
                              !.stamp = End(last_spk_info) + read_write_diff_bytes]
  /\ read_write_diff_bytes' = read_write_diff_bytes + reader.count
  /\ skipped' = skipped + (Taken - reader.count)
  /\ UNCHANGED <<fifos, spk_running, last_spk_info, writer, opens, result, dropped, handed, overflowed, misread>>

\* "Timestamp error: no new timestamps!": the samples are not counted.
no_timestamp ==
  /\ reader.at = "stamp"
  /\ read_write_diff_bytes >= 0
  /\ IsEmpty(ts_fifo)
  /\ Return(Outcome(None))
  /\ skipped' = skipped + Taken
  /\ UNCHANGED <<fifos, spk_running, tracker, writer, opens, dropped, handed, overflowed, misread>>

some_timestamp ==
  /\ reader.at = "stamp"
  /\ read_write_diff_bytes >= 0
  /\ ~IsEmpty(ts_fifo)
  /\ \E after \in fifo_available(ts_fifo, TsCapacity) : ts_fifo' = after
  /\ reader' = [reader EXCEPT !.at = "ts_read"]
  /\ UNCHANGED <<spk_fifo, infos, spk_running, tracker, writer, opens, result, skipped, dropped, handed, overflowed, misread>>

HasStamp == ~IsEmpty(ts_fifo) /\ ~Overrun(ts_fifo, TsCapacity)

take_timestamp ==
  /\ reader.at = "ts_read"
  /\ HasStamp
  /\ LET info == infos[ts_fifo.front + 1] IN
       /\ ts_fifo' = [ts_fifo EXCEPT !.front = @ + 1]
       /\ last_spk_info' = info
       /\ dropped' = dropped + (info.start - End(last_spk_info))
       /\ read_write_diff_bytes' = read_write_diff_bytes - info.bytes + reader.count
       /\ reader' = [reader EXCEPT !.at = "forward", !.stamp = info.start, !.info = info,
                                   !.due = reader.first - reader.skipped + dropped' - read_write_diff_bytes]
  /\ skipped' = skipped + (Taken - reader.count)
  /\ UNCHANGED <<spk_fifo, infos, spk_running, writer, opens, result, handed, overflowed, misread>>

\* fifo_read gives nothing or an error, which is not looked at: the last timestamp counts again.
take_old_timestamp ==
  /\ reader.at = "ts_read"
  /\ ~HasStamp
  /\ \E after \in fifo_available(ts_fifo, TsCapacity) : ts_fifo' = after
  /\ skipped' = skipped + last_spk_info.bytes + (Taken - reader.count)
  /\ read_write_diff_bytes' = read_write_diff_bytes - last_spk_info.bytes + reader.count
  /\ reader' = [reader EXCEPT !.at = "forward", !.stamp = last_spk_info.start, !.info = last_spk_info]
  /\ misread' = TRUE
  /\ UNCHANGED <<spk_fifo, infos, spk_running, last_spk_info, writer, opens, result, dropped, handed, overflowed>>

\* "there are more write packet timestamps in FIFO"
more_timestamps ==
  /\ reader.at = "forward"
  /\ read_write_diff_bytes > 0
  /\ ~IsEmpty(ts_fifo)
  /\ \E after \in fifo_available(ts_fifo, TsCapacity) : ts_fifo' = after
  /\ reader' = [reader EXCEPT !.at = "forward_read"]
  /\ UNCHANGED <<spk_fifo, infos, spk_running, tracker, writer, opens, result, skipped, dropped, handed, overflowed, misread>>

skip_timestamp ==
  /\ reader.at = "forward_read"
  /\ HasStamp
  /\ LET info == infos[ts_fifo.front + 1] IN
       /\ ts_fifo' = [ts_fifo EXCEPT !.front = @ + 1]
       /\ dropped' = dropped + (info.start - End(reader.info))
       /\ read_write_diff_bytes' = read_write_diff_bytes - info.bytes
       /\ reader' = [reader EXCEPT !.at = "forward", !.info = info]
  /\ UNCHANGED <<spk_fifo, infos, spk_running, last_spk_info, writer, opens, result, skipped, handed, overflowed, misread>>

skip_old_timestamp ==
  /\ reader.at = "forward_read"
  /\ ~HasStamp
  /\ \E after \in fifo_available(ts_fifo, TsCapacity) : ts_fifo' = after
  /\ skipped' = skipped + reader.info.bytes
  /\ read_write_diff_bytes' = read_write_diff_bytes - reader.info.bytes
  /\ reader' = [reader EXCEPT !.at = "forward"]
  /\ misread' = TRUE
  /\ UNCHANGED <<spk_fifo, infos, spk_running, last_spk_info, writer, opens, result, dropped, handed, overflowed>>

\* A variant the run must refute: the timestamp that was skipped to is not remembered.
forwarded_unkept ==
  /\ reader.at = "forward"
  /\ read_write_diff_bytes <= 0 \/ IsEmpty(ts_fifo)
  /\ Return(Outcome(reader.stamp))
  /\ handed' = reader.stamp
  /\ UNCHANGED <<fifos, spk_running, tracker, writer, opens, skipped, dropped, overflowed, misread>>

forwarded ==
  /\ reader.at = "forward"
  /\ read_write_diff_bytes <= 0 \/ IsEmpty(ts_fifo)
  /\ last_spk_info' = reader.info
  /\ Return(Outcome(reader.stamp))
  /\ handed' = reader.stamp
  /\ UNCHANGED <<fifos, spk_running, read_write_diff_bytes, writer, opens, skipped, dropped, overflowed, misread>>

-----------------------------------------------------------------------------
\* Opening an echo reference stream flushes both FIFOs; playback goes on meanwhile.
flush_spk_fifo ==
  /\ reader.at = "idle"
  /\ \E after \in fifo_flush(spk_fifo, SpkCapacity) : DropSamples(after)
  /\ reader' = [IdleReader EXCEPT !.at = "flush"]
  /\ UNCHANGED <<ts_fifo, infos, spk_running, tracker, writer, opens, result, dropped, handed, overflowed, misread>>

flush_ts_fifo ==
  /\ reader.at = "flush"
  /\ \E after \in fifo_flush(ts_fifo, TsCapacity) : ts_fifo' = after
  /\ skipped' = skipped + read_write_diff_bytes
  /\ read_write_diff_bytes' = 0
  /\ reader' = IdleReader
  /\ misread' = FALSE
  /\ UNCHANGED <<spk_fifo, infos, spk_running, last_spk_info, writer, opens, result, dropped, handed, overflowed>>

\* The output is closed and opened again: destroy_aec_reference_config does not reset the tracker.
init_aec_reference_config ==
  /\ writer.at = "idle" /\ reader.at = "idle"
  /\ opens < MaxOpens
  /\ opens' = opens + 1
  /\ spk_fifo' = EmptyFifo /\ ts_fifo' = EmptyFifo /\ infos' = <<>>
  /\ spk_running' = FALSE
  /\ last_spk_info' = ZeroInfo
  /\ result' = NoResult
  /\ skipped' = -read_write_diff_bytes /\ dropped' = 0
  /\ handed' = None /\ overflowed' = FALSE /\ misread' = FALSE
  /\ UNCHANGED <<read_write_diff_bytes, writer, reader>>

-----------------------------------------------------------------------------
Playback ==
  \/ \E state \in BOOLEAN : aec_set_spk_running(state)
  \/ \E n \in WriteSizes : write_samples(n)
  \/ write_timestamp \/ log_spk_queue \/ log_ts_queue

get_reference_samples ==
  \/ enough_samples \/ wait_for_samples \/ time_out \/ read_samples \/ read_overrun
  \/ reuse_timestamp \/ no_timestamp \/ some_timestamp \/ take_timestamp \/ take_old_timestamp
  \/ more_timestamps \/ skip_timestamp \/ skip_old_timestamp \/ forwarded

AecNext ==
  \/ Playback
  \/ in_read \/ get_reference_samples
  \/ flush_spk_fifo \/ flush_ts_fifo
  \/ init_aec_reference_config

\* The capture thread runs; whether and how fast anything is played is up to others.
AecSpec == AecInit /\ [][AecNext]_aecVars
FairAecSpec == AecSpec /\ WF_aecVars(get_reference_samples)

-----------------------------------------------------------------------------
Stamps == Int \cup {None}
WriterType == [at : {"idle", "stamp", "log_spk", "log_ts"}, start : Nat, bytes : Nat]
ReaderType == [at : {"idle", "poll", "read", "stamp", "ts_read", "forward", "forward_read", "flush"},
               waits : Nat, first : Nat, count : Int, skipped : Int, due : Int, stamp : Stamps, info : Info]
ResultType == [code : {"none", "ok", "ETIMEDOUT"}, whole : BOOLEAN, sound : BOOLEAN,
               due : Int, stamp : Stamps, previous : Stamps]

\* What is taken out of a FIFO was put in, and every timestamp is of a packet.
AecTypeOK ==
  /\ spk_fifo \in Fifo /\ spk_fifo.front <= spk_fifo.rear
  /\ ts_fifo \in Fifo /\ ts_fifo.front <= ts_fifo.rear
  /\ infos \in Seq(Info) /\ ts_fifo.rear = Len(infos)
  /\ spk_running \in BOOLEAN
  /\ read_write_diff_bytes \in Int /\ last_spk_info \in Info
  /\ writer \in WriterType /\ reader \in ReaderType /\ result \in ResultType
  /\ opens \in Nat
  /\ skipped \in Int /\ dropped \in Int /\ handed \in Stamps /\ overflowed \in BOOLEAN /\ misread \in BOOLEAN

\* "We only need the first sample's timestamp": the time that is handed out is that of the first
\* sample read, less what the tracker lost count of (due): the samples of reads that found no
\* timestamp, whatever was overwritten or flushed in one FIFO only, and the samples the last read
\* took ahead of their timestamps.
StampLags == result.stamp # None /\ result.sound => result.stamp = result.due

\* Whatever was lost, time does not go back from one read to the next.
StampsAscend ==
  result.stamp # None /\ result.previous # None /\ result.sound => result.previous <= result.stamp

\* get_reference_samples gives all the samples that were asked for, unless some were overwritten
\* between its look at the FIFO and the read: then the rest of the buffer is left from before.
WholeReads == result.code = "ok" => result.whole

\* Every read returns, also when playback stops for good ("Timed out waiting for read").
ReadReturns == reader.at = "poll" ~> reader.at = "idle"
-----------------------------------------------------------------------------
(* The inductive invariant behind the safety properties, by subject. *)

Forwarding == reader.at \in {"forward", "forward_read"}
Stamping == reader.at \in {"stamp", "ts_read"}

\* The packet whose timestamp was got last.
Current == IF Forwarding THEN reader.info ELSE last_spk_info

\* The tracker is how far the samples are ahead of the timestamps, but for what was lost count of.
TrackInv ==
  /\ read_write_diff_bytes =
       spk_fifo.front - (IF Stamping THEN Taken ELSE 0) - End(Current) - skipped + dropped
  /\ Stamping => reader.first - reader.skipped = spk_fifo.front - Taken - skipped
  /\ reader.at = "ts_read" => read_write_diff_bytes >= 0
  /\ reader.at = "forward_read" => read_write_diff_bytes > 0
  /\ Forwarding => reader.stamp \in Int /\ (misread \/ reader.stamp = reader.due)

\* Packets follow one another, those whose timestamps are unread after the current one.
Written == IF writer.at = "stamp" THEN writer.start ELSE spk_fifo.rear

OrderInv ==
  /\ writer.at = "stamp" => writer.start + writer.bytes = spk_fifo.rear
  /\ End(Current) <= Written
  /\ \A i \in 1..Len(infos) :
       /\ End(infos[i]) <= Written
       /\ i > ts_fifo.front => End(Current) <= infos[i].start
       /\ \A j \in 1..Len(infos) : i < j => End(infos[i]) <= infos[j].start

\* Nothing later than the current packet was handed out, nor than the next sample if it is in it.
AscendInv ==
  /\ handed # None => handed <= End(Current)
  /\ ~misread /\ read_write_diff_bytes < 0 /\ ~Forwarding /\ handed # None =>
       handed <= End(Current) + read_write_diff_bytes
  /\ Stamping => misread \/ reader.count >= 0
  /\ Forwarding =>
       /\ reader.stamp <= End(Current)
       /\ ~misread /\ read_write_diff_bytes < 0 => reader.stamp <= End(Current) + read_write_diff_bytes
       /\ ~misread /\ handed # None => handed <= reader.stamp

\* Samples only leave the FIFO unread when they are overwritten.
WholeInv ==
  /\ reader.at = "read" => overflowed \/ spk_fifo.rear - spk_fifo.front >= ReadSize
  /\ Stamping \/ Forwarding => overflowed \/ reader.count = ReadSize
===============================================================================
