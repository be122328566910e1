-------------------------- MODULE AecReferenceProofs --------------------------
\* Proofs about AecReference: its types, and what the timestamps of the echo reference are worth, for
\* FIFOs and packets of any size.
EXTENDS AecReference, TLAPS

USE AecReferenceAssumption

(* The FIFOs. *)

\* Asking a FIFO how much there is moves its front forward only, and only when it was overrun.
LEMMA AvailableFacts ==
  ASSUME NEW fifo \in Fifo, NEW capacity \in Nat \ {0}, NEW after \in fifo_available(fifo, capacity),
         fifo.front <= fifo.rear
  PROVE  /\ after \in Fifo /\ after.rear = fifo.rear
         /\ fifo.front <= after.front /\ after.front <= after.rear
         /\ ~Overrun(fifo, capacity) => after = fifo
BY DEF fifo_available, CatchUp, Overrun, Fifo

LEMMA CatchUpFacts ==
  ASSUME NEW fifo \in Fifo, NEW capacity \in Nat \ {0}, NEW after \in CatchUp(fifo, capacity),
         fifo.front <= fifo.rear, Overrun(fifo, capacity)
  PROVE  /\ after \in Fifo /\ after.rear = fifo.rear
         /\ fifo.front <= after.front /\ after.front <= after.rear
BY DEF CatchUp, Overrun, Fifo

LEMMA FlushFacts ==
  ASSUME NEW fifo \in Fifo, NEW capacity \in Nat \ {0}, NEW after \in fifo_flush(fifo, capacity),
         fifo.front <= fifo.rear
  PROVE  /\ after \in Fifo /\ after.rear = fifo.rear
         /\ fifo.front <= after.front /\ after.front <= after.rear
BY DEF fifo_flush, CatchUp, Overrun, Fifo

LEMMA WriteFacts ==
  ASSUME NEW fifo \in Fifo, NEW n \in Nat \ {0}, NEW capacity \in Nat \ {0}
  PROVE  /\ fifo_write(fifo, n, capacity) \in Fifo
         /\ fifo_write(fifo, n, capacity).front = fifo.front
         /\ fifo_write(fifo, n, capacity).rear > fifo.rear
BY DEF fifo_write, Fifo

LEMMA WriteOne ==
  ASSUME NEW fifo \in Fifo, NEW capacity \in Nat \ {0}
  PROVE  /\ fifo_write(fifo, 1, capacity) \in Fifo
         /\ fifo_write(fifo, 1, capacity).front = fifo.front
         /\ fifo_write(fifo, 1, capacity).rear = fifo.rear + 1
BY DEF fifo_write, Fifo

LEMMA EndIsNat == ASSUME NEW info \in Info PROVE End(info) \in Nat
BY DEF End, Info

-----------------------------------------------------------------------------
(* Types. *)

LEMMA ConstantTypes ==
  /\ ZeroInfo \in Info /\ EmptyFifo \in Fifo
  /\ IdleWriter \in WriterType /\ IdleReader \in ReaderType /\ NoResult \in ResultType
BY DEF ZeroInfo, EmptyFifo, IdleWriter, IdleReader, NoResult, Info, Fifo, WriterType, ReaderType, ResultType, Stamps

LEMMA OutcomeType ==
  ASSUME reader \in ReaderType, overflowed \in BOOLEAN, misread \in BOOLEAN, handed \in Stamps, NEW stamp \in Stamps
  PROVE  Outcome(stamp) \in ResultType
BY DEF Outcome, ResultType, ReaderType

LEMMA TakenIsInt == ASSUME reader \in ReaderType PROVE Taken \in Nat
BY DEF Taken, ReaderType

LEMMA TypeStep ==
  ASSUME AecTypeOK, [AecNext]_aecVars
  PROVE  AecTypeOK'
<1>s. spk_fifo \in Fifo /\ spk_fifo.front <= spk_fifo.rear
  BY DEF AecTypeOK
<1>t. ts_fifo \in Fifo /\ ts_fifo.front <= ts_fifo.rear /\ ts_fifo.rear = Len(infos)
  BY DEF AecTypeOK
<1>i. infos \in Seq(Info)
  BY DEF AecTypeOK
<1>d. read_write_diff_bytes \in Int /\ last_spk_info \in Info
  BY DEF AecTypeOK
<1>w. writer \in WriterType
  BY DEF AecTypeOK
<1>r. reader \in ReaderType
  BY DEF AecTypeOK
<1>h. skipped \in Int /\ dropped \in Int
  BY DEF AecTypeOK
<1>o. spk_running \in BOOLEAN /\ opens \in Nat /\ result \in ResultType /\ handed \in Stamps /\ overflowed \in BOOLEAN /\ misread \in BOOLEAN
  BY DEF AecTypeOK
<1>1. ASSUME NEW state \in BOOLEAN, aec_set_spk_running(state) PROVE AecTypeOK'
  BY <1>1, <1>s, <1>t, <1>i, <1>d, <1>w, <1>r, <1>h, <1>o DEF aec_set_spk_running, fifos, tracker, history, AecTypeOK
<1>2. ASSUME NEW n \in WriteSizes, write_samples(n) PROVE AecTypeOK'
  <2>1. /\ spk_fifo' \in Fifo /\ spk_fifo'.front = spk_fifo.front /\ spk_fifo'.rear > spk_fifo.rear
    BY <1>2, <1>s, WriteFacts DEF write_samples
  <2>2. writer' \in WriterType
    BY <1>2, <1>s, <2>1 DEF write_samples, WriterType, Fifo
  <2>3. spk_fifo'.front <= spk_fifo'.rear
    BY <1>s, <2>1 DEF Fifo
  <2> QED BY <1>2, <1>t, <1>i, <1>d, <1>r, <1>h, <1>o, <2>1, <2>2, <2>3 DEF write_samples, tracker, history, AecTypeOK
<1>3. CASE write_timestamp
  <2>1. ts_fifo' \in Fifo /\ ts_fifo'.front = ts_fifo.front /\ ts_fifo'.rear = ts_fifo.rear + 1
    BY <1>3, <1>t, WriteOne DEF write_timestamp
  <2>2. [start |-> writer.start, bytes |-> writer.bytes] \in Info
    BY <1>w DEF Info, WriterType
  <2>3. infos' \in Seq(Info) /\ Len(infos') = Len(infos) + 1
    <3>1. infos' = Append(infos, [start |-> writer.start, bytes |-> writer.bytes])
      BY <1>3 DEF write_timestamp
    <3> QED BY <1>i, <2>2, <3>1
  <2>4. writer' \in WriterType
    BY <1>3, ConstantTypes DEF write_timestamp, WriterType
  <2>5. ts_fifo'.front <= ts_fifo'.rear /\ ts_fifo'.rear = Len(infos')
    BY <1>t, <2>1, <2>3 DEF Fifo
  <2> QED BY <1>3, <1>s, <1>d, <1>r, <1>h, <1>o, <2>1, <2>3, <2>4, <2>5 DEF write_timestamp, tracker, history, AecTypeOK
<1>4. ASSUME NEW after \in Fifo, after.front <= after.rear, DropSamples(after)
      PROVE  spk_fifo' \in Fifo /\ spk_fifo'.front <= spk_fifo'.rear /\ skipped' \in Int
  BY <1>4, <1>s, <1>h DEF DropSamples, Fifo
<1>5. CASE log_spk_queue
  <2>1. writer' \in WriterType
    BY <1>5, ConstantTypes DEF log_spk_queue, WriterType
  <2>2. spk_fifo' \in Fifo /\ spk_fifo'.front <= spk_fifo'.rear /\ skipped' \in Int
    BY <1>4, <1>5, <1>s, AvailableFacts DEF log_spk_queue
  <2> QED BY <1>5, <1>t, <1>i, <1>d, <1>r, <1>h, <1>o, <2>1, <2>2 DEF log_spk_queue, tracker, Overrun, AecTypeOK
<1>6. CASE log_ts_queue
  <2>1. ts_fifo' \in Fifo /\ ts_fifo'.front <= ts_fifo'.rear /\ ts_fifo'.rear = ts_fifo.rear
    BY <1>6, <1>t, AvailableFacts DEF log_ts_queue
  <2> QED BY <1>6, <1>s, <1>t, <1>i, <1>d, <1>r, <1>h, <1>o, <2>1, ConstantTypes DEF log_ts_queue, tracker, AecTypeOK
<1>7. CASE in_read
  <2>1. reader' \in ReaderType
    BY <1>7, ConstantTypes DEF in_read, ReaderType
  <2> QED BY <1>7, <1>s, <1>t, <1>i, <1>d, <1>w, <1>h, <1>o, <2>1 DEF in_read, tracker, fifos, AecTypeOK
<1>8. CASE enough_samples
  <2>1. reader' \in ReaderType
    BY <1>8, <1>r DEF enough_samples, ReaderType
  <2>2. spk_fifo' \in Fifo /\ spk_fifo'.front <= spk_fifo'.rear /\ skipped' \in Int
    BY <1>4, <1>8, <1>s, AvailableFacts DEF enough_samples
  <2> QED BY <1>8, <1>t, <1>i, <1>d, <1>w, <1>h, <1>o, <2>1, <2>2 DEF enough_samples, tracker, Overrun, AecTypeOK
<1>9. CASE wait_for_samples
  <2>1. reader' \in ReaderType
    BY <1>9, <1>r DEF wait_for_samples, ReaderType
  <2> QED BY <1>9, <1>s, <1>t, <1>i, <1>d, <1>w, <1>h, <1>o, <2>1 DEF wait_for_samples, fifos, tracker, history, AecTypeOK
<1>10. CASE time_out
  <2>1. result' \in ResultType
    BY <1>10, ConstantTypes DEF time_out, Return, ResultType
  <2> QED BY <1>10, <1>s, <1>t, <1>i, <1>d, <1>w, <1>h, <1>o, <2>1, ConstantTypes DEF time_out, Return, fifos, tracker, history, AecTypeOK
<1>11. CASE read_samples
  <2>1. PICK count \in Nat :
          /\ spk_fifo' = [spk_fifo EXCEPT !.front = @ + count]
          /\ reader' = [reader EXCEPT !.at = "stamp", !.first = spk_fifo.front, !.count = count, !.skipped = skipped]
          /\ count <= spk_fifo.rear - spk_fifo.front
    <3> DEFINE filled == spk_fifo.rear - spk_fifo.front
               given == IF filled <= ReadSize THEN filled ELSE ReadSize
    <3>1. given \in Nat /\ given <= filled
      BY <1>s DEF Fifo
    <3>2. /\ spk_fifo' = [spk_fifo EXCEPT !.front = @ + given]
          /\ reader' = [reader EXCEPT !.at = "stamp", !.first = spk_fifo.front, !.count = given, !.skipped = skipped]
      BY <1>11 DEF read_samples
    <3> HIDE DEF given
    <3> QED BY <3>1, <3>2
  <2>2. spk_fifo' \in Fifo /\ spk_fifo'.front <= spk_fifo'.rear
    BY <1>s, <2>1 DEF Fifo
  <2>3. reader' \in ReaderType
    <3>1. spk_fifo.front \in Nat
      BY <1>s DEF Fifo
    <3>2. reader' = [reader EXCEPT !.at = "stamp", !.first = spk_fifo.front, !.count = count, !.skipped = skipped]
      BY <2>1
    <3>3. count \in Int
      OBVIOUS
    <3> QED BY <1>r, <1>h, <3>1, <3>2, <3>3 DEF ReaderType
  <2> QED BY <1>11, <1>t, <1>i, <1>d, <1>w, <1>h, <1>o, <2>2, <2>3 DEF read_samples, tracker, history, AecTypeOK
<1>12. CASE read_overrun
  <2>1. PICK after \in CatchUp(spk_fifo, SpkCapacity) :
          /\ DropSamples(after)
          /\ reader' = [reader EXCEPT !.at = "stamp", !.first = after.front, !.count = -EOVERFLOW, !.skipped = skipped']
    BY <1>12 DEF read_overrun
  <2>2. after \in Fifo /\ after.front <= after.rear
    BY <1>12, <1>s, CatchUpFacts DEF read_overrun
  <2>3. spk_fifo' \in Fifo /\ spk_fifo'.front <= spk_fifo'.rear /\ skipped' \in Int
    BY <1>4, <2>1, <2>2
  <2>4. reader' \in ReaderType
    <3>1. after.front \in Nat
      BY <2>2 DEF Fifo
    <3>2. -EOVERFLOW \in Int
      <4>1. EOVERFLOW \in Nat
        BY AecReferenceAssumption
      <4> QED BY <4>1
    <3> QED BY <1>r, <2>1, <2>3, <3>1, <3>2 DEF ReaderType
  <2> QED BY <1>12, <1>t, <1>i, <1>d, <1>w, <1>h, <1>o, <2>3, <2>4 DEF read_overrun, tracker, AecTypeOK
<1>13. CASE reuse_timestamp
  <2>1. reader' \in ReaderType
    <3>1. reader.first - reader.skipped + dropped \in Int
      BY <1>r, <1>h DEF ReaderType
    <3>2. End(last_spk_info) + read_write_diff_bytes \in Stamps
      BY <1>d, EndIsNat DEF Stamps
    <3> QED BY <1>13, <1>r, <1>d, <3>1, <3>2 DEF reuse_timestamp, ReaderType
  <2>2. read_write_diff_bytes' \in Int /\ skipped' \in Int
    BY <1>13, <1>r, <1>d, <1>h, TakenIsInt DEF reuse_timestamp, ReaderType
  <2> QED BY <1>13, <1>s, <1>t, <1>i, <1>d, <1>w, <1>h, <1>o, <2>1, <2>2 DEF reuse_timestamp, fifos, AecTypeOK
<1>14. CASE no_timestamp
  <2>1. result' \in ResultType
    BY <1>14, <1>r, <1>o, OutcomeType DEF no_timestamp, Return, Stamps
  <2>2. skipped' \in Int
    BY <1>14, <1>r, <1>h, TakenIsInt DEF no_timestamp
  <2> QED BY <1>14, <1>s, <1>t, <1>i, <1>d, <1>w, <1>h, <1>o, <2>1, <2>2, ConstantTypes DEF no_timestamp, Return, fifos, tracker, AecTypeOK
<1>15. CASE some_timestamp
  <2>1. reader' \in ReaderType
    BY <1>15, <1>r DEF some_timestamp, ReaderType
  <2>2. ts_fifo' \in Fifo /\ ts_fifo'.front <= ts_fifo'.rear /\ ts_fifo'.rear = ts_fifo.rear
    BY <1>15, <1>t, AvailableFacts DEF some_timestamp
  <2> QED BY <1>15, <1>s, <1>t, <1>i, <1>d, <1>w, <1>h, <1>o, <2>1, <2>2 DEF some_timestamp, tracker, AecTypeOK
<1>16. ASSUME HasStamp
       PROVE  /\ infos[ts_fifo.front + 1] \in Info
              /\ LET after == [ts_fifo EXCEPT !.front = @ + 1] IN
                   after \in Fifo /\ after.front <= after.rear /\ after.rear = ts_fifo.rear
  <2>1. ts_fifo.front + 1 \in 1..Len(infos)
    BY <1>16, <1>t DEF HasStamp, IsEmpty, Fifo
  <2>2. infos[ts_fifo.front + 1] \in Info
    BY <1>i, <2>1
  <2> QED BY <1>t, <2>1, <2>2 DEF Fifo
<1>17. CASE take_timestamp
  <2> DEFINE info == infos[ts_fifo.front + 1]
  <2>1. info \in Info /\ ts_fifo' \in Fifo /\ ts_fifo'.front <= ts_fifo'.rear /\ ts_fifo'.rear = ts_fifo.rear
    BY <1>16, <1>17 DEF take_timestamp
  <2>2. /\ last_spk_info' = info
        /\ dropped' = dropped + (info.start - End(last_spk_info))
        /\ read_write_diff_bytes' = read_write_diff_bytes - info.bytes + reader.count
        /\ reader' = [reader EXCEPT !.at = "forward", !.stamp = info.start, !.info = info,
                                    !.due = reader.first - reader.skipped + dropped' - read_write_diff_bytes]
    BY <1>17 DEF take_timestamp
  <2> HIDE DEF info
  <2>3. dropped' \in Int /\ read_write_diff_bytes' \in Int
    BY <1>r, <1>d, <1>h, <2>1, <2>2 DEF ReaderType, Info, End
  <2>4. skipped' \in Int
    BY <1>17, <1>r, <1>h, TakenIsInt DEF take_timestamp, ReaderType
  <2>5. reader' \in ReaderType
    <3>1. reader.first - reader.skipped + dropped' - read_write_diff_bytes \in Int
      BY <1>r, <1>d, <2>3 DEF ReaderType
    <3>2. info.start \in Stamps
      BY <2>1 DEF Info, Stamps
    <3> QED BY <1>r, <2>1, <2>2, <3>1, <3>2 DEF ReaderType
  <2> QED BY <1>17, <1>s, <1>t, <1>i, <1>w, <1>o, <2>1, <2>2, <2>3, <2>4, <2>5 DEF take_timestamp, AecTypeOK
<1>18. CASE take_old_timestamp
  <2>1. reader' \in ReaderType
    <3>1. last_spk_info.start \in Stamps
      BY <1>d DEF Info, Stamps
    <3> QED BY <1>18, <1>r, <1>d, <3>1 DEF take_old_timestamp, ReaderType
  <2>2. skipped' \in Int /\ read_write_diff_bytes' \in Int
    BY <1>18, <1>r, <1>d, <1>h, TakenIsInt DEF take_old_timestamp, Info, ReaderType
  <2>3. ts_fifo' \in Fifo /\ ts_fifo'.front <= ts_fifo'.rear /\ ts_fifo'.rear = ts_fifo.rear
    BY <1>18, <1>t, AvailableFacts DEF take_old_timestamp
  <2> QED BY <1>18, <1>s, <1>t, <1>i, <1>d, <1>w, <1>h, <1>o, <2>1, <2>2, <2>3 DEF take_old_timestamp, AecTypeOK
<1>19. CASE more_timestamps
  <2>1. reader' \in ReaderType
    BY <1>19, <1>r DEF more_timestamps, ReaderType
  <2>2. ts_fifo' \in Fifo /\ ts_fifo'.front <= ts_fifo'.rear /\ ts_fifo'.rear = ts_fifo.rear
    BY <1>19, <1>t, AvailableFacts DEF more_timestamps
  <2> QED BY <1>19, <1>s, <1>t, <1>i, <1>d, <1>w, <1>h, <1>o, <2>1, <2>2 DEF more_timestamps, tracker, AecTypeOK
<1>20. CASE skip_timestamp
  <2> DEFINE info == infos[ts_fifo.front + 1]
  <2>1. info \in Info /\ ts_fifo' \in Fifo /\ ts_fifo'.front <= ts_fifo'.rear /\ ts_fifo'.rear = ts_fifo.rear
    BY <1>16, <1>20 DEF skip_timestamp
  <2>2. /\ dropped' = dropped + (info.start - End(reader.info))
        /\ read_write_diff_bytes' = read_write_diff_bytes - info.bytes
        /\ reader' = [reader EXCEPT !.at = "forward", !.info = info]
    BY <1>20 DEF skip_timestamp
  <2> HIDE DEF info
  <2>3. dropped' \in Int /\ read_write_diff_bytes' \in Int
    BY <1>r, <1>d, <1>h, <2>1, <2>2 DEF ReaderType, Info, End
  <2>4. reader' \in ReaderType
    BY <1>r, <2>1, <2>2 DEF ReaderType
  <2> QED BY <1>20, <1>s, <1>t, <1>i, <1>d, <1>w, <1>h, <1>o, <2>1, <2>3, <2>4 DEF skip_timestamp, AecTypeOK
<1>21. CASE skip_old_timestamp
  <2>1. reader' \in ReaderType
    BY <1>21, <1>r DEF skip_old_timestamp, ReaderType
  <2>2. skipped' \in Int /\ read_write_diff_bytes' \in Int
    BY <1>21, <1>r, <1>d, <1>h DEF skip_old_timestamp, Info, ReaderType
  <2>3. ts_fifo' \in Fifo /\ ts_fifo'.front <= ts_fifo'.rear /\ ts_fifo'.rear = ts_fifo.rear
    BY <1>21, <1>t, AvailableFacts DEF skip_old_timestamp
  <2> QED BY <1>21, <1>s, <1>t, <1>i, <1>d, <1>w, <1>h, <1>o, <2>1, <2>2, <2>3 DEF skip_old_timestamp, AecTypeOK
<1>22. CASE forwarded
  <2>1. result' \in ResultType /\ handed' \in Stamps
    BY <1>22, <1>r, <1>o, OutcomeType DEF forwarded, Return, ReaderType
  <2>2. last_spk_info' \in Info
    BY <1>22, <1>r DEF forwarded, ReaderType
  <2> QED BY <1>22, <1>s, <1>t, <1>i, <1>d, <1>w, <1>h, <1>o, <2>1, <2>2, ConstantTypes DEF forwarded, Return, fifos, AecTypeOK
<1>23. CASE flush_spk_fifo
  <2>1. reader' \in ReaderType
    BY <1>23, ConstantTypes DEF flush_spk_fifo, ReaderType
  <2>2. spk_fifo' \in Fifo /\ spk_fifo'.front <= spk_fifo'.rear /\ skipped' \in Int
    BY <1>4, <1>23, <1>s, FlushFacts DEF flush_spk_fifo
  <2> QED BY <1>23, <1>t, <1>i, <1>d, <1>w, <1>h, <1>o, <2>1, <2>2 DEF flush_spk_fifo, tracker, AecTypeOK
<1>24. CASE flush_ts_fifo
  <2>1. ts_fifo' \in Fifo /\ ts_fifo'.front <= ts_fifo'.rear /\ ts_fifo'.rear = ts_fifo.rear
    BY <1>24, <1>t, FlushFacts DEF flush_ts_fifo
  <2>2. skipped' \in Int
    BY <1>24, <1>d, <1>h DEF flush_ts_fifo
  <2>3. reader' \in ReaderType
    BY <1>24, ConstantTypes DEF flush_ts_fifo
  <2>4. misread' \in BOOLEAN
    BY <1>24 DEF flush_ts_fifo
  <2> QED BY <1>24, <1>s, <1>t, <1>i, <1>d, <1>w, <1>h, <1>o, <2>1, <2>2, <2>3, <2>4 DEF flush_ts_fifo, AecTypeOK
<1>25. CASE init_aec_reference_config
  <2>1. infos' \in Seq(Info) /\ Len(infos') = 0
    BY <1>25 DEF init_aec_reference_config
  <2>2. EmptyFifo.front = 0 /\ EmptyFifo.rear = 0
    BY DEF EmptyFifo
  <2>3. skipped' \in Int /\ opens' \in Nat
    BY <1>25, <1>d, <1>o DEF init_aec_reference_config
  <2>4. /\ spk_fifo' \in Fifo /\ spk_fifo'.front <= spk_fifo'.rear
        /\ ts_fifo' \in Fifo /\ ts_fifo'.front <= ts_fifo'.rear /\ ts_fifo'.rear = 0
    BY <1>25, <2>2, ConstantTypes DEF init_aec_reference_config
  <2>5. last_spk_info' \in Info /\ result' \in ResultType
    BY <1>25, ConstantTypes DEF init_aec_reference_config
  <2>6. handed' \in Stamps
    BY <1>25 DEF init_aec_reference_config, Stamps
  <2>7. spk_running' \in BOOLEAN /\ overflowed' \in BOOLEAN /\ misread' \in BOOLEAN
    BY <1>25 DEF init_aec_reference_config
  <2>8. dropped' \in Int /\ read_write_diff_bytes' \in Int
    BY <1>25, <1>d DEF init_aec_reference_config
  <2>9. writer' \in WriterType /\ reader' \in ReaderType
    BY <1>25, <1>w, <1>r DEF init_aec_reference_config
  <2> QED BY <2>1, <2>3, <2>4, <2>5, <2>6, <2>7, <2>8, <2>9 DEF AecTypeOK
<1>26. CASE UNCHANGED aecVars
  BY <1>26 DEF aecVars, fifos, tracker, history, AecTypeOK
<1> QED
  BY <1>1, <1>2, <1>3, <1>5, <1>6, <1>7, <1>8, <1>9, <1>10, <1>11, <1>12, <1>13, <1>14, <1>15,
     <1>17, <1>18, <1>19, <1>20, <1>21, <1>22, <1>23, <1>24, <1>25, <1>26
  DEF AecNext, Playback, get_reference_samples

LEMMA TypeInit == AecInit => AecTypeOK
<1> SUFFICES ASSUME AecInit PROVE AecTypeOK OBVIOUS
<1>1. EmptyFifo.front = 0 /\ EmptyFifo.rear = 0
  BY DEF EmptyFifo
<1>2. infos \in Seq(Info) /\ Len(infos) = 0
  BY DEF AecInit
<1>3. /\ spk_fifo \in Fifo /\ spk_fifo.front <= spk_fifo.rear
      /\ ts_fifo \in Fifo /\ ts_fifo.front <= ts_fifo.rear /\ ts_fifo.rear = 0
  BY <1>1, ConstantTypes DEF AecInit
<1>4. writer \in WriterType /\ reader \in ReaderType /\ result \in ResultType /\ last_spk_info \in Info
  BY ConstantTypes DEF AecInit
<1>5. handed \in Stamps
  BY DEF AecInit, Stamps
<1>6. spk_running \in BOOLEAN /\ overflowed \in BOOLEAN /\ misread \in BOOLEAN
  BY DEF AecInit
<1>7. read_write_diff_bytes \in Int /\ skipped \in Int /\ dropped \in Int /\ opens \in Nat
  BY DEF AecInit
<1> QED BY <1>2, <1>3, <1>4, <1>5, <1>6, <1>7 DEF AecTypeOK

\* Every variable keeps its type, and no timestamp is looked for past those that were written: for
\* any sizes of FIFOs, packets and reads.
THEOREM AecTypeInvariant == AecSpec => []AecTypeOK
BY TypeInit, TypeStep, PTL DEF AecSpec
-----------------------------------------------------------------------------
(* What every action does to what the invariant is about. *)

LEMMA Scalars ==
  ASSUME AecTypeOK
  PROVE  /\ spk_fifo.front \in Nat /\ spk_fifo.rear \in Nat /\ spk_fifo.front <= spk_fifo.rear
         /\ ts_fifo.front \in Nat /\ ts_fifo.rear \in Nat
         /\ End(Current) \in Nat /\ End(last_spk_info) \in Nat /\ End(reader.info) \in Nat /\ Taken \in Nat
         /\ reader.first \in Nat /\ reader.count \in Int /\ reader.skipped \in Int /\ reader.due \in Int
         /\ read_write_diff_bytes \in Int /\ skipped \in Int /\ dropped \in Int
         /\ handed # None => handed \in Int
         /\ last_spk_info \in Info /\ reader.info \in Info
<1>1. spk_fifo \in Fifo /\ spk_fifo.front <= spk_fifo.rear /\ ts_fifo \in Fifo
  BY DEF AecTypeOK
<1>2. last_spk_info \in Info /\ reader \in ReaderType
  BY DEF AecTypeOK
<1>3. reader.info \in Info /\ reader.first \in Nat /\ reader.count \in Int /\ reader.skipped \in Int /\ reader.due \in Int
  BY <1>2 DEF ReaderType
<1>4. End(last_spk_info) \in Nat /\ End(reader.info) \in Nat /\ End(Current) \in Nat
  BY <1>2, <1>3, EndIsNat DEF Current
<1>5. read_write_diff_bytes \in Int /\ skipped \in Int /\ dropped \in Int /\ handed \in Stamps
  BY DEF AecTypeOK
<1>6. handed # None => handed \in Int
  BY <1>5 DEF Stamps
<1>7. Taken \in Nat
  BY <1>2, TakenIsInt
<1> QED BY <1>1, <1>2, <1>3, <1>4, <1>5, <1>6, <1>7 DEF Fifo

LEMMA ReaderKept ==
  ASSUME reader' = reader, last_spk_info' = last_spk_info
  PROVE  /\ (Forwarding' <=> Forwarding) /\ (Stamping' <=> Stamping)
         /\ Taken' = Taken /\ End(Current)' = End(Current)
BY DEF Forwarding, Stamping, Taken, Current, End

\* The reader goes to a place outside get_spk_timestamp, or into it.
LEMMA ReaderElsewhere ==
  ASSUME reader'.at \in {"idle", "poll", "read", "flush"}
  PROVE  ~Forwarding' /\ ~Stamping' /\ End(Current)' = End(last_spk_info')
BY DEF Forwarding, Stamping, Current, End

LEMMA ReaderStamps ==
  ASSUME reader'.at \in {"stamp", "ts_read"}
  PROVE  ~Forwarding' /\ Stamping' /\ End(Current)' = End(last_spk_info')
BY DEF Forwarding, Stamping, Current, End

LEMMA ReaderForwards ==
  ASSUME reader'.at \in {"forward", "forward_read"}
  PROVE  Forwarding' /\ ~Stamping' /\ End(Current)' = End(reader'.info)
BY DEF Forwarding, Stamping, Current, End

LEMMA ReaderNow ==
  /\ reader.at \in {"idle", "poll", "read", "flush"} => ~Forwarding /\ ~Stamping /\ Current = last_spk_info
  /\ reader.at \in {"stamp", "ts_read"} => ~Forwarding /\ Stamping /\ Current = last_spk_info
  /\ reader.at \in {"forward", "forward_read"} => Forwarding /\ ~Stamping /\ Current = reader.info
<1>1. ASSUME reader.at \in {"idle", "poll", "read", "flush"} PROVE ~Forwarding /\ ~Stamping /\ Current = last_spk_info
  BY <1>1 DEF Forwarding, Stamping, Current
<1>2. ASSUME reader.at \in {"stamp", "ts_read"} PROVE ~Forwarding /\ Stamping /\ Current = last_spk_info
  BY <1>2 DEF Forwarding, Stamping, Current
<1>3. ASSUME reader.at \in {"forward", "forward_read"} PROVE Forwarding /\ ~Stamping /\ Current = reader.info
  BY <1>3 DEF Forwarding, Stamping, Current
<1> QED BY <1>1, <1>2, <1>3

\* The results that were given stay true.
Results == StampLags /\ StampsAscend /\ WholeReads

LEMMA ResultKept == ASSUME Results, result' = result PROVE Results'
BY DEF Results, StampLags, StampsAscend, WholeReads

\* The order of packets is not disturbed by what neither writes nor takes a timestamp.
LEMMA OrderKept ==
  ASSUME OrderInv, AecTypeOK, infos' = infos, writer' = writer, spk_fifo'.rear = spk_fifo.rear,
         ts_fifo'.front \in Nat, ts_fifo'.front >= ts_fifo.front, End(Current)' = End(Current)
  PROVE  OrderInv'
<1>1. Written' = Written
  BY DEF Written
<1>2. \A i : End(infos[i])' = End(infos[i])
  BY DEF End
<1>3. ts_fifo.front \in Nat
  BY Scalars
<1> QED BY <1>1, <1>2, <1>3 DEF OrderInv
-----------------------------------------------------------------------------
(* The invariant. *)

Parts == TrackInv /\ AscendInv /\ WholeInv
IInv == AecTypeOK /\ Parts /\ OrderInv /\ Results

\* The writer does not touch what the reader goes by, but for the front of the samples' FIFO, which
\* skipped follows.
LEMMA PartsKept ==
  ASSUME AecTypeOK, Parts, reader' = reader, last_spk_info' = last_spk_info,
         UNCHANGED <<read_write_diff_bytes, dropped, handed, misread>>,
         spk_fifo'.front - spk_fifo.front = skipped' - skipped,
         spk_fifo'.front \in Nat, spk_fifo'.rear \in Nat, skipped' \in Int,
         overflowed' \/ (~overflowed /\ spk_fifo'.front = spk_fifo.front /\ spk_fifo'.rear >= spk_fifo.rear)
  PROVE  Parts'
<1>1. /\ (Forwarding' <=> Forwarding) /\ (Stamping' <=> Stamping)
      /\ Taken' = Taken /\ End(Current)' = End(Current)
  BY ReaderKept
<1>2. TrackInv'
  BY <1>1, Scalars DEF Parts, TrackInv
<1>3. AscendInv'
  BY <1>1 DEF Parts, AscendInv
<1>4. WholeInv'
  BY <1>1, Scalars DEF Parts, WholeInv
<1> QED BY <1>2, <1>3, <1>4 DEF Parts

LEMMA PlaybackStep ==
  ASSUME IInv, AecTypeOK', Playback
  PROVE  IInv'
<1>s. spk_fifo.front \in Nat /\ spk_fifo.rear \in Nat /\ spk_fifo.front <= spk_fifo.rear /\ skipped \in Int
  BY Scalars DEF IInv
<1>t. ts_fifo.front \in Nat /\ End(Current) \in Nat
  BY Scalars DEF IInv
<1>o. OrderInv
  BY DEF IInv
<1>k. AecTypeOK /\ Parts
  BY DEF IInv
<1>1. ASSUME NEW state \in BOOLEAN, aec_set_spk_running(state) PROVE IInv'
  <2>1. Parts'
    BY <1>1, <1>k, <1>s, PartsKept DEF aec_set_spk_running, fifos, tracker, history
  <2>2. OrderInv'
    BY <1>1, <1>k, <1>o, <1>t, OrderKept, ReaderKept DEF aec_set_spk_running, fifos, tracker
  <2> QED BY <1>1, <2>1, <2>2, ResultKept DEF IInv, aec_set_spk_running
<1>2. ASSUME NEW n \in WriteSizes, write_samples(n) PROVE IInv'
  <2>1. spk_fifo'.front = spk_fifo.front /\ spk_fifo'.rear > spk_fifo.rear /\ spk_fifo'.rear \in Nat
    BY <1>2, WriteFacts DEF IInv, AecTypeOK, write_samples, Fifo
  <2>2. Parts'
    <3>1. /\ reader' = reader /\ last_spk_info' = last_spk_info
          /\ UNCHANGED <<read_write_diff_bytes, dropped, handed, misread>>
          /\ skipped' = skipped /\ overflowed' = overflowed
      BY <1>2 DEF write_samples, tracker, history
    <3>2. spk_fifo'.front - spk_fifo.front = skipped' - skipped /\ spk_fifo'.front \in Nat /\ skipped' \in Int
      BY <2>1, <3>1, <1>s
    <3>3. overflowed' \/ (~overflowed /\ spk_fifo'.front = spk_fifo.front /\ spk_fifo'.rear >= spk_fifo.rear)
      <4>1. spk_fifo'.rear >= spk_fifo.rear
        BY <2>1, <1>s
      <4> QED BY <2>1, <3>1, <4>1
    <3> QED BY <2>1, <3>1, <3>2, <3>3, PartsKept DEF IInv
  <2>3. writer' = [at |-> "stamp", start |-> spk_fifo.rear, bytes |-> spk_fifo'.rear - spk_fifo.rear] /\ writer.at = "idle"
    BY <1>2 DEF write_samples
  <2>4. Written = spk_fifo.rear /\ Written' = spk_fifo.rear
    BY <2>3 DEF Written
  <2>5. infos' = infos /\ ts_fifo' = ts_fifo /\ End(Current)' = End(Current)
    BY <1>2, ReaderKept DEF write_samples, tracker
  <2>6. \A i : End(infos[i])' = End(infos[i])
    BY <2>5 DEF End
  <2>7. writer'.start + writer'.bytes = spk_fifo'.rear
    BY <2>1, <2>3, <1>s
  <2>8. OrderInv'
    BY <1>o, <2>4, <2>5, <2>6, <2>7 DEF OrderInv
  <2> QED BY <1>2, <2>2, <2>8, ResultKept DEF IInv, write_samples
<1>3. CASE write_timestamp
  <2> DEFINE info == [start |-> writer.start, bytes |-> writer.bytes]
  <2>1. writer.start \in Nat /\ writer.bytes \in Nat /\ writer.start + writer.bytes = spk_fifo.rear /\ Written = writer.start
    BY <1>3 DEF IInv, AecTypeOK, WriterType, OrderInv, write_timestamp, Written
  <2>2. Written' = spk_fifo.rear /\ writer'.at # "stamp"
    BY <1>3 DEF write_timestamp, Written, IdleWriter
  <2>3. infos' = Append(infos, info) /\ spk_fifo' = spk_fifo /\ ts_fifo'.front = ts_fifo.front
    BY <1>3, WriteOne DEF IInv, AecTypeOK, write_timestamp
  <2>4. Parts'
    <3>1. /\ reader' = reader /\ last_spk_info' = last_spk_info
          /\ UNCHANGED <<read_write_diff_bytes, dropped, handed, misread>>
          /\ skipped' = skipped /\ overflowed' = overflowed
      BY <1>3 DEF write_timestamp, tracker, history
    <3>2. spk_fifo'.front - spk_fifo.front = skipped' - skipped /\ spk_fifo'.rear >= spk_fifo.rear
      BY <2>3, <3>1, <1>s
    <3>3. overflowed' \/ (~overflowed /\ spk_fifo'.front = spk_fifo.front /\ spk_fifo'.rear >= spk_fifo.rear)
      BY <2>3, <3>1, <3>2
    <3>4. spk_fifo'.front \in Nat /\ spk_fifo'.rear \in Nat /\ skipped' \in Int
      BY <2>3, <3>1, <1>s
    <3> QED BY <3>1, <3>2, <3>3, <3>4, PartsKept DEF IInv
  <2>5. End(Current)' = End(Current)
    BY <1>3, ReaderKept DEF write_timestamp, tracker
  <2>6. info.start = writer.start /\ End(info) = spk_fifo.rear
    BY <2>1 DEF End
  <2> HIDE DEF info
  <2>7. /\ Len(infos) \in Nat /\ Len(infos') = Len(infos) + 1
        /\ \A i \in 1..Len(infos) : infos'[i] = infos[i]
        /\ infos'[Len(infos) + 1] = info
    BY <2>3 DEF IInv, AecTypeOK
  <2>8. \A i \in 1..Len(infos) : infos[i] \in Info
    BY DEF IInv, AecTypeOK
  <2>9. ASSUME NEW i \in 1..Len(infos')
        PROVE  /\ End(infos'[i]) <= Written'
               /\ i > ts_fifo'.front => End(Current)' <= infos'[i].start
               /\ \A j \in 1..Len(infos') : i < j => End(infos'[i]) <= infos'[j].start
    <3>1. CASE i = Len(infos) + 1
      <4>1. infos'[i] = info /\ End(Current) <= writer.start
        BY <3>1, <2>1, <2>7 DEF IInv, OrderInv
      <4>2. \A j \in 1..Len(infos') : ~(i < j)
        BY <3>1, <2>7
      <4>3. spk_fifo.rear <= spk_fifo.rear
        BY <1>s
      <4> QED BY <4>1, <4>2, <4>3, <2>2, <2>5, <2>6
    <3>2. CASE i \in 1..Len(infos)
      <4>1. End(infos[i]) \in Nat /\ infos'[i] = infos[i]
        BY <3>2, <2>7, <2>8, EndIsNat
      <4>2. End(infos[i]) <= writer.start /\ (i > ts_fifo.front => End(Current) <= infos[i].start)
        BY <3>2, <2>1 DEF IInv, OrderInv
      <4>3. ASSUME NEW j \in 1..Len(infos'), i < j PROVE End(infos'[i]) <= infos'[j].start
        <5>1. CASE j \in 1..Len(infos)
          BY <3>2, <4>1, <4>3, <5>1, <2>7 DEF IInv, OrderInv
        <5>2. CASE j = Len(infos) + 1
          BY <4>1, <4>2, <5>2, <2>6, <2>7
        <5> QED BY <4>3, <5>1, <5>2, <2>7
      <4>4. End(infos'[i]) <= Written'
        <5>1. writer.start <= spk_fifo.rear /\ spk_fifo.rear \in Nat
          BY <2>1, <1>s
        <5> QED BY <4>1, <4>2, <5>1, <2>1, <2>2
      <4>5. i > ts_fifo'.front => End(Current)' <= infos'[i].start
        BY <4>1, <4>2, <2>3, <2>5
      <4> QED BY <4>3, <4>4, <4>5
    <3> QED BY <3>1, <3>2, <2>7
  <2>10. End(Current)' <= Written'
    <3>1. End(Current) <= writer.start /\ writer.start <= spk_fifo.rear
      BY <1>o, <1>s, <2>1 DEF OrderInv
    <3> QED BY <1>s, <1>t, <2>1, <2>2, <2>5, <3>1
  <2>11. OrderInv'
    <3>1. \A i : End(infos[i])' = End(infos'[i])
      BY DEF End
    <3> QED BY <2>2, <2>9, <2>10, <3>1 DEF OrderInv
  <2> QED BY <1>3, <2>4, <2>11, ResultKept DEF IInv, write_timestamp
<1>4. CASE log_spk_queue
  <2>1. PICK after \in fifo_available(spk_fifo, SpkCapacity) : DropSamples(after)
    BY <1>4 DEF log_spk_queue
  <2>2. after \in Fifo /\ after.rear = spk_fifo.rear /\ spk_fifo.front <= after.front /\ (~Overrun(spk_fifo, SpkCapacity) => after = spk_fifo)
    BY AvailableFacts DEF IInv, AecTypeOK
  <2>3. spk_fifo' = after /\ skipped' = skipped + (after.front - spk_fifo.front) /\ after.front \in Nat /\ after.rear \in Nat
    BY <2>1, <2>2 DEF DropSamples, Fifo
  <2>4. overflowed' \/ (~overflowed /\ spk_fifo'.front = spk_fifo.front /\ spk_fifo'.rear >= spk_fifo.rear)
    <3>1. overflowed' = (overflowed \/ Overrun(spk_fifo, SpkCapacity))
      BY <1>4 DEF log_spk_queue
    <3>2. CASE Overrun(spk_fifo, SpkCapacity)
      BY <3>1, <3>2
    <3>3. CASE ~Overrun(spk_fifo, SpkCapacity)
      <4>1. spk_fifo' = spk_fifo /\ spk_fifo.rear >= spk_fifo.rear
        BY <2>2, <2>3, <3>3, <1>s
      <4> QED BY <3>1, <3>3, <4>1
    <3> QED BY <3>2, <3>3
  <2>5. Parts'
    BY <1>4, <2>2, <2>3, <2>4, <1>k, <1>s, PartsKept DEF log_spk_queue, tracker
  <2>6. writer' = [IdleWriter EXCEPT !.at = "log_ts"] /\ writer.at = "log_spk" /\ infos' = infos /\ ts_fifo' = ts_fifo
    BY <1>4 DEF log_spk_queue
  <2>7. Written = spk_fifo.rear /\ Written' = spk_fifo.rear /\ writer'.at # "stamp"
    BY <2>2, <2>3, <2>6 DEF Written, IdleWriter
  <2>8. End(Current)' = End(Current)
    BY <1>4, ReaderKept DEF log_spk_queue, tracker
  <2>9. \A i : End(infos[i])' = End(infos[i])
    BY <2>6 DEF End
  <2>10. OrderInv'
    BY <1>o, <2>6, <2>7, <2>8, <2>9 DEF OrderInv
  <2> QED BY <1>4, <2>5, <2>10, ResultKept DEF IInv, log_spk_queue
<1>5. CASE log_ts_queue
  <2>1. ts_fifo'.front \in Nat /\ ts_fifo'.front >= ts_fifo.front
    BY <1>5, AvailableFacts DEF IInv, AecTypeOK, log_ts_queue, Fifo
  <2>2. Parts'
    BY <1>5, <1>k, <1>s, PartsKept DEF log_ts_queue, tracker
  <2>3. writer' = IdleWriter /\ writer.at = "log_ts" /\ infos' = infos /\ spk_fifo' = spk_fifo
    BY <1>5 DEF log_ts_queue
  <2>4. Written' = Written /\ writer'.at # "stamp"
    BY <2>3 DEF Written, IdleWriter
  <2>5. End(Current)' = End(Current)
    BY <1>5, ReaderKept DEF log_ts_queue, tracker
  <2>6. \A i : End(infos[i])' = End(infos[i])
    BY <2>3 DEF End
  <2>7. OrderInv'
    BY <1>o, <1>t, <2>1, <2>3, <2>4, <2>5, <2>6 DEF OrderInv
  <2> QED BY <1>5, <2>2, <2>7, ResultKept DEF IInv, log_ts_queue
<1> QED BY <1>1, <1>2, <1>3, <1>4, <1>5 DEF Playback
-----------------------------------------------------------------------------
(* What the invariant says where the reader is, and what it takes to get there. *)

Outside == {"idle", "poll", "read", "flush"}

LEMMA WhenOutside ==
  ASSUME Parts, reader.at \in Outside
  PROVE  /\ read_write_diff_bytes = spk_fifo.front - 0 - End(last_spk_info) - skipped + dropped
         /\ handed # None => handed <= End(last_spk_info)
         /\ ~misread /\ read_write_diff_bytes < 0 /\ handed # None => handed <= End(last_spk_info) + read_write_diff_bytes
         /\ reader.at = "read" => overflowed \/ spk_fifo.rear - spk_fifo.front >= ReadSize
<1>1. ~Forwarding /\ ~Stamping /\ Current = last_spk_info
  BY ReaderNow DEF Outside
<1> QED BY <1>1 DEF Parts, TrackInv, AscendInv, WholeInv

LEMMA WhenStamping ==
  ASSUME Parts, reader.at \in {"stamp", "ts_read"}
  PROVE  /\ read_write_diff_bytes = spk_fifo.front - Taken - End(last_spk_info) - skipped + dropped
         /\ reader.first - reader.skipped = spk_fifo.front - Taken - skipped
         /\ reader.at = "ts_read" => read_write_diff_bytes >= 0
         /\ handed # None => handed <= End(last_spk_info)
         /\ ~misread /\ read_write_diff_bytes < 0 /\ handed # None => handed <= End(last_spk_info) + read_write_diff_bytes
         /\ misread \/ reader.count >= 0
         /\ overflowed \/ reader.count = ReadSize
<1>1. ~Forwarding /\ Stamping /\ Current = last_spk_info
  BY ReaderNow
<1> QED BY <1>1 DEF Parts, TrackInv, AscendInv, WholeInv

LEMMA WhenForwarding ==
  ASSUME Parts, reader.at \in {"forward", "forward_read"}
  PROVE  /\ read_write_diff_bytes = spk_fifo.front - 0 - End(reader.info) - skipped + dropped
         /\ reader.at = "forward_read" => read_write_diff_bytes > 0
         /\ reader.stamp \in Int /\ (misread \/ reader.stamp = reader.due)
         /\ handed # None => handed <= End(reader.info)
         /\ reader.stamp <= End(reader.info)
         /\ ~misread /\ read_write_diff_bytes < 0 => reader.stamp <= End(reader.info) + read_write_diff_bytes
         /\ ~misread /\ handed # None => handed <= reader.stamp
         /\ overflowed \/ reader.count = ReadSize
<1>1. Forwarding /\ ~Stamping /\ Current = reader.info
  BY ReaderNow
<1> QED BY <1>1 DEF Parts, TrackInv, AscendInv, WholeInv

LEMMA ToOutside ==
  ASSUME reader'.at \in Outside,
         read_write_diff_bytes' = spk_fifo'.front - 0 - End(last_spk_info') - skipped' + dropped',
         handed' # None => handed' <= End(last_spk_info'),
         ~misread' /\ read_write_diff_bytes' < 0 /\ handed' # None =>
           handed' <= End(last_spk_info') + read_write_diff_bytes',
         reader'.at = "read" => overflowed' \/ spk_fifo'.rear - spk_fifo'.front >= ReadSize
  PROVE  Parts'
<1>1. ~Forwarding' /\ ~Stamping' /\ End(Current)' = End(last_spk_info')
  BY ReaderElsewhere DEF Outside
<1>2. reader'.at # "ts_read" /\ reader'.at # "forward_read"
  BY DEF Outside
<1>3. TrackInv'
  BY <1>1, <1>2 DEF TrackInv
<1>4. AscendInv'
  BY <1>1 DEF AscendInv
<1>5. WholeInv'
  BY <1>1 DEF WholeInv
<1> QED BY <1>3, <1>4, <1>5 DEF Parts

LEMMA ToStamping ==
  ASSUME reader'.at \in {"stamp", "ts_read"},
         NEW taken, taken = IF reader'.count < 0 THEN 0 ELSE reader'.count,
         read_write_diff_bytes' = spk_fifo'.front - taken - End(last_spk_info') - skipped' + dropped',
         reader'.first - reader'.skipped = spk_fifo'.front - taken - skipped',
         reader'.at = "ts_read" => read_write_diff_bytes' >= 0,
         handed' # None => handed' <= End(last_spk_info'),
         ~misread' /\ read_write_diff_bytes' < 0 /\ handed' # None =>
           handed' <= End(last_spk_info') + read_write_diff_bytes',
         misread' \/ reader'.count >= 0,
         overflowed' \/ reader'.count = ReadSize
  PROVE  Parts'
<1>1. ~Forwarding' /\ Stamping' /\ End(Current)' = End(last_spk_info')
  BY ReaderStamps
<1>2. Taken' = taken /\ reader'.at # "forward_read" /\ reader'.at # "read"
  BY DEF Taken
<1>3. TrackInv'
  BY <1>1, <1>2 DEF TrackInv
<1>4. AscendInv'
  BY <1>1 DEF AscendInv
<1>5. WholeInv'
  BY <1>1, <1>2 DEF WholeInv
<1> QED BY <1>3, <1>4, <1>5 DEF Parts

LEMMA ToForwarding ==
  ASSUME reader'.at \in {"forward", "forward_read"},
         read_write_diff_bytes' = spk_fifo'.front - 0 - End(reader'.info) - skipped' + dropped',
         reader'.at = "forward_read" => read_write_diff_bytes' > 0,
         reader'.stamp \in Int, misread' \/ reader'.stamp = reader'.due,
         handed' # None => handed' <= End(reader'.info),
         reader'.stamp <= End(reader'.info),
         ~misread' /\ read_write_diff_bytes' < 0 => reader'.stamp <= End(reader'.info) + read_write_diff_bytes',
         ~misread' /\ handed' # None => handed' <= reader'.stamp,
         overflowed' \/ reader'.count = ReadSize
  PROVE  Parts'
<1>1. Forwarding' /\ ~Stamping' /\ End(Current)' = End(reader'.info)
  BY ReaderForwards
<1>2. reader'.at # "ts_read" /\ reader'.at # "read"
  OBVIOUS
<1>3. TrackInv'
  BY <1>1, <1>2 DEF TrackInv
<1>4. AscendInv'
  BY <1>1 DEF AscendInv
<1>5. WholeInv'
  BY <1>1, <1>2 DEF WholeInv
<1> QED BY <1>3, <1>4, <1>5 DEF Parts

\* A timestamp is taken: the packets after it still follow it.
LEMMA OrderTaken ==
  ASSUME OrderInv, AecTypeOK, infos' = infos, writer' = writer, spk_fifo' = spk_fifo,
         ts_fifo.front + 1 \in 1..Len(infos), ts_fifo'.front = ts_fifo.front + 1,
         End(Current)' = End(infos[ts_fifo.front + 1])
  PROVE  OrderInv'
<1>1. Written' = Written
  BY DEF Written
<1>2. \A i : End(infos[i])' = End(infos[i])
  BY DEF End
<1>3. ts_fifo.front \in Nat
  BY Scalars
<1>4. \A i \in 1..Len(infos) : i > ts_fifo'.front => ts_fifo.front + 1 < i /\ i \in 1..Len(infos)
  BY <1>3
<1>5. \A i \in 1..Len(infos) : i > ts_fifo'.front => End(Current)' <= infos[i].start
  BY <1>4 DEF OrderInv
<1>6. End(Current)' <= Written'
  BY <1>1 DEF OrderInv
<1> QED BY <1>1, <1>2, <1>5, <1>6 DEF OrderInv

\* The next timestamp is of a packet, and that packet begins after the current one.
LEMMA NextStamp ==
  ASSUME OrderInv, AecTypeOK, HasStamp
  PROVE  /\ ts_fifo.front + 1 \in 1..Len(infos)
         /\ infos[ts_fifo.front + 1] \in Info
         /\ End(Current) <= infos[ts_fifo.front + 1].start
         /\ infos[ts_fifo.front + 1].start \in Nat /\ infos[ts_fifo.front + 1].bytes \in Nat
         /\ End(infos[ts_fifo.front + 1]) = infos[ts_fifo.front + 1].start + infos[ts_fifo.front + 1].bytes
<1>1. ts_fifo \in Fifo /\ ts_fifo.front <= ts_fifo.rear /\ ts_fifo.rear = Len(infos) /\ infos \in Seq(Info)
  BY DEF AecTypeOK
<1>2. ts_fifo.front # ts_fifo.rear /\ ts_fifo.front \in Nat /\ ts_fifo.rear \in Nat
  BY <1>1 DEF HasStamp, IsEmpty, Fifo
<1>3. ts_fifo.front + 1 \in 1..Len(infos) /\ ts_fifo.front + 1 > ts_fifo.front
  BY <1>1, <1>2
<1>4. infos[ts_fifo.front + 1] \in Info
  BY <1>1, <1>3
<1> QED BY <1>3, <1>4 DEF Info, End, OrderInv
-----------------------------------------------------------------------------
(* The reader's steps. *)

LEMMA OutsideStep ==
  ASSUME IInv, AecTypeOK',
         \/ in_read \/ enough_samples \/ wait_for_samples \/ time_out \/ flush_spk_fifo
  PROVE  IInv'
<1>s. /\ spk_fifo.front \in Nat /\ spk_fifo.rear \in Nat /\ End(last_spk_info) \in Nat
      /\ skipped \in Int /\ dropped \in Int /\ read_write_diff_bytes \in Int
  BY Scalars DEF IInv
<1>f. spk_fifo \in Fifo /\ spk_fifo.front <= spk_fifo.rear
  BY DEF IInv, AecTypeOK
<1>1. /\ reader.at \in Outside /\ reader'.at \in Outside
      /\ UNCHANGED <<tracker, infos, writer, dropped, handed, misread, ts_fifo>>
  <2>1. CASE in_read
    BY <2>1 DEF in_read, Outside, IdleReader, fifos
  <2>2. CASE enough_samples
    <3>1. reader'.at = "read" /\ reader.at = "poll"
      <4>1. reader \in ReaderType
        BY DEF IInv, AecTypeOK
      <4> QED BY <2>2, <4>1 DEF enough_samples, ReaderType
    <3> QED BY <2>2, <3>1 DEF enough_samples, Outside
  <2>3. CASE wait_for_samples
    <3>1. reader'.at = "poll" /\ reader.at = "poll"
      <4>1. reader \in ReaderType
        BY DEF IInv, AecTypeOK
      <4> QED BY <2>3, <4>1 DEF wait_for_samples, Lacking, ReaderType
    <3> QED BY <2>3, <3>1 DEF wait_for_samples, Outside, history, fifos
  <2>4. CASE time_out
    BY <2>4 DEF time_out, Lacking, Return, Outside, IdleReader, history, fifos
  <2>5. CASE flush_spk_fifo
    BY <2>5 DEF flush_spk_fifo, Outside, IdleReader
  <2> QED BY <2>1, <2>2, <2>3, <2>4, <2>5
<1>2. /\ spk_fifo'.front - spk_fifo.front = skipped' - skipped /\ spk_fifo'.rear = spk_fifo.rear
      /\ spk_fifo'.front \in Nat /\ skipped' \in Int
      /\ reader'.at = "read" => overflowed' \/ spk_fifo'.rear - spk_fifo'.front >= ReadSize
  <2>1. CASE in_read \/ wait_for_samples \/ time_out
    <3>1. spk_fifo' = spk_fifo /\ skipped' = skipped
      BY <2>1 DEF in_read, wait_for_samples, time_out, fifos, history
    <3>2. reader'.at # "read"
      <4>1. reader \in ReaderType
        BY DEF IInv, AecTypeOK
      <4>2. CASE wait_for_samples
        BY <4>1, <4>2 DEF wait_for_samples, Lacking, ReaderType
      <4>3. CASE in_read
        BY <4>3 DEF in_read, IdleReader
      <4>4. CASE time_out
        BY <4>4 DEF time_out, Return, IdleReader
      <4> QED BY <2>1, <4>2, <4>3, <4>4
    <3> QED BY <3>1, <3>2, <1>s
  <2>2. CASE enough_samples
    <3>1. PICK after \in fifo_available(spk_fifo, SpkCapacity) : DropSamples(after)
      BY <2>2 DEF enough_samples
    <3>2. after \in Fifo /\ after.rear = spk_fifo.rear /\ (~Overrun(spk_fifo, SpkCapacity) => after = spk_fifo)
      BY <1>f, AvailableFacts
    <3>3. spk_fifo' = after /\ skipped' = skipped + (after.front - spk_fifo.front) /\ after.front \in Nat
      BY <3>1, <3>2 DEF DropSamples, Fifo
    <3>4. overflowed' = (overflowed \/ Overrun(spk_fifo, SpkCapacity))
      BY <2>2 DEF enough_samples
    <3>5. spk_fifo.rear - spk_fifo.front >= ReadSize \/ Overrun(spk_fifo, SpkCapacity)
      BY <2>2 DEF enough_samples
    <3>6. overflowed' \/ spk_fifo'.rear - spk_fifo'.front >= ReadSize
      <4>1. CASE Overrun(spk_fifo, SpkCapacity)
        BY <3>4, <4>1
      <4>2. CASE ~Overrun(spk_fifo, SpkCapacity)
        BY <3>2, <3>3, <3>5, <4>2
      <4> QED BY <4>1, <4>2
    <3> QED BY <3>2, <3>3, <3>6, <1>s
  <2>3. CASE flush_spk_fifo
    <3>1. PICK after \in fifo_flush(spk_fifo, SpkCapacity) : DropSamples(after)
      BY <2>3 DEF flush_spk_fifo
    <3>2. after \in Fifo /\ after.rear = spk_fifo.rear
      BY <1>f, FlushFacts
    <3>3. spk_fifo' = after /\ skipped' = skipped + (after.front - spk_fifo.front) /\ after.front \in Nat
      BY <3>1, <3>2 DEF DropSamples, Fifo
    <3>4. reader'.at # "read"
      BY <2>3 DEF flush_spk_fifo, IdleReader
    <3> QED BY <3>2, <3>3, <3>4, <1>s
  <2> QED BY <2>1, <2>2, <2>3
<1>3. Parts'
  <2>1. /\ read_write_diff_bytes' = read_write_diff_bytes /\ last_spk_info' = last_spk_info
        /\ dropped' = dropped /\ handed' = handed /\ misread' = misread
    BY <1>1 DEF tracker
  <2>2. End(last_spk_info') = End(last_spk_info)
    BY <2>1
  <2>3. /\ read_write_diff_bytes = spk_fifo.front - 0 - End(last_spk_info) - skipped + dropped
        /\ handed # None => handed <= End(last_spk_info)
        /\ ~misread /\ read_write_diff_bytes < 0 /\ handed # None => handed <= End(last_spk_info) + read_write_diff_bytes
    BY <1>1, WhenOutside DEF IInv
  <2>4. read_write_diff_bytes' = spk_fifo'.front - 0 - End(last_spk_info') - skipped' + dropped'
    BY <2>1, <2>2, <2>3, <1>2, <1>s
  <2> QED BY <1>1, <1>2, <2>1, <2>2, <2>3, <2>4, ToOutside
<1>4. OrderInv'
  <2>1. Current = last_spk_info /\ End(Current)' = End(last_spk_info')
    BY <1>1, ReaderNow, ReaderElsewhere DEF Outside
  <2>2. End(Current)' = End(Current)
    BY <1>1, <2>1 DEF tracker
  <2>3. ts_fifo.front \in Nat
    BY Scalars DEF IInv
  <2> QED BY <1>1, <1>2, <2>2, <2>3, OrderKept DEF IInv
<1>5. Results'
  <2>1. CASE time_out
    BY <2>1 DEF time_out, Return, NoResult, Results, StampLags, StampsAscend, WholeReads
  <2>2. CASE in_read \/ enough_samples \/ wait_for_samples \/ flush_spk_fifo
    BY <2>2, ResultKept DEF IInv, in_read, enough_samples, wait_for_samples, flush_spk_fifo
  <2> QED BY <2>1, <2>2
<1> QED BY <1>3, <1>4, <1>5 DEF IInv

LEMMA SamplesRead ==
  ASSUME IInv, read_samples
  PROVE  /\ reader.at = "read" /\ reader'.at = "stamp"
         /\ UNCHANGED <<tracker, infos, writer, dropped, handed, ts_fifo, result>>
         /\ spk_fifo'.rear = spk_fifo.rear /\ spk_fifo'.front \in Nat /\ skipped' \in Int
         /\ reader'.count \in Int /\ (reader'.count < 0 => misread')
         /\ spk_fifo'.front - spk_fifo.front = skipped' - skipped + (IF reader'.count < 0 THEN 0 ELSE reader'.count)
         /\ reader'.first = spk_fifo'.front - (IF reader'.count < 0 THEN 0 ELSE reader'.count)
         /\ reader'.skipped = skipped'
         /\ misread => misread'
         /\ overflowed' \/ reader'.count = ReadSize
<1>s. /\ spk_fifo.front \in Nat /\ spk_fifo.rear \in Nat /\ spk_fifo.front <= spk_fifo.rear
      /\ End(last_spk_info) \in Nat
      /\ skipped \in Int /\ dropped \in Int /\ read_write_diff_bytes \in Int
  BY Scalars DEF IInv
<1>f. spk_fifo \in Fifo /\ reader \in ReaderType
  BY DEF IInv, AecTypeOK
<1>a. /\ reader.at = "read"
      /\ UNCHANGED <<tracker, infos, writer, dropped, handed, ts_fifo, result>>
  BY DEF read_samples, history
<1> DEFINE filled == spk_fifo.rear - spk_fifo.front
           count == IF filled <= ReadSize THEN filled ELSE ReadSize
<1>1. /\ spk_fifo' = [spk_fifo EXCEPT !.front = @ + count]
      /\ reader' = [reader EXCEPT !.at = "stamp", !.first = spk_fifo.front, !.count = count, !.skipped = skipped]
      /\ skipped' = skipped /\ misread' = misread /\ overflowed' = overflowed
  BY DEF read_samples, history
<1>2. count \in Nat /\ (filled >= ReadSize => count = ReadSize)
  BY <1>s, AecReferenceAssumption
<1>3. overflowed \/ filled >= ReadSize
  BY <1>a, WhenOutside DEF Outside, IInv
<1> HIDE DEF count
<1>4. spk_fifo'.front = spk_fifo.front + count /\ spk_fifo'.rear = spk_fifo.rear
  BY <1>1, <1>f DEF Fifo
<1>5. reader'.at = "stamp" /\ reader'.first = spk_fifo.front /\ reader'.count = count /\ reader'.skipped = skipped
  BY <1>1, <1>f DEF ReaderType
<1> HIDE DEF filled
<1>6. overflowed' \/ reader'.count = ReadSize
  BY <1>1, <1>2, <1>3, <1>5
<1>7. ~(reader'.count < 0)
  BY <1>2, <1>5
<1> QED BY <1>a, <1>1, <1>2, <1>4, <1>5, <1>6, <1>7, <1>s

LEMMA OverrunRead ==
  ASSUME IInv, read_overrun
  PROVE  /\ reader.at = "read" /\ reader'.at = "stamp"
         /\ UNCHANGED <<tracker, infos, writer, dropped, handed, ts_fifo, result>>
         /\ spk_fifo'.rear = spk_fifo.rear /\ spk_fifo'.front \in Nat /\ skipped' \in Int
         /\ reader'.count \in Int /\ (reader'.count < 0 => misread')
         /\ spk_fifo'.front - spk_fifo.front = skipped' - skipped + (IF reader'.count < 0 THEN 0 ELSE reader'.count)
         /\ reader'.first = spk_fifo'.front - (IF reader'.count < 0 THEN 0 ELSE reader'.count)
         /\ reader'.skipped = skipped'
         /\ misread => misread'
         /\ overflowed' \/ reader'.count = ReadSize
<1>s. /\ spk_fifo.front \in Nat /\ spk_fifo.rear \in Nat /\ spk_fifo.front <= spk_fifo.rear
      /\ End(last_spk_info) \in Nat
      /\ skipped \in Int /\ dropped \in Int /\ read_write_diff_bytes \in Int
  BY Scalars DEF IInv
<1>f. spk_fifo \in Fifo /\ reader \in ReaderType
  BY DEF IInv, AecTypeOK
<1>a. /\ reader.at = "read" /\ reader'.at = "stamp"
      /\ UNCHANGED <<tracker, infos, writer, dropped, handed, ts_fifo, result>>
  BY <1>f DEF read_overrun, ReaderType
<1>1. PICK after \in CatchUp(spk_fifo, SpkCapacity) :
        /\ DropSamples(after)
        /\ reader' = [reader EXCEPT !.at = "stamp", !.first = after.front, !.count = -EOVERFLOW, !.skipped = skipped']
  BY ZenonT(30) DEF read_overrun
<1>2. after \in Fifo /\ after.rear = spk_fifo.rear
  BY <1>f, <1>s, CatchUpFacts, AecReferenceAssumption DEF read_overrun
<1>3. spk_fifo' = after /\ skipped' = skipped + (after.front - spk_fifo.front) /\ after.front \in Nat
  BY <1>1, <1>2 DEF DropSamples, Fifo
<1>4. reader'.first = after.front /\ reader'.count = -EOVERFLOW /\ reader'.skipped = skipped'
  BY <1>1, <1>f DEF ReaderType
<1>5. reader'.count < 0 /\ reader'.count \in Int
  BY <1>4, AecReferenceAssumption
<1>6. misread' = TRUE /\ overflowed' = TRUE
  BY DEF read_overrun
<1> QED BY <1>a, <1>2, <1>3, <1>4, <1>5, <1>6, <1>s

LEMMA ReadStep ==
  ASSUME IInv, AecTypeOK', read_samples \/ read_overrun
  PROVE  IInv'
<1>s. /\ spk_fifo.front \in Nat /\ spk_fifo.rear \in Nat /\ spk_fifo.front <= spk_fifo.rear
      /\ End(last_spk_info) \in Nat
      /\ skipped \in Int /\ dropped \in Int /\ read_write_diff_bytes \in Int
  BY Scalars DEF IInv
<1>f. spk_fifo \in Fifo /\ reader \in ReaderType
  BY DEF IInv, AecTypeOK
<1>1. /\ reader.at = "read" /\ reader'.at = "stamp"
      /\ UNCHANGED <<tracker, infos, writer, dropped, handed, ts_fifo, result>>
  BY SamplesRead, OverrunRead
<1>2. /\ spk_fifo'.rear = spk_fifo.rear /\ spk_fifo'.front \in Nat /\ skipped' \in Int
      /\ reader'.count \in Int /\ (reader'.count < 0 => misread')
      /\ spk_fifo'.front - spk_fifo.front = skipped' - skipped + (IF reader'.count < 0 THEN 0 ELSE reader'.count)
      /\ reader'.first = spk_fifo'.front - (IF reader'.count < 0 THEN 0 ELSE reader'.count)
      /\ reader'.skipped = skipped'
      /\ misread => misread'
      /\ overflowed' \/ reader'.count = ReadSize
  BY SamplesRead, OverrunRead
<1> DEFINE taken == IF reader'.count < 0 THEN 0 ELSE reader'.count
<1>3. taken \in Nat
  BY <1>2
<1>4. spk_fifo'.front - spk_fifo.front = skipped' - skipped + taken /\ reader'.first = spk_fifo'.front - taken
  BY <1>2
<1>5. taken = IF reader'.count < 0 THEN 0 ELSE reader'.count
  OBVIOUS
<1> HIDE DEF taken
<1>6. Parts'
  <2>1. /\ read_write_diff_bytes' = read_write_diff_bytes /\ last_spk_info' = last_spk_info
        /\ dropped' = dropped /\ handed' = handed
    BY <1>1 DEF tracker
  <2>2. End(last_spk_info') = End(last_spk_info)
    BY <2>1
  <2>3. /\ read_write_diff_bytes = spk_fifo.front - 0 - End(last_spk_info) - skipped + dropped
        /\ handed # None => handed <= End(last_spk_info)
        /\ ~misread /\ read_write_diff_bytes < 0 /\ handed # None => handed <= End(last_spk_info) + read_write_diff_bytes
    BY <1>1, WhenOutside DEF IInv, Outside
  <2>4. read_write_diff_bytes' = spk_fifo'.front - taken - End(last_spk_info') - skipped' + dropped'
    BY <2>1, <2>2, <2>3, <1>2, <1>3, <1>4, <1>s
  <2>5. reader'.first - reader'.skipped = spk_fifo'.front - taken - skipped'
    BY <1>2, <1>3, <1>4
  <2>6. misread' \/ reader'.count >= 0
    BY <1>2
  <2>7. ~misread' /\ read_write_diff_bytes' < 0 /\ handed' # None =>
           handed' <= End(last_spk_info') + read_write_diff_bytes'
    BY <2>1, <2>2, <2>3, <1>2
  <2>8. reader'.at \in {"stamp", "ts_read"} /\ reader'.at # "ts_read"
    BY <1>1
  <2>9. handed' # None => handed' <= End(last_spk_info')
    BY <2>1, <2>2, <2>3
  <2>10. overflowed' \/ reader'.count = ReadSize
    BY <1>2
  <2> QED BY <1>5, <2>4, <2>5, <2>6, <2>7, <2>8, <2>9, <2>10, ToStamping
<1>7. OrderInv'
  <2>1. Current = last_spk_info /\ End(Current)' = End(last_spk_info')
    BY <1>1, ReaderNow, ReaderStamps
  <2>2. End(Current)' = End(Current)
    BY <1>1, <2>1 DEF tracker
  <2>3. ts_fifo.front \in Nat
    BY Scalars DEF IInv
  <2> QED BY <1>1, <1>2, <2>2, <2>3, OrderKept DEF IInv
<1> QED BY <1>1, <1>6, <1>7, ResultKept DEF IInv

\* Where the reader has the samples and looks for their timestamp.
LEMMA ReuseStep ==
  ASSUME IInv, AecTypeOK', reuse_timestamp
  PROVE  IInv'
<1>s. /\ spk_fifo.front \in Nat /\ End(last_spk_info) \in Nat /\ Taken \in Nat
      /\ reader.first \in Nat /\ reader.count \in Int /\ reader.skipped \in Int
      /\ skipped \in Int /\ dropped \in Int /\ read_write_diff_bytes \in Int
  BY Scalars DEF IInv
<1>r. reader \in ReaderType /\ last_spk_info \in Info
  BY DEF IInv, AecTypeOK
<1>1. /\ reader.at = "stamp" /\ read_write_diff_bytes < 0
      /\ reader' = [reader EXCEPT !.at = "forward", !.info = last_spk_info, !.due = reader.first - reader.skipped + dropped,
                                  !.stamp = End(last_spk_info) + read_write_diff_bytes]
      /\ read_write_diff_bytes' = read_write_diff_bytes + reader.count
      /\ skipped' = skipped + (Taken - reader.count)
      /\ UNCHANGED <<spk_fifo, ts_fifo, infos, last_spk_info, writer, result, dropped, handed, overflowed, misread>>
  BY DEF reuse_timestamp, fifos
<1>2. /\ reader'.at = "forward" /\ reader'.info = last_spk_info /\ reader'.count = reader.count
      /\ reader'.due = reader.first - reader.skipped + dropped
      /\ reader'.stamp = End(last_spk_info) + read_write_diff_bytes
  BY <1>1, <1>r DEF ReaderType
<1>3. /\ read_write_diff_bytes = spk_fifo.front - Taken - End(last_spk_info) - skipped + dropped
      /\ reader.first - reader.skipped = spk_fifo.front - Taken - skipped
      /\ handed # None => handed <= End(last_spk_info)
      /\ ~misread /\ read_write_diff_bytes < 0 /\ handed # None => handed <= End(last_spk_info) + read_write_diff_bytes
      /\ misread \/ reader.count >= 0
      /\ overflowed \/ reader.count = ReadSize
  BY <1>1, WhenStamping DEF IInv
<1>4. End(reader'.info) = End(last_spk_info)
  BY <1>2
<1>5. reader'.stamp \in Int /\ reader'.stamp = reader'.due /\ reader'.stamp <= End(reader'.info)
  BY <1>1, <1>2, <1>3, <1>4, <1>s
<1>6. read_write_diff_bytes' = spk_fifo'.front - 0 - End(reader'.info) - skipped' + dropped'
  BY <1>1, <1>3, <1>4, <1>s
<1>7. ~misread' /\ read_write_diff_bytes' < 0 => reader'.stamp <= End(reader'.info) + read_write_diff_bytes'
  BY <1>1, <1>2, <1>3, <1>4, <1>s
<1>8. /\ ~misread' /\ handed' # None => handed' <= reader'.stamp
      /\ handed' # None => handed' <= End(reader'.info)
  BY <1>1, <1>2, <1>3, <1>4
<1>9. overflowed' \/ reader'.count = ReadSize
  BY <1>1, <1>2, <1>3
<1>10. reader'.at \in {"forward", "forward_read"} /\ reader'.at # "forward_read"
  BY <1>2
<1>11. Parts'
  BY <1>5, <1>6, <1>7, <1>8, <1>9, <1>10, ToForwarding
<1>12. OrderInv'
  <2>1. End(Current)' = End(Current)
    BY <1>1, <1>4, <1>10, ReaderNow, ReaderForwards
  <2>2. ts_fifo.front \in Nat
    BY Scalars DEF IInv
  <2> QED BY <1>1, <2>1, <2>2, OrderKept DEF IInv
<1> QED BY <1>1, <1>11, <1>12, ResultKept DEF IInv

\* A read ends with this outcome, and the samples that went with it are counted.
LEMMA NoTimestampStep ==
  ASSUME IInv, AecTypeOK', no_timestamp
  PROVE  IInv'
<1>s. /\ spk_fifo.front \in Nat /\ End(last_spk_info) \in Nat /\ Taken \in Nat
      /\ skipped \in Int /\ dropped \in Int /\ read_write_diff_bytes \in Int
  BY Scalars DEF IInv
<1>1. /\ reader.at = "stamp" /\ read_write_diff_bytes >= 0
      /\ reader' = IdleReader /\ result' = Outcome(None)
      /\ skipped' = skipped + Taken
      /\ UNCHANGED <<spk_fifo, ts_fifo, infos, read_write_diff_bytes, last_spk_info, writer, dropped, handed, overflowed, misread>>
  BY DEF no_timestamp, Return, fifos, tracker
<1>2. reader'.at \in Outside /\ reader'.at # "read"
  BY <1>1 DEF IdleReader, Outside
<1>3. /\ read_write_diff_bytes = spk_fifo.front - Taken - End(last_spk_info) - skipped + dropped
      /\ handed # None => handed <= End(last_spk_info)
      /\ overflowed \/ reader.count = ReadSize
  BY <1>1, WhenStamping DEF IInv
<1>4. End(last_spk_info') = End(last_spk_info)
  BY <1>1
<1>5. read_write_diff_bytes' = spk_fifo'.front - 0 - End(last_spk_info') - skipped' + dropped'
  BY <1>1, <1>3, <1>4, <1>s
<1>6. handed' # None => handed' <= End(last_spk_info')
  BY <1>1, <1>3, <1>4
<1>7. ~(read_write_diff_bytes' < 0)
  BY <1>1, <1>s
<1>8. Parts'
  BY <1>2, <1>5, <1>6, <1>7, ToOutside
<1>9. OrderInv'
  <2>1. End(Current)' = End(Current)
    BY <1>1, <1>2, <1>4, ReaderNow, ReaderElsewhere DEF Outside
  <2>2. ts_fifo.front \in Nat
    BY Scalars DEF IInv
  <2> QED BY <1>1, <2>1, <2>2, OrderKept DEF IInv
<1>10. Results'
  <2>1. result'.stamp = None /\ result'.whole = (reader.count = ReadSize \/ overflowed)
    BY <1>1 DEF Outcome
  <2>2. result'.whole
    BY <1>3, <2>1
  <2> QED BY <2>1, <2>2 DEF Results, StampLags, StampsAscend, WholeReads
<1> QED BY <1>8, <1>9, <1>10 DEF IInv

LEMMA SomeTimestampStep ==
  ASSUME IInv, AecTypeOK', some_timestamp
  PROVE  IInv'
<1>r. reader \in ReaderType /\ ts_fifo \in Fifo /\ ts_fifo.front <= ts_fifo.rear
  BY DEF IInv, AecTypeOK
<1>1. /\ reader.at = "stamp" /\ read_write_diff_bytes >= 0
      /\ ts_fifo' \in fifo_available(ts_fifo, TsCapacity)
      /\ reader' = [reader EXCEPT !.at = "ts_read"]
      /\ UNCHANGED <<spk_fifo, infos, read_write_diff_bytes, last_spk_info, writer, result, skipped, dropped, handed, overflowed, misread>>
  BY DEF some_timestamp, tracker
<1>2. reader'.at = "ts_read" /\ reader'.count = reader.count /\ reader'.first = reader.first /\ reader'.skipped = reader.skipped
  BY <1>1, <1>r DEF ReaderType
<1>3. /\ read_write_diff_bytes = spk_fifo.front - Taken - End(last_spk_info) - skipped + dropped
      /\ reader.first - reader.skipped = spk_fifo.front - Taken - skipped
      /\ handed # None => handed <= End(last_spk_info)
      /\ ~misread /\ read_write_diff_bytes < 0 /\ handed # None => handed <= End(last_spk_info) + read_write_diff_bytes
      /\ misread \/ reader.count >= 0
      /\ overflowed \/ reader.count = ReadSize
  BY <1>1, WhenStamping DEF IInv
<1>4. Taken = IF reader'.count < 0 THEN 0 ELSE reader'.count
  BY <1>2 DEF Taken
<1>5. End(last_spk_info') = End(last_spk_info)
  BY <1>1
<1>6. /\ read_write_diff_bytes' = spk_fifo'.front - Taken - End(last_spk_info') - skipped' + dropped'
      /\ reader'.first - reader'.skipped = spk_fifo'.front - Taken - skipped'
      /\ read_write_diff_bytes' >= 0
      /\ handed' # None => handed' <= End(last_spk_info')
      /\ ~misread' /\ read_write_diff_bytes' < 0 /\ handed' # None => handed' <= End(last_spk_info') + read_write_diff_bytes'
      /\ misread' \/ reader'.count >= 0
      /\ overflowed' \/ reader'.count = ReadSize
  BY <1>1, <1>2, <1>3, <1>5
<1>7. reader'.at \in {"stamp", "ts_read"}
  BY <1>2
<1>8. Parts'
  BY <1>4, <1>6, <1>7, ToStamping
<1>9. ts_fifo'.front \in Nat /\ ts_fifo'.front >= ts_fifo.front
  BY <1>1, <1>r, AvailableFacts, AecReferenceAssumption DEF Fifo
<1>10. OrderInv'
  <2>1. End(Current)' = End(Current)
    BY <1>1, <1>5, <1>7, ReaderNow, ReaderStamps
  <2> QED BY <1>1, <1>9, <2>1, OrderKept DEF IInv
<1> QED BY <1>1, <1>8, <1>10, ResultKept DEF IInv

LEMMA TakeStep ==
  ASSUME IInv, AecTypeOK', take_timestamp
  PROVE  IInv'
<1> DEFINE info == infos[ts_fifo.front + 1]
<1>s. /\ spk_fifo.front \in Nat /\ End(last_spk_info) \in Nat /\ Taken \in Nat
      /\ reader.first \in Nat /\ reader.count \in Int /\ reader.skipped \in Int
      /\ skipped \in Int /\ dropped \in Int /\ read_write_diff_bytes \in Int
      /\ handed # None => handed \in Int
  BY Scalars DEF IInv
<1>r. reader \in ReaderType /\ ts_fifo \in Fifo
  BY DEF IInv, AecTypeOK
<1>1. /\ reader.at = "ts_read" /\ HasStamp
      /\ ts_fifo' = [ts_fifo EXCEPT !.front = @ + 1]
      /\ last_spk_info' = info
      /\ dropped' = dropped + (info.start - End(last_spk_info))
      /\ read_write_diff_bytes' = read_write_diff_bytes - info.bytes + reader.count
      /\ reader' = [reader EXCEPT !.at = "forward", !.stamp = info.start, !.info = info,
                                  !.due = reader.first - reader.skipped + dropped' - read_write_diff_bytes]
      /\ skipped' = skipped + (Taken - reader.count)
      /\ UNCHANGED <<spk_fifo, infos, writer, result, handed, overflowed, misread>>
  BY DEF take_timestamp
<1>2. /\ reader'.at = "forward" /\ reader'.info = info /\ reader'.count = reader.count
      /\ reader'.due = reader.first - reader.skipped + dropped' - read_write_diff_bytes
      /\ reader'.stamp = info.start
  BY <1>1, <1>r DEF ReaderType
<1>3. /\ read_write_diff_bytes = spk_fifo.front - Taken - End(last_spk_info) - skipped + dropped
      /\ reader.first - reader.skipped = spk_fifo.front - Taken - skipped
      /\ read_write_diff_bytes >= 0
      /\ handed # None => handed <= End(last_spk_info)
      /\ misread \/ reader.count >= 0
      /\ overflowed \/ reader.count = ReadSize
  BY <1>1, WhenStamping DEF IInv
<1>4. Current = last_spk_info
  BY <1>1, ReaderNow
<1>5. /\ ts_fifo.front + 1 \in 1..Len(infos)
      /\ End(last_spk_info) <= info.start
      /\ info.start \in Nat /\ info.bytes \in Nat /\ End(info) = info.start + info.bytes
  BY <1>1, <1>4, NextStamp DEF IInv
<1>6. ts_fifo'.front = ts_fifo.front + 1
  BY <1>1, <1>r DEF Fifo
<1> HIDE DEF info
<1>7. End(reader'.info) = End(info)
  BY <1>2
<1>e. /\ dropped' = dropped + (info.start - End(last_spk_info))
      /\ read_write_diff_bytes' = read_write_diff_bytes - info.bytes + reader.count
      /\ reader'.due = reader.first - reader.skipped + dropped' - read_write_diff_bytes
      /\ reader'.stamp = info.start
      /\ skipped' = skipped + (Taken - reader.count)
      /\ spk_fifo' = spk_fifo /\ handed' = handed
  BY <1>1, <1>2
<1>m. misread' = misread
  BY <1>1
<1>i. info.start \in Nat /\ info.bytes \in Nat /\ End(info) = info.start + info.bytes /\ End(last_spk_info) <= info.start
  BY <1>5
<1>8. reader'.stamp \in Int /\ reader'.stamp = reader'.due /\ reader'.stamp <= End(reader'.info)
  BY <1>3, <1>i, <1>7, <1>e, <1>s
<1>9. read_write_diff_bytes' = spk_fifo'.front - 0 - End(reader'.info) - skipped' + dropped'
  BY <1>3, <1>i, <1>7, <1>e, <1>s
<1>10. ~misread' /\ read_write_diff_bytes' < 0 => reader'.stamp <= End(reader'.info) + read_write_diff_bytes'
  BY <1>3, <1>i, <1>7, <1>e, <1>m, <1>s
<1>11. handed' # None => handed' <= reader'.stamp /\ handed' <= End(reader'.info)
  BY <1>3, <1>i, <1>7, <1>e, <1>s
<1>12. overflowed' \/ reader'.count = ReadSize
  BY <1>1, <1>2, <1>3
<1>13. reader'.at \in {"forward", "forward_read"} /\ reader'.at # "forward_read"
  BY <1>2
<1>14. Parts'
  BY <1>8, <1>9, <1>10, <1>11, <1>12, <1>13, ToForwarding
<1>15. OrderInv'
  <2>1. End(Current)' = End(infos[ts_fifo.front + 1])
    BY <1>7, <1>13, ReaderForwards DEF info
  <2> QED BY <1>1, <1>5, <1>6, <2>1, OrderTaken DEF IInv
<1> QED BY <1>1, <1>14, <1>15, ResultKept DEF IInv

LEMMA TakeOldStep ==
  ASSUME IInv, AecTypeOK', take_old_timestamp
  PROVE  IInv'
<1>s. /\ spk_fifo.front \in Nat /\ End(last_spk_info) \in Nat /\ Taken \in Nat /\ reader.count \in Int
      /\ skipped \in Int /\ dropped \in Int /\ read_write_diff_bytes \in Int
  BY Scalars DEF IInv
<1>r. /\ reader \in ReaderType /\ last_spk_info \in Info
      /\ ts_fifo \in Fifo /\ ts_fifo.front <= ts_fifo.rear
  BY DEF IInv, AecTypeOK
<1>1. /\ reader.at = "ts_read"
      /\ ts_fifo' \in fifo_available(ts_fifo, TsCapacity)
      /\ skipped' = skipped + last_spk_info.bytes + (Taken - reader.count)
      /\ read_write_diff_bytes' = read_write_diff_bytes - last_spk_info.bytes + reader.count
      /\ reader' = [reader EXCEPT !.at = "forward", !.stamp = last_spk_info.start, !.info = last_spk_info]
      /\ misread' = TRUE
      /\ UNCHANGED <<spk_fifo, infos, last_spk_info, writer, result, dropped, handed, overflowed>>
  BY DEF take_old_timestamp
<1>2. /\ reader'.at = "forward" /\ reader'.info = last_spk_info /\ reader'.count = reader.count
      /\ reader'.stamp = last_spk_info.start
  BY <1>1, <1>r DEF ReaderType
<1>3. /\ read_write_diff_bytes = spk_fifo.front - Taken - End(last_spk_info) - skipped + dropped
      /\ handed # None => handed <= End(last_spk_info)
      /\ overflowed \/ reader.count = ReadSize
  BY <1>1, WhenStamping DEF IInv
<1>4. last_spk_info.start \in Nat /\ last_spk_info.bytes \in Nat /\ End(last_spk_info) = last_spk_info.start + last_spk_info.bytes
  BY <1>r DEF Info, End
<1>5. End(reader'.info) = End(last_spk_info)
  BY <1>2
<1>6. reader'.stamp \in Int /\ reader'.stamp <= End(reader'.info)
  BY <1>2, <1>4, <1>5
<1>7. read_write_diff_bytes' = spk_fifo'.front - 0 - End(reader'.info) - skipped' + dropped'
  BY <1>1, <1>3, <1>4, <1>5, <1>s
<1>8. handed' # None => handed' <= End(reader'.info)
  BY <1>1, <1>3, <1>5
<1>9. overflowed' \/ reader'.count = ReadSize
  BY <1>1, <1>2, <1>3
<1>10. reader'.at \in {"forward", "forward_read"} /\ reader'.at # "forward_read"
  BY <1>2
<1>11. misread'
  BY <1>1
<1>12. Parts'
  BY <1>6, <1>7, <1>8, <1>9, <1>10, <1>11, ToForwarding
<1>13. ts_fifo'.front \in Nat /\ ts_fifo'.front >= ts_fifo.front
  BY <1>1, <1>r, AvailableFacts, AecReferenceAssumption DEF Fifo
<1>14. OrderInv'
  <2>1. End(Current)' = End(Current)
    BY <1>1, <1>5, <1>10, ReaderNow, ReaderForwards
  <2> QED BY <1>1, <1>13, <2>1, OrderKept DEF IInv
<1> QED BY <1>1, <1>12, <1>14, ResultKept DEF IInv

\* Where the reader skips the timestamps that its samples are past.
LEMMA MoreStep ==
  ASSUME IInv, AecTypeOK', more_timestamps
  PROVE  IInv'
<1>r. reader \in ReaderType /\ ts_fifo \in Fifo /\ ts_fifo.front <= ts_fifo.rear
  BY DEF IInv, AecTypeOK
<1>1. /\ reader.at = "forward" /\ read_write_diff_bytes > 0
      /\ ts_fifo' \in fifo_available(ts_fifo, TsCapacity)
      /\ reader' = [reader EXCEPT !.at = "forward_read"]
      /\ UNCHANGED <<spk_fifo, infos, read_write_diff_bytes, last_spk_info, writer, result, skipped, dropped, handed, overflowed, misread>>
  BY DEF more_timestamps, tracker
<1>2. /\ reader'.at = "forward_read" /\ reader'.count = reader.count /\ reader'.info = reader.info
      /\ reader'.stamp = reader.stamp /\ reader'.due = reader.due
  BY <1>1, <1>r DEF ReaderType
<1>3. /\ read_write_diff_bytes = spk_fifo.front - 0 - End(reader.info) - skipped + dropped
      /\ reader.stamp \in Int /\ (misread \/ reader.stamp = reader.due)
      /\ handed # None => handed <= End(reader.info)
      /\ reader.stamp <= End(reader.info)
      /\ ~misread /\ read_write_diff_bytes < 0 => reader.stamp <= End(reader.info) + read_write_diff_bytes
      /\ ~misread /\ handed # None => handed <= reader.stamp
      /\ overflowed \/ reader.count = ReadSize
  BY <1>1, WhenForwarding DEF IInv
<1>4. End(reader'.info) = End(reader.info)
  BY <1>2
<1>5. /\ read_write_diff_bytes' = spk_fifo'.front - 0 - End(reader'.info) - skipped' + dropped'
      /\ reader'.stamp \in Int /\ (misread' \/ reader'.stamp = reader'.due)
      /\ handed' # None => handed' <= End(reader'.info)
      /\ reader'.stamp <= End(reader'.info)
      /\ ~misread' /\ read_write_diff_bytes' < 0 => reader'.stamp <= End(reader'.info) + read_write_diff_bytes'
      /\ ~misread' /\ handed' # None => handed' <= reader'.stamp
      /\ overflowed' \/ reader'.count = ReadSize
      /\ read_write_diff_bytes' > 0
  BY <1>1, <1>2, <1>3, <1>4
<1>6. reader'.at \in {"forward", "forward_read"}
  BY <1>2
<1>7. Parts'
  BY <1>5, <1>6, ToForwarding
<1>8. ts_fifo'.front \in Nat /\ ts_fifo'.front >= ts_fifo.front
  BY <1>1, <1>r, AvailableFacts, AecReferenceAssumption DEF Fifo
<1>9. OrderInv'
  <2>1. End(Current)' = End(Current)
    BY <1>1, <1>4, <1>6, ReaderNow, ReaderForwards
  <2> QED BY <1>1, <1>8, <2>1, OrderKept DEF IInv
<1> QED BY <1>1, <1>7, <1>9, ResultKept DEF IInv

LEMMA SkipStep ==
  ASSUME IInv, AecTypeOK', skip_timestamp
  PROVE  IInv'
<1> DEFINE info == infos[ts_fifo.front + 1]
<1>s. /\ spk_fifo.front \in Nat /\ End(reader.info) \in Nat
      /\ skipped \in Int /\ dropped \in Int /\ read_write_diff_bytes \in Int
      /\ handed # None => handed \in Int
  BY Scalars DEF IInv
<1>r. reader \in ReaderType /\ ts_fifo \in Fifo
  BY DEF IInv, AecTypeOK
<1>1. /\ reader.at = "forward_read" /\ HasStamp
      /\ ts_fifo' = [ts_fifo EXCEPT !.front = @ + 1]
      /\ dropped' = dropped + (info.start - End(reader.info))
      /\ read_write_diff_bytes' = read_write_diff_bytes - info.bytes
      /\ reader' = [reader EXCEPT !.at = "forward", !.info = info]
      /\ UNCHANGED <<spk_fifo, infos, last_spk_info, writer, result, skipped, handed, overflowed, misread>>
  BY DEF skip_timestamp
<1>2. /\ reader'.at = "forward" /\ reader'.info = info /\ reader'.count = reader.count
      /\ reader'.due = reader.due /\ reader'.stamp = reader.stamp
  BY <1>1, <1>r DEF ReaderType
<1>3. /\ read_write_diff_bytes = spk_fifo.front - 0 - End(reader.info) - skipped + dropped
      /\ read_write_diff_bytes > 0
      /\ reader.stamp \in Int /\ (misread \/ reader.stamp = reader.due)
      /\ handed # None => handed <= End(reader.info)
      /\ reader.stamp <= End(reader.info)
      /\ ~misread /\ handed # None => handed <= reader.stamp
      /\ overflowed \/ reader.count = ReadSize
  BY <1>1, WhenForwarding DEF IInv
<1>4. Current = reader.info
  BY <1>1, ReaderNow
<1>5. /\ ts_fifo.front + 1 \in 1..Len(infos)
      /\ End(reader.info) <= info.start
      /\ info.start \in Nat /\ info.bytes \in Nat /\ End(info) = info.start + info.bytes
  BY <1>1, <1>4, NextStamp DEF IInv
<1>6. ts_fifo'.front = ts_fifo.front + 1
  BY <1>1, <1>r DEF Fifo
<1> HIDE DEF info
<1>7. End(reader'.info) = End(info)
  BY <1>2
<1>e. /\ dropped' = dropped + (info.start - End(reader.info))
      /\ read_write_diff_bytes' = read_write_diff_bytes - info.bytes
      /\ reader'.stamp = reader.stamp
      /\ skipped' = skipped /\ spk_fifo' = spk_fifo /\ handed' = handed
  BY <1>1, <1>2
<1>m. misread' = misread /\ reader'.due = reader.due
  BY <1>1, <1>2
<1>i. info.start \in Nat /\ info.bytes \in Nat /\ End(info) = info.start + info.bytes /\ End(reader.info) <= info.start
  BY <1>5
<1>8. reader'.stamp \in Int /\ (misread' \/ reader'.stamp = reader'.due)
  BY <1>3, <1>e, <1>m
<1>9. reader'.stamp <= End(reader'.info)
  BY <1>3, <1>i, <1>7, <1>e, <1>s
<1>10. read_write_diff_bytes' = spk_fifo'.front - 0 - End(reader'.info) - skipped' + dropped'
  BY <1>3, <1>i, <1>7, <1>e, <1>s
<1>11. reader'.stamp <= End(reader'.info) + read_write_diff_bytes'
  BY <1>3, <1>i, <1>7, <1>e, <1>s
<1>12. handed' # None => handed' <= End(reader'.info)
  BY <1>3, <1>i, <1>7, <1>e, <1>s
<1>13. ~misread' /\ handed' # None => handed' <= reader'.stamp
  BY <1>3, <1>e, <1>m
<1>14. overflowed' \/ reader'.count = ReadSize
  BY <1>1, <1>2, <1>3
<1>15. reader'.at \in {"forward", "forward_read"} /\ reader'.at # "forward_read"
  BY <1>2
<1>16. Parts'
  BY <1>8, <1>9, <1>10, <1>11, <1>12, <1>13, <1>14, <1>15, ToForwarding
<1>17. OrderInv'
  <2>1. End(Current)' = End(infos[ts_fifo.front + 1])
    BY <1>7, <1>15, ReaderForwards DEF info
  <2> QED BY <1>1, <1>5, <1>6, <2>1, OrderTaken DEF IInv
<1> QED BY <1>1, <1>16, <1>17, ResultKept DEF IInv

LEMMA SkipOldStep ==
  ASSUME IInv, AecTypeOK', skip_old_timestamp
  PROVE  IInv'
<1>s. /\ spk_fifo.front \in Nat /\ End(reader.info) \in Nat
      /\ skipped \in Int /\ dropped \in Int /\ read_write_diff_bytes \in Int
  BY Scalars DEF IInv
<1>r. /\ reader \in ReaderType /\ reader.info \in Info
      /\ ts_fifo \in Fifo /\ ts_fifo.front <= ts_fifo.rear
  BY Scalars DEF IInv, AecTypeOK
<1>1. /\ reader.at = "forward_read"
      /\ ts_fifo' \in fifo_available(ts_fifo, TsCapacity)
      /\ skipped' = skipped + reader.info.bytes
      /\ read_write_diff_bytes' = read_write_diff_bytes - reader.info.bytes
      /\ reader' = [reader EXCEPT !.at = "forward"]
      /\ misread' = TRUE
      /\ UNCHANGED <<spk_fifo, infos, last_spk_info, writer, result, dropped, handed, overflowed>>
  BY DEF skip_old_timestamp
<1>2. /\ reader'.at = "forward" /\ reader'.info = reader.info /\ reader'.count = reader.count
      /\ reader'.stamp = reader.stamp
  BY <1>1, <1>r DEF ReaderType
<1>3. /\ read_write_diff_bytes = spk_fifo.front - 0 - End(reader.info) - skipped + dropped
      /\ reader.stamp \in Int
      /\ handed # None => handed <= End(reader.info)
      /\ reader.stamp <= End(reader.info)
      /\ overflowed \/ reader.count = ReadSize
  BY <1>1, WhenForwarding DEF IInv
<1>4. reader.info.bytes \in Nat
  BY <1>r DEF Info
<1>5. End(reader'.info) = End(reader.info)
  BY <1>2
<1>6. reader'.stamp \in Int /\ reader'.stamp <= End(reader'.info)
  BY <1>2, <1>3, <1>5
<1>7. read_write_diff_bytes' = spk_fifo'.front - 0 - End(reader'.info) - skipped' + dropped'
  BY <1>1, <1>3, <1>4, <1>5, <1>s
<1>8. handed' # None => handed' <= End(reader'.info)
  BY <1>1, <1>3, <1>5
<1>9. overflowed' \/ reader'.count = ReadSize
  BY <1>1, <1>2, <1>3
<1>10. reader'.at \in {"forward", "forward_read"} /\ reader'.at # "forward_read"
  BY <1>2
<1>11. misread'
  BY <1>1
<1>12. Parts'
  BY <1>6, <1>7, <1>8, <1>9, <1>10, <1>11, ToForwarding
<1>13. ts_fifo'.front \in Nat /\ ts_fifo'.front >= ts_fifo.front
  BY <1>1, <1>r, AvailableFacts, AecReferenceAssumption DEF Fifo
<1>14. OrderInv'
  <2>1. End(Current)' = End(Current)
    BY <1>1, <1>5, <1>10, ReaderNow, ReaderForwards
  <2> QED BY <1>1, <1>13, <2>1, OrderKept DEF IInv
<1> QED BY <1>1, <1>12, <1>14, ResultKept DEF IInv

LEMMA ForwardedStep ==
  ASSUME IInv, AecTypeOK', forwarded
  PROVE  IInv'
<1>1. /\ reader.at = "forward"
      /\ last_spk_info' = reader.info /\ handed' = reader.stamp
      /\ reader' = IdleReader /\ result' = Outcome(reader.stamp)
      /\ UNCHANGED <<spk_fifo, ts_fifo, infos, read_write_diff_bytes, writer, skipped, dropped, overflowed, misread>>
  BY DEF forwarded, Return, fifos
<1>2. reader'.at \in Outside /\ reader'.at # "read"
  BY <1>1 DEF IdleReader, Outside
<1>3. /\ read_write_diff_bytes = spk_fifo.front - 0 - End(reader.info) - skipped + dropped
      /\ misread \/ reader.stamp = reader.due
      /\ reader.stamp <= End(reader.info)
      /\ ~misread /\ read_write_diff_bytes < 0 => reader.stamp <= End(reader.info) + read_write_diff_bytes
      /\ ~misread /\ handed # None => handed <= reader.stamp
      /\ overflowed \/ reader.count = ReadSize
  BY <1>1, WhenForwarding DEF IInv
<1>4. End(last_spk_info') = End(reader.info)
  BY <1>1
<1>5. /\ read_write_diff_bytes' = spk_fifo'.front - 0 - End(last_spk_info') - skipped' + dropped'
      /\ handed' # None => handed' <= End(last_spk_info')
      /\ ~misread' /\ read_write_diff_bytes' < 0 /\ handed' # None =>
           handed' <= End(last_spk_info') + read_write_diff_bytes'
  BY <1>1, <1>3, <1>4
<1>6. Parts'
  BY <1>2, <1>5, ToOutside
<1>7. OrderInv'
  <2>1. End(Current)' = End(Current)
    BY <1>1, <1>2, <1>4, ReaderNow, ReaderElsewhere DEF Outside
  <2>2. ts_fifo.front \in Nat
    BY Scalars DEF IInv
  <2> QED BY <1>1, <2>1, <2>2, OrderKept DEF IInv
<1>8. Results'
  <2>1. /\ result'.stamp = reader.stamp /\ result'.due = reader.due /\ result'.previous = handed
        /\ result'.whole = (reader.count = ReadSize \/ overflowed) /\ result'.sound = ~misread
    BY <1>1 DEF Outcome
  <2>2. result'.whole
    BY <1>3, <2>1
  <2>3. CASE misread
    BY <2>1, <2>2, <2>3 DEF Results, StampLags, StampsAscend, WholeReads
  <2>4. CASE ~misread
    BY <1>3, <2>1, <2>2, <2>4 DEF Results, StampLags, StampsAscend, WholeReads
  <2> QED BY <2>3, <2>4
<1> QED BY <1>6, <1>7, <1>8 DEF IInv

\* Flushing and reopening.
LEMMA FlushStep ==
  ASSUME IInv, AecTypeOK', flush_ts_fifo
  PROVE  IInv'
<1>s. /\ spk_fifo.front \in Nat /\ End(last_spk_info) \in Nat
      /\ skipped \in Int /\ dropped \in Int /\ read_write_diff_bytes \in Int
  BY Scalars DEF IInv
<1>r. ts_fifo \in Fifo /\ ts_fifo.front <= ts_fifo.rear
  BY DEF IInv, AecTypeOK
<1>1. /\ reader.at = "flush"
      /\ ts_fifo' \in fifo_flush(ts_fifo, TsCapacity)
      /\ skipped' = skipped + read_write_diff_bytes /\ read_write_diff_bytes' = 0
      /\ reader' = IdleReader
      /\ UNCHANGED <<spk_fifo, infos, last_spk_info, writer, result, dropped, handed>>
  BY DEF flush_ts_fifo
<1>2. reader'.at \in Outside /\ reader'.at # "read" /\ reader.at \in Outside
  BY <1>1 DEF IdleReader, Outside
<1>3. /\ read_write_diff_bytes = spk_fifo.front - 0 - End(last_spk_info) - skipped + dropped
      /\ handed # None => handed <= End(last_spk_info)
  BY <1>2, WhenOutside DEF IInv
<1>4. End(last_spk_info') = End(last_spk_info)
  BY <1>1
<1>5. read_write_diff_bytes' = spk_fifo'.front - 0 - End(last_spk_info') - skipped' + dropped'
  BY <1>1, <1>3, <1>4, <1>s
<1>6. handed' # None => handed' <= End(last_spk_info')
  BY <1>1, <1>3, <1>4
<1>7. ~(read_write_diff_bytes' < 0)
  BY <1>1
<1>8. Parts'
  BY <1>2, <1>5, <1>6, <1>7, ToOutside
<1>9. ts_fifo'.front \in Nat /\ ts_fifo'.front >= ts_fifo.front
  BY <1>1, <1>r, FlushFacts, AecReferenceAssumption DEF Fifo
<1>10. OrderInv'
  <2>1. End(Current)' = End(Current)
    BY <1>1, <1>2, <1>4, ReaderNow, ReaderElsewhere DEF Outside
  <2> QED BY <1>1, <1>9, <2>1, OrderKept DEF IInv
<1> QED BY <1>1, <1>8, <1>10, ResultKept DEF IInv

LEMMA ReopenStep ==
  ASSUME IInv, AecTypeOK', init_aec_reference_config
  PROVE  IInv'
<1>s. read_write_diff_bytes \in Int
  BY Scalars DEF IInv
<1>1. /\ reader' = reader /\ reader.at = "idle" /\ writer' = writer /\ writer.at = "idle"
      /\ spk_fifo' = EmptyFifo /\ ts_fifo' = EmptyFifo /\ infos' = <<>> /\ last_spk_info' = ZeroInfo
      /\ skipped' = -read_write_diff_bytes /\ dropped' = 0 /\ handed' = None
      /\ read_write_diff_bytes' = read_write_diff_bytes /\ result' = NoResult
  BY DEF init_aec_reference_config
<1>2. reader'.at \in Outside /\ reader'.at # "read"
  BY <1>1 DEF Outside
<1>3. spk_fifo'.front = 0 /\ spk_fifo'.rear = 0 /\ End(last_spk_info') = 0
  BY <1>1 DEF EmptyFifo, ZeroInfo, End
<1>4. read_write_diff_bytes' = spk_fifo'.front - 0 - End(last_spk_info') - skipped' + dropped'
  BY <1>1, <1>3, <1>s
<1>5. Parts'
  BY <1>1, <1>2, <1>4, ToOutside
<1>6. OrderInv'
  <2>1. Written' = 0 /\ writer'.at # "stamp"
    BY <1>1, <1>3 DEF Written
  <2>2. End(Current)' = 0
    BY <1>2, <1>3, ReaderElsewhere DEF Outside
  <2>3. Len(infos') = 0
    BY <1>1
  <2> QED BY <2>1, <2>2, <2>3 DEF OrderInv
<1>7. Results'
  BY <1>1 DEF NoResult, Results, StampLags, StampsAscend, WholeReads
<1> QED BY <1>5, <1>6, <1>7 DEF IInv

LEMMA IInvInit == AecInit => IInv
<1> SUFFICES ASSUME AecInit PROVE IInv OBVIOUS
<1>1. /\ reader = IdleReader /\ writer = IdleWriter /\ infos = <<>> /\ result = NoResult
      /\ spk_fifo = EmptyFifo /\ last_spk_info = ZeroInfo
      /\ read_write_diff_bytes = 0 /\ skipped = 0 /\ dropped = 0 /\ handed = None
  BY DEF AecInit
<1>2. reader.at = "idle" /\ writer.at = "idle" /\ ~Forwarding /\ ~Stamping
  BY <1>1 DEF IdleReader, IdleWriter, Forwarding, Stamping
<1>3. spk_fifo.front = 0 /\ spk_fifo.rear = 0 /\ Current = last_spk_info /\ End(last_spk_info) = 0
  BY <1>1, <1>2 DEF EmptyFifo, ZeroInfo, Current, End
<1>4. TrackInv /\ AscendInv /\ WholeInv
  BY <1>1, <1>2, <1>3 DEF TrackInv, AscendInv, WholeInv
<1>5. Written = 0 /\ Len(infos) = 0
  BY <1>1, <1>2, <1>3 DEF Written
<1>6. OrderInv
  BY <1>2, <1>3, <1>5 DEF OrderInv
<1>7. Results
  BY <1>1 DEF NoResult, Results, StampLags, StampsAscend, WholeReads
<1> QED BY <1>4, <1>6, <1>7, TypeInit DEF IInv, Parts

LEMMA IInvStep == IInv /\ [AecNext]_aecVars => IInv'
<1> SUFFICES ASSUME IInv, [AecNext]_aecVars PROVE IInv' OBVIOUS
<1>1. AecTypeOK'
  BY TypeStep DEF IInv
<1>2. CASE Playback
  BY <1>1, <1>2, PlaybackStep
<1>3. CASE in_read \/ flush_spk_fifo
  BY <1>1, <1>3, OutsideStep
<1>4. CASE get_reference_samples
  BY <1>1, <1>4, OutsideStep, ReadStep, ReuseStep, NoTimestampStep, SomeTimestampStep, TakeStep, TakeOldStep,
     MoreStep, SkipStep, SkipOldStep, ForwardedStep DEF get_reference_samples
<1>5. CASE flush_ts_fifo \/ init_aec_reference_config
  BY <1>1, <1>5, FlushStep, ReopenStep
<1>6. CASE UNCHANGED aecVars
  <2>1. /\ UNCHANGED <<spk_fifo, ts_fifo, infos, read_write_diff_bytes, last_spk_info, writer, reader, result>>
        /\ UNCHANGED <<skipped, dropped, handed, overflowed, misread>>
    BY <1>6 DEF aecVars, fifos, tracker, history
  <2>2. Parts'
    BY <2>1 DEF IInv, Parts, TrackInv, AscendInv, WholeInv, Forwarding, Stamping, Taken, Current, End
  <2>3. OrderInv'
    BY <2>1 DEF IInv, OrderInv, Written, Forwarding, Current, End
  <2> QED BY <1>1, <2>1, <2>2, <2>3, ResultKept DEF IInv
<1> QED BY <1>2, <1>3, <1>4, <1>5, <1>6 DEF AecNext

LEMMA Invariance == AecSpec => []IInv
BY IInvInit, IInvStep, PTL DEF AecSpec

\* A timestamp is that of the first sample read, but for what the tracker lost count of: whatever
\* the sizes of the FIFOs, packets and reads, and however playback and capture overtake each other.
THEOREM TimestampsLag == AecSpec => []StampLags
<1>1. IInv => StampLags
  BY DEF IInv, Results
<1> QED BY <1>1, Invariance, PTL

\* Timestamps never go back.
THEOREM TimestampsAscend == AecSpec => []StampsAscend
<1>1. IInv => StampsAscend
  BY DEF IInv, Results
<1> QED BY <1>1, Invariance, PTL

\* A read that returns samples returns all of them, unless playback overwrote some meanwhile.
THEOREM ReadsAreWhole == AecSpec => []WholeReads
<1>1. IInv => WholeReads
  BY DEF IInv, Results
<1> QED BY <1>1, Invariance, PTL
===============================================================================
