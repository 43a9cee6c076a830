-------------------------- MODULE OutputPortProofs --------------------------
(***************************************************************************)
(* For any buffers, fillers and bounds: a flush and a pause of the output  *)
(* port are answered at most once; no buffer is lost or counted wrongly    *)
(* between the client, the queue, the decoder and the processor; and what  *)
(* was read is released, and the end of stream sent, as often as it should.*)
(***************************************************************************)
EXTENDS OutputPort, ListProofs, TLAPS

\* What every step of a fill after the buffer was linked leaves alone, and how
\* it goes on.
LEMMA Finishes ==
    ASSUME NEW f, FinishFill(f)
    PROVE  /\ UNCHANGED <<queueVars, pendingVars, eofVars, stateVars, sizeVars,
                         firmwareVars, ctl, held, owed>>
           /\ pos[f].at \in Filling
           /\ \/ \E a \in Filling \ {"release"} :
                    pos' = [pos EXCEPT ![f] = At(a, pos[f].buf)]
              \/ \E a \in {"slot", "idle"} :
                    /\ a = "slot" <=> processor_eof_state = "WAIT_SLOT"
                    /\ pos' = [pos EXCEPT ![f] = At(a, NoBuf)]
BY DEF FinishFill, TestImage, ReleaseImage, ForgetImage, CheckEof, Step, Filling, Rest

\* Where the answer to a flush is: the ioctl still has to clear the port, or
\* the flush is pending, or it was answered.
FlushAccounted ==
    \/ ctl \in {"reset", "clear"} /\ ~output_flush_pending /\ flushes = 1
    \/ ctl \notin {"reset", "clear"} /\ output_flush_pending /\ flushes = 1
    \/ ctl \notin {"reset", "clear"} /\ ~output_flush_pending /\ flushes = 0

\* At its start no flush is under way and none is pending.
LEMMA FlushInit == Init => FlushAccounted
BY DEF Init, FlushAccounted

\* The report of a buffer answers a pending flush once and then forgets it.
LEMMA FlushReported ==
    ASSUME FlushAccounted, NEW b, NEW eof, ReportFrame(b, eof), ctl' = ctl
    PROVE  FlushAccounted'
<1>1. CASE LastOut(yuv_use_cnt') /\ output_flush_pending
      BY <1>1, 1 - 1 = 0 DEF FlushAccounted, ReportFrame, AnswerPending
<1>2. CASE ~LastOut(yuv_use_cnt') \/ ~output_flush_pending
      BY <1>2 DEF FlushAccounted, ReportFrame, AnswerPending
<1>3. QED BY <1>1, <1>2

\* Every step keeps the account.
LEMMA FlushStep == FlushAccounted /\ [Next]_vars => FlushAccounted'
<1> SUFFICES ASSUME FlushAccounted, [Next]_vars
             PROVE  FlushAccounted'
    OBVIOUS
<1>1. ASSUME NEW p \in Sender, Send(p)
      PROVE  FlushAccounted'
  <2>1. CASE GetFrame(p) \/ GetFrameFails(p) \/ EndSend(p)
        BY <2>1 DEF GetFrame, GetFrameFails, EndSend, FlushAccounted, pendingVars
  <2>2. CASE ReportEof(p)
        BY <2>2, FlushReported DEF ReportEof
  <2>3. QED BY <1>1, <2>1, <2>2 DEF Send
<1>2. CASE Thread
  <2>1. CASE Wake \/ GetImage \/ GetImageFails \/ EndWork
        BY <2>1 DEF Wake, GetImage, GetImageFails, EndWork, FlushAccounted,
                    pendingVars
  <2>2. CASE ReportImage
        BY <2>2, FlushReported DEF ReportImage
  <2>3. CASE Send(Bpp)
        BY <2>3, <1>1 DEF Sender
  <2>4. QED BY <1>2, <2>1, <2>2, <2>3 DEF Thread
<1>3. ASSUME NEW f \in Filler, FillStep(f) \/ \E b \in Buf : Fill(f, b)
      PROVE  FlushAccounted'
  <2>1. CASE FinishFill(f) \/ \E b \in Buf : Fill(f, b)
        BY <2>1, Finishes DEF Fill, FlushAccounted, pendingVars
  <2>2. CASE Send(f)
        BY <2>2, <1>1 DEF Sender
  <2>3. QED BY <1>3, <2>1, <2>2 DEF FillStep
<1>4. CASE IoctlStep
  <2>1. CASE Reset \/ ClearExtInfo \/ PauseEnd
        BY <2>1 DEF Reset, ClearExtInfo, PauseEnd, FlushAccounted, pendingVars
  <2>2. CASE FlushOutPort
    <3>1. /\ ~output_flush_pending /\ flushes = 1 /\ ctl' = "forget"
          /\ output_flush_pending' = (output_flush_pending \/ ~LastOut(yuv_use_cnt))
          /\ flushes' = IF LastOut(yuv_use_cnt) THEN flushes - 1 ELSE flushes
          BY <2>2, SMT DEF FlushOutPort, FlushAccounted
    <3>2. CASE LastOut(yuv_use_cnt)
          BY <3>1, <3>2, 1 - 1 = 0 DEF FlushAccounted
    <3>3. CASE ~LastOut(yuv_use_cnt)
          BY <3>1, <3>3 DEF FlushAccounted
    <3>4. QED BY <3>2, <3>3
  <2>3. QED BY <1>4, <2>1, <2>2 DEF IoctlStep
<1>5. CASE FlushBegin
      BY <1>5 DEF FlushBegin, FlushAccounted
<1>6. CASE PauseBegin \/ Resume \/ StopOrStart \/ SubmitEos
      BY <1>6 DEF PauseBegin, Resume, StopOrStart, SubmitEos, FlushAccounted,
                  pendingVars
<1>7. CASE \/ \E b \in Buf, last \in BOOLEAN : Emit(b, last)
           \/ TakeEos \/ LastFrame \/ NeedArrange \/ Rebind
      BY <1>7 DEF Emit, TakeEos, LastFrame, NeedArrange, Rebind, FlushAccounted,
                  pendingVars
<1>8. CASE UNCHANGED vars
      BY <1>8 DEF vars, pendingVars, FlushAccounted
<1>9. QED BY <1>2, <1>3, <1>4, <1>5, <1>6, <1>7, <1>8 DEF Next

\* A flush of the output port is answered at most once, by the ioctl or by the
\* report of the last buffer in use (channel_flush_out_port,
\* processor_report_frame), for any number of buffers and filling threads.
THEOREM FlushNeverAnsweredTwice == Spec => []FlushAnsweredOnce
<1>1. FlushAccounted => FlushAnsweredOnce
      BY DEF FlushAccounted, FlushAnsweredOnce
<1>2. QED BY FlushInit, FlushStep, <1>1, PTL DEF Spec

-----------------------------------------------------------------------------
\* Where the answer to a pause is: the ioctl has still to send it or to leave it
\* pending, or it is pending, or no pause waits.  Until it is answered or a
\* resume forgets it the channel stays in PAUSE, where no second pause begins.
PauseAccounted ==
    \/ /\ ctl \in {"pause-done", "pause-wait"} /\ channel_state = "PAUSE"
       /\ ~pause_pending /\ pauses = 1
    \/ /\ ctl \notin {"pause-done", "pause-wait"} /\ channel_state = "PAUSE"
       /\ pause_pending /\ pauses = 1
    \/ /\ ctl \notin {"pause-done", "pause-wait"}
       /\ ~pause_pending /\ pauses = 0

\* At its start the channel works and no pause is pending.
LEMMA PauseInit == Init => PauseAccounted
BY DEF Init, PauseAccounted

\* The report of a buffer answers a pending pause once and then forgets it.
LEMMA PauseReported ==
    ASSUME PauseAccounted, NEW b, NEW eof, ReportFrame(b, eof),
           UNCHANGED <<ctl, channel_state>>
    PROVE  PauseAccounted'
<1>1. CASE LastOut(yuv_use_cnt') /\ pause_pending
      BY <1>1, 1 - 1 = 0 DEF PauseAccounted, ReportFrame, AnswerPending
<1>2. CASE ~LastOut(yuv_use_cnt') \/ ~pause_pending
      BY <1>2 DEF PauseAccounted, ReportFrame, AnswerPending
<1>3. QED BY <1>1, <1>2

\* Every step keeps the account, as long as a paused channel is resumed and
\* not stopped and started again.
LEMMA PauseStep ==
    ASSUME "stop" \notin Ops, PauseAccounted, [Next]_vars
    PROVE  PauseAccounted'
<1>1. ASSUME NEW p \in Sender, Send(p)
      PROVE  PauseAccounted'
  <2>1. CASE GetFrame(p) \/ GetFrameFails(p) \/ EndSend(p)
        BY <2>1 DEF GetFrame, GetFrameFails, EndSend, PauseAccounted,
                    pendingVars, stateVars
  <2>2. CASE ReportEof(p)
        BY <2>2, PauseReported DEF ReportEof, stateVars
  <2>3. QED BY <1>1, <2>1, <2>2 DEF Send
<1>2. CASE Thread
  <2>1. CASE Wake \/ GetImage \/ GetImageFails \/ EndWork
        BY <2>1 DEF Wake, GetImage, GetImageFails, EndWork, PauseAccounted,
                    pendingVars, stateVars
  <2>2. CASE ReportImage
        BY <2>2, PauseReported DEF ReportImage, stateVars
  <2>3. CASE Send(Bpp)
        BY <2>3, <1>1 DEF Sender
  <2>4. QED BY <1>2, <2>1, <2>2, <2>3 DEF Thread
<1>3. ASSUME NEW f \in Filler, FillStep(f) \/ \E b \in Buf : Fill(f, b)
      PROVE  PauseAccounted'
  <2>1. CASE FinishFill(f) \/ \E b \in Buf : Fill(f, b)
        BY <2>1, Finishes DEF Fill, PauseAccounted, pendingVars, stateVars
  <2>2. CASE Send(f)
        BY <2>2, <1>1 DEF Sender
  <2>3. QED BY <1>3, <2>1, <2>2 DEF FillStep
<1>4. CASE IoctlStep
  <2>1. CASE Reset \/ FlushOutPort \/ ClearExtInfo
        BY <2>1 DEF Reset, FlushOutPort, ClearExtInfo, PauseAccounted,
                    pendingVars, stateVars
  <2>2. CASE PauseEnd /\ ctl = "pause-done"
        BY <2>2, 1 - 1 = 0 DEF PauseEnd, PauseAccounted, stateVars
  <2>3. CASE PauseEnd /\ ctl = "pause-wait"
        BY <2>3 DEF PauseEnd, PauseAccounted, stateVars
  <2>4. PauseEnd => ctl \in {"pause-done", "pause-wait"}
        BY DEF PauseEnd
  <2>5. QED BY <1>4, <2>1, <2>2, <2>3, <2>4 DEF IoctlStep
<1>5. CASE PauseBegin
      BY <1>5 DEF PauseBegin, PauseAccounted
<1>6. CASE Resume
      BY <1>6 DEF Resume, Overridden, PauseAccounted
<1>7. CASE FlushBegin \/ StopOrStart \/ SubmitEos
      BY <1>7, "stop" \notin Ops
      DEF FlushBegin, StopOrStart, SubmitEos, PauseAccounted, pendingVars, stateVars
<1>8. CASE \/ \E b \in Buf, last \in BOOLEAN : Emit(b, last)
           \/ TakeEos \/ LastFrame \/ NeedArrange \/ Rebind
      BY <1>8 DEF Emit, TakeEos, LastFrame, NeedArrange, Rebind, PauseAccounted,
                  pendingVars, stateVars
<1>9. CASE UNCHANGED vars
      BY <1>9 DEF vars, pendingVars, stateVars, PauseAccounted
<1>10. QED BY <1>2, <1>3, <1>4, <1>5, <1>6, <1>7, <1>8, <1>9 DEF Next

\* A pause is answered at most once, by channel_pause_inst itself or by the
\* report of the last buffer in use, although the ioctl reads yuv_use_cnt and
\* sets pause_pending without yuv_lock.  It holds for any number of buffers and
\* filling threads, provided a paused channel is resumed before it is started.
THEOREM PauseNeverAnsweredTwice ==
    ASSUME "stop" \notin Ops
    PROVE  Spec => []PauseAnsweredOnce
<1>1. PauseAccounted => PauseAnsweredOnce
      BY DEF PauseAccounted, PauseAnsweredOnce
<1>2. PauseAccounted /\ [Next]_vars => PauseAccounted'
      BY PauseStep
<1>3. QED BY PauseInit, <1>1, <1>2, PTL DEF Spec

-----------------------------------------------------------------------------
(* Types                                                                   *)

AnyPosition == BppPosition \cup Filling
Reporting == {"report", "report-end", "report-last"}
Holding == Reporting \cup {"got"}           \* the sender works on a buffer
Image == [buf : Buf, id : Nat, last : BOOLEAN]

QueueType ==
    /\ status \in [Buf -> {"IDLE", "QUEUED", "USING", "WAIT_REPORT"}]
    /\ image_id \in [Buf -> BOOLEAN]
    /\ yuv_queue \in Seq(Buf)
    /\ lent \subseteq Buf /\ wiped \subseteq Buf
    /\ held \subseteq Buf /\ owed \subseteq Buf

FlagType ==
    /\ output_flush_pending \in BOOLEAN /\ pause_pending \in BOOLEAN
    /\ recfg_flag \in BOOLEAN /\ reset_pending \in BOOLEAN
    /\ inst_work \in BOOLEAN /\ eos_in_list \in BOOLEAN /\ draining \in BOOLEAN
    /\ dfs_alloc_flag \in {"ALREADY_ALLOC", "WAIT_CLEAR", "WAIT_INSERT"}
    /\ channel_state \in {"IDLE", "WORK", "PAUSE"}
    /\ decoder_eof_state \in {"INIT_STATE", "REPORT_SUCCESS", "REPORT_ID",
                              "REPORT_FAILED"}
    /\ processor_eof_state \in {"INIT_STATE", "WAIT_SLOT", "GOT_SLOT",
                                "REPORT_SUCCESS"}
    /\ ctl \in {"idle", "reset", "clear", "forget", "pause-done", "pause-wait"}

PosType ==
    /\ pos \in [Sender -> [at : AnyPosition, buf : Buf \cup {NoBuf}]]
    /\ \A p \in Sender : pos[p].at \in Holding \cup Filling => pos[p].buf \in Buf
    /\ \A f \in Filler : pos[f].at \in Position \cup Filling
    /\ pos[Bpp].at \in BppPosition

ImageType == images \in Seq(Image) /\ emitted \in Nat

PortType == QueueType /\ FlagType /\ PosType /\ ImageType

\* A sender goes to another position.
LEMMA PosMoves ==
    ASSUME PosType, NEW p \in Sender, NEW x \in [at : AnyPosition, buf : Buf \cup {NoBuf}],
           pos' = [pos EXCEPT ![p] = x],
           x.at \in Holding \cup Filling => x.buf \in Buf,
           IF p = Bpp THEN x.at \in BppPosition ELSE x.at \in Position \cup Filling
    PROVE  PosType'
<1>1. Filler \subseteq Sender /\ Bpp \in Sender /\ Bpp \notin Filler
  BY OutputAssumption DEF Sender
<1>2. pos'[p] = x /\ \A q \in Sender : q # p => pos'[q] = pos[q]
  BY DEF PosType
<1>3. pos' \in [Sender -> [at : AnyPosition, buf : Buf \cup {NoBuf}]]
  BY DEF PosType
<1> QED
  BY <1>1, <1>2, <1>3 DEF PosType

LEMMA InitPort == Init => PortType
<1> SUFFICES ASSUME Init PROVE PortType
  OBVIOUS
<1>1. QueueType
  BY DEF Init, QueueType
<1>2. FlagType
  BY DEF Init, FlagType
<1>3. PosType
  BY DEF Init, PosType, Rest, At, AnyPosition, BppPosition, Position, Holding, Reporting,
         Filling, Sender
<1>4. ImageType
  BY DEF Init, ImageType
<1> QED
  BY <1>1, <1>2, <1>3, <1>4 DEF PortType

\* The queue, the buffers and who has them.
LEMMA QueueTypes ==
    ASSUME PortType, [Next]_vars
    PROVE  QueueType'
<1> USE DEF PortType, QueueType
<1>0. /\ \A T : Keep(yuv_queue, T) \in Seq(Buf)
      /\ Linked \subseteq Buf /\ Bpp \in Sender /\ Filler \subseteq Sender
  BY KeepRange DEF Linked, ToSet, Sender
<1>1. CASE UNCHANGED <<status, image_id, yuv_queue, lent, wiped, held, owed>>
  BY <1>1
<1>2. ASSUME NEW b, NEW eof \in BOOLEAN, ReportFrame(b, eof), lent' = lent, wiped' = wiped
      PROVE  QueueType'
  BY <1>0, <1>2 DEF ReportFrame, Unlinked, Recorded, FlagType
<1>3. ASSUME NEW p \in Sender, Send(p) PROVE QueueType'
  <2>1. CASE GetFrame(p)
    <3>1. \E i \in DOMAIN yuv_queue : status' = [status EXCEPT ![yuv_queue[i]] = "USING"]
      BY <2>1 DEF GetFrame, Free
    <3>2. UNCHANGED <<image_id, yuv_queue, lent, wiped, held, owed>>
      BY <2>1 DEF GetFrame
    <3> QED
      BY <3>1, <3>2
  <2>2. CASE GetFrameFails(p) \/ EndSend(p)
    BY <1>1, <2>2 DEF GetFrameFails, EndSend, queueVars
  <2>3. CASE ReportEof(p)
    BY <1>2, <2>3 DEF ReportEof
  <2> QED
    BY <1>3, <2>1, <2>2, <2>3 DEF Send
<1>4. CASE Thread
  <2>1. CASE GetImage
    <3>1. Head(images) \in Image
      BY <2>1 DEF GetImage, ImageType
    <3>2. Head(images).buf \in Buf
      BY <3>1 DEF Image
    <3> QED
      BY <2>1, <3>2 DEF GetImage, queueVars
  <2>2. CASE ReportImage
    BY <1>2, <2>2 DEF ReportImage
  <2>3. CASE Wake \/ GetImageFails \/ EndWork
    BY <1>1, <2>3 DEF Wake, GetImageFails, EndWork, queueVars
  <2> QED
    BY <1>0, <1>3, <1>4, <2>1, <2>2, <2>3 DEF Thread
<1>5. ASSUME NEW f \in Filler, NEW b \in Buf, Fill(f, b) PROVE QueueType'
  BY <1>5 DEF Fill
<1>6. ASSUME NEW f \in Filler, FinishFill(f) PROVE QueueType'
  <2>1. CASE TestImage(f) \/ CheckEof(f)
    BY <1>1, <2>1 DEF TestImage, CheckEof, queueVars
  <2>2. CASE ReleaseImage(f)
    BY <2>2 DEF ReleaseImage, queueVars
  <2>3. CASE ForgetImage(f)
    BY <2>3 DEF ForgetImage, queueVars
  <2> QED
    BY <1>6, <2>1, <2>2, <2>3 DEF FinishFill
<1>7. CASE FlushOutPort
  <2> DEFINE back == {b \in Linked : ~Kept(b)}
  <2>1. back \subseteq Buf /\ Linked \ back \subseteq Buf
    BY <1>0
  <2>2. /\ status' = [b \in Buf |-> IF b \in back THEN "IDLE" ELSE status[b]]
        /\ yuv_queue' = Keep(yuv_queue, Linked \ back)
        /\ held' = held \cup back /\ owed' = Linked \ back
        /\ UNCHANGED <<image_id, lent, wiped>>
    BY <1>7 DEF FlushOutPort
  <2> HIDE DEF back
  <2> QED
    BY <1>0, <2>1, <2>2
<1>8. CASE ClearExtInfo \/ NeedArrange
  BY <1>8 DEF ClearExtInfo, NeedArrange, queueVars
<1>9. CASE Reset \/ PauseEnd \/ FlushBegin \/ PauseBegin \/ Resume \/ StopOrStart
           \/ SubmitEos \/ TakeEos \/ LastFrame \/ UNCHANGED vars
  BY <1>1, <1>9 DEF Reset, PauseEnd, FlushBegin, PauseBegin, Resume, StopOrStart,
     SubmitEos, TakeEos, LastFrame, vars, queueVars
<1>10. ASSUME NEW b \in Buf, NEW last \in BOOLEAN, Emit(b, last) PROVE QueueType'
  BY <1>10 DEF Emit
<1>11. CASE Rebind
  BY <1>11 DEF Rebind, queueVars
<1> HIDE DEF QueueType, PortType, vars
<1> QED
  BY <1>0, <1>3, <1>4, <1>5, <1>6, <1>7, <1>8, <1>9, <1>10, <1>11
  DEF Next, FillStep, IoctlStep

\* The flags and states.
LEMMA FlagTypes ==
    ASSUME FlagType, [Next]_vars
    PROVE  FlagType'
<1> USE DEF FlagType, pendingVars, eofVars, stateVars, sizeVars, firmwareVars
<1>0. Bpp \in Sender /\ Filler \subseteq Sender
  BY DEF Sender
<1>1. ASSUME NEW b, NEW eof \in BOOLEAN, ReportFrame(b, eof)
      PROVE  output_flush_pending' \in BOOLEAN /\ pause_pending' \in BOOLEAN
  BY <1>1 DEF ReportFrame, AnswerPending
<1>2. ASSUME NEW p \in Sender, Send(p) PROVE FlagType'
  <2>1. CASE GetFrame(p) \/ GetFrameFails(p)
    BY <2>1 DEF GetFrame, GetFrameFails
  <2>2. CASE EndSend(p)
    BY <2>2 DEF EndSend, Outcome
  <2>3. CASE ReportEof(p)
    <3>1. ReportFrame(pos[p].buf, TRUE) /\ TRUE \in BOOLEAN
      BY <2>3 DEF ReportEof
    <3>2. output_flush_pending' \in BOOLEAN /\ pause_pending' \in BOOLEAN
      BY <1>1, <3>1
    <3>3. /\ UNCHANGED <<recfg_flag, reset_pending, inst_work, eos_in_list, draining,
                        dfs_alloc_flag, channel_state, decoder_eof_state, ctl>>
          /\ processor_eof_state' = "GOT_SLOT"
      BY <2>3 DEF ReportEof
    <3> QED
      BY <3>2, <3>3
  <2> QED
    BY <1>2, <2>1, <2>2, <2>3 DEF Send
<1>3. CASE Thread
  <2>1. CASE Wake \/ GetImage \/ GetImageFails
    BY <2>1 DEF Wake, GetImage, GetImageFails
  <2>2. CASE ReportImage
    <3>1. ReportFrame(pos[Bpp].buf, FALSE) /\ FALSE \in BOOLEAN
      BY <2>2 DEF ReportImage
    <3>2. output_flush_pending' \in BOOLEAN /\ pause_pending' \in BOOLEAN
      BY <1>1, <3>1
    <3> QED
      BY <2>2, <3>2 DEF ReportImage
  <2>3. CASE EndWork
    BY <2>3 DEF EndWork
  <2> QED
    BY <1>0, <1>2, <1>3, <2>1, <2>2, <2>3 DEF Thread
<1>4. ASSUME NEW f \in Filler, NEW b \in Buf, Fill(f, b) PROVE FlagType'
  BY <1>4 DEF Fill
<1>5. ASSUME NEW f \in Filler, FinishFill(f) PROVE FlagType'
  BY <1>5, Finishes
<1>6. CASE IoctlStep
  <2>1. CASE Reset
    <3>1. /\ UNCHANGED <<output_flush_pending, pause_pending, recfg_flag, eos_in_list,
                        dfs_alloc_flag, channel_state, decoder_eof_state,
                        processor_eof_state>>
          /\ reset_pending' \in BOOLEAN /\ inst_work' \in BOOLEAN
          /\ draining' \in BOOLEAN /\ ctl' = "clear"
      BY <2>1 DEF Reset
    <3> QED
      BY <3>1
  <2>2. CASE FlushOutPort
    <3>1. output_flush_pending' \in BOOLEAN /\ recfg_flag' \in BOOLEAN /\ ctl' = "forget"
      BY <2>2 DEF FlushOutPort
    <3>2. UNCHANGED <<pause_pending, reset_pending, inst_work, eos_in_list, draining,
                      dfs_alloc_flag, channel_state, decoder_eof_state,
                      processor_eof_state>>
      BY <2>2 DEF FlushOutPort
    <3> QED
      BY <3>1, <3>2
  <2>3. CASE ClearExtInfo
    BY <2>3 DEF ClearExtInfo
  <2>4. CASE PauseEnd
    <3>1. pause_pending' \in BOOLEAN /\ ctl' = "idle"
      BY <2>4 DEF PauseEnd
    <3>2. UNCHANGED <<output_flush_pending, recfg_flag, reset_pending, inst_work,
                      eos_in_list, draining, dfs_alloc_flag, channel_state,
                      decoder_eof_state, processor_eof_state>>
      BY <2>4 DEF PauseEnd
    <3> QED
      BY <3>1, <3>2
  <2> QED
    BY <1>6, <2>1, <2>2, <2>3, <2>4 DEF IoctlStep
<1>7. CASE FlushBegin \/ PauseBegin \/ Resume \/ StopOrStart \/ SubmitEos
  <2>1. CASE FlushBegin
    <3>1. /\ ctl' \in {"clear", "reset"} /\ channel_state' = channel_state
          /\ reset_pending' \in BOOLEAN /\ inst_work' \in BOOLEAN
      <4>1. CASE recfg_flag
        BY <2>1, <4>1 DEF FlushBegin
      <4>2. CASE ~recfg_flag
        BY <2>1, <4>2 DEF FlushBegin
      <4> QED
        BY <4>1, <4>2
    <3> QED
      BY <2>1, <3>1 DEF FlushBegin
  <2>2. CASE PauseBegin \/ Resume
    BY <2>2 DEF PauseBegin, Resume, Overridden
  <2>3. CASE StopOrStart \/ SubmitEos
    BY <2>3 DEF StopOrStart, SubmitEos
  <2> QED
    BY <1>7, <2>1, <2>2, <2>3
<1>8. ASSUME NEW b \in Buf, NEW last \in BOOLEAN, Emit(b, last) PROVE FlagType'
  BY <1>8 DEF Emit
<1>9. CASE TakeEos \/ LastFrame \/ NeedArrange \/ Rebind
  <2>1. CASE TakeEos
    <3>1. /\ UNCHANGED <<pendingVars, stateVars, sizeVars, decoder_eof_state,
                        processor_eof_state, ctl>>
          /\ eos_in_list' \in BOOLEAN /\ draining' \in BOOLEAN
      BY <2>1 DEF TakeEos
    <3> QED
      BY <3>1
  <2>2. CASE LastFrame
    <3>1. decoder_eof_state' = "REPORT_ID" \/ decoder_eof_state' = "REPORT_FAILED"
      BY <2>2, Zenon DEF LastFrame
    <3>0. draining' \in BOOLEAN
      BY <2>2 DEF LastFrame
    <3>2. UNCHANGED <<pendingVars, stateVars, sizeVars, eos_in_list, processor_eof_state, ctl>>
      BY <2>2 DEF LastFrame
    <3> QED
      BY <3>0, <3>1, <3>2
  <2>3. CASE NeedArrange \/ Rebind
    BY <2>3 DEF NeedArrange, Rebind
  <2> QED
    BY <1>9, <2>1, <2>2, <2>3
<1>10. CASE UNCHANGED vars
  BY <1>10 DEF vars
<1> HIDE DEF FlagType, vars
<1> QED
  BY <1>0, <1>2, <1>3, <1>4, <1>5, <1>6, <1>7, <1>8, <1>9, <1>10 DEF Next, FillStep

\* What each sender is doing.
LEMMA PosTypes ==
    ASSUME PortType, [Next]_vars
    PROVE  PosType'
<1> USE DEF PortType
<1> DEFINE P == [at : AnyPosition, buf : Buf \cup {NoBuf}]
<1>0. Bpp \in Sender /\ Filler \subseteq Sender /\ Bpp \notin Filler
  BY OutputAssumption DEF Sender
<1>1. CASE pos' = pos
  BY <1>1 DEF PosType
<1>2. \A a \in AnyPosition, b \in Buf \cup {NoBuf} :
          At(a, b) \in P /\ At(a, b).at = a /\ At(a, b).buf = b
  BY DEF At
<1> HIDE DEF P
<1>3. ASSUME NEW p \in Sender, NEW a \in AnyPosition, NEW b \in Buf \cup {NoBuf},
             pos' = [pos EXCEPT ![p] = At(a, b)],
             a \in Holding \cup Filling => b \in Buf,
             IF p = Bpp THEN a \in BppPosition ELSE a \in Position \cup Filling
      PROVE  PosType'
  <2>1. At(a, b) \in P /\ At(a, b).at = a /\ At(a, b).buf = b
    BY <1>2
  <2> QED
    BY <1>3, <2>1, PosMoves DEF P
<1>4. ASSUME NEW p \in Sender, NEW a \in Position \ {"got"},
             pos' = [pos EXCEPT ![p] = At(a, NoBuf)]
      PROVE  PosType'
  <2>1. /\ a \in AnyPosition /\ a \in BppPosition /\ a \in Position
        /\ a \notin Holding \cup Filling
    BY DEF Position, BppPosition, AnyPosition, Holding, Reporting, Filling
  <2> QED
    BY <1>3, <1>4, <2>1
<1>5. ASSUME NEW p \in Sender, Send(p) PROVE PosType'
  <2>1. CASE GetFrame(p)
    <3>1. PICK i \in DOMAIN yuv_queue : pos' = [pos EXCEPT ![p] = At("got", yuv_queue[i])]
      BY <2>1 DEF GetFrame, Free
    <3>2. yuv_queue[i] \in Buf
      BY DEF QueueType
    <3>3. "got" \in AnyPosition /\ "got" \in BppPosition /\ "got" \in Position
      BY DEF Position, BppPosition, AnyPosition
    <3> QED
      BY <1>3, <3>1, <3>2, <3>3
  <2>2. CASE GetFrameFails(p) \/ EndSend(p) \/ ReportEof(p)
    <3>1. \E a \in Position \ {"got"} : pos' = [pos EXCEPT ![p] = At(a, NoBuf)]
      BY <2>2 DEF GetFrameFails, EndSend, ReportEof, Position, Rest
    <3> QED
      BY <1>4, <3>1
  <2> QED
    BY <1>5, <2>1, <2>2 DEF Send
<1>6. ASSUME NEW a \in BppPosition \ Holding, pos' = [pos EXCEPT ![Bpp] = At(a, NoBuf)]
      PROVE  PosType'
  <2>1. a \in AnyPosition /\ a \notin Filling
    BY DEF BppPosition, Position, AnyPosition, Filling
  <2> QED
    BY <1>0, <1>3, <1>6, <2>1
<1>7. CASE Thread
  <2>1. CASE GetImage
    <3>1. Head(images) \in Image
      BY <2>1 DEF GetImage, ImageType
    <3>2. Head(images).buf \in Buf
      BY <3>1 DEF Image
    <3>3. \E a \in Reporting : pos' = [pos EXCEPT ![Bpp] = At(a, Head(images).buf)]
      BY <2>1 DEF GetImage, Reporting
    <3>4. Reporting \subseteq AnyPosition /\ Reporting \subseteq BppPosition
      BY DEF Reporting, AnyPosition, BppPosition
    <3> QED
      BY <1>0, <1>3, <3>2, <3>3, <3>4
  <2>2. CASE Wake \/ GetImageFails \/ ReportImage \/ EndWork
    <3>1. \E a \in BppPosition \ Holding : pos' = [pos EXCEPT ![Bpp] = At(a, NoBuf)]
      BY <2>2 DEF Wake, GetImageFails, ReportImage, EndWork, Rest, BppPosition, Position,
                  Holding, Reporting
    <3> QED
      BY <1>6, <3>1
  <2> QED
    BY <1>0, <1>5, <1>7, <2>1, <2>2 DEF Thread
<1>8. ASSUME NEW f \in Filler, NEW b \in Buf, Fill(f, b) PROVE PosType'
  <2>1. "release" \in AnyPosition /\ "release" \in Filling
    BY DEF AnyPosition, Filling
  <2> QED
    BY <1>0, <1>3, <1>8, <2>1 DEF Fill
<1>9. ASSUME NEW f \in Filler, FinishFill(f) PROVE PosType'
  <2>1. pos[f].buf \in Buf
    BY <1>0, <1>9, Finishes DEF PosType
  <2>2. ASSUME NEW a \in Filling, pos' = [pos EXCEPT ![f] = At(a, pos[f].buf)]
        PROVE  PosType'
    BY <1>0, <1>3, <2>1, <2>2 DEF AnyPosition
  <2>3. ASSUME NEW a \in {"slot", "idle"}, pos' = [pos EXCEPT ![f] = At(a, NoBuf)]
        PROVE  PosType'
    BY <1>0, <1>4, <2>3 DEF Position
  <2> QED
    BY <1>9, <2>2, <2>3, Finishes
<1>10. CASE IoctlStep \/ FlushBegin \/ PauseBegin \/ Resume \/ StopOrStart \/ SubmitEos
  BY <1>1, <1>10 DEF IoctlStep, Reset, FlushOutPort, ClearExtInfo, PauseEnd, FlushBegin,
     PauseBegin, Resume, StopOrStart, SubmitEos
<1>11. ASSUME NEW b \in Buf, NEW last \in BOOLEAN, Emit(b, last) PROVE PosType'
  BY <1>1, <1>11 DEF Emit
<1>12. CASE TakeEos \/ LastFrame \/ NeedArrange \/ Rebind \/ UNCHANGED vars
  BY <1>1, <1>12 DEF TakeEos, LastFrame, NeedArrange, Rebind, vars
<1> HIDE DEF PortType, vars
<1> QED
  BY <1>0, <1>5, <1>7, <1>8, <1>9, <1>10, <1>11, <1>12 DEF Next, FillStep

\* The images the processor has not read.
LEMMA ImageTypes ==
    ASSUME PortType, [Next]_vars
    PROVE  ImageType'
<1> USE DEF PortType, firmwareVars
<1>1. CASE UNCHANGED <<images, emitted>>
  BY <1>1 DEF ImageType
<1>2. CASE GetImage
  BY <1>2 DEF GetImage, ImageType
<1>3. ASSUME NEW b \in Buf, NEW last \in BOOLEAN, Emit(b, last) PROVE ImageType'
  <2>1. [buf |-> b, id |-> emitted + 1, last |-> last] \in Image
    BY DEF Image, ImageType
  <2> QED
    BY <1>3, <2>1 DEF Emit, ImageType
<1>4. ASSUME NEW p \in Sender, Send(p) PROVE UNCHANGED <<images, emitted>>
  BY <1>4 DEF Send, GetFrame, GetFrameFails, ReportEof, EndSend
<1>5. ASSUME Wake \/ GetImageFails \/ ReportImage \/ EndWork PROVE UNCHANGED <<images, emitted>>
  BY <1>5 DEF Wake, GetImageFails, ReportImage, EndWork
<1>6. ASSUME NEW f \in Filler, NEW b \in Buf, Fill(f, b) PROVE UNCHANGED <<images, emitted>>
  BY <1>6 DEF Fill
<1>7. ASSUME NEW f \in Filler, FinishFill(f) PROVE UNCHANGED <<images, emitted>>
  BY <1>7, Finishes
<1>8. ASSUME IoctlStep \/ FlushBegin \/ PauseBegin \/ Resume \/ StopOrStart \/ SubmitEos
      PROVE  UNCHANGED <<images, emitted>>
  BY <1>8 DEF IoctlStep, Reset, FlushOutPort, ClearExtInfo, PauseEnd, FlushBegin,
     PauseBegin, Resume, StopOrStart, SubmitEos
<1>9. ASSUME TakeEos \/ LastFrame \/ NeedArrange \/ Rebind \/ UNCHANGED vars
      PROVE  UNCHANGED <<images, emitted>>
  BY <1>9 DEF TakeEos, LastFrame, NeedArrange, Rebind, vars
<1>10. Bpp \in Sender /\ Filler \subseteq Sender
  BY DEF Sender
<1> HIDE DEF PortType, vars
<1> QED
  BY <1>1, <1>2, <1>3, <1>4, <1>5, <1>6, <1>7, <1>8, <1>9, <1>10
  DEF Next, Thread, FillStep

LEMMA PortTypes ==
    ASSUME PortType, [Next]_vars
    PROVE  PortType'
BY QueueTypes, FlagTypes, PosTypes, ImageTypes DEF PortType

-----------------------------------------------------------------------------
(* Places and counts                                                       *)

Busy == {b \in Buf : InUse(b)}

\* Where the buffers are, which of them are in use, and what a flush waits for.
QueueInv ==
    /\ IsInjective(yuv_queue)
    /\ Linked = Buf \ held
    /\ \A b \in held : status[b] = "IDLE"
    /\ yuv_use_cnt = Cardinality(Busy)
    /\ owed \subseteq Busy

\* A buffer in use has one holder: a sender that took it, an image not yet read,
\* or the processor thread between reading the image and reporting it.
HolderInv ==
    /\ \A p \in Sender : pos[p].at = "got" => status[pos[p].buf] = "USING"
    /\ \A p, q \in Sender :
          pos[p].at = "got" /\ pos[q].at = "got" /\ pos[p].buf = pos[q].buf => p = q
    /\ pos[Bpp].at \in Reporting => status[pos[Bpp].buf] = "WAIT_REPORT"
    /\ \A i \in DOMAIN images : status[images[i].buf] = "WAIT_REPORT"
    /\ \A i, j \in DOMAIN images : images[i].buf = images[j].buf => i = j
    /\ pos[Bpp].at \in Reporting =>
          \A i \in DOMAIN images : images[i].buf # pos[Bpp].buf

LEMMA BusyFinite ==
    /\ IsFiniteSet(Busy) /\ Cardinality(Busy) \in Nat
    /\ Cardinality(Busy) <= Cardinality(Buf) /\ Cardinality(Buf) \in Nat
<1>1. Busy \subseteq Buf /\ IsFiniteSet(Buf)
  BY OutputAssumption DEF Busy
<1> QED
  BY <1>1, FS_Subset, FS_CardinalityType

\* A buffer in use is linked.
LEMMA BusyLinked ==
    ASSUME QueueInv
    PROVE  Busy \subseteq Linked /\ {b \in Linked : InUse(b)} = Busy
BY DEF QueueInv, Busy, InUse

\* A queued buffer comes into use.
LEMMA BusyMore ==
    ASSUME QueueType, QueueInv, NEW b \in Linked, status[b] = "QUEUED",
           NEW s \in {"USING", "WAIT_REPORT"}, status' = [status EXCEPT ![b] = s],
           yuv_use_cnt' = yuv_use_cnt + 1, UNCHANGED <<yuv_queue, held, owed>>
    PROVE  QueueInv'
<1>1. b \in Buf /\ b \notin held /\ b \notin Busy
  BY DEF QueueInv, Busy, InUse
<1>2. Busy' = Busy \cup {b}
  BY <1>1 DEF Busy, InUse, QueueType
<1>3. Cardinality(Busy') = Cardinality(Busy) + 1
  BY <1>1, <1>2, BusyFinite, FS_AddElement
<1>4. Linked' = Linked
  BY DEF Linked
<1>5. \A x \in held' : status'[x] = "IDLE"
  BY <1>1 DEF QueueInv, QueueType
<1> QED
  BY <1>2, <1>3, <1>4, <1>5 DEF QueueInv

\* A buffer in use is reported.
LEMMA BusyLess ==
    ASSUME QueueType, QueueInv, NEW b \in Busy, NEW eof \in BOOLEAN, ReportFrame(b, eof)
    PROVE  QueueInv' /\ Busy' = Busy \ {b} /\ yuv_use_cnt' = Cardinality(Busy')
<1>1. b \in Buf /\ b \in Linked
  BY BusyLinked DEF Busy
<1>2. Busy' = Busy \ {b}
  BY <1>1 DEF ReportFrame, Busy, InUse, QueueType
<1>3. Cardinality(Busy') = Cardinality(Busy) - 1 /\ Cardinality(Busy') \in Nat
  BY <1>2, BusyFinite, FS_RemoveElement, FS_CardinalityType
<1>4. yuv_use_cnt' = yuv_use_cnt - 1
  BY <1>3, BusyFinite DEF ReportFrame, Dropped, QueueInv
<1>5. IsInjective(yuv_queue') /\ Linked' = Linked \ {b}
  <2>1. yuv_queue' = Keep(yuv_queue, Buf \ {b}) /\ yuv_queue \in Seq(Buf) /\ Linked \subseteq Buf
    BY DEF ReportFrame, Unlinked, QueueType, QueueInv
  <2>2. IsInjective(yuv_queue') /\ ToSet(yuv_queue') = ToSet(yuv_queue) \cap (Buf \ {b})
    BY <2>1, KeepInjective, KeepRange DEF QueueInv
  <2> QED
    BY <2>1, <2>2 DEF Linked
<1>6. Linked' = Buf \ held'
  BY <1>1, <1>5 DEF ReportFrame, QueueInv
<1>7. \A x \in held' : status'[x] = "IDLE"
  BY <1>1 DEF ReportFrame, QueueInv, QueueType
<1>8. owed' \subseteq Busy'
  BY <1>2 DEF ReportFrame, QueueInv
<1>9. yuv_use_cnt' = Cardinality(Busy')
  BY <1>3, <1>4 DEF QueueInv
<1> QED
  BY <1>2, <1>5, <1>6, <1>7, <1>8, <1>9 DEF QueueInv

\* A client's buffer is linked.
LEMMA BusyFilled ==
    ASSUME QueueType, QueueInv, NEW f, NEW b \in Buf, Fill(f, b)
    PROVE  QueueInv' /\ Busy' = Busy
<1>1. b \in held /\ b \notin Busy /\ b \notin Linked
  BY DEF Fill, QueueInv, Busy, InUse
<1>2. Busy' = Busy
  BY <1>1 DEF Fill, Busy, InUse, QueueType
<1>3. IsInjective(yuv_queue') /\ Linked' = Linked \cup {b}
  BY <1>1, AppendList DEF Fill, QueueType, QueueInv, Linked
<1>4. Linked' = Buf \ held'
  BY <1>1, <1>3 DEF Fill, QueueInv
<1>5. \A x \in held' : status'[x] = "IDLE"
  BY <1>1 DEF Fill, QueueInv, QueueType
<1> QED
  BY <1>2, <1>3, <1>4, <1>5 DEF QueueInv, Fill

\* A flush takes back what is not in use, and waits for the rest.
LEMMA BusyFlushed ==
    ASSUME QueueType, QueueInv, FlushOutPort
    PROVE  QueueInv' /\ Busy' = Busy /\ owed' = Busy
<1> DEFINE back == {b \in Linked : ~Kept(b)}
<1>0. /\ status' = [b \in Buf |-> IF b \in back THEN "IDLE" ELSE status[b]]
      /\ yuv_queue' = Keep(yuv_queue, Linked \ back)
      /\ held' = held \cup back /\ owed' = Linked \ back
      /\ yuv_use_cnt' = yuv_use_cnt
  BY DEF FlushOutPort
<1>1. back = Linked \ Busy /\ Linked \ back = Busy /\ Linked \subseteq Buf /\ Busy \subseteq Linked
  BY BusyLinked DEF Kept, QueueInv
<1> HIDE DEF back
<1>2. Busy' = Busy
  BY <1>0, <1>1 DEF Busy, InUse, QueueType
<1>3. IsInjective(yuv_queue') /\ Linked' = Busy
  <2>1. yuv_queue' = Keep(yuv_queue, Busy) /\ yuv_queue \in Seq(Buf)
    BY <1>0, <1>1 DEF QueueType
  <2>2. IsInjective(yuv_queue') /\ ToSet(yuv_queue') = ToSet(yuv_queue) \cap Busy
    BY <2>1, KeepInjective, KeepRange DEF QueueInv
  <2> QED
    BY <1>1, <2>2 DEF Linked
<1>4. Linked' = Buf \ held'
  BY <1>0, <1>1, <1>3 DEF QueueInv
<1>5. \A x \in held' : status'[x] = "IDLE"
  BY <1>0, <1>1 DEF QueueInv, QueueType
<1> QED
  BY <1>0, <1>1, <1>2, <1>3, <1>4, <1>5 DEF QueueInv

\* Every step keeps each buffer in its place and counted.
LEMMA QueueStep ==
    ASSUME PortType, QueueInv, HolderInv, [Next]_vars
    PROVE  QueueInv'
<1> USE DEF PortType
<1>0. /\ Linked \subseteq Buf /\ Bpp \in Sender /\ Filler \subseteq Sender
      /\ \A b \in Buf : InUse(b) => b \in Busy
  BY DEF QueueInv, Sender, Busy
<1>1. CASE UNCHANGED <<status, yuv_queue, yuv_use_cnt, held, owed>>
  BY <1>1 DEF QueueInv, Linked, Busy, InUse
<1>2. ASSUME NEW p \in Sender, Send(p) PROVE QueueInv'
  <2>1. CASE GetFrame(p)
    <3>1. PICK i \in Free : status' = [status EXCEPT ![yuv_queue[i]] = "USING"]
      BY <2>1 DEF GetFrame
    <3>2. yuv_queue[i] \in Linked /\ status[yuv_queue[i]] = "QUEUED"
      BY DEF Free, Linked, ToSet
    <3>3. yuv_use_cnt' = yuv_use_cnt + 1 /\ UNCHANGED <<yuv_queue, held, owed>>
      BY <2>1 DEF GetFrame
    <3> QED
      BY <3>1, <3>2, <3>3, BusyMore
  <2>2. CASE GetFrameFails(p) \/ EndSend(p)
    BY <1>1, <2>2 DEF GetFrameFails, EndSend, queueVars
  <2>3. CASE ReportEof(p)
    <3>1. pos[p].at = "got" /\ ReportFrame(pos[p].buf, TRUE) /\ TRUE \in BOOLEAN
      BY <2>3 DEF ReportEof
    <3>2. pos[p].buf \in Busy
      BY <1>0, <3>1 DEF HolderInv, PosType, Holding, InUse
    <3> QED
      BY <3>1, <3>2, BusyLess
  <2> QED
    BY <1>2, <2>1, <2>2, <2>3 DEF Send
<1>3. CASE Thread
  <2>1. CASE Wake \/ GetImage \/ GetImageFails \/ EndWork
    BY <1>1, <2>1 DEF Wake, GetImage, GetImageFails, EndWork, queueVars
  <2>2. CASE ReportImage
    <3>1. pos[Bpp].at \in Reporting /\ ReportFrame(pos[Bpp].buf, FALSE) /\ FALSE \in BOOLEAN
      BY <2>2 DEF ReportImage, Reporting
    <3>2. pos[Bpp].buf \in Busy
      BY <1>0, <3>1 DEF HolderInv, PosType, Holding, InUse
    <3> QED
      BY <3>1, <3>2, BusyLess
  <2> QED
    BY <1>0, <1>2, <1>3, <2>1, <2>2 DEF Thread
<1>4. ASSUME NEW f \in Filler, NEW b \in Buf, Fill(f, b) PROVE QueueInv'
  BY <1>4, BusyFilled
<1>5. ASSUME NEW f \in Filler, FinishFill(f) PROVE QueueInv'
  BY <1>1, <1>5, Finishes DEF queueVars
<1>6. CASE FlushOutPort
  BY <1>6, BusyFlushed
<1>7. CASE \/ Reset \/ ClearExtInfo \/ PauseEnd
           \/ FlushBegin \/ PauseBegin \/ Resume \/ StopOrStart \/ SubmitEos
  BY <1>1, <1>7 DEF Reset, ClearExtInfo, PauseEnd, FlushBegin, PauseBegin, Resume,
     StopOrStart, SubmitEos, queueVars
<1>8. ASSUME NEW b \in Buf, NEW last \in BOOLEAN, Emit(b, last) PROVE QueueInv'
  <2>1. /\ b \in Linked /\ status[b] = "QUEUED"
        /\ status' = [status EXCEPT ![b] = "WAIT_REPORT"]
        /\ yuv_use_cnt' = yuv_use_cnt + 1 /\ UNCHANGED <<yuv_queue, held, owed>>
    BY <1>8 DEF Emit
  <2> QED
    BY <2>1, BusyMore
<1>9. CASE TakeEos \/ LastFrame \/ NeedArrange \/ Rebind \/ UNCHANGED vars
  BY <1>1, <1>9 DEF TakeEos, LastFrame, NeedArrange, Rebind, vars, queueVars
<1> HIDE DEF PortType, vars
<1> QED
  BY <1>0, <1>2, <1>3, <1>4, <1>5, <1>6, <1>7, <1>8, <1>9 DEF Next, FillStep, IoctlStep

\* An image is in one of the port's buffers.
LEMMA ImageBufs ==
    ASSUME ImageType
    PROVE  \A i \in DOMAIN images : images[i] \in Image /\ images[i].buf \in Buf
<1>1. \A i \in DOMAIN images : images[i] \in Image
  BY DEF ImageType
<1>2. \A im \in Image : im.buf \in Buf
  BY DEF Image
<1> QED
  BY <1>1, <1>2

\* Buffers in use stay as they are, and no sender takes up another.
LEMMA HolderQuiet ==
    ASSUME PosType, ImageType, HolderInv, images' = images,
           \A b \in Buf : InUse(b) => status'[b] = status[b],
           \A p \in Sender : pos'[p] = pos[p] \/ pos'[p].at \notin Holding
    PROVE  HolderInv'
<1>0. Bpp \in Sender
  BY DEF Sender
<1>1. \A p \in Sender : pos'[p].at \in Holding =>
          /\ pos'[p] = pos[p] /\ pos[p].at \in Holding /\ pos[p].buf \in Buf
  BY DEF PosType
<1>2. \A p \in Sender : pos'[p].at = "got" =>
          pos'[p] = pos[p] /\ status'[pos[p].buf] = "USING"
  BY <1>1 DEF HolderInv, InUse, Holding
<1>3. pos'[Bpp].at \in Reporting =>
          pos'[Bpp] = pos[Bpp] /\ status'[pos[Bpp].buf] = "WAIT_REPORT"
  BY <1>0, <1>1 DEF HolderInv, InUse, Holding
<1>4. \A i \in DOMAIN images : images[i].buf \in Buf
  BY ImageBufs
<1>5. \A i \in DOMAIN images : status'[images[i].buf] = "WAIT_REPORT"
  BY <1>4 DEF HolderInv, InUse
<1> QED
  BY <1>2, <1>3, <1>5 DEF HolderInv

\* A report ends one holder's hold.
LEMMA HolderReports ==
    ASSUME PosType, ImageType, QueueType, HolderInv, NEW p \in Sender, NEW eof,
           pos[p].at \in Holding, ReportFrame(pos[p].buf, eof), images' = images,
           p # Bpp => pos[p].at = "got",
           NEW x, pos' = [pos EXCEPT ![p] = x], x.at \notin Holding
    PROVE  HolderInv'
<1> DEFINE b == pos[p].buf
<1>0. Bpp \in Sender /\ b \in Buf /\ status' = [status EXCEPT ![b] = "IDLE"]
  BY DEF Sender, PosType, ReportFrame
<1>1. pos'[p] = x /\ \A q \in Sender : q # p => pos'[q] = pos[q]
  BY DEF PosType
<1>2. \A q \in Sender : pos'[q].at \in Holding => q # p /\ pos'[q] = pos[q] /\ pos[q].buf \in Buf
  BY <1>1 DEF PosType
<1>3. \A c \in Buf : c # b => status'[c] = status[c]
  BY <1>0 DEF QueueType
<1>4. /\ pos[p].at = "got" => status[b] = "USING"
      /\ pos[p].at # "got" => p = Bpp /\ status[b] = "WAIT_REPORT"
  BY DEF HolderInv, Holding
<1>5. ASSUME NEW q \in Sender, pos'[q].at = "got" PROVE pos[q].buf # b
  <2>1. q # p /\ pos[q].at = "got"
    BY <1>2, <1>5 DEF Holding
  <2> QED
    BY <1>4, <2>1 DEF HolderInv
<1>6. \A q \in Sender : pos'[q].at = "got" =>
          pos'[q] = pos[q] /\ status'[pos[q].buf] = "USING"
  BY <1>2, <1>3, <1>5 DEF HolderInv, Holding
<1>7. pos'[Bpp].at \in Reporting =>
          pos'[Bpp] = pos[Bpp] /\ status'[pos[Bpp].buf] = "WAIT_REPORT"
  <2> SUFFICES ASSUME pos'[Bpp].at \in Reporting
               PROVE  pos'[Bpp] = pos[Bpp] /\ status'[pos[Bpp].buf] = "WAIT_REPORT"
    OBVIOUS
  <2>1. Bpp # p /\ pos'[Bpp] = pos[Bpp] /\ pos[Bpp].buf \in Buf
    BY <1>0, <1>2 DEF Holding
  <2>2. status[pos[Bpp].buf] = "WAIT_REPORT" /\ status[b] = "USING"
    BY <1>4, <2>1 DEF HolderInv
  <2> QED
    BY <1>3, <2>1, <2>2
<1>8. \A i \in DOMAIN images : images[i].buf \in Buf /\ images[i].buf # b
  <2>1. \A i \in DOMAIN images : images[i].buf \in Buf
    BY ImageBufs
  <2>2. \A i \in DOMAIN images : images[i].buf # b
    <3>1. CASE pos[p].at = "got"
      BY <1>4, <3>1 DEF HolderInv
    <3>2. CASE pos[p].at # "got"
      BY <1>4, <3>2 DEF HolderInv, Holding
    <3> QED
      BY <3>1, <3>2
  <2> QED
    BY <2>1, <2>2
<1>9. \A i \in DOMAIN images : status'[images[i].buf] = "WAIT_REPORT"
  BY <1>3, <1>8 DEF HolderInv
<1> HIDE DEF b
<1> QED
  BY <1>6, <1>7, <1>9 DEF HolderInv

\* A sender takes a queued buffer.
LEMMA HolderTakes ==
    ASSUME PortType, HolderInv, NEW p \in Sender, GetFrame(p)
    PROVE  HolderInv'
<1> USE DEF PortType
<1>1. PICK i \in Free : /\ status' = [status EXCEPT ![yuv_queue[i]] = "USING"]
                        /\ pos' = [pos EXCEPT ![p] = At("got", yuv_queue[i])]
  BY DEF GetFrame
<1>2. PICK b \in Buf : b = yuv_queue[i]
  BY DEF Free, QueueType
<1>3. status[b] = "QUEUED" /\ status'[b] = "USING"
      /\ \A c \in Buf : c # b => status'[c] = status[c]
  BY <1>1, <1>2 DEF Free, QueueType
<1>4. pos'[p].at = "got" /\ pos'[p].buf = b /\ \A q \in Sender : q # p => pos'[q] = pos[q]
  BY <1>1, <1>2 DEF PosType, At
<1>5. images' = images /\ Bpp \in Sender
  BY DEF GetFrame, firmwareVars, Sender
<1>6. \A k \in DOMAIN images : images[k].buf \in Buf
  BY ImageBufs
<1>7. \A q \in Sender : pos[q].at \in Holding => pos[q].buf \in Buf
  BY DEF PosType
<1>8. \A q \in Sender : pos[q].at = "got" => status'[pos[q].buf] = "USING" /\ pos[q].buf # b
  BY <1>3, <1>7 DEF HolderInv, Holding
<1>9. pos[Bpp].at \in Reporting => status'[pos[Bpp].buf] = "WAIT_REPORT"
  BY <1>3, <1>5, <1>7 DEF HolderInv, Holding
<1>10. \A k \in DOMAIN images : status'[images[k].buf] = "WAIT_REPORT"
  BY <1>3, <1>6 DEF HolderInv
<1>11. pos'[Bpp].at \in Reporting => pos'[Bpp] = pos[Bpp]
  BY <1>4, <1>5 DEF Reporting
<1>12. \A q \in Sender : pos'[q].at = "got" => q = p \/ pos'[q] = pos[q]
  BY <1>4
<1>13. \A q \in Sender : pos'[q].at = "got" => status'[pos'[q].buf] = "USING"
  BY <1>3, <1>4, <1>8, <1>12
<1>14. \A q, r \in Sender :
           pos'[q].at = "got" /\ pos'[r].at = "got" /\ pos'[q].buf = pos'[r].buf => q = r
  BY <1>4, <1>8, <1>12 DEF HolderInv
<1> QED
  BY <1>5, <1>9, <1>10, <1>11, <1>13, <1>14 DEF HolderInv

\* The processor thread reads the oldest image.
LEMMA HolderReads ==
    ASSUME PortType, HolderInv, GetImage
    PROVE  HolderInv'
<1> USE DEF PortType
<1> DEFINE b == images[1].buf
<1>0. Bpp \in Sender
  BY DEF Sender
<1>1. /\ images \in Seq(Image) /\ images # <<>> /\ 1 \in DOMAIN images
      /\ Head(images) = images[1] /\ images' = Tail(images)
      /\ \A i \in DOMAIN images' : i + 1 \in DOMAIN images /\ images'[i] = images[i + 1]
                                   /\ i + 1 # 1 /\ i \in Nat
  BY DEF ImageType, GetImage
<1>2. status' = status
  BY DEF GetImage, queueVars
<1>3. /\ pos'[Bpp].at \in Reporting /\ pos'[Bpp].buf = b
      /\ \A q \in Sender : q # Bpp => pos'[q] = pos[q]
  <2>1. PICK a \in Reporting : pos' = [pos EXCEPT ![Bpp] = At(a, b)]
    BY <1>1 DEF GetImage, Reporting
  <2> QED
    BY <1>0, <2>1 DEF At, PosType
<1>4. status'[b] = "WAIT_REPORT"
  BY <1>1, <1>2 DEF HolderInv
<1>5. \A i \in DOMAIN images' : images'[i].buf # b /\ status'[images'[i].buf] = "WAIT_REPORT"
  BY <1>1, <1>2 DEF HolderInv
<1>6. \A i, j \in DOMAIN images' : images'[i].buf = images'[j].buf => i = j
  <2> SUFFICES ASSUME NEW i \in DOMAIN images', NEW j \in DOMAIN images',
                      images'[i].buf = images'[j].buf
               PROVE  i = j
    OBVIOUS
  <2>1. i + 1 = j + 1
    BY <1>1 DEF HolderInv
  <2> QED
    BY <1>1, <2>1
<1>7. \A q \in Sender : pos'[q].at = "got" => pos'[q] = pos[q] /\ q # Bpp
  BY <1>3 DEF Reporting
<1> HIDE DEF b
<1> QED
  BY <1>2, <1>3, <1>4, <1>5, <1>6, <1>7 DEF HolderInv

\* The firmware decodes into a queued buffer.
LEMMA HolderEmits ==
    ASSUME PortType, HolderInv, NEW b \in Buf, NEW last \in BOOLEAN, Emit(b, last)
    PROVE  HolderInv'
<1> USE DEF PortType
<1> DEFINE im == [buf |-> b, id |-> emitted + 1, last |-> last]
<1>0. im \in Image /\ im.buf = b /\ Bpp \in Sender
  BY DEF Image, ImageType, Sender
<1> HIDE DEF im
<1>1. /\ images' = Append(images, im) /\ images \in Seq(Image)
      /\ status' = [status EXCEPT ![b] = "WAIT_REPORT"] /\ status[b] = "QUEUED"
      /\ pos' = pos
  BY DEF Emit, im, ImageType
<1>2. status'[b] = "WAIT_REPORT" /\ \A c \in Buf : c # b => status'[c] = status[c]
  BY <1>1 DEF QueueType
<1>3. \A i \in DOMAIN images' :
          \/ i \in DOMAIN images /\ images'[i] = images[i]
          \/ i = Len(images) + 1 /\ images'[i] = im
  BY <1>0, <1>1
<1>4. \A i \in DOMAIN images : images[i].buf \in Buf /\ images[i].buf # b
  BY <1>1, ImageBufs DEF HolderInv
<1>5. \A q \in Sender : pos[q].at \in Holding => pos[q].buf \in Buf
  BY DEF PosType
<1>6. \A q \in Sender : pos[q].at = "got" => status'[pos[q].buf] = "USING"
  BY <1>1, <1>2, <1>5 DEF HolderInv, Holding
<1>7. pos[Bpp].at \in Reporting => status'[pos[Bpp].buf] = "WAIT_REPORT" /\ pos[Bpp].buf # b
  BY <1>0, <1>1, <1>2, <1>5 DEF HolderInv, Holding
<1>8. \A i \in DOMAIN images' : status'[images'[i].buf] = "WAIT_REPORT"
  BY <1>0, <1>2, <1>3, <1>4 DEF HolderInv
<1>9. \A i, j \in DOMAIN images' : images'[i].buf = images'[j].buf => i = j
  BY <1>0, <1>3, <1>4 DEF HolderInv
<1>10. pos[Bpp].at \in Reporting => \A i \in DOMAIN images' : images'[i].buf # pos[Bpp].buf
  BY <1>0, <1>3, <1>7 DEF HolderInv
<1> QED
  BY <1>1, <1>6, <1>7, <1>8, <1>9, <1>10 DEF HolderInv

\* Every step keeps the holders apart.
LEMMA HolderStep ==
    ASSUME PortType, QueueInv, HolderInv, [Next]_vars
    PROVE  HolderInv'
<1> USE DEF PortType
<1>0. Bpp \in Sender /\ Filler \subseteq Sender
  BY DEF Sender
<1>1. ASSUME NEW p \in Sender, NEW a, a \notin Holding, NEW b, pos' = [pos EXCEPT ![p] = At(a, b)]
      PROVE  \A q \in Sender : pos'[q] = pos[q] \/ pos'[q].at \notin Holding
  BY <1>1 DEF PosType, At
<1>2. ASSUME UNCHANGED <<status, images>>, NEW p \in Sender, NEW a, a \notin Holding, NEW b,
             pos' = [pos EXCEPT ![p] = At(a, b)]
      PROVE  HolderInv'
  BY <1>1, <1>2, HolderQuiet
<1>3. CASE UNCHANGED <<status, images, pos>>
  BY <1>3, HolderQuiet
<1>4. ASSUME NEW p \in Sender, Send(p) PROVE HolderInv'
  <2>1. CASE GetFrame(p)
    BY <2>1, HolderTakes
  <2>2. CASE GetFrameFails(p)
    BY <1>2, <2>2 DEF GetFrameFails, queueVars, firmwareVars, Holding, Reporting
  <2>3. CASE EndSend(p)
    BY <1>2, <2>3 DEF EndSend, queueVars, firmwareVars, Holding, Reporting, Rest
  <2>4. CASE ReportEof(p)
    <3>1. PICK x : x = At("sent", NoBuf)
      OBVIOUS
    <3>2. x.at \notin Holding
      BY <3>1 DEF At, Holding, Reporting
    <3>3. /\ pos[p].at = "got" /\ ReportFrame(pos[p].buf, TRUE) /\ images' = images
          /\ pos' = [pos EXCEPT ![p] = x]
      BY <2>4, <3>1 DEF ReportEof, firmwareVars
    <3> QED
      BY <3>2, <3>3, HolderReports DEF Holding
  <2> QED
    BY <1>4, <2>1, <2>2, <2>3, <2>4 DEF Send
<1>5. CASE Thread
  <2>1. CASE GetImage
    BY <2>1, HolderReads
  <2>2. CASE Wake \/ GetImageFails
    BY <1>0, <1>2, <2>2 DEF Wake, GetImageFails, queueVars, firmwareVars, Holding, Reporting
  <2>3. CASE EndWork
    BY <1>0, <1>2, <2>3 DEF EndWork, queueVars, firmwareVars, Holding, Reporting, Rest
  <2>4. CASE ReportImage
    <3>1. PICK x : x = At(CASE pos[Bpp].at = "report" -> "image"
                            [] pos[Bpp].at = "report-end" -> "ended"
                            [] pos[Bpp].at = "report-last" -> "ended-last", NoBuf)
      OBVIOUS
    <3>2. x.at \notin Holding
      BY <2>4, <3>1 DEF At, Holding, Reporting, ReportImage
    <3>3. /\ pos[Bpp].at \in Reporting /\ ReportFrame(pos[Bpp].buf, FALSE) /\ images' = images
          /\ pos' = [pos EXCEPT ![Bpp] = x]
      BY <2>4, <3>1 DEF ReportImage, Reporting, firmwareVars
    <3> QED
      BY <1>0, <3>2, <3>3, HolderReports DEF Holding
  <2> QED
    BY <1>0, <1>4, <1>5, <2>1, <2>2, <2>3, <2>4 DEF Thread
<1>6. ASSUME NEW f \in Filler, NEW b \in Buf, Fill(f, b) PROVE HolderInv'
  <2>1. \A c \in Buf : InUse(c) => status'[c] = status[c]
    BY <1>6 DEF Fill, QueueInv, InUse, QueueType
  <2>2. "release" \notin Holding
    BY DEF Holding, Reporting
  <2>3. \A q \in Sender : pos'[q] = pos[q] \/ pos'[q].at \notin Holding
    BY <1>0, <1>1, <1>6, <2>2 DEF Fill
  <2> QED
    BY <1>6, <2>1, <2>3, HolderQuiet DEF Fill, firmwareVars
<1>7. ASSUME NEW f \in Filler, FinishFill(f) PROVE HolderInv'
  <2>1. /\ UNCHANGED <<status, images>>
        /\ \E a \in (Filling \cup {"slot", "idle"}) : \E b : pos' = [pos EXCEPT ![f] = At(a, b)]
    BY <1>7, Finishes DEF queueVars, firmwareVars
  <2>2. \A a \in (Filling \cup {"slot", "idle"}) : a \notin Holding
    BY DEF Filling, Holding, Reporting
  <2> QED
    BY <1>0, <1>2, <2>1, <2>2
<1>8. CASE FlushOutPort
  <2>1. \A c \in Buf : InUse(c) => status'[c] = status[c]
    BY <1>8 DEF FlushOutPort, Kept
  <2> QED
    BY <1>8, <2>1, HolderQuiet DEF FlushOutPort, firmwareVars
<1>9. CASE \/ Reset \/ ClearExtInfo \/ PauseEnd
           \/ FlushBegin \/ PauseBegin \/ Resume \/ StopOrStart \/ SubmitEos
  BY <1>3, <1>9 DEF Reset, ClearExtInfo, PauseEnd, FlushBegin, PauseBegin, Resume,
     StopOrStart, SubmitEos, queueVars, firmwareVars
<1>10. ASSUME NEW b \in Buf, NEW last \in BOOLEAN, Emit(b, last) PROVE HolderInv'
  BY <1>10, HolderEmits
<1>11. CASE TakeEos \/ LastFrame \/ NeedArrange \/ Rebind \/ UNCHANGED vars
  BY <1>3, <1>11 DEF TakeEos, LastFrame, NeedArrange, Rebind, vars, queueVars, firmwareVars
<1> HIDE DEF PortType, vars
<1> QED
  BY <1>0, <1>4, <1>5, <1>6, <1>7, <1>8, <1>9, <1>10, <1>11 DEF Next, FillStep, IoctlStep

\* What the steps preserve together.
PortInv == PortType /\ QueueInv /\ HolderInv

LEMMA PortInit == Init => PortInv
<1> SUFFICES ASSUME Init PROVE PortInv
  OBVIOUS
<1>1. PortType
  BY InitPort
<1>2. QueueInv
  <2>1. yuv_queue = <<>> /\ held = Buf /\ owed = {} /\ yuv_use_cnt = 0
        /\ status = [b \in Buf |-> "IDLE"]
    BY DEF Init
  <2>2. Busy = {} /\ Cardinality(Busy) = 0
    BY <2>1, FS_EmptySet DEF Busy, InUse
  <2>3. Linked = {} /\ IsInjective(yuv_queue)
    BY <2>1 DEF Linked, ToSet, IsInjective
  <2> QED
    BY <2>1, <2>2, <2>3 DEF QueueInv
<1>3. HolderInv
  BY DEF Init, HolderInv, Rest, At, Reporting, Sender
<1> QED
  BY <1>1, <1>2, <1>3 DEF PortInv

LEMMA PortStep == PortInv /\ [Next]_vars => PortInv'
BY PortTypes, QueueStep, HolderStep DEF PortInv

LEMMA PortAlways == Spec => []PortInv
BY PortInit, PortStep, PTL DEF Spec

\* The port's state stays within its types, and yuv_use_cnt between zero and the
\* number of buffers: processor_report_frame never finds the count at zero, and
\* no two parties count the same buffer.
THEOREM TypeCorrect == Spec => []TypeOK
<1>1. PortInv => TypeOK
  <2> SUFFICES ASSUME PortInv PROVE TypeOK
    OBVIOUS
  <2> USE DEF PortInv, PortType
  <2>1. yuv_use_cnt \in 0 .. Cardinality(Buf)
    BY BusyFinite DEF QueueInv
  <2>2. {output_flush_pending, pause_pending, recfg_flag, reset_pending,
         inst_work, eos_in_list, draining} \subseteq BOOLEAN
    BY DEF FlagType
  <2>3. ctl \in {"idle", "reset", "clear", "forget", "pause-done", "pause-wait"}
    BY DEF FlagType
  <2>4. /\ \A f \in Filler : pos[f].at \in Position \cup Filling
        /\ pos[Bpp].at \in BppPosition
    BY DEF PosType
  <2> QED
    BY <2>1, <2>2, <2>3, <2>4 DEF QueueType, FlagType, TypeOK
<1> QED
  BY <1>1, PortAlways, PTL

\* yuv_use_cnt, kept by hand where a buffer is taken (processor_get_frame), marked
\* (processor_ctrl_set_buffer_wait_report) and reported (processor_report_frame),
\* is the number of buffers in use at every moment a party can see it.
THEOREM UseCountCorrect == Spec => []UseCount
<1>1. PortInv => UseCount
  <2> SUFFICES ASSUME PortInv PROVE UseCount
    OBVIOUS
  <2>1. {b \in Linked : InUse(b)} = Busy
    BY BusyLinked DEF PortInv
  <2> QED
    BY <2>1 DEF PortInv, QueueInv, UseCount
<1> QED
  BY <1>1, PortAlways, PTL

\* A buffer is with the client or in the queue, and there once: a report and a
\* flush never both return it and neither loses it (processor_report_frame,
\* channel_flush_out_port, channel_fill_this_frame).
THEOREM OnePlaceCorrect == Spec => []OnePlace
<1>1. PortInv => OnePlace
  <2> SUFFICES ASSUME PortInv PROVE OnePlace
    OBVIOUS
  <2>1. yuv_queue \in Seq(Buf) /\ IsInjective(yuv_queue) /\ Linked = Buf \ held
    BY DEF PortInv, PortType, QueueType, QueueInv
  <2>2. Cardinality(Linked) = Len(yuv_queue)
    BY <2>1, ListCount DEF Linked
  <2> QED
    BY <2>1, <2>2 DEF OnePlace
<1> QED
  BY <1>1, PortAlways, PTL
-----------------------------------------------------------------------------
(* An answered flush has returned every buffer.                            *)

\* A report that answers a flush is that of the last buffer in use.
LEMMA AnsweredByReport ==
    ASSUME QueueType, QueueInv, FlushAccounted, NEW b \in Busy, NEW eof \in BOOLEAN,
           ReportFrame(b, eof), flushes' < flushes
    PROVE  owed' = {}
<1>1. QueueInv' /\ yuv_use_cnt' = Cardinality(Busy') /\ Busy' = Busy \ {b}
  BY BusyLess
<1>2. flushes \in {0, 1}
  BY DEF FlushAccounted
<1>3. yuv_use_cnt' = 0
  BY <1>2 DEF ReportFrame, AnswerPending, LastOut
<1>4. IsFiniteSet(Busy')
  BY <1>1, BusyFinite, FS_RemoveElement
<1>5. Busy' = {}
  BY <1>1, <1>3, <1>4, FS_EmptySet
<1> QED
  BY <1>1, <1>5 DEF QueueInv

\* The ioctl answers at once when no buffer is in use.
LEMMA AnsweredByIoctl ==
    ASSUME QueueType, QueueInv, FlushAccounted, FlushOutPort, flushes' < flushes
    PROVE  owed' = {}
<1>1. owed' = Busy
  BY BusyFlushed
<1>2. flushes \in {0, 1}
  BY DEF FlushAccounted
<1>3. yuv_use_cnt = 0
  BY <1>2 DEF FlushOutPort, LastOut
<1> QED
  BY <1>1, <1>3, BusyFinite, FS_EmptySet DEF QueueInv

\* Nothing else answers one.
LEMMA AnsweredStep ==
    ASSUME PortInv, FlushAccounted, [Next]_vars, flushes' < flushes
    PROVE  owed' = {}
<1> USE DEF PortInv, PortType
<1>0. /\ Bpp \in Sender /\ Filler \subseteq Sender
      /\ flushes \in {0, 1} /\ flushes' # flushes /\ ~(1 < flushes)
  BY DEF Sender, FlushAccounted
<1>1. ASSUME NEW p \in Sender, Send(p) PROVE owed' = {}
  <2>1. CASE GetFrame(p) \/ GetFrameFails(p) \/ EndSend(p)
    BY <1>0, <2>1 DEF GetFrame, GetFrameFails, EndSend, pendingVars
  <2>2. CASE ReportEof(p)
    <3>1. pos[p].at = "got" /\ ReportFrame(pos[p].buf, TRUE) /\ TRUE \in BOOLEAN
      BY <2>2 DEF ReportEof
    <3>2. pos[p].buf \in Busy
      BY <3>1 DEF HolderInv, PosType, Holding, InUse, Busy
    <3> QED
      BY <3>1, <3>2, AnsweredByReport
  <2> QED
    BY <1>1, <2>1, <2>2 DEF Send
<1>2. CASE Thread
  <2>1. CASE Wake \/ GetImage \/ GetImageFails \/ EndWork
    BY <1>0, <2>1 DEF Wake, GetImage, GetImageFails, EndWork, pendingVars
  <2>2. CASE ReportImage
    <3>1. pos[Bpp].at \in Reporting /\ ReportFrame(pos[Bpp].buf, FALSE) /\ FALSE \in BOOLEAN
      BY <2>2 DEF ReportImage, Reporting
    <3>2. pos[Bpp].buf \in Busy
      BY <1>0, <3>1 DEF HolderInv, PosType, Holding, InUse, Busy
    <3> QED
      BY <3>1, <3>2, AnsweredByReport
  <2> QED
    BY <1>0, <1>1, <1>2, <2>1, <2>2 DEF Thread
<1>3. ASSUME NEW f \in Filler, NEW b \in Buf, Fill(f, b) PROVE owed' = {}
  BY <1>0, <1>3 DEF Fill, pendingVars
<1>4. ASSUME NEW f \in Filler, FinishFill(f) PROVE owed' = {}
  BY <1>0, <1>4, Finishes DEF pendingVars
<1>5. CASE FlushOutPort
  BY <1>5, AnsweredByIoctl
<1>6. CASE \/ Reset \/ ClearExtInfo \/ PauseEnd
           \/ FlushBegin \/ PauseBegin \/ Resume \/ StopOrStart \/ SubmitEos
  BY <1>0, <1>6 DEF Reset, ClearExtInfo, PauseEnd, FlushBegin, PauseBegin, Resume,
     StopOrStart, SubmitEos, pendingVars
<1>7. ASSUME NEW b \in Buf, NEW last \in BOOLEAN, Emit(b, last) PROVE owed' = {}
  BY <1>0, <1>7 DEF Emit, pendingVars
<1>8. CASE TakeEos \/ LastFrame \/ NeedArrange \/ Rebind \/ UNCHANGED vars
  BY <1>0, <1>8 DEF TakeEos, LastFrame, NeedArrange, Rebind, vars, pendingVars
<1> HIDE DEF PortInv, PortType, vars
<1> QED
  BY <1>0, <1>1, <1>2, <1>3, <1>4, <1>5, <1>6, <1>7, <1>8 DEF Next, FillStep, IoctlStep

\* FLUSH_OUTPUT_DONE is sent, by channel_flush_out_port or by the report of the
\* last buffer in use, only once every buffer that was in the port when the flush
\* cleared it is back: also those a filler or the processor thread had taken for
\* the end of stream.
THEOREM FlushAnsweredIsDoneCorrect == Spec => FlushAnsweredIsDone
<1>1. PortInv /\ FlushAccounted /\ [Next]_vars => [flushes' < flushes => owed' = {}]_vars
  BY AnsweredStep
<1> QED
  BY <1>1, PortAlways, FlushInit, FlushStep, PTL DEF Spec, FlushAnsweredIsDone
-----------------------------------------------------------------------------
(* Images                                                                  *)

\* A client that neither flushes nor ends the stream, at one size: nothing sends
\* an end of stream and nothing keeps an image from being recorded.
PlainFlags ==
    /\ ~output_flush_pending /\ ~recfg_flag
    /\ dfs_alloc_flag = "ALREADY_ALLOC"
    /\ ctl \notin {"reset", "clear", "forget"}
    /\ ~draining /\ ~eos_in_list
    /\ decoder_eof_state = "INIT_STATE" /\ processor_eof_state = "INIT_STATE"

PlainPos ==
    /\ \A i \in DOMAIN images : ~images[i].last
    /\ \A p \in Sender : pos[p].at \notin Position \ {"idle"}
    /\ pos[Bpp].at \notin {"report-last", "ended-last"}

Plain == PlainFlags /\ PlainPos

LentInv == Plain /\ LentAccounted

LEMMA LentInit == Init => LentInv
BY DEF Init, LentInv, Plain, PlainFlags, PlainPos, LentAccounted, Rest, At, Position, Sender

\* A filling thread never has an end of stream to send, and the processor thread
\* never reads a last image.
LEMMA PlainStep ==
    ASSUME Ops \cap {"flush", "eos", "resize"} = {}, PortType, Plain, [Next]_vars
    PROVE  Plain'
<1> USE DEF PortType, Plain
<1>0. /\ Bpp \in Sender /\ Filler \subseteq Sender /\ Bpp \notin Filler
      /\ "flush" \notin Ops /\ "eos" \notin Ops /\ "resize" \notin Ops
  BY OutputAssumption DEF Sender
<1>1. ASSUME NEW p \in Sender, NEW a, NEW b, pos' = [pos EXCEPT ![p] = At(a, b)],
             a \notin Position \ {"idle"}, a \notin {"report-last", "ended-last"},
             images' = images
      PROVE  PlainPos'
  BY <1>0, <1>1 DEF PlainPos, PosType, At
<1>rest. ASSUME NEW p \in Sender, pos' = [pos EXCEPT ![p] = Rest], images' = images
       PROVE  PlainPos'
  <2>1. "idle" \notin Position \ {"idle"} /\ "idle" \notin {"report-last", "ended-last"}
    OBVIOUS
  <2> QED
    BY <1>1, <1>rest, <2>1 DEF Rest
<1>2. ASSUME UNCHANGED <<pos, images>> PROVE PlainPos'
  BY <1>2 DEF PlainPos
<1>3. ASSUME UNCHANGED <<sizeVars, output_flush_pending, ctl, draining, eos_in_list,
                         decoder_eof_state, processor_eof_state>>
      PROVE  PlainFlags'
  BY <1>3 DEF PlainFlags, sizeVars
<1>4. ASSUME NEW p \in Sender PROVE ~Send(p)
  <2>1. pos[p].at \notin Position \ {"idle"}
    BY DEF PlainPos
  <2> QED
    BY <2>1 DEF Send, GetFrame, GetFrameFails, ReportEof, EndSend, Position
<1>5. CASE Wake \/ GetImageFails
  <2>1. PICK a \in {"image", "ended"} :
            pos' = [pos EXCEPT ![Bpp] = At(a, NoBuf)] /\ images' = images
    BY <1>5 DEF Wake, GetImageFails, firmwareVars
  <2>2. a \notin Position \ {"idle"} /\ a \notin {"report-last", "ended-last"}
    BY DEF Position
  <2>3. PlainPos'
    BY <1>0, <1>1, <2>1, <2>2
  <2>4. PlainFlags'
    BY <1>3, <1>5 DEF Wake, GetImageFails, pendingVars, eofVars, firmwareVars
  <2> QED
    BY <2>3, <2>4
<1>6. CASE GetImage
  <2>1. ~Head(images).last
    <3>1. 1 \in DOMAIN images /\ Head(images) = images[1]
      BY <1>6 DEF GetImage, ImageType
    <3> QED
      BY <3>1 DEF PlainPos
  <2>2. /\ pos'[Bpp].at \in {"report", "report-end"}
        /\ \A q \in Sender : q # Bpp => pos'[q] = pos[q]
    BY <1>0, <1>6, <2>1 DEF GetImage, PosType, At
  <2>3. \A i \in DOMAIN images' : ~images'[i].last
    <3>1. /\ images \in Seq(Image) /\ images # <<>> /\ images' = Tail(images)
          /\ \A i \in DOMAIN images' : i + 1 \in DOMAIN images /\ images'[i] = images[i + 1]
      BY <1>6 DEF ImageType, GetImage
    <3> QED
      BY <3>1 DEF PlainPos
  <2>4. PlainPos'
    BY <1>0, <2>2, <2>3 DEF PlainPos, Position
  <2>5. PlainFlags'
    BY <1>3, <1>6 DEF GetImage, pendingVars
  <2> QED
    BY <2>4, <2>5
<1>7. CASE ReportImage
  <2>1. pos[Bpp].at \in {"report", "report-end"}
    BY <1>7 DEF ReportImage, PlainPos
  <2>2. \E a \in {"image", "ended"} : pos' = [pos EXCEPT ![Bpp] = At(a, NoBuf)]
    BY <1>7, <2>1 DEF ReportImage
  <2>3. PlainPos'
    BY <1>0, <1>1, <1>7, <2>2 DEF ReportImage, Position, firmwareVars
  <2>4. ~output_flush_pending'
    BY <1>7 DEF ReportImage, ReportFrame, AnswerPending, PlainFlags
  <2>5. PlainFlags'
    BY <1>7, <2>4 DEF ReportImage, PlainFlags, sizeVars, eofVars, firmwareVars
  <2> QED
    BY <2>3, <2>5
<1>8. CASE EndWork
  <2>1. pos[Bpp].at = "ended" /\ ~NeedHandleEof(pos[Bpp].at = "ended-last")
    BY <1>8 DEF EndWork, PlainPos, PlainFlags, NeedHandleEof
  <2>2. pos' = [pos EXCEPT ![Bpp] = Rest] /\ images' = images
    BY <1>8, <2>1 DEF EndWork, firmwareVars
  <2>3. PlainPos'
    BY <1>0, <1>rest, <2>2
  <2>4. PlainFlags'
    BY <1>8 DEF EndWork, PlainFlags, pendingVars, eofVars, firmwareVars
  <2> QED
    BY <2>3, <2>4
<1>9. ASSUME NEW f \in Filler, NEW b \in Buf, Fill(f, b) PROVE Plain'
  BY <1>0, <1>1, <1>3, <1>9 DEF Fill, pendingVars, sizeVars, eofVars, firmwareVars, Position
<1>10. ASSUME NEW f \in Filler, FinishFill(f) PROVE Plain'
  <2>1. images' = images /\ processor_eof_state # "WAIT_SLOT"
    BY <1>10, Finishes DEF PlainFlags, firmwareVars
  <2>2. \E a \in Filling \cup {"idle"} : \E b : pos' = [pos EXCEPT ![f] = At(a, b)]
    BY <1>10, <2>1, Finishes
  <2>3. \A a \in Filling \cup {"idle"} :
            a \notin Position \ {"idle"} /\ a \notin {"report-last", "ended-last"}
    BY DEF Filling, Position
  <2>4. PlainPos'
    BY <1>0, <1>1, <2>1, <2>2, <2>3
  <2>5. PlainFlags'
    BY <1>3, <1>10, Finishes DEF pendingVars, eofVars, firmwareVars
  <2> QED
    BY <2>4, <2>5
<1>11. CASE Reset \/ FlushOutPort \/ ClearExtInfo \/ FlushBegin \/ SubmitEos \/ TakeEos
            \/ LastFrame \/ NeedArrange \/ Rebind
  BY <1>0, <1>11 DEF Reset, FlushOutPort, ClearExtInfo, FlushBegin, SubmitEos, TakeEos,
     LastFrame, NeedArrange, Rebind, PlainFlags
<1>12. CASE PauseEnd \/ PauseBegin \/ Resume \/ StopOrStart
  <2>1. PlainPos'
    BY <1>2, <1>12 DEF PauseEnd, PauseBegin, Resume, StopOrStart, firmwareVars
  <2>2. ctl' \notin {"reset", "clear", "forget"}
    BY <1>12 DEF PauseEnd, PauseBegin, Resume, StopOrStart, PlainFlags
  <2>3. PlainFlags'
    BY <1>12, <2>2 DEF PauseEnd, PauseBegin, Resume, StopOrStart, PlainFlags, pendingVars,
       sizeVars, eofVars, firmwareVars
  <2> QED
    BY <2>1, <2>3
<1>13. ASSUME NEW b \in Buf, NEW last \in BOOLEAN, Emit(b, last) PROVE Plain'
  <2>1. ~last /\ ~draining
    BY <1>13 DEF Emit, PlainFlags
  <2>2. PICK im : im = [buf |-> b, id |-> emitted + 1, last |-> last]
    OBVIOUS
  <2>3. ~im.last /\ images' = Append(images, im) /\ images \in Seq(Image) /\ pos' = pos
    BY <1>13, <2>1, <2>2 DEF Emit, ImageType
  <2>4. \A i \in DOMAIN images' :
            (i \in DOMAIN images /\ images'[i] = images[i]) \/ images'[i] = im
    BY <2>3
  <2>5. PlainPos'
    BY <2>3, <2>4 DEF PlainPos
  <2>6. PlainFlags'
    BY <1>13, <2>1 DEF Emit, PlainFlags, pendingVars, sizeVars
  <2> QED
    BY <2>5, <2>6
<1>14. CASE UNCHANGED vars
  BY <1>2, <1>3, <1>14 DEF vars, pendingVars, sizeVars, eofVars, firmwareVars
<1> HIDE DEF PortType, Plain, vars
<1> QED
  BY <1>0, <1>4, <1>5, <1>6, <1>7, <1>8, <1>9, <1>10, <1>11, <1>12, <1>13, <1>14
  DEF Next, Thread, FillStep, IoctlStep

\* A filler that will release the image of its buffer.
Releasing == Reporting \cup {"release", "give"}

\* Nothing that was read changes place.
LEMMA LentQuiet ==
    ASSUME LentAccounted, UNCHANGED <<lent, wiped, held, image_id>>,
           \A p \in Sender : pos'[p] = pos[p] \/ pos[p].at \notin Releasing
    PROVE  LentAccounted'
<1>1. Bpp \in Sender /\ Filler \subseteq Sender
  BY DEF Sender
<1>2. pos[Bpp].at \in Reporting => pos'[Bpp] = pos[Bpp]
  BY <1>1 DEF Releasing
<1>3. ASSUME NEW f \in Filler, NEW b, pos[f] \in {At("release", b), At("give", b)}
      PROVE  pos'[f] = pos[f]
  BY <1>1, <1>3 DEF At, Releasing
<1> QED
  BY <1>2, <1>3 DEF LentAccounted, OnItsWay, Reporting

\* A step of one filler: what the others have, and what is with the client or on
\* its way, it leaves alone.
LEMMA LentFiller ==
    ASSUME PortType, LentAccounted, NEW f \in Filler, NEW x,
           pos' = [pos EXCEPT ![f] = x], held' = held,
           lent' \subseteq lent, wiped \subseteq wiped',
           \A b \in lent' \ wiped' :
               image_id[b] => \/ image_id'[b]
                              \/ OnItsWay(b),
           \A b \in lent' \ wiped' :
               pos[f] \in {At("release", b), At("give", b)} /\ image_id[b] =>
                   x = At("give", b)
    PROVE  LentAccounted'
<1>0. f \in Sender /\ Bpp \in Sender /\ f # Bpp /\ Filler \subseteq Sender
  BY OutputAssumption DEF Sender
<1>1. pos'[f] = x /\ \A q \in Sender : q # f => pos'[q] = pos[q]
  BY <1>0 DEF PortType, PosType
<1>2. \A b : OnItsWay(b) => OnItsWay(b)'
  BY <1>0, <1>1 DEF OnItsWay
<1> SUFFICES ASSUME NEW b \in lent' \ wiped', ~OnItsWay(b)
             PROVE  \/ b \in held /\ image_id'[b]
                    \/ \E g \in Filler :
                          pos'[g] \in {At("release", b), At("give", b)} /\ image_id'[b]
  BY <1>2 DEF LentAccounted
<1>3. b \in lent \ wiped /\ (image_id[b] => image_id'[b])
  OBVIOUS
<1>4. CASE b \in held /\ image_id[b]
  BY <1>3, <1>4
<1>5. ASSUME NEW g \in Filler, pos[g] \in {At("release", b), At("give", b)}, image_id[b]
      PROVE  \E h \in Filler : pos'[h] \in {At("release", b), At("give", b)} /\ image_id'[b]
  <2>1. CASE g = f
    BY <1>1, <1>3, <1>5, <2>1
  <2>2. CASE g # f
    BY <1>0, <1>1, <1>3, <1>5, <2>2
  <2> QED
    BY <2>1, <2>2
<1> QED
  BY <1>3, <1>4, <1>5 DEF LentAccounted

\* An image is released when its buffer is filled again, or wiped.
LEMMA LentFinished ==
    ASSUME PortType, LentAccounted, NEW f \in Filler, FinishFill(f)
    PROVE  LentAccounted'
<1> DEFINE c == pos[f].buf
<1>0. /\ held' = held /\ f \in Sender
      /\ lent \subseteq Buf /\ image_id \in [Buf -> BOOLEAN]
  BY Finishes DEF Sender, PortType, QueueType
<1>1. \A a, b : pos[f] = At(a, b) => pos[f].at = a /\ c = b
  BY DEF At
<1>2. CASE TestImage(f)
  <2>1. /\ Step(f, IF image_id[c] THEN "give" ELSE "check")
        /\ UNCHANGED <<lent, wiped, image_id>>
    BY <1>2 DEF TestImage
  <2>2. PICK x : x = At(IF image_id[c] THEN "give" ELSE "check", c)
    OBVIOUS
  <2>3. pos' = [pos EXCEPT ![f] = x]
    BY <2>1, <2>2 DEF Step
  <2>4. \A b : pos[f] \in {At("release", b), At("give", b)} /\ image_id[b] =>
                  x = At("give", b)
    BY <1>1, <2>2
  <2> HIDE DEF c
  <2>5. lent' = lent /\ wiped' = wiped /\ image_id' = image_id
    BY <2>1
  <2>6. /\ lent' \subseteq lent /\ wiped \subseteq wiped'
        /\ \A b \in lent' \ wiped' : image_id[b] => image_id'[b] \/ OnItsWay(b)
    BY <2>5
  <2>7. \A b \in lent' \ wiped' :
            pos[f] \in {At("release", b), At("give", b)} /\ image_id[b] => x = At("give", b)
    BY <2>4
  <2> QED
    BY <1>0, <2>3, <2>6, <2>7, LentFiller
<1>3. CASE ReleaseImage(f)
  <2>1. /\ pos' = [pos EXCEPT ![f] = At("forget", c)]
        /\ lent' = (IF image_id[c] THEN lent \ {c} ELSE lent)
        /\ UNCHANGED <<wiped, image_id>>
    BY <1>3 DEF ReleaseImage, Step
  <2>2. \A b \in lent' : ~(pos[f] \in {At("release", b), At("give", b)} /\ image_id[b])
    BY <1>1, <2>1
  <2> HIDE DEF c
  <2> QED
    BY <1>0, <2>1, <2>2, LentFiller
<1>4. CASE ForgetImage(f)
  <2>1. /\ pos' = [pos EXCEPT ![f] = At("check", c)] /\ pos[f].at = "forget"
        /\ lent' = lent
        /\ image_id' = [image_id EXCEPT ![c] = FALSE]
        /\ wiped' = (IF image_id[c] /\ c \in lent /\ ~OnItsWay(c)
                     THEN wiped \cup {c} ELSE wiped)
    BY <1>4 DEF ForgetImage, Step
  <2>2. \A b : pos[f] \notin {At("release", b), At("give", b)}
    BY <1>1, <2>1
  <2> HIDE DEF c
  <2>3. \A b \in lent \ wiped' : image_id[b] => image_id'[b] \/ OnItsWay(b)
    <3>1. \A b \in lent : b # c => image_id'[b] = image_id[b]
      BY <1>0, <2>1
    <3>2. c \in lent \ wiped' /\ image_id[c] => OnItsWay(c)
      BY <2>1
    <3> QED
      BY <3>1, <3>2
  <2> QED
    BY <1>0, <2>1, <2>2, <2>3, LentFiller
<1>5. CASE CheckEof(f)
  <2>1. PICK x : pos' = [pos EXCEPT ![f] = x]
    BY <1>5 DEF CheckEof
  <2>2. pos[f].at = "check" /\ UNCHANGED <<lent, wiped, image_id>>
    BY <1>5 DEF CheckEof
  <2>3. \A b : pos[f] \notin {At("release", b), At("give", b)}
    BY <1>1, <2>2
  <2> HIDE DEF c
  <2> QED
    BY <1>0, <2>1, <2>2, <2>3, LentFiller
<1> HIDE DEF c
<1> QED
  BY <1>2, <1>3, <1>4, <1>5 DEF FinishFill

\* A report records the image it hands over.
LEMMA LentReported ==
    ASSUME PortType, Plain, LentAccounted, ReportImage
    PROVE  LentAccounted'
<1> USE DEF PortType
<1> DEFINE c == pos[Bpp].buf
<1>0. Bpp \in Sender /\ Bpp \notin Filler /\ Filler \subseteq Sender
  BY OutputAssumption DEF Sender
<1>1. /\ c \in Buf /\ held' = held \cup {c} /\ lent' = lent /\ wiped' = wiped
      /\ image_id' = [image_id EXCEPT ![c] = TRUE]
      /\ \A q \in Sender : q # Bpp => pos'[q] = pos[q]
  <2>1. /\ pos[Bpp].at \in Reporting /\ ReportFrame(c, FALSE) /\ UNCHANGED <<lent, wiped>>
        /\ \A q \in Sender : q # Bpp => pos'[q] = pos[q]
    BY <1>0 DEF ReportImage, Reporting, PosType
  <2>2. c \in Buf
    BY <1>0, <2>1 DEF PosType, Holding
  <2>3. Recorded(FALSE) = TRUE
    BY DEF Recorded, Plain, PlainFlags
  <2> QED
    BY <2>1, <2>2, <2>3 DEF ReportFrame
<1>2. image_id'[c] /\ \A b \in Buf : image_id[b] => image_id'[b]
  BY <1>1 DEF QueueType
<1>3. \A g \in Filler : pos'[g] = pos[g]
  BY <1>0, <1>1
<1>4. lent \subseteq Buf
  BY DEF QueueType
<1>5. \A b \in lent : pos[Bpp].at \in Reporting /\ pos[Bpp].buf = b => b = c
  OBVIOUS
<1> HIDE DEF c
<1> QED
  BY <1>1, <1>2, <1>3, <1>4, <1>5 DEF LentAccounted, OnItsWay, Reporting

LEMMA LentStep ==
    ASSUME Ops \cap {"flush", "eos", "resize"} = {}, PortType, LentInv, [Next]_vars
    PROVE  LentInv'
<1> USE DEF PortType, LentInv
<1>0. Bpp \in Sender /\ Filler \subseteq Sender
  BY DEF Sender
<1> SUFFICES LentAccounted'
  BY PlainStep
<1>2. ASSUME UNCHANGED <<lent, wiped, held, image_id>>, NEW p \in Sender, NEW x,
             pos' = [pos EXCEPT ![p] = x], pos[p].at \notin Releasing
      PROVE  LentAccounted'
  <2>1. \A q \in Sender : pos'[q] = pos[q] \/ pos[q].at \notin Releasing
    BY <1>2 DEF PosType
  <2> QED
    BY <1>2, <2>1, LentQuiet
<1>3. ASSUME UNCHANGED <<lent, wiped, held, image_id, pos>> PROVE LentAccounted'
  BY <1>3, LentQuiet
<1>4. ASSUME NEW p \in Sender PROVE ~Send(p)
  <2>1. pos[p].at \notin Position \ {"idle"}
    BY DEF Plain, PlainPos
  <2> QED
    BY <2>1 DEF Send, GetFrame, GetFrameFails, ReportEof, EndSend, Position
<1>5. CASE Wake \/ GetImageFails
  <2>1. PICK x : pos' = [pos EXCEPT ![Bpp] = x]
    BY <1>5 DEF Wake, GetImageFails
  <2>2. pos[Bpp].at \notin Releasing /\ UNCHANGED <<lent, wiped, held, image_id>>
    BY <1>5 DEF Wake, GetImageFails, Reporting, Releasing
  <2> QED
    BY <1>0, <1>2, <2>1, <2>2
<1>6. CASE EndWork
  <2>1. PICK x : pos' = [pos EXCEPT ![Bpp] = x]
    BY <1>6 DEF EndWork
  <2>2. pos[Bpp].at \notin Releasing /\ UNCHANGED <<lent, wiped, held, image_id>>
    BY <1>6 DEF EndWork, Reporting, Releasing
  <2> QED
    BY <1>0, <1>2, <2>1, <2>2
<1>7. CASE GetImage
  <2>1. PICK c : c = Head(images).buf
    OBVIOUS
  <2>2. /\ lent' = lent \cup {c} /\ UNCHANGED <<wiped, held, image_id>>
        /\ pos[Bpp].at = "image"
    BY <1>7, <2>1 DEF GetImage
  <2>3. /\ pos'[Bpp].at \in Reporting /\ pos'[Bpp].buf = c
        /\ \A q \in Sender : q # Bpp => pos'[q] = pos[q]
    BY <1>0, <1>7, <2>1 DEF GetImage, Reporting, PosType, At
  <2>4. \A g \in Filler : pos'[g] = pos[g]
    BY <1>0, <2>3, OutputAssumption
  <2> QED
    BY <2>2, <2>3, <2>4 DEF LentAccounted, OnItsWay, Reporting
<1>8. CASE ReportImage
  BY <1>8, LentReported
<1>9. ASSUME NEW f \in Filler, NEW c \in Buf, Fill(f, c) PROVE LentAccounted'
  <2>1. /\ pos[f].at = "idle" /\ pos'[f] = At("release", c)
        /\ \A q \in Sender : q # f => pos'[q] = pos[q]
        /\ held' = held \ {c} /\ UNCHANGED <<lent, wiped, image_id>>
    BY <1>0, <1>9 DEF Fill, PosType
  <2>2. \A g \in Filler : \A b :
            pos[g] \in {At("release", b), At("give", b)} => pos'[g] = pos[g]
    BY <1>0, <2>1 DEF At
  <2>3. pos'[Bpp] = pos[Bpp]
    BY <1>0, <2>1, OutputAssumption
  <2>4. \A b \in held : b \in held' \/ pos'[f] = At("release", b)
    BY <2>1
  <2> QED
    BY <2>1, <2>2, <2>3, <2>4 DEF LentAccounted, OnItsWay
<1>10. ASSUME NEW f \in Filler, FinishFill(f) PROVE LentAccounted'
  BY <1>10, LentFinished
<1>11. CASE Reset \/ FlushOutPort \/ ClearExtInfo \/ FlushBegin \/ NeedArrange \/ Rebind
  BY <1>11 DEF Reset, FlushOutPort, ClearExtInfo, FlushBegin, NeedArrange, Rebind, Plain,
     PlainFlags
<1>12. CASE PauseEnd \/ PauseBegin \/ Resume \/ StopOrStart \/ SubmitEos \/ TakeEos \/ LastFrame
  BY <1>3, <1>12 DEF PauseEnd, PauseBegin, Resume, StopOrStart, SubmitEos, TakeEos, LastFrame
<1>13. ASSUME NEW b \in Buf, NEW last \in BOOLEAN, Emit(b, last) PROVE LentAccounted'
  BY <1>3, <1>13 DEF Emit
<1>14. CASE UNCHANGED vars
  BY <1>3, <1>14 DEF vars
<1> HIDE DEF PortType, LentInv, vars
<1> QED
  BY <1>0, <1>4, <1>5, <1>6, <1>7, <1>8, <1>9, <1>10, <1>11, <1>12, <1>13, <1>14
  DEF Next, Thread, FillStep, IoctlStep

\* While the client neither flushes nor ends the stream, at one size, an image the
\* processor read is released to the firmware when its buffer is filled again: it
\* is with the client, recorded in the buffer (processor_report_frame), or on its
\* way there, or about to be released (channel_fill_this_frame).  The only images
\* the firmware does not get back, however many threads fill at once, are those
\* whose record was cleared by the late, unlocked write of the fill before
\* (channel.c:1757).
THEOREM LentAccountedCorrect ==
    ASSUME Ops \cap {"flush", "eos", "resize"} = {}
    PROVE  Spec => []LentAccounted
<1>1. LentInv => LentAccounted
  BY DEF LentInv
<1>2. PortInv /\ LentInv /\ [Next]_vars => LentInv'
  BY LentStep DEF PortInv
<1> QED
  BY <1>1, <1>2, LentInit, PortAlways, PTL DEF Spec
-----------------------------------------------------------------------------
(* The end of stream                                                       *)

\* A party that is at an end of stream, or will be.  An end of stream is due at
\* the processor thread, it is tried there, or it waits for the filling thread.
Trying(p) == pos[p].at \in {"slot", "got", "noslot"}
Waiting(f) == \/ Trying(f)
              \/ pos[f].at \in Filling \cup {"idle"} /\ processor_eof_state = "WAIT_SLOT"
Due == /\ processor_eof_state = "INIT_STATE" /\ eos_recv_count > 0
       /\ ~Trying(Bpp) /\ pos[Bpp].at # "sent"

OneIf(P) == IF P THEN 1 ELSE 0

\* Each of these may send one more; together they have a marker each.
EofAccounted(f) ==
    /\ eos_recv_count \in 0 .. MaxEos /\ eof_send_count \in Nat
    /\ eof_send_count + OneIf(Waiting(f)) + OneIf(Trying(Bpp)) + OneIf(Due)
         <= eos_recv_count

\* Before the first marker nothing ends the stream.
NoEofYet ==
    eos_recv_count = 0 =>
        /\ ~eos_in_list /\ ~draining /\ decoder_eof_state = "INIT_STATE"
        /\ \A i \in DOMAIN images : ~images[i].last
        /\ pos[Bpp].at \notin {"report-last", "ended-last"}

LEMMA EofInit ==
    ASSUME NEW f \in Filler, Init
    PROVE  EofAccounted(f) /\ NoEofYet
<1>1. pos[f] = Rest /\ pos[Bpp] = Rest /\ MaxEos \in Nat
  BY OutputAssumption DEF Init, Sender
<1>2. ~Waiting(f) /\ ~Trying(Bpp) /\ ~Due
  BY <1>1 DEF Init, Waiting, Trying, Due, Rest, At
<1>3. EofAccounted(f)
  BY <1>1, <1>2 DEF Init, EofAccounted, OneIf
<1>4. NoEofYet
  BY <1>1 DEF Init, NoEofYet, Rest, At
<1> QED
  BY <1>3, <1>4

LEMMA NoEofStep ==
    ASSUME PortType, NoEofYet, eos_recv_count \in Nat, [Next]_vars
    PROVE  NoEofYet'
<1> SUFFICES ASSUME eos_recv_count' = 0 PROVE NoEofYet'
  BY DEF NoEofYet
<1> USE DEF PortType
<1>0. Bpp \in Sender /\ Filler \subseteq Sender /\ Bpp \notin Filler
  BY OutputAssumption DEF Sender
<1>1. ASSUME UNCHANGED <<eos_recv_count, eos_in_list, draining, decoder_eof_state, images>>,
             pos'[Bpp].at = pos[Bpp].at \/ pos'[Bpp].at \notin {"report-last", "ended-last"}
      PROVE  NoEofYet'
  BY <1>1 DEF NoEofYet
<1>2. ASSUME NEW f \in Filler, NEW x, pos' = [pos EXCEPT ![f] = x] PROVE pos'[Bpp] = pos[Bpp]
  BY <1>0, <1>2 DEF PosType
<1>3. ASSUME NEW p \in Sender, Send(p) PROVE NoEofYet'
  <2>1. UNCHANGED <<eos_recv_count, eos_in_list, draining, decoder_eof_state, images>>
    BY <1>3 DEF Send, GetFrame, GetFrameFails, ReportEof, EndSend, eofVars, firmwareVars
  <2>2. PICK a \in Position : \E b : pos' = [pos EXCEPT ![p] = At(a, b)]
    BY <1>3 DEF Send, GetFrame, GetFrameFails, ReportEof, EndSend, Rest, Position
  <2>3. pos'[Bpp].at = pos[Bpp].at \/ pos'[Bpp].at = a
    BY <1>0, <2>2 DEF PosType, At
  <2> QED
    BY <1>1, <2>1, <2>3 DEF Position
<1>4. CASE Wake \/ GetImageFails \/ EndWork
  <2>1. UNCHANGED <<eos_recv_count, eos_in_list, draining, decoder_eof_state, images>>
    BY <1>4 DEF Wake, GetImageFails, EndWork, eofVars, firmwareVars
  <2>2. PICK a \in {"image", "ended", "slot", "idle"} : \E b : pos' = [pos EXCEPT ![Bpp] = At(a, b)]
    BY <1>4 DEF Wake, GetImageFails, EndWork, Rest
  <2>3. pos'[Bpp].at = a
    BY <1>0, <2>2 DEF PosType, At
  <2> QED
    BY <1>1, <2>1, <2>3
<1>5. CASE GetImage
  <2>1. UNCHANGED <<eos_recv_count, eos_in_list, draining, decoder_eof_state>>
        /\ images' = Tail(images) /\ images # <<>> /\ images \in Seq(Image)
    BY <1>5 DEF GetImage, ImageType
  <2>2. /\ 1 \in DOMAIN images /\ Head(images) = images[1]
        /\ \A i \in DOMAIN images' : i + 1 \in DOMAIN images /\ images'[i] = images[i + 1]
    BY <2>1
  <2>3. ~Head(images).last /\ \A i \in DOMAIN images' : ~images'[i].last
    BY <2>1, <2>2 DEF NoEofYet
  <2>4. pos'[Bpp].at \in {"report", "report-end"}
    BY <1>0, <1>5, <2>3 DEF GetImage, PosType, At
  <2> QED
    BY <2>1, <2>3, <2>4 DEF NoEofYet
<1>6. CASE ReportImage
  <2>1. UNCHANGED <<eos_recv_count, eos_in_list, draining, decoder_eof_state, images>>
    BY <1>6 DEF ReportImage, eofVars, firmwareVars
  <2>2. pos[Bpp].at \in {"report", "report-end"}
    BY <1>6, <2>1 DEF ReportImage, NoEofYet
  <2>3. PICK a \in {"image", "ended"} : pos' = [pos EXCEPT ![Bpp] = At(a, NoBuf)]
    BY <1>6, <2>2 DEF ReportImage
  <2>4. pos'[Bpp].at = a
    BY <1>0, <2>3 DEF PosType, At
  <2> QED
    BY <1>1, <2>1, <2>4
<1>7. ASSUME NEW f \in Filler, NEW b \in Buf, Fill(f, b) PROVE NoEofYet'
  <2>1. pos'[Bpp] = pos[Bpp]
    BY <1>2, <1>7 DEF Fill
  <2> QED
    BY <1>1, <1>7, <2>1 DEF Fill, eofVars, firmwareVars
<1>8. ASSUME NEW f \in Filler, FinishFill(f) PROVE NoEofYet'
  <2>1. PICK x : pos' = [pos EXCEPT ![f] = x]
    BY <1>8, Finishes
  <2>2. pos'[Bpp] = pos[Bpp]
    BY <1>2, <2>1
  <2> QED
    BY <1>1, <1>8, <2>2, Finishes DEF eofVars, firmwareVars
<1>9. CASE Reset
  BY <1>9 DEF Reset, NoEofYet, eofVars
<1>10. CASE FlushOutPort \/ ClearExtInfo \/ PauseEnd \/ FlushBegin \/ PauseBegin \/ Resume
            \/ StopOrStart
  BY <1>1, <1>10 DEF FlushOutPort, ClearExtInfo, PauseEnd, FlushBegin, PauseBegin, Resume,
     StopOrStart, eofVars, firmwareVars
<1>11. CASE SubmitEos
  BY <1>11 DEF SubmitEos
<1>12. ASSUME NEW b \in Buf, NEW last \in BOOLEAN, Emit(b, last) PROVE NoEofYet'
  <2>1. eos_recv_count = 0 /\ ~last
    BY <1>12 DEF Emit, NoEofYet
  <2>2. PICK im : im = [buf |-> b, id |-> emitted + 1, last |-> last]
    OBVIOUS
  <2>3. ~im.last /\ images' = Append(images, im) /\ images \in Seq(Image)
    BY <1>12, <2>1, <2>2 DEF Emit, ImageType
  <2>4. \A i \in DOMAIN images' :
            (i \in DOMAIN images /\ images'[i] = images[i]) \/ images'[i] = im
    BY <2>3
  <2>5. \A i \in DOMAIN images' : ~images'[i].last
    BY <2>1, <2>3, <2>4 DEF NoEofYet
  <2> QED
    BY <1>12, <2>1, <2>5 DEF Emit, NoEofYet
<1>13. CASE TakeEos \/ LastFrame
  BY <1>13 DEF TakeEos, LastFrame, NoEofYet, eofVars
<1>14. CASE NeedArrange \/ Rebind \/ UNCHANGED vars
  BY <1>1, <1>14 DEF NeedArrange, Rebind, vars, eofVars, firmwareVars
<1> HIDE DEF PortType, vars
<1> QED
  BY <1>0, <1>3, <1>4, <1>5, <1>6, <1>7, <1>8, <1>9, <1>10, <1>11, <1>12, <1>13, <1>14
  DEF Next, Thread, FillStep, IoctlStep

\* What one sender does with the end of stream it has.
LEMMA EofSends ==
    ASSUME NEW f, Filler = {f}, PosType, EofAccounted(f), NEW p \in Sender, Send(p)
    PROVE  EofAccounted(f)'
<1>0. /\ Bpp \in Sender /\ f \in Sender /\ f # Bpp /\ (p = f \/ p = Bpp)
      /\ eos_recv_count \in Nat /\ eof_send_count \in Nat /\ MaxEos \in Nat
      /\ eos_recv_count <= MaxEos
  BY OutputAssumption DEF Sender, EofAccounted
<1>1. ASSUME NEW a, NEW b, pos' = [pos EXCEPT ![p] = At(a, b)]
      PROVE  /\ pos'[p].at = a
             /\ p = f => pos'[Bpp].at = pos[Bpp].at
             /\ p = Bpp => pos'[f].at = pos[f].at
  BY <1>0, <1>1 DEF PosType, At
<1>2. CASE GetFrame(p) \/ GetFrameFails(p)
  <2>1. PICK a \in {"got", "noslot"} : \E b : pos' = [pos EXCEPT ![p] = At(a, b)]
    BY <1>2 DEF GetFrame, GetFrameFails
  <2>2. /\ pos[p].at = "slot"
        /\ UNCHANGED <<processor_eof_state, eos_recv_count, eof_send_count>>
    BY <1>2 DEF GetFrame, GetFrameFails, eofVars
  <2>3. (Waiting(f)' <=> Waiting(f)) /\ (Trying(Bpp)' <=> Trying(Bpp)) /\ (Due' <=> Due)
    BY <1>0, <1>1, <2>1, <2>2 DEF Waiting, Trying, Due
  <2> QED
    BY <2>2, <2>3 DEF EofAccounted, OneIf
<1>3. CASE ReportEof(p)
  <2>1. pos[p].at = "got" /\ pos' = [pos EXCEPT ![p] = At("sent", NoBuf)]
    BY <1>3 DEF ReportEof
  <2>2. Trying(p) /\ (p = f => Waiting(f))
    BY <2>1 DEF Trying, Waiting
  <2>3. processor_eof_state' = "GOT_SLOT" /\ eos_recv_count' = eos_recv_count
    BY <1>3 DEF ReportEof
  <2>4. ~Due' /\ (Waiting(f)' => Waiting(f)) /\ (Trying(Bpp)' => Trying(Bpp))
        /\ ~Trying(p)' /\ (p = f => ~Waiting(f)')
    <3>1. /\ pos'[p].at = "sent"
          /\ p = f => pos'[Bpp].at = pos[Bpp].at
          /\ p = Bpp => pos'[f].at = pos[f].at
      BY <1>1, <2>1
    <3>2. processor_eof_state' \notin {"INIT_STATE", "WAIT_SLOT"}
      BY <2>3
    <3>3. ~Due' /\ ~Trying(p)' /\ (p = f => ~Waiting(f)')
      BY <3>1, <3>2 DEF Due, Waiting, Trying
    <3> QED
      BY <1>0, <3>1, <3>2, <3>3 DEF Waiting, Trying
  <2>5. eof_send_count + 1 <= eos_recv_count
    BY <1>0, <2>2 DEF EofAccounted, OneIf
  <2>6. eof_send_count' = eof_send_count + 1
    BY <1>0, <1>3, <2>5 DEF ReportEof
  <2> QED
    BY <1>0, <2>2, <2>3, <2>4, <2>6 DEF EofAccounted, OneIf
<1>4. CASE EndSend(p)
  <2>1. /\ pos[p].at \in {"sent", "noslot"} /\ pos' = [pos EXCEPT ![p] = At("idle", NoBuf)]
        /\ eos_recv_count' = eos_recv_count /\ eof_send_count' = eof_send_count
        /\ processor_eof_state' =
               IF pos[p].at = "sent" THEN "REPORT_SUCCESS" ELSE "WAIT_SLOT"
    BY <1>4 DEF EndSend, Outcome, Rest
  <2>5. /\ pos'[p].at = "idle"
        /\ p = f => pos'[Bpp].at = pos[Bpp].at
        /\ p = Bpp => pos'[f].at = pos[f].at
    BY <1>1, <2>1
  <2>2. ~Due' /\ ~Trying(p)'
    BY <2>1, <2>5 DEF Due, Trying
  <2>3. CASE pos[p].at = "sent"
    <3>1. (Waiting(f)' => Waiting(f)) /\ (Trying(Bpp)' => Trying(Bpp))
      BY <1>0, <2>1, <2>3, <2>5 DEF Waiting, Trying
    <3> QED
      BY <1>0, <2>1, <2>2, <3>1 DEF EofAccounted, OneIf
  <2>4. CASE pos[p].at = "noslot"
    <3>1. Trying(p) /\ (p = f => Waiting(f))
      BY <2>4 DEF Trying, Waiting
    <3>2. p = f => (Trying(Bpp)' <=> Trying(Bpp))
      BY <1>0, <2>5 DEF Trying
    <3> QED
      BY <1>0, <2>1, <2>2, <3>1, <3>2 DEF EofAccounted, OneIf
  <2> QED
    BY <2>1, <2>3, <2>4
<1> QED
  BY <1>2, <1>3, <1>4 DEF Send

LEMMA EofStep ==
    ASSUME NEW f, Filler = {f}, PortType, EofAccounted(f), NoEofYet, [Next]_vars
    PROVE  EofAccounted(f)'
<1> USE DEF PortType
<1>0. /\ Bpp \in Sender /\ f \in Sender /\ f # Bpp /\ f \in Filler
      /\ eos_recv_count \in Nat /\ eof_send_count \in Nat /\ MaxEos \in Nat
  BY OutputAssumption DEF Sender, EofAccounted
<1>1. ASSUME UNCHANGED <<processor_eof_state, eos_recv_count, eof_send_count>>,
             Waiting(f)' <=> Waiting(f), Trying(Bpp)' <=> Trying(Bpp), Due' <=> Due
      PROVE  EofAccounted(f)'
  BY <1>1 DEF EofAccounted, OneIf
<1>2. ASSUME UNCHANGED <<pos, processor_eof_state, eos_recv_count, eof_send_count>>
      PROVE  EofAccounted(f)'
  BY <1>2 DEF EofAccounted, OneIf, Waiting, Trying, Due
<1>3. ASSUME NEW a, NEW b, pos' = [pos EXCEPT ![Bpp] = At(a, b)],
             pos[Bpp].at \notin {"slot", "got", "noslot", "sent"},
             a \notin {"slot", "got", "noslot", "sent"},
             UNCHANGED <<processor_eof_state, eos_recv_count, eof_send_count>>
      PROVE  EofAccounted(f)'
  <2>1. pos'[Bpp].at = a /\ pos'[f] = pos[f]
    BY <1>0, <1>3 DEF PosType, At
  <2> QED
    BY <1>1, <1>3, <2>1 DEF Waiting, Trying, Due
<1>4. ASSUME NEW p \in Sender, Send(p) PROVE EofAccounted(f)'
  BY <1>4, EofSends
<1>5. CASE Wake \/ GetImageFails \/ GetImage \/ ReportImage
  <2>1. /\ pos[Bpp].at \notin {"slot", "got", "noslot", "sent"}
        /\ UNCHANGED <<processor_eof_state, eos_recv_count, eof_send_count>>
    BY <1>5 DEF Wake, GetImageFails, GetImage, ReportImage, eofVars
  <2>2. \E a \in BppPosition \ Position : \E b : pos' = [pos EXCEPT ![Bpp] = At(a, b)]
    BY <1>5 DEF Wake, GetImageFails, GetImage, ReportImage, BppPosition, Position
  <2> QED
    BY <1>3, <2>1, <2>2 DEF Position
<1>6. CASE EndWork
  <2>1. /\ pos[Bpp].at \in {"ended", "ended-last"}
        /\ UNCHANGED <<processor_eof_state, eos_recv_count, eof_send_count>>
    BY <1>6 DEF EndWork, eofVars
  <2>2. CASE NeedHandleEof(pos[Bpp].at = "ended-last")
    <3>1. pos' = [pos EXCEPT ![Bpp] = At("slot", NoBuf)]
      BY <1>6, <2>2 DEF EndWork
    <3>2. pos'[Bpp].at = "slot" /\ pos'[f] = pos[f]
      BY <1>0, <3>1 DEF PosType, At
    <3>3. processor_eof_state = "INIT_STATE" /\ eos_recv_count > 0
      BY <1>0, <2>2 DEF NeedHandleEof, NoEofYet
    <3>4. Due /\ ~Due' /\ ~Trying(Bpp) /\ Trying(Bpp)' /\ (Waiting(f)' <=> Waiting(f))
      BY <2>1, <3>2, <3>3 DEF Due, Trying, Waiting
    <3> QED
      BY <2>1, <3>4 DEF EofAccounted, OneIf
  <2>3. CASE ~NeedHandleEof(pos[Bpp].at = "ended-last")
    <3>1. pos' = [pos EXCEPT ![Bpp] = At("idle", NoBuf)]
      BY <1>6, <2>3 DEF EndWork, Rest
    <3> QED
      BY <1>3, <2>1, <3>1
  <2> QED
    BY <2>2, <2>3
<1>7. ASSUME NEW b \in Buf, Fill(f, b) PROVE EofAccounted(f)'
  <2>1. /\ pos[f].at = "idle" /\ pos'[f].at = "release" /\ pos'[Bpp] = pos[Bpp]
        /\ UNCHANGED <<processor_eof_state, eos_recv_count, eof_send_count>>
    BY <1>0, <1>7 DEF Fill, PosType, At, eofVars
  <2> QED
    BY <1>1, <2>1 DEF Waiting, Trying, Due, Filling
<1>8. CASE FinishFill(f)
  <2>1. /\ pos[f].at \in Filling
        /\ UNCHANGED <<processor_eof_state, eos_recv_count, eof_send_count>>
    BY <1>8, Finishes DEF eofVars
  <2>2. PICK a, b :
            /\ pos' = [pos EXCEPT ![f] = At(a, b)]
            /\ \/ a \in Filling
               \/ a \in {"slot", "idle"} /\ (a = "slot" <=> processor_eof_state = "WAIT_SLOT")
    BY <1>8, Finishes
  <2>3. pos'[f].at = a /\ pos'[Bpp] = pos[Bpp]
    BY <1>0, <2>2 DEF PosType, At
  <2>4. Waiting(f)' <=> Waiting(f)
    BY <2>1, <2>2, <2>3 DEF Waiting, Trying, Filling
  <2> QED
    BY <1>1, <2>1, <2>3, <2>4 DEF Trying, Due
<1>9. CASE IoctlStep \/ FlushBegin \/ PauseBegin \/ Resume \/ StopOrStart
  BY <1>2, <1>9 DEF IoctlStep, Reset, FlushOutPort, ClearExtInfo, PauseEnd, FlushBegin,
     PauseBegin, Resume, StopOrStart, eofVars
<1>10. CASE SubmitEos
  <2>1. /\ processor_eof_state' = "INIT_STATE" /\ eos_recv_count' = eos_recv_count + 1
        /\ eos_recv_count < MaxEos /\ eof_send_count' = eof_send_count /\ pos' = pos
    BY <1>10 DEF SubmitEos
  <2>2. (Waiting(f)' => Waiting(f)) /\ (Trying(Bpp)' <=> Trying(Bpp))
    BY <2>1 DEF Waiting, Trying
  <2> QED
    BY <1>0, <2>1, <2>2 DEF EofAccounted, OneIf
<1>11. ASSUME NEW b \in Buf, NEW last \in BOOLEAN, Emit(b, last) PROVE EofAccounted(f)'
  BY <1>2, <1>11 DEF Emit
<1>12. CASE TakeEos \/ LastFrame \/ NeedArrange \/ Rebind \/ UNCHANGED vars
  BY <1>2, <1>12 DEF TakeEos, LastFrame, NeedArrange, Rebind, vars, eofVars
<1> HIDE DEF PortType, vars
<1> QED
  BY <1>0, <1>4, <1>5, <1>6, <1>7, <1>8, <1>9, <1>10, <1>11, <1>12
  DEF Next, Thread, FillStep

\* With one filling thread the client gets at most one end of stream for each it
\* submitted, although the processor thread and the fill each read
\* processor_eof_state and write it again without a lock (processor_try_send_eof,
\* channel_fill_this_frame), and a new stream may reset it at any moment.
THEOREM EofOnceCorrect ==
    ASSUME NEW f, Filler = {f}
    PROVE  Spec => []EofOnce
<1>1. EofAccounted(f) => EofOnce
  BY DEF EofAccounted, EofOnce, OneIf
<1>2. PortInv /\ EofAccounted(f) /\ NoEofYet /\ [Next]_vars => EofAccounted(f)' /\ NoEofYet'
  BY EofStep, NoEofStep DEF PortInv, EofAccounted
<1>3. Init => EofAccounted(f) /\ NoEofYet
  BY EofInit
<1> QED
  BY <1>1, <1>2, <1>3, PortAlways, PTL DEF Spec
=============================================================================
