----------------------------- MODULE OutputPort -----------------------------
(***************************************************************************)
(* The output port of a decoder channel whose buffers are the decoder's    *)
(* own frame stores (PATH_MODE_NATIVE).  A buffer the client fills is      *)
(* QUEUED in yuv_queue; the firmware decodes into it and marks it          *)
(* WAIT_REPORT; the processor thread reads the image and reports it to the *)
(* client.  The end of stream takes a queued buffer of its own.            *)
(*                                                                         *)
(* Four parties act at once: the processor thread, the client's calls of   *)
(* channel_fill_this_frame (which hold no mutex), the one ioctl that holds *)
(* chan_mutex, and the firmware's callbacks.  Each is split where it takes *)
(* yuv_lock and between its accesses to a flag that another party writes.  *)
(*                                                                         *)
(* A message to the client is modelled by what it gives the client; how    *)
(* the messages themselves travel is MsgQueue's subject.                   *)
(***************************************************************************)
EXTENDS Integers, Sequences, FiniteSets, SequencesExt, Lists

CONSTANTS
    Buf,            \* output buffers, bound to the channel
    Filler,         \* client threads that fill
    Bpp,            \* the processor thread
    NoBuf,
    Ops,            \* which of AllOps the client and the stream make happen
    LastFrameFails, \* the firmware may report REPORT_LAST_FRAME_FAIL
    MaxImages,      \* bound on the images of a run
    MaxEos          \* bound on the end-of-stream markers of a run;
                    \* eof_send_count stays at MaxEos + 1 once it is there

AllOps == {"flush", "eos", "pause", "stop", "resize", "refill", "next"}

ASSUME OutputAssumption ==
    /\ IsFiniteSet(Buf)
    /\ Bpp \notin Filler /\ NoBuf \notin Buf
    /\ Ops \subseteq AllOps
    /\ LastFrameFails \in BOOLEAN
    /\ MaxImages \in Nat /\ MaxEos \in Nat

Sender == Filler \cup {Bpp}         \* who may report the end of stream
NoImage == 0                        \* images are numbered from 1

VARIABLES
    status,                 \* of each buffer
    image_id,               \* the buffer records an image to release
    yuv_queue, yuv_use_cnt,
    output_flush_pending, pause_pending, recfg_flag, reset_pending,
    dfs_alloc_flag,
    channel_state,
    inst_work,              \* the processor's inst_state = BPP_INST_WORK
    eos_in_list,
    decoder_eof_state, processor_eof_state,
    last_frame_image_id, last_processor_got_image_id,
    eos_recv_count, eof_send_count,
    pos,                    \* what each sender is doing, and with which buffer
    ctl,                    \* the ioctl that holds chan_mutex
    images,                 \* decoded, not yet read; each [buf, id, last]
    emitted,                \* images so far
    lent,                   \* images read and not yet released
    wiped,                  \* history: those whose record a fill has wiped
    draining,               \* the firmware has taken the end-of-stream marker
    held,                   \* buffers the client may use
    flushes, pauses,        \* requests that await an answer
    owed                    \* buffers in use when the flush cleared the port

queueVars == <<status, yuv_queue, yuv_use_cnt>>
pendingVars == <<output_flush_pending, pause_pending, flushes, pauses>>
eofVars == <<decoder_eof_state, processor_eof_state, last_frame_image_id,
             last_processor_got_image_id, eos_recv_count, eof_send_count>>
stateVars == <<channel_state, inst_work, reset_pending>>
sizeVars == <<recfg_flag, dfs_alloc_flag>>
firmwareVars == <<images, emitted, draining, eos_in_list>>
vars == <<queueVars, image_id, pendingVars, eofVars, stateVars, sizeVars,
          firmwareVars, lent, wiped, pos, ctl, held, owed>>

At(p, b) == [at |-> p, buf |-> b]
Rest == At("idle", NoBuf)

Linked == ToSet(yuv_queue)
InUse(b) == status[b] \in {"USING", "WAIT_REPORT"}

Init ==
    /\ status = [b \in Buf |-> "IDLE"]
    /\ image_id = [b \in Buf |-> FALSE]
    /\ yuv_queue = <<>>
    /\ yuv_use_cnt = 0
    /\ output_flush_pending = FALSE
    /\ pause_pending = FALSE
    /\ recfg_flag = FALSE
    /\ reset_pending = FALSE
    /\ dfs_alloc_flag = "ALREADY_ALLOC"
    /\ channel_state = "WORK"
    /\ inst_work = TRUE
    /\ eos_in_list = FALSE
    /\ decoder_eof_state = "INIT_STATE"
    /\ processor_eof_state = "INIT_STATE"
    /\ last_frame_image_id = NoImage
    /\ last_processor_got_image_id = NoImage
    /\ eos_recv_count = 0
    /\ eof_send_count = 0
    /\ pos = [p \in Sender |-> Rest]
    /\ ctl = "idle"
    /\ images = <<>>
    /\ emitted = 0
    /\ lent = {}
    /\ wiped = {}
    /\ draining = FALSE
    /\ held = Buf
    /\ flushes = 0
    /\ pauses = 0
    /\ owed = {}

-----------------------------------------------------------------------------
(* Reporting a buffer: processor_report_frame, under yuv_lock.             *)

LastOut_Bug(cnt) == TRUE
LastOut_Never(cnt) == FALSE
LastOut(cnt) == cnt = 0

\* Once nothing is in use, a pending flush and a pending pause are answered.
AnswerPending_Bug(idle) ==
    /\ UNCHANGED <<output_flush_pending, pause_pending>>
    /\ flushes' = IF idle /\ output_flush_pending THEN flushes - 1 ELSE flushes
    /\ pauses' = IF idle /\ pause_pending THEN pauses - 1 ELSE pauses
AnswerPending(idle) ==
    /\ output_flush_pending' = (output_flush_pending /\ ~idle)
    /\ pause_pending' = (pause_pending /\ ~idle)
    /\ flushes' = IF idle /\ output_flush_pending THEN flushes - 1 ELSE flushes
    /\ pauses' = IF idle /\ pause_pending THEN pauses - 1 ELSE pauses

Recorded_Bug(eof) == FALSE
Recorded(eof) == ~eof /\ ~output_flush_pending     \* ext_info.PP_EXT.image_id

Dropped_Bug(cnt) == cnt
Dropped(cnt) == IF cnt > 0 THEN cnt - 1 ELSE 0

Unlinked_Bug(b) == yuv_queue
Unlinked(b) == Keep(yuv_queue, Buf \ {b})           \* list_del

\* b is linked: only linked buffers are USING or WAIT_REPORT (OnePlace).
ReportFrame(b, eof) ==
    /\ b \in Linked
    /\ status' = [status EXCEPT ![b] = "IDLE"]
    /\ yuv_queue' = Unlinked(b)
    /\ yuv_use_cnt' = Dropped(yuv_use_cnt)
    /\ image_id' = [image_id EXCEPT ![b] = Recorded(eof)]
    /\ held' = held \cup {b}
    /\ owed' = owed \ {b}
    /\ AnswerPending(LastOut(yuv_use_cnt'))

-----------------------------------------------------------------------------
(* processor_try_send_eof, by the processor thread or by a filler.         *)

Free == {i \in DOMAIN yuv_queue : status[yuv_queue[i]] = "QUEUED"}

\* processor_get_frame: the first queued buffer of the list.
GetFrame(p) ==
    /\ pos[p].at = "slot"
    /\ ~recfg_flag
    /\ \E i \in Free :
        /\ \A j \in Free : i <= j
        /\ status' = [status EXCEPT ![yuv_queue[i]] = "USING"]
        /\ pos' = [pos EXCEPT ![p] = At("got", yuv_queue[i])]
    /\ yuv_use_cnt' = yuv_use_cnt + 1
    /\ UNCHANGED <<yuv_queue, image_id, pendingVars, eofVars, stateVars,
                   sizeVars, firmwareVars, lent, wiped, ctl, held, owed>>

GetFrameFails(p) ==
    /\ pos[p].at = "slot"
    /\ recfg_flag \/ Free = {}
    /\ pos' = [pos EXCEPT ![p] = At("noslot", NoBuf)]
    /\ UNCHANGED <<queueVars, image_id, pendingVars, eofVars, stateVars,
                   sizeVars, firmwareVars, lent, wiped, ctl, held, owed>>

ReportEof(p) ==
    /\ pos[p].at = "got"
    /\ ReportFrame(pos[p].buf, TRUE)
    /\ processor_eof_state' = "GOT_SLOT"
    /\ eof_send_count' = IF eof_send_count > MaxEos THEN eof_send_count
                         ELSE eof_send_count + 1
    /\ pos' = [pos EXCEPT ![p] = At("sent", NoBuf)]
    /\ UNCHANGED <<decoder_eof_state, last_frame_image_id,
                   last_processor_got_image_id, eos_recv_count, stateVars,
                   sizeVars, firmwareVars, lent, wiped, ctl>>

Outcome_Bug(p) == "INIT_STATE"
Outcome(p) == IF pos[p].at = "sent" THEN "REPORT_SUCCESS" ELSE "WAIT_SLOT"

\* What became of it is written without the lock.
EndSend(p) ==
    /\ pos[p].at \in {"sent", "noslot"}
    /\ processor_eof_state' = Outcome(p)
    /\ pos' = [pos EXCEPT ![p] = Rest]
    /\ UNCHANGED <<queueVars, image_id, pendingVars, decoder_eof_state,
                   last_frame_image_id, last_processor_got_image_id,
                   eos_recv_count, eof_send_count, stateVars, sizeVars,
                   firmwareVars, lent, wiped, ctl, held, owed>>

-----------------------------------------------------------------------------
(* processor_thread.  It wakes when called or after 100 ms, so at any time. *)

Wake ==
    /\ pos[Bpp].at = "idle"
    /\ inst_work /\ channel_state = "WORK"
    /\ pos' = [pos EXCEPT ![Bpp] = At("image", NoBuf)]
    /\ UNCHANGED <<queueVars, image_id, pendingVars, eofVars, stateVars,
                   sizeVars, firmwareVars, lent, wiped, ctl, held, owed>>

\* processor_get_image; the position keeps whether it was the last there is
\* (is_cur_last) or the last of the stream (is_last_frame).
GetImage ==
    /\ pos[Bpp].at = "image"
    /\ ~reset_pending
    /\ images # <<>>
    /\ LET im == Head(images) IN
        /\ pos' = [pos EXCEPT ![Bpp] =
                      At(IF im.last THEN "report-last"
                         ELSE IF Tail(images) = <<>> THEN "report-end"
                         ELSE "report", im.buf)]
        /\ last_processor_got_image_id' = im.id
        /\ lent' = lent \cup {im.buf}
    /\ images' = Tail(images)
    /\ UNCHANGED <<queueVars, image_id, pendingVars, decoder_eof_state,
                   processor_eof_state, last_frame_image_id, eos_recv_count,
                   eof_send_count, stateVars, sizeVars, emitted, draining,
                   eos_in_list, wiped, ctl, held, owed>>

GetImageFails ==
    /\ pos[Bpp].at = "image"
    /\ reset_pending \/ images = <<>>
    /\ pos' = [pos EXCEPT ![Bpp] = At("ended", NoBuf)]
    /\ UNCHANGED <<queueVars, image_id, pendingVars, eofVars, stateVars,
                   sizeVars, firmwareVars, lent, wiped, ctl, held, owed>>

ReportImage ==
    /\ pos[Bpp].at \in {"report", "report-end", "report-last"}
    /\ ReportFrame(pos[Bpp].buf, FALSE)
    /\ pos' = [pos EXCEPT ![Bpp] =
                  At(CASE pos[Bpp].at = "report" -> "image"
                       [] pos[Bpp].at = "report-end" -> "ended"
                       [] pos[Bpp].at = "report-last" -> "ended-last", NoBuf)]
    /\ UNCHANGED <<eofVars, stateVars, sizeVars, firmwareVars, lent, wiped,
                   ctl>>

NeedHandleEof(last) ==
    /\ processor_eof_state = "INIT_STATE"
    /\ \/ last
       \/ decoder_eof_state = "REPORT_FAILED"
       \/ /\ decoder_eof_state = "REPORT_ID"
          /\ last_frame_image_id = last_processor_got_image_id

\* No more images: a size change waiting for that is reported, and the end of
\* stream is sent if it is due.
EndWork ==
    /\ pos[Bpp].at \in {"ended", "ended-last"}
    /\ recfg_flag' = (recfg_flag \/ dfs_alloc_flag = "WAIT_CLEAR")
    /\ dfs_alloc_flag' = IF dfs_alloc_flag = "WAIT_CLEAR" THEN "WAIT_INSERT"
                         ELSE dfs_alloc_flag
    /\ pos' = [pos EXCEPT ![Bpp] =
                  IF NeedHandleEof(pos[Bpp].at = "ended-last")
                  THEN At("slot", NoBuf) ELSE Rest]
    /\ UNCHANGED <<queueVars, image_id, pendingVars, eofVars, stateVars,
                   firmwareVars, lent, wiped, ctl, held, owed>>

-----------------------------------------------------------------------------
(* channel_fill_this_frame.  A buffer that is still linked is refused and  *)
(* nothing changes; the client here fills only buffers it holds.           *)

Fill(f, b) ==
    /\ pos[f].at = "idle"
    /\ b \in held
    /\ flushes = 0 \/ "refill" \in Ops
    /\ status' = [status EXCEPT ![b] = "QUEUED"]
    /\ yuv_queue' = Append(yuv_queue, b)
    /\ held' = held \ {b}
    /\ pos' = [pos EXCEPT ![f] = At("release", b)]
    /\ UNCHANGED <<yuv_use_cnt, image_id, pendingVars, eofVars, stateVars,
                   sizeVars, firmwareVars, lent, wiped, ctl, owed>>

\* The buffer is linked; what follows holds no lock.  The image it recorded goes
\* back to the firmware, the record is cleared, and if the end of stream waits
\* for a buffer this thread sends it.
Step(f, p) == pos' = [pos EXCEPT ![f] = At(p, pos[f].buf)]

TestImage(f) ==
    /\ pos[f].at = "release"
    /\ Step(f, IF image_id[pos[f].buf] THEN "give" ELSE "check")
    /\ UNCHANGED <<queueVars, image_id, pendingVars, eofVars, stateVars,
                   sizeVars, firmwareVars, lent, wiped, ctl, held, owed>>

\* PP_CMD_RELEASE_IMAGE reads the record again: one that was cleared in between
\* releases nothing.
ReleaseImage(f) ==
    /\ pos[f].at = "give"
    /\ lent' = IF image_id[pos[f].buf] THEN lent \ {pos[f].buf} ELSE lent
    /\ Step(f, "forget")
    /\ UNCHANGED <<queueVars, image_id, pendingVars, eofVars, stateVars,
                   sizeVars, firmwareVars, wiped, ctl, held, owed>>

OnItsWay(b) == /\ pos[Bpp].at \in {"report", "report-end", "report-last"}
                /\ pos[Bpp].buf = b

\* By now the buffer may have been decoded into and reported again: then it is
\* the record of the next image that is cleared.
ForgetImage(f) ==
    /\ pos[f].at = "forget"
    /\ LET b == pos[f].buf IN
        /\ image_id' = [image_id EXCEPT ![b] = FALSE]
        /\ wiped' = IF image_id[b] /\ b \in lent /\ ~OnItsWay(b)
                    THEN wiped \cup {b} ELSE wiped
    /\ Step(f, "check")
    /\ UNCHANGED <<queueVars, pendingVars, eofVars, stateVars, sizeVars,
                   firmwareVars, lent, ctl, held, owed>>

CheckEof(f) ==
    /\ pos[f].at = "check"
    /\ pos' = [pos EXCEPT ![f] = IF processor_eof_state = "WAIT_SLOT"
                                 THEN At("slot", NoBuf) ELSE Rest]
    /\ UNCHANGED <<queueVars, image_id, pendingVars, eofVars, stateVars,
                   sizeVars, firmwareVars, lent, wiped, ctl, held, owed>>

FinishFill(f) == TestImage(f) \/ ReleaseImage(f) \/ ForgetImage(f) \/ CheckEof(f)

-----------------------------------------------------------------------------
(* The ioctls that hold chan_mutex.                                        *)

\* channel_flush_inst: unless a size change asked for it the channel is reset
\* first.
FlushBegin ==
    /\ "flush" \in Ops \/ recfg_flag
    /\ ctl = "idle" /\ flushes = 0
    /\ flushes' = 1
    /\ IF recfg_flag
       THEN ctl' = "clear" /\ UNCHANGED stateVars
       ELSE /\ ctl' = "reset"
            /\ reset_pending' = TRUE
            /\ inst_work' = FALSE
            /\ UNCHANGED channel_state
    /\ UNCHANGED <<queueVars, image_id, output_flush_pending, pause_pending,
                   pauses, eofVars, sizeVars, firmwareVars, lent, wiped, pos,
                   held, owed>>

\* channel_reset_inst.  processor_stop_thread waits until thread_state is not
\* RUNNING, but for one second at most, and processor_ctrl_thread_wake_up can
\* overwrite RUNNING: the wait may end while the thread works.  The firmware
\* drops the stream it holds and keeps the frames it has decoded (KeepFSP).
Reset ==
    /\ ctl = "reset"
    /\ ctl' = "clear"
    /\ inst_work' = TRUE
    /\ reset_pending' = FALSE
    /\ draining' = FALSE
    /\ UNCHANGED <<queueVars, image_id, pendingVars, eofVars, channel_state,
                   sizeVars, images, emitted, eos_in_list, lent, wiped, pos,
                   held, owed>>

Kept_Bug(b) == status[b] = "USING"
Kept(b) == InUse(b)

\* channel_flush_out_port, under yuv_lock.
FlushOutPort ==
    /\ ctl = "clear"
    /\ LET back == {b \in Linked : ~Kept(b)} IN
        /\ status' = [b \in Buf |-> IF b \in back THEN "IDLE" ELSE status[b]]
        /\ yuv_queue' = Keep(yuv_queue, Linked \ back)
        /\ held' = held \cup back
        /\ owed' = Linked \ back
    /\ output_flush_pending' = (output_flush_pending \/ ~LastOut(yuv_use_cnt))
    /\ flushes' = IF LastOut(yuv_use_cnt) THEN flushes - 1 ELSE flushes
    /\ recfg_flag' = FALSE
    /\ ctl' = "forget"
    /\ UNCHANGED <<yuv_use_cnt, image_id, pause_pending, pauses, eofVars,
                   stateVars, dfs_alloc_flag, firmwareVars, lent, wiped, pos>>

ClearExtInfo ==
    /\ ctl = "forget"
    /\ image_id' = [b \in Buf |-> FALSE]
    /\ ctl' = "idle"
    /\ UNCHANGED <<queueVars, pendingVars, eofVars, stateVars, sizeVars,
                   firmwareVars, lent, wiped, pos, held, owed>>

\* channel_pause_inst reads yuv_use_cnt without yuv_lock, and acts on it later.
PauseBegin ==
    /\ "pause" \in Ops
    /\ ctl = "idle" /\ channel_state = "WORK"
    /\ channel_state' = "PAUSE"
    /\ pauses' = 1
    /\ ctl' = IF yuv_use_cnt = 0 THEN "pause-done" ELSE "pause-wait"
    /\ UNCHANGED <<queueVars, image_id, output_flush_pending, pause_pending,
                   flushes, eofVars, inst_work, reset_pending, sizeVars,
                   firmwareVars, lent, wiped, pos, held, owed>>

PauseEnd ==
    /\ ctl \in {"pause-done", "pause-wait"}
    /\ pause_pending' = (pause_pending \/ ctl = "pause-wait")
    /\ pauses' = IF ctl = "pause-done" THEN pauses - 1 ELSE pauses
    /\ ctl' = "idle"
    /\ UNCHANGED <<queueVars, image_id, output_flush_pending, flushes, eofVars,
                   stateVars, sizeVars, firmwareVars, lent, wiped, pos, held,
                   owed>>

\* channel_resume_inst forgets a pause that is still pending.
Overridden_Bug == pause_pending
Overridden == FALSE
Resume ==
    /\ ctl = "idle" /\ channel_state = "PAUSE"
    /\ channel_state' = "WORK"
    /\ pause_pending' = Overridden
    /\ pauses' = 0
    /\ UNCHANGED <<queueVars, image_id, output_flush_pending, flushes, eofVars,
                   inst_work, reset_pending, sizeVars, firmwareVars, lent,
                   wiped, pos, ctl, held, owed>>

\* channel_stop_inst, with processor_stop_inst; channel_start_inst.
StopOrStart ==
    /\ "stop" \in Ops
    /\ ctl = "idle"
    /\ \/ /\ channel_state # "IDLE"
          /\ channel_state' = "IDLE"
          /\ inst_work' = FALSE
       \/ /\ channel_state # "WORK"
          /\ channel_state' = "WORK"
          /\ inst_work' = TRUE
    /\ UNCHANGED <<queueVars, image_id, pendingVars, eofVars, reset_pending,
                   sizeVars, firmwareVars, lent, wiped, pos, ctl, held, owed>>

\* channel_empty_this_stream with VDEC_BUFFERFLAG_EOS.
SubmitEos ==
    /\ "eos" \in Ops
    /\ ctl = "idle"
    /\ ~eos_in_list
    /\ eos_recv_count < MaxEos
    /\ eos_in_list' = TRUE
    /\ decoder_eof_state' = "INIT_STATE"
    /\ processor_eof_state' = "INIT_STATE"
    /\ eos_recv_count' = eos_recv_count + 1
    /\ UNCHANGED <<queueVars, image_id, pendingVars, last_frame_image_id,
                   last_processor_got_image_id, eof_send_count, stateVars,
                   sizeVars, images, emitted, draining, lent, wiped, pos, ctl,
                   held, owed>>

-----------------------------------------------------------------------------
(* The firmware, as far as the code relies on it.  It decodes into queued  *)
(* buffers whose last image was released to it (BC_CHK_BUF), marks them    *)
(* (BC_REPORT_BUF: processor_ctrl_set_buffer_wait_report, under yuv_lock)  *)
(* and queues the image.  Unless the client sends the next stream before   *)
(* this one's end has come out, nothing is decoded after the last frame.   *)

MoreStream == \/ eos_in_list \/ draining
              \/ eof_send_count >= eos_recv_count
              \/ "next" \in Ops

Emit(b, last) ==
    /\ emitted < MaxImages
    /\ dfs_alloc_flag = "ALREADY_ALLOC"
    /\ b \in Linked \ lent /\ status[b] = "QUEUED"
    /\ MoreStream
    /\ last => draining
    /\ status' = [status EXCEPT ![b] = "WAIT_REPORT"]
    /\ yuv_use_cnt' = yuv_use_cnt + 1
    /\ images' = Append(images, [buf |-> b, id |-> emitted + 1, last |-> last])
    /\ emitted' = emitted + 1
    /\ decoder_eof_state' = IF last THEN "REPORT_SUCCESS" ELSE decoder_eof_state
    /\ draining' = (draining /\ ~last)
    /\ UNCHANGED <<yuv_queue, image_id, pendingVars, processor_eof_state,
                   last_frame_image_id, last_processor_got_image_id,
                   eos_recv_count, eof_send_count, stateVars, sizeVars,
                   eos_in_list, lent, wiped, pos, ctl, held, owed>>

TakeEos ==
    /\ eos_in_list /\ ~draining
    /\ channel_state = "WORK"
    /\ eos_in_list' = FALSE
    /\ draining' = TRUE
    /\ UNCHANGED <<queueVars, image_id, pendingVars, eofVars, stateVars,
                   sizeVars, images, emitted, lent, wiped, pos, ctl, held,
                   owed>>

\* EVNT_LAST_FRAME after the last image was queued: its id, or a failure.
LastFrame ==
    /\ draining
    /\ draining' = FALSE
    /\ \/ /\ emitted > 0
          /\ decoder_eof_state' = "REPORT_ID"
          /\ last_frame_image_id' = emitted
       \/ /\ LastFrameFails
          /\ decoder_eof_state' = "REPORT_FAILED"
          /\ UNCHANGED last_frame_image_id
    /\ UNCHANGED <<queueVars, image_id, pendingVars, processor_eof_state,
                   last_processor_got_image_id, eos_recv_count, eof_send_count,
                   stateVars, sizeVars, images, emitted, eos_in_list, lent,
                   wiped, pos, ctl, held, owed>>

\* EVNT_NEED_ARRANGE, and the task that allocates for the new size.
NeedArrange ==
    /\ "resize" \in Ops
    /\ dfs_alloc_flag = "ALREADY_ALLOC"
    /\ dfs_alloc_flag' = "WAIT_CLEAR"
    /\ image_id' = [b \in Buf |-> FALSE]
    /\ UNCHANGED <<queueVars, pendingVars, eofVars, stateVars, recfg_flag,
                   firmwareVars, lent, wiped, pos, ctl, held, owed>>

\* After its flush the client binds buffers anew and fills the first.
Rebind ==
    /\ dfs_alloc_flag = "WAIT_INSERT"
    /\ ~recfg_flag /\ ctl = "idle" /\ held = Buf
    /\ dfs_alloc_flag' = "ALREADY_ALLOC"
    /\ lent' = {} /\ wiped' = {}
    /\ UNCHANGED <<queueVars, image_id, pendingVars, eofVars, stateVars,
                   recfg_flag, firmwareVars, pos, ctl, held, owed>>

-----------------------------------------------------------------------------
Send(p) == GetFrame(p) \/ GetFrameFails(p) \/ ReportEof(p) \/ EndSend(p)
Thread == Wake \/ GetImage \/ GetImageFails \/ ReportImage \/ EndWork \/ Send(Bpp)
FillStep(f) == FinishFill(f) \/ Send(f)
IoctlStep == Reset \/ FlushOutPort \/ ClearExtInfo \/ PauseEnd

Next ==
    \/ Thread
    \/ \E f \in Filler : FillStep(f) \/ \E b \in Buf : Fill(f, b)
    \/ IoctlStep
    \/ FlushBegin \/ PauseBegin \/ Resume \/ StopOrStart \/ SubmitEos
    \/ \E b \in Buf, last \in BOOLEAN : Emit(b, last)
    \/ TakeEos \/ LastFrame \/ NeedArrange \/ Rebind

\* The thread polls every 100 ms; an ioctl that was entered goes on.
Fairness ==
    /\ WF_vars(Thread)
    /\ WF_vars(IoctlStep)
    /\ \A f \in Filler : WF_vars(FillStep(f))

Spec == Init /\ [][Next]_vars /\ Fairness

-----------------------------------------------------------------------------
Position == {"idle", "slot", "got", "sent", "noslot"}
Filling == {"release", "give", "forget", "check"}
BppPosition == Position \cup {"image", "report", "report-end", "report-last",
                              "ended", "ended-last"}

\* The values of the port's state.
TypeOK ==
    /\ status \in [Buf -> {"IDLE", "QUEUED", "USING", "WAIT_REPORT"}]
    /\ image_id \in [Buf -> BOOLEAN]
    /\ yuv_queue \in Seq(Buf)
    /\ yuv_use_cnt \in 0 .. Cardinality(Buf)
    /\ dfs_alloc_flag \in {"ALREADY_ALLOC", "WAIT_CLEAR", "WAIT_INSERT"}
    /\ {output_flush_pending, pause_pending, recfg_flag, reset_pending,
        inst_work, eos_in_list, draining} \subseteq BOOLEAN
    /\ channel_state \in {"IDLE", "WORK", "PAUSE"}
    /\ decoder_eof_state \in {"INIT_STATE", "REPORT_SUCCESS", "REPORT_ID",
                              "REPORT_FAILED"}
    /\ processor_eof_state \in {"INIT_STATE", "WAIT_SLOT", "GOT_SLOT",
                                "REPORT_SUCCESS"}
    /\ \A f \in Filler : pos[f].at \in Position \cup Filling
    /\ pos[Bpp].at \in BppPosition
    /\ ctl \in {"idle", "reset", "clear", "forget", "pause-done", "pause-wait"}
    /\ lent \subseteq Buf /\ wiped \subseteq Buf /\ held \subseteq Buf /\ owed \subseteq Buf

\* yuv_use_cnt counts exactly the linked buffers that are USING or WAIT_REPORT:
\* processor_get_frame, set_buffer_wait_report and report_frame keep it by hand,
\* and a flush or a pause is answered when it reaches zero.
UseCount == yuv_use_cnt = Cardinality({b \in Linked : InUse(b)})

\* A buffer is with the client or linked once, never both: not given back twice
\* by a report and a flush, nor lost between them.
OnePlace ==
    /\ Cardinality(Linked) = Len(yuv_queue)
    /\ Linked = Buf \ held

\* A flush is answered at most once, and none that was not asked: by the ioctl
\* itself or by the report of the last buffer in use, never by both.
FlushAnsweredOnce == flushes >= 0

\* So is a pause, unless the channel is started without a resume:
\* channel_start_inst leaves pause_pending set.
PauseAnsweredOnce == pauses >= 0

\* FLUSH_OUTPUT_DONE is sent only when every buffer that was in the port when
\* the flush cleared it has been returned.
FlushAnsweredIsDone == [][flushes' < flushes => owed' = {}]_vars

\* The client gets at most one end of stream for each it submitted, whoever
\* sends it: the thread at once or a fill later.
EofOnce == eof_send_count <= eos_recv_count

\* An image that was read is released when its buffer is filled again: it is
\* with the client or on its way there, or about to be released; or its record
\* was wiped by a fill that had released the image before it and was late to
\* clear the record (channel.c:1757).  Such an image is never released, and
\* this is the one way to lose it.
LentAccounted ==
    \A b \in lent \ wiped :
        \/ b \in held /\ image_id[b]
        \/ OnItsWay(b)
        \/ \E f \in Filler : pos[f] \in {At("release", b), At("give", b)} /\ image_id[b]

\* A flush that has to wait is answered, as long as the channel works and the
\* client fills nothing until then.
FlushCompletes == output_flush_pending ~> ~output_flush_pending

=============================================================================
