# Verification of the HiKey960 video and display drivers

TLA+ models of the control logic in this repository, TLC configurations that
check them on small instances, and proofs, checked by TLAPS, of the properties
that matter most.  Their subject is the H.264/HEVC decoder driver in
`src/drivers-import/vcodec/hi_vcodec/vdec/omxvdec` (below: `omxvdec/`): the
channel through which every stream packet and every decoded frame travels, the
task that gives it its frame stores, and the device that creates and releases
channels; and the device side of the encoder driver in
`src/drivers-import/vcodec/hi_vcodec/venc/drv/venc` (below: `venc/`).

## 1. The system

The repository carries out-of-tree drivers for the HiKey960 board (Kirin 960)
and what is needed to run them on a current kernel.

```
   client threads:   control      fill/empty      GET_MSG loop
                        |              |              |
   omxvdec.c         ioctl ---- chan_mutex ----   no mutex
                        |              |              |
   channel.c       input port     output port    message queue (message.c)
                        |           |    ^            ^
                     raw_lock    yuv_lock \___________|  *_DONE messages
                        |           |    |
   decoder_vfmw.c   stream      frame   events      processor_bpp.c
                   callbacks  callbacks    \________ processor thread
                        |           |
                  decoder firmware (vendor code, compiled)

   omxvdec.c   open, close      task.c: one task for all channels, called by the
               (omxvdec_mutex)  firmware's need-arrange event
   channel.c   the list of channels and its look-ups (channel_lock)
   regulator.c clock and regulator of the decoder (g_RegulatorMut)
```

### Inventory

| Component | Source | State | Operations | Hard behaviour | Correct when |
|---|---|---|---|---|---|
| Message queue | `omxvdec/message.c` | free and pending node lists, `stop`, `quit`, the memory block | post, fetch with a 100 ms wait, stop, bounded wait for the acknowledgement, release | posters, readers and release at once; node reuse; release by time limit | nodes conserved, FIFO, own payload, readers told of the stop and gone before the memory is |
| Input port | `omxvdec/channel.c`, `decoder_vfmw.c` | `in_buf_table`, `raw_queue`, `raw_use_cnt`, `input_flush_pending`, `eos_in_list` | bind, unbind, empty, flush, end of stream; firmware takes and returns packets | ioctls under `chan_mutex`, firmware under `raw_lock` only | packets in order, buffer in one place, flush answered once and only when done |
| Output port | `channel.c`, `processor_bpp.c`, `decoder_vfmw.c` | `yuv_queue`, `yuv_use_cnt`, pending flags, two end-of-stream states, image records | fill, mark, read, report, end of stream, flush with reset, pause/resume, start/stop, size change | four parties, two of them without a mutex; flags read outside the lock they are written under | buffer in one place, count exact, flush and pause answered once, end of stream once and last, images released |
| Processor thread | `processor_bpp.c` | `thread_state`, `inst_state`, per-processor instances | wake up, stop, reset, release | test-and-set without a lock; one-second limit; `kthread_stop` | no work on a stopped instance; thread gone before its memory |
| Frame store task | `task.c`, `channel.c`, `processor_bpp.c` | `dfs_alloc_flag`, task state | allocate for a new size, bind, insert, activate | a chain of six states written by five parties | every size change reaches ALREADY_ALLOC again |
| Channel table | `channel.c` | channel list, `channel_buf`, three look-ups | create, find, release | look-ups race with release | no look-up returns a released channel |
| Device | `omxvdec.c` | `open_count`, the list of channels, their files | open, close, ioctl dispatch | list walked with its lock dropped; creations beside releases and a close | a close leaves nothing, the last one takes firmware and power down once |
| Decoder wrapper | `decoder_vfmw.c` | decoder instance, event state | create, control, callbacks, events | callbacks of a firmware thread | as far as the ports rely on it |
| Memory nodes | `omxvdec/platform/kirin/memory.c` | node table | allocate, map, unmap, release, look up | partial failure | freed the way it was allocated, once |
| Clock and regulator | `omxvdec/platform/kirin/regulator.c` | power flag, clock rate | enable, disable, set rate | partial failure, order | enabled resources are balanced |
| Encoder driver | `venc/venc_*.c`, `drv_venc*.S` | open count, channel slots, imported buffers, power | open, close, ioctl | handles looked up by value; descriptors of several processes; failures that are ignored; two disables | every context, buffer and enable has one owner and one release |
| Display controller | `kirin960/kirin_drm_dss.c`, `kirin_drm_drv.c` | power flag, clocks, vblank | power up, CRTC enable/disable, interrupt | clock failure half way | clocks balanced |
| DSI host, panel | `kirin960/dw_drm_dsi.c`, `panel/` | enabled flag | enable, disable, mode set | order with the panel | enabled once per disable |
| HDMI watchdog | `scripts/hikey960-hdmi-watchdog.sh` | counters of a polling loop | poll, re-arm | values of different moments; failed reads | re-arms when the link is down |
| Firmware, register programming, proc/config support, tests, build files | | | | | not modelled (section 8) |

`PROJECT.json` lists the same components with what is and is not modelled, and
under `hazards` each place in the code where something is hard to test, with the
properties that would notice.

### How the parts of a channel interact

* A client thread empties stream buffers into the input port and fills output
  buffers; both calls return at once.  Every completion is a message that the
  client's message thread fetches with GET_MSG.
* The firmware's thread calls `decoder_get_stream` and `decoder_release_stream`
  (input), and `decoder_ext_buffer_handler` and `decoder_ext_event_handler`
  (output).
* The processor thread reads decoded images and reports their buffers; after the
  last one it sends the end of stream, which needs a queued buffer of its own. If
  there is none, the next fill sends it, on the client's thread.
* Flush, pause, resume, start and stop run under `chan_mutex`, one at a time.
  They find buffers in use by the firmware or the thread, and leave a *pending*
  flag: whoever finishes with the last buffer sends the answer.  Most hazards of
  the channel are about this hand-over.
* When the firmware meets a new picture size it stops and asks for frame stores.
  `dfs_alloc_flag` then goes from its event to the task, to the processor thread,
  to the client's bind and fill calls, and back; each party changes it without a
  lock when it finds it in the state that is its turn.
* Channels of several files share one firmware per world (normal and secure), one
  power switch, one task and one list.  Opens and closes exclude each other;
  creations and releases do not, neither each other nor a close.

## 2. Modules

| Module | What it is | Instances |
|---|---|---|
| `MsgChannel` | abstract: a bounded FIFO of messages that is closed once | implemented by `MsgQueue` |
| `MsgQueue` | `message.c` | `MCMsgQueue`, two cfgs |
| `MsgQueueProofs` | theorems about `MsgQueue` | |
| `StreamFifo` | abstract: packets are handed over in the order of submission | implemented by `InputPort` |
| `InputPort` | the stream side of `channel.c` and `decoder_vfmw.c` | `MCInputPort`, three cfgs |
| `InputPortProofs` | theorems about `InputPort`, with its types | |
| `OutputPort` | the frame side: `channel.c`, `processor_bpp.c`, `decoder_vfmw.c` | `MCOutputPort`, three cfgs |
| `OutputPortProofs` | theorems about `OutputPort` | |
| `Lists` | a kernel list from which a walk takes entries off; used by both ports | |
| `ListProofs` | lemmas about `Lists` and about sequences without repetitions; used by three proof modules | |
| `ProcessorThread` | the thread hand-shake of `processor_bpp.c`, with the order in which `channel.c` calls it | one cfg |
| `ProcessorThreadProofs` | a theorem about `ProcessorThread` | |
| `DfsTask` | the hand-over of the frame stores: `task.c` with what `channel.c`, `processor_bpp.c` and `decoder_vfmw.c` do with `dfs_alloc_flag` | `MCDfsTask` |
| `DfsTaskProofs` | theorems about `DfsTask` | |
| `OmxDevice` | files, channels, firmware and power: `omxvdec.c`, `channel.c`, `decoder_vfmw.c`, `regulator.c` | `MCOmxDevice` |
| `OmxDeviceProofs` | theorems about `OmxDevice` | |
| `VencDevice` | the encoder's device: `venc_platform.c`, `venc_regulator.c`, `venc_memory.c`, the channel calls of `drv_venc.S` and `drv_venc_efl.S` | `MCVencDevice` |
| `VencDeviceProofs` | theorems about `VencDevice` | |

The granularity is the same everywhere: what runs under a spinlock is one
action, and a function is split where it takes or leaves a lock, sleeps, or
reads a flag that another party writes without that lock.  Definitions named
`X_Bug`, `X_Never` and so on stand next to `X`: plausible mistakes, used to show
that a property notices them; no specification uses them.

### MsgQueue

| Code | Model |
|---|---|
| `queue->free`, `queue->head` | `free` (a set), `head` (a sequence) |
| node contents | `info[n].code`, `info[n].data`; a post without payload keeps the old `data` |
| `message_queue` | `Post`: one critical section; lost when stopped or no node is free |
| `message_dequeue` | `Enter`, `Woken`/`GiveUp` (the wait), `ReadStop` (outside the lock), `Pop` (inside), `SetQuit` |
| `message_stop`, `message_queue_deinit` | `StopQueue`, `Sleep` (10 ms, ten times at most), `Release`, `ClearDescriptor` |

A reader that runs on memory already freed is stopped there, as its behaviour is
undefined.  `FreedUnderReader` says when that can happen: only when the ten polls
of the release have run out without an acknowledgement.

### InputPort

`ent` is `in_buf_table` together with the end-of-stream entry `last_frame`;
`ctl` is the position of the one ioctl under `chan_mutex`.

| Code | Model |
|---|---|
| `channel_insert_addr_table`, `channel_delete_addr_table` | `Bind`, `Unbind` (copy, outside `raw_lock`), `Relink` (under it) |
| `channel_empty_this_stream` | `Empty`/`EmptyNoData`, `Insert`, `QueueEos`, `ReplyNoData` |
| `channel_flush_in_port` | `Flush` (under `raw_lock`), `ClearStream` (after it) |
| start, stop, pause, resume | `SwitchState` |
| `decoder_get_stream` | `BeginTake` (state check), `Take`/`TakeNothing` (under `raw_lock`) |
| `decoder_release_stream` | `Release`/`ReleaseUnknown` |
| client's message thread | `Receive` (external) |

`Disciplined` says whether the client uses only buffers it owns, and
`FreeWhileBusy` whether it frees buffers while others are in the port.  What a walk
of `raw_queue` leaves linked (`list_for_each_entry_safe` with `list_del`) is
`Keep(raw_queue, T)` of `Lists`, here and for `yuv_queue`; it is defined without
`SelectSeq`, of which the prover knows nothing.

### OutputPort

The path on which the firmware decodes into the client's buffers
(`PATH_MODE_NATIVE`).  `pos[p]` is what the processor thread or a filling thread
is doing and with which buffer, `ctl` the ioctl under `chan_mutex`.

| Code | Model |
|---|---|
| `channel_fill_this_frame` | `Fill` (under `yuv_lock`), then, without a lock and one by one, `TestImage`, `ReleaseImage` (reads the record again), `ForgetImage`, `CheckEof` |
| `processor_thread`, `processor_work_in_bypass_mode` | `Wake`, `GetImage`/`GetImageFails`, `ReportImage`, `EndWork` |
| `processor_try_send_eof` | `GetFrame`/`GetFrameFails`, `ReportEof`, `EndSend`; by the thread or a filler |
| `processor_report_frame` | `ReportFrame`, a conjunct of both reports |
| flush: `channel_flush_inst`, `channel_reset_inst`, `channel_flush_out_port`, `channel_clear_buf_ext_info` | `FlushBegin`, `Reset`, `FlushOutPort`, `ClearExtInfo` |
| `channel_pause_inst`, `channel_resume_inst` | `PauseBegin` (reads `yuv_use_cnt` without the lock), `PauseEnd`, `Resume` |
| `channel_start_inst`, `channel_stop_inst` | `StopOrStart` |
| end-of-stream packet | `SubmitEos` |
| firmware: mark and queue an image, take the marker, last-frame event, need-arrange event | `Emit`, `TakeEos`, `LastFrame`, `NeedArrange` |
| re-allocation after a size change | `Rebind`, one external step |

`Ops` names which of these the client and the stream make happen, so that a run
can ask its question of a smaller system.  `lent`, `wiped`, `held`, `flushes`,
`pauses` and `owed` are not in the code: they record what the firmware lent, whose
record `ForgetImage` cleared after a later report had written it, what the client
holds and what it was promised.  Nothing in the model depends on `wiped`.

### ProcessorThread

`tpc` is where the thread is, `wake[w]` where each of its two wakers is (the
firmware's event and the size-change task), `ctl` the call under way and its next
step.

| Code | Model |
|---|---|
| `processor_thread` | `Begin`, `Sleep`, `Rouse`, `Test`, `Work`/`GiveUpWork`, `Exit` |
| `processor_ctrl_thread_wake_up` | `WakeTest`, `WakeWrite` |
| `channel_start_inst`, pause, resume | `Start`, `PauseOrResume` |
| stop, reset, suspend, release | `BeginCall`, then the steps each consists of: `StopDecoder`, `Halt` (writes `inst_state`), `StopThread` (watches `thread_state`), `Restart`, `SuspendDecoder` |
| `channel_resume` | `ResumeSystem` |
| the rest of `channel_release_inst`, `processor_release_inst` | `Unlist`, `Detach`, `KthreadStop`, `Free` |

Suspend and resume come when user threads are frozen, so no ioctl is under way.
`OutputPort` models what the thread does with images and lets `Reset` go on while
the thread works; `ProcessorThread` shows when that happens.

### DfsTask

`dfs_alloc_flag` and `task_state` are the code's.  `tpc` is where the task is,
`found` the channel its search has returned and not yet recorded in
`pserve_chan`; `decoder` what the firmware does with a channel's stream;
`size_msg` and `fail_msg` what the client was told; `bound` how many stores were
bound since the firmware asked.

| Code | Model |
|---|---|
| `decoder_ext_event_handler`, need-arrange | `NeedArrange` (the flag), `CallTask` (after `seq_info` is stored) |
| `task_func_entry` | `TaskSleep`, `TaskRouse` (called or after 500 ms), `TaskRun`, `TaskFind` (under `channel_lock`), `TaskRecord`, `TaskEnd` |
| `task_memory_manager` and what it calls | `TaskServe` (which of three ways), `TaskDrain` (wait, free, allocate), `TaskBind`, `TaskActivate`, `TaskMark`, `TaskFail` |
| `processor_report_size_change_bypass` | `ReportSize`, `PostSize` |
| the client's unbind and insert of all buffers, first fill | `UnbindAll`, `Insert`, `FillTest`, `FillFirst`, `FillActivate`, `FillMark` |
| `channel_release_inst`, `task_cancel_inst`, `task_destroy_thread` | `Unlist`, `Cancel`, `DestroyTask` |
| start, stop | `StopOrStart` |

Every call that can fail (drain, bind, activate) fails nondeterministically.  A
release that waited its half second in vain, or that looked between the task's
search and its record, leaves the channel `"loose"`: the code frees it under the
task.

`lost` is not in the code and no step depends on it: it records the requests that
stand when the task forgets a call (`task.c:222`, `224`: its state is written over
ONCALL; `task.c:236`: it leaves its search at a failure), and those over which
DFS_ALREADY_ALLOC is written.  A search that follows a call takes up what stands
again and empties it.  One thread of a channel is taken to make the first fill, as in
`tests/vdec_test.c`.

### OmxDevice

`file` and `walk` are an open file and where its close is in the list; `step` how
far the creation or the release of a channel has come, one value per call after
which another thread can run; `place` the order of the list.  `is_init`, `hal` and
`power` are the firmware's use counts, its memory, and `g_VdecPowerOn` with how
often clock and regulator are on.

| Code | Model |
|---|---|
| `omxvdec_open` | `Open`, `OpenFails` |
| `channel_create_inst` | `Create` (on the list), `CreateFirmware`, `CreateDecoder`, `CreateRest`; on failure `UndoDecoder`, `UndoFirmware`, `UndoRecord` |
| `channel_release_inst`, `decoder_release_inst` | `Release`, `Unlist`, `DestroyDecoder`, `ExitFirmware`, `Free` |
| `decoder_init_vfmw`, `decoder_exit_vfmw` | part of `CreateFirmware`; `LeaveFirmware` |
| `VDEC_Regulator_Enable`, `_Disable` | `SwitchedOn`, `LeftOff` (a failure after the n-th resource), `Disabling` |
| `omxvdec_release` | `BeginClose`, `Pass`, `ReleaseMine`, `Released` (the lock was dropped meanwhile), `EndClose` |
| `decoder_suspend`, `decoder_resume` | `Suspend`, `Resume` |

A walk whose saved next channel has left the list reads freed memory; it is stopped
there (`at = "lost"`), and holds `omxvdec_mutex`.

### VencDevice

`handle`, `pWhichFile` and `receiving` are the slots of `g_stVencChn`; `creator` is
who had a context allocated, `started` the table of the encoder's task.  What runs
under `g_venc_ioctl_mutex` is one action; a MAP is two, as it attaches the buffer
before it takes `g_dmabuf_mutex`.

| Code | Model |
|---|---|
| `venc_open`, `VENC_DRV_EflOpenVedu`, `DRV_MEM_INIT` | `Open`, `OpenFails`, `MemInit` |
| CREATE_CHN, DESTROY_CHN, START and STOP | `CreateChn`, `DestroyChn`, `StartReceivePic`, `StopReceivePic` |
| MAP, UMAP | `MapBuffer`, `EnterMap`; `Umap` |
| `venc_release`, `VENC_DRV_BoardDeinit` | `Close`, `BoardOff` |
| `Venc_Regulator_Enable`, `_Disable` | `Enabled` (a failure is logged and ignored), `Disabled` |

`power.ignored`, `wiped` and `creator` are not in the code: they count the failures
that were ignored and the references of table entries that an open has cleared, and
say who created a context.

### Between the modules

How messages travel is left to `MsgQueue`: the ports act on the client when the
message is posted (`OutputPort`), or through a queue of `Depth` messages that
loses what does not fit (`InputPort`).  `OutputPort` treats the re-allocation
after a size change as one external step (`Rebind`); `DfsTask` is what happens
inside it.  `DfsTask` takes a release as far as the task is concerned, `OmxDevice`
as far as list, firmware and power are, `ProcessorThread` and `MsgQueue` the parts
of it that stop the thread and the queue.

## 3. Runs

| Run | Question | Instance | Distinct states |
|---|---|---|---|
| `queue_one_reader` | Does the queue implement the closed-once FIFO, with every payload its own; is the memory freed under the reader only when the polls ran out, and does the release end? | 1 reader, 2 nodes, 4 posts, 10 polls | 7 719 |
| `queue_release` | Does the release leave the memory alone once it is freed? **Violated**, section 7 | 2 posts | |
| `input_disciplined` | With a client that keeps to the rules: packets in order, each buffer in one place, each flush answered once and when done, and eventually? | 3 buffers, 4 messages | 285 419 |
| `input_careless` | Is every buffer still linked at most once when the client resubmits what it does not own, at other offsets, flushes twice, and lets the message queue overflow? | 2 buffers, 2 offsets, 1 message | 1.63 million |
| `input_freeing` | What is left when buffers are freed while others are decoded? | 2 buffers | 112 077 |
| `output_fillers` | Two fillers, also during a flush, with flushes, pauses, size changes and an end of stream: is the count exact, each buffer in one place, flush and pause answered once and when due? | 2 buffers, 2 images | 7.73 million |
| `output_lending` | Through pauses and stops, does every lent image come back but those whose record the late write of a fill has wiped? | 3 buffers, 2 fillers, 5 images | 1.18 million |
| `output_live` | One filler, two ends of stream back to back: does each come out once; is a pending flush answered? | 2 buffers, 2 images, 2 ends of stream | 1.87 million |
| `thread_life` | Is a stopped thread quiet, is no image left waiting by a lost wake-up, does the release end? | 2 images | 7 874 |
| `dfs_task` | Has a decoder that waits for frame stores somebody at it who gets to know it, and is its request answered, but for those lost at four places; is it never activated twice or too early; does a release keep the task off? | 2 channels (1 native), 2 buffers, 3 requests | 1.29 million |
| `omx_device` | Through creations, failures, releases, closes and sleep, two files at a time: is the firmware counted and powered, does a call-back find its channel, does a close leave nothing behind? | 2 files, 3 channels (1 secure) | 2.05 million |
| `venc_device` | Has every encoder context, imported buffer and enable one owner and one release? | 2 files, 3 contexts, 2 slots, 2 map entries | 38 052 |

Symmetry (of buffers, fillers, files and channels) is used only in runs without
liveness properties.

Deadlock is checked except where the modelled life ends: the queue and the
processor thread with their release, the task when the device is closed and the
requests are used up, and `OmxDevice`, where each channel is created once and a
close that lost its place in the list keeps `omxvdec_mutex`.

### Bounds, and why they are enough

* *Two or three buffers.*  A hazard of a port involves a buffer that is in use
  and one that is not, or a buffer and the end-of-stream entry.  Order needs two
  waiting packets behind one that is decoded: three buffers in
  `input_disciplined`.
* *Images and markers* (`MaxImages`, `MaxEos`) only end a run: buffers are reused
  within the bound, so that stale state from one use can meet the next.  With two
  markers the second stream can meet what the first left behind.
* *Images waiting for the thread* (`ProcessorThread`): one that is the last there is
  and one that is not.  They are produced without end.
* *Messages.*  `Depth` is 4 with three buffers and one flush, so nothing is lost;
  1 in `input_careless`, so losses are the normal case.
* *MaxUse* bounds `raw_use_cnt`.  It is what entries can be taken at once (every
  buffer and the marker), so it never disables a step the code could make, except
  in `input_careless`, where two of the three entries are taken at most.
* *Requests* (`MaxAsk` 3, `Frames` 2 in `DfsTask`).  Three requests let one channel
  ask again while its first answer is being written and the other wait meanwhile.
  Two buffers have one insert that is not the last and one that is.  One channel
  decodes into the client's buffers and one into its own, so that the task serves
  both ways in one search.
* *Files and channels.*  A hazard of the list needs a file that walks and another
  that releases: two files, and three channels so that one of each file has a
  successor.  One channel is secure, so that each world's firmware can be up
  without the other's.  `MaxOpen` equals the number of files; a channel context is
  used once, and its identifiers are used again by the others.
* *Encoder.*  Two slots with three contexts reuse a slot; two map entries with one
  descriptor number in two processes fill the table and confuse its entries.
  `MaxRefs` (references to one buffer, 3) and `MaxIgnored` (failed enables, 1) are
  what makes the state finite: the code has no limit on either.
* *Client.*  `awaited` is at most 1 for a disciplined client, which waits for one
  flush before the next, as the OMX component and `tests/vdec_test.c` do, and 2
  for a careless one.

### Fairness, and what justifies it

* A thread inside the driver is scheduled until it leaves it: weak fairness of
  the reader's steps, of the release, of an ioctl that has begun, of a fill that
  has begun.
* The processor thread runs: `processor_thread` wakes up every 100 ms without
  being called (`wait_event` with a time limit), so its steps are weakly fair.
* The task runs: it wakes up every 500 ms without being called, so its steps are
  weakly fair, as are the event that has begun and the processor thread's report
  (`DfsTask`).  The client answers a new size by replacing its buffers and filling
  one; without that the decoder waits for it for ever, by design.
* The client's message thread fetches (`InputPort` only).
* The firmware returns its packets once it was told to clear its stream; it need
  not return any before (`WF_vars(clearing /\ Reclaim)`).  Nothing else is
  assumed of the firmware, and nothing obliges a client to call.

## 4. Properties

Each is stated in words above its definition.  The ones that carry the channel:

* **Book-keeping.**  `NodesConserved` (queue), `OnePlace` and `UseCount` (both
  ports): lists, counts and flags that several parties keep by hand agree in
  every interleaving.  `LinkedOnce`, `EosFlag`.
* **Answers.**  `FlushAnsweredOnce`, `FlushAnsweredIsDone`/`AnsweredFlushIsDone`,
  `PauseAnsweredOnce`, `EofOnce`: a request is answered once, by
  whichever party, and only when what it asked for is true.
* **Progress.**  `FlushCompletes` (both ports), `DeinitCompletes`.
* **Hand-shake.**  `QuietAfterStop`: a stop that returned success has found the
  thread out of work, unless a wake-up that saw SLEEPING wrote ONCALL over RUNNING.
  `WorkGetsDone` (the 100 ms limit makes up for lost wake-ups) and
  `ReleaseReturns` (which needs the decoder stopped first) are its progress.
* **Memory.**  `OwnPayload`.  `FreedUnderReader`: the acknowledgement is sound, and
  the memory of the queue is freed under its reader by the limit of ten polls only.
  `LentAccounted`: an image the firmware lent comes back, or the unlocked write
  that ends a fill wiped its record, and nothing else loses one.
* **Frame stores.**  `StallIsTold`: whenever the firmware waits, some party is at
  it and gets to know it, or the client was told of a failure, or the request was
  lost at one of four named places; there is no fifth.  A request that only
  stands in the flag is nobody's: the task must still be called, be called and
  awake, or be going to search again.  `ActivationIsDue`: the firmware is told to go
  on only when it waits and with all stores bound since it asked, so task and
  client never both answer.  `AtWorkIsAlive`: a release that found the task
  elsewhere keeps it off.  `RequestAnswered` is the progress, from the request on.
* **Device.**  `FirmwareCounted`: each world's firmware is up for exactly the
  channels between its start and its end, through every failure of a creation and
  beside other creations and releases.  `FirmwareHasPower`: it then has clock and
  regulator, each once.  `CallbacksFindOwner`: identifiers are given again while
  decoders with the old one still exist, yet the look-ups of a working channel's
  packets, images and events find that channel.  `CloseLeavesNothing`,
  `WalkStaysOnList`: the walk that drops its lock misses no channel of its file.
* **Encoder.**  `ChannelsOwned`, `TaskSeesReceiving`: contexts, slots, files and the
  task's table agree.  `PowerBalanced`, `ReferencesHeld`: what is enabled or held is
  what is in use, plus exactly what the code is known to lose.
* **Refinement.**  `ImplementsChannel`: `MsgQueue` implements `MsgChannel`, with
  the pending nodes' codes as the FIFO.  `PacketsInOrder`: `InputPort` implements
  `StreamFifo`, with the entries not in use as what waits.

What they do *not* say is as much a result:

* The exception in `QuietAfterStop` is real: with it dropped TLC finds a stop that
  succeeds while the thread works, hidden behind ONCALL.

* A pause is answered at most once, but need not be answered: the thread does no
  work in state PAUSE, so a frame in use when the pause begins is reported only if
  the thread was already at it.  And the run excludes start and stop: start is
  accepted in state PAUSE and leaves `pause_pending` set, after which the next
  pause can be answered twice.
* `EofOnce` holds with one filling thread.  With two, both can see
  `PRC_EOF_WAIT_SLOT` before either acts.
* That the end of stream comes after the last frame is not claimed.  The thread
  reads, finds no image, and only then looks at `decoder_eof_state`
  (`processor_bpp.c:1060`): a frame queued in between, followed by
  `REPORT_LAST_FRAME_FAIL`, comes out behind it.
* An end of stream waiting for a slot can be missed: the fill that brings the slot
  may test the state before the thread has written it.  If the client has nothing
  more to fill, the end of stream never comes.
* Freeing input buffers while others are queued breaks `UseCount` and the order of
  packets, as the last slot is copied over the freed one outside `raw_lock` and
  re-linked at the tail.  `OnePlace` and `EosFlag` survive.
* That every request for frame stores is answered does not hold.  A call of the
  task that falls between its last search and its sleep is overwritten, and a
  wake-up by time does not search; a failure ends the search for the others that
  wait; task and client write DFS_ALREADY_ALLOC after the firmware was told to go
  on, and so over its next request.  The model records these requests in `lost`:
  `StallIsTold` and `RequestAnswered` say that none is lost elsewhere, and without
  this exception TLC refutes both.
* `ActivationIsDue` takes one filling thread of a channel at the first fill.  Two could
  both find DFS_WAIT_FILL (`channel.c:1760`) and activate twice.
* The reader of a queue is not promised to be gone when the memory is freed: that
  it leaves within ten 10 ms polls is a matter of timing, and the run frees the
  memory under it when it does not.
* `AtWorkIsAlive` says nothing of a release that gave up after half a second, or
  that came between the task's search and its record.
* `WalkStaysOnList` excepts the saved channel of another file that a client of that
  file releases meanwhile.  That walk is lost.
* `CallbacksFindOwner` excepts channels listed earlier whose `decoder_id` is stale
  or the 0 of fresh memory, while their creation is under way or failing: an event
  of decoder 0 can go to them.
* `FirmwareHasPower` excepts a resume that could not enable the regulator: the
  firmware is resumed all the same.
* `ReferencesHeld` and `PowerBalanced` count the losses: closing a file unmaps
  nothing and the next first open clears the table; a failed enable is taken for
  done.  The entry a UMAP takes away may be another process's.
* That every image comes back does not hold, even with one filler.  A fill links
  its buffer, releases the image and clears the record last (`channel.c:1747-1757`),
  without `yuv_lock`: the firmware may have lent the image again, and the thread
  reported it, before the record is cleared.  `wiped` names these images, and the
  run reaches them.
* A flush, an end of stream or a size change can lose the record of an image that
  was lent as well, so `LentAccounted` is claimed without them only.

## 5. Proofs

| Theorem | Property | For every |
|---|---|---|
| `MsgQueueProofs!TypeCorrect` | `TypeOK` | node, reader and message set, bound |
| `MsgQueueProofs!NodesNeverLost` | `NodesConserved` | likewise |
| `MsgQueueProofs!StoppedStaysEmpty` | `StoppedEmpty` | likewise |
| `MsgQueueProofs!PayloadsCorrect` | `OwnPayload` | likewise |
| `MsgQueueProofs!ChannelCorrect` | `ImplementsChannel` | queue with one reader |
| `MsgQueueProofs!OnlyLimitFreesUnderReader` | `FreedUnderReader` | queue with one reader, in any timing |
| `InputPortProofs!TypeCorrect` | its `TypeOK` | buffers, slots, offsets, message nodes and every client |
| `InputPortProofs!EosFlagCorrect` | `EosFlag` | likewise |
| `InputPortProofs!LinkedOnceCorrect` | `LinkedOnce` | likewise, with `~FreeWhileBusy` |
| `InputPortProofs!OnePlaceCorrect` | `OnePlace` | `Disciplined` client, `Depth > MaxSlots` |
| `InputPortProofs!FlushAnsweredOnceCorrect` | `FlushAnsweredOnce` | likewise |
| `InputPortProofs!UseCountCorrect` | `UseCount` | likewise, with `~FreeWhileBusy` |
| `InputPortProofs!AnsweredFlushCorrect` | `AnsweredFlushIsDone` | likewise |
| `InputPortProofs!PacketsInOrderCorrect` | `PacketsInOrder` | likewise |
| `OutputPortProofs!TypeCorrect` | `TypeOK` | finite buffer set, filler set, every `Ops` and bound |
| `OutputPortProofs!UseCountCorrect` | `UseCount` | likewise |
| `OutputPortProofs!OnePlaceCorrect` | `OnePlace` | likewise |
| `OutputPortProofs!FlushNeverAnsweredTwice` | `FlushAnsweredOnce` | likewise |
| `OutputPortProofs!FlushAnsweredIsDoneCorrect` | `FlushAnsweredIsDone` | likewise |
| `OutputPortProofs!PauseNeverAnsweredTwice` | `PauseAnsweredOnce` | likewise, with `"stop"` not in `Ops` |
| `OutputPortProofs!LentAccountedCorrect` | `LentAccounted` | likewise, with `"flush"`, `"eos"`, `"resize"` not in `Ops` |
| `OutputPortProofs!EofOnceCorrect` | `EofOnce` | likewise, every `Ops`, one filler |
| `ProcessorThreadProofs!StoppedIsQuiet` | `QuietAfterStop` | bound on images |
| `DfsTaskProofs!TypeCorrect` | `TypeOK` | channel set, path modes, number of buffers and requests |
| `DfsTaskProofs!ReleaseKeepsTaskOff` | `AtWorkIsAlive` | likewise |
| `DfsTaskProofs!ActivationCorrect` | `ActivationIsDue` | likewise |
| `DfsTaskProofs!NoSilentStall` | `StallIsTold` | likewise |
| `OmxDeviceProofs!TypeCorrect` | `TypeOK` | finite set of files and channels, which of them are secure, `MaxOpen` |
| `OmxDeviceProofs!FirmwareIsCounted` | `FirmwareCounted` | likewise |
| `OmxDeviceProofs!FirmwareIsPowered` | `FirmwareHasPower` | likewise |
| `OmxDeviceProofs!OwnersAreFound` | `CallbacksFindOwner` | likewise |
| `OmxDeviceProofs!ClosesAreComplete` | `CloseLeavesNothing` | likewise |
| `OmxDeviceProofs!WalksStayOnList` | `WalkStaysOnList` | likewise |
| `VencDeviceProofs!TypeCorrect` | `TypeOK` | finite sets of files and descriptors, context set, `MaxChn`, `MaxMaps` and bounds |
| `VencDeviceProofs!ContextsHaveOwner` | `ChannelsOwned` | likewise |
| `VencDeviceProofs!TaskSeesNoOther` | `TaskSeesReceiving` | likewise |
| `VencDeviceProofs!PowerIsBalanced` | `PowerBalanced` | likewise |
| `VencDeviceProofs!ReferencesCounted` | `ReferencesHeld` | likewise |

The hypotheses are the conditions under which the code keeps the promise, and the
runs of section 3 check the same properties under them:

* `Disciplined`: the client submits only buffers it holds and waits for one flush
  before the next.  `input_careless` is about clients that do not.
* `Depth > MaxSlots`: the queue has a node for every buffer that can come back and
  one for the answer to a flush, so no INPUT_DONE is lost.  It has 50 nodes, and the
  tables 64 slots: the theorems are about clients that bind fewer than 50 buffers
  (`MaxSlots` is also the most the client asks for).  Beyond that a slow client loses
  buffers; that is listed under `hazards`.
* `~FreeWhileBusy`: buffers are freed only while none is linked.  Otherwise the
  last slot is copied over the freed one outside `raw_lock` (section 4).
* One reader (`ChannelCorrect`, `OnlyLimitFreesUnderReader`), as the OMX component
  has: a second one could empty the list between another's test and its fetch,
  which then succeeds without a message; and the first of two to leave would
  acknowledge for both.
* One filler (`EofOnceCorrect`): with two both can see `PRC_EOF_WAIT_SLOT` before
  either acts, and each sends one.

The arguments:

* *Types, nodes.*  `TypeOK` is inductive.  `NodesConserved` is inductive given
  `TypeOK`; what it needs is what `Append`, `Head` and `Tail` do to the set of
  listed nodes (`AppendListed`, `TailListed`).
* *Shutdown.*  `StoppedEmpty` is not inductive: a reader's late steps have to be
  tied to `stop`.  `StopInv` says that `stop` is raised exactly by the release and
  that only a reader that saw it acknowledges.
* *One reader.*  `AckInv`: after `quit` nobody is inside and nobody enters, as the
  queue is being torn down; the memory is live exactly until the release stops
  polling, which without `quit` it does after the last poll only.
* *Payloads.*  `OwnPayload` speaks of what a reader has got; `PayloadInv` adds the
  pending nodes.  That a node keeps its old payload when a message without one is
  posted is why it has to say which codes carry one.
* *The queue is a channel.*  `ChannelCorrect` maps the codes of the pending nodes to
  the FIFO of `MsgChannel`.  `PutStep` is the post, the other cases are one step of
  `MsgChannel` or a stutter.  `CallInv` says that a reader inside `message_dequeue` has
  not answered yet, and that one that saw a message pending will still find one.
* *Lists.*  `Keep(s, T)` is the only list whose places are those of `s` in `T`, in
  their order (`EnumerationIsNth`): it keeps sequences, what they hold, and freedom
  from repetitions (`KeepRange`, `KeepInjective`), and commutes with `Append`, `Tail`
  and with mapping every entry to its address.
* *Input port, links.*  `EosInv`: the marker is linked at most once, and exactly when
  the flag says so.  `LinkInv`: only slots in use are linked, none while a slot is
  being moved, and the slot an insertion looked up is still that of its buffer
  when the insertion gets `raw_lock`; with the test for duplicates `LinkedOnce` follows.
* *Input port, places.*  `PlaceInv` has three parts.  `SlotInv`: slots in use have
  different buffers, and what a slot's status implies about the queue.  `BufsInv`: the
  buffers bound are the disjoint union of those the client holds, those in a message,
  those linked and the one an ioctl carries.  `MsgInv`: each answer is in
  the message queue at most once, so it holds at most `MaxSlots + 1` messages and
  with `Depth > MaxSlots` none is lost; and a flush is awaited exactly while it is with
  the ioctl, pending or answered.  One lemma moves buffers from the queue to the
  messages (`LeavingPort`), for a flush and for a release.
* *Input port, use.*  `UseInv`: the firmware holds one packet of exactly those
  addresses whose linked entry is in use; the buffers a flush waits for are
  among them.  A release then always finds its entry, and the release that
  finds none left is the last one.
* *Packets in order.*  Under the refinement mapping what waits in `StreamFifo` is
  `Keep(raw_queue, NotHandedOver)`, mapped to packets, and what the other side holds
  is what is in use.  `Insert` submits, `Take` hands over the head, `Release` returns,
  `Flush` empties; all else stutters, `Relink` because it is only reached with
  nothing linked.
* *Flush.*  `FlushAnsweredOnce` (`flushes >= 0`) says nothing about where the
  answer will come from.  `FlushAccounted` does: exactly one of: the ioctl still
  has to clear the port, the flush is pending, nothing is owed.  Every step keeps it;
  the report of the last buffer is one lemma (`FlushReported`) used for images
  and ends of stream.
* *Pause.*  `PauseAccounted`, likewise, and while the answer is due the channel
  stays in PAUSE, so no second pause begins.  `StopOrStart` would break exactly
  that, which is the theorem's assumption.
* *Output port, places and count.*  `QueueInv` has `UseCount` and `OnePlace`, but a
  report keeps them only if the buffer reported is in use.  `HolderInv` says so:
  a buffer in use has exactly one holder: the sender that took it for an end of stream, an
  image not yet read, or the thread between reading it and reporting it.  Marks
  and takes need a QUEUED buffer, so no two holders ever share one.  The count is then
  moved by one element at a time (`BusyMore`, `BusyLess`).  `FlushAnsweredIsDone` follows:
  `owed` is among the buffers in use, and the answer is sent when the count is 0.
* *Images.*  `LentAccounted` is inductive once `Plain` holds, that nothing sends an
  end of stream and no flush clears or prevents a record.  The four steps that end
  a fill are taken by any number of threads: one that comes late finds no
  record and releases nothing, or clears that of a later report, whose image is
  then in `wiped` (`LentFiller`).
* *End of stream.*  `EofOnce` leaves no trace of who may still send one.
  `EofAccounted` counts them: the filling thread if it is at it or will see
  `PRC_EOF_WAIT_SLOT`, the processor thread if it is at it or will be as the state is
  still INIT.  Together with the ends sent they are no more than the markers received.  `NoEofYet`
  is needed for the first: without a marker nothing asks the thread for an end.
* *Thread.*  `QuietInv`: the stopping side has written `inst_state` when it watches
  `thread_state`, and the thread has written `thread_state` when it looks at
  `inst_state`, so whoever comes second sees the other.  The model takes the stores
  in program order; the code has no barrier between them.
* *Frame stores.*  Neither `ActivationIsDue` nor `StallIsTold` is inductive: each
  speaks of one moment of the hand-over.  `PhaseInv` says for every channel still
  listed what each value of the flag implies about the other parties: where the
  task may be, that it and the client are never both at it, how far the thread's
  report and the replacement of the buffers have come.  `CancelInv` ties a release
  to what the task has found and recorded.  `KnowInv`: a request that stands is one the
  task will get to know (`Reaches`) or one marked as lost, kept over the writes of the
  task's state; `StopInv` says that the task ends only when no channel is listed.
* *Device.*  The six properties speak of the end of a close, of one look-up or of one
  count; the invariant ties them together.  `WalkInv`: while a file is being closed,
  each of its channels still alive is at hand or ahead of the walk in the order of
  the list, so at the end there is none.  `NextInv`: the saved next channel is on the
  list unless a client of another open file took it off.  `OwnerInv`: a creation or
  release under way keeps its file open, so the last close meets no other thread.
  `PlaceInv`, `ListInv`: the order is strict, and a channel is on the list between its
  two steps.  `IdInv`: which decoders, alive or not, can have which identifier.
  `PowerInv`: clock and regulator are each on once exactly when the flag says so.  The
  counts are cardinalities: each step moves one channel in or out of the set counted.
* *Encoder.*  The four invariants with the types and `OpenInv` (`open_count` is the
  number of open files) are inductive together.  `OpenInv` is needed twice: the first
  open may forget all handles because with no file open no slot is used
  (`NothingLeft`), and the count that switches the power is exact.  That a slot is the
  only one with its handle makes a stop change one entry of the task's table only.

Every invariant and every action or refinement property the passing runs check is a
theorem under the hypotheses above.  Only model-checked: liveness (`FlushCompletes` of
both ports, `DeinitCompletes`, `WorkGetsDone`, `ReleaseReturns`, `RequestAnswered`),
which is outside what the prover does.  `StreamFifo` and `MsgChannel` state no fairness,
so their refinements are proved in full.

## 6. Plan

What would come next, ordered by how much of the driver's core each adds.

1. The copying path of the output port (`PATH_MODE_NORMAL`): the processor thread
   holds an image and a client's buffer at the same time.
2. A composite of the two ports and the queue for one channel: an end of stream
   from the empty call to the client's message thread.
3. `VdecMem`, the node table of `platform/kirin/memory.c`; and the encoder's queues
   with the wait for the hardware.
4. `DssPower` with the DSI encoder: acquisitions that fail half way.

Theorems next: an abstract specification of the output port, buffers lent, used and
returned, that `OutputPort` implements; the firmware of a world as a counted resource
that `OmxDevice` implements; the composite's invariants.

## 7. Findings

* **The descriptor of a queue is written after its memory is freed**
  (`queue_release`).  `message_queue_deinit` passes `&queue->mem_buf`
  (`message.c:235`), which lies in the block to be freed;
  `VDEC_MEM_UnmapAndRelease` frees the block and then clears the descriptor
  (`platform/kirin/memory.c:140-144`).  `docs/10-VPU_SOURCE_AUDIT.md:12` says that
  the use after free at teardown is resolved.

## 8. What is not modelled

* The decoder firmware (`vdec/vfmw`) and most of the encoder (`drv_venc_*.S`) are
  compiler output of the vendor.  The models contain what the driver's code relies
  on, marked external; of the encoder's files the calls that create, start, stop and
  destroy a channel and open the hardware are read from the compiler output.
* The headers that make up most of the repository's remaining lines
  (`Vedu_RegAll.h`, `kirin_dpe_reg.h`, `drv_venc_efl.h`, the firmware's syntax
  headers) declare registers and structures: they hold no behaviour.
* Register programming of the display (`kirin_drm_dpe_utils.c`,
  `kirin_drm_overlay_utils.c`), the DSI PHY arithmetic, proc output, tuning values
  and stream dumps: no protocol between parties.
* Tests, benchmarks, kernel configuration, CI and documents.  `vdec_test.c` is read
  for how a client uses a channel.
* The display controller, the DSI host and the panel: calls the DRM core makes one
  after the other under its locks, where the one hazard met is a clock failure
  half way (`kirin_drm_dss.c`, listed under `hazards`).  The HDMI watchdog: a polling
  loop alone with its hardware.
* The copying path of the output port, the limits on channels at a time and the
  attributes of a channel, and the ioctls that only read or write parameters.
* Encoder ioctls that use a channel without `g_venc_ioctl_mutex` (queue, fetch,
  flush), and its task's wait for the hardware.

Within the modelled parts: payload bytes, image geometry and time are left out,
except where a property depends on them (data offsets identify a packet; polls
count time in the release).  A stop that waits for the thread (`Reset`) may end
at any time, as its one-second limit and the unlocked wake-up allow.

## 9. Running

```
tlc -workers 2 -config InputPortDisciplined.cfg MCInputPort
tlapm ListProofs.tla
tlapm MsgQueueProofs.tla
tlapm InputPortProofs.tla
tlapm OutputPortProofs.tla
tlapm ProcessorThreadProofs.tla
tlapm DfsTaskProofs.tla
tlapm OmxDeviceProofs.tla
tlapm VencDeviceProofs.tla
```

Each `.cfg` belongs to the module its name starts with, or to its `MC` module;
`PROJECT.json` pairs them, and maps every definition that models code to its lines.
