--------------------------- MODULE ProcessorThread ---------------------------
(***************************************************************************)
(* The life of a processor thread (omxvdec/processor_bpp.c): the           *)
(* hand-shake over thread_state and inst_state between the thread, those   *)
(* who wake it and the calls that start, stop, reset, suspend and release  *)
(* its instance.  No lock covers the two fields: stopping is first writing *)
(* inst_state and then watching thread_state, while the thread first       *)
(* writes thread_state and then looks at inst_state; and a wake-up tests   *)
(* thread_state in one step and writes it in another.                      *)
(*                                                                         *)
(* The calls hold chan_mutex, or come when user threads are frozen         *)
(* (suspend and resume), so there is one at a time.  What the thread does  *)
(* with an image is OutputPort's subject; here it is one step.             *)
(***************************************************************************)
EXTENDS Naturals

CONSTANT MaxImages      \* bound on the images that wait for the thread

ASSUME ThreadAssumption == MaxImages \in Nat

\* processor_ctrl_thread_wake_up is called by the firmware's event thread and by
\* the task that handles a change of size.
Waker == {"firmware", "task"}

VARIABLES
    thread_state, inst_state, channel_state,
    tpc,                \* where the thread is
    should_stop,        \* kthread_stop was called
    master,             \* pMaster is set
    wake,               \* where each waker is in its call
    firmware,           \* the decoder is started, stopped or suspended
    images,             \* images that wait to be read
    listed,             \* the channel is found by the task
    context,            \* the thread's BPP_CONTEXT_S: "live" or "freed"
    ctl,                \* the call under way and its next step
    stopped             \* what processor_stop_thread last returned, while the
                        \* instance stays stopped

threadVars == <<thread_state, tpc>>
instVars == <<inst_state, channel_state, stopped>>
lifeVars == <<should_stop, master, listed, context>>
decoderVars == <<firmware, images>>
vars == <<threadVars, instVars, lifeVars, decoderVars, wake, ctl>>

Call(op, at) == [op |-> op, at |-> at]
NoCall == Call("none", "idle")

\* processor_create_inst, and the channel it belongs to; the thread was created
\* and woken but has not run.
Init ==
    /\ thread_state = "INVALID"
    /\ inst_state = "IDLE"
    /\ channel_state = "IDLE"
    /\ tpc = "new"
    /\ should_stop = FALSE
    /\ master = TRUE
    /\ wake = [w \in Waker |-> "idle"]
    /\ firmware = "off"
    /\ images = 0
    /\ listed = TRUE
    /\ context = "live"
    /\ ctl = NoCall
    /\ stopped = "none"

-----------------------------------------------------------------------------
(* processor_thread                                                        *)

\* A thread that is stopped before it first runs never gets to its function
\* (kthread), and one that has lost its master returns at once.
Begin ==
    /\ tpc = "new"
    /\ tpc' = IF should_stop \/ ~master THEN "done" ELSE "loop"
    /\ UNCHANGED <<thread_state, instVars, lifeVars, decoderVars, wake, ctl>>

Sleep ==
    /\ tpc = "loop" /\ ~should_stop
    /\ thread_state' = "SLEEPING"
    /\ tpc' = "wait"
    /\ UNCHANGED <<instVars, lifeVars, decoderVars, wake, ctl>>

WaitOver_Bug == thread_state = "ONCALL" \/ should_stop
WaitOver == TRUE                    \* on call, or after 100 ms

Rouse ==
    /\ tpc = "wait"
    /\ WaitOver
    /\ thread_state' = "RUNNING"
    /\ tpc' = "test"
    /\ UNCHANGED <<instVars, lifeVars, decoderVars, wake, ctl>>

Working == inst_state = "WORK" /\ channel_state = "WORK"

Test ==
    /\ tpc = "test"
    /\ tpc' = IF Working THEN "work" ELSE "loop"
    /\ UNCHANGED <<thread_state, instVars, lifeVars, decoderVars, wake, ctl>>

\* The inner loop ends when there is no image or the one read was the last
\* there is; neither state is looked at again.
Work ==
    /\ tpc = "work"
    /\ images' = IF images > 0 THEN images - 1 ELSE 0
    /\ tpc' = IF images' = 0 THEN "loop" ELSE "work"
    /\ UNCHANGED <<thread_state, instVars, lifeVars, firmware, wake, ctl>>

\* With reset_pending set processor_get_image finds none.
GiveUpWork ==
    /\ tpc = "work"
    /\ ctl.op = "reset"
    /\ tpc' = "loop"
    /\ UNCHANGED <<thread_state, instVars, lifeVars, decoderVars, wake, ctl>>

Exit ==
    /\ tpc = "loop" /\ should_stop
    /\ thread_state' = "EXIT"
    /\ tpc' = "done"
    /\ UNCHANGED <<instVars, lifeVars, decoderVars, wake, ctl>>

-----------------------------------------------------------------------------
(* Those who wake it: processor_ctrl_thread_wake_up.                       *)

\* The firmware queues an image and reports it (EVNT_NEW_IMAGE).
NewImage ==
    /\ firmware = "on"
    /\ images < MaxImages
    /\ wake["firmware"] = "idle"
    /\ images' = images + 1
    /\ wake' = [wake EXCEPT !["firmware"] = "test"]
    /\ UNCHANGED <<threadVars, instVars, lifeVars, firmware, ctl>>

\* task_report_channel_mem, for a channel the task finds in the list.
TaskReport ==
    /\ listed
    /\ wake["task"] = "idle"
    /\ wake' = [wake EXCEPT !["task"] = "test"]
    /\ UNCHANGED <<threadVars, instVars, lifeVars, decoderVars, ctl>>

WakeTest(w) ==
    /\ wake[w] = "test"
    /\ wake' = [wake EXCEPT ![w] =
                   IF thread_state = "SLEEPING" THEN "write" ELSE "idle"]
    /\ UNCHANGED <<threadVars, instVars, lifeVars, decoderVars, ctl>>

WakeWrite(w) ==
    /\ wake[w] = "write"
    /\ thread_state' = "ONCALL"
    /\ wake' = [wake EXCEPT ![w] = "idle"]
    /\ UNCHANGED <<tpc, instVars, lifeVars, decoderVars, ctl>>

-----------------------------------------------------------------------------
(* The calls.                                                              *)

\* channel_start_inst: decoder, processor, then the state of the channel.
Start ==
    /\ ctl = NoCall /\ listed
    /\ channel_state # "WORK" /\ inst_state # "SUSPEND"
    /\ firmware' = "on"
    /\ inst_state' = "WORK"
    /\ channel_state' = "WORK"
    /\ stopped' = "none"
    /\ UNCHANGED <<threadVars, lifeVars, images, wake, ctl>>

\* channel_pause_inst and channel_resume_inst.
PauseOrResume ==
    /\ ctl = NoCall /\ inst_state # "SUSPEND"
    /\ \/ channel_state = "WORK" /\ channel_state' = "PAUSE"
       \/ channel_state = "PAUSE" /\ channel_state' = "WORK"
    /\ UNCHANGED <<threadVars, inst_state, stopped, lifeVars, decoderVars, wake, ctl>>

\* channel_stop_inst gives up WORK at once; a release only when it has stopped
\* the processor.  "Stop order is important": the decoder comes first.
StopFirst_Bug == "unlist"
StopFirst == IF channel_state = "IDLE" THEN "unlist" ELSE "decoder"

BeginCall ==
    /\ ctl = NoCall /\ listed /\ inst_state # "SUSPEND"
    /\ \/ /\ channel_state # "IDLE"
          /\ ctl' = Call("stop", "decoder")
          /\ channel_state' = "IDLE"
       \/ /\ ctl' \in {Call("reset", "halt"), Call("release", StopFirst)}
          /\ UNCHANGED channel_state
       \/ /\ inst_state = "WORK"
          /\ ctl' = Call("suspend", "halt")
          /\ UNCHANGED channel_state
    /\ UNCHANGED <<threadVars, inst_state, stopped, lifeVars, decoderVars, wake>>

Goes(from, to) == ctl.at = from /\ ctl' = Call(ctl.op, to)

\* decoder_stop_inst.
StopDecoder ==
    /\ Goes("decoder", "halt")
    /\ firmware' = "off"
    /\ UNCHANGED <<threadVars, instVars, lifeVars, images, wake>>

Halted_Bug == inst_state
Halted == IF ctl.op = "suspend" THEN "SUSPEND" ELSE "IDLE"

\* processor_stop_inst and processor_suspend, once the decoder, if it was
\* stopped, has returned from its last event.
Halt ==
    /\ Goes("halt", "wait")
    /\ firmware = "off" => wake["firmware"] = "idle"
    /\ inst_state' = Halted
    /\ UNCHANGED <<threadVars, channel_state, stopped, lifeVars, decoderVars, wake>>

AfterStop == [stop    |-> NoCall,
              reset   |-> Call("reset", "restart"),
              suspend |-> Call("suspend", "decoder-suspend"),
              release |-> Call("release", "unlist")]

\* processor_stop_thread looks every 10 ms and gives up after a second, which
\* is any time.
StopThread ==
    /\ ctl.at = "wait"
    /\ stopped' = IF thread_state # "RUNNING" THEN "success" ELSE "failed"
    /\ ctl' = AfterStop[ctl.op]
    /\ UNCHANGED <<threadVars, inst_state, channel_state, lifeVars, decoderVars, wake>>

\* The end of channel_reset_inst: processor_start_inst.
Restart ==
    /\ ctl.at = "restart"
    /\ inst_state' = "WORK"
    /\ stopped' = "none"
    /\ ctl' = NoCall
    /\ UNCHANGED <<threadVars, channel_state, lifeVars, decoderVars, wake>>

\* decoder_suspend; channel_resume wakes the decoder first and the processor
\* after it.
SuspendDecoder ==
    /\ ctl.at = "decoder-suspend"
    /\ wake["firmware"] = "idle"
    /\ firmware' = IF firmware = "on" THEN "suspended" ELSE firmware
    /\ ctl' = NoCall
    /\ UNCHANGED <<threadVars, instVars, lifeVars, images, wake>>

ResumeSystem ==
    /\ ctl = NoCall /\ inst_state = "SUSPEND"
    /\ firmware' = IF firmware = "suspended" THEN "on" ELSE firmware
    /\ inst_state' = "WORK"
    /\ stopped' = "none"
    /\ UNCHANGED <<threadVars, channel_state, lifeVars, images, wake, ctl>>

\* channel_release_inst goes on: the record leaves the list, and the task, if
\* it serves the channel, is waited for (task_cancel_inst; its limit of half a
\* second is not modelled).
Unlist ==
    /\ Goes("unlist", "cancel")
    /\ channel_state' = "IDLE"
    /\ listed' = FALSE
    /\ UNCHANGED <<threadVars, inst_state, stopped, should_stop, master, context,
                   decoderVars, wake>>

\* processor_release_inst.
Detach ==
    /\ Goes("cancel", "kthread_stop")
    /\ wake["task"] = "idle"
    /\ master' = FALSE
    /\ inst_state' = "INVALID"
    /\ UNCHANGED <<threadVars, channel_state, stopped, should_stop, listed, context,
                   decoderVars, wake>>

KthreadStop ==
    /\ Goes("kthread_stop", "join")
    /\ should_stop' = (thread_state # "EXIT")
    /\ UNCHANGED <<threadVars, instVars, master, listed, context, decoderVars, wake>>

Free ==
    /\ ctl.at = "join"
    /\ should_stop => tpc = "done"
    /\ context' = "freed"
    /\ ctl' = NoCall
    /\ UNCHANGED <<threadVars, instVars, should_stop, master, listed, decoderVars,
                   wake>>

-----------------------------------------------------------------------------
Thread == Begin \/ Sleep \/ Rouse \/ Test \/ Work \/ GiveUpWork \/ Exit
CallStep == \/ StopDecoder \/ Halt \/ StopThread \/ Restart \/ SuspendDecoder
            \/ Unlist \/ Detach \/ KthreadStop \/ Free

Next ==
    \/ Thread
    \/ NewImage \/ TaskReport \/ \E w \in Waker : WakeTest(w) \/ WakeWrite(w)
    \/ Start \/ PauseOrResume \/ BeginCall \/ ResumeSystem
    \/ CallStep

Spec == Init /\ [][Next]_vars

\* The thread is scheduled, as are a waker and a call inside the driver.
FairSpec ==
    /\ Spec
    /\ WF_vars(Thread)
    /\ WF_vars(CallStep)
    /\ \A w \in Waker : WF_vars(WakeTest(w) \/ WakeWrite(w))

-----------------------------------------------------------------------------
\* When processor_stop_thread has returned success the thread is not at work,
\* and does not start to work until the instance is started: unless a wake-up
\* that had seen SLEEPING wrote ONCALL over RUNNING, nothing else fools it.
QuietAfterStop ==
    stopped = "success" => tpc # "work" \/ thread_state = "ONCALL"

\* An image that waits on a working channel gets the thread to work, although a
\* wake-up that finds the thread RUNNING, or is overwritten, is lost.
WorkGetsDone == (images > 0 /\ Working) ~> (tpc = "work" \/ ~Working)

\* The release of the instance comes to an end: the thread leaves its work,
\* which it does without looking at kthread_should_stop, and is joined.
ReleaseReturns == ctl.op = "release" ~> context = "freed"

=============================================================================
