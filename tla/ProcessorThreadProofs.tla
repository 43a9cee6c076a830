------------------------ MODULE ProcessorThreadProofs ------------------------
(***************************************************************************)
(* For any number of images: a processor instance that was stopped with    *)
(* success is quiet.                                                       *)
(***************************************************************************)
EXTENDS ProcessorThread, TLAPS

\* The stopping side has written inst_state before it looks at thread_state, and
\* the thread has written thread_state before it looks at inst_state: whoever
\* comes second sees the other.
QuietInv ==
    /\ ctl.at = "wait" => inst_state # "WORK"
    /\ stopped = "success" => inst_state # "WORK"
    /\ tpc \in {"test", "work"} => thread_state \in {"RUNNING", "ONCALL"}
    /\ QuietAfterStop

\* Before the thread has run nothing is stopped.
LEMMA QuietInit == Init => QuietInv
BY DEF Init, NoCall, Call, QuietInv, QuietAfterStop

\* No step of the thread brings it to work on a stopped instance.
LEMMA QuietThread ==
    ASSUME QuietInv, Thread
    PROVE  QuietInv'
<1> USE DEF QuietInv, QuietAfterStop, instVars, lifeVars, decoderVars
<1>1. CASE Begin
      BY <1>1 DEF Begin
<1>2. CASE Sleep \/ Rouse \/ Exit
      BY <1>2 DEF Sleep, Rouse, Exit
<1>3. CASE Test
      BY <1>3 DEF Test, Working
<1>4. CASE Work \/ GiveUpWork
      BY <1>4 DEF Work, GiveUpWork
<1>5. QED BY <1>1, <1>2, <1>3, <1>4 DEF Thread

\* Nor does a wake-up: it can hide a thread at work behind ONCALL, no more.
LEMMA QuietWakers ==
    ASSUME QuietInv,
           \/ NewImage \/ TaskReport
           \/ \E w \in Waker : WakeTest(w) \/ WakeWrite(w)
    PROVE  QuietInv'
BY DEF QuietInv, QuietAfterStop, NewImage, TaskReport, WakeTest, WakeWrite,
       threadVars, instVars, lifeVars, decoderVars

\* The calls that let the instance work forget that it was stopped.
LEMMA QuietCalls ==
    ASSUME QuietInv, Start \/ PauseOrResume \/ BeginCall \/ ResumeSystem
    PROVE  QuietInv'
<1> USE DEF QuietInv, QuietAfterStop, NoCall, Call, threadVars
<1>1. CASE Start \/ ResumeSystem
      BY <1>1 DEF Start, ResumeSystem
<1>2. CASE PauseOrResume
      BY <1>2 DEF PauseOrResume
<1>3. CASE BeginCall
  <2>1. ctl'.at # "wait"
        BY <1>3 DEF BeginCall, StopFirst
  <2>2. QED BY <1>3, <2>1 DEF BeginCall
<1>4. QED BY <1>1, <1>2, <1>3

\* The steps of a call write inst_state before they watch thread_state.
LEMMA QuietCallStep ==
    ASSUME QuietInv, CallStep
    PROVE  QuietInv'
<1> USE DEF QuietInv, QuietAfterStop, NoCall, Call, Goes, threadVars, instVars
<1>1. CASE StopDecoder \/ SuspendDecoder
      BY <1>1 DEF StopDecoder, SuspendDecoder
<1>2. CASE Halt
      BY <1>2 DEF Halt, Halted
<1>3. CASE StopThread
      BY <1>3 DEF StopThread
<1>4. CASE Restart
      BY <1>4 DEF Restart
<1>5. CASE Unlist \/ Detach \/ KthreadStop \/ Free
      BY <1>5 DEF Unlist, Detach, KthreadStop, Free
<1>6. QED BY <1>1, <1>2, <1>3, <1>4, <1>5 DEF CallStep

\* A stop that returned success has found the thread out of work, whatever
\* wake-ups, images, suspends and resets there are (processor_stop_thread,
\* processor_thread), unless a wake-up wrote ONCALL over RUNNING.
THEOREM StoppedIsQuiet == Spec => []QuietAfterStop
<1>1. QuietInv /\ [Next]_vars => QuietInv'
  <2> SUFFICES ASSUME QuietInv, [Next]_vars PROVE QuietInv'
      OBVIOUS
  <2>1. CASE UNCHANGED vars
        BY <2>1 DEF vars, threadVars, instVars, QuietInv, QuietAfterStop
  <2>2. QED BY <2>1, QuietThread, QuietWakers, QuietCalls, QuietCallStep DEF Next
<1>2. QuietInv => QuietAfterStop
      BY DEF QuietInv
<1>3. QED BY QuietInit, <1>1, <1>2, PTL DEF Spec
=============================================================================
