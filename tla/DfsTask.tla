------------------------------ MODULE DfsTask -------------------------------
(***************************************************************************)
(* Dynamic frame stores: how a decoder that has met a new sequence gets    *)
(* the memory it asks for (EVNT_NEED_ARRANGE) and goes on.  Five parties   *)
(* hand dfs_alloc_flag of a channel round without a lock: the firmware's   *)
(* event (omxvdec/decoder_vfmw.c), the one task thread of the device       *)
(* (omxvdec/task.c), the channel's processor thread                        *)
(* (omxvdec/processor_bpp.c), and the client's calls that insert and fill  *)
(* output buffers (omxvdec/channel.c).  A release takes the channel away   *)
(* from under them.                                                        *)
(*                                                                         *)
(* The client is that of tests/vdec_test.c: it replaces its output buffers *)
(* when it is told of a new size, and only then.                           *)
(***************************************************************************)
EXTENDS Naturals, FiniteSets

CONSTANTS
    Chan,           \* the channels of the device
    Native,         \* those with path_mode = PATH_MODE_NATIVE
    None,           \* HI_NULL
    Frames,         \* max_frm_num: output buffers of a channel
    MaxAsk          \* bound on the requests of all channels

ASSUME DfsAssumption ==
    /\ IsFiniteSet(Chan) /\ Native \subseteq Chan /\ None \notin Chan
    /\ Frames \in Nat \ {0} /\ MaxAsk \in Nat

VARIABLES
    dfs_alloc_flag,
    chan_list,          \* the channels in omxvdec->chan_list
    place,              \* and their order there: that of their creation
    life,               \* how far the release of a channel has come
    working,            \* channel and processor are in state WORK
    decoder,            \* what the firmware does with the channel's stream
    asks,               \* requests so far
    event,              \* channel whose request is being reported
    fits,               \* the buffers of the channel fit its seq_info
    bound,              \* output stores bound since the channel last asked
    output_buf_num,
    reporting,          \* the processor thread reports the new size
    filling,            \* where channel_fill_this_frame is
    size_msg, fail_msg, \* what the client was told
    task_state, pserve_chan, called, found,
    tpc,                \* where the task is
    should_stop,
    lost                \* history: the requests that the code has lost

channelVars == <<chan_list, place, life, working>>
decoderVars == <<decoder, asks, event, fits>>
clientVars == <<output_buf_num, filling, size_msg>>
taskVars == <<task_state, pserve_chan, called, found, tpc>>
vars == <<dfs_alloc_flag, channelVars, decoderVars, bound, clientVars, reporting,
          fail_msg, taskVars, should_stop, lost>>

SetFlag(c, f) == dfs_alloc_flag' = [dfs_alloc_flag EXCEPT ![c] = f]
Set(f, c, x) == [f EXCEPT ![c] = x]
Waiting(c) == decoder[c] = "waiting"
Alive(c) == life[c] = "alive"
Released(c) == life[c] \in {"cancelled", "loose"}
Needy(c) == dfs_alloc_flag[c] = "DFS_WAIT_ALLOC"

\* Where the code forgets a request.  The task forgets the calls it has not
\* followed: it writes its state over TASK_STATE_ONCALL, or leaves its search at
\* a failure; the requests that are still to be reported will call again.  And
\* DFS_ALREADY_ALLOC may be written over a request the task has not taken up.
Missed == {c \in Chan : Needy(c) /\ event # c}
ForgetCall ==
    lost' = IF task_state = "TASK_STATE_ONCALL" THEN lost \cup Missed ELSE lost

AtWork == tpc \in {"serve", "drain", "bind", "activate", "mark", "fail"}
TaskHas(c) == \/ tpc = "record" /\ found = c
              \/ AtWork /\ tpc # "mark" /\ pserve_chan = c

AlreadyAlloc(c) ==
    /\ SetFlag(c, "DFS_ALREADY_ALLOC")
    /\ lost' = IF Waiting(c) /\ ~TaskHas(c) THEN lost \cup {c} ELSE lost

\* Channels that were created with buffers and started.
Init ==
    /\ dfs_alloc_flag = [c \in Chan |-> "DFS_WAIT_INIT"]
    /\ chan_list = Chan
    /\ place \in {f \in [Chan -> 1 .. Cardinality(Chan)] :
                     \A c, d \in Chan : f[c] = f[d] => c = d}
    /\ life = [c \in Chan |-> "alive"]
    /\ working = [c \in Chan |-> TRUE]
    /\ decoder = [c \in Chan |-> "decoding"]
    /\ asks = 0
    /\ event = None
    /\ fits = [c \in Chan |-> TRUE]
    /\ bound = [c \in Chan |-> 0]
    /\ output_buf_num = [c \in Chan |-> Frames]
    /\ reporting = [c \in Chan |-> FALSE]
    /\ filling = [c \in Chan |-> "idle"]
    /\ size_msg = [c \in Chan |-> FALSE]
    /\ fail_msg = [c \in Chan |-> FALSE]
    /\ task_state = "TASK_STATE_INVALID"
    /\ pserve_chan = None /\ called = FALSE /\ found = None
    /\ tpc = "top"
    /\ should_stop = FALSE
    /\ lost = {}

-----------------------------------------------------------------------------
(* The firmware: FSP_WAIT_ARRANGE until it is activated.                   *)

Asked(c) ==
    /\ decoder' = Set(decoder, c, "waiting")
    /\ asks' = asks + 1
    /\ \E b \in BOOLEAN : fits' = Set(fits, c, b)
    /\ bound' = Set(bound, c, 0)

\* The flag is written before seq_info; the task is called after it.
NeedArrange(c) ==
    /\ event = None
    /\ working[c] /\ decoder[c] = "decoding" /\ asks < MaxAsk
    /\ Asked(c)
    /\ SetFlag(c, "DFS_WAIT_ALLOC")
    /\ event' = c
    /\ UNCHANGED <<channelVars, clientVars, reporting, fail_msg, taskVars,
                   should_stop, lost>>

CallTask ==
    /\ event # None
    /\ task_state' = "TASK_STATE_ONCALL"
    /\ event' = None
    /\ UNCHANGED <<dfs_alloc_flag, channelVars, decoder, asks, fits, bound,
                   clientVars, reporting, fail_msg, pserve_chan, called, found,
                   tpc, should_stop, lost>>

\* channel_bind_mem_to_inst binds n buffers of the client, task_alloc_channel_mem
\* n frames of its own.
BindMem(c, n, ok) ==
    /\ ok => decoder[c] # "off"
    /\ bound' = IF ok THEN Set(bound, c, n) ELSE bound

Activate(c, ok) ==
    /\ ok => decoder[c] # "off"
    /\ decoder' = IF ok THEN Set(decoder, c, "decoding") ELSE decoder

-----------------------------------------------------------------------------
(* task_func_entry                                                         *)

TaskGoes(from, to) == tpc = from /\ tpc' = to

TaskSleep ==
    /\ ~should_stop
    /\ TaskGoes("top", "wait")
    /\ task_state' = "TASK_STATE_SLEEPING"
    /\ ForgetCall
    /\ UNCHANGED <<dfs_alloc_flag, channelVars, decoderVars, bound, clientVars,
                   reporting, fail_msg, pserve_chan, called, found, should_stop>>

TaskEnd ==
    /\ should_stop
    /\ TaskGoes("top", "done")
    /\ task_state' = "TASK_STATE_INVALID"
    /\ UNCHANGED <<dfs_alloc_flag, channelVars, decoderVars, bound, clientVars,
                   reporting, fail_msg, pserve_chan, called, found, should_stop,
                   lost>>

\* On call or after 500 ms.
TaskRouse ==
    /\ TaskGoes("wait", "roused")
    /\ called' = (task_state = "TASK_STATE_ONCALL")
    /\ UNCHANGED <<dfs_alloc_flag, channelVars, decoderVars, bound, clientVars,
                   reporting, fail_msg, task_state, pserve_chan, found,
                   should_stop, lost>>

\* After a time-out it does not look for work; otherwise its search comes upon
\* the requests it lost as well.
TaskRun ==
    /\ TaskGoes("roused", IF called THEN "find" ELSE "top")
    /\ task_state' = "TASK_STATE_RUNNING"
    /\ \/ called /\ lost' = {c \in lost : ~Needy(c)}
       \/ ~called /\ ForgetCall
    /\ UNCHANGED <<dfs_alloc_flag, channelVars, decoderVars, bound, clientVars,
                   reporting, fail_msg, pserve_chan, called, found, should_stop>>

First(S, c) == c \in S /\ \A d \in S : place[c] <= place[d]

Wanted_Bug == {c \in chan_list : First(chan_list, c) /\ Needy(c)}
Wanted == {c \in chan_list : Needy(c)}

\* channel_find_inst_need_wake_up: the first in the list, under channel_lock.
TaskFind ==
    /\ TaskGoes("find", "record")
    /\ \/ Wanted = {} /\ found' = None
       \/ \E c \in Wanted : First(Wanted, c) /\ found' = c
    /\ UNCHANGED <<dfs_alloc_flag, channelVars, decoderVars, bound, clientVars,
                   reporting, fail_msg, task_state, pserve_chan, called,
                   should_stop, lost>>

\* A release that looks at pserve_chan sees the channel only from here.
TaskRecord ==
    /\ TaskGoes("record", IF found = None THEN "top" ELSE "serve")
    /\ pserve_chan' = found
    /\ UNCHANGED <<dfs_alloc_flag, channelVars, decoderVars, bound, clientVars,
                   reporting, fail_msg, task_state, called, found, should_stop,
                   lost>>

\* While the event writes seq_info the task may take the buffers for fitting or
\* not whatever they are.
SeenToFit(c) == IF event = c THEN BOOLEAN ELSE {fits[c]}

FirstStep(c, fit) ==
    IF c \notin Native THEN <<"DFS_WAIT_CLEAR", "drain">>
    ELSE IF fit THEN <<"DFS_WAIT_BIND", "bind">> ELSE <<"DFS_WAIT_CLEAR", "find">>

\* task_memory_manager: task_alloc_channel_mem, task_info_channel_mem, or
\* task_report_channel_mem, which leaves the rest to the processor thread, if
\* there still is one.
TaskServe ==
    /\ tpc = "serve"
    /\ \E fit \in SeenToFit(pserve_chan) :
        LET step == FirstStep(pserve_chan, fit)
        IN  /\ SetFlag(pserve_chan, step[1])
            /\ \/ tpc' = step[2]
               \/ step[2] = "find" /\ Released(pserve_chan) /\ tpc' = "fail"
    /\ UNCHANGED <<channelVars, decoderVars, bound, clientVars, reporting,
                   fail_msg, task_state, pserve_chan, called, found, should_stop,
                   lost>>

\* The wait for the frame the processor holds, the release of the old memory
\* and the allocation of the new; the wait and the allocation can fail.
TaskDrain ==
    /\ \/ TaskGoes("drain", "bind") /\ SetFlag(pserve_chan, "DFS_WAIT_BIND")
       \/ /\ TaskGoes("drain", "fail")
          /\ \/ UNCHANGED dfs_alloc_flag
             \/ SetFlag(pserve_chan, "DFS_WAIT_BIND")
    /\ UNCHANGED <<channelVars, decoderVars, bound, clientVars, reporting,
                   fail_msg, task_state, pserve_chan, called, found, should_stop,
                   lost>>

TaskBind ==
    /\ \E ok \in BOOLEAN :
        /\ TaskGoes("bind", IF ok THEN "activate" ELSE "fail")
        /\ BindMem(pserve_chan, output_buf_num[pserve_chan], ok)
        /\ IF ok THEN SetFlag(pserve_chan, "DFS_WAIT_ACTIVATE")
                 ELSE UNCHANGED dfs_alloc_flag
    /\ UNCHANGED <<channelVars, decoderVars, clientVars, reporting, fail_msg,
                   task_state, pserve_chan, called, found, should_stop, lost>>

TaskActivate ==
    /\ \E ok \in BOOLEAN :
        /\ TaskGoes("activate", IF ok THEN "mark" ELSE "fail")
        /\ Activate(pserve_chan, ok)
    /\ UNCHANGED <<dfs_alloc_flag, channelVars, asks, event, fits, bound,
                   clientVars, reporting, fail_msg, task_state, pserve_chan,
                   called, found, should_stop, lost>>

TaskMark ==
    /\ TaskGoes("mark", "find")
    /\ AlreadyAlloc(pserve_chan)
    /\ UNCHANGED <<channelVars, decoderVars, bound, clientVars, reporting,
                   fail_msg, task_state, pserve_chan, called, found, should_stop>>

Told_Bug(c) == fail_msg
Told(c) == Set(fail_msg, c, TRUE)       \* VDEC_ERR_DYNAMIC_ALLOC_FAIL

\* The other channels that wait are left to the next call.
TaskFail ==
    /\ TaskGoes("fail", "top")
    /\ fail_msg' = Told(pserve_chan)
    /\ pserve_chan' = None
    /\ lost' = lost \cup Missed
    /\ UNCHANGED <<dfs_alloc_flag, channelVars, decoderVars, bound, clientVars,
                   reporting, task_state, called, found, should_stop>>

-----------------------------------------------------------------------------
(* The processor thread, at the end of its work: no image is left.         *)

\* processor_report_size_change_bypass: the flag first, then the message.
ReportSize(c) ==
    /\ c \in Native /\ working[c] /\ ~reporting[c]
    /\ dfs_alloc_flag[c] = "DFS_WAIT_CLEAR"
    /\ SetFlag(c, "DFS_WAIT_INSERT")
    /\ reporting' = Set(reporting, c, TRUE)
    /\ UNCHANGED <<channelVars, decoderVars, bound, clientVars, fail_msg, taskVars,
                   should_stop, lost>>

PostSize(c) ==
    /\ reporting[c]
    /\ reporting' = Set(reporting, c, FALSE)
    /\ size_msg' = Set(size_msg, c, TRUE)
    /\ UNCHANGED <<dfs_alloc_flag, channelVars, decoderVars, bound, output_buf_num,
                   filling, fail_msg, taskVars, should_stop, lost>>

-----------------------------------------------------------------------------
(* The client's calls, one after the other.                                *)

\* It is told of a new size, flushes and unbinds its output buffers.
UnbindAll(c) ==
    /\ size_msg[c] /\ Alive(c) /\ filling[c] = "idle"
    /\ size_msg' = Set(size_msg, c, FALSE)
    /\ output_buf_num' = Set(output_buf_num, c, 0)
    /\ UNCHANGED <<dfs_alloc_flag, channelVars, decoderVars, bound, filling,
                   reporting, fail_msg, taskVars, should_stop, lost>>

Room(c) == output_buf_num[c] < Frames

LastOne_Bug(n) == n = Frames - 1
LastOne(n) == n = Frames

\* channel_insert_addr_table: the last buffer binds them all.
Insert(c) ==
    /\ Alive(c) /\ filling[c] = "idle" /\ ~size_msg[c] /\ Room(c)
    /\ output_buf_num' = Set(output_buf_num, c, output_buf_num[c] + 1)
    /\ \/ /\ LastOne(output_buf_num'[c])
          /\ dfs_alloc_flag[c] = "DFS_WAIT_INSERT"
          /\ \E ok \in BOOLEAN :
                /\ BindMem(c, output_buf_num'[c], ok)
                /\ SetFlag(c, IF ok THEN "DFS_WAIT_FILL" ELSE "DFS_WAIT_BIND")
                /\ fail_msg' = IF ok THEN fail_msg ELSE Told(c)
       \/ /\ ~LastOne(output_buf_num'[c]) \/ dfs_alloc_flag[c] # "DFS_WAIT_INSERT"
          /\ UNCHANGED <<dfs_alloc_flag, bound, fail_msg>>
    /\ UNCHANGED <<channelVars, decoderVars, filling, size_msg, reporting,
                   taskVars, should_stop, lost>>

\* channel_fill_this_frame, which holds no lock: the first frame activates.
FillTest(c) ==
    /\ Alive(c) /\ filling[c] = "idle" /\ output_buf_num[c] = Frames
    /\ dfs_alloc_flag[c] = "DFS_WAIT_FILL"
    /\ filling' = Set(filling, c, "first")
    /\ UNCHANGED <<dfs_alloc_flag, channelVars, decoderVars, bound, output_buf_num,
                   size_msg, reporting, fail_msg, taskVars, should_stop, lost>>

FillFirst(c) ==
    /\ filling[c] = "first"
    /\ SetFlag(c, "DFS_WAIT_ACTIVATE")
    /\ filling' = Set(filling, c, "activate")
    /\ UNCHANGED <<channelVars, decoderVars, bound, output_buf_num, size_msg,
                   reporting, fail_msg, taskVars, should_stop, lost>>

FillActivate(c) ==
    /\ filling[c] = "activate"
    /\ \E ok \in BOOLEAN :
        /\ Activate(c, ok)
        /\ filling' = Set(filling, c, IF ok THEN "mark" ELSE "idle")
        /\ fail_msg' = IF ok THEN fail_msg ELSE Told(c)
    /\ UNCHANGED <<dfs_alloc_flag, channelVars, asks, event, fits, bound,
                   output_buf_num, size_msg, reporting, taskVars, should_stop,
                   lost>>

FillMark(c) ==
    /\ filling[c] = "mark"
    /\ filling' = Set(filling, c, "idle")
    /\ AlreadyAlloc(c)
    /\ UNCHANGED <<channelVars, decoderVars, bound, output_buf_num, size_msg,
                   reporting, fail_msg, taskVars, should_stop>>

StopOrStart(c) ==
    /\ Alive(c) /\ event # c
    /\ working' = Set(working, c, ~working[c])
    /\ UNCHANGED <<dfs_alloc_flag, chan_list, place, life, decoderVars, bound,
                   clientVars, reporting, fail_msg, taskVars, should_stop, lost>>

-----------------------------------------------------------------------------
(* channel_release_inst; the client has no other call under way.           *)

Unlist(c) ==
    /\ Alive(c) /\ event # c /\ filling[c] = "idle"
    /\ working' = Set(working, c, FALSE)
    /\ decoder' = Set(decoder, c, "off")
    /\ chan_list' = chan_list \ {c}
    /\ life' = Set(life, c, "unlisted")
    /\ UNCHANGED <<dfs_alloc_flag, place, asks, event, fits, bound, clientVars,
                   reporting, fail_msg, taskVars, should_stop, lost>>

Holds(c) == pserve_chan = c
MayGoOn_Bug(c) == "cancelled"
MayGoOn(c) ==
    IF Holds(c) \/ (tpc = "record" /\ found = c) THEN "loose" ELSE "cancelled"

\* task_cancel_inst: the task serves another channel or none; or it still
\* serves this one after half a second.  "loose" is a channel that is released
\* although the task has it: the time was over, or the task had found it and
\* not recorded it.
Cancel(c) ==
    /\ life[c] = "unlisted" /\ ~reporting[c]
    /\ life' = Set(life, c, MayGoOn(c))
    /\ UNCHANGED <<dfs_alloc_flag, chan_list, place, working, decoderVars, bound,
                   clientVars, reporting, fail_msg, taskVars, should_stop, lost>>

\* The last close: task_destroy_thread.
DestroyTask ==
    /\ chan_list = {} /\ ~should_stop
    /\ \A c \in Chan : life[c] # "unlisted"
    /\ task_state' = "TASK_STATE_ONCALL"
    /\ should_stop' = TRUE
    /\ UNCHANGED <<dfs_alloc_flag, channelVars, decoderVars, bound, clientVars,
                   reporting, fail_msg, pserve_chan, called, found, tpc, lost>>

-----------------------------------------------------------------------------
Task == \/ TaskSleep \/ TaskEnd \/ TaskRouse \/ TaskRun \/ TaskFind \/ TaskRecord
        \/ TaskServe \/ TaskDrain \/ TaskBind \/ TaskActivate \/ TaskMark \/ TaskFail
Processor(c) == ReportSize(c) \/ PostSize(c)
Client(c) == \/ UnbindAll(c) \/ Insert(c)
             \/ FillTest(c) \/ FillFirst(c) \/ FillActivate(c) \/ FillMark(c)

Next ==
    \/ CallTask \/ Task \/ DestroyTask
    \/ \E c \in Chan : \/ NeedArrange(c) \/ Processor(c) \/ Client(c)
                       \/ StopOrStart(c) \/ Unlist(c) \/ Cancel(c)

Spec == Init /\ [][Next]_vars

\* The threads are scheduled, and the client answers a new size by replacing
\* its buffers and filling one.
FairSpec ==
    /\ Spec
    /\ WF_vars(CallTask) /\ WF_vars(Task)
    /\ \A c \in Chan : WF_vars(Processor(c)) /\ WF_vars(Client(c))

-----------------------------------------------------------------------------
Flag == {"DFS_WAIT_INIT", "DFS_WAIT_ALLOC", "DFS_WAIT_CLEAR", "DFS_WAIT_INSERT",
         "DFS_WAIT_BIND", "DFS_WAIT_FILL", "DFS_WAIT_ACTIVATE", "DFS_ALREADY_ALLOC"}

TaskAt == {"top", "wait", "roused", "find", "record", "serve", "drain", "bind",
           "activate", "mark", "fail", "done"}

\* The type of the state, and that the task has a channel while it is at work.
TypeOK ==
    /\ dfs_alloc_flag \in [Chan -> Flag]
    /\ chan_list \subseteq Chan /\ place \in [Chan -> Nat]
    /\ life \in [Chan -> {"alive", "unlisted", "cancelled", "loose"}]
    /\ working \in [Chan -> BOOLEAN]
    /\ decoder \in [Chan -> {"decoding", "waiting", "off"}]
    /\ asks \in 0 .. MaxAsk
    /\ event \in Chan \cup {None}
    /\ fits \in [Chan -> BOOLEAN]
    /\ bound \in [Chan -> 0 .. Frames] /\ output_buf_num \in [Chan -> 0 .. Frames]
    /\ reporting \in [Chan -> BOOLEAN]
    /\ filling \in [Chan -> {"idle", "first", "activate", "mark"}]
    /\ size_msg \in [Chan -> BOOLEAN] /\ fail_msg \in [Chan -> BOOLEAN]
    /\ task_state \in {"TASK_STATE_INVALID", "TASK_STATE_SLEEPING",
                       "TASK_STATE_ONCALL", "TASK_STATE_RUNNING"}
    /\ pserve_chan \in Chan \cup {None} /\ found \in Chan \cup {None}
    /\ called \in BOOLEAN /\ tpc \in TaskAt /\ should_stop \in BOOLEAN
    /\ lost \subseteq Chan
    /\ AtWork => pserve_chan # None

\* The task never works on a channel whose release has seen it elsewhere; only
\* on one it had already found, or that was given up after half a second.
AtWorkIsAlive == \A c \in Chan : AtWork /\ pserve_chan = c => life[c] # "cancelled"

\* The firmware is told to go on only when it waits, and with all its stores
\* bound since it asked: task and filling client never both answer a request,
\* nor one before the last buffer is inserted.
ActivationIsDue ==
    \A c \in Chan :
        /\ Alive(c)
        /\ filling[c] = "activate" \/ (tpc = "activate" /\ pserve_chan = c)
        => Waiting(c) /\ bound[c] = Frames

\* A request reaches the task while it is still to be called for it, or is
\* called and awake, or will search again before it sleeps.
TaskKnows(c) ==
    /\ Needy(c)
    /\ \/ event = c \/ task_state = "TASK_STATE_ONCALL"
       \/ tpc = "roused" /\ called
       \/ tpc = "find" \/ (tpc = "record" /\ found # None) \/ AtWork
TasksTurn(c) == TaskKnows(c) \/ TaskHas(c)
ThreadsTurn(c) == (dfs_alloc_flag[c] = "DFS_WAIT_CLEAR" /\ c \in Native) \/ reporting[c]
ClientsTurn(c) ==
    \/ dfs_alloc_flag[c] = "DFS_WAIT_INSERT" /\ (size_msg[c] \/ output_buf_num[c] < Frames)
    \/ dfs_alloc_flag[c] = "DFS_WAIT_FILL"
    \/ filling[c] # "idle"

\* Whenever the firmware waits for its stores, it is the turn of somebody who
\* will get to know it, or the client was told of the failure, or the request
\* is one the code has lost.  It loses requests at four places and nowhere
\* else: where the task falls asleep over a call (task.c:222), where it runs
\* after a time-out over a call (task.c:224), where it leaves its search at a
\* failure of another channel (task.c:236), and where DFS_ALREADY_ALLOC comes
\* after the next request (task.c:160, channel.c:1770).
StallIsTold ==
    \A c \in Chan :
        Waiting(c) => \/ TasksTurn(c) \/ ThreadsTurn(c) \/ ClientsTurn(c)
                      \/ fail_msg[c] \/ c \in lost

\* From the moment it is made a request that the code does not lose at one of
\* these places is answered: by new stores, by a failure that the client is
\* told of, or because the channel is stopped or released.
RequestAnswered ==
    \A c \in Chan :
        (Needy(c) /\ Waiting(c)) ~>
            ~Waiting(c) \/ ~working[c] \/ fail_msg[c] \/ c \in lost

=============================================================================
