--------------------------- MODULE DfsTaskProofs ----------------------------
(***************************************************************************)
(* Proofs about DfsTask, for any channels, any number of buffers and of    *)
(* requests.  The inductive invariant says for each channel whose turn it  *)
(* is: the flag, the task's position, the processor thread's report and    *)
(* the client's progress never contradict each other, whoever comes first. *)
(***************************************************************************)
EXTENDS DfsTask, FiniteSetTheorems, TLAPS

\* The list holds the channels that are not being released; a decoder is off
\* from the release on.
ListInv ==
    \A c \in Chan :
        /\ c \in chan_list <=> life[c] = "alive"
        /\ decoder[c] = "off" <=> life[c] # "alive"

\* A channel whose release has gone on is neither found nor recorded.
CancelInv ==
    \A c \in Chan :
        life[c] = "cancelled" => /\ ~(tpc = "record" /\ found = c)
                                 /\ pserve_chan # c

\* The thread's report and the client's replacement of the buffers, in order.
ReportPhase(c) ==
    /\ reporting[c] => ~size_msg[c] /\ output_buf_num[c] = Frames
    /\ size_msg[c] => output_buf_num[c] = Frames
    /\ filling[c] = "activate" => dfs_alloc_flag[c] = "DFS_WAIT_ACTIVATE"

Replacing(c) == reporting[c] \/ size_msg[c] \/ output_buf_num[c] < Frames
Busy(c) == Replacing(c) \/ filling[c] = "activate"

\* Task and client are never both at it.
TaskPhase(c) ==
    TaskHas(c) => /\ ~Busy(c)
                  /\ dfs_alloc_flag[c] \in
                        {"DFS_WAIT_ALLOC", "DFS_WAIT_CLEAR", "DFS_WAIT_BIND",
                         "DFS_WAIT_ACTIVATE", "DFS_ALREADY_ALLOC"}
                  /\ dfs_alloc_flag[c] = "DFS_WAIT_CLEAR" => c \notin Native
                  /\ Waiting(c)
                  /\ tpc = "record" =>
                        dfs_alloc_flag[c] \in {"DFS_WAIT_ALLOC", "DFS_ALREADY_ALLOC"}
                  /\ tpc = "activate" =>
                        /\ bound[c] = Frames
                        /\ dfs_alloc_flag[c] \in {"DFS_WAIT_ACTIVATE", "DFS_ALREADY_ALLOC"}

\* Between the activation and its mark another request may come, but nobody
\* takes it up.
MarkPhase(c) ==
    tpc = "mark" /\ pserve_chan = c =>
        /\ ~Busy(c)
        /\ dfs_alloc_flag[c] \in
              {"DFS_WAIT_ALLOC", "DFS_WAIT_ACTIVATE", "DFS_ALREADY_ALLOC"}

\* What each value of the flag means.
FlagPhase(c) ==
    /\ decoder[c] = "decoding" =>
          /\ ~Busy(c)
          /\ dfs_alloc_flag[c] \in
                {"DFS_WAIT_INIT", "DFS_WAIT_ACTIVATE", "DFS_ALREADY_ALLOC"}
    /\ dfs_alloc_flag[c] = "DFS_WAIT_INIT" => ~Waiting(c)
    /\ Needy(c) => ~Busy(c)
    /\ dfs_alloc_flag[c] = "DFS_WAIT_CLEAR" =>
          ~Busy(c) /\ (c \in Native \/ TaskHas(c) \/ fail_msg[c])
    /\ dfs_alloc_flag[c] = "DFS_WAIT_INSERT" => Replacing(c) /\ filling[c] # "activate"
    /\ dfs_alloc_flag[c] = "DFS_WAIT_BIND" => TaskHas(c) \/ fail_msg[c]
    /\ dfs_alloc_flag[c] = "DFS_WAIT_FILL" =>
          ~Busy(c) /\ bound[c] = Frames /\ filling[c] \in {"idle", "first"}
    /\ dfs_alloc_flag[c] = "DFS_WAIT_ACTIVATE" /\ Waiting(c) =>
          TaskHas(c) \/ fail_msg[c] \/ filling[c] # "idle"
    /\ filling[c] = "activate" => bound[c] = Frames /\ ~Replacing(c)
    /\ filling[c] = "first" => dfs_alloc_flag[c] = "DFS_WAIT_FILL"

Phase(c) == ReportPhase(c) /\ TaskPhase(c) /\ MarkPhase(c) /\ FlagPhase(c)
PhaseInv == \A c \in chan_list : Phase(c)

\* The task ends only when no channel is left.
StopInv == should_stop => chan_list = {}

\* A request that waits at the task's is known to it or lost; a waiting decoder
\* whose flag says that it has its stores was told, or is the task's, or lost.
Reaches(c) == Needy(c) /\ Waiting(c) => TaskKnows(c) \/ c \in lost
Marked(c) ==
    dfs_alloc_flag[c] = "DFS_ALREADY_ALLOC" /\ Waiting(c) =>
        TaskHas(c) \/ fail_msg[c] \/ c \in lost
KnowInv == \A c \in chan_list : Reaches(c) /\ Marked(c)

Inv == TypeOK /\ ListInv /\ CancelInv /\ PhaseInv /\ StopInv /\ KnowInv

-----------------------------------------------------------------------------
(* Every action keeps each part of the invariant.                          *)

LEMMA TypeStep ==
    ASSUME TypeOK, [Next]_vars
    PROVE  TypeOK'
<1> USE DfsAssumption
  DEF vars, channelVars, decoderVars, clientVars, taskVars,
      TypeOK, TaskAt, Flag, AtWork
<1>1. CASE CallTask
    BY <1>1 DEF CallTask
<1>2. CASE TaskSleep
    BY <1>2 DEF TaskSleep, TaskGoes, ForgetCall, Missed
<1>3. CASE TaskEnd
    BY <1>3 DEF TaskEnd, TaskGoes
<1>4. CASE TaskRouse
    BY <1>4 DEF TaskRouse, TaskGoes
<1>5. CASE TaskRun
    BY <1>5 DEF TaskRun, TaskGoes, ForgetCall, Missed
<1>6. CASE TaskFind
    BY <1>6 DEF TaskFind, TaskGoes, Wanted, First, Needy
<1>7. CASE TaskRecord
    BY <1>7 DEF TaskRecord, TaskGoes
<1>8. CASE TaskServe
    BY <1>8 DEF TaskServe, FirstStep, SeenToFit, SetFlag, Released
<1>9. CASE TaskDrain
    BY <1>9 DEF TaskDrain, TaskGoes, SetFlag
<1>10. CASE TaskBind
    BY <1>10 DEF TaskBind, TaskGoes, BindMem, SetFlag, Set
<1>11. CASE TaskActivate
    BY <1>11 DEF TaskActivate, TaskGoes, Activate, Set
<1>12. CASE TaskMark
    BY <1>12 DEF TaskMark, TaskGoes, AlreadyAlloc, SetFlag
<1>13. CASE TaskFail
    BY <1>13 DEF TaskFail, TaskGoes, Told, Set, Missed
<1>14. CASE DestroyTask
    BY <1>14 DEF DestroyTask
<1>15. ASSUME NEW c \in Chan, NeedArrange(c) PROVE TypeOK'
    BY <1>15 DEF NeedArrange, Asked, SetFlag, Set
<1>16. ASSUME NEW c \in Chan, ReportSize(c) PROVE TypeOK'
    BY <1>16 DEF ReportSize, SetFlag, Set
<1>17. ASSUME NEW c \in Chan, PostSize(c) PROVE TypeOK'
    BY <1>17 DEF PostSize, Set
<1>18. ASSUME NEW c \in Chan, UnbindAll(c) PROVE TypeOK'
    BY <1>18 DEF UnbindAll, Set, Alive
<1>19. ASSUME NEW c \in Chan, Insert(c) PROVE TypeOK'
  <2>1. output_buf_num[c] + 1 \in 0 .. Frames
    BY <1>19 DEF Insert, Room
  <2>2. output_buf_num' \in [Chan -> 0 .. Frames]
    BY <1>19, <2>1 DEF Insert, Set
  <2>3. /\ bound' \in [Chan -> 0 .. Frames]
        /\ dfs_alloc_flag' \in [Chan -> Flag]
        /\ fail_msg' \in [Chan -> BOOLEAN]
    <3>1. CASE \E ok \in BOOLEAN :
                  /\ BindMem(c, output_buf_num'[c], ok)
                  /\ SetFlag(c, IF ok THEN "DFS_WAIT_FILL" ELSE "DFS_WAIT_BIND")
                  /\ fail_msg' = IF ok THEN fail_msg ELSE Told(c)
      <4>1. PICK ok \in BOOLEAN :
                  /\ BindMem(c, output_buf_num'[c], ok)
                  /\ SetFlag(c, IF ok THEN "DFS_WAIT_FILL" ELSE "DFS_WAIT_BIND")
                  /\ fail_msg' = IF ok THEN fail_msg ELSE Told(c)
        BY <3>1
      <4>2. output_buf_num'[c] \in 0 .. Frames
        BY <2>2
      <4>3. bound' \in [Chan -> 0 .. Frames]
        BY <4>1, <4>2 DEF BindMem, Set
      <4>4. dfs_alloc_flag' \in [Chan -> Flag]
        BY <4>1 DEF SetFlag
      <4>5. fail_msg' \in [Chan -> BOOLEAN]
        BY <4>1 DEF Told, Set
      <4> QED
        BY <4>3, <4>4, <4>5
    <3>2. CASE UNCHANGED <<dfs_alloc_flag, bound, fail_msg>>
      BY <3>2
    <3> QED
      BY <1>19, <3>1, <3>2 DEF Insert
  <2>4. UNCHANGED <<channelVars, decoderVars, filling, size_msg, reporting, taskVars,
                    should_stop, lost>>
    BY <1>19 DEF Insert
  <2>5. /\ (life \in [Chan -> {"alive", "unlisted", "cancelled", "loose"}])'
        /\ (decoder \in [Chan -> {"decoding", "waiting", "off"}])'
        /\ (filling \in [Chan -> {"idle", "first", "activate", "mark"}])'
        /\ (AtWork => pserve_chan # None)'
    BY <2>4
  <2> QED
    BY <2>2, <2>3, <2>4, <2>5
<1>20. ASSUME NEW c \in Chan, FillFirst(c) PROVE TypeOK'
    BY <1>20 DEF FillFirst, Set, SetFlag, Alive
<1>21. ASSUME NEW c \in Chan, FillActivate(c) PROVE TypeOK'
    BY <1>21 DEF FillActivate, Set, Activate, Told
<1>22. ASSUME NEW c \in Chan, FillMark(c) PROVE TypeOK'
    BY <1>22 DEF FillMark, Set, AlreadyAlloc, SetFlag
<1>23. ASSUME NEW c \in Chan, StopOrStart(c) PROVE TypeOK'
    BY <1>23 DEF StopOrStart, Set, Alive
<1>24. ASSUME NEW c \in Chan, Unlist(c) PROVE TypeOK'
    BY <1>24 DEF Unlist, Set, Alive
<1>25. ASSUME NEW c \in Chan, Cancel(c) PROVE TypeOK'
    BY <1>25 DEF Cancel, Set, MayGoOn, Holds
<1>26. CASE UNCHANGED vars
    BY <1>26
<1>27. ASSUME NEW c \in Chan, FillTest(c) PROVE TypeOK'
    BY <1>27 DEF FillTest, Set, Alive
<1> QED
    BY <1>1, <1>2, <1>3, <1>4, <1>5, <1>6, <1>7, <1>8, <1>9, <1>10, <1>11, <1>12, <1>13, <1>14, <1>15, <1>16, <1>17, <1>18, <1>19, <1>20, <1>21, <1>22, <1>23, <1>24, <1>25, <1>26, <1>27
    DEF Next, Task, Processor, Client

LEMMA ListStep ==
    ASSUME TypeOK, ListInv, [Next]_vars
    PROVE  ListInv'
<1> USE DfsAssumption
  DEF vars, channelVars, decoderVars, clientVars, taskVars,
      ListInv, TypeOK, TaskAt, Flag, AtWork
<1>1. CASE CallTask
    BY <1>1 DEF CallTask
<1>2. CASE TaskSleep
    BY <1>2 DEF TaskSleep, TaskGoes, ForgetCall, Missed
<1>3. CASE TaskEnd
    BY <1>3 DEF TaskEnd, TaskGoes
<1>4. CASE TaskRouse
    BY <1>4 DEF TaskRouse, TaskGoes
<1>5. CASE TaskRun
    BY <1>5 DEF TaskRun, TaskGoes, ForgetCall, Missed
<1>6. CASE TaskFind
    BY <1>6 DEF TaskFind, TaskGoes, Wanted, First, Needy
<1>7. CASE TaskRecord
    BY <1>7 DEF TaskRecord, TaskGoes
<1>8. CASE TaskServe
    BY <1>8 DEF TaskServe, FirstStep, SeenToFit, SetFlag, Released
<1>9. CASE TaskDrain
    BY <1>9 DEF TaskDrain, TaskGoes, SetFlag
<1>10. CASE TaskBind
    BY <1>10 DEF TaskBind, TaskGoes, BindMem, SetFlag, Set
<1>11. CASE TaskActivate
    BY <1>11 DEF TaskActivate, TaskGoes, Activate, Set
<1>12. CASE TaskMark
    BY <1>12 DEF TaskMark, TaskGoes, AlreadyAlloc, SetFlag
<1>13. CASE TaskFail
    BY <1>13 DEF TaskFail, TaskGoes, Told, Set, Missed
<1>14. CASE DestroyTask
    BY <1>14 DEF DestroyTask
<1>15. ASSUME NEW c \in Chan, NeedArrange(c) PROVE ListInv'
    BY <1>15 DEF NeedArrange, Asked, SetFlag, Set
<1>16. ASSUME NEW c \in Chan, ReportSize(c) PROVE ListInv'
    BY <1>16 DEF ReportSize, SetFlag, Set
<1>17. ASSUME NEW c \in Chan, PostSize(c) PROVE ListInv'
    BY <1>17 DEF PostSize, Set
<1>18. ASSUME NEW c \in Chan, UnbindAll(c) PROVE ListInv'
    BY <1>18 DEF UnbindAll, Set, Alive
<1>19. ASSUME NEW c \in Chan, Insert(c) PROVE ListInv'
    BY <1>19 DEF Insert, Set, SetFlag, BindMem, Told, LastOne, Room, Alive
<1>20. ASSUME NEW c \in Chan, FillFirst(c) PROVE ListInv'
    BY <1>20 DEF FillFirst, Set, SetFlag, Alive
<1>21. ASSUME NEW c \in Chan, FillActivate(c) PROVE ListInv'
    BY <1>21 DEF FillActivate, Set, Activate, Told
<1>22. ASSUME NEW c \in Chan, FillMark(c) PROVE ListInv'
    BY <1>22 DEF FillMark, Set, AlreadyAlloc, SetFlag
<1>23. ASSUME NEW c \in Chan, StopOrStart(c) PROVE ListInv'
    BY <1>23 DEF StopOrStart, Set, Alive
<1>24. ASSUME NEW c \in Chan, Unlist(c) PROVE ListInv'
    BY <1>24 DEF Unlist, Set, Alive
<1>25. ASSUME NEW c \in Chan, Cancel(c) PROVE ListInv'
    BY <1>25 DEF Cancel, Set, MayGoOn, Holds
<1>26. CASE UNCHANGED vars
    BY <1>26
<1>27. ASSUME NEW c \in Chan, FillTest(c) PROVE ListInv'
    BY <1>27 DEF FillTest, Set, Alive
<1> QED
    BY <1>1, <1>2, <1>3, <1>4, <1>5, <1>6, <1>7, <1>8, <1>9, <1>10, <1>11, <1>12, <1>13, <1>14, <1>15, <1>16, <1>17, <1>18, <1>19, <1>20, <1>21, <1>22, <1>23, <1>24, <1>25, <1>26, <1>27
    DEF Next, Task, Processor, Client

LEMMA CancelStep ==
    ASSUME TypeOK, ListInv, CancelInv, [Next]_vars
    PROVE  CancelInv'
<1> USE DfsAssumption
  DEF vars, channelVars, decoderVars, clientVars, taskVars,
      CancelInv, ListInv, TypeOK, TaskAt, AtWork
<1>1. CASE CallTask
    BY <1>1 DEF CallTask
<1>2. CASE TaskSleep
    BY <1>2 DEF TaskSleep, TaskGoes, ForgetCall, Missed
<1>3. CASE TaskEnd
    BY <1>3 DEF TaskEnd, TaskGoes
<1>4. CASE TaskRouse
    BY <1>4 DEF TaskRouse, TaskGoes
<1>5. CASE TaskRun
    BY <1>5 DEF TaskRun, TaskGoes, ForgetCall, Missed
<1>6. CASE TaskFind
    BY <1>6 DEF TaskFind, TaskGoes, Wanted, First, Needy
<1>7. CASE TaskRecord
    BY <1>7 DEF TaskRecord, TaskGoes
<1>8. CASE TaskServe
    BY <1>8 DEF TaskServe, FirstStep, SeenToFit, SetFlag, Released
<1>9. CASE TaskDrain
    BY <1>9 DEF TaskDrain, TaskGoes, SetFlag
<1>10. CASE TaskBind
    BY <1>10 DEF TaskBind, TaskGoes, BindMem, SetFlag, Set
<1>11. CASE TaskActivate
    BY <1>11 DEF TaskActivate, TaskGoes, Activate, Set
<1>12. CASE TaskMark
    BY <1>12 DEF TaskMark, TaskGoes, AlreadyAlloc, SetFlag
<1>13. CASE TaskFail
    BY <1>13 DEF TaskFail, TaskGoes, Told, Set, Missed
<1>14. CASE DestroyTask
    BY <1>14 DEF DestroyTask
<1>15. ASSUME NEW c \in Chan, NeedArrange(c) PROVE CancelInv'
    BY <1>15 DEF NeedArrange, Asked, SetFlag, Set
<1>16. ASSUME NEW c \in Chan, ReportSize(c) PROVE CancelInv'
    BY <1>16 DEF ReportSize, SetFlag, Set
<1>17. ASSUME NEW c \in Chan, PostSize(c) PROVE CancelInv'
    BY <1>17 DEF PostSize, Set
<1>18. ASSUME NEW c \in Chan, UnbindAll(c) PROVE CancelInv'
    BY <1>18 DEF UnbindAll, Set, Alive
<1>19. ASSUME NEW c \in Chan, Insert(c) PROVE CancelInv'
    BY <1>19 DEF Insert, Set, SetFlag, BindMem, Told, LastOne, Room, Alive
<1>20. ASSUME NEW c \in Chan, FillFirst(c) PROVE CancelInv'
    BY <1>20 DEF FillFirst, Set, SetFlag, Alive
<1>21. ASSUME NEW c \in Chan, FillActivate(c) PROVE CancelInv'
    BY <1>21 DEF FillActivate, Set, Activate, Told
<1>22. ASSUME NEW c \in Chan, FillMark(c) PROVE CancelInv'
    BY <1>22 DEF FillMark, Set, AlreadyAlloc, SetFlag
<1>23. ASSUME NEW c \in Chan, StopOrStart(c) PROVE CancelInv'
    BY <1>23 DEF StopOrStart, Set, Alive
<1>24. ASSUME NEW c \in Chan, Unlist(c) PROVE CancelInv'
    BY <1>24 DEF Unlist, Set, Alive
<1>25. ASSUME NEW c \in Chan, Cancel(c) PROVE CancelInv'
    BY <1>25 DEF Cancel, Set, MayGoOn, Holds
<1>26. CASE UNCHANGED vars
    BY <1>26
<1>27. ASSUME NEW c \in Chan, FillTest(c) PROVE CancelInv'
    BY <1>27 DEF FillTest, Set, Alive
<1> QED
    BY <1>1, <1>2, <1>3, <1>4, <1>5, <1>6, <1>7, <1>8, <1>9, <1>10, <1>11, <1>12, <1>13, <1>14, <1>15, <1>16, <1>17, <1>18, <1>19, <1>20, <1>21, <1>22, <1>23, <1>24, <1>25, <1>26, <1>27
    DEF Next, Task, Processor, Client

LEMMA NoRoom ==
    ASSUME NEW n \in 0 .. Frames, ~(n < Frames)
    PROVE  n = Frames
    BY DfsAssumption

LEMMA PhaseStep ==
    ASSUME Inv, [Next]_vars
    PROVE  PhaseInv'
<1> USE DfsAssumption
  DEF vars, channelVars, decoderVars, clientVars, taskVars,
      Inv, ListInv, TypeOK, TaskAt, Flag, AtWork,
      PhaseInv, Phase, ReportPhase, TaskPhase, MarkPhase, FlagPhase,
      TaskHas, Busy, Replacing, Waiting, Needy
<1>1. CASE CallTask
    BY <1>1 DEF CallTask
<1>2. CASE TaskSleep
    BY <1>2 DEF TaskSleep, TaskGoes, ForgetCall, Missed
<1>3. CASE TaskEnd
    BY <1>3 DEF TaskEnd, TaskGoes
<1>4. CASE TaskRouse
    BY <1>4 DEF TaskRouse, TaskGoes
<1>5. CASE TaskRun
    BY <1>5 DEF TaskRun, TaskGoes, ForgetCall, Missed
<1>6. CASE TaskFind
    BY <1>6 DEF TaskFind, TaskGoes, Wanted, First, Needy
<1>7. CASE TaskRecord
    BY <1>7 DEF TaskRecord, TaskGoes
<1>8. CASE TaskServe
    BY <1>8 DEF TaskServe, FirstStep, SeenToFit, SetFlag, Released
<1>9. CASE TaskDrain
    BY <1>9 DEF TaskDrain, TaskGoes, SetFlag
<1>10. CASE TaskBind
    BY <1>10 DEF TaskBind, TaskGoes, BindMem, SetFlag, Set
<1>11. CASE TaskActivate
    BY <1>11 DEF TaskActivate, TaskGoes, Activate, Set
<1>12. CASE TaskMark
    BY <1>12 DEF TaskMark, TaskGoes, AlreadyAlloc, SetFlag
<1>13. CASE TaskFail
    BY <1>13 DEF TaskFail, TaskGoes, Told, Set, Missed
<1>14. CASE DestroyTask
    BY <1>14 DEF DestroyTask
<1>15. ASSUME NEW c \in Chan, NeedArrange(c) PROVE PhaseInv'
    BY <1>15 DEF NeedArrange, Asked, SetFlag, Set
<1>16. ASSUME NEW c \in Chan, ReportSize(c) PROVE PhaseInv'
  <2>1. /\ c \in Native /\ dfs_alloc_flag[c] = "DFS_WAIT_CLEAR"
        /\ dfs_alloc_flag' = [dfs_alloc_flag EXCEPT ![c] = "DFS_WAIT_INSERT"]
        /\ reporting' = [reporting EXCEPT ![c] = TRUE]
        /\ UNCHANGED <<channelVars, decoderVars, bound, clientVars, fail_msg,
                       taskVars, should_stop>>
    BY <1>16 DEF ReportSize, SetFlag, Set
  <2>2. ASSUME NEW d \in chan_list, d # c PROVE Phase(d)'
    <3>1. d \in Chan /\ Phase(d)
      BY DEF PhaseInv
    <3>2. dfs_alloc_flag'[d] = dfs_alloc_flag[d] /\ reporting'[d] = reporting[d]
      BY <2>1, <2>2, <3>1
    <3>3. ReportPhase(d)' /\ MarkPhase(d)'
      BY <2>1, <3>1, <3>2
    <3>4. TaskPhase(d)'
      BY <2>1, <3>1, <3>2
    <3>5. FlagPhase(d)'
      BY <2>1, <3>1, <3>2
    <3> QED
      BY <3>3, <3>4, <3>5
  <2>3. ASSUME c \in chan_list PROVE Phase(c)'
    <3>1. Phase(c)
      BY <2>3 DEF PhaseInv
    <3>2. ~Busy(c) /\ ~TaskHas(c)
      BY <2>1, <3>1
    <3>3. /\ dfs_alloc_flag'[c] = "DFS_WAIT_INSERT" /\ reporting'[c]
          /\ decoder[c] # "decoding" /\ filling[c] # "first"
      BY <2>1, <3>1
    <3>4. ReportPhase(c)'
      <4>1. ~reporting[c] /\ ~size_msg[c] /\ filling[c] # "activate"
        BY <3>2
      <4>2. output_buf_num[c] \in 0 .. Frames /\ ~(output_buf_num[c] < Frames)
        BY <3>2
      <4>3. output_buf_num[c] = Frames
        BY <4>2, NoRoom
      <4>4. UNCHANGED <<size_msg, output_buf_num, filling>>
        BY <2>1
      <4>5. ~size_msg'[c] /\ output_buf_num'[c] = Frames /\ filling'[c] # "activate"
        BY <4>1, <4>3, <4>4
      <4> QED
        BY <4>5 DEF ReportPhase
    <3>5. TaskPhase(c)' /\ MarkPhase(c)'
      BY <2>1, <3>1, <3>2
    <3>6. FlagPhase(c)'
      BY <2>1, <3>2, <3>3
    <3> QED
      BY <3>4, <3>5, <3>6
  <2> QED
    BY <2>1, <2>2, <2>3
<1>17. ASSUME NEW c \in Chan, PostSize(c) PROVE PhaseInv'
    BY <1>17 DEF PostSize, Set
<1>18. ASSUME NEW c \in Chan, UnbindAll(c) PROVE PhaseInv'
    BY <1>18 DEF UnbindAll, Set, Alive
<1>19. ASSUME NEW c \in Chan, Insert(c) PROVE PhaseInv'
    BY <1>19 DEF Insert, Set, SetFlag, BindMem, Told, LastOne, Room, Alive
<1>20. ASSUME NEW c \in Chan, FillFirst(c) PROVE PhaseInv'
    BY <1>20 DEF FillFirst, Set, SetFlag, Alive
<1>21. ASSUME NEW c \in Chan, FillActivate(c) PROVE PhaseInv'
    BY <1>21 DEF FillActivate, Set, Activate, Told
<1>22. ASSUME NEW c \in Chan, FillMark(c) PROVE PhaseInv'
    BY <1>22 DEF FillMark, Set, AlreadyAlloc, SetFlag
<1>23. ASSUME NEW c \in Chan, StopOrStart(c) PROVE PhaseInv'
    BY <1>23 DEF StopOrStart, Set, Alive
<1>24. ASSUME NEW c \in Chan, Unlist(c) PROVE PhaseInv'
    BY <1>24 DEF Unlist, Set, Alive
<1>25. ASSUME NEW c \in Chan, Cancel(c) PROVE PhaseInv'
    BY <1>25 DEF Cancel, Set, MayGoOn, Holds
<1>26. CASE UNCHANGED vars
    BY <1>26
<1>27. ASSUME NEW c \in Chan, FillTest(c) PROVE PhaseInv'
    BY <1>27 DEF FillTest, Set, Alive
<1> QED
    BY <1>1, <1>2, <1>3, <1>4, <1>5, <1>6, <1>7, <1>8, <1>9, <1>10, <1>11, <1>12, <1>13, <1>14, <1>15, <1>16, <1>17, <1>18, <1>19, <1>20, <1>21, <1>22, <1>23, <1>24, <1>25, <1>26, <1>27
    DEF Next, Task, Processor, Client

LEMMA StopStep ==
    ASSUME StopInv, [Next]_vars
    PROVE  StopInv'
<1> USE DEF StopInv, vars, channelVars, decoderVars, clientVars, taskVars
<1>1. CASE UNCHANGED should_stop /\ UNCHANGED chan_list
    BY <1>1
<1>2. CASE DestroyTask
    BY <1>2 DEF DestroyTask
<1>3. ASSUME NEW c \in Chan, Unlist(c) PROVE StopInv'
    BY <1>3 DEF Unlist
<1>4. CASE Task
    BY <1>1, <1>4
    DEF Task, TaskSleep, TaskEnd, TaskRouse, TaskRun, TaskFind, TaskRecord, TaskServe,
        TaskDrain, TaskBind, TaskActivate, TaskMark, TaskFail
<1>5. ASSUME NEW c \in Chan, Processor(c) \/ Client(c) PROVE StopInv'
    BY <1>1, <1>5
    DEF Processor, ReportSize, PostSize, Client, UnbindAll, Insert, FillTest, FillFirst,
        FillActivate, FillMark
<1>6. ASSUME NEW c \in Chan, NeedArrange(c) \/ StopOrStart(c) \/ Cancel(c) PROVE StopInv'
    BY <1>1, <1>6 DEF NeedArrange, StopOrStart, Cancel
<1>7. CASE CallTask
    BY <1>1, <1>7 DEF CallTask
<1> QED
    BY <1>1, <1>2, <1>3, <1>4, <1>5, <1>6, <1>7 DEF Next

\* The requests that the task no longer knows after a step are those the step
\* adds to lost.
LEMMA KnowStep ==
    ASSUME Inv, [Next]_vars
    PROVE  KnowInv'
<1> USE DfsAssumption
  DEF vars, channelVars, decoderVars, clientVars, taskVars,
      Inv, ListInv, TypeOK, TaskAt, Flag, AtWork,
      KnowInv, Reaches, Marked, TaskKnows, TaskHas, Waiting, Needy
<1>1. CASE CallTask
    BY <1>1 DEF CallTask
<1>2. CASE TaskSleep
    BY <1>2 DEF TaskSleep, TaskGoes, ForgetCall, Missed
<1>3. CASE TaskEnd
    BY <1>3 DEF TaskEnd, TaskGoes, StopInv
<1>4. CASE TaskRouse
    BY <1>4 DEF TaskRouse, TaskGoes
<1>5. CASE TaskRun
    BY <1>5 DEF TaskRun, TaskGoes, ForgetCall, Missed
<1>6. CASE TaskFind
    BY <1>6 DEF TaskFind, TaskGoes, Wanted, First, Needy
<1>7. CASE TaskRecord
    BY <1>7 DEF TaskRecord, TaskGoes
<1>8. CASE TaskServe
    BY <1>8 DEF TaskServe, FirstStep, SeenToFit, SetFlag, Released
<1>9. CASE TaskDrain
    BY <1>9 DEF TaskDrain, TaskGoes, SetFlag
<1>10. CASE TaskBind
    BY <1>10 DEF TaskBind, TaskGoes, BindMem, SetFlag, Set
<1>11. CASE TaskActivate
    BY <1>11 DEF TaskActivate, TaskGoes, Activate, Set
<1>12. CASE TaskMark
    BY <1>12 DEF TaskMark, TaskGoes, AlreadyAlloc, SetFlag
<1>13. CASE TaskFail
    BY <1>13 DEF TaskFail, TaskGoes, Told, Set, Missed
<1>14. CASE DestroyTask
    BY <1>14 DEF DestroyTask
<1>15. ASSUME NEW c \in Chan, NeedArrange(c) PROVE KnowInv'
    BY <1>15 DEF NeedArrange, Asked, SetFlag, Set
<1>16. ASSUME NEW c \in Chan, ReportSize(c) PROVE KnowInv'
    BY <1>16 DEF ReportSize, SetFlag, Set
<1>17. ASSUME NEW c \in Chan, PostSize(c) PROVE KnowInv'
    BY <1>17 DEF PostSize, Set
<1>18. ASSUME NEW c \in Chan, UnbindAll(c) PROVE KnowInv'
    BY <1>18 DEF UnbindAll, Set, Alive
<1>19. ASSUME NEW c \in Chan, Insert(c) PROVE KnowInv'
    BY <1>19 DEF Insert, Set, SetFlag, BindMem, Told, LastOne, Room, Alive
<1>20. ASSUME NEW c \in Chan, FillFirst(c) PROVE KnowInv'
    BY <1>20 DEF FillFirst, Set, SetFlag, Alive
<1>21. ASSUME NEW c \in Chan, FillActivate(c) PROVE KnowInv'
    BY <1>21 DEF FillActivate, Set, Activate, Told
<1>22. ASSUME NEW c \in Chan, FillMark(c) PROVE KnowInv'
    BY <1>22 DEF FillMark, Set, AlreadyAlloc, SetFlag
<1>23. ASSUME NEW c \in Chan, StopOrStart(c) PROVE KnowInv'
    BY <1>23 DEF StopOrStart, Set, Alive
<1>24. ASSUME NEW c \in Chan, Unlist(c) PROVE KnowInv'
    BY <1>24 DEF Unlist, Set, Alive
<1>25. ASSUME NEW c \in Chan, Cancel(c) PROVE KnowInv'
    BY <1>25 DEF Cancel, Set, MayGoOn, Holds
<1>26. CASE UNCHANGED vars
    BY <1>26
<1>27. ASSUME NEW c \in Chan, FillTest(c) PROVE KnowInv'
    BY <1>27 DEF FillTest, Set, Alive
<1> QED
    BY <1>1, <1>2, <1>3, <1>4, <1>5, <1>6, <1>7, <1>8, <1>9, <1>10, <1>11, <1>12, <1>13, <1>14, <1>15, <1>16, <1>17, <1>18, <1>19, <1>20, <1>21, <1>22, <1>23, <1>24, <1>25, <1>26, <1>27
    DEF Next, Task, Processor, Client

-----------------------------------------------------------------------------
(* Nobody has asked yet.                                                   *)

LEMMA InitInv ==
    ASSUME Init
    PROVE  Inv
<1>1. Cardinality(Chan) \in Nat
    BY FS_CardinalityType, DfsAssumption
<1>2. place \in [Chan -> Nat]
    BY <1>1 DEF Init
<1>3. TypeOK
  <2>1. asks \in 0 .. MaxAsk /\ 0 \in 0 .. Frames /\ Frames \in 0 .. Frames
    BY DfsAssumption DEF Init
  <2> QED
    BY <1>2, <2>1 DEF Init, TypeOK, TaskAt, Flag, AtWork
<1>4. ListInv /\ CancelInv
    BY DfsAssumption DEF Init, ListInv, CancelInv
<1>5. PhaseInv
    BY DfsAssumption
    DEF Init, PhaseInv, Phase, ReportPhase, TaskPhase, MarkPhase, FlagPhase,
        TaskHas, Busy, Replacing, Waiting, Needy, AtWork
<1>6. StopInv /\ KnowInv
    BY DEF Init, StopInv, KnowInv, Reaches, Marked, Waiting
<1> QED
    BY <1>3, <1>4, <1>5, <1>6 DEF Inv

LEMMA Inductive == Spec => []Inv
<1>1. Inv /\ [Next]_vars => Inv'
    BY TypeStep, ListStep, CancelStep, PhaseStep, StopStep, KnowStep DEF Inv
<1> QED
    BY InitInv, <1>1, PTL DEF Spec

-----------------------------------------------------------------------------
(* The theorems.                                                           *)

\* Whatever the interleaving, the variables keep their types, no more buffers
\* are inserted than a channel has room for, and the task, while it is at work,
\* has a channel (omxvdec/task.c, omxvdec/channel.c).
THEOREM TypeCorrect == Spec => []TypeOK
<1>1. Inv => TypeOK
    BY DEF Inv
<1> QED
    BY Inductive, <1>1, PTL

\* task_cancel_inst keeps its promise to a release that did not run out of time
\* and found the task elsewhere: the task does not touch that channel again.
THEOREM ReleaseKeepsTaskOff == Spec => []AtWorkIsAlive
<1>1. Inv => AtWorkIsAlive
    BY DEF Inv, CancelInv, AtWorkIsAlive
<1> QED
    BY Inductive, <1>1, PTL

\* Task and filling client never answer the same request, and neither activates
\* the decoder before every store is bound (task_info_channel_mem,
\* channel_fill_this_frame).
THEOREM ActivationCorrect == Spec => []ActivationIsDue
<1>1. Inv => ActivationIsDue
  <2> SUFFICES ASSUME Inv, NEW c \in Chan, Alive(c),
                      filling[c] = "activate" \/ (tpc = "activate" /\ pserve_chan = c)
               PROVE  Waiting(c) /\ bound[c] = Frames
    BY DEF ActivationIsDue
  <2>1. Phase(c) /\ decoder[c] # "off"
    BY DEF Inv, ListInv, PhaseInv, Alive
  <2> QED
    BY <2>1
    DEF Inv, TypeOK, Phase, TaskPhase, FlagPhase, TaskHas, AtWork, Waiting, Busy
<1> QED
    BY Inductive, <1>1, PTL

\* No hand-over of dfs_alloc_flag between firmware, task, processor thread and
\* client leaves the decoder waiting with nobody who gets to know it and nobody
\* told, but for the requests lost where the task forgets a call (task_func_entry)
\* or DFS_ALREADY_ALLOC comes late (task_info_channel_mem,
\* channel_fill_this_frame).
THEOREM NoSilentStall == Spec => []StallIsTold
<1>1. Inv => StallIsTold
  <2> SUFFICES ASSUME Inv, NEW c \in Chan, Waiting(c), ~fail_msg[c], c \notin lost
               PROVE  TasksTurn(c) \/ ThreadsTurn(c) \/ ClientsTurn(c)
    BY DEF StallIsTold
  <2>1. Phase(c) /\ Reaches(c) /\ Marked(c)
    BY DEF Inv, ListInv, PhaseInv, KnowInv, Waiting
  <2>2. CASE Needy(c)
    BY <2>1, <2>2 DEF Reaches, TasksTurn
  <2>3. CASE dfs_alloc_flag[c] = "DFS_ALREADY_ALLOC"
    BY <2>1, <2>3 DEF Marked, TasksTurn
  <2>4. CASE ~Needy(c) /\ dfs_alloc_flag[c] # "DFS_ALREADY_ALLOC"
    BY <2>1, <2>4, DfsAssumption
    DEF Inv, TypeOK, Flag, AtWork, Phase, ReportPhase, TaskPhase, MarkPhase, FlagPhase,
        TaskHas, Busy, Replacing, Waiting, Needy, TasksTurn, ThreadsTurn, ClientsTurn
  <2> QED
    BY <2>2, <2>3, <2>4
<1> QED
    BY Inductive, <1>1, PTL

=============================================================================
