--------------------------- MODULE InputPortProofs ---------------------------
(***************************************************************************)
(* Proofs about InputPort, for any buffers, offsets and number of slots:   *)
(* what holds whatever the client does, then what a client can rely on     *)
(* that uses only buffers it owns and waits for the answer to a flush.     *)
(***************************************************************************)
EXTENDS InputPort, ListProofs

Status == {"INVALID", "IDLE", "QUEUED", "USING"}
DoneMsg == {InputDone(b) : b \in Buf \cup {NoBuf}}
Msg == DoneMsg \cup {FlushDone}
CtlAt == {"idle", "relink", "insert", "eos", "reply", "clear"}

\* The values of the port's state.  A slot that is freed while it is linked
\* has no address any more.
EntType ==
    /\ ent \in [Entry -> [phy : Buf \cup {Eos, NoBuf}, status : Status, off : Off]]
    /\ ent[Eos].phy = Eos /\ \A s \in Slot : ent[s].phy # Eos
    /\ input_buf_num \in 0 .. MaxSlots

QueueType ==
    /\ raw_queue \in Seq(Entry)
    /\ raw_use_cnt \in Nat
    /\ input_flush_pending \in BOOLEAN /\ eos_in_list \in BOOLEAN
    /\ working \in BOOLEAN /\ taking \in BOOLEAN /\ clearing \in BOOLEAN

CtlType ==
    /\ ctl \in [at : CtlAt, slot : 0 .. MaxSlots, buf : Buf \cup {NoBuf}, eos : BOOLEAN]
    /\ ctl.at \in {"relink", "insert"} => ctl.slot \in Used
    /\ ctl.at \in {"relink", "insert", "eos", "reply"} => ctl.buf \in Buf

ClientType ==
    /\ lent \in [Address -> Nat]
    /\ msgs \in Seq(Msg)
    /\ held \subseteq Buf \cup {NoBuf}
    /\ awaited \in Int
    /\ owed \subseteq Buf \cup {Eos, NoBuf}

TypeOK == EntType /\ QueueType /\ CtlType /\ ClientType

LEMMA SlotType ==
    /\ Slot \subseteq Nat \ {0} /\ Slot \subseteq Entry /\ Eos \in Entry
    /\ Eos \notin Slot
    /\ \A n \in 0 .. MaxSlots : 1 .. n \subseteq Slot
    /\ \A n \in 1 .. MaxSlots : n \in Slot
    /\ \A n \in 0 .. MaxSlots : n < MaxSlots => n + 1 \in Slot
BY PortAssumption DEF Slot, Entry

-----------------------------------------------------------------------------
(* The operators of the model.                                             *)

LEMMA PostType ==
    ASSUME NEW S, msgs \in Seq(S), NEW ms \in Seq(S), Post(ms)
    PROVE  msgs' \in Seq(S)
<1>1. msgs \o ms \in Seq(S)
  OBVIOUS
<1>2. CASE Len(msgs \o ms) <= Depth
  BY <1>1, <1>2 DEF Post
<1>3. CASE ~(Len(msgs \o ms) <= Depth)
  <2> DEFINE all == msgs \o ms
  <2>1. all \in Seq(S) /\ Depth \in Nat /\ ~(Len(all) <= Depth)
    BY <1>1, <1>3, PortAssumption
  <2>2. msgs' = SubSeq(all, 1, Depth)
    BY <1>3 DEF Post
  <2> HIDE DEF all
  <2>3. SubSeq(all, 1, Depth) \in Seq(S)
    BY <2>1
  <2> QED
    BY <2>2, <2>3
<1> QED
  BY <1>2, <1>3

\* The messages that return the linked buffers es.
LEMMA ReturnedList ==
    ASSUME NEW es \in Seq(Entry)
    PROVE  /\ Returned(es) \in Seq({InputDone(PhyOf(s)) : s \in Slot})
           /\ ToSet(Returned(es)) = {InputDone(PhyOf(s)) : s \in ToSet(es) \cap Slot}
<1> DEFINE bufs == Keep(es, Slot)
<1>1. bufs \in Seq(Entry) /\ ToSet(bufs) = ToSet(es) \cap Slot
  BY KeepRange
<1>2. Returned(es) = [i \in DOMAIN bufs |-> InputDone(PhyOf(bufs[i]))]
  BY DEF Returned
<1> HIDE DEF bufs
<1>3. \A i \in DOMAIN bufs : bufs[i] \in Slot
  BY <1>1 DEF ToSet
<1>4. Returned(es) = [i \in 1 .. Len(bufs) |-> InputDone(PhyOf(bufs[i]))]
  BY <1>1, <1>2
<1>5. Returned(es) \in Seq({InputDone(PhyOf(s)) : s \in Slot})
  BY <1>1, <1>3, <1>4
<1>6. ToSet(Returned(es)) = {InputDone(PhyOf(s)) : s \in ToSet(bufs)}
  BY <1>2 DEF ToSet
<1> QED
  BY <1>1, <1>5, <1>6

LEMMA ReturnedType ==
    ASSUME TypeOK, NEW es \in Seq(Entry)
    PROVE  Returned(es) \in Seq(Msg)
<1>1. Returned(es) \in Seq({InputDone(PhyOf(s)) : s \in Slot})
  BY ReturnedList
<1>2. \A s \in Slot : PhyOf(s) \in Buf \cup {NoBuf}
  BY SlotType DEF TypeOK, EntType, PhyOf
<1>3. {InputDone(PhyOf(s)) : s \in Slot} \subseteq Msg
  BY <1>2 DEF Msg, DoneMsg
<1> QED
  BY <1>1, <1>3

LEMMA InitType == Init => TypeOK
<1> SUFFICES ASSUME Init PROVE TypeOK
  OBVIOUS
<1>1. \A s \in Slot : s # Eos
  BY SlotType
<1>2. EntType
  BY <1>1, PortAssumption, SlotType DEF Init, EntType, Status, Entry
<1>3. QueueType
  <2>1. <<>> \in Seq(Entry)
    OBVIOUS
  <2> QED
    BY <2>1 DEF Init, QueueType
<1>4. CtlType
  BY PortAssumption DEF Init, CtlType, Idle, CtlAt, Used
<1>5. ClientType
  BY DEF Init, ClientType
<1> QED
  BY <1>2, <1>3, <1>4, <1>5 DEF TypeOK

LEMMA EntStep ==
    ASSUME TypeOK, [Next]_vars
    PROVE  EntType'
<1> USE PortAssumption, SlotType
    DEF TypeOK, EntType, vars, portVars, Status
<1>1. ASSUME NEW b \in Buf, Bind(b) PROVE EntType'
    BY <1>1 DEF Bind
<1>2. ASSUME NEW b \in Buf, Unbind(b) PROVE EntType'
  <2>1. PICK s \in Lookup(b) :
           ent' = IF s < input_buf_num
                  THEN [ent EXCEPT ![s] = ent[input_buf_num]] ELSE ent
    BY <1>2 DEF Unbind
  <2>2. s \in Slot /\ (s < input_buf_num => input_buf_num \in Slot)
    BY DEF Lookup, Used
  <2>3. input_buf_num' = input_buf_num
    BY <1>2 DEF Unbind
  <2> QED
    BY <2>1, <2>2, <2>3
<1>3. CASE Relink
  <2>1. input_buf_num \in Slot
    BY <1>3 DEF Relink, CtlType, Used
  <2>2. /\ ent' = [ent EXCEPT ![input_buf_num] =
                     [phy |-> NoBuf, status |-> "INVALID", off |-> 0]]
        /\ input_buf_num' = input_buf_num - 1
    BY <1>3 DEF Relink
  <2> QED
    BY <2>1, <2>2 DEF Slot
<1>4. ASSUME NEW b \in Buf, NEW o \in Off, NEW e \in BOOLEAN, Empty(b, o, e) PROVE EntType'
  <2>1. input_buf_num' = input_buf_num
    BY <1>4 DEF Empty
  <2>2. \/ ent' = ent
        \/ \E s \in Lookup(b) : ent' = [ent EXCEPT ![s].off = o]
    BY <1>4 DEF Empty
  <2>3. \A s \in Lookup(b) : s \in Slot
    BY DEF Lookup, Used
  <2> QED
    BY <2>1, <2>2, <2>3
<1>5. ASSUME NEW b \in Buf, NEW e \in BOOLEAN, EmptyNoData(b, e) PROVE EntType'
    BY <1>5 DEF EmptyNoData
<1>6. CASE Insert
    BY <1>6 DEF Insert, CtlType, Used
<1>7. CASE QueueEos
  <2>1. input_buf_num' = input_buf_num
    BY <1>7 DEF QueueEos
  <2>2. \/ ent' = ent
        \/ ent' = [ent EXCEPT ![Eos] = [phy |-> Eos, status |-> "QUEUED", off |-> 0]]
    BY <1>7 DEF QueueEos
  <2>3. [phy |-> Eos, status |-> "QUEUED", off |-> 0]
          \in [phy : Buf \cup {Eos, NoBuf}, status : Status, off : Off]
    OBVIOUS
  <2> QED
    BY <2>1, <2>2, <2>3
<1>8. CASE ReplyNoData \/ ClearStream
    BY <1>8 DEF ReplyNoData, ClearStream
<1>9. CASE Flush
  <2>1. PICK gone :
          /\ ent' = [e \in Entry |-> IF e \in gone THEN [ent[e] EXCEPT !.status = "IDLE"]
                                     ELSE ent[e]]
          /\ input_buf_num' = input_buf_num
    BY <1>9 DEF Flush
  <2> QED
    BY <2>1
<1>10. CASE SwitchState \/ BeginTake \/ TakeNothing
    BY <1>10 DEF SwitchState, BeginTake, TakeNothing
<1>11. ASSUME NEW i \in DOMAIN raw_queue, Take(i) PROVE EntType'
    BY <1>11 DEF Take, QueueType
<1>12. ASSUME NEW a \in Address, NEW i \in DOMAIN raw_queue, Release(a, i) PROVE EntType'
  <2>1. raw_queue[i] \in Entry
    BY DEF QueueType
  <2>2. /\ ent' = [ent EXCEPT ![raw_queue[i]].status = "IDLE"]
        /\ input_buf_num' = input_buf_num
    BY <1>12 DEF Release
  <2>3. \A e \in Entry : [ent EXCEPT ![e].status = "IDLE"]
          \in [Entry -> [phy : Buf \cup {Eos, NoBuf}, status : Status, off : Off]]
    OBVIOUS
  <2> QED
    BY <2>1, <2>2, <2>3
<1>13. ASSUME NEW a \in Address, ReleaseUnknown(a) PROVE EntType'
    BY <1>13 DEF ReleaseUnknown
<1>14. CASE Receive
    BY <1>14 DEF Receive
<1>15. CASE UNCHANGED vars
    BY <1>15
<1> QED
    BY <1>1, <1>2, <1>3, <1>4, <1>5, <1>6, <1>7, <1>8, <1>9, <1>10, <1>11, <1>12,
       <1>13, <1>14, <1>15 DEF Next, IoctlStep, Reclaim

LEMMA QueueStep ==
    ASSUME TypeOK, [Next]_vars
    PROVE  QueueType'
<1> USE PortAssumption, SlotType
    DEF TypeOK, QueueType, vars, portVars, firmwareVars
<1>1. ASSUME NEW b \in Buf, Bind(b) \/ Unbind(b) PROVE QueueType'
    BY <1>1 DEF Bind, Unbind
<1>2. CASE Relink
  <2>1. Keep(raw_queue, Entry \ {input_buf_num}) \in Seq(Entry)
    BY KeepRange
  <2>2. ctl.slot \in Entry
    BY <1>2 DEF Relink, CtlType, EntType, Used
  <2>3. Append(Keep(raw_queue, Entry \ {input_buf_num}), ctl.slot) \in Seq(Entry)
    BY <2>1, <2>2
  <2> QED
    BY <1>2, <2>3 DEF Relink
<1>3. ASSUME NEW b \in Buf, NEW o \in Off, NEW e \in BOOLEAN,
             Empty(b, o, e) \/ EmptyNoData(b, e)
      PROVE  QueueType'
    BY <1>3 DEF Empty, EmptyNoData
<1>4. CASE Insert
  <2>1. Append(raw_queue, ctl.slot) \in Seq(Entry)
    BY <1>4 DEF Insert, CtlType, EntType, Used
  <2> QED
    BY <1>4, <2>1 DEF Insert, Linked
<1>5. CASE QueueEos
  <2>1. Append(raw_queue, Eos) \in Seq(Entry)
    OBVIOUS
  <2> QED
    BY <1>5, <2>1 DEF QueueEos, Linked
<1>6. CASE ReplyNoData \/ ClearStream
    BY <1>6 DEF ReplyNoData, ClearStream
<1>7. CASE Flush
  <2>1. /\ raw_queue' = Keep(raw_queue, Entry \ ToSet(Flushed))
        /\ eos_in_list' = (eos_in_list /\ Eos \notin ToSet(Flushed))
        /\ input_flush_pending' = (raw_use_cnt > 0 \/ input_flush_pending)
        /\ UNCHANGED <<raw_use_cnt, working, taking, clearing>>
    BY <1>7 DEF Flush, EosStays
  <2>2. raw_queue' \in Seq(Entry)
    BY <2>1, KeepRange
  <2> QED
    BY <2>1, <2>2
<1>8. CASE SwitchState \/ BeginTake \/ TakeNothing
    BY <1>8 DEF SwitchState, BeginTake, TakeNothing
<1>9. ASSUME NEW i \in DOMAIN raw_queue, Take(i) PROVE QueueType'
  <2>1. /\ raw_use_cnt' = raw_use_cnt + 1 /\ taking' = FALSE
        /\ UNCHANGED <<raw_queue, input_flush_pending, eos_in_list, working, clearing>>
    BY <1>9 DEF Take
  <2>2. raw_use_cnt + 1 \in Nat
    OBVIOUS
  <2> QED
    BY <2>1, <2>2
<1>10. ASSUME NEW a \in Address, NEW i \in DOMAIN raw_queue, Release(a, i) PROVE QueueType'
  <2>1. RemoveAt(raw_queue, i) \in Seq(Entry)
    BY RemoveList
  <2>2. /\ raw_queue' = RemoveAt(raw_queue, i)
        /\ eos_in_list' = (eos_in_list /\ Eos \notin {raw_queue[i]})
        /\ raw_use_cnt' = IF raw_use_cnt > 0 THEN raw_use_cnt - 1 ELSE 0
        /\ input_flush_pending' = (input_flush_pending /\ raw_use_cnt' # 0)
        /\ clearing' = (clearing /\ \E x \in Address : lent'[x] > 0)
        /\ UNCHANGED <<working, taking>>
    BY <1>10 DEF Release, Surrender, EosStays, StillPending
  <2> QED
    BY <2>1, <2>2
<1>11. ASSUME NEW a \in Address, ReleaseUnknown(a) PROVE QueueType'
    BY <1>11 DEF ReleaseUnknown, Surrender
<1>12. CASE Receive
    BY <1>12 DEF Receive
<1>13. CASE UNCHANGED vars
    BY <1>13
<1> QED
    BY <1>1, <1>2, <1>3, <1>4, <1>5, <1>6, <1>7, <1>8, <1>9, <1>10, <1>11, <1>12,
       <1>13 DEF Next, IoctlStep, Reclaim

LEMMA CtlStep ==
    ASSUME TypeOK, [Next]_vars
    PROVE  CtlType'
<1> USE PortAssumption, SlotType
    DEF TypeOK, CtlType, CtlAt, vars, portVars, Used, Call, Idle
<1>1. ASSUME NEW b \in Buf, Bind(b) PROVE CtlType'
    BY <1>1 DEF Bind
<1>2. ASSUME NEW b \in Buf, Unbind(b) PROVE CtlType'
    BY <1>2 DEF Unbind, Lookup, EntType, Slot
<1>3. CASE Relink \/ Insert \/ QueueEos \/ ReplyNoData \/ ClearStream
  <2>1. \/ ctl' = Idle
        \/ /\ ctl.at \in {"insert", "eos"}
           /\ \E at \in {"eos", "reply"} : ctl' = [ctl EXCEPT !.at = at]
    BY <1>3 DEF Relink, Insert, QueueEos, ReplyNoData, ClearStream
  <2>2. CASE ctl' = Idle
    BY <2>2
  <2>3. ASSUME ctl.at \in {"insert", "eos"}, NEW at \in {"eos", "reply"},
               ctl' = [ctl EXCEPT !.at = at]
        PROVE  CtlType'
    <3>1. ctl.buf \in Buf /\ at \in CtlAt /\ at \notin {"relink", "insert"}
      BY <2>3
    <3>2. ctl'.at = at /\ ctl'.buf = ctl.buf
      BY <2>3
    <3>3. ctl' \in [at : CtlAt, slot : 0 .. MaxSlots, buf : Buf \cup {NoBuf}, eos : BOOLEAN]
      BY <2>3, <3>1
    <3> QED
      BY <3>1, <3>2, <3>3
  <2> QED
    BY <2>1, <2>2, <2>3
<1>4. ASSUME NEW b \in Buf, NEW o \in Off, NEW e \in BOOLEAN, Empty(b, o, e) PROVE CtlType'
  <2>1. /\ \/ ctl' = ctl
           \/ \E s \in Used : ctl' = Call("insert", s, b, e)
        /\ input_buf_num' = input_buf_num
    BY <1>4 DEF Empty, Lookup
  <2>2. ASSUME NEW s \in Used, ctl' = Call("insert", s, b, e) PROVE CtlType'
    <3>1. s \in 0 .. MaxSlots /\ s \in Used'
      BY <2>1 DEF EntType
    <3> QED
      BY <2>2, <3>1
  <2>3. CASE ctl' = ctl
    BY <2>1, <2>3
  <2> QED
    BY <2>1, <2>2, <2>3
<1>5. ASSUME NEW b \in Buf, NEW e \in BOOLEAN, EmptyNoData(b, e) PROVE CtlType'
    BY <1>5 DEF EmptyNoData
<1>6. CASE Flush
    BY <1>6 DEF Flush
<1>7. CASE SwitchState \/ BeginTake \/ TakeNothing \/ Receive
    BY <1>7 DEF SwitchState, BeginTake, TakeNothing, Receive
<1>8. ASSUME NEW i \in DOMAIN raw_queue, Take(i) PROVE CtlType'
    BY <1>8 DEF Take
<1>9. ASSUME NEW a \in Address, NEW i \in DOMAIN raw_queue, Release(a, i) PROVE CtlType'
    BY <1>9 DEF Release
<1>10. ASSUME NEW a \in Address, ReleaseUnknown(a) PROVE CtlType'
    BY <1>10 DEF ReleaseUnknown
<1>11. CASE UNCHANGED vars
    BY <1>11
<1> QED
    BY <1>1, <1>2, <1>3, <1>4, <1>5, <1>6, <1>7, <1>8, <1>9, <1>10, <1>11
    DEF Next, IoctlStep, Reclaim

\* What is posted are messages.
LEMMA FlushMsgs ==
    ASSUME TypeOK, NEW busy
    PROVE  Returned(Flushed) \o FlushReply(busy) \in Seq(Msg)
<1>1. Flushed \in Seq(Entry)
  BY KeepRange DEF TypeOK, QueueType, Flushed
<1>2. Returned(Flushed) \in Seq(Msg)
  BY <1>1, ReturnedType
<1>3. FlushReply(busy) \in Seq(Msg)
  <2>1. <<>> \in Seq(Msg) /\ <<FlushDone>> \in Seq(Msg)
    BY DEF Msg
  <2> QED
    BY <2>1 DEF FlushReply
<1> QED
  BY <1>2, <1>3

LEMMA ReleaseMsgs ==
    ASSUME TypeOK, NEW e \in Entry, NEW last
    PROVE  Returned(<<e>>) \o (IF last THEN <<FlushDone>> ELSE <<>>) \in Seq(Msg)
<1>1. Returned(<<e>>) \in Seq(Msg)
  BY ReturnedType
<1>2. (IF last THEN <<FlushDone>> ELSE <<>>) \in Seq(Msg)
  <2>1. <<>> \in Seq(Msg) /\ <<FlushDone>> \in Seq(Msg)
    BY DEF Msg
  <2> QED
    BY <2>1
<1> QED
  BY <1>1, <1>2

LEMMA ClientStep ==
    ASSUME TypeOK, [Next]_vars
    PROVE  ClientType'
<1> USE PortAssumption, SlotType
    DEF TypeOK, ClientType, vars, portVars, firmwareVars, clientVars
<1>0. \A b \in Buf : <<InputDone(b)>> \in Seq(Msg)
    BY DEF Msg, DoneMsg
<1>1. ASSUME NEW b \in Buf, Bind(b) \/ Unbind(b) PROVE ClientType'
    BY <1>1 DEF Bind, Unbind
<1>2. CASE Relink \/ QueueEos \/ ClearStream \/ SwitchState \/ BeginTake \/ TakeNothing
    BY <1>2 DEF Relink, QueueEos, ClearStream, SwitchState, BeginTake, TakeNothing
<1>3. ASSUME NEW b \in Buf, NEW o \in Off, NEW e \in BOOLEAN,
             Empty(b, o, e) \/ EmptyNoData(b, e)
      PROVE  ClientType'
  <2>1. /\ held' = held \ {b} /\ UNCHANGED <<lent, awaited, owed>>
        /\ UNCHANGED msgs \/ Post(<<InputDone(b)>>)
    BY <1>3 DEF Empty, EmptyNoData
  <2>2. msgs' \in Seq(Msg)
    BY <1>0, <2>1, PostType
  <2> QED
    BY <2>1, <2>2
<1>4. CASE Insert \/ ReplyNoData
  <2>1. /\ UNCHANGED <<lent, held, awaited, owed>> /\ ctl.buf \in Buf
        /\ UNCHANGED msgs \/ Post(<<InputDone(ctl.buf)>>)
    BY <1>4 DEF Insert, ReplyNoData, CtlType
  <2>2. msgs' \in Seq(Msg)
    BY <1>0, <2>1, PostType
  <2> QED
    BY <2>1, <2>2
<1>5. CASE Flush
  <2>1. /\ awaited' = awaited + 1 /\ UNCHANGED <<lent, held>>
        /\ owed' = {PhyOf(e) : e \in Queued \ (ToSet(Flushed) \cup {Eos})}
        /\ Post(Returned(Flushed) \o FlushReply(raw_use_cnt > 0))
    BY <1>5 DEF Flush
  <2>2. msgs' \in Seq(Msg)
    BY <2>1, FlushMsgs, PostType
  <2>3. \A e \in Queued : e \in Entry
    BY DEF Queued, ToSet, QueueType
  <2>4. owed' \subseteq Buf \cup {Eos, NoBuf}
    BY <2>1, <2>3 DEF EntType, PhyOf
  <2> QED
    BY <2>1, <2>2, <2>4
<1>6. ASSUME NEW i \in DOMAIN raw_queue, Take(i) PROVE ClientType'
  <2>1. /\ lent' = [lent EXCEPT ![AddressOf(raw_queue[i])] = @ + 1]
        /\ UNCHANGED <<msgs, held, awaited, owed>>
    BY <1>6 DEF Take
  <2>2. lent' \in [Address -> Nat]
    <3> DEFINE x == AddressOf(raw_queue[i])
    <3>1. lent' = [lent EXCEPT ![x] = @ + 1]
      BY <2>1
    <3> HIDE DEF x
    <3>2. CASE x \in Address
      BY <3>1, <3>2
    <3>3. CASE x \notin Address
      <4>1. lent' = lent
        BY <3>1, <3>3
      <4> QED
        BY <4>1
    <3> QED
      BY <3>2, <3>3
  <2> QED
    BY <2>1, <2>2
<1>7. ASSUME NEW a \in Address, NEW i \in DOMAIN raw_queue, Release(a, i) PROVE ClientType'
  <2>1. /\ lent[a] > 0 /\ lent' = [lent EXCEPT ![a] = @ - 1]
        /\ owed' = owed \ {PhyOf(raw_queue[i])} /\ UNCHANGED <<held, awaited>>
        /\ \E last : Post(Returned(<<raw_queue[i]>>)
                            \o IF last THEN <<FlushDone>> ELSE <<>>)
    BY <1>7 DEF Release, Surrender
  <2>2. raw_queue[i] \in Entry
    BY DEF QueueType
  <2>3. msgs' \in Seq(Msg)
    BY <2>1, <2>2, ReleaseMsgs, PostType
  <2>4. lent' \in [Address -> Nat]
    BY <2>1
  <2> QED
    BY <2>1, <2>3, <2>4
<1>8. ASSUME NEW a \in Address, ReleaseUnknown(a) PROVE ClientType'
    BY <1>8 DEF ReleaseUnknown, Surrender
<1>9. CASE Receive
  <2>1. /\ Head(msgs) \in Msg /\ msgs' = Tail(msgs) /\ Tail(msgs) \in Seq(Msg)
        /\ UNCHANGED <<lent, owed>>
        /\ \/ Head(msgs).code = "INPUT_DONE" /\ held' = held \cup {Head(msgs).buf}
                 /\ UNCHANGED awaited
           \/ awaited' = awaited - 1 /\ UNCHANGED held
    BY <1>9 DEF Receive
  <2>2. Head(msgs).code = "INPUT_DONE" => Head(msgs).buf \in Buf \cup {NoBuf}
    BY <2>1 DEF Msg, DoneMsg, InputDone, FlushDone
  <2> QED
    BY <2>1, <2>2
<1>10. CASE UNCHANGED vars
    BY <1>10
<1> QED
    BY <1>1, <1>2, <1>3, <1>4, <1>5, <1>6, <1>7, <1>8, <1>9, <1>10
    DEF Next, IoctlStep, Reclaim

\* The values of the port's state, whatever the client binds, empties, flushes and
\* frees: no table index, count or queue leaves its range.
THEOREM TypeCorrect == Spec => []TypeOK
<1>1. Init => TypeOK
  BY InitType
<1>2. TypeOK /\ [Next]_vars => TypeOK'
  BY EntStep, QueueStep, CtlStep, ClientStep DEF TypeOK
<1> QED
  BY <1>1, <1>2, PTL DEF Spec

-----------------------------------------------------------------------------
(* The end-of-stream marker, whatever the client does.                     *)

\* Besides, the marker is linked at most once, so that unlinking it once
\* removes it.
EosInv == EosFlag /\ Once(raw_queue, Eos)

LEMMA EosInit == Init => EosInv
BY DEF Init, EosInv, EosFlag, Once, Queued, ToSet

LEMMA EosStep ==
    ASSUME TypeOK, EosInv, [Next]_vars
    PROVE  EosInv'
<1> USE SlotType DEF EosInv, EosFlag, Queued
<1> raw_queue \in Seq(Entry)
  BY DEF TypeOK, QueueType
<1>1. CASE UNCHANGED <<raw_queue, eos_in_list>>
    BY <1>1
<1>2. CASE Relink
  <2> DEFINE q == Keep(raw_queue, Entry \ {input_buf_num})
  <2>1. ctl.slot \in Slot /\ input_buf_num \in Slot
    BY <1>2 DEF Relink, TypeOK, CtlType, EntType, Used
  <2>2. q \in Seq(Entry) /\ Once(q, Eos) /\ (Eos \in ToSet(q) <=> Eos \in ToSet(raw_queue))
    BY <2>1, KeepRange, KeepOnce
  <2> HIDE DEF q
  <2>3. /\ Once(Append(q, ctl.slot), Eos)
        /\ Eos \in ToSet(Append(q, ctl.slot)) <=> Eos \in ToSet(raw_queue)
    <3>1. ctl.slot \in Entry /\ ctl.slot # Eos
      BY <2>1
    <3>2. Once(Append(q, ctl.slot), Eos)
      BY <2>2, <3>1, AppendOnce
    <3>3. ToSet(Append(q, ctl.slot)) = ToSet(q) \cup {ctl.slot}
      BY <2>2, <3>1, AppendList
    <3> QED
      BY <2>2, <3>1, <3>2, <3>3
  <2>4. /\ eos_in_list' = eos_in_list
        /\ raw_queue' = Append(q, ctl.slot) \/ raw_queue' = raw_queue
    BY <1>2 DEF Relink, q
  <2> QED
    BY <2>3, <2>4
<1>3. CASE Insert
  <2>1. ctl.slot \in Slot
    BY <1>3 DEF Insert, TypeOK, CtlType, EntType, Used
  <2>2. /\ eos_in_list' = eos_in_list
        /\ raw_queue' = Append(raw_queue, ctl.slot) \/ raw_queue' = raw_queue
    BY <1>3 DEF Insert, Linked
  <2>3. /\ Once(Append(raw_queue, ctl.slot), Eos)
        /\ Eos \in ToSet(Append(raw_queue, ctl.slot)) <=> Eos \in ToSet(raw_queue)
    <3>1. ctl.slot \in Entry /\ ctl.slot # Eos
      BY <2>1
    <3>2. Once(Append(raw_queue, ctl.slot), Eos)
      BY <3>1, AppendOnce
    <3>3. ToSet(Append(raw_queue, ctl.slot)) = ToSet(raw_queue) \cup {ctl.slot}
      BY <3>1, AppendList
    <3> QED
      BY <3>1, <3>2, <3>3
  <2> QED
    BY <2>2, <2>3
<1>4. CASE QueueEos
  <2>1. \/ UNCHANGED <<raw_queue, eos_in_list>>
        \/ ~eos_in_list /\ eos_in_list' = TRUE /\ raw_queue' = Append(raw_queue, Eos)
    BY <1>4 DEF QueueEos, Linked
  <2>2. CASE UNCHANGED <<raw_queue, eos_in_list>>
    BY <2>2
  <2>3. CASE ~eos_in_list /\ eos_in_list' = TRUE /\ raw_queue' = Append(raw_queue, Eos)
    <3>1. Once(Append(raw_queue, Eos), Eos)
      BY <2>3, AppendOnce
    <3>2. Eos \in ToSet(Append(raw_queue, Eos))
      BY AppendList
    <3> QED
      BY <2>3, <3>1, <3>2
  <2> QED
    BY <2>1, <2>2, <2>3
<1>5. CASE Flush
  <2>1. /\ raw_queue' = Keep(raw_queue, Entry \ ToSet(Flushed))
        /\ eos_in_list' = (eos_in_list /\ Eos \notin ToSet(Flushed))
    BY <1>5 DEF Flush, EosStays
  <2>2. /\ Once(raw_queue', Eos)
        /\ ToSet(raw_queue') = ToSet(raw_queue) \cap (Entry \ ToSet(Flushed))
    BY <2>1, KeepRange, KeepOnce
  <2> QED
    BY <2>1, <2>2
<1>6. ASSUME NEW a \in Address, NEW i \in DOMAIN raw_queue, Release(a, i) PROVE EosInv'
  <2>1. /\ raw_queue' = RemoveAt(raw_queue, i)
        /\ eos_in_list' = (eos_in_list /\ Eos \notin {raw_queue[i]})
    BY <1>6 DEF Release, EosStays
  <2>2. /\ Once(raw_queue', Eos)
        /\ Eos \in ToSet(raw_queue') <=> Eos \in ToSet(raw_queue) /\ Eos # raw_queue[i]
    BY <2>1, RemoveOnce
  <2> QED
    BY <2>1, <2>2
<1> QED
  BY <1>1, <1>2, <1>3, <1>4, <1>5, <1>6
  DEF Next, IoctlStep, Reclaim, Bind, Unbind, Empty, EmptyNoData, ReplyNoData, ClearStream,
      SwitchState, BeginTake, TakeNothing, Take, ReleaseUnknown, Receive, vars, portVars

\* eos_in_list says whether the marker is linked, whatever the client does and
\* even while slots are moved (channel_delete_addr_table): no stale flag ever makes
\* channel_empty_this_stream swallow an end of stream.
THEOREM EosFlagCorrect == Spec => []EosFlag
<1>1. Init => TypeOK /\ EosInv
  BY InitType, EosInit
<1>2. TypeOK /\ EosInv /\ [Next]_vars => TypeOK' /\ EosInv'
  BY EntStep, QueueStep, CtlStep, ClientStep, EosStep DEF TypeOK
<1>3. EosInv => EosFlag
  BY DEF EosInv
<1> QED
  BY <1>1, <1>2, <1>3, PTL DEF Spec

-----------------------------------------------------------------------------
(* No buffer is linked twice, whatever the client submits, as long as it   *)
(* frees buffers only while none is linked.                                *)

\* Only slots in use are linked, and the slot an insertion found is still
\* that of its buffer when the insertion has raw_lock.
LinkInv ==
    /\ Queued \subseteq Used \cup {Eos}
    /\ LinkedOnce
    /\ ctl.at = "relink" => raw_queue = <<>>
    /\ ctl.at = "insert" => PhyOf(ctl.slot) = ctl.buf

\* Which entries an action gives another address.
LEMMA PhyKept ==
    ASSUME TypeOK, [Next]_vars,
           ~Relink, ~\E b \in Buf : Bind(b) \/ Unbind(b)
    PROVE  /\ \A e \in Entry : ent'[e].phy = ent[e].phy
           /\ input_buf_num' = input_buf_num
<1> USE SlotType DEF TypeOK, EntType, vars, portVars
<1>1. CASE UNCHANGED <<ent, input_buf_num>>
    BY <1>1
<1>2. ASSUME NEW b \in Buf, NEW o \in Off, NEW e \in BOOLEAN, Empty(b, o, e)
      PROVE  /\ \A x \in Entry : ent'[x].phy = ent[x].phy
             /\ input_buf_num' = input_buf_num
    BY <1>2 DEF Empty
<1>3. CASE Insert
    BY <1>3 DEF Insert
<1>4. CASE QueueEos
    BY <1>4 DEF QueueEos
<1>5. CASE Flush
  <2>1. PICK gone :
          /\ ent' = [e \in Entry |-> IF e \in gone THEN [ent[e] EXCEPT !.status = "IDLE"]
                                     ELSE ent[e]]
          /\ input_buf_num' = input_buf_num
    BY <1>5 DEF Flush
  <2> QED
    BY <2>1
<1>6. ASSUME NEW i \in DOMAIN raw_queue, Take(i)
      PROVE  /\ \A x \in Entry : ent'[x].phy = ent[x].phy
             /\ input_buf_num' = input_buf_num
    BY <1>6 DEF Take
<1>7. ASSUME NEW a \in Address, NEW i \in DOMAIN raw_queue, Release(a, i)
      PROVE  /\ \A x \in Entry : ent'[x].phy = ent[x].phy
             /\ input_buf_num' = input_buf_num
    BY <1>7 DEF Release
<1> QED
  BY <1>1, <1>2, <1>3, <1>4, <1>5, <1>6, <1>7
  DEF Next, IoctlStep, Reclaim, EmptyNoData, ReplyNoData, ClearStream,
      SwitchState, BeginTake, TakeNothing, ReleaseUnknown, Receive

\* Which list an action makes of the queue.
LEMMA QueueChange ==
    ASSUME [Next]_vars
    PROVE  \/ raw_queue' = raw_queue
           \/ Relink
           \/ Insert /\ ~Duplicate(ctl.buf) /\ raw_queue' = Append(raw_queue, ctl.slot)
           \/ QueueEos /\ ~eos_in_list /\ raw_queue' = Append(raw_queue, Eos)
           \/ Flush /\ raw_queue' = Keep(raw_queue, Entry \ ToSet(Flushed))
           \/ \E a \in Address : \E i \in DOMAIN raw_queue :
                 Release(a, i) /\ raw_queue' = RemoveAt(raw_queue, i)
<1> USE DEF vars, portVars
<1>1. CASE Insert
  BY <1>1 DEF Insert, Linked
<1>2. CASE QueueEos
  BY <1>2 DEF QueueEos, Linked
<1>3. CASE Flush
  BY <1>3 DEF Flush
<1>4. ASSUME NEW a \in Address, NEW i \in DOMAIN raw_queue, Release(a, i)
      PROVE  raw_queue' = RemoveAt(raw_queue, i)
  BY <1>4 DEF Release
<1>5. ASSUME NEW b \in Buf, Bind(b) \/ Unbind(b) PROVE raw_queue' = raw_queue
  BY <1>5 DEF Bind, Unbind
<1>6. ASSUME NEW b \in Buf, NEW o \in Off, NEW e \in BOOLEAN, Empty(b, o, e)
      PROVE  raw_queue' = raw_queue
  BY <1>6 DEF Empty
<1>7. ASSUME NEW b \in Buf, NEW e \in BOOLEAN, EmptyNoData(b, e)
      PROVE  raw_queue' = raw_queue
  BY <1>7 DEF EmptyNoData
<1>8. CASE ReplyNoData \/ ClearStream \/ SwitchState \/ BeginTake \/ TakeNothing
           \/ Receive \/ UNCHANGED vars
  BY <1>8 DEF ReplyNoData, ClearStream, SwitchState, BeginTake, TakeNothing, Receive
<1>9. ASSUME NEW i \in DOMAIN raw_queue, Take(i) PROVE raw_queue' = raw_queue
  BY <1>9 DEF Take
<1>10. ASSUME NEW a \in Address, ReleaseUnknown(a) PROVE raw_queue' = raw_queue
  BY <1>10 DEF ReleaseUnknown
<1>11. CASE Reclaim
  <2>1. PICK a \in Address : \/ \E i \in DOMAIN raw_queue : Release(a, i)
                             \/ ReleaseUnknown(a)
    BY <1>11 DEF Reclaim
  <2>2. CASE \E i \in DOMAIN raw_queue : Release(a, i)
    BY <1>4, <2>2
  <2>3. CASE ReleaseUnknown(a)
    BY <1>10, <2>3
  <2> QED
    BY <2>1, <2>2, <2>3
<1> HIDE DEF vars
<1> QED
  BY <1>1, <1>2, <1>3, <1>5, <1>6, <1>8, <1>9, <1>11, <1>7 DEF Next, IoctlStep

LEMMA LinkInit == Init => LinkInv
BY DEF Init, LinkInv, LinkedOnce, Queued, ToSet, Idle

\* Who begins to move a slot.
LEMMA CtlChange ==
    ASSUME TypeOK, [Next]_vars
    PROVE  ctl'.at = "relink" => ctl.at = "relink" \/ \E b \in Buf : Unbind(b)
<1> SUFFICES ASSUME ~\E b \in Buf : Unbind(b)
             PROVE  ctl' = ctl \/ ctl'.at # "relink"
  OBVIOUS
<1> USE DEF Call, Idle, vars
<1>1. CASE IoctlStep
  <2>1. CASE Insert \/ QueueEos
    <3>1. ctl' = Idle \/ ctl'.at \in {"eos", "reply"}
      BY <2>1 DEF Insert, QueueEos, TypeOK, CtlType
    <3> QED
      BY <3>1
  <2>2. CASE Relink \/ ReplyNoData \/ ClearStream
    BY <2>2 DEF Relink, ReplyNoData, ClearStream
  <2> QED
    BY <1>1, <2>1, <2>2 DEF IoctlStep
<1>2. ASSUME NEW b \in Buf, Bind(b) PROVE ctl' = ctl
  BY <1>2 DEF Bind
<1>3. ASSUME NEW b \in Buf, NEW o \in Off, NEW e \in BOOLEAN, Empty(b, o, e)
      PROVE  ctl' = ctl \/ ctl'.at # "relink"
  BY <1>3 DEF Empty
<1>4. ASSUME NEW b \in Buf, NEW e \in BOOLEAN, EmptyNoData(b, e)
      PROVE  ctl'.at # "relink"
  BY <1>4 DEF EmptyNoData
<1>5. CASE Flush
  BY <1>5 DEF Flush
<1>6. CASE SwitchState \/ BeginTake \/ TakeNothing \/ Receive
           \/ (\E i \in DOMAIN raw_queue : Take(i)) \/ UNCHANGED vars
  BY <1>6 DEF SwitchState, BeginTake, TakeNothing, Receive, Take
<1>7. CASE Reclaim
  BY <1>7 DEF Reclaim, Release, ReleaseUnknown
<1> HIDE DEF vars
<1> QED
  BY <1>1, <1>2, <1>3, <1>4, <1>5, <1>6, <1>7 DEF Next

LEMMA InsertBegins ==
    ASSUME TypeOK, [Next]_vars
    PROVE  \/ ctl'.at = "insert" => ctl' = ctl
           \/ \E b \in Buf, o \in Off, e \in BOOLEAN : Empty(b, o, e)
<1> SUFFICES ASSUME ~\E b \in Buf, o \in Off, e \in BOOLEAN : Empty(b, o, e)
             PROVE  ctl' = ctl \/ ctl'.at # "insert"
  OBVIOUS
<1> USE DEF Call, Idle, vars
<1>1. CASE IoctlStep
  <2>1. CASE Insert \/ QueueEos
    <3>1. ctl' = Idle \/ ctl'.at \in {"eos", "reply"}
      BY <2>1 DEF Insert, QueueEos, TypeOK, CtlType
    <3> QED
      BY <3>1
  <2>2. CASE Relink \/ ReplyNoData \/ ClearStream
    BY <2>2 DEF Relink, ReplyNoData, ClearStream
  <2> QED
    BY <1>1, <2>1, <2>2 DEF IoctlStep
<1>2. ASSUME NEW b \in Buf, Bind(b) \/ Unbind(b)
      PROVE  ctl' = ctl \/ ctl'.at # "insert"
  BY <1>2 DEF Bind, Unbind
<1>3. ASSUME NEW b \in Buf, NEW e \in BOOLEAN, EmptyNoData(b, e)
      PROVE  ctl'.at # "insert"
  BY <1>3 DEF EmptyNoData
<1>4. CASE Flush
  BY <1>4 DEF Flush
<1>5. CASE SwitchState \/ BeginTake \/ TakeNothing \/ Receive
           \/ (\E i \in DOMAIN raw_queue : Take(i)) \/ UNCHANGED vars
  BY <1>5 DEF SwitchState, BeginTake, TakeNothing, Receive, Take
<1>6. CASE Reclaim
  BY <1>6 DEF Reclaim, Release, ReleaseUnknown
<1> HIDE DEF vars
<1> QED
  BY <1>1, <1>2, <1>3, <1>4, <1>5, <1>6 DEF Next

LEMMA LinkSubset ==
    ASSUME TypeOK, EosInv, LinkInv, ~FreeWhileBusy, [Next]_vars
    PROVE  /\ (Queued \subseteq Used \cup {Eos})'
           /\ (ctl.at = "relink" => raw_queue = <<>>)'
<1> raw_queue \in Seq(Entry)
  BY DEF TypeOK, QueueType
<1>1. Used \subseteq Used' \/ ctl.at = "relink"
  <2>1. CASE input_buf_num' = input_buf_num
    BY <2>1 DEF Used
  <2>2. ASSUME NEW b \in Buf, Bind(b) PROVE Used \subseteq Used'
    <3>1. input_buf_num' = input_buf_num + 1 /\ input_buf_num \in Nat
      BY <2>2 DEF Bind, TypeOK, EntType
    <3> QED
      BY <3>1 DEF Used
  <2>3. ASSUME NEW b \in Buf, Unbind(b) PROVE Used \subseteq Used'
    BY <2>3 DEF Unbind, Used
  <2> QED
    BY <2>1, <2>2, <2>3, PhyKept DEF Relink
<1>2. (ctl.at = "relink")' => ctl.at = "relink" \/ \E b \in Buf : Unbind(b)
  BY CtlChange
<1>3. CASE raw_queue' = raw_queue
  <2>1. (Queued \subseteq Used \cup {Eos})'
    BY <1>1, <1>3 DEF LinkInv, Queued, ToSet
  <2>2. ASSUME NEW b \in Buf, Unbind(b) PROVE raw_queue = <<>>
    BY <2>2 DEF Unbind
  <2> QED
    BY <1>2, <1>3, <2>1, <2>2 DEF LinkInv
<1>4. CASE Relink
  <2>1. raw_queue = <<>> /\ Queued = {}
    BY <1>4 DEF Relink, LinkInv, Queued, ToSet
  <2>2. raw_queue' = <<>>
    BY <1>4, <2>1 DEF Relink
  <2> QED
    BY <2>2 DEF Queued, ToSet
<1>5. ASSUME NEW e \in Used \cup {Eos}, Insert \/ QueueEos,
             raw_queue' = Append(raw_queue, e)
      PROVE  /\ (Queued \subseteq Used \cup {Eos})'
             /\ (ctl.at = "relink" => raw_queue = <<>>)'
  <2>1. e \in Entry /\ Used' = Used /\ ctl'.at # "relink"
    BY <1>5, SlotType DEF Insert, QueueEos, Used, Idle, TypeOK, EntType, CtlType
  <2>2. Queued' = Queued \cup {e}
    BY <1>5, <2>1, AppendList DEF Queued
  <2> QED
    BY <1>5, <2>1, <2>2 DEF LinkInv
<1>6. CASE Flush /\ raw_queue' = Keep(raw_queue, Entry \ ToSet(Flushed))
  <2>1. Queued' \subseteq Queued /\ Used' = Used /\ ctl'.at # "relink"
    BY <1>6, KeepRange DEF Flush, Used, Call, Queued
  <2> QED
    BY <2>1 DEF LinkInv
<1>7. ASSUME NEW a \in Address, NEW i \in DOMAIN raw_queue, Release(a, i),
             raw_queue' = RemoveAt(raw_queue, i)
      PROVE  /\ (Queued \subseteq Used \cup {Eos})'
             /\ (ctl.at = "relink" => raw_queue = <<>>)'
  <2>1. Queued' \subseteq Queued /\ Used' = Used /\ ctl' = ctl /\ raw_queue # <<>>
    BY <1>7, RemoveList DEF Release, Used, Queued
  <2> QED
    BY <2>1 DEF LinkInv
<1>8. Insert => ctl.slot \in Used
  BY DEF Insert, TypeOK, CtlType
<1> QED
  BY <1>3, <1>4, <1>5, <1>6, <1>7, <1>8, QueueChange

LEMMA LinkedPhyKept ==
    ASSUME TypeOK, EosInv, LinkInv, ~FreeWhileBusy, [Next]_vars
    PROVE  \A e \in Queued : ent'[e].phy = ent[e].phy
<1>1. Queued \subseteq Entry
  BY DEF TypeOK, QueueType, Queued, ToSet
<1>2. CASE ctl.at = "relink" \/ \E b \in Buf : Unbind(b)
  <2>1. raw_queue = <<>>
    <3>1. ASSUME NEW b \in Buf, Unbind(b) PROVE raw_queue = <<>>
      BY <3>1 DEF Unbind
    <3> QED
      BY <1>2, <3>1 DEF LinkInv
  <2>2. Queued = {}
    BY <2>1 DEF Queued, ToSet
  <2> QED
    BY <2>2
<1>3. ASSUME NEW b \in Buf, Bind(b)
      PROVE  \A e \in Queued : ent'[e].phy = ent[e].phy
  <2>1. ent' = [ent EXCEPT ![input_buf_num + 1] = [phy |-> b, status |-> "IDLE", off |-> 0]]
    BY <1>3 DEF Bind
  <2>2. input_buf_num + 1 \in Slot
    BY <1>3, SlotType DEF Bind, TypeOK, EntType
  <2>3. input_buf_num + 1 \notin Used \cup {Eos}
    BY <2>2, SlotType DEF Used, TypeOK, EntType
  <2>4. \A e \in Queued : e # input_buf_num + 1
    BY <2>3 DEF LinkInv
  <2> QED
    BY <1>1, <2>1, <2>4 DEF TypeOK, EntType
<1>4. CASE ctl.at # "relink" /\ ~\E b \in Buf : Bind(b) \/ Unbind(b)
  BY <1>1, <1>4, PhyKept DEF Relink
<1> QED
  BY <1>2, <1>3, <1>4

LEMMA LinkOnceStep ==
    ASSUME TypeOK, EosInv, LinkInv, ~FreeWhileBusy, [Next]_vars
    PROVE  LinkedOnce'
<1> raw_queue \in Seq(Entry)
  BY DEF TypeOK, QueueType
<1>1. \A i \in DOMAIN raw_queue : /\ raw_queue[i] \in Queued
                                  /\ ent'[raw_queue[i]].phy = ent[raw_queue[i]].phy
  BY LinkedPhyKept DEF Queued, ToSet
<1>2. \A i, j \in DOMAIN raw_queue :
         ent'[raw_queue[i]].phy = ent'[raw_queue[j]].phy => i = j
  BY <1>1 DEF LinkInv, LinkedOnce, PhyOf
<1>3. CASE raw_queue' = raw_queue
  BY <1>2, <1>3 DEF LinkedOnce, PhyOf
<1>4. CASE Relink
  <2>1. raw_queue = <<>> /\ Queued = {}
    BY <1>4 DEF Relink, LinkInv, Queued, ToSet
  <2>2. raw_queue' = <<>>
    BY <1>4, <2>1 DEF Relink
  <2> QED
    BY <2>2 DEF LinkedOnce
<1>5. ASSUME NEW e \in Entry, raw_queue' = Append(raw_queue, e),
             \A i \in DOMAIN raw_queue : ent'[raw_queue[i]].phy # ent'[e].phy
      PROVE  LinkedOnce'
  <2>1. /\ DOMAIN raw_queue' = 1 .. Len(raw_queue) + 1
        /\ DOMAIN raw_queue = 1 .. Len(raw_queue) /\ Len(raw_queue) \in Nat
        /\ \A i \in 1 .. Len(raw_queue) : raw_queue'[i] = raw_queue[i]
        /\ raw_queue'[Len(raw_queue) + 1] = e
    BY <1>5
  <2>2. \A i : i \in 1 .. Len(raw_queue) + 1
                 <=> i \in 1 .. Len(raw_queue) \/ i = Len(raw_queue) + 1
    BY <2>1
  <2> QED
    BY <1>2, <1>5, <2>1, <2>2 DEF LinkedOnce, PhyOf
<1>6. CASE Insert /\ ~Duplicate(ctl.buf) /\ raw_queue' = Append(raw_queue, ctl.slot)
  <2>1. ctl.slot \in Slot /\ ctl.slot \in Entry /\ ent[ctl.slot].phy = ctl.buf
    BY <1>6, SlotType DEF Insert, TypeOK, CtlType, EntType, Used, LinkInv, PhyOf
  <2>2. ent'[ctl.slot].phy = ent[ctl.slot].phy
    BY <1>6, <2>1 DEF Insert, TypeOK, EntType
  <2>3. \A e \in Queued : ent[e].phy # ctl.buf
    BY <1>6 DEF Duplicate, PhyOf
  <2>4. \A i \in DOMAIN raw_queue : ent'[raw_queue[i]].phy # ent'[ctl.slot].phy
    BY <1>1, <2>1, <2>2, <2>3
  <2> QED
    BY <1>5, <1>6, <2>1, <2>4
<1>7. CASE QueueEos /\ ~eos_in_list /\ raw_queue' = Append(raw_queue, Eos)
  <2>1. Eos \notin Queued
    BY <1>7 DEF EosInv, EosFlag
  <2>2. \A e \in Queued : e \in Slot /\ ent[e].phy # Eos
    <3>1. Used \subseteq Slot
      BY SlotType DEF TypeOK, EntType, Used
    <3> QED
      BY <2>1, <3>1 DEF LinkInv, TypeOK, EntType
  <2>3. ent'[Eos].phy = Eos
    BY <1>7, SlotType DEF QueueEos, TypeOK, EntType
  <2> QED
    BY <1>1, <1>5, <1>7, <2>2, <2>3, SlotType
<1>8. CASE Flush /\ raw_queue' = Keep(raw_queue, Entry \ ToSet(Flushed))
  <2> DEFINE T == Entry \ ToSet(Flushed)
  <2>0. raw_queue' = Keep(raw_queue, T) /\ Places(raw_queue, T) \in SUBSET Nat
    BY <1>8, PlacesFinite
  <2> HIDE DEF T
  <2>1. PICK n \in Nat : \E g : /\ Enumerates(g, n, Places(raw_queue, T))
                                /\ Keep(raw_queue, T) = [i \in 1 .. n |-> raw_queue[g[i]]]
    BY KeepEnumerates
  <2>2. PICK g : /\ Enumerates(g, n, Places(raw_queue, T))
                 /\ Keep(raw_queue, T) = [i \in 1 .. n |-> raw_queue[g[i]]]
    BY <2>1
  <2>3. \A i \in 1 .. n : g[i] \in DOMAIN raw_queue /\ g[i] \in Nat
    BY <2>2 DEF Enumerates, Places
  <2>4. \A i, j \in 1 .. n : g[i] = g[j] => i = j
    <3> DEFINE P == Places(raw_queue, T)
    <3>1. P \in SUBSET Nat /\ Enumerates(g, n, P)
      BY <2>0, <2>2
    <3> HIDE DEF P
    <3> QED
      BY <3>1, EnumerationInjective
  <2>5. raw_queue' = [i \in 1 .. n |-> raw_queue[g[i]]]
    BY <2>0, <2>2
  <2> QED
    BY <1>2, <2>3, <2>4, <2>5 DEF LinkedOnce, PhyOf
<1>9. ASSUME NEW a \in Address, NEW i \in DOMAIN raw_queue, Release(a, i),
             raw_queue' = RemoveAt(raw_queue, i)
      PROVE  LinkedOnce'
  <2>1. /\ DOMAIN raw_queue' = 1 .. Len(raw_queue) - 1
        /\ \A j \in DOMAIN raw_queue' :
              \E k \in DOMAIN raw_queue :
                 /\ raw_queue'[j] = raw_queue[k] /\ k = IF j < i THEN j ELSE j + 1
    <3> DEFINE r == RemoveAt(raw_queue, i)
    <3>1. /\ r \in Seq(Entry) /\ Len(r) = Len(raw_queue) - 1
          /\ \A j \in 1 .. Len(raw_queue) - 1 :
                r[j] = IF j < i THEN raw_queue[j] ELSE raw_queue[j + 1]
      BY RemoveList
    <3> HIDE DEF r
    <3>2. DOMAIN r = 1 .. Len(raw_queue) - 1 /\ DOMAIN raw_queue = 1 .. Len(raw_queue)
          /\ i \in 1 .. Len(raw_queue) /\ Len(raw_queue) \in Nat
      BY <3>1
    <3>3. ASSUME NEW j \in DOMAIN r
          PROVE  \E k \in DOMAIN raw_queue :
                    r[j] = raw_queue[k] /\ k = IF j < i THEN j ELSE j + 1
      BY <3>1, <3>2
    <3> QED
      BY <1>9, <3>2, <3>3 DEF r
  <2>2. \A j, l \in DOMAIN raw_queue' :
           (IF j < i THEN j ELSE j + 1) = (IF l < i THEN l ELSE l + 1) => j = l
    BY <2>1
  <2> QED
    BY <1>2, <2>1, <2>2 DEF LinkedOnce, PhyOf
<1> QED
  BY <1>3, <1>4, <1>6, <1>7, <1>8, <1>9, QueueChange

LEMMA InsertPhy ==
    ASSUME TypeOK, [Next]_vars, ctl.at = "insert" => PhyOf(ctl.slot) = ctl.buf
    PROVE  (ctl.at = "insert" => PhyOf(ctl.slot) = ctl.buf)'
<1> USE SlotType DEF TypeOK, EntType, CtlType
<1>1. ASSUME NEW b \in Buf, NEW o \in Off, NEW e \in BOOLEAN, Empty(b, o, e)
      PROVE  (ctl.at = "insert" => PhyOf(ctl.slot) = ctl.buf)'
  <2>1. CASE UNCHANGED <<ent, ctl>>
    BY <2>1 DEF PhyOf
  <2>2. ASSUME NEW s \in Lookup(b), ent' = [ent EXCEPT ![s].off = o],
               ctl' = Call("insert", s, b, e)
        PROVE  PhyOf(ctl.slot)' = ctl'.buf
    <3>1. s \in Slot /\ ent[s].phy = b
      BY DEF Lookup, Used
    <3>2. ent'[s].phy = b
      BY <2>2, <3>1
    <3> QED
      BY <2>2, <3>2 DEF Call, PhyOf
  <2> QED
    BY <1>1, <2>1, <2>2 DEF Empty
<1>2. CASE ctl.at = "insert" /\ ctl' = ctl
  <2>1. ~\E b \in Buf : Bind(b) \/ Unbind(b)
    <3>1. ctl # Idle
      BY <1>2 DEF Idle
    <3>2. \A b \in Buf : ~Bind(b) /\ ~Unbind(b)
      BY <3>1 DEF Bind, Unbind
    <3> QED
      BY <3>2
  <2>2. ctl.slot \in Entry
    BY <1>2 DEF Used
  <2> QED
    BY <1>2, <2>1, <2>2, PhyKept DEF PhyOf, Relink
<1>3. CASE ctl'.at = "insert" => ctl' = ctl
  BY <1>2, <1>3
<1> QED
  BY <1>1, <1>3, InsertBegins

\* No buffer is linked twice (channel_insert_in_raw_list), whatever a client submits
\* and at whatever offsets, as long as buffers are freed only while none is linked.
THEOREM LinkedOnceCorrect == ~FreeWhileBusy => (Spec => []LinkedOnce)
<1> SUFFICES ASSUME ~FreeWhileBusy PROVE Spec => []LinkedOnce
  OBVIOUS
<1>1. Init => TypeOK /\ EosInv /\ LinkInv
  BY InitType, EosInit, LinkInit
<1>2. TypeOK /\ EosInv /\ LinkInv /\ [Next]_vars => TypeOK' /\ EosInv' /\ LinkInv'
  <2> SUFFICES ASSUME TypeOK, EosInv, LinkInv, [Next]_vars
               PROVE  TypeOK' /\ EosInv' /\ LinkInv'
    OBVIOUS
  <2>1. TypeOK'
    BY EntStep, QueueStep, CtlStep, ClientStep DEF TypeOK
  <2>2. EosInv'
    BY EosStep
  <2>3. LinkInv'
    <3>1. ctl.at = "insert" => PhyOf(ctl.slot) = ctl.buf
      BY DEF LinkInv
    <3> QED
      BY <3>1, LinkSubset, LinkOnceStep, InsertPhy DEF LinkInv
  <2> QED
    BY <2>1, <2>2, <2>3
<1>3. LinkInv => LinkedOnce
  BY DEF LinkInv
<1> QED
  BY <1>1, <1>2, <1>3, PTL DEF Spec

-----------------------------------------------------------------------------
(* A client that uses only buffers it owns and waits for the answer to its *)
(* flush, with a message queue that holds a message for each of its        *)
(* buffers and one more.                                                   *)

\* The slots that hold a buffer: not the one that is being given another.
Live == IF ctl.at = "relink" THEN Used \ {ctl.slot} ELSE Used
Bound == {PhyOf(s) : s \in Live}

\* Where the client's buffers are.
Carried == IF ctl.at = "insert" \/ (ctl.at \in {"eos", "reply"} /\ ctl.slot = 0)
           THEN {ctl.buf} ELSE {}
LinkedBufs == {PhyOf(e) : e \in Queued \ {Eos}}
Reported == {b \in Buf \cup {NoBuf} : InputDone(b) \in ToSet(msgs)}

Partition(B, H, M, L, C) ==
    /\ B = H \cup M \cup L \cup C
    /\ H \cap M = {} /\ H \cap L = {} /\ H \cap C = {}
    /\ M \cap L = {} /\ M \cap C = {} /\ L \cap C = {}

BufsInv == Partition(Bound, held, Reported, LinkedBufs, Carried)

\* The table: one slot for each buffer, and what the ioctl inside knows of it.
SlotInv ==
    /\ \A s \in Used : PhyOf(s) \in Buf
    /\ \A s, t \in Live : PhyOf(s) = PhyOf(t) => s = t
    /\ Queued \subseteq Live \cup {Eos}
    /\ IsInjective(raw_queue)
    /\ ctl.at = "insert" => PhyOf(ctl.slot) = ctl.buf
    /\ ctl.at = "reply" => ctl.slot = 0
    /\ ctl.at \in {"idle", "clear"} => ctl.buf = NoBuf
    /\ ctl.at = "relink" =>
          IF ctl.slot < input_buf_num THEN PhyOf(ctl.slot) = PhyOf(input_buf_num)
          ELSE PhyOf(ctl.slot) = ctl.buf

\* The message queue: no message twice, and the flush the client waits for is
\* pending or answered.
MsgInv ==
    /\ IsInjective(msgs)
    /\ awaited \in {0, 1}
    /\ awaited = 1 <=> (input_flush_pending \/ FlushDone \in ToSet(msgs))
    /\ ~(input_flush_pending /\ FlushDone \in ToSet(msgs))

PlaceInv == SlotInv /\ BufsInv /\ MsgInv

LEMMA CtlKept ==
    ASSUME [Next]_vars, ctl.at = "relink", ~Relink
    PROVE  ctl' = ctl
<1>1. ctl # Idle
  BY DEF Idle
<1>2. ASSUME NEW b \in Buf, Bind(b) \/ Unbind(b) PROVE FALSE
  BY <1>1, <1>2 DEF Bind, Unbind
<1>3. ASSUME NEW b \in Buf, NEW o \in Off, NEW e \in BOOLEAN, Empty(b, o, e) PROVE FALSE
  BY <1>1, <1>3 DEF Empty
<1>4. ASSUME NEW b \in Buf, NEW e \in BOOLEAN, EmptyNoData(b, e) PROVE FALSE
  BY <1>1, <1>4 DEF EmptyNoData
<1>5. ~Flush /\ ~SwitchState
  BY <1>1 DEF Flush, SwitchState
<1>6. IoctlStep => FALSE
  BY DEF IoctlStep, Insert, QueueEos, ReplyNoData, ClearStream
<1>7. CASE BeginTake \/ TakeNothing \/ Receive \/ (\E i \in DOMAIN raw_queue : Take(i))
           \/ UNCHANGED vars
  BY <1>7 DEF BeginTake, TakeNothing, Receive, Take, vars
<1>8. CASE Reclaim
  BY <1>8 DEF Reclaim, Release, ReleaseUnknown
<1> QED
  BY <1>2, <1>3, <1>4, <1>5, <1>6, <1>7, <1>8 DEF Next

\* Only Bind, Unbind and Relink change the table.
LEMMA TableKept ==
    ASSUME TypeOK, [Next]_vars, ~Relink, ~\E b \in Buf : Bind(b) \/ Unbind(b)
    PROVE  /\ Used' = Used /\ Live' = Live /\ Bound' = Bound
           /\ \A e \in Entry : PhyOf(e)' = PhyOf(e)
<1>1. \A e \in Entry : ent'[e].phy = ent[e].phy
  BY PhyKept
<1>2. Used' = Used
  BY PhyKept DEF Used
<1>3. Used \subseteq Entry
  BY SlotType DEF TypeOK, EntType, Used
<1>4. Live' = Live
  <2>1. CASE ctl.at = "relink"
    BY <1>2, <2>1, CtlKept DEF Live
  <2>2. CASE ctl.at # "relink"
    BY <1>2, <2>2, CtlChange DEF Live
  <2> QED
    BY <2>1, <2>2
<1>5. Bound' = Bound
  <2>1. Live \subseteq Entry
    BY <1>3 DEF Live
  <2>2. \A e \in Live : ent'[e].phy = ent[e].phy
    BY <1>1, <2>1
  <2> QED
    BY <1>4, <2>2 DEF Bound, PhyOf
<1> QED
  BY <1>1, <1>2, <1>4, <1>5 DEF PhyOf
\* What is known of the ioctl inside outlives every step.
LEMMA CallStep ==
    ASSUME TypeOK, SlotInv, [Next]_vars
    PROVE  /\ (ctl.at = "reply" => ctl.slot = 0)'
           /\ (ctl.at \in {"idle", "clear"} => ctl.buf = NoBuf)'
<1> DEFINE P == (ctl.at = "reply" => ctl.slot = 0)
                /\ (ctl.at \in {"idle", "clear"} => ctl.buf = NoBuf)
<1> SUFFICES P'
  OBVIOUS
<1> USE DEF Call, Idle, vars
<1>1. CASE ctl' = ctl
  BY <1>1 DEF SlotInv
<1>2. CASE ctl' = Idle
  BY <1>2
<1>3. ASSUME NEW b \in Buf, Unbind(b) PROVE P'
  BY <1>3 DEF Unbind
<1>4. ASSUME NEW b \in Buf, NEW o \in Off, NEW e \in BOOLEAN, Empty(b, o, e) PROVE P'
  <2>1. ctl' = ctl \/ ctl'.at = "insert"
    BY <1>4 DEF Empty
  <2> QED
    BY <1>1, <2>1
<1>5. ASSUME NEW b \in Buf, NEW e \in BOOLEAN, EmptyNoData(b, e) PROVE P'
  BY <1>5 DEF EmptyNoData
<1>6. CASE Insert
  <2>1. ctl' = Idle \/ ctl'.at = "eos"
    BY <1>6 DEF Insert, TypeOK, CtlType
  <2> QED
    BY <1>2, <2>1
<1>7. CASE QueueEos
  <2>1. ctl' = Idle \/ (ctl'.at = "reply" /\ ctl'.slot = 0)
    BY <1>7 DEF QueueEos, TypeOK, CtlType
  <2> QED
    BY <1>2, <2>1
<1>8. CASE Relink \/ ReplyNoData \/ ClearStream
  BY <1>2, <1>8 DEF Relink, ReplyNoData, ClearStream
<1>9. CASE Flush
  BY <1>9 DEF Flush
<1>10. CASE SwitchState \/ BeginTake \/ TakeNothing \/ Receive \/ UNCHANGED vars
  BY <1>1, <1>10 DEF SwitchState, BeginTake, TakeNothing, Receive
<1>11. ASSUME NEW i \in DOMAIN raw_queue, Take(i) PROVE P'
  BY <1>1, <1>11 DEF Take
<1>12. CASE Reclaim
  BY <1>1, <1>12 DEF Reclaim, Release, ReleaseUnknown
<1>13. ASSUME NEW b \in Buf, Bind(b) PROVE P'
  BY <1>1, <1>13 DEF Bind
<1> HIDE DEF P, vars
<1> QED
  BY <1>3, <1>4, <1>5, <1>6, <1>7, <1>8, <1>9, <1>10, <1>11, <1>12, <1>13
  DEF Next, IoctlStep

\* Only slots that hold a buffer are linked, none twice.
LEMMA TableQueueStep ==
    ASSUME TypeOK, EosInv, SlotInv, [Next]_vars,
           ~Relink, ~\E b \in Buf : Bind(b) \/ Unbind(b)
    PROVE  (Queued \subseteq Live \cup {Eos} /\ IsInjective(raw_queue))'
<1> raw_queue \in Seq(Entry) /\ Live' = Live
  BY TableKept DEF TypeOK, QueueType
<1> Queued \subseteq Live \cup {Eos} /\ IsInjective(raw_queue)
  BY DEF SlotInv
<1>1. CASE raw_queue' = raw_queue
  BY <1>1 DEF Queued
<1>2. CASE Insert /\ ~Duplicate(ctl.buf) /\ raw_queue' = Append(raw_queue, ctl.slot)
  <2>1. ctl.slot \in Entry /\ ctl.slot \in Live
    BY <1>2, SlotType DEF Insert, TypeOK, CtlType, EntType, Used, Live
  <2>2. ctl.slot \notin Queued
    BY <1>2 DEF Insert, Duplicate, SlotInv
  <2> QED
    BY <1>2, <2>1, <2>2, AppendList DEF Queued
<1>3. CASE QueueEos /\ ~eos_in_list /\ raw_queue' = Append(raw_queue, Eos)
  <2>1. Eos \notin Queued /\ Eos \in Entry
    BY <1>3, SlotType DEF EosInv, EosFlag
  <2> QED
    BY <1>3, <2>1, AppendList DEF Queued
<1>4. CASE Flush /\ raw_queue' = Keep(raw_queue, Entry \ ToSet(Flushed))
  BY <1>4, KeepRange, KeepInjective DEF Queued
<1>5. ASSUME NEW a \in Address, NEW i \in DOMAIN raw_queue,
             raw_queue' = RemoveAt(raw_queue, i)
      PROVE  (Queued \subseteq Live \cup {Eos} /\ IsInjective(raw_queue))'
  BY <1>5, RemoveList DEF Queued
<1> QED
  BY <1>1, <1>2, <1>3, <1>4, <1>5, QueueChange
\* What is linked keeps its address, and no slot that is freed is linked.
LEMMA BindTable ==
    ASSUME TypeOK, SlotInv, NEW b \in Buf, Bind(b)
    PROVE  /\ SlotInv' /\ Bound' = Bound \cup {b} /\ b \notin Bound
           /\ \A e \in Queued : PhyOf(e)' = PhyOf(e)
<1>0. PICK n : n = input_buf_num + 1
  OBVIOUS
<1>1. /\ n \in Slot /\ n \in Entry /\ n # Eos /\ n \notin Used
      /\ Used' = Used \cup {n} /\ Used \subseteq Entry
  <2>1. n \in Slot /\ input_buf_num \in Nat /\ input_buf_num \in 0 .. MaxSlots
    BY <1>0, SlotType DEF Bind, TypeOK, EntType
  <2>2. n \notin 1 .. input_buf_num /\ 1 .. n = (1 .. input_buf_num) \cup {n}
    BY <1>0, <2>1
  <2>3. input_buf_num' = n
    BY <1>0 DEF Bind
  <2> QED
    BY <2>1, <2>2, <2>3, SlotType DEF Used
<1>2. ent' = [ent EXCEPT ![n] = [phy |-> b, status |-> "IDLE", off |-> 0]]
  BY <1>0 DEF Bind
<1>3. PhyOf(n)' = b /\ \A e \in Entry : e # n => PhyOf(e)' = PhyOf(e)
  BY <1>1, <1>2 DEF TypeOK, EntType, PhyOf
<1>4. /\ Live = Used /\ Live' = Used \cup {n} /\ ctl' = ctl /\ ctl.at = "idle"
      /\ raw_queue' = raw_queue
  BY <1>1 DEF Bind, Live, Idle
<1>5. \A s \in Used : PhyOf(s) # b /\ PhyOf(s)' = PhyOf(s)
  BY <1>1, <1>3 DEF Bind, Lookup, PhyOf
<1>6. Bound' = Bound \cup {b} /\ b \notin Bound
  BY <1>3, <1>4, <1>5 DEF Bound
<1>7. \A e \in Queued : e \in Entry /\ e # n
  BY <1>1, <1>4, SlotType DEF SlotInv
<1>8. (\A s \in Used : PhyOf(s) \in Buf)'
  BY <1>1, <1>3, <1>5 DEF SlotInv
<1>9. (\A s, t \in Live : PhyOf(s) = PhyOf(t) => s = t)'
  <2>1. \A s, t \in Used : PhyOf(s) = PhyOf(t) => s = t
    BY <1>4 DEF SlotInv
  <2>2. \A s, t \in Used \cup {n} : PhyOf(s)' = PhyOf(t)' => s = t
    BY <1>3, <1>5, <2>1
  <2> QED
    BY <1>4, <2>2
<1>10. SlotInv'
  BY <1>4, <1>8, <1>9 DEF SlotInv, Queued
<1> QED
  BY <1>3, <1>6, <1>7, <1>10

LEMMA UnbindTable ==
    ASSUME TypeOK, SlotInv, NEW b \in Buf, Unbind(b), b \notin LinkedBufs
    PROVE  /\ SlotInv' /\ Bound' = Bound \ {b}
           /\ \A e \in Queued : PhyOf(e)' = PhyOf(e)
<1> DEFINE n == input_buf_num
<1>1. PICK s \in Lookup(b) :
         /\ ent' = IF s < n THEN [ent EXCEPT ![s] = ent[n]] ELSE ent
         /\ ctl' = Call("relink", s, b, FALSE)
  BY DEF Unbind
<1>2. /\ s \in Used /\ PhyOf(s) = b /\ n' = n /\ Used' = Used /\ n \in Nat
      /\ raw_queue' = raw_queue /\ ctl.at = "idle" /\ Used \subseteq Entry
      /\ s \in Entry /\ s # Eos
  BY SlotType DEF Lookup, PhyOf, Unbind, Used, Idle, TypeOK, EntType
<1>3. Live = Used /\ Live' = Used \ {s}
  BY <1>1, <1>2 DEF Live, Call
<1>4. /\ \A e \in Entry \ {s} : PhyOf(e)' = PhyOf(e)
      /\ s < n => PhyOf(s)' = PhyOf(n) /\ n \in Used /\ n # s
      /\ ~(s < n) => PhyOf(s)' = PhyOf(s) /\ s = n
  <2>1. s < n => n \in Used /\ n # s
    BY <1>2 DEF Used
  <2>2. ~(s < n) => s = n
    BY <1>2 DEF Used
  <2> QED
    BY <1>1, <1>2, <2>1, <2>2 DEF TypeOK, EntType, PhyOf
<1>5. s \notin Queued
  BY <1>2 DEF LinkedBufs
<1>6. \A e \in Queued : e \in Entry \ {s} /\ PhyOf(e)' = PhyOf(e)
  BY <1>2, <1>3, <1>4, <1>5, SlotType DEF SlotInv
<1>7. \A t \in Used \ {s} : PhyOf(t)' = PhyOf(t) /\ PhyOf(t) # b
  BY <1>2, <1>3, <1>4 DEF SlotInv
<1>8. Bound' = Bound \ {b}
  BY <1>2, <1>3, <1>7 DEF Bound
<1>9. (\A t \in Used : PhyOf(t) \in Buf)'
  BY <1>2, <1>4, <1>7 DEF SlotInv
<1>10. (\A t, u \in Live : PhyOf(t) = PhyOf(u) => t = u)'
  BY <1>3, <1>7 DEF SlotInv
<1>11. (ctl.at = "relink" =>
          IF ctl.slot < input_buf_num THEN PhyOf(ctl.slot) = PhyOf(input_buf_num)
          ELSE PhyOf(ctl.slot) = ctl.buf)'
  <2>1. ctl'.slot = s /\ ctl'.buf = b
    BY <1>1 DEF Call
  <2>2. s < n => PhyOf(n)' = PhyOf(n)
    BY <1>2, <1>4
  <2> QED
    BY <1>2, <1>4, <2>1, <2>2
<1>12. (Queued \subseteq Live \cup {Eos} /\ IsInjective(raw_queue))'
  BY <1>2, <1>3, <1>5 DEF SlotInv, Queued
<1>13. ctl'.at = "relink"
  BY <1>1 DEF Call
<1>14. SlotInv'
  BY <1>9, <1>10, <1>11, <1>12, <1>13 DEF SlotInv
<1> QED
  BY <1>6, <1>8, <1>14

\* The buffer of the last slot goes on under the freed one, linked or not.
LEMMA RelinkTable ==
    ASSUME TypeOK, SlotInv, Relink
    PROVE  SlotInv' /\ Bound' = Bound /\ LinkedBufs' = LinkedBufs
<1> DEFINE n == input_buf_num
           k == ctl.slot
           q == Keep(raw_queue, Entry \ {n})
<1>1. /\ n \in Nat /\ k \in Used /\ n \in Used /\ Used \subseteq Entry
      /\ Used' = Used \ {n} /\ k # Eos /\ n # Eos /\ Eos \in Entry
      /\ raw_queue \in Seq(Entry)
  <2>1. n \in 0 .. MaxSlots /\ k \in 1 .. n /\ n' = n - 1
    BY DEF Relink, TypeOK, EntType, CtlType, Used
  <2>2. 1 .. n - 1 = (1 .. n) \ {n} /\ n \in 1 .. n
    BY <2>1
  <2> QED
    BY <2>1, <2>2, SlotType DEF Used, TypeOK, QueueType
<1>2. Live = Used \ {k} /\ Live' = Used \ {n} /\ ctl' = Idle /\ ctl.at = "relink"
  BY <1>1 DEF Relink, Live, Idle
<1>3. \A e \in Entry \ {n} : PhyOf(e)' = PhyOf(e)
  <2>1. ent' = [ent EXCEPT ![n] = [phy |-> NoBuf, status |-> "INVALID", off |-> 0]]
    BY DEF Relink
  <2> QED
    BY <1>1, <2>1 DEF TypeOK, EntType, PhyOf
<1>4. IF k # n THEN PhyOf(k) = PhyOf(n) ELSE PhyOf(k) = ctl.buf
  <2>1. k < n <=> k # n
    BY <1>1 DEF Used
  <2> QED
    BY <1>2, <2>1 DEF SlotInv
<1>5. raw_queue' = IF k # n /\ n \in Queued THEN Append(q, k) ELSE raw_queue
  <2>1. k < n <=> k # n
    BY <1>1 DEF Used
  <2> QED
    BY <2>1 DEF Relink
<1>6. /\ q \in Seq(Entry) /\ ToSet(q) = Queued \ {n} /\ IsInjective(q)
  <2>1. q \in Seq(Entry) /\ ToSet(q) = Queued \cap (Entry \ {n}) /\ IsInjective(q)
    BY <1>1, KeepRange, KeepInjective DEF SlotInv, Queued
  <2>2. Queued \subseteq Entry
    BY <1>1 DEF Queued, ToSet
  <2> HIDE DEF q
  <2> QED
    BY <2>1, <2>2
<1> HIDE DEF n, k, q
<1>7. /\ IsInjective(raw_queue')
      /\ Queued' = IF k # n /\ n \in Queued THEN (Queued \ {n}) \cup {k} ELSE Queued
  <2>1. k \notin Queued
    BY <1>1, <1>2 DEF SlotInv
  <2>2. k \in Entry
    BY <1>1
  <2>3. CASE k # n /\ n \in Queued
    BY <1>5, <1>6, <2>1, <2>2, <2>3, AppendList DEF Queued
  <2>4. CASE ~(k # n /\ n \in Queued)
    BY <1>5, <2>4 DEF SlotInv, Queued
  <2> QED
    BY <2>3, <2>4
<1>8. Queued \subseteq (Used \ {k}) \cup {Eos} /\ Queued' \subseteq Live' \cup {Eos}
  <2>1. Queued \subseteq (Used \ {k}) \cup {Eos}
    BY <1>2 DEF SlotInv
  <2> QED
    BY <1>1, <1>2, <1>7, <2>1
<1>9. /\ \A t \in Used \ {n} : PhyOf(t)' = PhyOf(t)
      /\ PhyOf(Eos)' = PhyOf(Eos)
  BY <1>1, <1>3
<1>10. \A s, t \in Used \ {k} : PhyOf(s) = PhyOf(t) => s = t
  BY <1>2 DEF SlotInv
<1>11. (\A s \in Used : PhyOf(s) \in Buf)'
  BY <1>1, <1>9 DEF SlotInv
<1>12. (\A s, t \in Live : PhyOf(s) = PhyOf(t) => s = t)'
  <2>1. \A s, t \in Used \ {n} : PhyOf(s) = PhyOf(t) => s = t
    BY <1>1, <1>4, <1>10
  <2> QED
    BY <1>2, <1>9, <2>1
<1>13. SlotInv'
  BY <1>2, <1>7, <1>8, <1>11, <1>12 DEF SlotInv, Idle
<1>14. Bound' = Bound
  <2>1. {PhyOf(s) : s \in Used \ {n}} = {PhyOf(s) : s \in Used \ {k}}
    BY <1>1, <1>4
  <2>2. Bound' = {PhyOf(s) : s \in Used \ {n}}
    BY <1>2, <1>9 DEF Bound
  <2> QED
    BY <1>2, <2>1, <2>2 DEF Bound
<1>15. LinkedBufs' = LinkedBufs
  <2>1. LinkedBufs' = {PhyOf(e) : e \in Queued' \ {Eos}}
    <3>1. \A e \in Queued' \ {Eos} : PhyOf(e)' = PhyOf(e)
      BY <1>2, <1>8, <1>9
    <3> QED
      BY <3>1 DEF LinkedBufs
  <2>2. {PhyOf(e) : e \in Queued' \ {Eos}} = {PhyOf(e) : e \in Queued \ {Eos}}
    BY <1>1, <1>4, <1>7
  <2> QED
    BY <2>1, <2>2 DEF LinkedBufs
<1> QED
  BY <1>13, <1>14, <1>15

LEMMA SlotStep ==
    ASSUME TypeOK, EosInv, SlotInv, [Next]_vars, held \cap LinkedBufs = {}
    PROVE  SlotInv'
<1>1. ASSUME NEW b \in Buf, Bind(b) PROVE SlotInv'
  BY <1>1, BindTable
<1>2. ASSUME NEW b \in Buf, Unbind(b) PROVE SlotInv'
  <2>1. b \notin LinkedBufs
    BY <1>2 DEF Unbind
  <2> QED
    BY <1>2, <2>1, UnbindTable
<1>3. CASE Relink
  BY <1>3, RelinkTable
<1>4. CASE ~Relink /\ ~\E b \in Buf : Bind(b) \/ Unbind(b)
  <2>1. /\ Used' = Used /\ Live' = Live /\ Used \subseteq Entry
        /\ \A e \in Entry : PhyOf(e)' = PhyOf(e)
        /\ input_buf_num' = input_buf_num
    BY <1>4, TableKept, PhyKept, SlotType DEF TypeOK, EntType, Used
  <2>2. (\A s \in Used : PhyOf(s) \in Buf)'
    BY <2>1 DEF SlotInv
  <2>3. (\A s, t \in Live : PhyOf(s) = PhyOf(t) => s = t)'
    BY <2>1 DEF SlotInv, Live
  <2>4. (ctl.at = "relink" =>
          IF ctl.slot < input_buf_num THEN PhyOf(ctl.slot) = PhyOf(input_buf_num)
          ELSE PhyOf(ctl.slot) = ctl.buf)'
    <3> SUFFICES ASSUME ctl'.at = "relink"
                 PROVE  IF ctl'.slot < input_buf_num'
                        THEN PhyOf(ctl.slot)' = PhyOf(input_buf_num)'
                        ELSE PhyOf(ctl.slot)' = ctl'.buf
      OBVIOUS
    <3>1. ctl.at = "relink" /\ ctl' = ctl
      BY <1>4, CtlChange, CtlKept
    <3>2. ctl.slot \in Used /\ input_buf_num \in Used
      <4>1. ctl.slot \in 1 .. input_buf_num /\ input_buf_num \in Nat
        BY <3>1 DEF TypeOK, EntType, CtlType, Used
      <4> QED
        BY <4>1 DEF Used
    <3> QED
      BY <2>1, <3>1, <3>2 DEF SlotInv, PhyOf
  <2>5. ctl.at = "insert" => PhyOf(ctl.slot) = ctl.buf
    BY DEF SlotInv
  <2> QED
    BY <1>4, <2>2, <2>3, <2>4, <2>5, TableQueueStep, CallStep, InsertPhy DEF SlotInv
<1> QED
  BY <1>1, <1>2, <1>3, <1>4
\* The messages a client can have waiting: one for each of its buffers, and
\* the answer to its flush.
Answers == {InputDone(b) : b \in Bound} \cup {FlushDone}

LEMMA AnswersBound ==
    ASSUME TypeOK
    PROVE  IsFiniteSet(Answers) /\ Cardinality(Answers) <= MaxSlots + 1
<1> DEFINE f == [s \in Live |-> InputDone(PhyOf(s))]
           B == {InputDone(b) : b \in Bound}
<1>1. Live \in SUBSET Slot
  BY SlotType DEF Live, TypeOK, EntType, Used
<1>2. IsFiniteSet(Slot) /\ Cardinality(Slot) = MaxSlots /\ MaxSlots \in Nat
  <2>1. MaxSlots \in Nat
    BY PortAssumption
  <2>2. IsFiniteSet(1 .. MaxSlots) /\ Cardinality(1 .. MaxSlots) = MaxSlots
    BY <2>1, FS_Interval
  <2> QED
    BY <2>1, <2>2 DEF Slot
<1>3. IsFiniteSet(Live) /\ Cardinality(Live) <= MaxSlots /\ Cardinality(Live) \in Nat
  BY <1>1, <1>2, FS_Subset, FS_CardinalityType
<1>4. f \in Surjection(Live, B)
  BY DEF Surjection, Bound
<1>5. IsFiniteSet(B) /\ Cardinality(B) <= Cardinality(Live)
  <2> HIDE DEF f, B
  <2> QED
    BY <1>3, <1>4, FS_Surjection
<1> HIDE DEF B
<1>6. /\ IsFiniteSet(B \cup {FlushDone})
      /\ Cardinality(B \cup {FlushDone}) = Cardinality(B)
         \/ Cardinality(B \cup {FlushDone}) = Cardinality(B) + 1
  BY <1>5, FS_AddElement
<1>7. Cardinality(B) \in Nat
  BY <1>5, FS_CardinalityType
<1>8. Cardinality(B \cup {FlushDone}) <= MaxSlots + 1
  BY <1>2, <1>3, <1>5, <1>6, <1>7
<1> QED
  BY <1>6, <1>8 DEF Answers, B

LEMMA MsgsAre ==
    ASSUME TypeOK, BufsInv
    PROVE  ToSet(msgs) \subseteq Answers
<1> SUFFICES ASSUME NEW m \in ToSet(msgs) PROVE m \in Answers
  OBVIOUS
<1>1. m \in Msg
  BY DEF TypeOK, ClientType, ToSet
<1>2. CASE m = FlushDone
  BY <1>2 DEF Answers
<1>3. ASSUME NEW b \in Buf \cup {NoBuf}, m = InputDone(b) PROVE m \in Answers
  <2>1. b \in Reported
    BY <1>3 DEF Reported
  <2> QED
    BY <1>3, <2>1 DEF Answers, BufsInv, Partition
<1> QED
  BY <1>1, <1>2, <1>3 DEF Msg, DoneMsg

\* None of the messages of such a client is ever lost.
LEMMA NothingLost ==
    ASSUME TypeOK, BufsInv, MsgInv, Depth > MaxSlots,
           NEW ms \in Seq(Msg), IsInjective(ms), ToSet(ms) \subseteq Answers,
           ToSet(msgs) \cap ToSet(ms) = {}, Post(ms)
    PROVE  IsInjective(msgs') /\ ToSet(msgs') = ToSet(msgs) \cup ToSet(ms)
<1> DEFINE u == msgs \o ms
<1>1. /\ u \in Seq(Msg) /\ IsInjective(u) /\ ToSet(u) = ToSet(msgs) \cup ToSet(ms)
  <2>1. msgs \in Seq(Msg) /\ IsInjective(msgs)
    BY DEF TypeOK, ClientType, MsgInv
  <2> QED
    BY <2>1, ConcatList
<1>2. msgs' = IF Len(u) <= Depth THEN u ELSE SubSeq(u, 1, Depth)
  BY DEF Post
<1> HIDE DEF u
<1>3. u \in Seq(Answers)
  <2>1. \A i \in DOMAIN u : u[i] \in ToSet(msgs) \cup ToSet(ms)
    BY <1>1 DEF ToSet
  <2>2. \A i \in DOMAIN u : u[i] \in Answers
    BY <2>1, MsgsAre
  <2> QED
    BY <1>1, <2>2
<1>4. Len(u) <= Cardinality(Answers)
  BY <1>1, <1>3, AnswersBound, LengthBound
<1>5. Len(u) <= Depth
  <2>1. /\ Len(u) \in Nat /\ Depth \in Nat /\ MaxSlots \in Nat
        /\ Cardinality(Answers) \in Nat
    BY <1>1, PortAssumption, AnswersBound, FS_CardinalityType
  <2> QED
    BY <1>4, <2>1, AnswersBound
<1> QED
  BY <1>1, <1>2, <1>5

\* Which buffers are reported once more.
LEMMA ReportedNow ==
    ASSUME NEW M, ToSet(msgs') = ToSet(msgs) \cup M
    PROVE  Reported' = Reported \cup {b \in Buf \cup {NoBuf} : InputDone(b) \in M}
BY DEF Reported

\* Entries that leave the port are each reported in a message of their own.
LEMMA ReturnedInjective ==
    ASSUME TypeOK, NEW es \in Seq(Entry), IsInjective(es),
           \A s, t \in ToSet(es) \cap Slot : PhyOf(s) = PhyOf(t) => s = t
    PROVE  IsInjective(Returned(es))
<1> DEFINE bufs == Keep(es, Slot)
<1>1. bufs \in Seq(Entry) /\ ToSet(bufs) = ToSet(es) \cap Slot /\ IsInjective(bufs)
  BY KeepRange, KeepInjective
<1>2. Returned(es) = [i \in DOMAIN bufs |-> InputDone(PhyOf(bufs[i]))]
  BY DEF Returned
<1> HIDE DEF bufs
<1>3. \A i \in DOMAIN bufs : bufs[i] \in ToSet(es) \cap Slot
  BY <1>1 DEF ToSet
<1>4. \A x, y : InputDone(x) = InputDone(y) => x = y
  BY DEF InputDone
<1>5. \A i, j \in DOMAIN bufs :
         InputDone(PhyOf(bufs[i])) = InputDone(PhyOf(bufs[j])) => i = j
  BY <1>1, <1>3, <1>4 DEF IsInjective
<1> QED
  BY <1>2, <1>5 DEF IsInjective

\* What happens to the buffers of linked entries that are unlinked.
LEMMA Unlinking ==
    ASSUME SlotInv, NEW R \in SUBSET Queued, Queued' = Queued \ R,
           \A e \in Queued : PhyOf(e)' = PhyOf(e)
    PROVE  LinkedBufs' = LinkedBufs \ {PhyOf(e) : e \in R \ {Eos}}
<1>1. LinkedBufs' = {PhyOf(e) : e \in (Queued \ R) \ {Eos}}
  BY DEF LinkedBufs
<1>2. \A d, e \in Queued \ {Eos} : PhyOf(d) = PhyOf(e) => d = e
  BY DEF SlotInv
<1>3. {PhyOf(e) : e \in (Queued \ R) \ {Eos}}
        = {PhyOf(e) : e \in Queued \ {Eos}} \ {PhyOf(e) : e \in R \ {Eos}}
  BY <1>2
<1> QED
  BY <1>1, <1>3 DEF LinkedBufs

\* Buffers that move from the queue into messages.
LEMMA MoveToMessages ==
    ASSUME NEW B, NEW H, NEW M, NEW L, NEW C, Partition(B, H, M, L, C), NEW G \in SUBSET L
    PROVE  Partition(B, H, M \cup G, L \ G, C)
BY DEF Partition
LEMMA LinkedKept ==
    ASSUME Queued' \ {Eos} = Queued \ {Eos}, \A e \in Queued : PhyOf(e)' = PhyOf(e)
    PROVE  LinkedBufs' = LinkedBufs
BY DEF LinkedBufs

\* A step that moves no buffer and concerns no flush.
LEMMA QuietStep ==
    ASSUME PlaceInv, UNCHANGED <<Bound, LinkedBufs, Carried>>,
           UNCHANGED <<msgs, held, input_flush_pending, awaited>>
    PROVE  BufsInv' /\ MsgInv'
<1>1. Reported' = Reported
  BY DEF Reported
<1>2. BufsInv'
  BY <1>1 DEF PlaceInv, BufsInv
<1>3. MsgInv'
  BY DEF PlaceInv, MsgInv
<1> QED
  BY <1>2, <1>3

LEMMA TablePlaces ==
    ASSUME TypeOK, PlaceInv, Relink \/ \E b \in Buf : Bind(b) \/ Unbind(b)
    PROVE  BufsInv' /\ MsgInv'
<1> USE DEF PlaceInv
<1>1. Reported' = Reported /\ Carried = {} /\ Carried' = {}
  <2>1. CASE Relink
    BY <2>1 DEF Relink, Reported, Carried, Idle
  <2>2. ASSUME NEW b \in Buf, Bind(b) PROVE Reported' = Reported /\ Carried = {} /\ Carried' = {}
    BY <2>2 DEF Bind, Reported, Carried, Idle
  <2>3. ASSUME NEW b \in Buf, Unbind(b) PROVE Reported' = Reported /\ Carried = {} /\ Carried' = {}
    <3>1. ctl = Idle /\ ctl'.at = "relink" /\ msgs' = msgs
      BY <2>3 DEF Unbind, Call
    <3> QED
      BY <3>1 DEF Reported, Carried, Idle
  <2> QED
    BY <2>1, <2>2, <2>3
<1>2. MsgInv'
  <2>1. UNCHANGED <<msgs, input_flush_pending, awaited>>
    BY DEF Relink, Bind, Unbind, clientVars
  <2> QED
    BY <2>1 DEF MsgInv
<1>3. CASE Relink
  <2>1. Bound' = Bound /\ LinkedBufs' = LinkedBufs /\ held' = held
    BY <1>3, RelinkTable DEF Relink, clientVars
  <2> QED
    BY <1>1, <1>2, <2>1 DEF BufsInv
<1>4. ASSUME NEW b \in Buf, Bind(b) PROVE BufsInv'
  <2>1. Bound' = Bound \cup {b} /\ b \notin Bound
    BY <1>4, BindTable
  <2>2. LinkedBufs' = LinkedBufs
    BY <1>4, BindTable, LinkedKept DEF Bind, Queued
  <2>3. held' = held \cup {b}
    BY <1>4 DEF Bind
  <2> QED
    BY <1>1, <2>1, <2>2, <2>3 DEF BufsInv, Partition
<1>5. ASSUME NEW b \in Buf, Unbind(b) PROVE BufsInv'
  <2>1. b \in held /\ held' = held \ {b} /\ raw_queue' = raw_queue
    BY <1>5 DEF Unbind
  <2>2. b \notin LinkedBufs
    BY <2>1 DEF BufsInv, Partition
  <2>3. Bound' = Bound \ {b}
    BY <1>5, <2>2, UnbindTable
  <2>4. LinkedBufs' = LinkedBufs
    BY <1>5, <2>1, <2>2, UnbindTable, LinkedKept DEF Queued
  <2> QED
    BY <1>1, <2>1, <2>3, <2>4 DEF BufsInv, Partition
<1> QED
  BY <1>2, <1>3, <1>4, <1>5

LEMMA EmptyPlaces ==
    ASSUME TypeOK, PlaceInv, [Next]_vars, Disciplined,
           NEW b \in Buf, NEW o \in Off, NEW e \in BOOLEAN, Empty(b, o, e) \/ EmptyNoData(b, e)
    PROVE  BufsInv' /\ MsgInv'
<1> USE DEF PlaceInv
<1>1. ~Relink /\ ~\E c \in Buf : Bind(c) \/ Unbind(c)
  <2>1. ctl = Idle /\ held' = held \ {b} /\ b \in held
    BY DEF Empty, EmptyNoData, MaySubmit
  <2>2. ~Relink
    BY <2>1 DEF Relink, Idle
  <2>3. ctl'.at \in {"idle", "insert", "eos"}
    BY <2>1 DEF Empty, EmptyNoData, Idle, Call
  <2>4. ASSUME NEW c \in Buf, Bind(c) PROVE FALSE
    BY <2>1, <2>4 DEF Bind
  <2>5. ASSUME NEW c \in Buf, Unbind(c) PROVE FALSE
    BY <2>3, <2>5 DEF Unbind, Call
  <2> QED
    BY <2>2, <2>4, <2>5
<1>2. /\ Bound' = Bound /\ raw_queue' = raw_queue /\ raw_queue \in Seq(Entry)
      /\ \A x \in Entry : PhyOf(x)' = PhyOf(x)
  BY <1>1, TableKept DEF Empty, EmptyNoData, portVars, TypeOK, QueueType
<1>3. LinkedBufs' = LinkedBufs
  <2>1. \A x \in Queued : x \in Entry
    BY <1>2 DEF Queued, ToSet
  <2> QED
    BY <1>2, <2>1, LinkedKept DEF Queued
<1>4. b \in held /\ held' = held \ {b} /\ Carried = {} /\ ctl = Idle
  BY DEF Empty, EmptyNoData, MaySubmit, Carried, Idle
<1>5. Lookup(b) # {}
  <2>1. b \in Bound
    BY <1>4 DEF BufsInv, Partition
  <2>2. Live = Used
    BY <1>4 DEF Live, Idle
  <2> QED
    BY <2>1, <2>2 DEF Bound, Lookup, PhyOf
<1>6. msgs' = msgs /\ Carried' = {b}
  BY <1>5 DEF Empty, EmptyNoData, Call, Carried
<1>7. Reported' = Reported
  BY <1>6 DEF Reported
<1>8. MsgInv'
  BY <1>6 DEF Empty, EmptyNoData, portVars, MsgInv
<1>9. BufsInv'
  BY <1>2, <1>3, <1>4, <1>6, <1>7 DEF BufsInv, Partition
<1> QED
  BY <1>8, <1>9

LEMMA CallPlaces ==
    ASSUME TypeOK, PlaceInv, [Next]_vars, Depth > MaxSlots,
           Insert \/ QueueEos \/ ReplyNoData \/ ClearStream
    PROVE  BufsInv' /\ MsgInv'
<1> USE DEF PlaceInv
<1>1. ~Relink /\ ~\E c \in Buf : Bind(c) \/ Unbind(c)
  <2>1. ctl.at \in {"insert", "eos", "reply", "clear"}
    BY DEF Insert, QueueEos, ReplyNoData, ClearStream
  <2>2. ctl # Idle /\ ctl.at # "relink"
    BY <2>1 DEF Idle
  <2>3. ASSUME NEW c \in Buf, Bind(c) \/ Unbind(c) PROVE FALSE
    BY <2>2, <2>3 DEF Bind, Unbind
  <2> QED
    BY <2>2, <2>3 DEF Relink
<1>2. /\ Bound' = Bound /\ raw_queue \in Seq(Entry) /\ held' = held
      /\ awaited' = awaited /\ input_flush_pending' = input_flush_pending
      /\ \A x \in Entry : PhyOf(x)' = PhyOf(x)
      /\ Queued \subseteq Entry
  <2>1. raw_queue \in Seq(Entry)
    BY DEF TypeOK, QueueType
  <2> QED
    BY <1>1, <2>1, TableKept
    DEF Insert, QueueEos, ReplyNoData, ClearStream, portVars, clientVars, Queued, ToSet
<1>3. CASE Insert
  <2>1. ctl.buf \in Buf /\ ctl.slot \in Used /\ Carried = {ctl.buf}
        /\ PhyOf(ctl.slot) = ctl.buf /\ ctl.slot \in Entry /\ ctl.slot # Eos /\ ctl.slot # 0
    BY <1>3, SlotType DEF Insert, TypeOK, CtlType, EntType, Used, Carried, SlotInv
  <2>2. ~Duplicate(ctl.buf)
    <3>1. PhyOf(Eos) = Eos /\ Eos \notin Buf
      BY PortAssumption DEF TypeOK, EntType, PhyOf
    <3>2. ctl.buf \notin LinkedBufs
      BY <2>1 DEF BufsInv, Partition
    <3> QED
      BY <2>1, <3>1, <3>2 DEF Duplicate, LinkedBufs
  <2>3. /\ msgs' = msgs /\ raw_queue' = Append(raw_queue, ctl.slot)
        /\ ctl' = [ctl EXCEPT !.at = "eos"]
    BY <1>3, <2>2 DEF Insert, Linked
  <2>4. Carried' = {}
    BY <2>1, <2>3 DEF Carried, TypeOK, CtlType
  <2>5. Queued' = Queued \cup {ctl.slot}
    BY <1>2, <2>1, <2>3, AppendList DEF Queued
  <2>6. LinkedBufs' = LinkedBufs \cup {ctl.buf}
    <3>1. LinkedBufs' = {PhyOf(e) : e \in (Queued \cup {ctl.slot}) \ {Eos}}
      BY <1>2, <2>1, <2>5 DEF LinkedBufs
    <3> QED
      BY <2>1, <3>1 DEF LinkedBufs
  <2>7. Reported' = Reported
    BY <2>3 DEF Reported
  <2>8. BufsInv'
    BY <1>2, <2>1, <2>4, <2>6, <2>7 DEF BufsInv, Partition
  <2> QED
    BY <1>2, <2>3, <2>8 DEF MsgInv
<1>4. CASE QueueEos
  <2>1. /\ msgs' = msgs
        /\ raw_queue' = raw_queue \/ raw_queue' = Append(raw_queue, Eos)
        /\ ctl' = IF ctl.slot = 0 THEN [ctl EXCEPT !.at = "reply"] ELSE Idle
        /\ ctl.at = "eos"
    BY <1>4 DEF QueueEos, Linked
  <2>2. Carried' = Carried
    BY <2>1 DEF Carried, TypeOK, CtlType, Idle
  <2>3. Queued' \ {Eos} = Queued \ {Eos}
    <3>1. CASE raw_queue' = Append(raw_queue, Eos)
      <4>1. ToSet(Append(raw_queue, Eos)) = ToSet(raw_queue) \cup {Eos}
        BY <1>2, SlotType, AppendList
      <4> QED
        BY <3>1, <4>1 DEF Queued
    <3>2. CASE raw_queue' = raw_queue
      BY <3>2 DEF Queued
    <3> QED
      BY <2>1, <3>1, <3>2
  <2>4. LinkedBufs' = LinkedBufs
    BY <1>2, <2>3, LinkedKept
  <2> QED
    BY <1>2, <2>1, <2>2, <2>4, QuietStep
<1>5. CASE ReplyNoData
  <2>1. /\ ctl.at = "reply" /\ ctl.slot = 0 /\ ctl.buf \in Buf
        /\ Carried = {ctl.buf} /\ ctl' = Idle /\ raw_queue' = raw_queue
        /\ Post(<<InputDone(ctl.buf)>>)
    BY <1>5 DEF ReplyNoData, SlotInv, TypeOK, CtlType, Carried, portVars
  <2> DEFINE ms == <<InputDone(ctl.buf)>>
  <2>2. /\ ms \in Seq(Msg) /\ IsInjective(ms) /\ ToSet(ms) = {InputDone(ctl.buf)}
    BY <2>1 DEF Msg, DoneMsg, IsInjective, ToSet
  <2>3. ctl.buf \in Bound /\ ctl.buf \notin Reported
    BY <2>1 DEF BufsInv, Partition
  <2>4. InputDone(ctl.buf) \in Answers /\ InputDone(ctl.buf) \notin ToSet(msgs)
    BY <2>1, <2>3 DEF Answers, Reported
  <2>5. IsInjective(msgs') /\ ToSet(msgs') = ToSet(msgs) \cup {InputDone(ctl.buf)}
    <3>1. Post(ms) /\ ToSet(ms) \subseteq Answers /\ ToSet(msgs) \cap ToSet(ms) = {}
      BY <2>1, <2>2, <2>4
    <3> HIDE DEF ms
    <3> QED
      BY <2>2, <3>1, NothingLost
  <2>6. Reported' = Reported \cup {ctl.buf}
    <3>1. Reported' = Reported \cup
             {b \in Buf \cup {NoBuf} : InputDone(b) \in {InputDone(ctl.buf)}}
      BY <2>5, ReportedNow
    <3>2. {b \in Buf \cup {NoBuf} : InputDone(b) \in {InputDone(ctl.buf)}} = {ctl.buf}
      BY <2>1 DEF InputDone
    <3> QED
      BY <3>1, <3>2
  <2>7. FlushDone \in ToSet(msgs') <=> FlushDone \in ToSet(msgs)
    BY <2>5 DEF FlushDone, InputDone
  <2>8. LinkedBufs' = LinkedBufs /\ Carried' = {}
    BY <1>2, <2>1, LinkedKept DEF Queued, Carried, Idle
  <2>9. MsgInv'
    BY <1>2, <2>5, <2>7 DEF MsgInv
  <2>10. BufsInv'
    BY <1>2, <2>1, <2>6, <2>8 DEF BufsInv, Partition
  <2> QED
    BY <2>9, <2>10
<1>6. CASE ClearStream
  <2>1. msgs' = msgs /\ raw_queue' = raw_queue /\ Carried' = Carried
    BY <1>6 DEF ClearStream, portVars, Carried, Idle
  <2>2. LinkedBufs' = LinkedBufs
    BY <1>2, <2>1, LinkedKept DEF Queued
  <2> QED
    BY <1>2, <2>1, <2>2, QuietStep
<1> QED
  BY <1>3, <1>4, <1>5, <1>6
\* The part of a post that answers a flush.
LEMMA AnswerList ==
    ASSUME NEW f \in {<<>>, <<FlushDone>>}
    PROVE  /\ f \in Seq(Msg) /\ IsInjective(f)
           /\ ToSet(f) = IF f = <<>> THEN {} ELSE {FlushDone}
<1>1. CASE f = <<>>
  BY <1>1 DEF IsInjective, ToSet
<1>2. CASE f = <<FlushDone>>
  BY <1>2 DEF IsInjective, ToSet, Msg
<1> QED
  BY <1>1, <1>2

\* Entries R that leave the queue, their buffers reported: what both ways out
\* of the port, a flush and a release, do to the places of the buffers.
LEMMA LeavingPort ==
    ASSUME TypeOK, PlaceInv, Depth > MaxSlots,
           Bound' = Bound, held' = held, Carried' = Carried,
           \A e \in Queued : PhyOf(e)' = PhyOf(e),
           NEW es \in Seq(Entry), IsInjective(es), ToSet(es) \in SUBSET Queued,
           Queued' = Queued \ ToSet(es),
           NEW answer \in {<<>>, <<FlushDone>>},
           answer = <<FlushDone>> => FlushDone \notin ToSet(msgs),
           Post(Returned(es) \o answer)
    PROVE  /\ BufsInv' /\ IsInjective(msgs')
           /\ FlushDone \in ToSet(msgs') <=>
                 (FlushDone \in ToSet(msgs) \/ answer = <<FlushDone>>)
<1> USE DEF PlaceInv
<1> DEFINE R == ToSet(es)
           G == {PhyOf(e) : e \in R \ {Eos}}
           D == {InputDone(b) : b \in G}
           ms == Returned(es) \o answer
<1>1. R \subseteq Live \cup {Eos} /\ Live \subseteq Slot /\ Live \subseteq Used /\ Eos \notin Slot
  BY SlotType DEF SlotInv, Live, TypeOK, EntType, Used
<1>2. R \cap Slot = R \ {Eos}
  <2> HIDE DEF R
  <2> QED
    BY <1>1
<1>3. \A s, t \in R \cap Slot : PhyOf(s) = PhyOf(t) => s = t
  <2> HIDE DEF R
  <2> QED
    BY <1>1 DEF SlotInv
<1>4. G \in SUBSET LinkedBufs /\ G \subseteq Buf
  <2>1. R \in SUBSET Queued
    OBVIOUS
  <2> HIDE DEF R
  <2>2. \A e \in R \ {Eos} : PhyOf(e) \in Buf
    BY <1>1 DEF SlotInv
  <2> QED
    BY <2>1, <2>2 DEF LinkedBufs
<1>5. G \cap Reported = {} /\ G \subseteq Bound
  <2> HIDE DEF G
  <2> QED
    BY <1>4 DEF BufsInv, Partition
<1>6. Returned(es) \in Seq(Msg) /\ IsInjective(Returned(es)) /\ ToSet(Returned(es)) = D
  <2>1. Returned(es) \in Seq(Msg)
    BY ReturnedType
  <2>2. IsInjective(Returned(es))
    BY <1>3, ReturnedInjective
  <2>3. ToSet(Returned(es)) = {InputDone(PhyOf(s)) : s \in R \cap Slot}
    BY ReturnedList
  <2> HIDE DEF R
  <2>4. {InputDone(PhyOf(s)) : s \in R \ {Eos}} = D
    OBVIOUS
  <2> QED
    BY <1>2, <2>1, <2>2, <2>3, <2>4
<1>7. answer \in Seq(Msg) /\ IsInjective(answer)
      /\ ToSet(answer) = IF answer = <<>> THEN {} ELSE {FlushDone}
  BY AnswerList
<1>8. \A x : InputDone(x) # FlushDone
  BY DEF InputDone, FlushDone
<1>9. /\ ms \in Seq(Msg) /\ IsInjective(ms)
      /\ ToSet(ms) = D \cup ToSet(answer)
  <2>1. D \cap ToSet(answer) = {}
    <3> HIDE DEF G
    <3> QED
      BY <1>7, <1>8
  <2> HIDE DEF D
  <2> QED
    BY <1>6, <1>7, <2>1, ConcatList
<1>10. D \cap ToSet(msgs) = {}
  <2> HIDE DEF G
  <2> QED
    BY <1>4, <1>5 DEF Reported
<1>11. ToSet(ms) \subseteq Answers /\ ToSet(msgs) \cap ToSet(ms) = {}
  <2>1. D \subseteq Answers
    <3> HIDE DEF G
    <3> QED
      BY <1>5 DEF Answers
  <2> HIDE DEF D, ms
  <2> QED
    BY <1>7, <1>9, <1>10, <2>1 DEF Answers
<1>12. IsInjective(msgs') /\ ToSet(msgs') = ToSet(msgs) \cup ToSet(ms)
  <2>1. Post(ms)
    OBVIOUS
  <2> HIDE DEF ms
  <2> QED
    BY <1>9, <1>11, <2>1, NothingLost
<1>13. Reported' = Reported \cup G
  <2>1. Reported' = Reported \cup {b \in Buf \cup {NoBuf} : InputDone(b) \in D \cup ToSet(answer)}
    <3> HIDE DEF D, ms
    <3> QED
      BY <1>9, <1>12, ReportedNow
  <2>2. \A x, y : InputDone(x) = InputDone(y) => x = y
    BY DEF InputDone
  <2>3. {b \in Buf \cup {NoBuf} : InputDone(b) \in D \cup ToSet(answer)} = G
    <3> HIDE DEF G
    <3> QED
      BY <1>4, <1>7, <1>8, <2>2
  <2> QED
    BY <2>1, <2>3
<1>14. LinkedBufs' = LinkedBufs \ G
  BY Unlinking
<1>15. FlushDone \in ToSet(msgs') <=>
          (FlushDone \in ToSet(msgs) \/ answer = <<FlushDone>>)
  <2>1. FlushDone \notin D
    <3> HIDE DEF G
    <3> QED
      BY <1>8
  <2>2. FlushDone \in ToSet(answer) <=> answer = <<FlushDone>>
    BY <1>7
  <2> HIDE DEF D, ms
  <2> QED
    BY <1>9, <1>12, <2>1, <2>2
<1>16. BufsInv'
  <2> HIDE DEF G
  <2>1. Partition(Bound, held, Reported \cup G, LinkedBufs \ G, Carried)
    BY <1>4, MoveToMessages DEF BufsInv
  <2> QED
    BY <1>13, <1>14, <2>1 DEF BufsInv
<1> QED
  BY <1>12, <1>15, <1>16

LEMMA FlushPlaces ==
    ASSUME TypeOK, PlaceInv, [Next]_vars, Disciplined, Depth > MaxSlots, Flush
    PROVE  BufsInv' /\ MsgInv'
<1> USE DEF PlaceInv
<1>1. ctl = Idle /\ ctl' = Call("clear", 0, NoBuf, FALSE) /\ held' = held
  BY DEF Flush
<1>2. ~Relink /\ ~\E c \in Buf : Bind(c) \/ Unbind(c)
  <2>1. ctl.at # "relink" /\ ctl' # ctl /\ ctl'.at # "relink"
    BY <1>1 DEF Idle, Call
  <2>2. ASSUME NEW c \in Buf, Bind(c) \/ Unbind(c) PROVE FALSE
    BY <2>1, <2>2 DEF Bind, Unbind, Call
  <2> QED
    BY <2>1, <2>2 DEF Relink
<1>3. raw_queue \in Seq(Entry) /\ Queued \subseteq Entry /\ IsInjective(raw_queue)
  BY DEF TypeOK, QueueType, Queued, ToSet, SlotInv
<1>4. Bound' = Bound /\ \A e \in Queued : PhyOf(e)' = PhyOf(e)
  BY <1>2, <1>3, TableKept
<1>5. Carried' = Carried
  BY <1>1 DEF Carried, Idle, Call
<1>6. /\ Flushed \in Seq(Entry) /\ IsInjective(Flushed)
      /\ ToSet(Flushed) \in SUBSET Queued
  BY <1>3, KeepRange, KeepInjective DEF Flushed, Queued
<1>7. Queued' = Queued \ ToSet(Flushed)
  <2> DEFINE g == ToSet(Flushed)
  <2>1. raw_queue' = Keep(raw_queue, Entry \ g)
    BY DEF Flush
  <2> HIDE DEF g
  <2>2. ToSet(Keep(raw_queue, Entry \ g)) = Queued \cap (Entry \ g)
    BY <1>3, KeepRange DEF Queued
  <2>3. Queued' = Queued \ g
    BY <1>3, <2>1, <2>2 DEF Queued
  <2> QED
    BY <2>3 DEF g
<1> DEFINE answer == FlushReply(raw_use_cnt > 0)
<1>8. /\ awaited = 0 /\ awaited' = 1
      /\ input_flush_pending' = (raw_use_cnt > 0 \/ input_flush_pending)
      /\ Post(Returned(Flushed) \o answer)
  BY DEF Flush, MsgInv
<1>9. answer = IF raw_use_cnt > 0 THEN <<>> ELSE <<FlushDone>>
  BY DEF FlushReply
<1>10. answer \in {<<>>, <<FlushDone>>} /\ (answer = <<FlushDone>> <=> ~(raw_use_cnt > 0))
  BY <1>9
<1>11. ~input_flush_pending /\ FlushDone \notin ToSet(msgs)
  BY <1>8 DEF MsgInv
<1> HIDE DEF answer
<1>12. /\ BufsInv' /\ IsInjective(msgs')
       /\ FlushDone \in ToSet(msgs') <=>
             (FlushDone \in ToSet(msgs) \/ answer = <<FlushDone>>)
  BY <1>1, <1>4, <1>5, <1>6, <1>7, <1>8, <1>10, <1>11, LeavingPort
<1>13. MsgInv'
  BY <1>8, <1>10, <1>11, <1>12 DEF MsgInv, TypeOK, QueueType
<1> QED
  BY <1>12, <1>13

LEMMA ReleasePlaces ==
    ASSUME TypeOK, PlaceInv, [Next]_vars, Depth > MaxSlots,
           NEW a \in Address, NEW i \in DOMAIN raw_queue, Release(a, i),
           ~Relink, ~\E c \in Buf : Bind(c) \/ Unbind(c)
    PROVE  BufsInv' /\ MsgInv'
<1> USE DEF PlaceInv
<1> DEFINE e == raw_queue[i]
           left == IF raw_use_cnt > 0 THEN raw_use_cnt - 1 ELSE 0
           last == input_flush_pending /\ left = 0
           answer == IF last THEN <<FlushDone>> ELSE <<>>
<1>1. /\ raw_queue' = RemoveAt(raw_queue, i) /\ ctl' = ctl
      /\ held' = held /\ awaited' = awaited
      /\ input_flush_pending' = (input_flush_pending /\ left # 0)
      /\ Post(Returned(<<e>>) \o answer)
  BY DEF Release, StillPending, clientVars
<1>2. raw_queue \in Seq(Entry) /\ Queued \subseteq Entry /\ IsInjective(raw_queue)
  BY DEF TypeOK, QueueType, Queued, ToSet, SlotInv
<1>3. Bound' = Bound /\ \A x \in Queued : PhyOf(x)' = PhyOf(x)
  BY <1>2, TableKept
<1>4. Carried' = Carried
  BY <1>1 DEF Carried
<1>5. e \in Queued /\ e \in Entry
  BY <1>2 DEF Queued, ToSet
<1>6. Queued' = Queued \ {e}
  BY <1>1, <1>2, RemoveList DEF Queued
<1> HIDE DEF e
<1>7. /\ <<e>> \in Seq(Entry) /\ IsInjective(<<e>>) /\ ToSet(<<e>>) = {e}
  BY <1>5 DEF IsInjective, ToSet
<1>8. answer \in {<<>>, <<FlushDone>>} /\ (answer = <<FlushDone>> <=> last)
  OBVIOUS
<1>9. last => FlushDone \notin ToSet(msgs)
  BY DEF MsgInv
<1> HIDE DEF answer, last
<1>10. /\ BufsInv' /\ IsInjective(msgs')
       /\ FlushDone \in ToSet(msgs') <=>
             (FlushDone \in ToSet(msgs) \/ answer = <<FlushDone>>)
  BY <1>1, <1>3, <1>4, <1>5, <1>6, <1>7, <1>8, <1>9, LeavingPort
<1>11. MsgInv'
  <2> HIDE DEF left
  <2> QED
    BY <1>1, <1>8, <1>10 DEF MsgInv, last
<1> QED
  BY <1>10, <1>11

LEMMA ReceivePlaces ==
    ASSUME TypeOK, PlaceInv, [Next]_vars, Receive
    PROVE  BufsInv' /\ MsgInv'
<1> USE DEF PlaceInv
<1>1. /\ UNCHANGED <<ent, input_buf_num, raw_queue, input_flush_pending, ctl>>
      /\ msgs # <<>> /\ msgs' = Tail(msgs) /\ msgs \in Seq(Msg)
  BY DEF Receive, portVars, TypeOK, ClientType
<1>2. UNCHANGED <<Bound, LinkedBufs, Carried>>
  BY <1>1 DEF Bound, LinkedBufs, Carried, Live, Used, PhyOf, Queued
<1> DEFINE m == Head(msgs)
<1>3. /\ m \in Msg /\ m \in ToSet(msgs)
      /\ IsInjective(msgs') /\ ToSet(msgs') = ToSet(msgs) \ {m}
  BY <1>1, TailList DEF MsgInv
<1>4. IF m.code = "INPUT_DONE" THEN held' = held \cup {m.buf} /\ awaited' = awaited
      ELSE awaited' = awaited - 1 /\ held' = held
  BY DEF Receive
<1> HIDE DEF m
<1>5. CASE m = FlushDone
  <2>1. awaited' = awaited - 1 /\ held' = held
    BY <1>4, <1>5 DEF FlushDone
  <2>2. Reported' = Reported
    BY <1>3, <1>5 DEF Reported, InputDone, FlushDone
  <2>3. awaited = 1 /\ ~input_flush_pending
    BY <1>3, <1>5 DEF MsgInv
  <2>4. MsgInv'
    BY <1>1, <1>3, <1>5, <2>1, <2>3 DEF MsgInv
  <2> QED
    BY <1>2, <2>1, <2>2, <2>4 DEF BufsInv
<1>6. ASSUME NEW b \in Buf \cup {NoBuf}, m = InputDone(b) PROVE BufsInv' /\ MsgInv'
  <2>1. held' = held \cup {b} /\ awaited' = awaited
    BY <1>4, <1>6 DEF InputDone
  <2>2. b \in Reported /\ Reported' = Reported \ {b}
    BY <1>3, <1>6 DEF Reported, InputDone
  <2>3. FlushDone \in ToSet(msgs') <=> FlushDone \in ToSet(msgs)
    BY <1>3, <1>6 DEF FlushDone, InputDone
  <2>4. MsgInv'
    BY <1>1, <1>3, <2>1, <2>3 DEF MsgInv
  <2>5. BufsInv'
    BY <1>2, <2>1, <2>2 DEF BufsInv, Partition
  <2> QED
    BY <2>4, <2>5
<1> QED
  BY <1>3, <1>5, <1>6 DEF Msg, DoneMsg

LEMMA PlaceInit == Init => PlaceInv
<1> SUFFICES ASSUME Init PROVE PlaceInv
  OBVIOUS
<1>1. /\ Used = {} /\ Live = {} /\ Queued = {} /\ ctl = Idle /\ msgs = <<>> /\ ToSet(msgs) = {}
      /\ held = {} /\ awaited = 0 /\ input_flush_pending = FALSE /\ raw_queue = <<>>
  BY DEF Init, Used, Live, Queued, ToSet, Idle
<1>2. SlotInv
  BY <1>1 DEF SlotInv, Idle, IsInjective
<1>3. Bound = {} /\ Reported = {} /\ LinkedBufs = {} /\ Carried = {}
  BY <1>1 DEF Bound, Reported, LinkedBufs, Carried, Idle
<1>4. BufsInv
  BY <1>1, <1>3 DEF BufsInv, Partition
<1>5. MsgInv
  BY <1>1 DEF MsgInv, IsInjective
<1> QED
  BY <1>2, <1>4, <1>5 DEF PlaceInv
LEMMA PlaceStep ==
    ASSUME Disciplined, Depth > MaxSlots, TypeOK, EosInv, PlaceInv, [Next]_vars
    PROVE  PlaceInv'
<1>1. SlotInv'
  <2>1. held \cap LinkedBufs = {}
    BY DEF PlaceInv, BufsInv, Partition
  <2> QED
    BY <2>1, SlotStep DEF PlaceInv
<1>2. CASE Relink \/ \E b \in Buf : Bind(b) \/ Unbind(b)
  BY <1>1, <1>2, TablePlaces DEF PlaceInv
<1>3. CASE ~Relink /\ ~\E b \in Buf : Bind(b) \/ Unbind(b)
  <2> SUFFICES BufsInv' /\ MsgInv'
    BY <1>1 DEF PlaceInv
  <2>1. Bound' = Bound /\ \A e \in Queued : PhyOf(e)' = PhyOf(e)
    <3>1. Queued \subseteq Entry
      BY DEF TypeOK, QueueType, Queued, ToSet
    <3> QED
      BY <1>3, <3>1, TableKept
  <2>2. ASSUME UNCHANGED <<raw_queue, ctl, msgs, held, input_flush_pending, awaited>>
        PROVE  BufsInv' /\ MsgInv'
    <3>1. LinkedBufs' = LinkedBufs /\ Carried' = Carried
      BY <2>1, <2>2, LinkedKept DEF Queued, Carried
    <3> QED
      BY <2>1, <2>2, <3>1, QuietStep
  <2>3. CASE UNCHANGED vars
    BY <2>2, <2>3 DEF vars, portVars, clientVars
  <2>4. ASSUME NEW b \in Buf, NEW o \in Off, NEW e \in BOOLEAN, Empty(b, o, e)
        PROVE  BufsInv' /\ MsgInv'
    BY <2>4, EmptyPlaces
  <2>5. ASSUME NEW b \in Buf, NEW e \in BOOLEAN, EmptyNoData(b, e)
        PROVE  BufsInv' /\ MsgInv'
    <3>1. 0 \in Off
      BY PortAssumption
    <3> QED
      BY <2>5, <3>1, EmptyPlaces
  <2>6. CASE Flush
    BY <2>6, FlushPlaces
  <2>7. CASE Insert \/ QueueEos \/ ReplyNoData \/ ClearStream
    BY <2>7, CallPlaces
  <2>8. CASE SwitchState \/ BeginTake \/ TakeNothing
    BY <2>2, <2>8 DEF SwitchState, BeginTake, TakeNothing, portVars, clientVars
  <2>9. ASSUME NEW i \in DOMAIN raw_queue, Take(i) PROVE BufsInv' /\ MsgInv'
    BY <2>2, <2>9 DEF Take, clientVars
  <2>10. ASSUME NEW a \in Address, NEW i \in DOMAIN raw_queue, Release(a, i)
         PROVE  BufsInv' /\ MsgInv'
    BY <1>3, <2>10, ReleasePlaces
  <2>11. ASSUME NEW a \in Address, ReleaseUnknown(a) PROVE BufsInv' /\ MsgInv'
    BY <2>2, <2>11 DEF ReleaseUnknown, portVars, clientVars
  <2>12. CASE Reclaim
    BY <2>10, <2>11, <2>12 DEF Reclaim
  <2>13. CASE Receive
    BY <2>13, ReceivePlaces
  <2> QED
    BY <1>3, <2>3, <2>4, <2>5, <2>6, <2>7, <2>8, <2>9, <2>12, <2>13 DEF Next, IoctlStep
<1> QED
  BY <1>2, <1>3

LEMMA PlaceInductive ==
    ASSUME Disciplined, Depth > MaxSlots
    PROVE  Spec => [](TypeOK /\ EosInv /\ PlaceInv)
<1>1. Init => TypeOK /\ EosInv /\ PlaceInv
  BY InitType, EosInit, PlaceInit
<1>2. TypeOK /\ EosInv /\ PlaceInv /\ [Next]_vars => TypeOK' /\ EosInv' /\ PlaceInv'
  <2> SUFFICES ASSUME TypeOK, EosInv, PlaceInv, [Next]_vars
               PROVE  TypeOK' /\ EosInv' /\ PlaceInv'
    OBVIOUS
  <2>1. TypeOK'
    BY EntStep, QueueStep, CtlStep, ClientStep DEF TypeOK
  <2> QED
    BY <2>1, EosStep, PlaceStep
<1> QED
  BY <1>1, <1>2, PTL DEF Spec

\* What the inductive invariant says in the words of the properties: each
\* count is that of a list without repetitions.
LEMMA PlaceCount ==
    ASSUME TypeOK, PlaceInv
    PROVE  OnePlace
<1> SUFFICES ASSUME NEW b \in Buf, Lookup(b) # {}, ~(ctl.at = "relink" /\ ctl.buf = b)
             PROVE  Count(b \in held) + NumOf(InputDone(b))
                    + Cardinality({i \in DOMAIN raw_queue : PhyOf(raw_queue[i]) = b})
                    + Count(ctl.buf = b /\ (ctl.at = "insert" \/ ctl.slot = 0)) = 1
  BY DEF OnePlace
<1> USE DEF PlaceInv
<1>1. b \in Bound
  <2>1. PICK s \in Used : PhyOf(s) = b
    BY DEF Lookup, PhyOf
  <2>2. CASE s \in Live
    BY <2>1, <2>2 DEF Bound
  <2>3. CASE s \notin Live
    <3>1. ctl.at = "relink" /\ s = ctl.slot /\ input_buf_num \in Nat
          /\ ctl.slot \in 1 .. input_buf_num
      BY <2>3 DEF Live, TypeOK, EntType, CtlType, Used
    <3>2. ctl.slot < input_buf_num /\ PhyOf(ctl.slot) = PhyOf(input_buf_num)
      BY <2>1, <3>1 DEF SlotInv
    <3>3. input_buf_num \in Live
      BY <3>1, <3>2 DEF Live, Used
    <3> QED
      BY <2>1, <3>1, <3>2, <3>3 DEF Bound
  <2> QED
    BY <2>2, <2>3
<1>2. NumOf(InputDone(b)) = Count(b \in Reported)
  <2>1. NumOf(InputDone(b)) = IF InputDone(b) \in ToSet(msgs) THEN 1 ELSE 0
    BY CountOnce DEF NumOf, MsgInv
  <2> QED
    BY <2>1 DEF Reported, Count
<1>3. Cardinality({i \in DOMAIN raw_queue : PhyOf(raw_queue[i]) = b}) = Count(b \in LinkedBufs)
  <2> DEFINE I == {i \in DOMAIN raw_queue : PhyOf(raw_queue[i]) = b}
  <2>0. PhyOf(Eos) # b
    BY PortAssumption DEF TypeOK, EntType, PhyOf
  <2>1. CASE b \in LinkedBufs
    <3>1. PICK i \in DOMAIN raw_queue : PhyOf(raw_queue[i]) = b
      BY <2>1 DEF LinkedBufs, Queued, ToSet
    <3>2. \A j \in DOMAIN raw_queue : PhyOf(raw_queue[j]) = b => j = i
      <4> SUFFICES ASSUME NEW j \in DOMAIN raw_queue, PhyOf(raw_queue[j]) = b PROVE j = i
        OBVIOUS
      <4>1. raw_queue[i] \in Live /\ raw_queue[j] \in Live
        BY <2>0, <3>1 DEF SlotInv, Queued, ToSet
      <4> QED
        BY <3>1, <4>1 DEF SlotInv, IsInjective
    <3>3. I = {i}
      BY <3>1, <3>2
    <3> QED
      BY <2>1, <3>3, FS_Singleton DEF Count
  <2>2. CASE b \notin LinkedBufs
    <3>1. I = {}
      BY <2>0, <2>2 DEF LinkedBufs, Queued, ToSet
    <3> QED
      BY <2>2, <3>1, FS_EmptySet DEF Count
  <2> QED
    BY <2>1, <2>2
<1>4. (ctl.buf = b /\ (ctl.at = "insert" \/ ctl.slot = 0)) <=> b \in Carried
  <2>1. ctl.at \in {"idle", "clear"} => ctl.buf # b
    BY PortAssumption DEF SlotInv
  <2>2. ctl.at = "relink" => ctl.slot # 0
    BY DEF TypeOK, EntType, CtlType, Used
  <2> QED
    BY <2>1, <2>2 DEF Carried, TypeOK, CtlType, CtlAt
<1>5. PICK p \in {1, 2, 3, 4} :
         /\ b \in held <=> p = 1
         /\ b \in Reported <=> p = 2
         /\ b \in LinkedBufs <=> p = 3
         /\ b \in Carried <=> p = 4
  BY <1>1 DEF BufsInv, Partition
<1> QED
  BY <1>2, <1>3, <1>4, <1>5 DEF Count

LEMMA FlushCount ==
    ASSUME TypeOK, PlaceInv
    PROVE  FlushAnsweredOnce
<1>1. NumOf(FlushDone) = IF FlushDone \in ToSet(msgs) THEN 1 ELSE 0
  BY CountOnce DEF NumOf, PlaceInv, MsgInv
<1> QED
  BY <1>1 DEF PlaceInv, MsgInv, FlushAnsweredOnce, Count, TypeOK, QueueType

\* A buffer the client gave away is with an ioctl, in the queue or in one
\* message until the client has it again, also while other buffers are freed
\* and slots move; none leaks and none is returned twice.
THEOREM OnePlaceCorrect ==
    Disciplined /\ Depth > MaxSlots => (Spec => []OnePlace)
<1> SUFFICES ASSUME Disciplined, Depth > MaxSlots PROVE Spec => []OnePlace
  OBVIOUS
<1>1. Spec => [](TypeOK /\ EosInv /\ PlaceInv)
  BY PlaceInductive
<1>2. TypeOK /\ EosInv /\ PlaceInv => OnePlace
  BY PlaceCount
<1> QED
  BY <1>1, <1>2, PTL

\* A flush the client waits for is pending or answered, never both, never twice:
\* by channel_flush_in_port or by the last packet's decoder_release_stream.
THEOREM FlushAnsweredOnceCorrect ==
    Disciplined /\ Depth > MaxSlots => (Spec => []FlushAnsweredOnce)
<1> SUFFICES ASSUME Disciplined, Depth > MaxSlots PROVE Spec => []FlushAnsweredOnce
  OBVIOUS
<1>1. Spec => [](TypeOK /\ EosInv /\ PlaceInv)
  BY PlaceInductive
<1>2. TypeOK /\ EosInv /\ PlaceInv => FlushAnsweredOnce
  BY FlushCount
<1> QED
  BY <1>1, <1>2, PTL
-----------------------------------------------------------------------------
(* The same client, when it frees buffers only while none is linked: what  *)
(* the firmware holds.                                                     *)

HandedOver(a) == \E e \in Using : AddressOf(e) = a

\* The packets the firmware holds are the linked entries in use, one of each
\* address; what a flush still owes the client is among them.
UseInv ==
    /\ UseCount
    /\ \A a \in Address : lent[a] = IF HandedOver(a) THEN 1 ELSE 0
    /\ owed \subseteq {PhyOf(e) : e \in Using}

AllInv == TypeOK /\ EosInv /\ LinkInv /\ PlaceInv /\ UseInv

LEMMA EntryFinite == IsFiniteSet(Entry)
<1>1. IsFiniteSet(1 .. MaxSlots)
  BY PortAssumption, FS_Interval
<1>2. IsFiniteSet(Slot \cup {Eos})
  BY <1>1, FS_AddElement DEF Slot
<1> QED
  BY <1>2 DEF Entry

LEMMA UsingFinite == IsFiniteSet(Using) /\ Cardinality(Using) \in Nat
<1>1. Using \in SUBSET Entry
  BY DEF Using
<1> QED
  BY <1>1, EntryFinite, FS_Subset, FS_CardinalityType

\* Linked entries differ in their addresses.
LEMMA LinkedApart ==
    ASSUME LinkInv, NEW d \in Queued, NEW e \in Queued, PhyOf(d) = PhyOf(e)
    PROVE  d = e
BY DEF LinkInv, LinkedOnce, Queued, ToSet

\* Entries the firmware does not have come and go, and are relabelled, without
\* touching those it has.
LEMMA UsingKept ==
    ASSUME Disciplined, ~FreeWhileBusy, AllInv, [Next]_vars,
           ~\E i \in DOMAIN raw_queue : Take(i),
           ~\E a \in Address : \E i \in DOMAIN raw_queue : Release(a, i)
    PROVE  /\ Using' = Using
           /\ \A e \in Using : AddressOf(e)' = AddressOf(e)
<1> USE SlotType DEF AllInv, TypeOK, EntType
<1>0. Using \subseteq Queued /\ Queued \subseteq Used \cup {Eos} /\ Used \subseteq Slot
      /\ Used \subseteq Entry
  BY DEF UseInv, UseCount, LinkInv, Used
<1> DEFINE Goal == /\ Using' = Using
                   /\ \A e \in Using : AddressOf(e)' = AddressOf(e)
<1> SUFFICES Goal
  OBVIOUS
<1>1. ASSUME NEW x \in Entry \ Using, NEW r, ent' = [ent EXCEPT ![x] = r], r.status # "USING"
      PROVE  Goal
  <2>1. \A e \in Entry : e # x => ent'[e] = ent[e]
    BY <1>1
  <2>2. ent'[x].status # "USING"
    BY <1>1
  <2>3. Using' = Using
    BY <1>1, <2>1, <2>2 DEF Using
  <2>4. \A e \in Using : e \in Entry /\ e # x
    BY <1>1 DEF Using
  <2> QED
    BY <2>1, <2>3, <2>4 DEF AddressOf
<1>2. CASE ent' = ent
  BY <1>2 DEF Using, AddressOf
<1>3. ASSUME NEW b \in Buf, Bind(b) PROVE Goal
  <2>1. PICK n : n = input_buf_num + 1
    OBVIOUS
  <2>2. n \in Entry /\ n # Eos /\ n \notin Used
    BY <1>3, <2>1 DEF Bind, Used
  <2>3. PICK r : r = [phy |-> b, status |-> "IDLE", off |-> 0]
    OBVIOUS
  <2>4. ent' = [ent EXCEPT ![n] = r] /\ r.status = "IDLE"
    BY <1>3, <2>1, <2>3 DEF Bind
  <2>5. n \in Entry \ Using
    BY <1>0, <2>2
  <2> QED
    BY <1>1, <2>4, <2>5
<1>4. ASSUME NEW b \in Buf, Unbind(b) PROVE Goal
  <2>1. Using = {}
    <3>1. raw_queue = <<>>
      BY <1>4 DEF Unbind
    <3> QED
      BY <1>0, <3>1 DEF Queued, ToSet
  <2>2. PICK s \in Used :
           ent' = IF s < input_buf_num
                  THEN [ent EXCEPT ![s] = ent[input_buf_num]] ELSE ent
    BY <1>4 DEF Unbind, Lookup
  <2>3. CASE s < input_buf_num
    <3>1. input_buf_num \in Slot /\ ent[input_buf_num].status # "USING"
      BY <2>1, <2>3 DEF Using, Used
    <3>2. s \in Entry \ Using
      BY <1>0, <2>1
    <3> QED
      BY <1>1, <2>2, <2>3, <3>1, <3>2
  <2> QED
    BY <1>2, <2>2, <2>3
<1>5. CASE Relink
  <2>1. Using = {}
    <3>1. raw_queue = <<>>
      BY <1>5 DEF Relink, LinkInv
    <3> QED
      BY <1>0, <3>1 DEF Queued, ToSet
  <2>2. PICK n : n = input_buf_num
    OBVIOUS
  <2>3. n \in Entry \ Using
    BY <1>5, <2>1, <2>2 DEF Relink, CtlType, Used
  <2>4. PICK r : r = [phy |-> NoBuf, status |-> "INVALID", off |-> 0]
    OBVIOUS
  <2>5. ent' = [ent EXCEPT ![n] = r] /\ r.status = "INVALID"
    BY <1>5, <2>2, <2>4 DEF Relink
  <2> QED
    BY <1>1, <2>3, <2>5
<1>6. ASSUME NEW b \in Buf, NEW o \in Off, NEW e \in BOOLEAN, Empty(b, o, e) PROVE Goal
  <2>1. ASSUME NEW s \in Lookup(b), ent' = [ent EXCEPT ![s].off = o] PROVE Goal
    <3>1. s \in Used /\ PhyOf(s) = b /\ s \in Slot
      BY <1>0 DEF Lookup, PhyOf
    <3>2. b \notin LinkedBufs
      BY <1>6 DEF Empty, MaySubmit, PlaceInv, BufsInv, Partition
    <3>3. s \notin Queued
      BY <3>1, <3>2 DEF LinkedBufs
    <3>4. PICK r : r = [ent[s] EXCEPT !.off = o]
      OBVIOUS
    <3>5. ent' = [ent EXCEPT ![s] = r] /\ r.status = ent[s].status
      BY <2>1, <3>1, <3>4
    <3>6. s \in Entry \ Using
      BY <1>0, <3>1, <3>3
    <3>7. r.status # "USING"
      BY <3>5, <3>6 DEF Using
    <3> QED
      BY <1>1, <3>5, <3>6, <3>7
  <2>2. ent' = ent \/ \E s \in Lookup(b) : ent' = [ent EXCEPT ![s].off = o]
    BY <1>6 DEF Empty
  <2> QED
    BY <1>2, <2>1, <2>2
<1>7. CASE Insert
  <2>1. CASE ~Duplicate(ctl.buf)
    <3>0. PICK s : s = ctl.slot
      OBVIOUS
    <3>1. s \in Slot /\ PhyOf(s) = ctl.buf
      BY <1>7, <3>0 DEF Insert, CtlType, Used, LinkInv
    <3>2. s \in Entry \ Using
      BY <1>0, <2>1, <3>1 DEF Duplicate
    <3>3. PICK r : r = [ent[s] EXCEPT !.status = "QUEUED"]
      OBVIOUS
    <3>4. ent' = [ent EXCEPT ![s] = r] /\ r.status = "QUEUED"
      BY <1>7, <2>1, <3>0, <3>1, <3>3 DEF Insert
    <3> QED
      BY <1>1, <3>2, <3>4
  <2> QED
    BY <1>2, <1>7, <2>1 DEF Insert
<1>8. CASE QueueEos
  <2>0. PICK r : r = [phy |-> Eos, status |-> "QUEUED", off |-> 0]
    OBVIOUS
  <2>1. CASE ~eos_in_list /\ ent' = [ent EXCEPT ![Eos] = r]
    <3>1. Eos \in Entry \ Using
      BY <1>0, <2>1 DEF EosInv, EosFlag
    <3>2. r.status = "QUEUED"
      BY <2>0
    <3> QED
      BY <1>1, <2>1, <3>1, <3>2
  <2>2. ent' = ent \/ (~eos_in_list /\ ent' = [ent EXCEPT ![Eos] = r])
    BY <1>8, <2>0 DEF QueueEos
  <2> QED
    BY <1>2, <2>1, <2>2
<1>9. CASE Flush
  <2>1. PICK gone : gone = ToSet(Flushed)
    OBVIOUS
  <2>2. ent' = [e \in Entry |-> IF e \in gone THEN [ent[e] EXCEPT !.status = "IDLE"] ELSE ent[e]]
    BY <1>9, <2>1 DEF Flush
  <2>3. \A e \in gone : ent[e].status # "USING"
    BY <2>1, KeepRange DEF Flushed, NotHandedOver, NotUsing, QueueType
  <2>4. \A e \in Entry : ent'[e].status = "USING" <=> ent[e].status = "USING"
    BY <2>2, <2>3
  <2>5. \A e \in Entry : ent'[e].phy = ent[e].phy /\ ent'[e].off = ent[e].off
    BY <2>2
  <2>6. Using' = Using
    BY <2>4 DEF Using
  <2> QED
    BY <2>5, <2>6 DEF AddressOf, Using
<1> HIDE DEF Goal
<1>10. ASSUME NEW b \in Buf, NEW e \in BOOLEAN, EmptyNoData(b, e) PROVE Goal
  BY <1>2, <1>10 DEF EmptyNoData, portVars
<1>11. CASE ReplyNoData \/ ClearStream \/ SwitchState \/ BeginTake \/ TakeNothing
            \/ Receive \/ UNCHANGED vars
  BY <1>2, <1>11 DEF ReplyNoData, ClearStream, SwitchState, BeginTake, TakeNothing, Receive,
     vars, portVars
<1>12. ASSUME NEW a \in Address, ReleaseUnknown(a) PROVE Goal
  BY <1>2, <1>12 DEF ReleaseUnknown, portVars
<1> QED
  BY <1>3, <1>4, <1>5, <1>6, <1>7, <1>8, <1>9, <1>10, <1>11, <1>12
  DEF Next, IoctlStep, Reclaim
\* The firmware only returns what is linked.
LEMMA NothingUnknown ==
    ASSUME AllInv, NEW a \in Address, ReleaseUnknown(a)
    PROVE  FALSE
<1>1. lent[a] > 0 /\ \A e \in Queued : AddressOf(e) # a
  BY DEF ReleaseUnknown, Surrender
<1>2. HandedOver(a)
  BY <1>1 DEF AllInv, UseInv
<1> QED
  BY <1>1, <1>2 DEF HandedOver, AllInv, UseInv, UseCount

LEMMA UseQueue ==
    ASSUME AllInv, ~FreeWhileBusy, [Next]_vars,
           ~\E a \in Address : \E i \in DOMAIN raw_queue : Release(a, i)
    PROVE  Using \subseteq Queued'
<1> USE DEF AllInv, UseInv, UseCount
<1> raw_queue \in Seq(Entry) /\ Queued \subseteq Entry
  BY DEF TypeOK, QueueType, Queued, ToSet
<1>1. CASE raw_queue' = raw_queue
  BY <1>1 DEF Queued
<1>2. CASE Relink
  <2>1. raw_queue = <<>>
    BY <1>2 DEF Relink, LinkInv
  <2> QED
    BY <2>1 DEF Queued, ToSet
<1>3. ASSUME NEW e \in Entry, raw_queue' = Append(raw_queue, e) PROVE Using \subseteq Queued'
  BY <1>3, AppendList DEF Queued
<1>4. CASE Flush /\ raw_queue' = Keep(raw_queue, Entry \ ToSet(Flushed))
  <2> DEFINE g == ToSet(Flushed)
  <2>1. g = Queued \cap NotHandedOver
    BY KeepRange DEF Flushed, Queued
  <2>2. raw_queue' = Keep(raw_queue, Entry \ g)
    BY <1>4
  <2> HIDE DEF g
  <2>3. Queued' = Queued \cap (Entry \ g)
    BY <2>2, KeepRange DEF Queued
  <2> QED
    BY <2>1, <2>3 DEF NotHandedOver, NotUsing, Using
<1>5. Insert => ctl.slot \in Entry
  BY SlotType DEF Insert, TypeOK, CtlType, EntType, Used
<1> QED
  BY <1>1, <1>2, <1>3, <1>4, <1>5, SlotType, QueueChange

\* What a flush leaves in the port is in use.
LEMMA FlushOwes ==
    ASSUME AllInv, Flush
    PROVE  owed' \subseteq {PhyOf(e) : e \in Using}
<1> DEFINE g == ToSet(Flushed)
<1> raw_queue \in Seq(Entry) /\ Queued \subseteq Entry
  BY DEF AllInv, TypeOK, QueueType, Queued, ToSet
<1>1. g = Queued \cap NotHandedOver
  BY KeepRange DEF Flushed, Queued
<1>2. owed' = {PhyOf(e) : e \in Queued \ (g \cup {Eos})}
  BY DEF Flush
<1> HIDE DEF g
<1> QED
  BY <1>1, <1>2 DEF NotHandedOver, NotUsing, Using

LEMMA OwedOther ==
    ASSUME [Next]_vars, ~Flush,
           ~\E a \in Address : \E i \in DOMAIN raw_queue : Release(a, i)
    PROVE  owed' = owed
<1>1. ASSUME NEW b \in Buf, Bind(b) \/ Unbind(b) PROVE owed' = owed
  BY <1>1 DEF Bind, Unbind
<1>2. ASSUME NEW b \in Buf, NEW o \in Off, NEW e \in BOOLEAN, Empty(b, o, e) PROVE owed' = owed
  BY <1>2 DEF Empty
<1>3. ASSUME NEW b \in Buf, NEW e \in BOOLEAN, EmptyNoData(b, e) PROVE owed' = owed
  BY <1>3 DEF EmptyNoData
<1>4. IoctlStep => owed' = owed
  BY DEF IoctlStep, Insert, QueueEos, ReplyNoData, ClearStream, Relink
<1>5. CASE SwitchState \/ BeginTake \/ TakeNothing \/ Receive \/ UNCHANGED vars
  BY <1>5 DEF SwitchState, BeginTake, TakeNothing, Receive, vars
<1>6. ASSUME NEW i \in DOMAIN raw_queue, Take(i) PROVE owed' = owed
  BY <1>6 DEF Take
<1>7. ASSUME NEW a \in Address, ReleaseUnknown(a) PROVE owed' = owed
  BY <1>7 DEF ReleaseUnknown
<1> QED
  BY <1>1, <1>2, <1>3, <1>4, <1>5, <1>6, <1>7 DEF Next, Reclaim

LEMMA LentOther ==
    ASSUME [Next]_vars,
           ~\E i \in DOMAIN raw_queue : Take(i),
           ~\E a \in Address : \E i \in DOMAIN raw_queue : Release(a, i)
    PROVE  /\ raw_use_cnt' = raw_use_cnt
           /\ lent' = lent \/ \E a \in Address : ReleaseUnknown(a)
<1> DEFINE Goal == UNCHANGED <<raw_use_cnt, lent>>
<1> USE DEF portVars, firmwareVars
<1>1. ASSUME NEW b \in Buf, Bind(b) \/ Unbind(b) PROVE Goal
  BY <1>1 DEF Bind, Unbind
<1>2. ASSUME NEW b \in Buf, NEW o \in Off, NEW e \in BOOLEAN, Empty(b, o, e) PROVE Goal
  BY <1>2 DEF Empty
<1>3. ASSUME NEW b \in Buf, NEW e \in BOOLEAN, EmptyNoData(b, e) PROVE Goal
  BY <1>3 DEF EmptyNoData
<1>4. IoctlStep => Goal
  BY DEF IoctlStep, Insert, QueueEos, ReplyNoData, ClearStream, Relink
<1>5. Flush => Goal
  BY DEF Flush
<1>6. CASE SwitchState \/ BeginTake \/ TakeNothing \/ Receive \/ UNCHANGED vars
  <2>1. Goal
    BY <1>6 DEF SwitchState, BeginTake, TakeNothing, Receive, vars
  <2> QED
    BY <2>1
<1>7. ASSUME NEW a \in Address, ReleaseUnknown(a) PROVE raw_use_cnt' = raw_use_cnt
  BY <1>7 DEF ReleaseUnknown
<1> QED
  BY <1>1, <1>2, <1>3, <1>4, <1>5, <1>6, <1>7 DEF Next, Reclaim

LEMMA TakeUse ==
    ASSUME AllInv, NEW i \in DOMAIN raw_queue, Take(i)
    PROVE  UseInv' /\ Using' = Using \cup {raw_queue[i]} /\ raw_queue[i] \notin Using
           /\ \A e \in Entry : PhyOf(e)' = PhyOf(e)
<1> USE DEF AllInv
<1>0. PICK e : e = raw_queue[i]
  OBVIOUS
<1>1. e \in Queued /\ e \in Entry /\ e \notin Using /\ raw_queue' = raw_queue
  BY <1>0 DEF Take, NotUsing, Using, Queued, ToSet, TypeOK, QueueType
<1>2. /\ ent' = [ent EXCEPT ![e].status = "USING"]
      /\ lent' = [lent EXCEPT ![AddressOf(e)] = @ + 1]
      /\ raw_use_cnt' = raw_use_cnt + 1 /\ owed' = owed
  BY <1>0 DEF Take
<1>3. /\ \A x \in Entry : x # e => ent'[x].status = ent[x].status
      /\ ent'[e].status = "USING"
      /\ \A x \in Entry : ent'[x].phy = ent[x].phy /\ ent'[x].off = ent[x].off
  BY <1>1, <1>2 DEF TypeOK, EntType
<1>4. Using' = Using \cup {e}
  BY <1>1, <1>3 DEF Using
<1>5. \A x \in Entry : AddressOf(x)' = AddressOf(x) /\ PhyOf(x)' = PhyOf(x)
  BY <1>3 DEF AddressOf, PhyOf
<1>6. UseCount'
  <2>1. Cardinality(Using \cup {e}) = Cardinality(Using) + 1
    BY <1>1, UsingFinite, FS_AddElement
  <2> QED
    BY <1>1, <1>2, <1>4, <2>1 DEF UseInv, UseCount, Queued
<1>7. \A u \in Using : AddressOf(u) # AddressOf(e)
  <2> SUFFICES ASSUME NEW u \in Using, AddressOf(u) = AddressOf(e) PROVE FALSE
    OBVIOUS
  <2>1. u \in Queued /\ PhyOf(u) = PhyOf(e)
    BY DEF AddressOf, PhyOf, UseInv, UseCount
  <2> QED
    BY <1>1, <2>1, LinkedApart
<1>8. (\A a \in Address : lent[a] = IF HandedOver(a) THEN 1 ELSE 0)'
  <2> SUFFICES ASSUME NEW a \in Address
               PROVE  lent'[a] = IF HandedOver(a)' THEN 1 ELSE 0
    OBVIOUS
  <2>1. HandedOver(a)' <=> HandedOver(a) \/ AddressOf(e) = a
    <3>1. Using \cup {e} \subseteq Entry
      BY <1>1 DEF Using
    <3> QED
      BY <1>4, <1>5, <3>1 DEF HandedOver
  <2>2. lent[a] = IF HandedOver(a) THEN 1 ELSE 0
    BY DEF UseInv
  <2>3. CASE AddressOf(e) = a
    <3>1. ~HandedOver(a)
      BY <1>7, <2>3 DEF HandedOver
    <3>2. lent'[a] = lent[a] + 1
      BY <1>2, <2>3 DEF TypeOK, ClientType
    <3> QED
      BY <2>1, <2>2, <2>3, <3>1, <3>2
  <2>4. CASE AddressOf(e) # a
    <3>1. lent'[a] = lent[a]
      BY <1>2, <2>4 DEF TypeOK, ClientType
    <3> QED
      BY <2>1, <2>2, <2>4, <3>1
  <2> QED
    BY <2>3, <2>4
<1>9. (owed \subseteq {PhyOf(x) : x \in Using})'
  <2>1. Using \subseteq Entry
    BY DEF Using
  <2> QED
    BY <1>2, <1>4, <1>5, <2>1 DEF UseInv
<1> QED
  BY <1>0, <1>1, <1>4, <1>5, <1>6, <1>8, <1>9 DEF UseInv

LEMMA ReleaseUse ==
    ASSUME AllInv, NEW a \in Address, NEW i \in DOMAIN raw_queue, Release(a, i)
    PROVE  /\ UseInv' /\ raw_queue[i] \in Using /\ Using' = Using \ {raw_queue[i]}
           /\ \A e \in Entry : PhyOf(e)' = PhyOf(e)
<1> USE DEF AllInv
<1>0. PICK e : e = raw_queue[i]
  OBVIOUS
<1>1. /\ e \in Queued /\ e \in Entry /\ AddressOf(e) = a
      /\ raw_queue \in Seq(Entry) /\ IsInjective(raw_queue)
  BY <1>0 DEF Release, Queued, ToSet, TypeOK, QueueType, PlaceInv, SlotInv
<1>2. /\ ent' = [ent EXCEPT ![e].status = "IDLE"]
      /\ raw_queue' = RemoveAt(raw_queue, i)
      /\ lent[a] > 0 /\ lent' = [lent EXCEPT ![a] = @ - 1]
      /\ raw_use_cnt' = IF raw_use_cnt > 0 THEN raw_use_cnt - 1 ELSE 0
      /\ owed' = owed \ {PhyOf(e)}
  BY <1>0 DEF Release, Surrender
<1>3. /\ \A x \in Entry : x # e => ent'[x].status = ent[x].status
      /\ ent'[e].status = "IDLE"
      /\ \A x \in Entry : ent'[x].phy = ent[x].phy /\ ent'[x].off = ent[x].off
  BY <1>1, <1>2 DEF TypeOK, EntType
<1>4. Using' = Using \ {e}
  BY <1>1, <1>3 DEF Using
<1>5. \A x \in Entry : AddressOf(x)' = AddressOf(x) /\ PhyOf(x)' = PhyOf(x)
  BY <1>3 DEF AddressOf, PhyOf
<1>6. \A u \in Using : AddressOf(u) = a => u = e
  <2> SUFFICES ASSUME NEW u \in Using, AddressOf(u) = a PROVE u = e
    OBVIOUS
  <2>1. u \in Queued /\ PhyOf(u) = PhyOf(e)
    BY <1>1 DEF AddressOf, PhyOf, UseInv, UseCount
  <2> QED
    BY <1>1, <2>1, LinkedApart
<1>7. e \in Using
  BY <1>2, <1>6 DEF UseInv, HandedOver
<1>8. UseCount'
  <2>1. Cardinality(Using \ {e}) = Cardinality(Using) - 1
    BY <1>7, UsingFinite, FS_RemoveElement
  <2>2. Cardinality(Using \ {e}) \in Nat
    BY <1>4, UsingFinite, FS_RemoveElement, FS_CardinalityType
  <2>3. raw_use_cnt = Cardinality(Using) /\ Using \subseteq Queued
    BY DEF UseInv, UseCount
  <2>4. raw_use_cnt' = Cardinality(Using \ {e})
    BY <1>2, <2>1, <2>2, <2>3, UsingFinite
  <2>5. Queued' = Queued \ {e}
    BY <1>0, <1>1, <1>2, RemoveList DEF Queued
  <2> QED
    BY <1>4, <2>3, <2>4, <2>5 DEF UseCount
<1>9. (\A x \in Address : lent[x] = IF HandedOver(x) THEN 1 ELSE 0)'
  <2> SUFFICES ASSUME NEW x \in Address
               PROVE  lent'[x] = IF HandedOver(x)' THEN 1 ELSE 0
    OBVIOUS
  <2>1. HandedOver(x)' <=> HandedOver(x) /\ x # a
    <3>1. Using \subseteq Entry
      BY DEF Using
    <3>2. HandedOver(x)' <=> \E u \in Using \ {e} : AddressOf(u) = x
      BY <1>4, <1>5, <3>1 DEF HandedOver
    <3> QED
      BY <1>1, <1>6, <3>2 DEF HandedOver
  <2>2. lent[x] = IF HandedOver(x) THEN 1 ELSE 0
    BY DEF UseInv
  <2>3. CASE x = a
    <3>1. lent'[x] = lent[x] - 1
      BY <1>2, <2>3 DEF TypeOK, ClientType
    <3> QED
      BY <1>2, <2>1, <2>2, <2>3, <3>1
  <2>4. CASE x # a
    <3>1. lent'[x] = lent[x]
      BY <1>2, <2>4 DEF TypeOK, ClientType
    <3> QED
      BY <2>1, <2>2, <2>4, <3>1
  <2> QED
    BY <2>3, <2>4
<1>10. (owed \subseteq {PhyOf(x) : x \in Using})'
  <2>1. Using \subseteq Entry
    BY DEF Using
  <2>2. {PhyOf(x) : x \in Using} \ {PhyOf(e)} \subseteq {PhyOf(x) : x \in Using \ {e}}
    OBVIOUS
  <2>3. {PhyOf(x) : x \in Using \ {e}} = {PhyOf(x) : x \in Using}'
    BY <1>4, <1>5, <2>1
  <2> QED
    BY <1>2, <2>2, <2>3 DEF UseInv
<1> QED
  BY <1>0, <1>4, <1>5, <1>7, <1>8, <1>9, <1>10 DEF UseInv
LEMMA UseInit == Init => UseInv
<1> SUFFICES ASSUME Init PROVE UseInv
  OBVIOUS
<1>1. Using = {}
  BY DEF Init, Using
<1>2. raw_use_cnt = 0 /\ owed = {} /\ \A a \in Address : lent[a] = 0
  BY DEF Init
<1>3. Cardinality({}) = 0
  BY FS_EmptySet
<1> QED
  BY <1>1, <1>2, <1>3 DEF UseInv, UseCount, HandedOver

LEMMA UseStep ==
    ASSUME Disciplined, ~FreeWhileBusy, AllInv, [Next]_vars
    PROVE  UseInv'
<1>1. CASE \E i \in DOMAIN raw_queue : Take(i)
  BY <1>1, TakeUse
<1>2. CASE \E a \in Address : \E i \in DOMAIN raw_queue : Release(a, i)
  BY <1>2, ReleaseUse
<1>3. CASE /\ ~\E i \in DOMAIN raw_queue : Take(i)
           /\ ~\E a \in Address : \E i \in DOMAIN raw_queue : Release(a, i)
  <2>1. Using' = Using /\ \A e \in Using : AddressOf(e)' = AddressOf(e)
    BY <1>3, UsingKept
  <2>2. raw_use_cnt' = raw_use_cnt /\ lent' = lent
    BY <1>3, LentOther, NothingUnknown
  <2>3. Using \subseteq Queued'
    BY <1>3, UseQueue
  <2>4. owed' \subseteq {PhyOf(e) : e \in Using}
    BY <1>3, FlushOwes, OwedOther DEF AllInv, UseInv
  <2>5. \A e \in Using : PhyOf(e)' = PhyOf(e)
    BY <2>1 DEF AddressOf, PhyOf
  <2>6. UseCount'
    BY <2>1, <2>2, <2>3 DEF AllInv, UseInv, UseCount
  <2>7. \A a : HandedOver(a)' <=> HandedOver(a)
    BY <2>1 DEF HandedOver
  <2>8. (\A a \in Address : lent[a] = IF HandedOver(a) THEN 1 ELSE 0)'
    BY <2>2, <2>7 DEF AllInv, UseInv
  <2>9. (owed \subseteq {PhyOf(e) : e \in Using})'
    BY <2>1, <2>4, <2>5
  <2> QED
    BY <2>6, <2>8, <2>9 DEF UseInv
<1> QED
  BY <1>1, <1>2, <1>3

LEMMA AllStep ==
    ASSUME Disciplined, Depth > MaxSlots, ~FreeWhileBusy, AllInv, [Next]_vars
    PROVE  AllInv'
<1> USE DEF AllInv
<1>1. TypeOK' /\ EosInv'
  BY EntStep, QueueStep, CtlStep, ClientStep, EosStep DEF TypeOK
<1>2. LinkInv'
  <2>1. ctl.at = "insert" => PhyOf(ctl.slot) = ctl.buf
    BY DEF LinkInv
  <2> QED
    BY <2>1, LinkSubset, LinkOnceStep, InsertPhy DEF LinkInv
<1>3. PlaceInv'
  BY PlaceStep
<1>4. UseInv'
  BY UseStep
<1> QED
  BY <1>1, <1>2, <1>3, <1>4

LEMMA AllInductive ==
    ASSUME Disciplined, Depth > MaxSlots, ~FreeWhileBusy
    PROVE  Spec => []AllInv
<1>1. Init => AllInv
  BY InitType, EosInit, LinkInit, PlaceInit, UseInit DEF AllInv
<1>2. AllInv /\ [Next]_vars => AllInv'
  BY AllStep
<1> QED
  BY <1>1, <1>2, PTL DEF Spec

\* raw_use_cnt, which decides when a flush is over, counts the linked packets
\* that the firmware holds, in every order of empty, flush, get and release
\* (decoder_get_stream, decoder_release_stream, channel_flush_in_port).
THEOREM UseCountCorrect ==
    Disciplined /\ Depth > MaxSlots /\ ~FreeWhileBusy => (Spec => []UseCount)
<1> SUFFICES ASSUME Disciplined, Depth > MaxSlots, ~FreeWhileBusy PROVE Spec => []UseCount
  OBVIOUS
<1>1. Spec => []AllInv
  BY AllInductive
<1>2. AllInv => UseCount
  BY DEF AllInv, UseInv
<1> QED
  BY <1>1, <1>2, PTL

-----------------------------------------------------------------------------
(* The answer to a flush comes when it is over.                            *)

LEMMA PostSubset ==
    ASSUME msgs \in Seq(Msg), NEW ms \in Seq(Msg), Post(ms)
    PROVE  ToSet(msgs') \subseteq ToSet(msgs) \cup ToSet(ms)
<1> DEFINE u == msgs \o ms
<1>1. u \in Seq(Msg) /\ ToSet(u) = ToSet(msgs) \cup ToSet(ms)
  BY ConcatList
<1>2. msgs' = IF Len(u) <= Depth THEN u ELSE SubSeq(u, 1, Depth)
  BY DEF Post
<1> HIDE DEF u
<1>3. CASE Len(u) <= Depth
  BY <1>1, <1>2, <1>3
<1>4. CASE ~(Len(u) <= Depth)
  <2>1. Depth \in Nat /\ Depth < Len(u) /\ Len(u) \in Nat
    BY <1>1, <1>4, PortAssumption
  <2>2. /\ SubSeq(u, 1, Depth) \in Seq(Msg) /\ Len(SubSeq(u, 1, Depth)) = Depth
        /\ \A i \in 1 .. Depth : SubSeq(u, 1, Depth)[i] = u[i]
    BY <1>1, <2>1
  <2>3. ASSUME NEW x \in ToSet(SubSeq(u, 1, Depth)) PROVE x \in ToSet(u)
    <3>1. PICK i \in 1 .. Depth : x = SubSeq(u, 1, Depth)[i]
      BY <2>2 DEF ToSet
    <3>2. i \in DOMAIN u /\ x = u[i]
      BY <1>1, <2>1, <2>2, <3>1
    <3> QED
      BY <3>2 DEF ToSet
  <2> QED
    BY <1>1, <1>2, <1>4, <2>3
<1> QED
  BY <1>3, <1>4

\* Only the INPUT_DONE of a buffer, whatever es is.
LEMMA ReturnedNoAnswer ==
    ASSUME NEW es \in Seq(Entry)
    PROVE  FlushDone \notin ToSet(Returned(es))
<1>1. \A s : InputDone(PhyOf(s)) # FlushDone
  BY DEF InputDone, FlushDone
<1> QED
  BY <1>1, ReturnedList

\* An answer is posted only by the step that finds, or leaves, no packet with
\* the firmware.
LEMMA AnswerPosted ==
    ASSUME TypeOK, [Next]_vars, FlushDone \in ToSet(msgs'), FlushDone \notin ToSet(msgs)
    PROVE  raw_use_cnt' = 0
<1> USE DEF TypeOK
<1>0. msgs \in Seq(Msg)
  BY DEF ClientType
<1>1. CASE msgs' = msgs
  BY <1>1
<1>2. ASSUME NEW b \in Buf, Post(<<InputDone(b)>>) PROVE FALSE
  <2>1. <<InputDone(b)>> \in Seq(Msg) /\ ToSet(<<InputDone(b)>>) = {InputDone(b)}
    BY DEF Msg, DoneMsg, ToSet
  <2>2. InputDone(b) # FlushDone
    BY DEF InputDone, FlushDone
  <2> QED
    BY <1>0, <1>2, <2>1, <2>2, PostSubset
<1>3. CASE Flush
  <2> DEFINE r == Returned(Flushed)
             f == FlushReply(raw_use_cnt > 0)
  <2>1. Flushed \in Seq(Entry)
    BY KeepRange DEF QueueType, Flushed
  <2>2. r \in Seq(Msg) /\ FlushDone \notin ToSet(r)
    BY <2>1, ReturnedType, ReturnedNoAnswer
  <2>3. f \in Seq(Msg) /\ (FlushDone \in ToSet(f) => ~(raw_use_cnt > 0))
    <3>1. f \in {<<>>, <<FlushDone>>} /\ (f = <<>> <=> raw_use_cnt > 0)
      BY DEF FlushReply
    <3> QED
      BY <3>1, AnswerList
  <2>4. Post(r \o f) /\ raw_use_cnt' = raw_use_cnt
    BY <1>3 DEF Flush
  <2> HIDE DEF r, f
  <2>5. r \o f \in Seq(Msg) /\ ToSet(r \o f) = ToSet(r) \cup ToSet(f)
    BY <2>2, <2>3, ConcatList
  <2>6. FlushDone \in ToSet(f)
    BY <1>0, <2>2, <2>4, <2>5, PostSubset
  <2> QED
    BY <2>3, <2>4, <2>6 DEF QueueType
<1>4. ASSUME NEW a \in Address, NEW i \in DOMAIN raw_queue, Release(a, i)
      PROVE  raw_use_cnt' = 0
  <2> DEFINE r == Returned(<<raw_queue[i]>>)
             left == IF raw_use_cnt > 0 THEN raw_use_cnt - 1 ELSE 0
             f == IF input_flush_pending /\ left = 0 THEN <<FlushDone>> ELSE <<>>
  <2>1. <<raw_queue[i]>> \in Seq(Entry)
    BY DEF QueueType
  <2>2. r \in Seq(Msg) /\ FlushDone \notin ToSet(r)
    BY <2>1, ReturnedType, ReturnedNoAnswer
  <2>3. f \in Seq(Msg) /\ (FlushDone \in ToSet(f) => left = 0)
    <3>1. f \in {<<>>, <<FlushDone>>} /\ (f # <<>> => left = 0)
      OBVIOUS
    <3> QED
      BY <3>1, AnswerList
  <2>4. Post(r \o f) /\ raw_use_cnt' = left
    BY <1>4 DEF Release
  <2> HIDE DEF r, f, left
  <2>5. r \o f \in Seq(Msg) /\ ToSet(r \o f) = ToSet(r) \cup ToSet(f)
    BY <2>2, <2>3, ConcatList
  <2>6. FlushDone \in ToSet(f)
    BY <1>0, <2>2, <2>4, <2>5, PostSubset
  <2> QED
    BY <2>3, <2>4, <2>6
<1>5. CASE Receive
  <2>1. ToSet(Tail(msgs)) \subseteq ToSet(msgs)
    BY <1>0, <1>5, TailList DEF Receive
  <2> QED
    BY <1>5, <2>1 DEF Receive
<1>6. ASSUME NEW b \in Buf, Bind(b) \/ Unbind(b) PROVE msgs' = msgs
  BY <1>6 DEF Bind, Unbind
<1>7. ASSUME NEW b \in Buf, NEW o \in Off, NEW e \in BOOLEAN, Empty(b, o, e)
      PROVE  msgs' = msgs
  BY <1>2, <1>7 DEF Empty
<1>8. ASSUME NEW b \in Buf, NEW e \in BOOLEAN, EmptyNoData(b, e) PROVE msgs' = msgs
  BY <1>8 DEF EmptyNoData
<1>9. CASE Insert \/ ReplyNoData
  <2>1. ctl.buf \in Buf /\ (msgs' = msgs \/ Post(<<InputDone(ctl.buf)>>))
    BY <1>9 DEF Insert, ReplyNoData, CtlType
  <2> QED
    BY <1>1, <1>2, <2>1
<1>10. CASE QueueEos \/ ClearStream \/ Relink \/ SwitchState \/ BeginTake \/ TakeNothing
            \/ UNCHANGED vars
  <2>1. msgs' = msgs
    BY <1>10 DEF QueueEos, ClearStream, Relink, SwitchState, BeginTake, TakeNothing, vars
  <2> QED
    BY <1>1, <2>1
<1>11. ASSUME NEW i \in DOMAIN raw_queue, Take(i) PROVE msgs' = msgs
  BY <1>11 DEF Take
<1>12. ASSUME NEW a \in Address, ReleaseUnknown(a) PROVE msgs' = msgs
  BY <1>12 DEF ReleaseUnknown
<1> QED
  BY <1>1, <1>3, <1>4, <1>5, <1>6, <1>7, <1>8, <1>9, <1>10, <1>11, <1>12
  DEF Next, IoctlStep, Reclaim

LEMMA NoneLent ==
    ASSUME UseInv', raw_use_cnt' = 0
    PROVE  owed' = {} /\ \A a \in Address : lent'[a] = 0
<1>1. Using' \in SUBSET Entry
  BY DEF Using
<1>2. IsFiniteSet(Using') /\ Cardinality(Using') = 0
  BY <1>1, EntryFinite, FS_Subset DEF UseInv, UseCount
<1>3. Using' = {}
  BY <1>2, FS_EmptySet
<1> QED
  BY <1>3 DEF UseInv, HandedOver

\* FLUSH_INPUT_DONE is posted only when the firmware holds no packet any more and
\* every buffer that was in the port has been returned.
THEOREM AnsweredFlushCorrect ==
    Disciplined /\ Depth > MaxSlots /\ ~FreeWhileBusy => (Spec => AnsweredFlushIsDone)
<1> SUFFICES ASSUME Disciplined, Depth > MaxSlots, ~FreeWhileBusy
             PROVE  Spec => AnsweredFlushIsDone
  OBVIOUS
<1> DEFINE Done == NumOf(FlushDone)' > NumOf(FlushDone) =>
                      owed' = {} /\ \A a \in Address : lent'[a] = 0
<1>1. AllInv /\ AllInv' /\ [Next]_vars => [Done]_vars
  <2> SUFFICES ASSUME AllInv, AllInv', [Next]_vars, NumOf(FlushDone)' > NumOf(FlushDone)
               PROVE  owed' = {} /\ \A a \in Address : lent'[a] = 0
    OBVIOUS
  <2>1. NumOf(FlushDone) = IF FlushDone \in ToSet(msgs) THEN 1 ELSE 0
    BY CountOnce DEF NumOf, AllInv, PlaceInv, MsgInv
  <2>2. IsInjective(msgs')
    BY DEF AllInv, PlaceInv, MsgInv
  <2>3. NumOf(FlushDone)' = IF FlushDone \in ToSet(msgs') THEN 1 ELSE 0
    BY <2>2, CountOnce DEF NumOf
  <2>4. FlushDone \in ToSet(msgs') /\ FlushDone \notin ToSet(msgs)
    BY <2>1, <2>3
  <2>5. raw_use_cnt' = 0
    BY <2>4, AnswerPosted DEF AllInv
  <2> QED
    BY <2>5, NoneLent DEF AllInv
<1>2. Spec => []AllInv
  BY AllInductive
<1>3. Spec => [][Done]_vars
  BY <1>1, <1>2, PTL DEF Spec
<1> QED
  BY <1>3 DEF AnsweredFlushIsDone
-----------------------------------------------------------------------------
(* The port hands packets over in the order of their submission: it is the *)
(* queue of StreamFifo.                                                    *)

Waiting == LET w == Keep(raw_queue, NotHandedOver)
           IN  [i \in DOMAIN w |-> PhyOf(w[i])]
Decoding == {a[1] : a \in {x \in Address : lent[x] > 0}}

Phys == [e \in Entry |-> PhyOf(e)]
Behind == Keep(raw_queue, Entry \ Using)

\* What waits, by entry and by address.
LEMMA WaitingIs == TypeOK => Waiting = Mapped(Phys, Behind)
<1> SUFFICES ASSUME TypeOK PROVE Waiting = Mapped(Phys, Behind)
  OBVIOUS
<1> DEFINE w == Keep(raw_queue, NotHandedOver)
<1>1. w = Behind
  BY DEF Behind, NotHandedOver, NotUsing, Using
<1>2. w \in Seq(Entry)
  BY KeepRange DEF TypeOK, QueueType
<1>3. Waiting = [i \in DOMAIN w |-> PhyOf(w[i])]
  BY DEF Waiting
<1> HIDE DEF w
<1>4. \A i \in DOMAIN w : w[i] \in Entry
  BY <1>2
<1>5. Waiting = Mapped(Phys, w)
  BY <1>3, <1>4 DEF Mapped, Phys
<1> QED
  BY <1>1, <1>5

LEMMA BehindIs ==
    ASSUME TypeOK
    PROVE  Behind \in Seq(Entry) /\ ToSet(Behind) = Queued \ Using
<1>1. raw_queue \in Seq(Entry) /\ Queued \subseteq Entry
  BY DEF TypeOK, QueueType, Queued, ToSet
<1> QED
  BY <1>1, KeepRange DEF Behind, Queued

\* Packets with the firmware, by entry and by address.
LEMMA DecodingIs == AllInv => Decoding = {PhyOf(e) : e \in Using}
<1> SUFFICES ASSUME AllInv PROVE Decoding = {PhyOf(e) : e \in Using}
  OBVIOUS
<1> USE DEF AllInv
<1>1. \A a \in Address : lent[a] > 0 <=> HandedOver(a)
  BY DEF UseInv
<1>2. \A e \in Using : AddressOf(e) \in Address /\ AddressOf(e)[1] = PhyOf(e)
  <2> SUFFICES ASSUME NEW e \in Using
               PROVE  AddressOf(e) \in Address /\ AddressOf(e)[1] = PhyOf(e)
    OBVIOUS
  <2>1. e \in Entry /\ (e \in Used \/ e = Eos)
    BY DEF Using, UseInv, UseCount, LinkInv
  <2>2. PhyOf(e) \in Buf \cup {Eos} /\ ent[e].off \in Off
    BY <2>1 DEF PlaceInv, SlotInv, TypeOK, EntType, PhyOf
  <2> QED
    BY <2>2 DEF AddressOf, Address, PhyOf
<1>3. Decoding = {a[1] : a \in {x \in Address : HandedOver(x)}}
  BY <1>1 DEF Decoding
<1>4. {x \in Address : HandedOver(x)} = {AddressOf(e) : e \in Using}
  BY <1>2 DEF HandedOver
<1>5. {a[1] : a \in {AddressOf(e) : e \in Using}} = {PhyOf(e) : e \in Using}
  BY <1>2
<1> QED
  BY <1>3, <1>4, <1>5

\* Both, before and after a step.
LEMMA AbstractNow ==
    ASSUME AllInv
    PROVE  /\ Waiting = Mapped(Phys, Behind) /\ Decoding = {PhyOf(e) : e \in Using}
           /\ ToSet(Waiting) \cup Decoding = {PhyOf(e) : e \in Queued}
<1>1. Waiting = Mapped(Phys, Behind) /\ Decoding = {PhyOf(e) : e \in Using}
  BY WaitingIs, DecodingIs DEF AllInv
<1>2. Behind \in Seq(Entry) /\ ToSet(Behind) = Queued \ Using
  BY BehindIs DEF AllInv
<1>3. \A e \in Entry : Phys[e] = PhyOf(e)
  BY DEF Phys
<1>4. ToSet(Mapped(Phys, Behind)) = {Phys[e] : e \in Queued \ Using}
  BY <1>2, MappedElements
<1>5. Using \subseteq Queued /\ Queued \subseteq Entry
  BY DEF AllInv, UseInv, UseCount, TypeOK, QueueType, Queued, ToSet
<1> QED
  BY <1>1, <1>3, <1>4, <1>5

LEMMA AbstractNext ==
    ASSUME AllInv'
    PROVE  /\ Waiting' = Mapped(Phys', Behind')
           /\ Decoding' = {PhyOf(e)' : e \in Using'}
<1>1. (TypeOK => Waiting = Mapped(Phys, Behind))'
  BY WaitingIs, PTL
<1>2. (AllInv => Decoding = {PhyOf(e) : e \in Using})'
  BY DecodingIs, PTL
<1> QED
  BY <1>1, <1>2 DEF AllInv

\* What waited before, under the addresses it has now.
LEMMA BehindKept ==
    ASSUME TypeOK, \A e \in Queued : PhyOf(e)' = PhyOf(e)
    PROVE  Mapped(Phys', Behind) = Mapped(Phys, Behind)
<1>1. Queued \subseteq Entry
  BY DEF TypeOK, QueueType, Queued, ToSet
<1>2. \A e \in Queued : Phys'[e] = Phys[e]
  BY <1>1 DEF Phys
<1> QED
  BY <1>2, BehindIs, MappedSame

\* The same entries wait, and are decoded, under the same addresses.
LEMMA StutterStep ==
    ASSUME AllInv, AllInv', Behind' = Behind, Using' = Using,
           \A e \in Queued : PhyOf(e)' = PhyOf(e)
    PROVE  Waiting' = Waiting /\ Decoding' = Decoding
<1>1. Waiting' = Waiting
  BY AbstractNow, AbstractNext, BehindKept DEF AllInv
<1>2. Using \subseteq Queued
  BY DEF AllInv, UseInv, UseCount
<1> QED
  BY <1>1, <1>2, AbstractNow, AbstractNext

\* A packet that is linked is submitted, behind all others.
LEMMA SubmitStep ==
    ASSUME AllInv, AllInv', NEW e \in Entry, e \notin Queued,
           raw_queue' = Append(raw_queue, e), Using' = Using,
           \A x \in Queued : PhyOf(x)' = PhyOf(x)
    PROVE  \E p \in Buf \cup {Eos} :
              /\ p \notin ToSet(Waiting) \cup Decoding
              /\ Waiting' = Append(Waiting, p) /\ Decoding' = Decoding
<1> DEFINE p == PhyOf(e)'
<1>1. raw_queue \in Seq(Entry) /\ Queued \subseteq Entry /\ Using \subseteq Queued
  BY DEF AllInv, TypeOK, QueueType, Queued, ToSet, UseInv, UseCount
<1>2. Behind' = Append(Behind, e) /\ Behind \in Seq(Entry)
  <2>1. Behind' = Keep(Append(raw_queue, e), Entry \ Using)
    BY DEF Behind
  <2>2. e \in Entry \ Using
    BY <1>1
  <2>3. \A T : e \in T => Keep(Append(raw_queue, e), T) = Append(Keep(raw_queue, T), e)
    BY <1>1, KeepAppended
  <2> QED
    BY <1>1, <2>1, <2>2, <2>3, BehindIs DEF Behind, AllInv
<1>3. Queued' = Queued \cup {e}
  BY <1>1, AppendList DEF Queued
<1>4. p \in Buf \cup {Eos}
  <2>1. e \in Used' \/ e = Eos
    BY <1>3 DEF AllInv, LinkInv
  <2>2. CASE e \in Used'
    BY <2>2 DEF AllInv, PlaceInv, SlotInv
  <2>3. CASE e = Eos
    BY <2>3 DEF AllInv, TypeOK, EntType, PhyOf
  <2> QED
    BY <2>1, <2>2, <2>3
<1>5. \A x \in Queued : PhyOf(x) # p
  <2> SUFFICES ASSUME NEW x \in Queued, PhyOf(x)' = PhyOf(e)' PROVE FALSE
    OBVIOUS
  <2>1. x \in Queued' /\ e \in Queued'
    BY <1>3
  <2>2. PICK i \in DOMAIN raw_queue' : raw_queue'[i] = x
    BY <2>1 DEF Queued, ToSet
  <2>3. PICK j \in DOMAIN raw_queue' : raw_queue'[j] = e
    BY <2>1 DEF Queued, ToSet
  <2>4. i = j
    BY <2>2, <2>3 DEF AllInv, LinkInv, LinkedOnce, PhyOf
  <2> QED
    BY <2>2, <2>3, <2>4
<1>6. p \notin ToSet(Waiting) \cup Decoding
  BY <1>5, AbstractNow
<1>7. Waiting' = Append(Waiting, p)
  <2>2. Mapped(Phys', Append(Behind, e)) = Append(Mapped(Phys', Behind), Phys'[e])
    BY <1>2, MappedAppend
  <2>3. Phys'[e] = p
    BY DEF Phys
  <2>4. Mapped(Phys', Behind) = Mapped(Phys, Behind)
    BY BehindKept DEF AllInv
  <2> HIDE DEF p
  <2> QED
    BY <1>2, <2>2, <2>3, <2>4, AbstractNow, AbstractNext
<1>8. Decoding' = Decoding
  BY <1>1, AbstractNow, AbstractNext
<1> QED
  BY <1>4, <1>6, <1>7, <1>8

\* The oldest packet that waits is handed over.
LEMMA HandOverStep ==
    ASSUME AllInv, AllInv', NEW i \in DOMAIN raw_queue, Take(i)
    PROVE  /\ Waiting # <<>>
           /\ Decoding' = Decoding \cup {Head(Waiting)}
           /\ Waiting' = Tail(Waiting)
<1> DEFINE e == raw_queue[i]
<1>1. /\ raw_queue \in Seq(Entry) /\ Queued \subseteq Entry /\ Using \subseteq Queued
      /\ IsInjective(raw_queue) /\ e \in Entry
  BY DEF AllInv, TypeOK, QueueType, Queued, ToSet, UseInv, UseCount, PlaceInv, SlotInv
<1>2. /\ Using' = Using \cup {e} /\ e \notin Using
      /\ \A x \in Entry : PhyOf(x)' = PhyOf(x)
  BY TakeUse
<1>3. /\ raw_queue' = raw_queue
      /\ \A j \in 1 .. i - 1 : raw_queue[j] \notin Entry \ Using
  BY DEF Take, NotUsing, Using
<1>4. Behind # <<>> /\ Head(Behind) = e /\ Behind' = Tail(Behind)
  <2> DEFINE T == Entry \ Using
  <2>1. e \in T /\ Entry \ Using' = T \ {e}
    BY <1>1, <1>2
  <2>2. Behind = Keep(raw_queue, T) /\ Behind' = Keep(raw_queue, T \ {e})
    BY <1>3, <2>1 DEF Behind
  <2>3. \A j \in 1 .. i - 1 : raw_queue[j] \notin T
    BY <1>3
  <2> HIDE DEF T
  <2> QED
    BY <1>1, <2>1, <2>2, <2>3, KeepFirst
<1> HIDE DEF e
<1>5. Behind \in Seq(Entry)
  BY BehindIs DEF AllInv
<1>6. /\ Mapped(Phys, Behind) # <<>> /\ Head(Mapped(Phys, Behind)) = Phys[e]
      /\ Mapped(Phys, Tail(Behind)) = Tail(Mapped(Phys, Behind))
  BY <1>4, <1>5, MappedTail
<1>7. Phys' = Phys /\ Phys[e] = PhyOf(e)
  BY <1>1, <1>2 DEF Phys
<1>8. Waiting # <<>> /\ Head(Waiting) = PhyOf(e) /\ Waiting' = Tail(Waiting)
  BY <1>4, <1>6, <1>7, AbstractNow, AbstractNext
<1>9. Decoding' = Decoding \cup {PhyOf(e)}
  <2>1. Using \cup {e} \subseteq Entry
    BY <1>1
  <2>2. {PhyOf(x)' : x \in Using'} = {PhyOf(x) : x \in Using} \cup {PhyOf(e)}
    BY <1>2, <2>1
  <2> QED
    BY <2>2, AbstractNow, AbstractNext
<1> QED
  BY <1>8, <1>9

\* A packet comes back.
LEMMA ReturnStep ==
    ASSUME AllInv, AllInv', NEW a \in Address, NEW i \in DOMAIN raw_queue, Release(a, i)
    PROVE  \E p \in Buf \cup {Eos} :
              /\ p \in Decoding /\ Decoding' = Decoding \ {p} /\ Waiting' = Waiting
<1> DEFINE e == raw_queue[i]
           p == PhyOf(e)
<1>1. /\ raw_queue \in Seq(Entry) /\ Queued \subseteq Entry /\ Using \subseteq Queued
      /\ IsInjective(raw_queue) /\ e \in Entry
  BY DEF AllInv, TypeOK, QueueType, Queued, ToSet, UseInv, UseCount, PlaceInv, SlotInv
<1>2. /\ Using' = Using \ {e} /\ e \in Using
      /\ \A x \in Entry : PhyOf(x)' = PhyOf(x)
  BY ReleaseUse
<1>3. raw_queue' = RemoveAt(raw_queue, i)
  BY DEF Release
<1>4. Behind' = Behind
  <2> DEFINE r == RemoveAt(raw_queue, i)
  <2>1. r \in Seq(Entry) /\ ToSet(r) = Queued \ {e}
    BY <1>1, RemoveList DEF Queued
  <2>2. Keep(r, Entry \ Using) = Behind
    BY <1>1, <1>2, KeepRemoved DEF Behind
  <2>3. Behind' = Keep(r, Entry \ Using')
    BY <1>3 DEF Behind
  <2> HIDE DEF r, e
  <2>4. \A j \in DOMAIN r : r[j] \in Entry \ Using' <=> r[j] \in Entry \ Using
    BY <1>2, <2>1 DEF ToSet
  <2>5. Keep(r, Entry \ Using') = Keep(r, Entry \ Using)
    BY <2>4, KeepSame
  <2> QED
    BY <2>2, <2>3, <2>5
<1> HIDE DEF e
<1>5. Phys' = Phys
  BY <1>2 DEF Phys
<1>6. Waiting' = Waiting
  BY <1>4, <1>5, AbstractNow, AbstractNext
<1>7. \A x \in Using : PhyOf(x) = p => x = e
  BY <1>1, <1>2, LinkedApart DEF AllInv
<1>8. Decoding' = Decoding \ {p} /\ p \in Decoding
  <2>1. {PhyOf(x)' : x \in Using'} = {PhyOf(x) : x \in Using \ {e}}
    BY <1>1, <1>2
  <2>2. {PhyOf(x) : x \in Using \ {e}} = {PhyOf(x) : x \in Using} \ {p}
    BY <1>7
  <2> QED
    BY <1>2, <2>1, <2>2, AbstractNow, AbstractNext
<1>9. p \in Buf \cup {Eos}
  <2>1. e \in Used \/ e = Eos
    BY <1>1, <1>2 DEF AllInv, LinkInv
  <2> QED
    BY <2>1 DEF AllInv, PlaceInv, SlotInv, TypeOK, EntType, PhyOf
<1> HIDE DEF p
<1> QED
  BY <1>6, <1>8, <1>9

\* A flush takes back what waits.
LEMMA FlushedStep ==
    ASSUME AllInv, AllInv', Flush, Using' = Using, \A e \in Queued : PhyOf(e)' = PhyOf(e)
    PROVE  Waiting' = <<>> /\ Decoding' = Decoding
<1> DEFINE g == ToSet(Flushed)
<1>1. raw_queue \in Seq(Entry) /\ Queued \subseteq Entry /\ Using \subseteq Queued
  BY DEF AllInv, TypeOK, QueueType, Queued, ToSet, UseInv, UseCount
<1>2. g = Queued \ Using
  <2>1. g = Queued \cap NotHandedOver
    BY <1>1, KeepRange DEF Flushed, Queued
  <2> QED
    BY <1>1, <2>1 DEF NotHandedOver, NotUsing, Using
<1>3. raw_queue' = Keep(raw_queue, Entry \ g)
  BY DEF Flush
<1> HIDE DEF g
<1>4. raw_queue' \in Seq(Entry) /\ ToSet(raw_queue') \subseteq Using
  BY <1>1, <1>2, <1>3, KeepRange DEF Queued
<1>5. Behind' = <<>>
  <2>1. ToSet(raw_queue') \cap (Entry \ Using) = {}
    BY <1>4
  <2>2. Keep(raw_queue', Entry \ Using) = <<>>
    BY <1>4, <2>1, KeepNone
  <2> QED
    BY <2>2 DEF Behind
<1>6. Waiting' = <<>>
  <2>1. Mapped(Phys', <<>>) = <<>>
    BY DEF Mapped
  <2> QED
    BY <1>5, <2>1, AbstractNext
<1> QED
  BY <1>1, <1>6, AbstractNow, AbstractNext

\* Every other step of the port leaves both sides as they are, or links a packet.
LEMMA OtherStep ==
    ASSUME Disciplined, ~FreeWhileBusy, AllInv, AllInv', [Next]_vars, ~Flush,
           ~\E i \in DOMAIN raw_queue : Take(i),
           ~\E a \in Address : \E i \in DOMAIN raw_queue : Release(a, i)
    PROVE  \/ Waiting' = Waiting /\ Decoding' = Decoding
           \/ \E p \in Buf \cup {Eos} :
                 /\ p \notin ToSet(Waiting) \cup Decoding
                 /\ Waiting' = Append(Waiting, p) /\ Decoding' = Decoding
<1>1. Using' = Using
  BY UsingKept
<1>2. \A e \in Queued : PhyOf(e)' = PhyOf(e)
  BY LinkedPhyKept DEF AllInv, PhyOf
<1>3. ASSUME raw_queue' = raw_queue
      PROVE  Waiting' = Waiting /\ Decoding' = Decoding
  <2>1. Behind' = Behind
    BY <1>1, <1>3 DEF Behind
  <2> QED
    BY <1>1, <1>2, <2>1, StutterStep
<1>4. ASSUME NEW e \in Entry, e \notin Queued, raw_queue' = Linked(e)
      PROVE  \E p \in Buf \cup {Eos} :
                /\ p \notin ToSet(Waiting) \cup Decoding
                /\ Waiting' = Append(Waiting, p) /\ Decoding' = Decoding
  BY <1>1, <1>2, <1>4, SubmitStep DEF Linked
<1>5. CASE Insert /\ raw_queue' # raw_queue
  <2>1. ctl.slot \in Entry /\ PhyOf(ctl.slot) = ctl.buf
    BY <1>5, SlotType DEF Insert, AllInv, LinkInv, TypeOK, CtlType, EntType, Used
  <2>2. ~Duplicate(ctl.buf) /\ raw_queue' = Linked(ctl.slot)
    BY <1>5 DEF Insert
  <2>3. ctl.slot \notin Queued
    BY <2>1, <2>2 DEF Duplicate
  <2> QED
    BY <1>4, <2>1, <2>2, <2>3
<1>6. CASE QueueEos /\ raw_queue' # raw_queue
  <2>1. Eos \in Entry /\ ~eos_in_list /\ raw_queue' = Linked(Eos)
    BY <1>6, SlotType DEF QueueEos
  <2>2. Eos \notin Queued
    BY <2>1 DEF AllInv, EosInv, EosFlag
  <2> QED
    BY <1>4, <2>1, <2>2
<1>7. CASE Relink
  <2>1. raw_queue = <<>>
    BY <1>7 DEF Relink, AllInv, LinkInv
  <2>2. Queued = {}
    BY <2>1 DEF Queued, ToSet
  <2>3. raw_queue' = raw_queue
    BY <1>7, <2>2 DEF Relink
  <2> QED
    BY <1>3, <2>3
<1>8. ASSUME NEW b \in Buf, Bind(b) \/ Unbind(b) PROVE raw_queue' = raw_queue
  BY <1>8 DEF Bind, Unbind
<1>9. ASSUME NEW b \in Buf, NEW o \in Off, NEW e \in BOOLEAN, Empty(b, o, e)
      PROVE  raw_queue' = raw_queue
  BY <1>9 DEF Empty
<1>10. ASSUME NEW b \in Buf, NEW e \in BOOLEAN, EmptyNoData(b, e)
       PROVE  raw_queue' = raw_queue
  BY <1>10 DEF EmptyNoData, portVars
<1>11. CASE raw_queue' = raw_queue
  BY <1>3, <1>11
<1>12. ASSUME ReplyNoData \/ ClearStream \/ SwitchState \/ BeginTake \/ TakeNothing
              \/ Receive \/ UNCHANGED vars
       PROVE  raw_queue' = raw_queue
  BY <1>12 DEF ReplyNoData, ClearStream, SwitchState, BeginTake, TakeNothing, Receive,
               vars, portVars
<1>13. ASSUME NEW a \in Address, ReleaseUnknown(a) PROVE raw_queue' = raw_queue
  BY <1>13 DEF ReleaseUnknown, portVars
<1>14. CASE Reclaim
  BY <1>3, <1>13, <1>14 DEF Reclaim
<1> HIDE DEF vars
<1> QED
  BY <1>5, <1>6, <1>7, <1>8, <1>9, <1>10, <1>11, <1>12, <1>14 DEF Next, IoctlStep

\* Every step of the port is a step of StreamFifo, or none.
LEMMA FifoStep ==
    ASSUME Disciplined, ~FreeWhileBusy, AllInv, AllInv', [Next]_vars
    PROVE  [Fifo!Next]_(Fifo!fifoVars)
<1>1. Fifo!fifoVars = <<Waiting, Decoding>> /\ Fifo!InPort = ToSet(Waiting) \cup Decoding
  BY DEF Fifo!fifoVars, Fifo!InPort, Fifo!ToSet, ToSet, Waiting, Decoding
<1>2. Fifo!fifoVars' = <<Waiting', Decoding'>>
  BY DEF Fifo!fifoVars, Waiting, Decoding
<1>3. ASSUME NEW p \in Buf \cup {Eos}
      PROVE  /\ Fifo!Submit(p) <=> /\ p \notin ToSet(Waiting) \cup Decoding
                                   /\ Waiting' = Append(Waiting, p)
                                   /\ Decoding' = Decoding
             /\ Fifo!Return(p) <=> /\ p \in Decoding
                                   /\ Decoding' = Decoding \ {p} /\ Waiting' = Waiting
  BY <1>1 DEF Fifo!Submit, Fifo!Return, Waiting, Decoding
<1>4. Fifo!HandOver <=> /\ Waiting # <<>>
                        /\ Decoding' = Decoding \cup {Head(Waiting)}
                        /\ Waiting' = Tail(Waiting)
  BY DEF Fifo!HandOver, Waiting, Decoding
<1>5. Fifo!Flush <=> Waiting' = <<>> /\ Decoding' = Decoding
  BY DEF Fifo!Flush, Waiting, Decoding
<1>6. CASE \E i \in DOMAIN raw_queue : Take(i)
  BY <1>4, <1>6, HandOverStep DEF Fifo!Next
<1>7. CASE \E a \in Address : \E i \in DOMAIN raw_queue : Release(a, i)
  BY <1>3, <1>7, ReturnStep DEF Fifo!Next, Fifo!Packet
<1>8. CASE Flush
  <2>1. ~(\E i \in DOMAIN raw_queue : Take(i))
        /\ ~\E a \in Address : \E i \in DOMAIN raw_queue : Release(a, i)
    BY <1>8 DEF Flush, Take, Release, Idle, Call
  <2>2. Using' = Using /\ \A e \in Queued : PhyOf(e)' = PhyOf(e)
    BY <2>1, UsingKept, LinkedPhyKept DEF AllInv, PhyOf
  <2> QED
    BY <1>5, <1>8, <2>2, FlushedStep DEF Fifo!Next
<1>9. CASE /\ ~Flush /\ ~\E i \in DOMAIN raw_queue : Take(i)
           /\ ~\E a \in Address : \E i \in DOMAIN raw_queue : Release(a, i)
  <2>1. CASE Waiting' = Waiting /\ Decoding' = Decoding
    BY <1>1, <1>2, <2>1
  <2>2. CASE \E p \in Buf \cup {Eos} : Fifo!Submit(p)
    BY <2>2 DEF Fifo!Next, Fifo!Packet
  <2> QED
    BY <1>3, <1>9, <2>1, <2>2, OtherStep
<1> QED
  BY <1>6, <1>7, <1>8, <1>9

\* The firmware is handed the client's packets in the order of submission, one
\* holder at a time: the input port, with the entries not handed over as what
\* waits, implements StreamFifo (channel_insert_in_raw_list, decoder_get_stream).
THEOREM PacketsInOrderCorrect ==
    Disciplined /\ Depth > MaxSlots /\ ~FreeWhileBusy => (Spec => PacketsInOrder)
<1> SUFFICES ASSUME Disciplined, Depth > MaxSlots, ~FreeWhileBusy
             PROVE  Spec => PacketsInOrder
  OBVIOUS
<1>1. Init => Fifo!Init
  <2> SUFFICES ASSUME Init PROVE Fifo!Init
    OBVIOUS
  <2>1. Keep(raw_queue, NotHandedOver) = <<>>
    <3>1. raw_queue = <<>> /\ raw_queue \in Seq(Entry) /\ ToSet(raw_queue) = {}
      BY DEF Init, ToSet
    <3> QED
      BY <3>1, KeepNone
  <2>2. Waiting = <<>>
    BY <2>1 DEF Waiting
  <2>3. Decoding = {}
    BY DEF Decoding, Init
  <2> QED
    BY <2>2, <2>3 DEF Fifo!Init, Waiting, Decoding
<1>2. AllInv /\ AllInv' /\ [Next]_vars => [Fifo!Next]_(Fifo!fifoVars)
  BY FifoStep
<1>3. Spec => []AllInv
  BY AllInductive
<1> QED
  BY <1>1, <1>2, <1>3, PTL DEF Spec, PacketsInOrder, Fifo!Spec
=============================================================================
