----------------------------- MODULE InputPort ------------------------------
(***************************************************************************)
(* The input port of a decoder channel: stream buffers travel from the     *)
(* client through in_buf_table and raw_queue to the decoder firmware and   *)
(* come back as INPUT_DONE messages (omxvdec/channel.c, the stream half of *)
(* omxvdec/decoder_vfmw.c).                                                *)
(*                                                                         *)
(* The ioctls of a channel hold chan_mutex; the firmware's callbacks       *)
(* decoder_get_stream and decoder_release_stream hold only raw_lock.  An   *)
(* ioctl is therefore split where it enters and leaves raw_lock: `ctl` is  *)
(* the position of the one ioctl inside.  Messages are posted under        *)
(* raw_lock together with the change they report.                          *)
(***************************************************************************)
EXTENDS Naturals, Sequences, FiniteSets, SequencesExt, Lists

CONSTANTS
    Buf,            \* stream buffers, named by their physical address
    Eos,            \* pchan->last_frame and its address
    NoBuf,          \* the address in an unused slot
    MaxSlots,       \* MAX_BUFFER_SLOT_NUM, and the client's max_frm_num
    Off,            \* data offsets a client uses
    Depth,          \* nodes of the channel's message queue
    Disciplined,    \* the client uses only buffers it owns, one flush at a time
    FreeWhileBusy,  \* the client frees a buffer while others are in the port
    MaxUse          \* bound on raw_use_cnt

Slot == 1 .. MaxSlots

ASSUME PortAssumption ==
    /\ Eos \notin Buf /\ NoBuf \notin Buf /\ Eos # NoBuf /\ Eos \notin Slot
    /\ MaxSlots \in Nat \ {0} /\ Depth \in Nat /\ MaxUse \in Nat
    /\ 0 \in Off
    /\ Disciplined \in BOOLEAN /\ FreeWhileBusy \in BOOLEAN

Entry == Slot \cup {Eos}            \* what raw_queue can link
Address == (Buf \cup {Eos}) \X Off  \* what the firmware identifies a packet by

VARIABLES
    ent,                  \* phy_addr, status and offset of each entry
    input_buf_num,        \* slots in use: 1 .. input_buf_num
    raw_queue,            \* linked entries, oldest first
    raw_use_cnt, input_flush_pending, eos_in_list,
    working,              \* channel_state = CHAN_STATE_WORK
    ctl,                  \* the ioctl that holds chan_mutex
    taking,               \* the firmware's thread has passed the state check
    lent,                 \* how many packets of each address the firmware holds
    clearing,             \* the firmware was told to return its packets
    msgs,                 \* the message queue of the channel
    held,                 \* buffers the client may use
    awaited,              \* flushes the client has not been answered
    owed                  \* buffers in the port when the last flush began

portVars == <<ent, input_buf_num, raw_queue, raw_use_cnt, input_flush_pending,
              eos_in_list>>
firmwareVars == <<taking, lent, clearing>>
clientVars == <<held, awaited>>
vars == <<portVars, working, ctl, firmwareVars, msgs, clientVars, owed>>

InputDone(b) == [code |-> "INPUT_DONE", buf |-> b]
FlushDone == [code |-> "FLUSH_INPUT_DONE", buf |-> NoBuf]

Idle == [at |-> "idle", slot |-> 0, buf |-> NoBuf, eos |-> FALSE]
Call(at, s, b, e) == [at |-> at, slot |-> s, buf |-> b, eos |-> e]

Used == 1 .. input_buf_num
Lookup(b) == {s \in Used : ent[s].phy = b}        \* channel_lookup_addr_table
PhyOf(e) == ent[e].phy
AddressOf(e) == <<ent[e].phy, ent[e].off>>
Queued == ToSet(raw_queue)
NotUsing(e) == ent[e].status # "USING"
NotHandedOver == {e \in Entry : NotUsing(e)}

\* message_queue for each of ms in turn; what does not fit is lost.
Post(ms) ==
    LET all == msgs \o ms
    IN  msgs' = IF Len(all) <= Depth THEN all ELSE SubSeq(all, 1, Depth)

DoneBufs(ms) == {ms[i].buf : i \in {j \in DOMAIN ms : ms[j].code = "INPUT_DONE"}}

Init ==
    /\ ent = [e \in Entry |->
                 [phy |-> IF e = Eos THEN Eos ELSE NoBuf,
                  status |-> "INVALID", off |-> 0]]
    /\ input_buf_num = 0
    /\ raw_queue = <<>>
    /\ raw_use_cnt = 0
    /\ input_flush_pending = FALSE
    /\ eos_in_list = FALSE
    /\ working = FALSE
    /\ ctl = Idle
    /\ taking = FALSE
    /\ lent = [a \in Address |-> 0]
    /\ clearing = FALSE
    /\ msgs = <<>>
    /\ held = {}
    /\ awaited = 0
    /\ owed = {}

-----------------------------------------------------------------------------
(* Buffers enter and leave the table: channel_insert_addr_table and        *)
(* channel_delete_addr_table.                                              *)

Bind(b) ==
    /\ ctl = Idle
    /\ input_buf_num < MaxSlots
    /\ Lookup(b) = {}
    /\ input_buf_num' = input_buf_num + 1
    /\ ent' = [ent EXCEPT ![input_buf_num + 1] =
                  [phy |-> b, status |-> "IDLE", off |-> 0]]
    /\ held' = held \cup {b}
    /\ UNCHANGED <<raw_queue, raw_use_cnt, input_flush_pending, eos_in_list,
                   working, ctl, firmwareVars, msgs, awaited, owed>>

\* The client frees a buffer that it owns; the last slot is copied over
\* it outside raw_lock, status and all.
Unbind(b) ==
    /\ ctl = Idle
    /\ b \in held
    /\ FreeWhileBusy \/ raw_queue = <<>>
    /\ \E s \in Lookup(b) :
        /\ ent' = IF s < input_buf_num
                  THEN [ent EXCEPT ![s] = ent[input_buf_num]]
                  ELSE ent
        /\ ctl' = Call("relink", s, b, FALSE)
    /\ held' = held \ {b}
    /\ UNCHANGED <<input_buf_num, raw_queue, raw_use_cnt, input_flush_pending,
                   eos_in_list, working, firmwareVars, msgs, awaited, owed>>

\* Under raw_lock the last slot's node, if linked, is replaced by the copy, at
\* the tail; then the last slot is wiped.
Relink ==
    /\ ctl.at = "relink"
    /\ raw_queue' =
          IF ctl.slot < input_buf_num /\ input_buf_num \in Queued
          THEN Append(Keep(raw_queue, Entry \ {input_buf_num}), ctl.slot)
          ELSE raw_queue
    /\ ent' = [ent EXCEPT ![input_buf_num] =
                  [phy |-> NoBuf, status |-> "INVALID", off |-> 0]]
    /\ input_buf_num' = input_buf_num - 1
    /\ ctl' = Idle
    /\ UNCHANGED <<raw_use_cnt, input_flush_pending, eos_in_list, working,
                   firmwareVars, msgs, clientVars, owed>>

-----------------------------------------------------------------------------
(* channel_empty_this_stream                                               *)

MaySubmit(b) == ~Disciplined \/ b \in held

Linked_Bug(e) == <<e>> \o raw_queue
Linked(e) == Append(raw_queue, e)                   \* list_add_tail

Duplicate_Bug(b) == FALSE
Duplicate(b) == \E e \in Queued : PhyOf(e) = b

\* The slot is filled in before anything is known about its state.
Empty(b, o, e) ==
    /\ ctl = Idle
    /\ MaySubmit(b)
    /\ held' = held \ {b}
    /\ \/ /\ Lookup(b) = {} \/ ~Disciplined     \* or data_len > buffer_len
          /\ Post(<<InputDone(b)>>)
          /\ UNCHANGED <<ent, ctl>>
       \/ \E s \in Lookup(b) :
          /\ ent' = [ent EXCEPT ![s].off = o]
          /\ ctl' = Call("insert", s, b, e)
          /\ UNCHANGED msgs
    /\ UNCHANGED <<input_buf_num, raw_queue, raw_use_cnt, input_flush_pending,
                   eos_in_list, working, firmwareVars, awaited, owed>>

\* A buffer without data goes straight to the end-of-stream test.
EmptyNoData(b, e) ==
    /\ ctl = Idle
    /\ MaySubmit(b)
    /\ held' = held \ {b}
    /\ ctl' = Call("eos", 0, b, e)
    /\ UNCHANGED <<portVars, working, firmwareVars, msgs, awaited, owed>>

\* channel_insert_in_raw_list, under raw_lock.
Insert ==
    /\ ctl.at = "insert"
    /\ \/ /\ Duplicate(ctl.buf)
          /\ Post(<<InputDone(ctl.buf)>>)
          /\ ctl' = Idle
          /\ UNCHANGED <<ent, raw_queue>>
       \/ /\ ~Duplicate(ctl.buf)
          /\ ent' = [ent EXCEPT ![ctl.slot].status = "QUEUED"]
          /\ raw_queue' = Linked(ctl.slot)
          /\ ctl' = [ctl EXCEPT !.at = "eos"]
          /\ UNCHANGED msgs
    /\ UNCHANGED <<input_buf_num, raw_use_cnt, input_flush_pending, eos_in_list,
                   working, firmwareVars, clientVars, owed>>

\* The end-of-stream marker is queued behind the buffer unless one is queued
\* already.  The flag is set a few statements before the entry is linked; no
\* one else touches either in between.
QueueEos ==
    /\ ctl.at = "eos"
    /\ IF ctl.eos /\ ~eos_in_list
       THEN /\ eos_in_list' = TRUE
            /\ ent' = [ent EXCEPT ![Eos] =
                          [phy |-> Eos, status |-> "QUEUED", off |-> 0]]
            /\ raw_queue' = Linked(Eos)
       ELSE UNCHANGED <<ent, raw_queue, eos_in_list>>
    /\ ctl' = IF ctl.slot = 0 THEN [ctl EXCEPT !.at = "reply"] ELSE Idle
    /\ UNCHANGED <<input_buf_num, raw_use_cnt, input_flush_pending, working,
                   firmwareVars, msgs, clientVars, owed>>

ReplyNoData ==
    /\ ctl.at = "reply"
    /\ Post(<<InputDone(ctl.buf)>>)
    /\ ctl' = Idle
    /\ UNCHANGED <<portVars, working, firmwareVars, clientVars, owed>>

-----------------------------------------------------------------------------
(* channel_flush_in_port                                                   *)

Flushed_Bug == raw_queue
Flushed == Keep(raw_queue, NotHandedOver)

Returned_Bug(es) == <<>>
Returned(es) ==
    LET bufs == Keep(es, Slot)
    IN  [i \in DOMAIN bufs |-> InputDone(PhyOf(bufs[i]))]

FlushReply_Bug(busy) == <<FlushDone>>
FlushReply(busy) == IF busy THEN <<>> ELSE <<FlushDone>>

EosStays_Bug(gone) == eos_in_list
EosStays(gone) == eos_in_list /\ Eos \notin gone

\* Under raw_lock everything the firmware does not hold is unlinked and
\* returned, and the flush is answered or left pending.
Flush ==
    /\ ctl = Idle
    /\ awaited < IF Disciplined THEN 1 ELSE 2
    /\ awaited' = awaited + 1
    /\ LET gone == ToSet(Flushed)
           busy == raw_use_cnt > 0
       IN /\ raw_queue' = Keep(raw_queue, Entry \ gone)
          /\ ent' = [e \in Entry |-> IF e \in gone
                                     THEN [ent[e] EXCEPT !.status = "IDLE"]
                                     ELSE ent[e]]
          /\ eos_in_list' = EosStays(gone)
          /\ input_flush_pending' = (busy \/ input_flush_pending)
          /\ Post(Returned(Flushed) \o FlushReply(busy))
          /\ owed' = {PhyOf(e) : e \in Queued \ (gone \cup {Eos})}
    /\ ctl' = Call("clear", 0, NoBuf, FALSE)
    /\ UNCHANGED <<input_buf_num, raw_use_cnt, working, firmwareVars, held>>

MustClear_Bug == FALSE
MustClear == input_flush_pending

\* Outside raw_lock: DEC_CMD_CLEAR_STREAM if the flush is still pending.
ClearStream ==
    /\ ctl.at = "clear"
    /\ clearing' = (clearing \/ MustClear)
    /\ ctl' = Idle
    /\ UNCHANGED <<portVars, working, taking, lent, msgs, clientVars, owed>>

\* channel_start_inst, stop, pause and resume, as far as this port sees them.
SwitchState ==
    /\ ctl = Idle
    /\ working' = ~working
    /\ UNCHANGED <<portVars, ctl, firmwareVars, msgs, clientVars, owed>>

-----------------------------------------------------------------------------
(* The callbacks of the firmware                                           *)

\* decoder_get_stream: the state is checked before raw_lock is taken.
BeginTake ==
    /\ working /\ ~taking
    /\ taking' = TRUE
    /\ UNCHANGED <<portVars, working, ctl, lent, clearing, msgs, clientVars, owed>>

Take(i) ==
    /\ taking
    /\ raw_use_cnt < MaxUse
    /\ ~input_flush_pending
    /\ NotUsing(raw_queue[i])
    /\ \A j \in 1 .. i - 1 : ~NotUsing(raw_queue[j])
    /\ LET e == raw_queue[i]
       IN /\ ent' = [ent EXCEPT ![e].status = "USING"]
          /\ lent' = [lent EXCEPT ![AddressOf(e)] = @ + 1]
    /\ raw_use_cnt' = raw_use_cnt + 1
    /\ taking' = FALSE
    /\ UNCHANGED <<input_buf_num, raw_queue, input_flush_pending, eos_in_list,
                   working, ctl, clearing, msgs, clientVars, owed>>

TakeNothing ==
    /\ taking
    /\ input_flush_pending \/ \A e \in Queued : ~NotUsing(e)
    /\ taking' = FALSE
    /\ UNCHANGED <<portVars, working, ctl, lent, clearing, msgs, clientVars, owed>>

\* decoder_release_stream of an address the firmware holds.
Surrender(a) ==
    /\ lent[a] > 0
    /\ lent' = [lent EXCEPT ![a] = @ - 1]
    /\ clearing' = (clearing /\ \E x \in Address : lent'[x] > 0)

StillPending_Bug(left) == input_flush_pending
StillPending(left) == input_flush_pending /\ left # 0

\* The first entry with that address is unlinked and reported, whatever its
\* status, and the last release of a pending flush answers it.
Release(a, i) ==
    /\ Surrender(a)
    /\ AddressOf(raw_queue[i]) = a
    /\ \A j \in 1 .. i - 1 : AddressOf(raw_queue[j]) # a
    /\ LET e == raw_queue[i]
           left == IF raw_use_cnt > 0 THEN raw_use_cnt - 1 ELSE 0
           last == input_flush_pending /\ left = 0
       IN /\ ent' = [ent EXCEPT ![e].status = "IDLE"]
          /\ raw_queue' = RemoveAt(raw_queue, i)
          /\ eos_in_list' = EosStays({e})
          /\ raw_use_cnt' = left
          /\ input_flush_pending' = StillPending(left)
          /\ Post(Returned(<<e>>) \o IF last THEN <<FlushDone>> ELSE <<>>)
          /\ owed' = owed \ {PhyOf(e)}
    /\ UNCHANGED <<input_buf_num, working, ctl, taking, clientVars>>

ReleaseUnknown(a) ==
    /\ Surrender(a)
    /\ \A e \in Queued : AddressOf(e) # a
    /\ UNCHANGED <<portVars, working, ctl, taking, msgs, clientVars, owed>>

-----------------------------------------------------------------------------
\* The client's message thread (GET_MSG).
Receive ==
    /\ msgs # <<>>
    /\ msgs' = Tail(msgs)
    /\ LET m == Head(msgs)
       IN IF m.code = "INPUT_DONE"
          THEN held' = held \cup {m.buf} /\ UNCHANGED awaited
          ELSE awaited' = awaited - 1 /\ UNCHANGED held
    /\ UNCHANGED <<portVars, working, ctl, firmwareVars, owed>>

IoctlStep == Insert \/ QueueEos \/ ReplyNoData \/ ClearStream \/ Relink

Reclaim == \E a \in Address :
              \/ \E i \in DOMAIN raw_queue : Release(a, i)
              \/ ReleaseUnknown(a)

Next ==
    \/ \E b \in Buf : Bind(b) \/ Unbind(b)
    \/ \E b \in Buf, o \in Off, e \in BOOLEAN : Empty(b, o, e)
    \/ \E b \in Buf, e \in BOOLEAN : EmptyNoData(b, e)
    \/ Flush
    \/ IoctlStep
    \/ SwitchState
    \/ BeginTake \/ TakeNothing \/ \E i \in DOMAIN raw_queue : Take(i)
    \/ Reclaim
    \/ Receive

Spec == Init /\ [][Next]_vars

\* An ioctl that has begun runs to its end, the client's message thread keeps
\* fetching, and the firmware returns its packets once told to; it need not
\* return one before.
FairSpec ==
    /\ Spec
    /\ WF_vars(IoctlStep)
    /\ WF_vars(Receive)
    /\ WF_vars(clearing /\ Reclaim)

-----------------------------------------------------------------------------
(* Properties                                                              *)

Count(n) == IF n THEN 1 ELSE 0
NumOf(m) == Cardinality({i \in DOMAIN msgs : msgs[i] = m})

\* raw_use_cnt, which decides when a flush is over, is the number of linked
\* packets the firmware has been handed, across every order of empty, flush,
\* get and release.
Using == {e \in Entry : ent[e].status = "USING"}
UseCount == raw_use_cnt = Cardinality(Using) /\ Using \subseteq Queued

\* A buffer the client gave to the driver is in exactly one place until the
\* client has it again: with an ioctl, in the queue, or in one message.  None
\* leaks, none is returned twice.
OnePlace ==
    \A b \in Buf : (Lookup(b) # {} /\ ~(ctl.at = "relink" /\ ctl.buf = b)) =>
        Count(b \in held) + NumOf(InputDone(b))
        + Cardinality({i \in DOMAIN raw_queue : PhyOf(raw_queue[i]) = b})
        + Count(ctl.buf = b /\ (ctl.at = "insert" \/ ctl.slot = 0)) = 1

\* The end-of-stream marker is linked exactly when the flag says so; a stale
\* flag would swallow the next end of stream.
EosFlag ==
    eos_in_list <=> Eos \in Queued

\* No buffer is linked twice, whatever the client submits: the duplicate test
\* and the insertion are under one lock.
LinkedOnce ==
    \A i, j \in DOMAIN raw_queue : PhyOf(raw_queue[i]) = PhyOf(raw_queue[j]) => i = j

\* A flush that the client waits for is answered once: it is pending, or its
\* answer is on the way, and never both.
FlushAnsweredOnce == awaited = Count(input_flush_pending) + NumOf(FlushDone)

\* A flush is answered only when the firmware holds no packet any more, and
\* after the INPUT_DONE of every buffer that was in the port when it began.
AnsweredFlushIsDone ==
    [][NumOf(FlushDone)' > NumOf(FlushDone) =>
          owed' = {} /\ \A a \in Address : lent'[a] = 0]_vars

\* Every flush is answered, though its answer may have to come from a firmware
\* callback.
FlushCompletes == awaited > 0 ~> awaited = 0

\* Handed over in the order of submission, one holder at a time.
Fifo == INSTANCE StreamFifo WITH
    waiting  <- LET w == Keep(raw_queue, NotHandedOver)
                IN [i \in DOMAIN w |-> PhyOf(w[i])],
    decoding <- {a[1] : a \in {x \in Address : lent[x] > 0}}

PacketsInOrder == Fifo!Spec
=============================================================================
