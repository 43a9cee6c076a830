------------------------------ MODULE MsgQueue ------------------------------
(***************************************************************************)
(* The message queue of a decoder channel: omxvdec/message.c.              *)
(*                                                                         *)
(* A fixed pool of nodes moves between a free list and the list of pending *)
(* messages under a spinlock.  Driver threads post, user threads fetch     *)
(* through the GET_MSG ioctl with a 100 ms wait, and the thread that       *)
(* releases the channel stops the queue, waits for a fetching thread to    *)
(* acknowledge and gives the memory back.  message_dequeue reads `stop`    *)
(* outside the lock and sets `quit` outside it, so a fetch is several      *)
(* steps here; everything done under the spinlock is one.                  *)
(***************************************************************************)
EXTENDS Naturals, Sequences, FiniteSets

CONSTANTS
    Reader,      \* user threads inside GET_MSG
    Node,        \* the nodes allocated with the queue (QUEUE_DEFAULT_DEPTH)
    Msg,         \* the messages that are posted
    WithData,    \* those posted with a payload (priv not NULL)
    Junk,        \* contents of memory nobody has written
    MaxPolls,    \* how often message_queue_deinit polls `quit` (10)
    MaxPosts     \* bound on the messages posted in a behaviour

ASSUME MsgAssumption ==
    /\ IsFiniteSet(Node)
    /\ WithData \subseteq Msg
    /\ Junk \notin Msg
    /\ MaxPolls \in Nat /\ MaxPosts \in Nat

VARIABLES
    free,        \* nodes on the free list
    head,        \* nodes on the pending list, oldest first
    info,        \* what is written in each node: code and payload
    stop, quit,  \* the two flags of msg_queue_s
    memory,      \* "live" until VDEC_MEM_UnmapAndRelease has freed the queue
    rpc,         \* where each reader is in message_dequeue
    ret,         \* what its last call returned
    got,         \* the message structure of its ioctl, on its stack
    dpc,         \* where message_queue_deinit is
    slp_cnt,     \* polls so far
    posts        \* messages posted, for the bound

qVars == <<free, head, info, stop, quit, memory>>
readerVars == <<rpc, ret, got>>
vars == <<free, head, info, stop, quit, memory, rpc, ret, got, dpc, slp_cnt,
          posts>>

Empty == [code |-> Junk, data |-> Junk]
Pending == head # <<>> \/ stop                       \* message_pending

Inside(c) == rpc[c] # "out"
Registered == dpc = "open"      \* the channel record is removed before deinit

Listed == {head[i] : i \in DOMAIN head}

Init ==
    /\ free = Node
    /\ head = <<>>
    /\ info = [n \in Node |-> Empty]
    /\ stop = FALSE /\ quit = FALSE
    /\ memory = "live"
    /\ rpc = [c \in Reader |-> "out"]
    /\ ret = [c \in Reader |-> "none"]
    /\ got = [c \in Reader |-> Empty]
    /\ dpc = "open"
    /\ slp_cnt = 0
    /\ posts = 0

-----------------------------------------------------------------------------
(* message_queue: one critical section.                                    *)

\* Without a payload the msgdata of the node stays as it was.
Filled_Bug(m, old) == [code |-> m, data |-> old.data]
Filled(m, old) == [code |-> m, data |-> IF m \in WithData THEN m ELSE old.data]

Linked_Bug(n) == <<n>> \o head
Linked(n) == Append(head, n)                         \* list_add_tail

Enqueue(m) ==
    \E n \in free :
        /\ free' = free \ {n}
        /\ info' = [info EXCEPT ![n] = Filled(m, @)]
        /\ head' = Linked(n)

Lost == stop \/ free = {}          \* returns 0, or -ENOMEM that no caller reads

Post(m) ==
    /\ memory = "live"
    /\ posts < MaxPosts
    /\ posts' = posts + 1
    /\ IF Lost THEN UNCHANGED <<free, head, info>> ELSE Enqueue(m)
    /\ UNCHANGED <<stop, quit, memory, readerVars, dpc, slp_cnt>>

-----------------------------------------------------------------------------
(* message_dequeue, and the channel lookup of the ioctl before it.         *)

\* A step of a reader on memory already freed has no defined outcome: the
\* model stops the reader there, and FreedUnderReader says when it can happen.
Step(c, from, to) ==
    /\ memory = "live"
    /\ rpc[c] = from
    /\ rpc' = [rpc EXCEPT ![c] = to]

Return(c, from, how) ==
    /\ Step(c, from, "out")
    /\ ret' = [ret EXCEPT ![c] = how]

\* The ioctl finds the channel in the list and leaves channel_lock.
Enter(c) ==
    /\ Registered
    /\ Step(c, "out", "wait")
    /\ ret' = [ret EXCEPT ![c] = "none"]
    /\ got' = [got EXCEPT ![c] = Empty]
    /\ UNCHANGED <<qVars, dpc, slp_cnt, posts>>

\* wait_event_interruptible_timeout ends with its condition true ...
Woken(c) ==
    /\ Pending
    /\ Step(c, "wait", "woken")
    /\ UNCHANGED <<qVars, ret, got, dpc, slp_cnt, posts>>

\* ... or, the condition false when last looked at, by timeout or signal.
GiveUp(c) ==
    /\ ~Pending
    /\ Step(c, "wait", "gaveup")
    /\ UNCHANGED <<qVars, ret, got, dpc, slp_cnt, posts>>

\* if (queue->stop) and if (ret <= 0), outside the lock.
ReadStop(c) ==
    /\ \/ stop /\ \E from \in {"woken", "gaveup"} : Step(c, from, "shutdown")
          /\ UNCHANGED ret
       \/ ~stop /\ Step(c, "woken", "pop") /\ UNCHANGED ret
       \/ ~stop /\ Return(c, "gaveup", "again")
    /\ UNCHANGED <<qVars, got, dpc, slp_cnt, posts>>

\* The critical section: stop is read again, then the oldest node is taken
\* if there is one; the call succeeds even if there is none.
Pop(c) ==
    /\ \/ /\ stop
          /\ Step(c, "pop", "shutdown")
          /\ UNCHANGED <<free, head, ret, got>>
       \/ /\ ~stop /\ head # <<>>
          /\ Return(c, "pop", "success")
          /\ got' = [got EXCEPT ![c] = info[Head(head)]]
          /\ head' = Tail(head)
          /\ free' = free \cup {Head(head)}
       \/ /\ ~stop /\ head = <<>>
          /\ Return(c, "pop", "success")
          /\ UNCHANGED <<free, head, got>>
    /\ UNCHANGED <<info, stop, quit, memory, dpc, slp_cnt, posts>>

SetQuit(c) ==
    /\ Return(c, "shutdown", "shutdown")
    /\ quit' = TRUE
    /\ UNCHANGED <<free, head, info, stop, memory, got, dpc, slp_cnt, posts>>

-----------------------------------------------------------------------------
(* message_queue_deinit                                                    *)

FreeAtStop_Bug == free
FreeAtStop == free \cup Listed

\* message_stop: no more posts, everything pending is thrown away.
StopQueue ==
    /\ dpc = "open"
    /\ stop' = TRUE
    /\ free' = FreeAtStop
    /\ head' = <<>>
    /\ dpc' = "poll"
    /\ UNCHANGED <<info, quit, memory, readerVars, slp_cnt, posts>>

MorePolls_Bug == ~quit /\ slp_cnt <= MaxPolls
MorePolls == ~quit /\ slp_cnt < MaxPolls

\* while (!queue->quit && slp_cnt < 10) msleep(10).
Sleep ==
    /\ dpc = "poll"
    /\ MorePolls
    /\ slp_cnt' = slp_cnt + 1
    /\ UNCHANGED <<qVars, readerVars, dpc, posts>>

NoMorePolls_NoWait == TRUE
NoMorePolls_NoLimit == quit
NoMorePolls == quit \/ slp_cnt = MaxPolls

\* VDEC_MEM_UnmapAndRelease(&queue->mem_buf) frees the block ...
Release ==
    /\ dpc = "poll"
    /\ NoMorePolls
    /\ memory' = "freed"
    /\ dpc' = "clear"
    /\ UNCHANGED <<free, head, info, stop, quit, readerVars, slp_cnt, posts>>

\* ... and then clears the descriptor it was given, which lies in the block.
ClearDescriptor ==
    /\ dpc = "clear"
    /\ dpc' = "done"
    /\ UNCHANGED <<qVars, readerVars, slp_cnt, posts>>

ReaderStep(c) == Woken(c) \/ GiveUp(c) \/ ReadStop(c) \/ Pop(c) \/ SetQuit(c)
DeinitStep == Sleep \/ Release \/ ClearDescriptor

Next ==
    \/ \E m \in Msg : Post(m)
    \/ \E c \in Reader : Enter(c) \/ ReaderStep(c)
    \/ StopQueue
    \/ DeinitStep

Spec == Init /\ [][Next]_vars

\* A thread in the driver is scheduled until it leaves it; nothing obliges a
\* user thread to call, the driver to post or the channel to be released.
FairSpec ==
    /\ Spec
    /\ \A c \in Reader : WF_vars(ReaderStep(c))
    /\ WF_vars(DeinitStep)
-----------------------------------------------------------------------------
(* Properties                                                              *)

\* Every variable holds a value of its kind.
TypeOK ==
    /\ free \subseteq Node
    /\ head \in Seq(Node)
    /\ info \in [Node -> [code : Msg \cup {Junk}, data : Msg \cup {Junk}]]
    /\ stop \in BOOLEAN /\ quit \in BOOLEAN
    /\ memory \in {"live", "freed"}
    /\ rpc \in [Reader -> {"out", "wait", "woken", "gaveup", "pop", "shutdown"}]
    /\ ret \in [Reader -> {"none", "again", "shutdown", "success"}]
    /\ got \in [Reader -> [code : Msg \cup {Junk}, data : Msg \cup {Junk}]]
    /\ dpc \in {"open", "poll", "clear", "done"}
    /\ slp_cnt \in 0 .. MaxPolls
    /\ posts \in 0 .. MaxPosts

\* Posting, fetching and stopping never lose a node and never have one on both
\* lists or twice on the pending list (list_del before each list_add).
NodesConserved ==
    /\ free \cap Listed = {}
    /\ free \cup Listed = Node
    /\ \A i, j \in DOMAIN head : head[i] = head[j] => i = j

\* Nothing is left on the pending list of a stopped queue, whatever is posted
\* while it is being torn down.
StoppedEmpty == stop => head = <<>>

\* A message delivered with a payload carries its own, not the one an earlier
\* message left in the reused node.
OwnPayload ==
    \A c \in Reader : got[c].code \in WithData => got[c].data = got[c].code

\* The acknowledgement is sound, and only the limit overrules it: the memory is
\* freed under a reader between its channel lookup and its return only when all
\* MaxPolls polls have passed without an acknowledgement; once `quit` is set
\* nobody is inside.  Holds for one reader: with two, the first to leave
\* acknowledges for the other.
FreedUnderReader ==
    memory = "freed" /\ (\E c \in Reader : Inside(c)) => ~quit /\ slp_cnt = MaxPolls

\* Once the queue's memory is freed its release is over too.
NoTouchAfterRelease == memory = "freed" => dpc = "done"

\* Releasing the channel gives the memory back, even if nobody acknowledges.
DeinitCompletes == dpc = "poll" ~> memory = "freed"

\* Seen by its only reader the queue is the bounded FIFO of MsgChannel.
Channel == INSTANCE MsgChannel WITH
    chan   <- [i \in DOMAIN head |-> info[head[i]].code],
    open   <- ~stop,
    answer <- [c \in Reader |-> [how |-> ret[c], msg |-> got[c].code]],
    Depth  <- Cardinality(Node)

ImplementsChannel == Channel!Spec
=============================================================================
