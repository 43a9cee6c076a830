--------------------------- MODULE MsgQueueProofs ---------------------------
(***************************************************************************)
(* Proofs about MsgQueue, for every set of readers, nodes and messages and *)
(* every bound.                                                            *)
(***************************************************************************)
EXTENDS MsgQueue, ListProofs, TLAPS

-----------------------------------------------------------------------------
(* Types                                                                   *)

\* Filling a node keeps the lists and the nodes' contents well typed.
LEMMA EnqueueTypes ==
    ASSUME TypeOK, NEW m \in Msg, Enqueue(m)
    PROVE  /\ free' \subseteq Node
           /\ head' \in Seq(Node)
           /\ info' \in [Node -> [code : Msg \cup {Junk}, data : Msg \cup {Junk}]]
<1>1. PICK n \in free :
          /\ free' = free \ {n}
          /\ info' = [info EXCEPT ![n] = Filled(m, @)]
          /\ head' = Append(head, n)
  BY DEF Enqueue, Linked
<1>2. n \in Node
  BY DEF TypeOK
<1>3. info[n] \in [code : Msg \cup {Junk}, data : Msg \cup {Junk}]
  BY <1>2 DEF TypeOK
<1>4. Filled(m, info[n]) \in [code : Msg \cup {Junk}, data : Msg \cup {Junk}]
  BY <1>3 DEF Filled
<1>5. info' \in [Node -> [code : Msg \cup {Junk}, data : Msg \cup {Junk}]]
  BY <1>1, <1>2, <1>4 DEF TypeOK
<1>6. free' \subseteq Node /\ head' \in Seq(Node)
  BY <1>1, <1>2 DEF TypeOK
<1> QED
  BY <1>5, <1>6

\* A queue that message_queue_init has set up is well typed.
LEMMA InitTypes == Init => TypeOK
<1> SUFFICES ASSUME Init PROVE TypeOK
  OBVIOUS
<1>1. Empty \in [code : Msg \cup {Junk}, data : Msg \cup {Junk}]
  BY DEF Empty
<1>2. head \in Seq(Node)
  BY DEF Init
<1>3. stop \in BOOLEAN /\ quit \in BOOLEAN
  BY DEF Init
<1> QED
  BY <1>1, <1>2, <1>3, MsgAssumption DEF Init, TypeOK

\* Every step of posters, readers and the release keeps the types.
LEMMA NextTypes == TypeOK /\ [Next]_vars => TypeOK'
<1> SUFFICES ASSUME TypeOK, [Next]_vars PROVE TypeOK'
  OBVIOUS
<1> USE MsgAssumption
<1>1. ASSUME NEW m \in Msg, Post(m) PROVE TypeOK'
  <2>1. CASE Lost
    BY <1>1, <2>1 DEF Post, TypeOK, readerVars
  <2>2. CASE ~Lost
    <3>1. Enqueue(m)
      BY <1>1, <2>2 DEF Post
    <3> QED
      BY <1>1, <3>1, EnqueueTypes DEF Post, TypeOK, readerVars
  <2> QED
    BY <2>1, <2>2
<1>2. ASSUME NEW c \in Reader, Enter(c) PROVE TypeOK'
  BY <1>2 DEF Enter, Step, TypeOK, qVars, Empty
<1>3. ASSUME NEW c \in Reader, Woken(c) PROVE TypeOK'
  BY <1>3 DEF Woken, Step, TypeOK, qVars
<1>4. ASSUME NEW c \in Reader, GiveUp(c) PROVE TypeOK'
  BY <1>4 DEF GiveUp, Step, TypeOK, qVars
<1>5. ASSUME NEW c \in Reader, ReadStop(c) PROVE TypeOK'
  <2>1. UNCHANGED <<qVars, got, dpc, slp_cnt, posts>>
    BY <1>5 DEF ReadStop
  <2>2. PICK from \in {"woken", "gaveup"},
                to \in {"shutdown", "pop", "out"} :
            Step(c, from, to)
    BY <1>5 DEF ReadStop, Return
  <2>3. ret' = ret \/ ret' = [ret EXCEPT ![c] = "again"]
    BY <1>5 DEF ReadStop, Return
  <2>4. ret' \in [Reader -> {"none", "again", "shutdown", "success"}]
    BY <2>3 DEF TypeOK
  <2>5. /\ rpc' \in [Reader -> {"out", "wait", "woken", "gaveup", "pop",
                               "shutdown"}]
    BY <2>2 DEF Step, TypeOK
  <2> QED
    BY <2>1, <2>4, <2>5 DEF TypeOK, qVars
<1>6. ASSUME NEW c \in Reader, Pop(c) PROVE TypeOK'
  <2>0. UNCHANGED <<info, stop, quit, memory, dpc, slp_cnt, posts>>
    BY <1>6 DEF Pop
  <2>1. CASE stop
    <3>1. Step(c, "pop", "shutdown") /\ UNCHANGED <<free, head, ret, got>>
      BY <1>6, <2>1 DEF Pop
    <3> QED
      BY <2>0, <3>1 DEF Step, TypeOK
  <2>2. CASE ~stop /\ head = <<>>
    <3>1. Return(c, "pop", "success") /\ UNCHANGED <<free, head, got>>
      BY <1>6, <2>2 DEF Pop
    <3> QED
      BY <2>0, <3>1 DEF Return, Step, TypeOK
  <2>3. CASE ~stop /\ head # <<>>
    <3>1. Head(head) \in Node /\ Tail(head) \in Seq(Node)
      BY <2>3 DEF TypeOK
    <3>2. info[Head(head)] \in [code : Msg \cup {Junk}, data : Msg \cup {Junk}]
      BY <3>1 DEF TypeOK
    <3>3. /\ Return(c, "pop", "success")
          /\ got' = [got EXCEPT ![c] = info[Head(head)]]
          /\ head' = Tail(head)
          /\ free' = free \cup {Head(head)}
      BY <1>6, <2>3 DEF Pop
    <3> QED
      BY <2>0, <3>1, <3>2, <3>3 DEF Return, Step, TypeOK
  <2> QED
    BY <2>1, <2>2, <2>3
<1>7. ASSUME NEW c \in Reader, SetQuit(c) PROVE TypeOK'
  BY <1>7 DEF SetQuit, Return, Step, TypeOK
<1>8. CASE StopQueue
  BY <1>8 DEF StopQueue, FreeAtStop, Listed, TypeOK, readerVars
<1>9. CASE Sleep
  BY <1>9 DEF Sleep, MorePolls, Inside, TypeOK, qVars, readerVars
<1>10. CASE Release
  BY <1>10 DEF Release, TypeOK, readerVars
<1>11. CASE ClearDescriptor
  BY <1>11 DEF ClearDescriptor, TypeOK, qVars, readerVars
<1>12. CASE UNCHANGED vars
  BY <1>12 DEF vars, TypeOK
<1> QED
  BY <1>1, <1>2, <1>3, <1>4, <1>5, <1>6, <1>7, <1>8, <1>9, <1>10, <1>11, <1>12
  DEF Next, ReaderStep, DeinitStep

\* Type correctness of the queue, its readers and its release.
THEOREM TypeCorrect == Spec => []TypeOK
<1> QED
  BY InitTypes, NextTypes, PTL DEF Spec

-----------------------------------------------------------------------------
(* Nodes and payloads                                                      *)

\* What Append, Tail and Head do to the set of listed nodes.
LEMMA AppendListed ==
    ASSUME NEW s \in Seq(Node), NEW n \in Node
    PROVE  /\ {Append(s, n)[i] : i \in DOMAIN Append(s, n)}
                = {s[i] : i \in DOMAIN s} \cup {n}
           /\ (/\ \A i, j \in DOMAIN s : s[i] = s[j] => i = j
               /\ n \notin {s[i] : i \in DOMAIN s})
              => \A i, j \in DOMAIN Append(s, n) :
                     Append(s, n)[i] = Append(s, n)[j] => i = j
<1> DEFINE t == Append(s, n)
<1>1. /\ DOMAIN s = 1 .. Len(s)
      /\ DOMAIN t = 1 .. Len(s) + 1
      /\ Len(s) \in Nat
      /\ \A i \in 1 .. Len(s) : t[i] = s[i]
      /\ t[Len(s) + 1] = n
  OBVIOUS
<1> HIDE DEF t
<1>2. {t[i] : i \in DOMAIN t} = {s[i] : i \in DOMAIN s} \cup {n}
  BY <1>1
<1>3. ASSUME \A i, j \in DOMAIN s : s[i] = s[j] => i = j,
             n \notin {s[i] : i \in DOMAIN s}
      PROVE  \A i, j \in DOMAIN t : t[i] = t[j] => i = j
  BY <1>1, <1>3
<1> QED
  BY <1>2, <1>3 DEF t

\* Unlinking the oldest node removes it from the listed nodes and no other.
LEMMA TailListed ==
    ASSUME NEW s \in Seq(Node), s # <<>>,
           \A i, j \in DOMAIN s : s[i] = s[j] => i = j
    PROVE  /\ {Tail(s)[i] : i \in DOMAIN Tail(s)}
                = {s[i] : i \in DOMAIN s} \ {Head(s)}
           /\ Head(s) \in {s[i] : i \in DOMAIN s}
           /\ \A i, j \in DOMAIN Tail(s) : Tail(s)[i] = Tail(s)[j] => i = j
<1> DEFINE t == Tail(s)
<1>1. /\ DOMAIN s = 1 .. Len(s)
      /\ Len(s) \in Nat \ {0}
      /\ DOMAIN t = 1 .. Len(s) - 1
      /\ \A i \in 1 .. Len(s) - 1 : t[i] = s[i + 1]
      /\ Head(s) = s[1]
  OBVIOUS
<1> HIDE DEF t
<1>2. ASSUME NEW x \in {s[i] : i \in DOMAIN s} \ {Head(s)}
      PROVE  x \in {t[i] : i \in DOMAIN t}
  <2>1. PICK i \in 1 .. Len(s) : x = s[i] /\ i # 1
    BY <1>1
  <2>2. i - 1 \in 1 .. Len(s) - 1 /\ t[i - 1] = x
    BY <1>1, <2>1
  <2> QED
    BY <1>1, <2>2
<1>3. ASSUME NEW x \in {t[i] : i \in DOMAIN t}
      PROVE  x \in {s[i] : i \in DOMAIN s} \ {Head(s)}
  <2>1. PICK i \in 1 .. Len(s) - 1 : x = t[i]
    BY <1>1
  <2>2. i + 1 \in DOMAIN s /\ 1 \in DOMAIN s /\ x = s[i + 1] /\ i + 1 # 1
    BY <1>1, <2>1
  <2> QED
    BY <1>1, <2>2
<1>4. Head(s) \in {s[i] : i \in DOMAIN s}
  BY <1>1
<1>5. \A i, j \in DOMAIN t : t[i] = t[j] => i = j
  BY <1>1
<1> QED
  BY <1>2, <1>3, <1>4, <1>5 DEF t

\* Every step leaves each node on exactly one list, once.
LEMMA NextConserves == TypeOK /\ NodesConserved /\ [Next]_vars => NodesConserved'
<1> SUFFICES ASSUME TypeOK, NodesConserved, [Next]_vars PROVE NodesConserved'
  OBVIOUS
<1>1. ASSUME UNCHANGED <<free, head>> PROVE NodesConserved'
  BY <1>1 DEF NodesConserved, Listed
<1>2. ASSUME NEW m \in Msg, Enqueue(m) PROVE NodesConserved'
  <2>1. PICK n \in free : free' = free \ {n} /\ head' = Append(head, n)
    BY <1>2 DEF Enqueue, Linked
  <2>2. n \in Node /\ n \notin Listed /\ head \in Seq(Node)
    BY DEF TypeOK, NodesConserved
  <2>3. /\ Listed' = Listed \cup {n}
        /\ \A i, j \in DOMAIN head' : head'[i] = head'[j] => i = j
    BY <2>1, <2>2, AppendListed DEF Listed, NodesConserved
  <2> QED
    BY <2>1, <2>2, <2>3 DEF NodesConserved
<1>3. ASSUME NEW m \in Msg, Post(m) PROVE NodesConserved'
  BY <1>1, <1>2, <1>3 DEF Post
<1>4. ASSUME NEW c \in Reader, Pop(c) PROVE NodesConserved'
  <2>1. CASE head' = Tail(head) /\ free' = free \cup {Head(head)} /\ head # <<>>
    <3>0. /\ head \in Seq(Node)
          /\ \A i, j \in DOMAIN head : head[i] = head[j] => i = j
      BY DEF NodesConserved, TypeOK
    <3>1. /\ Listed' = Listed \ {Head(head)}
          /\ Head(head) \in Listed
          /\ \A i, j \in DOMAIN head' : head'[i] = head'[j] => i = j
      <4>1. Listed' = {Tail(head)[i] : i \in DOMAIN Tail(head)}
        BY <2>1 DEF Listed
      <4>2. /\ {Tail(head)[i] : i \in DOMAIN Tail(head)} = Listed \ {Head(head)}
            /\ Head(head) \in Listed
            /\ \A i, j \in DOMAIN Tail(head) :
                   Tail(head)[i] = Tail(head)[j] => i = j
        BY <2>1, <3>0, TailListed, Zenon DEF Listed
      <4> QED
        BY <2>1, <4>1, <4>2
    <3> QED
      BY <2>1, <3>1 DEF NodesConserved
  <2> QED
    BY <1>1, <1>4, <2>1 DEF Pop
<1>5. CASE StopQueue
  <2>1. free' = free \cup Listed /\ head' = <<>>
    BY <1>5 DEF StopQueue, FreeAtStop
  <2>2. Listed' = {} /\ DOMAIN head' = {}
    BY <2>1 DEF Listed
  <2> QED
    BY <2>1, <2>2 DEF NodesConserved
<1>6. ASSUME NEW c \in Reader,
             Enter(c) \/ Woken(c) \/ GiveUp(c) \/ ReadStop(c) \/ SetQuit(c)
      PROVE  NodesConserved'
  BY <1>1, <1>6 DEF Enter, Woken, GiveUp, ReadStop, SetQuit, qVars
<1>7. CASE DeinitStep \/ UNCHANGED vars
  BY <1>1, <1>7 DEF DeinitStep, Sleep, Release, ClearDescriptor, qVars, vars
<1> QED
  BY <1>3, <1>4, <1>5, <1>6, <1>7 DEF Next, ReaderStep

\* For any number of readers and nodes: posting, fetching and stopping keep
\* every node on exactly one list, once.
THEOREM NodesNeverLost == Spec => []NodesConserved
<1>1. Init => NodesConserved
  BY DEF Init, NodesConserved, Listed
<1> QED
  BY <1>1, InitTypes, NextTypes, NextConserves, PTL DEF Spec

-----------------------------------------------------------------------------
(* Shutdown                                                                *)

\* `stop` is raised exactly by the release, and only a reader that saw it
\* acknowledges.
StopInv ==
    /\ stop <=> dpc # "open"
    /\ stop => head = <<>>
    /\ quit => stop
    /\ \A c \in Reader : rpc[c] = "shutdown" => stop

\* Every step preserves what the shutdown relies on.
LEMMA NextStopInv == TypeOK /\ StopInv /\ [Next]_vars => StopInv'
<1> SUFFICES ASSUME TypeOK, StopInv, [Next]_vars PROVE StopInv'
  OBVIOUS
<1>1. ASSUME NEW m \in Msg, Post(m) PROVE StopInv'
  <2>1. UNCHANGED <<stop, quit, rpc, dpc>> /\ (stop => head' = head)
    BY <1>1 DEF Post, Lost, readerVars
  <2> QED
    BY <2>1 DEF StopInv
<1>2. ASSUME NEW c \in Reader, Enter(c) \/ Woken(c) \/ GiveUp(c)
      PROVE  StopInv'
  <2>1. /\ UNCHANGED <<head, stop, quit, dpc>>
        /\ \E to \in {"wait", "woken", "gaveup"} : rpc' = [rpc EXCEPT ![c] = to]
    BY <1>2 DEF Enter, Woken, GiveUp, Step, qVars
  <2> QED
    BY <2>1 DEF StopInv, TypeOK
<1>3. ASSUME NEW c \in Reader, ReadStop(c) PROVE StopInv'
  <2>1. /\ UNCHANGED <<head, stop, quit, dpc>>
        /\ \E to \in {"shutdown", "pop", "out"} :
               rpc' = [rpc EXCEPT ![c] = to] /\ (to = "shutdown" => stop)
    BY <1>3 DEF ReadStop, Return, Step, qVars
  <2> QED
    BY <2>1 DEF StopInv, TypeOK
<1>4. ASSUME NEW c \in Reader, Pop(c) PROVE StopInv'
  <2>1. /\ UNCHANGED <<stop, quit, dpc>> /\ (stop => head' = head)
        /\ \E to \in {"shutdown", "out"} :
               rpc' = [rpc EXCEPT ![c] = to] /\ (to = "shutdown" => stop)
    BY <1>4 DEF Pop, Return, Step
  <2> QED
    BY <2>1 DEF StopInv, TypeOK
<1>5. ASSUME NEW c \in Reader, SetQuit(c) PROVE StopInv'
  <2>1. /\ UNCHANGED <<head, stop, dpc>> /\ stop
        /\ rpc' = [rpc EXCEPT ![c] = "out"]
    BY <1>5 DEF SetQuit, Return, Step, StopInv
  <2> QED
    BY <2>1 DEF StopInv, TypeOK
<1>6. CASE StopQueue
  <2>1. /\ stop' /\ head' = <<>> /\ dpc' = "poll"
        /\ UNCHANGED <<quit, rpc>>
    BY <1>6 DEF StopQueue, readerVars
  <2> QED
    BY <2>1 DEF StopInv
<1>7. CASE DeinitStep
  <2>1. /\ UNCHANGED <<head, stop, quit, rpc>>
        /\ dpc # "open" /\ dpc' # "open"
    BY <1>7 DEF DeinitStep, Sleep, Release, ClearDescriptor, qVars, readerVars
  <2> QED
    BY <2>1 DEF StopInv
<1>8. CASE UNCHANGED vars
  BY <1>8 DEF vars, StopInv
<1> QED
  BY <1>1, <1>2, <1>3, <1>4, <1>5, <1>6, <1>7, <1>8 DEF Next, ReaderStep, DeinitStep

\* What the shutdown relies on holds throughout.
LEMMA StopInvariant == Spec => [](TypeOK /\ StopInv)
<1>1. Init => StopInv
  BY DEF Init, StopInv
<1> QED
  BY <1>1, InitTypes, NextTypes, NextStopInv, PTL DEF Spec

\* However posts and the release interleave, a stopped queue stays empty.
THEOREM StoppedStaysEmpty == Spec => []StoppedEmpty
<1>1. StopInv => StoppedEmpty
  BY DEF StopInv, StoppedEmpty
<1> QED
  BY <1>1, StopInvariant, PTL

-----------------------------------------------------------------------------
(* The acknowledgement                                                     *)

\* The acknowledgement is the last thing a reader does, and nobody enters a queue
\* that is being torn down.
AckInv ==
    /\ quit => dpc # "open" /\ \A c \in Reader : ~Inside(c)
    /\ memory = "live" <=> dpc \in {"open", "poll"}
    /\ FreedUnderReader

\* Every step of a single reader and of the release keeps it.
LEMMA NextAck ==
    ASSUME NEW r, Reader = {r}, TypeOK, StopInv, AckInv, [Next]_vars
    PROVE  AckInv'
<1> USE DEF AckInv, FreedUnderReader, Inside
<1>0. r \in Reader /\ rpc \in [Reader -> {"out", "wait", "woken", "gaveup", "pop", "shutdown"}]
  BY DEF TypeOK
<1>1. ASSUME NEW m \in Msg, Post(m) PROVE AckInv'
  BY <1>1 DEF Post, readerVars
<1>2. ASSUME Enter(r) PROVE AckInv'
  <2>1. /\ dpc = "open" /\ ~quit /\ memory = "live"
        /\ UNCHANGED <<dpc, quit, memory, slp_cnt>>
    BY <1>2 DEF Enter, Registered, StopInv, Step, qVars
  <2> QED
    BY <2>1
<1>3. ASSUME Woken(r) \/ GiveUp(r) \/ ReadStop(r) \/ Pop(r) PROVE AckInv'
  <2>1. /\ rpc[r] # "out" /\ memory = "live"
        /\ UNCHANGED <<dpc, quit, memory, slp_cnt>>
    BY <1>3 DEF Woken, GiveUp, ReadStop, Pop, Return, Step, qVars
  <2> QED
    BY <1>0, <2>1
<1>4. ASSUME SetQuit(r) PROVE AckInv'
  <2>1. /\ rpc[r] = "shutdown" /\ rpc'[r] = "out" /\ memory = "live"
        /\ UNCHANGED <<dpc, memory, slp_cnt>>
    BY <1>0, <1>4 DEF SetQuit, Return, Step
  <2>2. dpc # "open"
    BY <1>0, <2>1 DEF StopInv
  <2> QED
    BY <1>0, <2>1, <2>2
<1>5. CASE StopQueue \/ Sleep
  <2>1. /\ dpc \in {"open", "poll"} /\ dpc' = "poll" /\ UNCHANGED <<quit, memory, rpc>>
    BY <1>5 DEF StopQueue, Sleep, qVars, readerVars
  <2> QED
    BY <2>1
<1>6. CASE Release
  <2>1. /\ dpc = "poll" /\ dpc' = "clear" /\ memory' = "freed"
        /\ quit \/ slp_cnt = MaxPolls
        /\ UNCHANGED <<quit, rpc, slp_cnt>>
    BY <1>6 DEF Release, NoMorePolls, readerVars
  <2> QED
    BY <2>1
<1>7. CASE ClearDescriptor
  BY <1>7 DEF ClearDescriptor, qVars, readerVars
<1>8. CASE UNCHANGED vars
  BY <1>8 DEF vars
<1> QED
  BY <1>0, <1>1, <1>2, <1>3, <1>4, <1>5, <1>6, <1>7, <1>8
  DEF Next, ReaderStep, DeinitStep

\* message_queue_deinit frees the queue under a reader of message_dequeue only when
\* its polls have run out: `quit` is never set by, or for, a reader still inside.
THEOREM OnlyLimitFreesUnderReader ==
    ASSUME NEW r, Reader = {r}
    PROVE  Spec => []FreedUnderReader
<1>1. Init => AckInv
  BY DEF Init, AckInv, FreedUnderReader, Inside
<1>2. TypeOK /\ StopInv /\ AckInv /\ [Next]_vars => AckInv'
  BY NextAck
<1>3. AckInv => FreedUnderReader
  BY DEF AckInv
<1> QED
  BY <1>1, <1>2, <1>3, StopInvariant, PTL DEF Spec

-----------------------------------------------------------------------------
(* Payloads                                                                *)

\* What is listed, and what a reader was given, carries its own payload; what
\* lies in a free node need not.
PayloadInv ==
    /\ \A n \in Listed : info[n].code \in WithData => info[n].data = info[n].code
    /\ OwnPayload

\* Every step keeps the payloads with their messages.
LEMMA NextPayload ==
    ASSUME TypeOK, NodesConserved, PayloadInv, [Next]_vars
    PROVE  PayloadInv'
<1> USE MsgAssumption
<1>1. CASE UNCHANGED <<head, info, got>>
  BY <1>1 DEF PayloadInv, OwnPayload, Listed
<1>2. ASSUME NEW m \in Msg, Post(m), ~Lost PROVE PayloadInv'
  <2>1. UNCHANGED got
    BY <1>2 DEF Post, readerVars
  <2>2. PICK n \in free :
            /\ free' = free \ {n}
            /\ info' = [info EXCEPT ![n] = Filled(m, @)]
            /\ head' = Append(head, n)
    BY <1>2 DEF Post, Enqueue, Linked
  <2>3. n \in Node /\ n \notin Listed /\ head \in Seq(Node) /\ Listed \subseteq Node
    BY DEF TypeOK, NodesConserved
  <2>4. Listed' = Listed \cup {n}
    <3>1. {Append(head, n)[i] : i \in DOMAIN Append(head, n)} = Listed \cup {n}
      BY <2>3, AppendListed, Zenon DEF Listed
    <3>2. head' = Append(head, n)
      BY <2>2
    <3> QED
      BY <3>1, <3>2 DEF Listed
  <2>5. info'[n].code = m /\ (m \in WithData => info'[n].data = m)
    <3>1. info'[n] = Filled(m, info[n])
      BY <2>2, <2>3 DEF TypeOK
    <3> QED
      BY <3>1 DEF Filled
  <2>6. \A x \in Listed : info'[x] = info[x]
    BY <2>2, <2>3 DEF TypeOK
  <2> QED
    BY <2>1, <2>4, <2>5, <2>6 DEF PayloadInv, OwnPayload
<1>3. ASSUME NEW m \in Msg, Post(m) PROVE PayloadInv'
  <2>1. CASE Lost
    BY <1>1, <1>3, <2>1 DEF Post, readerVars
  <2> QED
    BY <1>2, <1>3, <2>1
<1>4. ASSUME NEW c \in Reader, Enter(c) PROVE PayloadInv'
  <2>1. /\ UNCHANGED <<head, info>>
        /\ got' = [got EXCEPT ![c] = Empty]
    BY <1>4 DEF Enter, qVars
  <2>2. Empty.code \notin WithData
    BY DEF Empty
  <2> QED
    BY <2>1, <2>2 DEF PayloadInv, OwnPayload, Listed, TypeOK
<1>5. ASSUME NEW c \in Reader, Pop(c), ~UNCHANGED <<head, got>> PROVE PayloadInv'
  <2>1. /\ UNCHANGED info /\ head # <<>>
        /\ got' = [got EXCEPT ![c] = info[Head(head)]]
        /\ head' = Tail(head)
    BY <1>5 DEF Pop
  <2>2. head \in Seq(Node) /\ \A i, j \in DOMAIN head : head[i] = head[j] => i = j
    BY DEF TypeOK, NodesConserved
  <2>3. {Tail(head)[i] : i \in DOMAIN Tail(head)} = Listed \ {Head(head)}
        /\ Head(head) \in Listed
    BY <2>1, <2>2, TailListed, Zenon DEF Listed
  <2>4. Listed' = Listed \ {Head(head)}
    BY <2>1, <2>3 DEF Listed
  <2> QED
    BY <2>1, <2>3, <2>4 DEF PayloadInv, OwnPayload, TypeOK
<1>6. ASSUME NEW c \in Reader, Pop(c) PROVE PayloadInv'
  BY <1>1, <1>5, <1>6 DEF Pop
<1>7. CASE StopQueue
  <2>1. UNCHANGED <<info, got>> /\ head' = <<>>
    BY <1>7 DEF StopQueue, readerVars
  <2> QED
    BY <2>1 DEF PayloadInv, OwnPayload, Listed
<1>8. ASSUME NEW c \in Reader, Woken(c) \/ GiveUp(c) \/ ReadStop(c) \/ SetQuit(c)
      PROVE  PayloadInv'
  BY <1>1, <1>8 DEF Woken, GiveUp, ReadStop, SetQuit, qVars
<1>9. CASE DeinitStep \/ UNCHANGED vars
  BY <1>1, <1>9 DEF DeinitStep, Sleep, Release, ClearDescriptor, qVars, readerVars, vars
<1> QED
  BY <1>3, <1>4, <1>6, <1>7, <1>8, <1>9 DEF Next, ReaderStep

\* For any number of readers and nodes: a message that was posted with a payload
\* is delivered with its own, though its node was used before and still holds
\* what it held.
THEOREM PayloadsCorrect == Spec => []OwnPayload
<1>1. Init => NodesConserved
  BY DEF Init, NodesConserved, Listed
<1>2. Init => PayloadInv
  BY MsgAssumption DEF Init, PayloadInv, OwnPayload, Listed, Empty
<1>3. TypeOK /\ NodesConserved /\ PayloadInv /\ [Next]_vars => PayloadInv'
  BY NextPayload
<1>4. PayloadInv => OwnPayload
  BY DEF PayloadInv
<1> QED
  BY <1>1, <1>2, <1>3, <1>4, InitTypes, NextTypes, NextConserves, PTL DEF Spec

-----------------------------------------------------------------------------
(* The queue is the channel of MsgChannel.                                 *)

\* A reader inside the call has been told nothing yet, and one that has seen
\* the condition of its wait finds it true until it acts on it.
CallInv ==
    \A c \in Reader :
        /\ Inside(c) => ret[c] = "none" /\ got[c] = Empty
        /\ rpc[c] \in {"woken", "pop"} => Pending

\* Nobody but the only reader empties the list under it, except the release.
LEMMA NextCall ==
    ASSUME NEW r, Reader = {r}, TypeOK, StopInv, CallInv, [Next]_vars
    PROVE  CallInv'
<1>0. r \in Reader
  OBVIOUS
<1> DEFINE Kept == /\ Inside(r) => ret[r] = "none" /\ got[r] = Empty
                   /\ rpc[r] \in {"woken", "pop"} => Pending
<1> SUFFICES Kept'
  BY DEF CallInv
<1>1. Kept
  BY <1>0 DEF CallInv
<1>2. ASSUME UNCHANGED <<rpc, ret, got>>, Pending => Pending' PROVE Kept'
  BY <1>1, <1>2 DEF Inside
<1>3. ASSUME NEW m \in Msg, Post(m) PROVE Kept'
  <2>1. CASE Lost
    BY <1>2, <1>3, <2>1 DEF Post, readerVars, Pending
  <2>2. CASE ~Lost
    <3>1. PICK n \in free : head' = Append(head, n)
      BY <1>3, <2>2 DEF Post, Enqueue, Linked
    <3>2. head \in Seq(Node) /\ n \in Node
      BY DEF TypeOK
    <3>3. head' # <<>>
      BY <3>1, <3>2
    <3> QED
      BY <1>2, <1>3, <3>3 DEF Post, readerVars, Pending
  <2> QED
    BY <2>1, <2>2
<1>4. ASSUME Enter(r) PROVE Kept'
  <2>1. rpc'[r] = "wait" /\ ret'[r] = "none" /\ got'[r] = Empty
    BY <1>0, <1>4 DEF Enter, Step, TypeOK
  <2> QED
    BY <2>1 DEF Inside
<1>5. ASSUME Woken(r) \/ GiveUp(r) PROVE Kept'
  <2>1. /\ rpc[r] = "wait" /\ rpc'[r] \in {"woken", "gaveup"}
        /\ rpc'[r] = "woken" => Pending
        /\ UNCHANGED <<head, stop, ret, got>>
    BY <1>0, <1>5 DEF Woken, GiveUp, Step, TypeOK, qVars
  <2> QED
    BY <1>1, <2>1 DEF Inside, Pending
<1>6. ASSUME ReadStop(r) PROVE Kept'
  <2>1. UNCHANGED <<head, stop, got>> /\ rpc[r] \in {"woken", "gaveup"}
    BY <1>6 DEF ReadStop, Return, Step, qVars
  <2>2. got[r] = Empty /\ ret[r] = "none" /\ (rpc[r] = "woken" => Pending)
    BY <1>1, <2>1 DEF Inside
  <2>3. \/ rpc'[r] = "shutdown" /\ ret' = ret
        \/ rpc'[r] = "pop" /\ ret' = ret /\ rpc[r] = "woken"
        \/ rpc'[r] = "out"
    BY <1>0, <1>6 DEF ReadStop, Return, Step, TypeOK
  <2> QED
    BY <2>1, <2>2, <2>3 DEF Inside, Pending
<1>7. ASSUME Pop(r) PROVE Kept'
  <2>1. rpc[r] = "pop"
    BY <1>7 DEF Pop, Return, Step
  <2>2. got[r] = Empty /\ ret[r] = "none"
    BY <1>1, <2>1 DEF Inside
  <2>3. \/ rpc'[r] = "shutdown" /\ UNCHANGED <<ret, got>>
        \/ rpc'[r] = "out" /\ ret'[r] = "success"
    BY <1>0, <1>7 DEF Pop, Return, Step, TypeOK
  <2> QED
    BY <2>2, <2>3 DEF Inside
<1>8. ASSUME SetQuit(r) PROVE Kept'
  <2>1. rpc[r] = "shutdown" /\ rpc'[r] = "out" /\ got' = got
    BY <1>0, <1>8 DEF SetQuit, Return, Step, TypeOK
  <2> QED
    BY <1>1, <2>1 DEF Inside
<1>9. CASE StopQueue
  BY <1>2, <1>9 DEF StopQueue, readerVars, Pending
<1>10. CASE DeinitStep \/ UNCHANGED vars
  BY <1>2, <1>10
  DEF DeinitStep, Sleep, Release, ClearDescriptor, qVars, readerVars, vars, Pending
<1> HIDE DEF Kept
<1> QED
  BY <1>3, <1>4, <1>5, <1>6, <1>7, <1>8, <1>9, <1>10 DEF Next, ReaderStep

Codes == [n \in Node |-> info[n].code]
Chan == Mapped(Codes, head)
Answers == [c \in Reader |-> [how |-> ret[c], msg |-> got[c].code]]

\* The abstract variables, in the terms the proof uses.
LEMMA ChanIs ==
    TypeOK => Chan = [i \in DOMAIN head |-> info[head[i]].code]
<1> SUFFICES ASSUME TypeOK PROVE Chan = [i \in DOMAIN head |-> info[head[i]].code]
  OBVIOUS
<1>1. \A i \in DOMAIN head : head[i] \in Node
  BY DEF TypeOK
<1> QED
  BY <1>1 DEF Chan, Mapped, Codes

LEMMA ListedIs == Listed = ToSet(head)
BY DEF Listed, ToSet

\* A message that is linked is put at the end, and only if it fits.
LEMMA PutStep ==
    ASSUME TypeOK, NodesConserved, NEW m \in Msg, Enqueue(m)
    PROVE  Len(Chan) < Cardinality(Node) /\ Chan' = Append(Chan, m)
<1>1. PICK n \in free :
          /\ info' = [info EXCEPT ![n] = Filled(m, @)]
          /\ head' = Append(head, n)
  BY DEF Enqueue, Linked
<1>2. n \in Node /\ n \notin Listed /\ head \in Seq(Node)
  BY DEF TypeOK, NodesConserved
<1>3. Codes'[n] = m /\ \A x \in ToSet(head) : Codes'[x] = Codes[x]
  <2>1. ToSet(head) \subseteq Node \ {n}
    BY <1>2, ListedIs DEF TypeOK, NodesConserved
  <2>2. info'[n].code = m
    BY <1>1, <1>2 DEF Filled, TypeOK
  <2>3. \A x \in Node \ {n} : info'[x] = info[x]
    BY <1>1 DEF TypeOK
  <2> QED
    BY <1>2, <2>1, <2>2, <2>3 DEF Codes
<1>4. Chan' = Append(Chan, m)
  <2>1. Mapped(Codes', Append(head, n)) = Append(Mapped(Codes', head), Codes'[n])
    BY <1>2, MappedAppend
  <2>2. Mapped(Codes', head) = Mapped(Codes, head)
    BY <1>3, MappedSame
  <2> QED
    BY <1>1, <1>3, <2>1, <2>2 DEF Chan
<1>5. Len(Chan) = Len(head)
  BY <1>2, MappedList DEF Chan
<1>6. Len(head) < Cardinality(Node)
  <2> DEFINE S == Node \ {n}
  <2>1. IsFiniteSet(S) /\ Cardinality(S) = Cardinality(Node) - 1 /\ Cardinality(Node) \in Nat
    BY <1>2, MsgAssumption, FS_RemoveElement, FS_CardinalityType
  <2>2. head \in Seq(S)
    <3>1. \A i \in DOMAIN head : head[i] \in S
      BY <1>2 DEF Listed
    <3> QED
      BY <1>2, <3>1
  <2>3. IsInjective(head)
    BY DEF NodesConserved, IsInjective
  <2> HIDE DEF S
  <2>4. Len(head) <= Cardinality(S) /\ Len(head) \in Nat
    BY <2>1, <2>2, <2>3, LengthBound
  <2> QED
    BY <2>1, <2>4
<1> QED
  BY <1>4, <1>5, <1>6

\* What a reader is told changes for that reader alone.
LEMMA AnswerStep ==
    ASSUME TypeOK, NEW c \in Reader, NEW how, NEW g,
           ret' = [ret EXCEPT ![c] = how], got' = [got EXCEPT ![c] = g]
    PROVE  Answers' = [Answers EXCEPT ![c] = [how |-> how, msg |-> g.code]]
BY DEF Answers, TypeOK

LEMMA AnswerSame ==
    ASSUME TypeOK, NEW c \in Reader, NEW how, ret' = [ret EXCEPT ![c] = how], got' = got
    PROVE  Answers' = [Answers EXCEPT ![c] = [how |-> how, msg |-> got[c].code]]
BY DEF Answers, TypeOK

\* Every step of the queue and its reader is one of the channel, or none.
LEMMA ChannelStep ==
    ASSUME NEW r, Reader = {r},
           TypeOK, TypeOK', NodesConserved, StopInv, CallInv, [Next]_vars
    PROVE  [Channel!Next]_(Channel!chanVars)
<1>0. r \in Reader
  OBVIOUS
<1>1. Channel!chanVars = <<Chan, ~stop, Answers>>
  BY ChanIs DEF Channel!chanVars, Answers
<1>2. Channel!chanVars' = <<Chan', ~stop', Answers'>>
  <2>1. (TypeOK => Chan = [i \in DOMAIN head |-> info[head[i]].code])'
    BY ChanIs, PTL
  <2> QED
    BY <2>1 DEF Channel!chanVars, Answers
<1>3. Chan = [i \in DOMAIN head |-> info[head[i]].code]
      /\ Chan' = [i \in DOMAIN head |-> info[head[i]].code]'
  <2>1. (TypeOK => Chan = [i \in DOMAIN head |-> info[head[i]].code])'
    BY ChanIs, PTL
  <2> QED
    BY <2>1, ChanIs
<1>4. ASSUME NEW m \in Msg, Post(m) PROVE [Channel!Next]_(Channel!chanVars)
  <2>1. stop' = stop /\ Answers' = Answers
    BY <1>4 DEF Post, readerVars, Answers
  <2>2. CASE Lost
    <3>1. Chan' = Chan
      BY <1>4, <2>2 DEF Post, Chan, Codes
    <3> QED
      BY <1>1, <1>2, <2>1, <3>1
  <2>3. CASE ~Lost
    <3>1. Enqueue(m) /\ ~stop
      BY <1>4, <2>3 DEF Post, Lost
    <3>2. Len(Chan) < Cardinality(Node) /\ Chan' = Append(Chan, m)
      BY <3>1, PutStep
    <3>3. Channel!Put(m)
      BY <1>3, <2>1, <3>1, <3>2 DEF Channel!Put, Answers
    <3> QED
      BY <3>3 DEF Channel!Next
  <2> QED
    BY <2>2, <2>3
<1>5. ASSUME Enter(r) PROVE Channel!Next
  <2>1. UNCHANGED <<head, info, stop>>
    BY <1>5 DEF Enter, qVars
  <2>2. Answers' = [Answers EXCEPT ![r] = [how |-> "none", msg |-> Empty.code]]
    BY <1>0, <1>5, AnswerStep DEF Enter
  <2>3. Channel!Ask(r)
    BY <1>3, <2>1, <2>2 DEF Channel!Ask, Channel!Told, Answers, Empty
  <2> QED
    BY <1>0, <2>3 DEF Channel!Next
<1>6. ASSUME UNCHANGED <<head, info, stop, ret, got>> PROVE [Channel!Next]_(Channel!chanVars)
  BY <1>1, <1>2, <1>6 DEF Chan, Codes, Answers
<1>7. ASSUME Inside(r) PROVE ret[r] = "none" /\ got[r] = Empty
  BY <1>0, <1>7 DEF CallInv
<1>8. ASSUME ReadStop(r) PROVE [Channel!Next]_(Channel!chanVars)
  <2>1. CASE ret' = ret
    BY <1>6, <1>8, <2>1 DEF ReadStop, qVars
  <2>2. CASE ret' # ret
    <3>1. ret' = [ret EXCEPT ![r] = "again"] /\ UNCHANGED <<head, info, stop, got>> /\ Inside(r)
      BY <1>8, <2>2 DEF ReadStop, Return, Step, Inside, qVars
    <3>2. Answers' = [Answers EXCEPT ![r] = [how |-> "again", msg |-> Empty.code]]
      BY <1>0, <1>7, <3>1, AnswerSame
    <3>3. Answers[r].how = "none"
      BY <1>0, <1>7, <3>1 DEF Answers
    <3>4. Channel!Retry(r)
      BY <1>3, <3>1, <3>2, <3>3 DEF Channel!Retry, Channel!Told, Answers, Empty
    <3> QED
      BY <1>0, <3>4 DEF Channel!Next
  <2> QED
    BY <2>1, <2>2
<1>9. ASSUME Pop(r) PROVE [Channel!Next]_(Channel!chanVars)
  <2>1. CASE stop
    BY <1>6, <1>9, <2>1 DEF Pop
  <2>2. CASE ~stop
    <3>1. rpc[r] = "pop" /\ Inside(r) /\ head # <<>> /\ head \in Seq(Node)
      BY <1>0, <1>9, <2>2 DEF Pop, Return, Step, Inside, CallInv, Pending, TypeOK
    <3>2. /\ ret' = [ret EXCEPT ![r] = "success"]
          /\ got' = [got EXCEPT ![r] = info[Head(head)]]
          /\ head' = Tail(head) /\ UNCHANGED <<info, stop>>
      BY <1>9, <2>2, <3>1 DEF Pop, Return
    <3>3. Answers' = [Answers EXCEPT ![r] = [how |-> "success", msg |-> info[Head(head)].code]]
      BY <1>0, <3>2, AnswerStep
    <3>4. Chan # <<>> /\ Head(Chan) = Codes[Head(head)] /\ Chan' = Tail(Chan)
      <4>1. Codes' = Codes
        BY <3>2 DEF Codes
      <4> QED
        BY <3>1, <3>2, <4>1, MappedTail DEF Chan
    <3>5. Codes[Head(head)] = info[Head(head)].code
      BY <3>1 DEF Codes
    <3>6. Answers[r].how = "none"
      BY <1>0, <1>7, <3>1 DEF Answers
    <3>7. Channel!Get(r)
      BY <1>3, <2>2, <3>2, <3>3, <3>4, <3>5, <3>6 DEF Channel!Get, Channel!Told, Answers
    <3> QED
      BY <1>0, <3>7 DEF Channel!Next
  <2> QED
    BY <2>1, <2>2
<1>10. ASSUME SetQuit(r) PROVE Channel!Next
  <2>1. /\ ret' = [ret EXCEPT ![r] = "shutdown"] /\ UNCHANGED <<head, info, stop, got>>
        /\ Inside(r) /\ stop
    BY <1>0, <1>10 DEF SetQuit, Return, Step, Inside, StopInv
  <2>2. Answers' = [Answers EXCEPT ![r] = [how |-> "shutdown", msg |-> Empty.code]]
    BY <1>0, <1>7, <2>1, AnswerSame
  <2>3. Answers[r].how = "none"
    BY <1>0, <1>7, <2>1 DEF Answers
  <2>4. Channel!Refuse(r)
    BY <1>3, <2>1, <2>2, <2>3 DEF Channel!Refuse, Channel!Told, Answers, Empty
  <2> QED
    BY <1>0, <2>4 DEF Channel!Next
<1>11. CASE StopQueue
  <2>1. ~stop /\ stop' /\ head' = <<>> /\ UNCHANGED <<ret, got>>
    BY <1>11 DEF StopQueue, StopInv, readerVars
  <2>2. Chan' = <<>>
    BY <2>1 DEF Chan, Mapped
  <2>3. Channel!Close
    BY <1>3, <2>1, <2>2 DEF Channel!Close
  <2> QED
    BY <2>3 DEF Channel!Next
<1>12. CASE DeinitStep \/ UNCHANGED vars
  BY <1>6, <1>12 DEF DeinitStep, Sleep, Release, ClearDescriptor, qVars, readerVars, vars
<1>13. ASSUME Woken(r) \/ GiveUp(r) PROVE UNCHANGED <<head, info, stop, ret, got>>
  BY <1>13 DEF Woken, GiveUp, qVars
<1> HIDE DEF vars
<1> QED
  BY <1>4, <1>5, <1>6, <1>8, <1>9, <1>10, <1>11, <1>12, <1>13 DEF Next, ReaderStep

\* With one reader, and however many nodes, messages and polls, the queue is a
\* bounded FIFO that is closed once: no call succeeds without a message, none is
\* delivered out of order or twice, and after the close every call is refused.
THEOREM ChannelCorrect ==
    ASSUME NEW r, Reader = {r}
    PROVE  Spec => ImplementsChannel
<1>1. Init => Channel!Init
  <2> SUFFICES ASSUME Init PROVE Channel!Init
    OBVIOUS
  <2>1. [i \in DOMAIN head |-> info[head[i]].code] = <<>>
    BY DEF Init
  <2> QED
    BY <2>1 DEF Init, Channel!Init, Channel!Told, Empty
<1>2. Init => NodesConserved /\ CallInv /\ StopInv
  BY DEF Init, NodesConserved, Listed, CallInv, StopInv, Inside
<1>3. TypeOK /\ StopInv /\ CallInv /\ [Next]_vars => CallInv'
  BY NextCall
<1>4. TypeOK /\ TypeOK' /\ NodesConserved /\ StopInv /\ CallInv /\ [Next]_vars
      => [Channel!Next]_(Channel!chanVars)
  BY ChannelStep
<1> QED
  BY <1>1, <1>2, <1>3, <1>4, InitTypes, NextTypes, NextConserves, NextStopInv, PTL
  DEF Spec, ImplementsChannel, Channel!Spec
=============================================================================
