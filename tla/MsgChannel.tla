----------------------------- MODULE MsgChannel -----------------------------
(***************************************************************************)
(* What a decoder channel promises to the user thread that collects its    *)
(* completion messages (omxvdec/message.c, seen from outside): a bounded   *)
(* FIFO that is closed once.  Closing discards what has not been fetched;  *)
(* after it every call is answered with "shutdown".  A post to a full or a *)
(* closed channel is lost without a trace.                                 *)
(***************************************************************************)
EXTENDS Naturals, Sequences

CONSTANTS
    Reader,      \* threads that fetch messages
    Msg,         \* messages the driver posts
    Depth,       \* how many messages fit
    Junk         \* what a reader holds when it was given no message

VARIABLES
    chan,        \* messages posted and not fetched, oldest first
    open,        \* the channel has not been closed
    answer       \* what each reader was last told, and the message it holds

chanVars == <<chan, open, answer>>

Told(how, m) == [how |-> how, msg |-> m]

Init ==
    /\ chan = <<>>
    /\ open = TRUE
    /\ answer = [c \in Reader |-> Told("none", Junk)]

Put(m) ==
    /\ open
    /\ Len(chan) < Depth
    /\ chan' = Append(chan, m)
    /\ UNCHANGED <<open, answer>>

Ask(c) ==
    /\ answer' = [answer EXCEPT ![c] = Told("none", Junk)]
    /\ UNCHANGED <<chan, open>>

Get(c) ==
    /\ open
    /\ chan # <<>>
    /\ answer[c].how = "none"
    /\ answer' = [answer EXCEPT ![c] = Told("success", Head(chan))]
    /\ chan' = Tail(chan)
    /\ UNCHANGED open

\* The wait is bounded: "try again" is an answer a reader may always get.
Retry(c) ==
    /\ answer[c].how = "none"
    /\ answer' = [answer EXCEPT ![c] = Told("again", Junk)]
    /\ UNCHANGED <<chan, open>>

Refuse(c) ==
    /\ ~open
    /\ answer[c].how = "none"
    /\ answer' = [answer EXCEPT ![c] = Told("shutdown", Junk)]
    /\ UNCHANGED <<chan, open>>

Close ==
    /\ open
    /\ open' = FALSE
    /\ chan' = <<>>
    /\ UNCHANGED answer

Next ==
    \/ \E m \in Msg : Put(m)
    \/ \E c \in Reader : Ask(c) \/ Get(c) \/ Retry(c) \/ Refuse(c)
    \/ Close

Spec == Init /\ [][Next]_chanVars
=============================================================================
