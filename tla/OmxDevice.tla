----------------------------- MODULE OmxDevice ------------------------------
(***************************************************************************)
(* The decoder device: open and close of its files (omxvdec/omxvdec.c),    *)
(* creation, release and look-up of channels (omxvdec/channel.c), the      *)
(* firmware they share (omxvdec/decoder_vfmw.c) and its clock and          *)
(* regulator (omxvdec/platform/kirin/regulator.c).  Opens and closes       *)
(* exclude each other by omxvdec_mutex; creations and releases by ioctl    *)
(* hold no lock of the device but channel_lock, gDecoderMut and            *)
(* g_RegulatorMut for single steps, and run beside each other and beside   *)
(* a close.  A client releases a channel of its own at most once.          *)
(***************************************************************************)
EXTENDS Naturals, FiniteSets

CONSTANTS
    File,       \* opened files of the device
    Chan,       \* channel contexts; each is allocated at most once
    Secure,     \* those with is_tvp
    MaxOpen,    \* MAX_OPEN_COUNT
    None        \* HI_NULL

ASSUME DeviceAssumption ==
    /\ IsFiniteSet(File) /\ IsFiniteSet(Chan)
    /\ Secure \subseteq Chan /\ MaxOpen \in Nat
    /\ None \notin File /\ None \notin Chan

VARIABLES
    open_count,
    file,           \* "closed", "open", or "closing" in omxvdec_release
    chan_list,      \* the channels on the list
    place,          \* and their order
    channel_id, decoder_id, file_dec,
    step,           \* how far creation or release of a channel has come
    walk,           \* where the close of a file is in the list
    is_init,        \* gIsNormalInit, gIsSecureInit
    hal,            \* gNormalHalMem, gSecureHalMem are allocated
    power,          \* g_VdecPowerOn, and how often clock and regulator are on
    dark,           \* the last resume could not enable the regulator
    suspended

deviceVars == <<open_count, file, walk>>
listVars == <<chan_list, place, channel_id, file_dec>>
firmwareVars == <<is_init, hal>>
powerVars == <<power, dark, suspended>>
vars == <<deviceVars, listVars, decoder_id, step, firmwareVars, powerVars>>

World == {"normal", "secure"}
WorldOf(c) == IF c \in Secure THEN "secure" ELSE "normal"

Set(f, x, v) == [f EXCEPT ![x] = v]

AllOff == [on |-> FALSE, clk |-> 0, reg |-> 0]
AllOn == [on |-> TRUE, clk |-> 1, reg |-> 1]
NoWalk == [at |-> "none", pchan |-> None, next |-> None]

Init ==
    /\ open_count = 0
    /\ file = [f \in File |-> "closed"]
    /\ chan_list = {} /\ place = [c \in Chan |-> 0]
    /\ channel_id = [c \in Chan |-> 0] /\ decoder_id = [c \in Chan |-> 0]
    /\ file_dec = [c \in Chan |-> None]
    /\ step = [c \in Chan |-> "new"]
    /\ walk = [f \in File |-> NoWalk]
    /\ is_init = [w \in World |-> 0] /\ hal = [w \in World |-> FALSE]
    /\ power = AllOff
    /\ dark = FALSE /\ suspended = FALSE

-----------------------------------------------------------------------------
(* VDEC_Regulator_Enable and VDEC_Regulator_Disable, under g_RegulatorMut. *)

\* What is left on when the n-th of clock, regulator and QoS fails.
ClockLeft_Bug(n) == IF n = 2 THEN 1 ELSE 0
ClockLeft(n) == 0

\* What enabling makes of p when it succeeds, and when it fails.
SwitchedOn(p) ==
    IF p.on THEN p ELSE [on |-> TRUE, clk |-> p.clk + 1, reg |-> p.reg + 1]
LeftOff(p) ==
    IF p.on THEN {} ELSE {[p EXCEPT !.clk = @ + ClockLeft(n)] : n \in 1 .. 3}

\* The regulator is disabled first; if that fails everything stays on.
Disabling(p) ==
    IF p.on THEN {p, [on |-> FALSE, clk |-> p.clk - 1, reg |-> p.reg - 1]} ELSE {p}

-----------------------------------------------------------------------------
(* omxvdec_open, under omxvdec_mutex.                                      *)

MutexFree_Bug == TRUE
MutexFree == \A f \in File : walk[f].at = "none"    \* omxvdec_mutex

\* The first open powers the decoder; when something else then fails, the power
\* goes off again.  Nobody else uses the device during a first open.
Open(f) ==
    /\ file[f] = "closed" /\ MutexFree /\ ~suspended /\ open_count < MaxOpen
    /\ \/ /\ open_count > 0
          /\ UNCHANGED <<power, dark>>
       \/ /\ open_count = 0
          /\ power' = SwitchedOn(power)
          /\ dark' = FALSE
    /\ file' = Set(file, f, "open")
    /\ open_count' = open_count + 1
    /\ UNCHANGED <<listVars, decoder_id, step, walk, firmwareVars, suspended>>

OpenFails(f) ==
    /\ file[f] = "closed" /\ MutexFree /\ ~suspended /\ open_count = 0
    /\ power' \in LeftOff(power) \cup Disabling(SwitchedOn(power))
    /\ UNCHANGED <<deviceVars, listVars, decoder_id, step, firmwareVars, dark, suspended>>

-----------------------------------------------------------------------------
(* channel_create_inst                                                     *)

\* channel_lock: a close holds it while it passes along the list.
LockFree == \A f \in File : walk[f].at = "look" => walk[f].pchan = None

Step(c, from, to) == step[c] = from /\ step' = Set(step, c, to)

Ids == {channel_id[d] : d \in chan_list}
LowestFree_Bug(S, i) == i = Cardinality(S)
LowestFree(S, i) == i \notin S /\ \A j \in 0 .. i - 1 : j \in S

\* channel_add_chan_record: the channel can be found before it has a decoder,
\* under decoder_id 0.
Create(f, c) ==
    /\ file[f] = "open" /\ ~suspended /\ LockFree
    /\ Step(c, "new", "listed")
    /\ chan_list' = chan_list \cup {c}
    /\ place' = Set(place, c, 1 + Cardinality({d \in Chan : step[d] # "new"}))
    /\ \E i \in 0 .. Cardinality(Chan) :
          LowestFree(Ids, i) /\ channel_id' = Set(channel_id, c, i)
    /\ file_dec' = Set(file_dec, c, f)
    /\ UNCHANGED <<deviceVars, decoder_id, firmwareVars, powerVars>>

\* decoder_init_vfmw: only the first user of each world initialises the firmware,
\* which may fail.
CreateFirmware(c) ==
    LET w == WorldOf(c)
    IN  /\ step[c] = "listed"
        /\ \/ /\ power' = SwitchedOn(power) /\ dark' = FALSE
              /\ \/ /\ step' = Set(step, c, "firmware")
                    /\ is_init' = Set(is_init, w, is_init[w] + 1)
                    /\ hal' = Set(hal, w, TRUE)
                 \/ /\ is_init[w] = 0
                    /\ step' = Set(step, c, "unlist")
                    /\ UNCHANGED firmwareVars
           \/ /\ power' \in LeftOff(power)
              /\ step' = Set(step, c, "unlist")
              /\ UNCHANGED <<firmwareVars, dark>>
        /\ UNCHANGED <<deviceVars, listVars, decoder_id, suspended>>

HasDecoder(c) == step[c] \in {"decoder", "undo", "idle", "working", "stopped", "unlisted"}

\* VDEC_CID_CREATE_CHAN_WITH_OPTION: the firmware gives an identifier it does
\* not use for another channel.
CreateDecoder(c) ==
    /\ step[c] = "firmware"
    /\ \/ /\ step' = Set(step, c, "decoder")
          /\ \E i \in 0 .. Cardinality(Chan) - 1 :
                /\ \A d \in Chan : HasDecoder(d) => decoder_id[d] # i
                /\ decoder_id' = Set(decoder_id, c, i)
       \/ /\ step' = Set(step, c, "unused")
          /\ UNCHANGED decoder_id
    /\ UNCHANGED <<deviceVars, listVars, firmwareVars, powerVars>>

\* The interfaces of the decoder, the processor, the message queue and the
\* end-of-stream buffer; any can fail.
CreateRest(c) ==
    /\ \/ Step(c, "decoder", "idle")
       \/ Step(c, "decoder", "undo")
    /\ UNCHANGED <<deviceVars, listVars, decoder_id, firmwareVars, powerVars>>

UndoDecoder(c) ==
    /\ Step(c, "undo", "unused")
    /\ UNCHANGED <<deviceVars, listVars, decoder_id, firmwareVars, powerVars>>

LastUser_Bug(n) == n <= 1
LastUser(n) == n = 0

\* decoder_exit_vfmw: the last user of a world takes the firmware down.
LeaveFirmware(c) ==
    LET w == WorldOf(c)
        left == IF is_init[w] > 0 THEN is_init[w] - 1 ELSE 0
    IN  IF LastUser(left)
        THEN is_init' = Set(is_init, w, 0) /\ hal' = Set(hal, w, FALSE)
        ELSE is_init' = Set(is_init, w, left) /\ UNCHANGED hal

UndoFirmware(c) ==
    /\ Step(c, "unused", "unlist")
    /\ LeaveFirmware(c)
    /\ UNCHANGED <<deviceVars, listVars, decoder_id, powerVars>>

\* The identifiers go with the memory.
Forget(c) == channel_id' = Set(channel_id, c, 0) /\ decoder_id' = Set(decoder_id, c, 0)

\* channel_delete_chan_record, and the channel's memory.
UndoRecord(c) ==
    /\ LockFree /\ Step(c, "unlist", "freed")
    /\ chan_list' = chan_list \ {c}
    /\ Forget(c)
    /\ UNCHANGED <<deviceVars, place, file_dec, firmwareVars, powerVars>>

-----------------------------------------------------------------------------
Ready(c) == step[c] \in {"idle", "working"}

StartOrStop(c) ==
    /\ Ready(c) /\ ~suspended /\ walk[file_dec[c]].at = "none"
    /\ Step(c, "idle", "working") \/ Step(c, "working", "idle")
    /\ UNCHANGED <<deviceVars, listVars, decoder_id, firmwareVars, powerVars>>

(* channel_release_inst, by VDEC_IOCTL_CHAN_RELEASE or by the close.       *)

\* The decoder and the processor are stopped.
Stop(c) == Ready(c) /\ step' = Set(step, c, "stopped")

Release(c) ==
    /\ Stop(c)
    /\ ~suspended /\ walk[file_dec[c]].at = "none"
    /\ UNCHANGED <<deviceVars, listVars, decoder_id, firmwareVars, powerVars>>

Unlist(c) ==
    /\ LockFree /\ Step(c, "stopped", "unlisted")
    /\ chan_list' = chan_list \ {c}
    /\ UNCHANGED <<deviceVars, place, channel_id, file_dec, decoder_id, firmwareVars,
                   powerVars>>

\* VDEC_CID_DESTROY_CHAN in decoder_release_inst.
DestroyDecoder(c) ==
    /\ Step(c, "unlisted", "destroyed")
    /\ UNCHANGED <<deviceVars, listVars, decoder_id, firmwareVars, powerVars>>

ExitFirmware(c) ==
    /\ Step(c, "destroyed", "invalid")
    /\ LeaveFirmware(c)
    /\ UNCHANGED <<deviceVars, listVars, decoder_id, powerVars>>

Free(c) ==
    /\ Step(c, "invalid", "freed")
    /\ Forget(c)
    /\ UNCHANGED <<deviceVars, chan_list, place, file_dec, firmwareVars, powerVars>>

-----------------------------------------------------------------------------
(* omxvdec_release.  A file is closed when none of its ioctls runs.        *)

Quiet(f) == \A c \in Chan : file_dec[c] = f => Ready(c) \/ step[c] = "freed"

FirstOf(S, c) == c \in S /\ \A d \in S : place[c] <= place[d]

Behind_Bug(c) == {d \in chan_list : place[d] > place[c] + 1}
Behind(c) == {d \in chan_list : place[d] > place[c]}

\* The first of S, or the end of the list.
Leads(S, c) == (S = {} /\ c = None) \/ FirstOf(S, c)

\* list_for_each_entry_safe reads the next channel before the body runs.
LookAt(f, c) ==
    \E n \in Chan \cup {None} :
        /\ IF c = None THEN n = None ELSE Leads(Behind(c), n)
        /\ walk' = Set(walk, f, [at |-> "look", pchan |-> c, next |-> n])

BeginClose(f) ==
    /\ file[f] = "open" /\ Quiet(f) /\ MutexFree /\ ~suspended /\ LockFree
    /\ file' = Set(file, f, "closing")
    /\ \E c \in Chan \cup {None} : Leads(chan_list, c) /\ LookAt(f, c)
    /\ UNCHANGED <<open_count, listVars, decoder_id, step, firmwareVars, powerVars>>

\* What is read from the saved channel when it has left the list is anything:
\* the walk is lost, and holds omxvdec_mutex.
GoOn(f) ==
    LET n == walk[f].next
    IN  \/ (n = None \/ n \in chan_list) /\ LookAt(f, n)
        \/ /\ n # None /\ n \notin chan_list
           /\ walk' = Set(walk, f, [walk[f] EXCEPT !.at = "lost"])

Mine(f, c) == file_dec[c] = f /\ Ready(c)

\* Channels of other files are passed under channel_lock.
Pass(f) ==
    /\ walk[f].at = "look" /\ walk[f].pchan # None
    /\ ~Mine(f, walk[f].pchan)
    /\ GoOn(f)
    /\ UNCHANGED <<open_count, file, listVars, decoder_id, step, firmwareVars, powerVars>>

\* For one of its own the lock is dropped until channel_release_inst returns.
ReleaseMine(f) ==
    /\ walk[f].at = "look" /\ walk[f].pchan # None
    /\ Mine(f, walk[f].pchan)
    /\ Stop(walk[f].pchan)
    /\ walk' = Set(walk, f, [walk[f] EXCEPT !.at = "release"])
    /\ UNCHANGED <<open_count, file, listVars, decoder_id, firmwareVars, powerVars>>

Released(f) ==
    /\ walk[f].at = "release" /\ LockFree /\ step[walk[f].pchan] = "freed"
    /\ GoOn(f)
    /\ UNCHANGED <<open_count, file, listVars, decoder_id, step, firmwareVars, powerVars>>

\* The last close takes down what is left of the firmware, and the power.
EndClose(f) ==
    /\ walk[f].at = "look" /\ walk[f].pchan = None
    /\ open_count' = IF open_count > 0 THEN open_count - 1 ELSE 0
    /\ IF open_count' = 0
       THEN /\ is_init' = [w \in World |-> 0]
            /\ hal' = [w \in World |-> FALSE]
            /\ power' \in Disabling(power)
       ELSE UNCHANGED <<firmwareVars, power>>
    /\ file' = Set(file, f, "closed")
    /\ walk' = Set(walk, f, NoWalk)
    /\ UNCHANGED <<listVars, decoder_id, step, dark, suspended>>

-----------------------------------------------------------------------------
(* System sleep: user processes are frozen outside the driver.             *)

Frozen == \A f \in File : Quiet(f) /\ walk[f].at = "none"

\* decoder_suspend
Suspend ==
    /\ ~suspended /\ Frozen
    /\ suspended' = TRUE
    /\ power' \in Disabling(power)
    /\ UNCHANGED <<deviceVars, listVars, decoder_id, step, firmwareVars, dark>>

\* decoder_resume
ShouldPower_Bug == is_init["normal"] > 0
ShouldPower == open_count > 0

Resume ==
    /\ suspended
    /\ suspended' = FALSE
    /\ \/ ShouldPower /\ power' = SwitchedOn(power) /\ dark' = FALSE
       \/ ShouldPower /\ power' \in LeftOff(power) /\ dark' = TRUE
       \/ ~ShouldPower /\ UNCHANGED <<power, dark>>
    /\ UNCHANGED <<deviceVars, listVars, decoder_id, step, firmwareVars>>

-----------------------------------------------------------------------------
Creation(c) == \/ CreateFirmware(c) \/ CreateDecoder(c) \/ CreateRest(c)
               \/ UndoDecoder(c) \/ UndoFirmware(c) \/ UndoRecord(c)
ReleaseStep(c) == Unlist(c) \/ DestroyDecoder(c) \/ ExitFirmware(c) \/ Free(c)
Close(f) == Pass(f) \/ ReleaseMine(f) \/ Released(f) \/ EndClose(f)

Next ==
    \/ \E f \in File : \/ Open(f) \/ OpenFails(f) \/ BeginClose(f) \/ Close(f)
                       \/ \E c \in Chan : Create(f, c)
    \/ \E c \in Chan : Creation(c) \/ StartOrStop(c) \/ Release(c) \/ ReleaseStep(c)
    \/ Suspend \/ Resume

Spec == Init /\ [][Next]_vars

-----------------------------------------------------------------------------
Walking(f) == walk[f].at # "none"

\* The type of the state.
TypeOK ==
    /\ open_count \in Nat
    /\ file \in [File -> {"closed", "open", "closing"}]
    /\ chan_list \subseteq Chan /\ place \in [Chan -> Nat]
    /\ channel_id \in [Chan -> Nat] /\ decoder_id \in [Chan -> Nat]
    /\ file_dec \in [Chan -> File \cup {None}]
    /\ step \in [Chan -> {"new", "listed", "firmware", "decoder", "undo", "unused",
                          "unlist", "idle", "working", "stopped", "unlisted",
                          "destroyed", "invalid", "freed"}]
    /\ walk \in [File -> [at : {"none", "look", "release", "lost"},
                          pchan : Chan \cup {None}, next : Chan \cup {None}]]
    /\ is_init \in [World -> Nat] /\ hal \in [World -> BOOLEAN]
    /\ power \in [on : BOOLEAN, clk : Nat, reg : Nat]
    /\ dark \in BOOLEAN /\ suspended \in BOOLEAN

\* decoder_init_vfmw to decoder_exit_vfmw.
UsesFirmware(c) == HasDecoder(c) \/ step[c] \in {"firmware", "unused", "destroyed"}
Users(w) == {c \in Chan : UsesFirmware(c) /\ WorldOf(c) = w}

\* The firmware of each world is counted for exactly its channels, so that it is
\* up, with its memory, while one of them needs it and down when none does:
\* through every failure of a creation, beside other creations and releases,
\* and at the last close.
FirmwareCounted ==
    \A w \in World : is_init[w] = Cardinality(Users(w)) /\ (hal[w] <=> is_init[w] > 0)

\* Clock and regulator are on once, or off, with g_VdecPowerOn; and while the
\* firmware is up they are on, but in system sleep and after a resume that
\* failed to enable them.
FirmwareHasPower ==
    /\ power \in {AllOff, AllOn}
    /\ (\E w \in World : is_init[w] > 0) /\ ~suspended => power.on \/ dark

\* Packets and images of a decoder that works are looked up by channel_id, its
\* events by decoder_id: both find its own channel, though identifiers are
\* reused.  The one exception: an event goes to a channel that was listed
\* earlier and has no decoder, but the decoder_id 0 of its memory before, or
\* the identifier of a decoder that is destroyed, in a creation that failed.
CallbacksFindOwner ==
    \A c \in Chan : step[c] = "working" =>
        /\ FirstOf({d \in chan_list : channel_id[d] = channel_id[c]}, c)
        /\ \A d \in chan_list :
              decoder_id[d] = decoder_id[c] /\ place[d] < place[c] => ~HasDecoder(d)

\* A closed file leaves no channel behind, on the list or off it.
CloseLeavesNothing ==
    \A c \in Chan : step[c] \notin {"new", "freed"} => file[file_dec[c]] # "closed"

\* The channel a close has saved as the next is still on the list when it goes
\* there, unless a client of another open file has released it meanwhile.
WalkStaysOnList ==
    \A f \in File : Walking(f) /\ walk[f].next # None /\ walk[f].next \notin chan_list =>
        /\ file_dec[walk[f].next] # f
        /\ file[file_dec[walk[f].next]] = "open"
=============================================================================
