----------------------------- MODULE VencDevice -----------------------------
(***************************************************************************)
(* The encoder device: open, close and ioctls of its files                 *)
(* (venc/drv/venc/venc_platform.c), the channels behind it (drv_venc.S and *)
(* drv_venc_efl.S), its clock and regulator (venc_regulator.c) and the     *)
(* table of imported dma-buf buffers (venc_memory.c).  What runs under     *)
(* g_venc_ioctl_mutex is one step; MAP takes g_dmabuf_mutex only when it   *)
(* holds its buffer already, so it is two.                                 *)
(***************************************************************************)
EXTENDS Integers, FiniteSets, Functions

CONSTANTS
    File,       \* opened files of the device, each of a process of its own
    Chn,        \* addresses of channel contexts: a handle is one
    MaxChn,     \* VENC_MAX_CHN_NUM
    Fd,         \* file descriptors of dma-buf buffers, per process
    MaxMaps,    \* MAX_DMABUF_MAPS
    MaxRefs,    \* bound on the references to one buffer
    MaxIgnored, \* bound on the failures to enable
    None        \* NULL; as a handle, 0xFFFFFFFF

ASSUME VencAssumption ==
    /\ MaxChn \in Nat /\ MaxMaps \in Nat /\ MaxRefs \in Nat /\ MaxIgnored \in Nat
    /\ IsFiniteSet(File) /\ IsFiniteSet(Fd)
    /\ None \notin File /\ None \notin Chn /\ None \notin Fd
    /\ None \notin File \X Fd

Slot == 0 .. MaxChn - 1
Map == 0 .. MaxMaps - 1
Buffer == File \X Fd        \* what a descriptor names in the process of a file

VARIABLES
    open_count, file,
    handle, pWhichFile, receiving,  \* g_stVencChn: hVEncHandle, and its state
    creator,        \* who had a context allocated; None: it is not
    started,        \* the contexts in the table of the encoder's task
    power,          \* g_vencPowerOn, clk_venc and ldo_venc, failures to enable them
    maps,           \* g_dmabuf_maps
    mapping,        \* the descriptor a MAP of a file holds outside the table
    refs,           \* references the driver holds to a buffer
    wiped           \* those of entries that DRV_MEM_INIT has cleared

fileVars == <<open_count, file>>
chnVars == <<handle, pWhichFile, receiving, creator, started>>
mapVars == <<maps, mapping, refs, wiped>>
vars == <<fileVars, chnVars, power, mapVars>>

NoMap == [fd |-> None, buf |-> None]    \* is_active is false

Init ==
    /\ open_count = 0 /\ file = [f \in File |-> "closed"]
    \* The device's data start as zeros; the first open sets the handles.
    /\ handle = [i \in Slot |-> None] /\ pWhichFile = [i \in Slot |-> None]
    /\ receiving = [i \in Slot |-> FALSE]
    /\ creator = [c \in Chn |-> None] /\ started = {}
    /\ power = [on |-> FALSE, clk |-> 0, reg |-> 0, ignored |-> [clk |-> 0, reg |-> 0]]
    /\ maps = [m \in Map |-> NoMap] /\ mapping = [f \in File |-> None]
    /\ refs = [b \in Buffer |-> 0] /\ wiped = [b \in Buffer |-> 0]

-----------------------------------------------------------------------------
(* Venc_Regulator_Enable and Venc_Regulator_Disable.                       *)

\* A failure is logged and ignored.
Enabled(p) ==
    IF p.on THEN {p}
    ELSE {[on |-> TRUE, clk |-> p.clk + 1 - c, reg |-> p.reg + 1 - r,
           ignored |-> [clk |-> p.ignored.clk + c, reg |-> p.ignored.reg + r]] :
             c \in 0 .. 1, r \in 0 .. 1}

Disabled_Bug(p) == [p EXCEPT !.on = FALSE, !.clk = @ - 1, !.reg = @ - 1]
Disabled(p) ==
    IF p.on THEN [p EXCEPT !.on = FALSE, !.clk = @ - 1, !.reg = @ - 1] ELSE p

\* BoardDeinit disables, and the last close does so once more.
BoardOff(p) == Disabled(Disabled(p))

-----------------------------------------------------------------------------
(* venc_open                                                               *)

\* DRV_MEM_INIT, called when the hardware is opened: what a table entry holds
\* is held for ever.
MemInit ==
    /\ maps' = [m \in Map |-> NoMap]
    /\ wiped' = [b \in Buffer |-> wiped[b] + Cardinality({m \in Map : maps[m].buf = b})]
    /\ UNCHANGED <<mapping, refs>>

ResetHandles == handle' = [i \in Slot |-> None]

Within(p) == p.ignored.clk <= MaxIgnored /\ p.ignored.reg <= MaxIgnored

Open(f) ==
    /\ file[f] = "closed"
    /\ file' = [file EXCEPT ![f] = "open"]
    /\ open_count' = open_count + 1
    /\ \/ /\ open_count = 0
          /\ ResetHandles
          /\ power' \in Enabled(power) /\ Within(power')
          /\ started' = {}
          /\ MemInit
       \/ open_count > 0 /\ UNCHANGED <<handle, started, power, mapVars>>
    /\ UNCHANGED <<pWhichFile, receiving, creator>>

\* VENC_DRV_EflOpenVedu fails, before DRV_MEM_INIT or after.
OpenFails(f) ==
    /\ file[f] = "closed" /\ open_count = 0
    /\ ResetHandles
    /\ \E p \in Enabled(power) : Within(p) /\ power' = Disabled(p)
    /\ \/ MemInit /\ started' = {}
       \/ UNCHANGED <<mapVars, started>>
    /\ UNCHANGED <<fileVars, pWhichFile, receiving, creator>>

-----------------------------------------------------------------------------
(* Channels.  A handle is looked up in the slots, whoever uses it.         *)

Free(i) == handle[i] = None

\* The slot CREATE_CHN finds for the handle it has got.
FoundSlot_Bug(c) == {0}
FoundSlot(c) == {i \in Slot : handle'[i] = c}

CreateChn(f, c) ==
    /\ file[f] = "open" /\ creator[c] = None
    /\ \E i \in Slot :
          /\ Free(i) /\ \A j \in 0 .. i - 1 : ~Free(j)
          /\ handle' = [handle EXCEPT ![i] = c]
          /\ receiving' = [receiving EXCEPT ![i] = FALSE]
          /\ pWhichFile' = [j \in Slot |->
                IF j = i \/ j \in FoundSlot(c) THEN f ELSE pWhichFile[j]]
    /\ creator' = [creator EXCEPT ![c] = f]
    /\ UNCHANGED <<fileVars, started, power, mapVars>>

\* VENC_DRV_DestroyChn of the handles H that are in a slot: a context that
\* receives is stopped first, its memory goes, and its slot is free.
StoppedFirst_Bug(H) == {}
StoppedFirst(H) == {handle[i] : i \in {j \in Slot : handle[j] \in H /\ receiving[j]}}

Destroy(H) ==
    LET gone == {i \in Slot : handle[i] \in H \ {None}}
    IN  /\ started' = started \ StoppedFirst(H)
        /\ creator' = [c \in Chn |-> IF c \in H THEN None ELSE creator[c]]
        /\ handle' = [i \in Slot |-> IF i \in gone THEN None ELSE handle[i]]
        /\ receiving' = [i \in Slot |-> receiving[i] /\ i \notin gone]

\* DESTROY_CHN looks for the handle again to forget the file, but the slot has
\* lost it.
DestroyChn(f, c) ==
    /\ file[f] = "open" /\ c \in Range(handle)
    /\ Destroy({c})
    /\ UNCHANGED <<fileVars, pWhichFile, power, mapVars>>

StartReceivePic(f, i) ==
    /\ file[f] = "open" /\ ~Free(i) /\ ~receiving[i]
    /\ receiving' = [receiving EXCEPT ![i] = TRUE]
    /\ started' = started \cup {handle[i]}
    /\ UNCHANGED <<fileVars, handle, pWhichFile, creator, power, mapVars>>

StopReceivePic(f, i) ==
    /\ file[f] = "open" /\ ~Free(i) /\ receiving[i]
    /\ receiving' = [receiving EXCEPT ![i] = FALSE]
    /\ started' = started \ {handle[i]}
    /\ UNCHANGED <<fileVars, handle, pWhichFile, creator, power, mapVars>>

-----------------------------------------------------------------------------
(* MAP and UMAP                                                            *)

Held(b, n) == refs' = [refs EXCEPT ![b] = @ + n]

\* The buffer is got, attached and mapped; a failure here is unwound.
MapBuffer(f, fd) ==
    /\ file[f] = "open" /\ mapping[f] = None
    /\ refs[<<f, fd>>] < MaxRefs
    /\ mapping' = [mapping EXCEPT ![f] = fd]
    /\ Held(<<f, fd>>, 1)
    /\ UNCHANGED <<fileVars, chnVars, power, maps, wiped>>

Undo_Bug(b) == UNCHANGED refs
Undo(b) == Held(b, -1)

EnterMap(f) ==
    LET b == <<f, mapping[f]>>
    IN  /\ mapping[f] # None
        /\ mapping' = [mapping EXCEPT ![f] = None]
        /\ \/ \E m \in Map :
                /\ maps[m] = NoMap /\ \A n \in 0 .. m - 1 : maps[n] # NoMap
                /\ maps' = [maps EXCEPT ![m] = [fd |-> mapping[f], buf |-> b]]
                /\ UNCHANGED refs
           \/ /\ \A m \in Map : maps[m] # NoMap
              /\ Undo(b)
              /\ UNCHANGED maps
        /\ UNCHANGED <<fileVars, chnVars, power, wiped>>

\* The first entry with that number, whose process it may be.
Umap(f, fd) ==
    /\ file[f] = "open"
    /\ \E m \in Map :
          /\ maps[m].fd = fd /\ \A n \in 0 .. m - 1 : maps[n].fd # fd
          /\ Held(maps[m].buf, -1)
          /\ maps' = [maps EXCEPT ![m] = NoMap]
    /\ UNCHANGED <<fileVars, chnVars, power, mapping, wiped>>

-----------------------------------------------------------------------------
(* venc_release, when no ioctl of the file runs.                           *)

Owned(f) == {i \in Slot : pWhichFile[i] = f}

Close(f) ==
    /\ file[f] = "open" /\ mapping[f] = None
    /\ file' = [file EXCEPT ![f] = "closed"]
    /\ Destroy({handle[i] : i \in Owned(f)})
    /\ pWhichFile' = [i \in Slot |-> IF i \in Owned(f) THEN None ELSE pWhichFile[i]]
    /\ open_count' = open_count - 1
    /\ power' = IF open_count = 1 THEN BoardOff(power) ELSE power
    /\ UNCHANGED mapVars

Next ==
    \E f \in File :
        \/ Open(f) \/ OpenFails(f) \/ Close(f) \/ EnterMap(f)
        \/ \E c \in Chn : CreateChn(f, c) \/ DestroyChn(f, c)
        \/ \E i \in Slot : StartReceivePic(f, i) \/ StopReceivePic(f, i)
        \/ \E fd \in Fd : MapBuffer(f, fd) \/ Umap(f, fd)

Spec == Init /\ [][Next]_vars

-----------------------------------------------------------------------------
\* The type of the state.
TypeOK ==
    /\ open_count \in Nat /\ file \in [File -> {"closed", "open"}]
    /\ handle \in [Slot -> Chn \cup {None}] /\ pWhichFile \in [Slot -> File \cup {None}]
    /\ receiving \in [Slot -> BOOLEAN]
    /\ creator \in [Chn -> File \cup {None}] /\ started \subseteq Chn
    /\ power \in [on : BOOLEAN, clk : Int, reg : Int, ignored : [clk : Nat, reg : Nat]]
    /\ maps \in [Map -> [fd : Fd, buf : Buffer] \cup {NoMap}]
    /\ mapping \in [File -> Fd \cup {None}]
    /\ refs \in [Buffer -> Int] /\ wiped \in [Buffer -> Nat]

\* Every channel context is found in one slot, by which the close of the file
\* that created it, and of no other, will destroy it, though DESTROY_CHN leaves
\* the file of a slot behind and the first open forgets all handles; and no slot
\* has the handle of a context that is gone.
ChannelsOwned ==
    /\ {c \in Chn : creator[c] # None} = {handle[i] : i \in Slot} \ {None}
    /\ \A i, j \in Slot : i # j /\ handle[i] = handle[j] => Free(i)
    /\ \A i \in Slot : ~Free(i) =>
          pWhichFile[i] = creator[handle[i]] /\ file[pWhichFile[i]] = "open"

\* The encoder's task has in its table only contexts that are there, those whose
\* slot receives.
TaskSeesReceiving ==
    started = {handle[i] : i \in {j \in Slot : receiving[j]}} \ {None}

\* Clock and regulator are each on once while a file is open, and off
\* otherwise, but for what failures that Enable ignored have taken away.
PowerBalanced ==
    LET once == IF open_count > 0 THEN 1 ELSE 0
    IN  /\ power.on <=> open_count > 0
        /\ power.clk + power.ignored.clk = once
        /\ power.reg + power.ignored.reg = once

\* The driver has one reference to a buffer for each table entry of it and for a
\* MAP under way; those beyond are of entries a first open has cleared.
ReferencesHeld ==
    \A b \in Buffer :
        refs[b] = Cardinality({m \in Map : maps[m].buf = b})
                  + (IF mapping[b[1]] = b[2] THEN 1 ELSE 0) + wiped[b]
=============================================================================
