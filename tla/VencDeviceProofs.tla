-------------------------- MODULE VencDeviceProofs --------------------------
(***************************************************************************)
(* Proofs about VencDevice, for any files, contexts, descriptors and table *)
(* sizes: what is enabled, held, listed or started is what is in use.      *)
(***************************************************************************)
EXTENDS VencDevice, FiniteSetTheorems, TLAPS

Used == {f \in File : file[f] = "open"}

\* open_count is exact.
OpenInv == open_count = Cardinality(Used)

Entries(b) == {m \in Map : maps[m].buf = b}

Inv == /\ TypeOK /\ OpenInv /\ PowerBalanced /\ ChannelsOwned /\ TaskSeesReceiving
       /\ ReferencesHeld

PowerRecord == [on : BOOLEAN, clk : Int, reg : Int, ignored : [clk : Nat, reg : Nat]]

-----------------------------------------------------------------------------
LEMMA UsedFacts == IsFiniteSet(Used) /\ Cardinality(Used) \in Nat
<1>1. Used \in SUBSET File
  BY DEF Used
<1> QED
  BY <1>1, FS_Subset, FS_CardinalityType, VencAssumption

LEMMA EntriesFacts == \A b : IsFiniteSet(Entries(b)) /\ Cardinality(Entries(b)) \in Nat
<1>1. IsFiniteSet(Map)
  <2>1. 0 \in Int /\ MaxMaps - 1 \in Int
    BY VencAssumption
  <2> QED
    BY <2>1, FS_Interval DEF Map
<1>2. \A b : Entries(b) \in SUBSET Map
  BY DEF Entries
<1> QED
  BY <1>1, <1>2, FS_Subset, FS_CardinalityType

\* Enabling keeps the sum of what is on and what was ignored.
LEMMA EnabledFacts ==
    ASSUME NEW p \in PowerRecord, NEW q \in Enabled(p), ~p.on
    PROVE  /\ q \in PowerRecord /\ q.on
           /\ q.clk + q.ignored.clk = p.clk + p.ignored.clk + 1
           /\ q.reg + q.ignored.reg = p.reg + p.ignored.reg + 1
<1>1. PICK c \in 0 .. 1, r \in 0 .. 1 :
         q = [on |-> TRUE, clk |-> p.clk + 1 - c, reg |-> p.reg + 1 - r,
              ignored |-> [clk |-> p.ignored.clk + c, reg |-> p.ignored.reg + r]]
  BY DEF Enabled
<1>2. /\ p.clk \in Int /\ p.reg \in Int
      /\ p.ignored.clk \in Nat /\ p.ignored.reg \in Nat
  BY DEF PowerRecord
<1>3. [clk |-> p.ignored.clk + c, reg |-> p.ignored.reg + r] \in [clk : Nat, reg : Nat]
  BY <1>2
<1>4. p.clk + 1 - c \in Int /\ p.reg + 1 - r \in Int
  BY <1>2
<1>5. q \in PowerRecord
  BY <1>1, <1>3, <1>4 DEF PowerRecord
<1>6. /\ q.on /\ q.clk = p.clk + 1 - c /\ q.reg = p.reg + 1 - r
      /\ q.ignored.clk = p.ignored.clk + c /\ q.ignored.reg = p.ignored.reg + r
  BY <1>1
<1> QED
  BY <1>2, <1>5, <1>6

\* Disabling takes away one of each, once.
LEMMA DisabledFacts ==
    ASSUME NEW p \in PowerRecord, p.on
    PROVE  /\ Disabled(p) \in PowerRecord /\ ~Disabled(p).on
           /\ Disabled(p).clk = p.clk - 1 /\ Disabled(p).reg = p.reg - 1
           /\ Disabled(p).ignored = p.ignored
           /\ BoardOff(p) = Disabled(p)
<1>1. Disabled(p) = [p EXCEPT !.on = FALSE, !.clk = p.clk - 1, !.reg = p.reg - 1]
  BY DEF Disabled
<1>2. p.clk \in Int /\ p.reg \in Int /\ p.ignored \in [clk : Nat, reg : Nat]
  BY DEF PowerRecord
<1>3. Disabled(p) = [on |-> FALSE, clk |-> p.clk - 1, reg |-> p.reg - 1,
                      ignored |-> p.ignored]
  BY <1>1 DEF PowerRecord
<1>4. /\ Disabled(p) \in PowerRecord /\ ~Disabled(p).on
      /\ Disabled(p).clk = p.clk - 1 /\ Disabled(p).reg = p.reg - 1
      /\ Disabled(p).ignored = p.ignored
  BY <1>2, <1>3 DEF PowerRecord
<1>5. Disabled(Disabled(p)) = Disabled(p)
  BY <1>4 DEF Disabled
<1> QED
  BY <1>4, <1>5 DEF BoardOff

\* Whatever was ignored, the first open adds one of each, the last close or a
\* failed first open takes one of each, and BoardDeinit makes no difference.
LEMMA PowerStep ==
    ASSUME TypeOK, OpenInv, PowerBalanced, [Next]_vars
    PROVE  PowerBalanced' /\ power' \in PowerRecord
<1>1. power \in PowerRecord /\ open_count \in Nat
  BY DEF TypeOK, PowerRecord
<1>2. /\ power.clk \in Int /\ power.reg \in Int
      /\ power.ignored.clk \in Nat /\ power.ignored.reg \in Nat
  BY <1>1 DEF PowerRecord
<1>3. ASSUME NEW f \in File, Open(f) PROVE PowerBalanced' /\ power' \in PowerRecord
  <2>1. CASE open_count = 0
    <3>1. power' \in Enabled(power) /\ open_count' = 1
      BY <1>3, <2>1 DEF Open
    <3>2. ~power.on /\ power.clk + power.ignored.clk = 0
          /\ power.reg + power.ignored.reg = 0
      BY <2>1 DEF PowerBalanced
    <3> QED
      BY <1>1, <3>1, <3>2, EnabledFacts DEF PowerBalanced
  <2>2. CASE open_count > 0
    BY <1>1, <1>3, <2>2 DEF Open, PowerBalanced
  <2> QED
    BY <1>1, <2>1, <2>2
<1>4. ASSUME NEW f \in File, OpenFails(f) PROVE PowerBalanced' /\ power' \in PowerRecord
  <2>1. PICK p \in Enabled(power) : power' = Disabled(p)
    BY <1>4 DEF OpenFails
  <2>2. /\ open_count = 0 /\ open_count' = 0 /\ ~power.on
        /\ power.clk + power.ignored.clk = 0
        /\ power.reg + power.ignored.reg = 0
    BY <1>4 DEF OpenFails, fileVars, PowerBalanced
  <2>3. /\ p \in PowerRecord /\ p.on
        /\ p.clk + p.ignored.clk = 1
        /\ p.reg + p.ignored.reg = 1
    BY <1>1, <2>2, EnabledFacts
  <2>4. /\ p.clk \in Int /\ p.reg \in Int
        /\ p.ignored.clk \in Nat /\ p.ignored.reg \in Nat
    BY <2>3 DEF PowerRecord
  <2> QED
    BY <2>1, <2>2, <2>3, <2>4, DisabledFacts DEF PowerBalanced
<1>5. ASSUME NEW f \in File, Close(f) PROVE PowerBalanced' /\ power' \in PowerRecord
  <2>1. open_count' = open_count - 1 /\ open_count # 0
    <3>1. f \in Used
      BY <1>5 DEF Close, Used
    <3> QED
      BY <1>5, <3>1, UsedFacts, FS_EmptySet DEF OpenInv, Close
  <2>2. CASE open_count = 1
    <3>1. power' = BoardOff(power)
      BY <1>5, <2>2 DEF Close
    <3>2. /\ power.on
          /\ power.clk + power.ignored.clk = 1
          /\ power.reg + power.ignored.reg = 1
      BY <2>2 DEF PowerBalanced
    <3> QED
      BY <1>1, <1>2, <2>1, <2>2, <3>1, <3>2, DisabledFacts DEF PowerBalanced
  <2>3. CASE open_count # 1
    BY <1>1, <1>5, <2>1, <2>3 DEF Close, PowerBalanced
  <2> QED
    BY <2>2, <2>3
<1>6. CASE UNCHANGED <<open_count, power>>
  BY <1>1, <1>6 DEF PowerBalanced
<1> QED
  BY <1>3, <1>4, <1>5, <1>6
  DEF Next, vars, fileVars, EnterMap, CreateChn, DestroyChn, StartReceivePic,
      StopReceivePic, MapBuffer, Umap

\* Opens and closes count the open files.
LEMMA OpenStep ==
    ASSUME TypeOK, OpenInv, [Next]_vars
    PROVE  OpenInv' /\ open_count' \in Nat
<1>1. ASSUME NEW f \in File, Open(f) PROVE OpenInv' /\ open_count' \in Nat
  <2>1. Used' = Used \cup {f} /\ f \notin Used /\ open_count' = open_count + 1
    BY <1>1 DEF Open, TypeOK, Used
  <2> QED
    BY <2>1, UsedFacts, FS_AddElement DEF OpenInv
<1>2. ASSUME NEW f \in File, Close(f) PROVE OpenInv' /\ open_count' \in Nat
  <2>1. Used' = Used \ {f} /\ f \in Used /\ open_count' = open_count - 1
    BY <1>2 DEF Close, TypeOK, Used
  <2>2. Cardinality(Used) # 0
    BY <2>1, UsedFacts, FS_EmptySet
  <2>3. Cardinality(Used') = Cardinality(Used) - 1
    BY <2>1, UsedFacts, FS_RemoveElement
  <2> QED
    BY <2>1, <2>2, <2>3, UsedFacts DEF OpenInv
<1>3. CASE UNCHANGED <<open_count, file>>
  <2>1. Used' = Used
    BY <1>3 DEF Used
  <2> QED
    BY <1>3, <2>1 DEF OpenInv, TypeOK
<1> QED
  BY <1>1, <1>2, <1>3
  DEF Next, vars, fileVars, OpenFails, EnterMap, CreateChn, DestroyChn, StartReceivePic,
      StopReceivePic, MapBuffer, Umap

-----------------------------------------------------------------------------
\* With open_count = 0 no slot is used and no context there.
LEMMA NothingLeft ==
    ASSUME TypeOK, OpenInv, ChannelsOwned, TaskSeesReceiving, open_count = 0
    PROVE  /\ \A i \in Slot : Free(i)
           /\ \A c \in Chn : creator[c] = None
           /\ started = {}
<1>1. Used = {}
  BY UsedFacts, FS_EmptySet DEF OpenInv
<1>2. \A i \in Slot : Free(i)
  BY <1>1, VencAssumption DEF ChannelsOwned, Used, TypeOK, Free
<1>3. \A c \in Chn : creator[c] = None
  BY <1>2 DEF ChannelsOwned, Free
<1>4. started = {}
  BY <1>2 DEF TaskSeesReceiving, Free
<1> QED
  BY <1>2, <1>3, <1>4

\* The two invariants of the slots, in terms of their elements.
SlotsAgree ==
    /\ \A c \in Chn : creator[c] # None <=> \E i \in Slot : handle[i] = c
    /\ \A i, j \in Slot : i # j /\ handle[i] = handle[j] => handle[i] = None
    /\ \A i \in Slot : handle[i] # None =>
          pWhichFile[i] = creator[handle[i]] /\ file[pWhichFile[i]] = "open"

TableAgrees ==
    \A c \in Chn : c \in started <=> \E i \in Slot : handle[i] = c /\ receiving[i]

LEMMA SlotsRestated ==
    ASSUME handle \in [Slot -> Chn \cup {None}]
    PROVE  ChannelsOwned <=> SlotsAgree
<1>1. ASSUME ChannelsOwned PROVE SlotsAgree
  BY <1>1, VencAssumption DEF ChannelsOwned, SlotsAgree, Free
<1>2. ASSUME SlotsAgree PROVE ChannelsOwned
  BY <1>2, VencAssumption DEF ChannelsOwned, SlotsAgree, Free
<1> QED
  BY <1>1, <1>2

LEMMA TableRestated ==
    ASSUME handle \in [Slot -> Chn \cup {None}], started \subseteq Chn
    PROVE  TaskSeesReceiving <=> TableAgrees
<1>1. ASSUME TaskSeesReceiving PROVE TableAgrees
  BY <1>1, VencAssumption DEF TaskSeesReceiving, TableAgrees
<1>2. ASSUME TableAgrees PROVE TaskSeesReceiving
  BY <1>2, VencAssumption DEF TaskSeesReceiving, TableAgrees
<1> QED
  BY <1>1, <1>2

\* Destroying any handles keeps slots and table in agreement, if the files of the
\* slots that keep their handle stay.
LEMMA DestroyStep ==
    ASSUME TypeOK, SlotsAgree, TableAgrees, NEW H \in SUBSET (Chn \cup {None}), Destroy(H),
           \A i \in Slot : handle[i] # None /\ handle[i] \notin H =>
              pWhichFile'[i] = pWhichFile[i] /\ file'[pWhichFile[i]] = file[pWhichFile[i]]
    PROVE  SlotsAgree' /\ TableAgrees'
<1> DEFINE gone == {i \in Slot : handle[i] \in H \ {None}}
<1>1. /\ \A i \in Slot : handle'[i] = IF i \in gone THEN None ELSE handle[i]
      /\ \A i \in Slot : receiving'[i] <=> receiving[i] /\ i \notin gone
      /\ \A c \in Chn : creator'[c] = IF c \in H THEN None ELSE creator[c]
  BY DEF Destroy
<1>2. \A i \in Slot : handle[i] \in Chn \cup {None}
  BY DEF TypeOK
<1>3. \A i \in Slot : handle'[i] = IF handle[i] \in H THEN None ELSE handle[i]
  BY <1>1
<1>4. \A c \in Chn : creator'[c] # None <=> \E i \in Slot : handle'[i] = c
  BY <1>1, <1>3, VencAssumption DEF SlotsAgree
<1>5. \A i, j \in Slot : i # j /\ handle'[i] = handle'[j] => handle'[i] = None
  BY <1>3 DEF SlotsAgree
<1>6. \A i \in Slot : handle'[i] # None =>
         pWhichFile'[i] = creator'[handle'[i]] /\ file'[pWhichFile'[i]] = "open"
  BY <1>1, <1>2, <1>3 DEF SlotsAgree
<1>7. \A c \in Chn : c \in started' <=> c \in started /\ c \notin H
  <2>1. ASSUME NEW c \in Chn PROVE c \in StoppedFirst(H) <=> c \in H /\ c \in started
    BY DEF StoppedFirst, TableAgrees
  <2> QED
    BY <2>1 DEF Destroy
<1>8. TableAgrees'
  <2>1. ASSUME NEW c \in Chn
        PROVE  c \in started' <=> \E i \in Slot : handle'[i] = c /\ receiving'[i]
    <3>1. c # None
      BY VencAssumption
    <3>2. \A i \in Slot : handle'[i] = c <=> handle[i] = c /\ c \notin H
      BY <1>3, <3>1
    <3>3. \A i \in Slot : handle[i] = c /\ c \notin H => (receiving'[i] <=> receiving[i])
      BY <1>1
    <3> QED
      BY <1>7, <3>2, <3>3 DEF TableAgrees
  <2> QED
    BY <2>1 DEF TableAgrees
<1> QED
  BY <1>4, <1>5, <1>6, <1>8 DEF SlotsAgree

\* A new context goes to the slot it is found in, the first free one.
LEMMA CreateStep ==
    ASSUME TypeOK, SlotsAgree, TableAgrees, NEW f \in File, NEW c \in Chn, CreateChn(f, c)
    PROVE  SlotsAgree' /\ TableAgrees'
<1>1. PICK i \in Slot :
         /\ handle[i] = None
         /\ handle' = [handle EXCEPT ![i] = c]
         /\ receiving' = [receiving EXCEPT ![i] = FALSE]
         /\ pWhichFile' = [j \in Slot |->
               IF j = i \/ j \in FoundSlot(c) THEN f ELSE pWhichFile[j]]
  BY DEF CreateChn, Free
<1>2. c # None /\ f # None /\ creator[c] = None
  BY VencAssumption DEF CreateChn
<1>3. /\ creator' = [creator EXCEPT ![c] = f]
      /\ file' = file /\ started' = started /\ file[f] = "open"
  BY DEF CreateChn, fileVars
<1>4. \A j \in Slot : handle[j] # c
  BY <1>2 DEF SlotsAgree
<1>5. \A j \in Slot : handle'[j] = IF j = i THEN c ELSE handle[j]
  BY <1>1 DEF TypeOK
<1>6. \A j \in Slot : receiving'[j] <=> j # i /\ receiving[j]
  BY <1>1 DEF TypeOK
<1>7. \A d \in Chn : creator'[d] = IF d = c THEN f ELSE creator[d]
  BY <1>3 DEF TypeOK
<1>8. FoundSlot(c) = {i}
  BY <1>4, <1>5 DEF FoundSlot
<1>9. \A j \in Slot : pWhichFile'[j] = IF j = i THEN f ELSE pWhichFile[j]
  BY <1>1, <1>8
<1>10. \A d \in Chn : creator'[d] # None <=> \E j \in Slot : handle'[j] = d
  BY <1>1, <1>2, <1>5, <1>7, VencAssumption DEF SlotsAgree
<1>11. \A j, k \in Slot : j # k /\ handle'[j] = handle'[k] => handle'[j] = None
  BY <1>4, <1>5 DEF SlotsAgree
<1>12. \A j \in Slot : handle'[j] # None =>
          pWhichFile'[j] = creator'[handle'[j]] /\ file'[pWhichFile'[j]] = "open"
  <2>1. ASSUME NEW j \in Slot, j # i, handle[j] # None
        PROVE  pWhichFile'[j] = creator'[handle'[j]] /\ file'[pWhichFile'[j]] = "open"
    <3>1. handle[j] \in Chn /\ handle[j] # c
      BY <1>4, <2>1 DEF TypeOK
    <3> QED
      BY <1>3, <1>5, <1>7, <1>9, <2>1, <3>1 DEF SlotsAgree
  <2> QED
    BY <1>3, <1>5, <1>7, <1>9, <2>1
<1>13. TableAgrees'
  BY <1>1, <1>2, <1>3, <1>4, <1>5, <1>6, VencAssumption DEF TableAgrees
<1> QED
  BY <1>10, <1>11, <1>12, <1>13 DEF SlotsAgree

\* Starting or stopping one slot changes the table for its context alone, as no
\* other slot has it.
LEMMA ReceiveStep ==
    ASSUME TypeOK, SlotsAgree, TableAgrees, NEW f \in File, NEW i \in Slot,
           StartReceivePic(f, i) \/ StopReceivePic(f, i)
    PROVE  SlotsAgree' /\ TableAgrees'
<1>1. /\ handle' = handle /\ pWhichFile' = pWhichFile /\ creator' = creator
      /\ file' = file /\ handle[i] # None
  BY DEF StartReceivePic, StopReceivePic, fileVars, Free
<1>2. SlotsAgree'
  BY <1>1 DEF SlotsAgree
<1>3. \A j \in Slot : j # i => handle[j] # handle[i]
  BY <1>1 DEF SlotsAgree
<1>4. CASE StartReceivePic(f, i)
  <2>1. /\ \A j \in Slot : receiving'[j] <=> j = i \/ receiving[j]
        /\ started' = started \cup {handle[i]}
    BY <1>4 DEF StartReceivePic, TypeOK
  <2> QED
    BY <1>1, <1>2, <1>3, <2>1 DEF TableAgrees
<1>5. CASE StopReceivePic(f, i)
  <2>1. /\ \A j \in Slot : receiving'[j] <=> j # i /\ receiving[j]
        /\ started' = started \ {handle[i]}
    BY <1>5 DEF StopReceivePic, TypeOK
  <2> QED
    BY <1>1, <1>2, <1>3, <2>1 DEF TableAgrees
<1> QED
  BY <1>4, <1>5

-----------------------------------------------------------------------------
\* The types of what the channel calls write.
LEMMA DestroyTypes ==
    ASSUME TypeOK, NEW H, Destroy(H)
    PROVE  /\ handle' \in [Slot -> Chn \cup {None}] /\ receiving' \in [Slot -> BOOLEAN]
           /\ creator' \in [Chn -> File \cup {None}] /\ started' \subseteq Chn
BY DEF TypeOK, Destroy

LEMMA MemInitTypes ==
    ASSUME TypeOK, MemInit
    PROVE  /\ maps' \in [Map -> [fd : Fd, buf : Buffer] \cup {NoMap}]
           /\ wiped' \in [Buffer -> Nat]
           /\ mapping' \in [File -> Fd \cup {None}] /\ refs' \in [Buffer -> Int]
<1>1. \A b \in Buffer : wiped[b] + Cardinality({m \in Map : maps[m].buf = b}) \in Nat
  <2>1. \A b \in Buffer : Cardinality({m \in Map : maps[m].buf = b}) \in Nat
    BY EntriesFacts DEF Entries
  <2>2. \A b \in Buffer : wiped[b] \in Nat
    BY DEF TypeOK
  <2> QED
    BY <2>1, <2>2
<1> QED
  BY <1>1 DEF TypeOK, MemInit

\* An entry with a descriptor is of a buffer, and that one is given back.
LEMMA UmapFacts ==
    ASSUME TypeOK, NEW f \in File, NEW fd \in Fd, Umap(f, fd)
    PROVE  \E m \in Map : /\ maps[m] \in [fd : Fd, buf : Buffer]
                          /\ maps' = [maps EXCEPT ![m] = NoMap]
                          /\ refs' = [refs EXCEPT ![maps[m].buf] = @ + -1]
<1>1. PICK m \in Map : /\ maps[m].fd = fd
                       /\ Held(maps[m].buf, -1)
                       /\ maps' = [maps EXCEPT ![m] = NoMap]
  BY DEF Umap
<1>2. maps[m] # NoMap
  BY <1>1, VencAssumption DEF NoMap
<1>3. maps[m] \in [fd : Fd, buf : Buffer]
  BY <1>2 DEF TypeOK
<1> QED
  BY <1>1, <1>3 DEF Held

\* The part of the type that does not count files or power.
SlotTypes ==
    /\ handle \in [Slot -> Chn \cup {None}] /\ pWhichFile \in [Slot -> File \cup {None}]
    /\ receiving \in [Slot -> BOOLEAN]
    /\ creator \in [Chn -> File \cup {None}] /\ started \subseteq Chn

MapTypes ==
    /\ maps \in [Map -> [fd : Fd, buf : Buffer] \cup {NoMap}]
    /\ mapping \in [File -> Fd \cup {None}]
    /\ refs \in [Buffer -> Int] /\ wiped \in [Buffer -> Nat]

LEMMA SlotTypesStep ==
    ASSUME TypeOK, [Next]_vars
    PROVE  SlotTypes'
<1>1. SlotTypes
  BY DEF TypeOK, SlotTypes
<1>2. ASSUME NEW f \in File, Open(f) \/ OpenFails(f) PROVE SlotTypes'
  <2>1. handle' \in [Slot -> Chn \cup {None}] /\ started' \subseteq Chn
    BY <1>1, <1>2 DEF Open, OpenFails, ResetHandles, SlotTypes
  <2>2. UNCHANGED <<pWhichFile, receiving, creator>>
    BY <1>2 DEF Open, OpenFails
  <2> QED
    BY <1>1, <2>1, <2>2 DEF SlotTypes
<1>3. ASSUME NEW f \in File, Close(f) PROVE SlotTypes'
  <2>1. pWhichFile' \in [Slot -> File \cup {None}]
    BY <1>1, <1>3 DEF Close, SlotTypes
  <2> QED
    BY <1>3, <2>1, DestroyTypes DEF Close, SlotTypes
<1>4. ASSUME NEW f \in File, NEW c \in Chn, CreateChn(f, c) PROVE SlotTypes'
  BY <1>1, <1>4 DEF CreateChn, SlotTypes
<1>5. ASSUME NEW f \in File, NEW c \in Chn, DestroyChn(f, c) PROVE SlotTypes'
  BY <1>1, <1>5, DestroyTypes DEF DestroyChn, SlotTypes
<1>6. ASSUME NEW f \in File, NEW i \in Slot, StartReceivePic(f, i) \/ StopReceivePic(f, i)
      PROVE  SlotTypes'
  BY <1>1, <1>6, VencAssumption DEF StartReceivePic, StopReceivePic, SlotTypes, Free
<1>7. CASE UNCHANGED chnVars
  BY <1>1, <1>7 DEF chnVars, SlotTypes
<1> QED
  BY <1>2, <1>3, <1>4, <1>5, <1>6, <1>7 DEF Next, vars, EnterMap, MapBuffer, Umap

LEMMA MapTypesStep ==
    ASSUME TypeOK, [Next]_vars
    PROVE  MapTypes'
<1>1. MapTypes
  BY DEF TypeOK, MapTypes
<1>2. CASE UNCHANGED mapVars
  BY <1>1, <1>2 DEF mapVars, MapTypes
<1>3. CASE MemInit
  BY <1>3, MemInitTypes DEF MapTypes
<1>4. ASSUME NEW f \in File, NEW fd \in Fd, MapBuffer(f, fd) PROVE MapTypes'
  <2>1. <<f, fd>> \in Buffer
    BY DEF Buffer
  <2> QED
    BY <1>1, <1>4, <2>1 DEF MapBuffer, Held, MapTypes
<1>5. ASSUME NEW f \in File, EnterMap(f) PROVE MapTypes'
  <2>1. mapping[f] \in Fd /\ <<f, mapping[f]>> \in Buffer
    BY <1>1, <1>5 DEF EnterMap, MapTypes, Buffer
  <2>2. mapping' \in [File -> Fd \cup {None}] /\ wiped' = wiped
    BY <1>1, <1>5 DEF EnterMap, MapTypes
  <2>3. maps' \in [Map -> [fd : Fd, buf : Buffer] \cup {NoMap}]
    BY <1>1, <1>5, <2>1 DEF EnterMap, MapTypes
  <2>4. refs' \in [Buffer -> Int]
    BY <1>1, <1>5, <2>1 DEF EnterMap, MapTypes, Undo, Held
  <2> QED
    BY <1>1, <2>2, <2>3, <2>4 DEF MapTypes
<1>6. ASSUME NEW f \in File, NEW fd \in Fd, Umap(f, fd) PROVE MapTypes'
  <2>1. PICK m \in Map : /\ maps[m] \in [fd : Fd, buf : Buffer]
                         /\ maps' = [maps EXCEPT ![m] = NoMap]
                         /\ refs' = [refs EXCEPT ![maps[m].buf] = @ + -1]
    BY <1>6, UmapFacts
  <2>2. mapping' = mapping /\ wiped' = wiped
    BY <1>6 DEF Umap
  <2>3. maps' \in [Map -> [fd : Fd, buf : Buffer] \cup {NoMap}]
    BY <1>1, <2>1 DEF MapTypes
  <2>4. refs' \in [Buffer -> Int]
    BY <1>1, <2>1 DEF MapTypes
  <2> QED
    BY <1>1, <2>2, <2>3, <2>4 DEF MapTypes
<1> QED
  BY <1>2, <1>3, <1>4, <1>5, <1>6
  DEF Next, vars, Open, OpenFails, Close, CreateChn, DestroyChn, StartReceivePic,
      StopReceivePic

LEMMA TypeStep ==
    ASSUME TypeOK, OpenInv, PowerBalanced, [Next]_vars
    PROVE  TypeOK'
<1>1. open_count' \in Nat /\ power' \in PowerRecord
  BY OpenStep, PowerStep
<1>2. file' \in [File -> {"closed", "open"}]
  <2>1. file \in [File -> {"closed", "open"}]
    BY DEF TypeOK
  <2>2. \/ file' = file
        \/ \E f \in File : file' = [file EXCEPT ![f] = "open"]
                           \/ file' = [file EXCEPT ![f] = "closed"]
    BY DEF Next, vars, fileVars, Open, OpenFails, Close, EnterMap, CreateChn,
           DestroyChn, StartReceivePic, StopReceivePic, MapBuffer, Umap
  <2> QED
    BY <2>1, <2>2
<1> QED
  BY <1>1, <1>2, SlotTypesStep, MapTypesStep DEF TypeOK, SlotTypes, MapTypes, PowerRecord

-----------------------------------------------------------------------------
LEMMA SlotsStep ==
    ASSUME Inv, [Next]_vars
    PROVE  ChannelsOwned' /\ TaskSeesReceiving'
<1>1. TypeOK /\ SlotTypes'
  BY SlotTypesStep DEF Inv
<1>2. SlotsAgree /\ TableAgrees
  BY <1>1, SlotsRestated, TableRestated DEF Inv, TypeOK
<1> SUFFICES SlotsAgree' /\ TableAgrees'
  <2>1. ChannelsOwned' <=> SlotsAgree'
    BY <1>1, SlotsRestated, PTL DEF SlotTypes
  <2>2. TaskSeesReceiving' <=> TableAgrees'
    BY <1>1, TableRestated, PTL DEF SlotTypes
  <2> QED
    BY <2>1, <2>2
<1>3. ASSUME open_count = 0, ResetHandles, started' = {} \/ started' = started,
             creator' = creator
      PROVE  SlotsAgree' /\ TableAgrees'
  <2>1. /\ \A c \in Chn : creator[c] = None
        /\ started = {}
    BY <1>3, NothingLeft DEF Inv
  <2>2. \A i \in Slot : handle'[i] = None
    BY <1>3 DEF ResetHandles
  <2> QED
    BY <1>3, <2>1, <2>2, VencAssumption DEF SlotsAgree, TableAgrees
<1>4. ASSUME NEW f \in File, Open(f) PROVE SlotsAgree' /\ TableAgrees'
  <2>1. CASE open_count = 0
    BY <1>3, <1>4, <2>1 DEF Open
  <2>2. CASE open_count > 0
    <3>1. /\ handle' = handle /\ started' = started /\ pWhichFile' = pWhichFile
          /\ receiving' = receiving /\ creator' = creator
      BY <1>4, <2>2 DEF Open
    <3>2. \A g \in File : file[g] = "open" => file'[g] = "open"
      BY <1>1, <1>4 DEF Open, TypeOK
    <3>3. TableAgrees'
      BY <1>2, <3>1 DEF TableAgrees
    <3>4. \A i \in Slot : handle[i] # None => pWhichFile[i] \in File
      <4>1. \A i \in Slot : handle[i] # None =>
               handle[i] \in Chn /\ creator[handle[i]] # None
        BY <1>1, <1>2 DEF SlotsAgree, TypeOK
      <4> QED
        BY <1>1, <1>2, <4>1 DEF SlotsAgree, TypeOK
    <3> QED
      BY <1>2, <3>1, <3>2, <3>3, <3>4 DEF SlotsAgree
  <2> QED
    BY <1>1, <1>4, <2>1, <2>2 DEF Open
<1>5. ASSUME NEW f \in File, OpenFails(f) PROVE SlotsAgree' /\ TableAgrees'
  BY <1>3, <1>5 DEF OpenFails
<1>6. ASSUME NEW f \in File, Close(f) PROVE SlotsAgree' /\ TableAgrees'
  <2> DEFINE H == {handle[i] : i \in Owned(f)}
  <2>1. H \in SUBSET (Chn \cup {None}) /\ Destroy(H)
    BY <1>1, <1>6 DEF Close, Owned, TypeOK
  <2>2. ASSUME NEW i \in Slot, handle[i] # None, handle[i] \notin H
        PROVE  pWhichFile'[i] = pWhichFile[i] /\ file'[pWhichFile[i]] = file[pWhichFile[i]]
    <3>1. i \notin Owned(f)
      BY <2>2
    <3>2. pWhichFile[i] # f
      BY <3>1 DEF Owned
    <3> QED
      BY <1>1, <1>6, <3>1, <3>2 DEF Close, TypeOK
  <2> QED
    BY <1>1, <1>2, <2>1, <2>2, DestroyStep
<1>7. ASSUME NEW f \in File, NEW c \in Chn, DestroyChn(f, c)
      PROVE  SlotsAgree' /\ TableAgrees'
  <2>1. {c} \in SUBSET (Chn \cup {None}) /\ Destroy({c})
    BY <1>7 DEF DestroyChn
  <2>2. pWhichFile' = pWhichFile /\ file' = file
    BY <1>7 DEF DestroyChn, fileVars
  <2> QED
    BY <1>1, <1>2, <2>1, <2>2, DestroyStep
<1>8. ASSUME NEW f \in File, NEW c \in Chn, CreateChn(f, c)
      PROVE  SlotsAgree' /\ TableAgrees'
  BY <1>1, <1>2, <1>8, CreateStep
<1>9. ASSUME NEW f \in File, NEW i \in Slot, StartReceivePic(f, i) \/ StopReceivePic(f, i)
      PROVE  SlotsAgree' /\ TableAgrees'
  BY <1>1, <1>2, <1>9, ReceiveStep
<1>10. CASE UNCHANGED <<file, chnVars>>
  BY <1>2, <1>10 DEF chnVars, SlotsAgree, TableAgrees
<1> QED
  BY <1>4, <1>5, <1>6, <1>7, <1>8, <1>9, <1>10
  DEF Next, vars, fileVars, EnterMap, MapBuffer, Umap

-----------------------------------------------------------------------------
\* The reference of a MAP under way.
Under(b) == IF mapping[b[1]] = b[2] THEN 1 ELSE 0

\* A step that changes no entry and no reference.
LEMMA SameReferences ==
    ASSUME ReferencesHeld, UNCHANGED mapVars
    PROVE  ReferencesHeld'
BY DEF mapVars, ReferencesHeld

LEMMA MemInitStep ==
    ASSUME TypeOK, ReferencesHeld, MemInit
    PROVE  ReferencesHeld'
<1>1. ASSUME NEW b \in Buffer
      PROVE  refs'[b] = Cardinality({m \in Map : maps'[m].buf = b}) + Under(b)' + wiped'[b]
  <2>1. /\ refs[b] = Cardinality({m \in Map : maps[m].buf = b}) + Under(b) + wiped[b]
        /\ refs' = refs /\ Under(b)' = Under(b)
        /\ wiped'[b] = wiped[b] + Cardinality({m \in Map : maps[m].buf = b})
    BY DEF MemInit, ReferencesHeld, Under
  <2>2. {m \in Map : maps'[m].buf = b} = {}
    BY VencAssumption DEF MemInit, NoMap, Buffer
  <2>3. Cardinality({m \in Map : maps[m].buf = b}) \in Nat /\ wiped[b] \in Nat
    <3>1. {m \in Map : maps[m].buf = b} = Entries(b)
      BY DEF Entries
    <3>2. Cardinality(Entries(b)) \in Nat
      BY EntriesFacts
    <3>3. wiped[b] \in Nat
      BY DEF TypeOK
    <3> QED
      BY <3>1, <3>2, <3>3
  <2>4. Under(b) \in Nat
    BY DEF Under
  <2>5. Cardinality({m \in Map : maps'[m].buf = b}) = 0
    BY <2>2, FS_EmptySet
  <2> QED
    BY <2>1, <2>3, <2>4, <2>5
<1> QED
  BY <1>1 DEF ReferencesHeld, Under

\* Getting the buffer and the mark of a MAP go together.
LEMMA MapBufferStep ==
    ASSUME TypeOK, ReferencesHeld, NEW f \in File, NEW fd \in Fd, MapBuffer(f, fd)
    PROVE  ReferencesHeld'
<1>1. ASSUME NEW b \in Buffer
      PROVE  refs'[b] = Cardinality({m \in Map : maps'[m].buf = b}) + Under(b)' + wiped'[b]
  <2>1. PICK g \in File, gd \in Fd : b = <<g, gd>>
    BY DEF Buffer
  <2>2. /\ maps' = maps /\ wiped' = wiped /\ mapping[f] = None
        /\ mapping' = [mapping EXCEPT ![f] = fd]
        /\ refs' = [refs EXCEPT ![<<f, fd>>] = @ + 1]
    BY DEF MapBuffer, Held
  <2>3. refs[b] = Cardinality({m \in Map : maps[m].buf = b}) + Under(b) + wiped[b]
    BY DEF ReferencesHeld, Under
  <2>4. Cardinality({m \in Map : maps[m].buf = b}) \in Nat /\ wiped[b] \in Nat
        /\ refs[b] \in Int
    <3>1. {m \in Map : maps[m].buf = b} = Entries(b)
      BY DEF Entries
    <3>2. Cardinality(Entries(b)) \in Nat
      BY EntriesFacts
    <3>3. wiped[b] \in Nat /\ refs[b] \in Int
      BY DEF TypeOK
    <3> QED
      BY <3>1, <3>2, <3>3
  <2>5. CASE b = <<f, fd>>
    <3>1. Under(b) = 0 /\ Under(b)' = 1
      BY <2>1, <2>2, <2>5, VencAssumption DEF Under, TypeOK
    <3>2. refs'[b] = refs[b] + 1
      BY <2>2, <2>5 DEF TypeOK
    <3> QED
      BY <2>2, <2>3, <2>4, <3>1, <3>2
  <2>6. CASE b # <<f, fd>>
    <3>1. Under(b)' = Under(b)
      BY <2>1, <2>2, <2>6, VencAssumption DEF Under, TypeOK
    <3>2. refs'[b] = refs[b]
      BY <2>2, <2>6 DEF TypeOK
    <3> QED
      BY <2>2, <2>3, <3>1, <3>2
  <2> QED
    BY <2>5, <2>6
<1> QED
  BY <1>1 DEF ReferencesHeld, Under

\* The mark becomes an entry, or is given up with its reference.
LEMMA EnterMapStep ==
    ASSUME TypeOK, ReferencesHeld, NEW f \in File, EnterMap(f)
    PROVE  ReferencesHeld'
<1> DEFINE e == <<f, mapping[f]>>
<1>1. /\ mapping[f] \in Fd /\ e \in Buffer /\ wiped' = wiped
      /\ mapping' = [mapping EXCEPT ![f] = None]
  BY DEF EnterMap, TypeOK, Buffer
<1>2. ASSUME NEW b \in Buffer
      PROVE  refs'[b] = Cardinality({m \in Map : maps'[m].buf = b}) + Under(b)' + wiped'[b]
  <2>1. PICK g \in File, gd \in Fd : b = <<g, gd>>
    BY DEF Buffer
  <2>2. refs[b] = Cardinality(Entries(b)) + Under(b) + wiped[b]
    BY DEF ReferencesHeld, Under, Entries
  <2>3. IsFiniteSet(Entries(b)) /\ Cardinality(Entries(b)) \in Nat /\ wiped[b] \in Nat
        /\ refs[b] \in Int
    BY EntriesFacts DEF TypeOK
  <2>4. b = e => Under(b) = 1 /\ Under(b)' = 0
    BY <1>1, <2>1, VencAssumption DEF Under, TypeOK
  <2>5. b # e => Under(b)' = Under(b)
    BY <1>1, <2>1, VencAssumption DEF Under, TypeOK
  <2>6. CASE \E m \in Map : /\ maps[m] = NoMap
                            /\ maps' = [maps EXCEPT ![m] = [fd |-> mapping[f], buf |-> e]]
                            /\ refs' = refs
    <3>1. PICK m \in Map : /\ maps[m] = NoMap
                           /\ maps' = [maps EXCEPT ![m] = [fd |-> mapping[f], buf |-> e]]
                           /\ refs' = refs
      BY <2>6
    <3>2. \A n \in Map : maps'[n] = IF n = m THEN [fd |-> mapping[f], buf |-> e] ELSE maps[n]
      BY <3>1 DEF TypeOK
    <3>3. m \notin Entries(b)
      BY <3>1, VencAssumption DEF Entries, NoMap, Buffer
    <3>4. CASE b = e
      <4>1. {n \in Map : maps'[n].buf = b} = Entries(b) \cup {m}
        BY <3>2, <3>4 DEF Entries
      <4>2. Cardinality(Entries(b) \cup {m}) = Cardinality(Entries(b)) + 1
        BY <2>3, <3>3, FS_AddElement
      <4>3. Cardinality({n \in Map : maps'[n].buf = b}) = Cardinality(Entries(b)) + 1
        BY <4>1, <4>2
      <4>4. refs'[b] = refs[b] /\ wiped'[b] = wiped[b]
        BY <1>1, <3>1
      <4> QED
        BY <2>2, <2>3, <2>4, <3>4, <4>3, <4>4
    <3>5. CASE b # e
      <4>1. {n \in Map : maps'[n].buf = b} = Entries(b)
        BY <3>2, <3>3, <3>5 DEF Entries
      <4> QED
        BY <1>1, <2>2, <2>5, <3>1, <3>5, <4>1
    <3> QED
      BY <3>4, <3>5
  <2>7. CASE maps' = maps /\ Undo(e)
    <3>1. {n \in Map : maps'[n].buf = b} = Entries(b)
      BY <2>7 DEF Entries
    <3>2. refs'[b] = IF b = e THEN refs[b] - 1 ELSE refs[b]
      BY <2>3, <2>7 DEF Undo, Held, TypeOK
    <3>3. /\ Cardinality({n \in Map : maps'[n].buf = b}) = Cardinality(Entries(b))
          /\ wiped'[b] = wiped[b]
      BY <1>1, <3>1
    <3>4. Under(b) \in Nat
      BY DEF Under
    <3> QED
      BY <2>2, <2>3, <2>4, <2>5, <3>2, <3>3, <3>4
  <2> QED
    BY <2>6, <2>7 DEF EnterMap
<1> QED
  BY <1>2 DEF ReferencesHeld, Under

\* An entry goes with one reference to its buffer, whoever asked.
LEMMA UmapStep ==
    ASSUME TypeOK, ReferencesHeld, NEW f \in File, NEW fd \in Fd, Umap(f, fd)
    PROVE  ReferencesHeld'
<1>1. PICK m \in Map : /\ maps[m] \in [fd : Fd, buf : Buffer]
                       /\ maps' = [maps EXCEPT ![m] = NoMap]
                       /\ refs' = [refs EXCEPT ![maps[m].buf] = @ + -1]
  BY UmapFacts
<1>2. mapping' = mapping /\ wiped' = wiped
  BY DEF Umap
<1>3. \A n \in Map : maps'[n] = IF n = m THEN NoMap ELSE maps[n]
  BY <1>1 DEF TypeOK
<1>4. ASSUME NEW b \in Buffer
      PROVE  refs'[b] = Cardinality({n \in Map : maps'[n].buf = b}) + Under(b)' + wiped'[b]
  <2>1. refs[b] = Cardinality(Entries(b)) + Under(b) + wiped[b] /\ Under(b)' = Under(b)
    BY <1>2 DEF ReferencesHeld, Under, Entries
  <2>2. IsFiniteSet(Entries(b)) /\ Cardinality(Entries(b)) \in Nat /\ wiped[b] \in Nat
        /\ refs[b] \in Int /\ Under(b) \in Nat
    BY EntriesFacts DEF TypeOK, Under
  <2>3. {n \in Map : maps'[n].buf = b} = Entries(b) \ {m}
    BY <1>3, VencAssumption DEF Entries, NoMap, Buffer
  <2>4. CASE maps[m].buf = b
    <3>1. m \in Entries(b)
      BY <2>4 DEF Entries
    <3>2. Cardinality(Entries(b) \ {m}) = Cardinality(Entries(b)) - 1
      BY <2>2, <3>1, FS_RemoveElement
    <3>3. refs'[b] = refs[b] - 1
      BY <1>1, <2>2, <2>4 DEF TypeOK
    <3>4. /\ Cardinality({n \in Map : maps'[n].buf = b}) = Cardinality(Entries(b)) - 1
          /\ wiped'[b] = wiped[b]
      BY <1>2, <2>3, <3>2
    <3> QED
      BY <2>1, <2>2, <3>3, <3>4
  <2>5. CASE maps[m].buf # b
    <3>1. Entries(b) \ {m} = Entries(b)
      BY <2>5 DEF Entries
    <3>2. refs'[b] = refs[b]
      BY <1>1, <2>5 DEF TypeOK
    <3> QED
      BY <1>2, <2>1, <2>3, <3>1, <3>2
  <2> QED
    BY <2>4, <2>5
<1> QED
  BY <1>4 DEF ReferencesHeld, Under

LEMMA ReferencesStep ==
    ASSUME TypeOK, ReferencesHeld, [Next]_vars
    PROVE  ReferencesHeld'
<1>1. CASE UNCHANGED mapVars
  BY <1>1, SameReferences
<1>2. CASE MemInit
  BY <1>2, MemInitStep
<1>3. CASE \E f \in File : EnterMap(f) \/ \E fd \in Fd : MapBuffer(f, fd) \/ Umap(f, fd)
  BY <1>3, EnterMapStep, MapBufferStep, UmapStep
<1> QED
  BY <1>1, <1>2, <1>3
  DEF Next, vars, Open, OpenFails, Close, CreateChn, DestroyChn, StartReceivePic,
      StopReceivePic

-----------------------------------------------------------------------------
LEMMA InitInv == Init => Inv
<1> SUFFICES ASSUME Init PROVE Inv
  OBVIOUS
<1>1. TypeOK
  BY DEF Init, TypeOK
<1>2. OpenInv
  <2>1. Used = {}
    BY DEF Init, Used
  <2> QED
    BY <2>1, FS_EmptySet DEF Init, OpenInv
<1>3. PowerBalanced
  BY DEF Init, PowerBalanced
<1>4. ChannelsOwned /\ TaskSeesReceiving
  BY VencAssumption DEF Init, ChannelsOwned, TaskSeesReceiving, Free
<1>5. ReferencesHeld
  <2>1. ASSUME NEW b \in Buffer
        PROVE  refs[b] = Cardinality({m \in Map : maps[m].buf = b}) + Under(b) + wiped[b]
    <3>1. {m \in Map : maps[m].buf = b} = {}
      BY VencAssumption DEF Init, NoMap, Buffer
    <3>2. Under(b) = 0
      BY VencAssumption DEF Init, Under, Buffer
    <3>3. refs[b] = 0 /\ wiped[b] = 0
      BY DEF Init
    <3> QED
      BY <3>1, <3>2, <3>3, FS_EmptySet
  <2> QED
    BY <2>1 DEF ReferencesHeld, Under
<1> QED
  BY <1>1, <1>2, <1>3, <1>4, <1>5 DEF Inv

LEMMA Inductive == Inv /\ [Next]_vars => Inv'
BY TypeStep, OpenStep, PowerStep, SlotsStep, ReferencesStep DEF Inv

LEMMA InvHolds == Spec => []Inv
BY InitInv, Inductive, PTL DEF Spec

\* The state has its type.
THEOREM TypeCorrect == Spec => []TypeOK
<1>1. Inv => TypeOK
  BY DEF Inv
<1> QED
  BY <1>1, InvHolds, PTL

\* Every context is in one slot, by which the close of its creator, and of no
\* other file, destroys it.
THEOREM ContextsHaveOwner == Spec => []ChannelsOwned
<1>1. Inv => ChannelsOwned
  BY DEF Inv
<1> QED
  BY <1>1, InvHolds, PTL

\* The encoder's task has in its table only contexts that are there and receive.
THEOREM TaskSeesNoOther == Spec => []TaskSeesReceiving
<1>1. Inv => TaskSeesReceiving
  BY DEF Inv
<1> QED
  BY <1>1, InvHolds, PTL

\* Clock and regulator are on once while a file is open, but for the failures
\* that were ignored.
THEOREM PowerIsBalanced == Spec => []PowerBalanced
<1>1. Inv => PowerBalanced
  BY DEF Inv
<1> QED
  BY <1>1, InvHolds, PTL

\* The references to a buffer are those of its entries, of a MAP under way, and
\* of entries that were cleared.
THEOREM ReferencesCounted == Spec => []ReferencesHeld
<1>1. Inv => ReferencesHeld
  BY DEF Inv
<1> QED
  BY <1>1, InvHolds, PTL

=============================================================================
