-------------------------- MODULE OmxDeviceProofs ---------------------------
(***************************************************************************)
(* Proofs about OmxDevice, for any finite sets of files and channels: the  *)
(* firmware is counted for exactly its users, it has power, callbacks find *)
(* their owner, and a close walks the list to its end and leaves nothing.  *)
(***************************************************************************)
EXTENDS OmxDevice, FiniteSetTheorems, TLAPS

Used == {f \in File : file[f] # "closed"}
Created == {c \in Chan : step[c] # "new"}
Live(c) == step[c] \notin {"new", "freed"}
Listed == {"listed", "firmware", "decoder", "undo", "unused", "unlist", "idle",
           "working", "stopped"}
Releasing == {"stopped", "unlisted", "destroyed", "invalid"}

\* open_count is exact.
OpenInv == open_count = Cardinality(Used)

\* omxvdec_mutex: one close at a time.
MutexInv ==
    /\ \A f \in File : file[f] = "closing" <=> Walking(f)
    /\ \A f, g \in File : Walking(f) /\ Walking(g) => f = g

\* The list, and its order.
ListInv == \A c \in Chan : c \in chan_list <=> step[c] \in Listed
PlaceInv ==
    /\ \A c \in Created : place[c] <= Cardinality(Created)
    /\ \A c, d \in Created : c # d => place[c] # place[d]

\* A live channel belongs to a file that is not closed; an ioctl that has begun
\* keeps it open.
OwnerInv ==
    /\ \A c \in Chan : step[c] # "new" => file_dec[c] \in File
    /\ \A c \in Chan : Live(c) => file[file_dec[c]] # "closed"
    /\ \A c \in Chan : Live(c) /\ ~Ready(c) /\ step[c] \notin Releasing =>
                          file[file_dec[c]] = "open"

\* A close has every live channel of its file at hand or ahead of it.
Ahead(f, c) == walk[f].next # None /\ place[walk[f].next] <= place[c]

WalkInv ==
    \A f \in File :
        /\ walk[f].at = "look" => \A c \in Chan : Live(c) /\ file_dec[c] = f =>
              Ready(c) /\ walk[f].pchan # None /\ (c = walk[f].pchan \/ Ahead(f, c))
        /\ walk[f].at = "release" =>
              /\ walk[f].pchan # None
              /\ file_dec[walk[f].pchan] = f
              /\ step[walk[f].pchan] \in Releasing \cup {"freed"}
              /\ \A c \in Chan : Live(c) /\ file_dec[c] = f =>
                    c = walk[f].pchan \/ (Ready(c) /\ Ahead(f, c))

\* The saved channel stays on the list unless it is another file's.
NextInv ==
    \A f \in File : Walking(f) /\ walk[f].next # None =>
        /\ step[walk[f].next] # "new"
        /\ walk[f].pchan # None
        /\ step[walk[f].pchan] # "new"
        /\ place[walk[f].pchan] < place[walk[f].next]
        /\ file_dec[walk[f].next] = f => walk[f].next \in chan_list /\ walk[f].at # "lost"
        /\ file_dec[walk[f].next] # f => file[file_dec[walk[f].next]] = "open"

\* Clock and regulator never part.
PowerInv == power \in {AllOff, AllOn}

\* No two listed channels, and no two decoders, have the same identifier.
IdInv ==
    /\ \A c, d \in chan_list : c # d => channel_id[c] # channel_id[d]
    /\ \A c, d \in Chan :
          c # d /\ HasDecoder(c) /\ HasDecoder(d) => decoder_id[c] # decoder_id[d]

Inv == /\ TypeOK /\ OpenInv /\ MutexInv /\ ListInv /\ PlaceInv /\ OwnerInv
       /\ WalkInv /\ NextInv /\ IdInv /\ PowerInv /\ FirmwareCounted /\ FirmwareHasPower

WalkRecord == [at : {"none", "look", "release", "lost"},
               pchan : Chan \cup {None}, next : Chan \cup {None}]

-----------------------------------------------------------------------------
(* Clock and regulator go on and off together.                             *)

LEMMA PowerFacts ==
    /\ SwitchedOn(AllOff) = AllOn /\ SwitchedOn(AllOn) = AllOn
    /\ LeftOff(AllOff) = {AllOff} /\ LeftOff(AllOn) = {}
    /\ Disabling(AllOff) = {AllOff} /\ Disabling(AllOn) = {AllOff, AllOn}
    /\ AllOn.on /\ ~AllOff.on
<1> USE DEF AllOff, AllOn
<1>1. SwitchedOn(AllOff) = AllOn /\ SwitchedOn(AllOn) = AllOn
    BY DEF SwitchedOn
<1>2. LeftOff(AllOff) = {AllOff} /\ LeftOff(AllOn) = {}
  <2>1. [AllOff EXCEPT !.clk = @ + ClockLeft(1)] = AllOff
    BY DEF ClockLeft
  <2>2. \A n \in 1 .. 3 : [AllOff EXCEPT !.clk = @ + ClockLeft(n)] = AllOff
    BY <2>1 DEF ClockLeft
  <2>3. 1 \in 1 .. 3
    OBVIOUS
  <2> QED
    BY <2>2, <2>3 DEF LeftOff
<1>3. Disabling(AllOff) = {AllOff} /\ Disabling(AllOn) = {AllOff, AllOn}
  <2>1. 1 - 1 = 0
    OBVIOUS
  <2> QED
    BY <2>1 DEF Disabling
<1> QED
    BY <1>1, <1>2, <1>3

LEMMA CreatedFacts ==
    /\ IsFiniteSet(Created) /\ Cardinality(Created) \in Nat
    /\ IsFiniteSet(Used) /\ Cardinality(Used) \in Nat
<1>1. Created \in SUBSET Chan /\ Used \in SUBSET File
  BY DEF Created, Used
<1> QED
  BY <1>1, FS_Subset, FS_CardinalityType, DeviceAssumption

LEMMA WorldType == \A c \in Chan : WorldOf(c) \in World
BY DEF WorldOf, World

-----------------------------------------------------------------------------
(* What a step of a close makes of the walk.                               *)

LEMMA Looks ==
    ASSUME TypeOK, NEW f \in File, NEW c \in Chan \cup {None}, LookAt(f, c)
    PROVE  /\ walk' \in [File -> WalkRecord]
           /\ \A g \in File : g # f => walk'[g] = walk[g]
           /\ walk'[f].at = "look" /\ walk'[f].pchan = c
           /\ c = None => walk'[f].next = None
           /\ c # None /\ walk'[f].next = None =>
                 \A d \in chan_list : ~(place[d] > place[c])
           /\ c # None /\ walk'[f].next # None =>
                 /\ walk'[f].next \in chan_list
                 /\ place[walk'[f].next] > place[c]
                 /\ \A d \in chan_list :
                       place[d] > place[c] => place[walk'[f].next] <= place[d]
<1>1. walk \in [File -> WalkRecord]
  BY DEF TypeOK, WalkRecord
<1>2. PICK n \in Chan \cup {None} :
         /\ IF c = None THEN n = None ELSE Leads(Behind(c), n)
         /\ walk' = [walk EXCEPT ![f] = [at |-> "look", pchan |-> c, next |-> n]]
  BY DEF LookAt, Set
<1>3. [at |-> "look", pchan |-> c, next |-> n] \in WalkRecord
  BY DEF WalkRecord
<1>4. /\ walk' \in [File -> WalkRecord]
      /\ \A g \in File : g # f => walk'[g] = walk[g]
      /\ walk'[f].at = "look" /\ walk'[f].pchan = c /\ walk'[f].next = n
  BY <1>1, <1>2, <1>3
<1>5. chan_list \subseteq Chan
  BY DEF TypeOK
<1>6. None \notin Chan
  BY DeviceAssumption
<1> QED
  BY <1>2, <1>4, <1>5, <1>6 DEF Leads, FirstOf, Behind

LEMMA GoesOn ==
    ASSUME TypeOK, NEW f \in File, GoOn(f)
    PROVE  /\ walk' \in [File -> WalkRecord]
           /\ \A g \in File : g # f => walk'[g] = walk[g]
           /\ \/ /\ walk[f].next = None \/ walk[f].next \in chan_list
                 /\ LookAt(f, walk[f].next)
              \/ /\ walk[f].next # None /\ walk[f].next \notin chan_list
                 /\ walk'[f].at = "lost"
                 /\ walk'[f].pchan = walk[f].pchan /\ walk'[f].next = walk[f].next
<1>1. walk \in [File -> WalkRecord]
  BY DEF TypeOK, WalkRecord
<1>2. walk[f].next \in Chan \cup {None}
  BY <1>1 DEF WalkRecord
<1>3. CASE LookAt(f, walk[f].next) /\ (walk[f].next = None \/ walk[f].next \in chan_list)
  BY <1>2, <1>3, Looks
<1>4. CASE /\ walk[f].next # None /\ walk[f].next \notin chan_list
           /\ walk' = [walk EXCEPT ![f] = [walk[f] EXCEPT !.at = "lost"]]
  <2>1. [walk[f] EXCEPT !.at = "lost"] \in WalkRecord
    BY <1>1 DEF WalkRecord
  <2> QED
    BY <1>1, <1>4, <2>1 DEF WalkRecord
<1> QED
  BY <1>3, <1>4 DEF GoOn, Set

LEMMA Marks ==
    ASSUME TypeOK, NEW f \in File, ReleaseMine(f)
    PROVE  /\ walk' \in [File -> WalkRecord]
           /\ \A g \in File : g # f => walk'[g] = walk[g]
           /\ walk'[f].at = "release"
           /\ walk'[f].pchan = walk[f].pchan /\ walk'[f].next = walk[f].next
           /\ walk[f].pchan \in Chan
<1>1. walk \in [File -> WalkRecord]
  BY DEF TypeOK, WalkRecord
<1>2. walk' = [walk EXCEPT ![f] = [walk[f] EXCEPT !.at = "release"]]
  BY DEF ReleaseMine, Set
<1>3. [walk[f] EXCEPT !.at = "release"] \in WalkRecord
  BY <1>1 DEF WalkRecord
<1>4. walk[f].pchan # None
  BY DEF ReleaseMine
<1> QED
  BY <1>1, <1>2, <1>3, <1>4 DEF WalkRecord

LEMMA Begins ==
    ASSUME TypeOK, NEW f \in File, BeginClose(f)
    PROVE  \E c \in Chan \cup {None} : Leads(chan_list, c) /\ LookAt(f, c)
BY DEF BeginClose

-----------------------------------------------------------------------------
(* What the steps of one channel do to it, and that they do no more.       *)

Creating == {"listed", "firmware", "decoder", "undo", "unused", "unlist"}
Using(c) == StartOrStop(c) \/ Release(c)

OnlyStep(c) == /\ \A d \in Chan : d # c => step'[d] = step[d]
               /\ UNCHANGED <<open_count, file, walk, place, file_dec>>

LEMMA CreationFacts ==
    ASSUME TypeOK, NEW c \in Chan, Creation(c)
    PROVE  /\ OnlyStep(c) /\ step[c] \in Creating
           /\ \/ step'[c] \in Creating \cup {"idle"} /\ chan_list' = chan_list
              \/ step'[c] = "freed" /\ chan_list' = chan_list \ {c}
BY DEF Creation, CreateFirmware, CreateDecoder, CreateRest, UndoDecoder,
   UndoFirmware, UndoRecord, Step, Set, OnlyStep, Creating, TypeOK, deviceVars,
   listVars

LEMMA UsingFacts ==
    ASSUME TypeOK, NEW c \in Chan, Using(c)
    PROVE  /\ OnlyStep(c) /\ chan_list' = chan_list
           /\ Ready(c) /\ walk[file_dec[c]].at = "none"
           /\ step'[c] \in {"idle", "working", "stopped"}
BY DEF Using, StartOrStop, Release, Stop, Ready, Step, Set, OnlyStep, TypeOK,
   deviceVars, listVars

LEMMA ReleaseFacts ==
    ASSUME TypeOK, NEW c \in Chan, ReleaseStep(c)
    PROVE  /\ OnlyStep(c) /\ step[c] \in Releasing
           /\ step'[c] \in {"unlisted", "destroyed", "invalid", "freed"}
           /\ \/ step[c] = "stopped" /\ chan_list' = chan_list \ {c}
              \/ step[c] # "stopped" /\ chan_list' = chan_list
BY DEF ReleaseStep, Unlist, DestroyDecoder, ExitFirmware, Free, Step, Set, OnlyStep,
   Releasing, TypeOK, deviceVars, listVars

-----------------------------------------------------------------------------
(* Every action keeps each part of the invariant.                          *)

LEMMA PowerStep ==
    ASSUME PowerInv, [Next]_vars
    PROVE  PowerInv'
<1> USE DeviceAssumption, PowerFacts DEF PowerInv
<1>1. ASSUME NEW f \in File, Open(f) PROVE PowerInv'
  BY <1>1 DEF Open
<1>2. ASSUME NEW f \in File, OpenFails(f) PROVE PowerInv'
  BY <1>2 DEF OpenFails
<1>3. ASSUME NEW f \in File, EndClose(f) PROVE PowerInv'
  BY <1>3 DEF EndClose
<1>4. ASSUME NEW c \in Chan, CreateFirmware(c) PROVE PowerInv'
  BY <1>4 DEF CreateFirmware
<1>5. CASE Suspend
  BY <1>5 DEF Suspend
<1>6. CASE Resume
  BY <1>6 DEF Resume
<1>7. CASE UNCHANGED power
  BY <1>7
<1> QED
  BY <1>1, <1>2, <1>3, <1>4, <1>5, <1>6, <1>7
  DEF Next, Creation, ReleaseStep, Close, vars, deviceVars, listVars, firmwareVars,
      powerVars, BeginClose, Pass, ReleaseMine, Released, Create, CreateDecoder,
      CreateRest, UndoDecoder, UndoFirmware, UndoRecord, StartOrStop, Release,
      Unlist, DestroyDecoder, ExitFirmware, Free

LEMMA PowerType ==
    ASSUME PowerInv'
    PROVE  power' \in [on : BOOLEAN, clk : Nat, reg : Nat]
<1>1. AllOff \in [on : BOOLEAN, clk : Nat, reg : Nat]
  BY DEF AllOff
<1>2. AllOn \in [on : BOOLEAN, clk : Nat, reg : Nat]
  BY DEF AllOn
<1> QED
  BY <1>1, <1>2 DEF PowerInv

LEMMA LeaveType ==
    ASSUME TypeOK, NEW c \in Chan, LeaveFirmware(c)
    PROVE  is_init' \in [World -> Nat] /\ hal' \in [World -> BOOLEAN]
<1> DEFINE v == WorldOf(c)
           left == IF is_init[v] > 0 THEN is_init[v] - 1 ELSE 0
<1>1. v \in World /\ is_init \in [World -> Nat] /\ hal \in [World -> BOOLEAN]
  BY WorldType DEF TypeOK
<1>2. left \in Nat
  BY <1>1
<1>3. \/ is_init' = [is_init EXCEPT ![v] = 0] /\ hal' = [hal EXCEPT ![v] = FALSE]
      \/ is_init' = [is_init EXCEPT ![v] = left] /\ hal' = hal
  BY DEF LeaveFirmware, Set
<1>4. /\ [is_init EXCEPT ![v] = 0] \in [World -> Nat]
      /\ [is_init EXCEPT ![v] = left] \in [World -> Nat]
  BY <1>1, <1>2
<1>5. [hal EXCEPT ![v] = FALSE] \in [World -> BOOLEAN]
  BY <1>1
<1> HIDE DEF v, left
<1> QED
  BY <1>1, <1>3, <1>4, <1>5

LEMMA EnterType ==
    ASSUME TypeOK, NEW c \in Chan, CreateFirmware(c)
    PROVE  is_init' \in [World -> Nat] /\ hal' \in [World -> BOOLEAN]
<1>1. \/ UNCHANGED <<is_init, hal>>
      \/ /\ is_init' = [is_init EXCEPT ![WorldOf(c)] = is_init[WorldOf(c)] + 1]
         /\ hal' = [hal EXCEPT ![WorldOf(c)] = TRUE]
  BY DEF CreateFirmware, firmwareVars, Set
<1>2. is_init \in [World -> Nat] /\ hal \in [World -> BOOLEAN]
  BY DEF TypeOK
<1>3. is_init[WorldOf(c)] + 1 \in Nat
  BY <1>2, WorldType
<1> QED
  BY <1>1, <1>2, <1>3

LEMMA TypeStep ==
    ASSUME TypeOK, PowerInv', [Next]_vars
    PROVE  TypeOK'
<1> USE DeviceAssumption DEF TypeOK, NoWalk, Ready, Set, deviceVars, listVars,
       firmwareVars, powerVars
<1>1. ASSUME NEW f \in File, Open(f) PROVE TypeOK'
  <2>1. open_count' \in Nat
    BY <1>1 DEF Open
  <2> QED
    BY <1>1, <2>1, PowerType DEF Open
<1>2. ASSUME NEW f \in File, OpenFails(f) PROVE TypeOK'
  BY <1>2, PowerType DEF OpenFails
<1>3. ASSUME NEW f \in File, BeginClose(f) PROVE TypeOK'
  <2>1. walk' \in [File -> WalkRecord]
    BY <1>3, Begins, Looks
  <2> QED
    BY <1>3, <2>1 DEF BeginClose, WalkRecord
<1>4. ASSUME NEW f \in File, Pass(f) PROVE TypeOK'
  <2>1. walk' \in [File -> WalkRecord]
    BY <1>4, GoesOn DEF Pass
  <2> QED
    BY <1>4, <2>1 DEF Pass, WalkRecord
<1>5. ASSUME NEW f \in File, ReleaseMine(f) PROVE TypeOK'
  <2>1. walk' \in [File -> WalkRecord] /\ walk[f].pchan \in Chan
    BY <1>5, Marks
  <2> QED
    BY <1>5, <2>1 DEF ReleaseMine, Stop, WalkRecord
<1>6. ASSUME NEW f \in File, Released(f) PROVE TypeOK'
  <2>1. walk' \in [File -> WalkRecord]
    BY <1>6, GoesOn DEF Released
  <2> QED
    BY <1>6, <2>1 DEF Released, WalkRecord
<1>7. ASSUME NEW f \in File, EndClose(f) PROVE TypeOK'
  <2>1. open_count' \in Nat
    BY <1>7 DEF EndClose
  <2>2. is_init' \in [World -> Nat] /\ hal' \in [World -> BOOLEAN]
    <3>1. CASE open_count' = 0
      <4>1. /\ is_init' = [w \in World |-> 0]
            /\ hal' = [w \in World |-> FALSE]
        BY <1>7, <3>1 DEF EndClose
      <4> QED
        BY <4>1
    <3>2. CASE open_count' # 0
      BY <1>7, <3>2 DEF EndClose
    <3> QED
      BY <3>1, <3>2
  <2> QED
    BY <1>7, <2>1, <2>2, PowerType DEF EndClose
<1>8. ASSUME NEW f \in File, NEW c \in Chan, Create(f, c) PROVE TypeOK'
  <2>1. 1 + Cardinality({d \in Chan : step[d] # "new"}) \in Nat
    BY CreatedFacts DEF Created
  <2>2. channel_id' \in [Chan -> Nat]
    BY <1>8, FS_CardinalityType DEF Create
  <2> QED
    BY <1>8, <2>1, <2>2 DEF Create, Step
<1>9. ASSUME NEW c \in Chan, CreateFirmware(c) PROVE TypeOK'
  <2>1. is_init' \in [World -> Nat] /\ hal' \in [World -> BOOLEAN]
    BY <1>9, EnterType
  <2>2. step' \in [Chan -> {"new", "listed", "firmware", "decoder", "undo", "unused",
                            "unlist", "idle", "working", "stopped", "unlisted",
                            "destroyed", "invalid", "freed"}]
    BY <1>9 DEF CreateFirmware
  <2>3. dark' \in BOOLEAN
    BY <1>9 DEF CreateFirmware
  <2> QED
    BY <1>9, <2>1, <2>2, <2>3, PowerType DEF CreateFirmware
<1>10. ASSUME NEW c \in Chan, CreateDecoder(c) PROVE TypeOK'
  BY <1>10 DEF CreateDecoder, HasDecoder
<1>11. ASSUME NEW c \in Chan, CreateRest(c) PROVE TypeOK'
  BY <1>11 DEF CreateRest, Step
<1>12. ASSUME NEW c \in Chan, UndoDecoder(c) PROVE TypeOK'
  BY <1>12 DEF UndoDecoder, Step
<1>13. ASSUME NEW c \in Chan, UndoFirmware(c) PROVE TypeOK'
  BY <1>13, LeaveType DEF UndoFirmware, Step
<1>14. ASSUME NEW c \in Chan, UndoRecord(c) PROVE TypeOK'
  BY <1>14 DEF UndoRecord, Step, LockFree, Forget
<1>15. ASSUME NEW c \in Chan, StartOrStop(c) PROVE TypeOK'
  BY <1>15 DEF StartOrStop, Step
<1>16. ASSUME NEW c \in Chan, Release(c) PROVE TypeOK'
  BY <1>16 DEF Release, Stop
<1>17. ASSUME NEW c \in Chan, Unlist(c) PROVE TypeOK'
  BY <1>17 DEF Unlist, Step, LockFree
<1>18. ASSUME NEW c \in Chan, DestroyDecoder(c) PROVE TypeOK'
  BY <1>18 DEF DestroyDecoder, Step
<1>19. ASSUME NEW c \in Chan, ExitFirmware(c) PROVE TypeOK'
  BY <1>19, LeaveType DEF ExitFirmware, Step
<1>20. ASSUME NEW c \in Chan, Free(c) PROVE TypeOK'
  BY <1>20 DEF Free, Step, Forget
<1>21. CASE Suspend
  BY <1>21, PowerType DEF Suspend
<1>22. CASE Resume
  BY <1>22, PowerType DEF Resume
<1>23. CASE UNCHANGED vars
  BY <1>23 DEF vars, deviceVars, listVars, firmwareVars, powerVars
<1> QED
  BY <1>1, <1>2, <1>3, <1>4, <1>5, <1>6, <1>7, <1>8, <1>9, <1>10, <1>11, <1>12,
      <1>13, <1>14, <1>15, <1>16, <1>17, <1>18, <1>19, <1>20, <1>21, <1>22, <1>23
  DEF Next, Creation, ReleaseStep, Close

LEMMA MutexStep ==
    ASSUME TypeOK, MutexInv, [Next]_vars
    PROVE  MutexInv'
<1> USE DeviceAssumption DEF TypeOK, MutexInv, Walking, NoWalk, Ready, Set,
       deviceVars, listVars, firmwareVars, powerVars
<1>1. ASSUME NEW f \in File, Open(f) PROVE MutexInv'
  BY <1>1 DEF Open, MutexFree
<1>2. ASSUME NEW f \in File, BeginClose(f) PROVE MutexInv'
  BY <1>2, Begins, Looks DEF BeginClose, MutexFree
<1>3. ASSUME NEW f \in File, Pass(f) PROVE MutexInv'
  <2>1. walk'[f].at # "none" /\ walk[f].at # "none"
    BY <1>3, GoesOn, Looks DEF Pass, WalkRecord
  <2> QED
    BY <1>3, <2>1, GoesOn DEF Pass
<1>4. ASSUME NEW f \in File, ReleaseMine(f) PROVE MutexInv'
  BY <1>4, Marks DEF ReleaseMine
<1>5. ASSUME NEW f \in File, Released(f) PROVE MutexInv'
  <2>1. walk'[f].at # "none" /\ walk[f].at # "none"
    BY <1>5, GoesOn, Looks DEF Released, WalkRecord
  <2> QED
    BY <1>5, <2>1, GoesOn DEF Released
<1>6. ASSUME NEW f \in File, EndClose(f) PROVE MutexInv'
  BY <1>6 DEF EndClose
<1>7. CASE UNCHANGED <<file, walk>>
  BY <1>7
<1> QED
  BY <1>1, <1>2, <1>3, <1>4, <1>5, <1>6, <1>7
  DEF Next, Creation, ReleaseStep, Close, vars, deviceVars, listVars, firmwareVars,
      powerVars, OpenFails, Create, CreateFirmware, CreateDecoder, CreateRest,
      UndoDecoder, UndoFirmware, UndoRecord, StartOrStop, Release, Unlist,
      DestroyDecoder, ExitFirmware, Free, Suspend, Resume

LEMMA OwnerStep ==
    ASSUME Inv, [Next]_vars
    PROVE  OwnerInv'
<1> USE DeviceAssumption DEF Inv, MutexInv, OwnerInv, Walking, Live, Releasing,
       Creating, NoWalk, Set, TypeOK, OnlyStep, Ready, deviceVars, listVars,
       firmwareVars, powerVars
<1>1. ASSUME NEW f \in File, Open(f) PROVE OwnerInv'
  BY <1>1 DEF Open
<1>2. ASSUME NEW f \in File, BeginClose(f) PROVE OwnerInv'
  BY <1>2 DEF BeginClose, MutexFree, Quiet
<1>3. ASSUME NEW f \in File, ReleaseMine(f) PROVE OwnerInv'
  BY <1>3 DEF ReleaseMine, Mine, Stop
<1>4. ASSUME NEW f \in File, EndClose(f) PROVE OwnerInv'
  BY <1>4 DEF EndClose, WalkInv
<1>5. ASSUME NEW f \in File, NEW c \in Chan, Create(f, c) PROVE OwnerInv'
  BY <1>5 DEF Create, Step
<1>6. ASSUME NEW c \in Chan, Creation(c) PROVE OwnerInv'
  BY <1>6, CreationFacts
<1>7. ASSUME NEW c \in Chan, Using(c) PROVE OwnerInv'
  BY <1>7, UsingFacts
<1>8. ASSUME NEW c \in Chan, ReleaseStep(c) PROVE OwnerInv'
  BY <1>8, ReleaseFacts
<1>9. CASE UNCHANGED <<file, step, file_dec>>
  BY <1>9
<1> QED
  BY <1>1, <1>2, <1>3, <1>4, <1>5, <1>6, <1>7, <1>8, <1>9
  DEF Next, Close, vars, deviceVars, listVars, firmwareVars, powerVars, Using,
      OpenFails, Pass, Released, Suspend, Resume

LEMMA ListStep ==
    ASSUME TypeOK, ListInv, [Next]_vars
    PROVE  ListInv'
<1> USE DeviceAssumption DEF ListInv, Listed, Creating, Releasing, Set, TypeOK,
       OnlyStep, Ready, deviceVars, listVars, firmwareVars, powerVars
<1>1. ASSUME NEW f \in File, ReleaseMine(f) PROVE ListInv'
  BY <1>1, Marks DEF ReleaseMine, Mine, Stop
<1>2. ASSUME NEW f \in File, NEW c \in Chan, Create(f, c) PROVE ListInv'
  BY <1>2 DEF Create, Step
<1>3. ASSUME NEW c \in Chan, Creation(c) PROVE ListInv'
  BY <1>3, CreationFacts
<1>4. ASSUME NEW c \in Chan, Using(c) PROVE ListInv'
  BY <1>4, UsingFacts
<1>5. ASSUME NEW c \in Chan, ReleaseStep(c) PROVE ListInv'
  BY <1>5, ReleaseFacts
<1>6. CASE UNCHANGED <<chan_list, step>>
  BY <1>6
<1> QED
  BY <1>1, <1>2, <1>3, <1>4, <1>5, <1>6
  DEF Next, Close, vars, deviceVars, listVars, firmwareVars, powerVars, Using, Open,
      OpenFails, BeginClose, Pass, Released, EndClose, Suspend, Resume

LEMMA CreatedStep ==
    ASSUME TypeOK, [Next]_vars
    PROVE  \/ Created' = Created
           \/ \E f \in File, c \in Chan : Create(f, c)
<1> USE DeviceAssumption DEF Created, Creating, Releasing, Set, TypeOK, OnlyStep,
       Ready, deviceVars, listVars, firmwareVars, powerVars
<1>1. ASSUME NEW f \in File, ReleaseMine(f) PROVE Created' = Created
  BY <1>1, Marks DEF ReleaseMine, Mine, Stop
<1>2. ASSUME NEW f \in File, NEW c \in Chan, Create(f, c)
      PROVE  \E g \in File, d \in Chan : Create(g, d)
  BY <1>2
<1>3. ASSUME NEW c \in Chan, Creation(c) PROVE Created' = Created
  BY <1>3, CreationFacts
<1>4. ASSUME NEW c \in Chan, Using(c) PROVE Created' = Created
  BY <1>4, UsingFacts
<1>5. ASSUME NEW c \in Chan, ReleaseStep(c) PROVE Created' = Created
  BY <1>5, ReleaseFacts
<1>6. CASE UNCHANGED step
  BY <1>6
<1> QED
  BY <1>1, <1>2, <1>3, <1>4, <1>5, <1>6
  DEF Next, Close, vars, deviceVars, listVars, firmwareVars, powerVars, Using, Open,
      OpenFails, BeginClose, Pass, Released, EndClose, Suspend, Resume

LEMMA PlaceStep ==
    ASSUME TypeOK, PlaceInv, [Next]_vars
    PROVE  PlaceInv'
<1>1. ASSUME NEW f \in File, NEW c \in Chan, Create(f, c) PROVE PlaceInv'
  <2>1. Created' = Created \cup {c} /\ c \notin Created
    BY <1>1 DEF Create, Step, Created, TypeOK, Set
  <2>2. Cardinality(Created') = Cardinality(Created) + 1
    BY <2>1, CreatedFacts, FS_AddElement
  <2>3. place' = [place EXCEPT ![c] = 1 + Cardinality(Created)]
    BY <1>1 DEF Create, Created, Set
  <2>4. place \in [Chan -> Nat] /\ Created \subseteq Chan
    BY DEF TypeOK, Created
  <2> QED
    BY <2>1, <2>2, <2>3, <2>4, CreatedFacts DEF PlaceInv
<1>2. CASE Created' = Created
  <2>1. CASE place' = place
    BY <1>2, <2>1 DEF PlaceInv
  <2>2. CASE place' # place
    BY <1>1, <2>2 DEF Next, Creation, ReleaseStep, Close, vars, deviceVars,
       listVars, firmwareVars, powerVars, Open, OpenFails, BeginClose, Pass,
       ReleaseMine, Released, EndClose, CreateFirmware, CreateDecoder, CreateRest,
       UndoDecoder, UndoFirmware, UndoRecord, StartOrStop, Release, Unlist,
       DestroyDecoder, ExitFirmware, Free, Suspend, Resume
  <2> QED
    BY <2>1, <2>2
<1> QED
  BY <1>1, <1>2, CreatedStep

-----------------------------------------------------------------------------
(* open_count counts the files that are open or being closed.              *)

LEMMA OpenStep ==
    ASSUME TypeOK, OpenInv, MutexInv, [Next]_vars
    PROVE  OpenInv'
<1> USE DEF OpenInv, Used
<1>1. ASSUME NEW f \in File, Open(f) PROVE OpenInv'
  <2>1. Used' = Used \cup {f} /\ f \notin Used /\ open_count' = open_count + 1
    BY <1>1 DEF Open, TypeOK, Set
  <2> QED
    BY <2>1, CreatedFacts, FS_AddElement
<1>2. ASSUME NEW f \in File, BeginClose(f) PROVE OpenInv'
  <2>1. Used' = Used /\ open_count' = open_count
    BY <1>2 DEF BeginClose, TypeOK, Set
  <2> QED
    BY <2>1
<1>3. ASSUME NEW f \in File, EndClose(f) PROVE OpenInv'
  <2>1. file[f] = "closing"
    BY <1>3 DEF EndClose, MutexInv, Walking
  <2>2. Used' = Used \ {f} /\ f \in Used
    BY <1>3, <2>1 DEF EndClose, TypeOK, Set
  <2>3. Cardinality(Used') = Cardinality(Used) - 1
    BY <2>2, CreatedFacts, FS_RemoveElement
  <2>4. Cardinality(Used) # 0
    BY <2>2, CreatedFacts, FS_EmptySet
  <2> QED
    BY <1>3, <2>3, <2>4, CreatedFacts DEF EndClose
<1>4. CASE UNCHANGED <<open_count, file>>
  <2>1. Used' = Used
    BY <1>4
  <2> QED
    BY <1>4, <2>1
<1> QED
  BY <1>1, <1>2, <1>3, <1>4
  DEF Next, Creation, ReleaseStep, Close, vars, deviceVars, listVars, firmwareVars,
      powerVars, OpenFails, Pass, ReleaseMine, Released, Create, CreateFirmware,
      CreateDecoder, CreateRest, UndoDecoder, UndoFirmware, UndoRecord, StartOrStop,
      Release, Unlist, DestroyDecoder, ExitFirmware, Free, Suspend, Resume

\* Without an open file no channel is left, and no firmware.
LEMMA NothingOpen ==
    ASSUME TypeOK, OpenInv, OwnerInv, FirmwareCounted, open_count = 0
    PROVE  \A w \in World : is_init[w] = 0
<1>1. Used = {}
  BY CreatedFacts, FS_EmptySet DEF OpenInv
<1>2. \A c \in Chan : ~Live(c)
  BY <1>1 DEF OwnerInv, Used, Live
<1>3. \A w \in World : Users(w) = {}
  BY <1>2 DEF Users, UsesFirmware, HasDecoder, Live
<1> QED
  BY <1>3, FS_EmptySet DEF FirmwareCounted

-----------------------------------------------------------------------------
(* The walk of a close.                                                    *)

\* What is ahead before the walk goes on is at hand or ahead after it.
LEMMA StillAhead ==
    ASSUME Inv, NEW f \in File, GoOn(f), walk[f].at # "none",
           UNCHANGED <<step, file_dec, place>>,
           \A c \in Chan : Live(c) /\ file_dec[c] = f =>
              Ready(c) /\ Ahead(f, c) /\ c \in chan_list
    PROVE  WalkInv'
<1> DEFINE n == walk[f].next
<1>1. \A g \in File : g # f => walk'[g].at = "none"
  BY GoesOn DEF Inv, MutexInv, Walking
<1>2. CASE walk'[f].at = "lost"
  BY <1>1, <1>2 DEF WalkInv
<1>3. CASE LookAt(f, n) /\ (n = None \/ n \in chan_list)
  <2>1. n \in Chan \cup {None} /\ chan_list \subseteq Chan /\ place \in [Chan -> Nat]
    BY DEF Inv, TypeOK
  <2>2. walk'[f].at = "look" /\ walk'[f].pchan = n
    BY <1>3, <2>1, Looks DEF Inv
  <2>3. ASSUME NEW c \in Chan, Live(c), file_dec[c] = f
        PROVE  Ready(c) /\ n # None /\ (c = n \/ (/\ walk'[f].next # None
                                                  /\ place[walk'[f].next] <= place[c]))
    <3>1. Ready(c) /\ n # None /\ place[n] <= place[c] /\ c \in chan_list
      BY <2>3 DEF Ahead
    <3>2. n \in chan_list
      BY <1>3, <3>1
    <3>3. c = n \/ place[c] > place[n]
      BY <2>1, <3>1, <3>2 DEF Inv, PlaceInv, Created, ListInv, Listed
    <3> QED
      BY <1>3, <2>1, <3>1, <3>3, Looks DEF Inv
  <2> QED
    BY <1>1, <2>2, <2>3 DEF WalkInv, Ahead, Live, Ready
<1> QED
  BY <1>2, <1>3, GoesOn DEF Inv

LEMMA WalkStep ==
    ASSUME Inv, [Next]_vars
    PROVE  WalkInv'
<1> USE DeviceAssumption DEF Inv, MutexInv, ListInv, Listed, OwnerInv, WalkInv,
       NextInv, Ahead, Walking, Live, NoWalk, Releasing, Creating, Set, TypeOK,
       OnlyStep, Ready, Set, deviceVars, listVars, firmwareVars, powerVars
<1>1. ASSUME NEW f \in File, BeginClose(f) PROVE WalkInv'
  <2>1. \A c \in Chan : Live(c) /\ file_dec[c] = f => Ready(c) /\ c \in chan_list
    BY <1>1 DEF BeginClose, Quiet
  <2>2. PICK p \in Chan \cup {None} : Leads(chan_list, p) /\ LookAt(f, p)
    BY <1>1, Begins
  <2>3. /\ walk'[f].at = "look" /\ walk'[f].pchan = p
        /\ \A g \in File : g # f => walk'[g].at = "none"
    BY <1>1, <2>2, Looks DEF BeginClose, MutexFree
  <2>4. \A c \in chan_list : p # None /\ place[p] <= place[c] /\ p \in chan_list
    BY <2>2 DEF Leads, FirstOf
  <2>5. \A c \in chan_list : c = p \/ place[c] > place[p]
    <3>1. \A c \in chan_list : c = p \/ place[c] # place[p]
      BY <2>4 DEF PlaceInv, Created
    <3>2. \A c \in chan_list : place[c] \in Nat /\ place[p] \in Nat
      BY <2>4
    <3> QED
      BY ONLY <2>4, <3>1, <3>2
  <2>6. \A c \in chan_list :
           c = p \/ (walk'[f].next # None /\ place[walk'[f].next] <= place[c])
    BY <2>2, <2>4, <2>5, Looks
  <2>7. UNCHANGED <<step, file_dec, place>>
    BY <1>1 DEF BeginClose
  <2> QED
    BY <2>1, <2>3, <2>4, <2>6, <2>7
<1>2. ASSUME NEW f \in File, Pass(f) PROVE WalkInv'
  <2>1. \A c \in Chan : Live(c) /\ file_dec[c] = f =>
           Ready(c) /\ Ahead(f, c) /\ c \in chan_list
    BY <1>2 DEF Pass, Mine
  <2> QED
    BY <1>2, <2>1, StillAhead DEF Pass
<1>3. ASSUME NEW f \in File, ReleaseMine(f) PROVE WalkInv'
  <2>1. /\ walk'[f].at = "release" /\ \A g \in File : g # f => walk'[g].at = "none"
        /\ walk'[f].pchan = walk[f].pchan /\ walk'[f].next = walk[f].next
        /\ walk[f].pchan \in Chan
    BY <1>3, Marks DEF ReleaseMine
  <2> QED
    BY <1>3, <2>1 DEF ReleaseMine, Mine, Stop
<1>4. ASSUME NEW f \in File, Released(f) PROVE WalkInv'
  <2>1. \A c \in Chan : Live(c) /\ file_dec[c] = f =>
           Ready(c) /\ Ahead(f, c) /\ c \in chan_list
    BY <1>4 DEF Released
  <2> QED
    BY <1>4, <2>1, StillAhead DEF Released
<1>5. ASSUME NEW f \in File, EndClose(f) PROVE WalkInv'
  BY <1>5 DEF EndClose
<1>6. ASSUME NEW f \in File, NEW c \in Chan, Create(f, c) PROVE WalkInv'
  BY <1>6 DEF Create, Step
<1>7. ASSUME NEW c \in Chan, Creation(c) PROVE WalkInv'
  BY <1>7, CreationFacts
<1>8. ASSUME NEW c \in Chan, Using(c) PROVE WalkInv'
  <2>1. walk' = walk /\ place' = place /\ file_dec' = file_dec
    BY <1>8, UsingFacts
  <2>2. walk[file_dec[c]].at = "none" /\ \A d \in Chan : d # c => step'[d] = step[d]
    BY <1>8, UsingFacts
  <2>3. \A g \in File : walk[g].pchan \in Chan \cup {None}
    OBVIOUS
  <2> QED
    BY ONLY <2>1, <2>2, <2>3, WalkInv DEF WalkInv, Ahead, Live, Ready
<1>9. ASSUME NEW c \in Chan, ReleaseStep(c) PROVE WalkInv'
  <2>1. /\ walk' = walk /\ place' = place /\ file_dec' = file_dec
        /\ \A d \in Chan : d # c => step'[d] = step[d]
    BY <1>9, ReleaseFacts
  <2>2. /\ step[c] \in Releasing
        /\ step'[c] \in {"unlisted", "destroyed", "invalid", "freed"}
    BY <1>9, ReleaseFacts
  <2>3. \A g \in File : walk[g].pchan \in Chan \cup {None}
    OBVIOUS
  <2> QED
    BY ONLY <2>1, <2>2, <2>3, WalkInv DEF WalkInv, Ahead, Live, Ready, Releasing
<1>10. CASE UNCHANGED <<walk, step, file_dec, place>>
  BY <1>10
<1> QED
  BY <1>1, <1>2, <1>3, <1>4, <1>5, <1>6, <1>7, <1>8, <1>9, <1>10
  DEF Next, Close, vars, deviceVars, listVars, firmwareVars, powerVars, Using, Open,
      OpenFails, Suspend, Resume

LEMMA NextOnList ==
    ASSUME Inv, NEW f \in File, NEW c \in Chan \cup {None}, c = None \/ c \in chan_list,
           LookAt(f, c), \A g \in File : g # f => walk'[g].at = "none",
           \A g \in File : g # f => ~Walking(g),
           UNCHANGED <<step, file_dec, place, chan_list>>,
           \A g \in File : g # f => file'[g] = file[g]
    PROVE  NextInv'
<1> DEFINE n == walk'[f].next
<1> SUFFICES ASSUME n # None
             PROVE  /\ step[n] # "new" /\ walk'[f].pchan # None
                    /\ step[walk'[f].pchan] # "new"
                    /\ place[walk'[f].pchan] < place[n]
                    /\ n \in chan_list /\ walk'[f].at # "lost"
                    /\ file_dec[n] # f => file'[file_dec[n]] = "open"
  BY DEF NextInv, Walking
<1>1. /\ walk'[f].at = "look" /\ walk'[f].pchan = c /\ c # None /\ c \in chan_list
      /\ n \in chan_list /\ place[n] > place[c]
  BY Looks DEF Inv
<1>2. chan_list \subseteq Chan /\ place \in [Chan -> Nat]
  BY DEF Inv, TypeOK
<1>3. step[n] # "new" /\ step[n] # "freed" /\ step[c] # "new"
  BY <1>1, <1>2 DEF Inv, ListInv, Listed
<1>4. file_dec[n] \in File /\ file[file_dec[n]] # "closed"
  BY <1>1, <1>2, <1>3 DEF Inv, OwnerInv, Live
<1>5. file_dec[n] # f => file[file_dec[n]] = "open"
  BY <1>4 DEF Inv, MutexInv, TypeOK
<1> QED
  BY <1>1, <1>2, <1>3, <1>4, <1>5

LEMMA NextStep ==
    ASSUME Inv, [Next]_vars
    PROVE  NextInv'
<1> USE DeviceAssumption DEF Inv, MutexInv, ListInv, Listed, OwnerInv, WalkInv,
       NextInv, Walking, Live, NoWalk, Releasing, Creating, Set, TypeOK, OnlyStep,
       Ready, Set, deviceVars, listVars, firmwareVars, powerVars
<1>1. ASSUME NEW f \in File, Open(f) PROVE NextInv'
  BY <1>1 DEF Open
<1>2. ASSUME NEW f \in File, BeginClose(f) PROVE NextInv'
  <2>1. /\ \A g \in File : g # f => walk'[g].at = "none"
        /\ \A g \in File : walk[g].at = "none"
    BY <1>2, Begins, Looks DEF BeginClose, MutexFree
  <2>2. file' = [file EXCEPT ![f] = "closing"]
        /\ UNCHANGED <<step, file_dec, place, chan_list>>
    BY <1>2 DEF BeginClose
  <2>3. PICK p \in Chan \cup {None} : Leads(chan_list, p) /\ LookAt(f, p)
    BY <1>2, Begins
  <2>4. p = None \/ p \in chan_list
    BY <2>3 DEF Leads, FirstOf
  <2> QED
    BY <2>1, <2>2, <2>3, <2>4, NextOnList
<1>3. ASSUME NEW f \in File, Pass(f) PROVE NextInv'
  <2>1. /\ walk[f].at # "none" /\ \A g \in File : g # f => walk'[g].at = "none"
    BY <1>3, GoesOn DEF Pass
  <2>2. CASE walk'[f].at = "lost" /\ walk'[f].pchan = walk[f].pchan
             /\ walk'[f].next = walk[f].next /\ walk[f].next \notin chan_list
    BY <1>3, <2>1, <2>2 DEF Pass
  <2>3. CASE LookAt(f, walk[f].next)
             /\ (walk[f].next = None \/ walk[f].next \in chan_list)
    BY <1>3, <2>1, <2>3, NextOnList DEF Pass
  <2> QED
    BY <1>3, <2>1, <2>2, <2>3, GoesOn DEF Pass
<1>4. ASSUME NEW f \in File, ReleaseMine(f) PROVE NextInv'
  <2>1. /\ \A g \in File : g # f => walk'[g].at = "none"
        /\ walk[f].at # "none" /\ walk'[f].at # "lost"
        /\ walk'[f].pchan = walk[f].pchan /\ walk'[f].next = walk[f].next
        /\ walk[f].pchan \in Chan
    BY <1>4, Marks DEF ReleaseMine
  <2> QED
    BY <1>4, <2>1 DEF ReleaseMine, Mine, Stop
<1>5. ASSUME NEW f \in File, Released(f) PROVE NextInv'
  <2>1. /\ walk[f].at # "none" /\ \A g \in File : g # f => walk'[g].at = "none"
    BY <1>5, GoesOn DEF Released
  <2>2. CASE walk'[f].at = "lost" /\ walk'[f].pchan = walk[f].pchan
             /\ walk'[f].next = walk[f].next /\ walk[f].next \notin chan_list
    BY <1>5, <2>1, <2>2 DEF Released
  <2>3. CASE LookAt(f, walk[f].next)
             /\ (walk[f].next = None \/ walk[f].next \in chan_list)
    BY <1>5, <2>1, <2>3, NextOnList DEF Released
  <2> QED
    BY <1>5, <2>1, <2>2, <2>3, GoesOn DEF Released
<1>6. ASSUME NEW f \in File, EndClose(f) PROVE NextInv'
  BY <1>6 DEF EndClose
<1>7. ASSUME NEW f \in File, NEW c \in Chan, Create(f, c) PROVE NextInv'
  BY <1>7 DEF Create, Step
<1>8. ASSUME NEW c \in Chan, Creation(c) PROVE NextInv'
  BY <1>8, CreationFacts
<1>9. ASSUME NEW c \in Chan, Using(c) PROVE NextInv'
  BY <1>9, UsingFacts
<1>10. ASSUME NEW c \in Chan, ReleaseStep(c) PROVE NextInv'
  BY <1>10, ReleaseFacts
<1>11. CASE UNCHANGED <<file, walk, step, file_dec, place, chan_list>>
  BY <1>11
<1> QED
  BY <1>1, <1>2, <1>3, <1>4, <1>5, <1>6, <1>7, <1>8, <1>9, <1>10, <1>11
  DEF Next, Close, vars, deviceVars, listVars, firmwareVars, powerVars, Using,
      OpenFails, Suspend, Resume

-----------------------------------------------------------------------------
(* Identifiers.                                                            *)

LEMMA IdStep ==
    ASSUME Inv, [Next]_vars
    PROVE  IdInv'
<1> USE DeviceAssumption DEF Inv, IdInv, ListInv, Listed, HasDecoder, TypeOK, Ready,
       Set, deviceVars, listVars, firmwareVars, powerVars
<1>1. ASSUME NEW f \in File, Open(f) PROVE IdInv'
  BY <1>1 DEF Open, MutexFree
<1>2. ASSUME NEW f \in File, OpenFails(f) PROVE IdInv'
  BY <1>2 DEF OpenFails, MutexFree
<1>3. ASSUME NEW f \in File, BeginClose(f) PROVE IdInv'
  BY <1>3 DEF BeginClose, Quiet, MutexFree, LockFree, LookAt, Leads, FirstOf, Behind
<1>4. ASSUME NEW f \in File, Pass(f) PROVE IdInv'
  BY <1>4 DEF Pass, Mine, GoOn, LookAt, Leads, FirstOf, Behind
<1>5. ASSUME NEW f \in File, ReleaseMine(f) PROVE IdInv'
  BY <1>5 DEF ReleaseMine, Mine, Stop
<1>6. ASSUME NEW f \in File, Released(f) PROVE IdInv'
  BY <1>6 DEF Released, LockFree, GoOn, LookAt, Leads, FirstOf, Behind
<1>7. ASSUME NEW f \in File, EndClose(f) PROVE IdInv'
  BY <1>7 DEF EndClose
<1>8. ASSUME NEW f \in File, NEW c \in Chan, Create(f, c) PROVE IdInv'
  <2>1. channel_id'[c] \notin {channel_id[d] : d \in chan_list}
    BY <1>8 DEF Create, LowestFree, Ids
  <2>2. /\ chan_list' = chan_list \cup {c} /\ c \notin chan_list
        /\ \A d \in Chan : d # c => channel_id'[d] = channel_id[d]
    BY <1>8 DEF Create, Step
  <2>3. \A d, e \in chan_list' : d # e => channel_id'[d] # channel_id'[e]
    BY <2>1, <2>2
  <2> QED
    BY <1>8, <2>3 DEF Create, Step
<1>9. ASSUME NEW c \in Chan, CreateFirmware(c) PROVE IdInv'
  BY <1>9 DEF CreateFirmware, WorldOf
<1>10. ASSUME NEW c \in Chan, CreateDecoder(c) PROVE IdInv'
  BY <1>10 DEF CreateDecoder, HasDecoder
<1>11. ASSUME NEW c \in Chan, CreateRest(c) PROVE IdInv'
  BY <1>11 DEF CreateRest, Step
<1>12. ASSUME NEW c \in Chan, UndoDecoder(c) PROVE IdInv'
  BY <1>12 DEF UndoDecoder, Step
<1>13. ASSUME NEW c \in Chan, UndoFirmware(c) PROVE IdInv'
  BY <1>13 DEF UndoFirmware, Step, LeaveFirmware
<1>14. ASSUME NEW c \in Chan, UndoRecord(c) PROVE IdInv'
  BY <1>14 DEF UndoRecord, Step, LockFree, Forget
<1>15. ASSUME NEW c \in Chan, StartOrStop(c) PROVE IdInv'
  BY <1>15 DEF StartOrStop, Step
<1>16. ASSUME NEW c \in Chan, Release(c) PROVE IdInv'
  BY <1>16 DEF Release, Stop
<1>17. ASSUME NEW c \in Chan, Unlist(c) PROVE IdInv'
  BY <1>17 DEF Unlist, Step, LockFree
<1>18. ASSUME NEW c \in Chan, DestroyDecoder(c) PROVE IdInv'
  BY <1>18 DEF DestroyDecoder, Step
<1>19. ASSUME NEW c \in Chan, ExitFirmware(c) PROVE IdInv'
  BY <1>19 DEF ExitFirmware, Step, LeaveFirmware
<1>20. ASSUME NEW c \in Chan, Free(c) PROVE IdInv'
  BY <1>20 DEF Free, Step, Forget
<1>21. CASE Suspend
  BY <1>21 DEF Suspend, Frozen, Quiet
<1>22. CASE Resume
  BY <1>22 DEF Resume, ShouldPower
<1>23. CASE UNCHANGED vars
  BY <1>23 DEF vars, deviceVars, listVars, firmwareVars, powerVars
<1> QED
  BY <1>1, <1>2, <1>3, <1>4, <1>5, <1>6, <1>7, <1>8, <1>9, <1>10, <1>11, <1>12,
      <1>13, <1>14, <1>15, <1>16, <1>17, <1>18, <1>19, <1>20, <1>21, <1>22, <1>23
  DEF Next, Creation, ReleaseStep, Close

-----------------------------------------------------------------------------
(* The firmware and its users.                                             *)

LEMMA UsersFinite ==
    \A w \in World : IsFiniteSet(Users(w)) /\ Cardinality(Users(w)) \in Nat
<1>1. \A w \in World : Users(w) \in SUBSET Chan
  BY DEF Users
<1> QED
  BY <1>1, FS_Subset, FS_CardinalityType, DeviceAssumption

LEMMA UsersSame ==
    ASSUME FirmwareCounted, UNCHANGED <<is_init, hal>>,
           \A d \in Chan : UsesFirmware(d)' <=> UsesFirmware(d)
    PROVE  FirmwareCounted'
<1>1. \A w \in World : Users(w)' = Users(w)
  BY DEF Users
<1> QED
  BY <1>1 DEF FirmwareCounted

LEMMA Leaves ==
    ASSUME TypeOK, FirmwareCounted, NEW c \in Chan, LeaveFirmware(c),
           UsesFirmware(c), ~UsesFirmware(c)',
           \A d \in Chan : d # c => (UsesFirmware(d)' <=> UsesFirmware(d))
    PROVE  /\ FirmwareCounted'
           /\ \A w \in World : is_init'[w] > 0 => is_init[w] > 0
<1> DEFINE v == WorldOf(c)
<1>1. v \in World /\ is_init \in [World -> Nat] /\ hal \in [World -> BOOLEAN]
  BY WorldType DEF TypeOK
<1>2. c \in Users(v) /\ Users(v)' = Users(v) \ {c}
  BY DEF Users
<1>3. \A w \in World : w # v => Users(w)' = Users(w)
  BY DEF Users
<1>4. Cardinality(Users(v)') = Cardinality(Users(v)) - 1
  BY <1>1, <1>2, UsersFinite, FS_RemoveElement
<1>5. Cardinality(Users(v)) # 0
  BY <1>1, <1>2, UsersFinite, FS_EmptySet
<1>6. is_init[v] > 0 /\ is_init[v] = Cardinality(Users(v)) /\ hal[v]
  BY <1>1, <1>5, UsersFinite DEF FirmwareCounted
<1>7. /\ is_init' = [is_init EXCEPT ![v] = is_init[v] - 1]
      /\ hal' = [hal EXCEPT ![v] = IF is_init[v] - 1 = 0 THEN FALSE ELSE hal[v]]
  <2>1. CASE is_init[v] - 1 = 0
    BY <1>1, <1>6, <2>1 DEF LeaveFirmware, LastUser, Set
  <2>2. CASE is_init[v] - 1 # 0
    BY <1>1, <1>6, <2>2 DEF LeaveFirmware, LastUser, Set
  <2> QED
    BY <2>1, <2>2
<1>8. /\ is_init'[v] = is_init[v] - 1
      /\ hal'[v] <=> is_init'[v] > 0
      /\ \A w \in World : w # v => is_init'[w] = is_init[w] /\ hal'[w] = hal[w]
  BY <1>1, <1>6, <1>7
<1>9. ASSUME NEW w \in World
      PROVE  is_init'[w] = Cardinality(Users(w)') /\ (hal'[w] <=> is_init'[w] > 0)
  <2>1. CASE w = v
    BY <1>4, <1>6, <1>8, <2>1
  <2>2. CASE w # v
    BY <1>3, <1>8, <2>2 DEF FirmwareCounted
  <2> QED
    BY <2>1, <2>2
<1> QED
  BY <1>1, <1>6, <1>8, <1>9 DEF FirmwareCounted

LEMMA LastFile ==
    ASSUME Inv, NEW f \in File, EndClose(f), open_count' = 0
    PROVE  f \in Used /\ Cardinality(Used) = 1
<1>1. f \in Used
  BY DEF Used, EndClose, Inv, MutexInv, Walking
<1>2. open_count = Cardinality(Used) /\ Cardinality(Used) \in Nat
  BY CreatedFacts DEF Inv, OpenInv
<1>3. Cardinality(Used) # 0
  BY <1>1, CreatedFacts, FS_EmptySet
<1> QED
  BY <1>1, <1>2, <1>3 DEF EndClose

\* The last close finds no channel on its file, and there is no other.
LEMMA NoneLeft ==
    ASSUME Inv, NEW f \in File, EndClose(f), f \in Used, Cardinality(Used) = 1
    PROVE  \A c \in Chan : ~UsesFirmware(c)
<1>1. Used = {f}
  BY CreatedFacts, FS_Singleton
<1>2. \A c \in Chan : Live(c) => file_dec[c] = f
  BY <1>1 DEF Inv, OwnerInv, Live, Used
<1>3. \A c \in Chan : ~(Live(c) /\ file_dec[c] = f)
  BY DEF Inv, WalkInv, EndClose
<1> QED
  BY <1>2, <1>3 DEF UsesFirmware, HasDecoder, Live

LEMMA CountStep ==
    ASSUME Inv, [Next]_vars
    PROVE  FirmwareCounted'
<1> USE DeviceAssumption DEF Inv, UsesFirmware, HasDecoder, TypeOK, Ready, Set,
       deviceVars, listVars, firmwareVars, powerVars
<1>1. ASSUME NEW f \in File, ReleaseMine(f) PROVE FirmwareCounted'
  <2>1. \A d \in Chan : UsesFirmware(d)' <=> UsesFirmware(d)
    BY <1>1 DEF ReleaseMine, Mine, Stop
  <2>2. UNCHANGED <<is_init, hal>>
    BY <1>1 DEF ReleaseMine
  <2> QED
    BY <2>1, <2>2, UsersSame
<1>2. ASSUME NEW f \in File, EndClose(f) PROVE FirmwareCounted'
  <2>1. UNCHANGED step
    BY <1>2 DEF EndClose
  <2>2. \A d \in Chan : UsesFirmware(d)' <=> UsesFirmware(d)
    BY <2>1
  <2>3. CASE open_count' = 0
    <3>1. f \in Used /\ Cardinality(Used) = 1
      BY <1>2, <2>3, LastFile
    <3>2. \A c \in Chan : ~UsesFirmware(c)
      BY <1>2, <3>1, NoneLeft
    <3>3. \A w \in World : Users(w)' = {}
      BY <2>2, <3>2 DEF Users
    <3>4. is_init' = [w \in World |-> 0] /\ hal' = [w \in World |-> FALSE]
      BY <1>2, <2>3 DEF EndClose
    <3> QED
      BY ONLY <3>3, <3>4, FS_EmptySet DEF FirmwareCounted
  <2>4. CASE open_count' # 0
    <3>1. UNCHANGED <<is_init, hal>>
      BY <1>2, <2>4 DEF EndClose
    <3> QED
      BY <2>2, <3>1, UsersSame
  <2> QED
    BY <2>3, <2>4
<1>3. ASSUME NEW f \in File, NEW c \in Chan, Create(f, c) PROVE FirmwareCounted'
  <2>1. \A d \in Chan : UsesFirmware(d)' <=> UsesFirmware(d)
    BY <1>3 DEF Create, Step
  <2>2. UNCHANGED <<is_init, hal>>
    BY <1>3 DEF Create
  <2> QED
    BY <2>1, <2>2, UsersSame
<1>4. ASSUME NEW c \in Chan, CreateFirmware(c) PROVE FirmwareCounted'
  <2>1. CASE step'[c] = "firmware"
    <3> DEFINE v == WorldOf(c)
    <3>1. /\ v \in World /\ is_init' = [is_init EXCEPT ![v] = is_init[v] + 1]
          /\ hal' = [hal EXCEPT ![v] = TRUE]
          /\ is_init \in [World -> Nat] /\ hal \in [World -> BOOLEAN]
      BY <1>4, <2>1, WorldType DEF CreateFirmware
    <3>2. ~UsesFirmware(c) /\ UsesFirmware(c)'
      BY <1>4, <2>1 DEF CreateFirmware
    <3>3. \A d \in Chan : d # c => (UsesFirmware(d)' <=> UsesFirmware(d))
      BY <1>4 DEF CreateFirmware
    <3>4. c \notin Users(v) /\ Users(v)' = Users(v) \cup {c}
      BY <3>2, <3>3 DEF Users
    <3>5. Cardinality(Users(v)') = Cardinality(Users(v)) + 1
      BY <3>1, <3>4, UsersFinite, FS_AddElement
    <3>6. \A w \in World : w # v => Users(w)' = Users(w)
      BY <3>3 DEF Users
    <3> QED
      BY ONLY FirmwareCounted, <3>1, <3>5, <3>6, UsersFinite DEF FirmwareCounted
  <2>2. CASE step'[c] # "firmware"
    <3>1. \A d \in Chan : UsesFirmware(d)' <=> UsesFirmware(d)
      BY <1>4, <2>2 DEF CreateFirmware
    <3>2. UNCHANGED <<is_init, hal>>
      BY <1>4, <2>2 DEF CreateFirmware
    <3> QED
      BY <3>1, <3>2, UsersSame
  <2> QED
    BY <2>1, <2>2
<1>5. ASSUME NEW c \in Chan, CreateDecoder(c) PROVE FirmwareCounted'
  <2>1. \A d \in Chan : UsesFirmware(d)' <=> UsesFirmware(d)
    BY <1>5 DEF CreateDecoder
  <2>2. UNCHANGED <<is_init, hal>>
    BY <1>5 DEF CreateDecoder
  <2> QED
    BY <2>1, <2>2, UsersSame
<1>6. ASSUME NEW c \in Chan, CreateRest(c) PROVE FirmwareCounted'
  <2>1. \A d \in Chan : UsesFirmware(d)' <=> UsesFirmware(d)
    BY <1>6 DEF CreateRest, Step
  <2>2. UNCHANGED <<is_init, hal>>
    BY <1>6 DEF CreateRest
  <2> QED
    BY <2>1, <2>2, UsersSame
<1>7. ASSUME NEW c \in Chan, UndoDecoder(c) PROVE FirmwareCounted'
  <2>1. \A d \in Chan : UsesFirmware(d)' <=> UsesFirmware(d)
    BY <1>7 DEF UndoDecoder, Step
  <2>2. UNCHANGED <<is_init, hal>>
    BY <1>7 DEF UndoDecoder
  <2> QED
    BY <2>1, <2>2, UsersSame
<1>8. ASSUME NEW c \in Chan, UndoFirmware(c) PROVE FirmwareCounted'
  <2>1. UsesFirmware(c) /\ ~UsesFirmware(c)' /\ LeaveFirmware(c)
    BY <1>8 DEF UndoFirmware, Step
  <2>2. \A d \in Chan : d # c => (UsesFirmware(d)' <=> UsesFirmware(d))
    BY <1>8 DEF UndoFirmware, Step
  <2> QED
    BY <2>1, <2>2, Leaves
<1>9. ASSUME NEW c \in Chan, UndoRecord(c) PROVE FirmwareCounted'
  <2>1. \A d \in Chan : UsesFirmware(d)' <=> UsesFirmware(d)
    BY <1>9 DEF UndoRecord, Step
  <2>2. UNCHANGED <<is_init, hal>>
    BY <1>9 DEF UndoRecord
  <2> QED
    BY <2>1, <2>2, UsersSame
<1>10. ASSUME NEW c \in Chan, StartOrStop(c) PROVE FirmwareCounted'
  <2>1. \A d \in Chan : UsesFirmware(d)' <=> UsesFirmware(d)
    BY <1>10 DEF StartOrStop, Step
  <2>2. UNCHANGED <<is_init, hal>>
    BY <1>10 DEF StartOrStop
  <2> QED
    BY <2>1, <2>2, UsersSame
<1>11. ASSUME NEW c \in Chan, Release(c) PROVE FirmwareCounted'
  <2>1. \A d \in Chan : UsesFirmware(d)' <=> UsesFirmware(d)
    BY <1>11 DEF Release, Stop
  <2>2. UNCHANGED <<is_init, hal>>
    BY <1>11 DEF Release
  <2> QED
    BY <2>1, <2>2, UsersSame
<1>12. ASSUME NEW c \in Chan, Unlist(c) PROVE FirmwareCounted'
  <2>1. \A d \in Chan : UsesFirmware(d)' <=> UsesFirmware(d)
    BY <1>12 DEF Unlist, Step
  <2>2. UNCHANGED <<is_init, hal>>
    BY <1>12 DEF Unlist
  <2> QED
    BY <2>1, <2>2, UsersSame
<1>13. ASSUME NEW c \in Chan, DestroyDecoder(c) PROVE FirmwareCounted'
  <2>1. \A d \in Chan : UsesFirmware(d)' <=> UsesFirmware(d)
    BY <1>13 DEF DestroyDecoder, Step
  <2>2. UNCHANGED <<is_init, hal>>
    BY <1>13 DEF DestroyDecoder
  <2> QED
    BY <2>1, <2>2, UsersSame
<1>14. ASSUME NEW c \in Chan, ExitFirmware(c) PROVE FirmwareCounted'
  <2>1. UsesFirmware(c) /\ ~UsesFirmware(c)' /\ LeaveFirmware(c)
    BY <1>14 DEF ExitFirmware, Step
  <2>2. \A d \in Chan : d # c => (UsesFirmware(d)' <=> UsesFirmware(d))
    BY <1>14 DEF ExitFirmware, Step
  <2> QED
    BY <2>1, <2>2, Leaves
<1>15. ASSUME NEW c \in Chan, Free(c) PROVE FirmwareCounted'
  <2>1. \A d \in Chan : UsesFirmware(d)' <=> UsesFirmware(d)
    BY <1>15 DEF Free, Step
  <2>2. UNCHANGED <<is_init, hal>>
    BY <1>15 DEF Free
  <2> QED
    BY <2>1, <2>2, UsersSame
<1>16. CASE UNCHANGED <<step, is_init, hal>>
  BY <1>16, UsersSame
<1> QED
  BY <1>1, <1>2, <1>3, <1>4, <1>5, <1>6, <1>7, <1>8, <1>9, <1>10, <1>11, <1>12,
      <1>13, <1>14, <1>15, <1>16
  DEF Next, Creation, ReleaseStep, Close, vars, deviceVars, listVars, firmwareVars,
      powerVars, Open, OpenFails, BeginClose, Pass, Released, Suspend, Resume

\* While the firmware is up it has power, or a resume has failed.
LEMMA PoweredStep ==
    ASSUME Inv, PowerInv', [Next]_vars
    PROVE  FirmwareHasPower'
<1> DEFINE Up == \E w \in World : is_init[w] > 0
<1> SUFFICES ASSUME Up', ~suspended'
             PROVE  power'.on \/ dark'
  BY DEF FirmwareHasPower, PowerInv
<1>1. Up /\ ~suspended => power.on \/ dark
  BY DEF Inv, FirmwareHasPower
<1>2. open_count = 0 => ~Up
  <2>1. open_count = 0 => \A w \in World : is_init[w] = 0
    BY NothingOpen DEF Inv
  <2> QED
    BY <2>1
<1>3. power = AllOff \/ power = AllOn
  BY DEF Inv, PowerInv
<1>4. ASSUME NEW f \in File, Open(f) PROVE power'.on \/ dark'
  <2>1. CASE open_count = 0
    BY <1>3, <1>4, <2>1, PowerFacts DEF Open
  <2>2. CASE UNCHANGED <<power, dark>>
    BY <1>1, <1>4, <2>2 DEF Open, firmwareVars
  <2> QED
    BY <1>4, <2>1, <2>2 DEF Open
<1>5. ASSUME NEW f \in File, OpenFails(f) PROVE power'.on \/ dark'
  BY <1>2, <1>5 DEF OpenFails, firmwareVars
<1>6. ASSUME NEW f \in File, EndClose(f) PROVE power'.on \/ dark'
  <2>1. CASE open_count' = 0
    <3>1. \A w \in World : is_init'[w] = 0
      BY <1>6, <2>1 DEF EndClose
    <3> QED
      BY <3>1
  <2>2. CASE open_count' # 0
    BY <1>1, <1>6, <2>2 DEF EndClose, firmwareVars
  <2> QED
    BY <2>1, <2>2
<1>7. ASSUME NEW c \in Chan, CreateFirmware(c) PROVE power'.on \/ dark'
  <2>1. CASE power' = SwitchedOn(power)
    BY <1>3, <2>1, PowerFacts
  <2>2. CASE power' \in LeftOff(power) /\ UNCHANGED <<firmwareVars, dark>>
    BY <1>1, <1>3, <1>7, <2>2, PowerFacts DEF CreateFirmware, firmwareVars
  <2> QED
    BY <1>7, <2>1, <2>2 DEF CreateFirmware
<1>8. ASSUME NEW c \in Chan, LeaveFirmware(c), UsesFirmware(c), ~UsesFirmware(c)',
             \A d \in Chan : d # c => (UsesFirmware(d)' <=> UsesFirmware(d)),
             UNCHANGED powerVars
      PROVE  power'.on \/ dark'
  BY <1>1, <1>8, Leaves DEF Inv, powerVars
<1>9. ASSUME NEW c \in Chan, UndoFirmware(c) PROVE power'.on \/ dark'
  <2>1. /\ LeaveFirmware(c) /\ UsesFirmware(c) /\ ~UsesFirmware(c)'
        /\ \A d \in Chan : d # c => (UsesFirmware(d)' <=> UsesFirmware(d))
    BY <1>9 DEF UndoFirmware, Step, Set, UsesFirmware, HasDecoder, Inv, TypeOK
  <2> QED
    BY <1>8, <1>9, <2>1 DEF UndoFirmware
<1>10. ASSUME NEW c \in Chan, ExitFirmware(c) PROVE power'.on \/ dark'
  <2>1. /\ LeaveFirmware(c) /\ UsesFirmware(c) /\ ~UsesFirmware(c)'
        /\ \A d \in Chan : d # c => (UsesFirmware(d)' <=> UsesFirmware(d))
    BY <1>10 DEF ExitFirmware, Step, Set, UsesFirmware, HasDecoder, Inv, TypeOK
  <2> QED
    BY <1>8, <1>10, <2>1 DEF ExitFirmware
<1>11. CASE Suspend
  BY <1>11 DEF Suspend
<1>12. CASE Resume
  <2>1. CASE open_count = 0
    BY <1>2, <1>12, <2>1 DEF Resume, firmwareVars
  <2>2. CASE open_count # 0
    BY <1>3, <1>12, <2>2, PowerFacts DEF Resume, ShouldPower, Inv, TypeOK
  <2> QED
    BY <2>1, <2>2
<1>13. CASE UNCHANGED <<firmwareVars, powerVars>>
  BY <1>1, <1>13 DEF firmwareVars, powerVars
<1> QED
  BY <1>4, <1>5, <1>6, <1>7, <1>9, <1>10, <1>11, <1>12, <1>13
  DEF Next, Creation, ReleaseStep, Close, vars, BeginClose, Pass, ReleaseMine,
      Released, Create, CreateDecoder, CreateRest, UndoDecoder, UndoRecord,
      StartOrStop, Release, Unlist, DestroyDecoder, Free

-----------------------------------------------------------------------------
LEMMA InitInv == Init => Inv
<1> SUFFICES ASSUME Init PROVE Inv
  OBVIOUS
<1>1. TypeOK
  <2>1. AllOff \in [on : BOOLEAN, clk : Nat, reg : Nat]
    BY DEF AllOff
  <2>2. NoWalk \in WalkRecord
    BY DEF NoWalk, WalkRecord
  <2> QED
    BY <2>1, <2>2 DEF Init, TypeOK, WalkRecord
<1>2. OpenInv
  <2>1. Used = {}
    BY DEF Init, Used
  <2> QED
    BY <2>1, FS_EmptySet DEF Init, OpenInv
<1>3. MutexInv /\ WalkInv /\ NextInv
  BY DEF Init, MutexInv, WalkInv, NextInv, Walking, NoWalk
<1>4. ListInv /\ PlaceInv /\ OwnerInv /\ IdInv
  BY DEF Init, ListInv, Listed, PlaceInv, Created, OwnerInv, Live, IdInv, HasDecoder
<1>5. FirmwareCounted
  <2>1. \A w \in World : Users(w) = {}
    BY DEF Init, Users, UsesFirmware, HasDecoder
  <2> QED
    BY <2>1, FS_EmptySet DEF Init, FirmwareCounted
<1>6. PowerInv /\ FirmwareHasPower
  BY <1>5 DEF Init, PowerInv, FirmwareHasPower
<1> QED
  BY <1>1, <1>2, <1>3, <1>4, <1>5, <1>6 DEF Inv

LEMMA Inductive == Inv /\ [Next]_vars => Inv'
<1> SUFFICES ASSUME Inv, [Next]_vars PROVE Inv'
  OBVIOUS
<1>1. PowerInv'
  BY PowerStep DEF Inv
<1>2. TypeOK'
  BY <1>1, TypeStep DEF Inv
<1>3. OpenInv' /\ MutexInv' /\ ListInv' /\ PlaceInv'
  BY OpenStep, MutexStep, ListStep, PlaceStep DEF Inv
<1>4. OwnerInv' /\ WalkInv' /\ NextInv' /\ IdInv'
  BY OwnerStep, WalkStep, NextStep, IdStep
<1>5. FirmwareCounted' /\ FirmwareHasPower'
  BY <1>1, CountStep, PoweredStep
<1> QED
  BY <1>1, <1>2, <1>3, <1>4, <1>5 DEF Inv

LEMMA InvHolds == Spec => []Inv
<1>1. Init => Inv
  BY InitInv
<1>2. Inv /\ [Next]_vars => Inv'
  BY Inductive
<1> QED
  BY <1>1, <1>2, PTL DEF Spec

-----------------------------------------------------------------------------
\* Every file, channel, walk and count keeps its type.
THEOREM TypeCorrect == Spec => []TypeOK
<1>1. Inv => TypeOK
  BY DEF Inv
<1> QED
  BY <1>1, InvHolds, PTL

\* The firmware of each world is up for exactly its users, whichever calls of a
\* creation fail and whatever is created, released and closed beside it.
THEOREM FirmwareIsCounted == Spec => []FirmwareCounted
<1>1. Inv => FirmwareCounted
  BY DEF Inv
<1> QED
  BY <1>1, InvHolds, PTL

\* Clock and regulator are on together, once, and with them the firmware is up.
THEOREM FirmwareIsPowered == Spec => []FirmwareHasPower
<1>1. Inv => FirmwareHasPower
  BY DEF Inv
<1> QED
  BY <1>1, InvHolds, PTL

\* The look-ups of a working channel's packets, images and events find it.
THEOREM OwnersAreFound == Spec => []CallbacksFindOwner
<1>1. Inv => CallbacksFindOwner
  <2> SUFFICES ASSUME Inv, NEW c \in Chan, step[c] = "working"
               PROVE  /\ FirstOf({d \in chan_list : channel_id[d] = channel_id[c]}, c)
                      /\ \A d \in chan_list :
                            decoder_id[d] = decoder_id[c] /\ place[d] < place[c] =>
                               ~HasDecoder(d)
    BY DEF CallbacksFindOwner
  <2>1. c \in chan_list /\ HasDecoder(c)
    BY DEF Inv, ListInv, Listed, HasDecoder
  <2>2. {d \in chan_list : channel_id[d] = channel_id[c]} = {c}
    BY <2>1 DEF Inv, IdInv
  <2>3. place[c] \in Nat /\ chan_list \subseteq Chan
    BY DEF Inv, TypeOK
  <2>4. FirstOf({c}, c)
    BY <2>3 DEF FirstOf
  <2>5. \A d \in chan_list :
           decoder_id[d] = decoder_id[c] /\ d # c => ~HasDecoder(d)
    BY <2>1, <2>3 DEF Inv, IdInv
  <2> QED
    BY <2>2, <2>3, <2>4, <2>5
<1> QED
  BY <1>1, InvHolds, PTL

\* A file that is closed has left no channel, listed or half created.
THEOREM ClosesAreComplete == Spec => []CloseLeavesNothing
<1>1. Inv => CloseLeavesNothing
  BY DEF Inv, OwnerInv, Live, CloseLeavesNothing
<1> QED
  BY <1>1, InvHolds, PTL

\* A close that drops its lock for a release finds the next channel still on the
\* list, unless another open file's client has released it.
THEOREM WalksStayOnList == Spec => []WalkStaysOnList
<1>1. Inv => WalkStaysOnList
  BY DEF Inv, NextInv, OwnerInv, Live, WalkStaysOnList
<1> QED
  BY <1>1, InvHolds, PTL

=============================================================================
