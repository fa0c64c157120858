-------------------------- MODULE BlockStoreProofs --------------------------
(* Theorems about BlockStore for every number of carriers and blocks.      *)
EXTENDS BlockStore, TLAPS

\* carrier_for answers with the one carrier whose range has the block.
LEMMA CarrierUnique ==
    ASSUME NEW b \in Blocks
    PROVE  /\ CarrierFor(b) \in Carriers
           /\ \A c \in Carriers : InSlot(c, b) <=> c = CarrierFor(b)
<1>1. PICK c \in Carriers : InSlot(c, b) /\ \A d \in Carriers : InSlot(d, b) => d = c
  BY GeometryAssumption DEF GeometryAssumption
<1>2. CarrierFor(b) \in Carriers /\ InSlot(CarrierFor(b), b)
  BY <1>1 DEF CarrierFor
<1> QED
  BY <1>1, <1>2

LEMMA InitStore == Init => StoreInv
<1> SUFFICES ASSUME Init PROVE StoreInv
  OBVIOUS
<1>1. NCarriers \in Nat /\ 1 \in 1..NCarriers + 1
  BY GeometryAssumption DEF GeometryAssumption
<1>2. TypeOK
  BY <1>1 DEF Init, TypeOK
<1> QED
  BY <1>2 DEF Init, StoreInv, ReadYourWrites, CleanIsOnDisk, SyncIsDurable, FlushOrder,
              WrittenSince, Answer

\* Loading a carrier changes no answer, and what is loaded is what is in the file.
LEMMA Loading ==
    ASSUME StoreInv, pc # "closed", NEW c \in Carriers
    PROVE  /\ Buffer(c) \in [Blocks -> Values]
           /\ \A b \in Blocks : CarrierFor(b) \in loaded \cup {c} => Buffer(c)[b] = view[b]
           /\ \A b \in Blocks : CarrierFor(b) \in (loaded \cup {c}) \ dirty => Buffer(c)[b] = file[b]
<1>1. TypeOK /\ ReadYourWrites /\ CleanIsOnDisk
  BY DEF StoreInv
<1>2. \A b \in Blocks : Buffer(c)[b] = IF CarrierFor(b) = c /\ c \notin loaded THEN file[b] ELSE buffer[b]
  BY CarrierUnique DEF Buffer
<1>3. Buffer(c) \in [Blocks -> Values]
  BY <1>1 DEF Buffer, TypeOK
<1>4. ASSUME NEW b \in Blocks, CarrierFor(b) \in loaded \cup {c} PROVE Buffer(c)[b] = view[b]
  BY <1>1, <1>2, <1>4 DEF ReadYourWrites, Answer
<1>5. ASSUME NEW b \in Blocks, CarrierFor(b) \in (loaded \cup {c}) \ dirty
      PROVE  Buffer(c)[b] = file[b]
  BY <1>1, <1>2, <1>5 DEF CleanIsOnDisk
<1> QED
  BY <1>3, <1>4, <1>5

LEMMA ReadStep ==
    ASSUME StoreInv, NEW b \in Blocks, ReadBlock(b)
    PROVE  StoreInv'
<1> DEFINE c == CarrierFor(b)
<1>1. /\ pc = "open" /\ pc # "closed" /\ c \in Carriers
      /\ TypeOK /\ ReadYourWrites /\ SyncIsDurable /\ WrittenSince
  BY CarrierUnique DEF ReadBlock, StoreInv
<1>2. buffer' = Buffer(c) /\ loaded' = loaded \cup {c}
      /\ UNCHANGED <<file, temp, staged, dirty, pc, slot, view, synced, since>>
  BY DEF ReadBlock, history
<1> HIDE DEF c
<1>3. TypeOK'
  BY <1>1, <1>2, Loading DEF TypeOK
<1>4. ReadYourWrites'
  BY <1>1, <1>2, Loading DEF ReadYourWrites, Answer
<1>5. CleanIsOnDisk'
  BY <1>1, <1>2, Loading DEF CleanIsOnDisk
<1>6. SyncIsDurable' /\ WrittenSince' /\ FlushOrder'
  BY <1>1, <1>2 DEF SyncIsDurable, WrittenSince, FlushOrder
<1> QED
  BY <1>3, <1>4, <1>5, <1>6 DEF StoreInv

\* write_block, by a caller or at the start of sync.
LEMMA WriteStep ==
    ASSUME StoreInv, NEW b \in Blocks, NEW v \in Values, pc = "open", Write(b, v),
           slot' \in 1..NCarriers + 1, pc' = "open" \/ (pc' = "next" /\ slot' = 1)
    PROVE  StoreInv'
<1> DEFINE c == CarrierFor(b)
<1>1. /\ pc # "closed" /\ c \in Carriers
      /\ TypeOK /\ ReadYourWrites /\ SyncIsDurable /\ WrittenSince
  BY CarrierUnique DEF StoreInv
<1>2. /\ buffer' = [Buffer(c) EXCEPT ![b] = v] /\ loaded' = loaded \cup {c}
      /\ dirty' = dirty \cup {c} /\ view' = [view EXCEPT ![b] = v]
      /\ since' = [since EXCEPT ![b] = since[b] \cup {v}]
      /\ UNCHANGED <<file, temp, staged, synced>>
  BY DEF Write
<1>3. c = CarrierFor(b)
  OBVIOUS
<1> HIDE DEF c
<1>4. TypeOK'
  <2>1. buffer' \in [Blocks -> Values] /\ view' \in [Blocks -> Values]
    BY <1>1, <1>2, Loading DEF TypeOK
  <2>2. since' \in [Blocks -> SUBSET Values]
    BY <1>1, <1>2 DEF TypeOK
  <2> QED
    BY <1>1, <1>2, <2>1, <2>2 DEF TypeOK
<1>5. ReadYourWrites'
  <2>1. ASSUME NEW a \in Blocks PROVE Answer(a)' = view'[a]
    <3>1. CASE a = b
      BY <1>1, <1>2, <1>3, <3>1, Loading DEF Answer, TypeOK
    <3>2. CASE a # b
      <4>1. view'[a] = view[a] /\ buffer'[a] = Buffer(c)[a]
        BY <1>1, <1>2, <3>2, Loading DEF TypeOK
      <4>2. Answer(a) = view[a]
        BY <1>1 DEF ReadYourWrites
      <4> QED
        BY <1>1, <1>2, <4>1, <4>2, Loading DEF Answer
    <3> QED
      BY <3>1, <3>2
  <2> QED
    BY <2>1 DEF ReadYourWrites
<1>6. CleanIsOnDisk'
  <2>1. ASSUME NEW a \in Blocks, CarrierFor(a) \in loaded' \ dirty' PROVE buffer'[a] = file'[a]
    <3>1. a # b /\ CarrierFor(a) \in (loaded \cup {c}) \ dirty
      BY <1>2, <1>3, <2>1
    <3>2. buffer'[a] = Buffer(c)[a]
      BY <1>1, <1>2, <3>1, Loading
    <3> QED
      BY <1>1, <1>2, <3>1, <3>2, Loading
  <2> QED
    BY <2>1 DEF CleanIsOnDisk
<1>7. SyncIsDurable' /\ WrittenSince'
  BY <1>1, <1>2 DEF SyncIsDurable, WrittenSince, TypeOK
<1>8. FlushOrder'
  BY DEF FlushOrder, Carriers
<1> QED
  BY <1>4, <1>5, <1>6, <1>7, <1>8 DEF StoreInv

LEMMA FlushSteps ==
    ASSUME StoreInv, FlushStep
    PROVE  StoreInv'
<1> USE DEF StoreInv
<1>0. NCarriers \in Nat /\ NCarriers # 0
  BY GeometryAssumption DEF GeometryAssumption
<1>1. CASE SkipClean
  <2>1. /\ pc = "next" /\ slot \in Carriers \ dirty /\ slot' = slot + 1
        /\ UNCHANGED <<file, temp, staged, buffer, loaded, dirty, pc, view, synced, since>>
    BY <1>1 DEF SkipClean, history
  <2>2. TypeOK'
    BY <1>0, <2>1 DEF TypeOK, Carriers
  <2>3. FlushOrder'
    BY <1>0, <2>1 DEF FlushOrder, Carriers, TypeOK
  <2> QED
    BY <2>1, <2>2, <2>3
    DEF ReadYourWrites, Answer, CleanIsOnDisk, SyncIsDurable, WrittenSince
<1>2. CASE StartSave
  <2>1. /\ pc = "next" /\ slot \in dirty /\ pc' = "save"
        /\ temp' = [temp EXCEPT ![slot] = "partial"]
        /\ UNCHANGED <<file, staged, buffer, loaded, dirty, slot, view, synced, since>>
    BY <1>2 DEF StartSave, history
  <2> QED
    BY <2>1 DEF TypeOK, FlushOrder, ReadYourWrites, Answer, CleanIsOnDisk, SyncIsDurable,
                WrittenSince
<1>3. CASE FinishSave
  <2>1. /\ pc = "save" /\ pc' = "rename"
        /\ temp' = [temp EXCEPT ![slot] = "whole"]
        /\ staged' = [b \in Blocks |-> IF InSlot(slot, b) THEN buffer[b] ELSE staged[b]]
        /\ UNCHANGED <<file, buffer, loaded, dirty, slot, view, synced, since>>
    BY <1>3 DEF FinishSave, history
  <2> QED
    BY <2>1 DEF TypeOK, FlushOrder, ReadYourWrites, Answer, CleanIsOnDisk, SyncIsDurable,
                WrittenSince
<1>4. CASE RenameTemp
  <2>1. /\ pc = "rename" /\ pc' = "next" /\ slot' = slot + 1 /\ dirty' = dirty \ {slot}
        /\ temp' = [temp EXCEPT ![slot] = "absent"]
        /\ file' = [b \in Blocks |-> IF InSlot(slot, b) THEN staged[b] ELSE file[b]]
        /\ UNCHANGED <<staged, buffer, loaded, view, synced, since>>
    BY <1>4 DEF RenameTemp, history
  <2>2. slot \in Carriers /\ slot \in dirty /\ slot \in loaded
    BY <2>1 DEF FlushOrder, TypeOK
  <2>3. ASSUME NEW b \in Blocks
        PROVE  file'[b] = IF CarrierFor(b) = slot THEN buffer[b] ELSE file[b]
    BY <2>1, <2>2, CarrierUnique DEF FlushOrder
  <2>4. TypeOK'
    BY <1>0, <2>1, <2>2 DEF TypeOK, Carriers
  <2>5. ReadYourWrites'
    BY <2>1, <2>2, <2>3 DEF ReadYourWrites, Answer
  <2>6. CleanIsOnDisk'
    BY <2>1, <2>2, <2>3 DEF CleanIsOnDisk
  <2>7. SyncIsDurable'
    <3>1. ASSUME NEW b \in Blocks, CarrierFor(b) = slot PROVE buffer[b] = view[b]
      BY <2>1, <2>2, <3>1 DEF ReadYourWrites, Answer
    <3> QED
      BY <2>1, <2>3, <3>1 DEF SyncIsDurable, WrittenSince
  <2>8. FlushOrder'
    BY <1>0, <2>1, <2>2 DEF FlushOrder, Carriers, TypeOK
  <2> QED
    BY <2>1, <2>4, <2>5, <2>6, <2>7, <2>8 DEF WrittenSince
<1>5. CASE EndSync
  <2>1. /\ pc = "next" /\ slot \notin Carriers /\ pc' = "open" /\ slot' = 1
        /\ synced' = view /\ since' = [b \in Blocks |-> {}]
        /\ UNCHANGED <<file, temp, staged, buffer, loaded, dirty, view>>
    BY <1>5 DEF EndSync
  <2>2. \A c \in Carriers : c \notin dirty
    BY <1>0, <2>1 DEF FlushOrder, TypeOK, Carriers
  <2>3. ASSUME NEW b \in Blocks PROVE file[b] = view[b]
    BY <2>1, <2>2, CarrierUnique DEF ReadYourWrites, Answer, CleanIsOnDisk
  <2>4. TypeOK'
    BY <1>0, <2>1 DEF TypeOK
  <2> QED
    BY <2>1, <2>3, <2>4
    DEF FlushOrder, ReadYourWrites, Answer, CleanIsOnDisk, SyncIsDurable, WrittenSince
<1> QED
  BY <1>1, <1>2, <1>3, <1>4, <1>5 DEF FlushStep

LEMMA EndSteps ==
    ASSUME StoreInv, SyncFails \/ Stop \/ Open \/ OpenRefused
    PROVE  StoreInv'
<1> USE DEF StoreInv
<1>0. 1 \in 1..NCarriers + 1
  BY GeometryAssumption DEF GeometryAssumption
<1>1. CASE SyncFails
  <2>1. /\ pc # "closed" /\ pc' = "open" /\ slot' = 1
        /\ UNCHANGED <<file, temp, staged, buffer, loaded, dirty, view, synced, since>>
    BY <1>1 DEF SyncFails, history
  <2> QED
    BY <1>0, <2>1 DEF TypeOK, FlushOrder, ReadYourWrites, Answer, CleanIsOnDisk, SyncIsDurable,
                      WrittenSince
<1>2. CASE Stop
  <2>1. /\ pc' = "closed" /\ slot' = 1 /\ loaded' = {} /\ dirty' = {}
        /\ UNCHANGED <<file, temp, staged, buffer, view, synced, since>>
    BY <1>2 DEF Stop, history
  <2> QED
    BY <1>0, <2>1 DEF TypeOK, FlushOrder, ReadYourWrites, CleanIsOnDisk, SyncIsDurable,
                      WrittenSince
<1>3. CASE Open
  <2> DEFINE c == CarrierFor(BitmapBlock)
  <2>1. /\ pc = "closed" /\ pc' = "open" /\ view' = file /\ synced' = file
        /\ since' = [b \in Blocks |-> {}]
        /\ buffer' = Buffer(c) /\ loaded' = loaded \cup {c}
        /\ UNCHANGED <<file, temp, staged, dirty, slot>>
    BY <1>3 DEF Open
  <2>2. loaded = {} /\ dirty = {} /\ c \in Carriers
    BY <2>1, CarrierUnique, GeometryAssumption DEF FlushOrder, TypeOK, GeometryAssumption
  <2> HIDE DEF c
  <2>3. \A b \in Blocks : buffer'[b] = IF CarrierFor(b) = c THEN file[b] ELSE buffer[b]
    BY <2>1, <2>2, CarrierUnique DEF Buffer
  <2>4. TypeOK'
    <3>1. buffer' \in [Blocks -> Values]
      BY <2>1 DEF Buffer, TypeOK
    <3> QED
      BY <2>1, <2>2, <3>1 DEF TypeOK
  <2> QED
    BY <2>1, <2>2, <2>3, <2>4
    DEF FlushOrder, ReadYourWrites, Answer, CleanIsOnDisk, SyncIsDurable, WrittenSince
<1>4. CASE OpenRefused
  BY <1>4 DEF OpenRefused, vars, store, history, TypeOK, FlushOrder, ReadYourWrites, Answer,
              CleanIsOnDisk, SyncIsDurable, WrittenSince
<1> QED
  BY <1>1, <1>2, <1>3, <1>4

LEMMA StoreInvHolds == Spec => []StoreInv
<1>1. StoreInv /\ [Next]_vars => StoreInv'
  <2> SUFFICES ASSUME StoreInv, [Next]_vars PROVE StoreInv'
    OBVIOUS
  <2>1. CASE UNCHANGED vars
    BY <2>1 DEF vars, store, history, StoreInv, TypeOK, FlushOrder, ReadYourWrites, Answer,
                CleanIsOnDisk, SyncIsDurable, WrittenSince
  <2>2. ASSUME NEW b \in Blocks, NEW v \in Values, WriteBlock(b, v) PROVE StoreInv'
    <3>1. slot \in 1..NCarriers + 1
      BY DEF StoreInv, TypeOK
    <3> QED
      BY <2>2, <3>1, WriteStep DEF WriteBlock
  <2>3. ASSUME NEW v \in Values, BeginSync(v) PROVE StoreInv'
    <3>1. 1 \in 1..NCarriers + 1 /\ BitmapBlock \in Blocks
      BY GeometryAssumption DEF GeometryAssumption
    <3> QED
      BY <2>3, <3>1, WriteStep DEF BeginSync
  <2> QED
    BY <2>1, <2>2, <2>3, ReadStep, FlushSteps, EndSteps DEF Next
<1> QED
  BY <1>1, InitStore, PTL DEF Spec

\* The buffers, the flags of the carriers and the place where flush is keep their
\* types; a running flush is always at a carrier or past the last one.
THEOREM TypeCorrect == Spec => []TypeOK
<1>1. StoreInv => TypeOK
  BY DEF StoreInv
<1> QED
  BY <1>1, StoreInvHolds, PTL

\* Whatever is loaded, flushed, or failed to flush, read_block answers with what
\* was last written to the block in this process.
THEOREM ReadsAreCurrent == Spec => []ReadYourWrites
<1>1. StoreInv => ReadYourWrites
  BY DEF StoreInv
<1> QED
  BY <1>1, StoreInvHolds, PTL

\* No block goes back behind the last successful sync, whatever save, rename or
\* process fails in between, for every number of carriers.
THEOREM SyncedIsKept == Spec => []SyncIsDurable
<1>1. StoreInv => SyncIsDurable
  BY DEF StoreInv
<1> QED
  BY <1>1, StoreInvHolds, PTL
=============================================================================
