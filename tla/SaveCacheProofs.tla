-------------------------- MODULE SaveCacheProofs ---------------------------
(***************************************************************************)
(* Theorems about SaveCache, for any number of lines, slots and ways.      *)
(***************************************************************************)
EXTENDS SaveCache, TLAPS

LEMMA FirstSlot == 0 \in Slots
  BY CacheAssumption DEF Slots

LEMMA NextSlot == ASSUME NEW i \in Slots, i # SlotCount - 1 PROVE i + 1 \in Slots
  BY CacheAssumption DEF Slots

(* A walk that has reached the last slot has passed all the others.        *)
LEMMA Passed ==
  ASSUME NEW i \in Slots, NEW s \in Slots
  PROVE  /\ s < i + 1 => s < i \/ s = i
         /\ i = SlotCount - 1 => s < i \/ s = i
         /\ ~(s < 0)
  BY CacheAssumption DEF Slots

LEMMA InitInv == Init => IInv
<1> SUFFICES ASSUME Init PROVE IInv
  OBVIOUS
<1> USE DEF Init, PortInit
<1>1. PortTypeOK
  BY DEF PortTypeOK
<1>2. CacheTypeOK
  BY FirstSlot DEF CacheTypeOK
<1>3. CacheInv
  BY FirstSlot DEF CacheInv, Clean
<1> QED
  BY <1>1, <1>2, <1>3 DEF IInv, TypeOK

(* A step of the snapshot port touches nothing the cache's part of the     *)
(* invariant reads.                                                        *)
LEMMA PortKeepsTypes == ASSUME TypeOK, PortStep, UNCHANGED cacheVars PROVE TypeOK'
<1> USE PortAssumption DEF TypeOK, PortTypeOK, CacheTypeOK, cacheVars, servingVars
<1>1. CASE PickRequest
  BY <1>1 DEF PickRequest, Requests, LinesOf
<1>2. CASE FlushSeen
  BY <1>2 DEF FlushSeen
<1>3. CASE CopyLine
  BY <1>3 DEF CopyLine
<1> QED
  BY <1>1, <1>2, <1>3 DEF PortStep

LEMMA PortKeepsPsram == ASSUME PortStep PROVE psram' = psram
  BY DEF PortStep, PickRequest, FlushSeen, CopyLine

LEMMA TypeStep == TypeOK /\ CacheInv /\ [Next]_vars => TypeOK'
<1> SUFFICES ASSUME TypeOK, CacheInv, [Next]_vars PROVE TypeOK'
  OBVIOUS
<1> USE DEF TypeOK, PortTypeOK, CacheTypeOK, servingVars, portVars, cacheVars
<1>1. CASE FlushStart
  BY <1>1, FirstSlot DEF FlushStart
<1>2. CASE FlushSkip
  BY <1>2, NextSlot DEF FlushSkip, Advance
<1>3. CASE FlushPick
  BY <1>3 DEF FlushPick
<1>4. CASE FlushCapture
  BY <1>4 DEF FlushCapture, CacheInv, Clean
<1>5. CASE FlushComplete
  BY <1>5, NextSlot DEF FlushComplete, Advance
<1>6. CASE Serve
  BY <1>6, PortKeepsTypes DEF Serve
<1>7. CASE Disable
  BY <1>7, FirstSlot DEF Disable, PortOff, Invalidated
<1>8. CASE Enable
  BY <1>8 DEF Enable
<1>9. ASSUME NEW l \in Lines, Miss(l) PROVE TypeOK'
  BY <1>9 DEF Miss, SlotsFor, CacheInv, Clean
<1>10. ASSUME NEW l \in Lines, NEW v \in Values, Write(l, v) PROVE TypeOK'
  BY <1>10 DEF Write
<1>11. ASSUME NEW l \in Lines, NEW v \in Values, Upload(l, v) PROVE TypeOK'
  BY <1>11 DEF Upload
<1>12. ASSUME NEW b \in Blocks, NEW q \in Sequences, Ask(b, q) PROVE TypeOK'
  BY <1>12 DEF Ask, RequestBlock, Requests
<1>13. CASE UNCHANGED vars
  BY <1>13 DEF vars
<1> QED
  BY <1>1, <1>2, <1>3, <1>4, <1>5, <1>6, <1>7, <1>8, <1>9, <1>10, <1>11, <1>12, <1>13
  DEF Next, FlushStep

(* No write escapes both the walk and the two flags. *)
LEMMA CacheStep == IInv /\ [Next]_vars => CacheInv'
<1> SUFFICES ASSUME IInv, [Next]_vars PROVE CacheInv'
  OBVIOUS
<1> USE DEF IInv, TypeOK, CacheTypeOK, CacheInv, Clean, servingVars, portVars, cacheVars
<1>1. CASE FlushStart
  BY <1>1, Passed DEF FlushStart
<1>2. CASE FlushSkip
  BY <1>2, Passed DEF FlushSkip, Advance
<1>3. CASE FlushPick
  BY <1>3 DEF FlushPick
<1>4. CASE FlushCapture
  BY <1>4 DEF FlushCapture, PortTypeOK
<1>5. CASE FlushComplete
  BY <1>5, Passed DEF FlushComplete, Advance
<1>6. CASE Serve
  BY <1>6, PortKeepsPsram DEF Serve
<1>7. CASE Disable
  BY <1>7 DEF Disable, Invalidated
<1>8. CASE Enable
  BY <1>8 DEF Enable
<1>9. ASSUME NEW l \in Lines, Miss(l) PROVE CacheInv'
  BY <1>9 DEF Miss, SlotsFor, Cached
<1>10. ASSUME NEW l \in Lines, NEW v \in Values, Write(l, v) PROVE CacheInv'
  <2>1. PICK s \in Slots :
          /\ tag[s] = l /\ ~BlockedByFlush(l)
          /\ data' = [data EXCEPT ![s] = v]
          /\ dirty_bit' = [dirty_bit EXCEPT ![s] = TRUE]
    BY <1>10 DEF Write
  <2>2. /\ enabled /\ dirty_seen'
        /\ flush_state # "idle" => dirty_during_flush'
        /\ UNCHANGED <<psram, enabled, tag, flush_state, flush_index>>
    BY <1>10 DEF Write
  <2>3. l # NoLine
    BY CacheAssumption
  <2>4. flush_state \in {"wait", "captured"} => s # flush_index
    BY <2>1, <2>3 DEF BlockedByFlush
  <2> QED
    BY <2>1, <2>2, <2>3, <2>4
<1>11. ASSUME NEW l \in Lines, NEW v \in Values, Upload(l, v) PROVE CacheInv'
  BY <1>11 DEF Upload
<1>12. ASSUME NEW b \in Blocks, NEW q \in Sequences, Ask(b, q) PROVE CacheInv'
  BY <1>12 DEF Ask, RequestBlock
<1>13. CASE UNCHANGED vars
  BY <1>13 DEF vars
<1> QED
  BY <1>1, <1>2, <1>3, <1>4, <1>5, <1>6, <1>7, <1>8, <1>9, <1>10, <1>11, <1>12, <1>13
  DEF Next, FlushStep

THEOREM Invariance == Spec => []IInv
<1>1. IInv /\ [Next]_vars => IInv'
  BY TypeStep, CacheStep DEF IInv
<1>2. QED
  BY InitInv, <1>1, PTL DEF Spec

(* The variables stay in their types. *)
THEOREM TypeCorrect == Spec => []TypeOK
  BY Invariance, PTL DEF IInv

-----------------------------------------------------------------------------
(* What the game sees of a cached line is its slot, of any other PSRAM. *)

ViewFacts == /\ View = [l \in Lines |-> View[l]]
             /\ \A s \in Slots : tag[s] # NoLine => tag[s] \in Lines /\ View[tag[s]] = data[s]
             /\ \A l \in Lines : (\A s \in Slots : tag[s] # l) => View[l] = psram[l]

LEMMA ViewOf == IInv => ViewFacts
<1> SUFFICES ASSUME IInv PROVE ViewFacts
  OBVIOUS
<1>1. ASSUME NEW s \in Slots, tag[s] # NoLine
      PROVE  tag[s] \in Lines /\ View[tag[s]] = data[s]
  <2>1. tag[s] \in Lines
    BY <1>1 DEF IInv, CacheInv
  <2>2. SlotOf(tag[s]) \in Slots /\ tag[SlotOf(tag[s])] = tag[s]
    BY DEF SlotOf
  <2>3. SlotOf(tag[s]) = s
    BY <1>1, <2>2 DEF IInv, CacheInv
  <2> QED
    BY <2>1, <2>3 DEF View, Cached
<1>2. ASSUME NEW l \in Lines, \A s \in Slots : tag[s] # l
      PROVE  View[l] = psram[l]
  BY <1>2 DEF View, Cached
<1>3. View = [l \in Lines |-> View[l]]
  BY DEF View
<1> QED
  BY <1>1, <1>2, <1>3 DEF ViewFacts

LEMMA ViewOfNext == IInv' => ViewFacts'
  BY ViewOf, PTL

(* There is no difference where every slot agrees with PSRAM. *)
LEMMA AgreeingView ==
  ASSUME IInv, \A s \in Slots : tag[s] # NoLine => data[s] = psram[tag[s]]
  PROVE  psram = View
<1>1. ASSUME NEW l \in Lines PROVE psram[l] = View[l]
  <2>1. l # NoLine
    BY CacheAssumption
  <2> QED
    BY <2>1, ViewOf DEF ViewFacts
<1>2. psram = [l \in Lines |-> psram[l]]
  BY DEF IInv, TypeOK, PortTypeOK
<1> QED
  BY <1>1, <1>2, ViewOf DEF ViewFacts

(* While the dirty flag is down PSRAM is the save. *)
THEOREM CleanSave == Spec => []CleanMeansStored
<1>1. IInv => CleanMeansStored
  BY AgreeingView DEF IInv, CacheInv, CleanMeansStored
<1>2. QED
  BY Invariance, <1>1, PTL

-----------------------------------------------------------------------------
(* Every step of the cache is a step of the memory, or none. *)

LEMMA InitMaps == Init => Memory!MemoryInit
<1> SUFFICES ASSUME Init PROVE Memory!MemoryInit
  OBVIOUS
<1>1. IInv
  BY InitInv
<1>2. psram = View
  BY <1>1, AgreeingView DEF Init
<1> QED
  BY <1>2 DEF Init, PortInit, Memory!MemoryInit, Memory!PortInit, Memory!Off

(* What the game sees changes only with what is in the slots and in PSRAM. *)
LEMMA ViewStays ==
  ASSUME UNCHANGED <<tag, data, psram>>
  PROVE  View' = View
  BY DEF View, Cached, SlotOf

LEMMA DrainMaps ==
  ASSUME IInv, IInv',
         NEW s \in Slots, tag[s] # NoLine,
         psram' = [psram EXCEPT ![tag[s]] = data[s]],
         \A l \in Lines : View'[l] = View[l]
  PROVE  View' = View /\ psram' = [psram EXCEPT ![tag[s]] = View[tag[s]]]
  BY ViewOf, ViewOfNext DEF ViewFacts

LEMMA WalkEnds ==
  ASSUME IInv, flush_state # "idle", flush_index = SlotCount - 1,
         Clean(flush_index) \/ flush_state = "captured"
  PROVE  dirty_during_flush \/ psram = View
<1> SUFFICES ASSUME ~dirty_during_flush PROVE psram = View
  OBVIOUS
<1>1. flush_index \in Slots
  BY DEF IInv, TypeOK, CacheTypeOK
<1>2. \A s \in Slots : tag[s] # NoLine => data[s] = psram[tag[s]]
  BY <1>1, Passed DEF IInv, CacheInv
<1> QED
  BY <1>2, AgreeingView

LEMMA AdvanceMaps ==
  ASSUME IInv, Advance, flush_state # "idle",
         Clean(flush_index) \/ flush_state = "captured",
         UNCHANGED <<psram, request, servingVars, flush_asked, enabled,
                     tag, data, dirty_during_flush>>
  PROVE  Memory!EndFlush \/ UNCHANGED Memory!memoryVars
<1>1. View' = View
  BY ViewStays
<1>2. CASE flush_index = SlotCount - 1
  <2>1. dirty_during_flush \/ psram = View
    BY <1>2, WalkEnds
  <2> QED
    BY <1>1, <1>2, <2>1 DEF Advance, Memory!EndFlush, Memory!servingVars, servingVars
<1>3. CASE flush_index # SlotCount - 1
  BY <1>1, <1>3
  DEF Advance, Memory!memoryVars, Memory!portVars, Memory!hostVars,
      Memory!servingVars, servingVars
<1> QED
  BY <1>2, <1>3

LEMMA CaptureMaps ==
  ASSUME IInv, IInv', FlushCapture
  PROVE  Memory!Drain(tag[flush_index]) /\ tag[flush_index] \in Lines
<1>1. flush_index \in Slots /\ tag[flush_index] # NoLine /\ enabled
  BY DEF IInv, TypeOK, CacheTypeOK, CacheInv, FlushCapture
<1>2. UNCHANGED <<tag, data>> /\ psram' = [psram EXCEPT ![tag[flush_index]] = data[flush_index]]
  BY DEF FlushCapture
<1>3. ASSUME NEW l \in Lines PROVE View'[l] = View[l]
  <2>1. CASE \E s \in Slots : tag[s] = l
    <3>1. l # NoLine
      BY CacheAssumption
    <3> QED
      BY <1>2, <2>1, <3>1, ViewOf, ViewOfNext DEF ViewFacts
  <2>2. CASE \A s \in Slots : tag[s] # l
    BY <1>1, <1>2, <2>2, ViewOf, ViewOfNext DEF ViewFacts, IInv, TypeOK, PortTypeOK
  <2> QED
    BY <2>1, <2>2
<1>4. View' = View /\ psram' = [psram EXCEPT ![tag[flush_index]] = View[tag[flush_index]]]
  BY <1>1, <1>2, <1>3, DrainMaps
<1>5. tag[flush_index] \in Lines
  BY <1>1, ViewOf DEF ViewFacts
<1> QED
  BY <1>1, <1>4, <1>5
  DEF FlushCapture, Memory!Drain, Memory!hostVars, Memory!servingVars, servingVars

LEMMA MissMaps ==
  ASSUME IInv, IInv', NEW m \in Lines, Miss(m)
  PROVE  (\E l \in Lines : Memory!Drain(l)) \/ UNCHANGED Memory!memoryVars
<1>1. PICK s \in Slots :
        /\ psram' = IF dirty_bit[s] THEN [psram EXCEPT ![tag[s]] = data[s]] ELSE psram
        /\ tag' = [tag EXCEPT ![s] = m]
        /\ data' = [data EXCEPT ![s] = psram[m]]
  BY DEF Miss, SlotsFor
<1>2. /\ enabled /\ \A t \in Slots : tag[t] # m
      /\ UNCHANGED <<request, servingVars, flush_asked, flush_done, enabled,
                     dirty_seen, dirty_during_flush, flush_state>>
  BY DEF Miss, Cached
<1>3. m # NoLine
  BY CacheAssumption
<1> USE DEF IInv, TypeOK, PortTypeOK, CacheTypeOK
<1>4. tag[s] # NoLine => tag[s] \in Lines /\ tag[s] # m
  BY <1>2, ViewOf DEF ViewFacts
<1>5. ~dirty_bit[s] /\ tag[s] # NoLine => data[s] = psram[tag[s]]
  BY DEF CacheInv, Clean
<1>6. tag[s] = NoLine => ~dirty_bit[s]
  BY DEF CacheInv, Clean
<1>7. psram'[m] = psram[m]
  BY <1>1, <1>4, <1>6
<1>8. ASSUME NEW l \in Lines PROVE View'[l] = View[l]
  <2>1. CASE l = m
    <3>1. View'[m] = data'[s]
      BY <1>1, <1>3, ViewOfNext DEF ViewFacts
    <3>2. View[m] = psram[m]
      BY <1>2, ViewOf DEF ViewFacts
    <3> QED
      BY <1>1, <2>1, <3>1, <3>2
  <2>2. CASE l # m /\ tag[s] = l
    <3>1. l # NoLine /\ View[l] = data[s]
      BY <2>2, CacheAssumption, ViewOf DEF ViewFacts
    <3>2. \A t \in Slots : tag'[t] # l
      BY <1>1, <2>2, <3>1 DEF CacheInv
    <3>3. View'[l] = psram'[l]
      BY <3>2, ViewOfNext DEF ViewFacts
    <3> QED
      BY <1>1, <1>5, <2>2, <3>1, <3>3
  <2>3. CASE l # m /\ tag[s] # l /\ \E t \in Slots : tag[t] = l
    <3>1. PICK t \in Slots : tag[t] = l
      BY <2>3
    <3>2. t # s /\ l # NoLine /\ tag'[t] = l /\ data'[t] = data[t]
      BY <1>1, <2>3, <3>1, CacheAssumption
    <3> QED
      BY <3>1, <3>2, ViewOf, ViewOfNext DEF ViewFacts
  <2>4. CASE l # m /\ \A t \in Slots : tag[t] # l
    <3>1. \A t \in Slots : tag'[t] # l
      BY <1>1, <2>4
    <3>2. psram'[l] = psram[l]
      BY <1>1, <1>6, <2>4
    <3> QED
      BY <2>4, <3>1, <3>2, ViewOf, ViewOfNext DEF ViewFacts
  <2> QED
    BY <2>1, <2>2, <2>3, <2>4
<1>9. CASE dirty_bit[s]
  <2>1. View' = View /\ psram' = [psram EXCEPT ![tag[s]] = View[tag[s]]]
    BY <1>1, <1>6, <1>8, <1>9, DrainMaps
  <2> QED
    BY <1>2, <1>4, <1>6, <1>9, <2>1
    DEF Memory!Drain, Memory!hostVars, Memory!servingVars, servingVars
<1>10. CASE ~dirty_bit[s]
  <2>1. View' = View
    BY <1>8, ViewOf, ViewOfNext DEF ViewFacts
  <2> QED
    BY <1>1, <1>2, <1>10, <2>1
    DEF Memory!memoryVars, Memory!portVars, Memory!hostVars, Memory!servingVars, servingVars
<1> QED
  BY <1>9, <1>10

LEMMA WriteMaps ==
  ASSUME IInv, IInv', NEW m \in Lines, NEW v \in Values, Write(m, v)
  PROVE  Memory!Write(m, v)
<1>1. PICK s \in Slots : tag[s] = m /\ data' = [data EXCEPT ![s] = v]
  BY DEF Write
<1>2. UNCHANGED <<psram, tag>>
  BY DEF Write, portVars
<1>3. ASSUME NEW l \in Lines
      PROVE  View'[l] = IF l = m THEN v ELSE View[l]
  <2>1. l # NoLine
    BY CacheAssumption
  <2>2. CASE \E t \in Slots : tag[t] = l
    <3>1. PICK t \in Slots : tag[t] = l
      BY <2>2
    <3>2. t = s <=> l = m
      BY <1>1, <2>1, <3>1 DEF IInv, CacheInv
    <3>3. View'[l] = data'[t] /\ View[l] = data[t]
      BY <1>2, <2>1, <3>1, ViewOf, ViewOfNext DEF ViewFacts
    <3> QED
      BY <1>1, <3>2, <3>3 DEF IInv, TypeOK, CacheTypeOK
  <2>3. CASE \A t \in Slots : tag[t] # l
    BY <1>1, <1>2, <2>3, ViewOf, ViewOfNext DEF ViewFacts
  <2> QED
    BY <2>2, <2>3
<1>4. View' = [View EXCEPT ![m] = v]
  BY <1>3, ViewOf, ViewOfNext DEF ViewFacts
<1> QED
  BY <1>4
  DEF Write, Memory!Write, Memory!portVars, portVars, Memory!servingVars, servingVars

LEMMA StepMaps == IInv /\ IInv' /\ [Next]_vars => [Memory!MemoryNext]_(Memory!memoryVars)
<1> SUFFICES ASSUME IInv, IInv', [Next]_vars
             PROVE  [Memory!MemoryNext]_(Memory!memoryVars)
  OBVIOUS
<1> DEFINE Still == UNCHANGED Memory!memoryVars
<1> USE DEF Memory!memoryVars, Memory!portVars, Memory!hostVars, Memory!servingVars,
            servingVars, portVars
<1>1. ASSUME FlushStart PROVE Memory!StartFlush
  <2>1. View' = View
    BY <1>1, ViewStays DEF FlushStart
  <2> QED
    BY <1>1, <2>1 DEF FlushStart, Memory!StartFlush
<1>2. ASSUME FlushSkip PROVE Memory!EndFlush \/ Still
  BY <1>2, AdvanceMaps DEF FlushSkip, Clean
<1>3. ASSUME FlushPick PROVE Still
  <2>1. View' = View
    BY <1>3, ViewStays DEF FlushPick
  <2> QED
    BY <1>3, <2>1 DEF FlushPick
<1>4. ASSUME FlushCapture PROVE \E l \in Lines : Memory!Drain(l)
  BY <1>4, CaptureMaps
<1>5. ASSUME FlushComplete PROVE Memory!EndFlush \/ Still
  BY <1>5, AdvanceMaps DEF FlushComplete
<1>6. ASSUME Serve PROVE Memory!ServeSnapshot
  <2>1. View' = View
    BY <1>6, ViewStays, PortKeepsPsram DEF Serve, cacheVars
  <2>2. Memory!PortStep
    BY <1>6
    DEF Serve, PortStep, PickRequest, FlushSeen, CopyLine, LinesOf,
        Memory!PortStep, Memory!PickRequest, Memory!FlushSeen, Memory!CopyLine,
        Memory!LinesOf
  <2> QED
    BY <1>6, <2>1, <2>2 DEF Serve, cacheVars, Memory!ServeSnapshot
<1>7. ASSUME Disable PROVE Memory!Disable
  <2>1. \A l \in Lines, s \in Slots : tag'[s] # l
    BY <1>7, CacheAssumption DEF Disable, Invalidated
  <2>2. \A l \in Lines : View'[l] = psram[l]
    BY <1>7, <2>1, ViewOfNext DEF ViewFacts, Disable
  <2>3. View' = psram
    BY <2>2, ViewOfNext DEF ViewFacts, IInv, TypeOK, PortTypeOK
  <2> QED
    BY <1>7, <2>3 DEF Disable, PortOff, Memory!Disable, Memory!PortOff
<1>8. ASSUME Enable PROVE Memory!Enable
  <2>1. View' = View
    BY <1>8, ViewStays DEF Enable
  <2> QED
    BY <1>8, <2>1 DEF Enable, Memory!Enable
<1>9. ASSUME NEW m \in Lines, Miss(m) PROVE (\E l \in Lines : Memory!Drain(l)) \/ Still
  BY <1>9, MissMaps
<1>10. ASSUME NEW m \in Lines, NEW v \in Values, Write(m, v) PROVE Memory!Write(m, v)
  BY <1>10, WriteMaps
<1>11. ASSUME NEW m \in Lines, NEW v \in Values, Upload(m, v) PROVE Memory!Upload(m, v)
  <2>1. \A l \in Lines, s \in Slots : tag[s] # l
    BY <1>11, CacheAssumption DEF Upload, IInv, CacheInv
  <2>2. /\ psram' = [psram EXCEPT ![m] = v]
        /\ UNCHANGED tag
    BY <1>11 DEF Upload, cacheVars
  <2>3. \A l \in Lines : View[l] = psram[l] /\ View'[l] = psram'[l]
    BY <2>1, <2>2, ViewOf, ViewOfNext DEF ViewFacts
  <2>4. View' = [View EXCEPT ![m] = v]
    BY <2>2, <2>3, ViewOf, ViewOfNext DEF ViewFacts, IInv, TypeOK, PortTypeOK
  <2> QED
    BY <1>11, <2>4 DEF Upload, cacheVars, Memory!Upload
<1>12. ASSUME NEW b \in Blocks, NEW q \in Sequences, Ask(b, q) PROVE Memory!AskBlock(b, q)
  <2>1. View' = View
    BY <1>12, ViewStays DEF Ask, RequestBlock, cacheVars
  <2> QED
    BY <1>12, <2>1 DEF Ask, cacheVars, RequestBlock, Memory!AskBlock, Memory!RequestBlock
<1>13. ASSUME UNCHANGED vars PROVE Still
  <2>1. View' = View
    BY <1>13, ViewStays DEF vars, cacheVars
  <2> QED
    BY <1>13, <2>1 DEF vars, cacheVars
<1> QED
  BY <1>1, <1>2, <1>3, <1>4, <1>5, <1>6, <1>7, <1>8, <1>9, <1>10, <1>11, <1>12, <1>13
  DEF Next, FlushStep, Memory!MemoryNext, Memory!MemoryStep

(* The write-back cache and its flush walk implement the memory that the   *)
(* microcontroller's save protocol relies on.                              *)
THEOREM Refinement == Spec => BehavesAsMemory
<1>1. Spec => []IInv
  BY Invariance
<1>2. QED
  BY InitMaps, StepMaps, <1>1, PTL DEF Spec, BehavesAsMemory, Memory!MemorySpec
=============================================================================
