------------------------ MODULE SegmentedPool_proofs ------------------------
(***************************************************************************)
(* Proofs about SegmentedPool, for any set of threads, any cap and both    *)
(* kinds of users.  Ownership comes first: it rests on the two flags and   *)
(* the published set alone, not on the length.                             *)
(***************************************************************************)
EXTENDS SegmentedPool, FiniteSetTheorems, TLAPS

\* program points at which idx[t] is the index of a slot
AtSlot == {"plant", "check", "claim", "disable", "append", "appendCas",
           "extend", "own", "closing", "free"}

\* what the flags and the program counters imply about each other
Flags == /\ enabled \subseteq allocated
         /\ allocated \subseteq published
         /\ \A t \in Threads :
               /\ pc[t] \in AtSlot => idx[t] \in Ids
               /\ pc[t] \in Claiming \cup Closing => idx[t] \in allocated
               /\ pc[t] \in {"check", "claim"} => idx[t] \in published
               /\ pc[t] \in {"scan", "plant", "check", "claim"} => limit[t] <= MaxLive

Ownership == TypeOK /\ Flags /\ ExclusiveClaim /\ NoLeakedSlot

(* A scan never visits an index at or past the cap, whatever the length     *)
(* overshoots.                                                              *)
LEMMA LimitBound == TypeOK => ScanLimit \in Nat /\ ScanLimit <= MaxLive
  BY MaxLiveAssumption DEF TypeOK, ScanLimit

(* Every step keeps the types of the pool's state.                          *)
LEMMA TypeStep == ASSUME TypeOK, Flags, SizeSettles, [Next]_vars PROVE TypeOK'
<1> USE MaxLiveAssumption, ThreadsAssumption, SerialisedAssumption
    DEF PCs, Goto, NextIndex
<1>1. CASE UNCHANGED vars
  BY <1>1 DEF TypeOK, vars
<1>2. ASSUME NEW t \in Threads, ThreadStep(t) PROVE TypeOK'
  <2>1. CASE Obtain(t)
    BY <2>1 DEF TypeOK, Obtain, Lock
  <2>2. CASE FirstScan(t) \/ SecondScan(t)
    BY <2>2, LimitBound DEF TypeOK, FirstScan, SecondScan, StartScan
  <2>3. CASE ScanLoad(t) \/ ScanEnd(t) \/ Append(t)
    BY <2>3 DEF TypeOK, ScanLoad, ScanEnd, Append
  <2>4. CASE ScanPlant(t)
    BY <2>4 DEF TypeOK, Flags, AtSlot, ScanPlant, Taken
  <2>5. CASE ScanCheck(t)
    BY <2>5 DEF TypeOK, ScanCheck
  <2>6. CASE ScanClaim(t)
    BY <2>6 DEF TypeOK, Flags, AtSlot, ScanClaim, Taken
  <2>7. CASE ScanDisable(t)
    BY <2>7 DEF TypeOK, ScanDisable
  <2>8. CASE Reserve(t)
    BY <2>8 DEF TypeOK, Reserve
  <2>9. CASE Unreserve(t)
    <3>1. t \in Overshoot /\ IsFiniteSet(Overshoot)
      BY <2>9, FS_Subset DEF Unreserve, Overshoot
    <3>2. Cardinality(Overshoot) \in Nat
      BY <3>1, FS_CardinalityType
    <3>3. size >= 1
      BY <3>1, <3>2 DEF SizeSettles, TypeOK
    <3> QED
      BY <2>9, <3>3 DEF TypeOK, Unreserve
  <2>10. CASE AppendCas(t)
    BY <2>10 DEF TypeOK, Flags, AtSlot, AppendCas, Taken
  <2>11. CASE Extend(t)
    BY <2>11 DEF TypeOK, Extend
  <2>12. CASE Full(t) \/ Free(t)
    BY <2>12 DEF TypeOK, Full, Free, Unlock
  <2>13. CASE Enable(t)
    BY <2>13 DEF TypeOK, Flags, AtSlot, Enable, Unlock
  <2>14. ASSUME NEW i \in Ids, Close(t, i) PROVE TypeOK'
    <3>1. i \in Nat
      BY MaxLiveAssumption DEF Ids
    <3> QED
      BY <2>14, <3>1 DEF TypeOK, Close, Lock
  <2>15. CASE Shrink(t)
    <3>1. size' \in 0 .. size \/ size' = size
      BY <2>15 DEF Shrink
    <3>2. size' \in Nat
      BY <3>1 DEF TypeOK
    <3> QED
      BY <2>15, <3>2 DEF TypeOK, Shrink
  <2> QED
    BY <1>2, <2>1, <2>2, <2>3, <2>4, <2>5, <2>6, <2>7, <2>8, <2>9, <2>10, <2>11,
       <2>12, <2>13, <2>14, <2>15 DEF ThreadStep, ObtainStep
<1> QED
  BY <1>1, <1>2 DEF Next

(* The flags and the program counters stay consistent: a slot is claimed    *)
(* through exactly one of the two CAS operations.                           *)
LEMMA FlagsStep == ASSUME Ownership, TypeOK', [Next]_vars PROVE Flags'
<1> USE DEF PCs, Goto, NextIndex, AtSlot, Claiming, Closing
<1>0. TypeOK /\ Flags
  BY DEF Ownership
<1>1. CASE UNCHANGED vars
  BY <1>0, <1>1 DEF TypeOK, Flags, vars
<1>2. ASSUME NEW t \in Threads, ThreadStep(t) PROVE Flags'
  <2>1. CASE Obtain(t) \/ Full(t)
    BY <1>0, <2>1 DEF TypeOK, Flags, Obtain, Full
  <2>2. CASE FirstScan(t) \/ SecondScan(t)
    BY <1>0, <2>2, LimitBound DEF TypeOK, Flags, FirstScan, SecondScan, StartScan
  <2>3. CASE ScanLoad(t)
    <3>1. idx[t] \in Ids
      BY <1>0, <2>3, MaxLiveAssumption DEF TypeOK, Flags, Ids, ScanLoad
    <3> QED
      BY <1>0, <2>3, <3>1 DEF TypeOK, Flags, ScanLoad
  <2>4. CASE ScanPlant(t)
    BY <1>0, <2>4 DEF TypeOK, Flags, ScanPlant
  <2>5. CASE ScanCheck(t)
    BY <1>0, <2>5 DEF TypeOK, Flags, ScanCheck
  <2>6. CASE ScanClaim(t)
    BY <1>0, <2>6 DEF TypeOK, Flags, ScanClaim
  <2>7. CASE ScanDisable(t)
    BY <1>0, <2>7 DEF TypeOK, Flags, ScanDisable
  <2>8. CASE Reserve(t)
    <3>1. size < MaxLive => size \in Ids
      BY <1>0, MaxLiveAssumption DEF TypeOK, Ids
    <3> QED
      BY <1>0, <2>8, <3>1, MaxLiveAssumption DEF TypeOK, Flags, Reserve
  <2>9. CASE Unreserve(t) \/ ScanEnd(t) \/ Append(t) \/ Extend(t)
    BY <1>0, <2>9 DEF TypeOK, Flags, Unreserve, ScanEnd, Append, Extend
  <2>10. CASE AppendCas(t)
    BY <1>0, <2>10 DEF TypeOK, Flags, AppendCas
  <2>11. CASE Enable(t)
    BY <1>0, <2>11 DEF TypeOK, Flags, Enable
  <2>12. ASSUME NEW i \in Ids, Close(t, i) PROVE Flags'
    BY <1>0, <2>12 DEF TypeOK, Flags, Close
  <2>13. CASE Shrink(t)
    BY <1>0, <2>13 DEF TypeOK, Flags, Shrink
  <2>14. CASE Free(t)
    <3>1. \A u \in Threads \ {t} : pc[u] \in Claiming \cup Closing => idx[u] # idx[t]
      BY <1>0, <2>14 DEF Ownership, ExclusiveClaim, Holds, Flags, Free
    <3>2. idx[t] \notin enabled
      BY <1>0, <2>14 DEF Ownership, ExclusiveClaim, Holds, Flags, Free
    <3> QED
      BY <1>0, <2>14, <3>1, <3>2 DEF TypeOK, Flags, Free
  <2> QED
    BY <1>2, <2>1, <2>2, <2>3, <2>4, <2>5, <2>6, <2>7, <2>8, <2>9, <2>10, <2>11,
       <2>12, <2>13, <2>14 DEF ThreadStep, ObtainStep
<1> QED
  BY <1>1, <1>2 DEF Next

(* Every step keeps exclusive ownership: only a CAS that saw the slot free  *)
(* makes a thread its holder.                                               *)
LEMMA ExclusiveStep ==
    ASSUME Ownership, TypeOK', [Next]_vars PROVE ExclusiveClaim' /\ NoLeakedSlot'
<1> USE DEF PCs, Goto, NextIndex, AtSlot, Claiming, Closing, Holds
<1>0. TypeOK /\ Flags /\ ExclusiveClaim /\ NoLeakedSlot
  BY DEF Ownership
<1> USE <1>0
<1>1. CASE UNCHANGED vars
  BY <1>1 DEF TypeOK, ExclusiveClaim, NoLeakedSlot, vars
<1>2. ASSUME NEW t \in Threads, ThreadStep(t)
      PROVE  ExclusiveClaim' /\ NoLeakedSlot'
  \* steps that neither take nor give up a slot
  <2>1. CASE \/ Obtain(t) \/ Full(t) \/ FirstScan(t) \/ SecondScan(t)
             \/ ScanLoad(t) \/ ScanCheck(t) \/ ScanEnd(t) \/ Reserve(t)
             \/ Unreserve(t) \/ Append(t)
    <3>1. UNCHANGED <<allocated, enabled>>
      BY <2>1 DEF Obtain, Full, FirstScan, SecondScan, StartScan, ScanLoad,
                  ScanCheck, ScanEnd, Reserve, Unreserve, Append
    <3>2. pc[t] \notin Claiming \cup Closing /\ pc'[t] \notin Claiming \cup Closing
      BY <2>1 DEF TypeOK, Obtain, Full, FirstScan, SecondScan, StartScan, ScanLoad,
                  ScanCheck, ScanEnd, Reserve, Unreserve, Append
    <3>3. \A u \in Threads \ {t} : pc'[u] = pc[u] /\ idx'[u] = idx[u]
      BY <2>1 DEF TypeOK, Obtain, Full, FirstScan, SecondScan, StartScan, ScanLoad,
                  ScanCheck, ScanEnd, Reserve, Unreserve, Append
    <3>4. \A u \in Threads, i \in Ids : Holds(u, i)' = Holds(u, i)
      BY <3>2, <3>3
    <3> QED
      BY <3>1, <3>4 DEF TypeOK, ExclusiveClaim, NoLeakedSlot
  \* the two ways to take a slot
  <2>2. CASE ScanPlant(t) \/ ScanClaim(t) \/ AppendCas(t)
    <3>1. \A u \in Threads \ {t} : pc'[u] = pc[u] /\ idx'[u] = idx[u]
      BY <2>2 DEF TypeOK, ScanPlant, ScanClaim, AppendCas
    <3>2. UNCHANGED enabled /\ idx[t] \in Ids /\ pc[t] \notin Claiming \cup Closing
      BY <2>2 DEF Flags, ScanPlant, ScanClaim, AppendCas
    <3>3. CASE pc'[t] \in Claiming \cup Closing
      <4>1. allocated' = allocated \cup {idx[t]} /\ idx'[t] = idx[t]
        BY <2>2, <3>3 DEF TypeOK, ScanPlant, ScanClaim, AppendCas
      <4>2. idx[t] \notin allocated
        BY <2>2, <3>3 DEF TypeOK, Flags, ScanPlant, ScanClaim, AppendCas
      <4>3. idx[t] \notin enabled /\ \A u \in Threads : ~Holds(u, idx[t])
        BY <4>2 DEF Flags
      <4>4. ExclusiveClaim'
        BY <3>1, <3>2, <4>1, <4>3 DEF ExclusiveClaim
      <4>5. NoLeakedSlot'
        BY <3>1, <3>2, <3>3, <4>1 DEF NoLeakedSlot
      <4> QED
        BY <4>4, <4>5
    <3>4. CASE pc'[t] \notin Claiming \cup Closing
      <4>1. allocated' = allocated
        BY <2>2, <3>4 DEF TypeOK, ScanPlant, ScanClaim, AppendCas
      <4>2. \A u \in Threads, i \in Ids : Holds(u, i)' = Holds(u, i)
        BY <3>1, <3>2, <3>4
      <4> QED
        BY <3>2, <4>1, <4>2 DEF TypeOK, ExclusiveClaim, NoLeakedSlot
    <3> QED
      BY <3>3, <3>4
  \* steps of the holder
  <2>3. CASE ScanDisable(t) \/ Extend(t) \/ Shrink(t)
    <3>1. idx[t] \in Ids /\ Holds(t, idx[t])
      BY <2>3 DEF Flags, ScanDisable, Extend, Shrink
    <3>2. UNCHANGED <<allocated, enabled, idx>>
      BY <2>3, <3>1 DEF ExclusiveClaim, ScanDisable, Extend, Shrink
    <3>3. \A u \in Threads, i \in Ids : Holds(u, i)' = Holds(u, i)
      BY <2>3, <3>2 DEF TypeOK, ScanDisable, Extend, Shrink
    <3> QED
      BY <3>2, <3>3 DEF TypeOK, ExclusiveClaim, NoLeakedSlot
  <2>4. CASE Enable(t)
    <3>1. idx[t] \in Ids /\ \A u \in Threads \ {t} : ~Holds(u, idx[t])
      BY <2>4 DEF Flags, ExclusiveClaim, Enable
    <3>2. /\ enabled' = enabled \cup {idx[t]}
          /\ UNCHANGED <<allocated, idx>>
          /\ pc'[t] = "idle"
          /\ \A u \in Threads \ {t} : pc'[u] = pc[u]
      BY <2>4 DEF TypeOK, Enable
    <3> QED
      BY <3>1, <3>2 DEF ExclusiveClaim, NoLeakedSlot
  <2>5. ASSUME NEW i \in Ids, Close(t, i) PROVE ExclusiveClaim' /\ NoLeakedSlot'
    <3>1. \A u \in Threads : ~Holds(u, i)
      BY <2>5 DEF ExclusiveClaim, Close
    <3>2. /\ enabled' = enabled \ {i}
          /\ UNCHANGED allocated
          /\ pc[t] = "idle" /\ pc'[t] = "closing" /\ idx'[t] = i
          /\ \A u \in Threads \ {t} : pc'[u] = pc[u] /\ idx'[u] = idx[u]
      BY <2>5 DEF TypeOK, Close
    <3>3. ExclusiveClaim'
      BY <3>1, <3>2 DEF ExclusiveClaim
    <3>4. NoLeakedSlot'
      BY <3>2 DEF NoLeakedSlot
    <3> QED
      BY <3>3, <3>4
  <2>6. CASE Free(t)
    <3>1. /\ allocated' = allocated \ {idx[t]}
          /\ UNCHANGED <<enabled, idx>>
          /\ pc'[t] = "idle"
          /\ \A u \in Threads \ {t} : pc'[u] = pc[u]
      BY <2>6 DEF TypeOK, Free
    <3> QED
      BY <3>1 DEF ExclusiveClaim, NoLeakedSlot
  <2> QED
    BY <1>2, <2>1, <2>2, <2>3, <2>4, <2>5, <2>6 DEF ThreadStep, ObtainStep
<1> QED
  BY <1>1, <1>2 DEF Next

----------------------------------------------------------------------------
(* The length *)

\* program points whose index is below the length
BelowPoints == {"plant", "check", "claim", "disable", "append", "appendCas",
                "extend", "own"}

\* filters_mutex is held by the thread that is inside a call
Mutex == Serialised => \A t \in Threads : pc[t] # "idle" => mutex = t

\* indices in use stay below the length while it rises, overshoots and shrinks
Below == \A t \in Threads :
            /\ pc[t] \in BelowPoints => idx[t] < size
            /\ pc[t] \in {"scan", "plant", "check", "claim"} => limit[t] <= size
            /\ pc[t] = "rescan" => size >= MaxLive

LengthInv == /\ Ownership
             /\ Mutex
             /\ Below
             /\ SizeSettles
             /\ LiveBelowSize

(* Only finitely many threads are between fetch_add and fetch_sub at once.  *)
LEMMA OvershootFinite ==
    IsFiniteSet(Overshoot) /\ Cardinality(Overshoot) \in Nat
BY ThreadsAssumption, FS_Subset, FS_CardinalityType DEF Overshoot

(* The filters pool has at most one thread inside a call.                   *)
LEMMA MutexStep == ASSUME LengthInv, TypeOK', [Next]_vars PROVE Mutex'
<1>0. TypeOK /\ Mutex
  BY DEF LengthInv, Ownership
<1> SUFFICES ASSUME Serialised PROVE \A t \in Threads : pc'[t] # "idle" => mutex' = t
  BY DEF Mutex
<1> USE <1>0, ThreadsAssumption DEF Mutex, TypeOK, Goto, NextIndex
<1>1. CASE UNCHANGED vars
  BY <1>1 DEF vars
<1>2. ASSUME NEW t \in Threads, ThreadStep(t)
      PROVE  \A u \in Threads : pc'[u] # "idle" => mutex' = u
  <2>1. CASE Obtain(t) \/ \E i \in Ids : Close(t, i)
    BY <2>1 DEF Obtain, Close, Lock
  <2>2. CASE Full(t) \/ Enable(t) \/ Free(t)
    BY <2>2 DEF Full, Enable, Free, Unlock
  <2>3. CASE ObtainStep(t) \/ Shrink(t)
    BY <2>3 DEF ObtainStep, Shrink, FirstScan, SecondScan, StartScan, ScanLoad,
                ScanPlant, ScanCheck, ScanClaim, ScanDisable, ScanEnd, Reserve,
                Unreserve, Append, AppendCas, Extend
  <2> QED
    BY <1>2, <2>1, <2>2, <2>3 DEF ThreadStep
<1> QED
  BY <1>1, <1>2 DEF Next

\* a step that leaves the length and everyone's fetch_add debts alone
LEMMA SizeUnchanged ==
    ASSUME SizeSettles, size' = size, Overshoot' = Overshoot PROVE SizeSettles'
BY DEF SizeSettles

(* The length and the failed reserves in flight stay in step.               *)
LEMMA SizeStep == ASSUME LengthInv, TypeOK', [Next]_vars PROVE SizeSettles'
<1>0. TypeOK /\ Mutex /\ Below /\ SizeSettles
  BY DEF LengthInv, Ownership
<1> USE <1>0, MaxLiveAssumption DEF Goto, NextIndex
<1>1. CASE UNCHANGED vars
  BY <1>1, SizeUnchanged DEF vars, Overshoot
<1>2. ASSUME NEW t \in Threads, ThreadStep(t) PROVE SizeSettles'
  <2>1. CASE Reserve(t)
    <3>1. CASE size < MaxLive
      <4>1. Overshoot = {}
        BY <3>1, OvershootFinite DEF SizeSettles, TypeOK
      <4>2. Overshoot' = {}
        BY <2>1, <3>1, <4>1 DEF Reserve, Overshoot, TypeOK
      <4> QED
        BY <2>1, <3>1, <4>2, FS_EmptySet DEF Reserve, SizeSettles, TypeOK
    <3>2. CASE size >= MaxLive
      <4>1. size = MaxLive + Cardinality(Overshoot)
        <5>1. CASE Overshoot = {}
          BY <3>2, <5>1, FS_EmptySet DEF SizeSettles, TypeOK
        <5> QED
          BY <5>1 DEF SizeSettles
      <4>2. t \notin Overshoot /\ Overshoot' = Overshoot \cup {t}
        BY <2>1, <3>2 DEF Reserve, Overshoot, TypeOK
      <4>3. Cardinality(Overshoot') = Cardinality(Overshoot) + 1
        BY <4>2, OvershootFinite, FS_AddElement
      <4> QED
        BY <2>1, <4>1, <4>3, OvershootFinite DEF Reserve, SizeSettles, TypeOK
    <3> QED
      BY <3>1, <3>2 DEF TypeOK
  <2>2. CASE Unreserve(t)
    <3>1. t \in Overshoot /\ Overshoot' = Overshoot \ {t}
      BY <2>2 DEF Unreserve, Overshoot, TypeOK
    <3>2. Cardinality(Overshoot') = Cardinality(Overshoot) - 1
      BY <3>1, OvershootFinite, FS_RemoveElement
    <3>3. size = MaxLive + Cardinality(Overshoot)
      BY <3>1 DEF SizeSettles
    <3> QED
      BY <2>2, <3>2, <3>3, OvershootFinite DEF Unreserve, SizeSettles, TypeOK
  <2>3. CASE Shrink(t)
    <3>1. CASE Serialised
      <4>1. Overshoot = {} /\ Overshoot' = {}
        BY <2>3, <3>1 DEF Shrink, Overshoot, Mutex, TypeOK
      <4>2. size' \in 0 .. size
        BY <2>3, <3>1 DEF Shrink
      <4>3. size <= MaxLive
        BY <4>1, FS_EmptySet DEF SizeSettles, TypeOK
      <4> QED
        BY <4>1, <4>2, <4>3, FS_EmptySet DEF SizeSettles, TypeOK
    <3>2. CASE ~Serialised
      <4>1. size' = size /\ Overshoot' = Overshoot
        BY <2>3, <3>2 DEF Shrink, Overshoot, TypeOK
      <4> QED
        BY <4>1, SizeUnchanged
    <3> QED
      BY <3>1, <3>2
  <2>4. CASE Extend(t)
    <3>1. size' = size /\ Overshoot' = Overshoot
      BY <2>4 DEF Extend, Below, BelowPoints, Overshoot, TypeOK
    <3> QED
      BY <3>1, SizeUnchanged
  <2>5. CASE \/ Obtain(t) \/ Full(t) \/ FirstScan(t) \/ SecondScan(t)
             \/ ScanLoad(t) \/ ScanPlant(t) \/ ScanCheck(t) \/ ScanClaim(t)
             \/ ScanDisable(t) \/ ScanEnd(t) \/ Append(t) \/ AppendCas(t)
             \/ Enable(t) \/ Free(t) \/ \E i \in Ids : Close(t, i)
    <3>1. size' = size
      BY <2>5 DEF Obtain, Full, FirstScan, SecondScan, StartScan, ScanLoad,
                  ScanPlant, ScanCheck, ScanClaim, ScanDisable, ScanEnd, Append,
                  AppendCas, Enable, Free, Close
    <3>2. Overshoot' = Overshoot
      BY <2>5 DEF TypeOK, Overshoot, Obtain, Full, FirstScan, SecondScan,
                  StartScan, ScanLoad, ScanPlant, ScanCheck, ScanClaim,
                  ScanDisable, ScanEnd, Append, AppendCas, Enable, Free, Close
    <3> QED
      BY <3>1, <3>2, SizeUnchanged
  <2> QED
    BY <1>2, <2>1, <2>2, <2>3, <2>4, <2>5 DEF ThreadStep, ObtainStep
<1> QED
  BY <1>1, <1>2 DEF Next

(* Every index in use stays below the length, also when it shrinks.         *)
LEMMA BelowStep ==
    ASSUME LengthInv, TypeOK', [Next]_vars PROVE Below' /\ LiveBelowSize'
<1>0. TypeOK /\ Mutex /\ Below /\ SizeSettles /\ LiveBelowSize
  BY DEF LengthInv, Ownership
<1> USE <1>0, MaxLiveAssumption DEF Goto, NextIndex, BelowPoints
<1>1. CASE UNCHANGED vars
  BY <1>1 DEF vars, Below, LiveBelowSize
<1>2. ASSUME NEW t \in Threads, ThreadStep(t) PROVE Below' /\ LiveBelowSize'
  <2>1. CASE Reserve(t)
    BY <2>1 DEF Reserve, Below, LiveBelowSize, TypeOK, Ids
  \* the length falls, but not below the cap, and indices in use are below that
  <2>2. CASE Unreserve(t)
    <3>1. t \in Overshoot
      BY <2>2 DEF Unreserve, Overshoot
    <3>2. Cardinality(Overshoot) >= 1
      BY <3>1, OvershootFinite, FS_EmptySet
    <3>3. size = MaxLive + Cardinality(Overshoot)
      BY <3>1 DEF SizeSettles
    <3>4. size' >= MaxLive
      BY <2>2, <3>2, <3>3, OvershootFinite DEF Unreserve
    <3>5. Flags
      BY DEF LengthInv, Ownership
    <3>6. LiveBelowSize'
      BY <2>2, <3>4 DEF Unreserve, LiveBelowSize, TypeOK, Ids
    <3>7. \A u \in Threads : pc'[u] \in BelowPoints => idx'[u] \in Ids
      BY <2>2, <3>5 DEF Unreserve, Flags, AtSlot, TypeOK
    <3>8. \A u \in Threads : pc'[u] \in {"scan", "plant", "check", "claim"}
                                => limit'[u] <= MaxLive
      BY <2>2, <3>5 DEF Unreserve, Flags, TypeOK
    <3> QED
      BY <2>2, <3>4, <3>6, <3>7, <3>8 DEF Unreserve, Below, TypeOK, Ids
  \* nobody else is inside a call, and every live object is below the new length
  <2>3. CASE Shrink(t)
    <3>1. CASE Serialised
      <4>1. \A u \in Threads : pc'[u] \in {"idle", "free"}
        BY <2>3, <3>1 DEF Shrink, Mutex, TypeOK
      <4>2. PastLastEnabled(size') /\ UNCHANGED enabled
        BY <2>3, <3>1 DEF Shrink
      <4> QED
        BY <4>1, <4>2 DEF Below, LiveBelowSize, PastLastEnabled
    <3>2. CASE ~Serialised
      BY <2>3, <3>2 DEF Shrink, Below, LiveBelowSize, TypeOK
    <3> QED
      BY <3>1, <3>2
  <2>4. CASE FirstScan(t) \/ SecondScan(t)
    <3>1. ScanLimit <= size
      BY DEF ScanLimit, TypeOK
    <3> QED
      BY <2>4, <3>1 DEF FirstScan, SecondScan, StartScan, Below, LiveBelowSize, TypeOK
  <2>5. CASE ScanLoad(t) \/ ScanEnd(t) \/ Append(t)
    BY <2>5 DEF ScanLoad, ScanEnd, Append, Below, LiveBelowSize, TypeOK
  <2>6. CASE ScanPlant(t) \/ ScanCheck(t) \/ ScanClaim(t)
    BY <2>6 DEF ScanPlant, ScanCheck, ScanClaim, Below, LiveBelowSize, TypeOK
  <2>7. CASE ScanDisable(t) \/ AppendCas(t) \/ Extend(t)
    BY <2>7 DEF ScanDisable, AppendCas, Extend, Below, LiveBelowSize, TypeOK
  <2>8. CASE Obtain(t) \/ Full(t) \/ Free(t)
    BY <2>8 DEF Obtain, Full, Free, Below, LiveBelowSize, TypeOK
  <2>9. CASE Enable(t)
    BY <2>9 DEF Enable, Below, LiveBelowSize, TypeOK
  <2>10. ASSUME NEW i \in Ids, Close(t, i) PROVE Below' /\ LiveBelowSize'
    BY <2>10 DEF Close, Below, LiveBelowSize, TypeOK
  <2> QED
    BY <1>2, <2>1, <2>2, <2>3, <2>4, <2>5, <2>6, <2>7, <2>8, <2>9, <2>10
       DEF ThreadStep, ObtainStep
<1> QED
  BY <1>1, <1>2 DEF Next

(* The empty pool satisfies the inductive invariant.                        *)
LEMMA InitLengthInv == Init => LengthInv
<1> SUFFICES ASSUME Init PROVE LengthInv
  OBVIOUS
<1> USE DEF Init
<1>1. TypeOK
  BY DEF TypeOK, PCs
<1>2. Flags
  BY DEF Flags, AtSlot, Claiming, Closing
<1>3. ExclusiveClaim /\ NoLeakedSlot
  BY DEF ExclusiveClaim, NoLeakedSlot, Holds, Claiming, Closing
<1>4. Mutex /\ Below /\ LiveBelowSize
  BY DEF Mutex, Below, BelowPoints, LiveBelowSize
<1>5. Overshoot = {}
  BY DEF Overshoot
<1>6. SizeSettles
  BY <1>5, FS_EmptySet, MaxLiveAssumption DEF SizeSettles
<1> QED
  BY <1>1, <1>2, <1>3, <1>4, <1>6 DEF LengthInv, Ownership

(* Every step of the pool keeps the inductive invariant.                    *)
LEMMA LengthInvStep == LengthInv /\ [Next]_vars => LengthInv'
<1> SUFFICES ASSUME LengthInv, [Next]_vars PROVE LengthInv'
  OBVIOUS
<1>1. TypeOK'
  BY TypeStep DEF LengthInv, Ownership
<1>2. Ownership'
  BY <1>1, FlagsStep, ExclusiveStep DEF LengthInv, Ownership
<1> QED
  BY <1>1, <1>2, MutexStep, SizeStep, BelowStep DEF LengthInv

(* The inductive invariant holds in every reachable state of the pool.      *)
THEOREM PoolInvariant == Spec => []LengthInv
BY InitLengthInv, LengthInvStep, PTL DEF Spec

(* Type correctness: no slot index, program point or length of the pool is  *)
(* ever out of range, for any number of threads.                            *)
THEOREM PoolTypeCorrect == Spec => []TypeOK
<1>1. LengthInv => TypeOK
  BY DEF LengthInv, Ownership
<1> QED
  BY <1>1, PoolInvariant, PTL

(* obtain() never gives one slot to two threads, nor a live one to any.     *)
THEOREM PoolExclusive == Spec => []ExclusiveClaim
<1>1. LengthInv => ExclusiveClaim
  BY DEF LengthInv, Ownership
<1> QED
  BY <1>1, PoolInvariant, PTL

(* A slot stays allocated only while somebody is responsible for it.        *)
THEOREM PoolNoLeak == Spec => []NoLeakedSlot
<1>1. LengthInv => NoLeakedSlot
  BY DEF LengthInv, Ownership
<1> QED
  BY <1>1, PoolInvariant, PTL

(* Iteration over [0, size) sees every live object, under reserve overshoot *)
(* and under shrink_to.                                                     *)
THEOREM PoolLiveBelowSize == Spec => []LiveBelowSize
<1>1. LengthInv => LiveBelowSize
  BY DEF LengthInv
<1> QED
  BY <1>1, PoolInvariant, PTL

(* The length exceeds the cap by exactly the failed reserves in flight.     *)
THEOREM PoolSizeSettles == Spec => []SizeSettles
<1>1. LengthInv => SizeSettles
  BY DEF LengthInv
<1> QED
  BY <1>1, PoolInvariant, PTL

----------------------------------------------------------------------------
(* obtain() overlooks no free slot *)

\* a slot free since the call began is still ahead of the scan, and the second
\* scan covers the whole pool
Searched ==
    \A t \in Threads :
        /\ untouched[t] \cap allocated = {}
        /\ pc[t] \in {"scan", "plant", "check", "claim"} =>
              /\ \A i \in untouched[t] : i < limit[t] => i >= idx[t]
              /\ pass[t] = 2 => limit[t] = MaxLive
        /\ pc[t] = "full" => untouched[t] = {}

(* A slot that is free during the whole call stays ahead of the scan.       *)
LEMMA SearchedStep ==
    ASSUME LengthInv, TypeOK', Searched, [Next]_vars PROVE Searched'
<1>0. TypeOK /\ Flags /\ Below
  BY DEF LengthInv, Ownership
<1> USE <1>0, MaxLiveAssumption DEF Goto, NextIndex, PCs
<1>1. CASE UNCHANGED vars
  BY <1>1 DEF vars, Searched
<1>2. ASSUME NEW t \in Threads, ThreadStep(t) PROVE Searched'
  <2>1. CASE Obtain(t)
    BY <2>1 DEF Obtain, Searched, TypeOK
  <2>2. CASE FirstScan(t)
    <3>1. \A i \in untouched[t] : i >= 0
      BY DEF TypeOK, Ids
    <3> QED
      BY <2>2, <3>1 DEF FirstScan, StartScan, Searched, TypeOK
  <2>3. CASE SecondScan(t)
    <3>1. \A i \in untouched[t] : i >= 0
      BY DEF TypeOK, Ids
    <3>2. ScanLimit = MaxLive
      BY <2>3 DEF SecondScan, Below, ScanLimit, TypeOK
    <3> QED
      BY <2>3, <3>1, <3>2 DEF SecondScan, StartScan, Searched, TypeOK
  <2>4. CASE ScanLoad(t)
    BY <2>4 DEF ScanLoad, Searched, TypeOK
  <2>5. CASE ScanPlant(t) \/ AppendCas(t)
    BY <2>5 DEF ScanPlant, AppendCas, Taken, Searched, TypeOK
  <2>6. CASE ScanCheck(t) \/ ScanClaim(t)
    <3>1. CASE pc'[t] = "scan"
      <4>1. idx[t] \in allocated /\ idx'[t] = idx[t] + 1 /\ UNCHANGED <<untouched, limit, pass, allocated>>
        BY <2>6, <3>1 DEF ScanCheck, ScanClaim, Flags, TypeOK
      <4>2. \A i \in untouched[t] : i # idx[t] /\ i \in Nat
        BY <4>1 DEF Searched, TypeOK, Ids
      <4>3. \A i \in untouched'[t] : i < limit'[t] => i >= idx'[t]
        BY <2>6, <4>1, <4>2 DEF ScanCheck, ScanClaim, Searched, TypeOK
      <4>4. pass'[t] = 2 => limit'[t] = MaxLive
        BY <2>6, <4>1 DEF ScanCheck, ScanClaim, Searched
      <4>5. \A u \in Threads \ {t} : pc'[u] = pc[u] /\ idx'[u] = idx[u]
        BY <2>6 DEF ScanCheck, ScanClaim, TypeOK
      <4> QED
        BY <3>1, <4>1, <4>3, <4>4, <4>5 DEF Searched, TypeOK
    <3>2. CASE pc'[t] # "scan"
      BY <2>6, <3>2 DEF ScanCheck, ScanClaim, Taken, Searched, TypeOK
    <3> QED
      BY <3>1, <3>2
  <2>7. CASE ScanEnd(t)
    <3>1. ASSUME pass[t] = 2 PROVE untouched[t] = {}
      BY <2>7, <3>1 DEF ScanEnd, Searched, TypeOK, Ids
    <3> QED
      BY <2>7, <3>1 DEF ScanEnd, Searched, TypeOK
  <2>8. CASE \/ ScanDisable(t) \/ Reserve(t) \/ Unreserve(t) \/ Append(t)
             \/ Extend(t) \/ Full(t) \/ Enable(t) \/ Shrink(t)
    BY <2>8 DEF ScanDisable, Reserve, Unreserve, Append, Extend, Full, Enable,
                Shrink, Searched, TypeOK
  <2>9. CASE Free(t)
    BY <2>9 DEF Free, Searched, TypeOK
  <2>10. ASSUME NEW i \in Ids, Close(t, i) PROVE Searched'
    BY <2>10 DEF Close, Searched, TypeOK
  <2> QED
    BY <1>2, <2>1, <2>2, <2>3, <2>4, <2>5, <2>6, <2>7, <2>8, <2>9, <2>10
       DEF ThreadStep, ObtainStep
<1> QED
  BY <1>1, <1>2 DEF Next

(* nullptr means full: every slot was taken at some moment of the call.     *)
THEOREM PoolNoSpuriousFull == Spec => []NoSpuriousFull
<1>1. Init => Searched
  BY DEF Init, Searched
<1>2. LengthInv /\ LengthInv' /\ Searched /\ [Next]_vars => Searched'
  BY SearchedStep DEF LengthInv, Ownership
<1>3. Searched => NoSpuriousFull
  BY DEF Searched, NoSpuriousFull
<1> QED
  BY <1>1, <1>2, <1>3, PoolInvariant, PTL DEF Spec

----------------------------------------------------------------------------
(* Refinement of the life cycle *)

\* some thread cleans the object of slot i up
Closer(i) == \E t \in Threads : pc[t] \in Closing /\ idx[t] = i

(* SlotState in terms of the flags and of who is closing.                   *)
LEMMA SlotStateCloser ==
    \A i : SlotState(i) = IF i \in enabled THEN "live"
                          ELSE IF i \notin allocated THEN "free"
                          ELSE IF Closer(i) THEN "closing" ELSE "claimed"
BY DEF SlotState, Closer

\* a step that changes neither the flags nor who closes what is a stutter
LEMMA SlotStutter ==
    ASSUME UNCHANGED <<allocated, enabled>>, \A i \in Ids : Closer(i)' = Closer(i)
    PROVE  UNCHANGED [i \in Ids |-> SlotState(i)]
BY SlotStateCloser DEF SlotState, Closer

\* a step that moves slot k alone, to its next stage
LEMMA SlotAdvance ==
    ASSUME NEW k \in Ids,
           \A i \in Ids \ {k} : /\ (i \in enabled') = (i \in enabled)
                               /\ (i \in allocated') = (i \in allocated)
                               /\ Closer(i)' = Closer(i),
           SlotState(k)' = Lifecycle!Succ(SlotState(k))
    PROVE  Lifecycle!Next
<1>1. \A i \in Ids \ {k} : SlotState(i)' = SlotState(i)
  BY DEF SlotState, Closer
<1> DEFINE st == [i \in Ids |-> SlotState(i)]
<1>2. st' = [st EXCEPT ![k] = Lifecycle!Succ(st[k])]
  BY <1>1
<1>3. Lifecycle!Advance(k)
  BY <1>2 DEF Lifecycle!Advance
<1> QED
  BY <1>3 DEF Lifecycle!Next

(* Every step of the pool moves at most one slot, to its next stage.        *)
LEMMA LifecycleStep ==
    ASSUME LengthInv, [Next]_vars
    PROVE  Lifecycle!Next \/ UNCHANGED [i \in Ids |-> SlotState(i)]
<1>0. TypeOK /\ Flags /\ ExclusiveClaim
  BY DEF LengthInv, Ownership
<1> USE <1>0 DEF Goto, NextIndex, Claiming, Closing, Holds
<1>1. CASE UNCHANGED vars
  BY <1>1, SlotStutter DEF vars, Closer
<1>2. ASSUME NEW t \in Threads, ThreadStep(t)
      PROVE  Lifecycle!Next \/ UNCHANGED [i \in Ids |-> SlotState(i)]
  <2>1. CASE \/ Obtain(t) \/ Full(t) \/ FirstScan(t) \/ SecondScan(t)
             \/ ScanLoad(t) \/ ScanCheck(t) \/ ScanEnd(t) \/ Reserve(t)
             \/ Unreserve(t) \/ Append(t)
    <3>1. UNCHANGED <<allocated, enabled>>
      BY <2>1 DEF Obtain, Full, FirstScan, SecondScan, StartScan, ScanLoad,
                  ScanCheck, ScanEnd, Reserve, Unreserve, Append
    <3>2. pc[t] \notin Closing /\ pc'[t] \notin Closing
      BY <2>1 DEF TypeOK, Obtain, Full, FirstScan, SecondScan, StartScan, ScanLoad,
                  ScanCheck, ScanEnd, Reserve, Unreserve, Append
    <3>3. \A u \in Threads \ {t} : pc'[u] = pc[u] /\ idx'[u] = idx[u]
      BY <2>1 DEF TypeOK, Obtain, Full, FirstScan, SecondScan, StartScan, ScanLoad,
                  ScanCheck, ScanEnd, Reserve, Unreserve, Append
    <3> QED
      BY <3>1, <3>2, <3>3, SlotStutter DEF Closer
  <2>2. CASE ScanPlant(t) \/ ScanClaim(t) \/ AppendCas(t)
    <3>1. /\ UNCHANGED <<enabled, idx>> \/ UNCHANGED <<enabled, allocated>>
          /\ idx[t] \in Ids
          /\ pc[t] \notin Closing /\ pc'[t] \notin Closing
          /\ \A u \in Threads \ {t} : pc'[u] = pc[u] /\ idx'[u] = idx[u]
      BY <2>2 DEF TypeOK, Flags, AtSlot, ScanPlant, ScanClaim, AppendCas
    <3>2. \A i : Closer(i)' = Closer(i)
      BY <3>1 DEF Closer
    <3>3. CASE UNCHANGED allocated
      BY <2>2, <3>2, <3>3, SlotStutter DEF ScanPlant, ScanClaim, AppendCas
    <3>4. CASE allocated' # allocated
      <4>1. /\ allocated' = allocated \cup {idx[t]} /\ enabled' = enabled
            /\ idx[t] \notin allocated
        BY <2>2, <3>4 DEF Flags, ScanPlant, ScanClaim, AppendCas
      <4>2. SlotState(idx[t]) = "free" /\ ~Closer(idx[t])
        BY <4>1 DEF SlotState, Flags, Closer
      <4>3. SlotState(idx[t])' = "claimed"
        BY <3>1, <3>2, <4>1, <4>2 DEF SlotState, Flags, Closer
      <4> QED
        BY <3>1, <3>2, <4>1, <4>2, <4>3, SlotAdvance DEF Lifecycle!Succ
    <3> QED
      BY <3>3, <3>4
  <2>3. CASE ScanDisable(t) \/ Extend(t) \/ Shrink(t)
    <3>1. UNCHANGED <<allocated, enabled, idx>>
      BY <2>3 DEF Flags, AtSlot, ExclusiveClaim, ScanDisable, Extend, Shrink
    <3>2. \A i \in Ids : Closer(i)' = Closer(i)
      BY <2>3, <3>1 DEF TypeOK, Closer, ScanDisable, Extend, Shrink
    <3> QED
      BY <3>1, <3>2, SlotStutter
  <2>4. CASE Enable(t)
    <3>1. /\ idx[t] \in Ids /\ idx[t] \in allocated /\ idx[t] \notin enabled
          /\ \A u \in Threads \ {t} : ~Holds(u, idx[t])
      BY <2>4 DEF Flags, AtSlot, ExclusiveClaim, Enable
    <3>2. /\ enabled' = enabled \cup {idx[t]} /\ UNCHANGED <<allocated, idx>>
          /\ pc[t] = "own" /\ pc'[t] = "idle"
          /\ \A u \in Threads \ {t} : pc'[u] = pc[u]
      BY <2>4 DEF TypeOK, Enable
    <3>3. \A i : Closer(i)' = Closer(i)
      BY <3>2 DEF Closer
    <3>4. SlotState(idx[t]) = "claimed" /\ SlotState(idx[t])' = "live"
      BY <3>1, <3>2 DEF SlotState
    <3> QED
      BY <3>1, <3>2, <3>3, <3>4, SlotAdvance DEF Lifecycle!Succ
  <2>5. ASSUME NEW k \in Ids, Close(t, k) PROVE Lifecycle!Next
    <3>1. /\ k \in enabled /\ k \in allocated
          /\ enabled' = enabled \ {k} /\ UNCHANGED allocated
          /\ pc[t] = "idle" /\ pc'[t] = "closing" /\ idx'[t] = k
          /\ \A u \in Threads \ {t} : pc'[u] = pc[u] /\ idx'[u] = idx[u]
      BY <2>5 DEF TypeOK, Flags, Close
    <3>2. \A i \in Ids \ {k} : Closer(i)' = Closer(i)
      BY <3>1 DEF Closer
    <3>3. Closer(k)'
      BY <3>1 DEF Closer
    <3>4. SlotState(k) = "live" /\ SlotState(k)' = "closing"
      BY <3>1, <3>3 DEF SlotState, Closer
    <3> QED
      BY <3>1, <3>2, <3>4, SlotAdvance DEF Lifecycle!Succ
  <2>6. CASE Free(t)
    <3>1. /\ idx[t] \in Ids /\ idx[t] \in allocated /\ idx[t] \notin enabled
          /\ allocated' = allocated \ {idx[t]} /\ UNCHANGED <<enabled, idx>>
          /\ pc[t] = "free" /\ pc'[t] = "idle"
          /\ \A u \in Threads \ {t} : pc'[u] = pc[u]
      BY <2>6 DEF TypeOK, Flags, AtSlot, ExclusiveClaim, Free
    <3>2. \A i \in Ids \ {idx[t]} : Closer(i)' = Closer(i)
      BY <3>1 DEF Closer
    <3>3. SlotState(idx[t]) = "closing" /\ SlotState(idx[t])' = "free"
      BY <3>1 DEF SlotState
    <3> QED
      BY <3>1, <3>2, <3>3, SlotAdvance DEF Lifecycle!Succ
  <2> QED
    BY <1>2, <2>1, <2>2, <2>3, <2>4, <2>5, <2>6 DEF ThreadStep, ObtainStep
<1> QED
  BY <1>1, <1>2 DEF Next

(* The pool implements SlotLifecycle: through the flags, each slot goes     *)
(* round free, claimed, live, closing, one slot per step.                   *)
THEOREM PoolImplementsLifecycle == Spec => ImplementsLifecycle
<1>1. Init => Lifecycle!Init
  BY DEF Init, Lifecycle!Init, SlotState
<1>2. LengthInv /\ [Next]_vars => [Lifecycle!Next]_([i \in Ids |-> SlotState(i)])
  BY LifecycleStep
<1> QED
  BY <1>1, <1>2, PoolInvariant, PTL DEF Spec, ImplementsLifecycle, Lifecycle!Spec
=============================================================================
