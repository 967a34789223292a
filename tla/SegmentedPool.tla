--------------------------- MODULE SegmentedPool ---------------------------
(***************************************************************************)
(* The lock-free object pool of utils/segmented_pool.h and the life of an  *)
(* object in it.  A thread claims an object with obtain(): one scan of the *)
(* slots below the length, a reserve loop that raises the length and plants*)
(* a fresh object, one more scan.  The caller initialises the object and   *)
(* sets enabled; closing clears enabled under the object's mutex, cleans   *)
(* up, and clears allocated last.  Every atomic access is a step.          *)
(*                                                                         *)
(* Two users exist.  sockets, streams, PMTs, keys and HTTP clients call    *)
(* obtain() from any thread (Serialised = FALSE).  The filters pool is the *)
(* only one that lowers the length (shrink_to); it holds filters_mutex     *)
(* around each whole call (Serialised = TRUE).                             *)
(***************************************************************************)
EXTENDS Integers, FiniteSets

CONSTANTS Threads,      \* threads that use the pool
          MaxLive,      \* template parameter MaxLive
          Serialised,   \* TRUE: the filters pool, FALSE: all the others
          None          \* no thread holds filters_mutex

ASSUME MaxLiveAssumption == MaxLive \in Nat \ {0}
ASSUME ThreadsAssumption == IsFiniteSet(Threads) /\ None \notin Threads
ASSUME SerialisedAssumption == Serialised \in BOOLEAN

Ids == 0 .. MaxLive - 1

VARIABLES published,    \* slots that point to an object; never blanked again
          allocated,    \* slots whose object has allocated = true
          enabled,      \* slots whose object has enabled = true
          size,         \* size_
          pc,           \* where each thread stands
          idx,          \* the index each thread works on
          limit,        \* n of the running scan
          pass,         \* 1: scan before the reserve loop, 2: scan after it
          mutex,        \* holder of filters_mutex
          untouched     \* history: slots free ever since this obtain() began

vars == <<published, allocated, enabled, size, pc, idx, limit, pass, mutex,
          untouched>>

PCs == {"idle", "start", "scan", "plant", "check", "claim", "disable",
        "reserve", "unreserve", "append", "appendCas", "extend", "rescan",
        "own", "full", "closing", "free"}

TypeOK == /\ published \in SUBSET Ids
          /\ allocated \in SUBSET Ids
          /\ enabled \in SUBSET Ids
          /\ size \in Nat
          /\ pc \in [Threads -> PCs]
          /\ idx \in [Threads -> Nat]
          /\ limit \in [Threads -> Nat]
          /\ pass \in [Threads -> {1, 2}]
          /\ mutex \in Threads \cup {None}
          /\ untouched \in [Threads -> SUBSET Ids]

Init == /\ published = {}
        /\ allocated = {}
        /\ enabled = {}
        /\ size = 0
        /\ pc = [t \in Threads |-> "idle"]
        /\ idx = [t \in Threads |-> 0]
        /\ limit = [t \in Threads |-> 0]
        /\ pass = [t \in Threads |-> 1]
        /\ mutex = None
        /\ untouched = [t \in Threads |-> {}]

----------------------------------------------------------------------------
(* Helpers *)

Goto(t, label) == pc' = [pc EXCEPT ![t] = label]

Lock(t) == IF Serialised THEN mutex = None /\ mutex' = t ELSE UNCHANGED mutex

Unlock == mutex' = None

\* min(size(), MaxLive): what a scan may visit
ScanLimit == IF size < MaxLive THEN size ELSE MaxLive

\* slot i stops being free: it is no longer untouched for anyone
Taken(i) == untouched' = [u \in Threads |-> untouched[u] \ {i}]

\* continue the scan with the next index
NextIndex(t) == /\ idx' = [idx EXCEPT ![t] = idx[t] + 1]
                /\ Goto(t, "scan")

----------------------------------------------------------------------------
(* obtain() *)

Obtain(t) == /\ pc[t] = "idle"
             /\ Lock(t)
             /\ Goto(t, "start")
             /\ untouched' = [untouched EXCEPT ![t] = Ids \ allocated]
             /\ UNCHANGED <<published, allocated, enabled, size, idx, limit, pass>>

StartScan(t, number) ==
    /\ limit' = [limit EXCEPT ![t] = ScanLimit]
    /\ idx' = [idx EXCEPT ![t] = 0]
    /\ pass' = [pass EXCEPT ![t] = number]
    /\ Goto(t, "scan")
    /\ UNCHANGED <<published, allocated, enabled, size, mutex, untouched>>

FirstScan(t) == pc[t] = "start" /\ StartScan(t, 1)

\* U *cur = slot(index)
ScanLoad(t) == /\ pc[t] = "scan"
               /\ idx[t] < limit[t]
               /\ Goto(t, IF idx[t] \in published THEN "check" ELSE "plant")
               /\ UNCHANGED <<published, allocated, enabled, size, idx, limit,
                              pass, mutex, untouched>>

\* compare_exchange_strong(nullptr, fresh) on the slot; the loser examines the
\* winner's object
ScanPlant(t) == /\ pc[t] = "plant"
                /\ IF idx[t] \in published
                   THEN /\ Goto(t, "check")
                        /\ UNCHANGED <<published, allocated, untouched>>
                   ELSE /\ published' = published \cup {idx[t]}
                        /\ allocated' = allocated \cup {idx[t]}
                        /\ Taken(idx[t])
                        /\ Goto(t, "own")
                /\ UNCHANGED <<enabled, size, idx, limit, pass, mutex>>

\* !cur->enabled
ScanCheck(t) == /\ pc[t] = "check"
                /\ IF idx[t] \in enabled
                   THEN NextIndex(t)
                   ELSE Goto(t, "claim") /\ UNCHANGED idx
                /\ UNCHANGED <<published, allocated, enabled, size, limit, pass,
                               mutex, untouched>>

\* a faulty variant: a plain store instead of the compare-exchange
BlindClaim(t) == /\ pc[t] = "claim"
                 /\ allocated' = allocated \cup {idx[t]}
                 /\ Taken(idx[t])
                 /\ Goto(t, "disable")
                 /\ UNCHANGED <<published, enabled, size, idx, limit, pass, mutex>>

\* cur->allocated.compare_exchange_strong(false, true)
ScanClaim(t) == /\ pc[t] = "claim"
                /\ IF idx[t] \in allocated
                   THEN NextIndex(t) /\ UNCHANGED <<allocated, untouched>>
                   ELSE /\ allocated' = allocated \cup {idx[t]}
                        /\ Taken(idx[t])
                        /\ Goto(t, "disable")
                        /\ UNCHANGED idx
                /\ UNCHANGED <<published, enabled, size, limit, pass, mutex>>

\* cur->enabled = false
ScanDisable(t) == /\ pc[t] = "disable"
                  /\ enabled' = enabled \ {idx[t]}
                  /\ Goto(t, "own")
                  /\ UNCHANGED <<published, allocated, size, idx, limit, pass,
                                 mutex, untouched>>

\* the scan found nothing: try to append, or give up after the second scan
ScanEnd(t) == /\ pc[t] = "scan"
              /\ idx[t] >= limit[t]
              /\ Goto(t, IF pass[t] = 1 THEN "reserve" ELSE "full")
              /\ UNCHANGED <<published, allocated, enabled, size, idx, limit,
                             pass, mutex, untouched>>

\* reserve(): size_.fetch_add(1)
Reserve(t) == /\ pc[t] = "reserve"
              /\ size' = size + 1
              /\ idx' = [idx EXCEPT ![t] = size]
              /\ Goto(t, IF size >= MaxLive THEN "unreserve" ELSE "append")
              /\ UNCHANGED <<published, allocated, enabled, limit, pass, mutex,
                             untouched>>

\* a faulty variant: no second scan when the pool cannot grow
GiveUpAtCap(t) == /\ pc[t] = "unreserve"
                  /\ size' = size - 1
                  /\ Goto(t, "full")
                  /\ UNCHANGED <<published, allocated, enabled, idx, limit, pass,
                                 mutex, untouched>>

\* reserve() past the cap: size_.fetch_sub(1), nullopt, leave the loop
Unreserve(t) == /\ pc[t] = "unreserve"
                /\ size' = size - 1
                /\ Goto(t, "rescan")
                /\ UNCHANGED <<published, allocated, enabled, idx, limit, pass,
                               mutex, untouched>>

SecondScan(t) == pc[t] = "rescan" /\ StartScan(t, 2)

\* a faulty variant: a taken slot is tried again without a new reservation
RetrySlot(t) == /\ pc[t] = "append"
                /\ Goto(t, IF idx[t] \in published THEN "append" ELSE "appendCas")
                /\ UNCHANGED <<published, allocated, enabled, size, idx, limit,
                               pass, mutex, untouched>>

\* if (slot(*index)) continue;
Append(t) == /\ pc[t] = "append"
             /\ Goto(t, IF idx[t] \in published THEN "reserve" ELSE "appendCas")
             /\ UNCHANGED <<published, allocated, enabled, size, idx, limit,
                            pass, mutex, untouched>>

\* a racing scan may claim the reserved slot first; then reserve again
AppendCas(t) == /\ pc[t] = "appendCas"
                /\ IF idx[t] \in published
                   THEN /\ Goto(t, "reserve")
                        /\ UNCHANGED <<published, allocated, untouched>>
                   ELSE /\ published' = published \cup {idx[t]}
                        /\ allocated' = allocated \cup {idx[t]}
                        /\ Taken(idx[t])
                        /\ Goto(t, "extend")
                /\ UNCHANGED <<enabled, size, idx, limit, pass, mutex>>

\* extend_to(*index + 1)
Extend(t) == /\ pc[t] = "extend"
             /\ size' = IF size < idx[t] + 1 THEN idx[t] + 1 ELSE size
             /\ Goto(t, "own")
             /\ UNCHANGED <<published, allocated, enabled, idx, limit, pass,
                            mutex, untouched>>

\* nullptr goes back to the caller
Full(t) == /\ pc[t] = "full"
           /\ Goto(t, "idle")
           /\ Unlock
           /\ UNCHANGED <<published, allocated, enabled, size, idx, limit, pass,
                          untouched>>

----------------------------------------------------------------------------
(* The callers' protocol *)

\* the caller has initialised the object and sets enabled
Enable(t) == /\ pc[t] = "own"
             /\ enabled' = enabled \cup {idx[t]}
             /\ Goto(t, "idle")
             /\ Unlock
             /\ UNCHANGED <<published, allocated, size, idx, limit, pass,
                            untouched>>

\* any thread closes a live object: enabled is tested and cleared under a mutex
Close(t, i) == /\ pc[t] = "idle"
               /\ i \in enabled
               /\ Lock(t)
               /\ enabled' = enabled \ {i}
               /\ idx' = [idx EXCEPT ![t] = i]
               /\ Goto(t, "closing")
               /\ UNCHANGED <<published, allocated, size, limit, pass, untouched>>

\* n is just past the last enabled object
PastLastEnabled(n) == /\ \A i \in enabled : i < n
                      /\ n > 0 => n - 1 \in enabled

\* del_filter lowers the length with shrink_to; the other users never do
Shrink(t) == /\ pc[t] = "closing"
             /\ IF Serialised
                THEN size' \in {n \in 0 .. size : PastLastEnabled(n)}
                ELSE UNCHANGED size
             /\ Goto(t, "free")
             /\ UNCHANGED <<published, allocated, enabled, idx, limit, pass,
                            mutex, untouched>>

\* allocated = false, the last step of every close
Free(t) == /\ pc[t] = "free"
           /\ allocated' = allocated \ {idx[t]}
           /\ Goto(t, "idle")
           /\ Unlock
           /\ UNCHANGED <<published, enabled, size, idx, limit, pass, untouched>>

ObtainStep(t) == \/ FirstScan(t) \/ ScanLoad(t) \/ ScanPlant(t) \/ ScanCheck(t)
                 \/ ScanClaim(t) \/ ScanDisable(t) \/ ScanEnd(t) \/ Reserve(t)
                 \/ Unreserve(t) \/ SecondScan(t) \/ Append(t) \/ AppendCas(t)
                 \/ Extend(t)

ThreadStep(t) == \/ ObtainStep(t)
                 \/ Obtain(t) \/ Full(t) \/ Enable(t)
                 \/ \E i \in Ids : Close(t, i)
                 \/ Shrink(t) \/ Free(t)

Next == \E t \in Threads : ThreadStep(t)

Spec == Init /\ [][Next]_vars

\* a thread inside obtain() keeps running; nobody has to call it
FairSpec == Spec /\ \A t \in Threads : WF_vars(ObtainStep(t))

----------------------------------------------------------------------------
(* Correctness *)

\* t has claimed the object at idx[t] and has not made it live, or closes it
Claiming == {"disable", "extend", "own"}
Closing == {"closing", "free"}
Holds(t, i) == pc[t] \in Claiming \cup Closing /\ idx[t] = i

(* obtain() never hands out an object that another thread is initialising,  *)
(* or cleaning up, or that is live: two CAS operations on two different     *)
(* atomics (the slot pointer, the allocated flag) and the stale enabled     *)
(* test in between never let two threads own one slot.                      *)
ExclusiveClaim ==
    \A t \in Threads, i \in Ids :
        Holds(t, i) => /\ i \notin enabled
                       /\ \A u \in Threads \ {t} : ~Holds(u, i)

(* A released slot is never lost: an object is allocated exactly while it   *)
(* is live or some thread holds it, so a slot no one owns can be claimed.   *)
NoLeakedSlot ==
    \A i \in allocated : i \in enabled \/ \E t \in Threads : Holds(t, i)

(* Iteration visits only indices below size_, so every live object must be  *)
(* below it, whatever reserve overshoot, extend_to and shrink_to do.        *)
LiveBelowSize == \A i \in enabled : i < size

(* The length never leaks past the cap: what exceeds MaxLive is exactly one *)
(* for each thread between its fetch_add and its fetch_sub.                 *)
Overshoot == {t \in Threads : pc[t] = "unreserve"}
SizeSettles == /\ size <= MaxLive + Cardinality(Overshoot)
               /\ Overshoot # {} => size = MaxLive + Cardinality(Overshoot)

(* obtain() reports a full pool only if every slot was taken at some moment *)
(* of the call: no slot can stay free throughout and be overlooked.         *)
NoSpuriousFull == \A t \in Threads : pc[t] = "full" => untouched[t] = {}

(* The reserve loop ends under any contention: obtain() returns.            *)
ObtainReturns ==
    \A t \in Threads : pc[t] = "start" ~> pc[t] \in {"own", "full"}

----------------------------------------------------------------------------
(* The pool implements the life cycle of its slots *)

SlotState(i) ==
    IF i \in enabled THEN "live"
    ELSE IF i \notin allocated THEN "free"
    ELSE IF \E t \in Threads : pc[t] \in Closing /\ idx[t] = i THEN "closing"
    ELSE "claimed"

Lifecycle == INSTANCE SlotLifecycle
                 WITH Slots <- Ids, state <- [i \in Ids |-> SlotState(i)]

(* Seen through its flags, every slot goes round free, claimed, live,       *)
(* closing: one slot per step of the pool, no stage skipped or repeated.    *)
ImplementsLifecycle == Lifecycle!Spec
=============================================================================
