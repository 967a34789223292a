------------------------- MODULE PidFilters_proofs -------------------------
(***************************************************************************)
(* Proofs about PidFilters, for any pids, streams, limits and any number   *)
(* of section filters: the hardware filters are the open entries of the    *)
(* table (HardwareMatches), active_pids counts them (ActiveCount), a pid a *)
(* stream subscribes to is not on its way out (SubscribedKept), and the    *)
(* chain of a pid has all its filters (DeliversAll).                       *)
(***************************************************************************)
EXTENDS PidFilters, FiniteSetTheorems, WellFoundedInduction, TLAPS

\* Max of a finite set of numbers is in it: the element with the fewest above it.
LEMMA MaxIsGreatest ==
    ASSUME NEW S, S \in SUBSET Int, IsFiniteSet(S), S # {}
    PROVE  Max(S) \in S /\ \A y \in S : y <= Max(S)
<1> DEFINE above == [x \in S |-> {y \in S : y > x}]
           family == {above[x] : x \in S}
<1>1. family \subseteq FiniteSubsetsOf(S) /\ family # {}
  <2>1. \A x \in S : above[x] \in FiniteSubsetsOf(S)
    BY FS_Subset DEF FiniteSubsetsOf
  <2>2. QED
    BY <2>1
<1>2. \E a \in family : \A b \in family : ~ (<<b, a>> \in StrictSubsetOrdering(S))
  <2> HIDE DEF family
  <2> QED BY <1>1, FS_StrictSubsetOrderingWellFounded, WFMin
<1>3. PICK s \in S : \A y \in S : ~ (<<above[y], above[s]>> \in StrictSubsetOrdering(S))
  BY <1>2
<1>4. \A y \in S : s >= y
  <2>1. SUFFICES ASSUME NEW y \in S, y > s PROVE FALSE
    OBVIOUS
  <2>2. y \in above[s] /\ y \notin above[y] /\ \A z \in S : z > y => z > s
    BY <2>1
  <2>3. above[y] \subseteq above[s] /\ above[s] \subseteq S
    BY <2>2
  <2>4. QED
    BY <1>3, <2>2, <2>3 DEF StrictSubsetOrdering
<1>5. QED
  BY <1>4 DEF Max

\* Min of a finite set of numbers is in it: the element with the fewest below it.
LEMMA MinIsLeast ==
    ASSUME NEW S, S \in SUBSET Int, IsFiniteSet(S), S # {}
    PROVE  Min(S) \in S /\ \A y \in S : Min(S) <= y
<1> DEFINE below == [x \in S |-> {y \in S : y < x}]
           family == {below[x] : x \in S}
<1>1. family \subseteq FiniteSubsetsOf(S) /\ family # {}
  <2>1. \A x \in S : below[x] \in FiniteSubsetsOf(S)
    BY FS_Subset DEF FiniteSubsetsOf
  <2>2. QED
    BY <2>1
<1>2. \E a \in family : \A b \in family : ~ (<<b, a>> \in StrictSubsetOrdering(S))
  <2> HIDE DEF family
  <2> QED BY <1>1, FS_StrictSubsetOrderingWellFounded, WFMin
<1>3. PICK s \in S : \A y \in S : ~ (<<below[y], below[s]>> \in StrictSubsetOrdering(S))
  BY <1>2
<1>4. \A y \in S : s <= y
  <2>1. SUFFICES ASSUME NEW y \in S, y < s PROVE FALSE
    OBVIOUS
  <2>2. y \in below[s] /\ y \notin below[y] /\ \A z \in S : z < y => z < s
    BY <2>1
  <2>3. below[y] \subseteq below[s] /\ below[s] \subseteq S
    BY <2>2
  <2>4. QED
    BY <1>3, <2>2, <2>3 DEF StrictSubsetOrdering
<1>5. QED
  BY <1>4 DEF Min

\* The greater of two numbers.
LEMMA MaxOfTwo ==
    ASSUME NEW a \in Int, NEW b \in Int
    PROVE  Max({a, b}) = IF a >= b THEN a ELSE b
  BY DEF Max

\* What leaves a finite set, and what joins it, changes its cardinality by as much.
LEMMA CardinalityMinus ==
    ASSUME NEW S, IsFiniteSet(S), NEW T, T \subseteq S
    PROVE  Cardinality(S \ T) = Cardinality(S) - Cardinality(T) /\ Cardinality(T) <= Cardinality(S)
<1>1. IsFiniteSet(T) /\ S \cap T = T /\ Cardinality(T) <= Cardinality(S)
  BY FS_Subset
<1>2. Cardinality(S \ T) = Cardinality(S) - Cardinality(S \cap T)
  BY FS_Difference
<1>3. QED
  BY <1>1, <1>2

LEMMA CardinalityPlus ==
    ASSUME NEW S, IsFiniteSet(S), NEW T, IsFiniteSet(T), S \cap T = {}
    PROVE  Cardinality(S \cup T) = Cardinality(S) + Cardinality(T)
<1>1. Cardinality(S \cup T) = Cardinality(S) + Cardinality(T) - Cardinality(S \cap T)
  BY FS_Union
<1>2. Cardinality(S \cap T) = 0 /\ Cardinality(S) \in Nat /\ Cardinality(T) \in Nat
  BY FS_EmptySet, FS_CardinalityType
<1>3. QED
  BY <1>1, <1>2

EntryType == [flags : {"inactive", "new", "active", "deleted"}, fd : {"none", "open", "minus1"},
              sid : SUBSET Sids, filter : Fids \cup {-1}]
PidsType == [table : [Pids -> EntryType], open : SUBSET Pids, active_pids : Nat,
             max_active_pids : Nat, max_pids : Nat]
FilterType == [enabled : BOOLEAN, pid : Pids \cup {-1}, flags : Flags,
               next : Fids \cup {-1}, master : Fids \cup {-1}]
FiltersType == [Fids -> FilterType]

\* A free slot of the table has no descriptor, and neither it nor an entry on its way
\* out has a stream: this is what lets a free slot be taken over, and an entry be
\* removed, without a look at either.
Kept(e) == /\ e.flags = "inactive" => e.fd # "open"
           /\ e.flags \in {"inactive", "deleted"} => e.sid = {}
TableOK(t) == t \in [Pids -> EntryType] /\ \A p \in Pids : Kept(t[p])

Fds(t) == {p \in Pids : t[p].fd = "open"}

\* The pid side of the adapter: the inductive invariant, as a predicate of the record
\* that the steps of update_pids pass on.
PidsOK(r) == /\ r \in PidsType /\ TableOK(r.table)
             /\ r.open = Fds(r.table)
             /\ ~setup.emulate => r.active_pids = Cardinality(r.open)
             /\ r.active_pids >= Cardinality(r.open)

\* A filter that is enabled has a pid.
FiltersOK(fs) == fs \in FiltersType /\ \A f \in Fids : fs[f].enabled => fs[f].pid \in Pids

PidsInv == setup \in Setups /\ FiltersOK(filters) /\ PidsOK(pt)

-----------------------------------------------------------------------------
(* Filters *)

LEMMA FidsFinite == \A S \in SUBSET Fids : IsFiniteSet(S) /\ S \in SUBSET Int
<1>1. IsFiniteSet(Fids) /\ Fids \subseteq Int
  BY FS_Interval, PidFiltersAssumption DEF Fids
<1>2. QED
  BY <1>1, FS_Subset

\* get_pid_filter returns a filter or none.
LEMMA PidFilterType ==
    ASSUME NEW fs \in FiltersType, NEW p
    PROVE  PidFilter(fs, p) \in Fids \cup {-1}
<1>1. FiltersOf(fs, p) \in SUBSET Fids
  BY DEF FiltersOf
<1>2. CASE FiltersOf(fs, p) = {}
  BY <1>2 DEF PidFilter
<1>3. CASE FiltersOf(fs, p) # {}
  <2>1. Min(FiltersOf(fs, p)) \in Fids
    BY <1>1, <1>3, FidsFinite, MinIsLeast
  <2>2. QED
    BY <1>3, <2>1 DEF PidFilter, FiltersType, FilterType
<1>4. QED
  BY <1>2, <1>3

-----------------------------------------------------------------------------
(* Steps on the table that keep every descriptor *)

LEMMA MarkAddOK ==
    ASSUME NEW t, TableOK(t), NEW S \in SUBSET Sids, NEW p \in Pids
    PROVE  TableOK(MarkAdd(t, S, p)) /\ Fds(MarkAdd(t, S, p)) = Fds(t)
<1> DEFINE u == MarkAdd(t, S, p)
           joined == [t[p] EXCEPT !.sid = t[p].sid \cup S,
                                  !.flags = IF t[p].flags = "deleted" THEN "new" ELSE t[p].flags]
           fresh == [NoEntry EXCEPT !.flags = "new", !.sid = S]
<1>1. t[p] \in EntryType /\ Kept(t[p])
  BY DEF TableOK
<1>2. /\ joined \in EntryType /\ joined.fd = t[p].fd
      /\ t[p].flags # "inactive" => joined.flags \notin {"inactive", "deleted"}
  BY <1>1 DEF EntryType
<1>3. fresh \in EntryType /\ fresh.fd = "none" /\ fresh.flags = "new"
  BY DEF EntryType, NoEntry
<1>4. \/ u = [t EXCEPT ![p] = joined] /\ t[p].flags # "inactive"
      \/ u = [t EXCEPT ![p] = fresh] /\ t[p].flags = "inactive"
      \/ u = t
  BY DEF MarkAdd, Found, TableOK
<1> HIDE DEF u, joined, fresh
<1>5. u \in [Pids -> EntryType]
  BY <1>2, <1>3, <1>4 DEF TableOK
<1>6. \A q \in Pids : Kept(u[q]) /\ (u[q].fd = "open" <=> t[q].fd = "open")
  BY <1>1, <1>2, <1>3, <1>4 DEF TableOK, Kept
<1>7. TableOK(u) /\ Fds(u) = Fds(t)
  BY <1>5, <1>6 DEF TableOK, Fds
<1>8. QED
  BY <1>7 DEF u

LEMMA MarkAddAllOK ==
    ASSUME NEW t, TableOK(t), NEW S \in SUBSET Sids, NEW T \in SUBSET Pids
    PROVE  TableOK(MarkAddAll(t, S, T)) /\ Fds(MarkAddAll(t, S, T)) = Fds(t)
<1>1. \A p \in Pids : /\ MarkAdd(t, S, p)[p] \in EntryType /\ Kept(MarkAdd(t, S, p)[p])
                      /\ MarkAdd(t, S, p)[p].fd = "open" <=> t[p].fd = "open"
  BY MarkAddOK DEF TableOK, Fds
<1>2. QED
  BY <1>1 DEF MarkAddAll, TableOK, Fds

LEMMA UnsubscribedOK ==
    ASSUME NEW fs, NEW p, NEW s, NEW e \in EntryType, Kept(e)
    PROVE  /\ Unsubscribed(fs, e, p, s) \in EntryType /\ Kept(Unsubscribed(fs, e, p, s))
           /\ Unsubscribed(fs, e, p, s).fd = e.fd
<1> DEFINE keep == e.filter # -1 /\ ActiveFilters(fs, e.filter, p, {"add_remove"})
           u == Unsubscribed(fs, e, p, s)
           fl == IF e.sid \ {s} = {} /\ e.flags # "inactive" /\ ~keep THEN "deleted" ELSE e.flags
<1>1. u = [e EXCEPT !.sid = e.sid \ {s}, !.flags = fl]
  BY DEF Unsubscribed
<1>2. fl \in {"inactive", "new", "active", "deleted"} /\ (fl = "inactive" => e.flags = "inactive")
  BY DEF EntryType
<1>3. fl = "deleted" => e.sid \ {s} = {}
  <2> HIDE DEF keep
  <2> QED BY DEF Kept
<1> HIDE DEF keep, u, fl
<1>4. u \in EntryType /\ u.fd = e.fd /\ u.flags = fl /\ u.sid = e.sid \ {s}
  BY <1>1, <1>2 DEF EntryType
<1>5. Kept(u)
  BY <1>2, <1>3, <1>4 DEF Kept
<1>6. QED
  BY <1>4, <1>5 DEF u

LEMMA DroppedOK ==
    ASSUME NEW e \in EntryType, Kept(e)
    PROVE  Dropped(e) \in EntryType /\ Kept(Dropped(e)) /\ Dropped(e).fd = e.fd
  BY DEF Dropped, EntryType, Kept

\* A step that changes the table and no descriptor keeps the rest.
LEMMA SameDescriptors ==
    ASSUME NEW r, PidsOK(r), NEW t, TableOK(t), Fds(t) = Fds(r.table)
    PROVE  PidsOK([r EXCEPT !.table = t])
  BY DEF PidsOK, PidsType, TableOK

-----------------------------------------------------------------------------
(* update_pids *)

LEMMA EmulateAllOK ==
    ASSUME NEW t, TableOK(t), NEW u \in EmulateAll(t)
    PROVE  TableOK(u) /\ Fds(u) = Fds(t)
<1>1. CASE u = t
  BY <1>1
<1>2. CASE setup.emulate /\ AllPid \in Pids /\ t[AllPid].sid # {}
  <2>1. PICK T \in SUBSET AllOf : u = MarkAddAll(t, t[AllPid].sid, T)
    BY <1>2 DEF EmulateAll
  <2>2. t[AllPid].sid \in SUBSET Sids /\ T \in SUBSET Pids
    BY <1>2, PidFiltersAssumption DEF TableOK, EntryType
  <2>3. QED
    BY <2>1, <2>2, MarkAddAllOK
<1>3. QED
  BY <1>1, <1>2 DEF EmulateAll

LEMMA OpenFinite == ASSUME NEW S, S \subseteq Pids PROVE IsFiniteSet(S) /\ Cardinality(S) \in Nat
  BY PidFiltersAssumption, FS_Subset, FS_CardinalityType

\* The descriptors that are closed are those of the entries that go.
LEMMA RemovedOK ==
    ASSUME NEW fs \in FiltersType, NEW r, PidsOK(r)
    PROVE  PidsOK(Removed(fs, r))
<1> DEFINE gone == {p \in Pids : r.table[p].flags = "deleted"}
           closed == {p \in gone : r.table[p].fd = "open"}
           t == [p \in Pids |-> IF p \in gone THEN NoEntry
                                ELSE IF r.table[p].flags = "new"
                                THEN [r.table[p] EXCEPT !.filter = PidFilter(fs, p)]
                                ELSE r.table[p]]
           n == r.active_pids - Cardinality(closed)
           u == Removed(fs, r)
<1>1. closed \subseteq r.open /\ r.open \subseteq Pids
  BY DEF PidsOK, Fds
<1>2. IsFiniteSet(r.open) /\ Cardinality(r.open) \in Nat /\ Cardinality(closed) \in Nat
  BY <1>1, OpenFinite
<1>3. Cardinality(r.open \ closed) = Cardinality(r.open) - Cardinality(closed)
  <2> HIDE DEF closed
  <2> QED BY <1>1, <1>2, CardinalityMinus
<1>4. n \in Nat /\ Max({0, n}) = n
  <2>1. Cardinality(closed) <= Cardinality(r.open)
    <3> HIDE DEF closed
    <3> QED BY <1>1, <1>2, CardinalityMinus
  <2>2. r.active_pids \in Nat /\ r.active_pids >= Cardinality(r.open)
    BY DEF PidsOK, PidsType
  <2>3. n \in Nat
    <3> HIDE DEF closed
    <3> QED BY <2>1, <2>2, <1>2
  <2>4. QED
    <3> HIDE DEF n
    <3> QED BY <2>3, MaxOfTwo
<1>5. u = [r EXCEPT !.open = r.open \ closed, !.active_pids = n, !.table = t]
  BY <1>4 DEF Removed
<1>6. TableOK(t) /\ Fds(t) = r.open \ closed
  <2>1. \A p \in Pids : t[p] \in EntryType /\ Kept(t[p])
    <3>1. SUFFICES ASSUME NEW p \in Pids PROVE t[p] \in EntryType /\ Kept(t[p])
      OBVIOUS
    <3>2. r.table[p] \in EntryType /\ Kept(r.table[p]) /\ PidFilter(fs, p) \in Fids \cup {-1}
      BY PidFilterType DEF PidsOK, TableOK
    <3>3. NoEntry \in EntryType /\ Kept(NoEntry)
      BY DEF NoEntry, EntryType, Kept
    <3>4. [r.table[p] EXCEPT !.filter = PidFilter(fs, p)] \in EntryType
      BY <3>2 DEF EntryType
    <3>5. r.table[p].flags = "new" => Kept([r.table[p] EXCEPT !.filter = PidFilter(fs, p)])
      BY <3>2 DEF EntryType, Kept
    <3>6. QED
      BY <3>2, <3>3, <3>4, <3>5
  <2>2. \A p \in Pids : t[p].fd = "open" <=> r.table[p].fd = "open" /\ p \notin gone
    BY DEF PidsOK, TableOK, EntryType, NoEntry
  <2>3. QED
    BY <2>1, <2>2 DEF TableOK, Fds, PidsOK
<1>7. u \in PidsType /\ u.open = r.open \ closed /\ u.active_pids = n /\ u.table = t
  <2>1. t \in [Pids -> EntryType]
    BY <1>6 DEF TableOK
  <2> HIDE DEF t, n, closed, u
  <2>2. QED
    BY <1>1, <1>4, <1>5, <2>1 DEF PidsOK, PidsType
<1>8. (~setup.emulate => n = Cardinality(r.open \ closed)) /\ n >= Cardinality(r.open \ closed)
  <2> HIDE DEF closed
  <2> QED BY <1>2, <1>3 DEF PidsOK, PidsType
<1>9. QED
  <2>1. PidsOK(u)
    <3> HIDE DEF t, n, closed, u
    <3> QED BY <1>6, <1>7, <1>8 DEF PidsOK
  <2>2. QED
    BY <2>1

\* The new entries A become active: those without a descriptor get one, save the
\* emulated one, which is counted all the same.
LEMMA ActivatedOK ==
    ASSUME NEW r, PidsOK(r), NEW A \in SUBSET Wanted(r)
    PROVE  PidsOK(Activated(r, A))
<1> DEFINE o == ToOpen(r, A)
           added == {p \in o : ~Emulated(p)}
           n == r.active_pids + Cardinality(o)
           t == [p \in Pids |->
                     IF p \in A
                     THEN [r.table[p] EXCEPT !.flags = "active",
                             !.fd = IF @ = "open" THEN @
                                    ELSE IF Emulated(p) THEN "minus1" ELSE "open"]
                     ELSE r.table[p]]
           u == Activated(r, A)
<1>1. A \subseteq Pids /\ o \subseteq Pids /\ added \subseteq o /\ r.open \subseteq Pids /\ o \cap r.open = {}
  BY DEF Wanted, ToOpen, PidsOK, Fds
<1>2. /\ IsFiniteSet(o) /\ IsFiniteSet(added) /\ IsFiniteSet(r.open)
      /\ Cardinality(o) \in Nat /\ Cardinality(added) \in Nat /\ Cardinality(r.open) \in Nat
  <2> HIDE DEF o, added
  <2> QED BY <1>1, OpenFinite
<1>3. Cardinality(r.open \cup added) = Cardinality(r.open) + Cardinality(added)
  <2> HIDE DEF o, added
  <2> QED BY <1>1, <1>2, CardinalityPlus
<1>4. Cardinality(added) <= Cardinality(o) /\ (~setup.emulate => added = o)
  <2>1. ~setup.emulate => added = o
    BY DEF Emulated
  <2>2. Cardinality(added) <= Cardinality(o)
    <3> HIDE DEF o, added
    <3> QED BY <1>1, <1>2, FS_Subset
  <2>3. QED
    BY <2>1, <2>2
<1>5. r.active_pids \in Nat /\ r.max_active_pids \in Nat /\ n \in Nat /\ Max({r.max_active_pids, n}) \in Nat
  <2>1. r.active_pids \in Nat /\ r.max_active_pids \in Nat
    BY DEF PidsOK, PidsType
  <2>2. n \in Nat
    <3> HIDE DEF o
    <3> QED BY <1>2, <2>1
  <2>3. QED
    <3> HIDE DEF n
    <3> QED BY <2>1, <2>2, MaxOfTwo
<1>6. u = [r EXCEPT !.open = r.open \cup added, !.active_pids = n,
                    !.max_active_pids = Max({r.max_active_pids, n}), !.table = t]
  BY DEF Activated
<1>7. TableOK(t) /\ Fds(t) = r.open \cup added
  <2>1. ASSUME NEW p \in Pids PROVE t[p] \in EntryType /\ Kept(t[p])
    <3>1. r.table[p] \in EntryType /\ Kept(r.table[p])
      BY DEF PidsOK, TableOK
    <3>2. CASE p \in A
      <4>1. r.table[p].flags \in {"new", "active"}
        BY <3>2 DEF Wanted
      <4>2. t[p] = [r.table[p] EXCEPT !.flags = "active",
                            !.fd = IF @ = "open" THEN @ ELSE IF Emulated(p) THEN "minus1" ELSE "open"]
        BY <3>2
      <4> HIDE DEF t
      <4>3. QED
        BY <3>1, <4>1, <4>2 DEF EntryType, Kept
    <3>3. CASE p \notin A
      BY <3>1, <3>3
    <3>4. QED
      BY <3>2, <3>3
  <2>2. \A p \in Pids : t[p].fd = "open" <=> r.table[p].fd = "open" \/ p \in added
    BY DEF PidsOK, TableOK, EntryType, ToOpen
  <2>3. QED
    BY <1>1, <2>1, <2>2 DEF TableOK, Fds, PidsOK
<1>8. /\ u \in PidsType /\ u.open = r.open \cup added /\ u.active_pids = n /\ u.table = t
  <2>1. t \in [Pids -> EntryType]
    BY <1>7 DEF TableOK
  <2> HIDE DEF t, n, added, o, u
  <2>2. QED
    BY <1>1, <1>5, <1>6, <2>1 DEF PidsOK, PidsType
<1>9. (~setup.emulate => n = Cardinality(r.open \cup added)) /\ n >= Cardinality(r.open \cup added)
  <2> HIDE DEF o, added
  <2> QED BY <1>2, <1>3, <1>4, <1>5 DEF PidsOK
<1>10. QED
  <2>1. PidsOK(u)
    <3> HIDE DEF t, n, added, o, u
    <3> QED BY <1>7, <1>8, <1>9 DEF PidsOK
  <2>2. QED
    BY <2>1

\* A refused descriptor: its entry had none, and stays new.
LEMMA RefusedOK ==
    ASSUME NEW r, PidsOK(r), NEW p \in Pids, r.table[p].flags = "new", r.table[p].fd # "open"
    PROVE  PidsOK(Refused(r, p))
<1> DEFINE t == [r.table EXCEPT ![p].fd = "minus1"]
           m == Max({MinPids, r.max_active_pids - 1})
<1>1. TableOK(t) /\ Fds(t) = Fds(r.table)
  <2>1. \A q \in Pids : t[q] \in EntryType /\ Kept(t[q]) /\ (t[q].fd = "open" <=> r.table[q].fd = "open")
    BY DEF PidsOK, TableOK, EntryType, Kept, NoEntry
  <2>2. t \in [Pids -> EntryType]
    BY DEF PidsOK, TableOK, EntryType
  <2>3. QED
    BY <2>1, <2>2 DEF TableOK, Fds
<1>2. m \in Nat
  <2>1. MinPids \in Nat /\ r.max_active_pids - 1 \in Int
    BY PidFiltersAssumption DEF PidsOK, PidsType
  <2>2. QED
    BY <2>1, MaxOfTwo
<1>3. Refused(r, p) = [[r EXCEPT !.table = t] EXCEPT !.max_pids = m]
  BY DEF Refused, PidsOK, PidsType
<1>4. PidsOK([r EXCEPT !.table = t])
  <2> HIDE DEF t
  <2> QED BY <1>1, SameDescriptors
<1>5. QED
  <2> HIDE DEF t, m
  <2> QED BY <1>2, <1>3, <1>4 DEF PidsOK, PidsType

LEMMA OpenedOK ==
    ASSUME NEW r, PidsOK(r), NEW u \in Opened(r)
    PROVE  PidsOK(u)
<1>1. CASE \E A \in SUBSET Wanted(r) : u = Activated(r, A)
  BY <1>1, ActivatedOK
<1>2. CASE \E A \in SUBSET Wanted(r) : \E p \in ToOpen(r, Wanted(r) \ A) : u = Refused(Activated(r, A), p)
  <2>0. PICK A \in SUBSET Wanted(r) : \E p \in ToOpen(r, Wanted(r) \ A) : u = Refused(Activated(r, A), p)
    BY <1>2
  <2>1. PICK p \in ToOpen(r, Wanted(r) \ A) : u = Refused(Activated(r, A), p)
    BY <2>0
  <2>2. PidsOK(Activated(r, A))
    BY ActivatedOK
  <2>3. p \in Pids \ A /\ r.table[p].flags = "new" /\ r.table[p].fd # "open"
    BY DEF ToOpen, Wanted
  <2>4. Activated(r, A).table[p] = r.table[p]
    BY <2>3, <2>1 DEF Activated, PidsOK, PidsType
  <2>5. QED
    BY <2>1, <2>2, <2>3, <2>4, RefusedOK
<1>3. QED
  BY <1>1, <1>2 DEF Opened

\* Every outcome of update_pids: removed, limited, refused or complete.
LEMMA UpdatedOK ==
    ASSUME NEW fs \in FiltersType, NEW r, PidsOK(r), NEW u \in Updated(fs, r)
    PROVE  PidsOK(u)
<1>1. PICK t \in EmulateAll(r.table) : u \in Opened(Removed(fs, [r EXCEPT !.table = t]))
  BY DEF Updated
<1>2. PidsOK([r EXCEPT !.table = t])
  BY EmulateAllOK, SameDescriptors DEF PidsOK
<1>3. PidsOK(Removed(fs, [r EXCEPT !.table = t]))
  BY <1>2, RemovedOK
<1>4. QED
  BY <1>1, <1>3, OpenedOK

-----------------------------------------------------------------------------
(* One lemma per operation *)

\* mark, then update_pids
LEMMA UpdateOK ==
    ASSUME PidsInv, NEW t, TableOK(t), Fds(t) = Fds(pt.table), Update(t, filters)
    PROVE  PidsOK(pt')
<1>1. PidsOK([pt EXCEPT !.table = t])
  BY SameDescriptors DEF PidsInv
<1>2. QED
  BY <1>1, UpdatedOK DEF Update, PidsInv, FiltersOK

LEMMA StepUpdatePids == ASSUME PidsInv, UpdatePids PROVE PidsOK(pt') /\ FiltersOK(filters')
<1>1. TableOK(pt.table)
  BY DEF PidsInv, PidsOK
<1>2. QED
  BY <1>1, UpdateOK DEF UpdatePids, PidsInv

LEMMA StepLeaveStream ==
    ASSUME PidsInv, NEW s \in Sids, LeaveStream(s) PROVE PidsOK(pt') /\ FiltersOK(filters')
<1> DEFINE t == Without(filters, pt.table, s)
<1>1. \A p \in Pids : pt.table[p] \in EntryType /\ Kept(pt.table[p])
  BY DEF PidsInv, PidsOK, TableOK
<1>2. \A p \in Pids : t[p] \in EntryType /\ Kept(t[p]) /\ t[p].fd = pt.table[p].fd
  BY <1>1, UnsubscribedOK DEF Without
<1>3. TableOK(t) /\ Fds(t) = Fds(pt.table)
  BY <1>2 DEF TableOK, Fds, Without
<1>4. QED
  <2>1. Update(t, filters) /\ filters' = filters
    BY DEF LeaveStream
  <2> HIDE DEF t
  <2>2. QED
    BY <1>3, <2>1, UpdateOK DEF PidsInv

LEMMA StepDropAll == ASSUME PidsInv, DropAll PROVE PidsOK(pt') /\ FiltersOK(filters')
<1> DEFINE t == [p \in Pids |-> Dropped(pt.table[p])]
<1>1. \A p \in Pids : pt.table[p] \in EntryType /\ Kept(pt.table[p])
  BY DEF PidsInv, PidsOK, TableOK
<1>2. \A p \in Pids : t[p] \in EntryType /\ Kept(t[p]) /\ t[p].fd = pt.table[p].fd
  BY <1>1, DroppedOK
<1>3. TableOK(t) /\ Fds(t) = Fds(pt.table)
  BY <1>2 DEF TableOK, Fds
<1>4. QED
  <2>1. Update(t, filters) /\ filters' = filters
    BY DEF DropAll
  <2> HIDE DEF t
  <2>2. QED
    BY <1>3, <2>1, UpdateOK DEF PidsInv

LEMMA StepSyncPids ==
    ASSUME PidsInv, NEW s \in Sids, NEW S \in SUBSET Pids, SyncPids(s, S)
    PROVE  PidsOK(pt') /\ FiltersOK(filters')
<1> DEFINE t == [p \in Pids |-> IF Found(pt.table, p) /\ s \in pt.table[p].sid /\ p \notin S
                                THEN Unsubscribed(filters, pt.table[p], p, s)
                                ELSE pt.table[p]]
<1>1. \A p \in Pids : pt.table[p] \in EntryType /\ Kept(pt.table[p])
  BY DEF PidsInv, PidsOK, TableOK
<1>2. \A p \in Pids : t[p] \in EntryType /\ Kept(t[p]) /\ t[p].fd = pt.table[p].fd
  BY <1>1, UnsubscribedOK
<1>3. TableOK(t) /\ Fds(t) = Fds(pt.table)
  BY <1>2 DEF TableOK, Fds
<1>4. PICK T \in SUBSET S : pt' = [pt EXCEPT !.table = MarkAddAll(t, {s}, T)]
  BY DEF SyncPids
<1>5. filters' = filters
  BY DEF SyncPids
<1> HIDE DEF t
<1>6. TableOK(MarkAddAll(t, {s}, T)) /\ Fds(MarkAddAll(t, {s}, T)) = Fds(pt.table)
  BY <1>3, MarkAddAllOK
<1>7. QED
  BY <1>4, <1>5, <1>6, SameDescriptors DEF PidsInv

LEMMA StepDefaultPid ==
    ASSUME PidsInv, NEW p \in Pids, DefaultPid(p) PROVE PidsOK(pt') /\ FiltersOK(filters')
<1>1. TableOK(pt.table) /\ pt' = [pt EXCEPT !.table = MarkAdd(pt.table, {}, p)]
  BY DEF PidsInv, PidsOK, DefaultPid
<1>2. TableOK(MarkAdd(pt.table, {}, p)) /\ Fds(MarkAdd(pt.table, {}, p)) = Fds(pt.table)
  BY <1>1, MarkAddOK
<1>3. QED
  BY <1>1, <1>2, SameDescriptors DEF PidsInv, DefaultPid

\* Only the filter of an entry changes.
LEMMA FilterSet ==
    ASSUME NEW t, TableOK(t), NEW p \in Pids, NEW f \in Fids \cup {-1}
    PROVE  TableOK([t EXCEPT ![p].filter = f]) /\ Fds([t EXCEPT ![p].filter = f]) = Fds(t)
<1> DEFINE e == [t[p] EXCEPT !.filter = f]
<1>1. t[p] \in EntryType /\ Kept(t[p])
  BY DEF TableOK
<1>2. e \in EntryType /\ e.fd = t[p].fd /\ Kept(e)
  BY <1>1 DEF EntryType, Kept
<1>3. [t EXCEPT ![p].filter = f] = [t EXCEPT ![p] = e]
  OBVIOUS
<1> HIDE DEF e
<1>4. QED
  BY <1>2, <1>3 DEF TableOK, Fds

LEMMA EnsurePidOK ==
    ASSUME NEW t, TableOK(t), NEW p \in Pids, NEW fl
    PROVE  TableOK(EnsurePid(t, p, fl)) /\ Fds(EnsurePid(t, p, fl)) = Fds(t)
  BY MarkAddOK DEF EnsurePid

LEMMA StepAddFilter ==
    ASSUME PidsInv, NEW f \in Fids, NEW p \in Pids, NEW fl \in Flags, AddFilter(f, p, fl)
    PROVE  PidsOK(pt') /\ FiltersOK(filters')
<1> DEFINE tails == {g \in FiltersOf(filters, p) : filters[g].next = -1}
           master == IF tails = {} THEN f ELSE filters[Max(tails)].master
           t == EnsurePid(pt.table, p, fl)
           u == IF Found(t, p) THEN [t EXCEPT ![p].filter = f] ELSE t
<1>1. master \in Fids \cup {-1}
  <2>1. tails \in SUBSET Fids
    BY DEF FiltersOf
  <2>2. CASE tails # {}
    <3>1. Max(tails) \in Fids
      <4> HIDE DEF tails
      <4> QED BY <2>1, <2>2, FidsFinite, MaxIsGreatest
    <3> HIDE DEF tails
    <3>2. QED
      BY <2>2, <3>1 DEF PidsInv, FiltersOK, FiltersType, FilterType
  <2>3. QED
    BY <2>2
<1>2. filters' = [g \in Fids |->
             IF g = f THEN [enabled |-> TRUE, pid |-> p, flags |-> fl, next |-> -1, master |-> master]
             ELSE IF g \in tails THEN [filters[g] EXCEPT !.next = f]
             ELSE filters[g]]
  BY DEF AddFilter
<1>3. FiltersOK(filters')
  <2> HIDE DEF tails, master
  <2> QED BY <1>1, <1>2 DEF PidsInv, FiltersOK, FiltersType, FilterType
<1>4. TableOK(u) /\ Fds(u) = Fds(pt.table)
  <2>1. TableOK(t) /\ Fds(t) = Fds(pt.table)
    BY EnsurePidOK DEF PidsInv, PidsOK
  <2> HIDE DEF t
  <2>2. QED
    BY <2>1, FilterSet
<1>5. pt' = [pt EXCEPT !.table = u]
  BY DEF AddFilter
<1>6. QED
  <2> HIDE DEF u
  <2> QED BY <1>3, <1>4, <1>5, SameDescriptors DEF PidsInv

LEMMA StepSetFilterFlags ==
    ASSUME PidsInv, NEW f \in Fids, NEW fl \in Flags, SetFilterFlags(f, fl)
    PROVE  PidsOK(pt') /\ FiltersOK(filters')
<1> DEFINE t == EnsurePid(pt.table, filters[f].pid, fl)
<1>1. filters[f].pid \in Pids /\ filters' = [filters EXCEPT ![f].flags = fl] /\ pt' = [pt EXCEPT !.table = t]
  BY DEF SetFilterFlags, PidsInv, FiltersOK
<1>2. TableOK(t) /\ Fds(t) = Fds(pt.table)
  BY <1>1, EnsurePidOK DEF PidsInv, PidsOK
<1>3. FiltersOK(filters')
  BY <1>1 DEF PidsInv, FiltersOK, FiltersType, FilterType
<1>4. QED
  <2> HIDE DEF t
  <2> QED BY <1>1, <1>2, <1>3, SameDescriptors DEF PidsInv

\* set_filter_flags_locked(f, 0)
LEMMA FlagsClearedOK ==
    ASSUME PidsInv, NEW fs \in FiltersType, NEW f \in Fids, fs[f].pid \in Pids, NEW r \in FlagsCleared(fs, f)
    PROVE  PidsOK(r)
<1> DEFINE p == fs[f].pid
           t == [pt.table EXCEPT ![p] = Dropped(pt.table[p])]
<1>1. TableOK(t) /\ Fds(t) = Fds(pt.table)
  <2>1. TableOK(pt.table) /\ p \in Pids
    BY DEF PidsInv, PidsOK
  <2>2. /\ Dropped(pt.table[p]) \in EntryType /\ Kept(Dropped(pt.table[p]))
        /\ Dropped(pt.table[p]).fd = pt.table[p].fd
    BY <2>1, DroppedOK DEF TableOK
  <2> HIDE DEF p
  <2>3. QED
    BY <2>1, <2>2 DEF TableOK, Fds
<1>2. PidsOK([pt EXCEPT !.table = t])
  <2> HIDE DEF t
  <2> QED BY <1>1, SameDescriptors DEF PidsInv
<1>3. [pt EXCEPT !.table[p] = Dropped(@)] = [pt EXCEPT !.table = t]
  BY DEF PidsInv, PidsOK, PidsType
<1>4. r = pt \/ r \in Updated(fs, [pt EXCEPT !.table = t])
  BY <1>3 DEF FlagsCleared
<1>5. QED
  <2> HIDE DEF t, p
  <2> QED BY <1>2, <1>4, UpdatedOK DEF PidsInv

LEMMA StepClearFilterFlags ==
    ASSUME PidsInv, NEW f \in Fids, ClearFilterFlags(f)
    PROVE  PidsOK(pt') /\ FiltersOK(filters')
<1> DEFINE fs == [filters EXCEPT ![f].flags = "none"]
<1>1. filters[f].enabled /\ filters' = fs /\ pt' \in FlagsCleared(fs, f)
  BY DEF ClearFilterFlags
<1>2. FiltersOK(fs) /\ fs[f].pid \in Pids
  BY <1>1 DEF PidsInv, FiltersOK, FiltersType, FilterType, Flags
<1>3. QED
  <2> HIDE DEF fs
  <2> QED BY <1>1, <1>2, FlagsClearedOK DEF FiltersOK

\* What is left of a chain are filters of the same pid.
LEMMA UnlinkedOK ==
    ASSUME NEW fs \in FiltersType, NEW f \in Fids, ~fs[f].enabled,
           \A g \in Fids : fs[g].enabled => fs[g].pid \in Pids
    PROVE  FiltersOK(Unlinked(fs, f))
<1> DEFINE others == FiltersOf(fs, fs[f].pid)
           heir == IF Enabled(fs, fs[f].next) THEN fs[f].next
                   ELSE IF others # {} THEN Min(others) ELSE -1
           prev == {g \in others : fs[g].next = f}
           u == Unlinked(fs, f)
<1>1. others \in SUBSET Fids /\ \A g \in others : fs[g].pid \in Pids
  BY DEF FiltersOf
<1>2. others # {} => Min(others) \in Fids
  <2> HIDE DEF others
  <2> QED BY <1>1, FidsFinite, MinIsLeast
<1>3. heir \in Fids \cup {-1} /\ fs[f].next \in Fids \cup {-1}
  <2> HIDE DEF others
  <2> QED BY <1>2 DEF FiltersType, FilterType
<1>4. u = [g \in Fids |->
           IF g = f THEN [fs[f] EXCEPT !.pid = -1]
           ELSE IF fs[f].master = f /\ heir # -1 /\ g \in others
           THEN [fs[g] EXCEPT !.master = heir]
           ELSE IF fs[f].master # f /\ prev # {} /\ g = Min(prev)
           THEN [fs[g] EXCEPT !.next = fs[f].next]
           ELSE fs[g]]
  BY DEF Unlinked
<1>5. \A g \in Fids : u[g] \in FilterType /\ (u[g].enabled => u[g].pid \in Pids)
  <2>1. SUFFICES ASSUME NEW g \in Fids PROVE u[g] \in FilterType /\ (u[g].enabled => u[g].pid \in Pids)
    OBVIOUS
  <2>2. fs[g] \in FilterType /\ fs[f] \in FilterType /\ (fs[g].enabled => fs[g].pid \in Pids)
    BY DEF FiltersType
  <2>3. /\ [fs[f] EXCEPT !.pid = -1] \in FilterType
        /\ [fs[g] EXCEPT !.master = heir] \in FilterType
        /\ [fs[g] EXCEPT !.next = fs[f].next] \in FilterType
    <3> HIDE DEF heir
    <3> QED BY <1>3, <2>2 DEF FilterType
  <2>4. /\ ~[fs[f] EXCEPT !.pid = -1].enabled
        /\ [fs[g] EXCEPT !.master = heir].enabled = fs[g].enabled
        /\ [fs[g] EXCEPT !.master = heir].pid = fs[g].pid
        /\ [fs[g] EXCEPT !.next = fs[f].next].enabled = fs[g].enabled
        /\ [fs[g] EXCEPT !.next = fs[f].next].pid = fs[g].pid
    <3> HIDE DEF heir
    <3> QED BY <2>2 DEF FilterType
  <2>5. \/ u[g] = [fs[f] EXCEPT !.pid = -1]
        \/ u[g] = [fs[g] EXCEPT !.master = heir]
        \/ u[g] = [fs[g] EXCEPT !.next = fs[f].next]
        \/ u[g] = fs[g]
    <3> HIDE DEF heir, prev, others, u
    <3> QED BY <1>4
  <2>6. QED
    <3> HIDE DEF heir, u
    <3> QED BY <2>2, <2>3, <2>4, <2>5
<1>6. u \in FiltersType
  <2> HIDE DEF heir, prev, others
  <2> QED BY <1>4, <1>5 DEF FiltersType
<1>7. QED
  BY <1>5, <1>6 DEF FiltersOK

LEMMA StepDelFilter ==
    ASSUME PidsInv, NEW f \in Fids, DelFilter(f)
    PROVE  PidsOK(pt') /\ FiltersOK(filters')
<1> DEFINE fs == [filters EXCEPT ![f].enabled = FALSE, ![f].flags = "none"]
           p == fs[f].pid
<1>1. filters[f].enabled /\ filters' = Unlinked(fs, f)
  BY DEF DelFilter
<1>2. PICK r \in FlagsCleared(fs, f) : pt' = r \/ pt' = [r EXCEPT !.table[p].filter = -1]
  BY DEF DelFilter
<1>3. /\ fs \in FiltersType /\ ~fs[f].enabled /\ p \in Pids
      /\ \A g \in Fids : fs[g].enabled => fs[g].pid \in Pids
  BY <1>1 DEF PidsInv, FiltersOK, FiltersType, FilterType, Flags
<1>4. FiltersOK(filters')
  <2> HIDE DEF fs
  <2> QED BY <1>1, <1>3, UnlinkedOK
<1>5. PidsOK(r)
  <2> HIDE DEF fs
  <2> QED BY <1>3, FlagsClearedOK
<1>6. PidsOK([r EXCEPT !.table[p].filter = -1])
  <2> DEFINE tab == r.table
             t == [tab EXCEPT ![p].filter = -1]
  <2>1. TableOK(t) /\ Fds(t) = Fds(r.table)
    <3>1. TableOK(tab) /\ p \in Pids /\ -1 \in Fids \cup {-1}
      BY <1>3, <1>5 DEF PidsOK
    <3> HIDE DEF p, tab
    <3>2. TableOK(t) /\ Fds(t) = Fds(tab)
      BY ONLY <3>1, FilterSet
    <3>3. QED
      BY <3>2 DEF tab
  <2>2. PidsOK([r EXCEPT !.table = t])
    <3> HIDE DEF t
    <3> QED BY <1>5, <2>1, SameDescriptors
  <2>3. [r EXCEPT !.table[p].filter = -1] = [r EXCEPT !.table = t]
    BY <1>5 DEF PidsOK, PidsType
  <2>4. QED
    BY <2>2, <2>3
<1>7. QED
  BY <1>2, <1>4, <1>5, <1>6

LEMMA StepPacket ==
    ASSUME PidsInv, NEW p \in Pids, Packet(p)
    PROVE  PidsOK(pt') /\ FiltersOK(filters')
<1> DEFINE f == Repaired(filters, pt.table[p], p)
           t == [pt.table EXCEPT ![p].filter = f]
<1>1. f \in Fids \cup {-1}
  <2>1. PidFilter(filters, p) \in Fids \cup {-1}
    BY PidFilterType DEF PidsInv, FiltersOK
  <2>2. pt.table[p].filter \in Fids \cup {-1}
    BY DEF PidsInv, PidsOK, TableOK, EntryType
  <2>3. QED
    BY <2>1, <2>2 DEF Repaired
<1>2. pt' = [pt EXCEPT !.table = t] /\ filters' = filters
  BY DEF Packet, PidsInv, PidsOK, PidsType
<1>3. TableOK(t) /\ Fds(t) = Fds(pt.table)
  <2> HIDE DEF f
  <2> QED BY <1>1, FilterSet DEF PidsInv, PidsOK
<1>4. QED
  <2> HIDE DEF t
  <2> QED BY <1>2, <1>3, SameDescriptors DEF PidsInv

-----------------------------------------------------------------------------
(* The walk along a chain of filters *)

\* Where the walk starts and how it goes on: what is not an enabled filter ends it.
From(fs, f) == IF Enabled(fs, f) THEN f ELSE -1
After(fs, x) == IF x = -1 THEN -1 ELSE From(fs, fs[x].next)

\* What holds of 0 and goes from a number to the next holds up to NumFilters: a least exception would follow one
\* that is none.
LEMMA UpTo ==
    ASSUME NEW Q, 0 \in Q, \A n \in 1 .. NumFilters : n - 1 \in Q => n \in Q
    PROVE  0 .. NumFilters \subseteq Q
<1> DEFINE bad == (0 .. NumFilters) \ Q
<1>1. SUFFICES ASSUME bad # {} PROVE FALSE
  OBVIOUS
<1>2. NumFilters \in Nat
  BY PidFiltersAssumption
<1>3. bad \in SUBSET Int /\ IsFiniteSet(bad)
  <2>1. IsFiniteSet(0 .. NumFilters) /\ bad \in SUBSET (0 .. NumFilters) /\ 0 .. NumFilters \subseteq Int
    BY <1>2, FS_Interval
  <2> HIDE DEF bad
  <2>2. IsFiniteSet(bad)
    BY <2>1, FS_Subset
  <2>3. QED
    BY <2>1, <2>2
<1>4. PICK k \in bad : \A y \in bad : k <= y
  <2> HIDE DEF bad
  <2> QED BY <1>1, <1>3, MinIsLeast
<1>5. k \in 1 .. NumFilters /\ k - 1 \in 0 .. NumFilters /\ ~(k <= k - 1)
  BY <1>2
<1>6. k - 1 \in Q
  BY <1>4, <1>5
<1>7. QED
  BY <1>5, <1>6

Walk(fs, f, h, n) == h[0] = From(fs, f) /\ \A i \in 1 .. n : h[i] = After(fs, h[i - 1])

\* There is a walk of any length.
LEMMA WalkExists ==
    ASSUME NEW fs, NEW f
    PROVE  \A n \in 0 .. NumFilters : \E h : Walk(fs, f, h, n)
<1> DEFINE Q == {n \in 0 .. NumFilters : \E h : Walk(fs, f, h, n)}
<1>1. NumFilters \in Nat
  BY PidFiltersAssumption
<1>2. 0 \in Q
  <2>1. Walk(fs, f, [i \in {0} |-> From(fs, f)], 0)
    BY DEF Walk
  <2>2. QED
    BY <1>1, <2>1
<1>3. ASSUME NEW m \in 1 .. NumFilters, m - 1 \in Q
      PROVE  m \in Q
  <2>1. PICK h : Walk(fs, f, h, m - 1)
    BY <1>3
  <2> DEFINE e == [i \in 0 .. m |-> IF i = m THEN After(fs, h[m - 1]) ELSE h[i]]
  <2>2. m \in Nat /\ m # 0
    BY <1>1
  <2>3. e[0] = From(fs, f)
    BY <2>1, <2>2 DEF Walk
  <2>4. ASSUME NEW i \in 1 .. m
        PROVE  e[i] = After(fs, e[i - 1])
    <3>1. i - 1 \in 0 .. m /\ i \in 0 .. m /\ i - 1 # m
      BY <2>2
    <3>2. e[i - 1] = h[i - 1]
      BY <3>1
    <3>3. CASE i = m
      BY <3>1, <3>2, <3>3
    <3>4. CASE i # m
      <4>1. i \in 1 .. m - 1
        BY <2>2, <3>4
      <4>2. e[i] = h[i]
        BY <3>1, <3>4
      <4>3. QED
        BY <2>1, <3>2, <4>1, <4>2 DEF Walk
    <3>5. QED
      BY <3>3, <3>4
  <2>5. Walk(fs, f, e, m)
    <3> HIDE DEF e
    <3> QED BY <2>3, <2>4 DEF Walk
  <2>6. QED
    BY <1>1, <2>2, <2>5
<1>4. 0 .. NumFilters \subseteq Q
  <2> HIDE DEF Q
  <2> QED BY <1>2, <1>3, UpTo
<1>5. QED
  BY <1>4

\* Hop is that walk.
LEMMA HopWalks ==
    ASSUME NEW fs, NEW f
    PROVE  Walk(fs, f, Hop(fs, f), NumFilters)
<1> DEFINE next(hop, n) == IF n = 0 THEN (IF Enabled(fs, f) THEN f ELSE -1)
                           ELSE IF hop[n - 1] = -1 THEN -1
                           ELSE LET g == fs[hop[n - 1]].next IN IF Enabled(fs, g) THEN g ELSE -1
           defines(hop) == hop = [n \in 0 .. NumFilters |-> next(hop, n)]
<1>1. Hop(fs, f) = CHOOSE hop : defines(hop)
  BY DEF Hop
<1>2. NumFilters \in Nat
  BY PidFiltersAssumption
<1>3. PICK h : Walk(fs, f, h, NumFilters)
  BY <1>2, WalkExists
<1> DEFINE e == [n \in 0 .. NumFilters |-> h[n]]
<1>4. \A n \in 0 .. NumFilters : e[n] = next(e, n)
  <2>1. SUFFICES ASSUME NEW n \in 0 .. NumFilters PROVE e[n] = next(e, n)
    OBVIOUS
  <2>2. CASE n = 0
    BY <1>3, <2>2 DEF Walk, From
  <2>3. CASE n # 0
    <3>1. n \in 1 .. NumFilters /\ n - 1 \in 0 .. NumFilters
      BY <1>2, <2>3
    <3>2. e[n] = After(fs, e[n - 1])
      BY <1>3, <3>1 DEF Walk
    <3> HIDE DEF e
    <3>3. QED
      BY <2>3, <3>2 DEF After, From
  <2>4. QED
    BY <2>2, <2>3
<1>5. defines(e)
  <2>1. e = [n \in 0 .. NumFilters |-> e[n]]
    OBVIOUS
  <2> HIDE DEF e
  <2>2. QED
    BY <1>4, <2>1
<1>6. defines(Hop(fs, f))
  <2> HIDE DEF defines, e
  <2> QED BY <1>1, <1>5
<1> DEFINE hop == Hop(fs, f)
<1>7. \A n \in 0 .. NumFilters : hop[n] = next(hop, n)
  <2> HIDE DEF hop
  <2>1. hop = [n \in 0 .. NumFilters |-> next(hop, n)]
    BY <1>6 DEF hop
  <2> HIDE DEF next
  <2>2. QED
    BY <2>1
<1> HIDE DEF hop
<1>8. hop[0] = From(fs, f)
  BY <1>2, <1>7 DEF From
<1>9. \A i \in 1 .. NumFilters : hop[i] = After(fs, hop[i - 1])
  <2>1. SUFFICES ASSUME NEW i \in 1 .. NumFilters PROVE hop[i] = After(fs, hop[i - 1])
    OBVIOUS
  <2>2. i \in 0 .. NumFilters /\ i # 0
    BY <1>2
  <2>3. hop[i] = next(hop, i)
    BY <1>7, <2>2
  <2>4. QED
    BY <2>2, <2>3 DEF After, From
<1>10. QED
  BY <1>8, <1>9 DEF Walk, hop

-----------------------------------------------------------------------------
(* Chains *)

\* The filters S of one pid are numbered from 0, the master, along their next pointers, without a gap; the
\* last points nowhere.
Linked(fs, pos, S, m) ==
    /\ m \in S /\ pos[m] = 0
    /\ \A f \in S : fs[f].master = m /\ pos[f] < Cardinality(S)
    /\ \A f, g \in S : pos[f] = pos[g] => f = g
    /\ \A f \in S : fs[f].next = -1 => \A g \in S : pos[g] <= pos[f]
    /\ \A f \in S : fs[f].next # -1 => fs[f].next \in S /\ pos[fs[f].next] = pos[f] + 1
    /\ \A f \in S : f # m => \E g \in S : fs[g].next = f
ChainOK(fs, S) == S # {} => \E m \in S, pos \in [Fids -> Nat] : Linked(fs, pos, S, m)
ChainsOK(fs) == \A p \in Pids : ChainOK(fs, FiltersOf(fs, p))

LEMMA FiltersOfAre == \A fs, p : /\ FiltersOf(fs, p) \subseteq Fids
                                 /\ IsFiniteSet(FiltersOf(fs, p)) /\ Cardinality(FiltersOf(fs, p)) \in 0 .. NumFilters
<1> SUFFICES ASSUME NEW fs, NEW p
             PROVE  /\ FiltersOf(fs, p) \subseteq Fids
                    /\ IsFiniteSet(FiltersOf(fs, p)) /\ Cardinality(FiltersOf(fs, p)) \in 0 .. NumFilters
  OBVIOUS
<1> DEFINE S == FiltersOf(fs, p)
<1>1. S \subseteq Fids
  BY DEF FiltersOf
<1>2. IsFiniteSet(Fids) /\ Cardinality(Fids) = NumFilters
  <2>1. NumFilters \in Nat /\ Fids = 0 .. NumFilters - 1
    BY PidFiltersAssumption DEF Fids
  <2>2. QED
    BY <2>1, FS_Interval
<1> HIDE DEF S
<1>3. IsFiniteSet(S) /\ Cardinality(S) <= NumFilters /\ Cardinality(S) \in Nat
  BY <1>1, <1>2, FS_Subset, FS_CardinalityType
<1>4. QED
  BY <1>1, <1>3, PidFiltersAssumption DEF S

\* The walk from the master visits the filters in their order and ends.
LEMMA WalkAlong ==
    ASSUME NEW fs, NEW p, NEW pos \in [Fids -> Nat], NEW m, Linked(fs, pos, FiltersOf(fs, p), m)
    PROVE  \A n \in 0 .. NumFilters :
              \/ /\ Hop(fs, m)[n] = -1 /\ \A g \in FiltersOf(fs, p) : pos[g] < n
              \/ Hop(fs, m)[n] \in FiltersOf(fs, p) /\ pos[Hop(fs, m)[n]] = n
<1> DEFINE S == FiltersOf(fs, p)
           hop == Hop(fs, m)
           Right(n) == \/ hop[n] = -1 /\ \A g \in S : pos[g] < n
                       \/ hop[n] \in S /\ pos[hop[n]] = n
           Q == {n \in 0 .. NumFilters : Right(n)}
<1>1. S \subseteq Fids /\ (\A f \in S : fs[f].enabled) /\ -1 \notin S
  BY PidFiltersAssumption DEF FiltersOf, Fids
<1>2. Walk(fs, m, hop, NumFilters) /\ NumFilters \in Nat
  BY HopWalks, PidFiltersAssumption
<1>3. \A f \in S : From(fs, f) = f
  BY <1>1 DEF From, Enabled
<1> HIDE DEF S, hop
<1>4. Linked(fs, pos, S, m)
  BY DEF S
<1>5. Right(0)
  BY <1>2, <1>3, <1>4 DEF Walk, Linked
<1>6. ASSUME NEW n \in 1 .. NumFilters, Right(n - 1)
      PROVE  Right(n)
  <2>1. hop[n] = After(fs, hop[n - 1])
    BY <1>2 DEF Walk
  <2>2. CASE hop[n - 1] = -1 /\ \A g \in S : pos[g] < n - 1
    <3>1. \A g \in S : pos[g] < n
      BY <1>1, <2>2
    <3>2. QED
      BY <2>1, <2>2, <3>1 DEF After
  <2>3. CASE hop[n - 1] \in S /\ pos[hop[n - 1]] = n - 1
    <3> DEFINE f == hop[n - 1]
    <3>1. f \in S /\ f # -1 /\ pos[f] = n - 1 /\ hop[n] = From(fs, fs[f].next)
      BY <1>1, <2>1, <2>3 DEF After
    <3> HIDE DEF f
    <3>2. CASE fs[f].next = -1
      <4>1. \A g \in S : pos[g] < n
        BY <1>1, <1>4, <3>1, <3>2 DEF Linked
      <4>2. hop[n] = -1
        BY <3>1, <3>2 DEF From, Enabled
      <4>3. QED
        BY <4>1, <4>2
    <3>3. CASE fs[f].next # -1
      <4>1. fs[f].next \in S /\ pos[fs[f].next] = pos[f] + 1
        BY <1>4, <3>1, <3>3 DEF Linked
      <4>2. hop[n] = fs[f].next
        BY <1>3, <3>1, <4>1
      <4>3. pos[hop[n]] = n
        BY <3>1, <4>1, <4>2
      <4>4. QED
        BY <4>1, <4>2, <4>3
    <3>4. QED
      BY <3>2, <3>3
  <2>4. QED
    BY <1>6, <2>2, <2>3
<1>7. 0 .. NumFilters \subseteq Q
  <2> HIDE DEF Right
  <2>1. 0 \in Q
    BY <1>2, <1>5
  <2>2. \A n \in 1 .. NumFilters : n - 1 \in Q => n \in Q
    BY <1>2, <1>6
  <2> HIDE DEF Q
  <2>3. QED
    BY <2>1, <2>2, UpTo
<1>8. QED
  BY <1>7 DEF S, hop

\* process_filters visits the filters of the pid, each once, and stops.
LEMMA ChainVisits ==
    ASSUME NEW fs, NEW p, NEW pos \in [Fids -> Nat], NEW m, Linked(fs, pos, FiltersOf(fs, p), m)
    PROVE  Chain(fs, m) = FiltersOf(fs, p) /\ Hop(fs, m)[NumFilters] = -1
<1> DEFINE S == FiltersOf(fs, p)
           hop == Hop(fs, m)
<1>1. \A n \in 0 .. NumFilters : \/ hop[n] = -1 /\ \A g \in S : pos[g] < n
                                 \/ hop[n] \in S /\ pos[hop[n]] = n
  BY WalkAlong
<1>2. S \subseteq Fids /\ Cardinality(S) \in 0 .. NumFilters /\ -1 \notin S /\ NumFilters \in Nat
  BY FiltersOfAre, PidFiltersAssumption DEF Fids
<1>3. Chain(fs, m) = {hop[n] : n \in 0 .. NumFilters} \ {-1}
  BY DEF Chain
<1> HIDE DEF S, hop
<1>4. \A g \in S : pos[g] \in 0 .. NumFilters /\ pos[g] < Cardinality(S)
  BY <1>2 DEF Linked, S
<1>5. \A g \in S : hop[pos[g]] = g
  <2>1. SUFFICES ASSUME NEW g \in S PROVE hop[pos[g]] = g
    OBVIOUS
  <2>2. hop[pos[g]] \in S /\ pos[hop[pos[g]]] = pos[g]
    BY <1>1, <1>4
  <2>3. QED
    BY <2>2 DEF Linked, S
<1>6. Chain(fs, m) = S
  BY <1>1, <1>2, <1>3, <1>4, <1>5
<1>7. hop[NumFilters] = -1
  <2>1. NumFilters \in 0 .. NumFilters
    BY <1>2
  <2>2. QED
    BY <1>1, <1>2, <1>4, <2>1
<1>8. QED
  BY <1>6, <1>7 DEF S, hop

\* A walk that starts nowhere stays there.
LEMMA WalkNowhere ==
    ASSUME NEW fs
    PROVE  Chain(fs, -1) = {} /\ Hop(fs, -1)[NumFilters] = -1
<1> DEFINE hop == Hop(fs, -1)
           Q == {n \in 0 .. NumFilters : hop[n] = -1}
<1>1. Walk(fs, -1, hop, NumFilters) /\ NumFilters \in Nat
  BY HopWalks, PidFiltersAssumption
<1>2. Chain(fs, -1) = {hop[n] : n \in 0 .. NumFilters} \ {-1}
  BY DEF Chain
<1> HIDE DEF hop
<1>3. 0 \in Q
  BY <1>1 DEF Walk, From, Enabled
<1>4. \A n \in 1 .. NumFilters : n - 1 \in Q => n \in Q
  BY <1>1 DEF Walk, After
<1>5. 0 .. NumFilters \subseteq Q
  <2> HIDE DEF Q
  <2> QED BY <1>3, <1>4, UpTo
<1>6. QED
  BY <1>1, <1>2, <1>5 DEF hop

\* The repaired filter of a pid is its master; without filters there is none.
LEMMA RepairedDelivers ==
    ASSUME NEW fs, NEW e \in EntryType, NEW p \in Pids, ChainOK(fs, FiltersOf(fs, p))
    PROVE  /\ Chain(fs, Repaired(fs, e, p)) = FiltersOf(fs, p)
           /\ Hop(fs, Repaired(fs, e, p))[NumFilters] = -1
<1> DEFINE S == FiltersOf(fs, p)
           head == Repaired(fs, e, p)
<1>1. S \in SUBSET Int /\ IsFiniteSet(S)
  BY FiltersOfAre, FidsFinite
<1>2. e.filter \in Fids \cup {-1}
  BY DEF EntryType
<1>3. Enabled(fs, e.filter) /\ fs[e.filter].pid = p => e.filter \in S
  BY <1>2 DEF FiltersOf, Enabled
<1>4. CASE S = {}
  <2>1. PidFilter(fs, p) = -1
    BY <1>4 DEF PidFilter
  <2> HIDE DEF S
  <2>2. head = -1
    BY <1>3, <1>4, <2>1 DEF Repaired
  <2> HIDE DEF head
  <2>3. Chain(fs, head) = S /\ Hop(fs, head)[NumFilters] = -1
    BY <1>4, <2>2, WalkNowhere
  <2>4. QED
    BY <2>3 DEF head, S
<1>5. CASE S # {}
  <2>1. PICK m \in S, pos \in [Fids -> Nat] : Linked(fs, pos, S, m)
    BY <1>5 DEF ChainOK
  <2>2. \A f \in S : fs[f].master = m
    BY <2>1 DEF Linked
  <2>3. PidFilter(fs, p) = m
    <3>1. PidFilter(fs, p) = fs[Min(S)].master
      BY <1>5 DEF PidFilter
    <3> HIDE DEF S
    <3>2. QED
      BY <1>1, <1>5, <2>2, <3>1, MinIsLeast
  <2>4. Chain(fs, m) = S /\ Hop(fs, m)[NumFilters] = -1
    BY <2>1, ChainVisits
  <2> HIDE DEF S
  <2>5. head = m
    BY <1>3, <2>2, <2>3 DEF Repaired
  <2> HIDE DEF head
  <2>6. Chain(fs, head) = S /\ Hop(fs, head)[NumFilters] = -1
    BY <2>4, <2>5
  <2>7. QED
    BY <2>6 DEF head, S
<1>6. QED
  BY <1>4, <1>5

\* A chain whose filters keep master and next pointer stays.
LEMMA ChainStays ==
    ASSUME NEW fs, NEW gs, NEW S, ChainOK(fs, S),
           \A g \in S : gs[g].master = fs[g].master /\ gs[g].next = fs[g].next
    PROVE  ChainOK(gs, S)
<1>1. CASE S = {}
  BY <1>1 DEF ChainOK
<1>2. CASE S # {}
  <2>1. PICK m \in S, pos \in [Fids -> Nat] : Linked(fs, pos, S, m)
    BY <1>2 DEF ChainOK
  <2>2. Linked(gs, pos, S, m)
    BY <2>1 DEF Linked
  <2>3. QED
    BY <2>2 DEF ChainOK
<1>3. QED
  BY <1>1, <1>2

\* One filter of a chain points nowhere, the one that is furthest from the master.
Last(fs, pos, S, z) == {g \in S : fs[g].next = -1} = {z} /\ \A g \in S : pos[g] <= pos[z]

LEMMA TailExists ==
    ASSUME NEW fs, NEW S, S \subseteq Fids, IsFiniteSet(S), Cardinality(S) \in Nat,
           NEW m, NEW pos \in [Fids -> Nat], Linked(fs, pos, S, m)
    PROVE  \E z \in S : Last(fs, pos, S, z)
<1> DEFINE at == {pos[g] : g \in S}
<1>1. at \in SUBSET (0 .. Cardinality(S)) /\ IsFiniteSet(0 .. Cardinality(S)) /\ 0 .. Cardinality(S) \subseteq Int
  <2>1. \A g \in S : pos[g] \in 0 .. Cardinality(S)
    BY DEF Linked
  <2>2. IsFiniteSet(0 .. Cardinality(S))
    BY FS_Interval
  <2>3. QED
    BY <2>1, <2>2
<1>2. at # {}
  BY DEF Linked
<1>3. \E k \in at : \A y \in at : y <= k
  <2> HIDE DEF at
  <2>1. IsFiniteSet(at)
    BY <1>1, FS_Subset
  <2>2. QED
    BY <1>1, <1>2, <2>1, MaxIsGreatest
<1>4. PICK z \in S : \A g \in S : pos[g] <= pos[z]
  BY <1>3
<1>5. fs[z].next = -1
  <2>1. SUFFICES ASSUME fs[z].next # -1 PROVE FALSE
    OBVIOUS
  <2>2. fs[z].next \in S /\ pos[fs[z].next] = pos[z] + 1
    BY <2>1 DEF Linked
  <2>3. QED
    BY <1>4, <2>2
<1>6. ASSUME NEW g \in S, fs[g].next = -1
      PROVE  g = z
  <2>1. pos[z] <= pos[g]
    BY <1>6 DEF Linked
  <2>2. pos[g] = pos[z]
    BY <1>4, <2>1
  <2>3. QED
    BY <2>2 DEF Linked
<1>7. QED
  BY <1>4, <1>5, <1>6 DEF Last

\* A filter that joins after the last one.
Joins(fs, gs, S, f, z, m) ==
    /\ gs[f].next = -1 /\ gs[f].master = m
    /\ \A g \in S : gs[g].master = fs[g].master /\ gs[g].next = IF g = z THEN f ELSE fs[g].next
LEMMA LinkLast ==
    ASSUME NEW fs, NEW gs, NEW S, S \subseteq Fids, IsFiniteSet(S), NEW f \in Fids, f \notin S,
           NEW m, NEW pos \in [Fids -> Nat], Linked(fs, pos, S, m),
           NEW z \in S, Last(fs, pos, S, z), Joins(fs, gs, S, f, z, m),
           NEW T, T = S \cup {f}, NEW at, at = [pos EXCEPT ![f] = pos[z] + 1]
    PROVE  Linked(gs, at, T, m)
<1>0. /\ {g \in S : fs[g].next = -1} = {z} /\ \A g \in S : pos[g] <= pos[z]
      /\ gs[f].next = -1 /\ gs[f].master = m
      /\ \A g \in S : gs[g].master = fs[g].master /\ gs[g].next = IF g = z THEN f ELSE fs[g].next
  BY DEF Last, Joins
<1>1. Cardinality(T) = Cardinality(S) + 1 /\ Cardinality(S) \in Nat
  BY FS_AddElement, FS_CardinalityType
<1>2. at[f] = pos[z] + 1 /\ f # -1 /\ \A g \in S : at[g] = pos[g] /\ g # f /\ pos[g] \in Nat /\ g # -1
  BY PidFiltersAssumption DEF Fids
<1>3. \A g \in S : pos[g] < Cardinality(S) /\ fs[g].master = m
  BY DEF Linked
<1>4. \A g \in T : g = f \/ g \in S
  OBVIOUS
<1>5. f \in T /\ S \subseteq T
  OBVIOUS
<1>6. m \in T /\ at[m] = 0
  BY <1>2, <1>5 DEF Linked
<1>7. \A g \in T : gs[g].master = m /\ at[g] < Cardinality(T)
  BY <1>0, <1>1, <1>2, <1>3, <1>4
<1>8. \A g, h \in T : at[g] = at[h] => g = h
  <2>1. \A g \in S : at[g] # at[f]
    BY <1>0, <1>2
  <2>2. \A g, h \in S : at[g] = at[h] => g = h
    BY <1>2 DEF Linked
  <2>3. QED
    BY <1>4, <2>1, <2>2
<1>9. \A g \in S : g # z => fs[g].next # -1
  BY <1>0
<1>10. \A g \in T : gs[g].next = -1 => \A h \in T : at[h] <= at[g]
  BY <1>0, <1>2, <1>4, <1>9
<1>11. ASSUME NEW g \in T, gs[g].next # -1
       PROVE  gs[g].next \in T /\ at[gs[g].next] = at[g] + 1
  <2>1. CASE g = z
    BY <1>0, <1>2, <1>5, <2>1
  <2>2. CASE g # z
    <3>1. g \in S /\ gs[g].next = fs[g].next /\ fs[g].next # -1
      BY <1>0, <1>4, <1>9, <1>11, <2>2
    <3>2. fs[g].next \in S /\ pos[fs[g].next] = pos[g] + 1
      BY <3>1 DEF Linked
    <3>3. QED
      BY <1>2, <1>5, <3>1, <3>2
  <2>3. QED
    BY <2>1, <2>2
<1>12. ASSUME NEW g \in T, g # m
       PROVE  \E h \in T : gs[h].next = g
  <2>1. CASE g = f
    BY <1>0, <1>5, <2>1
  <2>2. CASE g \in S
    <3>1. PICK h \in S : fs[h].next = g
      BY <1>12, <2>2 DEF Linked
    <3>2. h # z
      BY <1>0, <1>2, <2>2, <3>1
    <3>3. QED
      BY <1>0, <1>5, <3>1, <3>2
  <2>3. QED
    BY <1>4, <2>1, <2>2
<1>13. QED
  BY <1>6, <1>7, <1>8, <1>10, <1>11, <1>12 DEF Linked

\* add_filter_mask appends the filter to the chain of its pid.
Appended(fs, f, p, fl, tails, master) ==
    [g \in Fids |->
       IF g = f THEN [enabled |-> TRUE, pid |-> p, flags |-> fl, next |-> -1, master |-> master]
       ELSE IF g \in tails THEN [fs[g] EXCEPT !.next = f]
       ELSE fs[g]]

LEMMA AppendLinks ==
    ASSUME NEW fs \in FiltersType, ChainsOK(fs), NEW f \in Fids, ~fs[f].enabled, NEW p \in Pids, NEW fl \in Flags,
           NEW tails, tails = {g \in FiltersOf(fs, p) : fs[g].next = -1},
           NEW gs, gs = Appended(fs, f, p, fl, tails, IF tails = {} THEN f ELSE fs[Max(tails)].master)
    PROVE  ChainsOK(gs)
<1> DEFINE S == FiltersOf(fs, p)
<1>1. S \subseteq Fids /\ IsFiniteSet(S) /\ Cardinality(S) \in Nat /\ f \notin S /\ tails \subseteq S
  <2>1. S \subseteq Fids /\ IsFiniteSet(S) /\ Cardinality(S) \in 0 .. NumFilters /\ tails \subseteq S
    BY FiltersOfAre
  <2>2. f \notin S
    BY DEF FiltersOf
  <2>3. QED
    BY <2>1, <2>2
<1>2. \A g \in Fids \ {f} : /\ gs[g].enabled = fs[g].enabled /\ gs[g].pid = fs[g].pid
                            /\ gs[g].master = fs[g].master
                            /\ gs[g].next = IF g \in tails THEN f ELSE fs[g].next
  BY DEF Appended, FiltersType, FilterType
<1>3. gs[f].enabled /\ gs[f].pid = p /\ gs[f].next = -1
  BY DEF Appended
<1>4. FiltersOf(gs, p) = S \cup {f} /\ \A q \in Pids \ {p} : FiltersOf(gs, q) = FiltersOf(fs, q)
  <2>1. ASSUME NEW g \in Fids
        PROVE  g \in FiltersOf(gs, p) <=> g \in S \/ g = f
    <3>1. CASE g = f
      BY <1>3, <3>1 DEF FiltersOf
    <3>2. CASE g # f
      BY <1>2, <3>2 DEF FiltersOf
    <3>3. QED
      BY <3>1, <3>2
  <2>2. ASSUME NEW q \in Pids \ {p}, NEW g \in Fids
        PROVE  g \in FiltersOf(gs, q) <=> g \in FiltersOf(fs, q)
    <3>1. CASE g = f
      BY <1>3, <3>1 DEF FiltersOf
    <3>2. CASE g # f
      BY <1>2, <3>2 DEF FiltersOf
    <3>3. QED
      BY <3>1, <3>2
  <2>3. \A q : FiltersOf(gs, q) \subseteq Fids /\ FiltersOf(fs, q) \subseteq Fids
    BY FiltersOfAre
  <2> HIDE DEF S
  <2>4. FiltersOf(gs, p) = S \cup {f}
    BY <1>1, <2>1, <2>3
  <2>5. QED
    BY <2>2, <2>3, <2>4
<1>5. ASSUME NEW q \in Pids \ {p}
      PROVE  ChainOK(gs, FiltersOf(gs, q))
  <2> DEFINE U == FiltersOf(fs, q)
  <2>1. \A g \in U : g \in Fids \ {f} /\ g \notin tails
    BY DEF FiltersOf
  <2>2. ChainOK(fs, U) /\ FiltersOf(gs, q) = U
    BY <1>4 DEF ChainsOK
  <2> HIDE DEF U
  <2>3. ChainOK(gs, U)
    <3>1. \A g \in U : gs[g].master = fs[g].master /\ gs[g].next = fs[g].next
      BY <1>2, <2>1
    <3>2. QED
      BY ONLY <2>2, <3>1, ChainStays
  <2>4. QED
    BY <2>2, <2>3
<1>6. ChainOK(gs, S \cup {f})
  <2>1. CASE S = {}
    <3>1. tails = {} /\ gs[f].master = f
      BY <1>1, <2>1 DEF Appended
    <3>2. Cardinality({f}) = 1
      BY FS_Singleton
    <3> DEFINE at == [g \in Fids |-> 0]
               T == {f}
    <3>3. at[f] = 0 /\ at \in [Fids -> Nat] /\ f \in T /\ \A g \in T : g = f
      OBVIOUS
    <3> HIDE DEF at
    <3>4. Cardinality(T) = 1
      BY <3>2
    <3> HIDE DEF T
    <3>5. Linked(gs, at, T, f)
      <4>1. \A g \in T : at[g] = 0 /\ gs[g].next = -1 /\ gs[g].master = f
        BY <1>3, <3>1, <3>3
      <4>2. \A g \in T : at[g] < Cardinality(T) /\ \A h \in T : at[h] <= at[g]
        BY <3>4, <4>1
      <4>3. QED
        BY <3>3, <4>1, <4>2 DEF Linked
    <3>6. S \cup {f} = T
      BY <2>1 DEF T
    <3>7. QED
      BY <3>3, <3>5, <3>6 DEF ChainOK
  <2>2. CASE S # {}
    <3>1. PICK m \in S, pos \in [Fids -> Nat] : Linked(fs, pos, S, m)
      BY <2>2 DEF ChainsOK, ChainOK
    <3> HIDE DEF S
    <3>2. PICK z \in S : Last(fs, pos, S, z)
      BY <1>1, <3>1, TailExists
    <3>3. tails = {z}
      BY <3>2 DEF S, Last
    <3>4. gs[f].master = m
      <4>1. IsFiniteSet({z}) /\ {z} \in SUBSET Int /\ {z} # {}
        BY <1>1, FS_Singleton, FidsFinite
      <4>2. Max({z}) = z
        BY <4>1, MaxIsGreatest
      <4>3. QED
        BY <3>1, <3>3, <4>2 DEF Appended, Linked
    <3>5. \A g \in S : gs[g].master = fs[g].master /\ gs[g].next = IF g = z THEN f ELSE fs[g].next
      BY <1>1, <1>2, <3>3
    <3>6. Joins(fs, gs, S, f, z, m)
      BY <1>3, <3>4, <3>5 DEF Joins
    <3> DEFINE T == S \cup {f}
               at == [pos EXCEPT ![f] = pos[z] + 1]
    <3>7. at \in [Fids -> Nat] /\ m \in T
      BY <1>1
    <3>8. Linked(gs, at, T, m)
      <4>1. T = S \cup {f} /\ at = [pos EXCEPT ![f] = pos[z] + 1]
        OBVIOUS
      <4> HIDE DEF T, at
      <4>2. QED
        BY <1>1, <3>1, <3>2, <3>6, <4>1, LinkLast
    <3>9. QED
      BY <3>7, <3>8 DEF ChainOK
  <2>3. QED
    BY <2>1, <2>2
<1>7. QED
  BY <1>4, <1>5, <1>6 DEF ChainsOK

\* A filter that leaves: the ones behind it move up, and the one before it, or the next as the new master, takes
\* its place.
Leaves(fs, gs, S, f, m) ==
    LET x == fs[f].next
    IN  \A g \in S \ {f} :
          /\ gs[g].master = IF f = m THEN x ELSE m
          /\ gs[g].next = IF f # m /\ fs[g].next = f THEN x ELSE fs[g].next

LEMMA LinkWithout ==
    ASSUME NEW fs, NEW gs, NEW S, S \subseteq Fids, IsFiniteSet(S), NEW f \in S,
           NEW m, NEW pos \in [Fids -> Nat], Linked(fs, pos, S, m), Leaves(fs, gs, S, f, m),
           NEW T, T = S \ {f}, T # {},
           NEW at, at = [g \in Fids |-> IF pos[g] > pos[f] THEN pos[g] - 1 ELSE pos[g]]
    PROVE  Linked(gs, at, T, IF f = m THEN fs[f].next ELSE m)
<1> DEFINE x == fs[f].next
           head == IF f = m THEN x ELSE m
<1>1. Cardinality(T) = Cardinality(S) - 1 /\ Cardinality(S) \in Nat
  BY FS_RemoveElement, FS_CardinalityType
<1>2. \A g \in S : g # -1 /\ pos[g] \in Nat /\ pos[g] < Cardinality(S)
  BY PidFiltersAssumption DEF Fids, Linked
<1>3. \A g \in T : /\ g \in S /\ g # f /\ pos[g] # pos[f]
                   /\ at[g] = IF pos[g] > pos[f] THEN pos[g] - 1 ELSE pos[g]
  BY DEF Linked
<1>4. x # -1 => x \in T /\ pos[x] = pos[f] + 1
  <2>1. x # -1 => x \in S /\ pos[x] = pos[f] + 1
    BY DEF Linked
  <2>2. x # -1 => x # f
    BY <1>2, <2>1
  <2>3. QED
    BY <2>1, <2>2
<1>5. x = -1 => \A g \in T : pos[g] < pos[f]
  <2>1. x = -1 => \A g \in S : pos[g] <= pos[f]
    BY DEF Linked
  <2>2. QED
    BY <1>2, <1>3, <2>1
<1>6. m \in S /\ pos[m] = 0
  BY DEF Linked
<1>7. f = m => x # -1
  BY <1>2, <1>3, <1>5, <1>6
<1>8. \A g \in T : gs[g].master = head /\ gs[g].next = IF f # m /\ fs[g].next = f THEN x ELSE fs[g].next
  BY DEF Leaves
<1>9. \A g \in T : fs[g].next # -1 => fs[g].next \in S /\ pos[fs[g].next] = pos[g] + 1
  BY DEF Linked
<1>10. \A g \in T : fs[g].next = -1 => \A h \in T : pos[h] <= pos[g]
  BY DEF Linked
<1> HIDE DEF x, head
<1>11. head \in T /\ at[head] = 0
  <2>1. CASE f = m
    BY <1>2, <1>3, <1>4, <1>6, <1>7, <2>1 DEF head
  <2>2. CASE f # m
    BY <1>2, <1>3, <1>6, <2>2 DEF head
  <2>3. QED
    BY <2>1, <2>2
<1>12. ASSUME NEW g \in T
       PROVE  at[g] < Cardinality(T)
  BY <1>1, <1>2, <1>3
<1>13. ASSUME NEW g \in T, NEW h \in T, at[g] = at[h]
       PROVE  g = h
  <2>1. /\ pos[g] \in Nat /\ pos[h] \in Nat /\ pos[f] \in Nat
        /\ pos[g] # pos[f] /\ at[g] = IF pos[g] > pos[f] THEN pos[g] - 1 ELSE pos[g]
        /\ pos[h] # pos[f] /\ at[h] = IF pos[h] > pos[f] THEN pos[h] - 1 ELSE pos[h]
    BY <1>2, <1>3
  <2>2. \A i, j, k \in Nat : i # k /\ j # k /\ (IF i > k THEN i - 1 ELSE i) = (IF j > k THEN j - 1 ELSE j) => i = j
    OBVIOUS
  <2>3. pos[g] = pos[h]
    BY <1>13, <2>1, <2>2
  <2>4. QED
    BY <1>3, <2>3 DEF Linked
<1>14. ASSUME NEW g \in T, gs[g].next = -1
       PROVE  \A h \in T : at[h] <= at[g]
  <2>1. CASE f # m /\ fs[g].next = f
    <3>1. x = -1 /\ pos[f] = pos[g] + 1 /\ pos[g] \in Nat
      BY <1>2, <1>3, <1>8, <1>9, <1>14, <2>1
    <3>2. QED
      BY <1>2, <1>3, <1>5, <3>1
  <2>2. CASE ~(f # m /\ fs[g].next = f)
    <3>1. \A h \in T : pos[h] <= pos[g]
      BY <1>8, <1>10, <1>14, <2>2
    <3>2. QED
      BY <1>2, <1>3, <3>1
  <2>3. QED
    BY <2>1, <2>2
<1>15. ASSUME NEW g \in T, gs[g].next # -1
       PROVE  gs[g].next \in T /\ at[gs[g].next] = at[g] + 1
  <2>1. CASE f # m /\ fs[g].next = f
    <3>1. gs[g].next = x /\ x # -1 /\ f # -1
      BY <1>2, <1>8, <1>15, <2>1
    <3>2. pos[f] = pos[g] + 1 /\ pos[x] = pos[f] + 1 /\ x \in T
      BY <1>4, <1>9, <2>1, <3>1
    <3>3. at[g] = pos[g] /\ at[x] = pos[f]
      BY <1>2, <1>3, <3>2
    <3>4. QED
      BY <3>1, <3>2, <3>3
  <2>2. CASE ~(f # m /\ fs[g].next = f)
    <3> DEFINE y == fs[g].next
    <3>1. gs[g].next = y /\ y \in S /\ pos[y] = pos[g] + 1
      BY <1>8, <1>9, <1>15, <2>2
    <3> HIDE DEF y
    <3>2. y # f
      BY <1>2, <1>3, <1>6, <2>2, <3>1 DEF y
    <3>3. y \in T
      BY <3>1, <3>2
    <3>4. at[y] = at[g] + 1
      BY <1>2, <1>3, <3>1, <3>3
    <3>5. QED
      BY <3>1, <3>3, <3>4
  <2>3. QED
    BY <2>1, <2>2
<1>16. ASSUME NEW g \in T, g # head
       PROVE  \E h \in T : gs[h].next = g
  <2>1. g # m
    <3>1. f = m => g # f
      BY <1>3
    <3>2. f # m => head = m
      BY DEF head
    <3>3. QED
      BY <1>16, <3>1, <3>2
  <2>2. PICK h \in S : fs[h].next = g
    BY <1>3, <2>1 DEF Linked
  <2>3. CASE h # f
    BY <1>3, <1>8, <2>2, <2>3
  <2>4. CASE h = f
    <3>1. x = g /\ f # m
      BY <1>16, <2>2, <2>4 DEF head, x
    <3>2. PICK z \in S : fs[z].next = f
      BY <3>1 DEF Linked
    <3>3. z # f
      BY <1>3, <2>2, <2>4, <3>2
    <3>4. z \in T /\ gs[z].next = g
      BY <1>8, <3>1, <3>2, <3>3
    <3>5. QED
      BY <3>4
  <2>5. QED
    BY <2>3, <2>4
<1>17. \A g \in T : gs[g].master = head
  BY <1>8
<1>18. Linked(gs, at, T, head)
  BY <1>11, <1>12, <1>13, <1>14, <1>15, <1>16, <1>17 DEF Linked
<1>19. QED
  BY <1>18 DEF head, x

\* del_filter takes the filter out of the chain of its pid.
TakenOut(fs, f, mine, x, others, heir, prev) ==
    [g \in Fids |->
       IF g = f THEN [fs[f] EXCEPT !.pid = -1]
       ELSE IF mine = f /\ heir # -1 /\ g \in others
       THEN [fs[g] EXCEPT !.master = heir]
       ELSE IF mine # f /\ prev # {} /\ g = Min(prev)
       THEN [fs[g] EXCEPT !.next = x]
       ELSE fs[g]]

LEMMA UnlinkLinks ==
    ASSUME NEW old \in FiltersType, ChainsOK(old), NEW f \in Fids, old[f].enabled, old[f].pid \in Pids,
           NEW fs, fs = [old EXCEPT ![f].enabled = FALSE, ![f].flags = "none"],
           NEW gs, gs = Unlinked(fs, f)
    PROVE  ChainsOK(gs)
<1> DEFINE p == old[f].pid
           S == FiltersOf(old, p)
           T == S \ {f}
           x == old[f].next
           heir == IF Enabled(fs, x) THEN x ELSE IF T # {} THEN Min(T) ELSE -1
           prev == {g \in T : old[g].next = f}
<1>1. S \subseteq Fids /\ IsFiniteSet(S) /\ Cardinality(S) \in Nat /\ f \in S
  <2>1. S \subseteq Fids /\ IsFiniteSet(S) /\ Cardinality(S) \in 0 .. NumFilters
    BY FiltersOfAre
  <2>2. f \in S
    BY DEF FiltersOf
  <2>3. QED
    BY <2>1, <2>2
<1>2. /\ ~fs[f].enabled /\ fs[f].pid = p /\ fs[f].next = x /\ fs[f].master = old[f].master
      /\ \A g \in Fids \ {f} : fs[g] = old[g]
  BY DEF FiltersType, FilterType
<1>3. FiltersOf(fs, p) = T
  <2>1. \A g \in Fids : g \in FiltersOf(fs, p) <=> g \in T
    BY <1>2 DEF FiltersOf
  <2>2. FiltersOf(fs, p) \subseteq Fids
    BY FiltersOfAre
  <2>3. QED
    BY <1>1, <2>1, <2>2
<1>4. \A g \in T : fs[g].next = old[g].next
  BY <1>1, <1>2
<1>5. {g \in T : fs[g].next = f} = prev
  BY <1>4
<1> DEFINE mine == old[f].master
<1>6. gs = TakenOut(fs, f, mine, x, T, heir, prev)
  <2> DEFINE others == FiltersOf(fs, fs[f].pid)
             to == IF Enabled(fs, fs[f].next) THEN fs[f].next
                   ELSE IF others # {} THEN Min(others) ELSE -1
             before == {g \in others : fs[g].next = f}
  <2>1. gs = TakenOut(fs, f, fs[f].master, fs[f].next, others, to, before)
    BY DEF Unlinked, TakenOut
  <2>2. others = T
    BY <1>2, <1>3
  <2>3. before = prev
    BY <1>5, <2>2
  <2>4. to = heir
    <3> HIDE DEF others, T, x
    <3> QED BY <1>2, <2>2
  <2> HIDE DEF others, to, before, T, x, prev, heir, mine
  <2>5. fs[f].master = mine /\ fs[f].next = x
    BY <1>2 DEF mine, x
  <2>6. QED
    BY <2>1, <2>2, <2>3, <2>4, <2>5
<1> HIDE DEF heir, prev
<1>7. ~gs[f].enabled
  <2>1. gs[f] = [fs[f] EXCEPT !.pid = -1]
    BY <1>6 DEF TakenOut
  <2>2. fs[f] \in FilterType
    BY DEF FiltersType, FilterType, Flags
  <2>3. QED
    BY <1>2, <2>1, <2>2 DEF FilterType
<1>8. ASSUME NEW g \in Fids \ {f}
      PROVE  /\ gs[g].enabled = old[g].enabled /\ gs[g].pid = old[g].pid
             /\ mine = f /\ heir # -1 /\ g \in T => gs[g].master = heir
             /\ ~(mine = f /\ heir # -1 /\ g \in T) => gs[g].master = old[g].master
             /\ mine # f /\ prev # {} /\ g = Min(prev) => gs[g].next = x
             /\ ~(mine # f /\ prev # {} /\ g = Min(prev)) => gs[g].next = old[g].next
  <2>1. fs[g] = old[g] /\ old[g] \in FilterType
    BY <1>2 DEF FiltersType
  <2> HIDE DEF x, T, mine
  <2>2. gs[g] = IF mine = f /\ heir # -1 /\ g \in T THEN [old[g] EXCEPT !.master = heir]
                ELSE IF mine # f /\ prev # {} /\ g = Min(prev) THEN [old[g] EXCEPT !.next = x]
                ELSE old[g]
    BY <1>6, <2>1 DEF TakenOut
  <2>3. QED
    BY <2>1, <2>2 DEF FilterType
<1>9. FiltersOf(gs, p) = T /\ \A q \in Pids \ {p} : FiltersOf(gs, q) = FiltersOf(old, q)
  <2>1. ASSUME NEW q \in Pids, NEW g \in Fids
        PROVE  g \in FiltersOf(gs, q) <=> g \in FiltersOf(old, q) /\ g # f
    <3>1. CASE g = f
      BY <1>7, <3>1 DEF FiltersOf
    <3>2. CASE g # f
      BY <1>8, <3>2 DEF FiltersOf
    <3>3. QED
      BY <3>1, <3>2
  <2>2. \A q \in Pids \ {p} : f \notin FiltersOf(old, q)
    BY DEF FiltersOf
  <2>3. \A q : FiltersOf(gs, q) \subseteq Fids /\ FiltersOf(old, q) \subseteq Fids
    BY FiltersOfAre
  <2>4. FiltersOf(gs, p) = T
    BY <2>1, <2>3
  <2>5. ASSUME NEW q \in Pids \ {p}
        PROVE  FiltersOf(gs, q) = FiltersOf(old, q)
    <3>1. \A g \in Fids : g \in FiltersOf(gs, q) <=> g \in FiltersOf(old, q) /\ g # f
      BY <2>1
    <3>2. f \notin FiltersOf(old, q)
      BY <2>2
    <3>3. FiltersOf(gs, q) \subseteq Fids /\ FiltersOf(old, q) \subseteq Fids
      BY <2>3
    <3>4. QED
      BY <3>1, <3>2, <3>3, Zenon
  <2>6. QED
    BY <2>4, <2>5
<1>10. PICK m \in S, pos \in [Fids -> Nat] : Linked(old, pos, S, m)
  BY <1>1 DEF ChainsOK, ChainOK
<1>11. mine = m /\ \A g \in S : old[g].master = m
  BY <1>1, <1>10 DEF Linked
<1>12. prev \subseteq T /\ prev \in SUBSET Int /\ IsFiniteSet(prev)
  BY <1>1, FidsFinite DEF prev
<1>13. \A g, h \in prev : g = h
  <2>1. \A g \in prev : pos[g] + 1 = pos[f] /\ g \in S /\ pos[g] \in Nat
    BY <1>1, <1>10, PidFiltersAssumption DEF prev, Linked, Fids
  <2>2. QED
    BY <1>10, <2>1 DEF Linked
<1>14. \A g \in T : (prev # {} /\ g = Min(prev)) <=> old[g].next = f
  <2>1. prev # {} => Min(prev) \in prev
    BY <1>12, MinIsLeast
  <2>2. \A g \in T : g \in prev <=> old[g].next = f
    BY DEF prev
  <2>3. QED
    BY <1>13, <2>1, <2>2
<1>15. f = m /\ T # {} => heir = x /\ heir # -1
  <2>1. SUFFICES ASSUME f = m, T # {} PROVE heir = x /\ heir # -1
    OBVIOUS
  <2>2. x # -1
    <3>1. SUFFICES ASSUME x = -1 PROVE FALSE
      OBVIOUS
    <3>2. PICK g \in T : TRUE
      BY <2>1
    <3>3. pos[g] <= pos[f] /\ pos[f] = 0 /\ pos[g] \in Nat
      BY <1>1, <1>10, <2>1, <3>1 DEF Linked
    <3>4. QED
      BY <1>1, <1>10, <3>3 DEF Linked
  <2>3. x \in S /\ pos[x] = pos[f] + 1
    BY <1>1, <1>10, <2>2 DEF Linked
  <2>4. x \in T
    BY <1>1, <2>3
  <2>5. Enabled(fs, x)
    <3>1. x \in FiltersOf(fs, p)
      BY <1>3, <2>4
    <3>2. QED
      BY <2>2, <3>1 DEF Enabled, FiltersOf
  <2>6. QED
    BY <2>2, <2>5 DEF heir
<1>16. Leaves(old, gs, S, f, m)
  <2>1. SUFFICES ASSUME NEW g \in T
                 PROVE  /\ gs[g].master = IF f = m THEN x ELSE m
                        /\ gs[g].next = IF f # m /\ old[g].next = f THEN x ELSE old[g].next
    BY DEF Leaves
  <2>2. g \in Fids \ {f} /\ g \in S /\ T # {}
    BY <1>1
  <2> HIDE DEF mine, x, S, T
  <2>3. /\ mine = f /\ heir # -1 => gs[g].master = heir
        /\ ~(mine = f /\ heir # -1) => gs[g].master = old[g].master
        /\ mine # f /\ old[g].next = f => gs[g].next = x
        /\ ~(mine # f /\ old[g].next = f) => gs[g].next = old[g].next
    <3>1. (prev # {} /\ g = Min(prev)) <=> old[g].next = f
      BY <1>14, <2>1
    <3>2. g \in T
      BY <2>1
    <3>3. QED
      BY <1>8, <2>2, <3>1, <3>2
  <2>4. mine = m /\ old[g].master = m
    BY <1>11, <2>2
  <2>5. CASE f = m
    <3>1. heir = x /\ heir # -1
      BY <1>15, <2>2, <2>5
    <3>2. QED
      BY <2>3, <2>4, <2>5, <3>1
  <2>6. CASE f # m
    BY <2>3, <2>4, <2>6
  <2>7. QED
    BY <2>5, <2>6
<1>17. ASSUME T # {}
       PROVE  ChainOK(gs, T)
  <2> DEFINE at == [g \in Fids |-> IF pos[g] > pos[f] THEN pos[g] - 1 ELSE pos[g]]
             head == IF f = m THEN x ELSE m
  <2>1. at \in [Fids -> Nat]
    <3>1. \A g \in Fids : (IF pos[g] > pos[f] THEN pos[g] - 1 ELSE pos[g]) \in Nat
      OBVIOUS
    <3>2. QED
      BY <3>1
  <2>2. Linked(gs, at, T, head)
    <3> DEFINE U == T
               b == at
    <3>1. U = S \ {f} /\ U # {} /\ b = [g \in Fids |-> IF pos[g] > pos[f] THEN pos[g] - 1 ELSE pos[g]]
      BY <1>17
    <3>2. head = IF f = m THEN old[f].next ELSE m
      OBVIOUS
    <3> HIDE DEF U, b, head, S
    <3>3. Linked(gs, b, U, head)
      BY <1>1, <1>10, <1>16, <3>1, <3>2, LinkWithout
    <3>4. QED
      BY <3>3 DEF U, b
  <2>3. head \in T
    BY <2>2 DEF Linked
  <2> HIDE DEF at, head, T
  <2>4. QED
    BY <2>1, <2>2, <2>3 DEF ChainOK
<1>18. ASSUME NEW q \in Pids \ {p}
       PROVE  ChainOK(gs, FiltersOf(gs, q))
  <2> DEFINE U == FiltersOf(old, q)
  <2>1. \A g \in U : g \in Fids \ {f} /\ g \notin T
    BY DEF FiltersOf
  <2>2. ChainOK(old, U) /\ FiltersOf(gs, q) = U
    BY <1>9 DEF ChainsOK
  <2>3. prev # {} => Min(prev) \in T
    BY <1>12, MinIsLeast
  <2> HIDE DEF T, U, x, mine, S
  <2>4. ASSUME NEW g \in U
        PROVE  gs[g].master = old[g].master /\ gs[g].next = old[g].next
    <3>1. g \in Fids \ {f} /\ g \notin T
      BY <2>1
    <3>2. gs[g].master = old[g].master
      BY <1>8, <3>1
    <3>3. ~(prev # {} /\ g = Min(prev))
      BY <2>3, <3>1
    <3>4. gs[g].next = old[g].next
      BY <1>8, <3>1, <3>3
    <3>5. QED
      BY <3>2, <3>4
  <2>5. ChainOK(gs, U)
    <3>1. \A g \in U : gs[g].master = old[g].master /\ gs[g].next = old[g].next
      BY <2>4
    <3>2. QED
      BY ONLY <2>2, <3>1, ChainStays
  <2>6. QED
    BY <2>2, <2>5
<1>19. ChainOK(gs, FiltersOf(gs, p))
  BY <1>9, <1>17 DEF ChainOK
<1>20. QED
  BY <1>18, <1>19 DEF ChainsOK

-----------------------------------------------------------------------------
(* The chains over the steps *)

ChainInv == ChainsOK(filters)

\* Flags do not matter to a chain.
LEMMA FlagsKeepChains ==
    ASSUME NEW fs \in FiltersType, ChainsOK(fs), NEW f \in Fids, NEW fl
    PROVE  ChainsOK([fs EXCEPT ![f].flags = fl])
<1> DEFINE gs == [fs EXCEPT ![f].flags = fl]
<1>1. \A g \in Fids : /\ gs[g].enabled = fs[g].enabled /\ gs[g].pid = fs[g].pid
                      /\ gs[g].master = fs[g].master /\ gs[g].next = fs[g].next
  BY DEF FiltersType, FilterType
<1> HIDE DEF gs
<1>2. ASSUME NEW p \in Pids
      PROVE  ChainOK(gs, FiltersOf(gs, p))
  <2> DEFINE S == FiltersOf(fs, p)
  <2>1. FiltersOf(gs, p) = S /\ \A g \in S : g \in Fids
    BY <1>1 DEF FiltersOf
  <2>2. ChainOK(fs, S)
    BY DEF ChainsOK
  <2> HIDE DEF S
  <2>3. ChainOK(gs, S)
    BY <1>1, <2>1, <2>2, ChainStays
  <2>4. QED
    BY <2>1, <2>3
<1>3. QED
  BY <1>2 DEF ChainsOK, gs

LEMMA ChainNext ==
    ASSUME PidsInv, ChainInv, [Next]_vars
    PROVE  ChainInv'
<1> SUFFICES ChainsOK(filters')
  BY DEF ChainInv
<1>1. filters \in FiltersType /\ ChainsOK(filters) /\ \A f \in Fids : filters[f].enabled => filters[f].pid \in Pids
  BY DEF ChainInv, PidsInv, FiltersOK
<1>2. CASE filters' = filters
  BY <1>1, <1>2
<1>3. ASSUME NEW f \in Fids, NEW fl \in Flags, SetFilterFlags(f, fl) \/ ClearFilterFlags(f)
      PROVE  ChainsOK(filters')
  BY <1>1, <1>3, FlagsKeepChains DEF SetFilterFlags, ClearFilterFlags
<1>4. ASSUME NEW f \in Fids, NEW p \in Pids, NEW fl \in Flags, AddFilter(f, p, fl)
      PROVE  ChainsOK(filters')
  <2> DEFINE tails == {g \in FiltersOf(filters, p) : filters[g].next = -1}
             gs == Appended(filters, f, p, fl, tails, IF tails = {} THEN f ELSE filters[Max(tails)].master)
  <2>1. filters' = gs /\ ~filters[f].enabled
    BY <1>4 DEF AddFilter, Appended
  <2>2. ChainsOK(gs)
    <3> DEFINE t == tails
               u == gs
    <3>1. /\ t = {g \in FiltersOf(filters, p) : filters[g].next = -1}
          /\ u = Appended(filters, f, p, fl, t, IF t = {} THEN f ELSE filters[Max(t)].master)
      OBVIOUS
    <3> HIDE DEF t, u
    <3>2. ChainsOK(u)
      BY <1>1, <2>1, <3>1, AppendLinks
    <3>3. QED
      BY <3>2 DEF u
  <2> HIDE DEF gs
  <2>3. QED
    BY <2>1, <2>2
<1>5. ASSUME NEW f \in Fids, DelFilter(f)
      PROVE  ChainsOK(filters')
  <2> DEFINE fs == [filters EXCEPT ![f].enabled = FALSE, ![f].flags = "none"]
             gs == Unlinked(fs, f)
  <2>1. filters' = gs /\ filters[f].enabled
    BY <1>5 DEF DelFilter
  <2>2. ChainsOK(gs)
    <3> DEFINE e == fs
               u == gs
    <3>1. e = [filters EXCEPT ![f].enabled = FALSE, ![f].flags = "none"] /\ u = Unlinked(e, f)
      OBVIOUS
    <3> HIDE DEF e, u
    <3>2. ChainsOK(u)
      BY <1>1, <2>1, <3>1, UnlinkLinks
    <3>3. QED
      BY <3>2 DEF u, e
  <2> HIDE DEF gs
  <2>3. QED
    BY <2>1, <2>2
<1>6. CASE UNCHANGED vars
  BY <1>2, <1>6 DEF vars
<1>7. CASE Next
  <2> DEFINE Others == \/ \E s \in Sids : LeaveStream(s) \/ \E S \in SUBSET Pids : SyncPids(s, S)
                       \/ UpdatePids \/ DropAll
                       \/ \E p \in Pids : Packet(p) \/ DefaultPid(p)
  <2>1. CASE Others
    BY <1>2, <2>1 DEF LeaveStream, SyncPids, UpdatePids, DropAll, Packet, DefaultPid
  <2>2. CASE ~Others
    <3> HIDE DEF Others
    <3>1. PICK f \in Fids : \/ DelFilter(f) \/ ClearFilterFlags(f)
                            \/ \E fl \in Flags : SetFilterFlags(f, fl)
                            \/ \E p \in Pids \ {AllPid}, fl \in Flags : AddFilter(f, p, fl)
      BY <1>7, <2>2 DEF Next, Others
    <3>2. "none" \in Flags
      BY DEF Flags
    <3>3. QED
      BY <1>3, <1>4, <1>5, <3>1, <3>2
  <2>3. QED
    BY <2>1, <2>2
<1>8. QED
  BY <1>6, <1>7

LEMMA ChainInit == Init => ChainInv
<1>1. Init => \A p \in Pids : FiltersOf(filters, p) = {}
  BY DEF Init, FiltersOf, NoFilter
<1>2. QED
  BY <1>1 DEF ChainInv, ChainsOK, ChainOK

-----------------------------------------------------------------------------
(* Theorems *)

\* Every operation on the table and on the filters of an adapter, whatever failed or
\* did not fit before, keeps the entries, the hardware and the count together.
THEOREM PidsInvariant == Spec => []PidsInv
<1>1. Init => PidsInv
  <2> SUFFICES ASSUME Init PROVE PidsInv
    OBVIOUS
  <2>1. NoEntry \in EntryType /\ Kept(NoEntry) /\ NoEntry.fd # "open"
    BY DEF NoEntry, EntryType, Kept
  <2>2. TableOK(pt.table) /\ Fds(pt.table) = {}
    BY <2>1 DEF Init, TableOK, Fds
  <2>3. pt \in PidsType /\ pt.open = {} /\ pt.active_pids = 0
    BY <2>1 DEF Init, PidsType
  <2>4. Cardinality({}) = 0
    BY FS_EmptySet
  <2>5. PidsOK(pt)
    BY <2>2, <2>3, <2>4 DEF PidsOK
  <2>6. FiltersOK(filters)
    BY DEF Init, FiltersOK, FiltersType, FilterType, NoFilter, Flags
  <2>7. QED
    BY <2>5, <2>6 DEF PidsInv, Init
<1>2. PidsInv /\ [Next]_vars => PidsInv'
  <2> SUFFICES ASSUME PidsInv, [Next]_vars PROVE PidsInv'
    OBVIOUS
  <2>1. CASE UNCHANGED vars
    BY <2>1 DEF PidsInv, vars, PidsOK
  <2>2. CASE Next
    <3>1. PidsOK(pt') /\ FiltersOK(filters') /\ setup' = setup
      BY <2>2, StepLeaveStream, StepSyncPids, StepUpdatePids, StepDropAll, StepPacket, StepDefaultPid,
         StepDelFilter, StepClearFilterFlags, StepSetFilterFlags, StepAddFilter DEF Next
    <3>2. QED
      BY <3>1 DEF PidsInv, PidsOK
  <2>3. QED
    BY <2>1, <2>2
<1>3. QED
  BY <1>1, <1>2, PTL DEF Spec

\* Every field of the table, of the counters and of the filters has its type.
THEOREM PidsTypeCorrect == Spec => []TypeOK
<1>1. PidsInv => TypeOK
  BY DEF PidsInv, PidsOK, PidsType, EntryType, FiltersOK, FiltersType, FilterType, TypeOK
<1>2. QED
  BY <1>1, PidsInvariant, PTL

\* No demultiplexer filter is leaked or opened twice by update_pids, set_filter_flags or
\* del_filter.
THEOREM PidsHardware == Spec => []HardwareMatches
<1>1. PidsInv => HardwareMatches
  BY DEF PidsInv, PidsOK, Fds, HardwareMatches
<1>2. QED
  BY <1>1, PidsInvariant, PTL

\* active_pids counts the open descriptors; it may be too high only where pids=all is
\* emulated.
THEOREM PidsCount == Spec => []ActiveCount
<1>1. PidsInv => ActiveCount
  BY DEF PidsInv, PidsOK, ActiveCount
<1>2. QED
  BY <1>1, PidsInvariant, PTL

\* A pid that a stream subscribes to is not on its way out: mark_pid_add revives it, and
\* nobody else's mark_pid_deleted removes it.  Nothing is said of a pid that only section
\* filters need.
THEOREM PidsSubscribed == Spec => []SubscribedKept
<1>1. PidsInv => SubscribedKept
  BY DEF PidsInv, PidsOK, TableOK, EntryType, Kept, SubscribedKept
<1>2. QED
  BY <1>1, PidsInvariant, PTL

\* A section reaches every filter of its pid, and the walk along them ends: the chains stay in order over every
\* sequence of filters that are added and deleted, whatever filter the entry of the pid remembers.
THEOREM PidFiltersDeliversAll == Spec => []DeliversAll
<1>1. PidsInv /\ ChainInv /\ [Next]_vars => ChainInv'
  BY ChainNext
<1>2. PidsInv /\ ChainInv => DeliversAll
  <2> SUFFICES ASSUME PidsInv, ChainInv, NEW p \in Pids
               PROVE  /\ Chain(filters, Repaired(filters, pt.table[p], p)) = FiltersOf(filters, p)
                      /\ Hop(filters, Repaired(filters, pt.table[p], p))[NumFilters] = -1
    BY DEF DeliversAll
  <2>1. pt.table[p] \in EntryType /\ ChainOK(filters, FiltersOf(filters, p))
    BY DEF PidsInv, PidsOK, TableOK, ChainInv, ChainsOK
  <2>2. QED
    BY <2>1, RepairedDelivers
<1>3. QED
  BY PidsInvariant, ChainInit, <1>1, <1>2, PTL DEF Spec
=============================================================================
