-------------------------- MODULE HashTableProofs --------------------------
(***************************************************************************)
(* Proofs about HashTable, for every set of keys, every hash function and  *)
(* every capacity.                                                         *)
(***************************************************************************)
EXTENDS HashTable, FiniteSetTheorems, TLAPS

-----------------------------------------------------------------------------
(* The operators the table is built from.                                  *)

(* The home of a key is a slot of the array: hash & (capacity - 1).        *)
LEMMA HomeInRange ==
    ASSUME NEW k \in Keys, NEW cap \in Nat \ {0}
    PROVE  Home(k, cap) \in Slots(cap)
BY ConstantsAssumption, SMT DEF Home, Slots

(* The test at ht.c 129 lets through exactly the doublings that did not    *)
(* wrap.                                                                   *)
LEMMA DoubledDoubles ==
    ASSUME NEW cap \in 1 .. SizeMax, Doubled(cap) >= cap
    PROVE  Doubled(cap) = 2 * cap /\ Doubled(cap) \in 1 .. SizeMax
BY ConstantsAssumption DEF Doubled

(* A probe that moves on has passed the slot it leaves and no other.       *)
LEMMA DistanceOfNext ==
    ASSUME NEW cap \in Nat \ {0},
           NEW h \in Slots(cap), NEW s \in Slots(cap), NEW t \in Slots(cap),
           Distance(h, t, cap) < Distance(h, NextSlot(s, cap), cap)
    PROVE  t = s \/ Distance(h, t, cap) < Distance(h, s, cap)
BY DEF Slots, Distance, NextSlot

LEMMA NextSlotInRange ==
    ASSUME NEW cap \in Nat \ {0}, NEW s \in Slots(cap)
    PROVE  NextSlot(s, cap) \in Slots(cap)
BY DEF Slots, NextSlot

(* Two slots at the same distance from h are the same slot.                *)
LEMMA DistanceInjective ==
    ASSUME NEW cap \in Nat, NEW h \in Slots(cap),
           NEW s \in Slots(cap), NEW t \in Slots(cap), s # t
    PROVE  \/ Distance(h, s, cap) < Distance(h, t, cap)
           \/ Distance(h, t, cap) < Distance(h, s, cap)
BY DEF Slots, Distance

-----------------------------------------------------------------------------
(* Arrays of entries.                                                      *)

Arrays(cap) == [Slots(cap) -> Entry]

Store(a, p, k, v) == [a EXCEPT ![p] = [key |-> k, value |-> v]]

(* Reachable keys are unique: two used slots never hold the same key.      *)
LEMMA ReachableUnique ==
    ASSUME NEW cap \in Nat \ {0}, NEW a \in Arrays(cap), AllReachable(a, cap),
           NEW s \in Used(a, cap), NEW t \in Slots(cap), a[s].key = a[t].key
    PROVE  s = t
<1>1. s \in Slots(cap) /\ t \in Used(a, cap) /\ a[s].key \in Keys
    BY DEF Used, Arrays, Entry, EmptyEntry
<1>2. Home(a[s].key, cap) \in Slots(cap)
    BY <1>1, HomeInRange
<1>3. Path(a, cap, a[s].key, s) /\ Path(a, cap, a[s].key, t)
    BY <1>1 DEF AllReachable
<1>4. SUFFICES ASSUME s # t PROVE FALSE
    OBVIOUS
<1> QED
    BY <1>1, <1>2, <1>3, <1>4, DistanceInjective DEF Path

(* A probe that ends in an empty slot proves its key absent: ht.c 86, 111. *)
LEMMA MissMeansAbsent ==
    ASSUME NEW cap \in Nat \ {0}, NEW a \in Arrays(cap), AllReachable(a, cap),
           NEW k \in Keys, NEW p \in Slots(cap),
           a[p].key = NULL, Path(a, cap, k, p),
           NEW s \in Slots(cap)
    PROVE  a[s].key # k
<1> SUFFICES ASSUME a[s].key = k PROVE FALSE
    OBVIOUS
<1>1. s \in Used(a, cap) /\ s # p
    BY ConstantsAssumption DEF Used
<1>2. Path(a, cap, k, s)
    BY <1>1 DEF AllReachable
<1>3. Home(k, cap) \in Slots(cap)
    BY HomeInRange
<1> QED
    BY <1>1, <1>2, <1>3, DistanceInjective DEF Path

(* Storing a key in the empty slot its probe ended in keeps every key      *)
(* reachable, the new one included: ht.c 119-120.                          *)
LEMMA StoreKeepsReachable ==
    ASSUME NEW cap \in Nat \ {0}, NEW a \in Arrays(cap), AllReachable(a, cap),
           NEW k \in Keys, NEW v \in Values, NEW p \in Slots(cap),
           a[p].key = NULL, Path(a, cap, k, p)
    PROVE  /\ Store(a, p, k, v) \in Arrays(cap)
           /\ AllReachable(Store(a, p, k, v), cap)
           /\ Used(Store(a, p, k, v), cap) = Used(a, cap) \cup {p}
           /\ p \notin Used(a, cap)
<1> DEFINE b == Store(a, p, k, v)
<1>1. b \in Arrays(cap) /\ b[p] = [key |-> k, value |-> v]
      /\ \A s \in Slots(cap) \ {p} : b[s] = a[s]
    BY DEF Store, Arrays, Entry
<1>2. k # NULL /\ p \notin Used(a, cap)
    BY ConstantsAssumption DEF Used
<1>3. Used(b, cap) = Used(a, cap) \cup {p}
    BY <1>1, <1>2 DEF Used
<1>4. ASSUME NEW s \in Used(b, cap) PROVE Path(b, cap, b[s].key, s)
  <2>1. CASE s = p
    <3>1. Path(b, cap, k, p)
        BY <1>1 DEF Path
    <3> QED
        BY <1>1, <2>1, <3>1
  <2>2. CASE s # p
    <3>1. s \in Used(a, cap) /\ s \in Slots(cap) /\ b[s] = a[s]
        BY <1>1, <1>3, <1>4, <2>2 DEF Used
    <3>2. Path(a, cap, a[s].key, s)
        BY <3>1 DEF AllReachable
    <3>3. a[s].key # k
        BY <3>1, MissMeansAbsent
    <3>4. Path(b, cap, a[s].key, s)
        BY <1>1, <1>2, <3>2, <3>3 DEF Path
    <3> QED
        BY <3>1, <3>4
  <2> QED
    BY <2>1, <2>2
<1> QED
    BY <1>1, <1>2, <1>3, <1>4 DEF AllReachable

(* Replacing the value of a key moves nothing: ht.c 100.                   *)
LEMMA UpdateKeepsReachable ==
    ASSUME NEW cap \in Nat \ {0}, NEW a \in Arrays(cap), AllReachable(a, cap),
           NEW v \in Values, NEW p \in Used(a, cap)
    PROVE  /\ [a EXCEPT ![p].value = v] \in Arrays(cap)
           /\ AllReachable([a EXCEPT ![p].value = v], cap)
           /\ Used([a EXCEPT ![p].value = v], cap) = Used(a, cap)
<1> DEFINE b == [a EXCEPT ![p].value = v]
<1>1. b \in Arrays(cap) /\ \A s \in Slots(cap) : b[s].key = a[s].key
    BY DEF Arrays, Entry, EmptyEntry, Used
<1>2. Used(b, cap) = Used(a, cap)
    BY <1>1 DEF Used
<1>3. ASSUME NEW s \in Used(b, cap) PROVE Path(b, cap, b[s].key, s)
    BY <1>1, <1>2 DEF AllReachable, Path, Used
<1> QED
    BY <1>1, <1>2, <1>3 DEF AllReachable

(* An array with fewer keys than slots has an empty slot.                  *)
LEMMA EmptySlotExists ==
    ASSUME NEW cap \in Nat \ {0}, NEW a \in Arrays(cap),
           Cardinality(Used(a, cap)) < cap
    PROVE  \E s \in Slots(cap) : a[s].key = NULL
<1>1. IsFiniteSet(Slots(cap)) /\ Cardinality(Slots(cap)) = cap
    BY FS_Interval DEF Slots
<1>2. CASE Used(a, cap) = Slots(cap)
    BY <1>1, <1>2
<1>3. CASE Used(a, cap) # Slots(cap)
    BY <1>3 DEF Used
<1> QED
    BY <1>2, <1>3

LEMMA UsedFinite ==
    ASSUME NEW cap \in Nat, NEW a
    PROVE  IsFiniteSet(Used(a, cap)) /\ Cardinality(Used(a, cap)) \in Nat
           /\ Cardinality(Used(a, cap)) <= cap
<1>1. IsFiniteSet(Slots(cap)) /\ Cardinality(Slots(cap)) = cap
    BY FS_Interval DEF Slots
<1>2. Used(a, cap) \subseteq Slots(cap)
    BY DEF Used
<1> QED
    BY <1>1, <1>2, FS_Subset, FS_CardinalityType

(* A freshly allocated array is empty.                                     *)
LEMMA NoEntriesEmpty ==
    ASSUME NEW cap \in Nat
    PROVE  /\ NoEntries(cap) \in Arrays(cap)
           /\ Used(NoEntries(cap), cap) = {}
           /\ AllReachable(NoEntries(cap), cap)
BY DEF NoEntries, EmptyEntry, Arrays, Entry, Used, AllReachable
-----------------------------------------------------------------------------
(* Type correctness                                                        *)

LEMMA InitTypeOK == Init => TypeOK
BY ConstantsAssumption
   DEF Init, TypeOK, NoEntries, Slots, EmptyEntry, Entry, NoProbe, NoArg, Probe

(* Every call and every turn of a loop keeps the types.                    *)
LEMMA NextTypeOK == TypeOK /\ [Next]_vars => TypeOK'
<1> SUFFICES ASSUME TypeOK, [Next]_vars PROVE TypeOK'
    OBVIOUS
<1> USE ConstantsAssumption DEF TypeOK
<1>0. /\ capacity # 0 => capacity \in Nat \ {0}
      /\ pc \in {"rehash", "move"} => Doubled(capacity) \in Nat \ {0}
    OBVIOUS
<1>1. CASE Create
    BY <1>1, NoEntriesEmpty
    DEF Create, Return, NoProbe, NoArg, Entry, EmptyEntry, Probe, Arrays, iterator
<1>2. CASE Destroy
    BY <1>2, NoEntriesEmpty DEF Destroy, Arrays
<1>3. ASSUME NEW k \in Keys, GetCall(k) PROVE TypeOK'
    BY <1>0, <1>3, HomeInRange
    DEF GetCall, ProbeFor, Probe, Slots, table, iterator
<1>4. ASSUME NEW k \in Keys, NEW v \in Values, SetCall(k, v) PROVE TypeOK'
    BY <1>4 DEF SetCall, Entry, table, iterator
<1>5. CASE IterateCall
    BY <1>5 DEF IterateCall, table
<1>6. CASE NextCall
    BY <1>6 DEF NextCall, table, iterator
<1>7. CASE GetAdvance \/ InsertAdvance
    <2>1. NextSlot(probe.index, capacity) \in Slots(capacity)
        BY <1>7, <1>0, NextSlotInRange DEF GetAdvance, InsertAdvance, Probe, Slots
    <2> QED
        BY <1>7, <2>1
        DEF GetAdvance, InsertAdvance, Advance, Probe, Slots, table, iterator
<1>8. CASE GetHit \/ GetMiss
    BY <1>8 DEF GetHit, GetMiss, Return, NoProbe, NoArg, Entry, EmptyEntry, Probe,
                table, iterator
<1>9. CASE SetInPlace
    BY <1>9, <1>0, HomeInRange
    DEF SetInPlace, StartInsert, ProbeFor, Probe, Slots, table, iterator
<1>10. CASE ExpandFails
    BY <1>10 DEF ExpandFails, Return, NoProbe, NoArg, Entry, EmptyEntry, Probe,
                 table, iterator
<1>11. CASE ExpandStart
    BY <1>11, <1>0, DoubledDoubles, NoEntriesEmpty
    DEF ExpandStart, Arrays, table, iterator
<1>12. CASE RehashSkip
    BY <1>12 DEF RehashSkip, table, iterator
<1>13. CASE RehashMove
    <2>1. entries[i] \in Entry /\ entries[i].key \in Keys /\ entries[i].value \in Values
        BY <1>13 DEF RehashMove, Slots, Entry, EmptyEntry
    <2>2. Home(entries[i].key, Doubled(capacity)) \in Slots(Doubled(capacity))
        BY <1>13, <1>0, <2>1, HomeInRange DEF RehashMove
    <2> QED
        BY <1>13, <2>1, <2>2
        DEF RehashMove, ProbeFor, Probe, Slots, table, iterator
<1>14. CASE MoveAdvance
    <2>1. NextSlot(probe.index, Doubled(capacity)) \in Slots(Doubled(capacity))
        BY <1>14, <1>0, NextSlotInRange DEF MoveAdvance, Probe, Slots
    <2>2. /\ NextSlot(probe.index, Doubled(capacity)) \in Nat
          /\ NextSlot(probe.index, Doubled(capacity)) < Doubled(capacity)
        BY <1>14, <1>0, <2>1 DEF MoveAdvance, Slots
    <2>3. /\ probe' \in Probe /\ probe'.key = probe.key /\ probe'.value = probe.value
          /\ probe'.index < Doubled(capacity)
        BY <1>14, <2>2 DEF MoveAdvance, Advance, Probe
    <2> QED
        BY <1>14, <2>3 DEF MoveAdvance, Advance, table, iterator
<1>15. CASE MoveStore
    BY <1>15 DEF MoveStore, NoProbe, Probe, Slots, Entry, table, iterator
<1>16. CASE RehashDone
    <2>1. Home(arg.key, Doubled(capacity)) \in Slots(Doubled(capacity))
        BY <1>16, <1>0, HomeInRange DEF RehashDone
    <2>2. /\ capacity' \in capacity .. SizeMax /\ capacity' # 0
          /\ entries' \in [Slots(capacity') -> Entry]
          /\ pc' = "insert"
          /\ fresh' = NoEntries(0) /\ i' = 0
          /\ arg' = arg /\ hti' = hti /\ seen' = seen /\ length' = length
        BY <1>16, <1>0 DEF RehashDone, StartInsert, iterator
    <2>3. /\ probe' = ProbeFor(arg.key, arg.value, capacity')
          /\ probe'.key \in Keys /\ probe'.value \in Values
          /\ probe'.index \in Slots(capacity')
        BY <1>16, <2>1 DEF RehashDone, StartInsert, ProbeFor
    <2>4. probe' \in Probe /\ probe'.index < capacity'
        BY <1>16, <2>2, <2>3 DEF ProbeFor, Probe, Slots
    <2> QED
        BY <2>2, <2>3, <2>4
<1>17. CASE InsertUpdate
    <2>1. probe.index \in Used(entries, capacity)
        BY <1>17 DEF InsertUpdate, Used, Slots, Probe
    <2>2. entries[probe.index] \in [key : Keys, value : Values]
        BY <2>1 DEF Used, Entry, EmptyEntry
    <2>3. entries' \in [Slots(capacity) -> Entry]
        BY <1>17, <2>1, <2>2 DEF InsertUpdate, Entry
    <2> QED
        BY <1>17, <2>3
        DEF InsertUpdate, Return, NoProbe, NoArg, Entry, EmptyEntry, Probe, iterator
<1>18. CASE InsertNew
    BY <1>18 DEF InsertNew, Return, NoProbe, NoArg, Entry, EmptyEntry, Probe, Slots,
                 iterator
<1>19. CASE InsertFails
    BY <1>19 DEF InsertFails, Return, NoProbe, NoArg, Entry, EmptyEntry, Probe, table,
                 iterator
<1>20. CASE NextSkip
    BY <1>20 DEF NextSkip, table
<1>21. CASE NextYield
    BY <1>21 DEF NextYield, Return, NoProbe, NoArg, Slots, Entry, EmptyEntry, Probe, table
<1>22. CASE NextEnd
    BY <1>22 DEF NextEnd, Return, NoProbe, NoArg, Entry, EmptyEntry, Probe, table, iterator
<1>23. CASE UNCHANGED vars
    BY <1>23 DEF vars, table, iterator
<1> QED
    BY <1>1, <1>2, <1>3, <1>4, <1>5, <1>6, <1>7, <1>8, <1>9, <1>10, <1>11, <1>12,
       <1>13, <1>14, <1>15, <1>16, <1>17, <1>18, <1>19, <1>20, <1>21, <1>22, <1>23
    DEF Next, Call, Step

(* Every variable of the table always has its type.                        *)
THEOREM TypeCorrect == Spec => []TypeOK
BY InitTypeOK, NextTypeOK, PTL DEF Spec
-----------------------------------------------------------------------------
(* The inductive invariant                                                 *)

(* The probe in progress has met neither its key nor an empty slot.        *)
OnPath ==
    /\ pc \in {"get", "insert"} => Path(entries, capacity, probe.key, probe.index)
    /\ pc = "move" => Path(fresh, Doubled(capacity), probe.key, probe.index)

(* At most half of the slots are used, and fewer when one is to be filled. *)
HalfFull ==
    /\ length = Cardinality(Used(entries, capacity))
    /\ length <= capacity \div 2
    /\ pc = "insert" => length < capacity \div 2

(* The new array holds the entries of the old slots below i, no others.    *)
Rehashed ==
    /\ pc \in {"rehash", "move"} =>
          /\ \A s \in Used(entries, i) : \E t \in Slots(Doubled(capacity)) :
                fresh[t] = entries[s]
          /\ \A t \in Used(fresh, Doubled(capacity)) : \E s \in Used(entries, i) :
                fresh[t] = entries[s]
          /\ Cardinality(Used(fresh, Doubled(capacity))) = Cardinality(Used(entries, i))
    /\ pc = "move" => probe.key = entries[i].key /\ probe.value = entries[i].value

IInv == KeysReachable /\ OnPath /\ HalfFull /\ Rehashed
LEMMA PathFromHome ==
    ASSUME NEW cap \in Nat \ {0}, NEW a, NEW k \in Keys
    PROVE  Path(a, cap, k, Home(k, cap))
<1>1. Home(k, cap) \in Slots(cap)
    BY HomeInRange
<1> QED
    BY <1>1 DEF Path, Distance, Slots

LEMMA PathToNext ==
    ASSUME NEW cap \in Nat \ {0}, NEW a, NEW k \in Keys, NEW s \in Slots(cap),
           Path(a, cap, k, s), a[s].key \notin {NULL, k}
    PROVE  Path(a, cap, k, NextSlot(s, cap))
<1>1. Home(k, cap) \in Slots(cap)
    BY HomeInRange
<1> QED
    BY <1>1, DistanceOfNext DEF Path

(* A step that leaves the array alone and starts no probe.                 *)
LEMMA QuietStep ==
    ASSUME IInv, UNCHANGED table, pc' \in {"idle", "set", "next"}
    PROVE  IInv'
BY DEF IInv, KeysReachable, OnPath, HalfFull, Rehashed, AllReachable, Path, Used,
       table

LEMMA InitIInv == Init => IInv
<1> SUFFICES ASSUME Init PROVE IInv
    OBVIOUS
<1>1. Used(entries, capacity) = {}
    BY NoEntriesEmpty DEF Init
<1>2. Cardinality({}) = 0
    BY FS_EmptySet
<1> QED
    BY <1>1, <1>2
    DEF Init, IInv, KeysReachable, AllReachable, OnPath, HalfFull, Rehashed

LEMMA NextIInv == TypeOK /\ IInv /\ [Next]_vars => IInv'
<1> SUFFICES ASSUME TypeOK, IInv, [Next]_vars PROVE IInv'
    OBVIOUS
<1>0. /\ capacity # 0 => capacity \in 1 .. SizeMax /\ capacity \in Nat \ {0}
      /\ pc # "none" => capacity # 0
      /\ entries \in Arrays(capacity)
      /\ length \in Nat
      /\ pc \in {"rehash", "move"} => /\ Doubled(capacity) = 2 * capacity
                                      /\ Doubled(capacity) \in Nat \ {0}
                                      /\ fresh \in Arrays(Doubled(capacity))
                                      /\ i \in 0 .. capacity
    BY ConstantsAssumption, DoubledDoubles DEF TypeOK, Arrays
<1>1. CASE Create
  <2>1. /\ Used(entries', capacity') = {} /\ length' = 0 /\ pc' = "idle"
        /\ capacity' \in Nat
    BY <1>1, NoEntriesEmpty, ConstantsAssumption DEF Create, Return
  <2>2. Cardinality({}) = 0
    BY FS_EmptySet
  <2>3. length' <= capacity' \div 2
    <3>1. \A c \in Nat : 0 <= c \div 2
        OBVIOUS
    <3> QED
        BY <2>1, <3>1
  <2> QED
    BY <2>1, <2>2, <2>3 DEF IInv, KeysReachable, AllReachable, OnPath, HalfFull, Rehashed
<1>2. CASE Destroy
  <2>1. Used(entries', capacity') = {} /\ capacity' = 0 /\ length' = 0 /\ pc' = "none"
    BY <1>2, NoEntriesEmpty DEF Destroy
  <2>2. Cardinality({}) = 0
    BY FS_EmptySet
  <2> QED
    BY <2>1, <2>2 DEF IInv, KeysReachable, AllReachable, OnPath, HalfFull, Rehashed
<1>3. ASSUME NEW k \in Keys, GetCall(k) PROVE IInv'
  <2>1. Path(entries, capacity, k, Home(k, capacity))
    BY <1>0, <1>3, PathFromHome DEF GetCall
  <2>2. /\ UNCHANGED table /\ pc' = "get"
        /\ probe'.key = k /\ probe'.index = Home(k, capacity)
    BY <1>3 DEF GetCall, ProbeFor
  <2> QED
    BY <2>1, <2>2
    DEF IInv, KeysReachable, OnPath, HalfFull, Rehashed, AllReachable, Path, Used, table
<1>4. ASSUME NEW k \in Keys, NEW v \in Values, SetCall(k, v) PROVE IInv'
    BY <1>4, QuietStep DEF SetCall
<1>5. CASE IterateCall \/ NextCall \/ NextSkip \/ NextYield \/ NextEnd
    BY <1>5, QuietStep
    DEF IterateCall, NextCall, NextSkip, NextYield, NextEnd, Return
<1>6. CASE GetHit \/ GetMiss \/ ExpandFails \/ InsertFails
    BY <1>6, QuietStep DEF GetHit, GetMiss, ExpandFails, InsertFails, Return
<1>7. CASE GetAdvance \/ InsertAdvance
  <2>1. /\ pc \in {"get", "insert"} /\ UNCHANGED <<table, pc>>
        /\ probe'.key = probe.key /\ probe'.index = NextSlot(probe.index, capacity)
        /\ entries[probe.index].key \notin {NULL, probe.key}
    BY <1>7 DEF GetAdvance, InsertAdvance, Advance, TypeOK, Probe
  <2>2. probe.key \in Keys /\ probe.index \in Slots(capacity)
    BY <2>1 DEF TypeOK, Probe, Slots
  <2>3. Path(entries, capacity, probe.key, NextSlot(probe.index, capacity))
    BY <1>0, <2>1, <2>2, PathToNext DEF IInv, OnPath
  <2> QED
    BY <2>1, <2>3
    DEF IInv, KeysReachable, OnPath, HalfFull, Rehashed, AllReachable, Path, Used, table
<1>8. CASE SetInPlace
  <2>1. /\ UNCHANGED table /\ pc' = "insert" /\ arg.key \in Keys
        /\ probe'.key = arg.key /\ probe'.index = Home(arg.key, capacity)
        /\ length < capacity \div 2
    BY <1>8, <1>0 DEF SetInPlace, StartInsert, ProbeFor, MustExpand, TypeOK
  <2>2. Path(entries, capacity, arg.key, Home(arg.key, capacity))
    BY <1>0, <1>8, <2>1, PathFromHome DEF SetInPlace
  <2> QED
    BY <2>1, <2>2
    DEF IInv, KeysReachable, OnPath, HalfFull, Rehashed, AllReachable, Path, Used, table
<1>9. CASE ExpandStart
  <2>1. /\ Doubled(capacity) \in Nat
        /\ UNCHANGED table /\ pc' = "rehash" /\ i' = 0
        /\ fresh' = NoEntries(Doubled(capacity))
    BY <1>9, <1>0, DoubledDoubles DEF ExpandStart
  <2>2. /\ Used(fresh', Doubled(capacity)) = {}
        /\ AllReachable(fresh', Doubled(capacity))
    BY <2>1, NoEntriesEmpty
  <2>3. Used(entries, 0) = {}
    BY DEF Used, Slots
  <2> QED
    BY <2>1, <2>2, <2>3
    DEF IInv, KeysReachable, OnPath, HalfFull, Rehashed, AllReachable, Path, Used, table
<1>10. CASE RehashSkip
  <2>1. /\ UNCHANGED <<table, fresh, pc>> /\ i' = i + 1 /\ pc = "rehash"
        /\ i \in Slots(capacity) /\ entries[i].key = NULL
    BY <1>10, <1>0 DEF RehashSkip, Slots
  <2>2. Used(entries, i + 1) = Used(entries, i)
    BY <2>1 DEF Used, Slots
  <2> QED
    BY <2>1, <2>2
    DEF IInv, KeysReachable, OnPath, HalfFull, Rehashed, AllReachable, Path, table
<1>11. CASE RehashMove
  <2>1. /\ UNCHANGED <<table, fresh, i>> /\ pc = "rehash" /\ pc' = "move"
        /\ entries[i].key \in Keys
        /\ probe'.key = entries[i].key /\ probe'.value = entries[i].value
        /\ probe'.index = Home(entries[i].key, Doubled(capacity))
    BY <1>11 DEF RehashMove, ProbeFor, TypeOK, Slots, Entry, EmptyEntry
  <2>2. Path(fresh, Doubled(capacity), probe'.key, probe'.index)
    BY <1>0, <2>1, PathFromHome
  <2> QED
    BY <2>1, <2>2
    DEF IInv, KeysReachable, OnPath, HalfFull, Rehashed, table
<1>12. CASE MoveAdvance
  <2>1. /\ pc = "move" /\ UNCHANGED <<table, fresh, i, pc>>
        /\ probe'.key = probe.key /\ probe'.value = probe.value
        /\ probe'.index = NextSlot(probe.index, Doubled(capacity))
        /\ fresh[probe.index].key \notin {NULL, probe.key}
    BY <1>12 DEF MoveAdvance, Advance, TypeOK, Probe
  <2>2. probe.key \in Keys /\ probe.index \in Slots(Doubled(capacity))
    BY <1>0, <2>1 DEF TypeOK, Probe, Slots
  <2>3. Path(fresh, Doubled(capacity), probe.key, NextSlot(probe.index, Doubled(capacity)))
    BY <1>0, <2>1, <2>2, PathToNext DEF IInv, OnPath
  <2> QED
    BY <2>1, <2>3
    DEF IInv, KeysReachable, OnPath, HalfFull, Rehashed, table
<1>13. CASE MoveStore
  <2> DEFINE cap2 == Doubled(capacity)
             p == probe.index
  <2>1. /\ pc = "move" /\ UNCHANGED table /\ pc' = "rehash" /\ i' = i + 1
        /\ fresh' = Store(fresh, p, probe.key, probe.value)
        /\ fresh[p].key \in {NULL, probe.key}
    BY <1>13 DEF MoveStore, Store
  <2>2. /\ probe.key \in Keys /\ probe.value \in Values
        /\ p \in Slots(cap2) /\ i \in Slots(capacity)
        /\ entries[i].key = probe.key /\ entries[i].value = probe.value
        /\ entries[i] \in Entry
    BY <1>0, <2>1 DEF TypeOK, Probe, Slots, IInv, Rehashed
  <2>3. entries[i] = [key |-> probe.key, value |-> probe.value]
    BY <2>2, ConstantsAssumption DEF Entry, EmptyEntry
  <2>4. fresh[p].key = NULL
    <3>1. SUFFICES ASSUME fresh[p].key = probe.key PROVE FALSE
        BY <2>1
    <3>2. p \in Used(fresh, cap2)
        BY <2>2, <3>1, ConstantsAssumption DEF Used
    <3>3. PICK s \in Used(entries, i) : fresh[p] = entries[s]
        BY <2>1, <3>2 DEF IInv, Rehashed
    <3>4. s \in Used(entries, capacity) /\ s # i /\ entries[s].key = entries[i].key
      <4>1. s \in 0 .. i - 1 /\ entries[s].key # NULL
        BY <3>3 DEF Used, Slots
      <4>2. s \in 0 .. capacity - 1 /\ s # i
        BY <1>0, <2>1, <2>2, <4>1 DEF Slots
      <4> QED
        BY <2>2, <3>1, <3>3, <4>1, <4>2 DEF Used, Slots
    <3>5. capacity \in Nat \ {0} /\ entries \in Arrays(capacity)
        BY <1>0, <2>1
    <3>6. i \in Slots(capacity) /\ AllReachable(entries, capacity)
        BY <2>2 DEF IInv, KeysReachable
    <3> QED
        BY <3>4, <3>5, <3>6, ReachableUnique
  <2>5. /\ AllReachable(fresh', cap2)
        /\ Used(fresh', cap2) = Used(fresh, cap2) \cup {p}
        /\ p \notin Used(fresh, cap2)
        /\ fresh \in Arrays(cap2)
    BY <1>0, <2>1, <2>2, <2>4, StoreKeepsReachable DEF IInv, KeysReachable, OnPath
  <2>6. /\ Used(entries, i + 1) = Used(entries, i) \cup {i}
        /\ i \notin Used(entries, i)
    BY <2>2, ConstantsAssumption DEF Used, Slots
  <2>7. /\ fresh'[p] = entries[i]
        /\ \A t \in Slots(cap2) \ {p} : fresh'[t] = fresh[t]
    BY <2>1, <2>2, <2>3, <2>5 DEF Store, Arrays
  <2>8. Cardinality(Used(fresh', cap2)) = Cardinality(Used(entries, i + 1))
    <3>1. IsFiniteSet(Used(fresh, cap2)) /\ IsFiniteSet(Used(entries, i))
        BY <1>0, <2>1, UsedFinite
    <3>2. Cardinality(Used(fresh, cap2)) = Cardinality(Used(entries, i))
        BY <2>1, Zenon DEF IInv, Rehashed
    <3>3. Cardinality(Used(fresh', cap2)) = Cardinality(Used(fresh, cap2)) + 1
        BY <2>5, <3>1, FS_AddElement, Zenon
    <3>4. Cardinality(Used(entries, i + 1)) = Cardinality(Used(entries, i)) + 1
        BY <2>6, <3>1, FS_AddElement, Zenon
    <3> QED
        BY <3>2, <3>3, <3>4, Zenon
  <2>9. \A s \in Used(entries, i + 1) : \E t \in Slots(cap2) : fresh'[t] = entries[s]
    BY <2>1, <2>2, <2>4, <2>6, <2>7 DEF IInv, Rehashed, Used
  <2>10. \A t \in Used(fresh', cap2) : \E s \in Used(entries, i + 1) : fresh'[t] = entries[s]
    BY <2>1, <2>2, <2>5, <2>6, <2>7 DEF IInv, Rehashed, Used
  <2> QED
    BY <2>1, <2>5, <2>8, <2>9, <2>10
    DEF IInv, KeysReachable, OnPath, HalfFull, Rehashed, table
<1>14. CASE RehashDone
  <2>1. /\ pc = "rehash" /\ i = capacity /\ pc' = "insert"
        /\ entries' = fresh /\ capacity' = Doubled(capacity) /\ length' = length
        /\ probe'.key = arg.key /\ probe'.index = Home(arg.key, capacity')
        /\ arg.key \in Keys
    BY <1>14 DEF RehashDone, StartInsert, ProbeFor, TypeOK
  <2>2. Path(entries', capacity', probe'.key, probe'.index)
    BY <1>0, <2>1, PathFromHome
  <2>3. AllReachable(entries', capacity')
    BY <2>1 DEF IInv, KeysReachable
  <2>4. length' = Cardinality(Used(entries', capacity'))
    BY <2>1 DEF IInv, HalfFull, Rehashed
  <2>5. length' < capacity' \div 2
    BY <1>0, <2>1 DEF IInv, HalfFull
  <2> QED
    BY <2>1, <2>2, <2>3, <2>4, <2>5, <1>0
    DEF IInv, KeysReachable, OnPath, HalfFull, Rehashed
<1>15. CASE InsertUpdate
  <2>1. /\ probe.index \in Used(entries, capacity) /\ probe.value \in Values
        /\ entries' = [entries EXCEPT ![probe.index].value = probe.value]
        /\ UNCHANGED <<capacity, length>> /\ pc' = "idle" /\ pc = "insert"
    BY <1>15, ConstantsAssumption DEF InsertUpdate, Return, TypeOK, Used, Slots, Probe
  <2>2. /\ AllReachable(entries', capacity)
        /\ Used(entries', capacity) = Used(entries, capacity)
    BY <1>0, <2>1, UpdateKeepsReachable DEF IInv, KeysReachable
  <2> QED
    BY <2>1, <2>2 DEF IInv, KeysReachable, OnPath, HalfFull, Rehashed
<1>16. CASE InsertNew
  <2>1. /\ probe.index \in Slots(capacity) /\ probe.value \in Values /\ probe.key \in Keys
        /\ entries[probe.index].key = NULL
        /\ entries' = Store(entries, probe.index, probe.key, probe.value)
        /\ UNCHANGED capacity /\ length' = length + 1
        /\ pc' = "idle" /\ pc = "insert"
    BY <1>16 DEF InsertNew, Return, TypeOK, Slots, Probe, Store
  <2>2. /\ AllReachable(entries', capacity)
        /\ Used(entries', capacity) = Used(entries, capacity) \cup {probe.index}
        /\ probe.index \notin Used(entries, capacity)
    BY <1>0, <2>1, StoreKeepsReachable DEF IInv, KeysReachable, OnPath
  <2>3. IsFiniteSet(Used(entries, capacity))
    BY <1>0, <2>1, UsedFinite
  <2>4. length' = Cardinality(Used(entries', capacity'))
    BY <2>1, <2>2, <2>3, FS_AddElement DEF IInv, HalfFull
  <2>5. length' <= capacity' \div 2
    BY <1>0, <2>1 DEF IInv, HalfFull
  <2> QED
    BY <2>1, <2>2, <2>4, <2>5 DEF IInv, KeysReachable, OnPath, HalfFull, Rehashed
<1>17. CASE UNCHANGED vars
    BY <1>17
    DEF IInv, KeysReachable, OnPath, HalfFull, Rehashed, AllReachable, Path, Used,
        vars, table
<1> QED
    BY <1>1, <1>2, <1>3, <1>4, <1>5, <1>6, <1>7, <1>8, <1>9, <1>10, <1>11, <1>12,
       <1>13, <1>14, <1>15, <1>16, <1>17
    DEF Next, Call, Step

LEMMA IInvAlways == Spec => [](TypeOK /\ IInv)
BY InitTypeOK, InitIInv, NextTypeOK, NextIInv, PTL DEF Spec

(* Linear probing finds every stored key, in the one slot that holds it,   *)
(* whatever the hash function and however often the table has grown.       *)
THEOREM KeysAlwaysReachable == Spec => []KeysReachable
<1>1. IInv => KeysReachable
    BY DEF IInv
<1> QED
    BY <1>1, IInvAlways, PTL

(* length counts the keys and every probe has an empty slot ahead of it.   *)
THEOREM AlwaysRoomToProbe == Spec => []RoomToProbe
<1>1. TypeOK /\ IInv => RoomToProbe
  <2> SUFFICES ASSUME TypeOK, IInv PROVE RoomToProbe
    OBVIOUS
  <2>1. length = Cardinality(Used(entries, capacity))
    BY DEF IInv, HalfFull
  <2>2. ASSUME pc \in {"get", "insert"}
        PROVE  \E s \in Slots(capacity) : entries[s].key = NULL
    <3>1. capacity \in Nat \ {0} /\ entries \in Arrays(capacity)
        BY <2>2, ConstantsAssumption DEF TypeOK, Arrays
    <3>2. Cardinality(Used(entries, capacity)) < capacity
        BY <3>1 DEF IInv, HalfFull, TypeOK
    <3> QED
        BY <3>1, <3>2, EmptySlotExists
  <2>3. ASSUME pc = "move"
        PROVE  \E s \in Slots(Doubled(capacity)) : fresh[s].key = NULL
    <3>1. /\ Doubled(capacity) = 2 * capacity /\ capacity \in Nat \ {0}
          /\ fresh \in Arrays(Doubled(capacity)) /\ i \in Nat /\ i < capacity
        BY <2>3, ConstantsAssumption, DoubledDoubles DEF TypeOK, Arrays
    <3>2. Cardinality(Used(fresh, Doubled(capacity))) < Doubled(capacity)
        BY <2>3, <3>1, UsedFinite DEF IInv, Rehashed
    <3> QED
        BY <3>1, <3>2, EmptySlotExists
  <2> QED
    BY <2>1, <2>2, <2>3 DEF RoomToProbe
<1> QED
    BY <1>1, IInvAlways, PTL

-----------------------------------------------------------------------------
(* HashTable implements KVMap: every step of a call is a step of the       *)
(* atomic map or leaves it unchanged.                                      *)

(* The iterator has given out the keys of the slots it has passed, and no  *)
(* ht_set runs while an iteration is under way (ht.h).                     *)
IterationInv ==
    /\ seen = {entries[s].key : s \in Used(entries, hti)}
    /\ pc \in {"set", "rehash", "move", "insert"} => hti = 0

LEMMA InitIterationInv == Init => IterationInv
BY DEF Init, IterationInv, Used, Slots

LEMMA UsedNone == \A a : Used(a, 0) = {}
BY DEF Used, Slots

LEMMA NextIterationInv == TypeOK /\ IterationInv /\ [Next]_vars => IterationInv'
<1> SUFFICES ASSUME TypeOK, IterationInv, [Next]_vars PROVE IterationInv'
    OBVIOUS
<1>1. CASE NextSkip
  <2>1. /\ UNCHANGED <<entries, seen, pc>> /\ hti' = hti + 1 /\ pc = "next"
        /\ hti \in Nat /\ entries[hti].key = NULL
    BY <1>1 DEF NextSkip, table, TypeOK
  <2>2. Used(entries, hti + 1) = Used(entries, hti)
    BY <2>1 DEF Used, Slots
  <2> QED
    BY <2>1, <2>2 DEF IterationInv
<1>2. CASE NextYield
  <2>1. /\ UNCHANGED entries /\ seen' = seen \cup {entries[hti].key}
        /\ hti' = hti + 1 /\ pc' = "idle" /\ hti \in Nat /\ entries[hti].key # NULL
    BY <1>2 DEF NextYield, Return, table, TypeOK
  <2>2. Used(entries, hti + 1) = Used(entries, hti) \cup {hti}
    BY <2>1 DEF Used, Slots
  <2> QED
    BY <2>1, <2>2 DEF IterationInv
<1>3. CASE Create \/ Destroy \/ IterateCall
    BY <1>3, UsedNone
    DEF Create, Destroy, IterateCall, Return, IterationInv, TypeOK, iterator, table
<1>4. ASSUME NEW k \in Keys, NEW v \in Values, SetCall(k, v) PROVE IterationInv'
    BY <1>4 DEF SetCall, IterationInv, iterator, table, Used
<1>5. CASE \/ NextCall \/ GetAdvance \/ GetHit \/ GetMiss
           \/ SetInPlace \/ ExpandFails \/ ExpandStart \/ RehashSkip \/ RehashMove
           \/ MoveAdvance \/ MoveStore \/ InsertAdvance \/ InsertFails \/ NextEnd
  <2>1. /\ UNCHANGED <<entries, hti, seen>>
        /\ pc' \in {"set", "rehash", "move", "insert"} =>
              pc \in {"set", "rehash", "move", "insert"}
    BY <1>5
    DEF NextCall, GetAdvance, GetHit, GetMiss, SetInPlace, ExpandFails, ExpandStart,
        RehashSkip, RehashMove, MoveAdvance, MoveStore, InsertAdvance, InsertFails,
        NextEnd, Advance, StartInsert, Return, iterator, table
  <2> QED
    BY <2>1 DEF IterationInv, Used
<1>6. CASE RehashDone \/ InsertUpdate \/ InsertNew
  <2>1. UNCHANGED <<hti, seen>> /\ hti = 0
    BY <1>6 DEF RehashDone, InsertUpdate, InsertNew, IterationInv, iterator
  <2> QED
    BY <2>1, UsedNone DEF IterationInv
<1>7. CASE UNCHANGED vars
    BY <1>7 DEF vars, iterator, table, IterationInv, Used
<1>8. ASSUME NEW k \in Keys, GetCall(k) PROVE IterationInv'
    BY <1>8 DEF GetCall, IterationInv, iterator, table, Used
<1> QED
    BY <1>1, <1>2, <1>3, <1>4, <1>5, <1>6, <1>7, <1>8 DEF Next, Call, Step

-----------------------------------------------------------------------------
(* What an array stands for.                                               *)

LEMMA MapOfHit ==
    ASSUME NEW cap \in Nat \ {0}, NEW a \in Arrays(cap), AllReachable(a, cap),
           NEW s \in Slots(cap), a[s].key # NULL
    PROVE  /\ a[s].key \in Keys /\ a[s].value \in Values
           /\ MapOf(a, cap)[a[s].key] = a[s].value
<1>1. a[s].key \in Keys /\ a[s].value \in Values
    BY DEF Arrays, Entry, EmptyEntry
<1> DEFINE t == CHOOSE t \in Slots(cap) : a[t].key = a[s].key
<1>2. t \in Slots(cap) /\ a[t].key = a[s].key
    OBVIOUS
<1>3. s \in Used(a, cap)
    BY DEF Used
<1>4. t = s
    BY <1>2, <1>3, ReachableUnique
<1> QED
    BY <1>1, <1>4 DEF MapOf

LEMMA MapOfMiss ==
    ASSUME NEW cap \in Nat, NEW a, NEW k \in Keys,
           \A s \in Slots(cap) : a[s].key # k
    PROVE  MapOf(a, cap)[k] = NULL
BY DEF MapOf

LEMMA MapOfEmpty ==
    ASSUME NEW cap \in Nat PROVE MapOf(NoEntries(cap), cap) = Map!Unbound
<1>1. ASSUME NEW k \in Keys, NEW s \in Slots(cap) PROVE NoEntries(cap)[s].key # k
    BY ConstantsAssumption DEF NoEntries, EmptyEntry
<1> QED
    BY <1>1 DEF MapOf, Map!Unbound
(* Storing v in the slot where the probe for k ended binds k to v.         *)
LEMMA MapOfStore ==
    ASSUME NEW cap \in Nat \ {0}, NEW a \in Arrays(cap), AllReachable(a, cap),
           NEW b \in Arrays(cap), AllReachable(b, cap),
           NEW k \in Keys, NEW v \in Values, NEW p \in Slots(cap),
           a[p].key \in {NULL, k}, b[p] = [key |-> k, value |-> v],
           \A s \in Slots(cap) \ {p} : b[s] = a[s]
    PROVE  MapOf(b, cap) = [MapOf(a, cap) EXCEPT ![k] = v]
<1>1. MapOf(b, cap)[k] = v
  <2>1. b[p].key = k /\ b[p].value = v /\ b[p].key # NULL
    BY ConstantsAssumption
  <2>2. MapOf(b, cap)[b[p].key] = b[p].value
    BY <2>1, MapOfHit
  <2> QED
    BY <2>1, <2>2
<1>2. ASSUME NEW x \in Keys \ {k} PROVE MapOf(b, cap)[x] = MapOf(a, cap)[x]
  <2>1. CASE \E s \in Slots(cap) : a[s].key = x
    <3>1. PICK s \in Slots(cap) : a[s].key = x
        BY <2>1
    <3>2. s # p /\ x # NULL /\ b[s] = a[s]
        BY <3>1, ConstantsAssumption
    <3> QED
        BY <3>1, <3>2, MapOfHit
  <2>2. CASE \A s \in Slots(cap) : a[s].key # x
    <3>1. \A s \in Slots(cap) : b[s].key # x
        BY <2>2
    <3> QED
        BY <2>2, <3>1, MapOfMiss
  <2> QED
    BY <2>1, <2>2
<1>3. /\ MapOf(a, cap) = [x \in Keys |-> MapOf(a, cap)[x]]
      /\ MapOf(b, cap) = [x \in Keys |-> MapOf(b, cap)[x]]
    BY DEF MapOf
<1> QED
    BY <1>1, <1>2, <1>3

(* Rehashing every entry leaves the map as it was.                         *)
LEMMA MapOfRehashed ==
    ASSUME NEW cap \in Nat \ {0}, NEW a \in Arrays(cap), AllReachable(a, cap),
           NEW cap2 \in Nat \ {0}, NEW b \in Arrays(cap2), AllReachable(b, cap2),
           \A s \in Used(a, cap) : \E t \in Slots(cap2) : b[t] = a[s],
           \A t \in Used(b, cap2) : \E s \in Used(a, cap) : b[t] = a[s]
    PROVE  MapOf(b, cap2) = MapOf(a, cap)
<1>1. ASSUME NEW x \in Keys PROVE MapOf(b, cap2)[x] = MapOf(a, cap)[x]
  <2>1. CASE \E s \in Slots(cap) : a[s].key = x
    <3>1. PICK s \in Slots(cap) : a[s].key = x
        BY <2>1
    <3>2. s \in Used(a, cap)
        BY <3>1, ConstantsAssumption DEF Used
    <3>3. PICK t \in Slots(cap2) : b[t] = a[s]
        BY <3>2
    <3> QED
        BY <3>1, <3>3, MapOfHit, ConstantsAssumption
  <2>2. CASE \A s \in Slots(cap) : a[s].key # x
    <3>1. ASSUME NEW t \in Slots(cap2), b[t].key = x PROVE FALSE
      <4>1. t \in Used(b, cap2)
        BY <3>1, ConstantsAssumption DEF Used
      <4> QED
        BY <2>2, <3>1, <4>1 DEF Used
    <3> QED
        BY <2>2, <3>1, MapOfMiss
  <2> QED
    BY <2>1, <2>2
<1> QED
    BY <1>1 DEF MapOf

-----------------------------------------------------------------------------
LEMMA InitRefines == Init => Map!Init
BY MapOfEmpty DEF Init, Map!Init, Map!Reply, Reply

LEMMA NextRefines ==
    TypeOK /\ IInv /\ IterationInv /\ [Next]_vars => [Map!Next]_(Map!vars)
<1> SUFFICES ASSUME TypeOK, IInv, IterationInv, [Next]_vars
             PROVE  Map!Next \/ UNCHANGED Map!vars
    BY DEF Map!vars
<1> DEFINE map == MapOf(entries, capacity)
<1>0. /\ pc # "none" => capacity \in Nat \ {0}
      /\ capacity \in Nat /\ entries \in Arrays(capacity)
      /\ AllReachable(entries, capacity)
    BY ConstantsAssumption DEF TypeOK, IInv, KeysReachable, Arrays
<1>1. CASE Create
    BY <1>1, MapOfEmpty, UsedNone, ConstantsAssumption
    DEF Create, Return, Reply, Map!Next, Map!Reset, Map!Reply, IterationInv, TypeOK,
        iterator
<1>2. CASE Destroy
    BY <1>2, MapOfEmpty DEF Destroy, Reply, Map!Next, Map!Reset, Map!Reply
<1>3. CASE IterateCall
    BY <1>3 DEF IterateCall, table, Map!Next, Map!StartIteration
<1>4. CASE \/ NextCall \/ GetAdvance \/ SetInPlace \/ ExpandStart \/ RehashSkip
           \/ RehashMove \/ MoveAdvance \/ MoveStore \/ InsertAdvance \/ NextSkip
           \/ \E k \in Keys : GetCall(k) \/ \E v \in Values : SetCall(k, v)
  <2>1. UNCHANGED <<entries, capacity, seen, answer>>
    BY <1>4
    DEF NextCall, GetAdvance, SetInPlace, ExpandStart, RehashSkip, RehashMove,
        MoveAdvance, MoveStore, InsertAdvance, NextSkip, GetCall, SetCall, Advance,
        StartInsert, table, iterator
  <2> QED
    BY <2>1 DEF Map!vars
<1>5. CASE GetHit
  <2>1. /\ probe.key \in Keys /\ probe.index \in Slots(capacity) /\ pc = "get"
        /\ entries[probe.index].key = probe.key
        /\ answer' = Reply("get", probe.key, entries[probe.index].value)
        /\ UNCHANGED <<entries, capacity, seen>>
    BY <1>5 DEF GetHit, Return, TypeOK, Probe, Slots, table, iterator
  <2>2. map[probe.key] = entries[probe.index].value
    BY <1>0, <2>1, MapOfHit, ConstantsAssumption
  <2>3. Map!Get(probe.key)
    BY <2>1, <2>2 DEF Map!Get, Map!Reply, Reply
  <2> QED
    BY <2>1, <2>3 DEF Map!Next
<1>6. CASE GetMiss
  <2>1. /\ probe.key \in Keys /\ probe.index \in Slots(capacity) /\ pc = "get"
        /\ entries[probe.index].key = NULL
        /\ answer' = Reply("get", probe.key, NULL)
        /\ UNCHANGED <<entries, capacity, seen>>
    BY <1>6 DEF GetMiss, Return, TypeOK, Probe, Slots, table, iterator
  <2>2. \A s \in Slots(capacity) : entries[s].key # probe.key
    BY <1>0, <2>1, MissMeansAbsent DEF IInv, OnPath
  <2>3. map[probe.key] = NULL
    BY <1>0, <2>1, <2>2, MapOfMiss
  <2>4. Map!Get(probe.key)
    BY <2>1, <2>3 DEF Map!Get, Map!Reply, Reply
  <2> QED
    BY <2>1, <2>4 DEF Map!Next
<1>7. CASE ExpandFails \/ InsertFails
  <2>1. \E k \in Keys : Map!SetFails(k)
    BY <1>7
    DEF ExpandFails, InsertFails, Return, TypeOK, Reply, table, iterator,
        Map!SetFails, Map!Reply
  <2> QED
    BY <2>1 DEF Map!Next
<1>8. CASE RehashDone
  <2>1. /\ pc = "rehash" /\ i = capacity /\ entries' = fresh
        /\ capacity' = Doubled(capacity) /\ UNCHANGED <<seen, answer>>
    BY <1>8 DEF RehashDone, iterator
  <2>2. Doubled(capacity) \in Nat \ {0} /\ fresh \in Arrays(Doubled(capacity))
    BY <1>0, <2>1 DEF TypeOK, Arrays
  <2>3. MapOf(fresh, Doubled(capacity)) = map
    BY <1>0, <2>1, <2>2, MapOfRehashed DEF IInv, Rehashed, KeysReachable
  <2> QED
    BY <2>1, <2>3 DEF Map!vars
<1>9. CASE InsertUpdate \/ InsertNew
  <2>1. /\ probe.key \in Keys /\ probe.value \in Values /\ pc = "insert"
        /\ probe.index \in Slots(capacity)
        /\ entries[probe.index].key \in {NULL, probe.key}
        /\ capacity' = capacity /\ seen' = seen
        /\ answer' = Reply("set", probe.key, probe.value)
    BY <1>9
    DEF InsertUpdate, InsertNew, Return, TypeOK, Probe, Slots, table, iterator
  <2>2. TypeOK' /\ IInv'
    BY NextTypeOK, NextIInv
  <2>3. entries' \in Arrays(capacity) /\ AllReachable(entries', capacity)
    BY <2>1, <2>2 DEF TypeOK, IInv, KeysReachable, Arrays
  <2>4. entries[probe.index] \in Entry
    BY <1>0, <2>1 DEF Arrays
  <2>5. /\ entries'[probe.index] = [key |-> probe.key, value |-> probe.value]
        /\ \A s \in Slots(capacity) \ {probe.index} : entries'[s] = entries[s]
    <3>1. CASE InsertUpdate
      <4>1. entries[probe.index] \in [key : Keys, value : Values]
        BY <2>1, <2>4, <3>1, ConstantsAssumption DEF InsertUpdate, Entry, EmptyEntry
      <4> QED
        BY <1>0, <2>1, <3>1, <4>1 DEF InsertUpdate, Arrays
    <3>2. CASE InsertNew
        BY <1>0, <2>1, <3>2 DEF InsertNew, Arrays
    <3> QED
        BY <1>9, <3>1, <3>2
  <2>6. MapOf(entries', capacity) = [map EXCEPT ![probe.key] = probe.value]
    BY <1>0, <2>1, <2>3, <2>5, MapOfStore
  <2>7. Map!Set(probe.key, probe.value)
    BY <2>1, <2>6 DEF Map!Set, Map!Reply, Reply
  <2> QED
    BY <2>1, <2>7 DEF Map!Next
<1>10. CASE NextYield
  <2> DEFINE k == entries[hti].key
  <2>1. /\ hti \in Slots(capacity) /\ pc = "next" /\ k # NULL
        /\ UNCHANGED <<entries, capacity>> /\ seen' = seen \cup {k}
        /\ answer' = Reply("next", k, entries[hti].value)
    BY <1>10 DEF NextYield, Return, TypeOK, Slots, table
  <2>2. k \in Keys /\ entries[hti].value \in Values /\ map[k] = entries[hti].value
    BY <1>0, <2>1, MapOfHit
  <2>3. ASSUME k \in seen PROVE FALSE
    <3>1. PICK s \in Used(entries, hti) : entries[s].key = k
        BY <2>3 DEF IterationInv
    <3>2. s \in Used(entries, capacity) /\ s # hti
        BY <1>0, <2>1, <3>1 DEF Used, Slots
    <3> QED
        BY <1>0, <2>1, <3>1, <3>2, ReachableUnique
  <2>4. Map!Yield(k)
    BY <2>1, <2>2, <2>3, ConstantsAssumption
    DEF Map!Yield, Map!Bound, Map!Reply, Reply
  <2> QED
    BY <2>2, <2>4 DEF Map!Next
<1>11. CASE NextEnd
  <2>1. /\ hti = capacity /\ pc = "next" /\ UNCHANGED <<entries, capacity, seen>>
        /\ answer' = Reply("next", NULL, NULL)
    BY <1>11 DEF NextEnd, Return, table, iterator
  <2>2. ASSUME NEW k \in Keys, map[k] # NULL PROVE k \in seen
    <3>1. PICK s \in Slots(capacity) : entries[s].key = k
        BY <1>0, <2>2, MapOfMiss
    <3>2. s \in Used(entries, hti)
        BY <2>1, <3>1, ConstantsAssumption DEF Used
    <3> QED
        BY <3>1, <3>2 DEF IterationInv
  <2>3. Map!Exhausted
    BY <2>1, <2>2 DEF Map!Exhausted, Map!Bound, Map!Reply, Reply
  <2> QED
    BY <2>3 DEF Map!Next
<1>12. CASE UNCHANGED vars
    BY <1>12 DEF vars, table, iterator, Map!vars
<1> QED
    BY <1>1, <1>2, <1>3, <1>4, <1>5, <1>6, <1>7, <1>8, <1>9, <1>10, <1>11, <1>12
    DEF Next, Call, Step

(* The table implements the map that ht.h describes, whatever the hash     *)
(* function, the capacities and the allocations that fail.                 *)
THEOREM TableImplementsMap == Spec => ImplementsMap
<1>1. Init => TypeOK /\ IInv /\ IterationInv
    BY InitTypeOK, InitIInv, InitIterationInv
<1>2. TypeOK /\ IInv /\ IterationInv /\ [Next]_vars => (TypeOK /\ IInv /\ IterationInv)'
    BY NextTypeOK, NextIInv, NextIterationInv
<1> QED
    BY <1>1, <1>2, InitRefines, NextRefines, PTL DEF Spec, ImplementsMap, Map!Spec
=============================================================================
